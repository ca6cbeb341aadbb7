CONSTANTS
    MaxNodes = 7
    MaxStmts = 2
    RetKinds = {"aggregate"}
    LhsKinds = {"leaf"}
SPECIFICATION RunSpec
INVARIANT RunsAsWritten
