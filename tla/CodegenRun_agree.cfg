CONSTANTS
    MaxNodes = 7
    MaxStmts = 2
    RetKinds = {"void", "scalar"}
    LhsKinds = {"leaf", "op"}
SPECIFICATION FairRunSpec
INVARIANTS
    RunsAsWritten
    NeverStuck
    OperandsDefined
    PhiCoversPreds
PROPERTY NoSilentLoop
