CONSTANTS
    MaxNodes = 7
    MaxStmts = 2
    RetKinds = {"void"}
    LhsKinds = {"leaf", "and", "or"}
SPECIFICATION Spec
INVARIANT PhiCoversPreds
