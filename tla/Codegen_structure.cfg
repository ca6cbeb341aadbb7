CONSTANTS
    MaxNodes = 8
    MaxStmts = 2
    RetKinds = {"void", "scalar", "aggregate"}
    LhsKinds = {"leaf", "op", "and", "or"}
SPECIFICATION Spec
INVARIANTS
    TypeOK
    EdgesMirror
    Sealed
    NoDangling
    BlocksOwned
    LoopContext
PROPERTY ForwardOnly
