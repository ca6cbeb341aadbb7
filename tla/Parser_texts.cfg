CONSTANTS
    Lexicons <- AllTexts
    Declared <- Params
SPECIFICATION Spec
INVARIANTS
    TypeOK
    HeldOnce
    InTextOrder
    OperandToTighter
    LookaheadAgrees
    NothingLeft
    EndKept
PROPERTY Ends
