CONSTANTS
    Byte = 2
    Word = 3
    Families <- Tried
SPECIFICATION Spec
INVARIANTS
    TypeOK
    NullDeref
    LabelsTrue
    WellTyped
    ComputesAsWritten
    AcceptedIsLowered
