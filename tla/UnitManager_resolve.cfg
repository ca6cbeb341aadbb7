CONSTANTS
    a = a
    b = b
    c = c
    NoUnit = NoUnit
    Files <- ThreeFiles
    Names = {"f"}
    Aliases = {"n"}
    MaxItems = 4
    MaxInFile = 2
SPECIFICATION Spec
INVARIANTS
    TypeOK
    VerdictOfFiles
    SeesWhatItUses
    TypesKeptApart
    DeclaredApart
