CONSTANT
    Grammars <- Careful
SPECIFICATION Spec
INVARIANTS
    TypeOK
    NoFault
    PlaceTakenBack
PROPERTY Delivers
