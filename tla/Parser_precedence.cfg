CONSTANTS
    Lexicons <- JustOperators
    Declared <- Params
SPECIFICATION Spec
INVARIANT GroupedByPrecedence
