CONSTANT
    Grammars <- AnyOperands
SPECIFICATION Spec
INVARIANT NoFault
