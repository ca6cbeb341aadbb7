CONSTANTS
    a = a
    b = b
    NoUnit = NoUnit
    Files <- OneFile
    StructsOf <- NoStructs
    TemplatesOf <- TwoTemplates
    ParamOf <- SharedParams
    FieldTexts <- PointerFields
    Texts <- OneMention
    MaxItems = 3
    MaxDeferred = 4
SPECIFICATION Spec
INVARIANT ParamsMapped
