CONSTANTS
    a = a
    b = b
    NoUnit = NoUnit
    Files <- TwoFiles
    StructsOf <- Structs
    TemplatesOf <- OneTemplateEach
    ParamOf <- OwnParams
    FieldTexts <- Fields
    Texts <- Mentions
    MaxItems = 4
    MaxDeferred = 4
SPECIFICATION Spec
INVARIANTS
    TypeOK
    EveryTypeMeant
    OneSpecialization
    FieldsSubstituted
    VerdictOfTexts
