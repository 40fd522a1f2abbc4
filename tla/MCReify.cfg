SPECIFICATION Spec
CONSTANTS
    Names <- MCNames
    Pieces <- MCPieces
    Spelling <- MCSpelling
    Decimal <- MCPositions
    Types <- MCTypes
    Forms <- MCForms
    Roots = {"outer", "choices", "pair", "odd"}
    MaxLen = 3
    MaxDepth = 6
    Parsed = {"bool", "u64", "f64", "choice", "none"}
INVARIANTS
    TypeOK
    EqualValuesShare
    PartOfOne
    HeadersDescribe
    RecordsApart
    RoundTrip
    SelfDescribing
CHECK_DEADLOCK FALSE
