SPECIFICATION FairSpec
CONSTANTS
    Threads = {t1, t2}
    Types <- GraphTypes
    Derives <- GraphTypes
    Derive <- Self
    Generic = {}
    Names = {"N", "E"}
    Short <- GraphShort
    Serialized <- GraphShort
    Fields <- GraphFields
    Contained <- GraphContained
PROPERTIES CallsReturn
CHECK_DEADLOCK FALSE
