SPECIFICATION Spec
CONSTANTS
    Threads = {t1, t2}
    Types <- ItemTypes
    Derives <- ItemTypes
    Derive <- Self
    Generic = {}
    Names = {"L", "R", "Item"}
    Short <- ItemShort
    Serialized <- ItemSerialized
    Fields <- ItemFields
    Contained <- ItemContained
INVARIANTS OnlyRelatedRules
