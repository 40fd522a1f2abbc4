SPECIFICATION FairSpec
CONSTANTS
    Threads = {t1, t2}
    Types <- PairTypes
    Derives <- PairDerives
    Derive <- PairDerive
    Generic = {"Wrap"}
    Names = {"P", "P2", "W", "Item"}
    Short <- PairShort
    Serialized <- PairSerialized
    Fields <- PairFields
    Contained <- PairContained
INVARIANTS TypeOK ReturnsFullSet RegisteredOnceDone CollectedDependsOnValueOnly
PROPERTIES CallsReturn
