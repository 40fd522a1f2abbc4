SPECIFICATION Spec
CONSTANTS
    Catalogue <- MCCatalogue
    MaxAttributes = 2
    Fields <- MCFields
    Met <- MCMet
\* An expansion ends.
CHECK_DEADLOCK FALSE
INVARIANTS
    TypeOK
    RefusesExactlyInvalid
    WarnsOfDeprecatedLists
    RulesSayWhatIsWritten
    SourcesPointHome
    MergedOnce
