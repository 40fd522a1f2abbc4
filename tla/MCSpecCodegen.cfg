SPECIFICATION Spec
CONSTANTS
    Changes <- MCChanges
    MaxReleases = 2
\* The generator may refuse the last release.
CHECK_DEADLOCK FALSE
INVARIANTS
    GreenTablesDescribe
    GreenReferenceAgrees
