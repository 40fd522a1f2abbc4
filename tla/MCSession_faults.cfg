SPECIFICATION Spec
CONSTANTS
    Threads = {t1, t2}
    Sessions = {s1}
    Paths = {s1}
    PathOf <- OwnPaths
    CapturesPerThread = 2
    NoOpen = {TRUE, FALSE}
    Faults = {"write", "rename", "bind", "browser", "stderr"}
    Requests = {"captures", "other", "silent"}
    Viewer = Viewer
    NoThread = NoThread
SYMMETRY Symmetry
INVARIANTS
    TypeOK
    SnapshotIsPrefix
    SnapshotIsCurrent
    StartedAtMostOnce
    OpenedSnapshotIsLive
    ResponseIsCurrent
PROPERTIES
    SnapshotNeverRegresses
    ImplementsLog
    ReturnsAfterOpening
