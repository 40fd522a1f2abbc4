SPECIFICATION FairSpecProgram
CONSTANTS
    Threads = {t1, t2}
    Sessions = {s1}
    Paths = {s1}
    PathOf <- OwnPaths
    CapturesPerThread = 2
    Calls <- TwoCalls
    Twice = t1
    Nested = {"export"}
    NoOpen = {TRUE, FALSE}
    Faults = {"write", "bind", "browser", "stderr"}
    Requests = {"silent"}
    Viewer = Viewer
    NoThread = NoThread
PROPERTIES
    DbgReturns
    ViewerStarts
CHECK_DEADLOCK FALSE
