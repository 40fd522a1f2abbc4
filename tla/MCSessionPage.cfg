SPECIFICATION FairSpecPage
CONSTANTS
    Threads = {t1, t2}
    Sessions = {s1}
    Paths = {s1}
    PathOf <- OwnPaths
    CapturesPerThread = 1
    NoOpen = {FALSE}
    Faults = {"write", "bind", "stderr"}
    Requests = {"silent"}
    Viewer = Viewer
    NoThread = NoThread
    Tab = s1
    MaxInFlight = 1
    HasToolbar = FALSE
PROPERTIES
    ImplementsPage
    EveryCaptureShown
