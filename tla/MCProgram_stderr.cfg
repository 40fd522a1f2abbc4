SPECIFICATION FairSpecProgram
CONSTANTS
    Threads = {t1, t2}
    Sessions = {s1}
    Paths = {s1}
    PathOf <- OwnPaths
    CapturesPerThread = 2
    Calls <- TwoCalls
    Twice = t1
    Nested = {"format"}
    NoOpen = {FALSE}
    Faults = {"bind"}
    Requests = {}
    Viewer = Viewer
    NoThread = NoThread
PROPERTIES
    DbgReturns
CHECK_DEADLOCK FALSE
