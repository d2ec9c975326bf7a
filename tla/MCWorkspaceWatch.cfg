SPECIFICATION MCSpec
CONSTANTS
    c1 = c1
    c2 = c2
    w1 = w1
    s1 = s1
    s2 = s2
    Client = {c1, c2}
    Daemon = Daemon
    Workspace = {w1}
    Session = {s1, s2}
    MaxCount = 2
    None = None
INVARIANTS
    WatchersAgree
PROPERTIES
    StreamsOutliveOthers
    LeaversLeaveNothing
