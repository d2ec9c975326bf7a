CONSTANTS
    main = main
    topic = topic
    p = p
    q = q
    Main = main
    Paths = {p, q}
    Callers = {k1, k2}
    Entries = {1, 2}
    NoEntry = none
    MaxDiskSteps = 1
    MaxLookups = 3
    Branches = {main, topic}
    None = none
    Changes = {x, y}
    Clients = {c1, c2}
    MaxStash = 2
    MaxCalls = 3
    Phones = {c1, c2}
    Requests = {x, y}
    Torn = torn
    Nobody = nobody
    MaxTokens = 4
    MaxApproved = 2
    MaxAsks = 2
    MaxTroubles = 2
    Keys = {k1, k2}
    Conns = {n1}
    MaxRequests = 2
    Window = 2
    MaxTime = 7
SPECIFICATION MCSpec
INVARIANTS
    InitIsServed
    ShownIsMeant
    HeldPairWorks
    RateIsHeld
PROPERTIES
    
    ApprovedIsServed
CHECK_DEADLOCK FALSE
SYMMETRY Symmetry
