CONSTANTS
    c1 = c1
    c2 = c2
    w1 = w1
    w2 = w2
    Client = {c1, c2}
    Workspace = {w1, w2}
    Global = Global
    QueueSize = 1
    BufferSize = 1
    MaxEvents = 2
    None = None
    Workspaces = {w1, w2}
    Devices = {d1}
    Callers = {c1, c2}
    MaxFails = 1
    MaxRestarts = 1
SPECIFICATION MCSpec
INVARIANTS
    ClientsAreServed
    
PROPERTIES
    KeepsOrder
    HubGoesOn
    
CHECK_DEADLOCK FALSE
