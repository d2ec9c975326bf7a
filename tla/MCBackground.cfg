CONSTANTS
    t1 = t1
    c1 = c1
    f = f
    Task = {t1}
    Client = {c1}
    MaxRuns = 2
    Paths = {f, g}
    Scanners = {r}
    ReconciliationLoop = loop
    NoPath = nopath
    MaxChanges = 3
    MaxRebuilds = 1
SPECIFICATION MCSpec
INVARIANTS
    RunsAreOrderly
    

    
    
CHECK_DEADLOCK FALSE
