CONSTANTS
    f = f
    g = g
    v1 = v1
    v2 = v2
    Files = {f, g}
    Contents = {v1, v2}
    Absent = absent
    Clients = {c1, c2}
    Watchers = {w1}
    MaxCalls = 2
    Pictures = {1, 3}
    MaxImages = 2
    MaxSize = 4
    TTL = 2
    MaxUploads = 3
    MaxClock = 4
    MaxMishaps = 1
    Sessions = {s1}
    Calls = {x1}
    AppReaders = {c1, c2}
    OwnReaders = {o1}
    Reconciler = reconciler
    NoSession = nosession
    PageSize = 1
    MaxLines = 2
    MaxSeconds = 2
    MaxRemovals = 1
    MaxSyncs = 1
    MaxPages = 2
    Rollouts = {r1, r2}
    Askers = {c1, c2}
    NoOne = noone
    MaxRolloutWrites = 3
    MaxUses = 2
    MaxLapses = 1
    Limit = 2
    Cap = 4
    MaxItems = 5
    MaxCommits = 4
    PageLimit = 3
    MaxDirectory = 7
    PathSets = {{1}, {6}, {7}}
    Seekers = {c1, c2}
    Refreshers = {r1, r2}
    ScanWorkers = {d1, d2}
    MaxDepth = 2
    QueueCap = 3
    MaxSearches = 2
    MaxClones = 1
SPECIFICATION MCSpec
INVARIANTS
    AnswersHold
    FeedCatchesUp
    UploadsAreKept
    
    PageIsWhole
    
    
CHECK_DEADLOCK FALSE
SYMMETRY Symmetry
