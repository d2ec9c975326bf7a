CONSTANTS
    Session = {s1, s2}
    Growing = {s1}
    Kinds = {"claude", "codex"}
    MaxHalves = 6
    MaxWatches = 2
    None = None
    Sessions = {s1}
    Calls = {x1}
    AppReaders = {a1}
    OwnReaders = {}
    Reconciler = reconciler
    NoSession = nosession
    PageSize = 1
    MaxLines = 2
    MaxSeconds = 2
    MaxRemovals = 1
    MaxSyncs = 1
    MaxPages = 1
SPECIFICATION MCSpec
INVARIANTS
    FeedIsTheTranscript
PROPERTIES
    FeedGoesOn
    ListCatchesUp
CHECK_DEADLOCK FALSE
