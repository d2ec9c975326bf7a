CONSTANTS
    Clients = {c1, c2}
    Procs = {p1, p2}
    MaxCalls = 3
    Window = 30
    EnoughOptions = 3
    EnoughTrust = 2
    Dialogs = {"trust2"}
    MaxRuns = 2
    MaxPrints = 2
    MaxInputs = 1
SPECIFICATION MCSpec
INVARIANTS
    ProcessesAreKnown
    ClaudeIsShown
PROPERTIES
    StopsTakeEffect
    NothingLingers
CHECK_DEADLOCK FALSE
