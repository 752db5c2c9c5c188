\* Two threads that report, two that serve, time for two windows, three requests.
CONSTANTS
    NULL = NULL
    Reporters = {r1, r2}
    Workers = {w1, w2}
    Window = 2
    ServerStart = 2
    MaxTime = 6
    MaxRequests = 3
SPECIFICATION Spec
SYMMETRY Symmetry
INVARIANTS
    TypeOK
    ThroughputIsRecent
    TotalAccountedFor
PROPERTIES
    WindowsAdvance
