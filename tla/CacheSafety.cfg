\* Three workers compete for four keys and a single line (a configured
\* capacity of zero): leaders, followers, eviction, overflow.  Any copy of a
\* result may throw, before or after the line is READY.  Lengths are zero:
\* payload_bytes, which is not lowered when a READY line is cancelled, would grow
\* for ever.
CONSTANTS
    k1 = k1
    k2 = k2
    k3 = k3
    k4 = k4
    v1 = v1
    v2 = v2
    v3 = v3
    v4 = v4
    NULL = NULL
    Workers = {w1, w2, w3}
    Nodes = {n1, n2, n3, n4}
    Keys = {k1, k2, k3, k4}
    Values = {v1, v2, v3, v4}
    Answers <- MCAnswers
    SizeOf <- MCNoSize
    total_cachelines = 0
    TTL = 0
    MaxTime = 0
    AllocFails = TRUE
SPECIFICATION Spec
SYMMETRY Symmetry
INVARIANTS
    TypeOK
    DirectoryConsistent
    CapacityBound
    AnswerMatchesQuery
    SingleFlight
    FailedNotCached
    SleepersWillBeWoken
PROPERTIES
    InFlightProtected
