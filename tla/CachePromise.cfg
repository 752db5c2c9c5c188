\* The protocol implements ReadThrough and answers every request, with one line,
\* a TTL of one tick and a clock that runs on: expired lines, lines that expire
\* between a lookup and the reply, reused nodes.
CONSTANTS
    k1 = k1
    k2 = k2
    k3 = k3
    k4 = k4
    v1 = v1
    v2 = v2
    v3 = v3
    v4 = v4
    NULL = NULL
    Workers = {w1, w2}
    Nodes = {n1, n2, n3}
    Keys = {k1, k2}
    Values = {v1, v2}
    Answers <- MCAnswers
    SizeOf <- MCSizeOf
    total_cachelines = 1
    TTL = 1
    MaxTime = 2
    AllocFails = FALSE
SPECIFICATION FairSpec
INVARIANTS
    PayloadExact
    BoundedStaleness
PROPERTIES
    ImplementsReadThrough
    EveryRequestAnswered
