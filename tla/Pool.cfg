\* Three workers and a pool asked for three connections that opens one to three.
\* The constructor throws when it opens none, and there the program ends.
SPECIFICATION FairSpec
CONSTANTS
    Workers = {w1, w2, w3}
    NULL = NULL
    pool_size = 3
CHECK_DEADLOCK FALSE
INVARIANTS
    TypeOK
    SlotsConserved
    NoSlotStranded
    FullPoolNeverWaits
PROPERTIES
    EveryQueryEnds
