\* Requests for up to three threads, some of which may fail to start; five
\* identities, so that threads that leave overlap with those that start.
CONSTANTS
    Threads = {t1, t2, t3, t4, t5}
    MaxThreads = 3
SPECIFICATION FairSpec
INVARIANTS
    WithinLimit
    ActiveIsLive
PROPERTIES
    TargetReached
