\* Two workers, room for one waiting client, two clients, one key; fair threads,
\* clients that read or go away in the end.  accept() may fail again and again.
CONSTANTS
    NULL = NULL
    Other = Other
    Workers = {w1, w2}
    Clients = {c1, c2}
    Keys = {k1}
    Values = {v1}
    Flights = {f1, f2}
    Answers <- MCAnswers
    Capacity = 1
SPECIFICATION FairSpec
INVARIANTS
    OneOwner
    StoppedClean
    CountersFit
PROPERTIES
    ShutdownEnds
    EveryClientServed
    ListenerComesBack
