\* One listener, three workers, room for three of five sockets.
SPECIFICATION FairSpec
CONSTANTS
    Producers = {listener}
    Consumers = {w1, w2, w3}
    Stopper = destructor
    Tasks = {c1, c2, c3, c4, c5}
    NULL = NULL
    max_capacity = 3
INVARIANTS
    TypeOK
    NoTaskStranded
PROPERTIES
    ImplementsTaskQueue
    EveryoneLeaves
