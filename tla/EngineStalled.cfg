\* One worker, one client that is free not to read its reply.
CONSTANTS
    NULL = NULL
    Other = Other
    Workers = {w1}
    Clients = {c1}
    Keys = {k1}
    Values = {v1}
    Flights = {f1, f2}
    Answers <- MCAnswers
    Capacity = 1
SPECIFICATION ServerSpec
PROPERTIES
    InactiveClientsDontStall
