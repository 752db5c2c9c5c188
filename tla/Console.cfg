\* Numbers below, at and above zero, of which a size_t makes 15, 0 and 2, or the
\* defaults; input that ends anywhere, signals at any time.
CONSTANTS
    Numbers <- MCNumbers
    Empty = Empty
    Bad = Bad
    WordSize = 16
SPECIFICATION FairSpec
INVARIANTS
    NoThreadOutlivesMain
    ServesAsConfigured
PROPERTIES
    StopsWhenTold
