\* Nobody enters a line after the signal.
CONSTANTS
    Numbers <- MCNumbers
    Empty = Empty
    Bad = Bad
    WordSize = 16
SPECIFICATION FairSpec
PROPERTIES
    SignalStops
