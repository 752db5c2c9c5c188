\* A client sends a newline after the delimiter and it is not in the last read.
CONSTANTS
    MaxSent = 2
    Symbols <- MCSymbols
    Streams <- MCStreams
    Results <- MCResults
    ChunkSize = 2
    MAX_QUERY_SIZE = 4
SPECIFICATION Spec
INVARIANTS
    ResponseDelimited
