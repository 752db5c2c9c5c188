\* Streams of four symbols, whatever they are, and up to three more, in reads of up
\* to two; four symbols are within the limit.
CONSTANTS
    MaxSent = 4
    Symbols <- MCSymbols
    Streams <- MCStreams
    Results <- MCResults
    ChunkSize = 2
    MAX_QUERY_SIZE = 4
SPECIFICATION Spec
INVARIANTS
    TypeOK
    QueryAsSent
    AnswerWhole
