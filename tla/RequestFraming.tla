---------------------------- MODULE RequestFraming ----------------------------
(***************************************************************************)
(* One request on its connection: readQuery, the choice of what answers it,*)
(* writeAll and close() on the worker's side, and the client's side.       *)
(*                                                                         *)
(* A stream is a sequence of symbols, the delimiter "<EOQ>" is two of them,*)
(* so that it may be split between two reads.  The connection delivers each*)
(* direction in order and in pieces of any size.  What the kernel does on  *)
(* close() is part of the model: with input that was not read, now or when *)
(* it arrives, it resets the connection, and what it has not sent yet of   *)
(* the reply is lost (RFC 2525, 2.17; tcp_close in Linux).                 *)
(***************************************************************************)
EXTENDS Integers, Sequences, FiniteSetsExt

CONSTANTS
    Symbols,        \* what text is made of
    Streams,        \* what a client may send
    Results,        \* what the cache or the database may answer
    ChunkSize,      \* of a read (512)
    MAX_QUERY_SIZE  \* 65536

Blank     == "blank"                \* space, newline, carriage return, tab
Paren     == "("
Keyword   == "select"               \* SELECT, WITH, EXPLAIN
Delimiter == <<"<E", "OQ>">>
STATS     == <<"stats">>            \* STATS, STATS_JSON

\* The texts the server makes up by itself.
TooLarge  == <<"too large">>
Violation == <<"read only">>
Report    == <<"report">>
Failure   == <<"failed">>

NoQuery == <<"none">>

ASSUME FramingAssumption ==
    /\ {Blank, Delimiter[1], Delimiter[2]} \subseteq Symbols
    /\ {"none", "too large"} \cap Symbols = {}
    /\ Streams \subseteq Seq(Symbols)
    /\ Results \subseteq Seq(Symbols)
    /\ ChunkSize \in Nat \ {0} /\ MAX_QUERY_SIZE \in Nat

VARIABLES
    sent,       \* all that the client sends, in the end
    buffer,     \* what readQuery has read of it
    at,         \* where the worker is
    query,      \* what readQuery returned, NoQuery until then
    reply,      \* what is to be written
    written,    \* how much of it is, and will be delivered
    received,   \* how much of it the client has
    client      \* whether it still waits for its reply

reading == <<sent, buffer, query>>
replying == <<reply, written>>
listening == <<received, client>>
vars == <<reading, at, replying, listening>>

Prefix(s, n) == SubSeq(s, 1, n)

\* Where the delimiter is found in s.
Found(s) == {i \in 1 .. Len(s) - 1 : s[i] = Delimiter[1] /\ s[i + 1] = Delimiter[2]}

Trim(s) == LET ink == {i \in DOMAIN s : s[i] # Blank}
           IN  IF ink = {} THEN <<>> ELSE SubSeq(s, Min(ink), Max(ink))

\* The first word of q, after blanks and parentheses, is one that reads.
isReadOnlyQuery(q) ==
    LET ink == {i \in DOMAIN q : q[i] \notin {Blank, Paren}}
    IN  ink # {} /\ q[Min(ink)] = Keyword

Unread == Len(sent) > Len(buffer)

Init ==
    /\ sent \in Streams
    /\ buffer = <<>>
    /\ at = "read"
    /\ query = NoQuery
    /\ reply = <<>> /\ written = 0
    /\ received = 0
    /\ client = "waits"

-----------------------------------------------------------------------------
(* The worker                                                              *)

\* Every text the server sends ends with the delimiter on a line of its own.
Framed(text) == text \o <<Blank>> \o Delimiter \o <<Blank>>

\* Mutant: the limit is never enforced.
ExceedsNever == FALSE

Exceeds == Len(buffer') > MAX_QUERY_SIZE

\* Mutant: only the piece just read is searched.
SearchPiece == {i \in Found(buffer') : i > Len(buffer)}

\* All that has been read so far is searched for the delimiter.
Search == Found(buffer')

\* read() returns n bytes: too many in all, enough for a query, or not yet.
Read(n) ==
    /\ at = "read"
    /\ Len(buffer) + n <= Len(sent)
    /\ buffer' = Prefix(sent, Len(buffer) + n)
    /\ \/ /\ Exceeds
          /\ at' = "write" /\ reply' = Framed(TooLarge) /\ query' = <<>>
       \/ /\ ~Exceeds /\ Search # {}
          /\ query' = Trim(Prefix(buffer', Min(Search) - 1))
          /\ at' = IF query' = <<>> THEN "close" ELSE "serve"
          /\ UNCHANGED reply
       \/ ~Exceeds /\ Search = {} /\ UNCHANGED <<at, query, reply>>
    /\ UNCHANGED <<sent, written, listening>>

\* Five seconds without input, or the client is gone.
ReadFails ==
    /\ at = "read"
    /\ at' = "close" /\ query' = <<>>
    /\ UNCHANGED <<sent, buffer, replying, listening>>

Answers == CASE query = STATS            -> {Report}
             [] ~isReadOnlyQuery(query)  -> {Violation}
             [] OTHER                    -> Results \cup {Failure}

Serve(text) ==
    /\ at = "serve"
    /\ text \in Answers
    /\ reply' = Framed(text)
    /\ at' = "write"
    /\ UNCHANGED <<reading, written, listening>>

\* Mutant: what write() did not take is not tried again.
WriteOnce(n) ==
    /\ at = "write"
    /\ written + n <= Len(reply)
    /\ written' = written + n
    /\ at' = "close"
    /\ UNCHANGED <<reading, reply, listening>>

\* write() takes n bytes of what remains.
Write(n) ==
    /\ at = "write"
    /\ written + n <= Len(reply)
    /\ written' = written + n
    /\ at' = IF written' = Len(reply) THEN "close" ELSE "write"
    /\ UNCHANGED <<reading, reply, listening>>

\* write() fails on a connection whose client has gone.
WriteFails ==
    /\ at = "write"
    /\ client # "waits"
    /\ at' = "close"
    /\ UNCHANGED <<reading, replying, listening>>

Close ==
    /\ at = "close"
    /\ at' = "closed"
    /\ written' \in IF Unread THEN received .. written ELSE {written}
    /\ UNCHANGED <<reading, reply, listening>>

-----------------------------------------------------------------------------
(* The client                                                              *)

\* The client reads until it has seen the delimiter.
Receive(n) ==
    /\ client = "waits"
    /\ received + n <= written
    /\ received' = received + n
    /\ client' = IF Found(Prefix(reply, received')) # {} THEN "answered" ELSE "waits"
    /\ UNCHANGED <<reading, at, replying>>

\* The connection ends, orderly or not, and the client has no answer.
ConnectionEnds ==
    /\ client = "waits"
    /\ at = "closed" /\ received = written
    /\ client' = "cut"
    /\ UNCHANGED <<reading, at, replying, received>>

\* The client has waited long enough.
Leave ==
    /\ client = "waits"
    /\ client' = "left"
    /\ UNCHANGED <<reading, at, replying, received>>

Done == at = "closed" /\ client # "waits" /\ UNCHANGED vars

Next ==
    \/ \E n \in 1 .. ChunkSize : Read(n)
    \/ ReadFails
    \/ \E text \in Results \cup {Report, Violation, Failure} : Serve(text)
    \/ \E n \in 1 .. Len(reply) : Write(n) \/ Receive(n)
    \/ WriteFails \/ Close
    \/ ConnectionEnds \/ Leave
    \/ Done

Spec == Init /\ [][Next]_vars

-----------------------------------------------------------------------------
(* Properties                                                              *)

\* Every variable keeps its type, and the buffer is at most one read longer than
\* the limit ("Guard against unbounded memory allocation", CacheEngine.hpp:152).
TypeOK ==
    /\ sent \in Seq(Symbols)
    /\ \E n \in 0 .. Len(sent) : buffer = Prefix(sent, n)
    /\ Len(buffer) <= MAX_QUERY_SIZE + ChunkSize
    /\ at \in {"read", "serve", "write", "close", "closed"}
    /\ query = NoQuery <=> at = "read"
    /\ received \in 0 .. Len(reply) /\ written \in received .. Len(reply)
    /\ client \in {"waits", "answered", "cut", "left"}

\* However the stream was cut, the delimiter included, the query is the text
\* before the first delimiter of the whole stream, and a query whose delimiter is
\* beyond the limit is never accepted, nor a stream within the limit refused as
\* too large (CacheEngine.hpp:150-168).
QueryAsSent ==
    /\ query \notin {NoQuery, <<>>} =>
          /\ Found(sent) # {} /\ Min(Found(sent)) < MAX_QUERY_SIZE
          /\ query = Trim(Prefix(sent, Min(Found(sent)) - 1))
    /\ reply = Framed(TooLarge) => Len(sent) > MAX_QUERY_SIZE

\* What the client makes of what it has received, a piece that may go beyond the
\* first delimiter: the delimiters are removed (web_dashboard.py:26).
Answer ==
    LET s == Prefix(reply, received)
        inDelimiter == Found(s) \cup {i + 1 : i \in Found(s)}
        text == [i \in DOMAIN s |-> IF i \in inDelimiter THEN Blank ELSE s[i]]
    IN  Trim(text)

Text == Prefix(reply, Len(reply) - Len(Framed(<<>>)))

\* A client that gets an answer gets the whole text the server wrote, through any
\* number of partial writes and reads, unless the text has a delimiter in it.  A
\* client that waited and got none was given up by the server, or had sent more
\* than the server read (CacheEngine.hpp:117-130, 249-251).
AnswerWhole ==
    /\ client = "answered" /\ Found(Text) = {} => Answer = Trim(Text)
    /\ client = "cut" => query = <<>> \/ Unread

\* "Response is returned with trailing <EOQ> delimiter" (README.md:49): a client
\* whose query was read and who waits for its response gets it.
ResponseDelimited == client = "cut" => query = <<>>

=============================================================================
