------------------------------- MODULE Cache --------------------------------
(***************************************************************************)
(* The cache of AnemoDB and the protocol its worker threads follow on it.  *)
(*                                                                         *)
(* A worker that asks for a key that is not cached reserves a line for it  *)
(* and becomes its leader: it queries the database and completes the       *)
(* reservation, or cancels it if anything throws.  Workers that ask for    *)
(* the same key in the meantime follow: they sleep on the line's condition *)
(* variable.  The list of lines is in LRU order; a reservation evicts READY*)
(* lines from its tail and may exceed the capacity when none is READY.     *)
(*                                                                         *)
(* Two kinds of mutex protect the state: cache_mutex (list and directory)  *)
(* and one node_mtx per line (value, expiry).  A line's state is written   *)
(* under its node_mtx only, and read by the evicting thread under          *)
(* cache_mutex only.  One action is what a thread does between two points  *)
(* where another thread can see or change what it works on.                *)
(***************************************************************************)
EXTENDS Integers, FiniteSets, SequencesExt

CONSTANTS
    Workers,            \* the worker threads
    Keys,               \* query texts
    Values,             \* formatted query results
    Nodes,              \* addresses of CacheNode objects
    NULL,               \* no thread, no line, no value
    total_cachelines,   \* the capacity given to the constructor
    TTL,                \* ttl_seconds
    MaxTime,            \* bound on the clock
    Answers,            \* what the database may answer to each key
    SizeOf,             \* length in bytes of each key and value
    AllocFails          \* whether copying a result may throw bad_alloc

ASSUME CacheAssumption ==
    /\ IsFiniteSet(Workers) /\ Workers # {}
    /\ NULL \notin Workers \cup Keys \cup Values \cup Nodes
    /\ Values \cap {"unused", "open", "failed"} = {}   \* see OutcomeOf
    /\ total_cachelines \in Nat
    /\ TTL \in Nat
    /\ MaxTime \in Nat
    /\ Answers \in [Keys -> SUBSET Values]
    /\ SizeOf \in [Keys \cup Values -> Nat]
    /\ AllocFails \in BOOLEAN

VARIABLES
    pc,             \* where each worker is
    query,          \* the key each worker serves
    line,           \* the cacheline each worker holds (a shared_ptr)
    response,       \* dbResult and, later, final_response of each worker
    lookupAt,       \* history: when each worker looked its key up
    cache_mutex,    \* its owner
    node_mtx,       \* the owner of each line's mutex
    cacheLines,     \* LRU list of lines, most recently used first
    cacheDirectory, \* the line of each key
    scan,           \* iterator of evictReadyNode's slow path, 0 when unused
    payload_bytes,
    node,           \* the CacheNode objects
    now             \* steady_clock

served    == <<query, line, lookupAt>>
cacheVars == <<cacheLines, cacheDirectory, payload_bytes>>
shared    == <<cache_mutex, node_mtx, cacheVars, scan, node, now>>
vars      == <<pc, response, served, shared>>

-----------------------------------------------------------------------------

\* The constructor turns a capacity of zero into one.
Capacity == IF total_cachelines = 0 THEN 1 ELSE total_cachelines

\* Memory that holds no CacheNode.
Free == [key |-> NULL, value |-> NULL, state |-> "FREE", expires |-> 0,
         published |-> 0, leader |-> NULL]

\* A line as it is constructed; leader and published are history.
NewNode(k, w) == [Free EXCEPT !.key = k, !.state = "IN_PROGRESS", !.leader = w]

NoResponse == [kind |-> "NONE",  value |-> NULL]
Miss(v)    == [kind |-> "MISS",  value |-> v]
Hit(v)     == [kind |-> "HIT",   value |-> v]
Error      == [kind |-> "ERROR", value |-> NULL]

Position(n) == CHOOSE i \in DOMAIN cacheLines : cacheLines[i] = n
Without(n)  == RemoveAt(cacheLines, Position(n))

Size(text) == IF text = NULL THEN 0 ELSE SizeOf[text]

\* Mutant: two terminators are given back that were never accounted for.
TerminatedBytes(n) == Size(node[n].key) + Size(node[n].value) + 2

Bytes(n) == Size(node[n].key) + Size(node[n].value)

\* Mutants: a line outlives its TTL; the expiry of a line in flight is used.
ExpiredLate(n)     == node[n].state = "READY" /\ now > node[n].expires + TTL
ExpiredInFlight(n) == now > node[n].expires

Expired(n) == node[n].state = "READY" /\ now > node[n].expires

\* A CacheNode lives as long as the list or a worker points to it.
Reap(heap, lines, held) ==
    [n \in Nodes |-> IF n \in ToSet(lines) \/ \E w \in Workers : held[w] = n
                     THEN heap[n] ELSE Free]

\* Mutant: evicting forgets the directory.
DropKeepsKey(n) ==
    /\ payload_bytes' = payload_bytes - Bytes(n)
    /\ cacheLines' = Without(n)
    /\ node' = Reap(node, Without(n), line)
    /\ UNCHANGED cacheDirectory

\* Take the READY line n out of the list, the directory and the accounting.
Drop(n) ==
    /\ payload_bytes' = payload_bytes - Bytes(n)
    /\ cacheDirectory' = [cacheDirectory EXCEPT ![node[n].key] = NULL]
    /\ cacheLines' = Without(n)
    /\ node' = Reap(node, Without(n), line)

Goto(w, label) == pc' = [pc EXCEPT ![w] = label]

\* The worker goes on with a result and changes nothing that is shared.
Return(w, r, label) ==
    /\ response' = [response EXCEPT ![w] = r]
    /\ Goto(w, label)
    /\ UNCHANGED <<served, shared>>

Init ==
    /\ pc = [w \in Workers |-> "idle"]
    /\ query = [w \in Workers |-> NULL]
    /\ line = [w \in Workers |-> NULL]
    /\ response = [w \in Workers |-> NoResponse]
    /\ lookupAt = [w \in Workers |-> 0]
    /\ cache_mutex = NULL
    /\ node_mtx = [n \in Nodes |-> NULL]
    /\ cacheLines = <<>>
    /\ cacheDirectory = [k \in Keys |-> NULL]
    /\ scan = 0
    /\ payload_bytes = 0
    /\ node = [n \in Nodes |-> Free]
    /\ now = 0

-----------------------------------------------------------------------------
(* lookupOrReserve                                                         *)

\* The call starts, with cache_mutex free to take.
Begin(w, q) ==
    /\ pc[w] = "idle"
    /\ cache_mutex = NULL
    /\ query' = [query EXCEPT ![w] = q]
    /\ lookupAt' = [lookupAt EXCEPT ![w] = now]
    /\ UNCHANGED <<response, node_mtx, scan, now>>

\* The key has a line, in flight or fresh: move it to the front and follow.
LookupHit(w, q) ==
    /\ Begin(w, q)
    /\ cacheDirectory[q] # NULL
    /\ ~Expired(cacheDirectory[q])
    /\ cacheLines' = Cons(cacheDirectory[q], Without(cacheDirectory[q]))
    /\ line' = [line EXCEPT ![w] = cacheDirectory[q]]
    /\ Goto(w, "follow")
    /\ UNCHANGED <<cache_mutex, cacheDirectory, payload_bytes, node>>

\* The key's line has expired: erase it and go on as if it had none.
LookupExpired(w, q) ==
    /\ Begin(w, q)
    /\ cacheDirectory[q] # NULL
    /\ Expired(cacheDirectory[q])
    /\ Drop(cacheDirectory[q])
    /\ cache_mutex' = w
    /\ Goto(w, "evict")
    /\ UNCHANGED line

\* The key has no line.
LookupMiss(w, q) ==
    /\ Begin(w, q)
    /\ cacheDirectory[q] = NULL
    /\ cache_mutex' = w
    /\ Goto(w, "evict")
    /\ UNCHANGED <<line, cacheVars, node>>

\* Mutant: the tail is evicted whatever its state.
EvictTailAnyState(w) ==
    /\ pc[w] = "evict"
    /\ Len(cacheLines) >= Capacity
    /\ Drop(Last(cacheLines))
    /\ UNCHANGED <<pc, response, served, cache_mutex, node_mtx, scan, now>>

\* evictReadyNode, fast path: the tail is READY.
EvictTail(w) ==
    /\ pc[w] = "evict"
    /\ Len(cacheLines) >= Capacity
    /\ node[Last(cacheLines)].state = "READY"
    /\ Drop(Last(cacheLines))
    /\ UNCHANGED <<pc, response, served, cache_mutex, node_mtx, scan, now>>

\* The tail is not READY: scan backward from the end.  The tail may become
\* READY before the scan reads it again.
StartScan(w) ==
    /\ pc[w] = "evict"
    /\ Len(cacheLines) >= Capacity
    /\ node[Last(cacheLines)].state # "READY"
    /\ scan' = Len(cacheLines) + 1
    /\ Goto(w, "scan")
    /\ UNCHANGED <<response, served, cache_mutex, node_mtx, cacheVars, node, now>>

ScanSkips(w) ==
    /\ pc[w] = "scan"
    /\ scan > 1
    /\ node[cacheLines[scan - 1]].state # "READY"
    /\ scan' = scan - 1
    /\ UNCHANGED <<pc, response, served, cache_mutex, node_mtx, cacheVars, node, now>>

ScanEvicts(w) ==
    /\ pc[w] = "scan"
    /\ scan > 1
    /\ node[cacheLines[scan - 1]].state = "READY"
    /\ Drop(cacheLines[scan - 1])
    /\ scan' = 0
    /\ Goto(w, "evict")
    /\ UNCHANGED <<response, served, cache_mutex, node_mtx, now>>

\* Put a new line in front, whatever the length of the list.
TakeLine(w, n) ==
    /\ node' = [node EXCEPT ![n] = NewNode(query[w], w)]
    /\ cacheLines' = Cons(n, cacheLines)
    /\ cacheDirectory' = [cacheDirectory EXCEPT ![query[w]] = n]
    /\ line' = [line EXCEPT ![w] = n]
    /\ scan' = 0
    /\ cache_mutex' = NULL
    /\ Goto(w, "fetch")
    /\ UNCHANGED <<query, response, lookupAt, node_mtx, payload_bytes, now>>

\* Mutant: a line is reused while a follower still holds it.
ReserveHeldLine(w) ==
    /\ \/ pc[w] = "evict" /\ Len(cacheLines) < Capacity
       \/ pc[w] = "scan" /\ scan = 1
    /\ \E n \in Nodes \ ToSet(cacheLines) : TakeLine(w, n)

\* Mutant: only the tail is looked at before giving up.
ReserveAfterTail(w) ==
    /\ \/ pc[w] = "evict" /\ Len(cacheLines) < Capacity
       \/ pc[w] = "scan"
    /\ \E n \in Nodes \ ToSet(cacheLines) :
          (\A u \in Workers : line[u] # n) /\ TakeLine(w, n)

\* There is room, or the scan found nothing to evict.
Reserve(w) ==
    /\ \/ pc[w] = "evict" /\ Len(cacheLines) < Capacity
       \/ pc[w] = "scan" /\ scan = 1
    /\ \E n \in Nodes \ ToSet(cacheLines) :
          (\A u \in Workers : line[u] # n) /\ TakeLine(w, n)

-----------------------------------------------------------------------------
(* The leader                                                              *)

\* queryDatabase returns a result.
FetchOk(w) ==
    /\ pc[w] = "fetch"
    /\ \E v \in Answers[query[w]] : Return(w, Miss(v), "publish")

\* No connection, a lost connection, or a query the database refuses.
FetchThrows(w) == pc[w] = "fetch" /\ Return(w, Error, "cancel")

\* completeReservation up to the accounting, node_mtx held.
CompleteWrite(w) ==
    /\ pc[w] = "publish"
    /\ node_mtx[line[w]] = NULL
    /\ node_mtx' = [node_mtx EXCEPT ![line[w]] = w]
    /\ node' = [node EXCEPT ![line[w]].value = response[w].value,
                            ![line[w]].expires = now + TTL]
    /\ payload_bytes' = payload_bytes + Size(node[line[w]].key)
                                      + Size(response[w].value)
    /\ Goto(w, "ready")
    /\ UNCHANGED <<response, served, cache_mutex, cacheLines, cacheDirectory,
                   scan, now>>

\* The copy of the result into the line throws.
CompleteThrows(w) ==
    AllocFails /\ pc[w] = "publish" /\ Return(w, Error, "cancel")

\* The line becomes READY and node_mtx is released.
CompleteReady(w) ==
    /\ pc[w] = "ready"
    /\ node' = [node EXCEPT ![line[w]].state = "READY",
                            ![line[w]].published = now]
    /\ node_mtx' = [node_mtx EXCEPT ![line[w]] = NULL]
    /\ Goto(w, "notify")
    /\ UNCHANGED <<response, served, cache_mutex, cacheVars, scan, now>>

\* The followers that sleep on the line of w.
Asleep(w) == {u \in Workers : pc[u] = "sleep" /\ line[u] = line[w]}

\* Mutants: only one follower is woken; none is.
NotifyOne(w) ==
    /\ pc[w] = "notify"
    /\ IF Asleep(w) = {} THEN Goto(w, "respond")
       ELSE \E u \in Asleep(w) : pc' = [pc EXCEPT ![w] = "respond", ![u] = "follow"]
    /\ UNCHANGED <<response, served, shared>>
NotifyNobody(w) ==
    pc[w] = "notify" /\ Goto(w, "respond") /\ UNCHANGED <<response, served, shared>>

\* notify_all: every follower asleep on the line goes to look again.
NotifyAll(w) ==
    /\ pc[w] = "notify"
    /\ pc' = [u \in Workers |-> IF u = w THEN "respond"
                                ELSE IF u \in Asleep(w) THEN "follow" ELSE pc[u]]
    /\ UNCHANGED <<response, served, shared>>

\* Building "[CACHE MISS] ..." throws, with the line already READY.
ReplyThrows(w) ==
    /\ AllocFails
    /\ pc[w] = "respond"
    /\ response[w].kind = "MISS"
    /\ Return(w, Error, "cancel")

\* cancelReservation under cache_mutex.
EraseIf(w, mine) ==
    /\ pc[w] = "cancel"
    /\ cache_mutex = NULL
    /\ LET k == node[line[w]].key
       IN  IF mine
           THEN /\ cacheLines' = Without(cacheDirectory[k])
                /\ cacheDirectory' = [cacheDirectory EXCEPT ![k] = NULL]
           ELSE UNCHANGED <<cacheLines, cacheDirectory>>
    /\ Goto(w, "fail")
    /\ UNCHANGED <<response, served, cache_mutex, node_mtx, scan, payload_bytes,
                   node, now>>

\* Mutants: whatever line the key has now is erased; no line is.
CancelEraseAnyLine(w) == EraseIf(w, cacheDirectory[node[line[w]].key] # NULL)
CancelErasesNothing(w) == EraseIf(w, FALSE)

\* The line is erased if it is still the one of its key.
CancelErase(w) == EraseIf(w, cacheDirectory[node[line[w]].key] = line[w])

\* cancelReservation under node_mtx.
CancelFail(w) ==
    /\ pc[w] = "fail"
    /\ node_mtx[line[w]] = NULL
    /\ node' = [node EXCEPT ![line[w]].state = "FAILED"]
    /\ Goto(w, "notify")
    /\ UNCHANGED <<response, served, cache_mutex, node_mtx, cacheVars, scan, now>>

-----------------------------------------------------------------------------
(* The followers                                                           *)

\* The line is in flight: sleep, which releases node_mtx.
FollowerWait(w) ==
    /\ pc[w] = "follow"
    /\ node_mtx[line[w]] = NULL
    /\ node[line[w]].state = "IN_PROGRESS"
    /\ Goto(w, "sleep")
    /\ UNCHANGED <<response, served, shared>>

\* A condition variable may wake a thread that nobody notified.
SpuriousWake(w) ==
    /\ pc[w] = "sleep"
    /\ Goto(w, "follow")
    /\ UNCHANGED <<response, served, shared>>

\* Mutant: the follower does not wait for the line.
FollowerReadsEarly(w) ==
    /\ pc[w] = "follow"
    /\ node_mtx[line[w]] = NULL
    /\ Return(w, IF node[line[w]].state # "FAILED"
                 THEN Hit(node[line[w]].value) ELSE Error, "respond")

\* The line has been completed or cancelled.
FollowerRead(w) ==
    /\ pc[w] = "follow"
    /\ node_mtx[line[w]] = NULL
    /\ node[line[w]].state # "IN_PROGRESS"
    /\ Return(w, IF node[line[w]].state = "READY"
                 THEN Hit(node[line[w]].value) ELSE Error, "respond")

\* The reply is sent and the worker lets go of the line.
Respond(w) ==
    /\ pc[w] = "respond"
    /\ query' = [query EXCEPT ![w] = NULL]
    /\ line' = [line EXCEPT ![w] = NULL]
    /\ response' = [response EXCEPT ![w] = NoResponse]
    /\ lookupAt' = [lookupAt EXCEPT ![w] = 0]
    /\ node' = Reap(node, cacheLines, line')
    /\ Goto(w, "idle")
    /\ UNCHANGED <<cache_mutex, node_mtx, cacheVars, scan, now>>

-----------------------------------------------------------------------------

Tick ==
    /\ now < MaxTime
    /\ now' = now + 1
    /\ UNCHANGED <<pc, response, served, cache_mutex, node_mtx, cacheVars, scan,
                   node>>

Lookup(w) ==
    \E q \in Keys : LookupHit(w, q) \/ LookupExpired(w, q) \/ LookupMiss(w, q)

\* What a worker goes on to do by itself once it has a query.
Step(w) ==
    \/ EvictTail(w) \/ StartScan(w) \/ ScanSkips(w) \/ ScanEvicts(w)
    \/ Reserve(w)
    \/ FetchOk(w) \/ FetchThrows(w)
    \/ CompleteWrite(w) \/ CompleteThrows(w) \/ CompleteReady(w)
    \/ NotifyAll(w) \/ ReplyThrows(w)
    \/ CancelErase(w) \/ CancelFail(w)
    \/ FollowerWait(w) \/ FollowerRead(w)
    \/ Respond(w)

Next ==
    \/ \E w \in Workers : Lookup(w) \/ Step(w) \/ SpuriousWake(w)
    \/ Tick

\* The scheduler runs every thread, the database answers or fails every query,
\* and a thread that keeps finding cache_mutex free gets it in the end.
Fairness == \A w \in Workers : WF_vars(Step(w)) /\ SF_vars(CancelErase(w))

Spec == Init /\ [][Next]_vars
FairSpec == Spec /\ Fairness

-----------------------------------------------------------------------------
(* Properties                                                              *)

Labels == {"idle", "evict", "scan", "fetch", "publish", "ready", "notify",
           "cancel", "fail", "follow", "sleep", "respond"}

Responses == {NoResponse, Error} \cup {Miss(v) : v \in Values}
                                 \cup {Hit(v) : v \in Values}

CacheNodes == [key : Keys \cup {NULL}, value : Values \cup {NULL},
               state : {"IN_PROGRESS", "READY", "FAILED", "FREE"},
               expires : Nat, published : Nat, leader : Workers \cup {NULL}]

\* Every variable keeps its type; a worker that answers with a value has one.
TypeOK ==
    /\ pc \in [Workers -> Labels]
    /\ query \in [Workers -> Keys \cup {NULL}]
    /\ line \in [Workers -> Nodes \cup {NULL}]
    /\ response \in [Workers -> Responses]
    /\ lookupAt \in [Workers -> Nat]
    /\ cache_mutex \in Workers \cup {NULL}
    /\ node_mtx \in [Nodes -> Workers \cup {NULL}]
    /\ cacheLines \in Seq(Nodes)
    /\ cacheDirectory \in [Keys -> Nodes \cup {NULL}]
    /\ scan \in Nat
    /\ payload_bytes \in Int
    /\ node \in [Nodes -> CacheNodes]
    /\ now \in Nat

\* The list and the directory describe the same cache: no line twice in the
\* list, each line in the directory under its own key, and every iterator the
\* directory holds still points into the list (Cache.hpp:38-40).
DirectoryConsistent ==
    /\ \A i, j \in DOMAIN cacheLines :
          cacheLines[i] = cacheLines[j] => i = j
    /\ \A n \in ToSet(cacheLines) :
          node[n].key \in Keys /\ cacheDirectory[node[n].key] = n
    /\ \A k \in Keys : cacheDirectory[k] # NULL =>
          /\ cacheDirectory[k] \in ToSet(cacheLines)
          /\ node[cacheDirectory[k]].key = k

\* At most one worker at a time fetches and publishes the result of a key,
\* however evictions, expiries and failures interleave ("Solves Thundering
\* Heard Problem", Cache.hpp:124).
SingleFlight ==
    \A u, w \in Workers :
        /\ pc[u] \in {"fetch", "publish", "ready"}
        /\ pc[w] \in {"fetch", "publish", "ready"}
        /\ query[u] = query[w]
        => u = w

\* The list outgrows its capacity only by lines in flight, so its length is
\* "strictly bounded by the number of worker threads" (Cache.hpp:73-77), even
\* though lines become READY behind the back of the scan.
CapacityBound ==
    \/ Len(cacheLines) <= Capacity
    \/ Len(cacheLines) <= Cardinality(Workers)

\* payload_bytes is what the READY lines of the list occupy, plus the line a
\* leader has accounted for and is about to make READY (Cache.hpp:36, 136).  So
\* it is never decremented below zero, where a size_t would wrap around.
PayloadExact ==
    payload_bytes =
        MapThenSumSet(Bytes,
            {n \in ToSet(cacheLines) :
                \/ node[n].state = "READY"
                \/ \E w \in Workers : pc[w] = "ready" /\ line[w] = n})

\* A result whose fetch or publication failed is not left in the cache for
\* later lookups to hit (Cache.hpp:144-156).
FailedNotCached ==
    \A n \in ToSet(cacheLines) : node[n].state \in {"IN_PROGRESS", "READY"}

\* A reply carries an answer to the worker's own query, never the value of
\* another key whose line was evicted, erased or replaced in between.
AnswerMatchesQuery ==
    \A w \in Workers : response[w].kind \in {"HIT", "MISS"} =>
        response[w].value \in Answers[query[w]]

\* A hit became READY at most TTL before it was looked up, or only after that.
\* Its expiry is computed earlier (Cache.hpp:134) and checked only in a lookup
\* (Cache.hpp:105), with the clock running before, between and after.
BoundedStaleness ==
    \A w \in Workers : response[w].kind = "HIT" =>
        lookupAt[w] <= node[line[w]].published + TTL

\* No wakeup is lost: while a follower sleeps, its line is in flight and led
\* by a worker that has not finished, or its leader is about to notify
\* (CacheEngine.hpp:226-230, Cache.hpp:140, 158).
SleepersWillBeWoken ==
    \A u \in Workers : pc[u] = "sleep" =>
        \E w \in Workers :
            /\ w # u
            /\ line[w] = line[u]
            /\ \/ pc[w] \in {"fetch", "publish", "ready"}
               \/ pc[w] \in {"cancel", "fail", "notify"}

\* A line in flight is never evicted: only its own leader, cancelling, takes
\* it out of the list ("Evict only READY nodes", Cache.hpp:46-47).
InFlightProtected ==
    [][\A n \in Nodes :
          /\ n \in ToSet(cacheLines)
          /\ n \notin ToSet(cacheLines')
          /\ node[n].state = "IN_PROGRESS"
          => /\ pc[node[n].leader] = "cancel"
             /\ pc'[node[n].leader] = "fail"]_vars

\* Every query is answered, whatever fails and whoever it follows.
EveryRequestAnswered ==
    \A w \in Workers : pc[w] # "idle" ~> pc[w] = "idle"

-----------------------------------------------------------------------------
(* Refinement                                                              *)

\* A worker is a client of the cache once it follows a line or has reserved
\* one, and has its reply when there is nothing left to do but send it.
ClientOf(w) ==
    IF pc[w] \in {"idle", "evict", "scan"}
    THEN [role |-> "idle", key |-> NULL, flight |-> NULL, reply |-> NULL]
    ELSE [role   |-> CASE pc[w] = "respond"             -> "answered"
                       [] pc[w] \in {"follow", "sleep"} -> "joined"
                       [] OTHER                         -> "leads",
          key    |-> query[w],
          flight |-> line[w],
          reply  |-> IF pc[w] # "respond" THEN NULL
                     ELSE IF response[w].kind = "ERROR" THEN "failed"
                     ELSE response[w].value]

\* A line is a flight; its value is the outcome once the line is READY.
OutcomeOf(n) == CASE node[n].state = "READY"       -> node[n].value
                  [] node[n].state = "IN_PROGRESS" -> "open"
                  [] node[n].state = "FAILED"      -> "failed"
                  [] OTHER                         -> "unused"

Promise == INSTANCE ReadThrough WITH
    Clients <- Workers,
    Flights <- Nodes,
    current <- cacheDirectory,
    outcome <- [n \in Nodes |-> OutcomeOf(n)],
    client  <- [w \in Workers |-> ClientOf(w)]

\* Single flight, one outcome for a leader and all its followers, no flight
\* replaced while it is open: the locking protocol implements ReadThrough.
ImplementsReadThrough == Promise!Spec

=============================================================================
