---------------------------- MODULE ConnectionPool ----------------------------
(***************************************************************************)
(* ConnectionPool and its one client, CacheEngine::queryDatabase.          *)
(*                                                                         *)
(* The pool is a queue of slots.  A slot holds a connection or, after a    *)
(* failed reconnection, nothing.  acquire takes the slot at the front and  *)
(* reconnects it, with pool_mtx held, when it holds no usable connection;  *)
(* queryDatabase puts it back at the end whether its query succeeds or not.*)
(*                                                                         *)
(* The database is outside the program: a connection may be lost at any    *)
(* time, an attempt to connect may fail and a query may be refused.        *)
(***************************************************************************)
EXTENDS Integers, FiniteSets, SequencesExt

CONSTANTS
    Workers,        \* the worker threads
    NULL,           \* no thread; an empty slot
    pool_size       \* the size asked for

\* A connection is closed once a query has failed on it because it was lost.
\* Until then is_open() does not know of the loss.
Connection == {"open", "lost", "closed"}
NoSlot     == "none"

ASSUME PoolAssumption ==
    /\ IsFiniteSet(Workers)
    /\ NULL \notin Workers \cup Connection \cup {NoSlot}
    /\ pool_size \in Nat

VARIABLES
    connections,    \* the queue of slots
    pool_mtx,       \* its owner
    at,             \* where each worker is
    conn,           \* the slot each worker has taken out of the queue
    attempts,       \* connections the constructor has tried to open
    successful_connections

vars == <<connections, pool_mtx, at, conn, attempts, successful_connections>>

startup == <<attempts, successful_connections>>

\* Mutant: a slot that is not empty is taken for granted.
NotEmpty(slot) == slot # NULL

Usable(slot) == slot \in {"open", "lost"}

Goto(w, label) == at' = [at EXCEPT ![w] = label]

\* The threads asleep on pool_cv, those about to look at the queue, those that
\* have taken a slot out of it, and those that owe a notification.
Asleep    == {w \in Workers : at[w] = "wait"}
Awake     == {w \in Workers : at[w] \in {"acquire", "expired"}}
Holding   == {w \in Workers : at[w] \in {"connect", "query", "release"}}
Notifying == {w \in Workers : at[w] = "notify"}

Init ==
    /\ connections = <<>>
    /\ pool_mtx = NULL
    /\ at = [w \in Workers |-> "out"]
    /\ conn = [w \in Workers |-> NoSlot]
    /\ attempts = 0
    /\ successful_connections = 0

-----------------------------------------------------------------------------
(* The constructor                                                         *)

Open ==
    /\ attempts < pool_size
    /\ attempts' = attempts + 1
    /\ connections' = Append(connections, "open")
    /\ successful_connections' = successful_connections + 1
    /\ UNCHANGED <<pool_mtx, at, conn>>

OpenFails ==
    /\ attempts < pool_size
    /\ attempts' = attempts + 1
    /\ UNCHANGED <<connections, pool_mtx, at, conn, successful_connections>>

\* The constructor returns only if it opened a connection; only then are there
\* threads to use the pool.
Started == attempts = pool_size /\ successful_connections > 0

-----------------------------------------------------------------------------
(* acquire                                                                 *)

\* A worker has a query for the database.
Call(w) ==
    /\ Started
    /\ at[w] = "out"
    /\ Goto(w, "acquire")
    /\ UNCHANGED <<connections, pool_mtx, conn, startup>>

\* The worker looks at the queue, with pool_mtx free to take.
Looks(w) == at[w] \in {"acquire", "expired"} /\ pool_mtx = NULL

Sleep(w) ==
    /\ Looks(w)
    /\ at[w] = "acquire"
    /\ connections = <<>>
    /\ Goto(w, "wait")
    /\ UNCHANGED <<connections, pool_mtx, conn, startup>>

\* A condition variable may wake a thread that nobody notified.
SpuriousWake(w) ==
    /\ at[w] = "wait"
    /\ Goto(w, "acquire")
    /\ UNCHANGED <<connections, pool_mtx, conn, startup>>

\* Mutant: wait in place of wait_for.
ExpireNever(w) == FALSE

\* The five seconds are over: the worker looks at the queue a last time.
Expire(w) ==
    /\ at[w] = "wait"
    /\ Goto(w, "expired")
    /\ UNCHANGED <<connections, pool_mtx, conn, startup>>

\* acquire throws.
TimesOut(w) ==
    /\ Looks(w)
    /\ at[w] = "expired"
    /\ connections = <<>>
    /\ Goto(w, "out")
    /\ UNCHANGED <<connections, pool_mtx, conn, startup>>

\* The slot at the front holds a connection that seems to be open.
TakeUsable(w) ==
    /\ Looks(w)
    /\ connections # <<>>
    /\ Usable(Head(connections))
    /\ conn' = [conn EXCEPT ![w] = Head(connections)]
    /\ connections' = Tail(connections)
    /\ Goto(w, "query")
    /\ UNCHANGED <<pool_mtx, startup>>

\* The slot at the front is empty or its connection is closed: reconnect with
\* pool_mtx held.
TakeUnusable(w) ==
    /\ Looks(w)
    /\ connections # <<>>
    /\ ~Usable(Head(connections))
    /\ conn' = [conn EXCEPT ![w] = Head(connections)]
    /\ connections' = Tail(connections)
    /\ pool_mtx' = w
    /\ Goto(w, "connect")
    /\ UNCHANGED startup

Reconnect(w) ==
    /\ at[w] = "connect"
    /\ conn' = [conn EXCEPT ![w] = "open"]
    /\ pool_mtx' = NULL
    /\ Goto(w, "query")
    /\ UNCHANGED <<connections, startup>>

\* notify_one as w goes on to label.
NotifyOne(w, label) ==
    IF Asleep = {} THEN Goto(w, label)
    ELSE \E u \in Asleep : at' = [at EXCEPT ![w] = label, ![u] = "acquire"]

\* Mutants: the slot is not given back; nobody is told that it was.
ReconnectLosesSlot(w) ==
    /\ at[w] = "connect"
    /\ conn' = [conn EXCEPT ![w] = NoSlot]
    /\ pool_mtx' = NULL
    /\ Goto(w, "out")
    /\ UNCHANGED <<connections, startup>>
ReconnectTellsNobody(w) ==
    /\ at[w] = "connect"
    /\ connections' = Append(connections, NULL)
    /\ conn' = [conn EXCEPT ![w] = NoSlot]
    /\ pool_mtx' = NULL
    /\ Goto(w, "out")
    /\ UNCHANGED startup

\* An empty slot goes back, the next waiter is woken and acquire throws.
ReconnectFails(w) ==
    /\ at[w] = "connect"
    /\ connections' = Append(connections, NULL)
    /\ conn' = [conn EXCEPT ![w] = NoSlot]
    /\ pool_mtx' = NULL
    /\ NotifyOne(w, "out")
    /\ UNCHANGED startup

-----------------------------------------------------------------------------
(* queryDatabase and release                                               *)

QuerySucceeds(w) ==
    /\ at[w] = "query"
    /\ conn[w] = "open"
    /\ Goto(w, "release")
    /\ UNCHANGED <<connections, pool_mtx, conn, startup>>

\* Mutant: the error path does not return the connection.
QueryThrowsAndLeaks(w) ==
    /\ at[w] = "query"
    /\ conn' = [conn EXCEPT ![w] = NoSlot]
    /\ Goto(w, "out")
    /\ UNCHANGED <<connections, pool_mtx, startup>>

\* The database refuses the query, or the connection turns out to be lost.
QueryThrows(w) ==
    /\ at[w] = "query"
    /\ conn' = [conn EXCEPT ![w] = IF conn[w] = "lost" THEN "closed" ELSE "open"]
    /\ Goto(w, "release")
    /\ UNCHANGED <<connections, pool_mtx, startup>>

Release(w) ==
    /\ at[w] = "release"
    /\ pool_mtx = NULL
    /\ connections' = Append(connections, conn[w])
    /\ conn' = [conn EXCEPT ![w] = NoSlot]
    /\ Goto(w, "notify")
    /\ UNCHANGED <<pool_mtx, startup>>

\* notify_one, after release has let go of pool_mtx.
Notify(w) ==
    /\ at[w] = "notify"
    /\ NotifyOne(w, "out")
    /\ UNCHANGED <<connections, pool_mtx, conn, startup>>

\* The database drops a connection, idle or in use.
DropIdle ==
    \E i \in DOMAIN connections :
        /\ connections[i] = "open"
        /\ connections' = [connections EXCEPT ![i] = "lost"]
        /\ UNCHANGED <<pool_mtx, at, conn, startup>>

DropUsed(w) ==
    /\ conn[w] = "open"
    /\ conn' = [conn EXCEPT ![w] = "lost"]
    /\ UNCHANGED <<connections, pool_mtx, at, startup>>

-----------------------------------------------------------------------------

Look(w) == Sleep(w) \/ TimesOut(w) \/ TakeUsable(w) \/ TakeUnusable(w)

\* What a worker goes on to do by itself once it needs a connection.
Step(w) ==
    \/ Look(w) \/ Expire(w)
    \/ Reconnect(w) \/ ReconnectFails(w)
    \/ QuerySucceeds(w) \/ QueryThrows(w) \/ Release(w) \/ Notify(w)

Next ==
    \/ Open
    \/ OpenFails
    \/ \E w \in Workers : Call(w) \/ Step(w) \/ SpuriousWake(w) \/ DropUsed(w)
    \/ DropIdle

\* The scheduler runs every thread and attempts to connect and queries end; a
\* thread that keeps finding pool_mtx free gets it in the end, whatever it finds
\* in the queue; five seconds pass.
Fairness ==
    \A w \in Workers :
        /\ WF_vars(Step(w))
        /\ SF_vars(Look(w))
        /\ SF_vars(Release(w))
        /\ SF_vars(Expire(w))

Spec == Init /\ [][Next]_vars
FairSpec == Spec /\ Fairness

-----------------------------------------------------------------------------
(* Properties                                                              *)

Labels == {"out", "acquire", "wait", "expired", "connect", "query", "release",
           "notify"}

\* Every variable keeps its type, pool_mtx is held only to reconnect, and a
\* worker that runs a query has a connection.
TypeOK ==
    /\ connections \in Seq(Connection \cup {NULL})
    /\ pool_mtx \in Workers \cup {NULL}
    /\ at \in [Workers -> Labels]
    /\ conn \in [Workers -> Connection \cup {NULL, NoSlot}]
    /\ attempts \in 0..pool_size
    /\ successful_connections \in 0..pool_size
    /\ \A w \in Workers :
          /\ at[w] = "connect" <=> pool_mtx = w
          /\ conn[w] # NoSlot <=> w \in Holding
          /\ at[w] = "query" => conn[w] \in {"open", "lost"}

\* Slots are neither lost nor made: what the constructor opened is in the queue
\* or with a worker, through every failed reconnection, timeout and failed query
\* ("so capacity doesn't permanently shrink", ConnectionPool.hpp:70;
\* CacheEngine.hpp:108, 113).
SlotsConserved ==
    Len(connections) + Cardinality(Holding) = successful_connections

\* No notification is lost: while a worker sleeps, every slot in the queue has a
\* worker that is about to look for it or about to be woken for it, even when
\* the slot came back empty (ConnectionPool.hpp:53, 72, 86).
NoSlotStranded ==
    Asleep # {} =>
        Len(connections) <= Cardinality(Notifying) + Cardinality(Awake)

\* With one connection for each worker nobody ever waits for one, so acquire
\* cannot time out (CacheEngine.hpp:320, ConnectionPool.hpp:53-59).
FullPoolNeverWaits ==
    successful_connections >= Cardinality(Workers) => Asleep = {}

\* acquire returns or throws, and the slot is given back, whatever fails.
EveryQueryEnds ==
    \A w \in Workers : at[w] # "out" ~> at[w] = "out"

=============================================================================
