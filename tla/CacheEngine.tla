----------------------------- MODULE CacheEngine ------------------------------
(***************************************************************************)
(* CacheEngine: the thread that listens, the workers, and the destructor   *)
(* that ends them all.                                                     *)
(*                                                                         *)
(* The queue of accepted sockets and the cache are used through what they  *)
(* promise, TaskQueue and ReadThrough: ThreadSafeQueue and Cache are shown *)
(* to implement those.  What the kernel does with the listening socket is  *)
(* part of the model, since ending the listener depends on it: shutdown()  *)
(* makes a pending accept() fail, close() alone does not.                  *)
(***************************************************************************)
EXTENDS Integers, FiniteSets, Sequences

CONSTANTS
    Workers,        \* the worker threads
    Clients,        \* clients, each with the one socket it connects
    Keys,           \* queries that go through the cache
    Values,         \* results
    Flights,        \* cache lines
    Answers,        \* what the database may answer to each key
    Other,          \* one that does not: STATS, STATS_JSON, or not read-only
    NULL,
    Capacity        \* of the task queue

ASSUME EngineAssumption ==
    /\ IsFiniteSet(Workers) /\ Workers # {}   \* the pool throws without any
    /\ IsFiniteSet(Clients)
    /\ Other \notin Keys
    /\ NULL \notin Clients \cup Keys \cup Values \cup Flights \cup {Other}
    /\ Capacity \in Nat
    /\ Answers \in [Keys -> SUBSET Values]

VARIABLES
    main,           \* the thread that owns the engine
    listener,       \* where the listener is
    accepted,       \* client_socket of the listener, NULL when it has none
    is_running,
    server_fd,      \* the descriptor of the listening socket
    server_file,    \* the socket behind it, which a pending accept keeps alive
    socket,         \* each client's socket
    slow,           \* clients that do not read their reply
    query,          \* what a worker read from each client
    stage,          \* where each worker is in the body of workerLoop
    count,          \* total_requests, cache_hits, cache_misses, active_workers
                    \* and, for the history, failures
    pending, closed, consumer, task,    \* TaskQueue
    current, outcome, client            \* ReadThrough

queueVars  == <<pending, closed, consumer, task>>
cacheVars  == <<current, outcome, client>>
serverVars == <<is_running, server_fd, server_file>>
acceptVars == <<listener, accepted>>
engine     == <<main, acceptVars, serverVars, slow>>   \* not of workers
working    == <<slow, query, stage, count, cacheVars>>  \* of workers, clients
vars == <<main, acceptVars, serverVars, socket, slow, query, stage, count,
          queueVars, cacheVars>>

Queue == INSTANCE TaskQueue
            WITH Consumers <- Workers, Tasks <- Clients, None <- NULL
Lines == INSTANCE ReadThrough WITH Clients <- Workers

Init ==
    /\ main = "serving"
    /\ listener = "socket"
    /\ accepted = NULL
    /\ is_running = TRUE
    /\ server_fd = "none"
    /\ server_file = "none"
    /\ socket = [c \in Clients |-> "new"]
    /\ slow \in SUBSET Clients
    /\ query = [c \in Clients |-> NULL]
    /\ stage = [w \in Workers |-> "pop"]
    /\ count = [total_requests |-> 0, cache_hits |-> 0, cache_misses |-> 0,
                active_workers |-> 0, failures |-> 0]
    /\ Queue!Init
    /\ Lines!Init

-----------------------------------------------------------------------------
(* listenerLoop                                                            *)

Listener(from, to) == listener = from /\ listener' = to

\* socket() creates the listening socket, or fails and the thread ends.
CreateSocket ==
    /\ \/ /\ Listener("socket", "bind")
          /\ server_fd' = "open"
          /\ server_file' = "created"
       \/ Listener("socket", "left") /\ UNCHANGED <<server_fd, server_file>>
    /\ UNCHANGED <<main, accepted, is_running, socket, queueVars, working>>

\* bind() and listen() may fail, and do once the descriptor is closed.
Prepare(from, to, file) ==
    /\ \/ /\ Listener(from, to)
          /\ server_fd = "open"
          /\ server_file' = file
       \/ Listener(from, "left") /\ UNCHANGED server_file
    /\ UNCHANGED <<main, accepted, is_running, server_fd, socket, queueVars,
                   working>>

Bind   == Prepare("bind", "listen", "bound")
Listen == Prepare("listen", "loop", "listening")

\* Between two clients the listener looks at is_running.
TestRunning ==
    /\ Listener("loop", IF is_running THEN "accept" ELSE "left")
    /\ UNCHANGED <<main, accepted, serverVars, socket, queueVars, working>>

\* accept() waits for a client.
CallAccept ==
    /\ Listener("accept", "accepting")
    /\ server_fd = "open"
    /\ UNCHANGED <<main, accepted, serverVars, socket, queueVars, working>>

AcceptReturns(c) ==
    /\ Listener("accepting", "push")
    /\ server_file = "listening"
    /\ socket[c] = "backlog"
    /\ accepted' = c
    /\ socket' = [socket EXCEPT ![c] = "open"]
    /\ UNCHANGED <<main, serverVars, queueVars, working>>

\* Mutant: the listener gives up when accept() fails.
AcceptFailsForGood ==
    /\ \/ listener = "accept" /\ server_fd = "closed"
       \/ listener = "accepting"
    /\ listener' = "left"
    /\ UNCHANGED <<main, accepted, serverVars, socket, queueVars, working>>

\* accept() fails: always on a closed descriptor or a socket that was shut
\* down, now and then on a good one.
AcceptFails ==
    /\ \/ listener = "accept" /\ server_fd = "closed"
       \/ listener = "accepting"
    /\ listener' = IF is_running THEN "loop" ELSE "left"
    /\ UNCHANGED <<main, accepted, serverVars, socket, queueVars, working>>

\* The queue takes the socket.
Enqueue ==
    /\ Listener("push", "loop")
    /\ Queue!Accept(accepted)
    /\ accepted' = NULL
    /\ UNCHANGED <<main, serverVars, socket, working>>

\* Mutant: the socket of a rejected client stays open.
RejectLeavesOpen ==
    /\ Listener("push", "loop")
    /\ Len(pending) >= Capacity \/ closed
    /\ accepted' = NULL
    /\ UNCHANGED <<main, serverVars, socket, queueVars, working>>

\* The queue is full: the client gets a short reply, which a new socket has
\* room for, and the socket is closed.
Reject ==
    /\ Listener("push", "loop")
    /\ Len(pending) >= Capacity \/ closed
    /\ accepted' = NULL
    /\ socket' = [socket EXCEPT ![accepted] = "closed"]
    /\ UNCHANGED <<main, serverVars, queueVars, working>>

-----------------------------------------------------------------------------
(* workerLoop                                                              *)

Stage(w, from, to) == stage[w] = from /\ stage' = [stage EXCEPT ![w] = to]

Close(w) == socket' = [socket EXCEPT ![task[w]] = "closed"]

\* pop returns a task.
TakeTask(w) ==
    /\ Queue!Take(w)
    /\ Stage(w, "pop", "read")
    /\ UNCHANGED <<engine, socket, query, count, cacheVars>>

\* readQuery gives up: nothing came for five seconds, the client is gone, or
\* its query is empty or too long.
ReadNothing(w) ==
    /\ Stage(w, "read", "pop")
    /\ Close(w)
    /\ Queue!Return(w)
    /\ UNCHANGED <<engine, query, count, cacheVars>>

\* readQuery returns a query.
ReadQuery(w, q) ==
    /\ Stage(w, "read", "serve")
    /\ query' = [query EXCEPT ![task[w]] = q]
    /\ count' = [count EXCEPT !.active_workers = @ + 1]
    /\ UNCHANGED <<engine, socket, queueVars, cacheVars>>

\* A report, or the rejection of what is not read-only.
AnswerOther(w) ==
    /\ Stage(w, "serve", "reply")
    /\ query[task[w]] = Other
    /\ UNCHANGED <<engine, socket, query, count, queueVars, cacheVars>>

CountRequest(w) ==
    /\ Stage(w, "serve", "lookup")
    /\ query[task[w]] \in Keys
    /\ count' = [count EXCEPT !.total_requests = @ + 1]
    /\ UNCHANGED <<engine, socket, query, queueVars, cacheVars>>

\* lookupOrReserve: lead or follow.
Lookup(w) ==
    /\ Stage(w, "lookup", "cache")
    /\ Lines!Start(w, query[task[w]]) \/ Lines!Join(w, query[task[w]])
    /\ UNCHANGED <<engine, socket, query, count, queueVars>>

\* The leader completes or cancels its reservation.
Lead(w) ==
    /\ Lines!Land(w) \/ Lines!Withdraw(w) \/ Lines!Fail(w)
    /\ UNCHANGED <<engine, socket, query, stage, count, queueVars>>

\* Mutant: the leader counts its miss before it knows that the query failed.
AnswerCountsEveryFetch(w) ==
    /\ Stage(w, "cache", "release")
    /\ Lines!Answer(w)
    /\ LET failed == client'[w].reply = Lines!Failed
           leads  == client[w].role = "leads"
       IN  count' = [count EXCEPT
              !.failures     = @ + IF failed THEN 1 ELSE 0,
              !.cache_misses = @ + IF leads THEN 1 ELSE 0,
              !.cache_hits   = @ + IF failed \/ leads THEN 0 ELSE 1]
    /\ UNCHANGED <<engine, socket, query, queueVars>>

\* Leader and followers learn what came of their line and count it.
AnswerQuery(w) ==
    /\ Stage(w, "cache", "release")
    /\ Lines!Answer(w)
    /\ LET what == CASE client'[w].reply = Lines!Failed -> "failures"
                     [] client[w].role = "joined"         -> "cache_hits"
                     [] OTHER                             -> "cache_misses"
       IN  count' = [count EXCEPT ![what] = @ + 1]
    /\ UNCHANGED <<engine, socket, query, queueVars>>

\* The worker lets go of its line.
Release(w) ==
    /\ Stage(w, "release", "reply")
    /\ Lines!Leave(w)
    /\ UNCHANGED <<engine, socket, query, count, queueVars>>

\* writeAll returns, and the socket is closed.  What does not fit the buffers
\* of the connection, a result, waits for the client to read or to go away.
SendReply(w) ==
    /\ Stage(w, "reply", "sent")
    /\ query[task[w]] \in Keys => task[w] \notin slow
    /\ Close(w)
    /\ UNCHANGED <<engine, query, count, queueVars, cacheVars>>

Finish(w) ==
    /\ Stage(w, "sent", "pop")
    /\ count' = [count EXCEPT !.active_workers = @ - 1]
    /\ Queue!Return(w)
    /\ UNCHANGED <<engine, socket, query, cacheVars>>

\* Mutant: the worker leaves as soon as the queue is stopped.
LeaveLoopAtOnce(w) ==
    /\ Stage(w, "pop", "left")
    /\ closed
    /\ consumer' = [consumer EXCEPT ![w] = "dismissed"]
    /\ UNCHANGED <<engine, socket, query, count, pending, closed, task,
                   cacheVars>>

\* pop returns nothing and the thread ends.
LeaveLoop(w) ==
    /\ Stage(w, "pop", "left")
    /\ Queue!Dismiss(w)
    /\ UNCHANGED <<engine, socket, query, count, cacheVars>>

-----------------------------------------------------------------------------
(* The destructor                                                          *)

Main(from, to) == main = from /\ main' = to

\* The server may be told to stop at any time, even before it listens.
Destroy ==
    /\ Main("serving", "shutdown")
    /\ is_running' = FALSE
    /\ UNCHANGED <<acceptVars, server_fd, server_file, socket, queueVars, working>>

\* Mutant: the listening socket is closed but not shut down.
ShutdownForgotten ==
    /\ Main("shutdown", IF server_fd = "none" THEN "join_listener" ELSE "close")
    /\ UNCHANGED <<acceptVars, serverVars, socket, queueVars, working>>

\* shutdown() has an effect on a socket that listens only.
Shutdown ==
    /\ Main("shutdown", IF server_fd = "none" THEN "join_listener" ELSE "close")
    /\ server_file' = IF server_file = "listening" THEN "shut" ELSE server_file
    /\ UNCHANGED <<acceptVars, is_running, server_fd, socket, queueVars, working>>

CloseServer ==
    /\ Main("close", "join_listener")
    /\ server_fd' = "closed"
    /\ UNCHANGED <<acceptVars, is_running, server_file, socket, queueVars, working>>

\* Mutant: the destructor does not wait for the listener.
JoinListenerSkipped ==
    /\ Main("join_listener", "stop")
    /\ UNCHANGED <<acceptVars, serverVars, socket, queueVars, working>>

JoinListener ==
    /\ Main("join_listener", "stop")
    /\ listener = "left"
    /\ UNCHANGED <<acceptVars, serverVars, socket, queueVars, working>>

StopQueue ==
    /\ Main("stop", "join_workers")
    /\ Queue!Close
    /\ UNCHANGED <<acceptVars, serverVars, socket, working>>

JoinWorkers ==
    /\ Main("join_workers", "done")
    /\ \A w \in Workers : stage[w] = "left"
    /\ UNCHANGED <<acceptVars, serverVars, socket, queueVars, working>>

-----------------------------------------------------------------------------
(* The clients, and the cache between requests                             *)

Connect(c) ==
    /\ socket[c] = "new"
    /\ server_file = "listening"
    /\ socket' = [socket EXCEPT ![c] = "backlog"]
    /\ UNCHANGED <<main, acceptVars, serverVars, queueVars, working>>

\* A slow client reads its reply after all, or goes away.
Relent(c) ==
    /\ c \in slow
    /\ slow' = slow \ {c}
    /\ UNCHANGED <<main, acceptVars, serverVars, socket, query, stage, count,
                   queueVars, cacheVars>>

\* A line expires or is evicted.
Forget(k) ==
    /\ Lines!Forget(k)
    /\ UNCHANGED <<engine, socket, query, stage, count, queueVars>>

-----------------------------------------------------------------------------

ListenerStep ==
    \/ CreateSocket \/ Bind \/ Listen \/ TestRunning \/ CallAccept
    \/ \E c \in Clients : AcceptReturns(c)
    \/ AcceptFails \/ Enqueue \/ Reject

WorkerStep(w) ==
    \/ TakeTask(w) \/ ReadNothing(w)
    \/ \E q \in Keys \cup {Other} : ReadQuery(w, q)
    \/ AnswerOther(w) \/ CountRequest(w) \/ Lookup(w) \/ Lead(w)
    \/ AnswerQuery(w) \/ Release(w) \/ SendReply(w) \/ Finish(w)
    \/ LeaveLoop(w)

MainStep ==
    Shutdown \/ CloseServer \/ JoinListener \/ StopQueue \/ JoinWorkers

Done == main = "done" /\ UNCHANGED vars

Next ==
    \/ ListenerStep
    \/ \E w \in Workers : WorkerStep(w)
    \/ Destroy \/ MainStep
    \/ \E c \in Clients : Connect(c) \/ Relent(c)
    \/ \E k \in Keys : Forget(k)
    \/ Done

\* The threads of the server run; readQuery ends since each read() has a time
\* limit.  accept() need not return on a good socket.
Fairness ==
    /\ WF_vars(ListenerStep /\ (server_file = "shut" \/ listener # "accepting"))
    /\ \A w \in Workers : WF_vars(WorkerStep(w))
    /\ WF_vars(MainStep)

Spec == Init /\ [][Next]_vars

\* Whatever clients do ...
ServerSpec == Spec /\ Fairness

\* ... and if every client reads its reply, or goes away, in the end.
FairSpec == ServerSpec /\ \A c \in Clients : WF_vars(Relent(c))

-----------------------------------------------------------------------------
(* Properties                                                              *)

\* Every variable keeps its type, no counter is ever negative, and the listener
\* has a socket exactly while it pushes it.  The cache's are those of ReadThrough.
TypeOK ==
    /\ main \in {"serving", "shutdown", "close", "join_listener", "stop",
                 "join_workers", "done"}
    /\ listener \in {"socket", "bind", "listen", "loop", "accept", "accepting",
                     "push", "left"}
    /\ accepted \in Clients \cup {NULL}
    /\ accepted # NULL <=> listener = "push"
    /\ is_running \in BOOLEAN
    /\ server_fd \in {"none", "open", "closed"}
    /\ server_file \in {"none", "created", "bound", "listening", "shut"}
    /\ socket \in [Clients -> {"new", "backlog", "open", "closed"}]
    /\ slow \in SUBSET Clients
    /\ query \in [Clients -> Keys \cup {Other, NULL}]
    /\ stage \in [Workers -> {"pop", "read", "serve", "lookup", "cache",
                              "release", "reply", "sent", "left"}]
    /\ count \in [total_requests : Nat, cache_hits : Nat, cache_misses : Nat,
                  active_workers : Nat, failures : Nat]
    /\ pending \in Seq(Clients)
    /\ closed \in BOOLEAN
    /\ consumer \in [Workers -> {"free", "busy", "dismissed"}]
    /\ task \in [Workers -> Clients \cup {NULL}]

\* Who has to close the socket of c: the listener, the queue, or a worker.
Owners(c) ==
    {<<"worker", w>> : w \in {v \in Workers : task[v] = c /\ stage[v] # "sent"}}
        \cup {<<"queue", i>> : i \in {j \in DOMAIN pending : pending[j] = c}}
        \cup (IF accepted = c THEN {<<"listener", 0>>} ELSE {})

\* Every open socket has exactly one owner and no other socket has any: none
\* leaks, and none is closed twice or used after it was closed, whether it is
\* rejected, given up, answered or still queued when the server stops
\* (CacheEngine.hpp:187, 251, 313).
OneOwner ==
    \A c \in Clients :
        Cardinality(Owners(c)) = IF socket[c] = "open" THEN 1 ELSE 0

\* When the destructor is done every accepted client has been dealt with and
\* no thread is left (CacheEngine.hpp:542-550).
StoppedClean ==
    main = "done" =>
        /\ listener = "left" /\ \A w \in Workers : stage[w] = "left"
        /\ pending = <<>>
        /\ \A c \in Clients : socket[c] # "open"
        /\ count.active_workers = 0

\* The counters account for every request: what was counted as a request is a
\* hit, a miss, an error, or still with a worker, and active_workers is the
\* number of those that have read a query (CacheEngine.hpp:191-253).
CountersFit ==
    /\ count.total_requests =
          count.cache_hits + count.cache_misses + count.failures
          + Cardinality({w \in Workers : stage[w] \in {"lookup", "cache"}})
    /\ count.active_workers =
          Cardinality({w \in Workers : stage[w] \notin {"pop", "read", "left"}})

\* The destructor returns, wherever the listener and the workers are when it
\* starts (CacheEngine.hpp:531-551).
ShutdownEnds == main = "shutdown" ~> main = "done"

\* A client that was accepted is answered or given up, stop or no stop, and its
\* socket closed.
EveryClientServed == \A c \in Clients : socket[c] = "open" ~> socket[c] = "closed"

\* A listener that once listens comes back to accept() until the server stops,
\* whatever accept() returns and whatever the clients do that it accepts or
\* rejects (CacheEngine.hpp:291-314).
ListenerComesBack ==
    <>(listener = "accepting") => []<>(listener = "accepting" \/ ~is_running)

\* "Enforce a 5-second socket receive timeout so inactive clients don't stall
\* workers" (CacheEngine.hpp:133): a worker gets rid of every client.
InactiveClientsDontStall ==
    \A w \in Workers : consumer[w] = "busy" ~> consumer[w] # "busy"

=============================================================================
