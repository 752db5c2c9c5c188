----------------------------- MODULE EngineProofs ------------------------------
(***************************************************************************)
(* Theorems about CacheEngine, for any number of workers, clients and keys *)
(* and any capacity of the queue.                                          *)
(***************************************************************************)
EXTENDS CacheEngine, FiniteSetTheorems, TLAPS

\* The worker has a socket that it will close.
Holds(w) == stage[w] \notin {"pop", "left", "sent"}

\* Where a worker is in its loop and what the queue knows of it agree.
RoleInv ==
    \A w \in Workers :
        /\ stage[w] = "pop"  <=> consumer[w] = "free"
        /\ stage[w] = "left" <=> consumer[w] = "dismissed"
        /\ task[w] = NULL    <=> stage[w] \in {"pop", "left"}

\* What is owned is open ...
OpenInv ==
    /\ \A w \in Workers : Holds(w) => socket[task[w]] = "open"
    /\ \A i \in DOMAIN pending : socket[pending[i]] = "open"
    /\ accepted # NULL => socket[accepted] = "open"

\* ... and owned once ...
DistinctInv ==
    /\ \A v, w \in Workers : Holds(v) /\ Holds(w) /\ task[v] = task[w] => v = w
    /\ \A i, j \in DOMAIN pending : pending[i] = pending[j] => i = j
    /\ \A w \in Workers, i \in DOMAIN pending : Holds(w) => pending[i] # task[w]
    /\ \A w \in Workers : Holds(w) /\ accepted # NULL => task[w] # accepted
    /\ \A i \in DOMAIN pending : pending[i] # accepted

\* ... and what is open is owned.
OwnedInv ==
    \A c \in Clients : socket[c] = "open" =>
        \/ accepted = c
        \/ \E i \in DOMAIN pending : pending[i] = c
        \/ \E w \in Workers : Holds(w) /\ task[w] = c

\* The destructor goes on only after what it joins, and workers leave a queue
\* that is empty for good.
StopInv ==
    /\ closed => main \in {"join_workers", "done"}
    /\ main \in {"stop", "join_workers", "done"} => listener = "left"
    /\ \A w \in Workers : stage[w] = "left" => closed /\ pending = <<>>
    /\ main = "done" => \A w \in Workers : stage[w] = "left"

\* The threads of S that f puts at a label of L.
At(S, f, L) == {v \in S : f[v] \in L}

InCache == {"lookup", "cache"}
Serving == {"serve", "lookup", "cache", "release", "reply", "sent"}

\* CountersFit, with workers counted by where they are.
Counted ==
    /\ count.total_requests =
          count.cache_hits + count.cache_misses + count.failures
          + Cardinality(At(Workers, stage, InCache))
    /\ count.active_workers = Cardinality(At(Workers, stage, Serving))

-----------------------------------------------------------------------------
(* Counters                                                                *)

\* They can be counted, and when one thread moves to a label l their number changes
\* by that one.
LEMMA CountFinite ==
    ASSUME NEW S, IsFiniteSet(S), NEW f, NEW L
    PROVE  IsFiniteSet(At(S, f, L)) /\ Cardinality(At(S, f, L)) \in Nat
  BY FS_Subset, FS_CardinalityType, At(S, f, L) \subseteq S DEF At

LEMMA CountStep ==
    ASSUME NEW S, IsFiniteSet(S), NEW f, NEW w \in S, NEW l, NEW g, g[w] = l,
           \A v \in S : v # w => g[v] = f[v], NEW L
    PROVE  Cardinality(At(S, g, L)) =
              Cardinality(At(S, f, L)) + (IF l \in L THEN 1 ELSE 0)
                                    - (IF f[w] \in L THEN 1 ELSE 0)
  <1>1. PICK c, d : c = At(S, f, L) /\ d = At(S, g, L)
    OBVIOUS
  <1>2. d = (IF l \in L THEN c \cup {w} ELSE c \ {w}) /\ (w \in c <=> f[w] \in L)
    BY <1>1 DEF At
  <1>3. IsFiniteSet(c) /\ Cardinality(c) \in Nat
    BY <1>1, CountFinite
  <1>4. /\ Cardinality(c \cup {w}) = IF w \in c THEN Cardinality(c) ELSE Cardinality(c) + 1
        /\ Cardinality(c \ {w}) = IF w \in c THEN Cardinality(c) - 1 ELSE Cardinality(c)
    BY <1>3, FS_AddElement, FS_RemoveElement
  <1>5. Cardinality(d) = IF l \in L THEN Cardinality(c \cup {w}) ELSE Cardinality(c \ {w})
    BY <1>2
  <1> QED
    BY <1>1, <1>2, <1>3, <1>4, <1>5

LEMMA CountedFits == TypeOK => (Counted <=> CountersFit)
  <1> SUFFICES ASSUME TypeOK PROVE Counted <=> CountersFit
    OBVIOUS
  <1>1. At(Workers, stage, InCache) = {w \in Workers : stage[w] \in {"lookup", "cache"}}
    BY DEF At, InCache
  <1>2. At(Workers, stage, Serving) =
            {w \in Workers : stage[w] \notin {"pop", "read", "left"}}
    BY DEF At, Serving, TypeOK
  <1> QED
    BY <1>1, <1>2, Zenon DEF Counted, CountersFit

\* How many are in the cache, and how many serve a request, when one worker moves.
LEMMA Moves ==
    ASSUME NEW w \in Workers, NEW from, NEW to, Stage(w, from, to), TypeOK
    PROVE  /\ stage'[w] = to /\ stage[w] = from
           /\ \A v \in Workers : v # w => stage'[v] = stage[v]
           /\ Cardinality(At(Workers, stage, InCache)) \in Nat
           /\ Cardinality(At(Workers, stage, Serving)) \in Nat
           /\ Cardinality(At(Workers, stage', InCache)) =
                 Cardinality(At(Workers, stage, InCache))
                 + (IF to \in InCache THEN 1 ELSE 0) - (IF from \in InCache THEN 1 ELSE 0)
           /\ Cardinality(At(Workers, stage', Serving)) =
                 Cardinality(At(Workers, stage, Serving))
                 + (IF to \in Serving THEN 1 ELSE 0) - (IF from \in Serving THEN 1 ELSE 0)
  <1>1. /\ stage'[w] = to /\ stage[w] = from
        /\ \A v \in Workers : v # w => stage'[v] = stage[v]
    BY DEF Stage, TypeOK
  <1>2. IsFiniteSet(Workers)
    BY EngineAssumption
  <1>3. /\ Cardinality(At(Workers, stage, InCache)) \in Nat
        /\ Cardinality(At(Workers, stage, Serving)) \in Nat
    BY <1>2, CountFinite
  <1>4. Cardinality(At(Workers, stage', InCache)) =
           Cardinality(At(Workers, stage, InCache))
           + (IF to \in InCache THEN 1 ELSE 0)
           - (IF stage[w] \in InCache THEN 1 ELSE 0)
    BY ONLY <1>1, <1>2, CountStep
  <1>5. Cardinality(At(Workers, stage', Serving)) =
           Cardinality(At(Workers, stage, Serving))
           + (IF to \in Serving THEN 1 ELSE 0)
           - (IF stage[w] \in Serving THEN 1 ELSE 0)
    BY ONLY <1>1, <1>2, CountStep
  <1> QED
    BY <1>1, <1>3, <1>4, <1>5

-----------------------------------------------------------------------------
(* Roles                                                                   *)

LEMMA RoleInit == Init => RoleInv
  <1> SUFFICES ASSUME Init, NEW w \in Workers
               PROVE  stage[w] = "pop" /\ consumer[w] = "free" /\ task[w] = NULL
    BY DEF RoleInv
  <1> QED
    BY DEF Init, Queue!Init

\* A worker that moves from a stage with a socket to another keeps its role.
LEMMA RoleKept ==
    ASSUME TypeOK, RoleInv, UNCHANGED <<consumer, task>>, NEW w \in Workers,
           stage'[w] \notin {"pop", "left"}, stage[w] \notin {"pop", "left"},
           \A v \in Workers : v # w => stage'[v] = stage[v]
    PROVE  RoleInv'
  BY DEF RoleInv

LEMMA RoleNext == TypeOK /\ RoleInv /\ [Next]_vars => RoleInv'
  <1> SUFFICES ASSUME TypeOK, RoleInv, [Next]_vars PROVE RoleInv'
    OBVIOUS
  <1>t. /\ pending \in Seq(Clients) /\ NULL \notin Clients
        /\ task \in [Workers -> Clients \cup {NULL}]
        /\ consumer \in [Workers -> {"free", "busy", "dismissed"}]
        /\ stage \in [Workers -> {"pop", "read", "serve", "lookup", "cache",
                                  "release", "reply", "sent", "left"}]
    BY EngineAssumption DEF TypeOK
  <1>1. CASE UNCHANGED <<stage, consumer, task>>
    BY <1>1 DEF RoleInv
  <1>2. ASSUME NEW w \in Workers, TakeTask(w) PROVE RoleInv'
    <2>1. Head(pending) \in Clients
      BY <1>2, <1>t DEF TakeTask, Queue!Take
    <2> QED
      BY <1>2, <1>t, <2>1 DEF TakeTask, Queue!Take, Stage, RoleInv
  <1>3. ASSUME NEW w \in Workers, ReadNothing(w) \/ Finish(w) PROVE RoleInv'
    BY <1>3, <1>t DEF ReadNothing, Finish, Queue!Return, Stage, RoleInv
  <1>4. ASSUME NEW w \in Workers, LeaveLoop(w) PROVE RoleInv'
    BY <1>4, <1>t DEF LeaveLoop, Queue!Dismiss, Stage, RoleInv
  <1>5. ASSUME NEW w \in Workers,
               \/ \E q \in Keys \cup {Other} : ReadQuery(w, q)
               \/ AnswerOther(w) \/ CountRequest(w) \/ Lookup(w)
               \/ AnswerQuery(w) \/ Release(w) \/ SendReply(w)
        PROVE  RoleInv'
    <2>1. /\ UNCHANGED <<consumer, task>>
          /\ stage'[w] \notin {"pop", "left"} /\ stage[w] \notin {"pop", "left"}
          /\ \A v \in Workers : v # w => stage'[v] = stage[v]
      BY <1>5, <1>t DEF ReadQuery, AnswerOther, CountRequest, Lookup, AnswerQuery,
                        Release, SendReply, Stage, queueVars
    <2> QED
      BY <2>1, RoleKept
  <1>6. ASSUME NEW w \in Workers, Lead(w) PROVE RoleInv'
    BY <1>6, <1>1 DEF Lead, queueVars
  <1>7. CASE ListenerStep
    BY <1>7, <1>1 DEF ListenerStep, CreateSocket, Bind, Listen, Prepare, TestRunning,
              CallAccept, AcceptReturns, AcceptFails, Enqueue, Reject, Queue!Accept,
              queueVars, working
  <1>8. CASE Destroy \/ MainStep
    BY <1>8, <1>1 DEF Destroy, MainStep, Shutdown, CloseServer, JoinListener,
              StopQueue, JoinWorkers, Queue!Close, queueVars, working
  <1>9. ASSUME NEW c \in Clients, Connect(c) \/ Relent(c) PROVE RoleInv'
    BY <1>9, <1>1 DEF Connect, Relent, queueVars, working
  <1>10. ASSUME NEW k \in Keys, Forget(k) PROVE RoleInv'
    BY <1>10, <1>1 DEF Forget, queueVars
  <1>11. CASE UNCHANGED vars
    BY <1>11, <1>1 DEF vars, queueVars
  <1> QED
    BY <1>2, <1>3, <1>4, <1>5, <1>6, <1>7, <1>8, <1>9, <1>10, <1>11
    DEF Next, WorkerStep, Done

-----------------------------------------------------------------------------
(* Shutdown                                                                *)

LEMMA StopInit == Init => StopInv
  BY DEF Init, Queue!Init, StopInv

LEMMA StopNext == TypeOK /\ StopInv /\ [Next]_vars => StopInv'
  <1> SUFFICES ASSUME TypeOK, StopInv, [Next]_vars PROVE StopInv'
    OBVIOUS
  <1>t. /\ pending \in Seq(Clients)
        /\ stage \in [Workers -> {"pop", "read", "serve", "lookup", "cache",
                                  "release", "reply", "sent", "left"}]
    BY DEF TypeOK
  <1>1. CASE UNCHANGED <<main, listener, stage, pending, closed>>
    BY <1>1 DEF StopInv
  \* A worker moves, but does not leave.
  <1>2. ASSUME NEW w \in Workers, UNCHANGED <<main, listener, closed>>,
               stage[w] # "left", stage'[w] # "left",
               \A v \in Workers : v # w => stage'[v] = stage[v],
               pending = <<>> => pending' = <<>>
        PROVE  StopInv'
    BY <1>2 DEF StopInv
  <1>3. ASSUME NEW w \in Workers, TakeTask(w) PROVE StopInv'
    <2>1. pending # <<>>
      BY <1>3 DEF TakeTask, Queue!Take
    <2>2. UNCHANGED <<main, listener, closed>> /\ stage[w] = "pop" /\ stage'[w] = "read"
          /\ \A v \in Workers : v # w => stage'[v] = stage[v]
      BY <1>3, <1>t DEF TakeTask, Queue!Take, Stage, engine, acceptVars
    <2> QED
      BY <1>2, <2>1, <2>2
  <1>4. ASSUME NEW w \in Workers,
               \/ ReadNothing(w) \/ \E q \in Keys \cup {Other} : ReadQuery(w, q)
               \/ AnswerOther(w) \/ CountRequest(w) \/ Lookup(w) \/ AnswerQuery(w)
               \/ Release(w) \/ SendReply(w) \/ Finish(w)
        PROVE  StopInv'
    <2>1. UNCHANGED <<main, listener, closed, pending>>
      BY <1>4 DEF ReadNothing, ReadQuery, AnswerOther, CountRequest, Lookup, AnswerQuery,
                  Release, SendReply, Finish, Queue!Return, queueVars, engine, acceptVars
    <2>2. /\ stage[w] # "left" /\ stage'[w] # "left"
          /\ \A v \in Workers : v # w => stage'[v] = stage[v]
      BY <1>4, <1>t DEF ReadNothing, ReadQuery, AnswerOther, CountRequest, Lookup,
                        AnswerQuery, Release, SendReply, Finish, Stage
    <2> QED
      BY <1>2, <2>1, <2>2
  <1>5. ASSUME NEW w \in Workers, LeaveLoop(w) PROVE StopInv'
    <2>1. /\ UNCHANGED <<main, listener, closed, pending>>
          /\ closed /\ pending = <<>> /\ stage[w] = "pop"
          /\ \A v \in Workers : v # w => stage'[v] = stage[v]
      BY <1>5, <1>t DEF LeaveLoop, Queue!Dismiss, Stage, engine, acceptVars
    <2> QED
      BY <2>1 DEF StopInv
  <1>6. ASSUME NEW w \in Workers, Lead(w) PROVE StopInv'
    BY <1>6, <1>1 DEF Lead, queueVars, engine, acceptVars
  <1>7. CASE ListenerStep
    <2>1. UNCHANGED <<main, stage>> /\ listener # "left"
      BY <1>7 DEF ListenerStep, CreateSocket, Bind, Listen, Prepare, TestRunning,
                  CallAccept, AcceptReturns, AcceptFails, Enqueue, Reject, Listener, working
    <2>2. closed' = closed /\ (closed => pending' = pending)
      BY <1>7 DEF ListenerStep, CreateSocket, Bind, Listen, Prepare, TestRunning,
                  CallAccept, AcceptReturns, AcceptFails, Enqueue, Reject, Queue!Accept,
                  queueVars
    <2> QED
      BY <2>1, <2>2 DEF StopInv
  <1>8. CASE Destroy \/ Shutdown \/ CloseServer
    BY <1>8 DEF Destroy, Shutdown, CloseServer, Main, queueVars, working, acceptVars,
                StopInv
  <1>9. CASE JoinListener \/ StopQueue \/ JoinWorkers
    BY <1>9 DEF JoinListener, StopQueue, JoinWorkers, Main, Queue!Close, queueVars,
                working, acceptVars, StopInv
  <1>10. ASSUME NEW c \in Clients, Connect(c) \/ Relent(c) PROVE StopInv'
    BY <1>10, <1>1 DEF Connect, Relent, queueVars, working, acceptVars
  <1>11. ASSUME NEW k \in Keys, Forget(k) PROVE StopInv'
    BY <1>11, <1>1 DEF Forget, queueVars, engine, acceptVars
  <1>12. CASE UNCHANGED vars
    BY <1>12, <1>1 DEF vars, queueVars, acceptVars
  <1> QED
    BY <1>3, <1>4, <1>5, <1>6, <1>7, <1>8, <1>9, <1>10, <1>11, <1>12
    DEF Next, WorkerStep, MainStep, Done

-----------------------------------------------------------------------------
(* Counters                                                                *)

LEMMA CountedInit == Init => Counted
  <1> SUFFICES ASSUME Init PROVE Counted
    OBVIOUS
  <1>1. At(Workers, stage, InCache) = {} /\ At(Workers, stage, Serving) = {}
    BY DEF Init, At, InCache, Serving
  <1>2. Cardinality(At(Workers, stage, InCache)) = 0
        /\ Cardinality(At(Workers, stage, Serving)) = 0
    BY <1>1, FS_EmptySet
  <1> QED
    BY <1>2 DEF Init, Counted

Counters == [total_requests : Nat, cache_hits : Nat, cache_misses : Nat,
             active_workers : Nat, failures : Nat]

\* The counters keep their type and still account for every worker.
LEMMA CountedNext ==
    TypeOK /\ Counted /\ [Next]_vars => count' \in Counters /\ Counted'
  <1> SUFFICES ASSUME TypeOK, Counted, [Next]_vars
               PROVE  count' \in Counters /\ Counted'
    OBVIOUS
  <1>t. count \in Counters
    BY DEF TypeOK, Counters
  <1>1. CASE UNCHANGED <<stage, count>>
    BY <1>1, <1>t DEF Counted
  <1>2. ASSUME NEW w \in Workers,
               \/ Stage(w, "pop", "read") \/ Stage(w, "read", "pop")
               \/ Stage(w, "serve", "reply") \/ Stage(w, "lookup", "cache")
               \/ Stage(w, "release", "reply") \/ Stage(w, "reply", "sent")
               \/ Stage(w, "pop", "left"),
               count' = count
        PROVE  count' \in Counters /\ Counted'
    <2>1. /\ Cardinality(At(Workers, stage', InCache)) =
             Cardinality(At(Workers, stage, InCache))
          /\ Cardinality(At(Workers, stage', Serving)) =
             Cardinality(At(Workers, stage, Serving))
      BY <1>2, Moves DEF InCache, Serving
    <2> QED
      BY <1>2, <1>t, <2>1 DEF Counted
  <1>3. ASSUME NEW w \in Workers, NEW q \in Keys \cup {Other}, ReadQuery(w, q)
        PROVE  count' \in Counters /\ Counted'
    <2>1. Stage(w, "read", "serve")
          /\ count' = [count EXCEPT !.active_workers = count.active_workers + 1]
      BY <1>3 DEF ReadQuery
    <2> QED
      BY <2>1, <1>t, Moves DEF Counted, Counters, InCache, Serving
  <1>4. ASSUME NEW w \in Workers, CountRequest(w)
        PROVE  count' \in Counters /\ Counted'
    <2>1. Stage(w, "serve", "lookup")
          /\ count' = [count EXCEPT !.total_requests = count.total_requests + 1]
      BY <1>4 DEF CountRequest
    <2> QED
      BY <2>1, <1>t, Moves DEF Counted, Counters, InCache, Serving
  <1>5. ASSUME NEW w \in Workers, AnswerQuery(w)
        PROVE  count' \in Counters /\ Counted'
    <2>1. Stage(w, "cache", "release")
      BY <1>5 DEF AnswerQuery
    <2>2. PICK what \in {"failures", "cache_hits", "cache_misses"} :
              count' = [count EXCEPT ![what] = count[what] + 1]
      <3> DEFINE which == CASE client'[w].reply = Lines!Failed -> "failures"
                            [] client[w].role = "joined"       -> "cache_hits"
                            [] OTHER                           -> "cache_misses"
      <3>1. count' = [count EXCEPT ![which] = count[which] + 1]
        BY <1>5 DEF AnswerQuery
      <3>2. which \in {"failures", "cache_hits", "cache_misses"}
        OBVIOUS
      <3> HIDE DEF which
      <3> QED
        BY <3>1, <3>2
    <2>3. /\ what = "failures" =>
                count' = [count EXCEPT !.failures = count.failures + 1]
          /\ what = "cache_hits" =>
                count' = [count EXCEPT !.cache_hits = count.cache_hits + 1]
          /\ what = "cache_misses" =>
                count' = [count EXCEPT !.cache_misses = count.cache_misses + 1]
      BY <2>2
    <2> QED
      BY <2>1, <2>2, <2>3, <1>t, Moves DEF Counted, Counters, InCache, Serving
  <1>6. ASSUME NEW w \in Workers, Finish(w)
        PROVE  count' \in Counters /\ Counted'
    <2>1. Stage(w, "sent", "pop")
          /\ count' = [count EXCEPT !.active_workers = count.active_workers - 1]
      BY <1>6 DEF Finish
    <2>2. Cardinality(At(Workers, stage', Serving)) \in Nat
      BY EngineAssumption, CountFinite
    <2> QED
      BY <2>1, <2>2, <1>t, Moves DEF Counted, Counters, InCache, Serving
  <1>7. ASSUME NEW w \in Workers,
               \/ TakeTask(w) \/ ReadNothing(w) \/ AnswerOther(w) \/ Lookup(w)
               \/ Release(w) \/ SendReply(w) \/ LeaveLoop(w)
        PROVE  count' \in Counters /\ Counted'
    BY <1>7, <1>2 DEF TakeTask, ReadNothing, AnswerOther, Lookup, Release, SendReply,
                      LeaveLoop
  <1>8. ASSUME NEW w \in Workers, Lead(w) PROVE count' \in Counters /\ Counted'
    BY <1>8, <1>1 DEF Lead
  <1>9. CASE ListenerStep
    BY <1>9, <1>1 DEF ListenerStep, CreateSocket, Bind, Listen, Prepare, TestRunning,
              CallAccept, AcceptReturns, AcceptFails, Enqueue, Reject, working
  <1>10. CASE Destroy \/ MainStep
    BY <1>10, <1>1 DEF Destroy, MainStep, Shutdown, CloseServer, JoinListener,
              StopQueue, JoinWorkers, working
  <1>11. ASSUME NEW c \in Clients, Connect(c) \/ Relent(c)
         PROVE  count' \in Counters /\ Counted'
    BY <1>11, <1>1 DEF Connect, Relent, working
  <1>12. ASSUME NEW k \in Keys, Forget(k) PROVE count' \in Counters /\ Counted'
    BY <1>12, <1>1 DEF Forget
  <1>13. CASE UNCHANGED vars
    BY <1>13, <1>1 DEF vars
  <1> QED
    BY <1>3, <1>4, <1>5, <1>6, <1>7, <1>8, <1>9, <1>10, <1>11, <1>12, <1>13
    DEF Next, WorkerStep, Done

-----------------------------------------------------------------------------
(* Ownership of sockets                                                    *)

Ownership == OpenInv /\ DistinctInv /\ OwnedInv

LEMMA OwnershipInit == Init => Ownership
  <1> SUFFICES ASSUME Init PROVE Ownership
    OBVIOUS
  <1>1. /\ \A w \in Workers : ~Holds(w)
        /\ pending = <<>> /\ DOMAIN pending = {} /\ accepted = NULL
        /\ \A c \in Clients : socket[c] # "open"
    BY DEF Init, Queue!Init, Holds
  <1> QED
    BY <1>1 DEF Ownership, OpenInv, DistinctInv, OwnedInv

\* Nothing changes as long as the same clients are open and owned by the same.
LEMMA OwnersKept ==
    ASSUME TypeOK, RoleInv, Ownership, UNCHANGED <<pending, accepted>>,
           \A c \in Clients : socket'[c] = "open" <=> socket[c] = "open",
           \A w \in Workers : /\ Holds(w)' <=> Holds(w)
                              /\ Holds(w) => task'[w] = task[w]
    PROVE  Ownership'
  <1>t. /\ \A w \in Workers : Holds(w) => task[w] \in Clients
        /\ \A i \in DOMAIN pending : pending[i] \in Clients
        /\ accepted # NULL => accepted \in Clients
    BY DEF TypeOK, RoleInv, Holds
  <1>1. OpenInv'
    BY <1>t DEF Ownership, OpenInv
  <1>2. DistinctInv'
    BY DEF Ownership, DistinctInv
  <1>3. OwnedInv'
    BY DEF Ownership, OwnedInv
  <1> QED
    BY <1>1, <1>2, <1>3 DEF Ownership

LEMMA Accepting ==
    ASSUME TypeOK, RoleInv, Ownership, NEW c \in Clients, AcceptReturns(c)
    PROVE  Ownership'
  <1>1. /\ accepted = NULL /\ accepted' = c /\ c # NULL
        /\ pending' = pending /\ socket[c] = "backlog"
        /\ socket'[c] = "open"
        /\ \A d \in Clients : d # c => socket'[d] = socket[d]
        /\ \A w \in Workers : (Holds(w)' <=> Holds(w)) /\ task'[w] = task[w]
    BY EngineAssumption DEF AcceptReturns, Listener, TypeOK, queueVars, working, Holds
  <1>t. /\ \A w \in Workers : Holds(w) => task[w] \in Clients
        /\ \A i \in DOMAIN pending : pending[i] \in Clients
    BY DEF TypeOK, RoleInv, Holds
  <1>2. /\ \A w \in Workers : Holds(w) => task[w] # c
        /\ \A i \in DOMAIN pending : pending[i] # c
    BY <1>1 DEF Ownership, OpenInv
  <1>3. OpenInv'
    BY <1>1, <1>2, <1>t DEF Ownership, OpenInv
  <1>4. DistinctInv'
    BY <1>1, <1>2, <1>t DEF Ownership, DistinctInv
  <1>5. OwnedInv'
    <2> SUFFICES ASSUME NEW d \in Clients, d # c, socket[d] = "open"
                 PROVE  \/ \E i \in DOMAIN pending : pending[i] = d
                        \/ \E w \in Workers : Holds(w) /\ task[w] = d
      BY <1>1 DEF OwnedInv
    <2>1. accepted # d
      BY <1>1, EngineAssumption
    <2> QED
      BY <2>1 DEF Ownership, OwnedInv
  <1> QED
    BY <1>3, <1>4, <1>5 DEF Ownership

LEMMA Enqueueing ==
    ASSUME TypeOK, RoleInv, Ownership, Enqueue
    PROVE  Ownership'
  <1>1. /\ accepted # NULL /\ accepted \in Clients /\ accepted' = NULL
        /\ NULL \notin Clients /\ socket' = socket
        /\ \A w \in Workers : (Holds(w)' <=> Holds(w)) /\ task'[w] = task[w]
    BY EngineAssumption DEF Enqueue, Queue!Accept, Listener, TypeOK, working, Holds
  <1> DEFINE n == Len(pending)
  <1>2. /\ n \in Nat /\ DOMAIN pending = 1 .. n /\ DOMAIN pending' = 1 .. n + 1
        /\ \A i \in 1 .. n : pending'[i] = pending[i]
        /\ pending'[n + 1] = accepted
    BY DEF Enqueue, Queue!Accept, TypeOK
  <1> HIDE DEF n
  <1>t. /\ \A w \in Workers : Holds(w) => task[w] \in Clients
        /\ \A i \in DOMAIN pending : pending[i] \in Clients
    BY DEF TypeOK, RoleInv, Holds
  <1>3. \A i \in DOMAIN pending' : i = n + 1 \/ (i \in DOMAIN pending /\ i # n + 1)
    BY <1>2
  <1>4. OpenInv'
    BY <1>1, <1>2, <1>3, <1>t DEF Ownership, OpenInv
  <1>5. DistinctInv'
    BY <1>1, <1>2, <1>3, <1>t DEF Ownership, DistinctInv
  <1>6. OwnedInv'
    <2> SUFFICES ASSUME NEW c \in Clients, socket[c] = "open"
                 PROVE  \/ \E i \in DOMAIN pending' : pending'[i] = c
                        \/ \E w \in Workers : Holds(w)' /\ task'[w] = c
      BY <1>1 DEF OwnedInv
    <2>1. CASE accepted = c
      BY <2>1, <1>2
    <2>2. CASE \E i \in DOMAIN pending : pending[i] = c
      BY <2>2, <1>2
    <2>3. CASE \E w \in Workers : Holds(w) /\ task[w] = c
      BY <2>3, <1>1
    <2> QED
      BY <2>1, <2>2, <2>3 DEF Ownership, OwnedInv
  <1> QED
    BY <1>4, <1>5, <1>6 DEF Ownership

LEMMA Rejecting ==
    ASSUME TypeOK, RoleInv, Ownership, Reject
    PROVE  Ownership'
  <1>1. /\ accepted # NULL /\ accepted \in Clients /\ accepted' = NULL
        /\ NULL \notin Clients /\ pending' = pending
        /\ socket'[accepted] = "closed"
        /\ \A d \in Clients : d # accepted => socket'[d] = socket[d]
        /\ \A w \in Workers : (Holds(w)' <=> Holds(w)) /\ task'[w] = task[w]
    BY EngineAssumption DEF Reject, Listener, TypeOK, queueVars, working, Holds
  <1>t. /\ \A w \in Workers : Holds(w) => task[w] \in Clients
        /\ \A i \in DOMAIN pending : pending[i] \in Clients
    BY DEF TypeOK, RoleInv, Holds
  <1>2. OpenInv'
    BY <1>1, <1>t DEF Ownership, OpenInv, DistinctInv
  <1>3. DistinctInv'
    BY <1>1, <1>t DEF Ownership, DistinctInv
  <1>4. OwnedInv'
    BY <1>1 DEF Ownership, OwnedInv
  <1> QED
    BY <1>2, <1>3, <1>4 DEF Ownership

LEMMA Taking ==
    ASSUME TypeOK, RoleInv, Ownership, NEW w \in Workers, TakeTask(w)
    PROVE  Ownership'
  <1> DEFINE n == Len(pending)
  <1>1. /\ n \in Nat /\ n >= 1 /\ DOMAIN pending = 1 .. n
        /\ DOMAIN pending' = 1 .. n - 1
        /\ \A i \in 1 .. n - 1 : pending'[i] = pending[i + 1]
        /\ task'[w] = pending[1]
    BY DEF TakeTask, Queue!Take, TypeOK
  <1> HIDE DEF n
  <1>2. /\ socket' = socket /\ accepted' = accepted
        /\ ~Holds(w) /\ Holds(w)'
        /\ \A v \in Workers : v # w => (Holds(v)' <=> Holds(v)) /\ task'[v] = task[v]
    BY DEF TakeTask, Queue!Take, Stage, TypeOK, Holds, engine, acceptVars
  <1>3. /\ 1 \in DOMAIN pending
        /\ \A i \in DOMAIN pending' : i + 1 \in DOMAIN pending /\ i + 1 # 1
                                      /\ pending'[i] = pending[i + 1]
    BY <1>1
  <1>4. OpenInv'
    BY <1>1, <1>2, <1>3 DEF Ownership, OpenInv
  <1>5. DistinctInv'
    <2>1. \A i, j \in DOMAIN pending' : pending'[i] = pending'[j] => i = j
      <3> SUFFICES ASSUME NEW i \in DOMAIN pending', NEW j \in DOMAIN pending',
                          pending'[i] = pending'[j]
                   PROVE  i = j
        OBVIOUS
      <3>1. i + 1 = j + 1
        BY <1>3 DEF Ownership, DistinctInv
      <3>2. i \in Nat /\ j \in Nat
        BY <1>1
      <3> QED
        BY <3>1, <3>2
    <2>2. \A u, v \in Workers : Holds(u)' /\ Holds(v)' /\ task'[u] = task'[v] => u = v
      BY <1>1, <1>2, <1>3 DEF Ownership, DistinctInv
    <2>3. \A v \in Workers, i \in DOMAIN pending' :
             Holds(v)' => pending'[i] # task'[v]
      BY <1>1, <1>2, <1>3 DEF Ownership, DistinctInv
    <2>4. /\ \A v \in Workers : Holds(v)' /\ accepted' # NULL => task'[v] # accepted'
          /\ \A i \in DOMAIN pending' : pending'[i] # accepted'
      BY <1>1, <1>2, <1>3 DEF Ownership, DistinctInv
    <2> QED
      BY <2>1, <2>2, <2>3, <2>4 DEF DistinctInv
  <1>6. OwnedInv'
    <2> SUFFICES ASSUME NEW c \in Clients, socket[c] = "open", accepted # c
                 PROVE  \/ \E i \in DOMAIN pending' : pending'[i] = c
                        \/ \E v \in Workers : Holds(v)' /\ task'[v] = c
      BY <1>2 DEF OwnedInv
    <2>1. CASE \E i \in DOMAIN pending : pending[i] = c
      <3>1. PICK i \in 1 .. n : pending[i] = c
        BY <2>1, <1>1
      <3>2. CASE i = 1
        BY <3>1, <3>2, <1>1, <1>2
      <3>3. CASE i # 1
        <4>1. i - 1 \in 1 .. n - 1 /\ (i - 1) + 1 = i
          BY <3>3, <1>1
        <4> QED
          BY <4>1, <3>1, <1>1
      <3> QED
        BY <3>2, <3>3
    <2>2. CASE \E v \in Workers : Holds(v) /\ task[v] = c
      BY <2>2, <1>2
    <2> QED
      BY <2>1, <2>2 DEF Ownership, OwnedInv
  <1> QED
    BY <1>4, <1>5, <1>6 DEF Ownership

\* A worker closes its socket and has none then.
LEMMA Closing ==
    ASSUME TypeOK, RoleInv, Ownership, NEW w \in Workers,
           ReadNothing(w) \/ SendReply(w)
    PROVE  Ownership'
  <1>1. /\ Holds(w) /\ ~Holds(w)'
        /\ \A v \in Workers : v # w => (Holds(v)' <=> Holds(v)) /\ task'[v] = task[v]
        /\ pending' = pending /\ accepted' = accepted
    BY DEF ReadNothing, SendReply, Queue!Return, Stage, TypeOK, Holds, engine,
           acceptVars, queueVars
  <1>t. /\ \A v \in Workers : Holds(v) => task[v] \in Clients
        /\ \A i \in DOMAIN pending : pending[i] \in Clients
        /\ accepted # NULL => accepted \in Clients
    BY DEF TypeOK, RoleInv, Holds
  <1>2. /\ socket'[task[w]] = "closed"
        /\ \A d \in Clients : d # task[w] => socket'[d] = socket[d]
    BY <1>1, <1>t DEF ReadNothing, SendReply, Close, TypeOK
  <1>3. OpenInv'
    BY <1>1, <1>2, <1>t DEF Ownership, OpenInv, DistinctInv
  <1>4. DistinctInv'
    BY <1>1, <1>t DEF Ownership, DistinctInv
  <1>5. OwnedInv'
    BY <1>1, <1>2, <1>t DEF Ownership, OwnedInv
  <1> QED
    BY <1>3, <1>4, <1>5 DEF Ownership

LEMMA OwnershipNext ==
    TypeOK /\ RoleInv /\ Ownership /\ [Next]_vars => Ownership'
  <1> SUFFICES ASSUME TypeOK, RoleInv, Ownership, [Next]_vars PROVE Ownership'
    OBVIOUS
  <1>t. stage \in [Workers -> {"pop", "read", "serve", "lookup", "cache",
                               "release", "reply", "sent", "left"}]
    BY DEF TypeOK
  <1>1. CASE UNCHANGED <<pending, accepted, socket, stage, task>>
    BY <1>1, OwnersKept DEF Holds
  <1>2. ASSUME NEW w \in Workers,
               \/ \E q \in Keys \cup {Other} : ReadQuery(w, q)
               \/ AnswerOther(w) \/ CountRequest(w) \/ Lookup(w) \/ AnswerQuery(w)
               \/ Release(w) \/ Finish(w) \/ LeaveLoop(w)
        PROVE  Ownership'
    <2>1. UNCHANGED <<pending, accepted, socket>>
      BY <1>2 DEF ReadQuery, AnswerOther, CountRequest, Lookup, AnswerQuery, Release,
                  Finish, LeaveLoop, Queue!Return, Queue!Dismiss, queueVars, engine,
                  acceptVars
    <2>2. \A v \in Workers : Holds(v)' <=> Holds(v)
      BY <1>2, <1>t DEF ReadQuery, AnswerOther, CountRequest, Lookup, AnswerQuery,
                  Release, Finish, LeaveLoop, Stage, Holds
    <2>3. \A v \in Workers : Holds(v) => task'[v] = task[v]
      BY <1>2, <1>t DEF ReadQuery, AnswerOther, CountRequest, Lookup, AnswerQuery,
                  Release, Finish, LeaveLoop, Queue!Return, Queue!Dismiss, Stage,
                  Holds, TypeOK, queueVars
    <2> QED
      BY <2>1, <2>2, <2>3, OwnersKept
  <1>3. ASSUME NEW w \in Workers, Lead(w) PROVE Ownership'
    BY <1>3, <1>1 DEF Lead, queueVars, engine, acceptVars
  <1>4. CASE CreateSocket \/ Bind \/ Listen \/ TestRunning \/ CallAccept \/ AcceptFails
    BY <1>4, <1>1 DEF CreateSocket, Bind, Listen, Prepare, TestRunning, CallAccept,
              AcceptFails, queueVars, working
  <1>5. CASE Destroy \/ MainStep
    BY <1>5, <1>1 DEF Destroy, MainStep, Shutdown, CloseServer, JoinListener,
              StopQueue, JoinWorkers, Queue!Close, queueVars, working, acceptVars
  <1>6. ASSUME NEW c \in Clients, Connect(c) PROVE Ownership'
    <2>1. UNCHANGED <<pending, accepted, stage, task>>
          /\ \A d \in Clients : socket'[d] = "open" <=> socket[d] = "open"
      BY <1>6 DEF Connect, queueVars, acceptVars, working, TypeOK
    <2> QED
      BY <2>1, OwnersKept DEF Holds
  <1>7. ASSUME NEW c \in Clients, Relent(c) PROVE Ownership'
    BY <1>7, <1>1 DEF Relent, queueVars, acceptVars
  <1>8. ASSUME NEW k \in Keys, Forget(k) PROVE Ownership'
    BY <1>8, <1>1 DEF Forget, queueVars, engine, acceptVars
  <1>9. CASE UNCHANGED vars
    BY <1>9, <1>1 DEF vars, queueVars, acceptVars
  <1> QED
    BY <1>2, <1>3, <1>4, <1>5, <1>6, <1>7, <1>8, <1>9,
       Accepting, Enqueueing, Rejecting, Taking, Closing
    DEF Next, ListenerStep, WorkerStep, Done

\* What the invariant says of the owners of one client.
LEMMA OneOwnerHolds == TypeOK /\ RoleInv /\ Ownership => OneOwner
  <1> SUFFICES ASSUME TypeOK, RoleInv, Ownership, NEW c \in Clients
               PROVE  Cardinality(Owners(c)) = IF socket[c] = "open" THEN 1 ELSE 0
    BY DEF OneOwner
  <1>0. c # NULL
    BY EngineAssumption
  <1>1. \A w \in Workers : task[w] = c /\ stage[w] # "sent" <=> Holds(w) /\ task[w] = c
    BY <1>0 DEF RoleInv, Holds
  <1>2. \A o : o \in Owners(c) <=>
            \/ \E w \in Workers : o = <<"worker", w>> /\ Holds(w) /\ task[w] = c
            \/ \E i \in DOMAIN pending : o = <<"queue", i>> /\ pending[i] = c
            \/ o = <<"listener", 0>> /\ accepted = c
    BY <1>1 DEF Owners
  <1>3. CASE socket[c] # "open"
    <2>1. Owners(c) = {}
      BY <1>0, <1>2, <1>3 DEF Ownership, OpenInv
    <2> QED
      BY <2>1, <1>3, FS_EmptySet
  <1>4. CASE socket[c] = "open"
    <2>1. \E o : Owners(c) = {o}
      <3>1. CASE accepted = c
        <4>1. Owners(c) = {<<"listener", 0>>}
          BY <3>1, <1>0, <1>2 DEF Ownership, DistinctInv
        <4> QED
          BY <4>1
      <3>2. ASSUME NEW i \in DOMAIN pending, pending[i] = c
            PROVE  \E o : Owners(c) = {o}
        <4>1. Owners(c) = {<<"queue", i>>}
          BY <3>2, <1>0, <1>2 DEF Ownership, DistinctInv
        <4> QED
          BY <4>1
      <3>3. ASSUME NEW w \in Workers, Holds(w), task[w] = c
            PROVE  \E o : Owners(c) = {o}
        <4>1. Owners(c) = {<<"worker", w>>}
          BY <3>3, <1>0, <1>2 DEF Ownership, DistinctInv
        <4> QED
          BY <4>1
      <3> QED
        BY <3>1, <3>2, <3>3, <1>4 DEF Ownership, OwnedInv
    <2> QED
      BY <2>1, <1>4, FS_Singleton
  <1> QED
    BY <1>3, <1>4

-----------------------------------------------------------------------------
(* Types                                                                   *)

LEMMA TypeInit == Init => TypeOK
  <1> SUFFICES ASSUME Init PROVE TypeOK
    OBVIOUS
  <1>1. pending \in Seq(Clients) /\ slow \in SUBSET Clients
    BY DEF Init, Queue!Init
  <1>2. is_running \in BOOLEAN /\ closed \in BOOLEAN
    BY DEF Init, Queue!Init
  <1> QED
    BY <1>1, <1>2 DEF Init, Queue!Init, TypeOK

\* What the listener and the main thread have.
ServerTypes ==
    /\ main \in {"serving", "shutdown", "close", "join_listener", "stop",
                 "join_workers", "done"}
    /\ listener \in {"socket", "bind", "listen", "loop", "accept", "accepting",
                     "push", "left"}
    /\ accepted \in Clients \cup {NULL}
    /\ accepted # NULL <=> listener = "push"
    /\ server_fd \in {"none", "open", "closed"}
    /\ server_file \in {"none", "created", "bound", "listening", "shut"}

LEMMA ServerTypesNext == TypeOK /\ [Next]_vars => ServerTypes'
  <1> SUFFICES ASSUME TypeOK, [Next]_vars PROVE ServerTypes'
    OBVIOUS
  <1>t. ServerTypes
    BY DEF TypeOK, ServerTypes
  <1>1. CASE UNCHANGED <<main, listener, accepted, server_fd, server_file>>
    BY <1>1, <1>t DEF ServerTypes
  <1>2. CASE CreateSocket \/ Bind \/ Listen
    BY <1>2, <1>t DEF CreateSocket, Bind, Listen, Prepare, Listener, ServerTypes
  <1>3. CASE TestRunning \/ CallAccept \/ AcceptFails
    BY <1>3, <1>t DEF TestRunning, CallAccept, AcceptFails, Listener, serverVars, ServerTypes
  <1>4. ASSUME NEW c \in Clients, AcceptReturns(c) PROVE ServerTypes'
    BY <1>4, <1>t, EngineAssumption DEF AcceptReturns, Listener, serverVars, ServerTypes
  <1>5. CASE Enqueue \/ Reject
    BY <1>5, <1>t DEF Enqueue, Reject, Listener, serverVars, ServerTypes
  <1>6. CASE Destroy \/ MainStep
    BY <1>6, <1>t DEF Destroy, MainStep, Shutdown, CloseServer, JoinListener, StopQueue,
              JoinWorkers, Main, acceptVars, serverVars, ServerTypes
  <1>7. ASSUME NEW w \in Workers, WorkerStep(w) PROVE ServerTypes'
    <2>1. UNCHANGED engine
      BY <1>7 DEF WorkerStep, TakeTask, ReadNothing, ReadQuery, AnswerOther,
                  CountRequest, Lookup, Lead, AnswerQuery, Release, SendReply, Finish,
                  LeaveLoop
    <2> QED
      BY <2>1, <1>1 DEF engine, acceptVars, serverVars
  <1>8. ASSUME NEW c \in Clients, Connect(c) \/ Relent(c) PROVE ServerTypes'
    BY <1>8, <1>1 DEF Connect, Relent, acceptVars, serverVars
  <1>9. ASSUME NEW k \in Keys, Forget(k) PROVE ServerTypes'
    BY <1>9, <1>1 DEF Forget, engine, acceptVars, serverVars
  <1>10. CASE UNCHANGED vars
    BY <1>10, <1>1 DEF vars, acceptVars, serverVars
  <1> QED
    BY <1>2, <1>3, <1>4, <1>5, <1>6, <1>7, <1>8, <1>9, <1>10 DEF Next, ListenerStep, Done

LEMMA FlagTypesNext ==
    TypeOK /\ [Next]_vars => is_running' \in BOOLEAN /\ closed' \in BOOLEAN
  <1> SUFFICES ASSUME TypeOK, [Next]_vars
               PROVE  /\ is_running' = is_running \/ is_running' = FALSE
                      /\ closed' = closed \/ closed' = TRUE
    BY DEF TypeOK
  <1>1. CASE ListenerStep
    BY <1>1 DEF ListenerStep, CreateSocket, Bind, Listen, Prepare, TestRunning,
              CallAccept, AcceptReturns, AcceptFails, Enqueue, Reject, Queue!Accept,
              queueVars, serverVars
  <1>2. ASSUME NEW w \in Workers, WorkerStep(w)
        PROVE  is_running' = is_running /\ closed' = closed
    BY <1>2 DEF WorkerStep, TakeTask, ReadNothing, ReadQuery, AnswerOther, CountRequest,
              Lookup, Lead, AnswerQuery, Release, SendReply, Finish, LeaveLoop,
              Queue!Take, Queue!Return, Queue!Dismiss, queueVars, engine, serverVars
  <1>3. CASE Destroy \/ MainStep
    BY <1>3 DEF Destroy, MainStep, Shutdown, CloseServer, JoinListener, StopQueue,
              JoinWorkers, Queue!Close, queueVars, serverVars
  <1>4. ASSUME NEW c \in Clients, Connect(c) \/ Relent(c)
        PROVE  is_running' = is_running /\ closed' = closed
    BY <1>4 DEF Connect, Relent, queueVars, serverVars
  <1>5. ASSUME NEW k \in Keys, Forget(k)
        PROVE  is_running' = is_running /\ closed' = closed
    BY <1>5 DEF Forget, engine, queueVars, serverVars
  <1>6. CASE UNCHANGED vars
    BY <1>6 DEF vars, queueVars, serverVars
  <1> QED
    BY <1>1, <1>2, <1>3, <1>4, <1>5, <1>6 DEF Next, Done

\* What the workers, the queue and the clients have.
WorkTypes ==
    /\ socket \in [Clients -> {"new", "backlog", "open", "closed"}]
    /\ slow \in SUBSET Clients
    /\ query \in [Clients -> Keys \cup {Other, NULL}]
    /\ stage \in [Workers -> {"pop", "read", "serve", "lookup", "cache",
                              "release", "reply", "sent", "left"}]
    /\ pending \in Seq(Clients)
    /\ consumer \in [Workers -> {"free", "busy", "dismissed"}]
    /\ task \in [Workers -> Clients \cup {NULL}]

LEMMA WorkTypesNext == TypeOK /\ RoleInv /\ [Next]_vars => WorkTypes'
  <1> SUFFICES ASSUME TypeOK, RoleInv, [Next]_vars PROVE WorkTypes'
    OBVIOUS
  <1>t. WorkTypes
    BY DEF TypeOK, WorkTypes
  <1>1. CASE UNCHANGED <<socket, slow, query, stage, pending, consumer, task>>
    BY <1>1, <1>t DEF WorkTypes
  <1>2. ASSUME NEW w \in Workers, TakeTask(w) PROVE WorkTypes'
    <2>1. Head(pending) \in Clients /\ Tail(pending) \in Seq(Clients)
      BY <1>2, <1>t DEF TakeTask, Queue!Take, WorkTypes
    <2> QED
      BY <1>2, <1>t, <2>1 DEF TakeTask, Queue!Take, Stage, engine, WorkTypes
  <1>3. ASSUME NEW w \in Workers, ReadNothing(w) \/ Finish(w) \/ SendReply(w)
        PROVE  WorkTypes'
    BY <1>3, <1>t DEF ReadNothing, Finish, SendReply, Close, Queue!Return, Stage,
              engine, queueVars, WorkTypes
  <1>4. ASSUME NEW w \in Workers, NEW q \in Keys \cup {Other}, ReadQuery(w, q)
        PROVE  WorkTypes'
    BY <1>4, <1>t DEF ReadQuery, Stage, engine, queueVars, WorkTypes
  <1>5. ASSUME NEW w \in Workers,
               \/ AnswerOther(w) \/ CountRequest(w) \/ Lookup(w) \/ AnswerQuery(w)
               \/ Release(w)
        PROVE  WorkTypes'
    BY <1>5, <1>t DEF AnswerOther, CountRequest, Lookup, AnswerQuery, Release, Stage,
              engine, queueVars, WorkTypes
  <1>6. ASSUME NEW w \in Workers, LeaveLoop(w) PROVE WorkTypes'
    BY <1>6, <1>t DEF LeaveLoop, Queue!Dismiss, Stage, engine, WorkTypes
  <1>7. ASSUME NEW w \in Workers, Lead(w) PROVE WorkTypes'
    BY <1>7, <1>1 DEF Lead, engine, queueVars
  <1>8. CASE CreateSocket \/ Bind \/ Listen \/ TestRunning \/ CallAccept \/ AcceptFails
    BY <1>8, <1>1 DEF CreateSocket, Bind, Listen, Prepare, TestRunning, CallAccept,
              AcceptFails, queueVars, working
  <1>9. ASSUME NEW c \in Clients, AcceptReturns(c) \/ Connect(c) \/ Relent(c)
        PROVE  WorkTypes'
    BY <1>9, <1>t DEF AcceptReturns, Connect, Relent, queueVars, working, WorkTypes
  <1>10. CASE Enqueue
    <2>1. accepted \in Clients
      BY <1>10 DEF Enqueue, Listener, TypeOK
    <2> QED
      BY <1>10, <1>t, <2>1 DEF Enqueue, Queue!Accept, working, WorkTypes
  <1>11. CASE Reject
    BY <1>11, <1>t DEF Reject, queueVars, working, WorkTypes
  <1>12. CASE Destroy \/ MainStep
    BY <1>12, <1>1 DEF Destroy, MainStep, Shutdown, CloseServer, JoinListener,
              StopQueue, JoinWorkers, Queue!Close, queueVars, working
  <1>13. ASSUME NEW k \in Keys, Forget(k) PROVE WorkTypes'
    BY <1>13, <1>1 DEF Forget, engine, queueVars
  <1>14. CASE UNCHANGED vars
    BY <1>14, <1>1 DEF vars, queueVars
  <1> QED
    BY <1>2, <1>3, <1>4, <1>5, <1>6, <1>7, <1>8, <1>9, <1>10, <1>11, <1>12, <1>13, <1>14
    DEF Next, ListenerStep, WorkerStep, Done

-----------------------------------------------------------------------------
(* Theorems                                                                *)

IInv == TypeOK /\ RoleInv /\ Ownership /\ StopInv /\ Counted

\* The invariant holds: threads, sockets and counters stay in step.
THEOREM EngineInvariant == Spec => []IInv
  <1>1. Init => IInv
    BY TypeInit, RoleInit, OwnershipInit, StopInit, CountedInit DEF IInv
  <1>2. IInv /\ [Next]_vars => IInv'
    <2> SUFFICES ASSUME IInv, [Next]_vars PROVE IInv'
      OBVIOUS
    <2>1. ServerTypes' /\ is_running' \in BOOLEAN /\ closed' \in BOOLEAN
          /\ WorkTypes' /\ count' \in Counters
      BY ServerTypesNext, FlagTypesNext, WorkTypesNext, CountedNext DEF IInv
    <2>2. TypeOK'
      BY <2>1 DEF TypeOK, ServerTypes, WorkTypes, Counters
    <2>3. RoleInv' /\ Ownership' /\ StopInv' /\ Counted'
      BY RoleNext, OwnershipNext, StopNext, CountedNext DEF IInv
    <2> QED
      BY <2>2, <2>3 DEF IInv
  <1> QED
    BY <1>1, <1>2, PTL DEF Spec

\* Every variable keeps its type: no counter falls below zero.
THEOREM EngineTypeCorrect == Spec => []TypeOK
  BY EngineInvariant, PTL DEF IInv

\* Every open socket has one owner: it is closed once and never used afterwards.
THEOREM SocketsHaveOneOwner == Spec => []OneOwner
  <1>1. IInv => OneOwner
    BY OneOwnerHolds DEF IInv
  <1> QED
    BY <1>1, EngineInvariant, PTL

\* The counters account for every request.
THEOREM CountersAlwaysFit == Spec => []CountersFit
  <1>1. IInv => CountersFit
    BY CountedFits DEF IInv
  <1> QED
    BY <1>1, EngineInvariant, PTL

\* The destructor leaves no thread, no open socket and no request behind.
THEOREM StopsClean == Spec => []StoppedClean
  <1>1. IInv => StoppedClean
    <2> SUFFICES ASSUME IInv, main = "done" PROVE StoppedClean
      BY DEF StoppedClean
    <2>1. listener = "left" /\ \A w \in Workers : stage[w] = "left"
      BY DEF IInv, StopInv
    <2>2. pending = <<>> /\ DOMAIN pending = {}
      BY <2>1, EngineAssumption DEF IInv, StopInv
    <2>3. \A c \in Clients : socket[c] # "open"
      BY <2>1, <2>2, EngineAssumption
      DEF IInv, Ownership, OwnedInv, TypeOK, Holds
    <2>4. count.active_workers = 0
      <3>1. At(Workers, stage, Serving) = {}
        BY <2>1 DEF At, Serving
      <3> QED
        BY <3>1, FS_EmptySet DEF IInv, Counted
    <2> QED
      BY <2>1, <2>2, <2>3, <2>4 DEF StoppedClean
  <1> QED
    BY <1>1, EngineInvariant, PTL

=============================================================================
