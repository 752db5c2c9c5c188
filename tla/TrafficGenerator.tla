--------------------------- MODULE TrafficGenerator ---------------------------
(***************************************************************************)
(* TrafficGenerator: the dashboard's load generator, whose threads come    *)
(* and go as control requests change their target number.                  *)
(*                                                                         *)
(* active_threads is changed by set_config when it starts threads and by   *)
(* each thread when it leaves, both under the lock, so one critical section*)
(* is one action.  What a thread does between two looks at the settings,   *)
(* its queries, is one step: it ends, since sockets and the database have  *)
(* time limits.                                                            *)
(***************************************************************************)
EXTENDS Integers, FiniteSets

CONSTANTS
    Threads,        \* identities of threads
    MaxThreads      \* the most set_config asks for (32)

ASSUME TrafficAssumption ==
    /\ IsFiniteSet(Threads)
    /\ MaxThreads \in Nat \ {0}

VARIABLES
    running,
    target_threads,
    active_threads,
    thread,         \* what each thread does: "none" when there is no such thread
    raised          \* for the history: Thread.start has failed

vars == <<running, target_threads, active_threads, thread, raised>>

Live == {t \in Threads : thread[t] # "none"}

Larger(a, b) == IF a >= b THEN a ELSE b

Init ==
    /\ running = FALSE
    /\ target_threads = 4
    /\ active_threads = 0
    /\ thread = [t \in Threads |-> "none"]
    /\ raised = FALSE

-----------------------------------------------------------------------------
(* set_config, with the number of threads already between 1 and MaxThreads *)

Needed(n) == Larger(0, n - active_threads)

StartAll(started) ==
    thread' = [t \in Threads |-> IF t \in started THEN "check" ELSE thread[t]]

\* Mutant: threads about to leave are taken for gone.
StartsAfresh(n) ==
    /\ running' = TRUE /\ UNCHANGED raised
    /\ target_threads' = n
    /\ \E started \in SUBSET (Threads \ Live) :
          /\ Cardinality(started) = IF running THEN Needed(n) ELSE n
          /\ StartAll(started)
          /\ active_threads' = Cardinality(started)
                                + IF running THEN active_threads ELSE 0

\* Start: the threads that are missing are counted and started.
Start(n) ==
    /\ running' = TRUE /\ UNCHANGED raised
    /\ target_threads' = n
    /\ \E started \in SUBSET (Threads \ Live) :
          /\ Cardinality(started) = Needed(n)
          /\ StartAll(started)
          /\ active_threads' = active_threads + Cardinality(started)

\* Thread.start raises: that thread was counted, the rest are not tried, and
\* the request fails with everything else changed.
StartRaises(n) ==
    /\ raised' = TRUE
    /\ running' = TRUE
    /\ target_threads' = n
    /\ \E started \in SUBSET (Threads \ Live) :
          /\ Cardinality(started) < Needed(n)
          /\ StartAll(started)
          /\ active_threads' = active_threads + Cardinality(started) + 1

Stop(n) ==
    /\ running' = FALSE
    /\ target_threads' = n
    /\ UNCHANGED <<active_threads, thread, raised>>

-----------------------------------------------------------------------------
(* worker_loop                                                             *)

\* Mutant: a thread that leaves is not counted out.
LeaveUncounted(t) ==
    /\ thread[t] = "check"
    /\ ~running \/ active_threads > target_threads
    /\ thread' = [thread EXCEPT ![t] = "none"]
    /\ UNCHANGED <<running, target_threads, active_threads, raised>>

\* A thread that is one too many counts itself out and ends.
Leave(t) ==
    /\ thread[t] = "check"
    /\ ~running \/ active_threads > target_threads
    /\ active_threads' = Larger(0, active_threads - 1)
    /\ thread' = [thread EXCEPT ![t] = "none"]
    /\ UNCHANGED <<running, target_threads, raised>>

\* Mutant: threads that are too many leave only when all are stopped.
StayWhileRunning(t) ==
    /\ thread[t] = "check"
    /\ running
    /\ thread' = [thread EXCEPT ![t] = "query"]
    /\ UNCHANGED <<running, target_threads, active_threads, raised>>

Stay(t) ==
    /\ thread[t] = "check"
    /\ running /\ active_threads <= target_threads
    /\ thread' = [thread EXCEPT ![t] = "query"]
    /\ UNCHANGED <<running, target_threads, active_threads, raised>>

\* The queries are answered, refused or time out, and the thread sleeps.
Queried(t) ==
    /\ thread[t] = "query"
    /\ thread' = [thread EXCEPT ![t] = "check"]
    /\ UNCHANGED <<running, target_threads, active_threads, raised>>

-----------------------------------------------------------------------------

Control == \E n \in 1..MaxThreads : Start(n) \/ StartRaises(n) \/ Stop(n)

Loop(t) == Leave(t) \/ Stay(t) \/ Queried(t)

Next == Control \/ \E t \in Threads : Loop(t)

\* Threads run.
Fairness == \A t \in Threads : WF_vars(Loop(t))

Spec     == Init /\ [][Next]_vars
FairSpec == Spec /\ Fairness

-----------------------------------------------------------------------------
(* Properties                                                              *)

\* Every variable keeps its type, and the count its limit.
TypeOK ==
    /\ running \in BOOLEAN
    /\ target_threads \in Nat
    /\ active_threads \in 0..MaxThreads
    /\ thread \in [Threads -> {"none", "check", "query"}]
    /\ raised \in BOOLEAN

\* As long as every thread starts, active_threads is the number of threads, none
\* of which is lost or counted twice, whatever starts and stops come while threads
\* are about to leave (traffic_generator.py:144-146, 176-180).
ActiveIsLive == ~raised => active_threads = Cardinality(Live)

\* However quickly stops and starts follow each other, there are never more
\* threads than the limit on a request (traffic_generator.py:173, 176).
WithinLimit == Cardinality(Live) <= MaxThreads

\* If control requests end, and every thread has started, the number of threads
\* becomes what was last asked for (traffic_generator.py:175-180).
TargetReached ==
    <>[][~Control]_vars /\ []~raised =>
        <>[](Cardinality(Live) = IF running THEN target_threads ELSE 0)

=============================================================================
