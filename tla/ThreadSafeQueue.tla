--------------------------- MODULE ThreadSafeQueue ----------------------------
(***************************************************************************)
(* ThreadSafeQueue: the bounded queue between the listener, which pushes   *)
(* accepted sockets, and the worker threads, which pop them.               *)
(*                                                                         *)
(* Every access to the queue and to is_stopped is inside the mutex, so one *)
(* action is one critical section.  The notifications come after it, when  *)
(* another thread may already have changed the queue, and are actions of   *)
(* their own.                                                              *)
(***************************************************************************)
EXTENDS Integers, FiniteSets, SequencesExt

CONSTANTS
    Producers,      \* threads that push
    Consumers,      \* threads that pop
    Stopper,        \* the thread that stops the queue
    Tasks,          \* sockets of clients
    NULL,           \* no task
    max_capacity

ASSUME QueueAssumption ==
    /\ IsFiniteSet(Producers) /\ IsFiniteSet(Consumers)
    /\ Producers \cap Consumers = {}
    /\ Stopper \notin Producers \cup Consumers
    /\ NULL \notin Tasks
    /\ max_capacity \in Nat

VARIABLES
    queue,          \* tasks, oldest first
    is_stopped,
    at,             \* where each thread is
    task            \* the task each consumer works on

vars == <<queue, is_stopped, at, task>>

Threads == Producers \cup Consumers \cup {Stopper}

Goto(t, label) == at' = [at EXCEPT ![t] = label]

\* The threads asleep on the condition variable, those that are about to look
\* at the queue, and those that owe a notification.
Asleep    == {c \in Consumers : at[c] = "wait"}
Awake     == {c \in Consumers : at[c] = "pop"}
Notifying == {p \in Producers : at[p] = "notify"}

\* A socket that is open is in the queue or with one worker.
Fresh(x) == x \notin ToSet(queue) /\ \A c \in Consumers : task[c] # x

Init ==
    /\ queue = <<>>
    /\ is_stopped = FALSE
    /\ at = [t \in Threads |-> IF t \in Consumers THEN "pop" ELSE "out"]
    /\ task = [c \in Consumers |-> NULL]

-----------------------------------------------------------------------------

\* When push does not return false.
Admits == Len(queue) < max_capacity /\ ~is_stopped

\* push, which has no effect when the queue does not admit the task.
Push(p, x) ==
    /\ at[p] = "out"
    /\ Fresh(x)
    /\ Admits
    /\ queue' = Append(queue, x)
    /\ Goto(p, "notify")
    /\ UNCHANGED <<is_stopped, task>>

\* Mutant: only a push to an empty queue notifies.
NotifyIfFirst(p) ==
    /\ at[p] = "notify"
    /\ IF Asleep = {} \/ Len(queue) > 1 THEN Goto(p, "out")
       ELSE \E c \in Asleep : at' = [at EXCEPT ![p] = "out", ![c] = "pop"]
    /\ UNCHANGED <<queue, is_stopped, task>>

\* notify_one, after push has let go of the mutex.
NotifyOne(p) ==
    /\ at[p] = "notify"
    /\ IF Asleep = {} THEN Goto(p, "out")
       ELSE \E c \in Asleep : at' = [at EXCEPT ![p] = "out", ![c] = "pop"]
    /\ UNCHANGED <<queue, is_stopped, task>>

\* Mutant: the consumer never lets go of its task.
CallPopKeepsTask(c) ==
    at[c] = "out" /\ Goto(c, "pop") /\ UNCHANGED <<queue, is_stopped, task>>

\* A consumer is done with its task and calls pop.
CallPop(c) ==
    /\ at[c] = "out"
    /\ task' = [task EXCEPT ![c] = NULL]
    /\ Goto(c, "pop")
    /\ UNCHANGED <<queue, is_stopped>>

\* pop finds nothing to do: the wait releases the mutex.
PopWaits(c) ==
    /\ at[c] = "pop"
    /\ queue = <<>>
    /\ ~is_stopped
    /\ Goto(c, "wait")
    /\ UNCHANGED <<queue, is_stopped, task>>

\* Mutant: the newest task is served first.
PopTakesLast(c) ==
    /\ at[c] = "pop"
    /\ queue # <<>>
    /\ task' = [task EXCEPT ![c] = Last(queue)]
    /\ queue' = Front(queue)
    /\ Goto(c, "out")
    /\ UNCHANGED is_stopped

\* pop returns the oldest task, stopped or not.
PopTakes(c) ==
    /\ at[c] = "pop"
    /\ queue # <<>>
    /\ task' = [task EXCEPT ![c] = Head(queue)]
    /\ queue' = Tail(queue)
    /\ Goto(c, "out")
    /\ UNCHANGED is_stopped

\* pop returns nullopt and the consumer does not call it again.
PopLeaves(c) ==
    /\ at[c] = "pop"
    /\ queue = <<>>
    /\ is_stopped
    /\ Goto(c, "left")
    /\ UNCHANGED <<queue, is_stopped, task>>

\* A condition variable may wake a thread that nobody notified.
SpuriousWake(c) ==
    /\ at[c] = "wait"
    /\ Goto(c, "pop")
    /\ UNCHANGED <<queue, is_stopped, task>>

\* stop sets the flag ...
Stop ==
    /\ at[Stopper] = "out"
    /\ is_stopped' = TRUE
    /\ Goto(Stopper, "notify")
    /\ UNCHANGED <<queue, task>>

\* Mutant: stop wakes one consumer.
StopNotifiesOne ==
    /\ at[Stopper] = "notify"
    /\ IF Asleep = {} THEN Goto(Stopper, "left")
       ELSE \E c \in Asleep : at' = [at EXCEPT ![Stopper] = "left", ![c] = "pop"]
    /\ UNCHANGED <<queue, is_stopped, task>>

\* ... and notify_all wakes every consumer.
NotifyAll ==
    /\ at[Stopper] = "notify"
    /\ at' = [t \in Threads |-> IF t = Stopper THEN "left"
                                ELSE IF t \in Asleep THEN "pop" ELSE at[t]]
    /\ UNCHANGED <<queue, is_stopped, task>>

-----------------------------------------------------------------------------

Pop(c) == CallPop(c) \/ PopWaits(c) \/ PopTakes(c) \/ PopLeaves(c)

Done ==
    /\ \A t \in Consumers \cup {Stopper} : at[t] = "left"
    /\ UNCHANGED vars

Next ==
    \/ \E p \in Producers : NotifyOne(p) \/ \E x \in Tasks : Push(p, x)
    \/ \E c \in Consumers : Pop(c) \/ SpuriousWake(c)
    \/ Stop
    \/ NotifyAll
    \/ Done

\* Every thread runs; nothing makes a client connect or the server stop.
Fairness ==
    /\ \A p \in Producers : WF_vars(NotifyOne(p))
    /\ \A c \in Consumers : WF_vars(Pop(c))
    /\ WF_vars(NotifyAll)

Spec == Init /\ [][Next]_vars
FairSpec == Spec /\ Fairness

-----------------------------------------------------------------------------
(* Properties                                                              *)

\* Every variable keeps its type, and only a consumer outside pop has a task.
TypeOK ==
    /\ queue \in Seq(Tasks)
    /\ is_stopped \in BOOLEAN
    /\ at \in [Threads -> {"out", "notify", "pop", "wait", "left"}]
    /\ task \in [Consumers -> Tasks \cup {NULL}]
    /\ \A c \in Consumers : task[c] # NULL <=> at[c] = "out"

\* The queue holds at most max_capacity tasks, no task twice, and none that a
\* consumer already works on (ThreadSafeQueue.hpp:27-28, 49-50).
BoundedAndDistinct ==
    /\ Len(queue) <= max_capacity
    /\ IsInjective(queue)
    /\ \A c \in Consumers : task[c] \notin ToSet(queue)

\* No notification is lost: while a consumer sleeps, every task in the queue
\* has a thread that is about to look for it or about to be woken for it,
\* whichever consumers take tasks meant for others (ThreadSafeQueue.hpp:31, 41).
NoTaskStranded ==
    Asleep # {} => Len(queue) <= Cardinality(Notifying) + Cardinality(Awake)

\* No accepted task is left behind at shutdown: when the first consumer leaves
\* the queue is empty for good (ThreadSafeQueue.hpp:27, 46).
DrainedBeforeLeaving ==
    (\E c \in Consumers : at[c] = "left") => queue = <<>> /\ is_stopped

\* After stop every consumer leaves ("no thread misses the condition and gets
\* deadlocked for ever", ThreadSafeQueue.hpp:64).
EveryoneLeaves ==
    is_stopped ~> \A c \in Consumers : at[c] = "left"

-----------------------------------------------------------------------------
(* Refinement                                                              *)

\* A consumer is free from its call of pop until pop returns.
RoleOf(c) == CASE at[c] = "out"  -> "busy"
               [] at[c] = "left" -> "dismissed"
               [] OTHER          -> "free"

Promise == INSTANCE TaskQueue WITH
    Capacity <- max_capacity,
    None     <- NULL,
    pending  <- queue,
    closed   <- is_stopped,
    consumer <- [c \in Consumers |-> RoleOf(c)]

\* Accepted tasks are handed out once each, oldest first, and never wait while
\* a consumer is free: the queue implements TaskQueue, fairness included.
ImplementsTaskQueue == Promise!Spec

=============================================================================
