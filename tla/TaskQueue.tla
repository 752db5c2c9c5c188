------------------------------ MODULE TaskQueue -------------------------------
(***************************************************************************)
(* What ThreadSafeQueue promises, without its mutex and condition variable:*)
(* a bounded FIFO queue that hands out every task it accepted exactly once,*)
(* keeps no free consumer waiting while it holds a task, and after it is   *)
(* closed dismisses the consumers only when it is empty.                   *)
(***************************************************************************)
EXTENDS Naturals, Sequences

CONSTANTS
    Consumers,   \* the threads that take tasks
    Tasks,       \* the tasks
    Capacity,    \* how many tasks the queue holds at most
    None         \* no task

VARIABLES
    pending,     \* accepted tasks nobody has taken, oldest first
    closed,      \* whether the queue has been closed
    consumer,    \* each consumer: "busy", "free" or "dismissed"
    task         \* the task each consumer works on

vars == <<pending, closed, consumer, task>>

Init ==
    /\ pending = <<>>
    /\ closed = FALSE
    /\ consumer = [c \in Consumers |-> "free"]
    /\ task = [c \in Consumers |-> None]

\* A task is accepted; one that is not changes nothing.
Accept(t) ==
    /\ ~closed
    /\ Len(pending) < Capacity
    /\ pending' = Append(pending, t)
    /\ UNCHANGED <<closed, consumer, task>>

Take(c) ==
    /\ consumer[c] = "free"
    /\ pending # <<>>
    /\ task' = [task EXCEPT ![c] = Head(pending)]
    /\ pending' = Tail(pending)
    /\ consumer' = [consumer EXCEPT ![c] = "busy"]
    /\ UNCHANGED closed

\* The consumer is done with its task and comes back for another.
Return(c) ==
    /\ consumer[c] = "busy"
    /\ consumer' = [consumer EXCEPT ![c] = "free"]
    /\ task' = [task EXCEPT ![c] = None]
    /\ UNCHANGED <<pending, closed>>

Dismiss(c) ==
    /\ consumer[c] = "free"
    /\ closed
    /\ pending = <<>>
    /\ consumer' = [consumer EXCEPT ![c] = "dismissed"]
    /\ UNCHANGED <<pending, closed, task>>

Close ==
    /\ closed' = TRUE
    /\ UNCHANGED <<pending, consumer, task>>

Next ==
    \/ \E t \in Tasks : Accept(t)
    \/ \E c \in Consumers : Take(c) \/ Return(c) \/ Dismiss(c)
    \/ Close

SafeSpec == Init /\ [][Next]_vars

\* Somebody takes a waiting task while somebody is free; a consumer that waits
\* at a closed empty queue is dismissed.
Spec ==
    /\ SafeSpec
    /\ WF_vars(\E c \in Consumers : Take(c))
    /\ \A c \in Consumers : WF_vars(Dismiss(c))

=============================================================================
