------------------------------ MODULE QueueProofs -----------------------------
(***************************************************************************)
(* Theorems about ThreadSafeQueue, for any number of threads and tasks and *)
(* any capacity.                                                           *)
(***************************************************************************)
EXTENDS ThreadSafeQueue, FiniteSetTheorems, TLAPS

-----------------------------------------------------------------------------
(* Types                                                                   *)

LEMMA TypeInit == Init => TypeOK
  <1> SUFFICES ASSUME Init PROVE TypeOK
    OBVIOUS
  <1>1. at \in [Threads -> {"out", "notify", "pop", "wait", "left"}]
    BY DEF Init
  <1>2. \A c \in Consumers : at[c] = "pop" /\ task[c] = NULL
    BY DEF Init, Threads
  <1>3. queue \in Seq(Tasks)
    BY DEF Init
  <1>4. is_stopped \in BOOLEAN
    BY DEF Init
  <1>5. task \in [Consumers -> Tasks \cup {NULL}]
    BY DEF Init
  <1> QED
    BY <1>1, <1>2, <1>3, <1>4, <1>5 DEF TypeOK

LEMMA TypeNext == TypeOK /\ [Next]_vars => TypeOK'
  <1> SUFFICES ASSUME TypeOK, [Next]_vars PROVE TypeOK'
    OBVIOUS
  <1> USE QueueAssumption DEF TypeOK, Threads, Goto
  <1>1. ASSUME NEW p \in Producers, NotifyOne(p) PROVE TypeOK'
    BY <1>1 DEF NotifyOne, Asleep
  <1>2. ASSUME NEW p \in Producers, NEW x \in Tasks, Push(p, x) PROVE TypeOK'
    BY <1>2 DEF Push
  <1>3. ASSUME NEW c \in Consumers, CallPop(c) PROVE TypeOK'
    BY <1>3 DEF CallPop
  <1>4. ASSUME NEW c \in Consumers, PopWaits(c) PROVE TypeOK'
    BY <1>4 DEF PopWaits
  <1>5. ASSUME NEW c \in Consumers, PopTakes(c) PROVE TypeOK'
    <2>1. Head(queue) \in Tasks /\ Tail(queue) \in Seq(Tasks)
      BY <1>5 DEF PopTakes
    <2> QED
      BY <1>5, <2>1 DEF PopTakes
  <1>6. ASSUME NEW c \in Consumers, PopLeaves(c) PROVE TypeOK'
    BY <1>6 DEF PopLeaves
  <1>7. ASSUME NEW c \in Consumers, SpuriousWake(c) PROVE TypeOK'
    BY <1>7 DEF SpuriousWake
  <1>8. CASE Stop
    BY <1>8 DEF Stop
  <1>9. CASE NotifyAll
    BY <1>9 DEF NotifyAll, Asleep
  <1>10. CASE UNCHANGED vars
    BY <1>10 DEF vars
  <1> QED
    BY <1>1, <1>2, <1>3, <1>4, <1>5, <1>6, <1>7, <1>8, <1>9, <1>10 DEF Next, Pop, Done

-----------------------------------------------------------------------------
(* The contents of the queue                                               *)

LEMMA ContentsInit == Init => BoundedAndDistinct
  BY QueueAssumption DEF Init, BoundedAndDistinct, IsInjective, ToSet

LEMMA ContentsNext ==
    TypeOK /\ BoundedAndDistinct /\ [Next]_vars => BoundedAndDistinct'
  <1> SUFFICES ASSUME TypeOK, BoundedAndDistinct, [Next]_vars
               PROVE  BoundedAndDistinct'
    OBVIOUS
  <1> USE DEF BoundedAndDistinct, IsInjective, ToSet
  <1>t. queue \in Seq(Tasks) /\ task \in [Consumers -> Tasks \cup {NULL}]
        /\ Len(queue) \in Nat /\ max_capacity \in Nat
    BY QueueAssumption DEF TypeOK
  <1>1. CASE queue' = queue /\ task' = task
    BY <1>1
  <1>2. ASSUME NEW p \in Producers, NEW x \in Tasks, Push(p, x)
        PROVE  BoundedAndDistinct'
    <2>1. /\ queue' = Append(queue, x) /\ task' = task
          /\ Len(queue) < max_capacity
          /\ \A i \in DOMAIN queue : queue[i] # x
          /\ \A c \in Consumers : task[c] # x
      BY <1>2 DEF Push, Admits, Fresh
    <2>2. /\ Len(queue') = Len(queue) + 1
          /\ DOMAIN queue' = 1..(Len(queue) + 1)
          /\ \A i \in 1..Len(queue) : queue'[i] = queue[i]
          /\ queue'[Len(queue) + 1] = x
          /\ DOMAIN queue = 1..Len(queue)
      BY <2>1, <1>t
    <2> QED
      BY <2>1, <2>2, <1>t
  <1>3. ASSUME NEW c \in Consumers, CallPop(c) PROVE BoundedAndDistinct'
    <2>1. queue' = queue /\ task'[c] = NULL
          /\ \A d \in Consumers : d # c => task'[d] = task[d]
      BY <1>3, <1>t DEF CallPop
    <2>2. NULL \notin ToSet(queue)
      BY <1>t, QueueAssumption
    <2> QED
      BY <2>1, <2>2
  <1>4. ASSUME NEW c \in Consumers, PopTakes(c) PROVE BoundedAndDistinct'
    <2>1. /\ queue # <<>> /\ queue' = Tail(queue)
          /\ task'[c] = queue[1]
          /\ \A d \in Consumers : d # c => task'[d] = task[d]
      BY <1>4, <1>t DEF PopTakes
    <2>2. /\ Len(queue') = Len(queue) - 1
          /\ DOMAIN queue' = 1..(Len(queue) - 1)
          /\ \A i \in 1..(Len(queue) - 1) : queue'[i] = queue[i + 1]
          /\ DOMAIN queue = 1..Len(queue)
          /\ 1 \in 1..Len(queue)
      BY <2>1, <1>t
    <2>3. \A i \in DOMAIN queue' : i + 1 \in DOMAIN queue /\ queue'[i] = queue[i + 1]
      BY <2>2, <1>t
    <2>4. IsInjective(queue')
      BY <2>2, <2>3, <1>t
    <2>5. \A d \in Consumers : task'[d] \notin ToSet(queue')
      BY <2>1, <2>2, <2>3, <1>t
    <2> QED
      BY <2>2, <2>4, <2>5, <1>t
  <1> QED
    BY <1>1, <1>2, <1>3, <1>4
    DEF Next, Pop, Done, NotifyOne, PopWaits, PopLeaves, SpuriousWake, Stop, NotifyAll, vars

-----------------------------------------------------------------------------
(* Shutdown                                                                *)

LEMMA DrainNext ==
    TypeOK /\ DrainedBeforeLeaving /\ [Next]_vars => DrainedBeforeLeaving'
  <1> SUFFICES ASSUME TypeOK, DrainedBeforeLeaving, [Next]_vars,
                      NEW c \in Consumers, at'[c] = "left"
               PROVE  queue' = <<>> /\ is_stopped'
    BY DEF DrainedBeforeLeaving
  <1> USE DEF TypeOK, Threads, Goto
  <1>1. CASE at[c] = "left"
    <2>1. queue = <<>> /\ is_stopped
      BY <1>1 DEF DrainedBeforeLeaving
    <2> QED
      BY <2>1 DEF Next, Pop, Done, NotifyOne, Push, Admits, CallPop, PopWaits, PopTakes,
                  PopLeaves, SpuriousWake, Stop, NotifyAll, vars
  <1>2. CASE at[c] # "left"
    <2>1. PopLeaves(c)
      <3>1. ASSUME NEW p \in Producers, NotifyOne(p) PROVE FALSE
        BY <3>1, <1>2, QueueAssumption DEF NotifyOne, Asleep
      <3>2. ASSUME NEW p \in Producers, NEW x \in Tasks, Push(p, x) PROVE FALSE
        BY <3>2, <1>2 DEF Push
      <3>3. ASSUME NEW d \in Consumers, CallPop(d) \/ PopWaits(d) \/ PopTakes(d) \/ SpuriousWake(d)
            PROVE FALSE
        BY <3>3, <1>2 DEF CallPop, PopWaits, PopTakes, SpuriousWake
      <3>4. ASSUME NEW d \in Consumers, PopLeaves(d) PROVE d = c
        BY <3>4, <1>2 DEF PopLeaves
      <3>5. ~Stop /\ ~NotifyAll
        BY <1>2, QueueAssumption DEF Stop, NotifyAll, Asleep
      <3>6. at' # at
        BY <1>2
      <3> QED
        BY <3>1, <3>2, <3>3, <3>4, <3>5, <3>6 DEF Next, Pop, Done, vars
    <2> QED
      BY <2>1 DEF PopLeaves
  <1> QED
    BY <1>1, <1>2

-----------------------------------------------------------------------------
(* Notifications                                                           *)

\* The threads of S that f puts at a label of L: they can be counted, and when one
\* thread moves to a label l their number changes by that one.
At(S, f, L) == {v \in S : f[v] \in L}

LEMMA CountFinite ==
    ASSUME NEW S, IsFiniteSet(S), NEW f, NEW L
    PROVE  IsFiniteSet(At(S, f, L)) /\ Cardinality(At(S, f, L)) \in Nat
  BY FS_Subset, FS_CardinalityType, At(S, f, L) \subseteq S DEF At

LEMMA CountStep ==
    ASSUME NEW S, IsFiniteSet(S), NEW f, NEW w \in S, NEW l, NEW g, g[w] = l,
           \A v \in S : v # w => g[v] = f[v], NEW L
    PROVE  Cardinality(At(S, g, L)) =
              Cardinality(At(S, f, L)) + (IF l \in L THEN 1 ELSE 0)
                                    - (IF f[w] \in L THEN 1 ELSE 0)
  <1>1. PICK c, d : c = At(S, f, L) /\ d = At(S, g, L)
    OBVIOUS
  <1>2. d = (IF l \in L THEN c \cup {w} ELSE c \ {w}) /\ (w \in c <=> f[w] \in L)
    BY <1>1 DEF At
  <1>3. IsFiniteSet(c) /\ Cardinality(c) \in Nat
    BY <1>1, CountFinite
  <1>4. /\ Cardinality(c \cup {w}) = IF w \in c THEN Cardinality(c) ELSE Cardinality(c) + 1
        /\ Cardinality(c \ {w}) = IF w \in c THEN Cardinality(c) - 1 ELSE Cardinality(c)
    BY <1>3, FS_AddElement, FS_RemoveElement
  <1>5. Cardinality(d) = IF l \in L THEN Cardinality(c \cup {w}) ELSE Cardinality(c \ {w})
    BY <1>2
  <1> QED
    BY <1>1, <1>2, <1>3, <1>4, <1>5

\* Whether thread t at label l is about to look at the queue or to notify.
Attends(t, l) ==
    IF \/ t \in Producers /\ l = "notify"
       \/ t \in Consumers /\ l = "pop"
    THEN 1 ELSE 0

Attending == Cardinality(Notifying) + Cardinality(Awake)

LEMMA AttendingType ==
    /\ Cardinality(Notifying) \in Nat
    /\ Cardinality(Awake) \in Nat
    /\ Attending \in Nat
    /\ Notifying = At(Producers, at, {"notify"})
    /\ Awake = At(Consumers, at, {"pop"})
  <1>1. /\ Notifying = At(Producers, at, {"notify"})
        /\ Awake = At(Consumers, at, {"pop"})
    BY DEF Notifying, Awake, At
  <1>2. Cardinality(Notifying) \in Nat /\ Cardinality(Awake) \in Nat
    BY <1>1, QueueAssumption, CountFinite
  <1> QED
    BY <1>1, <1>2 DEF Attending

\* f is at with one thread moved; how that changes the number of the attending.
LEMMA AttendingMove ==
    ASSUME NEW t \in Threads, NEW l, NEW f, NEW g, g[t] = l,
           \A u \in Threads : u # t => g[u] = f[u]
    PROVE  Cardinality(At(Producers, g, {"notify"})) + Cardinality(At(Consumers, g, {"pop"}))
           = Cardinality(At(Producers, f, {"notify"})) + Cardinality(At(Consumers, f, {"pop"}))
             + Attends(t, l) - Attends(t, f[t])
  <1>1. /\ Cardinality(At(Producers, f, {"notify"})) \in Nat
        /\ Cardinality(At(Consumers, f, {"pop"})) \in Nat
    BY QueueAssumption, CountFinite
  <1>2. CASE t \in Producers
    <2>1. Cardinality(At(Producers, g, {"notify"})) =
             Cardinality(At(Producers, f, {"notify"}))
             + (IF l \in {"notify"} THEN 1 ELSE 0) - (IF f[t] \in {"notify"} THEN 1 ELSE 0)
      BY <1>2, QueueAssumption, CountStep DEF Threads
    <2>2. At(Consumers, g, {"pop"}) = At(Consumers, f, {"pop"})
      BY <1>2, QueueAssumption DEF At, Threads
    <2>3. Cardinality(At(Consumers, g, {"pop"})) = Cardinality(At(Consumers, f, {"pop"}))
      BY <2>2, Zenon
    <2>4. \A x : Attends(t, x) = IF x \in {"notify"} THEN 1 ELSE 0
      <3>1. t \notin Consumers
        BY <1>2, QueueAssumption
      <3>2. ASSUME NEW x PROVE Attends(t, x) = IF x \in {"notify"} THEN 1 ELSE 0
        BY <3>1, <1>2 DEF Attends
      <3> QED
        BY <3>2
    <2> QED
      BY <2>1, <2>3, <2>4, <1>1
  <1>3. CASE t \in Consumers
    <2>1. Cardinality(At(Consumers, g, {"pop"})) =
             Cardinality(At(Consumers, f, {"pop"}))
             + (IF l \in {"pop"} THEN 1 ELSE 0) - (IF f[t] \in {"pop"} THEN 1 ELSE 0)
      BY <1>3, QueueAssumption, CountStep DEF Threads
    <2>2. At(Producers, g, {"notify"}) = At(Producers, f, {"notify"})
      BY <1>3, QueueAssumption DEF At, Threads
    <2>3. Cardinality(At(Producers, g, {"notify"})) = Cardinality(At(Producers, f, {"notify"}))
      BY <2>2, Zenon
    <2>4. \A x : Attends(t, x) = IF x \in {"pop"} THEN 1 ELSE 0
      BY <1>3, QueueAssumption DEF Attends
    <2> QED
      BY <2>1, <2>3, <2>4, <1>1
  <1>4. CASE t = Stopper
    <2>1. /\ At(Producers, g, {"notify"}) = At(Producers, f, {"notify"})
          /\ At(Consumers, g, {"pop"}) = At(Consumers, f, {"pop"})
      BY <1>4, QueueAssumption DEF At, Threads
    <2>2. /\ Cardinality(At(Producers, g, {"notify"})) = Cardinality(At(Producers, f, {"notify"}))
          /\ Cardinality(At(Consumers, g, {"pop"})) = Cardinality(At(Consumers, f, {"pop"}))
      BY <2>1, Zenon
    <2> QED
      BY <2>2, <1>1, <1>4, QueueAssumption DEF Attends
  <1> QED
    BY <1>2, <1>3, <1>4 DEF Threads

\* One thread moves and nobody is woken.
LEMMA StrandMove ==
    ASSUME TypeOK, NoTaskStranded, NEW t \in Threads, NEW l,
           at'[t] = l, \A u \in Threads : u # t => at'[u] = at[u],
           Len(queue') \in Nat,
           \/ Asleep = {} /\ l # "wait"
           \/ Len(queue') = 0
           \/ /\ l # "wait"
              /\ Len(queue') + Attends(t, at[t]) <= Len(queue) + Attends(t, l)
    PROVE  NoTaskStranded'
  <1>1. Attending' = Attending + Attends(t, l) - Attends(t, at[t])
    BY AttendingMove, AttendingType DEF Attending, Notifying, Awake, At
  <1>2. Attends(t, l) \in 0..1 /\ Attends(t, at[t]) \in 0..1
    BY DEF Attends
  <1>3. Len(queue) \in Nat
    BY DEF TypeOK
  <1>4. l # "wait" /\ Asleep' # {} => Asleep # {}
    BY DEF Asleep, Threads
  <1>5. Attending' \in Nat
    <2>1. Notifying' = At(Producers, at', {"notify"}) /\ Awake' = At(Consumers, at', {"pop"})
      BY DEF Notifying, Awake, At
    <2>2. Cardinality(Notifying') \in Nat /\ Cardinality(Awake') \in Nat
      BY <2>1, CountFinite, QueueAssumption
    <2> QED
      BY <2>2 DEF Attending
  <1>6. (Asleep # {} => Len(queue) <= Attending) /\ Attending \in Nat
    BY AttendingType DEF NoTaskStranded, Attending
  <1>7. Asleep' # {} => Len(queue') <= Attending'
    BY <1>1, <1>2, <1>3, <1>4, <1>5, <1>6
  <1> QED
    BY <1>7 DEF NoTaskStranded, Attending

LEMMA StrandInit == Init => NoTaskStranded
  <1>1. Init => Asleep = {}
    BY QueueAssumption DEF Init, Asleep, Threads
  <1> QED
    BY <1>1 DEF NoTaskStranded

LEMMA StrandNext == TypeOK /\ NoTaskStranded /\ [Next]_vars => NoTaskStranded'
  <1> SUFFICES ASSUME TypeOK, NoTaskStranded, [Next]_vars
               PROVE  NoTaskStranded'
    OBVIOUS
  <1>t. /\ at \in [Threads -> {"out", "notify", "pop", "wait", "left"}]
        /\ queue \in Seq(Tasks)
        /\ Len(queue) \in Nat
        /\ Producers \subseteq Threads /\ Consumers \subseteq Threads /\ Stopper \in Threads
    BY DEF TypeOK, Threads
  <1>l. /\ \A p \in Producers : Attends(p, "out") = 0 /\ Attends(p, "notify") = 1
        /\ \A c \in Consumers : /\ Attends(c, "out") = 0 /\ Attends(c, "left") = 0
                               /\ Attends(c, "wait") = 0 /\ Attends(c, "pop") = 1
        /\ \A l : Attends(Stopper, l) = 0
    <2>1. /\ \A p \in Producers : p \notin Consumers
          /\ \A c \in Consumers : c \notin Producers
          /\ Stopper \notin Producers /\ Stopper \notin Consumers
      BY QueueAssumption
    <2> QED
      BY <2>1 DEF Attends
  <1>1. ASSUME NEW p \in Producers, NEW x \in Tasks, Push(p, x)
        PROVE  NoTaskStranded'
    <2>1. /\ at[p] = "out" /\ at'[p] = "notify"
          /\ \A u \in Threads : u # p => at'[u] = at[u]
          /\ Len(queue') = Len(queue) + 1
          /\ Len(queue') \in Nat
      BY <1>1, <1>t DEF Push, Goto
    <2>2. Len(queue') + Attends(p, at[p]) <= Len(queue) + Attends(p, "notify")
      BY <2>1, <1>l, <1>t
    <2> QED
      BY <2>1, <2>2, <1>t, StrandMove
  <1>2. ASSUME NEW c \in Consumers, NEW l \in {"out", "pop", "wait", "left"},
               at' = [at EXCEPT ![c] = l],
               Len(queue') \in Nat,
               \/ Len(queue') = 0
               \/ /\ l # "wait"
                  /\ Len(queue') + Attends(c, at[c]) <= Len(queue) + Attends(c, l)
        PROVE  NoTaskStranded'
    <2>1. at'[c] = l /\ \A u \in Threads : u # c => at'[u] = at[u]
      BY <1>2, <1>t
    <2>2. c \in Threads
      BY <1>t
    <2>3. CASE Len(queue') = 0
      BY <2>1, <2>2, <2>3, <1>2, StrandMove
    <2>4. CASE Len(queue') # 0
      BY <2>1, <2>2, <2>4, <1>2, StrandMove
    <2> QED
      BY <2>3, <2>4
  <1>3. ASSUME NEW c \in Consumers, CallPop(c) PROVE NoTaskStranded'
    <2>1. at[c] = "out" /\ at' = [at EXCEPT ![c] = "pop"] /\ queue' = queue
      BY <1>3 DEF CallPop, Goto
    <2>2. Len(queue') + Attends(c, at[c]) <= Len(queue) + Attends(c, "pop")
      BY <2>1, <1>l, <1>t
    <2> QED
      BY <2>1, <2>2, <1>2, <1>t
  <1>4. ASSUME NEW c \in Consumers, PopWaits(c) PROVE NoTaskStranded'
    BY <1>4, <1>2, <1>t, <1>l DEF PopWaits, Goto
  <1>5. ASSUME NEW c \in Consumers, PopTakes(c) PROVE NoTaskStranded'
    <2>1. Len(queue') + 1 = Len(queue) /\ Len(queue') \in Nat
      BY <1>5, <1>t DEF PopTakes
    <2>2. at[c] = "pop" /\ at' = [at EXCEPT ![c] = "out"]
      BY <1>5 DEF PopTakes, Goto
    <2>3. Len(queue') + Attends(c, at[c]) <= Len(queue) + Attends(c, "out")
      BY <2>1, <2>2, <1>l, <1>t
    <2> QED
      BY <2>1, <2>2, <2>3, <1>2
  <1>6. ASSUME NEW c \in Consumers, PopLeaves(c) PROVE NoTaskStranded'
    BY <1>6, <1>2, <1>t, <1>l DEF PopLeaves, Goto
  <1>7. ASSUME NEW c \in Consumers, SpuriousWake(c) PROVE NoTaskStranded'
    <2>1. at[c] = "wait" /\ at' = [at EXCEPT ![c] = "pop"] /\ queue' = queue
      BY <1>7 DEF SpuriousWake, Goto
    <2>2. Len(queue') + Attends(c, at[c]) <= Len(queue) + Attends(c, "pop")
      BY <2>1, <1>l, <1>t
    <2> QED
      BY <2>1, <2>2, <1>2, <1>t
  <1>8. ASSUME NEW p \in Producers, NotifyOne(p) PROVE NoTaskStranded'
    <2>1. at[p] = "notify" /\ queue' = queue /\ p \in Threads
      BY <1>8, <1>t DEF NotifyOne
    <2>2. CASE Asleep = {}
      <3>1. at'[p] = "out" /\ \A u \in Threads : u # p => at'[u] = at[u]
        BY <1>8, <1>t, <2>1, <2>2 DEF NotifyOne, Goto
      <3> QED
        BY <2>1, <2>2, <3>1, <1>t, StrandMove
    <2>3. CASE Asleep # {}
      <3>1. PICK c \in Asleep : at' = [at EXCEPT ![p] = "out", ![c] = "pop"]
        BY <1>8, <2>3 DEF NotifyOne
      <3>2. /\ c \in Consumers /\ c \in Threads /\ at[c] = "wait" /\ c # p
        BY <2>1, <1>t DEF Asleep
      <3> DEFINE f == [at EXCEPT ![p] = "out"]
      <3>3. /\ f[p] = "out"
            /\ \A u \in Threads : u # p => f[u] = at[u]
            /\ f[c] = "wait"
        BY <3>2, <2>1, <1>t
      <3>4. /\ at'[c] = "pop"
            /\ \A u \in Threads : u # c => at'[u] = f[u]
        BY <3>1, <3>2, <2>1, <1>t
      <3> HIDE DEF f
      <3>5. Cardinality(At(Producers, f, {"notify"})) + Cardinality(At(Consumers, f, {"pop"}))
            = Cardinality(At(Producers, at, {"notify"})) + Cardinality(At(Consumers, at, {"pop"}))
              + Attends(p, "out") - Attends(p, at[p])
        BY <3>3, <2>1, AttendingMove
      <3>6. Cardinality(At(Producers, at', {"notify"})) + Cardinality(At(Consumers, at', {"pop"}))
            = Cardinality(At(Producers, f, {"notify"})) + Cardinality(At(Consumers, f, {"pop"}))
              + Attends(c, "pop") - Attends(c, f[c])
        BY <3>2, <3>4, AttendingMove
      <3>7. /\ Attends(p, "out") = 0 /\ Attends(p, at[p]) = 1
            /\ Attends(c, "pop") = 1 /\ Attends(c, f[c]) = 0
        BY <3>2, <3>3, <2>1, <1>l
      <3>8. Notifying' = At(Producers, at', {"notify"}) /\ Awake' = At(Consumers, at', {"pop"})
        BY DEF Notifying, Awake, At
      <3>9. /\ Cardinality(At(Producers, f, {"notify"})) \in Nat
            /\ Cardinality(At(Consumers, f, {"pop"})) \in Nat
            /\ Cardinality(At(Producers, at', {"notify"})) \in Nat
            /\ Cardinality(At(Consumers, at', {"pop"})) \in Nat
        BY QueueAssumption, CountFinite
      <3>10. Len(queue) <= Cardinality(Notifying) + Cardinality(Awake)
        BY <2>3 DEF NoTaskStranded
      <3>11. Len(queue') <= Cardinality(Notifying') + Cardinality(Awake')
        BY <3>5, <3>6, <3>7, <3>8, <3>9, <3>10, <2>1, AttendingType
      <3> QED
        BY <3>11 DEF NoTaskStranded
    <2> QED
      BY <2>2, <2>3
  <1>9. CASE Stop
    <2>1. /\ at'[Stopper] = "notify" /\ queue' = queue
          /\ \A u \in Threads : u # Stopper => at'[u] = at[u]
      BY <1>9, <1>t DEF Stop, Goto
    <2> QED
      BY <2>1, <1>t, <1>l, StrandMove
  <1>10. CASE NotifyAll
    <2>1. Asleep' = {}
      BY <1>10, <1>t, QueueAssumption DEF NotifyAll, Asleep, Threads
    <2> QED
      BY <2>1 DEF NoTaskStranded
  <1>11. CASE UNCHANGED vars
    <2>1. queue' = queue /\ Asleep' = Asleep /\ Notifying' = Notifying /\ Awake' = Awake
      BY <1>11 DEF vars, Asleep, Notifying, Awake
    <2> QED
      BY <2>1 DEF NoTaskStranded
  <1> QED
    BY <1>1, <1>3, <1>4, <1>5, <1>6, <1>7, <1>8, <1>9, <1>10, <1>11 DEF Next, Pop, Done

-----------------------------------------------------------------------------
(* Refinement                                                              *)

LEMMA RefinesInit == Init => Promise!Init
  <1> SUFFICES ASSUME Init PROVE Promise!Init
    OBVIOUS
  <1>1. \A c \in Consumers : RoleOf(c) = "free"
    BY DEF Init, RoleOf, Threads
  <1> QED
    BY <1>1 DEF Init, Promise!Init

LEMMA RefinesNext == TypeOK /\ [Next]_vars => [Promise!Next]_(Promise!vars)
  <1> SUFFICES ASSUME TypeOK, [Next]_vars
               PROVE  [Promise!Next]_(Promise!vars)
    OBVIOUS
  <1> DEFINE roles == [c \in Consumers |-> RoleOf(c)]
  <1>t. at \in [Threads -> {"out", "notify", "pop", "wait", "left"}]
        /\ Producers \subseteq Threads /\ Consumers \subseteq Threads
        /\ Producers \cap Consumers = {} /\ Stopper \notin Consumers
    BY QueueAssumption DEF TypeOK, Threads
  \* A step that leaves every consumer's role alone.
  <1>s. ASSUME \A c \in Consumers : RoleOf(c)' = RoleOf(c)
        PROVE  roles' = roles
    BY <1>s
  \* A step of one consumer.
  <1>m. ASSUME NEW c \in Consumers, NEW l, at' = [at EXCEPT ![c] = l]
        PROVE  roles' = [roles EXCEPT ![c] = CASE l = "out"  -> "busy"
                                               [] l = "left" -> "dismissed"
                                               [] OTHER      -> "free"]
    <2>1. at'[c] = l /\ \A d \in Consumers : d # c => at'[d] = at[d]
      BY <1>m, <1>t
    <2>2. \A d \in Consumers : d # c => RoleOf(d)' = RoleOf(d)
      BY <2>1 DEF RoleOf
    <2>3. RoleOf(c)' = CASE l = "out" -> "busy" [] l = "left" -> "dismissed" [] OTHER -> "free"
      BY <2>1 DEF RoleOf
    <2> QED
      BY <2>2, <2>3
  <1>1. ASSUME NEW p \in Producers, NEW x \in Tasks, Push(p, x)
        PROVE  Promise!Accept(x)
    <2>1. \A c \in Consumers : RoleOf(c)' = RoleOf(c)
      BY <1>1, <1>t DEF Push, Goto, RoleOf
    <2> QED
      BY <2>1, <1>s, <1>1 DEF Push, Admits, Promise!Accept
  <1>2. ASSUME NEW p \in Producers, NotifyOne(p) PROVE UNCHANGED Promise!vars
    <2>1. \A c \in Consumers : RoleOf(c)' = RoleOf(c)
      BY <1>2, <1>t DEF NotifyOne, Goto, RoleOf, Asleep
    <2> QED
      BY <2>1, <1>s, <1>2 DEF NotifyOne, Promise!vars
  <1>3. ASSUME NEW c \in Consumers, CallPop(c) PROVE Promise!Return(c)
    BY <1>3, <1>m, <1>t DEF CallPop, Goto, RoleOf, Promise!Return
  <1>4. ASSUME NEW c \in Consumers, PopWaits(c) PROVE UNCHANGED Promise!vars
    <2>1. \A d \in Consumers : RoleOf(d)' = RoleOf(d)
      BY <1>4, <1>t DEF PopWaits, Goto, RoleOf
    <2> QED
      BY <2>1, <1>s, <1>4 DEF PopWaits, Promise!vars
  <1>5. ASSUME NEW c \in Consumers, PopTakes(c) PROVE Promise!Take(c)
    BY <1>5, <1>m, <1>t DEF PopTakes, Goto, RoleOf, Promise!Take
  <1>6. ASSUME NEW c \in Consumers, PopLeaves(c) PROVE Promise!Dismiss(c)
    BY <1>6, <1>m, <1>t DEF PopLeaves, Goto, RoleOf, Promise!Dismiss
  <1>7. ASSUME NEW c \in Consumers, SpuriousWake(c) PROVE UNCHANGED Promise!vars
    <2>1. \A d \in Consumers : RoleOf(d)' = RoleOf(d)
      BY <1>7, <1>t DEF SpuriousWake, Goto, RoleOf
    <2> QED
      BY <2>1, <1>s, <1>7 DEF SpuriousWake, Promise!vars
  <1>8. CASE Stop
    <2>1. \A d \in Consumers : RoleOf(d)' = RoleOf(d)
      BY <1>8, <1>t DEF Stop, Goto, RoleOf
    <2>2. Promise!Close
      BY <2>1, <1>s, <1>8 DEF Stop, Promise!Close
    <2> QED
      BY <2>2 DEF Promise!Next
  <1>9. CASE NotifyAll
    <2>1. \A d \in Consumers : RoleOf(d)' = RoleOf(d)
      BY <1>9, <1>t DEF NotifyAll, Asleep, RoleOf
    <2> QED
      BY <2>1, <1>s, <1>9 DEF NotifyAll, Promise!vars
  <1>10. CASE UNCHANGED vars
    <2>1. \A d \in Consumers : RoleOf(d)' = RoleOf(d)
      BY <1>10 DEF vars, RoleOf
    <2> QED
      BY <2>1, <1>s, <1>10 DEF vars, Promise!vars
  <1> HIDE DEF roles
  <1> QED
    BY <1>1, <1>2, <1>3, <1>4, <1>5, <1>6, <1>7, <1>8, <1>9, <1>10
    DEF Next, Pop, Done, Promise!Next

-----------------------------------------------------------------------------
(* Theorems                                                                *)

\* Every variable keeps its type, and exactly the consumers outside pop have a
\* task.
THEOREM QueueTypeCorrect == Spec => []TypeOK
  BY TypeInit, TypeNext, PTL DEF Spec

\* The bound holds, and no task is in the queue twice or also with a consumer.
THEOREM QueueBoundedAndDistinct == Spec => []BoundedAndDistinct
  BY QueueTypeCorrect, ContentsInit, ContentsNext, PTL DEF Spec

\* When the first consumer has left, the queue stays empty.
THEOREM QueueDrained == Spec => []DrainedBeforeLeaving
  <1>1. Init => DrainedBeforeLeaving
    BY QueueAssumption DEF Init, DrainedBeforeLeaving, Threads
  <1> QED
    BY <1>1, QueueTypeCorrect, DrainNext, PTL DEF Spec

\* While a consumer sleeps, somebody is on the way for every task.
THEOREM NoTaskIsStranded == Spec => []NoTaskStranded
  BY QueueTypeCorrect, StrandInit, StrandNext, PTL DEF Spec

\* Every step of the queue is a step of the abstract one, or none.
THEOREM QueueRefinesTaskQueue == Spec => Promise!SafeSpec
  BY QueueTypeCorrect, RefinesInit, RefinesNext, PTL DEF Spec, Promise!SafeSpec

=============================================================================
