---------------------------- MODULE TrafficProofs -----------------------------
(***************************************************************************)
(* Theorems about TrafficGenerator, for any number of threads and any      *)
(* limit.                                                                  *)
(***************************************************************************)
EXTENDS TrafficGenerator, FiniteSetTheorems, TLAPS

\* What is inductive: a thread that lives is counted.
Counted == TypeOK /\ Cardinality(Live) <= active_threads

LEMMA LiveFinite == IsFiniteSet(Live) /\ Cardinality(Live) \in Nat
<1>1. IsFiniteSet(Live)
  BY TrafficAssumption, FS_Subset, Live \subseteq Threads DEF TrafficAssumption, Live
<1> QED
  BY <1>1, FS_CardinalityType

\* Starting threads adds them to those that live.
LEMMA StartAllLive ==
    ASSUME NEW started \in SUBSET (Threads \ Live), StartAll(started)
    PROVE  /\ IsFiniteSet(started) /\ Cardinality(started) \in Nat
           /\ Cardinality(Live)' = Cardinality(Live) + Cardinality(started)
           /\ TypeOK => thread' \in [Threads -> {"none", "check", "query"}]
<1>1. IsFiniteSet(started) /\ Cardinality(started) \in Nat
  BY TrafficAssumption, FS_Subset, FS_CardinalityType, started \subseteq Threads
     DEF TrafficAssumption
<1>2. Live' = Live \cup started
  BY DEF StartAll, Live
<1>3. Live \cap started = {}
  OBVIOUS
<1>4. Cardinality(Live \cup started)
         = Cardinality(Live) + Cardinality(started) - Cardinality(Live \cap started)
  BY <1>1, LiveFinite, FS_Union
<1>5. Cardinality(Live \cap started) = 0
  BY <1>3, FS_EmptySet
<1>6. Cardinality(Live)' = Cardinality(Live \cup started)
  BY <1>2, Zenon
<1>7. TypeOK => thread' \in [Threads -> {"none", "check", "query"}]
  BY DEF StartAll, TypeOK
<1> QED
  BY <1>1, <1>4, <1>5, <1>6, <1>7, LiveFinite

\* A thread that leaves is one less.
LEMMA LeaveLive ==
    ASSUME TypeOK, NEW t \in Threads, Leave(t)
    PROVE  /\ Cardinality(Live)' = Cardinality(Live) - 1
           /\ Cardinality(Live) >= 1
<1>1. Live' = Live \ {t} /\ t \in Live
  BY DEF Leave, Live, TypeOK
<1>2. Cardinality(Live)' = Cardinality(Live \ {t})
  BY <1>1, Zenon
<1>3. Cardinality(Live \ {t}) = Cardinality(Live) - 1
      /\ Cardinality(Live \ {t}) \in Nat
  BY <1>1, LiveFinite, FS_RemoveElement, FS_CardinalityType
<1> QED
  BY <1>2, <1>3, LiveFinite

\* A thread that goes on lives on.
LEMMA LoopLive ==
    ASSUME TypeOK, NEW t \in Threads, Stay(t) \/ Queried(t)
    PROVE  Cardinality(Live)' = Cardinality(Live)
<1>1. Live' = Live
  BY DEF Stay, Queried, Live, TypeOK
<1> QED
  BY <1>1, Zenon

LEMMA NeededRange ==
    ASSUME TypeOK, NEW n \in 1..MaxThreads
    PROVE  /\ Needed(n) \in Nat
           /\ active_threads + Needed(n) \in 0..MaxThreads
  BY TrafficAssumption DEF TrafficAssumption, TypeOK, Needed, Larger

LEMMA CountedInit == Init => Counted
<1> SUFFICES ASSUME Init PROVE Counted
  OBVIOUS
<1>1. Live = {}
  BY DEF Init, Live
<1>2. Cardinality(Live) = 0
  BY <1>1, FS_EmptySet
<1>3. TypeOK
  <2>1. running \in BOOLEAN
    BY DEF Init
  <2>2. target_threads \in Nat /\ active_threads \in 0..MaxThreads
    BY TrafficAssumption DEF Init, TrafficAssumption
  <2>3. thread \in [Threads -> {"none", "check", "query"}]
    BY DEF Init
  <2>4. raised \in BOOLEAN
    BY DEF Init
  <2> QED
    BY <2>1, <2>2, <2>3, <2>4 DEF TypeOK
<1> QED
  BY <1>2, <1>3 DEF Init, Counted

LEMMA CountedStep == Counted /\ [Next]_vars => Counted'
<1> SUFFICES ASSUME Counted, [Next]_vars PROVE Counted'
  OBVIOUS
<1> USE DEF Counted
<1>1. ASSUME NEW n \in 1..MaxThreads, Start(n) PROVE Counted'
  <2>1. PICK started \in SUBSET (Threads \ Live) :
           /\ Cardinality(started) = Needed(n)
           /\ StartAll(started)
           /\ active_threads' = active_threads + Cardinality(started)
    BY <1>1 DEF Start
  <2>2. running' = TRUE /\ target_threads' = n
    BY <1>1 DEF Start
  <2>3. raised' \in BOOLEAN
    BY <1>1 DEF Start, TypeOK
  <2>4. target_threads' \in Nat
    BY <2>2, TrafficAssumption DEF TrafficAssumption
  <2>5. active_threads' \in 0..MaxThreads /\ Cardinality(Live)' <= active_threads'
    BY <2>1, StartAllLive, NeededRange, LiveFinite, TrafficAssumption
       DEF TypeOK, TrafficAssumption
  <2>6. thread' \in [Threads -> {"none", "check", "query"}]
    BY <2>1, StartAllLive
  <2> QED
    BY <2>2, <2>3, <2>4, <2>5, <2>6 DEF TypeOK
<1>2. ASSUME NEW n \in 1..MaxThreads, StartRaises(n) PROVE Counted'
  <2>1. PICK started \in SUBSET (Threads \ Live) :
           /\ Cardinality(started) < Needed(n)
           /\ StartAll(started)
           /\ active_threads' = active_threads + Cardinality(started) + 1
    BY <1>2 DEF StartRaises
  <2>2. running' = TRUE /\ target_threads' = n
    BY <1>2 DEF StartRaises
  <2>3. raised' \in BOOLEAN
    BY <1>2 DEF StartRaises, TypeOK
  <2>4. target_threads' \in Nat
    BY <2>2, TrafficAssumption DEF TrafficAssumption
  <2>5. active_threads' \in 0..MaxThreads /\ Cardinality(Live)' <= active_threads'
    BY <2>1, StartAllLive, NeededRange, LiveFinite, TrafficAssumption
       DEF TypeOK, TrafficAssumption
  <2>6. thread' \in [Threads -> {"none", "check", "query"}]
    BY <2>1, StartAllLive
  <2> QED
    BY <2>2, <2>3, <2>4, <2>5, <2>6 DEF TypeOK
<1>3. ASSUME NEW n \in 1..MaxThreads, Stop(n) PROVE Counted'
  <2>1. TypeOK' /\ active_threads' = active_threads
    <3>1. running' \in BOOLEAN
      BY <1>3 DEF Stop
    <3>2. target_threads' \in Nat /\ UNCHANGED <<active_threads, thread>>
      BY <1>3, TrafficAssumption DEF Stop, TrafficAssumption
    <3>3. raised' \in BOOLEAN
      BY <1>3 DEF Stop, TypeOK
    <3> QED
      BY <3>1, <3>2, <3>3 DEF TypeOK
  <2>2. Cardinality(Live)' = Cardinality(Live)
    BY <1>3 DEF Stop, Live
  <2> QED
    BY <2>1, <2>2
<1>4. ASSUME NEW t \in Threads, Leave(t) PROVE Counted'
  <2>1. TypeOK'
    BY <1>4, TrafficAssumption DEF Leave, TypeOK, Larger, TrafficAssumption
  <2>2. active_threads >= 1 /\ active_threads \in Nat
    BY <1>4, LeaveLive, LiveFinite, TrafficAssumption DEF TypeOK, TrafficAssumption
  <2>3. active_threads' = active_threads - 1
    BY <1>4, <2>2 DEF Leave, Larger
  <2> QED
    BY <1>4, <2>1, <2>2, <2>3, LeaveLive, LiveFinite
<1>5. ASSUME NEW t \in Threads, Stay(t) \/ Queried(t) PROVE Counted'
  <2>1. TypeOK' /\ active_threads' = active_threads
    BY <1>5 DEF Stay, Queried, TypeOK
  <2> QED
    BY <1>5, <2>1, LoopLive
<1>6. CASE UNCHANGED vars
  BY <1>6 DEF vars, TypeOK, Live
<1> QED
  BY <1>1, <1>2, <1>3, <1>4, <1>5, <1>6 DEF Next, Control, Loop

\* Every variable keeps its type, and the count its limit.
THEOREM TrafficTypeCorrect == Spec => []TypeOK
<1>1. Counted => TypeOK
  BY DEF Counted
<1> QED
  BY CountedInit, CountedStep, <1>1, PTL DEF Spec

\* There are never more threads than the limit, whatever fails to start.
THEOREM LimitHolds == Spec => []WithinLimit
<1>1. Counted => WithinLimit
  BY LiveFinite, TrafficAssumption
     DEF Counted, TypeOK, WithinLimit, TrafficAssumption
<1> QED
  BY CountedInit, CountedStep, <1>1, PTL DEF Spec

\* As long as every thread starts, active_threads is the number of threads.
THEOREM ThreadsAreCounted == Spec => []ActiveIsLive
<1>1. Init => ActiveIsLive
  <2> SUFFICES ASSUME Init PROVE active_threads = Cardinality(Live)
    BY DEF ActiveIsLive
  <2>1. Live = {}
    BY DEF Init, Live
  <2> QED
    BY <2>1, FS_EmptySet DEF Init
<1>2. TypeOK /\ ActiveIsLive /\ [Next]_vars => ActiveIsLive'
  <2> SUFFICES ASSUME TypeOK, ActiveIsLive, [Next]_vars, ~raised'
               PROVE  active_threads' = Cardinality(Live)'
    BY DEF ActiveIsLive
  <2> DEFINE Fits == active_threads = Cardinality(Live)
  <2>0. ASSUME UNCHANGED raised PROVE Fits
    BY <2>0 DEF ActiveIsLive
  <2>1. ASSUME NEW n \in 1..MaxThreads, Start(n) PROVE Fits'
    <3>1. PICK started \in SUBSET (Threads \ Live) :
             /\ StartAll(started)
             /\ active_threads' = active_threads + Cardinality(started)
      BY <2>1 DEF Start
    <3>2. Fits
      BY <2>0, <2>1 DEF Start
    <3> QED
      BY <3>1, <3>2, StartAllLive
  <2>2. ASSUME NEW n \in 1..MaxThreads, Stop(n) PROVE Fits'
    <3>1. Fits
      BY <2>0, <2>2 DEF Stop
    <3> QED
      BY <3>1, <2>2 DEF Stop, Live
  <2>3. ASSUME NEW t \in Threads, Leave(t) PROVE Fits'
    <3>1. Fits
      BY <2>0, <2>3 DEF Leave
    <3>2. active_threads >= 1 /\ active_threads \in Nat
      BY <2>3, <3>1, LeaveLive, LiveFinite
    <3>3. active_threads' = active_threads - 1
      BY <2>3, <3>2 DEF Leave, Larger
    <3> QED
      BY <2>3, <3>1, <3>3, LeaveLive
  <2>4. ASSUME NEW t \in Threads, Stay(t) \/ Queried(t) PROVE Fits'
    <3>1. Fits
      BY <2>0, <2>4 DEF Stay, Queried
    <3>2. active_threads' = active_threads
      BY <2>4 DEF Stay, Queried
    <3> QED
      BY <2>4, <3>1, <3>2, LoopLive
  <2>5. CASE UNCHANGED vars
    <3>1. Fits
      BY <2>0, <2>5 DEF vars
    <3> QED
      BY <2>5, <3>1 DEF vars, Live
  <2>6. ASSUME NEW n \in 1..MaxThreads PROVE ~StartRaises(n)
    BY DEF StartRaises
  <2>7. active_threads' = Cardinality(Live)' <=> Fits'
    OBVIOUS
  <2> HIDE DEF Fits
  <2> QED
    BY <2>1, <2>2, <2>3, <2>4, <2>5, <2>6, <2>7 DEF Next, Control, Loop
<1> QED
  BY <1>1, <1>2, TrafficTypeCorrect, PTL DEF Spec

=============================================================================
