------------------------------ MODULE PoolProofs ------------------------------
(***************************************************************************)
(* Theorems about ConnectionPool, for any number of workers and any size.  *)
(***************************************************************************)
EXTENDS ConnectionPool, FiniteSetTheorems, TLAPS

\* The workers start once the constructor is done, and it opened no more
\* connections than it tried to.
StartupInv ==
    /\ successful_connections <= attempts
    /\ attempts < pool_size => \A w \in Workers : at[w] = "out"

-----------------------------------------------------------------------------
(* Counting workers                                                        *)

\* The threads of S that f puts at a label of L: they can be counted, and when one
\* thread moves to a label l their number changes by that one.
At(S, f, L) == {v \in S : f[v] \in L}

LEMMA CountFinite ==
    ASSUME NEW S, IsFiniteSet(S), NEW f, NEW L
    PROVE  IsFiniteSet(At(S, f, L)) /\ Cardinality(At(S, f, L)) \in Nat
  BY FS_Subset, FS_CardinalityType, At(S, f, L) \subseteq S DEF At

LEMMA CountStep ==
    ASSUME NEW S, IsFiniteSet(S), NEW f, NEW w \in S, NEW l, NEW g, g[w] = l,
           \A v \in S : v # w => g[v] = f[v], NEW L
    PROVE  Cardinality(At(S, g, L)) =
              Cardinality(At(S, f, L)) + (IF l \in L THEN 1 ELSE 0)
                                    - (IF f[w] \in L THEN 1 ELSE 0)
  <1>1. PICK c, d : c = At(S, f, L) /\ d = At(S, g, L)
    OBVIOUS
  <1>2. d = (IF l \in L THEN c \cup {w} ELSE c \ {w}) /\ (w \in c <=> f[w] \in L)
    BY <1>1 DEF At
  <1>3. IsFiniteSet(c) /\ Cardinality(c) \in Nat
    BY <1>1, CountFinite
  <1>4. /\ Cardinality(c \cup {w}) = IF w \in c THEN Cardinality(c) ELSE Cardinality(c) + 1
        /\ Cardinality(c \ {w}) = IF w \in c THEN Cardinality(c) - 1 ELSE Cardinality(c)
    BY <1>3, FS_AddElement, FS_RemoveElement
  <1>5. Cardinality(d) = IF l \in L THEN Cardinality(c \cup {w}) ELSE Cardinality(c \ {w})
    BY <1>2
  <1> QED
    BY <1>1, <1>2, <1>3, <1>4, <1>5

AwakeLabels   == {"acquire", "expired"}
HoldingLabels == {"connect", "query", "release"}

\* The three counts the invariants speak of.
LEMMA Counts ==
    /\ Holding = At(Workers, at, HoldingLabels)
    /\ Awake = At(Workers, at, AwakeLabels)
    /\ Notifying = At(Workers, at, {"notify"})
    /\ Asleep = At(Workers, at, {"wait"})
    /\ Cardinality(Holding) \in Nat
    /\ Cardinality(Awake) \in Nat
    /\ Cardinality(Notifying) \in Nat
  <1>1. /\ Holding = At(Workers, at, HoldingLabels)
        /\ Awake = At(Workers, at, AwakeLabels)
        /\ Notifying = At(Workers, at, {"notify"})
        /\ Asleep = At(Workers, at, {"wait"})
    BY DEF Holding, Awake, Notifying, Asleep, At, HoldingLabels, AwakeLabels
  <1> QED
    BY <1>1, PoolAssumption, CountFinite

\* A worker goes from one label to another by itself.
LEMMA MoveCounts ==
    ASSUME TypeOK, NEW w \in Workers, NEW l \in Labels,
           at'[w] = l, \A v \in Workers : v # w => at'[v] = at[v]
    PROVE  /\ Cardinality(Holding') = Cardinality(Holding)
                 + (IF l \in HoldingLabels THEN 1 ELSE 0)
                 - (IF at[w] \in HoldingLabels THEN 1 ELSE 0)
           /\ Cardinality(Awake') + Cardinality(Notifying') =
                 Cardinality(Awake) + Cardinality(Notifying)
                 + (IF l \in AwakeLabels \cup {"notify"} THEN 1 ELSE 0)
                 - (IF at[w] \in AwakeLabels \cup {"notify"} THEN 1 ELSE 0)
           /\ Asleep' \subseteq Asleep \cup {w}
           /\ Asleep' # {} /\ l # "wait" => Asleep # {}
           /\ Cardinality(Holding') \in Nat
           /\ Cardinality(Awake') \in Nat
           /\ Cardinality(Notifying') \in Nat
  <1>1. at \in [Workers -> Labels]
    BY DEF TypeOK
  <1>2. /\ Holding' = At(Workers, at', HoldingLabels)
        /\ Awake' = At(Workers, at', AwakeLabels)
        /\ Notifying' = At(Workers, at', {"notify"})
    BY DEF Holding, Awake, Notifying, At, HoldingLabels, AwakeLabels
  <1>3. /\ Cardinality(Holding') \in Nat
        /\ Cardinality(Awake') \in Nat
        /\ Cardinality(Notifying') \in Nat
    BY <1>2, PoolAssumption, CountFinite
  <1>4. /\ Asleep' \subseteq Asleep \cup {w}
        /\ Asleep' # {} /\ l # "wait" => Asleep # {}
    BY <1>1 DEF Asleep
  <1>0. \A L : Cardinality(At(Workers, at', L)) =
              Cardinality(At(Workers, at, L)) + (IF l \in L THEN 1 ELSE 0)
                                     - (IF at[w] \in L THEN 1 ELSE 0)
    BY PoolAssumption, CountStep
  <1>5. Cardinality(Holding') = Cardinality(Holding)
                 + (IF l \in HoldingLabels THEN 1 ELSE 0)
                 - (IF at[w] \in HoldingLabels THEN 1 ELSE 0)
    BY <1>0, <1>2, Counts
  <1>6. Cardinality(Awake') = Cardinality(Awake)
                 + (IF l \in AwakeLabels THEN 1 ELSE 0)
                 - (IF at[w] \in AwakeLabels THEN 1 ELSE 0)
    BY <1>0, <1>2, Counts
  <1>7. Cardinality(Notifying') = Cardinality(Notifying)
                 + (IF l \in {"notify"} THEN 1 ELSE 0)
                 - (IF at[w] \in {"notify"} THEN 1 ELSE 0)
    BY <1>0, <1>2, Counts
  <1>8. Cardinality(Awake') + Cardinality(Notifying') =
                 Cardinality(Awake) + Cardinality(Notifying)
                 + (IF l \in AwakeLabels \cup {"notify"} THEN 1 ELSE 0)
                 - (IF at[w] \in AwakeLabels \cup {"notify"} THEN 1 ELSE 0)
    BY <1>6, <1>7, Counts DEF AwakeLabels
  <1> QED
    BY <1>3, <1>4, <1>5, <1>8

\* A worker goes on to label l and wakes another one on the way.
LEMMA WakeCounts ==
    ASSUME TypeOK, NEW w \in Workers, NEW u \in Asleep, u # w,
           at'[w] = "out", at'[u] = "acquire",
           \A v \in Workers : v # w /\ v # u => at'[v] = at[v]
    PROVE  /\ Cardinality(Holding') = Cardinality(Holding)
                 - (IF at[w] \in HoldingLabels THEN 1 ELSE 0)
           /\ Cardinality(Awake') + Cardinality(Notifying') =
                 Cardinality(Awake) + Cardinality(Notifying) + 1
                 - (IF at[w] \in AwakeLabels \cup {"notify"} THEN 1 ELSE 0)
           /\ Asleep' \subseteq Asleep
           /\ Cardinality(Holding') \in Nat
           /\ Cardinality(Awake') \in Nat
           /\ Cardinality(Notifying') \in Nat
  <1> DEFINE f == [at EXCEPT ![w] = "out"]
  <1>1. /\ u \in Workers
        /\ f[u] = "wait"
        /\ \A v \in Workers : v # u => at'[v] = f[v]
        /\ f[w] = "out"
        /\ \A v \in Workers : v # w => f[v] = at[v]
    BY DEF TypeOK, Asleep
  <1>2. /\ Holding' = At(Workers, at', HoldingLabels)
        /\ Awake' = At(Workers, at', AwakeLabels)
        /\ Notifying' = At(Workers, at', {"notify"})
    BY DEF Holding, Awake, Notifying, At, HoldingLabels, AwakeLabels
  <1>3. /\ Cardinality(Holding') \in Nat
        /\ Cardinality(Awake') \in Nat
        /\ Cardinality(Notifying') \in Nat
    BY <1>2, PoolAssumption, CountFinite
  <1>4. Asleep' \subseteq Asleep
    BY <1>1 DEF Asleep
  <1> HIDE DEF f
  <1>5. \A L : Cardinality(At(Workers, at', L)) = Cardinality(At(Workers, f, L))
                 + (IF at'[u] \in L THEN 1 ELSE 0)
                 - (IF f[u] \in L THEN 1 ELSE 0)
    BY <1>1, PoolAssumption, CountStep
  <1>6. \A L : Cardinality(At(Workers, f, L)) = Cardinality(At(Workers, at, L))
                 + (IF f[w] \in L THEN 1 ELSE 0)
                 - (IF at[w] \in L THEN 1 ELSE 0)
    BY <1>1, PoolAssumption, CountStep
  <1>7. Cardinality(Holding') = Cardinality(Holding)
                 - (IF at[w] \in HoldingLabels THEN 1 ELSE 0)
    <2>1. {at'[u], f[u], f[w]} \cap HoldingLabels = {}
      BY <1>1 DEF HoldingLabels
    <2>2. /\ Cardinality(At(Workers, f, HoldingLabels)) \in Nat
          /\ Cardinality(At(Workers, at, HoldingLabels)) \in Nat
      BY PoolAssumption, CountFinite
    <2>3. Cardinality(At(Workers, at', HoldingLabels)) = Cardinality(At(Workers, f, HoldingLabels))
      BY <2>1, <2>2, <1>5
    <2>4. Cardinality(At(Workers, f, HoldingLabels)) = Cardinality(At(Workers, at, HoldingLabels))
                 - (IF at[w] \in HoldingLabels THEN 1 ELSE 0)
      BY <2>1, <2>2, <1>6
    <2> QED
      BY <2>3, <2>4, <1>2, Counts
  <1>8. Cardinality(Awake') = Cardinality(Awake) + 1
                 - (IF at[w] \in AwakeLabels THEN 1 ELSE 0)
    BY <1>1, <1>2, <1>5, <1>6, Counts DEF AwakeLabels
  <1>9. Cardinality(Notifying') = Cardinality(Notifying)
                 - (IF at[w] \in {"notify"} THEN 1 ELSE 0)
    BY <1>1, <1>2, <1>5, <1>6, Counts
  <1> QED
    BY <1>3, <1>4, <1>7, <1>8, <1>9, Counts DEF AwakeLabels


-----------------------------------------------------------------------------
(* Types                                                                   *)

LEMMA TypeInit == Init => TypeOK /\ StartupInv
  BY PoolAssumption DEF Init, TypeOK, StartupInv, Connection, NoSlot, Labels, Holding

\* A step that is none of the program's changes nothing the types speak of.
LEMMA TypeNext == TypeOK /\ StartupInv /\ [Next]_vars => TypeOK' /\ StartupInv'
  <1> SUFFICES ASSUME TypeOK, StartupInv, [Next]_vars
               PROVE  TypeOK' /\ StartupInv'
    OBVIOUS
  <1> USE DEF TypeOK, StartupInv, Connection, NoSlot, Labels, Holding, Goto, startup
  <1>1. CASE Open
    BY <1>1, PoolAssumption DEF Open
  <1>2. CASE OpenFails
    BY <1>2, PoolAssumption DEF OpenFails
  <1>3. CASE DropIdle
    BY <1>3 DEF DropIdle
  <1>4. CASE UNCHANGED vars
    BY <1>4 DEF vars
  <1>5. ASSUME NEW w \in Workers,
               Call(w) \/ Step(w) \/ SpuriousWake(w) \/ DropUsed(w)
        PROVE  TypeOK' /\ StartupInv'
    <2>1. CASE Call(w)
      BY <2>1 DEF Call, Started
    <2>2. CASE Sleep(w)
      BY <2>2 DEF Sleep, Looks
    <2>3. CASE SpuriousWake(w)
      BY <2>3 DEF SpuriousWake
    <2>4. CASE Expire(w)
      BY <2>4 DEF Expire
    <2>5. CASE TimesOut(w)
      BY <2>5 DEF TimesOut, Looks
    <2>6. CASE TakeUsable(w)
      BY <2>6 DEF TakeUsable, Looks, Usable
    <2>7. CASE TakeUnusable(w)
      BY <2>7, PoolAssumption DEF TakeUnusable, Looks, Usable
    <2>8. CASE Reconnect(w)
      BY <2>8, PoolAssumption DEF Reconnect
    <2>9. CASE ReconnectFails(w)
      BY <2>9, PoolAssumption DEF ReconnectFails, NotifyOne, Asleep
    <2>10. CASE QuerySucceeds(w)
      BY <2>10 DEF QuerySucceeds
    <2>11. CASE QueryThrows(w)
      BY <2>11 DEF QueryThrows
    <2>12. CASE Release(w)
      BY <2>12 DEF Release
    <2>13. CASE Notify(w)
      BY <2>13 DEF Notify, NotifyOne, Asleep
    <2>14. CASE DropUsed(w)
      BY <2>14 DEF DropUsed
    <2> QED
      BY <1>5, <2>1, <2>2, <2>3, <2>4, <2>5, <2>6, <2>7, <2>8, <2>9, <2>10,
         <2>11, <2>12, <2>13, <2>14 DEF Step, Look
  <1> QED
    BY <1>1, <1>2, <1>3, <1>4, <1>5 DEF Next

-----------------------------------------------------------------------------
(* Slots                                                                   *)

SlotInv ==
    /\ SlotsConserved
    /\ NoSlotStranded
    /\ FullPoolNeverWaits

Unit(b) == IF b THEN 1 ELSE 0

HoldsAt(l)    == Unit(l \in HoldingLabels)
AttendsAt(l) == Unit(l \in AwakeLabels \cup {"notify"})

\* A worker that holds no slot leaves one for itself in a full pool.
LEMMA OneSlotLeft ==
    ASSUME NEW w \in Workers, w \notin Holding
    PROVE  Cardinality(Holding) < Cardinality(Workers)
  <1>1. Holding \in SUBSET Workers
    BY DEF Holding
  <1>2. IsFiniteSet(Workers) /\ Cardinality(Workers) \in Nat /\ Cardinality(Holding) \in Nat
    BY PoolAssumption, FS_CardinalityType, Counts
  <1>3. Cardinality(Holding) <= Cardinality(Workers)
    BY <1>1, <1>2, FS_Subset
  <1>4. Cardinality(Workers) # Cardinality(Holding)
    BY <1>1, <1>2, FS_Subset
  <1> QED
    BY <1>2, <1>3, <1>4

\* A worker moves by itself, between itself and the queue no slot is lost, and
\* there is still somebody for each slot in the queue.
LEMMA SlotMove ==
    ASSUME TypeOK, SlotInv, NEW w \in Workers, NEW l \in Labels,
           at'[w] = l, \A v \in Workers : v # w => at'[v] = at[v],
           startup' = startup,
           Len(connections') \in Nat,
           Len(connections') + HoldsAt(l) = Len(connections) + HoldsAt(at[w]),
           l = "wait" => at[w] = "acquire" /\ connections = <<>>,
           \/ Asleep = {} /\ l # "wait"
           \/ Len(connections') = 0
           \/ Len(connections') + AttendsAt(at[w]) <= Len(connections) + AttendsAt(l)
    PROVE  SlotInv'
  <1>1. /\ Cardinality(Holding') = Cardinality(Holding) + HoldsAt(l) - HoldsAt(at[w])
        /\ Cardinality(Awake') + Cardinality(Notifying') =
              Cardinality(Awake) + Cardinality(Notifying)
              + AttendsAt(l) - AttendsAt(at[w])
        /\ Asleep' # {} /\ l # "wait" => Asleep # {}
        /\ Cardinality(Holding') \in Nat
        /\ Cardinality(Awake') \in Nat
        /\ Cardinality(Notifying') \in Nat
    BY MoveCounts DEF HoldsAt, AttendsAt, Unit
  <1>2. /\ HoldsAt(l) \in 0..1 /\ HoldsAt(at[w]) \in 0..1
        /\ AttendsAt(l) \in 0..1 /\ AttendsAt(at[w]) \in 0..1
    BY DEF HoldsAt, AttendsAt, Unit
  <1>3. /\ Len(connections) \in Nat
        /\ Cardinality(Holding) \in Nat
        /\ Cardinality(Awake) \in Nat
        /\ Cardinality(Notifying) \in Nat
    BY Counts DEF TypeOK
  <1>4. SlotsConserved'
    <2>1. successful_connections' = successful_connections
      BY DEF startup
    <2>2. \A a, b, h, g, n, m \in Int : g = h + a - b /\ m + a = n + b => m + g = n + h
      OBVIOUS
    <2>3. Len(connections') + Cardinality(Holding') = Len(connections) + Cardinality(Holding)
      <3>1. /\ HoldsAt(l) \in Int /\ HoldsAt(at[w]) \in Int
            /\ Cardinality(Holding) \in Int /\ Cardinality(Holding') \in Int
            /\ Len(connections) \in Int /\ Len(connections') \in Int
        BY <1>1, <1>2, <1>3
      <3>2. Cardinality(Holding') = Cardinality(Holding) + HoldsAt(l) - HoldsAt(at[w])
        BY <1>1
      <3> QED
        BY <2>2, <3>1, <3>2
    <2> QED
      BY <2>1, <2>3 DEF SlotInv, SlotsConserved
  <1>5. NoSlotStranded'
    <2> SUFFICES ASSUME Asleep' # {}
                 PROVE  Len(connections') <= Cardinality(Notifying') + Cardinality(Awake')
      BY DEF NoSlotStranded
    <2>1. CASE Len(connections') = 0
      BY <2>1, <1>1
    <2>2. CASE /\ l # "wait"
              /\ Len(connections') + AttendsAt(at[w]) <= Len(connections) + AttendsAt(l)
      BY <2>2, <1>1, <1>2, <1>3 DEF SlotInv, NoSlotStranded
    <2>3. CASE l = "wait"
      <3>1. at[w] = "acquire" /\ connections = <<>>
        BY <2>3
      <3>2. HoldsAt(l) = 0 /\ HoldsAt(at[w]) = 0
        BY <2>3, <3>1 DEF HoldsAt, HoldingLabels, Unit
      <3>3. Len(connections) = 0
        BY <3>1
      <3>4. Len(connections') = 0
        BY <3>2, <3>3
      <3> QED
        BY <3>4, <1>1
    <2> QED
      BY <2>1, <2>2, <2>3, <1>1
  <1>6. FullPoolNeverWaits'
    <2> SUFFICES ASSUME successful_connections >= Cardinality(Workers), Asleep' # {}
                 PROVE  FALSE
      BY DEF FullPoolNeverWaits, startup
    <2>1. Asleep = {}
      BY DEF SlotInv, FullPoolNeverWaits
    <2>2. l = "wait"
      BY <2>1, <1>1
    <2>3. w \notin Holding /\ Len(connections) = 0
      BY <2>2 DEF Holding
    <2>4. Cardinality(Holding) = successful_connections
      BY <2>3, Counts DEF SlotInv, SlotsConserved
    <2>5. Cardinality(Workers) \in Nat
      BY PoolAssumption, FS_CardinalityType
    <2> QED
      BY <2>3, <2>4, <2>5, OneSlotLeft, Counts
  <1> QED
    BY <1>4, <1>5, <1>6 DEF SlotInv

\* The same when the worker wakes another one as it leaves.
LEMMA SlotWake ==
    ASSUME TypeOK, SlotInv, NEW w \in Workers, NEW u \in Asleep, u # w,
           at'[w] = "out", at'[u] = "acquire",
           \A v \in Workers : v # w /\ v # u => at'[v] = at[v],
           startup' = startup,
           Len(connections') = Len(connections) + HoldsAt(at[w]),
           HoldsAt(at[w]) + AttendsAt(at[w]) <= 1
    PROVE  SlotInv'
  <1>1. /\ Cardinality(Holding') = Cardinality(Holding) - HoldsAt(at[w])
        /\ Cardinality(Awake') + Cardinality(Notifying') =
              Cardinality(Awake) + Cardinality(Notifying) + 1 - AttendsAt(at[w])
        /\ Asleep' \subseteq Asleep
        /\ Cardinality(Holding') \in Nat
        /\ Cardinality(Awake') \in Nat
        /\ Cardinality(Notifying') \in Nat
    BY WakeCounts DEF HoldsAt, AttendsAt, Unit
  <1>2. HoldsAt(at[w]) \in 0..1 /\ AttendsAt(at[w]) \in 0..1
    BY DEF HoldsAt, AttendsAt, Unit
  <1>3. /\ Len(connections) \in Nat
        /\ Cardinality(Holding) \in Nat
        /\ Cardinality(Awake) \in Nat
        /\ Cardinality(Notifying) \in Nat
    BY Counts DEF TypeOK
  <1>4. SlotsConserved'
    BY <1>1, <1>2, <1>3 DEF SlotInv, SlotsConserved, startup
  <1>5. Asleep # {}
    OBVIOUS
  <1>6. NoSlotStranded'
    BY <1>1, <1>2, <1>3, <1>5 DEF SlotInv, NoSlotStranded
  <1>7. FullPoolNeverWaits'
    BY <1>5 DEF SlotInv, FullPoolNeverWaits, startup
  <1> QED
    BY <1>4, <1>6, <1>7 DEF SlotInv

LEMMA SlotInit == Init => SlotInv
  <1> SUFFICES ASSUME Init PROVE SlotInv
    OBVIOUS
  <1>1. Holding = {} /\ Asleep = {} /\ connections = <<>> /\ successful_connections = 0
    BY DEF Init, Holding, Asleep
  <1>2. Len(connections) = 0
    BY <1>1
  <1>3. Cardinality(Holding) = 0
    BY <1>1, FS_EmptySet, Zenon
  <1> QED
    BY <1>1, <1>2, <1>3 DEF SlotInv, SlotsConserved, NoSlotStranded, FullPoolNeverWaits

LEMMA SlotNext == TypeOK /\ StartupInv /\ SlotInv /\ [Next]_vars => SlotInv'
  <1> SUFFICES ASSUME TypeOK, StartupInv, SlotInv, [Next]_vars
               PROVE  SlotInv'
    OBVIOUS
  <1>t. /\ at \in [Workers -> Labels]
        /\ connections \in Seq(Connection \cup {NULL})
        /\ Len(connections) \in Nat
        /\ successful_connections \in Nat
    BY DEF TypeOK
  <1>1. CASE Open
    <2>1. /\ Holding = {} /\ Asleep = {}
          /\ Holding' = Holding /\ Asleep' = Asleep
          /\ Len(connections') = Len(connections) + 1
          /\ successful_connections' = successful_connections + 1
      BY <1>t, <1>1 DEF Open, StartupInv, Holding, Asleep
    <2>2. Cardinality(Holding') = Cardinality(Holding)
      BY <2>1, Zenon
    <2> QED
      BY <2>1, <2>2, <1>t, Counts
      DEF SlotInv, SlotsConserved, NoSlotStranded, FullPoolNeverWaits
  <1>2. ASSUME at' = at, startup' = startup, Len(connections') = Len(connections)
        PROVE  SlotInv'
    <2>1. Holding' = Holding /\ Asleep' = Asleep /\ Awake' = Awake /\ Notifying' = Notifying
      BY <1>2 DEF Holding, Asleep, Awake, Notifying
    <2>2. successful_connections' = successful_connections
      BY <1>2 DEF startup
    <2> QED
      BY <2>1, <2>2, <1>2 DEF SlotInv, SlotsConserved, NoSlotStranded, FullPoolNeverWaits
  <1>3. CASE OpenFails
    <2>1. Holding' = Holding /\ Asleep' = Asleep /\ Awake' = Awake /\ Notifying' = Notifying
      BY <1>3 DEF OpenFails, Holding, Asleep, Awake, Notifying
    <2> QED
      BY <2>1, <1>3 DEF OpenFails, SlotInv, SlotsConserved, NoSlotStranded, FullPoolNeverWaits
  <1>4. CASE DropIdle
    BY <1>2, <1>4, <1>t DEF DropIdle
  <1>5. CASE UNCHANGED vars
    BY <1>2, <1>5 DEF vars, startup
  <1>6. ASSUME NEW w \in Workers,
               Call(w) \/ Step(w) \/ SpuriousWake(w) \/ DropUsed(w)
        PROVE  SlotInv'
    <2> DEFINE Moves(from, l) ==
            /\ at[w] = from
            /\ at' = [at EXCEPT ![w] = l]
            /\ startup' = startup
    <2>m. ASSUME NEW from \in Labels, NEW l \in Labels, Moves(from, l)
          PROVE  /\ at[w] = from
                 /\ at'[w] = l
                 /\ \A v \in Workers : v # w => at'[v] = at[v]
                 /\ startup' = startup
      BY <1>t, <2>m
    <2>l. /\ HoldsAt("query") = 1 /\ HoldsAt("connect") = 1 /\ HoldsAt("release") = 1
          /\ \A x \in {"out", "acquire", "wait", "expired", "notify"} : HoldsAt(x) = 0
          /\ \A x \in {"acquire", "expired", "notify"} : AttendsAt(x) = 1
          /\ \A x \in {"out", "wait", "connect", "query", "release"} : AttendsAt(x) = 0
          /\ Labels = {"out", "acquire", "wait", "expired", "connect", "query", "release", "notify"}
      BY DEF HoldsAt, AttendsAt, Unit, HoldingLabels, AwakeLabels, Labels
    \* A step that moves the worker and leaves the queue as it is.
    <2>q. ASSUME NEW from \in Labels, NEW l \in Labels, Moves(from, l),
                 connections' = connections, HoldsAt(from) = HoldsAt(l),
                 l = "wait" => from = "acquire" /\ connections = <<>>,
                 \/ Asleep = {} /\ l # "wait"
                 \/ Len(connections) = 0
                 \/ AttendsAt(from) <= AttendsAt(l)
          PROVE  SlotInv'
      <3>1. AttendsAt(from) \in 0..1 /\ AttendsAt(l) \in 0..1 /\ HoldsAt(l) \in 0..1
        BY DEF AttendsAt, HoldsAt, Unit
      <3>2. Len(connections') + HoldsAt(l) = Len(connections) + HoldsAt(from)
        BY <3>1, <2>q, <1>t
      <3>3. \/ Asleep = {} /\ l # "wait"
            \/ Len(connections') = 0
            \/ Len(connections') + AttendsAt(from) <= Len(connections) + AttendsAt(l)
        BY <3>1, <2>q, <1>t
      <3> HIDE DEF Moves
      <3> QED
        BY <3>2, <3>3, <2>q, <2>m, <1>t, SlotMove
    <2>1. CASE Call(w)
      BY <2>1, <2>q, <2>l DEF Call, Goto, startup
    <2>2. CASE Sleep(w)
      BY <2>2, <2>q, <2>l DEF Sleep, Goto, startup
    <2>3. CASE SpuriousWake(w)
      BY <2>3, <2>q, <2>l DEF SpuriousWake, Goto, startup
    <2>4. CASE Expire(w)
      BY <2>4, <2>q, <2>l DEF Expire, Goto, startup
    <2>5. CASE TimesOut(w)
      BY <2>5, <2>q, <2>l DEF TimesOut, Goto, startup
    <2>8. CASE Reconnect(w)
      BY <2>8, <2>q, <2>l DEF Reconnect, Goto, startup
    <2>10. CASE QuerySucceeds(w)
      BY <2>10, <2>q, <2>l DEF QuerySucceeds, Goto, startup
    <2>11. CASE QueryThrows(w)
      BY <2>11, <2>q, <2>l DEF QueryThrows, Goto, startup
    <2>14. CASE DropUsed(w)
      BY <2>14, <1>2 DEF DropUsed, startup
    \* The worker takes the slot at the front.
    <2>6. CASE TakeUsable(w) \/ TakeUnusable(w)
      <3>1. PICK l \in {"query", "connect"} :
               /\ at[w] \in {"acquire", "expired"}
               /\ at'[w] = l
               /\ \A v \in Workers : v # w => at'[v] = at[v]
               /\ startup' = startup
               /\ connections # <<>>
               /\ connections' = Tail(connections)
        BY <2>6, <1>t DEF TakeUsable, TakeUnusable, Looks, Goto, startup
      <3>2. Len(connections') + 1 = Len(connections) /\ Len(connections') \in Nat
        BY <3>1, <1>t
      <3>3. /\ Len(connections') + HoldsAt(l) = Len(connections) + HoldsAt(at[w])
            /\ Len(connections') + AttendsAt(at[w]) <= Len(connections) + AttendsAt(l)
            /\ l \in Labels /\ l # "wait"
        BY <3>1, <3>2, <2>l
      <3> QED
        BY <3>1, <3>2, <3>3, SlotMove
    \* The worker gives a slot back and still has to tell about it.
    <2>12. CASE Release(w)
      <3>1. /\ at[w] = "release"
            /\ at'[w] = "notify"
            /\ \A v \in Workers : v # w => at'[v] = at[v]
            /\ startup' = startup
        BY <2>12, <1>t DEF Release, Goto, startup
      <3>2. Len(connections') = Len(connections) + 1 /\ Len(connections') \in Nat
        BY <2>12, <1>t DEF Release
      <3>3. /\ Len(connections') + HoldsAt("notify") = Len(connections) + HoldsAt(at[w])
            /\ Len(connections') + AttendsAt(at[w]) <= Len(connections) + AttendsAt("notify")
            /\ "notify" \in Labels
        BY <3>1, <3>2, <2>l
      <3> QED
        BY <3>1, <3>2, <3>3, SlotMove
    \* The worker gives back the slot it may hold and wakes a waiter if any.
    <2>w. ASSUME Len(connections') = Len(connections) + HoldsAt(at[w]),
                 NotifyOne(w, "out"), startup' = startup,
                 at[w] \in {"connect", "notify"}
          PROVE  SlotInv'
      <3>1. /\ HoldsAt(at[w]) + AttendsAt(at[w]) <= 1
            /\ Len(connections') + HoldsAt("out") = Len(connections) + HoldsAt(at[w])
        BY <2>w, <2>l, <1>t
      <3>2. Len(connections') \in Nat /\ "out" \in Labels
        BY <2>w, <1>t, <2>l
      <3>3. CASE Asleep = {}
        <4>1. at'[w] = "out" /\ \A v \in Workers : v # w => at'[v] = at[v]
          BY <3>3, <2>w, <1>t DEF NotifyOne, Goto
        <4> QED
          BY <4>1, <3>1, <3>2, <3>3, <2>w, SlotMove
      <3>4. CASE Asleep # {}
        <4>1. PICK u \in Asleep : at' = [at EXCEPT ![w] = "out", ![u] = "acquire"]
          BY <3>4, <2>w DEF NotifyOne
        <4>2. /\ u # w
              /\ at'[w] = "out"
              /\ at'[u] = "acquire"
              /\ \A v \in Workers : v # w /\ v # u => at'[v] = at[v]
          BY <4>1, <2>w, <1>t DEF Asleep
        <4> HIDE DEF Moves
        <4> QED
          BY <4>2, <3>1, <2>w, SlotWake
      <3> QED
        BY <3>3, <3>4
    <2>9. CASE ReconnectFails(w)
      <3>1. /\ Len(connections') = Len(connections) + HoldsAt(at[w])
            /\ NotifyOne(w, "out") /\ startup' = startup /\ at[w] = "connect"
        BY <2>9, <1>t, <2>l DEF ReconnectFails, startup
      <3> QED
        BY <3>1, <2>w, <2>l
    <2>13. CASE Notify(w)
      <3>1. /\ Len(connections') = Len(connections) + HoldsAt(at[w])
            /\ NotifyOne(w, "out") /\ startup' = startup /\ at[w] = "notify"
        BY <2>13, <1>t, <2>l DEF Notify, startup
      <3> QED
        BY <3>1, <2>w, <2>l
    <2> QED
      BY <1>6, <2>1, <2>2, <2>3, <2>4, <2>5, <2>6, <2>8, <2>9, <2>10,
         <2>11, <2>12, <2>13, <2>14 DEF Step, Look
  <1> QED
    BY <1>1, <1>3, <1>4, <1>5, <1>6 DEF Next

-----------------------------------------------------------------------------
(* Theorems                                                                *)

THEOREM PoolInvariant == Spec => [](TypeOK /\ StartupInv /\ SlotInv)
  <1>1. Init => TypeOK /\ StartupInv /\ SlotInv
    BY TypeInit, SlotInit
  <1>2. TypeOK /\ StartupInv /\ SlotInv /\ [Next]_vars
           => (TypeOK /\ StartupInv /\ SlotInv)'
    BY TypeNext, SlotNext
  <1> QED
    BY <1>1, <1>2, PTL DEF Spec

\* Every variable keeps its type, pool_mtx is held only to reconnect, and a
\* worker that runs a query has a connection.
THEOREM PoolTypeCorrect == Spec => []TypeOK
  BY PoolInvariant, PTL

\* What the constructor opened is in the queue or with a worker, through every
\* failed reconnection, timeout and failed query.
THEOREM SlotsAreConserved == Spec => []SlotsConserved
  BY PoolInvariant, PTL DEF SlotInv

\* Whoever sleeps in acquire, each slot in the queue has a worker on its way.
THEOREM NoSlotIsStranded == Spec => []NoSlotStranded
  BY PoolInvariant, PTL DEF SlotInv

\* With a connection for each worker nobody ever waits in acquire.
THEOREM FullPoolNeverMakesWait == Spec => []FullPoolNeverWaits
  BY PoolInvariant, PTL DEF SlotInv

=============================================================================
