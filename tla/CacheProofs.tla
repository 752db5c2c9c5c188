----------------------------- MODULE CacheProofs ----------------------------
(***************************************************************************)
(* Theorems about Cache, for any number of workers, keys and lines, any    *)
(* capacity and TTL, and, unless they say otherwise, with or without       *)
(* copies of results that throw.                                           *)
(***************************************************************************)
EXTENDS Cache, SequenceTheorems, FiniteSetTheorems, WellFoundedInduction, TLAPS

-----------------------------------------------------------------------------
(* The inductive invariant                                                 *)

Distinct(s) == \A i, j \in DOMAIN s : s[i] = s[j] => i = j

\* cache_mutex is held exactly while a worker evicts; the key it is going to
\* reserve a line for has none, and its iterator stays within the list.
MutexInv ==
    /\ \A w \in Workers : pc[w] \in {"evict", "scan"} <=> cache_mutex = w
    /\ \A w \in Workers : pc[w] \in {"evict", "scan"} =>
          query[w] \in Keys /\ cacheDirectory[query[w]] = NULL
    /\ \A w \in Workers : pc[w] = "scan" =>
          scan \in Nat /\ 1 <= scan /\ scan <= Len(cacheLines) + 1

\* Who holds a line, and that it is a live line of the worker's key.
LineInv ==
    \A w \in Workers :
        IF pc[w] \in {"idle", "evict", "scan"} THEN line[w] = NULL
        ELSE /\ query[w] \in Keys
             /\ line[w] \in Nodes
             /\ node[line[w]].key = query[w]
             /\ node[line[w]].state # "FREE"

\* w is past reserving its line and may still change it.
Leads(w) ==
    \/ pc[w] \in {"fetch", "publish", "ready", "cancel", "fail", "notify"}
    \/ pc[w] = "respond" /\ response[w].kind = "MISS"

\* What a leader may rely on at each label: nobody else leads its line, and
\* the line stays in flight and in the directory until the leader acts.
LeaderInv ==
    \A w \in Workers :
        /\ Leads(w) => node[line[w]].leader = w
        /\ pc[w] \in {"fetch", "publish", "ready"} =>
              node[line[w]].state = "IN_PROGRESS"
        /\ pc[w] = "fail" => line[w] \notin ToSet(cacheLines)
        /\ pc[w] = "notify" => node[line[w]].state # "IN_PROGRESS"
        /\ pc[w] = "respond" => node[line[w]].state # "IN_PROGRESS"

\* A line in flight has a leader that is on its way to land or fail it, and
\* is in the cache until that leader takes it out.
FlightInv ==
    \A n \in Nodes : node[n].state = "IN_PROGRESS" =>
        LET w == node[n].leader
        IN  /\ w \in Workers
            /\ line[w] = n
            /\ pc[w] \in {"fetch", "publish", "ready", "cancel", "fail"}
            /\ pc[w] # "fail" => n \in ToSet(cacheLines)

\* Values travel with their key: from the leader's reply to its line, and
\* from a READY line to the reply of a follower.
ResultInv ==
    /\ \A n \in Nodes : node[n].state = "READY" =>
          node[n].key \in Keys /\ node[n].value \in Answers[node[n].key]
    /\ \A w \in Workers :
          /\ pc[w] = "idle" => response[w].kind = "NONE"
          /\ pc[w] = "publish" => response[w].kind = "MISS"
          /\ pc[w] = "ready" => node[line[w]].value \in Answers[query[w]]

Core ==
    /\ TypeOK
    /\ DirectoryConsistent
    /\ FailedNotCached
    /\ MutexInv
    /\ LineInv
    /\ LeaderInv
    /\ FlightInv
    /\ ResultInv
    /\ AnswerMatchesQuery

-----------------------------------------------------------------------------
(* Sequences without repetition                                            *)

LEMMA InToSet ==
    ASSUME NEW s, NEW x
    PROVE  x \in ToSet(s) <=> \E i \in DOMAIN s : x = s[i]
BY DEF ToSet

LEMMA ConsProperties ==
    ASSUME NEW s \in Seq(Nodes), Distinct(s), NEW n \in Nodes, n \notin ToSet(s)
    PROVE  /\ Cons(n, s) \in Seq(Nodes)
           /\ Distinct(Cons(n, s))
           /\ ToSet(Cons(n, s)) = ToSet(s) \cup {n}
           /\ Len(Cons(n, s)) = Len(s) + 1
<1> DEFINE c == Cons(n, s)
<1>1. c = <<n>> \o s
  BY DEF Cons
<1>2. c \in Seq(Nodes) /\ Len(c) = Len(s) + 1
  BY <1>1
<1>3. c[1] = n /\ \A i \in 1..Len(s) : c[i + 1] = s[i]
  BY <1>1
<1> HIDE DEF c
<1>4. \A i \in 2..Len(c) : i - 1 \in 1..Len(s) /\ c[i] = s[i - 1]
  BY <1>2, <1>3
<1>5. \A i \in 1..Len(s) : s[i] # n
  BY InToSet
<1>6. Distinct(c)
  <2> SUFFICES ASSUME NEW i \in 1..(Len(s) + 1), NEW j \in 1..(Len(s) + 1),
                      c[i] = c[j]
               PROVE  i = j
    BY <1>2 DEF Distinct
  <2>1. CASE i = 1 \/ j = 1
    BY <2>1, <1>2, <1>3, <1>4, <1>5
  <2>2. CASE i # 1 /\ j # 1
    <3>1. s[i - 1] = s[j - 1] /\ i - 1 \in DOMAIN s /\ j - 1 \in DOMAIN s
      BY <2>2, <1>2, <1>4
    <3> QED
      BY <3>1 DEF Distinct
  <2> QED
    BY <2>1, <2>2
<1>7. ToSet(c) = ToSet(s) \cup {n}
  <2>1. ASSUME NEW x \in ToSet(c) PROVE x \in ToSet(s) \cup {n}
    <3>1. PICK i \in 1..Len(c) : x = c[i]
      BY <2>1, <1>2, InToSet
    <3> QED
      BY <3>1, <1>2, <1>3, <1>4, InToSet
  <2>2. ASSUME NEW x \in ToSet(s) PROVE x \in ToSet(c)
    <3>1. PICK i \in 1..Len(s) : x = s[i]
      BY <2>2, InToSet
    <3>2. i + 1 \in DOMAIN c /\ c[i + 1] = x
      BY <3>1, <1>2, <1>3
    <3> QED
      BY <3>2, InToSet
  <2>3. n \in ToSet(c)
    <3>1. 1 \in DOMAIN c
      BY <1>2
    <3> QED
      BY <3>1, <1>3, InToSet
  <2> QED
    BY <2>1, <2>2, <2>3
<1> QED
  BY <1>2, <1>6, <1>7 DEF c

LEMMA RemoveAtProperties ==
    ASSUME NEW s \in Seq(Nodes), Distinct(s), NEW p \in 1..Len(s)
    PROVE  /\ RemoveAt(s, p) \in Seq(Nodes)
           /\ Distinct(RemoveAt(s, p))
           /\ ToSet(RemoveAt(s, p)) = ToSet(s) \ {s[p]}
           /\ Len(RemoveAt(s, p)) = Len(s) - 1
<1> DEFINE a == SubSeq(s, 1, p - 1)
           b == SubSeq(s, p + 1, Len(s))
           r == RemoveAt(s, p)
<1>1. /\ a \in Seq(Nodes) /\ Len(a) = p - 1
      /\ \A i \in 1..(p - 1) : a[i] = s[i]
  OBVIOUS
<1>2. /\ b \in Seq(Nodes) /\ Len(b) = Len(s) - p
      /\ \A i \in 1..(Len(s) - p) : b[i] = s[p + i]
  OBVIOUS
<1>3. r = a \o b
  BY DEF RemoveAt
<1> HIDE DEF a, b, r
<1>4. r \in Seq(Nodes) /\ Len(r) = Len(s) - 1
  BY <1>1, <1>2, <1>3
<1>5. \A i \in 1..(p - 1) : r[i] = s[i]
  BY <1>1, <1>2, <1>3
<1>6. \A i \in p..(Len(s) - 1) : r[i] = s[i + 1]
  <2> SUFFICES ASSUME NEW i \in p..(Len(s) - 1) PROVE r[i] = s[i + 1]
    OBVIOUS
  <2>1. r[i] = b[i - (p - 1)]
    BY <1>1, <1>2, <1>3
  <2>2. i - (p - 1) \in 1..(Len(s) - p) /\ p + (i - (p - 1)) = i + 1
    OBVIOUS
  <2> QED
    BY <2>1, <2>2, <1>2
<1>7. Distinct(r)
  <2> SUFFICES ASSUME NEW i \in 1..(Len(s) - 1), NEW j \in 1..(Len(s) - 1),
                      r[i] = r[j]
               PROVE  i = j
    BY <1>4 DEF Distinct
  <2>0. \A m \in 1..(Len(s) - 1) :
          \E k \in 1..Len(s) : r[m] = s[k] /\ k = (IF m < p THEN m ELSE m + 1)
    <3> SUFFICES ASSUME NEW m \in 1..(Len(s) - 1)
                 PROVE  \E k \in 1..Len(s) :
                          r[m] = s[k] /\ k = (IF m < p THEN m ELSE m + 1)
      OBVIOUS
    <3>1. CASE m < p
      <4>1. m \in 1..(p - 1) /\ m \in 1..Len(s)
        BY <3>1
      <4>2. r[m] = s[m]
        BY <4>1, <1>5
      <4> QED
        BY <4>1, <4>2, <3>1
    <3>2. CASE ~(m < p)
      <4>1. m \in p..(Len(s) - 1) /\ m + 1 \in 1..Len(s)
        BY <3>2
      <4>2. r[m] = s[m + 1]
        BY <4>1, <1>6
      <4> QED
        BY <4>1, <4>2, <3>2
    <3> QED
      BY <3>1, <3>2
  <2>1. PICK k \in 1..Len(s) : r[i] = s[k] /\ k = (IF i < p THEN i ELSE i + 1)
    BY <2>0
  <2>2. PICK l \in 1..Len(s) : r[j] = s[l] /\ l = (IF j < p THEN j ELSE j + 1)
    BY <2>0
  <2>3. r[i] = r[j]
    OBVIOUS
  <2>4. r[i] = s[k] /\ r[j] = s[l]
    BY <2>1, <2>2
  <2>5. k \in DOMAIN s /\ l \in DOMAIN s
    OBVIOUS
  <2>6. k = l
    BY <2>3, <2>4, <2>5 DEF Distinct
  <2> QED
    BY <2>1, <2>2, <2>6
<1>8. ToSet(r) = ToSet(s) \ {s[p]}
  <2>1. ASSUME NEW x \in ToSet(r) PROVE x \in ToSet(s) \ {s[p]}
    <3>1. PICK i \in 1..(Len(s) - 1) : x = r[i]
      BY <2>1, <1>4, InToSet
    <3>2. \E k \in 1..Len(s) : x = s[k] /\ k # p
      BY <3>1, <1>5, <1>6
    <3> QED
      BY <3>2, InToSet DEF Distinct
  <2>2. ASSUME NEW x \in ToSet(s) \ {s[p]} PROVE x \in ToSet(r)
    <3>1. PICK k \in 1..Len(s) : x = s[k]
      BY <2>2, InToSet
    <3>2. CASE k < p
      <4>1. k \in DOMAIN r /\ x = r[k]
        BY <3>1, <3>2, <1>4, <1>5
      <4> QED
        BY <4>1, InToSet
    <3>3. CASE k > p
      <4>1. k - 1 \in DOMAIN r /\ x = r[k - 1]
        BY <3>1, <3>3, <1>4, <1>6
      <4> QED
        BY <4>1, InToSet
    <3> QED
      BY <3>1, <3>2, <3>3, <2>2
  <2> QED
    BY <2>1, <2>2
<1> QED
  BY <1>4, <1>7, <1>8 DEF r

LEMMA WithoutProperties ==
    ASSUME cacheLines \in Seq(Nodes), Distinct(cacheLines),
           NEW n \in ToSet(cacheLines)
    PROVE  /\ Without(n) \in Seq(Nodes)
           /\ Distinct(Without(n))
           /\ ToSet(Without(n)) = ToSet(cacheLines) \ {n}
           /\ Len(Without(n)) = Len(cacheLines) - 1
<1>1. PICK i \in 1..Len(cacheLines) : n = cacheLines[i]
  BY InToSet
<1>2. Position(n) \in 1..Len(cacheLines) /\ cacheLines[Position(n)] = n
  BY <1>1 DEF Position
<1> QED
  BY <1>2, RemoveAtProperties DEF Without

-----------------------------------------------------------------------------
(* Steps that leave lines, list and directory alone                        *)

Frame == UNCHANGED <<query, line, cache_mutex, node_mtx, cacheVars, node>>

LEMMA FrameKeepsCache ==
    ASSUME Core, Frame
    PROVE  DirectoryConsistent' /\ FailedNotCached'
BY DEF Core, Frame, cacheVars, DirectoryConsistent, FailedNotCached

LEMMA FetchOkCore ==
    ASSUME Core, NEW w \in Workers, FetchOk(w)
    PROVE  Core'
<1> USE DEF FetchOk, Return, Goto, served, shared, cacheVars
<1>0. PICK v \in Answers[query[w]] : response' = [response EXCEPT ![w] = Miss(v)]
  OBVIOUS
<1>00. v \in Values
  BY CacheAssumption DEF Core, LineInv
<1>1. TypeOK'
  BY <1>0, <1>00 DEF Core, TypeOK, Labels, Responses
<1>2. DirectoryConsistent' /\ FailedNotCached'
  BY FrameKeepsCache DEF Frame
<1>3. MutexInv'
  BY DEF Core, TypeOK, MutexInv
<1>4. LineInv'
  BY DEF Core, TypeOK, LineInv
<1>5. LeaderInv'
  BY <1>0 DEF Core, TypeOK, LeaderInv, Leads, Miss, Hit, Error
<1>6. FlightInv'
  BY DEF Core, TypeOK, FlightInv
<1>7. ResultInv' /\ AnswerMatchesQuery'
  BY <1>0 DEF Core, TypeOK, LineInv, ResultInv, AnswerMatchesQuery, Miss, Hit, Error
<1> QED
  BY <1>1, <1>2, <1>3, <1>4, <1>5, <1>6, <1>7 DEF Core

LEMMA FetchThrowsCore ==
    ASSUME Core, NEW w \in Workers, FetchThrows(w)
    PROVE  Core'
<1> USE DEF FetchThrows, Return, Goto, served, shared, cacheVars
<1>1. TypeOK'
  BY CacheAssumption DEF Core, TypeOK, Labels, Responses, Miss, Hit, Error, LineInv, ResultInv
<1>2. DirectoryConsistent' /\ FailedNotCached'
  BY FrameKeepsCache DEF Frame
<1>3. MutexInv'
  BY DEF Core, TypeOK, MutexInv
<1>4. LineInv'
  BY DEF Core, TypeOK, LineInv
<1>5. LeaderInv'
  BY DEF Core, TypeOK, LeaderInv, Leads, Miss, Hit, Error
<1>6. FlightInv'
  BY DEF Core, TypeOK, FlightInv
<1>7. ResultInv' /\ AnswerMatchesQuery'
  BY DEF Core, TypeOK, LineInv, ResultInv, AnswerMatchesQuery, Miss, Hit, Error
<1> QED
  BY <1>1, <1>2, <1>3, <1>4, <1>5, <1>6, <1>7 DEF Core

LEMMA CompleteThrowsCore ==
    ASSUME Core, NEW w \in Workers, CompleteThrows(w)
    PROVE  Core'
<1> USE DEF CompleteThrows, Return, Goto, served, shared, cacheVars
<1>1. TypeOK'
  BY CacheAssumption DEF Core, TypeOK, Labels, Responses, Miss, Hit, Error, LineInv, ResultInv
<1>2. DirectoryConsistent' /\ FailedNotCached'
  BY FrameKeepsCache DEF Frame
<1>3. MutexInv'
  BY DEF Core, TypeOK, MutexInv
<1>4. LineInv'
  BY DEF Core, TypeOK, LineInv
<1>5. LeaderInv'
  BY DEF Core, TypeOK, LeaderInv, Leads, Miss, Hit, Error
<1>6. FlightInv'
  BY DEF Core, TypeOK, FlightInv
<1>7. ResultInv' /\ AnswerMatchesQuery'
  BY DEF Core, TypeOK, LineInv, ResultInv, AnswerMatchesQuery, Miss, Hit, Error
<1> QED
  BY <1>1, <1>2, <1>3, <1>4, <1>5, <1>6, <1>7 DEF Core

LEMMA ReplyThrowsCore ==
    ASSUME Core, NEW w \in Workers, ReplyThrows(w)
    PROVE  Core'
<1> USE DEF ReplyThrows, Return, Goto, served, shared, cacheVars
<1>1. TypeOK'
  BY CacheAssumption DEF Core, TypeOK, Labels, Responses, Miss, Hit, Error, LineInv, ResultInv
<1>2. DirectoryConsistent' /\ FailedNotCached'
  BY FrameKeepsCache DEF Frame
<1>3. MutexInv'
  BY DEF Core, TypeOK, MutexInv
<1>4. LineInv'
  BY DEF Core, TypeOK, LineInv
<1>5. LeaderInv'
  BY DEF Core, TypeOK, LeaderInv, Leads, Miss, Hit, Error
<1>6. FlightInv'
  BY DEF Core, TypeOK, FlightInv
<1>7. ResultInv' /\ AnswerMatchesQuery'
  BY DEF Core, TypeOK, LineInv, ResultInv, AnswerMatchesQuery, Miss, Hit, Error
<1> QED
  BY <1>1, <1>2, <1>3, <1>4, <1>5, <1>6, <1>7 DEF Core

LEMMA NotifyAllCore ==
    ASSUME Core, NEW w \in Workers, NotifyAll(w)
    PROVE  Core'
<1> USE DEF NotifyAll, Asleep, Goto, served, shared, cacheVars
<1>1. TypeOK'
  BY CacheAssumption DEF Core, TypeOK, Labels, Responses, Miss, Hit, Error, LineInv, ResultInv
<1>2. DirectoryConsistent' /\ FailedNotCached'
  BY FrameKeepsCache DEF Frame
<1>3. MutexInv'
  BY DEF Core, TypeOK, MutexInv
<1>4. LineInv'
  BY DEF Core, TypeOK, LineInv
<1>5. LeaderInv'
  BY DEF Core, TypeOK, LeaderInv, Leads, Miss, Hit, Error
<1>6. FlightInv'
  BY DEF Core, TypeOK, FlightInv
<1>7. ResultInv' /\ AnswerMatchesQuery'
  BY DEF Core, TypeOK, LineInv, ResultInv, AnswerMatchesQuery, Miss, Hit, Error
<1> QED
  BY <1>1, <1>2, <1>3, <1>4, <1>5, <1>6, <1>7 DEF Core

LEMMA FollowerWaitCore ==
    ASSUME Core, NEW w \in Workers, FollowerWait(w)
    PROVE  Core'
<1> USE DEF FollowerWait, Goto, served, shared, cacheVars
<1>1. TypeOK'
  BY CacheAssumption DEF Core, TypeOK, Labels, Responses, Miss, Hit, Error, LineInv, ResultInv
<1>2. DirectoryConsistent' /\ FailedNotCached'
  BY FrameKeepsCache DEF Frame
<1>3. MutexInv'
  BY DEF Core, TypeOK, MutexInv
<1>4. LineInv'
  BY DEF Core, TypeOK, LineInv
<1>5. LeaderInv'
  BY DEF Core, TypeOK, LeaderInv, Leads, Miss, Hit, Error
<1>6. FlightInv'
  BY DEF Core, TypeOK, FlightInv
<1>7. ResultInv' /\ AnswerMatchesQuery'
  BY DEF Core, TypeOK, LineInv, ResultInv, AnswerMatchesQuery, Miss, Hit, Error
<1> QED
  BY <1>1, <1>2, <1>3, <1>4, <1>5, <1>6, <1>7 DEF Core

LEMMA SpuriousWakeCore ==
    ASSUME Core, NEW w \in Workers, SpuriousWake(w)
    PROVE  Core'
<1> USE DEF SpuriousWake, Goto, served, shared, cacheVars
<1>1. TypeOK'
  BY CacheAssumption DEF Core, TypeOK, Labels, Responses, Miss, Hit, Error, LineInv, ResultInv
<1>2. DirectoryConsistent' /\ FailedNotCached'
  BY FrameKeepsCache DEF Frame
<1>3. MutexInv'
  BY DEF Core, TypeOK, MutexInv
<1>4. LineInv'
  BY DEF Core, TypeOK, LineInv
<1>5. LeaderInv'
  BY DEF Core, TypeOK, LeaderInv, Leads, Miss, Hit, Error
<1>6. FlightInv'
  BY DEF Core, TypeOK, FlightInv
<1>7. ResultInv' /\ AnswerMatchesQuery'
  BY DEF Core, TypeOK, LineInv, ResultInv, AnswerMatchesQuery, Miss, Hit, Error
<1> QED
  BY <1>1, <1>2, <1>3, <1>4, <1>5, <1>6, <1>7 DEF Core

LEMMA FollowerReadCore ==
    ASSUME Core, NEW w \in Workers, FollowerRead(w)
    PROVE  Core'
<1> USE DEF FollowerRead, Return, Goto, served, shared, cacheVars
<1>0. PICK r \in Responses :
          /\ response' = [response EXCEPT ![w] = r]
          /\ \/ r = Error
             \/ /\ r = Hit(node[line[w]].value)
                /\ node[line[w]].value \in Answers[query[w]]
  <2>1. CASE node[line[w]].state = "READY"
    <3>1. /\ query[w] \in Keys
          /\ node[line[w]].value \in Answers[query[w]]
      BY <2>1 DEF Core, LineInv, ResultInv
    <3>2. node[line[w]].value \in Values
      BY <3>1, CacheAssumption
    <3> QED
      BY <2>1, <3>1, <3>2 DEF Responses
  <2>2. CASE node[line[w]].state # "READY"
    <3>1. Error \in Responses
      BY DEF Responses
    <3>2. response' = [response EXCEPT ![w] = Error]
      BY <2>2
    <3> QED
      BY <3>1, <3>2
  <2> QED
    BY <2>1, <2>2
<1>1. TypeOK'
  BY <1>0 DEF Core, TypeOK, Labels
<1>2. DirectoryConsistent' /\ FailedNotCached'
  BY FrameKeepsCache DEF Frame
<1>3. MutexInv'
  BY DEF Core, TypeOK, MutexInv
<1>4. LineInv'
  BY DEF Core, TypeOK, LineInv
<1>5. LeaderInv'
  BY DEF Core, TypeOK, LeaderInv, Leads, Miss, Hit, Error
<1>6. FlightInv'
  BY DEF Core, TypeOK, FlightInv
<1>7. ResultInv' /\ AnswerMatchesQuery'
  BY <1>0 DEF Core, TypeOK, LineInv, ResultInv, AnswerMatchesQuery, Miss, Hit, Error
<1> QED
  BY <1>1, <1>2, <1>3, <1>4, <1>5, <1>6, <1>7 DEF Core

LEMMA StartScanCore ==
    ASSUME Core, NEW w \in Workers, StartScan(w)
    PROVE  Core'
<1> USE DEF StartScan, Goto, served, shared, cacheVars
<1>1. TypeOK'
  BY CacheAssumption DEF Core, TypeOK, Labels, Responses, Miss, Hit, Error, LineInv, ResultInv
<1>2. DirectoryConsistent' /\ FailedNotCached'
  BY FrameKeepsCache DEF Frame
<1>3. MutexInv'
  BY DEF Core, TypeOK, MutexInv
<1>4. LineInv'
  BY DEF Core, TypeOK, LineInv
<1>5. LeaderInv'
  BY DEF Core, TypeOK, LeaderInv, Leads, Miss, Hit, Error
<1>6. FlightInv'
  BY DEF Core, TypeOK, FlightInv
<1>7. ResultInv' /\ AnswerMatchesQuery'
  BY DEF Core, TypeOK, LineInv, ResultInv, AnswerMatchesQuery, Miss, Hit, Error
<1> QED
  BY <1>1, <1>2, <1>3, <1>4, <1>5, <1>6, <1>7 DEF Core

LEMMA ScanSkipsCore ==
    ASSUME Core, NEW w \in Workers, ScanSkips(w)
    PROVE  Core'
<1> USE DEF ScanSkips, Goto, served, shared, cacheVars
<1>1. TypeOK'
  BY CacheAssumption DEF Core, TypeOK, Labels, Responses, Miss, Hit, Error, LineInv, ResultInv
<1>2. DirectoryConsistent' /\ FailedNotCached'
  BY FrameKeepsCache DEF Frame
<1>3. MutexInv'
  BY DEF Core, TypeOK, MutexInv
<1>4. LineInv'
  BY DEF Core, TypeOK, LineInv
<1>5. LeaderInv'
  BY DEF Core, TypeOK, LeaderInv, Leads, Miss, Hit, Error
<1>6. FlightInv'
  BY DEF Core, TypeOK, FlightInv
<1>7. ResultInv' /\ AnswerMatchesQuery'
  BY DEF Core, TypeOK, LineInv, ResultInv, AnswerMatchesQuery, Miss, Hit, Error
<1> QED
  BY <1>1, <1>2, <1>3, <1>4, <1>5, <1>6, <1>7 DEF Core

-----------------------------------------------------------------------------
(* Steps that write to a line                                              *)

\* A step that writes to the line of w and leaves its key and leader alone.
Writes(w) ==
    /\ node' = [node EXCEPT ![line[w]] = node'[line[w]]]
    /\ node'[line[w]] \in CacheNodes
    /\ node'[line[w]].key = node[line[w]].key
    /\ node'[line[w]].leader = node[line[w]].leader
    /\ UNCHANGED <<query, line, cache_mutex, cacheLines, cacheDirectory>>

LEMMA WritesKeepsCache ==
    ASSUME Core, NEW w \in Workers, line[w] \in Nodes, Writes(w)
    PROVE  /\ DirectoryConsistent'
           /\ \A n \in Nodes : n # line[w] => node'[n] = node[n]
           /\ \A n \in Nodes : node'[n].key = node[n].key
           /\ \A n \in Nodes : node'[n].leader = node[n].leader
<1>1. \A n \in Nodes : n # line[w] => node'[n] = node[n]
  BY DEF Core, TypeOK, Writes
<1>2. \A n \in Nodes : node'[n].key = node[n].key /\ node'[n].leader = node[n].leader
  BY <1>1 DEF Writes
<1>3. ToSet(cacheLines) \subseteq Nodes
  BY InToSet DEF Core, TypeOK
<1>4. DirectoryConsistent'
  BY <1>2, <1>3 DEF Core, TypeOK, DirectoryConsistent, Writes
<1> QED
  BY <1>1, <1>2, <1>4

LEMMA CompleteWriteCore ==
    ASSUME Core, NEW w \in Workers, CompleteWrite(w)
    PROVE  Core'
<1>1. PICK l \in Nodes :
          /\ l = line[w] /\ query[w] \in Keys
          /\ node[l].key = query[w] /\ node[l].leader = w
  BY DEF CompleteWrite, Core, LineInv, LeaderInv, Leads
<1>2. node[l] \in CacheNodes
  BY DEF Core, TypeOK
<1>3. response[w].value \in Answers[query[w]] /\ response[w].value \in Values
  BY <1>1, CacheAssumption DEF CompleteWrite, Core, TypeOK, ResultInv, AnswerMatchesQuery
<1>4. /\ node' = [node EXCEPT ![l] = node'[l]]
      /\ node'[l] = [node[l] EXCEPT !.value = response[w].value, !.state = node[l].state,
                       !.expires = now + TTL, !.published = node[l].published]
  BY <1>1, <1>2 DEF CompleteWrite, Core, TypeOK, CacheNodes
<1>5. /\ node'[l].key = query[w] /\ node'[l].leader = w
      /\ node'[l].value = response[w].value /\ node'[l].state = node[l].state
      /\ node'[l] \in CacheNodes
  <2>1. /\ response[w].value \in Values \cup {NULL}
        /\ now + TTL \in Nat /\ node[l].published \in Nat
        /\ node[l].state \in {"IN_PROGRESS", "READY", "FAILED", "FREE"}
    BY <1>3, <1>2, CacheAssumption DEF Core, TypeOK, CacheNodes
  <2>2. /\ node'[l].key = node[l].key /\ node'[l].leader = node[l].leader
        /\ node'[l].value = response[w].value /\ node'[l].state = node[l].state
    BY <1>2, <1>4 DEF CacheNodes
  <2>3. node'[l] \in CacheNodes
    BY <1>2, <1>4, <2>1 DEF CacheNodes
  <2> QED
    BY <1>1, <2>2, <2>3
<1>6. /\ UNCHANGED <<query, line, response, cache_mutex, scan, cacheLines,
                     cacheDirectory>>
      /\ pc[w] = "publish" /\ pc' = [pc EXCEPT ![w] = "ready"]
  BY DEF CompleteWrite, Goto, served, cacheVars
<1>7. /\ DirectoryConsistent'
      /\ \A n \in Nodes : n # l => node'[n] = node[n]
      /\ \A n \in Nodes : node'[n].key = node[n].key
      /\ \A n \in Nodes : node'[n].leader = node[n].leader
  <2>1. Writes(w)
    BY <1>1, <1>4, <1>5, <1>6 DEF Writes
  <2> QED
    BY <1>1, <2>1, WritesKeepsCache
<1>8. TypeOK'
  <2>1. node' \in [Nodes -> CacheNodes]
    BY <1>4, <1>5 DEF Core, TypeOK
  <2>2. payload_bytes' \in Int
    BY <1>1, <1>3, CacheAssumption DEF CompleteWrite, Core, TypeOK, Size
  <2>3. node_mtx' \in [Nodes -> Workers \cup {NULL}] /\ UNCHANGED <<lookupAt, scan, now>>
    BY DEF CompleteWrite, Core, TypeOK, served
  <2> QED
    BY <1>6, <2>1, <2>2, <2>3 DEF Core, TypeOK, Labels
<1>t. /\ pc \in [Workers -> Labels] /\ ToSet(cacheLines) \subseteq Nodes
      /\ pc'[w] = "ready" /\ \A u \in Workers : u # w => pc'[u] = pc[u]
  BY <1>6, InToSet DEF Core, TypeOK
<1>9. FailedNotCached'
  BY <1>1, <1>5, <1>6, <1>7, <1>t DEF Core, FailedNotCached, LeaderInv
<1>10. MutexInv' /\ AnswerMatchesQuery'
  BY <1>6, <1>t DEF Core, MutexInv, AnswerMatchesQuery
<1>l. LineInv'
  <2> SUFFICES ASSUME NEW u \in Workers, pc'[u] \notin {"idle", "evict", "scan"}
               PROVE  /\ query[u] \in Keys /\ line[u] \in Nodes
                      /\ node'[line[u]].key = query[u]
                      /\ node'[line[u]].state # "FREE"
    BY <1>6, <1>t DEF Core, LineInv
  <2>1. /\ query[u] \in Keys /\ line[u] \in Nodes
        /\ node[line[u]].key = query[u] /\ node[line[u]].state # "FREE"
    BY <1>6, <1>t DEF Core, LineInv
  <2>2. CASE line[u] = l
    BY <2>1, <2>2, <1>5, <1>7, <1>6 DEF Core, LeaderInv
  <2>3. CASE line[u] # l
    BY <2>1, <2>3, <1>7
  <2> QED
    BY <2>2, <2>3
<1>11. LeaderInv'
  BY <1>1, <1>5, <1>6, <1>7, <1>t, <1>l DEF Core, LineInv, LeaderInv, Leads
<1>12. FlightInv'
  BY <1>1, <1>5, <1>6, <1>7, <1>t DEF Core, LeaderInv, FlightInv
<1>13. ResultInv'
  BY <1>3, <1>1, <1>5, <1>6, <1>7, <1>t DEF Core, LineInv, ResultInv, LeaderInv, Leads
<1> QED
  BY <1>7, <1>8, <1>9, <1>10, <1>11, <1>12, <1>13, <1>l DEF Core

LEMMA CompleteReadyCore ==
    ASSUME Core, NEW w \in Workers, CompleteReady(w)
    PROVE  Core'
<1>1. PICK l \in Nodes :
          /\ l = line[w] /\ query[w] \in Keys
          /\ node[l].key = query[w] /\ node[l].leader = w
  BY DEF CompleteReady, Core, LineInv, LeaderInv, Leads
<1>2. node[l] \in CacheNodes
  BY DEF Core, TypeOK
<1>3. node[l].value \in Answers[query[w]]
  BY <1>1 DEF CompleteReady, Core, ResultInv
<1>4. /\ node' = [node EXCEPT ![l] = node'[l]]
      /\ node'[l] = [node[l] EXCEPT !.value = node[l].value, !.state = "READY",
                       !.expires = node[l].expires, !.published = now]
  BY <1>1, <1>2 DEF CompleteReady, Core, TypeOK, CacheNodes
<1>5. /\ node'[l].key = query[w] /\ node'[l].leader = w
      /\ node'[l].value = node[l].value /\ node'[l].state = "READY"
      /\ node'[l] \in CacheNodes
  <2>1. /\ node[l].value \in Values \cup {NULL}
        /\ node[l].expires \in Nat /\ now \in Nat
        /\ "READY" \in {"IN_PROGRESS", "READY", "FAILED", "FREE"}
    BY <1>3, <1>2, CacheAssumption DEF Core, TypeOK, CacheNodes
  <2>2. /\ node'[l].key = node[l].key /\ node'[l].leader = node[l].leader
        /\ node'[l].value = node[l].value /\ node'[l].state = "READY"
    BY <1>2, <1>4 DEF CacheNodes
  <2>3. node'[l] \in CacheNodes
    BY <1>2, <1>4, <2>1 DEF CacheNodes
  <2> QED
    BY <1>1, <2>2, <2>3
<1>6. /\ UNCHANGED <<query, line, response, cache_mutex, scan, cacheLines,
                     cacheDirectory>>
      /\ pc[w] = "ready" /\ pc' = [pc EXCEPT ![w] = "notify"]
  BY DEF CompleteReady, Goto, served, cacheVars
<1>7. /\ DirectoryConsistent'
      /\ \A n \in Nodes : n # l => node'[n] = node[n]
      /\ \A n \in Nodes : node'[n].key = node[n].key
      /\ \A n \in Nodes : node'[n].leader = node[n].leader
  <2>1. Writes(w)
    BY <1>1, <1>4, <1>5, <1>6 DEF Writes
  <2> QED
    BY <1>1, <2>1, WritesKeepsCache
<1>8. TypeOK'
  <2>1. node' \in [Nodes -> CacheNodes]
    BY <1>4, <1>5 DEF Core, TypeOK
  <2>2. payload_bytes' \in Int
    BY DEF CompleteReady, cacheVars, Core, TypeOK
  <2>3. node_mtx' \in [Nodes -> Workers \cup {NULL}] /\ UNCHANGED <<lookupAt, scan, now>>
    BY DEF CompleteReady, Core, TypeOK, served
  <2> QED
    BY <1>6, <2>1, <2>2, <2>3 DEF Core, TypeOK, Labels
<1>t. /\ pc \in [Workers -> Labels] /\ ToSet(cacheLines) \subseteq Nodes
      /\ pc'[w] = "notify" /\ \A u \in Workers : u # w => pc'[u] = pc[u]
  BY <1>6, InToSet DEF Core, TypeOK
<1>9. FailedNotCached'
  BY <1>1, <1>5, <1>6, <1>7, <1>t DEF Core, FailedNotCached, LeaderInv
<1>10. MutexInv' /\ AnswerMatchesQuery'
  BY <1>6, <1>t DEF Core, MutexInv, AnswerMatchesQuery
<1>l. LineInv'
  <2> SUFFICES ASSUME NEW u \in Workers, pc'[u] \notin {"idle", "evict", "scan"}
               PROVE  /\ query[u] \in Keys /\ line[u] \in Nodes
                      /\ node'[line[u]].key = query[u]
                      /\ node'[line[u]].state # "FREE"
    BY <1>6, <1>t DEF Core, LineInv
  <2>1. /\ query[u] \in Keys /\ line[u] \in Nodes
        /\ node[line[u]].key = query[u] /\ node[line[u]].state # "FREE"
    BY <1>6, <1>t DEF Core, LineInv
  <2>2. CASE line[u] = l
    BY <2>1, <2>2, <1>5, <1>7
  <2>3. CASE line[u] # l
    BY <2>1, <2>3, <1>7
  <2> QED
    BY <2>2, <2>3
<1>11. LeaderInv'
  BY <1>1, <1>5, <1>6, <1>7, <1>t, <1>l DEF Core, LineInv, LeaderInv, Leads
<1>12. FlightInv'
  BY <1>1, <1>5, <1>6, <1>7, <1>t DEF Core, LeaderInv, FlightInv
<1>13. ResultInv'
  BY <1>3, <1>1, <1>5, <1>6, <1>7, <1>t DEF Core, LineInv, ResultInv, LeaderInv, Leads
<1> QED
  BY <1>7, <1>8, <1>9, <1>10, <1>11, <1>12, <1>13, <1>l DEF Core

LEMMA CancelFailCore ==
    ASSUME Core, NEW w \in Workers, CancelFail(w)
    PROVE  Core'
<1>1. PICK l \in Nodes :
          /\ l = line[w] /\ query[w] \in Keys
          /\ node[l].key = query[w] /\ node[l].leader = w
  BY DEF CancelFail, Core, LineInv, LeaderInv, Leads
<1>2. node[l] \in CacheNodes
  BY DEF Core, TypeOK
<1>4. /\ node' = [node EXCEPT ![l] = node'[l]]
      /\ node'[l] = [node[l] EXCEPT !.value = node[l].value, !.state = "FAILED",
                       !.expires = node[l].expires, !.published = node[l].published]
  BY <1>1, <1>2 DEF CancelFail, Core, TypeOK, CacheNodes
<1>5. /\ node'[l].key = query[w] /\ node'[l].leader = w
      /\ node'[l].value = node[l].value /\ node'[l].state = "FAILED"
      /\ node'[l] \in CacheNodes
  <2>1. /\ node[l].value \in Values \cup {NULL}
        /\ node[l].expires \in Nat /\ node[l].published \in Nat
        /\ "FAILED" \in {"IN_PROGRESS", "READY", "FAILED", "FREE"}
    BY <1>2, CacheAssumption DEF Core, TypeOK, CacheNodes
  <2>2. /\ node'[l].key = node[l].key /\ node'[l].leader = node[l].leader
        /\ node'[l].value = node[l].value /\ node'[l].state = "FAILED"
    BY <1>2, <1>4 DEF CacheNodes
  <2>3. node'[l] \in CacheNodes
    BY <1>2, <1>4, <2>1 DEF CacheNodes
  <2> QED
    BY <1>1, <2>2, <2>3
<1>6. /\ UNCHANGED <<query, line, response, cache_mutex, scan, cacheLines,
                     cacheDirectory>>
      /\ pc[w] = "fail" /\ pc' = [pc EXCEPT ![w] = "notify"]
  BY DEF CancelFail, Goto, served, cacheVars
<1>7. /\ DirectoryConsistent'
      /\ \A n \in Nodes : n # l => node'[n] = node[n]
      /\ \A n \in Nodes : node'[n].key = node[n].key
      /\ \A n \in Nodes : node'[n].leader = node[n].leader
  <2>1. Writes(w)
    BY <1>1, <1>4, <1>5, <1>6 DEF Writes
  <2> QED
    BY <1>1, <2>1, WritesKeepsCache
<1>8. TypeOK'
  <2>1. node' \in [Nodes -> CacheNodes]
    BY <1>4, <1>5 DEF Core, TypeOK
  <2>2. payload_bytes' \in Int
    BY DEF CancelFail, cacheVars, Core, TypeOK
  <2>3. node_mtx' \in [Nodes -> Workers \cup {NULL}] /\ UNCHANGED <<lookupAt, scan, now>>
    BY DEF CancelFail, Core, TypeOK, served
  <2> QED
    BY <1>6, <2>1, <2>2, <2>3 DEF Core, TypeOK, Labels
<1>t. /\ pc \in [Workers -> Labels] /\ ToSet(cacheLines) \subseteq Nodes
      /\ pc'[w] = "notify" /\ \A u \in Workers : u # w => pc'[u] = pc[u]
  BY <1>6, InToSet DEF Core, TypeOK
<1>9. FailedNotCached'
  BY <1>1, <1>5, <1>6, <1>7, <1>t DEF Core, FailedNotCached, LeaderInv
<1>10. MutexInv' /\ AnswerMatchesQuery'
  BY <1>6, <1>t DEF Core, MutexInv, AnswerMatchesQuery
<1>l. LineInv'
  <2> SUFFICES ASSUME NEW u \in Workers, pc'[u] \notin {"idle", "evict", "scan"}
               PROVE  /\ query[u] \in Keys /\ line[u] \in Nodes
                      /\ node'[line[u]].key = query[u]
                      /\ node'[line[u]].state # "FREE"
    BY <1>6, <1>t DEF Core, LineInv
  <2>1. /\ query[u] \in Keys /\ line[u] \in Nodes
        /\ node[line[u]].key = query[u] /\ node[line[u]].state # "FREE"
    BY <1>6, <1>t DEF Core, LineInv
  <2>2. CASE line[u] = l
    BY <2>1, <2>2, <1>5, <1>7
  <2>3. CASE line[u] # l
    BY <2>1, <2>3, <1>7
  <2> QED
    BY <2>2, <2>3
<1>11. LeaderInv'
  BY <1>1, <1>5, <1>6, <1>7, <1>t, <1>l DEF Core, LineInv, LeaderInv, Leads
<1>12. FlightInv'
  BY <1>1, <1>5, <1>6, <1>7, <1>t DEF Core, LeaderInv, FlightInv
<1>13. ResultInv'
  BY <1>1, <1>5, <1>6, <1>7, <1>t DEF Core, LineInv, ResultInv, LeaderInv, Leads
<1> QED
  BY <1>7, <1>8, <1>9, <1>10, <1>11, <1>12, <1>13, <1>l DEF Core

-----------------------------------------------------------------------------
(* Steps that take lines out of the list                                   *)

LEMMA ReapProperties ==
    ASSUME Core, NEW lines, NEW held
    PROVE  /\ Reap(node, lines, held) \in [Nodes -> CacheNodes]
           /\ \A m \in Nodes :
                 \/ Reap(node, lines, held)[m] = node[m]
                 \/ /\ Reap(node, lines, held)[m].state = "FREE"
                    /\ m \notin ToSet(lines)
                    /\ \A u \in Workers : held[u] # m
<1>1. Free \in CacheNodes /\ Free.state = "FREE"
  BY DEF Free, CacheNodes
<1>2. node \in [Nodes -> CacheNodes]
  BY DEF Core, TypeOK
<1> QED
  BY <1>1, <1>2 DEF Reap

LEMMA DropProperties ==
    ASSUME Core, NEW n \in ToSet(cacheLines), node[n].state = "READY", Drop(n)
    PROVE  /\ n \in Nodes
           /\ cacheLines' \in Seq(Nodes) /\ Distinct(cacheLines')
           /\ ToSet(cacheLines') = ToSet(cacheLines) \ {n}
           /\ Len(cacheLines') = Len(cacheLines) - 1
           /\ cacheDirectory' \in [Keys -> Nodes \cup {NULL}]
           /\ \A k \in Keys : cacheDirectory'[k] =
                 IF cacheDirectory[k] = n THEN NULL ELSE cacheDirectory[k]
           /\ payload_bytes' \in Int
           /\ node' \in [Nodes -> CacheNodes]
           /\ \A m \in Nodes :
                 \/ node'[m] = node[m]
                 \/ /\ node'[m].state = "FREE"
                    /\ m \notin ToSet(cacheLines')
                    /\ \A u \in Workers : line[u] # m
<1>1. /\ cacheLines \in Seq(Nodes) /\ Distinct(cacheLines) /\ n \in Nodes
      /\ node[n].key \in Keys /\ cacheDirectory[node[n].key] = n
      /\ \A k \in Keys : cacheDirectory[k] = n => k = node[n].key
      /\ cacheDirectory \in [Keys -> Nodes \cup {NULL}]
      /\ NULL \notin Nodes
  BY InToSet, CacheAssumption DEF Core, TypeOK, DirectoryConsistent, Distinct
<1>2. cacheLines' = Without(n)
  BY DEF Drop
<1>3. /\ cacheLines' \in Seq(Nodes) /\ Distinct(cacheLines')
      /\ ToSet(cacheLines') = ToSet(cacheLines) \ {n}
      /\ Len(cacheLines') = Len(cacheLines) - 1
  BY <1>1, <1>2, WithoutProperties
<1>4. /\ cacheDirectory' \in [Keys -> Nodes \cup {NULL}]
      /\ \A k \in Keys : cacheDirectory'[k] =
            IF cacheDirectory[k] = n THEN NULL ELSE cacheDirectory[k]
  BY <1>1 DEF Drop
<1>5. payload_bytes' \in Int
  <2>1. node[n].value \in Answers[node[n].key] /\ node[n].value \in Values
    BY <1>1, CacheAssumption DEF Core, ResultInv
  <2> QED
    BY <1>1, <2>1, CacheAssumption DEF Drop, Bytes, Size, Core, TypeOK
<1>6. node' = Reap(node, cacheLines', line)
  BY <1>2 DEF Drop
<1> QED
  BY <1>1, <1>3, <1>4, <1>5, <1>6, ReapProperties

\* The three actions that drop a line leave their worker about to evict more.
LEMMA DropCore ==
    ASSUME Core, NEW w \in Workers, NEW n \in ToSet(cacheLines),
           node[n].state = "READY", Drop(n),
           NEW q \in Keys, query' = [query EXCEPT ![w] = q],
           cacheDirectory[q] \in {n, NULL},
           cache_mutex \in {w, NULL}, cache_mutex' = w,
           pc[w] \in {"idle", "evict", "scan"},
           pc' = [pc EXCEPT ![w] = "evict"],
           pc[w] # "idle" => query[w] = q,
           lookupAt' \in [Workers -> Nat], scan' \in Nat,
           UNCHANGED <<line, response, node_mtx, now>>
    PROVE  Core'
<1>1. /\ n \in Nodes
      /\ cacheLines' \in Seq(Nodes) /\ Distinct(cacheLines')
      /\ ToSet(cacheLines') = ToSet(cacheLines) \ {n}
      /\ cacheDirectory' \in [Keys -> Nodes \cup {NULL}]
      /\ \A k \in Keys : cacheDirectory'[k] =
            IF cacheDirectory[k] = n THEN NULL ELSE cacheDirectory[k]
      /\ payload_bytes' \in Int
      /\ node' \in [Nodes -> CacheNodes]
      /\ \A m \in Nodes :
            \/ node'[m] = node[m]
            \/ /\ node'[m].state = "FREE"
               /\ m \notin ToSet(cacheLines')
               /\ \A u \in Workers : line[u] # m
  BY DropProperties
<1>2. /\ pc \in [Workers -> Labels] /\ ToSet(cacheLines) \subseteq Nodes
      /\ pc'[w] = "evict" /\ \A u \in Workers : u # w => pc'[u] = pc[u]
      /\ query \in [Workers -> Keys \cup {NULL}]
      /\ query'[w] = q /\ \A u \in Workers : u # w => query'[u] = query[u]
      /\ line \in [Workers -> Nodes \cup {NULL}]
      /\ NULL \notin Nodes
  BY InToSet, CacheAssumption DEF Core, TypeOK
<1>3. TypeOK'
  BY <1>1, <1>2 DEF Core, TypeOK, Labels
<1>4. DirectoryConsistent'
  <2>1. ASSUME NEW m \in ToSet(cacheLines')
        PROVE  node'[m].key \in Keys /\ cacheDirectory'[node'[m].key] = m
    <3>1. m \in ToSet(cacheLines) /\ m # n /\ m \in Nodes /\ node'[m] = node[m]
      BY <2>1, <1>1, <1>2
    <3> QED
      BY <3>1, <1>1 DEF Core, DirectoryConsistent
  <2>2. ASSUME NEW k \in Keys, cacheDirectory'[k] # NULL
        PROVE  /\ cacheDirectory'[k] \in ToSet(cacheLines')
               /\ node'[cacheDirectory'[k]].key = k
    <3>1. cacheDirectory'[k] = cacheDirectory[k] /\ cacheDirectory[k] # n
      BY <2>2, <1>1
    <3>2. cacheDirectory[k] \in ToSet(cacheLines) /\ node[cacheDirectory[k]].key = k
      BY <2>2, <3>1 DEF Core, DirectoryConsistent
    <3> QED
      BY <3>1, <3>2, <1>1, <1>2
  <2> QED
    BY <2>1, <2>2, <1>1 DEF DirectoryConsistent, Distinct
<1>5. FailedNotCached'
  BY <1>1, <1>2 DEF Core, FailedNotCached
<1>6. MutexInv'
  BY <1>1, <1>2, CacheAssumption DEF Core, MutexInv
<1>7. LineInv'
  BY <1>1, <1>2 DEF Core, LineInv
<1>8. LeaderInv'
  <2>1. ASSUME NEW u \in Workers, u # w, pc[u] \notin {"idle", "evict", "scan"}
        PROVE  line[u] \in Nodes /\ node'[line[u]] = node[line[u]]
    BY <2>1, <1>1 DEF Core, LineInv
  <2> QED
    BY <2>1, <1>1, <1>2 DEF Core, LeaderInv, Leads
<1>9. FlightInv'
  BY <1>1, <1>2 DEF Core, FlightInv
<1>10. ResultInv'
  <2>1. ASSUME NEW u \in Workers, u # w, pc[u] = "ready"
        PROVE  node'[line[u]] = node[line[u]]
    BY <2>1, <1>1 DEF Core, LineInv
  <2>2. ASSUME NEW m \in Nodes, node'[m].state = "READY"
        PROVE  node'[m].key \in Keys /\ node'[m].value \in Answers[node'[m].key]
    BY <2>2, <1>1 DEF Core, ResultInv
  <2> QED
    BY <2>1, <2>2, <1>1, <1>2 DEF Core, ResultInv
<1>11. AnswerMatchesQuery'
  BY <1>2 DEF Core, ResultInv, MutexInv, AnswerMatchesQuery
<1> QED
  BY <1>3, <1>4, <1>5, <1>6, <1>7, <1>8, <1>9, <1>10, <1>11 DEF Core

LEMMA LookupExpiredCore ==
    ASSUME Core, NEW w \in Workers, NEW q \in Keys, LookupExpired(w, q)
    PROVE  Core'
<1>1. cacheDirectory[q] \in ToSet(cacheLines) /\ node[cacheDirectory[q]].state = "READY"
  BY DEF LookupExpired, Expired, Core, DirectoryConsistent
<1>2. lookupAt' \in [Workers -> Nat] /\ scan' \in Nat
  BY DEF LookupExpired, Begin, Core, TypeOK
<1> QED
  BY <1>1, <1>2, DropCore DEF LookupExpired, Begin, Goto

LEMMA EvictingQuery ==
    ASSUME Core, NEW w \in Workers, pc[w] \in {"evict", "scan"},
           UNCHANGED <<query, lookupAt>>
    PROVE  /\ query[w] \in Keys /\ cacheDirectory[query[w]] = NULL
           /\ query' = [query EXCEPT ![w] = query[w]]
           /\ cache_mutex = w /\ lookupAt' \in [Workers -> Nat]
BY DEF Core, TypeOK, MutexInv

LEMMA EvictedTail ==
    ASSUME Core, NEW w \in Workers, EvictTail(w)
    PROVE  Last(cacheLines) \in ToSet(cacheLines)
<1>1. cacheLines \in Seq(Nodes) /\ Len(cacheLines) >= 1
  BY CacheAssumption DEF EvictTail, Capacity, Core, TypeOK
<1>2. Last(cacheLines) = cacheLines[Len(cacheLines)] /\ Len(cacheLines) \in DOMAIN cacheLines
  BY <1>1 DEF Last
<1> QED
  BY <1>2, InToSet

LEMMA EvictTailCore ==
    ASSUME Core, NEW w \in Workers, EvictTail(w)
    PROVE  Core'
<1>1. Last(cacheLines) \in ToSet(cacheLines)
  BY EvictedTail
<1>2. pc' = [pc EXCEPT ![w] = "evict"] /\ scan' \in Nat
  BY DEF EvictTail, Core, TypeOK
<1> QED
  BY <1>1, <1>2, EvictingQuery, DropCore DEF EvictTail, served

LEMMA EvictedByScan ==
    ASSUME Core, NEW w \in Workers, ScanEvicts(w)
    PROVE  cacheLines[scan - 1] \in ToSet(cacheLines)
<1>1. scan - 1 \in DOMAIN cacheLines
  BY DEF ScanEvicts, Core, TypeOK, MutexInv
<1> QED
  BY <1>1, InToSet

LEMMA ScanEvictsCore ==
    ASSUME Core, NEW w \in Workers, ScanEvicts(w)
    PROVE  Core'
<1>1. cacheLines[scan - 1] \in ToSet(cacheLines)
  BY EvictedByScan
<1> QED
  BY <1>1, EvictingQuery, DropCore DEF ScanEvicts, Goto, served

\* Whether or not the line is still in the cache, it is not there afterwards,
\* and nothing else has left.
LEMMA CancelEraseProperties ==
    ASSUME Core, NEW w \in Workers, CancelErase(w)
    PROVE  /\ line[w] \in Nodes
           /\ cacheLines' \in Seq(Nodes) /\ Distinct(cacheLines')
           /\ ToSet(cacheLines') = ToSet(cacheLines) \ {line[w]}
           /\ Len(cacheLines') <= Len(cacheLines)
           /\ cacheDirectory' \in [Keys -> Nodes \cup {NULL}]
           /\ \A k \in Keys : cacheDirectory'[k] =
                 IF cacheDirectory[k] = line[w] THEN NULL ELSE cacheDirectory[k]
<1>1. PICK l \in Nodes :
          l = line[w] /\ query[w] \in Keys /\ node[l].key = query[w]
  BY DEF CancelErase, EraseIf, Core, LineInv
<1>2. /\ cacheLines \in Seq(Nodes) /\ Distinct(cacheLines)
      /\ ToSet(cacheLines) \subseteq Nodes
      /\ cacheDirectory \in [Keys -> Nodes \cup {NULL}]
      /\ NULL \notin Nodes
  BY InToSet, CacheAssumption
     DEF Core, TypeOK, DirectoryConsistent, Distinct
<1>3. \A k \in Keys : cacheDirectory[k] = l => k = query[w]
  BY <1>1, <1>2 DEF Core, DirectoryConsistent
<1>4. CASE cacheDirectory[query[w]] = l
  <2>1. /\ cacheLines' = Without(l)
        /\ cacheDirectory' = [cacheDirectory EXCEPT ![query[w]] = NULL]
    BY <1>1, <1>4 DEF CancelErase, EraseIf
  <2>2. l \in ToSet(cacheLines)
    BY <1>1, <1>2, <1>4 DEF Core, DirectoryConsistent
  <2>3. /\ cacheDirectory' \in [Keys -> Nodes \cup {NULL}]
        /\ \A k \in Keys : cacheDirectory'[k] =
              IF cacheDirectory[k] = l THEN NULL ELSE cacheDirectory[k]
    BY <1>1, <1>2, <1>3, <1>4, <2>1
  <2>4. /\ Without(l) \in Seq(Nodes) /\ Distinct(Without(l))
        /\ ToSet(Without(l)) = ToSet(cacheLines) \ {l}
        /\ Len(Without(l)) = Len(cacheLines) - 1
    BY <1>2, <2>2, WithoutProperties
  <2>5. Len(cacheLines) \in Nat
    BY <1>2
  <2> QED
    BY <1>1, <2>1, <2>3, <2>4, <2>5
<1>5. CASE cacheDirectory[query[w]] # l
  <2>1. UNCHANGED <<cacheLines, cacheDirectory>>
    BY <1>1, <1>5 DEF CancelErase, EraseIf
  <2>2. l \notin ToSet(cacheLines)
    BY <1>1, <1>5 DEF Core, DirectoryConsistent
  <2>3. ToSet(cacheLines') = ToSet(cacheLines) \ {l}
    BY <2>1, <2>2
  <2>4. \A k \in Keys : cacheDirectory[k] # l
    BY <1>3, <1>5
  <2>5. Len(cacheLines) \in Nat
    BY <1>2
  <2> QED
    BY <1>1, <1>2, <2>1, <2>3, <2>4, <2>5
<1> QED
  BY <1>4, <1>5

LEMMA CancelEraseCore ==
    ASSUME Core, NEW w \in Workers, CancelErase(w)
    PROVE  Core'
<1>1. PICK l \in Nodes :
          /\ l = line[w] /\ query[w] \in Keys
          /\ node[l].key = query[w] /\ node[l].leader = w
  BY DEF CancelErase, EraseIf, Core, LineInv, LeaderInv, Leads
<1>2. /\ pc[w] = "cancel" /\ pc' = [pc EXCEPT ![w] = "fail"]
      /\ UNCHANGED <<query, line, response, lookupAt, cache_mutex, node_mtx,
                     scan, payload_bytes, node, now>>
      /\ cache_mutex = NULL
  BY DEF CancelErase, EraseIf, Goto, served
<1>3. /\ pc \in [Workers -> Labels] /\ ToSet(cacheLines) \subseteq Nodes
      /\ pc'[w] = "fail" /\ \A u \in Workers : u # w => pc'[u] = pc[u]
      /\ cacheLines \in Seq(Nodes) /\ Distinct(cacheLines)
      /\ cacheDirectory \in [Keys -> Nodes \cup {NULL}]
      /\ NULL \notin Nodes /\ NULL \notin Workers
  BY <1>2, InToSet, CacheAssumption
     DEF Core, TypeOK, DirectoryConsistent, Distinct
<1>4. /\ cacheLines' \in Seq(Nodes) /\ Distinct(cacheLines')
      /\ ToSet(cacheLines') = ToSet(cacheLines) \ {l}
      /\ cacheDirectory' \in [Keys -> Nodes \cup {NULL}]
      /\ \A k \in Keys : cacheDirectory'[k] =
            IF cacheDirectory[k] = l THEN NULL ELSE cacheDirectory[k]
  BY <1>1, CancelEraseProperties
<1>5. TypeOK'
  BY <1>2, <1>4 DEF Core, TypeOK, Labels
<1>6. DirectoryConsistent'
  BY <1>2, <1>3, <1>4 DEF Core, DirectoryConsistent, Distinct
<1>7. FailedNotCached' /\ AnswerMatchesQuery'
  BY <1>2, <1>4 DEF Core, FailedNotCached, AnswerMatchesQuery
<1>8. MutexInv'
  BY <1>2, <1>3 DEF Core, MutexInv
<1>9. LineInv'
  BY <1>2, <1>3 DEF Core, LineInv
<1>10. LeaderInv'
  BY <1>1, <1>2, <1>3, <1>4 DEF Core, LeaderInv, Leads
<1>11. FlightInv'
  BY <1>1, <1>2, <1>3, <1>4 DEF Core, FlightInv
<1>12. ResultInv'
  BY <1>2, <1>3 DEF Core, ResultInv
<1> QED
  BY <1>5, <1>6, <1>7, <1>8, <1>9, <1>10, <1>11, <1>12 DEF Core

-----------------------------------------------------------------------------
(* Steps that take or move lines, and the others                           *)

\* Moving a line to the front keeps the set of lines.
LEMMA LookupHitProperties ==
    ASSUME Core, NEW w \in Workers, NEW q \in Keys, LookupHit(w, q)
    PROVE  /\ cacheDirectory[q] \in ToSet(cacheLines)
           /\ cacheLines' \in Seq(Nodes) /\ Distinct(cacheLines')
           /\ ToSet(cacheLines') = ToSet(cacheLines)
           /\ Len(cacheLines') = Len(cacheLines)
<1>1. PICK n \in Nodes : n = cacheDirectory[q] /\ n \in ToSet(cacheLines)
  BY InToSet DEF LookupHit, Core, TypeOK, DirectoryConsistent
<1>2. cacheLines \in Seq(Nodes) /\ Distinct(cacheLines)
  BY DEF Core, TypeOK, DirectoryConsistent, Distinct
<1>3. cacheLines' = Cons(n, Without(n))
  BY <1>1 DEF LookupHit
<1>4. /\ Without(n) \in Seq(Nodes) /\ Distinct(Without(n))
      /\ ToSet(Without(n)) = ToSet(cacheLines) \ {n}
      /\ Len(Without(n)) = Len(cacheLines) - 1
  BY <1>1, <1>2, WithoutProperties
<1>5. /\ Cons(n, Without(n)) \in Seq(Nodes) /\ Distinct(Cons(n, Without(n)))
      /\ ToSet(Cons(n, Without(n))) = ToSet(Without(n)) \cup {n}
      /\ Len(Cons(n, Without(n))) = Len(Without(n)) + 1
  BY <1>4, ConsProperties
<1>6. Len(cacheLines) \in Nat
  BY <1>2
<1> QED
  BY <1>1, <1>3, <1>4, <1>5, <1>6

LEMMA LookupHitCore ==
    ASSUME Core, NEW w \in Workers, NEW q \in Keys, LookupHit(w, q)
    PROVE  Core'
<1>1. PICK n \in Nodes :
          n = cacheDirectory[q] /\ n \in ToSet(cacheLines) /\ node[n].key = q
  BY InToSet DEF LookupHit, Core, TypeOK, DirectoryConsistent
<1>2. /\ pc[w] = "idle" /\ pc' = [pc EXCEPT ![w] = "follow"]
      /\ query' = [query EXCEPT ![w] = q] /\ line' = [line EXCEPT ![w] = n]
      /\ lookupAt' = [lookupAt EXCEPT ![w] = now] /\ cache_mutex = NULL
      /\ UNCHANGED <<response, cache_mutex, node_mtx, cacheDirectory, scan,
                     payload_bytes, node, now>>
  BY <1>1 DEF LookupHit, Begin, Goto
<1>3. /\ pc \in [Workers -> Labels] /\ ToSet(cacheLines) \subseteq Nodes
      /\ pc'[w] = "follow" /\ \A u \in Workers : u # w => pc'[u] = pc[u]
      /\ query \in [Workers -> Keys \cup {NULL}]
      /\ query'[w] = q /\ \A u \in Workers : u # w => query'[u] = query[u]
      /\ line \in [Workers -> Nodes \cup {NULL}]
      /\ line'[w] = n /\ \A u \in Workers : u # w => line'[u] = line[u]
      /\ cacheLines \in Seq(Nodes) /\ Distinct(cacheLines)
      /\ NULL \notin Nodes /\ NULL \notin Workers
  BY <1>1, <1>2, InToSet, CacheAssumption
     DEF Core, TypeOK, DirectoryConsistent, Distinct
<1>4. /\ cacheLines' \in Seq(Nodes) /\ Distinct(cacheLines')
      /\ ToSet(cacheLines') = ToSet(cacheLines)
      /\ Len(cacheLines') = Len(cacheLines)
  BY LookupHitProperties
<1>5. TypeOK'
  BY <1>2, <1>4 DEF Core, TypeOK, Labels
<1>6. DirectoryConsistent' /\ FailedNotCached'
  BY <1>2, <1>4 DEF Core, DirectoryConsistent, FailedNotCached, Distinct
<1>7. MutexInv'
  BY <1>2, <1>3, <1>4 DEF Core, MutexInv
<1>8. LineInv'
  <2>1. node[n].state # "FREE"
    BY <1>1 DEF Core, FailedNotCached
  <2> QED
    BY <1>1, <1>2, <1>3, <2>1 DEF Core, LineInv
<1>9. LeaderInv'
  BY <1>2, <1>3, <1>4 DEF Core, LeaderInv, Leads
<1>10. FlightInv'
  BY <1>2, <1>3, <1>4 DEF Core, FlightInv
<1>11. ResultInv' /\ AnswerMatchesQuery'
  BY <1>2, <1>3 DEF Core, ResultInv, AnswerMatchesQuery
<1> QED
  BY <1>5, <1>6, <1>7, <1>8, <1>9, <1>10, <1>11 DEF Core

LEMMA LookupMissCore ==
    ASSUME Core, NEW w \in Workers, NEW q \in Keys, LookupMiss(w, q)
    PROVE  Core'
<1>1. /\ pc[w] = "idle" /\ pc' = [pc EXCEPT ![w] = "evict"]
      /\ query' = [query EXCEPT ![w] = q] /\ cache_mutex = NULL
      /\ lookupAt' = [lookupAt EXCEPT ![w] = now] /\ cache_mutex' = w
      /\ cacheDirectory[q] = NULL
      /\ UNCHANGED <<line, response, node_mtx, cacheLines, cacheDirectory,
                     payload_bytes, scan, node, now>>
  BY DEF LookupMiss, Begin, Goto, cacheVars
<1>2. /\ pc \in [Workers -> Labels]
      /\ pc'[w] = "evict" /\ \A u \in Workers : u # w => pc'[u] = pc[u]
      /\ query \in [Workers -> Keys \cup {NULL}]
      /\ query'[w] = q /\ \A u \in Workers : u # w => query'[u] = query[u]
      /\ NULL \notin Nodes /\ NULL \notin Workers
  BY <1>1, CacheAssumption DEF Core, TypeOK
<1>3. TypeOK'
  BY <1>1 DEF Core, TypeOK, Labels
<1>4. DirectoryConsistent' /\ FailedNotCached'
  BY <1>1 DEF Core, DirectoryConsistent, FailedNotCached
<1>5. MutexInv'
  BY <1>1, <1>2 DEF Core, MutexInv
<1>6. LineInv'
  BY <1>1, <1>2 DEF Core, LineInv
<1>7. LeaderInv' /\ FlightInv'
  BY <1>1, <1>2 DEF Core, LeaderInv, Leads, FlightInv
<1>8. ResultInv' /\ AnswerMatchesQuery'
  BY <1>1, <1>2 DEF Core, ResultInv, AnswerMatchesQuery
<1> QED
  BY <1>3, <1>4, <1>5, <1>6, <1>7, <1>8 DEF Core

\* A reservation adds one line and drops none.
LEMMA ReserveProperties ==
    ASSUME Core, NEW w \in Workers, Reserve(w)
    PROVE  \E n \in Nodes \ ToSet(cacheLines) :
              /\ TakeLine(w, n)
              /\ \A u \in Workers : line[u] # n
              /\ cacheLines' \in Seq(Nodes) /\ Distinct(cacheLines')
              /\ ToSet(cacheLines') = ToSet(cacheLines) \cup {n}
              /\ Len(cacheLines') = Len(cacheLines) + 1
<1>1. PICK n \in Nodes \ ToSet(cacheLines) :
          (\A u \in Workers : line[u] # n) /\ TakeLine(w, n)
  BY DEF Reserve
<1>2. cacheLines' = Cons(n, cacheLines)
  BY <1>1 DEF TakeLine
<1>3. cacheLines \in Seq(Nodes) /\ Distinct(cacheLines)
  BY DEF Core, TypeOK, DirectoryConsistent, Distinct
<1> QED
  BY <1>1, <1>2, <1>3, ConsProperties

LEMMA ReserveCore ==
    ASSUME Core, NEW w \in Workers, Reserve(w)
    PROVE  Core'
<1>1. PICK n \in Nodes \ ToSet(cacheLines) :
          (\A u \in Workers : line[u] # n) /\ TakeLine(w, n)
  BY DEF Reserve
<1>2. /\ pc[w] \in {"evict", "scan"} /\ pc' = [pc EXCEPT ![w] = "fetch"]
      /\ line' = [line EXCEPT ![w] = n]
      /\ node' = [node EXCEPT ![n] = NewNode(query[w], w)]
      /\ cacheDirectory' = [cacheDirectory EXCEPT ![query[w]] = n]
      /\ cacheLines' = Cons(n, cacheLines)
      /\ scan' = 0 /\ cache_mutex' = NULL
      /\ UNCHANGED <<query, response, lookupAt, node_mtx, payload_bytes, now>>
  BY <1>1 DEF Reserve, TakeLine, Goto
<1>3. /\ query[w] \in Keys /\ cacheDirectory[query[w]] = NULL
      /\ cache_mutex = w
  BY <1>2 DEF Core, MutexInv
<1>4. /\ pc \in [Workers -> Labels] /\ ToSet(cacheLines) \subseteq Nodes
      /\ pc'[w] = "fetch" /\ \A u \in Workers : u # w => pc'[u] = pc[u]
      /\ line \in [Workers -> Nodes \cup {NULL}]
      /\ line'[w] = n /\ \A u \in Workers : u # w => line'[u] = line[u]
      /\ cacheLines \in Seq(Nodes) /\ Distinct(cacheLines)
      /\ cacheDirectory \in [Keys -> Nodes \cup {NULL}]
      /\ NULL \notin Nodes /\ NULL \notin Workers
  BY <1>1, <1>2, InToSet, CacheAssumption
     DEF Core, TypeOK, DirectoryConsistent, Distinct
<1>5. /\ cacheLines' \in Seq(Nodes) /\ Distinct(cacheLines')
      /\ ToSet(cacheLines') = ToSet(cacheLines) \cup {n}
  BY <1>2, <1>4, ConsProperties
<1>6. /\ NewNode(query[w], w) \in CacheNodes
      /\ NewNode(query[w], w).key = query[w]
      /\ NewNode(query[w], w).state = "IN_PROGRESS"
      /\ NewNode(query[w], w).leader = w
  BY <1>3 DEF NewNode, Free, CacheNodes
<1>7. /\ node' \in [Nodes -> CacheNodes]
      /\ node'[n].key = query[w] /\ node'[n].state = "IN_PROGRESS"
      /\ node'[n].leader = w
      /\ \A m \in Nodes : m # n => node'[m] = node[m]
  BY <1>2, <1>6 DEF Core, TypeOK
<1>8. /\ cacheDirectory' \in [Keys -> Nodes \cup {NULL}]
      /\ cacheDirectory'[query[w]] = n
      /\ \A k \in Keys : k # query[w] => cacheDirectory'[k] = cacheDirectory[k]
  BY <1>2, <1>3, <1>4
<1>9. TypeOK'
  BY <1>2, <1>5, <1>7, <1>8 DEF Core, TypeOK, Labels
<1>10. DirectoryConsistent'
  <2>1. ASSUME NEW m \in ToSet(cacheLines)
        PROVE  /\ node'[m].key \in Keys /\ node'[m].key # query[w]
               /\ cacheDirectory'[node'[m].key] = m
    <3>1. m \in Nodes /\ node'[m] = node[m]
      BY <2>1, <1>1, <1>4, <1>7
    <3>2. node[m].key \in Keys /\ cacheDirectory[node[m].key] = m
      BY <2>1 DEF Core, DirectoryConsistent
    <3> QED
      BY <3>1, <3>2, <1>3, <1>4, <1>8
  <2>2. ASSUME NEW k \in Keys, k # query[w], cacheDirectory'[k] # NULL
        PROVE  /\ cacheDirectory'[k] \in ToSet(cacheLines)
               /\ node'[cacheDirectory'[k]].key = k
    BY <2>2, <1>1, <1>4, <1>7, <1>8 DEF Core, DirectoryConsistent
  <2> QED
    BY <2>1, <2>2, <1>3, <1>5, <1>7, <1>8 DEF DirectoryConsistent, Distinct
<1>11. FailedNotCached' /\ AnswerMatchesQuery'
  BY <1>1, <1>2, <1>4, <1>5, <1>7 DEF Core, FailedNotCached, AnswerMatchesQuery
<1>12. MutexInv'
  BY <1>2, <1>3, <1>4 DEF Core, MutexInv
<1>13. LineInv'
  BY <1>1, <1>2, <1>3, <1>4, <1>7 DEF Core, LineInv
<1>14. LeaderInv'
  <2>1. ASSUME NEW u \in Workers, u # w, pc[u] \notin {"idle", "evict", "scan"}
        PROVE  line'[u] \in Nodes /\ line'[u] = line[u] /\ line[u] # n
    BY <2>1, <1>1, <1>4 DEF Core, LineInv
  <2> QED
    BY <2>1, <1>2, <1>4, <1>5, <1>7 DEF Core, LeaderInv, Leads
<1>15. FlightInv'
  <2>1. ASSUME NEW m \in Nodes, m # n, node[m].state = "IN_PROGRESS"
        PROVE  node[m].leader # w
    BY <2>1, <1>2 DEF Core, FlightInv
  <2> QED
    BY <2>1, <1>4, <1>5, <1>7 DEF Core, FlightInv
<1>16. ResultInv'
  BY <1>1, <1>2, <1>4, <1>7 DEF Core, LineInv, ResultInv
<1> QED
  BY <1>9, <1>10, <1>11, <1>12, <1>13, <1>14, <1>15, <1>16 DEF Core

LEMMA RespondCore ==
    ASSUME Core, NEW w \in Workers, Respond(w)
    PROVE  Core'
<1>1. /\ pc[w] = "respond" /\ pc' = [pc EXCEPT ![w] = "idle"]
      /\ query' = [query EXCEPT ![w] = NULL]
      /\ line' = [line EXCEPT ![w] = NULL]
      /\ response' = [response EXCEPT ![w] = NoResponse]
      /\ lookupAt' = [lookupAt EXCEPT ![w] = 0]
      /\ node' = Reap(node, cacheLines, line')
      /\ UNCHANGED <<cache_mutex, node_mtx, cacheLines, cacheDirectory,
                     payload_bytes, scan, now>>
  BY DEF Respond, Goto, cacheVars
<1>2. /\ pc \in [Workers -> Labels] /\ ToSet(cacheLines) \subseteq Nodes
      /\ pc'[w] = "idle" /\ \A u \in Workers : u # w => pc'[u] = pc[u]
      /\ query \in [Workers -> Keys \cup {NULL}]
      /\ \A u \in Workers : u # w => query'[u] = query[u]
      /\ line \in [Workers -> Nodes \cup {NULL}]
      /\ line'[w] = NULL /\ \A u \in Workers : u # w => line'[u] = line[u]
      /\ response \in [Workers -> Responses]
      /\ response'[w].kind = "NONE"
      /\ \A u \in Workers : u # w => response'[u] = response[u]
      /\ NULL \notin Nodes /\ NULL \notin Workers
  BY <1>1, InToSet, CacheAssumption DEF Core, TypeOK, NoResponse
<1>3. /\ node' \in [Nodes -> CacheNodes]
      /\ \A m \in Nodes :
            \/ node'[m] = node[m]
            \/ /\ node'[m].state = "FREE"
               /\ m \notin ToSet(cacheLines)
               /\ \A u \in Workers : line'[u] # m
  <2>1. PICK held : held = line'
    OBVIOUS
  <2>2. node' = Reap(node, cacheLines, held)
    BY <1>1, <2>1
  <2> QED
    BY <2>1, <2>2, ReapProperties
<1>4. ASSUME NEW u \in Workers, u # w, pc[u] \notin {"idle", "evict", "scan"}
      PROVE  line[u] \in Nodes /\ node'[line[u]] = node[line[u]]
  BY <1>2, <1>3, <1>4 DEF Core, LineInv
<1>5. \A m \in ToSet(cacheLines) : node'[m] = node[m]
  BY <1>2, <1>3
<1>6. TypeOK'
  <2>1. NoResponse \in Responses
    BY DEF Responses
  <2> QED
    BY <2>1, <1>1, <1>3 DEF Core, TypeOK, Labels
<1>7. DirectoryConsistent' /\ FailedNotCached'
  BY <1>1, <1>5 DEF Core, DirectoryConsistent, FailedNotCached
<1>8. MutexInv'
  BY <1>1, <1>2 DEF Core, MutexInv
<1>9. UNCHANGED <<cacheLines, cacheDirectory>> /\ pc[w] = "respond"
  BY <1>1
<1>10. LineInv'
  BY <1>2, <1>4 DEF Core, LineInv
<1>11. LeaderInv'
  BY <1>2, <1>4, <1>9 DEF Core, LeaderInv, Leads
<1>12. FlightInv'
  <2>1. ASSUME NEW m \in Nodes, node'[m].state = "IN_PROGRESS"
        PROVE  node'[m] = node[m] /\ node[m].leader # w
    BY <2>1, <1>3, <1>9 DEF Core, FlightInv
  <2> QED
    BY <2>1, <1>2, <1>9 DEF Core, FlightInv
<1>13. ResultInv'
  <2>1. ASSUME NEW m \in Nodes, node'[m].state = "READY"
        PROVE  node'[m] = node[m]
    BY <2>1, <1>3
  <2> QED
    BY <2>1, <1>2, <1>4 DEF Core, ResultInv
<1>14. AnswerMatchesQuery'
  BY <1>2 DEF Core, AnswerMatchesQuery
<1> QED
  BY <1>6, <1>7, <1>8, <1>10, <1>11, <1>12, <1>13, <1>14 DEF Core

LEMMA TickCore ==
    ASSUME Core, Tick
    PROVE  Core'
<1>1. UNCHANGED <<pc, query, line, response, lookupAt, cache_mutex, node_mtx,
                  cacheLines, cacheDirectory, payload_bytes, scan, node>>
  BY DEF Tick, served, cacheVars
<1>2. now' \in Nat
  BY DEF Tick, Core, TypeOK
<1> QED
  BY <1>1, <1>2 DEF Core, TypeOK, DirectoryConsistent, FailedNotCached,
     MutexInv, LineInv, LeaderInv, Leads, FlightInv, ResultInv,
     AnswerMatchesQuery

-----------------------------------------------------------------------------
(* Core is an invariant                                                    *)

LEMMA InitCore == Init => Core
<1> SUFFICES ASSUME Init PROVE Core
  OBVIOUS
<1> USE CacheAssumption DEF Init
<1>1. ToSet(cacheLines) = {} /\ cacheLines \in Seq(Nodes) /\ DOMAIN cacheLines = {}
  BY DEF ToSet
<1>2. Free \in CacheNodes /\ Free.state = "FREE"
  BY DEF Free, CacheNodes
<1>3. NoResponse \in Responses /\ NoResponse.kind = "NONE"
  BY DEF Responses, NoResponse
<1>4. TypeOK
  BY <1>1, <1>2, <1>3 DEF TypeOK, Labels
<1>5. DirectoryConsistent /\ FailedNotCached
  BY <1>1 DEF DirectoryConsistent, FailedNotCached
<1>6. MutexInv /\ LineInv
  BY DEF MutexInv, LineInv
<1>7. LeaderInv /\ FlightInv
  BY <1>2 DEF LeaderInv, Leads, FlightInv
<1>8. ResultInv /\ AnswerMatchesQuery
  BY <1>2, <1>3 DEF ResultInv, AnswerMatchesQuery
<1> QED
  BY <1>4, <1>5, <1>6, <1>7, <1>8 DEF Core

LEMMA NextCore == Core /\ [Next]_vars => Core'
<1> SUFFICES ASSUME Core, [Next]_vars PROVE Core'
  OBVIOUS
<1>1. ASSUME NEW w \in Workers, Lookup(w) PROVE Core'
  BY <1>1, LookupHitCore, LookupExpiredCore, LookupMissCore DEF Lookup
<1>2. ASSUME NEW w \in Workers, Step(w) PROVE Core'
  BY <1>2, EvictTailCore, StartScanCore, ScanSkipsCore, ScanEvictsCore,
     ReserveCore, FetchOkCore, FetchThrowsCore, CompleteWriteCore,
     CompleteThrowsCore, CompleteReadyCore, NotifyAllCore, ReplyThrowsCore,
     CancelEraseCore, CancelFailCore, FollowerWaitCore, FollowerReadCore,
     RespondCore
     DEF Step
<1>3. ASSUME NEW w \in Workers, SpuriousWake(w) PROVE Core'
  BY <1>3, SpuriousWakeCore
<1>4. CASE Tick
  BY <1>4, TickCore
<1>5. CASE UNCHANGED vars
  <2>1. UNCHANGED <<pc, query, line, response, lookupAt, cache_mutex, node_mtx,
                    cacheLines, cacheDirectory, payload_bytes, scan, node, now>>
    BY <1>5 DEF vars, served, shared, cacheVars
  <2> QED
    BY <2>1 DEF Core, TypeOK, DirectoryConsistent, FailedNotCached, MutexInv,
       LineInv, LeaderInv, Leads, FlightInv, ResultInv, AnswerMatchesQuery
<1> QED
  BY <1>1, <1>2, <1>3, <1>4, <1>5 DEF Next

THEOREM CoreInvariant == Spec => []Core
<1>1. Init => Core
  BY InitCore
<1>2. Core /\ [Next]_vars => Core'
  BY NextCore
<1> QED
  BY <1>1, <1>2, PTL DEF Spec

-----------------------------------------------------------------------------
(* What follows from Core                                                  *)

\* Every variable keeps its type.
THEOREM TypeCorrect == Spec => []TypeOK
<1>1. Core => TypeOK
  BY DEF Core
<1> QED
  BY <1>1, CoreInvariant, PTL

\* The list and the directory always describe the same cache (Cache.hpp:38-40).
THEOREM DirectoryAlwaysConsistent == Spec => []DirectoryConsistent
<1>1. Core => DirectoryConsistent
  BY DEF Core
<1> QED
  BY <1>1, CoreInvariant, PTL

\* A failed line is never left in the cache (Cache.hpp:144-156).
THEOREM NoFailedLineCached == Spec => []FailedNotCached
<1>1. Core => FailedNotCached
  BY DEF Core
<1> QED
  BY <1>1, CoreInvariant, PTL

\* Every reply with a value answers the worker's own query.
THEOREM AnswersMatch == Spec => []AnswerMatchesQuery
<1>1. Core => AnswerMatchesQuery
  BY DEF Core
<1> QED
  BY <1>1, CoreInvariant, PTL

\* No two workers fetch the same key at a time (Cache.hpp:124): the line of
\* each is the one the directory has for the key, and a line has one leader.
THEOREM AtMostOneFlight == Spec => []SingleFlight
<1>1. Core => SingleFlight
  <2> SUFFICES ASSUME Core, NEW u \in Workers, NEW w \in Workers,
                      pc[u] \in {"fetch", "publish", "ready"},
                      pc[w] \in {"fetch", "publish", "ready"},
                      query[u] = query[w]
               PROVE  u = w
    BY DEF SingleFlight
  <2>1. ASSUME NEW x \in Workers, pc[x] \in {"fetch", "publish", "ready"}
        PROVE  /\ node[line[x]].leader = x
               /\ cacheDirectory[query[x]] = line[x]
    <3>1. /\ line[x] \in Nodes /\ node[line[x]].key = query[x]
          /\ node[line[x]].leader = x /\ node[line[x]].state = "IN_PROGRESS"
      BY <2>1 DEF Core, LineInv, LeaderInv, Leads
    <3>2. line[x] \in ToSet(cacheLines)
      BY <2>1, <3>1 DEF Core, FlightInv
    <3> QED
      BY <3>1, <3>2 DEF Core, DirectoryConsistent
  <2> QED
    BY <2>1
<1> QED
  BY <1>1, CoreInvariant, PTL

\* A line in flight leaves the list only by its own leader's cancellation
\* (Cache.hpp:46-47).
THEOREM FlightsAreProtected == Spec => InFlightProtected
<1> DEFINE Protected ==
        \A n \in Nodes :
            /\ n \in ToSet(cacheLines)
            /\ n \notin ToSet(cacheLines')
            /\ node[n].state = "IN_PROGRESS"
            => /\ pc[node[n].leader] = "cancel"
               /\ pc'[node[n].leader] = "fail"
<1>1. Core /\ [Next]_vars => [Protected]_vars
  <2> SUFFICES ASSUME Core, Next,
                      NEW n \in Nodes, n \in ToSet(cacheLines),
                      n \notin ToSet(cacheLines'),
                      node[n].state = "IN_PROGRESS"
               PROVE  pc[node[n].leader] = "cancel" /\ pc'[node[n].leader] = "fail"
    OBVIOUS
  <2>1. cacheLines' # cacheLines
    OBVIOUS
  <2>2. ASSUME NEW m \in ToSet(cacheLines), node[m].state = "READY", Drop(m)
        PROVE  FALSE
    BY <2>2, DropProperties
  <2>3. ASSUME NEW w \in Workers, CancelErase(w)
        PROVE  pc[node[n].leader] = "cancel" /\ pc'[node[n].leader] = "fail"
    <3>1. n = line[w]
      BY <2>3, CancelEraseProperties
    <3>2. pc[w] = "cancel" /\ pc' = [pc EXCEPT ![w] = "fail"]
      BY <2>3 DEF CancelErase, EraseIf, Goto
    <3>3. node[n].leader = w
      BY <3>1, <3>2 DEF Core, LeaderInv, Leads
    <3> QED
      BY <3>2, <3>3 DEF Core, TypeOK
  <2>4. ASSUME NEW w \in Workers, NEW q \in Keys, LookupExpired(w, q)
        PROVE  FALSE
    BY <2>2, <2>4 DEF LookupExpired, Expired, Core, DirectoryConsistent
  <2>5. ASSUME NEW w \in Workers, EvictTail(w)
        PROVE  FALSE
    BY <2>2, <2>5, EvictedTail DEF EvictTail
  <2>6. ASSUME NEW w \in Workers, ScanEvicts(w)
        PROVE  FALSE
    BY <2>2, <2>6, EvictedByScan DEF ScanEvicts
  <2>7. ASSUME NEW w \in Workers, NEW q \in Keys, LookupHit(w, q)
        PROVE  FALSE
    BY <2>7, LookupHitProperties
  <2>8. ASSUME NEW w \in Workers, Reserve(w)
        PROVE  FALSE
    BY <2>8, ReserveProperties
  <2> QED
    BY <2>1, <2>3, <2>4, <2>5, <2>6, <2>7, <2>8
       DEF Next, Lookup, Step, LookupMiss, StartScan, ScanSkips, FetchOk,
           FetchThrows, Return, shared, cacheVars, CompleteWrite,
           CompleteThrows, CompleteReady, NotifyAll, ReplyThrows, CancelFail,
           FollowerWait, FollowerRead, SpuriousWake, Respond, Tick
<1> QED
  BY <1>1, CoreInvariant, PTL DEF Spec, InFlightProtected

-----------------------------------------------------------------------------
(* Sleeping followers                                                      *)

\* Where a worker is that will notify the followers of its line.
Notifying == {"fetch", "publish", "ready", "cancel", "fail", "notify"}

\* A step of one worker leaves the others where they are, and their lines.
OthersStay(x) ==
    /\ \A v \in Workers \ {x} : pc'[v] = pc[v] /\ line'[v] = line[v]
    /\ pc'[x] # "sleep"

\* Whoever is on the way to notify stays on it, until it notifies.
LEMMA NotifierStays ==
    ASSUME Core, NEW x \in Workers, Lookup(x) \/ Step(x) \/ SpuriousWake(x),
           ~NotifyAll(x), ~FollowerWait(x)
    PROVE  /\ OthersStay(x)
           /\ pc[x] \in Notifying => pc'[x] \in Notifying /\ line'[x] = line[x]
<1> USE DEF OthersStay, Notifying, Goto, served, shared, cacheVars
<1>t. /\ pc \in [Workers -> Labels] /\ line \in [Workers -> Nodes \cup {NULL}]
  BY DEF Core, TypeOK
<1>1. ASSUME NEW q \in Keys,
             LookupHit(x, q) \/ LookupExpired(x, q) \/ LookupMiss(x, q)
      PROVE  /\ OthersStay(x)
             /\ pc[x] \in Notifying => pc'[x] \in Notifying /\ line'[x] = line[x]
  BY <1>1, <1>t DEF LookupHit, LookupExpired, LookupMiss, Begin
<1>2. CASE EvictTail(x) \/ StartScan(x) \/ ScanSkips(x) \/ ScanEvicts(x)
  BY <1>2, <1>t DEF EvictTail, StartScan, ScanSkips, ScanEvicts
<1>3. CASE Reserve(x) \/ Respond(x)
  BY <1>3, <1>t DEF Reserve, TakeLine, Respond
<1>4. CASE FetchOk(x) \/ FetchThrows(x) \/ CompleteThrows(x) \/ ReplyThrows(x)
  BY <1>4, <1>t DEF FetchOk, FetchThrows, CompleteThrows, ReplyThrows, Return
<1>5. CASE CompleteWrite(x) \/ CompleteReady(x)
  BY <1>5, <1>t DEF CompleteWrite, CompleteReady
<1>6. CASE CancelErase(x) \/ CancelFail(x)
  BY <1>6, <1>t DEF CancelErase, EraseIf, CancelFail
<1>7. CASE FollowerRead(x) \/ SpuriousWake(x)
  BY <1>7, <1>t DEF FollowerRead, SpuriousWake, Return
<1> QED
  BY <1>1, <1>2, <1>3, <1>4, <1>5, <1>6, <1>7 DEF Lookup, Step

LEMMA NextSleepers ==
    Core /\ SleepersWillBeWoken /\ [Next]_vars => SleepersWillBeWoken'
<1> SUFFICES ASSUME Core, SleepersWillBeWoken, [Next]_vars,
                    NEW u \in Workers, pc'[u] = "sleep"
             PROVE  \E w \in Workers :
                        w # u /\ line'[w] = line'[u] /\ pc'[w] \in Notifying
  BY DEF SleepersWillBeWoken, Notifying
<1>1. pc[u] = "sleep" => \E w \in Workers :
          w # u /\ line[w] = line[u] /\ pc[w] \in Notifying
  BY DEF SleepersWillBeWoken, Notifying
<1>t. pc \in [Workers -> Labels]
  BY DEF Core, TypeOK
<1>2. ASSUME NEW x \in Workers, Lookup(x) \/ Step(x) \/ SpuriousWake(x),
             ~NotifyAll(x), ~FollowerWait(x)
      PROVE  \E w \in Workers :
                 w # u /\ line'[w] = line'[u] /\ pc'[w] \in Notifying
  <2>1. /\ OthersStay(x)
        /\ pc[x] \in Notifying => pc'[x] \in Notifying /\ line'[x] = line[x]
    BY <1>2, NotifierStays
  <2>2. x # u /\ pc[u] = "sleep"
    BY <2>1 DEF OthersStay
  <2> QED
    BY <1>1, <2>1, <2>2 DEF OthersStay
\* Notifying leaves nobody asleep on the line.
<1>3. ASSUME NEW x \in Workers, NotifyAll(x)
      PROVE  \E w \in Workers :
                 w # u /\ line'[w] = line'[u] /\ pc'[w] \in Notifying
  <2>1. /\ line' = line
        /\ pc' = [v \in Workers |-> IF v = x THEN "respond"
                                    ELSE IF v \in Asleep(x) THEN "follow" ELSE pc[v]]
    BY <1>3 DEF NotifyAll, served
  <2>2. pc[u] = "sleep" /\ line[u] # line[x]
    BY <2>1 DEF Asleep
  <2>3. PICK w \in Workers : w # u /\ line[w] = line[u] /\ pc[w] \in Notifying
    BY <1>1, <2>2
  <2>4. w # x /\ w \notin Asleep(x)
    BY <2>2, <2>3 DEF Asleep, Notifying
  <2> QED
    BY <2>1, <2>3, <2>4
\* A line that is in flight has a leader, which is not the one that follows.
<1>4. ASSUME NEW x \in Workers, FollowerWait(x)
      PROVE  \E w \in Workers :
                 w # u /\ line'[w] = line'[u] /\ pc'[w] \in Notifying
  <2>1. /\ pc[x] = "follow" /\ node[line[x]].state = "IN_PROGRESS"
        /\ line' = line /\ \A v \in Workers : v # x => pc'[v] = pc[v]
    BY <1>4, <1>t DEF FollowerWait, Goto, served
  <2>2. CASE u = x
    <3>1. line[x] \in Nodes
      BY <2>1 DEF Core, LineInv
    <3>2. PICK w \in Workers :
              line[w] = line[x] /\ pc[w] \in {"fetch", "publish", "ready", "cancel", "fail"}
      BY <2>1, <3>1 DEF Core, FlightInv
    <3> QED
      BY <2>1, <2>2, <3>2 DEF Notifying
  <2>3. CASE u # x
    BY <2>1, <2>3, <1>1 DEF Notifying
  <2> QED
    BY <2>2, <2>3
<1>5. CASE Tick \/ UNCHANGED vars
  BY <1>1, <1>5 DEF Tick, vars, served
<1> QED
  BY <1>2, <1>3, <1>4, <1>5 DEF Next

LEMMA InitSleepers == Init => SleepersWillBeWoken
BY DEF Init, SleepersWillBeWoken

\* No wakeup is lost: while a follower sleeps, another worker is on its way to
\* notify it (CacheEngine.hpp:226-230, Cache.hpp:140, 158).
THEOREM NoWakeupIsLost == Spec => []SleepersWillBeWoken
<1>1. Init => SleepersWillBeWoken
  BY InitSleepers
<1>2. Core /\ SleepersWillBeWoken /\ [Next]_vars => SleepersWillBeWoken'
  BY NextSleepers
<1> QED
  BY <1>1, <1>2, CoreInvariant, PTL DEF Spec

-----------------------------------------------------------------------------
(* The length of the list                                                  *)

\* The line that scan has skipped at position i was in flight then: its leader
\* was another worker, which may have answered since, but has not begun another
\* query, as it cannot have cache_mutex.  So no two skipped lines share a leader.
SkippedInv ==
    \A w \in Workers : pc[w] = "scan" =>
        \A i \in scan..Len(cacheLines) :
            /\ node[cacheLines[i]].leader \in Workers \ {w}
            /\ line[node[cacheLines[i]].leader] \in {cacheLines[i], NULL}
            /\ \A j \in scan..Len(cacheLines) :
                  node[cacheLines[j]].leader = node[cacheLines[i]].leader => j = i

\* Only one worker scans.
LEMMA OneScans ==
    ASSUME Core, NEW w \in Workers, pc[w] = "scan"
    PROVE  /\ cache_mutex = w /\ cache_mutex # NULL
           /\ \A x \in Workers : pc[x] \in {"evict", "scan"} => x = w
BY CacheAssumption DEF Core, MutexInv

\* What a scan that goes on finds changed when another worker has moved.
LEMMA ScanUndisturbed ==
    ASSUME Core, NEW w \in Workers, pc[w] = "scan", pc'[w] = "scan",
           NEW x \in Workers, x # w, Lookup(x) \/ Step(x) \/ SpuriousWake(x)
    PROVE  /\ UNCHANGED <<cacheLines, scan>>
           /\ \A n \in ToSet(cacheLines) : node'[n].leader = node[n].leader
           /\ \A v \in Workers : line'[v] \in {line[v], NULL}
<1> USE DEF Goto, served, shared, cacheVars
<1>t. /\ pc \in [Workers -> Labels] /\ line \in [Workers -> Nodes \cup {NULL}]
      /\ ToSet(cacheLines) \subseteq Nodes
      /\ node \in [Nodes -> CacheNodes]
  BY InToSet DEF Core, TypeOK
<1>m. cache_mutex # NULL /\ pc[x] \notin {"evict", "scan"}
  BY OneScans
<1>1. ~Lookup(x)
  BY <1>m DEF Lookup, LookupHit, LookupExpired, LookupMiss, Begin
<1>2. ~(EvictTail(x) \/ StartScan(x) \/ ScanSkips(x) \/ ScanEvicts(x) \/ Reserve(x))
  BY <1>m DEF EvictTail, StartScan, ScanSkips, ScanEvicts, Reserve
<1>3. ~CancelErase(x)
  BY <1>m DEF CancelErase, EraseIf
<1>4. CASE FetchOk(x) \/ FetchThrows(x) \/ CompleteThrows(x) \/ ReplyThrows(x)
           \/ FollowerRead(x)
  BY <1>4 DEF FetchOk, FetchThrows, CompleteThrows, ReplyThrows, FollowerRead, Return
<1>5. CASE NotifyAll(x) \/ FollowerWait(x) \/ SpuriousWake(x)
  BY <1>5 DEF NotifyAll, FollowerWait, SpuriousWake
<1>6. CASE CompleteWrite(x) \/ CompleteReady(x) \/ CancelFail(x)
  <2>1. UNCHANGED <<cacheLines, scan, line>>
    BY <1>6 DEF CompleteWrite, CompleteReady, CancelFail
  <2>2. PICK l \in Nodes : l = line[x]
    BY <1>6 DEF CompleteWrite, CompleteReady, CancelFail, Core, LineInv
  <2>3. \A n \in Nodes : node'[n].leader = node[n].leader
    BY <1>6, <1>t, <2>2 DEF CompleteWrite, CompleteReady, CancelFail, CacheNodes
  <2> QED
    BY <2>1, <2>3, <1>t
<1>7. CASE Respond(x)
  <2>1. /\ UNCHANGED <<cacheLines, scan>> /\ line' = [line EXCEPT ![x] = NULL]
        /\ node' = Reap(node, cacheLines, line')
    BY <1>7 DEF Respond
  <2>2. \A n \in ToSet(cacheLines) : node'[n] = node[n]
    BY <2>1, <1>t DEF Reap
  <2> QED
    BY <2>1, <2>2, <1>t
<1> QED
  BY <1>1, <1>2, <1>3, <1>4, <1>5, <1>6, <1>7 DEF Step

\* The line at which the scan arrives has a leader of its own.
LEMMA SkippedIsLed ==
    ASSUME Core, NEW w \in Workers, ScanSkips(w)
    PROVE  /\ scan \in Nat /\ scan - 1 \in 1..Len(cacheLines)
           /\ node[cacheLines[scan - 1]].leader \in Workers \ {w}
           /\ line[node[cacheLines[scan - 1]].leader] = cacheLines[scan - 1]
           /\ cacheLines[scan - 1] \in Nodes
<1>1. scan \in Nat /\ scan - 1 \in 1..Len(cacheLines)
  BY DEF ScanSkips, Core, TypeOK, MutexInv
<1>2. PICK n \in Nodes : n = cacheLines[scan - 1] /\ n \in ToSet(cacheLines)
  BY <1>1, InToSet DEF Core, TypeOK
<1>3. node[n].state = "IN_PROGRESS"
  BY <1>2 DEF ScanSkips, Core, FailedNotCached
<1>4. node[n].leader \in Workers /\ line[node[n].leader] = n
      /\ pc[node[n].leader] \in {"fetch", "publish", "ready", "cancel", "fail"}
  BY <1>3 DEF Core, FlightInv
<1>5. pc[w] = "scan"
  BY DEF ScanSkips
<1> QED
  BY <1>1, <1>2, <1>4, <1>5

LEMMA NextSkipped ==
    Core /\ SkippedInv /\ [Next]_vars => SkippedInv'
<1> SUFFICES ASSUME Core, SkippedInv, [Next]_vars,
                    NEW w \in Workers, pc'[w] = "scan"
             PROVE  (\A i \in scan..Len(cacheLines) :
            /\ node[cacheLines[i]].leader \in Workers \ {w}
            /\ line[node[cacheLines[i]].leader] \in {cacheLines[i], NULL}
            /\ \A j \in scan..Len(cacheLines) :
                  node[cacheLines[j]].leader = node[cacheLines[i]].leader => j = i)'
  BY DEF SkippedInv
<1> DEFINE Led(i) == node[cacheLines[i]].leader
<1>t. /\ pc \in [Workers -> Labels] /\ cacheLines \in Seq(Nodes) /\ scan \in Nat
      /\ \A i \in 1..Len(cacheLines) : cacheLines[i] \in Nodes /\ cacheLines[i] \in ToSet(cacheLines)
      /\ NULL \notin Nodes
  BY InToSet, CacheAssumption DEF Core, TypeOK
<1>0. pc[w] = "scan" =>
        /\ 1 <= scan
        /\ \A i \in scan..Len(cacheLines) :
            /\ Led(i) \in Workers \ {w}
            /\ line[Led(i)] \in {cacheLines[i], NULL}
            /\ \A j \in scan..Len(cacheLines) : Led(j) = Led(i) => j = i
  BY DEF SkippedInv, Core, MutexInv
\* No other step disturbs the scan.
<1>1. CASE /\ pc[w] = "scan"
           /\ UNCHANGED <<cacheLines, scan>>
           /\ \A n \in ToSet(cacheLines) : node'[n].leader = node[n].leader
           /\ \A v \in Workers : line'[v] \in {line[v], NULL}
  <2>1. \A i \in scan..Len(cacheLines) : node'[cacheLines[i]].leader = Led(i)
    BY <1>0, <1>1, <1>t
  <2> QED
    BY <2>1, <1>0, <1>1
<1>2. ASSUME NEW x \in Workers, x # w, Lookup(x) \/ Step(x) \/ SpuriousWake(x),
             pc[w] = "scan"
      PROVE  /\ UNCHANGED <<cacheLines, scan>>
             /\ \A n \in ToSet(cacheLines) : node'[n].leader = node[n].leader
             /\ \A v \in Workers : line'[v] \in {line[v], NULL}
  BY <1>2, ScanUndisturbed
<1>3. ASSUME NEW x \in Workers, x # w, Lookup(x) \/ Step(x) \/ SpuriousWake(x),
             pc[w] # "scan"
      PROVE  FALSE
  <2>1. pc'[w] = pc[w] \/ pc'[w] = "follow"
    BY <1>3, <1>t, NotifierStays DEF OthersStay, NotifyAll, FollowerWait, Goto
  <2> QED
    BY <2>1, <1>3
\* Its own step: it starts at the end, or skips one line more.
<1>4. CASE StartScan(w)
  <2>1. UNCHANGED cacheLines /\ scan' = Len(cacheLines) + 1
    BY <1>4 DEF StartScan, cacheVars
  <2>2. scan'..Len(cacheLines') = {}
    BY <2>1, <1>t
  <2> QED
    BY <2>2
<1>5. CASE ScanSkips(w)
  <2>1. /\ UNCHANGED <<cacheLines, node, line>> /\ scan' = scan - 1 /\ pc[w] = "scan"
    BY <1>5 DEF ScanSkips, cacheVars, served
  <2>2. /\ scan - 1 \in 1..Len(cacheLines)
        /\ Led(scan - 1) \in Workers \ {w}
        /\ line[Led(scan - 1)] = cacheLines[scan - 1]
        /\ cacheLines[scan - 1] \in Nodes
    BY <1>5, SkippedIsLed
  <2>3. \A i \in scan'..Len(cacheLines) : i = scan - 1 \/ i \in scan..Len(cacheLines)
    BY <2>1, <1>t
  <2>4. \A i \in scan..Len(cacheLines) : Led(i) # Led(scan - 1)
    <3> SUFFICES ASSUME NEW i \in scan..Len(cacheLines), Led(i) = Led(scan - 1)
                 PROVE  FALSE
      OBVIOUS
    <3>1. cacheLines[i] = cacheLines[scan - 1]
      BY <2>1, <2>2, <1>0, <1>t
    <3>2. i \in DOMAIN cacheLines /\ scan - 1 \in DOMAIN cacheLines /\ i # scan - 1
      BY <2>1, <2>2, <1>0, <1>t
    <3> QED
      BY <3>1, <3>2 DEF Core, DirectoryConsistent
  <2> QED
    BY <2>1, <2>2, <2>3, <2>4, <1>0
<1>6. ASSUME Lookup(w) \/ Step(w) \/ SpuriousWake(w), ~StartScan(w), ~ScanSkips(w)
      PROVE  FALSE
  <2> USE <1>t DEF Goto, Return
  <2>1. CASE Lookup(w)
    BY <2>1 DEF Lookup, LookupHit, LookupExpired, LookupMiss
  <2>2. CASE EvictTail(w) \/ ScanEvicts(w) \/ Reserve(w)
    BY <2>2 DEF EvictTail, ScanEvicts, Reserve, TakeLine
  <2>3. CASE FetchOk(w) \/ FetchThrows(w) \/ CompleteThrows(w) \/ ReplyThrows(w)
             \/ FollowerRead(w)
    BY <2>3 DEF FetchOk, FetchThrows, CompleteThrows, ReplyThrows, FollowerRead
  <2>4. CASE NotifyAll(w) \/ FollowerWait(w) \/ SpuriousWake(w)
    BY <2>4 DEF NotifyAll, FollowerWait, SpuriousWake
  <2>5. CASE CompleteWrite(w) \/ CompleteReady(w) \/ CancelErase(w) \/ CancelFail(w)
             \/ Respond(w)
    BY <2>5 DEF CompleteWrite, CompleteReady, CancelErase, EraseIf, CancelFail, Respond
  <2> QED
    BY <1>6, <2>1, <2>2, <2>3, <2>4, <2>5 DEF Step
<1>7. CASE Tick \/ UNCHANGED vars
  <2>1. UNCHANGED <<pc, cacheLines, scan, node, line>>
    BY <1>7 DEF Tick, vars, served, shared, cacheVars
  <2> QED
    BY <2>1, <1>1
<1> QED
  BY <1>1, <1>2, <1>3, <1>4, <1>5, <1>6, <1>7 DEF Next

\* After a scan that found nothing to evict every line has a leader of its own,
\* none of which is the worker that scanned.
LEMMA FewerLinesThanWorkers ==
    ASSUME Core, SkippedInv, NEW w \in Workers, pc[w] = "scan", scan = 1
    PROVE  Len(cacheLines) + 1 <= Cardinality(Workers)
<1> DEFINE Led(i) == node[cacheLines[i]].leader
           f == [i \in 1..Len(cacheLines) |-> Led(i)]
           Others == Workers \ {w}
<1>1. /\ \A i \in 1..Len(cacheLines) : Led(i) \in Others
      /\ \A i, j \in 1..Len(cacheLines) : Led(j) = Led(i) => j = i
  BY DEF SkippedInv
<1>2. f \in Injection(1..Len(cacheLines), Others)
  BY <1>1 DEF Injection, IsInjective
<1>3. /\ IsFiniteSet(Others)
      /\ Cardinality(Others) = Cardinality(Workers) - 1
      /\ Cardinality(Workers) \in Nat
  BY CacheAssumption, FS_RemoveElement, FS_CardinalityType
<1> HIDE DEF f, Others
<1>4. Cardinality(1..Len(cacheLines)) <= Cardinality(Others)
  BY <1>2, <1>3, FS_Injection
<1>5. Len(cacheLines) \in Nat
  BY DEF Core, TypeOK
<1>6. Cardinality(1..Len(cacheLines)) = Len(cacheLines)
  <2>1. ASSUME NEW m \in Nat PROVE Cardinality(1..m) = m
    <3>1. Cardinality(1..m) = IF 1 > m THEN 0 ELSE m - 1 + 1
      BY FS_Interval
    <3> QED
      BY <3>1
  <2> QED
    BY <1>5, <2>1, Zenon
<1> QED
  BY <1>3, <1>4, <1>5, <1>6

\* Only a reservation makes the list longer.
LEMMA ListGrowsByReserve ==
    ASSUME Core, [Next]_vars, \A w \in Workers : ~Reserve(w)
    PROVE  Len(cacheLines') <= Len(cacheLines)
<1>0. Len(cacheLines) \in Nat
  BY DEF Core, TypeOK
<1>1. ASSUME NEW n \in ToSet(cacheLines), node[n].state = "READY", Drop(n)
      PROVE  Len(cacheLines') <= Len(cacheLines)
  BY <1>0, <1>1, DropProperties
<1>2. ASSUME NEW w \in Workers, NEW q \in Keys, LookupHit(w, q)
      PROVE  Len(cacheLines') <= Len(cacheLines)
  BY <1>0, <1>2, LookupHitProperties
<1>3. ASSUME NEW w \in Workers, NEW q \in Keys, LookupExpired(w, q)
      PROVE  Len(cacheLines') <= Len(cacheLines)
  BY <1>1, <1>3 DEF LookupExpired, Expired, Core, DirectoryConsistent
<1>4. ASSUME NEW w \in Workers, EvictTail(w)
      PROVE  Len(cacheLines') <= Len(cacheLines)
  BY <1>1, <1>4, EvictedTail DEF EvictTail
<1>5. ASSUME NEW w \in Workers, ScanEvicts(w)
      PROVE  Len(cacheLines') <= Len(cacheLines)
  BY <1>1, <1>5, EvictedByScan DEF ScanEvicts
<1>6. ASSUME NEW w \in Workers, CancelErase(w)
      PROVE  Len(cacheLines') <= Len(cacheLines)
  BY <1>6, CancelEraseProperties
<1>7. CASE UNCHANGED cacheLines
  BY <1>0, <1>7
<1> QED
  BY <1>2, <1>3, <1>4, <1>5, <1>6, <1>7
     DEF Next, Lookup, Step, LookupMiss, StartScan, ScanSkips, FetchOk,
         FetchThrows, Return, vars, shared, cacheVars, CompleteWrite,
         CompleteThrows, CompleteReady, NotifyAll, ReplyThrows, CancelFail,
         FollowerWait, FollowerRead, SpuriousWake, Respond, Tick

LEMMA NextCapacity ==
    Core /\ SkippedInv /\ CapacityBound /\ [Next]_vars => CapacityBound'
<1> SUFFICES ASSUME Core, SkippedInv, CapacityBound, [Next]_vars
             PROVE  CapacityBound'
  OBVIOUS
<1>0. /\ Len(cacheLines) \in Nat /\ Len(cacheLines') \in Nat
      /\ Capacity \in Nat /\ Cardinality(Workers) \in Nat
  <2>1. Core'
    BY NextCore
  <2> QED
    BY <2>1, CacheAssumption, FS_CardinalityType DEF Core, TypeOK, Capacity
<1>1. CASE \A w \in Workers : ~Reserve(w)
  BY <1>0, <1>1, ListGrowsByReserve DEF CapacityBound
<1>2. ASSUME NEW w \in Workers, Reserve(w)
      PROVE  CapacityBound'
  <2>1. Len(cacheLines') = Len(cacheLines) + 1
    BY <1>2, ReserveProperties
  <2>2. CASE Len(cacheLines) < Capacity
    BY <1>0, <2>1, <2>2 DEF CapacityBound
  <2>3. CASE pc[w] = "scan" /\ scan = 1
    BY <1>0, <2>1, <2>3, FewerLinesThanWorkers DEF CapacityBound
  <2> QED
    BY <1>2, <2>2, <2>3 DEF Reserve
<1> QED
  BY <1>1, <1>2

\* The list outgrows its capacity only by lines in flight, and is never longer
\* than there are workers when it does (Cache.hpp:73-77).
THEOREM CapacityIsBounded == Spec => []CapacityBound
<1>1. Init => SkippedInv /\ CapacityBound
  <2>1. Init => Len(cacheLines) = 0 /\ \A w \in Workers : pc[w] = "idle"
    BY DEF Init
  <2> QED
    BY <2>1, CacheAssumption DEF SkippedInv, CapacityBound, Capacity
<1>2. Core /\ SkippedInv /\ CapacityBound /\ [Next]_vars
         => (SkippedInv /\ CapacityBound)'
  BY NextSkipped, NextCapacity
<1> QED
  BY <1>1, <1>2, CoreInvariant, PTL DEF Spec

-----------------------------------------------------------------------------
(* Age of a hit                                                            *)

\* The expiry of a READY line lies at most TTL after it became READY, and
\* whoever holds the line looked it up before it expired.
FreshInv ==
    /\ \A n \in Nodes : node[n].state = "READY" =>
          node[n].expires <= node[n].published + TTL
    /\ \A w \in Workers :
          /\ lookupAt[w] <= now
          /\ pc[w] = "ready" => node[line[w]].expires <= now + TTL
          /\ line[w] # NULL /\ node[line[w]].state = "READY" =>
                lookupAt[w] <= node[line[w]].published + TTL
          /\ response[w].kind = "HIT" => pc[w] = "respond"

Fresh == FreshInv /\ BoundedStaleness

\* The clock and the lines are numbers.
LEMMA TimesAreNumbers ==
    ASSUME TypeOK
    PROVE  /\ now \in Nat /\ TTL \in Nat
           /\ lookupAt \in [Workers -> Nat]
           /\ \A n \in Nodes : node[n].expires \in Nat /\ node[n].published \in Nat
           /\ pc \in [Workers -> Labels]
           /\ line \in [Workers -> Nodes \cup {NULL}]
           /\ response \in [Workers -> Responses]
           /\ node \in [Nodes -> CacheNodes]
           /\ NULL \notin Nodes
BY CacheAssumption DEF TypeOK, CacheNodes

\* Steps that leave lines and lookups alone.
LEMMA FrameFresh ==
    ASSUME Core, Fresh, UNCHANGED <<node, line, lookupAt, now>>,
           NEW x \in Workers,
           \A u \in Workers \ {x} : response'[u] = response[u]
              /\ (pc'[u] = pc[u] \/ (pc[u] = "sleep" /\ pc'[u] = "follow")),
           pc'[x] # "ready",
           response'[x].kind = "HIT" =>
              pc'[x] = "respond" /\ line[x] # NULL /\ node[line[x]].state = "READY"
    PROVE  Fresh'
BY DEF Fresh, FreshInv, BoundedStaleness

\* Taking lines that nobody holds away.
LEMMA DropFresh ==
    ASSUME Core, Fresh, NEW n \in ToSet(cacheLines), node[n].state = "READY", Drop(n),
           UNCHANGED <<response, line, now>>,
           NEW x \in Workers, pc[x] \in {"idle", "evict", "scan"},
           pc' = [pc EXCEPT ![x] = "evict"],
           lookupAt' = lookupAt \/ lookupAt' = [lookupAt EXCEPT ![x] = now]
    PROVE  Fresh'
<1>t. /\ now \in Nat /\ TTL \in Nat
      /\ lookupAt \in [Workers -> Nat]
      /\ \A m \in Nodes : node[m].expires \in Nat /\ node[m].published \in Nat
      /\ pc \in [Workers -> Labels]
      /\ line \in [Workers -> Nodes \cup {NULL}]
      /\ NULL \notin Nodes
  BY TimesAreNumbers DEF Core
<1>1. \A m \in Nodes :
          \/ node'[m] = node[m]
          \/ node'[m].state = "FREE" /\ \A u \in Workers : line[u] # m
  BY DropProperties
<1>2. line[x] = NULL /\ response[x].kind # "HIT"
  BY DEF Core, LineInv, Fresh, FreshInv
<1>3. \A u \in Workers : line[u] # NULL => node'[line[u]] = node[line[u]]
  BY <1>1, <1>t
<1>4. \A u \in Workers : pc[u] = "ready" \/ response[u].kind = "HIT" => line[u] # NULL
  BY <1>t DEF Core, LineInv, Fresh, FreshInv
<1>5. /\ pc'[x] = "evict" /\ \A u \in Workers \ {x} : pc'[u] = pc[u]
      /\ lookupAt'[x] <= now /\ \A u \in Workers \ {x} : lookupAt'[u] = lookupAt[u]
  BY <1>t DEF Fresh, FreshInv
<1>6. \A m \in Nodes : node'[m].state = "READY" =>
          node'[m].expires <= node'[m].published + TTL
  BY <1>1 DEF Fresh, FreshInv
<1>7. ASSUME NEW u \in Workers
      PROVE  /\ lookupAt'[u] <= now
             /\ pc'[u] = "ready" => node'[line[u]].expires <= now + TTL
             /\ line[u] # NULL /\ node'[line[u]].state = "READY" =>
                   lookupAt'[u] <= node'[line[u]].published + TTL
             /\ response[u].kind = "HIT" => 
                    /\ pc'[u] = "respond"
                    /\ lookupAt'[u] <= node'[line[u]].published + TTL
  BY <1>2, <1>3, <1>4, <1>5 DEF Fresh, FreshInv, BoundedStaleness
<1> QED
  BY <1>6, <1>7 DEF Fresh, FreshInv, BoundedStaleness

LEMMA FrameStepsFresh ==
    ASSUME Core, Fresh, NEW x \in Workers,
           \/ FetchOk(x) \/ FetchThrows(x) \/ CompleteThrows(x) \/ NotifyAll(x)
           \/ ReplyThrows(x) \/ CancelErase(x) \/ FollowerWait(x)
           \/ FollowerRead(x) \/ SpuriousWake(x) \/ StartScan(x) \/ ScanSkips(x)
    PROVE  Fresh'
<1> USE DEF Goto, Return, served, shared, cacheVars, Miss, Hit, Error
<1>t. /\ pc \in [Workers -> Labels] /\ response \in [Workers -> Responses]
      /\ line \in [Workers -> Nodes \cup {NULL}]
      /\ NULL \notin Nodes
  BY TimesAreNumbers DEF Core
<1>h. response[x].kind = "HIT" => pc[x] = "respond"
  BY DEF Fresh, FreshInv
<1> DEFINE Keeps == 
           /\ UNCHANGED <<node, line, lookupAt, now>>
           /\ \A u \in Workers \ {x} : response'[u] = response[u]
              /\ (pc'[u] = pc[u] \/ (pc[u] = "sleep" /\ pc'[u] = "follow"))
           /\ pc'[x] # "ready"
           /\ response'[x].kind = "HIT" =>
              pc'[x] = "respond" /\ line[x] # NULL /\ node[line[x]].state = "READY"
<1>1. CASE FetchOk(x) \/ FetchThrows(x) \/ CompleteThrows(x) \/ ReplyThrows(x)
  <2>1. PICK r : response' = [response EXCEPT ![x] = r] /\ r.kind # "HIT"
    <3>1. ASSUME FetchOk(x)
          PROVE  \E r : response' = [response EXCEPT ![x] = r] /\ r.kind # "HIT"
      <4>1. PICK v : response' = [response EXCEPT ![x] = Miss(v)]
        BY <3>1 DEF FetchOk
      <4>2. Miss(v).kind # "HIT"
        OBVIOUS
      <4> QED
        BY <4>1, <4>2, Zenon
    <3>2. ASSUME FetchThrows(x) \/ CompleteThrows(x) \/ ReplyThrows(x)
          PROVE  \E r : response' = [response EXCEPT ![x] = r] /\ r.kind # "HIT"
      <4>1. response' = [response EXCEPT ![x] = Error]
        BY <3>2 DEF FetchThrows, CompleteThrows, ReplyThrows
      <4>2. Error.kind # "HIT"
        OBVIOUS
      <4> QED
        BY <4>1, <4>2, Zenon
    <3> QED
      BY <1>1, <3>1, <3>2
  <2>2. Keeps
    BY <1>1, <2>1, <1>t DEF FetchOk, FetchThrows, CompleteThrows, ReplyThrows
  <2> QED
    BY <2>2, FrameFresh
<1>2. CASE NotifyAll(x)
  <2>1. Keeps
    BY <1>2, <1>h, <1>t DEF NotifyAll, Asleep
  <2> QED
    BY <2>1, FrameFresh
<1>3. CASE CancelErase(x) \/ FollowerWait(x) \/ SpuriousWake(x) \/ StartScan(x)
           \/ ScanSkips(x)
  <2>1. Keeps
    BY <1>3, <1>h, <1>t
       DEF CancelErase, EraseIf, FollowerWait, SpuriousWake, StartScan, ScanSkips
  <2> QED
    BY <2>1, FrameFresh
<1>4. CASE FollowerRead(x)
  <2>1. line[x] # NULL
    BY <1>4, <1>t DEF FollowerRead, Core, LineInv
  <2>2. Keeps
    BY <1>4, <2>1, <1>t DEF FollowerRead
  <2> QED
    BY <2>2, FrameFresh
<1> QED
  BY <1>1, <1>2, <1>3, <1>4

\* Steps of a leader that write to its line.
LEMMA WritesFresh ==
    ASSUME Core, Fresh, NEW x \in Workers,
           CompleteWrite(x) \/ CompleteReady(x) \/ CancelFail(x)
    PROVE  Fresh'
<1> USE DEF Goto, served
<1>t. /\ now \in Nat /\ TTL \in Nat
      /\ lookupAt \in [Workers -> Nat]
      /\ \A m \in Nodes : node[m].expires \in Nat /\ node[m].published \in Nat
      /\ pc \in [Workers -> Labels]
      /\ line \in [Workers -> Nodes \cup {NULL}]
      /\ node \in [Nodes -> CacheNodes]
      /\ NULL \notin Nodes
  BY TimesAreNumbers DEF Core
<1>1. /\ UNCHANGED <<response, line, lookupAt, now>>
      /\ \A u \in Workers \ {x} : pc'[u] = pc[u]
      /\ response[x].kind # "HIT"
  BY <1>t DEF CompleteWrite, CompleteReady, CancelFail, Fresh, FreshInv
<1>2. PICK l \in Nodes : l = line[x] /\ node[l].leader = x
  BY DEF CompleteWrite, CompleteReady, CancelFail, Core, LineInv, LeaderInv, Leads
<1>3. \A u \in Workers : pc[u] = "ready" \/ response[u].kind = "HIT" => line[u] \in Nodes
  BY <1>t DEF Core, LineInv, Fresh, FreshInv
<1>4. \A u \in Workers \ {x} : pc[u] = "ready" => line[u] # l
  BY <1>2 DEF Core, LeaderInv, Leads
<1>5. \A m \in Nodes \ {l} : node'[m] = node[m]
  BY <1>2, <1>t DEF CompleteWrite, CompleteReady, CancelFail
<1>f. node[l] \in CacheNodes
  BY <1>t
<1>6. CASE CompleteWrite(x)
  <2>1. /\ node'[l].expires = now + TTL /\ node'[l].state = "IN_PROGRESS"
        /\ node'[l].published = node[l].published
    BY <1>2, <1>6, <1>t, <1>f DEF CompleteWrite, Core, LeaderInv, CacheNodes
  <2> QED
    BY <1>1, <1>2, <1>3, <1>4, <1>5, <2>1, <1>t DEF Fresh, FreshInv, BoundedStaleness
<1>7. CASE CompleteReady(x)
  <2>1. /\ node'[l].published = now /\ node'[l].expires = node[l].expires
        /\ pc[x] = "ready" /\ pc'[x] = "notify" /\ node[l].state = "IN_PROGRESS"
    BY <1>2, <1>7, <1>t, <1>f DEF CompleteReady, Core, LeaderInv, CacheNodes
  <2>2. \A u \in Workers : response[u].kind = "HIT" => line[u] # l
    BY <2>1 DEF Core, LeaderInv, Fresh, FreshInv
  <2>3. /\ node'[l].expires <= node'[l].published + TTL
        /\ \A u \in Workers : lookupAt[u] <= node'[l].published + TTL
    BY <1>2, <2>1, <1>t DEF Fresh, FreshInv
  <2> QED
    BY <1>1, <1>2, <1>3, <1>4, <1>5, <2>1, <2>2, <2>3, <1>t
       DEF Fresh, FreshInv, BoundedStaleness
<1>8. CASE CancelFail(x)
  <2>1. /\ node'[l].published = node[l].published /\ node'[l].state = "FAILED"
        /\ node'[l].expires = node[l].expires /\ pc'[x] = "notify"
    BY <1>2, <1>8, <1>t, <1>f DEF CancelFail, CacheNodes
  <2> QED
    BY <1>1, <1>2, <1>3, <1>4, <1>5, <2>1, <1>t DEF Fresh, FreshInv, BoundedStaleness
<1> QED
  BY <1>6, <1>7, <1>8

\* A hit on a READY line comes before the line expires.
LEMMA LookupHitFresh ==
    ASSUME Core, Fresh, NEW x \in Workers, NEW q \in Keys, LookupHit(x, q)
    PROVE  Fresh'
<1>t. /\ now \in Nat /\ TTL \in Nat
      /\ lookupAt \in [Workers -> Nat]
      /\ \A m \in Nodes : node[m].expires \in Nat /\ node[m].published \in Nat
      /\ pc \in [Workers -> Labels]
      /\ line \in [Workers -> Nodes \cup {NULL}]
      /\ NULL \notin Nodes
  BY TimesAreNumbers DEF Core
<1>1. PICK n \in Nodes : n = cacheDirectory[q]
  BY DEF LookupHit, Core, TypeOK
<1>2. /\ UNCHANGED <<node, response, now>>
      /\ pc[x] = "idle" /\ pc'[x] = "follow" /\ \A u \in Workers \ {x} : pc'[u] = pc[u]
      /\ line'[x] = n /\ \A u \in Workers \ {x} : line'[u] = line[u]
      /\ lookupAt'[x] = now /\ \A u \in Workers \ {x} : lookupAt'[u] = lookupAt[u]
  BY <1>1, <1>t DEF LookupHit, Begin, Goto
<1>3. response[x].kind # "HIT"
  BY <1>2 DEF Fresh, FreshInv
<1>4. node[n].state = "READY" => now <= node[n].published + TTL
  BY <1>1, <1>t DEF LookupHit, Expired, Fresh, FreshInv
<1> QED
  BY <1>2, <1>3, <1>4, <1>t DEF Fresh, FreshInv, BoundedStaleness

LEMMA LookupMissFresh ==
    ASSUME Core, Fresh, NEW x \in Workers, NEW q \in Keys, LookupMiss(x, q)
    PROVE  Fresh'
<1>t. /\ now \in Nat /\ lookupAt \in [Workers -> Nat] /\ pc \in [Workers -> Labels]
  BY TimesAreNumbers DEF Core
<1>1. /\ UNCHANGED <<node, response, line, now>>
      /\ pc[x] = "idle" /\ pc'[x] = "evict" /\ \A u \in Workers \ {x} : pc'[u] = pc[u]
      /\ lookupAt'[x] = now /\ \A u \in Workers \ {x} : lookupAt'[u] = lookupAt[u]
  BY <1>t DEF LookupMiss, Begin, Goto
<1>2. response[x].kind # "HIT" /\ line[x] = NULL
  BY <1>1 DEF Fresh, FreshInv, Core, LineInv
<1> QED
  BY <1>1, <1>2, <1>t DEF Fresh, FreshInv, BoundedStaleness

LEMMA ReserveFresh ==
    ASSUME Core, Fresh, NEW x \in Workers, Reserve(x)
    PROVE  Fresh'
<1>t. /\ now \in Nat /\ lookupAt \in [Workers -> Nat] /\ pc \in [Workers -> Labels]
      /\ line \in [Workers -> Nodes \cup {NULL}] /\ node \in [Nodes -> CacheNodes]
      /\ NULL \notin Nodes
  BY TimesAreNumbers DEF Core
<1>1. PICK n \in Nodes : TakeLine(x, n) /\ \A u \in Workers : line[u] # n
  BY DEF Reserve
<1>2. /\ UNCHANGED <<response, lookupAt, now>>
      /\ pc[x] \in {"evict", "scan"}
      /\ pc'[x] = "fetch" /\ \A u \in Workers \ {x} : pc'[u] = pc[u]
      /\ line'[x] = n /\ \A u \in Workers \ {x} : line'[u] = line[u]
      /\ node'[n].state = "IN_PROGRESS"
      /\ \A m \in Nodes \ {n} : node'[m] = node[m]
  BY <1>1, <1>t DEF Reserve, TakeLine, Goto, NewNode, Free
<1>3. \A u \in Workers : pc[u] = "ready" \/ response[u].kind = "HIT" => line[u] \in Nodes \ {n}
  BY <1>1, <1>t DEF Core, LineInv, Fresh, FreshInv
<1>4. response[x].kind # "HIT"
  BY <1>2 DEF Fresh, FreshInv
<1> QED
  BY <1>1, <1>2, <1>3, <1>4, <1>t DEF Fresh, FreshInv, BoundedStaleness

LEMMA RespondFresh ==
    ASSUME Core, Fresh, NEW x \in Workers, Respond(x)
    PROVE  Fresh'
<1>t. /\ now \in Nat /\ TTL \in Nat /\ lookupAt \in [Workers -> Nat]
      /\ pc \in [Workers -> Labels] /\ response \in [Workers -> Responses]
      /\ line \in [Workers -> Nodes \cup {NULL}]
      /\ NULL \notin Nodes
  BY TimesAreNumbers DEF Core
<1>1. /\ UNCHANGED now
      /\ pc[x] = "respond" /\ pc'[x] = "idle" /\ \A u \in Workers \ {x} : pc'[u] = pc[u]
      /\ line'[x] = NULL /\ \A u \in Workers \ {x} : line'[u] = line[u]
      /\ response'[x] = NoResponse /\ \A u \in Workers \ {x} : response'[u] = response[u]
      /\ lookupAt'[x] = 0 /\ \A u \in Workers \ {x} : lookupAt'[u] = lookupAt[u]
  BY <1>t DEF Respond, Goto
<1>2. \A m \in Nodes :
          \/ node'[m] = node[m]
          \/ node'[m].state = "FREE" /\ \A u \in Workers : line'[u] # m
  <2>1. PICK held : held = line'
    OBVIOUS
  <2>2. node' = Reap(node, cacheLines, held)
    BY <2>1 DEF Respond
  <2> QED
    BY <2>1, <2>2, ReapProperties
<1>3. \A u \in Workers \ {x} : line[u] # NULL => node'[line[u]] = node[line[u]]
  BY <1>1, <1>2, <1>t
<1>4. \A u \in Workers : pc[u] = "ready" \/ response[u].kind = "HIT" => line[u] # NULL
  BY <1>t DEF Core, LineInv, Fresh, FreshInv
<1>5. NoResponse.kind # "HIT"
  BY DEF NoResponse
<1> QED
  BY <1>1, <1>2, <1>3, <1>4, <1>5, <1>t DEF Fresh, FreshInv, BoundedStaleness

LEMMA TickFresh ==
    ASSUME Core, Fresh, Tick
    PROVE  Fresh'
<1>t. /\ now \in Nat /\ TTL \in Nat /\ lookupAt \in [Workers -> Nat]
      /\ line \in [Workers -> Nodes \cup {NULL}] /\ NULL \notin Nodes
      /\ \A m \in Nodes : node[m].expires \in Nat /\ node[m].published \in Nat
  BY TimesAreNumbers DEF Core
<1>1. UNCHANGED <<pc, line, response, lookupAt, node>> /\ now' = now + 1
  BY DEF Tick, served
<1>2. \A u \in Workers : pc[u] = "ready" => line[u] \in Nodes
  BY <1>t DEF Core, LineInv
<1> QED
  BY <1>1, <1>2, <1>t DEF Fresh, FreshInv, BoundedStaleness

LEMMA NextFresh == Core /\ Fresh /\ [Next]_vars => Fresh'
<1> SUFFICES ASSUME Core, Fresh, [Next]_vars PROVE Fresh'
  OBVIOUS
<1>1. ASSUME NEW x \in Workers, NEW q \in Keys, LookupExpired(x, q) PROVE Fresh'
  <2>1. /\ cacheDirectory[q] \in ToSet(cacheLines)
        /\ node[cacheDirectory[q]].state = "READY"
    BY <1>1 DEF LookupExpired, Expired, Core, DirectoryConsistent
  <2> QED
    BY <1>1, <2>1, DropFresh DEF LookupExpired, Begin, Goto
<1>2. ASSUME NEW x \in Workers, EvictTail(x) PROVE Fresh'
  <2>1. Last(cacheLines) \in ToSet(cacheLines)
    BY <1>2, EvictedTail
  <2>2. pc[x] = "evict" /\ pc' = [pc EXCEPT ![x] = "evict"]
    BY <1>2 DEF EvictTail, Core, TypeOK
  <2> QED
    BY <1>2, <2>1, <2>2, DropFresh DEF EvictTail, served
<1>3. ASSUME NEW x \in Workers, ScanEvicts(x) PROVE Fresh'
  <2>1. cacheLines[scan - 1] \in ToSet(cacheLines)
    BY <1>3, EvictedByScan
  <2> QED
    BY <1>3, <2>1, DropFresh DEF ScanEvicts, Goto, served
<1>4. ASSUME NEW x \in Workers, Lookup(x) PROVE Fresh'
  BY <1>4, <1>1, LookupHitFresh, LookupMissFresh DEF Lookup
<1>5. ASSUME NEW x \in Workers, Step(x) \/ SpuriousWake(x) PROVE Fresh'
  BY <1>5, <1>2, <1>3, FrameStepsFresh, WritesFresh, ReserveFresh, RespondFresh
     DEF Step
<1>6. CASE Tick
  BY <1>6, TickFresh
<1>7. CASE UNCHANGED vars
  BY <1>7 DEF vars, served, shared, Fresh, FreshInv, BoundedStaleness
<1> QED
  BY <1>4, <1>5, <1>6, <1>7 DEF Next

\* No hit is older than TTL when it is looked up, whatever the clock and the
\* leader do between the expiry's computation, its check and the reply
\* (Cache.hpp:105, 134).
THEOREM StalenessIsBounded == Spec => []BoundedStaleness
<1>1. Init => Fresh
  BY CacheAssumption DEF Init, Free, NoResponse, Fresh, FreshInv, BoundedStaleness
<1>2. Core /\ Fresh /\ [Next]_vars => Fresh'
  BY NextFresh
<1>3. Fresh => BoundedStaleness
  BY DEF Fresh
<1> QED
  BY <1>1, <1>2, <1>3, CoreInvariant, PTL DEF Spec

-----------------------------------------------------------------------------
(* What the refinement needs to know besides                               *)

\* A node that neither the list nor a worker points to holds no line.
HeapInv ==
    \A n \in Nodes :
        \/ n \in ToSet(cacheLines)
        \/ \E w \in Workers : line[w] = n
        \/ node[n].state = "FREE"

\* What a leader is going to reply is what came of its line.
ReplyOf(w) ==
    /\ pc[w] = "ready" =>
          response[w].kind # "ERROR" /\ node[line[w]].value = response[w].value
    /\ pc[w] \in {"cancel", "fail"} =>
          response[w].kind = "ERROR" /\ node[line[w]].state = "IN_PROGRESS"
    /\ pc[w] = "notify" =>
          IF response[w].kind = "ERROR" THEN node[line[w]].state = "FAILED"
          ELSE /\ node[line[w]].state = "READY"
               /\ node[line[w]].value = response[w].value

ReplyInv == \A w \in Workers : ReplyOf(w)

\* A step of one worker changes nothing of another that leads, nor its line.
LEMMA LeaderUndisturbed ==
    ASSUME Core, NEW x \in Workers, Lookup(x) \/ Step(x) \/ SpuriousWake(x),
           NEW u \in Workers, u # x, Leads(u)
    PROVE  /\ pc'[u] = pc[u] /\ line'[u] = line[u] /\ line[u] \in Nodes
           /\ response'[u] = response[u]
           /\ node'[line[u]] = node[line[u]]
<1> USE DEF Goto, served, shared, cacheVars
<1>t. /\ pc \in [Workers -> Labels] /\ response \in [Workers -> Responses]
      /\ line \in [Workers -> Nodes \cup {NULL}]
      /\ node \in [Nodes -> CacheNodes] /\ NULL \notin Nodes
  BY TimesAreNumbers DEF Core
<1>1. /\ pc[u] \notin {"idle", "evict", "scan", "follow", "sleep"}
      /\ line[u] \in Nodes /\ node[line[u]].leader = u
  BY DEF Core, LineInv, LeaderInv, Leads
<1>2. ASSUME NEW n \in ToSet(cacheLines), node[n].state = "READY", Drop(n)
      PROVE  node'[line[u]] = node[line[u]]
  BY <1>1, <1>2, DropProperties
<1>3. ASSUME NEW q \in Keys, LookupExpired(x, q)
      PROVE  node'[line[u]] = node[line[u]]
  BY <1>2, <1>3 DEF LookupExpired, Expired, Core, DirectoryConsistent
<1>4. CASE Lookup(x)
  <2>1. PICK q \in Keys : LookupHit(x, q) \/ LookupExpired(x, q) \/ LookupMiss(x, q)
    BY <1>4 DEF Lookup
  <2>2. node'[line[u]] = node[line[u]]
    BY <2>1, <1>3 DEF LookupHit, LookupMiss
  <2> QED
    BY <2>1, <2>2, <1>1, <1>t DEF LookupHit, LookupExpired, LookupMiss, Begin
<1>5. CASE EvictTail(x)
  BY <1>1, <1>2, <1>5, EvictedTail DEF EvictTail
<1>6. CASE ScanEvicts(x)
  BY <1>1, <1>2, <1>6, <1>t, EvictedByScan DEF ScanEvicts
<1>7. CASE Reserve(x)
  <2>1. PICK n \in Nodes : TakeLine(x, n) /\ line[u] # n
    BY <1>7 DEF Reserve
  <2> QED
    BY <2>1, <1>1, <1>t DEF TakeLine
<1>8. CASE FetchOk(x) \/ FetchThrows(x) \/ CompleteThrows(x) \/ ReplyThrows(x)
           \/ FollowerRead(x)
  BY <1>8, <1>1, <1>t
     DEF FetchOk, FetchThrows, CompleteThrows, ReplyThrows, FollowerRead, Return
<1>9. CASE NotifyAll(x) \/ FollowerWait(x) \/ SpuriousWake(x) \/ CancelErase(x)
           \/ StartScan(x) \/ ScanSkips(x)
  BY <1>9, <1>1, <1>t
     DEF NotifyAll, Asleep, FollowerWait, SpuriousWake, CancelErase, EraseIf,
         StartScan, ScanSkips
<1>10. CASE CompleteWrite(x) \/ CompleteReady(x) \/ CancelFail(x)
  <2>1. line[x] \in Nodes /\ node[line[x]].leader = x
    BY <1>10 DEF CompleteWrite, CompleteReady, CancelFail, Core, LineInv, LeaderInv, Leads
  <2>2. line[x] # line[u]
    BY <1>1, <2>1
  <2> QED
    BY <1>10, <1>1, <2>1, <2>2, <1>t DEF CompleteWrite, CompleteReady, CancelFail
<1>11. CASE Respond(x)
  <2>1. /\ line'[u] = line[u] /\ pc'[u] = pc[u] /\ response'[u] = response[u]
        /\ node' = Reap(node, cacheLines, line')
    BY <1>11, <1>t DEF Respond
  <2>2. node'[line[u]] = node[line[u]]
    BY <2>1, <1>1 DEF Reap
  <2> QED
    BY <2>1, <2>2, <1>1
<1> QED
  BY <1>4, <1>5, <1>6, <1>7, <1>8, <1>9, <1>10, <1>11 DEF Step

LEMMA NextHeap == Core /\ HeapInv /\ [Next]_vars => HeapInv'
<1> SUFFICES ASSUME Core, HeapInv, [Next]_vars PROVE HeapInv'
  OBVIOUS
<1> USE DEF Goto, served, shared, cacheVars
<1>t. /\ line \in [Workers -> Nodes \cup {NULL}] /\ NULL \notin Nodes
      /\ node \in [Nodes -> CacheNodes]
  BY TimesAreNumbers DEF Core
<1>1. ASSUME NEW n \in ToSet(cacheLines), node[n].state = "READY", Drop(n),
             UNCHANGED line
      PROVE  HeapInv'
  <2>1. ToSet(cacheLines') = ToSet(Without(n)) /\ node' = Reap(node, Without(n), line)
    BY <1>1 DEF Drop
  <2> QED
    BY <2>1, <1>1 DEF HeapInv, Reap, Free
<1>2. ASSUME NEW x \in Workers, NEW q \in Keys, LookupExpired(x, q) PROVE HeapInv'
  <2>1. /\ cacheDirectory[q] \in ToSet(cacheLines)
        /\ node[cacheDirectory[q]].state = "READY"
    BY <1>2 DEF LookupExpired, Expired, Core, DirectoryConsistent
  <2> QED
    BY <1>1, <1>2, <2>1 DEF LookupExpired
<1>3. ASSUME NEW x \in Workers, EvictTail(x) \/ ScanEvicts(x) PROVE HeapInv'
  <2>1. CASE EvictTail(x)
    BY <2>1, <1>1, EvictedTail DEF EvictTail
  <2>2. CASE ScanEvicts(x)
    BY <2>2, <1>1, EvictedByScan DEF ScanEvicts
  <2> QED
    BY <1>3, <2>1, <2>2
<1>4. ASSUME NEW x \in Workers, NEW q \in Keys, LookupHit(x, q) PROVE HeapInv'
  <2>1. ToSet(cacheLines') = ToSet(cacheLines) /\ UNCHANGED node
    BY <1>4, LookupHitProperties DEF LookupHit
  <2>2. pc[x] = "idle" /\ \A u \in Workers \ {x} : line'[u] = line[u]
    BY <1>4, <1>t DEF LookupHit, Begin
  <2>3. line[x] = NULL
    BY <2>2 DEF Core, LineInv
  <2> QED
    BY <2>1, <2>2, <2>3, <1>t DEF HeapInv
<1>5. ASSUME NEW x \in Workers, Reserve(x) PROVE HeapInv'
  <2>1. PICK n \in Nodes :
            TakeLine(x, n) /\ ToSet(cacheLines') = ToSet(cacheLines) \cup {n}
    BY <1>5, ReserveProperties
  <2>2. /\ pc[x] \in {"evict", "scan"} /\ \A u \in Workers \ {x} : line'[u] = line[u]
        /\ \A m \in Nodes \ {n} : node'[m] = node[m]
    BY <1>5, <2>1, <1>t DEF Reserve, TakeLine
  <2>3. line[x] = NULL
    BY <2>2 DEF Core, LineInv
  <2> QED
    BY <2>1, <2>2, <2>3, <1>t DEF HeapInv
<1>6. ASSUME NEW x \in Workers, CompleteWrite(x) \/ CompleteReady(x) \/ CancelFail(x)
      PROVE  HeapInv'
  <2>1. /\ UNCHANGED <<line, cacheLines>>
        /\ \A m \in Nodes : m # line[x] => node'[m] = node[m]
    BY <1>6, <1>t DEF CompleteWrite, CompleteReady, CancelFail
  <2> QED
    BY <2>1 DEF HeapInv
<1>7. ASSUME NEW x \in Workers, CancelErase(x) PROVE HeapInv'
  <2>1. /\ UNCHANGED <<line, node>>
        /\ ToSet(cacheLines') = ToSet(cacheLines) \ {line[x]}
    BY <1>7, CancelEraseProperties DEF CancelErase, EraseIf
  <2> QED
    BY <2>1 DEF HeapInv
<1>8. ASSUME NEW x \in Workers, Respond(x) PROVE HeapInv'
  <2>1. UNCHANGED cacheLines /\ node' = Reap(node, cacheLines, line')
    BY <1>8 DEF Respond
  <2> QED
    BY <2>1 DEF HeapInv, Reap, Free
<1>9. CASE UNCHANGED <<cacheLines, line, node>>
  BY <1>9 DEF HeapInv
<1> QED
  BY <1>2, <1>3, <1>4, <1>5, <1>6, <1>7, <1>8, <1>9
     DEF Next, Lookup, Step, LookupMiss, StartScan, ScanSkips, FetchOk,
         FetchThrows, Return, vars, CompleteThrows, NotifyAll, ReplyThrows,
         FollowerWait, FollowerRead, SpuriousWake, Tick

\* A worker's own steps; only a copy that throws after the line is READY would
\* make it cancel a line that is no longer in flight.
LEMMA OwnReply ==
    ASSUME Core, ReplyInv, ~AllocFails, NEW w \in Workers,
           Lookup(w) \/ Step(w) \/ SpuriousWake(w)
    PROVE  ReplyOf(w)'
<1> USE DEF Goto, served, shared, cacheVars, ReplyOf
<1>t. /\ pc \in [Workers -> Labels] /\ response \in [Workers -> Responses]
      /\ node \in [Nodes -> CacheNodes]
  BY TimesAreNumbers DEF Core
<1>0. ReplyOf(w)
  BY DEF ReplyInv
<1>1. ~CompleteThrows(w) /\ ~ReplyThrows(w)
  BY DEF CompleteThrows, ReplyThrows
<1>2. CASE Lookup(w) \/ EvictTail(w) \/ StartScan(w) \/ ScanSkips(w) \/ ScanEvicts(w)
           \/ Reserve(w) \/ FetchOk(w) \/ NotifyAll(w) \/ FollowerWait(w)
           \/ FollowerRead(w) \/ SpuriousWake(w) \/ Respond(w)
  <2>1. pc'[w] \notin {"ready", "cancel", "fail", "notify"}
    BY <1>2, <1>t
       DEF Lookup, LookupHit, LookupExpired, LookupMiss, EvictTail, StartScan,
           ScanSkips, ScanEvicts, Reserve, TakeLine, FetchOk, Return, NotifyAll,
           FollowerWait, FollowerRead, SpuriousWake, Respond
  <2> QED
    BY <2>1
<1>3. CASE FetchThrows(w)
  <2>1. /\ pc'[w] = "cancel" /\ response'[w] = Error /\ UNCHANGED <<line, node>>
        /\ node[line[w]].state = "IN_PROGRESS"
    BY <1>3, <1>t DEF FetchThrows, Return, Core, LeaderInv
  <2> QED
    BY <2>1 DEF Error
<1>4. CASE CompleteWrite(w)
  <2>1. PICK l \in Nodes : l = line[w]
    BY <1>4 DEF CompleteWrite, Core, LineInv
  <2>2. /\ pc'[w] = "ready" /\ UNCHANGED <<line, response>>
        /\ response[w].kind = "MISS"
        /\ node'[l].value = response[w].value
    BY <1>4, <2>1, <1>t DEF CompleteWrite, Core, ResultInv, CacheNodes
  <2> QED
    BY <2>1, <2>2
<1>5. CASE CompleteReady(w)
  <2>1. PICK l \in Nodes : l = line[w]
    BY <1>5 DEF CompleteReady, Core, LineInv
  <2>2. node[l] \in CacheNodes
    BY <1>t
  <2>3. /\ pc[w] = "ready" /\ pc'[w] = "notify" /\ UNCHANGED <<line, response>>
        /\ node'[l].value = node[l].value /\ node'[l].state = "READY"
    BY <1>5, <2>1, <2>2, <1>t DEF CompleteReady, CacheNodes
  <2> QED
    BY <1>0, <2>1, <2>3
<1>6. CASE CancelErase(w)
  BY <1>0, <1>6, <1>t DEF CancelErase, EraseIf
<1>7. CASE CancelFail(w)
  <2>1. PICK l \in Nodes : l = line[w]
    BY <1>7 DEF CancelFail, Core, LineInv
  <2>2. node[l] \in CacheNodes
    BY <1>t
  <2>3. /\ pc[w] = "fail" /\ pc'[w] = "notify" /\ UNCHANGED <<line, response>>
        /\ node'[l].state = "FAILED"
    BY <1>7, <2>1, <2>2, <1>t DEF CancelFail, CacheNodes
  <2> QED
    BY <1>0, <2>1, <2>3
<1> QED
  BY <1>1, <1>2, <1>3, <1>4, <1>5, <1>6, <1>7 DEF Step

LEMMA NextReply ==
    ~AllocFails /\ Core /\ ReplyInv /\ [Next]_vars => ReplyInv'
<1> SUFFICES ASSUME ~AllocFails, Core, ReplyInv, [Next]_vars,
                    NEW u \in Workers
             PROVE  ReplyOf(u)'
  BY DEF ReplyInv, ReplyOf
<1>0. ReplyOf(u)
  BY DEF ReplyInv, ReplyOf
<1>1. ASSUME NEW x \in Workers, Lookup(x) \/ Step(x) \/ SpuriousWake(x)
      PROVE  ReplyOf(u)'
  <2>1. CASE x = u
    BY <1>1, <2>1, OwnReply
  <2>2. CASE x # u /\ Leads(u)
    BY <1>0, <1>1, <2>2, LeaderUndisturbed DEF ReplyOf
  <2>3. CASE x # u /\ ~Leads(u)
    <3>1. pc'[u] \notin Notifying
      <4>1. pc[u] \notin Notifying
        BY <2>3 DEF Leads, Notifying
      <4>2. CASE NotifyAll(x)
        BY <4>1, <4>2, <2>3 DEF NotifyAll, Notifying
      <4>3. CASE FollowerWait(x)
        BY <4>1, <4>3, <2>3 DEF FollowerWait, Goto, Core, TypeOK
      <4>4. CASE ~NotifyAll(x) /\ ~FollowerWait(x)
        BY <4>1, <4>4, <1>1, <2>3, NotifierStays DEF OthersStay
      <4> QED
        BY <4>2, <4>3, <4>4
    <3> QED
      BY <3>1 DEF ReplyOf, Notifying
  <2> QED
    BY <2>1, <2>2, <2>3
<1>2. CASE Tick \/ UNCHANGED vars
  BY <1>0, <1>2 DEF Tick, vars, served, shared, ReplyOf
<1> QED
  BY <1>1, <1>2 DEF Next

\* What the refinement rests on, if no copy of a result throws.
LEMMA HeapAndReplies ==
    ASSUME ~AllocFails
    PROVE  Spec => [](Core /\ HeapInv /\ ReplyInv)
<1>1. Init => HeapInv /\ ReplyInv
  BY DEF Init, HeapInv, ReplyInv, ReplyOf, Free
<1>2. Core /\ HeapInv /\ ReplyInv /\ [Next]_vars => (HeapInv /\ ReplyInv)'
  BY NextHeap, NextReply
<1> QED
  BY <1>1, <1>2, CoreInvariant, PTL DEF Spec

-----------------------------------------------------------------------------
(* Refinement of ReadThrough                                               *)

\* The state that ReadThrough sees.
clientBar  == [w \in Workers |-> ClientOf(w)]
outcomeBar == [n \in Nodes |-> OutcomeOf(n)]

Client(role, k, f, r) == [role |-> role, key |-> k, flight |-> f, reply |-> r]

ReplyTo(w) == IF response[w].kind = "ERROR" THEN "failed" ELSE response[w].value

LEMMA ClientAt ==
    ASSUME NEW w
    PROVE  /\ pc[w] \in {"idle", "evict", "scan"} =>
                 ClientOf(w) = Client("idle", NULL, NULL, NULL)
           /\ pc[w] \in {"follow", "sleep"} =>
                 ClientOf(w) = Client("joined", query[w], line[w], NULL)
           /\ pc[w] \in Notifying =>
                 ClientOf(w) = Client("leads", query[w], line[w], NULL)
           /\ pc[w] = "respond" =>
                 ClientOf(w) = Client("answered", query[w], line[w], ReplyTo(w))
BY DEF ClientOf, Client, ReplyTo, Notifying

LEMMA ClientBecomes ==
    ASSUME NEW w
    PROVE  /\ pc'[w] \in {"idle", "evict", "scan"} =>
                 ClientOf(w)' = Client("idle", NULL, NULL, NULL)
           /\ pc'[w] \in {"follow", "sleep"} =>
                 ClientOf(w)' = Client("joined", query'[w], line'[w], NULL)
           /\ pc'[w] \in Notifying =>
                 ClientOf(w)' = Client("leads", query'[w], line'[w], NULL)
           /\ pc'[w] = "respond" =>
                 ClientOf(w)' = Client("answered", query'[w], line'[w], ReplyTo(w)')
BY DEF ClientOf, Client, ReplyTo, Notifying

\* A worker whose label stays in its group is the same client.
LEMMA SameClient ==
    ASSUME NEW w, query'[w] = query[w], line'[w] = line[w],
           \/ pc'[w] = pc[w] /\ response'[w] = response[w]
           \/ pc[w] \in {"follow", "sleep"} /\ pc'[w] \in {"follow", "sleep"}
           \/ pc[w] \in Notifying /\ pc'[w] \in Notifying
    PROVE  ClientOf(w)' = ClientOf(w)
BY DEF ClientOf, Notifying

\* A worker that holds no line and still holds none is the same client.
LEMMA StillIdle ==
    ASSUME NEW w, pc[w] \in {"idle", "evict", "scan"}, pc'[w] \in {"idle", "evict", "scan"}
    PROVE  ClientOf(w)' = ClientOf(w)
BY ClientAt, ClientBecomes

LEMMA OneClientMoves ==
    ASSUME NEW w \in Workers, \A u \in Workers \ {w} : ClientOf(u)' = ClientOf(u)
    PROVE  clientBar' = [clientBar EXCEPT ![w] = ClientOf(w)']
<1>1. /\ clientBar = [u \in Workers |-> clientBar[u]]
      /\ clientBar' = [u \in Workers |-> clientBar'[u]]
      /\ \A u \in Workers : clientBar[u] = ClientOf(u) /\ clientBar'[u] = ClientOf(u)'
  BY DEF clientBar
<1> QED
  BY <1>1

LEMMA NoClientMoves ==
    ASSUME \A u \in Workers : ClientOf(u)' = ClientOf(u)
    PROVE  clientBar' = clientBar
BY DEF clientBar

LEMMA OneOutcome ==
    ASSUME NEW n \in Nodes, \A m \in Nodes \ {n} : node'[m] = node[m]
    PROVE  outcomeBar' = [outcomeBar EXCEPT ![n] = OutcomeOf(n)']
<1>1. /\ outcomeBar = [m \in Nodes |-> outcomeBar[m]]
      /\ outcomeBar' = [m \in Nodes |-> outcomeBar'[m]]
      /\ \A m \in Nodes : outcomeBar[m] = OutcomeOf(m) /\ outcomeBar'[m] = OutcomeOf(m)'
  BY DEF outcomeBar
<1>2. \A m \in Nodes \ {n} : OutcomeOf(m)' = OutcomeOf(m)
  BY DEF OutcomeOf
<1> QED
  BY <1>1, <1>2

LEMMA NoOutcome ==
    ASSUME UNCHANGED node
    PROVE  outcomeBar' = outcomeBar
BY DEF outcomeBar, OutcomeOf

\* Whoever does not move stays the client that it was.
LEMMA OthersAreTheSame ==
    ASSUME Core, NEW x \in Workers, Lookup(x) \/ Step(x) \/ SpuriousWake(x),
           NEW u \in Workers \ {x}
    PROVE  ClientOf(u)' = ClientOf(u)
<1> USE DEF Goto, served, shared, cacheVars
<1>t. /\ pc \in [Workers -> Labels] /\ response \in [Workers -> Responses]
      /\ line \in [Workers -> Nodes \cup {NULL}]
      /\ query \in [Workers -> Keys \cup {NULL}]
  BY DEF Core, TypeOK
<1>1. CASE NotifyAll(x)
  BY <1>1, <1>t, SameClient DEF NotifyAll, Asleep
<1>2. CASE ~NotifyAll(x)
  <2>1. /\ pc'[u] = pc[u] /\ line'[u] = line[u]
    <3>1. CASE FollowerWait(x)
      BY <3>1, <1>t DEF FollowerWait
    <3>2. CASE ~FollowerWait(x)
      BY <3>2, <1>2, NotifierStays DEF OthersStay
    <3> QED
      BY <3>1, <3>2
  <2>2. query'[u] = query[u] /\ response'[u] = response[u]
    <3>1. CASE Lookup(x)
      BY <3>1, <1>t DEF Lookup, LookupHit, LookupExpired, LookupMiss, Begin
    <3>2. CASE EvictTail(x) \/ StartScan(x) \/ ScanSkips(x) \/ ScanEvicts(x) \/ Reserve(x)
      BY <3>2 DEF EvictTail, StartScan, ScanSkips, ScanEvicts, Reserve, TakeLine
    <3>3. CASE FetchOk(x) \/ FetchThrows(x) \/ CompleteThrows(x) \/ ReplyThrows(x)
               \/ FollowerRead(x)
      BY <3>3, <1>t
         DEF FetchOk, FetchThrows, CompleteThrows, ReplyThrows, FollowerRead, Return
    <3>4. CASE CompleteWrite(x) \/ CompleteReady(x) \/ CancelErase(x) \/ CancelFail(x)
               \/ FollowerWait(x) \/ SpuriousWake(x)
      BY <3>4 DEF CompleteWrite, CompleteReady, CancelErase, EraseIf, CancelFail,
                  FollowerWait, SpuriousWake
    <3>5. CASE Respond(x)
      BY <3>5, <1>t DEF Respond
    <3> QED
      BY <1>2, <3>1, <3>2, <3>3, <3>4, <3>5 DEF Step
  <2> QED
    BY <2>1, <2>2, SameClient
<1> QED
  BY <1>1, <1>2

\* What is left of the lines when one is taken out of the list, or let go of, is
\* what ReadThrough leaves of the flights.
LEMMA Settled ==
    ASSUME Core, Core', node' = Reap(node, cacheLines', line')
    PROVE  outcomeBar' = Promise!Settle(outcomeBar, cacheDirectory', clientBar')
<1>1. \A n \in Nodes : n \in ToSet(cacheLines') <=> \E k \in Keys : cacheDirectory'[k] = n
  BY CacheAssumption DEF Core, DirectoryConsistent
<1>2. \A w \in Workers : clientBar'[w].flight = line'[w]
  <2> SUFFICES ASSUME NEW w \in Workers PROVE clientBar'[w].flight = line'[w]
    OBVIOUS
  <2>1. clientBar'[w] = ClientOf(w)'
    BY DEF clientBar
  <2>2. pc'[w] \in {"idle", "evict", "scan"} => line'[w] = NULL
    BY DEF Core, LineInv
  <2>3. pc'[w] \in Labels
    BY DEF Core, TypeOK
  <2> QED
    BY <2>1, <2>2, <2>3, ClientBecomes DEF Client, Labels, Notifying
<1>3. \A n \in Nodes :
          OutcomeOf(n)' = IF \/ \E k \in Keys : cacheDirectory'[k] = n
                             \/ \E w \in Workers : clientBar'[w].flight = n
                          THEN OutcomeOf(n) ELSE "unused"
  BY <1>1, <1>2 DEF Reap, OutcomeOf, Free
<1>4. \A n \in Nodes : outcomeBar[n] = OutcomeOf(n)
  BY DEF outcomeBar
<1>5. outcomeBar' = [n \in Nodes |-> OutcomeOf(n)']
  BY DEF outcomeBar
<1> QED
  BY <1>3, <1>4, <1>5 DEF Promise!Settle, Promise!Unused

\* One lemma for each step that ReadThrough sees.
LEMMA ReserveStarts ==
    ASSUME Core, HeapInv, NEW w \in Workers, Reserve(w)
    PROVE  query[w] \in Keys /\ Promise!Start(w, query[w])
<1>1. PICK n \in Nodes \ ToSet(cacheLines) :
          (\A u \in Workers : line[u] # n) /\ TakeLine(w, n)
  BY DEF Reserve
<1>2. /\ pc[w] \in {"evict", "scan"} /\ pc'[w] = "fetch" /\ line'[w] = n
      /\ query' = query /\ cacheDirectory' = [cacheDirectory EXCEPT ![query[w]] = n]
      /\ node'[n].state = "IN_PROGRESS"
      /\ \A m \in Nodes \ {n} : node'[m] = node[m]
  BY <1>1 DEF Reserve, TakeLine, Goto, NewNode, Free, Core, TypeOK
<1>3. query[w] \in Keys /\ cacheDirectory[query[w]] = NULL
  BY <1>2 DEF Core, MutexInv
<1>4. OutcomeOf(n) = "unused" /\ OutcomeOf(n)' = "open"
  BY <1>1, <1>2 DEF HeapInv, OutcomeOf
<1>5. outcomeBar[n] = "unused" /\ outcomeBar' = [outcomeBar EXCEPT ![n] = "open"]
  BY <1>2, <1>4, OneOutcome DEF outcomeBar
<1>6. clientBar' = [clientBar EXCEPT ![w] = Client("leads", query[w], n, NULL)]
  <2>1. \A u \in Workers \ {w} : ClientOf(u)' = ClientOf(u)
    BY OthersAreTheSame DEF Step
  <2>2. ClientOf(w)' = Client("leads", query[w], n, NULL)
    BY <1>2, ClientBecomes DEF Notifying
  <2> QED
    BY <2>1, <2>2, OneClientMoves
<1>7. clientBar[w].role = "idle"
  BY <1>2, ClientAt DEF clientBar, Client
<1> QED
  BY <1>2, <1>3, <1>5, <1>6, <1>7
     DEF Promise!Start, Promise!Board, Promise!Unused, Promise!Open,
         clientBar, outcomeBar, Client

LEMMA LookupHitJoins ==
    ASSUME Core, NEW w \in Workers, NEW q \in Keys, LookupHit(w, q)
    PROVE  Promise!Join(w, q)
<1>1. /\ pc[w] = "idle" /\ pc'[w] = "follow" /\ line'[w] = cacheDirectory[q]
      /\ query'[w] = q /\ cacheDirectory[q] # NULL
      /\ UNCHANGED <<cacheDirectory, node>>
  BY DEF LookupHit, Begin, Goto, Core, TypeOK
<1>2. clientBar' = [clientBar EXCEPT ![w] = Client("joined", q, cacheDirectory[q], NULL)]
  <2>1. \A u \in Workers \ {w} : ClientOf(u)' = ClientOf(u)
    BY OthersAreTheSame DEF Lookup
  <2>2. ClientOf(w)' = Client("joined", q, cacheDirectory[q], NULL)
    BY <1>1, ClientBecomes
  <2> QED
    BY <2>1, <2>2, OneClientMoves
<1>3. clientBar[w].role = "idle"
  BY <1>1, ClientAt DEF clientBar, Client
<1>4. outcomeBar' = outcomeBar
  BY <1>1, NoOutcome
<1> QED
  BY <1>1, <1>2, <1>3, <1>4 DEF Promise!Join, Promise!Board, clientBar, outcomeBar, Client

\* Expiry and both ways of evicting.
LEMMA DropForgets ==
    ASSUME Core, Core', NEW n \in ToSet(cacheLines), node[n].state = "READY", Drop(n),
           UNCHANGED line, clientBar' = clientBar
    PROVE  node[n].key \in Keys /\ Promise!Forget(node[n].key)
<1>1. /\ n \in Nodes /\ node[n].key \in Keys /\ cacheDirectory[node[n].key] = n
      /\ n # NULL
  BY InToSet, CacheAssumption DEF Core, TypeOK, DirectoryConsistent
<1>2. outcomeBar[n] \in Values
  BY <1>1, CacheAssumption DEF outcomeBar, OutcomeOf, Core, ResultInv
<1>3. /\ cacheDirectory' = [cacheDirectory EXCEPT ![node[n].key] = NULL]
      /\ node' = Reap(node, cacheLines', line')
  BY DEF Drop
<1>4. outcomeBar' = Promise!Settle(outcomeBar, cacheDirectory', clientBar)
  BY <1>3, Settled
<1> QED
  BY <1>1, <1>2, <1>3, <1>4 DEF Promise!Forget, clientBar, outcomeBar

LEMMA CompleteReadyLands ==
    ASSUME Core, NEW w \in Workers, CompleteReady(w)
    PROVE  Promise!Land(w)
<1>1. PICK l \in Nodes :
          /\ l = line[w] /\ query[w] \in Keys /\ node[l].key = query[w]
          /\ node[l].state = "IN_PROGRESS" /\ node[l].leader = w
          /\ node[l].value \in Answers[query[w]]
  BY DEF CompleteReady, Core, LineInv, LeaderInv, Leads, ResultInv
<1>2. /\ pc[w] = "ready" /\ pc'[w] = "notify"
      /\ UNCHANGED <<query, line, cacheDirectory>>
      /\ \A m \in Nodes \ {l} : node'[m] = node[m]
      /\ node'[l].state = "READY" /\ node'[l].value = node[l].value
  <2>1. node[l] \in CacheNodes
    BY DEF Core, TypeOK
  <2> QED
    BY <1>1, <2>1 DEF CompleteReady, Goto, served, cacheVars, Core, TypeOK, CacheNodes
<1>3. cacheDirectory[query[w]] = l
  BY <1>1, <1>2 DEF Core, FlightInv, DirectoryConsistent
<1>4. outcomeBar[l] = "open" /\ outcomeBar' = [outcomeBar EXCEPT ![l] = node[l].value]
  <2>1. OutcomeOf(l) = "open" /\ OutcomeOf(l)' = node[l].value
    BY <1>1, <1>2 DEF OutcomeOf
  <2> QED
    BY <1>2, <2>1, OneOutcome DEF outcomeBar
<1>5. clientBar[w] = Client("leads", query[w], l, NULL)
  BY <1>1, <1>2, ClientAt DEF clientBar, Notifying
<1>6. clientBar' = clientBar
  <2>1. \A u \in Workers \ {w} : ClientOf(u)' = ClientOf(u)
    BY OthersAreTheSame DEF Step
  <2>2. ClientOf(w)' = ClientOf(w)
    BY <1>2, SameClient DEF Notifying
  <2> QED
    BY <2>1, <2>2, NoClientMoves
<1>7. /\ clientBar[w].role = "leads" /\ clientBar[w].key = query[w]
      /\ clientBar[w].flight = l
  BY <1>5 DEF Client
<1> QED
  BY <1>1, <1>2, <1>3, <1>4, <1>6, <1>7
     DEF Promise!Land, Promise!Aboard, Promise!Asked, Promise!Open, clientBar, outcomeBar

LEMMA CancelEraseWithdraws ==
    ASSUME Core, ReplyInv, NEW w \in Workers, CancelErase(w)
    PROVE  Promise!Withdraw(w)
<1>1. PICK l \in Nodes :
          /\ l = line[w] /\ query[w] \in Keys /\ node[l].key = query[w]
          /\ node[l].state = "IN_PROGRESS" /\ node[l].leader = w
  BY DEF CancelErase, EraseIf, Core, LineInv, LeaderInv, Leads, ReplyInv, ReplyOf
<1>2. /\ pc[w] = "cancel" /\ pc'[w] = "fail"
      /\ UNCHANGED <<query, line, node>>
  BY DEF CancelErase, EraseIf, Goto, served, Core, TypeOK
<1>3. cacheDirectory[query[w]] = l
  BY <1>1, <1>2 DEF Core, FlightInv, DirectoryConsistent
<1>4. cacheDirectory' = [cacheDirectory EXCEPT ![query[w]] = NULL]
  BY <1>1, <1>3 DEF CancelErase, EraseIf
<1>5. outcomeBar[l] = "open" /\ outcomeBar' = outcomeBar
  BY <1>1, <1>2, NoOutcome DEF outcomeBar, OutcomeOf
<1>6. clientBar' = clientBar
  <2>1. \A u \in Workers \ {w} : ClientOf(u)' = ClientOf(u)
    BY OthersAreTheSame DEF Step
  <2>2. ClientOf(w)' = ClientOf(w)
    BY <1>2, SameClient DEF Notifying
  <2> QED
    BY <2>1, <2>2, NoClientMoves
<1>7. /\ clientBar[w].role = "leads" /\ clientBar[w].key = query[w]
      /\ clientBar[w].flight = l
  BY <1>1, <1>2, ClientAt DEF clientBar, Notifying, Client
<1> QED
  BY <1>3, <1>4, <1>5, <1>6, <1>7
     DEF Promise!Withdraw, Promise!Aboard, Promise!Asked, Promise!Open, clientBar, outcomeBar

LEMMA CancelFailFails ==
    ASSUME Core, ReplyInv, NEW w \in Workers, CancelFail(w)
    PROVE  Promise!Fail(w)
<1>1. PICK l \in Nodes :
          /\ l = line[w] /\ query[w] \in Keys /\ node[l].key = query[w]
          /\ node[l].state = "IN_PROGRESS" /\ l \notin ToSet(cacheLines)
  BY DEF CancelFail, Core, LineInv, LeaderInv, ReplyInv, ReplyOf
<1>2. /\ pc[w] = "fail" /\ pc'[w] = "notify"
      /\ UNCHANGED <<query, line, cacheDirectory>>
      /\ \A m \in Nodes \ {l} : node'[m] = node[m]
      /\ node'[l].state = "FAILED"
  <2>1. node[l] \in CacheNodes
    BY DEF Core, TypeOK
  <2> QED
    BY <1>1, <2>1 DEF CancelFail, Goto, served, cacheVars, Core, TypeOK, CacheNodes
<1>3. cacheDirectory[query[w]] # l
  BY <1>1, CacheAssumption DEF Core, DirectoryConsistent
<1>4. outcomeBar[l] = "open" /\ outcomeBar' = [outcomeBar EXCEPT ![l] = "failed"]
  <2>1. OutcomeOf(l) = "open" /\ OutcomeOf(l)' = "failed"
    BY <1>1, <1>2 DEF OutcomeOf
  <2> QED
    BY <1>2, <2>1, OneOutcome DEF outcomeBar
<1>6. clientBar' = clientBar
  <2>1. \A u \in Workers \ {w} : ClientOf(u)' = ClientOf(u)
    BY OthersAreTheSame DEF Step
  <2>2. ClientOf(w)' = ClientOf(w)
    BY <1>2, SameClient DEF Notifying
  <2> QED
    BY <2>1, <2>2, NoClientMoves
<1>7. /\ clientBar[w].role = "leads" /\ clientBar[w].key = query[w]
      /\ clientBar[w].flight = l
  BY <1>1, <1>2, ClientAt DEF clientBar, Notifying, Client
<1> QED
  BY <1>2, <1>3, <1>4, <1>6, <1>7
     DEF Promise!Fail, Promise!Aboard, Promise!Asked, Promise!Open, Promise!Failed,
         clientBar, outcomeBar

\* A leader that notifies and a follower that reads are told the outcome of
\* their line.
LEMMA ReplyAnswers ==
    ASSUME NEW w \in Workers, line[w] \in Nodes,
           pc[w] \in {"notify", "follow"}, pc'[w] = "respond",
           UNCHANGED <<query, line, node, cacheDirectory>>,
           \A u \in Workers \ {w} : ClientOf(u)' = ClientOf(u),
           ReplyTo(w)' = OutcomeOf(line[w]), OutcomeOf(line[w]) # "open"
    PROVE  Promise!Answer(w)
<1>1. PICK role \in {"leads", "joined"} :
          clientBar[w] = Client(role, query[w], line[w], NULL)
  BY ClientAt DEF clientBar, Notifying
<1>2. clientBar' = [clientBar EXCEPT ![w] =
                       Client("answered", query[w], line[w], OutcomeOf(line[w]))]
  <2>1. ClientOf(w)' = Client("answered", query[w], line[w], OutcomeOf(line[w]))
    BY ClientBecomes
  <2> QED
    BY <2>1, OneClientMoves
<1>3. PICK c, r : c = clientBar[w] /\ r = OutcomeOf(line[w])
  OBVIOUS
<1>a. [c EXCEPT !.role = "answered", !.reply = r] = Client("answered", query[w], line[w], r)
  <2>1. PICK answered : answered = [c EXCEPT !.role = "answered", !.reply = r]
    OBVIOUS
  <2>2. c \in [role : {role}, key : {query[w]}, flight : {line[w]}, reply : {NULL, r}]
    BY <1>1, <1>3 DEF Client
  <2>3. answered \in [role : {"answered"}, key : {query[w]}, flight : {line[w]},
                      reply : {r}]
    BY <2>1, <2>2
  <2>4. answered = Client("answered", query[w], line[w], r)
    BY <2>3 DEF Client
  <2> QED
    BY <2>1, <2>4, Zenon
<1>4. clientBar[w].role \in {"leads", "joined"} /\ clientBar[w].flight = line[w]
  BY <1>1 DEF Client
<1>5. outcomeBar' = outcomeBar /\ outcomeBar[line[w]] = OutcomeOf(line[w])
  BY NoOutcome DEF outcomeBar
<1>6. clientBar' = [clientBar EXCEPT ![w].role = "answered",
                                     ![w].reply = outcomeBar[line[w]]]
  <2>1. clientBar' = [clientBar EXCEPT ![w] = [c EXCEPT !.role = "answered", !.reply = r]]
    BY <1>2, <1>3, <1>a, Zenon
  <2>2. r = outcomeBar[line[w]] /\ c = clientBar[w]
    BY <1>3, <1>5, Zenon
  <2> QED
    BY <2>1, <2>2
<1> QED
  BY <1>4, <1>5, <1>6 DEF Promise!Answer, Promise!Aboard, Promise!Open, clientBar, outcomeBar

LEMMA NotifyAllAnswers ==
    ASSUME Core, ReplyInv, NEW w \in Workers, NotifyAll(w)
    PROVE  Promise!Answer(w)
<1>1. /\ pc[w] = "notify" /\ pc'[w] = "respond"
      /\ UNCHANGED <<query, line, response, node, cacheDirectory>>
  BY DEF NotifyAll, served, shared, cacheVars
<1>2. PICK l \in Nodes : l = line[w] /\ node[l].key = query[w]
  BY <1>1 DEF Core, LineInv
<1>3. IF response[w].kind = "ERROR" THEN node[l].state = "FAILED"
      ELSE node[l].state = "READY" /\ node[l].value = response[w].value
  BY <1>1, <1>2 DEF ReplyInv, ReplyOf
<1>4. ReplyTo(w)' = OutcomeOf(l)
  BY <1>1, <1>3 DEF ReplyTo, OutcomeOf
<1>5. OutcomeOf(l) # "open"
  <2>1. CASE node[l].state = "READY"
    BY <2>1, CacheAssumption DEF OutcomeOf, Core, ResultInv
  <2>2. CASE node[l].state = "FAILED"
    BY <2>2 DEF OutcomeOf
  <2> QED
    BY <1>3, <2>1, <2>2
<1>6. \A u \in Workers \ {w} : ClientOf(u)' = ClientOf(u)
  BY OthersAreTheSame DEF Step
<1> QED
  BY <1>1, <1>2, <1>4, <1>5, <1>6, ReplyAnswers

LEMMA FollowerReadAnswers ==
    ASSUME Core, NEW w \in Workers, FollowerRead(w)
    PROVE  Promise!Answer(w)
<1>1. /\ pc[w] = "follow" /\ pc'[w] = "respond"
      /\ response'[w] = IF node[line[w]].state = "READY"
                        THEN Hit(node[line[w]].value) ELSE Error
      /\ UNCHANGED <<query, line, node, cacheDirectory>>
  BY DEF FollowerRead, Return, Goto, served, shared, cacheVars, Core, TypeOK
<1>2. PICK l \in Nodes : /\ l = line[w]
                         /\ node[l].state \in {"READY", "FAILED"}
  BY <1>1 DEF FollowerRead, Core, TypeOK, CacheNodes, LineInv
<1>3. ReplyTo(w)' = OutcomeOf(l) /\ OutcomeOf(l) # "open"
  <2>1. CASE node[l].state = "READY"
    <3>1. ReplyTo(w)' = node[l].value
      BY <1>1, <1>2, <2>1 DEF ReplyTo, Hit
    <3> QED
      BY <2>1, <3>1, CacheAssumption DEF OutcomeOf, Core, ResultInv
  <2>2. CASE node[l].state = "FAILED"
    <3>1. ReplyTo(w)' = "failed"
      BY <1>1, <1>2, <2>2 DEF ReplyTo, Error
    <3> QED
      BY <2>2, <3>1 DEF OutcomeOf
  <2> QED
    BY <1>2, <2>1, <2>2
<1>4. \A u \in Workers \ {w} : ClientOf(u)' = ClientOf(u)
  BY OthersAreTheSame DEF Step
<1> QED
  BY <1>1, <1>2, <1>3, <1>4, ReplyAnswers

LEMMA RespondLeaves ==
    ASSUME Core, Core', NEW w \in Workers, Respond(w)
    PROVE  Promise!Leave(w)
<1>1. /\ pc[w] = "respond" /\ pc'[w] = "idle"
      /\ UNCHANGED <<cacheLines, cacheDirectory>>
      /\ node' = Reap(node, cacheLines', line')
  BY DEF Respond, Goto, cacheVars, Core, TypeOK
<1>2. clientBar' = [clientBar EXCEPT ![w] = Client("idle", NULL, NULL, NULL)]
  <2>1. \A u \in Workers \ {w} : ClientOf(u)' = ClientOf(u)
    BY OthersAreTheSame DEF Step
  <2>2. ClientOf(w)' = Client("idle", NULL, NULL, NULL)
    BY <1>1, ClientBecomes
  <2> QED
    BY <2>1, <2>2, OneClientMoves
<1>3. clientBar[w].role = "answered"
  BY <1>1, ClientAt DEF clientBar, Client
<1>4. outcomeBar' = Promise!Settle(outcomeBar, cacheDirectory, clientBar')
  BY <1>1, Settled
<1> QED
  BY <1>1, <1>2, <1>3, <1>4 DEF Promise!Leave, Promise!Idle, clientBar, outcomeBar, Client

\* The steps that change nothing a client of the cache could tell.
LEMMA UnseenSteps ==
    ASSUME Core, NEW w \in Workers,
           \/ \E q \in Keys : LookupMiss(w, q)
           \/ StartScan(w) \/ ScanSkips(w)
           \/ FetchOk(w) \/ FetchThrows(w) \/ CompleteWrite(w)
           \/ FollowerWait(w) \/ SpuriousWake(w)
    PROVE  UNCHANGED <<cacheDirectory, outcomeBar, clientBar>>
<1> USE DEF Goto, served, shared, cacheVars
<1>t. pc \in [Workers -> Labels] /\ query \in [Workers -> Keys \cup {NULL}]
  BY DEF Core, TypeOK
<1>1. cacheDirectory' = cacheDirectory
  BY DEF LookupMiss, StartScan, ScanSkips, FetchOk, FetchThrows, Return, CompleteWrite,
         FollowerWait, SpuriousWake
<1>2. outcomeBar' = outcomeBar
  <2>1. CASE CompleteWrite(w)
    <3>1. PICK l \in Nodes : /\ l = line[w] /\ node[l].state = "IN_PROGRESS"
                             /\ node[l] \in CacheNodes
      BY <2>1 DEF CompleteWrite, Core, TypeOK, LineInv, LeaderInv
    <3>2. /\ \A m \in Nodes \ {l} : node'[m] = node[m]
          /\ node'[l].state = "IN_PROGRESS"
      BY <2>1, <3>1 DEF CompleteWrite, Core, TypeOK, CacheNodes
    <3>3. OutcomeOf(l) = "open" /\ OutcomeOf(l)' = "open"
      BY <3>1, <3>2 DEF OutcomeOf
    <3>4. \A m \in Nodes : OutcomeOf(m)' = OutcomeOf(m)
      BY <3>2, <3>3 DEF OutcomeOf
    <3> QED
      BY <3>4 DEF outcomeBar
  <2>2. CASE ~CompleteWrite(w)
    BY <2>2, NoOutcome
       DEF LookupMiss, StartScan, ScanSkips, FetchOk, FetchThrows, Return,
           FollowerWait, SpuriousWake
  <2> QED
    BY <2>1, <2>2
<1>3. clientBar' = clientBar
  <2>1. \A u \in Workers \ {w} : ClientOf(u)' = ClientOf(u)
    BY OthersAreTheSame DEF Step, Lookup
  <2>2. ClientOf(w)' = ClientOf(w)
    <3>1. CASE \E q \in Keys : LookupMiss(w, q)
      BY <3>1, <1>t, StillIdle DEF LookupMiss, Begin
    <3>2. CASE StartScan(w) \/ ScanSkips(w)
      BY <3>2, <1>t, StillIdle DEF StartScan, ScanSkips
    <3>3. CASE FetchOk(w) \/ FetchThrows(w) \/ CompleteWrite(w)
      BY <3>3, <1>t, SameClient DEF FetchOk, FetchThrows, CompleteWrite, Return, Notifying
    <3>4. CASE FollowerWait(w) \/ SpuriousWake(w)
      BY <3>4, <1>t, SameClient DEF FollowerWait, SpuriousWake
    <3> QED
      BY <3>1, <3>2, <3>3, <3>4
  <2> QED
    BY <2>1, <2>2, NoClientMoves
<1> QED
  BY <1>1, <1>2, <1>3

\* The steps that take a READY line out of the cache.
LEMMA EvictionDrops ==
    ASSUME Core, NEW w \in Workers,
           \/ \E q \in Keys : LookupExpired(w, q)
           \/ EvictTail(w) \/ ScanEvicts(w)
    PROVE  \E n \in ToSet(cacheLines) :
              node[n].state = "READY" /\ Drop(n) /\ UNCHANGED line
<1>1. CASE \E q \in Keys : LookupExpired(w, q)
  <2>1. PICK q \in Keys : LookupExpired(w, q)
    BY <1>1
  <2>2. cacheDirectory[q] \in ToSet(cacheLines)
    BY <2>1 DEF LookupExpired, Core, DirectoryConsistent
  <2> QED
    BY <2>1, <2>2 DEF LookupExpired, Expired
<1>2. CASE EvictTail(w)
  BY <1>2, EvictedTail DEF EvictTail, served
<1>3. CASE ScanEvicts(w)
  BY <1>3, EvictedByScan DEF ScanEvicts, served
<1> QED
  BY <1>1, <1>2, <1>3

LEMMA EvictionForgets ==
    ASSUME Core, Core', NEW w \in Workers,
           \/ \E q \in Keys : LookupExpired(w, q)
           \/ EvictTail(w) \/ ScanEvicts(w)
    PROVE  \E k \in Keys : Promise!Forget(k)
<1>1. PICK n \in ToSet(cacheLines) :
          node[n].state = "READY" /\ Drop(n) /\ UNCHANGED line
  BY EvictionDrops
<1>2. clientBar' = clientBar
  <2>1. \A u \in Workers \ {w} : ClientOf(u)' = ClientOf(u)
    BY OthersAreTheSame DEF Step, Lookup
  <2>2. ClientOf(w)' = ClientOf(w)
    BY StillIdle DEF LookupExpired, Begin, EvictTail, ScanEvicts, Goto, Core, TypeOK
  <2> QED
    BY <2>1, <2>2, NoClientMoves
<1> QED
  BY <1>1, <1>2, DropForgets

LEMMA PromiseInit == Init => Promise!Init
<1> SUFFICES ASSUME Init PROVE Promise!Init
  OBVIOUS
<1>1. \A n \in Nodes : OutcomeOf(n) = "unused"
  BY DEF Init, OutcomeOf, Free
<1>2. \A w \in Workers : ClientOf(w) = Promise!Idle
  BY DEF Init, ClientOf, Promise!Idle
<1> QED
  BY <1>1, <1>2 DEF Init, Promise!Init, Promise!Unused

\* Every step of the cache is a step of ReadThrough or changes nothing it sees.
LEMMA PromiseNext ==
    ASSUME ~AllocFails, Core, Core', HeapInv, ReplyInv, [Next]_vars
    PROVE  [Promise!Next]_(Promise!vars)
<1>u. UNCHANGED <<cacheDirectory, outcomeBar, clientBar>> => UNCHANGED Promise!vars
  BY DEF Promise!vars, outcomeBar, clientBar
<1>1. CASE UNCHANGED vars \/ Tick
  <2>1. UNCHANGED <<pc, query, line, response, node, cacheDirectory>>
    BY <1>1 DEF vars, Tick, served, shared, cacheVars
  <2>2. UNCHANGED <<outcomeBar, clientBar>>
    BY <2>1 DEF outcomeBar, OutcomeOf, clientBar, ClientOf
  <2> QED
    BY <1>u, <2>1, <2>2
<1>2. ASSUME NEW w \in Workers, Lookup(w) \/ Step(w) \/ SpuriousWake(w)
      PROVE  [Promise!Next]_(Promise!vars)
  <2>1. CASE \/ \E q \in Keys : LookupMiss(w, q)
             \/ StartScan(w) \/ ScanSkips(w)
             \/ FetchOk(w) \/ FetchThrows(w) \/ CompleteWrite(w)
             \/ FollowerWait(w) \/ SpuriousWake(w)
    BY <2>1, <1>u, UnseenSteps
  <2>2. CASE \/ \E q \in Keys : LookupExpired(w, q)
             \/ EvictTail(w) \/ ScanEvicts(w)
    BY <2>2, EvictionForgets DEF Promise!Next
  <2>3. ASSUME NEW q \in Keys, LookupHit(w, q) PROVE Promise!Next
    BY <2>3, LookupHitJoins DEF Promise!Next
  <2>4. CASE Reserve(w)
    BY <2>4, ReserveStarts DEF Promise!Next
  <2>5. CASE CompleteReady(w)
    BY <2>5, CompleteReadyLands DEF Promise!Next
  <2>6. CASE CancelErase(w)
    BY <2>6, CancelEraseWithdraws DEF Promise!Next
  <2>7. CASE CancelFail(w)
    BY <2>7, CancelFailFails DEF Promise!Next
  <2>8. CASE NotifyAll(w)
    BY <2>8, NotifyAllAnswers DEF Promise!Next
  <2>9. CASE FollowerRead(w)
    BY <2>9, FollowerReadAnswers DEF Promise!Next
  <2>10. CASE Respond(w)
    BY <2>10, RespondLeaves DEF Promise!Next
  <2>11. ~CompleteThrows(w) /\ ~ReplyThrows(w)
    BY DEF CompleteThrows, ReplyThrows
  <2>12. CASE Lookup(w)
    BY <2>12, <2>1, <2>2, <2>3 DEF Lookup
  <2>13. CASE Step(w)
    BY <2>13, <2>1, <2>2, <2>4, <2>5, <2>6, <2>7, <2>8, <2>9, <2>10, <2>11 DEF Step
  <2>14. CASE SpuriousWake(w)
    BY <2>14, <2>1
  <2> QED
    BY <1>2, <2>12, <2>13, <2>14
<1> QED
  BY <1>1, <1>2 DEF Next

\* The locking protocol implements ReadThrough as long as no copy of a result
\* throws: single flight, one outcome for a leader and all who follow it, and no
\* flight replaced or forgotten while it is open (CacheEngine.hpp:211-236,
\* Cache.hpp:94-160).  A reply that throws after its line became READY
\* (ReplyThrows) would have a client that knows its answer lead once more.
THEOREM CacheImplementsReadThrough ==
    ASSUME ~AllocFails
    PROVE  Spec => ImplementsReadThrough
<1>1. Core /\ Core' /\ HeapInv /\ ReplyInv /\ [Next]_vars
         => [Promise!Next]_(Promise!vars)
  BY PromiseNext
<1> QED
  BY <1>1, HeapAndReplies, PromiseInit, PTL DEF Spec, ImplementsReadThrough, Promise!Spec

-----------------------------------------------------------------------------
(* Sums over finite sets, as MapThenSumSet computes them                   *)

Pick(s) == CHOOSE x \in s : TRUE

\* g has the sum of f over each subset of U.
Adds(g, f, U) ==
    g = [s \in SUBSET U |-> IF s = {} THEN 0 ELSE f[Pick(s)] + g[s \ {Pick(s)}]]

Total(f, U) == (CHOOSE g : Adds(g, f, U))[U]

\* No set of numbers has a smaller one for each of its elements.
LEMMA NoDescent ==
    ASSUME NEW S, S \subseteq Nat, \A n \in S : \E m \in S : m < n
    PROVE  S = {}
<1> SUFFICES ASSUME S # {} PROVE FALSE
  OBVIOUS
<1>1. PICK x \in S : \A y \in S : ~(<<y, x>> \in OpToRel(<, Nat))
  BY NatLessThanWellFounded, WFMin
<1>2. PICK y \in S : y < x
  OBVIOUS
<1>3. <<y, x>> \in {ss \in Nat \X Nat : ss[1] < ss[2]}
  BY <1>2
<1> QED
  BY <1>1, <1>3 DEF OpToRel

LEMMA Smaller ==
    ASSUME NEW U, IsFiniteSet(U), NEW s \in SUBSET U
    PROVE  /\ Cardinality(s) \in Nat /\ Cardinality(s) <= Cardinality(U)
           /\ \A x \in s : /\ s \ {x} \in SUBSET U
                           /\ Cardinality(s \ {x}) < Cardinality(s)
<1>1. IsFiniteSet(s) /\ Cardinality(s) \in Nat /\ Cardinality(s) <= Cardinality(U)
  BY FS_Subset, FS_CardinalityType
<1>2. ASSUME NEW x \in s PROVE Cardinality(s \ {x}) = Cardinality(s) - 1
  BY <1>1, FS_RemoveElement
<1> QED
  BY <1>1, <1>2

LEMMA Picked == ASSUME NEW s, s # {} PROVE Pick(s) \in s
BY DEF Pick

\* The definition by recursion defines a function.
LEMMA SumsExist ==
    ASSUME NEW U, IsFiniteSet(U), NEW f
    PROVE  \E g : Adds(g, f, U)
<1> DEFINE Upto(n) == {s \in SUBSET U : Cardinality(s) <= n}
           Part(g, n) == g = [s \in Upto(n) |-> IF s = {} THEN 0
                                                ELSE f[Pick(s)] + g[s \ {Pick(s)}]]
           Bad == {n \in Nat : ~\E g : Part(g, n)}
<1>1. ASSUME NEW n \in Bad PROVE \E m \in Bad : m < n
  <2> SUFFICES ASSUME \A m \in Bad : ~(m < n) PROVE FALSE
    OBVIOUS
  <2>1. n # 0
    <3> SUFFICES ASSUME n = 0 PROVE FALSE
      OBVIOUS
    <3>1. \A s \in Upto(0) : s = {}
      <4> SUFFICES ASSUME NEW s \in Upto(0), s # {} PROVE FALSE
        OBVIOUS
      <4>1. s \in SUBSET U /\ Cardinality(s) <= 0
        OBVIOUS
      <4>2. PICK x \in s : TRUE
        OBVIOUS
      <4>3. s \ {x} \in SUBSET U /\ Cardinality(s \ {x}) < Cardinality(s)
        BY <4>1, Smaller
      <4> QED
        BY <4>1, <4>3, Smaller
    <3>2. PICK g : g = [s \in Upto(0) |-> 0]
      OBVIOUS
    <3>3. g = [s \in Upto(0) |-> IF s = {} THEN 0 ELSE f[Pick(s)] + g[s \ {Pick(s)}]]
      BY <3>1, <3>2
    <3>4. Part(g, n)
      BY <3>3
    <3> QED
      BY <3>4
  <2>2. n - 1 \in Nat /\ n - 1 < n
    BY <2>1
  <2>3. PICK g : Part(g, n - 1)
    BY <2>2
  <2>4. PICK h : h = [s \in Upto(n) |-> IF s = {} THEN 0
                                        ELSE f[Pick(s)] + g[s \ {Pick(s)}]]
    OBVIOUS
  <2>5. \A s \in Upto(n - 1) : s \in Upto(n) /\ g[s] = h[s]
    <3> SUFFICES ASSUME NEW s \in Upto(n - 1) PROVE s \in Upto(n) /\ g[s] = h[s]
      OBVIOUS
    <3>1. s \in SUBSET U /\ Cardinality(s) <= n - 1 /\ Cardinality(s) \in Nat
      BY Smaller
    <3>2. s \in Upto(n)
      BY <2>2, <3>1
    <3> QED
      BY <2>3, <2>4, <3>2
  <2>6. \A s \in Upto(n) : s # {} => s \ {Pick(s)} \in Upto(n - 1)
    <3> SUFFICES ASSUME NEW s \in Upto(n), s # {} PROVE s \ {Pick(s)} \in Upto(n - 1)
      OBVIOUS
    <3>1. s \in SUBSET U /\ Cardinality(s) <= n
      OBVIOUS
    <3>2. /\ s \ {Pick(s)} \in SUBSET U
          /\ Cardinality(s \ {Pick(s)}) < Cardinality(s)
          /\ Cardinality(s) \in Nat
      BY <3>1, Picked, Smaller
    <3>3. Cardinality(s \ {Pick(s)}) \in Nat
      BY <3>2, Smaller
    <3> QED
      BY <3>1, <3>2, <3>3
  <2>7. h = [s \in Upto(n) |-> IF s = {} THEN 0 ELSE f[Pick(s)] + h[s \ {Pick(s)}]]
    BY <2>4, <2>5, <2>6
  <2>8. Part(h, n)
    BY <2>7
  <2> QED
    BY <2>8
<1>2. Bad = {}
  BY <1>1, NoDescent
<1>3. Cardinality(U) \in Nat
  BY FS_CardinalityType
<1>4. PICK g : Part(g, Cardinality(U))
  BY <1>2, <1>3
<1>5. Upto(Cardinality(U)) = SUBSET U
  BY Smaller
<1> QED
  BY <1>4, <1>5 DEF Adds

\* A sum does not depend on the order of its terms.
LEMMA AnyTerm ==
    ASSUME NEW U, IsFiniteSet(U), NEW f \in [U -> Int], NEW g, Adds(g, f, U),
           NEW u \in SUBSET U
    PROVE  g[u] \in Int /\ \A x \in u : g[u] = f[x] + g[u \ {x}]
<1> DEFINE Good(s) == g[s] \in Int /\ \A x \in s : g[s] = f[x] + g[s \ {x}]
           Bad == {n \in Nat : \E s \in SUBSET U : Cardinality(s) = n /\ ~Good(s)}
<1>1. ASSUME NEW n \in Bad PROVE \E m \in Bad : m < n
  <2> SUFFICES ASSUME \A m \in Bad : ~(m < n) PROVE FALSE
    OBVIOUS
  <2>1. PICK s \in SUBSET U : Cardinality(s) = n /\ ~Good(s)
    OBVIOUS
  <2>2. ASSUME NEW t \in SUBSET U, Cardinality(t) < n PROVE Good(t)
    <3>1. Cardinality(t) \in Nat
      BY Smaller
    <3> HIDE DEF Good
    <3> QED
      BY <2>2, <3>1
  <2>3. g[{}] = 0
    BY DEF Adds
  <2>4. s # {}
    <3>1. g[{}] \in Int /\ \A x \in {} : g[{}] = f[x] + g[{} \ {x}]
      BY <2>3
    <3> QED
      BY <2>1, <3>1
  <2>5. PICK p \in s : p = Pick(s)
    BY <2>4, Picked
  <2>6. g[s] = f[p] + g[s \ {p}]
    BY <2>4, <2>5 DEF Adds
  <2>7. ASSUME NEW x \in s PROVE Good(s \ {x}) /\ s \ {x} \in SUBSET U
    <3>1. s \ {x} \in SUBSET U /\ Cardinality(s \ {x}) < n
      BY <2>1, Smaller
    <3> HIDE DEF Good
    <3> QED
      BY <2>2, <3>1
  <2>8. g[s] \in Int
    <3>1. g[s \ {p}] \in Int /\ f[p] \in Int
      BY <2>7
    <3> QED
      BY <2>6, <3>1
  <2>9. ASSUME NEW x \in s PROVE g[s] = f[x] + g[s \ {x}]
    <3>1. CASE x = p
      BY <2>6, <3>1
    <3>2. CASE x # p
      <4>1. /\ g[s \ {p}] = f[x] + g[(s \ {p}) \ {x}]
            /\ g[s \ {x}] = f[p] + g[(s \ {x}) \ {p}]
        BY <2>7, <3>2
      <4>2. (s \ {p}) \ {x} = (s \ {x}) \ {p}
        OBVIOUS
      <4>3. (s \ {p}) \ {x} \in SUBSET U /\ Cardinality((s \ {p}) \ {x}) < n
        <5>1. /\ Cardinality((s \ {p}) \ {x}) < Cardinality(s \ {p})
              /\ Cardinality(s \ {p}) < Cardinality(s)
              /\ Cardinality(s \ {p}) \in Nat /\ Cardinality(s) \in Nat
              /\ (s \ {p}) \ {x} \in SUBSET U
          BY <2>7, <3>2, Smaller
        <5>2. Cardinality((s \ {p}) \ {x}) \in Nat
          BY <5>1, Smaller
        <5> QED
          BY <2>1, <5>1, <5>2
      <4>4. g[(s \ {p}) \ {x}] \in Int
        BY <2>2, <4>3
      <4>5. f[p] \in Int /\ f[x] \in Int
        OBVIOUS
      <4>6. PICK c \in Int : c = g[(s \ {p}) \ {x}]
        BY <4>4
      <4>7. g[s] = f[p] + (f[x] + c) /\ g[s \ {x}] = f[p] + c
        BY <2>6, <4>1, <4>2, <4>6, Zenon
      <4> QED
        BY <4>5, <4>7
    <3> QED
      BY <3>1, <3>2
  <2> QED
    BY <2>1, <2>8, <2>9
<1>2. Bad = {}
  BY <1>1, NoDescent
<1>3. Cardinality(u) \in Nat
  BY Smaller
<1> QED
  BY <1>2, <1>3

\* Nor on what f is elsewhere.
LEMMA SumsAgree ==
    ASSUME NEW U, IsFiniteSet(U), NEW T \in SUBSET U, NEW f, NEW h,
           \A x \in T : h[x] = f[x],
           NEW g, Adds(g, f, U), NEW k, Adds(k, h, T)
    PROVE  k[T] = g[T]
<1> DEFINE Bad == {n \in Nat : \E s \in SUBSET T : Cardinality(s) = n /\ k[s] # g[s]}
<1>1. ASSUME NEW n \in Bad PROVE \E m \in Bad : m < n
  <2>1. PICK s \in SUBSET T : Cardinality(s) = n /\ k[s] # g[s]
    OBVIOUS
  <2>2. s # {}
    BY <2>1 DEF Adds
  <2>3. PICK p \in s : p = Pick(s)
    BY <2>2, Picked
  <2>4. k[s] = h[p] + k[s \ {p}] /\ g[s] = f[p] + g[s \ {p}]
    BY <2>2, <2>3 DEF Adds
  <2>5. k[s \ {p}] # g[s \ {p}] /\ s \ {p} \in SUBSET T
    BY <2>1, <2>4
  <2>6. Cardinality(s \ {p}) \in Nat /\ Cardinality(s \ {p}) < n
    <3>1. s \in SUBSET U /\ s \ {p} \in SUBSET U
      OBVIOUS
    <3> QED
      BY <2>1, <3>1, Smaller
  <2> QED
    BY <2>5, <2>6
<1>2. Bad = {}
  BY <1>1, NoDescent
<1>3. Cardinality(T) \in Nat
  BY Smaller
<1> QED
  BY <1>2, <1>3

\* One more term.
LEMMA TotalOfMore ==
    ASSUME NEW S, IsFiniteSet(S), NEW x, x \notin S,
           NEW f \in [S \cup {x} -> Int], NEW h \in [S -> Int], \A y \in S : h[y] = f[y]
    PROVE  /\ Total(h, S) \in Int
           /\ Total(f, S \cup {x}) = Total(h, S) + f[x]
<1>1. PICK U : U = S \cup {x}
  OBVIOUS
<1>2. IsFiniteSet(U) /\ S \in SUBSET U /\ U \in SUBSET U /\ x \in U /\ U \ {x} = S
  BY <1>1, FS_AddElement
<1>3. PICK g : g = CHOOSE e : Adds(e, f, U)
  OBVIOUS
<1>4. PICK k : k = CHOOSE e : Adds(e, h, S)
  OBVIOUS
<1>5. Adds(g, f, U) /\ Adds(k, h, S)
  <2>1. \E e : Adds(e, f, U)
    BY <1>2, SumsExist
  <2>2. \E e : Adds(e, h, S)
    BY SumsExist
  <2> QED
    BY <1>3, <1>4, <2>1, <2>2, Zenon
<1>6. Total(h, S) = k[S] /\ Total(f, U) = g[U]
  BY <1>3, <1>4 DEF Total
<1>7. k[S] = g[S]
  BY <1>2, <1>5, SumsAgree
<1>8. g[S] \in Int /\ g[U] = f[x] + g[S]
  <2>1. \A u \in SUBSET U : g[u] \in Int /\ \A y \in u : g[u] = f[y] + g[u \ {y}]
    BY <1>1, <1>2, <1>5, AnyTerm
  <2> QED
    BY <1>2, <2>1
<1>9. f[x] \in Int
  OBVIOUS
<1> QED
  BY <1>1, <1>6, <1>7, <1>8, <1>9

-----------------------------------------------------------------------------
(* Accounting                                                              *)

\* The lines that payload_bytes accounts for.
Counted == {n \in ToSet(cacheLines) :
               \/ node[n].state = "READY"
               \/ \E w \in Workers : pc[w] = "ready" /\ line[w] = n}

BytesOf == [n \in Counted |-> Bytes(n)]

PayloadInv == payload_bytes = Total(BytesOf, Counted)

LEMMA CountedFinite == Core => IsFiniteSet(Counted)
<1> SUFFICES ASSUME Core PROVE IsFiniteSet(Counted)
  OBVIOUS
<1>1. cacheLines \in Seq(Nodes)
  BY DEF Core, TypeOK
<1>2. IsFiniteSet(ToSet(cacheLines))
  <2>1. Len(cacheLines) \in Nat /\ DOMAIN cacheLines = 1 .. Len(cacheLines)
    BY <1>1
  <2>2. IsFiniteSet(1 .. Len(cacheLines))
    BY <2>1, FS_Interval
  <2>3. cacheLines \in Surjection(1 .. Len(cacheLines), ToSet(cacheLines))
    <3>1. /\ cacheLines = [i \in 1 .. Len(cacheLines) |-> cacheLines[i]]
          /\ \A i \in 1 .. Len(cacheLines) : cacheLines[i] \in ToSet(cacheLines)
          /\ \A x \in ToSet(cacheLines) : \E i \in 1 .. Len(cacheLines) : cacheLines[i] = x
      BY <1>1, <2>1, InToSet
    <3> QED
      BY <3>1 DEF Surjection
  <2> QED
    BY <2>2, <2>3, FS_Surjection
<1>3. Counted \in SUBSET ToSet(cacheLines)
  BY DEF Counted
<1> QED
  BY <1>2, <1>3, FS_Subset

\* The sum that the property speaks of.
LEMMA PayloadIsTotal == Core => (PayloadExact <=> PayloadInv)
<1> SUFFICES ASSUME Core PROVE PayloadExact <=> PayloadInv
  OBVIOUS
<1> DEFINE R(h) == h = [s \in SUBSET Counted |->
                          IF s = {} THEN 0
                          ELSE Bytes(CHOOSE x \in s : TRUE) + h[s \ {CHOOSE x \in s : TRUE}]]
<1>1. MapThenSumSet(Bytes, Counted) = (CHOOSE h : R(h))[Counted]
  BY DEF MapThenSumSet, MapThenFoldSet
<1>2. ASSUME NEW h PROVE R(h) <=> Adds(h, BytesOf, Counted)
  <2>1. \A s \in SUBSET Counted : s # {} => Pick(s) \in Counted
    BY Picked
  <2>2. \A s \in SUBSET Counted : s # {} => BytesOf[Pick(s)] = Bytes(Pick(s))
    BY <2>1 DEF BytesOf
  <2> QED
    BY <2>2 DEF Adds, Pick
<1>3. (CHOOSE h : R(h)) = (CHOOSE h : Adds(h, BytesOf, Counted))
  BY <1>2
<1>4. MapThenSumSet(Bytes, Counted) = Total(BytesOf, Counted)
  BY <1>1, <1>3 DEF Total
<1> QED
  BY <1>4 DEF PayloadExact, PayloadInv, Counted

LEMMA BytesAreNumbers == ASSUME Core, NEW n \in Nodes PROVE Bytes(n) \in Int
<1>1. node[n].key \in Keys \cup {NULL} /\ node[n].value \in Values \cup {NULL}
  BY DEF Core, TypeOK, CacheNodes
<1> QED
  BY <1>1, CacheAssumption DEF Bytes, Size

LEMMA BytesOfNumbers == Core => BytesOf \in [Counted -> Int]
<1> SUFFICES ASSUME Core PROVE BytesOf \in [Counted -> Int]
  OBVIOUS
<1>1. Counted \subseteq Nodes
  BY InToSet DEF Counted, Core, TypeOK
<1> QED
  BY <1>1, BytesAreNumbers DEF BytesOf

\* A step changes the sum by the bytes of the line that it adds or removes.
LEMMA PayloadSame ==
    ASSUME PayloadInv, Counted' = Counted, \A n \in Counted : Bytes(n)' = Bytes(n),
           UNCHANGED payload_bytes
    PROVE  PayloadInv'
<1>1. BytesOf' = BytesOf
  BY DEF BytesOf
<1> QED
  BY <1>1 DEF PayloadInv

LEMMA PayloadMore ==
    ASSUME Core, Core', PayloadInv, NEW l \in Nodes, l \notin Counted,
           Counted' = Counted \cup {l}, \A n \in Counted : Bytes(n)' = Bytes(n),
           payload_bytes' = payload_bytes + Bytes(l)'
    PROVE  PayloadInv'
<1>1. IsFiniteSet(Counted) /\ BytesOf \in [Counted -> Int]
  BY CountedFinite, BytesOfNumbers
<1>2. BytesOf' \in [Counted \cup {l} -> Int]
  <2>1. (Core => BytesOf \in [Counted -> Int])'
    BY BytesOfNumbers, PTL
  <2> QED
    BY <2>1
<1>3. BytesOf'[l] = Bytes(l)' /\ \A n \in Counted : BytesOf[n] = BytesOf'[n]
  BY DEF BytesOf
<1>4. Total(BytesOf', Counted \cup {l}) = Total(BytesOf, Counted) + BytesOf'[l]
  BY <1>1, <1>2, <1>3, TotalOfMore
<1> QED
  BY <1>3, <1>4 DEF PayloadInv

LEMMA PayloadLess ==
    ASSUME Core, Core', PayloadInv, NEW l \in Counted,
           Counted' = Counted \ {l}, \A n \in Counted' : Bytes(n)' = Bytes(n),
           payload_bytes' = payload_bytes - Bytes(l)
    PROVE  PayloadInv'
<1>1. (Core => IsFiniteSet(Counted) /\ BytesOf \in [Counted -> Int])'
  BY CountedFinite, BytesOfNumbers, PTL
<1>2. BytesOf \in [Counted -> Int] /\ Counted = Counted' \cup {l}
  BY BytesOfNumbers
<1>3. BytesOf[l] = Bytes(l) /\ \A n \in Counted' : BytesOf'[n] = BytesOf[n]
  BY DEF BytesOf
<1>4. /\ Total(BytesOf', Counted') \in Int
      /\ Total(BytesOf, Counted) = Total(BytesOf', Counted') + BytesOf[l]
  <2>1. PICK S, h : S = Counted' /\ h = BytesOf'
    OBVIOUS
  <2>2. IsFiniteSet(S) /\ l \notin S /\ h \in [S -> Int] /\ Counted = S \cup {l}
    BY <1>1, <1>2, <2>1
  <2>3. BytesOf \in [S \cup {l} -> Int] /\ \A n \in S : h[n] = BytesOf[n]
    BY <1>2, <1>3, <2>1, <2>2
  <2>4. Total(h, S) \in Int /\ Total(BytesOf, S \cup {l}) = Total(h, S) + BytesOf[l]
    BY <2>2, <2>3, TotalOfMore
  <2> QED
    BY <2>1, <2>2, <2>4
<1>5. payload_bytes = Total(BytesOf', Counted') + Bytes(l) /\ Bytes(l) \in Int
  BY <1>2, <1>3, <1>4 DEF PayloadInv
<1>6. payload_bytes' = Total(BytesOf', Counted')
  BY <1>4, <1>5
<1> QED
  BY <1>6 DEF PayloadInv

\* The lines that are accounted for are READY or in flight, these with a leader
\* that is about to make them READY.
LEMMA CountedLines ==
    ASSUME Core, NEW n \in Counted
    PROVE  /\ n \in ToSet(cacheLines) /\ n \in Nodes
           /\ \/ node[n].state = "READY"
              \/ node[n].state = "IN_PROGRESS" /\ pc[node[n].leader] = "ready"
BY InToSet DEF Counted, Core, TypeOK, LeaderInv, Leads

\* Steps that leave the accounted lines and their bytes alone.
LEMMA FramePayload ==
    ASSUME PayloadInv, ToSet(cacheLines') = ToSet(cacheLines),
           UNCHANGED payload_bytes,
           \A n \in ToSet(cacheLines) : node'[n] = node[n],
           \A w \in Workers : /\ pc'[w] = "ready" <=> pc[w] = "ready"
                              /\ pc[w] = "ready" => line'[w] = line[w]
    PROVE  PayloadInv'
<1>1. Counted' = Counted
  BY DEF Counted
<1>2. \A n \in Counted : Bytes(n)' = Bytes(n)
  BY DEF Counted, Bytes
<1> QED
  BY <1>1, <1>2, PayloadSame

LEMMA FrameStepsPayload ==
    ASSUME Core, PayloadInv, NEW x \in Workers,
           \/ \E q \in Keys : LookupMiss(x, q)
           \/ StartScan(x) \/ ScanSkips(x) \/ FetchOk(x) \/ FetchThrows(x)
           \/ CompleteThrows(x) \/ NotifyAll(x) \/ ReplyThrows(x)
           \/ FollowerWait(x) \/ SpuriousWake(x) \/ FollowerRead(x)
    PROVE  PayloadInv'
<1> USE DEF Goto, served, shared, cacheVars
<1>t. pc \in [Workers -> Labels]
  BY DEF Core, TypeOK
<1>1. /\ UNCHANGED <<cacheLines, payload_bytes, node, line>>
      /\ \A w \in Workers : pc'[w] = "ready" <=> pc[w] = "ready"
  <2>1. CASE \E q \in Keys : LookupMiss(x, q)
    BY <2>1, <1>t DEF LookupMiss, Begin
  <2>2. CASE StartScan(x) \/ ScanSkips(x)
    BY <2>2, <1>t DEF StartScan, ScanSkips
  <2>3. CASE FetchOk(x) \/ FetchThrows(x) \/ CompleteThrows(x) \/ ReplyThrows(x)
             \/ FollowerRead(x)
    BY <2>3, <1>t DEF FetchOk, FetchThrows, CompleteThrows, ReplyThrows, FollowerRead, Return
  <2>4. CASE NotifyAll(x)
    BY <2>4, <1>t DEF NotifyAll, Asleep
  <2>5. CASE FollowerWait(x) \/ SpuriousWake(x)
    BY <2>5, <1>t DEF FollowerWait, SpuriousWake
  <2> QED
    BY <2>1, <2>2, <2>3, <2>4, <2>5
<1> QED
  BY <1>1, FramePayload

LEMMA LookupHitPayload ==
    ASSUME Core, PayloadInv, NEW x \in Workers, NEW q \in Keys, LookupHit(x, q)
    PROVE  PayloadInv'
<1>1. ToSet(cacheLines') = ToSet(cacheLines)
  BY LookupHitProperties
<1>2. /\ UNCHANGED <<payload_bytes, node>>
      /\ \A w \in Workers : /\ pc'[w] = "ready" <=> pc[w] = "ready"
                            /\ pc[w] = "ready" => line'[w] = line[w]
  BY DEF LookupHit, Begin, Goto, Core, TypeOK
<1> QED
  BY <1>1, <1>2, FramePayload

LEMMA RespondPayload ==
    ASSUME Core, PayloadInv, NEW x \in Workers, Respond(x)
    PROVE  PayloadInv'
<1>1. /\ UNCHANGED <<payload_bytes, cacheLines>>
      /\ \A w \in Workers : /\ pc'[w] = "ready" <=> pc[w] = "ready"
                            /\ pc[w] = "ready" => line'[w] = line[w]
  BY DEF Respond, Goto, cacheVars, Core, TypeOK
<1>2. \A n \in ToSet(cacheLines) : node'[n] = node[n]
  BY InToSet DEF Respond, Reap, Core, TypeOK
<1> QED
  BY <1>1, <1>2, FramePayload

LEMMA CancelFailPayload ==
    ASSUME Core, PayloadInv, NEW x \in Workers, CancelFail(x)
    PROVE  PayloadInv'
<1>1. /\ UNCHANGED <<payload_bytes, cacheLines, line>>
      /\ \A w \in Workers : pc'[w] = "ready" <=> pc[w] = "ready"
  BY DEF CancelFail, Goto, cacheVars, served, Core, TypeOK
<1>2. \A n \in ToSet(cacheLines) : node'[n] = node[n]
  <2>1. line[x] \notin ToSet(cacheLines)
    BY DEF CancelFail, Core, LeaderInv
  <2> QED
    BY <2>1, InToSet DEF CancelFail, Core, TypeOK
<1> QED
  BY <1>1, <1>2, FramePayload

\* A line that is cancelled while it is in flight was not accounted for.
LEMMA CancelErasePayload ==
    ASSUME Core, ReplyInv, PayloadInv, NEW x \in Workers, CancelErase(x)
    PROVE  PayloadInv'
<1>1. PICK l \in Nodes : l = line[x] /\ node[l].state = "IN_PROGRESS" /\ node[l].leader = x
  BY DEF CancelErase, EraseIf, Core, LineInv, LeaderInv, Leads, ReplyInv, ReplyOf
<1>2. /\ UNCHANGED <<payload_bytes, node, line>> /\ pc[x] = "cancel"
      /\ \A w \in Workers : pc'[w] = "ready" <=> pc[w] = "ready"
  BY DEF CancelErase, EraseIf, Goto, served, Core, TypeOK
<1>3. ToSet(cacheLines') = ToSet(cacheLines) \ {l}
  BY <1>1, CancelEraseProperties
<1>4. l \notin Counted
  BY <1>1, <1>2, CountedLines
<1>5. Counted' = Counted
  BY <1>2, <1>3, <1>4 DEF Counted
<1>6. \A n \in Counted : Bytes(n)' = Bytes(n)
  BY <1>2 DEF Bytes
<1> QED
  BY <1>2, <1>5, <1>6, PayloadSame

LEMMA ReservePayload ==
    ASSUME Core, PayloadInv, NEW x \in Workers, Reserve(x)
    PROVE  PayloadInv'
<1>1. PICK n \in Nodes \ ToSet(cacheLines) :
          /\ TakeLine(x, n) /\ \A u \in Workers : line[u] # n
          /\ ToSet(cacheLines') = ToSet(cacheLines) \cup {n}
  BY ReserveProperties
<1>2. /\ UNCHANGED payload_bytes
      /\ \A m \in Nodes \ {n} : node'[m] = node[m]
      /\ node'[n].state = "IN_PROGRESS"
      /\ \A w \in Workers : /\ pc'[w] = "ready" <=> pc[w] = "ready"
                            /\ pc[w] = "ready" => line'[w] = line[w] /\ line'[w] # n
  BY <1>1 DEF Reserve, TakeLine, Goto, NewNode, Free, Core, TypeOK
<1>3. ToSet(cacheLines) \subseteq Nodes
  BY InToSet DEF Core, TypeOK
<1>4. Counted' = Counted
  <2>1. n \notin Counted'
    BY <1>2 DEF Counted
  <2>2. \A m \in ToSet(cacheLines) : m \in Counted' <=> m \in Counted
    BY <1>1, <1>2, <1>3 DEF Counted
  <2>3. Counted' \subseteq ToSet(cacheLines) \cup {n} /\ Counted \subseteq ToSet(cacheLines)
    BY <1>1 DEF Counted
  <2> QED
    BY <2>1, <2>2, <2>3
<1>5. \A m \in Counted : Bytes(m)' = Bytes(m)
  BY <1>1, <1>2, <1>3 DEF Bytes, Counted
<1> QED
  BY <1>2, <1>4, <1>5, PayloadSame

\* The leader accounts for its line ...
LEMMA CompleteWritePayload ==
    ASSUME Core, Core', PayloadInv, NEW x \in Workers, CompleteWrite(x)
    PROVE  PayloadInv'
<1>1. PICK l \in Nodes :
          /\ l = line[x] /\ node[l].state = "IN_PROGRESS" /\ node[l].leader = x
          /\ node[l] \in CacheNodes /\ l \in ToSet(cacheLines)
  BY DEF CompleteWrite, Core, TypeOK, LineInv, LeaderInv, Leads, FlightInv
<1>2. /\ UNCHANGED <<cacheLines, line>> /\ pc[x] = "publish" /\ pc'[x] = "ready"
      /\ \A w \in Workers \ {x} : pc'[w] = pc[w]
      /\ \A m \in Nodes \ {l} : node'[m] = node[m]
      /\ node'[l].state = "IN_PROGRESS" /\ node'[l].key = node[l].key
      /\ node'[l].value = response[x].value
  BY <1>1 DEF CompleteWrite, Goto, served, Core, TypeOK, CacheNodes
<1>3. ToSet(cacheLines) \subseteq Nodes
  BY InToSet DEF Core, TypeOK
<1>4. l \notin Counted
  BY <1>1, <1>2, CountedLines
<1>5. Counted' = Counted \cup {l}
  <2>1. l \in Counted'
    BY <1>1, <1>2 DEF Counted
  <2>2. \A m \in ToSet(cacheLines) \ {l} : m \in Counted' <=> m \in Counted
    BY <1>1, <1>2, <1>3 DEF Counted
  <2>3. Counted' \subseteq ToSet(cacheLines) /\ Counted \subseteq ToSet(cacheLines)
    BY <1>2 DEF Counted
  <2> QED
    BY <2>1, <2>2, <2>3, <1>4
<1>6. \A m \in Counted : Bytes(m)' = Bytes(m)
  BY <1>2, <1>3, <1>4 DEF Bytes, Counted
<1>7. payload_bytes' = payload_bytes + Bytes(l)'
  <2>1. payload_bytes' = payload_bytes + Size(node[l].key) + Size(response[x].value)
    BY <1>1 DEF CompleteWrite
  <2>2. Bytes(l)' = Size(node[l].key) + Size(response[x].value)
    BY <1>2 DEF Bytes
  <2>3. Size(node[l].key) \in Nat
    BY <1>1, CacheAssumption DEF Size, CacheNodes
  <2>4. Size(response[x].value) \in Nat
    BY CacheAssumption DEF Size, Core, TypeOK, Responses, NoResponse, Error, Miss, Hit
  <2>5. payload_bytes \in Int
    BY DEF Core, TypeOK
  <2> QED
    BY <2>1, <2>2, <2>3, <2>4, <2>5
<1> QED
  BY <1>4, <1>5, <1>6, <1>7, PayloadMore

\* ... which then is READY and stays accounted for ...
LEMMA CompleteReadyPayload ==
    ASSUME Core, PayloadInv, NEW x \in Workers, CompleteReady(x)
    PROVE  PayloadInv'
<1>1. PICK l \in Nodes :
          /\ l = line[x] /\ node[l].state = "IN_PROGRESS" /\ node[l].leader = x
          /\ node[l] \in CacheNodes /\ l \in ToSet(cacheLines)
  BY DEF CompleteReady, Core, TypeOK, LineInv, LeaderInv, Leads, FlightInv
<1>2. /\ UNCHANGED <<cacheLines, line, payload_bytes>> /\ pc[x] = "ready" /\ pc'[x] = "notify"
      /\ \A w \in Workers \ {x} : pc'[w] = pc[w]
      /\ \A m \in Nodes \ {l} : node'[m] = node[m]
      /\ node'[l].state = "READY" /\ node'[l].key = node[l].key
      /\ node'[l].value = node[l].value
  BY <1>1 DEF CompleteReady, Goto, served, cacheVars, Core, TypeOK, CacheNodes
<1>3. ToSet(cacheLines) \subseteq Nodes
  BY InToSet DEF Core, TypeOK
<1>4. Counted' = Counted
  <2>1. l \in Counted /\ l \in Counted'
    BY <1>1, <1>2 DEF Counted
  <2>2. \A m \in ToSet(cacheLines) \ {l} : m \in Counted' <=> m \in Counted
    BY <1>1, <1>2, <1>3 DEF Counted
  <2>3. Counted' \subseteq ToSet(cacheLines) /\ Counted \subseteq ToSet(cacheLines)
    BY <1>2 DEF Counted
  <2> QED
    BY <2>1, <2>2, <2>3
<1>5. \A m \in Counted : Bytes(m)' = Bytes(m)
  BY <1>2, <1>3 DEF Bytes, Counted
<1> QED
  BY <1>2, <1>4, <1>5, PayloadSame

\* ... until it is dropped.
LEMMA DropPayload ==
    ASSUME Core, Core', PayloadInv, NEW n \in ToSet(cacheLines), node[n].state = "READY",
           Drop(n), UNCHANGED line,
           \A w \in Workers : pc'[w] = "ready" <=> pc[w] = "ready"
    PROVE  PayloadInv'
<1>1. /\ n \in Nodes /\ ToSet(cacheLines') = ToSet(cacheLines) \ {n}
      /\ \A m \in ToSet(cacheLines') : m \in Nodes => node'[m] = node[m]
  BY DropProperties
<1>2. ToSet(cacheLines) \subseteq Nodes
  BY InToSet DEF Core, TypeOK
<1>3. n \in Counted
  BY DEF Counted
<1>4. Counted' = Counted \ {n}
  <2>1. \A m \in ToSet(cacheLines') : m \in Counted' <=> m \in Counted
    BY <1>1, <1>2 DEF Counted
  <2>2. Counted' \subseteq ToSet(cacheLines') /\ Counted \subseteq ToSet(cacheLines)
    BY DEF Counted
  <2> QED
    BY <1>1, <2>1, <2>2
<1>5. \A m \in Counted' : Bytes(m)' = Bytes(m)
  BY <1>1, <1>2 DEF Bytes, Counted
<1>6. payload_bytes' = payload_bytes - Bytes(n)
  BY DEF Drop
<1> QED
  BY <1>3, <1>4, <1>5, <1>6, PayloadLess

LEMMA EvictionPayload ==
    ASSUME Core, Core', PayloadInv, NEW w \in Workers,
           \/ \E q \in Keys : LookupExpired(w, q)
           \/ EvictTail(w) \/ ScanEvicts(w)
    PROVE  PayloadInv'
<1>1. PICK n \in ToSet(cacheLines) :
          node[n].state = "READY" /\ Drop(n) /\ UNCHANGED line
  BY EvictionDrops
<1>2. \A u \in Workers : pc'[u] = "ready" <=> pc[u] = "ready"
  BY DEF LookupExpired, Begin, EvictTail, ScanEvicts, Goto, Core, TypeOK
<1> QED
  BY <1>1, <1>2, DropPayload

LEMMA InitPayload == Init => PayloadInv
<1> SUFFICES ASSUME Init PROVE PayloadInv
  OBVIOUS
<1>1. Counted = {}
  BY DEF Init, Counted, ToSet
<1>2. PICK g : g = CHOOSE e : Adds(e, BytesOf, Counted)
  OBVIOUS
<1>3. Adds(g, BytesOf, Counted)
  <2>1. \E e : Adds(e, BytesOf, Counted)
    BY <1>1, FS_EmptySet, SumsExist
  <2> QED
    BY <1>2, <2>1, Zenon
<1>4. g[{}] = 0
  BY <1>3 DEF Adds
<1> QED
  BY <1>1, <1>2, <1>4 DEF Init, PayloadInv, Total

LEMMA NextPayload ==
    ASSUME ~AllocFails, Core, Core', ReplyInv, PayloadInv, [Next]_vars
    PROVE  PayloadInv'
<1>1. ASSUME NEW w \in Workers, Lookup(w) PROVE PayloadInv'
  BY <1>1, FrameStepsPayload, LookupHitPayload, EvictionPayload DEF Lookup
<1>2. ASSUME NEW w \in Workers, Step(w) PROVE PayloadInv'
  BY <1>2, FrameStepsPayload, EvictionPayload, ReservePayload, CompleteWritePayload,
     CompleteReadyPayload, CancelErasePayload, CancelFailPayload, RespondPayload
     DEF Step
<1>3. ASSUME NEW w \in Workers, SpuriousWake(w) PROVE PayloadInv'
  BY <1>3, FrameStepsPayload
<1>4. CASE Tick \/ UNCHANGED vars
  BY <1>4, FramePayload DEF Tick, vars, served, shared, cacheVars
<1> QED
  BY <1>1, <1>2, <1>3, <1>4 DEF Next

\* payload_bytes is what the accounted lines occupy (Cache.hpp:36, 136), as long
\* as no copy of a result throws: a reply that throws after its line became READY
\* has it erased without giving its bytes back (Cache.hpp:144-152).
THEOREM PayloadIsExact ==
    ASSUME ~AllocFails
    PROVE  Spec => []PayloadExact
<1>1. Init => PayloadInv
  BY InitPayload
<1>2. Core /\ HeapInv /\ ReplyInv /\ Core' /\ PayloadInv /\ [Next]_vars => PayloadInv'
  BY NextPayload
<1>3. Core /\ PayloadInv => PayloadExact
  BY PayloadIsTotal
<1> QED
  BY <1>1, <1>2, <1>3, HeapAndReplies, PTL DEF Spec

=============================================================================
