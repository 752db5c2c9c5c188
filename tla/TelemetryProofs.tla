---------------------------- MODULE TelemetryProofs ----------------------------
(***************************************************************************)
(* Theorems about Telemetry, for any number of reporters and workers, any  *)
(* window and without the bounds that the runs need.                       *)
(***************************************************************************)
EXTENDS Telemetry, FiniteSetTheorems, TLAPS

\* Every request has had one outcome or is with one worker.
CountInv ==
    total_requests = cache_hits + cache_misses + failures + Cardinality(serving)

\* Counters and window fit together.
WindowInv ==
    /\ last_req_count <= total_requests
    /\ last_sample_time <= now
    /\ \/ last_calculated_throughput = NoRate
       \/ last_calculated_throughput.until = last_sample_time

\* The total of a report against its parts: those it has read, and those it has
\* yet to read as they are now.
LoadInv(r) ==
    LET others == failures + Cardinality(Workers)
    IN  /\ report[r].at = "hits" =>
              report[r].reqs <= cache_hits + cache_misses + others
        /\ report[r].at = "misses" =>
              report[r].reqs <= report[r].hits + cache_misses + others
        /\ report[r].at \in {"loaded", "locked", "render"} =>
              report[r].reqs <= report[r].hits + report[r].misses + others

\* A reporter has read the clock after the window began.
ReportInv(r) ==
    /\ report[r].at = "locked" =>
          /\ stats_mtx = r
          /\ last_sample_time <= report[r].time_now
          /\ report[r].time_now <= now
    /\ report[r].at = "render" =>
          \/ report[r].throughput = NoRate
          \/ report[r].time_now - report[r].throughput.until < Window

IInv == /\ TypeOK
        /\ CountInv
        /\ WindowInv
        /\ \A r \in Reporters : LoadInv(r) /\ ReportInv(r)

\* There are no more requests between being counted and their outcome than workers.
LEMMA ServingBounded ==
    ASSUME TypeOK
    PROVE  /\ IsFiniteSet(serving)
           /\ Cardinality(Workers) \in Nat /\ Cardinality(serving) \in Nat
           /\ Cardinality(serving) <= Cardinality(Workers)
  BY TelemetryAssumption, FS_Subset, FS_CardinalityType DEF TypeOK, TelemetryAssumption

LEMMA NoReportTyped ==
    NoRate \in Rates
    /\ NoReport \in [at : {"idle", "hits", "misses", "loaded", "locked", "render"},
                     reqs : Nat, hits : Nat, misses : Nat, time_now : Nat,
                     throughput : Rates]
  BY DEF NoRate, NoReport, Rates

LEMMA InitIInv == Init => IInv
<1> SUFFICES ASSUME Init PROVE IInv
  OBVIOUS
<1>1. TypeOK
  BY TelemetryAssumption, NoReportTyped DEF Init, TypeOK, TelemetryAssumption
<1>2. WindowInv
  BY TelemetryAssumption DEF Init, WindowInv, TelemetryAssumption
<1>3. CountInv
  BY FS_EmptySet DEF Init, CountInv
<1>4. ASSUME NEW r \in Reporters PROVE LoadInv(r) /\ ReportInv(r)
  BY TelemetryAssumption DEF Init, LoadInv, ReportInv, NoReport, TelemetryAssumption
<1> QED
  BY <1>1, <1>2, <1>3, <1>4 DEF IInv

\* A step of reporters that leaves the counters alone.
LEMMA CountsKept ==
    ASSUME IInv, UNCHANGED counters
    PROVE  CountInv'
  BY DEF IInv, CountInv, counters

\* Reading a counter.
LEMMA LoadStep ==
    ASSUME IInv, NEW r \in Reporters, LoadRequests(r) \/ LoadHits(r) \/ LoadMisses(r)
    PROVE  IInv'
<1>1. TypeOK'
  BY DEF IInv, TypeOK, LoadRequests, LoadHits, LoadMisses, counters, window
<1>2. WindowInv'
  BY DEF IInv, WindowInv, LoadRequests, LoadHits, LoadMisses, counters, window
<1>3. CountInv'
  BY CountsKept DEF LoadRequests, LoadHits, LoadMisses
<1>4. ASSUME NEW q \in Reporters PROVE ReportInv(q)'
  BY DEF IInv, TypeOK, ReportInv, LoadRequests, LoadHits, LoadMisses, counters,
         window
<1>5. ASSUME NEW q \in Reporters PROVE LoadInv(q)'
  <2>1. /\ UNCHANGED <<total_requests, cache_hits, cache_misses, failures>>
        /\ total_requests <= cache_hits + cache_misses + failures + Cardinality(Workers)
        /\ cache_hits \in Nat /\ cache_misses \in Nat /\ failures \in Nat
        /\ total_requests \in Nat /\ Cardinality(Workers) \in Nat
    BY ServingBounded
       DEF IInv, TypeOK, CountInv, LoadRequests, LoadHits, LoadMisses, counters
  <2>2. CASE q # r
    <3>1. report[q]' = report[q]
      BY <2>2 DEF IInv, TypeOK, LoadRequests, LoadHits, LoadMisses
    <3> QED
      BY <3>1, <2>1 DEF IInv, LoadInv
  <2>3. CASE q = r
    <3>1. CASE LoadRequests(r)
      <4>1. report[r]'.at = "hits" /\ report[r]'.reqs = total_requests
        BY <3>1 DEF IInv, TypeOK, LoadRequests
      <4> QED
        BY <4>1, <2>1, <2>3 DEF LoadInv
    <3>2. CASE LoadHits(r)
      <4>1. /\ report[r].at = "hits" /\ report[r]'.at = "misses"
            /\ report[r]'.reqs = report[r].reqs /\ report[r]'.hits = cache_hits
        BY <3>2 DEF IInv, TypeOK, LoadHits
      <4> QED
        BY <4>1, <2>1, <2>3 DEF IInv, LoadInv
    <3>3. CASE LoadMisses(r)
      <4>1. /\ report[r].at = "misses" /\ report[r]'.at = "loaded"
            /\ report[r]'.reqs = report[r].reqs /\ report[r]'.hits = report[r].hits
            /\ report[r]'.misses = cache_misses
        BY <3>3 DEF IInv, TypeOK, LoadMisses
      <4> QED
        BY <4>1, <2>1, <2>3 DEF IInv, LoadInv
    <3> QED
      BY <3>1, <3>2, <3>3
  <2> QED
    BY <2>2, <2>3
<1> QED
  BY <1>1, <1>2, <1>3, <1>4, <1>5 DEF IInv

\* A report past its loads keeps what it has read.
LEMMA PastLoads ==
    ASSUME IInv, NEW r \in Reporters, Lock(r) \/ Sample(r) \/ Reuse(r) \/ Render(r)
    PROVE  CountInv' /\ (\A q \in Reporters : LoadInv(q)')
<1>1. CountInv'
  BY CountsKept DEF Lock, Sample, Advance, Reuse, Render
<1>2. ASSUME NEW q \in Reporters PROVE LoadInv(q)'
  <2>1. UNCHANGED <<cache_hits, cache_misses, failures>>
    BY DEF Lock, Sample, Advance, Reuse, Render, counters
  <2>2. \/ report[q]' = report[q]
        \/ report[q]'.at = "idle"
        \/ /\ report[q].at \in {"loaded", "locked"}
           /\ report[q]'.at \in {"locked", "render"}
           /\ report[q]'.reqs = report[q].reqs /\ report[q]'.hits = report[q].hits
           /\ report[q]'.misses = report[q].misses
    BY DEF IInv, TypeOK, Lock, Sample, Advance, Reuse, Render, NoReport
  <2> QED
    BY <2>1, <2>2 DEF IInv, LoadInv
<1> QED
  BY <1>1, <1>2

LEMMA LockStep ==
    ASSUME IInv, NEW r \in Reporters, Lock(r)
    PROVE  IInv'
<1>1. TypeOK'
  BY DEF IInv, TypeOK, Lock, counters, window
<1>2. WindowInv'
  BY DEF IInv, WindowInv, Lock, counters, window
<1>3. ASSUME NEW q \in Reporters PROVE ReportInv(q)'
  BY TelemetryAssumption
     DEF IInv, TypeOK, WindowInv, ReportInv, Lock, counters, window,
         TelemetryAssumption
<1> QED
  BY <1>1, <1>2, <1>3, PastLoads DEF IInv

\* The window that ends has a number of requests and an end of its own.
LEMMA SampleStep ==
    ASSUME IInv, NEW r \in Reporters, Sample(r)
    PROVE  /\ IInv'
           /\ last_sample_time' >= last_sample_time + Window
           /\ last_req_count' >= last_req_count
           /\ last_calculated_throughput' =
                 [requests |-> last_req_count' - last_req_count,
                  since    |-> last_sample_time,
                  until    |-> last_sample_time']
<1> DEFINE time == report[r].time_now
           rate == Rate(r, total_requests)
<1>1. /\ time \in Nat /\ last_sample_time \in Nat /\ last_req_count \in Nat
      /\ total_requests \in Nat /\ now \in Nat /\ Window \in Nat /\ Window > 0
  BY TelemetryAssumption DEF IInv, TypeOK, TelemetryAssumption
<1>2. /\ report[r].at = "locked"
      /\ time - last_sample_time >= Window
      /\ last_calculated_throughput' = rate
      /\ last_req_count' = total_requests
      /\ last_sample_time' = time
      /\ report' = [report EXCEPT ![r].at = "render", ![r].throughput = rate]
      /\ stats_mtx' = NULL
      /\ UNCHANGED <<now, total_requests, cache_hits, cache_misses, failures, serving>>
  BY DEF Sample, Advance, Elapsed, counters
<1>3. /\ rate = [requests |-> total_requests - last_req_count,
                 since |-> last_sample_time, until |-> time]
      /\ rate.until = time
  BY DEF Rate
<1>4. last_req_count <= total_requests /\ last_sample_time <= time /\ time <= now
  BY <1>2 DEF IInv, WindowInv, ReportInv
<1>5. rate \in Rates
  <2>1. total_requests - last_req_count \in Nat
    BY <1>1, <1>4
  <2> QED
    BY <1>1, <1>3, <2>1 DEF Rates
<1> HIDE DEF time, rate
<1>6. TypeOK'
  BY <1>1, <1>2, <1>5 DEF IInv, TypeOK
<1>7. WindowInv'
  BY <1>1, <1>2, <1>3, <1>4 DEF IInv, WindowInv
<1>8. ASSUME NEW q \in Reporters PROVE ReportInv(q)'
  <2>1. CASE q = r
    <3>1. report[r]' = [report[r] EXCEPT !.at = "render", !.throughput = rate]
      BY <1>2 DEF IInv, TypeOK
    <3>2. /\ report[r]'.at = "render" /\ report[r]'.throughput = rate
          /\ report[r]'.time_now = time
      BY <3>1 DEF IInv, TypeOK, time
    <3> QED
      BY <2>1, <3>2, <1>1, <1>2, <1>3 DEF IInv, ReportInv
  <2>2. CASE q # r
    <3>1. report[q]' = report[q] /\ report[q].at # "locked"
      BY <2>2, <1>2 DEF IInv, TypeOK, ReportInv
    <3> QED
      BY <3>1, <1>2 DEF IInv, ReportInv
  <2> QED
    BY <2>1, <2>2
<1> QED
  BY <1>1, <1>2, <1>3, <1>4, <1>6, <1>7, <1>8, PastLoads DEF IInv

LEMMA ReuseStep ==
    ASSUME IInv, NEW r \in Reporters, Reuse(r)
    PROVE  IInv' /\ UNCHANGED window
<1>1. TypeOK'
  BY DEF IInv, TypeOK, Reuse, counters, window
<1>2. WindowInv'
  BY DEF IInv, WindowInv, Reuse, counters, window
<1>3. ASSUME NEW q \in Reporters PROVE ReportInv(q)'
  BY DEF IInv, TypeOK, WindowInv, ReportInv, Reuse, Elapsed, counters, window
<1> QED
  BY <1>1, <1>2, <1>3, PastLoads DEF IInv, Reuse

LEMMA RenderStep ==
    ASSUME IInv, NEW r \in Reporters, Render(r)
    PROVE  IInv'
<1>1. TypeOK'
  BY NoReportTyped DEF IInv, TypeOK, Render, counters, window
<1>2. WindowInv'
  BY DEF IInv, WindowInv, Render, counters, window
<1>3. ASSUME NEW q \in Reporters PROVE ReportInv(q)'
  BY DEF IInv, TypeOK, ReportInv, Render, NoReport, counters, window
<1> QED
  BY <1>1, <1>2, <1>3, PastLoads DEF IInv

\* A worker that counts: one more request with it, or one more outcome.
LEMMA CountStep ==
    ASSUME IInv, NEW w \in Workers,
           CountRequest(w) \/ CountHit(w) \/ CountMiss(w) \/ CountNothing(w)
    PROVE  IInv'
<1>1. TypeOK'
  BY DEF IInv, TypeOK, CountRequest, CountHit, CountMiss, CountNothing, window
<1>2. WindowInv'
  BY DEF IInv, TypeOK, WindowInv, CountRequest, CountHit, CountMiss, CountNothing,
         window
<1>3. CountInv'
  <2>1. IsFiniteSet(serving) /\ Cardinality(serving) \in Nat
    BY ServingBounded DEF IInv
  <2>2. CASE CountRequest(w)
    <3>1. Cardinality(serving') = Cardinality(serving) + 1
      BY <2>1, <2>2, FS_AddElement DEF CountRequest
    <3> QED
      BY <3>1, <2>1, <2>2 DEF IInv, TypeOK, CountInv, CountRequest
  <2>3. CASE CountHit(w) \/ CountMiss(w) \/ CountNothing(w)
    <3>1. Cardinality(serving') = Cardinality(serving) - 1
      BY <2>1, <2>3, FS_RemoveElement DEF CountHit, CountMiss, CountNothing
    <3> QED
      BY <3>1, <2>1, <2>3
         DEF IInv, TypeOK, CountInv, CountHit, CountMiss, CountNothing
  <2> QED
    BY <2>2, <2>3
<1>4. ASSUME NEW q \in Reporters PROVE LoadInv(q)'
  <2>1. /\ report' = report
        /\ cache_hits' >= cache_hits /\ cache_misses' >= cache_misses
        /\ failures' >= failures
        /\ cache_hits \in Nat /\ cache_misses \in Nat /\ failures \in Nat
        /\ cache_hits' \in Nat /\ cache_misses' \in Nat /\ failures' \in Nat
    BY DEF IInv, TypeOK, CountRequest, CountHit, CountMiss, CountNothing
  <2>2. Cardinality(Workers) \in Nat
    BY ServingBounded DEF IInv
  <2>3. report[q].reqs \in Nat /\ report[q].hits \in Nat /\ report[q].misses \in Nat
    BY DEF IInv, TypeOK
  <2> QED
    BY <2>1, <2>2, <2>3 DEF IInv, LoadInv
<1>5. ASSUME NEW q \in Reporters PROVE ReportInv(q)'
  BY DEF IInv, ReportInv, CountRequest, CountHit, CountMiss, CountNothing, window
<1> QED
  BY <1>1, <1>2, <1>3, <1>4, <1>5 DEF IInv

LEMMA TickStep ==
    ASSUME IInv, Tick
    PROVE  IInv'
<1>1. TypeOK' /\ WindowInv'
  BY DEF IInv, TypeOK, WindowInv, Tick, counters, window
<1>2. CountInv'
  BY CountsKept DEF Tick
<1>3. ASSUME NEW q \in Reporters PROVE LoadInv(q)' /\ ReportInv(q)'
  BY DEF IInv, TypeOK, LoadInv, ReportInv, Tick, counters, window
<1> QED
  BY <1>1, <1>2, <1>3 DEF IInv

LEMMA NextStep == IInv /\ [Next]_vars => IInv'
<1> SUFFICES ASSUME IInv, [Next]_vars PROVE IInv'
  OBVIOUS
<1>1. CASE UNCHANGED vars
  BY <1>1 DEF IInv, TypeOK, CountInv, WindowInv, LoadInv, ReportInv, vars, counters,
              window
<1> QED
  BY <1>1, LoadStep, LockStep, SampleStep, ReuseStep, RenderStep, CountStep,
     TickStep
     DEF Next

\* Every variable keeps its type; no throughput is that of a negative number of
\* requests.
THEOREM TelemetryTypeCorrect == Spec => []TypeOK
<1>1. IInv => TypeOK
  BY DEF IInv
<1> QED
  BY InitIInv, NextStep, <1>1, PTL DEF Spec

\* Windows follow each other without gap or overlap.
THEOREM WindowsFollow == Spec => WindowsAdvance
<1>1. IInv /\ [Next]_vars =>
        [\/ UNCHANGED window
         \/ /\ last_sample_time' >= last_sample_time + Window
            /\ last_req_count' >= last_req_count
            /\ last_calculated_throughput' =
                  [requests |-> last_req_count' - last_req_count,
                   since    |-> last_sample_time,
                   until    |-> last_sample_time']]_vars
  <2> SUFFICES ASSUME IInv, Next, ~UNCHANGED window
               PROVE  /\ last_sample_time' >= last_sample_time + Window
                      /\ last_req_count' >= last_req_count
                      /\ last_calculated_throughput' =
                            [requests |-> last_req_count' - last_req_count,
                             since    |-> last_sample_time,
                             until    |-> last_sample_time']
    OBVIOUS
  <2>1. \E r \in Reporters : Sample(r)
    BY DEF Next, LoadRequests, LoadHits, LoadMisses, Lock, Reuse, Render,
           CountRequest, CountHit, CountMiss, CountNothing, Tick
  <2> QED
    BY <2>1, SampleStep
<1> QED
  BY InitIInv, NextStep, <1>1, PTL DEF Spec, WindowsAdvance

\* No report shows a throughput that has ended longer than a window ago.
THEOREM ThroughputStaysRecent == Spec => []ThroughputIsRecent
<1>1. IInv => ThroughputIsRecent
  BY DEF IInv, ReportInv, ThroughputIsRecent
<1> QED
  BY InitIInv, NextStep, <1>1, PTL DEF Spec

\* The total of a report runs ahead of its hits and misses only by the requests that
\* failed and one for each worker.
THEOREM TotalsAreAccountedFor == Spec => []TotalAccountedFor
<1>1. IInv => TotalAccountedFor
  <2> SUFFICES ASSUME IInv, NEW r \in Reporters,
                      report[r].at \in {"loaded", "locked", "render"}
               PROVE  report[r].reqs <= report[r].hits + report[r].misses + failures
                                        + Cardinality(Workers)
    BY DEF TotalAccountedFor
  <2>1. /\ report[r].reqs \in Nat /\ report[r].hits \in Nat
        /\ report[r].misses \in Nat /\ failures \in Nat
        /\ Cardinality(Workers) \in Nat
    BY ServingBounded DEF IInv, TypeOK
  <2>2. report[r].reqs <= report[r].hits + report[r].misses
                          + (failures + Cardinality(Workers))
    BY DEF IInv, LoadInv
  <2> QED
    BY <2>1, <2>2
<1> QED
  BY InitIInv, NextStep, <1>1, PTL DEF Spec

===============================================================================
