------------------------------- MODULE Telemetry ------------------------------
(***************************************************************************)
(* The reports of CacheEngine (generateStatsReport, generateStatsJson):    *)
(* several threads build them at the same time, workers that answer STATS  *)
(* or STATS_JSON and the console, from counters that other workers go on   *)
(* incrementing, each read by itself, and from one throughput window that  *)
(* they share under stats_mtx.                                             *)
(***************************************************************************)
EXTENDS Integers, FiniteSets

CONSTANTS
    Reporters,      \* the threads that build reports
    Workers,        \* the threads that answer requests meanwhile
    NULL,
    Window,         \* 200 ms
    ServerStart,    \* steady_clock when the server starts; it counts from boot
    MaxTime,        \* bound on the clock
    MaxRequests     \* bound on the requests

ASSUME TelemetryAssumption ==
    /\ NULL \notin Reporters
    /\ IsFiniteSet(Workers)
    /\ Window \in Nat \ {0}
    /\ ServerStart \in Nat /\ MaxTime \in Nat /\ MaxRequests \in Nat

VARIABLES
    now,                        \* steady_clock
    total_requests, cache_hits, cache_misses,
    failures,                   \* requests that ended as neither; not counted by the code
    serving,                    \* workers between a request and its outcome
    stats_mtx,                  \* its owner
    last_req_count,
    last_sample_time,
    last_calculated_throughput, \* requests per time: both, since it is a quotient
    report                      \* what each reporter has read so far

counters == <<total_requests, cache_hits, cache_misses, failures, serving>>
window   == <<last_req_count, last_sample_time, last_calculated_throughput>>
vars     == <<now, counters, stats_mtx, window, report>>

\* No throughput yet, shown as zero.
NoRate == [requests |-> 0, since |-> 0, until |-> 0]

\* The locals of a report that has read nothing yet.
NoReport == [at |-> "idle", reqs |-> 0, hits |-> 0, misses |-> 0, time_now |-> 0,
             throughput |-> NoRate]

Init ==
    /\ now = ServerStart
    /\ total_requests = 0 /\ cache_hits = 0 /\ cache_misses = 0
    /\ failures = 0 /\ serving = {}
    /\ stats_mtx = NULL
    /\ last_req_count = 0
    /\ last_sample_time = 0
    /\ last_calculated_throughput = NoRate
    /\ report = [r \in Reporters |-> NoReport]

-----------------------------------------------------------------------------

\* The counters are read for the totals one after the other, before the mutex
\* is taken.
LoadRequests(r) ==
    /\ report[r].at = "idle"
    /\ report' = [report EXCEPT ![r].at = "hits", ![r].reqs = total_requests]
    /\ UNCHANGED <<now, counters, stats_mtx, window>>

LoadHits(r) ==
    /\ report[r].at = "hits"
    /\ report' = [report EXCEPT ![r].at = "misses", ![r].hits = cache_hits]
    /\ UNCHANGED <<now, counters, stats_mtx, window>>

\* Mutant: the total is read behind its parts.
LoadMissesThenTotal(r) ==
    /\ report[r].at = "misses"
    /\ report' = [report EXCEPT ![r].at = "loaded", ![r].misses = cache_misses,
                                ![r].reqs = total_requests]
    /\ UNCHANGED <<now, counters, stats_mtx, window>>

LoadMisses(r) ==
    /\ report[r].at = "misses"
    /\ report' = [report EXCEPT ![r].at = "loaded", ![r].misses = cache_misses]
    /\ UNCHANGED <<now, counters, stats_mtx, window>>

Lock(r) ==
    /\ report[r].at = "loaded"
    /\ stats_mtx = NULL
    /\ stats_mtx' = r
    /\ report' = [report EXCEPT ![r].at = "locked", ![r].time_now = now]
    /\ UNCHANGED <<now, counters, window>>

Elapsed(r) == report[r].time_now - last_sample_time

Rate(r, current) == [requests |-> current - last_req_count,
                     since    |-> last_sample_time,
                     until    |-> report[r].time_now]

\* The window ends now, with the given number of requests, and the next begins.
Advance(r, current, time) ==
    /\ report[r].at = "locked"
    /\ last_calculated_throughput' = Rate(r, current)
    /\ last_req_count' = current
    /\ last_sample_time' = time
    /\ report' = [report EXCEPT ![r].at = "render",
                                ![r].throughput = Rate(r, current)]
    /\ stats_mtx' = NULL
    /\ UNCHANGED <<now, counters>>

\* Mutants: the total read before the mutex was taken is used; the next window
\* begins where the last one did.
SampleReported(r) ==
    Elapsed(r) >= Window /\ Advance(r, report[r].reqs, report[r].time_now)
SampleKeepsTime(r) ==
    Elapsed(r) >= Window /\ Advance(r, total_requests, last_sample_time)

\* The window is long enough.
Sample(r) ==
    Elapsed(r) >= Window /\ Advance(r, total_requests, report[r].time_now)

\* Mutant: the last throughput is good for two windows.
ReuseLonger(r) ==
    /\ report[r].at = "locked"
    /\ Elapsed(r) < 2 * Window
    /\ report' = [report EXCEPT ![r].at = "render",
                                ![r].throughput = last_calculated_throughput]
    /\ stats_mtx' = NULL
    /\ UNCHANGED <<now, counters, window>>

\* It is not: the last throughput is reported again.
Reuse(r) ==
    /\ report[r].at = "locked"
    /\ Elapsed(r) < Window
    /\ report' = [report EXCEPT ![r].at = "render",
                                ![r].throughput = last_calculated_throughput]
    /\ stats_mtx' = NULL
    /\ UNCHANGED <<now, counters, window>>

Render(r) ==
    /\ report[r].at = "render"
    /\ report' = [report EXCEPT ![r] = NoReport]
    /\ UNCHANGED <<now, counters, stats_mtx, window>>

\* A worker counts its request before it looks it up.
CountRequest(w) ==
    /\ w \notin serving
    /\ total_requests < MaxRequests
    /\ total_requests' = total_requests + 1
    /\ serving' = serving \cup {w}
    /\ UNCHANGED <<now, cache_hits, cache_misses, failures, stats_mtx, window, report>>

\* Its line is READY.
CountHit(w) ==
    /\ w \in serving
    /\ cache_hits' = cache_hits + 1
    /\ serving' = serving \ {w}
    /\ UNCHANGED <<now, total_requests, cache_misses, failures, stats_mtx, window, report>>

\* It has completed its reservation.
CountMiss(w) ==
    /\ w \in serving
    /\ cache_misses' = cache_misses + 1
    /\ serving' = serving \ {w}
    /\ UNCHANGED <<now, total_requests, cache_hits, failures, stats_mtx, window, report>>

\* The query failed, here or at the leader: nothing is counted.
CountNothing(w) ==
    /\ w \in serving
    /\ failures' = failures + 1
    /\ serving' = serving \ {w}
    /\ UNCHANGED <<now, total_requests, cache_hits, cache_misses, stats_mtx, window, report>>

Tick ==
    /\ now < MaxTime
    /\ now' = now + 1
    /\ UNCHANGED <<counters, stats_mtx, window, report>>

Next ==
    \/ \E r \in Reporters : \/ LoadRequests(r) \/ LoadHits(r) \/ LoadMisses(r)
                            \/ Lock(r) \/ Sample(r) \/ Reuse(r) \/ Render(r)
    \/ \E w \in Workers : \/ CountRequest(w) \/ CountHit(w) \/ CountMiss(w)
                          \/ CountNothing(w)
    \/ Tick

Spec == Init /\ [][Next]_vars

-----------------------------------------------------------------------------
(* Properties                                                              *)

Rates == [requests : Nat, since : Nat, until : Nat]

\* Every variable keeps its type: in particular no difference of counters, a
\* size_t, is ever negative (CacheEngine.hpp:363).
TypeOK ==
    /\ now \in Nat
    /\ total_requests \in Nat /\ cache_hits \in Nat /\ cache_misses \in Nat
    /\ failures \in Nat /\ serving \subseteq Workers
    /\ stats_mtx \in Reporters \cup {NULL}
    /\ last_req_count \in Nat
    /\ last_sample_time \in Nat
    /\ last_calculated_throughput \in Rates
    /\ report \in [Reporters ->
                      [at : {"idle", "hits", "misses", "loaded", "locked", "render"},
                       reqs : Nat, hits : Nat, misses : Nat, time_now : Nat,
                       throughput : Rates]]

\* Windows follow each other without gap or overlap, in requests and in time,
\* whichever thread ends them: a new window begins where the last one ended
\* and at least Window later (CacheEngine.hpp:361-368).
WindowsAdvance ==
    [][\/ UNCHANGED window
       \/ /\ last_sample_time' >= last_sample_time + Window
          /\ last_req_count' >= last_req_count
          /\ last_calculated_throughput' =
                [requests |-> last_req_count' - last_req_count,
                 since    |-> last_sample_time,
                 until    |-> last_sample_time']]_vars

\* A report shows the throughput of a window that ended less than Window
\* before, however many other reports move the window (CacheEngine.hpp:370).
ThroughputIsRecent ==
    \A r \in Reporters :
        report[r].at = "render" /\ report[r].throughput # NoRate =>
            report[r].time_now - report[r].throughput.until < Window

\* The total of a report is read first, so it is never ahead of the hits and misses
\* beside it by more than the requests that failed and one for each worker, however
\* long the report is held up between its reads (CacheEngine.hpp:344-346).  It may
\* be behind them, and the hit rate beyond 100 %.
TotalAccountedFor ==
    \A r \in Reporters :
        report[r].at \in {"loaded", "locked", "render"} =>
            report[r].reqs <= report[r].hits + report[r].misses + failures
                              + Cardinality(Workers)

=============================================================================
