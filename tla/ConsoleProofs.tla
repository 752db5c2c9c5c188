----------------------------- MODULE ConsoleProofs -----------------------------
(***************************************************************************)
(* Theorems about Console, for any numbers, any width of a size_t and a    *)
(* signal at any time.                                                     *)
(***************************************************************************)
EXTENDS Console, TLAPS

Commanding == {"register", "loop", "getline", "test", "execute"}
Labels     == {"configure", "start", "destroy"} \cup Commanding \cup Ended
Lines      == Numbers \cup {Empty, Bad}

TypeOK ==
    /\ at \in Labels
    /\ asked \in 0 .. Len(Questions)
    /\ cin \in {"good", "eof"}
    /\ input \in Lines
    /\ setting \in [Settings -> Int \cup {Bad}]
    /\ entered \in [Settings -> Lines]
    /\ command \in {"none", "stop", "other"}
    /\ workers \in Nat
    /\ listener \in {"none", "starting", "listening", "ended"}
    /\ handled \in BOOLEAN /\ g_shutdown_requested \in BOOLEAN

AsEntered == \A q \in Settings :
    setting[q] = IF entered[q] = Empty THEN Default[q] ELSE entered[q]

\* What is no number ends main(), what was not asked for has its default, and only
\* an answer that was read after the end of the input was not entered.
SettingsInv ==
    /\ at # "failed" => \A q \in Settings : setting[q] \in Int
    /\ \A i \in asked + 1 .. Len(Questions) :
          setting[Questions[i]] = Default[Questions[i]]
    /\ cin = "good" \/ at \in {"test", "execute"} => AsEntered

\* The engine starts with as many threads as were asked for, some at least, before
\* it takes commands; main() reports a failure only as long as there are none.
ThreadsInv ==
    /\ at \in {"start"} \cup Commanding => n_threads > 0
    /\ at \in Commanding => workers = n_threads
    /\ at \in {"configure", "failed", "stopped"} => workers = 0
    /\ at \in {"configure", "start", "failed"} => listener = "none"
    /\ at = "stopped" => listener = "ended"

IInv == TypeOK /\ SettingsInv /\ ThreadsInv

\* Every setting is asked for once, and has a default that is a number.
LEMMA Asking ==
    /\ Len(Questions) = 5
    /\ \A i, j \in 1 .. 5 : Questions[i] = Questions[j] => i = j
    /\ \A i \in 1 .. 5 : Questions[i] \in Settings
    /\ \A q \in Settings : \E i \in 1 .. 5 : q = Questions[i]
    /\ Default \in [Settings -> Int]
  BY DEF Questions, Settings, Default

LEMMA InitIInv == Init => IInv
  <1> SUFFICES ASSUME Init PROVE IInv
    OBVIOUS
  <1>1. TypeOK
    <2>1. setting \in [Settings -> Int \cup {Bad}]
      BY Asking DEF Init
    <2>2. entered \in [Settings -> Lines] /\ input \in Lines
      BY DEF Init, Lines
    <2>3. at \in Labels /\ asked \in 0 .. Len(Questions)
      BY Asking DEF Init, Labels
    <2>4. handled \in BOOLEAN /\ g_shutdown_requested \in BOOLEAN
      BY DEF Init
    <2> QED
      BY <2>1, <2>2, <2>3, <2>4 DEF Init, TypeOK
  <1>2. SettingsInv
    BY Asking DEF Init, SettingsInv, AsEntered
  <1>3. ThreadsInv
    BY DEF Init, ThreadsInv, Commanding
  <1> QED
    BY <1>1, <1>2, <1>3 DEF IInv

\* One setting is asked for.
LEMMA AskStep ==
    ASSUME IInv, NEW line \in Lines, Ask(line)
    PROVE  IInv'
  <1> DEFINE q == Questions[asked + 1]
  <1>1. /\ at = "configure" /\ asked \in 0 .. 4 /\ asked' = asked + 1
        /\ cin \in {"good", "eof"} /\ cin' \in {"good", "eof"}
        /\ cin' = "good" => cin = "good"
        /\ setting' = [setting EXCEPT ![q] = IF line = Empty THEN setting[q] ELSE line]
        /\ entered' = [entered EXCEPT ![q] = IF cin = "good" THEN line ELSE Empty]
        /\ at' = IF line = Bad THEN "failed" ELSE "configure"
        /\ UNCHANGED <<command, workers, listener, handled, g_shutdown_requested>>
        /\ input' \in Lines
    BY Asking DEF IInv, TypeOK, Ask, Getline, threads, signals
  <1>2. q \in Settings
    BY <1>1, Asking
  <1>3. \A i \in asked + 2 .. 5 : Questions[i] # q /\ Questions[i] \in Settings
    <2>1. ASSUME NEW i \in asked + 2 .. 5 PROVE Questions[i] # q /\ Questions[i] \in Settings
      <3>1. i \in 1 .. 5 /\ asked + 1 \in 1 .. 5 /\ i # asked + 1
        BY <1>1
      <3> QED
        BY <3>1, Asking
    <2> QED
      BY <2>1
  <1>4. setting[q] = Default[q]
    BY <1>1, Asking DEF IInv, SettingsInv
  <1> HIDE DEF q
  <1>5. setting \in [Settings -> Int \cup {Bad}] /\ entered \in [Settings -> Lines]
    BY DEF IInv, TypeOK
  <1>6. line = Empty \/ line = Bad \/ line \in Int
    BY ConsoleAssumption DEF Lines
  <1>7. TypeOK'
    <2>1. setting' \in [Settings -> Int \cup {Bad}]
      BY <1>1, <1>2, <1>5, <1>6
    <2>2. entered' \in [Settings -> Lines]
      BY <1>1, <1>2, <1>5 DEF Lines
    <2>3. at' \in Labels /\ asked' \in 0 .. 5
      BY <1>1 DEF Labels, Ended
    <2> QED
      BY <1>1, <2>1, <2>2, <2>3, Asking DEF IInv, TypeOK
  <1>8. SettingsInv'
    <2>1. at' # "failed" => \A r \in Settings : setting'[r] \in Int
      BY <1>1, <1>2, <1>5, <1>6 DEF IInv, SettingsInv
    <2>2. ASSUME NEW i \in asked' + 1 .. 5
          PROVE  setting'[Questions[i]] = Default[Questions[i]]
      <3>1. i \in asked + 2 .. 5 /\ i \in asked + 1 .. 5
        BY <1>1
      <3>2. setting'[Questions[i]] = setting[Questions[i]]
        BY <1>1, <1>3, <1>5, <3>1
      <3>3. setting[Questions[i]] = Default[Questions[i]]
        BY <3>1, Asking DEF IInv, SettingsInv
      <3> QED
        BY <3>2, <3>3
    <2>3. ASSUME cin' = "good" PROVE AsEntered'
      <3>1. AsEntered
        BY <1>1, <2>3 DEF IInv, SettingsInv
      <3>2. /\ setting'[q] = IF line = Empty THEN Default[q] ELSE line
            /\ entered'[q] = line
        BY <1>1, <1>2, <1>4, <1>5, <2>3
      <3>3. \A r \in Settings : r # q => setting'[r] = setting[r] /\ entered'[r] = entered[r]
        BY <1>1, <1>5
      <3> QED
        BY <3>1, <3>2, <3>3 DEF AsEntered
    <2> QED
      BY <1>1, <2>1, <2>2, <2>3, Asking DEF SettingsInv
  <1>9. ThreadsInv'
    BY <1>1 DEF IInv, ThreadsInv, Commanding
  <1> QED
    BY <1>7, <1>8, <1>9 DEF IInv

\* A step that asks for nothing.
LEMMA SettingsStay ==
    ASSUME IInv, UNCHANGED settings,
           cin' = "good" => cin = "good",
           at = "failed" => at' = "failed",
           at' \in {"test", "execute"} => cin = "good" \/ at \in {"test", "execute"}
    PROVE  SettingsInv'
  <1>1. UNCHANGED <<asked, setting, entered>>
    BY DEF settings
  <1>2. AsEntered' <=> AsEntered
    BY <1>1 DEF AsEntered
  <1> QED
    BY <1>1, <1>2 DEF IInv, SettingsInv

\* The number of threads is a size_t.
LEMMA ThreadsAreMany ==
    ASSUME IInv, at # "failed"
    PROVE  n_threads \in Nat
  <1>1. setting.workerThreads \in Int
    BY DEF IInv, SettingsInv, Settings, Questions
  <1>2. WordSize \in Nat /\ WordSize > 0
    BY ConsoleAssumption
  <1> QED
    BY <1>1, <1>2 DEF n_threads

\* The constructor and the destructor of the engine, and what main() does itself.
LEMMA ProceedStep ==
    ASSUME IInv, Proceed
    PROVE  IInv'
  <1>1. UNCHANGED <<cin, settings>> /\ UNCHANGED n_threads /\ UNCHANGED command
    BY DEF Proceed, ConnectDatabase, StartWorker, StartListener, StartFails, Register,
           TestFlag, TestAgain, Execute, Destroy, settings, n_threads
  <1>2. SettingsInv'
    <2>1. /\ at # "failed"
          /\ at' \in {"test", "execute"} => at \in {"test", "execute"}
      BY DEF Proceed, Goto, ConnectDatabase, StartWorker, StartListener, StartFails,
             Register, TestFlag, TestAgain, Execute, Destroy
    <2> QED
      BY <1>1, <2>1, SettingsStay
  <1>3. at # "failed"
    BY DEF Proceed, Goto, ConnectDatabase, StartWorker, StartListener, StartFails,
           Register, TestFlag, TestAgain, Execute, Destroy
  <1>4. n_threads \in Nat
    BY <1>3, ThreadsAreMany
  <1>5. TypeOK'
    <2>1. /\ at' \in {at, "start", "failed", "aborted", "register", "loop", "getline",
                     "destroy", "execute", "stopped"}
          /\ workers' \in {workers, workers + 1, 0}
          /\ listener' \in {listener, "starting", "ended"}
      BY DEF Proceed, Goto, ConnectDatabase, StartWorker, StartListener, StartFails,
             Register, TestFlag, TestAgain, Execute, Destroy, threads
    <2>2. handled' \in {handled, TRUE} /\ g_shutdown_requested' = g_shutdown_requested
      BY Zenon DEF Proceed, ConnectDatabase, StartWorker, StartListener, StartFails,
             Register, TestFlag, TestAgain, Execute, Destroy, signals
    <2>3. at' \in Labels
      BY <2>1 DEF IInv, TypeOK, Labels, Commanding, Ended
    <2>4. workers' \in Nat /\ listener' \in {"none", "starting", "listening", "ended"}
      BY <2>1 DEF IInv, TypeOK
    <2>5. handled' \in BOOLEAN /\ g_shutdown_requested' \in BOOLEAN
      BY <2>2 DEF IInv, TypeOK
    <2> QED
      BY <1>1, <2>3, <2>4, <2>5 DEF IInv, TypeOK, settings
  <1>6. ThreadsInv'
    <2>1. CASE ConnectDatabase \/ StartFails
      BY <1>1, <2>1 DEF IInv, ThreadsInv, Commanding, ConnectDatabase, StartFails, Goto,
                        threads
    <2>2. CASE StartWorker
      BY <1>1, <2>2 DEF IInv, ThreadsInv, Commanding, StartWorker
    <2>3. CASE StartListener
      BY <1>1, <2>3 DEF IInv, ThreadsInv, Commanding, StartListener, Goto
    <2>4. CASE Register \/ TestFlag \/ TestAgain \/ Execute
      BY <1>1, <2>4 DEF IInv, ThreadsInv, Commanding, Register, TestFlag, TestAgain,
                        Execute, Goto, threads
    <2>5. CASE Destroy
      BY <1>1, <2>5 DEF IInv, ThreadsInv, Commanding, Destroy, Goto
    <2> QED
      BY <2>1, <2>2, <2>3, <2>4, <2>5 DEF Proceed
  <1> QED
    BY <1>2, <1>5, <1>6 DEF IInv

LEMMA NextIInv == IInv /\ [Next]_vars => IInv'
  <1> SUFFICES ASSUME IInv, [Next]_vars PROVE IInv'
    OBVIOUS
  <1>1. ASSUME NEW line \in Lines, Ask(line) PROVE IInv'
    BY <1>1, AskStep
  <1>2. ASSUME NEW line \in {"stop", "other"}, ReadCommand(line) PROVE IInv'
    <2>1. /\ UNCHANGED settings /\ UNCHANGED threads /\ UNCHANGED signals
          /\ at = "getline" /\ at' \in {"test", "destroy"}
          /\ at' = "test" => cin = "good"
          /\ cin' \in {"good", "eof"}
          /\ cin' = "good" => cin = "good"
          /\ command' \in {"stop", "other"}
      BY <1>2 DEF ReadCommand, Goto
    <2>2. SettingsInv'
      BY <2>1, SettingsStay
    <2>3. TypeOK'
      <3>1. at' \in Labels
        BY <2>1 DEF Labels, Commanding
      <3> QED
        BY <2>1, <3>1 DEF IInv, TypeOK, settings, threads, signals
    <2>4. ThreadsInv'
      BY <2>1 DEF IInv, ThreadsInv, Commanding, settings, threads, n_threads
    <2> QED
      BY <2>2, <2>3, <2>4 DEF IInv
  <1>3. CASE Proceed
    BY <1>3, ProceedStep
  <1>4. CASE Listen
    <2>1. /\ UNCHANGED settings /\ UNCHANGED signals
          /\ UNCHANGED <<at, cin, command, workers>>
          /\ listener = "starting" /\ listener' \in {"listening", "ended"}
      BY <1>4 DEF Listen
    <2>2. SettingsInv'
      BY <2>1, SettingsStay DEF IInv, SettingsInv
    <2>3. TypeOK'
      BY <2>1 DEF IInv, TypeOK, settings, signals
    <2>4. ThreadsInv'
      BY <2>1 DEF IInv, ThreadsInv, Commanding, settings, n_threads
    <2> QED
      BY <2>2, <2>3, <2>4 DEF IInv
  <1>5. CASE Signal
    <2>1. /\ UNCHANGED settings /\ UNCHANGED threads /\ UNCHANGED <<cin, command, handled>>
          /\ at \notin Ended /\ at' \in {at, "killed"}
          /\ g_shutdown_requested' \in {g_shutdown_requested, TRUE}
      BY <1>5 DEF Signal
    <2>2. SettingsInv'
      BY <2>1, SettingsStay DEF IInv, SettingsInv, Ended
    <2>3. TypeOK'
      BY <2>1 DEF IInv, TypeOK, Labels, Ended, settings, threads
    <2>4. ThreadsInv'
      BY <2>1 DEF IInv, ThreadsInv, Commanding, settings, threads, n_threads
    <2> QED
      BY <2>2, <2>3, <2>4 DEF IInv
  <1>6. CASE UNCHANGED vars
    <2>1. /\ UNCHANGED settings /\ UNCHANGED threads /\ UNCHANGED signals
          /\ UNCHANGED <<at, cin, command>>
      BY <1>6 DEF vars
    <2>2. SettingsInv'
      BY <2>1, SettingsStay DEF IInv, SettingsInv
    <2>3. TypeOK'
      BY <2>1 DEF IInv, TypeOK, settings, threads, signals
    <2>4. ThreadsInv'
      BY <2>1 DEF IInv, ThreadsInv, settings, threads, n_threads
    <2> QED
      BY <2>2, <2>3, <2>4 DEF IInv
  <1> QED
    BY <1>1, <1>2, <1>3, <1>4, <1>5, <1>6 DEF Next, Enter, Done, Lines

\* The invariant holds, whatever is entered and whatever fails.
THEOREM ConsoleInvariant == Spec => []IInv
  BY InitIInv, NextIInv, PTL DEF Spec

\* main() returns only when no thread of the engine is left, whatever failed in
\* the constructor (main.cpp:305-308, CacheEngine.hpp:320-326).
THEOREM MainOutlivesItsThreads == Spec => []NoThreadOutlivesMain
  <1>1. IInv => NoThreadOutlivesMain
    BY DEF IInv, ThreadsInv, NoThreadOutlivesMain
  <1> QED
    BY <1>1, ConsoleInvariant, PTL

\* A command is only obeyed by a server with the workers and the settings it was
\* asked for, wherever the input ended (main.cpp:84, 113-158, 247).
THEOREM CommandsAreObeyedAsConfigured == Spec => []ServesAsConfigured
  <1>1. IInv => ServesAsConfigured
    BY DEF IInv, SettingsInv, ThreadsInv, Commanding, AsEntered, ServesAsConfigured
  <1> QED
    BY <1>1, ConsoleInvariant, PTL

=============================================================================
