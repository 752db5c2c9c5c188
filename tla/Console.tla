------------------------------- MODULE Console --------------------------------
(***************************************************************************)
(* main(): it asks for the settings, constructs the engine, runs the       *)
(* administrator's commands and destroys the engine, with signals at any   *)
(* time.                                                                   *)
(*                                                                         *)
(* The engine is known here by the threads it has; its constructor is in   *)
(* the order of its members, the connection pool before any thread, and    *)
(* its destructor returns (ShutdownEnds of CacheEngine).  std::signal of   *)
(* glibc sets SA_RESTART: a signal does not end the read() in getline.     *)
(***************************************************************************)
EXTENDS Integers, Sequences

CONSTANTS
    Numbers,        \* what may be entered as an int
    Empty,          \* an empty line, or none
    Bad,            \* a line that stoi does not take
    WordSize        \* 2^64: the values of size_t

ASSUME ConsoleAssumption ==
    /\ Numbers \subseteq Int
    /\ Empty \notin Numbers /\ Bad \notin Numbers /\ Empty # Bad
    /\ WordSize \in Nat \ {0}

\* The settings that are numbers, in the order in which they are asked for; all
\* but the first are read into one string, input.
Questions == <<"dbPort", "cacheCapacity", "workerThreads", "serverPort",
               "ttlSeconds">>
Settings  == {Questions[i] : i \in DOMAIN Questions}

Default == [dbPort |-> 5432, cacheCapacity |-> 50, workerThreads |-> 8,
            serverPort |-> 8080, ttlSeconds |-> 60]

VARIABLES
    at,             \* where main() is
    asked,          \* how many settings it has asked for
    cin,            \* "good", or "eof" once the input has ended
    input,          \* the string that getline reads into
    setting,        \* the settings that are used ...
    entered,        \* ... and, for the history, what was entered for them
    command,        \* the line the command loop has read
    workers,        \* how many worker threads there are
    listener,       \* the thread that listens
    handled,        \* whether the signal handlers are registered
    g_shutdown_requested

settings == <<asked, input, setting, entered>>
threads  == <<workers, listener>>
signals  == <<handled, g_shutdown_requested>>
vars     == <<at, cin, settings, command, threads, signals>>

Goto(from, to) == at = from /\ at' = to

\* The input may have ended at the questions before, whose answers are text.
Init ==
    /\ at = "configure"
    /\ asked = 0
    /\ cin \in {"good", "eof"}
    /\ input = Empty
    /\ setting = Default
    /\ entered = [s \in Settings |-> Empty]
    /\ command = "none"
    /\ workers = 0
    /\ listener = "none"
    /\ handled = FALSE
    /\ g_shutdown_requested = FALSE

-----------------------------------------------------------------------------
(* Settings                                                                *)

\* What getline leaves in a string: a line or, with eofbit set, the last line or
\* nothing; but what was there before when eofbit was set already.
Getline(before, line) ==
    \/ cin = "good" /\ cin' \in {"good", "eof"}
    \/ cin = "eof" /\ line = before /\ UNCHANGED cin

\* One setting is asked for.  A line that is not a number ends the program.
Ask(line) ==
    /\ at = "configure" /\ asked < Len(Questions)
    /\ Getline(IF asked = 0 THEN Empty ELSE input, line)
    /\ LET q == Questions[asked + 1]
       IN  /\ setting' = [setting EXCEPT ![q] = IF line = Empty THEN @ ELSE line]
           /\ entered' = [entered EXCEPT ![q] = IF cin = "good" THEN line ELSE Empty]
    /\ input' = IF asked = 0 THEN input ELSE line
    /\ asked' = asked + 1
    /\ at' = IF line = Bad THEN "failed" ELSE at
    /\ UNCHANGED <<command, threads, signals>>

-----------------------------------------------------------------------------
(* The constructor of the engine                                           *)

\* An int becomes a size_t.
n_threads == setting.workerThreads % WordSize

\* The pool opens some of its connections, or none, as when it is asked for none,
\* and throws: "Server failed to start".
ConnectDatabase ==
    /\ asked = Len(Questions)
    /\ \/ Goto("configure", "start") /\ n_threads > 0
       \/ Goto("configure", "failed")
    /\ UNCHANGED <<cin, settings, command, threads, signals>>

StartWorker ==
    /\ at = "start" /\ workers < n_threads
    /\ workers' = workers + 1
    /\ UNCHANGED <<at, cin, settings, command, listener, signals>>

StartListener ==
    /\ Goto("start", "register") /\ workers = n_threads
    /\ listener' = "starting"
    /\ UNCHANGED <<cin, settings, command, workers, signals>>

\* Mutant: main() goes on to report the failure whatever threads run already.
StartFailsQuietly ==
    /\ Goto("start", "failed")
    /\ UNCHANGED <<cin, settings, command, threads, signals>>

\* A thread cannot be created.  The exception destroys the vector of those that
\* were, and a thread that was not joined ends the program on the spot.
StartFails ==
    /\ Goto("start", IF workers = 0 THEN "failed" ELSE "aborted")
    /\ UNCHANGED <<cin, settings, command, threads, signals>>

\* The listener finds out whether it can listen; main() does not hear of it.
Listen ==
    /\ listener = "starting"
    /\ listener' \in {"listening", "ended"}
    /\ UNCHANGED <<at, cin, settings, command, workers, signals>>

-----------------------------------------------------------------------------
(* Commands                                                                *)

\* The handlers are registered, and 400 ms later the server is announced.
Register ==
    /\ Goto("register", "loop")
    /\ handled' = TRUE
    /\ UNCHANGED <<cin, settings, command, threads, g_shutdown_requested>>

\* Mutant: the flag is tested after a line has been read, and nowhere else.
TestFlagLater ==
    /\ Goto("loop", "getline")
    /\ UNCHANGED <<cin, settings, command, threads, signals>>

TestFlag ==
    /\ Goto("loop", IF g_shutdown_requested THEN "destroy" ELSE "getline")
    /\ UNCHANGED <<cin, settings, command, threads, signals>>

\* Mutant: the loop goes on without input.
ReadCommandForever(line) ==
    /\ Goto("getline", "test")
    /\ cin' \in {cin, "eof"}
    /\ command' = line
    /\ UNCHANGED <<settings, threads, signals>>

\* getline waits for a line, and fails at the end of the input.
ReadCommand(line) ==
    /\ \/ Goto("getline", "test") /\ cin = "good" /\ cin' \in {"good", "eof"}
       \/ Goto("getline", "destroy") /\ cin' = "eof"
    /\ command' = line
    /\ UNCHANGED <<settings, threads, signals>>

\* A signal that came in the meantime goes before the command.
TestAgain ==
    /\ Goto("test", IF g_shutdown_requested THEN "destroy" ELSE "execute")
    /\ UNCHANGED <<cin, settings, command, threads, signals>>

\* stop, exit and quit end the loop; showstats, clear, help, an empty line and
\* any other change nothing that is modelled here.
Execute ==
    /\ Goto("execute", IF command = "stop" THEN "destroy" ELSE "loop")
    /\ UNCHANGED <<cin, settings, command, threads, signals>>

\* The destructor joins every thread, and main() returns.
Destroy ==
    /\ Goto("destroy", "stopped")
    /\ workers' = 0 /\ listener' = "ended"
    /\ UNCHANGED <<cin, settings, command, signals>>

-----------------------------------------------------------------------------

Ended == {"failed", "aborted", "killed", "stopped"}

\* SIGINT or SIGTERM, with the default action until there is a handler.
Signal ==
    /\ at \notin Ended
    /\ IF handled THEN g_shutdown_requested' = TRUE /\ UNCHANGED at
                  ELSE at' = "killed" /\ UNCHANGED g_shutdown_requested
    /\ UNCHANGED <<cin, settings, command, threads, handled>>

\* What waits for a line, and all else.
Enter ==
    \/ \E line \in Numbers \cup {Empty, Bad} : Ask(line)
    \/ \E line \in {"stop", "other"} : ReadCommand(line)

Proceed ==
    \/ ConnectDatabase \/ StartWorker \/ StartListener \/ StartFails
    \/ Register \/ TestFlag \/ TestAgain \/ Execute \/ Destroy

Done == at \in Ended /\ UNCHANGED vars

Next == Enter \/ Proceed \/ Listen \/ Signal \/ Done

\* main() runs; nobody needs to enter anything.
Fairness == WF_vars(Proceed) /\ WF_vars(cin = "eof" /\ Enter)

Spec     == Init /\ [][Next]_vars
FairSpec == Spec /\ Fairness

-----------------------------------------------------------------------------
(* Properties                                                              *)

\* main() returns, with a result or with an error it has reported, only when no
\* thread of the engine is left, whatever failed in the constructor
\* (main.cpp:305-308, CacheEngine.hpp:320-326).
NoThreadOutlivesMain ==
    at \in {"failed", "stopped"} =>
        workers = 0 /\ listener \notin {"starting", "listening"}

\* A command is only ever obeyed by a server that has workers, as many as were
\* asked for, and each of whose settings is the number entered for it, or its
\* default: when the input ends at a line without a newline the questions that
\* remain are all answered by that line, but such a server takes no command
\* (main.cpp:84, 113-158, 247).
ServesAsConfigured ==
    at \in {"test", "execute"} =>
        /\ workers = n_threads /\ workers > 0
        /\ \A q \in Settings :
              /\ setting[q] \in Int
              /\ setting[q] = IF entered[q] = Empty THEN Default[q] ELSE entered[q]

\* The server stops when it is told to, when its input has ended at any point,
\* and after a signal as soon as another line comes (main.cpp:239-279).
ToldToStop ==
    \/ cin = "eof"
    \/ at \in {"test", "execute"} /\ (g_shutdown_requested \/ command = "stop")

StopsWhenTold == ToldToStop ~> at \in Ended

\* "Register signal handlers for graceful shutdown on Ctrl+C (SIGINT) or SIGTERM"
\* (main.cpp:211): after a signal the server stops.
SignalStops == g_shutdown_requested ~> at \in Ended

=============================================================================
