---------------------------- MODULE MainProgram ----------------------------
(***************************************************************************)
(* The command-line program (matchingengine/src/main.cpp): option parsing, *)
(* logging set-up, the split of --symbols, the SIGINT/SIGTERM handler and  *)
(* the main loop that polls g_running.                                    *)
(*                                                                         *)
(* Everything runs on the main thread.  A signal interrupts it at any      *)
(* point and runs signal_handler on the same stack; main resumes only when *)
(* the handler returns.  spdlog's _mt sinks write under a mutex, so a log  *)
(* call is two steps: taking the logging lock and releasing it.  The lock  *)
(* is not recursive: a handler that logs while the code it interrupted     *)
(* holds the lock waits for itself.                                        *)
(*                                                                         *)
(* The option values are inputs: the log level, --cpu-affinity and the     *)
(* --symbols string, a sequence over a small alphabet.  Parsing the        *)
(* options, creating the file sink and pthread_setaffinity_np may fail;    *)
(* calibrate_tsc_frequency (a header not in the repository) returns.       *)
(***************************************************************************)
EXTENDS Integers, Sequences, SequencesExt

CONSTANTS
    Signals,      \* the signals main installs signal_handler for
    Alphabet,     \* characters of --symbols other than ','
    MaxSymbolsLen \* longest --symbols string considered

LogLevels == {"debug", "info", "warn", "error", "other"}

\* The --symbols strings: every sequence over the alphabet and ','.
SymbolStrings == SeqOf(Alphabet \cup {","}, MaxSymbolsLen)

\* setup_logging leaves the logger at info for an unknown level; info
\* messages reach the sinks (and their mutex) unless the level is warn or
\* error.
InfoLogged(level) == level \in {"debug", "info", "other"}

-----------------------------------------------------------------------------
(* The --symbols split (lines 99-111).                                     *)

IsComma(c) == c = ","

RECURSIVE SplitAtCommas(_, _)

\* Mutation (checks SymbolsAreFields): the last symbol is not pushed.
SplitAtCommasNoTail(rest, acc) ==
    LET pos == SelectInSeq(rest, IsComma)
    IN IF pos = 0 THEN acc
       ELSE SplitAtCommas(SubSeq(rest, pos + 1, Len(rest)),
                          Append(acc, SubSeq(rest, 1, pos - 1)))

\* Mutation (checks TypeOK): substr(0, pos + 1) keeps the comma.
SplitAtCommasWithComma(rest, acc) ==
    LET pos == SelectInSeq(rest, IsComma)
    IN IF pos = 0
       THEN IF rest # << >> THEN Append(acc, rest) ELSE acc
       ELSE SplitAtCommas(SubSeq(rest, pos + 1, Len(rest)),
                          Append(acc, SubSeq(rest, 1, pos)))

\* while ((pos = find(',')) != npos) { push(substr(0, pos)); erase(0, pos + 1); }
\* then push the rest unless it is empty.
SplitAtCommas(rest, acc) ==
    LET pos == SelectInSeq(rest, IsComma)
    IN IF pos = 0
       THEN IF rest # << >> THEN Append(acc, rest) ELSE acc
       ELSE SplitAtCommas(SubSeq(rest, pos + 1, Len(rest)),
                          Append(acc, SubSeq(rest, 1, pos - 1)))

\* Reference: the fields between consecutive commas, without an empty last
\* field (a trailing comma, or the empty string, names no symbol).
Fields(s) ==
    LET cuts == <<0>> \o SetToSortSeq({i \in 1..Len(s) : IsComma(s[i])}, <)
                      \o <<Len(s) + 1>>
    IN [k \in 1..Len(cuts) - 1 |-> SubSeq(s, cuts[k] + 1, cuts[k + 1] - 1)]

ExpectedSymbols(s) ==
    LET f == Fields(s) IN IF Last(f) = << >> THEN Front(f) ELSE f

-----------------------------------------------------------------------------
VARIABLES
    pc,        \* where main is: a label of main()
    level,     \* --log-level
    affinity,  \* --cpu-affinity
    input,     \* --symbols
    symbols,   \* the parsed symbol list
    gRunning,  \* g_running
    installed, \* std::signal has installed signal_handler
    lock,      \* holder of the logging mutex: "none", "main" or a handler's signal
    frames,    \* signal_handler frames on main's stack, innermost last
    delivered, \* signals delivered so far (each at most once)
    exitCode

vars == <<pc, level, affinity, input, symbols, gRunning, installed, lock,
          frames, delivered, exitCode>>

\* The log calls of main() in program order, each with the label main goes
\* to after it; between two of them main does the step named by the label.
MainOrder ==
    [startup_log  |-> "split",      \* 96-97
     config_log   |-> "install",    \* 113-116
     calib_log    |-> "tsc_log",    \* 123, then calibrate_tsc_frequency
     tsc_log      |-> "affinity",   \* 125
     affinity_log |-> "metrics_log", \* 135
     metrics_log  |-> "engine_log", \* 140-141
     engine_log   |-> "feeds_log",  \* 145
     feeds_log    |-> "run_log",    \* 149
     run_log      |-> "loop",       \* 153
     shutdown_log |-> "return",     \* 161
     error_log    |-> "exit1"]      \* 165

LogSites == DOMAIN MainOrder

Init ==
    /\ pc = "parse"
    /\ level \in LogLevels
    /\ affinity \in BOOLEAN
    /\ input \in SymbolStrings
    /\ symbols = << >>
    /\ gRunning = TRUE
    /\ installed = FALSE
    /\ lock = "none"
    /\ frames = << >>
    /\ delivered = {}
    /\ exitCode = 0

\* Main runs only while no signal handler is on its stack.
MainRuns == frames = << >>

\* options.parse: a bad option throws to the catch block; --help prints
\* with std::cout and returns 0.
Parse ==
    /\ MainRuns /\ pc = "parse"
    /\ \/ pc' = "logging"
       \/ pc' = "help"
       \/ pc' = "error_log"
    /\ UNCHANGED <<level, affinity, input, symbols, gRunning, installed, lock,
                   frames, delivered, exitCode>>

\* setup_logging: the rotating file sink throws if logs/ cannot be opened;
\* otherwise the new logger becomes the default.
SetupLogging ==
    /\ MainRuns /\ pc = "logging"
    /\ \/ pc' = "startup_log"
       \/ pc' = "error_log"
    /\ UNCHANGED <<level, affinity, input, symbols, gRunning, installed, lock,
                   frames, delivered, exitCode>>

\* A log call takes the sink mutex if its level lets the message through
\* (the catch block logs at error, always through)...
LogEnter ==
    /\ MainRuns /\ pc \in LogSites /\ lock = "none"
    /\ IF InfoLogged(level) \/ pc = "error_log"
       THEN lock' = "main"
       ELSE lock' = lock
    /\ pc' = pc \o "_writing"
    /\ UNCHANGED <<level, affinity, input, symbols, gRunning, installed,
                   frames, delivered, exitCode>>

\* ... and releases it when the sinks have written.
LogLeave ==
    /\ MainRuns
    /\ \E site \in LogSites :
          /\ pc = site \o "_writing"
          /\ pc' = MainOrder[site]
    /\ lock' = "none"
    /\ UNCHANGED <<level, affinity, input, symbols, gRunning, installed,
                   frames, delivered, exitCode>>

Split ==
    /\ MainRuns /\ pc = "split"
    /\ symbols' = SplitAtCommas(input, << >>)
    /\ pc' = "config_log"
    /\ UNCHANGED <<level, affinity, input, gRunning, installed, lock,
                   frames, delivered, exitCode>>

\* std::signal(SIGINT, ...); std::signal(SIGTERM, ...).
Install ==
    /\ MainRuns /\ pc = "install"
    /\ installed' = TRUE
    /\ pc' = "calib_log"
    /\ UNCHANGED <<level, affinity, input, symbols, gRunning, lock, frames,
                   delivered, exitCode>>

\* With --cpu-affinity, pthread_setaffinity_np; its success is logged.
Affinity ==
    /\ MainRuns /\ pc = "affinity"
    /\ \E ok \in BOOLEAN : pc' = IF affinity /\ ok THEN "affinity_log" ELSE "metrics_log"
    /\ UNCHANGED <<level, affinity, input, symbols, gRunning, installed, lock,
                   frames, delivered, exitCode>>

\* while (g_running) sleep_for(1s);
Loop ==
    /\ MainRuns /\ pc = "loop"
    /\ pc' = IF gRunning THEN "loop" ELSE "shutdown_log"
    /\ UNCHANGED <<level, affinity, input, symbols, gRunning, installed, lock,
                   frames, delivered, exitCode>>

\* return 0 (after the loop or --help), return 1 (after the catch block).
Return ==
    /\ MainRuns /\ pc \in {"return", "help", "exit1"}
    /\ exitCode' = IF pc = "exit1" THEN 1 ELSE 0
    /\ pc' = "done"
    /\ UNCHANGED <<level, affinity, input, symbols, gRunning, installed, lock,
                   frames, delivered>>

-----------------------------------------------------------------------------
(* Signals.  Before std::signal the default action ends the process; after *)
(* it, signal_handler runs on top of whatever main (or an outer handler for *)
(* the other signal) was doing.  A signal is blocked while its own handler  *)
(* runs, and each is delivered at most once here.                          *)

Deliver(s) ==
    /\ s \notin delivered
    /\ pc \notin {"done", "killed"}
    /\ delivered' = delivered \cup {s}
    /\ IF installed
       THEN /\ frames' = Append(frames, [sig |-> s, at |-> "log"])
            /\ UNCHANGED pc
       ELSE /\ pc' = "killed"
            /\ UNCHANGED frames
    /\ UNCHANGED <<level, affinity, input, symbols, gRunning, installed, lock,
                   exitCode>>

\* spdlog::info("Received signal {}, shutting down...") in the innermost
\* handler: it needs the sink mutex, which nobody else can release while
\* this frame is on top.
HandlerLogEnter ==
    /\ frames # << >>
    /\ Last(frames).at = "log"
    /\ InfoLogged(level) => lock = "none"
    /\ lock' = IF InfoLogged(level) THEN Last(frames).sig ELSE lock
    /\ frames' = [frames EXCEPT ![Len(frames)].at = "writing"]
    /\ UNCHANGED <<pc, level, affinity, input, symbols, gRunning, installed,
                   delivered, exitCode>>

HandlerLogLeave ==
    /\ frames # << >>
    /\ Last(frames).at = "writing"
    /\ lock' = "none"
    /\ frames' = [frames EXCEPT ![Len(frames)].at = "store"]
    /\ UNCHANGED <<pc, level, affinity, input, symbols, gRunning, installed,
                   delivered, exitCode>>

\* g_running = false; the handler returns.
HandlerStore ==
    /\ frames # << >>
    /\ Last(frames).at = "store"
    /\ gRunning' = FALSE
    /\ frames' = Front(frames)
    /\ UNCHANGED <<pc, level, affinity, input, symbols, installed, lock,
                   delivered, exitCode>>

MainStep ==
    Parse \/ SetupLogging \/ LogEnter \/ LogLeave \/ Split \/ Install
      \/ Affinity \/ Loop \/ Return

Next ==
    \/ MainStep
    \/ HandlerLogEnter \/ HandlerLogLeave \/ HandlerStore
    \/ \E s \in Signals : Deliver(s)

\* The main thread is scheduled whenever it can run; nobody is obliged to
\* send a signal.
Spec == Init /\ [][Next]_vars /\ WF_vars(MainStep \/ HandlerLogEnter \/ HandlerLogLeave \/ HandlerStore)

-----------------------------------------------------------------------------
(* Properties.                                                             *)

TypeOK ==
    /\ level \in LogLevels
    /\ affinity \in BOOLEAN
    /\ input \in SymbolStrings
    /\ symbols \in Seq(Seq(Alphabet))
    /\ gRunning \in BOOLEAN
    /\ installed \in BOOLEAN
    /\ lock \in {"none", "main"} \cup Signals
    /\ frames \in Seq([sig: Signals, at: {"log", "writing", "store"}])
    /\ delivered \subseteq Signals
    /\ exitCode \in {0, 1}

\* The erase/find loop of lines 99-111 yields exactly the comma-separated
\* fields of --symbols, with no empty last field, for every string.
SymbolsAreFields ==
    pc \in {"config_log", "install", "calib_log", "tsc_log", "affinity",
            "affinity_log", "metrics_log", "engine_log", "feeds_log",
            "run_log", "loop", "shutdown_log"} => symbols = ExpectedSymbols(input)

\* The comment and message of signal_handler: a SIGINT or SIGTERM, once the
\* handler is installed, shuts the program down.
InterruptEndsProgram ==
    (installed /\ delivered # {}) ~> (pc \in {"done", "killed"})
=============================================================================
