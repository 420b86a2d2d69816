------------------------------- MODULE Session -------------------------------
(***************************************************************************)
(* The two command lines that run for ever on a WebSocket client, and the  *)
(* client under any other caller:                                          *)
(*   "paper"    _run_cli of live/paper_trade.py: PaperTrader.run() with    *)
(*              its heartbeat task, whose finally closes the JSONL log;    *)
(*   "capture"  _run_cli of data/polymarket_ws.py: the client writes to a  *)
(*              JsonlWriter, which the command closes at the end;          *)
(*   "library"  somebody calls run() and, at any time, stop().             *)
(* Their tasks (main, runner, heartbeat, signal handler) share one event   *)
(* loop: an action is what one task does between two awaits.               *)
(*                                                                         *)
(* Of the trading in PaperTrader only the halt is left here: the kill      *)
(* switch may trip on any message of our own token.  The disk under the    *)
(* log may be full for a while; every callback of PaperTrader then raises. *)
(***************************************************************************)
EXTENDS WSClient

CONSTANTS
    WatchInterval,     \* heartbeat_check_interval_s
    SilenceLimit       \* heartbeat_timeout_s of the kill switch

ASSUME SessionAssumption ==
    WatchInterval \in Nat \ {0} /\ SilenceLimit \in Nat \ {0}

VARIABLES
    program,     \* which of the three
    main,        \* _run_cli: "waiting", "joining" the runner, "exited"
    runner,      \* its task: in "client" run(), "joining" the heartbeat, "done"
    heartbeat,   \* the heartbeat task: "asleep", "cancelled", "done", or "failed"
                 \* with an exception
    wakeIn,      \* seconds until it wakes
    quiet,       \* seconds since the kill switch heard a message, saturating
    halted,      \* the kill switch is halted
    haltLogged,  \* _halt_logged
    signalled,   \* a signal came: stop_evt, and _stop of the trader
    sink,        \* the log or the writer: "open", "closed"
    wroteLate    \* history: something was written to a closed sink

risk    == <<quiet, halted, haltLogged>>
output  == <<sink, wroteLate>>
session == <<program, main, runner, heartbeat, wakeIn, signalled, risk, output>>
vars    == <<clientVars, session>>

Paper == program = "paper"

Init ==
    /\ ClientInit
    /\ program \in {"paper", "capture", "library"}
    /\ main = IF program = "library" THEN "exited" ELSE "waiting"
    /\ runner = "client"
    /\ heartbeat = IF Paper THEN "asleep" ELSE "done"
    /\ wakeIn = WatchInterval /\ quiet = None
    /\ halted = FALSE /\ haltLogged = FALSE /\ signalled = FALSE
    /\ sink = "open" /\ wroteLate = FALSE

Writes(writing) == wroteLate' = (wroteLate \/ (writing /\ sink = "closed"))

-----------------------------------------------------------------------------
\* The client's steps.  Paper trading logs what on_disconnect and on_resync
\* report; nobody hears of a connection that ended without an exception.

Reports ==
    /\ cancel = "no"
    /\ \/ pc = "subscribing" \/ (pc = "leaving" /\ ~clean)
       \/ pc = "connecting" /\ ~reachable

ClientRuns ==
    /\ Run \/ ConnectionLost
    /\ Writes(Paper /\ Reports)
    /\ UNCHANGED <<program, main, runner, heartbeat, wakeIn, signalled, risk, sink>>

WatchdogRuns ==
    /\ WatchdogLooks
    /\ Writes(Paper /\ TooSilent)
    /\ UNCHANGED <<program, main, runner, heartbeat, wakeIn, signalled, risk, sink>>

\* note_ws_message comes before any filtering.
MessageArrives ==
    /\ quiet' = IF Paper THEN 0 ELSE quiet
    /\ UNCHANGED <<program, main, runner, heartbeat, wakeIn, signalled, sink>>

\* A message that is not for us, or one of our token that does not parse, which
\* is logged; the capture command drops only those without an asset id.
OtherMessage(malformed) ==
    /\ malformed => Paper /\ ~raising
    /\ Message /\ MessageArrives
    /\ Writes(malformed \/ program = "capture")
    /\ UNCHANGED <<closing, outside, halted, haltLogged>>

\* A message of our token in paper trading.  A halt is logged, once, and
\* stops the client; after that every message stops it again.
OwnMessage(breach) ==
    /\ Paper /\ (haltLogged \/ ~raising)
    /\ Message /\ MessageArrives
    /\ halted' = (halted \/ breach) /\ haltLogged' = halted'
    /\ IF halted' THEN Stop(TRUE) ELSE UNCHANGED <<closing, stop, stoppedIn>>
    /\ Writes(~haltLogged)
    /\ UNCHANGED <<reachable, raising>>

\* The log raises out of the handler, before a halt has stopped the client,
\* and so out of the read loop.  Once the halt is logged, only a message that
\* does not parse is.
OwnMessageRaises(breach) ==
    /\ Paper /\ raising
    /\ At("reading") /\ reachable /\ MessageArrives
    /\ halted' = (halted \/ breach)
    /\ LoopEnds(FALSE)
    /\ UNCHANGED <<cancel, haltLogged, wroteLate>>

-----------------------------------------------------------------------------
\* _heartbeat_loop.

FeedSilent == quiet # None /\ quiet > SilenceLimit

\* The sleep is over: the kill switch looks at the clock; a halted one stops
\* the client, and the task ends with the halt or with the trader's stop().
HeartbeatWakes ==
    /\ heartbeat = "asleep" /\ wakeIn = 0
    /\ wakeIn' = WatchInterval
    /\ halted' = (halted \/ FeedSilent)
    /\ halted' => haltLogged \/ ~raising
    /\ haltLogged' = halted'
    /\ IF halted' THEN Stop(TRUE) ELSE UNCHANGED <<closing, stop, stoppedIn>>
    /\ heartbeat' = IF halted' \/ signalled THEN "done" ELSE "asleep"
    /\ Writes(halted' /\ ~haltLogged)
    /\ UNCHANGED <<kept, program, main, runner, signalled, quiet, sink>>

\* The record of the halt raises: the task ends and the client is not stopped.
HeartbeatRaises ==
    /\ heartbeat = "asleep" /\ wakeIn = 0
    /\ raising /\ ~haltLogged /\ (halted \/ FeedSilent)
    /\ halted' = TRUE /\ heartbeat' = "failed"
    /\ UNCHANGED <<clientVars, program, main, runner, wakeIn, signalled, quiet,
                   haltLogged, output>>

HeartbeatCancelled ==
    /\ heartbeat = "cancelled"
    /\ heartbeat' = "done"
    /\ UNCHANGED <<clientVars, program, main, runner, wakeIn, signalled, risk, output>>

-----------------------------------------------------------------------------
\* The runner: the finally of PaperTrader.run() cancels the heartbeat, awaits
\* it and closes the log, which it does not if the heartbeat raises.  When the
\* runner is cancelled during this wait, that is suppressed as well.

\* Mutant: the log is closed and the heartbeat left to itself.
RunReturnsAtOnce ==
    /\ runner = "client" /\ pc = "done"
    /\ runner' = "done"
    /\ sink' = IF Paper THEN "closed" ELSE sink
    /\ UNCHANGED <<clientVars, program, main, heartbeat, wakeIn, signalled, risk,
                   wroteLate>>

RunReturns ==
    /\ runner = "client" /\ pc = "done"
    /\ runner' = IF Paper /\ heartbeat # "failed" THEN "joining" ELSE "done"
    /\ heartbeat' = IF heartbeat = "asleep" THEN "cancelled" ELSE heartbeat
    /\ UNCHANGED <<clientVars, program, main, wakeIn, signalled, risk, output>>

LogCloses ==
    /\ runner = "joining" /\ heartbeat = "done"
    /\ runner' = "done" /\ sink' = "closed"
    /\ UNCHANGED <<clientVars, program, main, heartbeat, wakeIn, signalled, risk,
                   wroteLate>>

-----------------------------------------------------------------------------
\* The command: it waits for a signal (paper trading, for its runner too),
\* cancels the runner and waits for it.

\* Mutant: the handler leaves everything to the cancellation.
SignalWithoutStop ==
    /\ main # "exited" /\ ~signalled
    /\ signalled' = TRUE
    /\ UNCHANGED <<clientVars, program, main, runner, heartbeat, wakeIn, risk, output>>

\* _request_stop, called by the event loop.
Signal ==
    /\ main # "exited" /\ ~signalled
    /\ signalled' = TRUE
    /\ Stop(TRUE)
    /\ UNCHANGED <<kept, program, main, runner, heartbeat, wakeIn, risk, output>>

MainWakes ==
    /\ main = "waiting"
    /\ signalled \/ (Paper /\ runner = "done")
    /\ main' = "joining"
    /\ cancel' = IF pc = "done" THEN cancel ELSE "asked"
    /\ UNCHANGED <<pc, closing, readLoop, delays, lifeSigns, outside, program, runner,
                   heartbeat, wakeIn, signalled, risk, output>>

\* The capture command closes its writer when the runner is done.
MainExits ==
    /\ main = "joining" /\ runner = "done"
    /\ main' = "exited"
    /\ sink' = IF Paper THEN sink ELSE "closed"
    /\ UNCHANGED <<clientVars, program, runner, heartbeat, wakeIn, signalled, risk,
                   wroteLate>>

LibraryStops(inLoop) ==
    /\ program = "library" /\ pc # "done"
    /\ Stop(inLoop)
    /\ UNCHANGED <<kept, session>>

-----------------------------------------------------------------------------
NetworkChanges ==
    /\ reachable' = ~reachable
    /\ UNCHANGED <<pc, stop, stoppedIn, cancel, closing, readLoop, raising, delays,
                   lifeSigns, session>>

DiskChanges ==
    /\ Paper /\ raising' = ~raising
    /\ UNCHANGED <<pc, stop, stoppedIn, cancel, closing, readLoop, reachable, delays,
                   lifeSigns, session>>

\* A task that is ready runs before the clock moves on.
Second ==
    /\ ClientSecond
    /\ pc # "done" /\ (main = "waiting" => ~signalled)
    /\ heartbeat = "asleep" => wakeIn > 0
    /\ wakeIn' = IF heartbeat = "asleep" THEN wakeIn - 1 ELSE wakeIn
    /\ quiet' = IF quiet = None THEN None ELSE Saturating(quiet + 1, SilenceLimit + 1)
    /\ UNCHANGED <<program, main, runner, heartbeat, signalled, halted, haltLogged,
                   output>>

Ended == main = "exited" /\ pc = "done" /\ UNCHANGED vars

Heartbeat == HeartbeatWakes \/ HeartbeatRaises

Tasks == HeartbeatCancelled \/ RunReturns \/ LogCloses \/ MainWakes \/ MainExits

Next ==
    \/ ClientRuns \/ WatchdogRuns
    \/ \E malformed \in BOOLEAN : OtherMessage(malformed)
    \/ \E breach \in BOOLEAN : OwnMessage(breach) \/ OwnMessageRaises(breach)
    \/ Heartbeat \/ Tasks
    \/ Signal \/ \E inLoop \in BOOLEAN : LibraryStops(inLoop)
    \/ NetworkChanges \/ DiskChanges \/ Second \/ Ended

Spec == Init /\ [][Next]_vars

\* The event loop runs every task that is ready, a connection attempt and a
\* send end one way or the other (open_timeout of the library), a close
\* completes, and time passes.  Nothing is assumed of messages and signals.
Fairness ==
    /\ WF_vars(Run /\ ClientRuns) /\ WF_vars(WatchdogRuns) /\ WF_vars(Heartbeat)
    /\ WF_vars(Tasks) /\ WF_vars(Second)

FairSpec == Spec /\ Fairness

-----------------------------------------------------------------------------
\* Nothing is written after the end: every task that logs or writes has ended
\* before run() closes the log or the capture command its writer.
NothingAfterClose == ~wroteLate

\* SIGINT and SIGTERM end the program, wherever the client is: the stop flag
\* alone is forgotten by a connection attempt, and the cancellation alone is
\* swallowed by a read loop that is just ending; together they suffice, even
\* if the log cannot be written.
SignalEnds == signalled ~> main = "exited"

\* "await trader.run()   # blocks until stop() or kill switch halt": once the
\* kill switch has halted, run() returns (if the log can be written).
HaltEndsRun == []~raising => (halted ~> runner = "done")
=============================================================================
