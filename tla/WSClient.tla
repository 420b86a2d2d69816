------------------------------ MODULE WSClient ------------------------------
(***************************************************************************)
(* data/polymarket_ws.py: the WebSocket client.  run() connects,           *)
(* subscribes and reads for ever, sleeping for an exponentially growing    *)
(* time after each connection that ends; a watchdog closes a connection    *)
(* that has gone silent; stop() asks run() to return, and the task that    *)
(* executes run() may be cancelled.  Session has the programs around it    *)
(* and their next-state relation.                                          *)
(*                                                                         *)
(* Time is counted in seconds by relative timers, so that the state space  *)
(* is finite although the client runs for ever.  The server and the        *)
(* network are external: they may become unreachable, drop or freeze a     *)
(* connection, and send messages, at any time.  So may the callbacks raise *)
(* (in paper trading each of them writes to a log).                        *)
(***************************************************************************)
EXTENDS Basics

CONSTANTS
    InitialBackoff, MaxBackoff,    \* INITIAL_BACKOFF_S, MAX_BACKOFF_S
    ClientTimeout,                 \* HEARTBEAT_TIMEOUT_S
    HeartbeatPoll,                 \* HEARTBEAT_POLL_S
    MaxFailures                    \* where the history of failures saturates

ASSUME ClientAssumption ==
    /\ InitialBackoff \in Nat \ {0} /\ MaxBackoff \in Nat /\ InitialBackoff <= MaxBackoff
    /\ ClientTimeout \in Nat \ {0} /\ HeartbeatPoll \in Nat \ {0}
    /\ MaxFailures \in Nat

VARIABLES
    pc,          \* where run() is
    stop,        \* _stop
    cancel,      \* of run()'s task: "no", "asked", "thrown" into the read loop
    closing,     \* ws.close() has been called on the active connection
    backoff,     \* backoff, in seconds
    sleepLeft,   \* seconds left of asyncio.sleep(backoff)
    silence,     \* time.time() - last_msg_ts, saturating
    pollLeft,    \* seconds until the watchdog looks
    watching,    \* the watchdog of the read loop has not died of an exception
    clean,       \* the read loop ended without an exception
    reachable,   \* environment: the server accepts connections
    raising,     \* environment: on_event, on_disconnect, on_resync raise
    age,         \* history: seconds since the connection's last life sign
    failures,    \* history: connections ended since the last subscription
    stoppedIn    \* history: where run() was when stop() was called in its loop

delays     == <<backoff, sleepLeft, failures>>
readLoop   == <<watching, clean>>
lifeSigns  == <<silence, age, pollLeft>>
\* What stop() leaves alone.
kept       == <<pc, cancel, readLoop, delays, lifeSigns, reachable, raising>>
outside    == <<stop, reachable, raising, stoppedIn>>
clientVars == <<pc, cancel, closing, readLoop, delays, lifeSigns, outside>>

Longest == ClientTimeout + HeartbeatPoll + 1
Saturating(n, limit) == Smaller(n, limit)

\* self._current_ws is not None.
Active == pc \in {"subscribing", "reading", "unwinding"}

ClientInit ==
    /\ pc = "connecting" /\ stop = FALSE /\ cancel = "no" /\ closing = FALSE
    /\ backoff = InitialBackoff /\ sleepLeft = 0
    /\ silence = Longest            \* last_msg_ts = 0.0, the epoch
    /\ pollLeft = 0 /\ watching = TRUE /\ clean = FALSE
    /\ reachable \in BOOLEAN /\ raising = FALSE
    /\ age = 0 /\ failures = 0 /\ stoppedIn = "nowhere"

-----------------------------------------------------------------------------
\* run().  A task asked to cancel resumes with CancelledError and nothing else.

At(place) == pc = place /\ cancel # "asked"

\* The connection, or the attempt, is over: sleep before the next, unless a
\* stop was requested or on_disconnect, which nothing guards, raises.  One that
\* ended without an exception is not reported.
Over ==
    /\ closing' = FALSE /\ clean' = FALSE
    /\ failures' = Saturating(failures + 1, MaxFailures)
    /\ IF stop \/ (raising /\ ~clean) THEN pc' = "done" /\ UNCHANGED sleepLeft
                          ELSE pc' = "sleeping" /\ sleepLeft' = backoff
    /\ UNCHANGED <<cancel, watching, backoff, lifeSigns, outside>>

Connected ==
    /\ At("connecting") /\ reachable
    /\ pc' = "subscribing"
    /\ UNCHANGED <<cancel, closing, readLoop, delays, lifeSigns, outside>>

ConnectFails == At("connecting") /\ ~reachable /\ Over

\* Mutant: the backoff survives a successful subscription.
SubscribedKeepsBackoff ==
    /\ At("subscribing") /\ ~raising
    /\ pc' = "reading" /\ watching' = TRUE
    /\ silence' = 0 /\ age' = 0 /\ pollLeft' = HeartbeatPoll /\ failures' = 0
    /\ UNCHANGED <<cancel, closing, clean, backoff, sleepLeft, outside>>

\* Mutant: last_msg_ts is left from the previous connection.
SubscribedKeepsStamp ==
    /\ At("subscribing") /\ ~raising
    /\ pc' = "reading" /\ watching' = TRUE
    /\ backoff' = InitialBackoff
    /\ age' = 0 /\ pollLeft' = HeartbeatPoll /\ failures' = 0
    /\ UNCHANGED <<cancel, closing, clean, silence, sleepLeft, outside>>

\* _subscribe succeeds: the stamp is renewed, on_resync is called, the
\* backoff is reset and the read loop starts its watchdog.
Subscribed ==
    /\ At("subscribing") /\ ~raising
    /\ pc' = "reading" /\ watching' = TRUE
    /\ backoff' = InitialBackoff
    /\ silence' = 0 /\ age' = 0 /\ pollLeft' = HeartbeatPoll /\ failures' = 0
    /\ UNCHANGED <<cancel, closing, clean, sleepLeft, outside>>

\* The connection, a stop() or on_resync made it fail.
SubscribeFails ==
    /\ At("subscribing") /\ (closing \/ ~reachable \/ raising)
    /\ pc' = "leaving"
    /\ UNCHANGED <<cancel, closing, readLoop, delays, lifeSigns, outside>>

\* A message, of any kind, is read; it may still come while closing.
Message ==
    /\ At("reading") /\ reachable
    /\ silence' = 0 /\ age' = 0
    /\ UNCHANGED <<pc, cancel, readLoop, pollLeft, delays>>

\* The read loop ends.  Its finally cancels the watchdog and waits for it, or
\* raises at once what the watchdog died of.
LoopEnds(cleanly) ==
    /\ pc' = IF watching THEN "unwinding" ELSE "leaving"
    /\ clean' = (cleanly /\ watching)
    /\ UNCHANGED <<closing, watching, delays, lifeSigns, outside>>

\* The peer or the network ended the connection.  The async for raises, or it
\* ends like any loop if the connection was closed with a normal code.
ConnectionLost ==
    At("reading") /\ UNCHANGED cancel /\ \E cleanly \in BOOLEAN : LoopEnds(cleanly)

\* A close that stop() or the watchdog began has finished.
CloseCompletes == closing /\ ConnectionLost

Unwound ==
    /\ pc = "unwinding" /\ cancel = "no"
    /\ pc' = "leaving"
    /\ UNCHANGED <<cancel, closing, readLoop, delays, lifeSigns, outside>>

\* The connection's context manager has closed it.
Left == At("leaving") /\ Over

NextBackoff(b) == Smaller(2 * b, MaxBackoff)

SleepEnds ==
    /\ At("sleeping") /\ sleepLeft = 0
    /\ backoff' = NextBackoff(backoff)
    /\ pc' = IF stop THEN "done" ELSE "connecting"
    /\ UNCHANGED <<cancel, closing, readLoop, sleepLeft, failures, lifeSigns, outside>>

-----------------------------------------------------------------------------
\* CancelledError.  No except clause of run() catches it.

Cancelled ==
    /\ cancel = "asked" /\ pc \in {"connecting", "subscribing", "leaving", "sleeping"}
    /\ pc' = "done" /\ cancel' = "no" /\ closing' = FALSE
    /\ UNCHANGED <<readLoop, delays, lifeSigns, outside>>

\* Thrown into the read loop, it waits for the finally; the exception of a
\* dead watchdog takes its place.
CancelledReading ==
    /\ cancel = "asked" /\ pc = "reading"
    /\ LoopEnds(FALSE)
    /\ cancel' = IF watching THEN "thrown" ELSE "no"

\* The finally suppresses the CancelledError of the watchdog it awaits, and
\* with it one that was meant for run() itself.
CancelSwallowed ==
    /\ cancel = "asked" /\ pc = "unwinding"
    /\ cancel' = "no"
    /\ UNCHANGED <<pc, closing, readLoop, delays, lifeSigns, outside>>

\* One that was thrown before the finally goes on when the finally is over.
CancelledUnwound ==
    /\ cancel = "thrown" /\ pc = "unwinding"
    /\ pc' = "done" /\ cancel' = "no" /\ closing' = FALSE
    /\ UNCHANGED <<readLoop, delays, lifeSigns, outside>>

-----------------------------------------------------------------------------
\* The watchdog of _read_loop: it reports a freeze and closes the connection,
\* or dies of the report.

\* Mutant: it never closes anything.
TooSilentNever == FALSE

TooSilent == silence > ClientTimeout

WatchdogLooks ==
    /\ pc = "reading" /\ watching /\ pollLeft = 0 /\ ~closing
    /\ closing' = (TooSilent /\ ~raising)
    /\ watching' = ~(TooSilent /\ raising)
    /\ pollLeft' = HeartbeatPoll
    /\ UNCHANGED <<pc, cancel, clean, delays, silence, age, outside>>

-----------------------------------------------------------------------------
\* stop(), from the running loop or from a synchronous caller.

\* Mutant: stop() only sets the flag.
StopFlagOnly(inLoop) ==
    /\ stop' = TRUE
    /\ stoppedIn' = IF inLoop THEN pc ELSE stoppedIn
    /\ UNCHANGED closing

Stop(inLoop) ==
    /\ stop' = TRUE
    /\ closing' = (closing \/ (inLoop /\ Active))
    /\ stoppedIn' = IF inLoop THEN pc ELSE stoppedIn

-----------------------------------------------------------------------------
\* What a second changes here.  No timer that is due is overslept, and a
\* close that was started, a cancellation and a clean-up take no time.

ClientSecond ==
    /\ ~closing /\ cancel = "no" /\ pc \notin {"unwinding", "leaving"}
    /\ pc = "sleeping" => sleepLeft > 0
    /\ pc = "reading" /\ watching => pollLeft > 0
    /\ sleepLeft' = Floor0(sleepLeft - 1)
    /\ pollLeft' = Floor0(pollLeft - 1)
    /\ silence' = Saturating(silence + 1, Longest)
    /\ age' = Saturating(age + 1, Longest)
    /\ UNCHANGED <<pc, cancel, closing, readLoop, backoff, failures, outside>>

Run == \/ Connected \/ ConnectFails \/ Subscribed \/ SubscribeFails
       \/ CloseCompletes \/ Unwound \/ Left \/ SleepEnds
       \/ Cancelled \/ CancelledReading \/ CancelSwallowed \/ CancelledUnwound

-----------------------------------------------------------------------------
\* The initial delay, doubled n times.
Doubled[n \in 0 .. MaxFailures] ==
    IF n = 0 THEN InitialBackoff ELSE 2 * Doubled[n - 1]

\* Failures are counted until the delay has reached its maximum.
ASSUME SaturationAssumption ==
    MaxFailures > 0 /\ Doubled[MaxFailures - 1] >= MaxBackoff

\* The delay before the next attempt depends only on how many connections
\* ended since the last subscription: it doubles with each of them, from the
\* initial delay to the maximum, and a subscription starts it afresh.
BackoffMatchesFailures ==
    pc = "sleeping" => backoff = Smaller(Doubled[Floor0(failures - 1)], MaxBackoff)

\* The watchdog spares the living: it closes a connection only if that very
\* connection has been silent for too long, however long ago the previous
\* one was heard.
WatchdogSparesTheLiving ==
    [][WatchdogLooks /\ closing' => age > ClientTimeout]_clientVars

\* Once the network stays up, a client nobody stops hears from the server
\* again and again (a message, or a fresh subscription), whatever was dropped
\* before and although a connection may freeze without being closed, as long
\* as no callback raises.
AlwaysReconnects ==
    <>[]reachable /\ []~raising => [](~stop => <>((pc = "reading" /\ silence = 0) \/ stop))

\* stop() is answered: called while a connection is active or while run()
\* sleeps, it makes run() return although the feed keeps sending.
StopIsAnswered ==
    (stoppedIn \in {"subscribing", "reading", "unwinding", "leaving", "sleeping"})
        ~> (pc = "done")
=============================================================================
