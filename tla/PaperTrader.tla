---------------------------- MODULE PaperTrader ----------------------------
(***************************************************************************)
(* live/paper_trade.py: the paper-trading runner.  Coroutines of one event *)
(* loop share the state: the WebSocket read loop, which handles a message  *)
(* to its end without yielding (drain the due arrivals, apply the event,   *)
(* tick the kill switch, call the strategy), the heartbeat watchdog and    *)
(* whoever calls stop().  pc tells where the handler of a message is; the  *)
(* others run only while it is "idle".                                     *)
(*                                                                         *)
(* Two clocks: server timestamps order events and arrivals and may arrive  *)
(* out of order; the wall clock drives the kill switch.  The WebSocket     *)
(* client is reduced to its connection state (WSClient has the rest).      *)
(***************************************************************************)
EXTENDS OrderExecution, RiskLimits, FiniteSetsExt

CONSTANTS
    InitialBook,     \* the empty book, with its tick
    MarketMoves,     \* market events of our token, without timestamps
    Stamps,          \* server timestamps an event may carry
    Latencies,       \* what latency.sample() may add
    OrderKinds,      \* [side, price, size, postOnly] a strategy may place
    WatchInterval,   \* heartbeat_check_interval_s
    MaxEvents,       \* bound on the market events
    MaxOrders,       \* bound on the orders
    MaxCancels,      \* bound on the cancellations
    MaxWall          \* bound on the wall clock

ASSUME RunnerAssumption ==
    /\ Stamps \subseteq Nat /\ Latencies \subseteq Nat
    /\ WatchInterval \in Nat \ {0}
    /\ MaxEvents \in Nat /\ MaxOrders \in Nat /\ MaxCancels \in Nat /\ MaxWall \in Nat

\* The runner's own book starts without orders, the feed carries events of the
\* right types and the strategy only places what place_limit accepts.
ASSUME InputsAssumption ==
    /\ InitialBook \in FreshBooks
    /\ MarketMoves \subseteq FeedMoves
    /\ OrderKinds \subseteq Placeable

VARIABLES
    pc,          \* "idle", or inside the handler: "drain", "halt", "strategy"
    ev,          \* the market event in the handler
    now,         \* _now_ms
    arrivals,    \* _pending_arrivals, as the set of its events
    seq,         \* next value of _seq_counter
    book,        \* _book
    pending,     \* _pending_places
    ourIds,      \* _our_order_ids
    nextOid,     \* next value of _next_order_id
    acct, fills, lastMid,
    switch,      \* the KillSwitch
    haltLogged,  \* _halt_logged
    stop,        \* _stop of the trader
    client,      \* [state, stop]: the connection and _stop of the client
    watching,    \* the heartbeat task is alive
    wall,        \* time.time()
    nextWake,    \* when the sleep of the heartbeat task ends
    events,      \* history: market events received, and their latest timestamp
    placed,      \* history: order id -> what was placed, and when
    cancels      \* history: order ids whose cancellation was requested

orderVars == <<arrivals, seq, book, pending, ourIds, nextOid, acct, fills,
               lastMid, placed, cancels>>
riskVars  == <<switch, haltLogged, stop, client, watching, wall, nextWake>>
vars      == <<pc, ev, now, events, orderVars, riskVars>>

Oids == 1 .. MaxOrders
NoEvent == [kind |-> "none"]

Without(f, S) == [x \in DOMAIN f \ S |-> f[x]]

Init ==
    /\ pc = "idle" /\ ev = NoEvent /\ now = 0
    /\ events = [count |-> 0, latest |-> 0]
    /\ arrivals = {} /\ seq = 0 /\ book = InitialBook
    /\ pending = << >> /\ ourIds = {} /\ nextOid = 1
    /\ acct = NoAccount /\ fills = {} /\ lastMid = None
    /\ placed = << >> /\ cancels = << >>
    /\ switch = NewSwitch /\ haltLogged = FALSE /\ stop = FALSE
    /\ client = [state |-> "connecting", stop |-> FALSE]
    /\ watching = TRUE /\ wall = 0 /\ nextWake = WatchInterval

-----------------------------------------------------------------------------
\* The client.  stop() closes the connection only if there is one.

Connected == client.state \in {"reading", "closing"}

StoppedClient ==
    [state |-> IF client.state = "reading" THEN "closing" ELSE client.state,
     stop  |-> TRUE]

ClientConnects ==
    /\ pc = "idle" /\ client.state = "connecting"
    /\ client' = [client EXCEPT !.state = "reading"]
    /\ UNCHANGED <<pc, ev, now, events, orderVars, switch, haltLogged, stop,
                   watching, wall, nextWake>>

\* A connection attempt fails or the connection is lost; run() returns if
\* stop was requested, and takes the heartbeat task with it.
ClientDrops ==
    /\ pc = "idle" /\ client.state # "ended"
    /\ client' = [client EXCEPT !.state = IF client.stop THEN "ended" ELSE "connecting"]
    /\ watching' = (watching /\ ~client.stop)
    /\ UNCHANGED <<pc, ev, now, events, orderVars, switch, haltLogged, stop,
                   wall, nextWake>>

UserStops ==
    /\ pc = "idle" /\ client.state # "ended"
    /\ stop' = TRUE
    /\ client' = StoppedClient
    /\ UNCHANGED <<pc, ev, now, events, orderVars, switch, haltLogged,
                   watching, wall, nextWake>>

-----------------------------------------------------------------------------
\* _on_ws_event.

\* A message that is not a market event of our token.
ForeignMessage ==
    /\ pc = "idle" /\ Connected
    /\ switch' = NoteWsMessage(switch, wall)
    /\ UNCHANGED <<pc, ev, now, events, orderVars, haltLogged, stop, client,
                   watching, wall, nextWake>>

ReceiveEvent(m, ts) ==
    /\ pc = "idle" /\ Connected /\ events.count < MaxEvents
    /\ switch' = NoteWsMessage(switch, wall)
    /\ ev' = Stamped(m, ts, None)
    /\ pc' = "drain"
    /\ events' = [count |-> events.count + 1, latest |-> Larger(events.latest, ts)]
    /\ UNCHANGED <<now, orderVars, haltLogged, stop, client, watching, wall, nextWake>>

\* Mutant: every pending arrival is taken, whatever its time.
DueWhenPending(e) == TRUE

\* The arrivals that have landed by the time of the event.
Due(e) == e.ts <= ev.ts

PlaceArrives(e) ==
    /\ e.kind = "place_arrival"
    /\ IF e.order.oid \notin DOMAIN pending
       THEN UNCHANGED <<pending, book, ourIds, acct, fills>>
       ELSE LET new == ArrivalFills(book, e.order, now', e.seq)
            IN  /\ pending' = Without(pending, {e.order.oid})
                /\ book' = BookAfterArrival(book, e.order, now')
                /\ ourIds' = IF e.order.oid \in DOMAIN book'.orders
                             THEN ourIds \cup {e.order.oid} ELSE ourIds
                /\ fills' = fills \cup new
                /\ acct' = RecordFills(acct, new)

\* Mutant: a cancelled order stays in the set of tracked ids.
CancelArrivesUntracked(e) ==
    /\ e.kind = "cancel_arrival"
    /\ book' = RemoveOurOrder(book, e.oid)
    /\ pending' = Without(pending, {e.oid})
    /\ UNCHANGED <<ourIds, acct, fills>>

CancelArrives(e) ==
    /\ e.kind = "cancel_arrival"
    /\ book' = RemoveOurOrder(book, e.oid)
    /\ ourIds' = ourIds \ {e.oid}
    /\ pending' = Without(pending, {e.oid})
    /\ UNCHANGED <<acct, fills>>

\* One turn of _drain_arrivals_up_to.
DrainArrival ==
    /\ pc = "drain" /\ \E e \in arrivals : Due(e)
    /\ LET e == Earliest(arrivals)
       IN  /\ arrivals' = arrivals \ {e}
           /\ now' = Larger(now, e.ts)
           /\ PlaceArrives(e) \/ CancelArrives(e)
    /\ UNCHANGED <<pc, ev, events, seq, nextOid, lastMid, placed, cancels, riskVars>>

\* mark_to_mid is doubled, and so is what the switch is told.
ApplyEvent ==
    /\ pc = "drain" /\ \A e \in arrivals : ~Due(e)
    /\ now' = Larger(now, ev.ts)
    /\ seq' = seq + 1
    /\ book' = BookAfterMarket(book, ev)
    /\ LET new == MarketFills(book, ev, seq)
       IN  /\ fills' = fills \cup new
           /\ acct' = RecordFills(acct, new)
           /\ ourIds' = ourIds \ {f.oid : f \in {x \in new : x.oid \notin DOMAIN book'.orders}}
    /\ lastMid' = MidAfterMarket(book, ev, lastMid)
    /\ switch' = Tick(switch, wall, MarkToMid2(acct', lastMid'), acct'.inventory)
    /\ pc' = IF switch'.halted THEN "halt" ELSE "strategy"
    /\ UNCHANGED <<ev, events, arrivals, pending, nextOid, placed, cancels,
                   haltLogged, stop, client, watching, wall, nextWake>>

\* Mutant: orders still in flight are forgotten by the clean-up.
OnHaltRestingOnly ==
    /\ book' = [book EXCEPT !.orders = Without(@, IF haltLogged THEN {} ELSE ourIds)]
    /\ ourIds' = IF haltLogged THEN ourIds ELSE {}
    /\ UNCHANGED <<pending, arrivals>>
    /\ haltLogged' = TRUE
    /\ client' = StoppedClient

\* _on_halt: the first call cleans up, every call stops the client.
OnHalt ==
    /\ IF haltLogged THEN UNCHANGED <<book, ourIds, pending, arrivals>>
       ELSE /\ book' = [book EXCEPT !.orders = Without(@, ourIds)]
            /\ ourIds' = {} /\ pending' = << >> /\ arrivals' = {}
    /\ haltLogged' = TRUE
    /\ client' = StoppedClient

HaltInHandler ==
    /\ pc = "halt"
    /\ OnHalt
    /\ pc' = "idle" /\ ev' = NoEvent
    /\ UNCHANGED <<now, events, seq, nextOid, acct, fills, lastMid, placed,
                   cancels, switch, stop, watching, wall, nextWake>>

-----------------------------------------------------------------------------
\* The strategy's calls, inside on_event.

PushArrival(e) == arrivals' = arrivals \cup {e} /\ seq' = seq + 1

PlaceLimit(k, delay) ==
    /\ pc = "strategy" /\ nextOid <= MaxOrders
    /\ LET p == [oid |-> nextOid, side |-> k.side, price |-> k.price,
                 size |-> k.size, postOnly |-> k.postOnly]
       IN  /\ pending' = [o \in DOMAIN pending \cup {nextOid} |->
                            IF o = nextOid THEN p ELSE pending[o]]
           /\ PushArrival([ts |-> now + delay, seq |-> seq,
                           kind |-> "place_arrival", order |-> p])
    /\ placed' = [o \in 1 .. nextOid |->
                    IF o = nextOid THEN [side |-> k.side, size |-> k.size, arrives |-> now + delay]
                    ELSE placed[o]]
    /\ nextOid' = nextOid + 1
    /\ UNCHANGED <<pc, ev, now, events, book, ourIds, acct, fills, lastMid,
                   cancels, riskVars>>

Cancel(oid, delay) ==
    /\ pc = "strategy" /\ Len(cancels) < MaxCancels
    /\ PushArrival([ts |-> now + delay, seq |-> seq,
                    kind |-> "cancel_arrival", oid |-> oid])
    /\ cancels' = Append(cancels, oid)
    /\ UNCHANGED <<pc, ev, now, events, book, pending, ourIds, nextOid, acct,
                   fills, lastMid, placed, riskVars>>

\* on_event returns or raises; either way the runner goes on.
StrategyReturns ==
    /\ pc = "strategy"
    /\ pc' = "idle" /\ ev' = NoEvent
    /\ UNCHANGED <<now, events, orderVars, riskVars>>

-----------------------------------------------------------------------------
\* The heartbeat task, and the wall clock.

\* Mutant: the watchdog ends with the first check that finds the feed alive.
StaysAwake == FALSE

\* _heartbeat_loop goes round again unless stop() was called.
KeepsWatching == ~stop

HeartbeatWakes ==
    /\ pc = "idle" /\ watching /\ wall = nextWake
    /\ switch' = HeartbeatCheck(switch, wall)
    /\ IF switch'.halted
       THEN OnHalt /\ watching' = FALSE
       ELSE /\ UNCHANGED <<book, ourIds, pending, arrivals, haltLogged, client>>
            /\ watching' = KeepsWatching
    /\ nextWake' = wall + WatchInterval
    /\ UNCHANGED <<pc, ev, now, events, seq, nextOid, acct, fills, lastMid,
                   placed, cancels, stop, wall>>

\* Handlers take no time, and a sleep that is over ends before more passes.
PassTime ==
    /\ pc = "idle" /\ wall < MaxWall /\ (watching => wall < nextWake)
    /\ wall' = wall + 1
    /\ UNCHANGED <<pc, ev, now, events, orderVars, switch, haltLogged, stop,
                   client, watching, nextWake>>

\* run() has returned.
Ended == client.state = "ended" /\ pc = "idle" /\ UNCHANGED vars

Next ==
    \/ ClientConnects \/ ClientDrops \/ UserStops
    \/ ForeignMessage
    \/ \E m \in MarketMoves, ts \in Stamps : ReceiveEvent(m, ts)
    \/ DrainArrival \/ ApplyEvent \/ HaltInHandler
    \/ \E k \in OrderKinds, delay \in Latencies : PlaceLimit(k, delay)
    \/ \E oid \in 1 .. (nextOid - 1), delay \in Latencies : Cancel(oid, delay)
    \/ StrategyReturns
    \/ HeartbeatWakes \/ PassTime
    \/ Ended

Spec == Init /\ [][Next]_vars

-----------------------------------------------------------------------------
\* A halt is final and complete, whichever coroutine found the breach and
\* whatever was resting, in flight or being cancelled: afterwards nothing
\* rests, nothing is on its way and the strategy is not called, although
\* events keep arriving until the connection is closed (_on_halt).
HaltIsFinal ==
    haltLogged =>
        /\ DOMAIN book.orders = {} /\ DOMAIN pending = {} /\ arrivals = {}
        /\ pc # "strategy"
        /\ switch.halted

\* The set of ids that _on_halt walks to withdraw our orders is exactly the
\* set of orders on the book, after fills, partial fills and cancellations.
TracksItsOrders == ourIds = DOMAIN book.orders

\* Latency is honoured although server timestamps may run backwards and
\* arrivals are drained ahead of the event that makes them due: no order
\* rests or has traded before the feed has reached its arrival time, and the
\* runner's clock never leaves the feed's behind.
LatencyHonoured ==
    /\ \A o \in DOMAIN book.orders :
          placed[o].arrives <= book.orders[o].placedAt /\ placed[o].arrives <= events.latest
    /\ \A f \in fills : placed[f.oid].arrives <= events.latest
    /\ now <= events.latest

\* The strategy runs only while the account, with the fills of the event that
\* it is called for, breaches neither rule that halts all trading: it is within
\* the drawdown from the peak and within the loss since the day's anchor.  The
\* switch is not halted and knows the account's inventory; whether that is
\* within the cap is not said: see CapHaltsNewOrders.
RiskCheckedFirst ==
    LET pnl == MarkToMid2(acct, lastMid)
    IN  pc = "strategy" =>
           /\ ~switch.halted
           /\ switch.inventory = acct.inventory
           /\ ~DrawdownBreached(switch, pnl)
           /\ DailyLossLimit # 0 => switch.dailyAnchor - pnl <= DailyLossLimit

\* Silence is noticed: once the feed has spoken, a runner nobody stopped has
\* halted when the silence is longer than the timeout and one sleep of the
\* watchdog ("a frozen feed actually trips the halt").
SilenceNoticed ==
    (~stop /\ client.state # "ended" /\ switch.lastEvent # None
       /\ wall - switch.lastEvent > HeartbeatTimeout + WatchInterval) => haltLogged

\* limits.py: "Inventory cap exceeded - halts NEW orders on the violating
\* side".  An order is placed only when can_open allows its side.
CapHaltsNewOrders ==
    [][\A o \in DOMAIN placed' \ DOMAIN placed : CanOpen(switch, placed'[o].side)]_vars

-----------------------------------------------------------------------------
\* Refinement: the runner keeps the promises of OrderLifecycle, and stops
\* where a halt is logged.
Phase(o) == CASE o \notin DOMAIN placed   -> "unborn"
              [] o \in DOMAIN pending     -> "inflight"
              [] o \in DOMAIN book.orders -> "resting"
              [] OTHER                    -> "done"

FilledOf(o) == MapThenSumSet(LAMBDA f : f.size, {f \in fills : f.oid = o})

Lifecycle == INSTANCE OrderLifecycle WITH
    Orders      <- Oids,
    phase       <- [o \in Oids |-> Phase(o)],
    size        <- [o \in Oids |-> IF o \in DOMAIN placed THEN placed[o].size ELSE 0],
    filled      <- [o \in Oids |-> FilledOf(o)],
    cancelAsked <- {cancels[i] : i \in DOMAIN cancels},
    stopped     <- haltLogged

\* Every run of the paper trader is a run of OrderLifecycle, halts included:
\* the step that logs the halt withdraws every live order, and no order is
\* born or moves after it.
ImplementsLifecycle == Lifecycle!Spec
=============================================================================
