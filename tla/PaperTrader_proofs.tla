------------------------- MODULE PaperTrader_proofs -------------------------
(***************************************************************************)
(* Proofs about PaperTrader, for every feed, latency model, strategy,      *)
(* configuration of the limits and bound.                                  *)
(*                                                                         *)
(* SwitchSound: once the risk check of an event is over and trading goes   *)
(* on, the kill switch holds the position that the fills add up to, and    *)
(* the drawdown is within its limit.  LossSound: the loss since the day's  *)
(* anchor is, too; it compares amounts, so it needs OrdersSound to know    *)
(* that the account holds numbers.                                         *)
(* Watched: the stamp that the watchdog reads is no older than the timeout *)
(* plus the wake that is due, so silence is noticed.                       *)
(*                                                                         *)
(* OrdersSound: what pending orders, arrivals, cancellations on the way,   *)
(* the book, the fills and the account say about each other, and with it   *)
(* that the index of orders the runner keeps by hand is exact.  It is the  *)
(* invariant of Backtester without its clock: server stamps may run back,  *)
(* so what keeps an arrival from being early is the order of the drain.    *)
(*                                                                         *)
(* Each part of the handler then does one of four things to an order       *)
(* (Effect), and a halt empties all three places where one can be.         *)
(***************************************************************************)
EXTENDS PaperTrader, OrderExecution_proofs

-----------------------------------------------------------------------------
\* The kill switch as the runner sees it.

SwitchFields ==
    {"peak", "inventory", "lastEvent", "dailyLoss", "dailyAnchor", "day", "halted", "reason"}

IsSwitch(k) == DOMAIN k = SwitchFields

\* What the bookkeeping half of tick() leaves in the fields the runner reads.
LEMMA ObservedFields ==
    ASSUME NEW k, IsSwitch(k), NEW t, NEW pnl, NEW inventory
    PROVE  LET o == Observe(k, t, pnl, inventory)
           IN  /\ IsSwitch(o) /\ o.inventory = inventory
               /\ o.lastEvent = t /\ o.halted = k.halted
BY DEF Observe, IsSwitch, SwitchFields

LEMMA TrippedFields ==
    ASSUME NEW k, IsSwitch(k), NEW reason
    PROVE  /\ IsSwitch(Trip(k, reason)) /\ Trip(k, reason).halted = TRUE
           /\ Trip(k, reason).inventory = k.inventory
           /\ Trip(k, reason).lastEvent = k.lastEvent
BY DEF Trip, IsSwitch, SwitchFields

\* A tick stores what it is told, never takes a halt back, and leaves the
\* switch open only if the drawdown is within its limit.
LEMMA TickFields ==
    ASSUME NEW k, IsSwitch(k), k.halted \in BOOLEAN, NEW t, NEW pnl, NEW inventory
    PROVE  LET s == Tick(k, t, pnl, inventory)
           IN  /\ IsSwitch(s) /\ s.halted \in BOOLEAN
               /\ s.inventory = inventory /\ s.lastEvent = t
               /\ k.halted => s.halted
               /\ ~s.halted => ~DrawdownBreached(s, pnl)
<1> DEFINE o == Observe(k, t, pnl, inventory)
           s == Tick(k, t, pnl, inventory)
<1>1. IsSwitch(o) /\ o.inventory = inventory /\ o.lastEvent = t /\ o.halted = k.halted
  BY ObservedFields
<1>2. s = CASE DrawdownBreached(o, pnl) -> Trip(o, "max_drawdown")
            [] ~DrawdownBreached(o, pnl) /\ DailyLossBreached(o) -> Trip(o, "daily_loss")
            [] OTHER -> o
  BY DEF Tick
<1> HIDE DEF o, s
<1>3. CASE DrawdownBreached(o, pnl)
  <2>1. s = Trip(o, "max_drawdown")
    BY <1>2, <1>3
  <2>2. /\ IsSwitch(s) /\ s.halted = TRUE
        /\ s.inventory = o.inventory /\ s.lastEvent = o.lastEvent
    BY <1>1, <2>1, TrippedFields
  <2> QED
    BY <1>1, <2>2 DEF s
<1>4. CASE ~DrawdownBreached(o, pnl) /\ DailyLossBreached(o)
  <2>1. s = Trip(o, "daily_loss")
    BY <1>2, <1>4
  <2>2. /\ IsSwitch(s) /\ s.halted = TRUE
        /\ s.inventory = o.inventory /\ s.lastEvent = o.lastEvent
    BY <1>1, <2>1, TrippedFields
  <2> QED
    BY <1>1, <2>2 DEF s
<1>5. CASE ~DrawdownBreached(o, pnl) /\ ~DailyLossBreached(o)
  <2>1. s = o
    BY <1>2, <1>5
  <2> QED
    BY <1>1, <1>5, <2>1 DEF s
<1> QED
  BY <1>3, <1>4, <1>5

LEMMA HeardFields ==
    ASSUME NEW k, IsSwitch(k), NEW t
    PROVE  LET s == NoteWsMessage(k, t)
           IN  /\ IsSwitch(s) /\ s.halted = k.halted
               /\ s.inventory = k.inventory /\ s.lastEvent = t
BY DEF NoteWsMessage, IsSwitch, SwitchFields

\* The watchdog's check trips the switch if the feed has been silent.
LEMMA CheckedFields ==
    ASSUME NEW k, IsSwitch(k), k.halted \in BOOLEAN, NEW t
    PROVE  LET s == HeartbeatCheck(k, t)
           IN  /\ IsSwitch(s) /\ s.halted \in BOOLEAN /\ s.lastEvent = k.lastEvent
               /\ k.halted => s.halted
               /\ ~s.halted => ~Silent(k, t)
<1>1. CASE Silent(k, t)
  BY <1>1, TrippedFields DEF HeartbeatCheck
<1>2. CASE ~Silent(k, t)
  BY <1>2 DEF HeartbeatCheck
<1> QED
  BY <1>1, <1>2

-----------------------------------------------------------------------------
\* The switch, the watchdog and the handler.

\* What the risk check leaves when it does not halt.
Checked ==
    pc = "strategy" =>
        /\ ~switch.halted
        /\ switch.inventory = acct.inventory
        /\ ~DrawdownBreached(switch, MarkToMid2(acct, lastMid))

\* Where the handler is says whether the switch has halted.
SwitchSound ==
    /\ IsSwitch(switch) /\ switch.halted \in BOOLEAN
    /\ pc \in {"idle", "drain", "halt", "strategy"}
    /\ pc = "halt" => switch.halted
    /\ haltLogged => switch.halted
    /\ Checked

LEMMA InitSwitch == Init => SwitchSound
BY DEF Init, SwitchSound, NewSwitch, IsSwitch, SwitchFields, Checked

\* Tick is told the account and the mid as the event leaves them.
LEMMA ApplyKeepsSwitch ==
    ASSUME SwitchSound, ApplyEvent
    PROVE  SwitchSound'
<1> DEFINE pnl == MarkToMid2(acct', lastMid')
<1>1. /\ switch' = Tick(switch, wall, pnl, acct'.inventory)
      /\ pc' = IF switch'.halted THEN "halt" ELSE "strategy"
      /\ haltLogged' = haltLogged
  BY DEF ApplyEvent
<1>2. /\ IsSwitch(switch') /\ switch'.halted \in BOOLEAN
      /\ switch'.inventory = acct'.inventory
      /\ switch.halted => switch'.halted
      /\ ~switch'.halted => ~DrawdownBreached(switch', pnl)
  BY <1>1, TickFields DEF SwitchSound
<1> HIDE DEF pnl
<1>3. Checked'
  BY <1>1, <1>2 DEF Checked, pnl
<1> QED
  BY <1>1, <1>2, <1>3 DEF SwitchSound

LEMMA StepSwitch == SwitchSound /\ [Next]_vars => SwitchSound'
<1> SUFFICES ASSUME SwitchSound, [Next]_vars PROVE SwitchSound'
  OBVIOUS
<1>1. CASE ClientConnects \/ ClientDrops \/ UserStops \/ PassTime
  BY <1>1 DEF ClientConnects, ClientDrops, UserStops, PassTime, SwitchSound, Checked
<1>2. CASE ForeignMessage
  BY <1>2, HeardFields DEF ForeignMessage, SwitchSound, Checked
<1>3. ASSUME NEW m \in MarketMoves, NEW ts \in Stamps, ReceiveEvent(m, ts) PROVE SwitchSound'
  BY <1>3, HeardFields DEF ReceiveEvent, SwitchSound, Checked
<1>4. CASE DrainArrival
  BY <1>4 DEF DrainArrival, riskVars, SwitchSound, Checked
<1>5. CASE ApplyEvent
  BY <1>5, ApplyKeepsSwitch
<1>6. CASE HaltInHandler
  BY <1>6 DEF HaltInHandler, OnHalt, SwitchSound, Checked
<1>7. ASSUME NEW k \in OrderKinds, NEW delay \in Latencies, PlaceLimit(k, delay)
      PROVE  SwitchSound'
  BY <1>7 DEF PlaceLimit, riskVars, SwitchSound, Checked
<1>8. ASSUME NEW oid \in 1 .. (nextOid - 1), NEW delay \in Latencies, Cancel(oid, delay)
      PROVE  SwitchSound'
  BY <1>8 DEF Cancel, riskVars, SwitchSound, Checked
<1>9. CASE StrategyReturns
  BY <1>9 DEF StrategyReturns, riskVars, SwitchSound, Checked
<1>10. CASE HeartbeatWakes
  <2>1. /\ switch' = HeartbeatCheck(switch, wall)
        /\ pc = "idle" /\ pc' = pc
        /\ switch'.halted \/ haltLogged' = haltLogged
    BY <1>10 DEF HeartbeatWakes
  <2>2. IsSwitch(switch') /\ switch'.halted \in BOOLEAN /\ (switch.halted => switch'.halted)
    BY <2>1, CheckedFields DEF SwitchSound
  <2> QED
    BY <2>1, <2>2 DEF SwitchSound, Checked
<1>11. CASE Ended \/ UNCHANGED vars
  BY <1>11 DEF Ended, vars, riskVars, orderVars, SwitchSound, Checked
<1> QED
  BY <1>1, <1>2, <1>3, <1>4, <1>5, <1>6, <1>7, <1>8, <1>9, <1>10, <1>11 DEF Next

LEMMA SwitchStaysSound == Spec => []SwitchSound
BY InitSwitch, StepSwitch, PTL DEF Spec

-----------------------------------------------------------------------------
\* Silence.

Clients == [state : {"connecting", "reading", "closing", "ended"}, stop : BOOLEAN]

\* The watchdog sleeps until nextWake, and it last looked one
\* interval before that: since then the feed has been heard, or it had been
\* silent for no longer than the timeout.
Watched ==
    /\ client \in Clients /\ watching \in BOOLEAN
    /\ wall \in Nat /\ nextWake \in Nat /\ switch.lastEvent \in Nat \cup {None}
    /\ stop \in BOOLEAN /\ haltLogged \in BOOLEAN
    /\ ~stop /\ ~haltLogged => watching /\ ~client.stop
    /\ watching => wall <= nextWake
    /\ nextWake <= wall + WatchInterval
    /\ ~stop /\ ~haltLogged /\ switch.lastEvent # None =>
          nextWake - WatchInterval - switch.lastEvent <= HeartbeatTimeout

LEMMA InitWatched == Init => Watched
<1> SUFFICES ASSUME Init PROVE Watched
  OBVIOUS
<1>1. /\ wall = 0 /\ nextWake = WatchInterval /\ switch.lastEvent = None
      /\ stop = FALSE /\ haltLogged = FALSE /\ watching = TRUE
      /\ client = [state |-> "connecting", stop |-> FALSE]
  BY DEF Init, NewSwitch
<1>2. client \in Clients /\ ~client.stop
  BY <1>1 DEF Clients
<1>3. /\ watching \in BOOLEAN /\ stop \in BOOLEAN /\ haltLogged \in BOOLEAN /\ watching
  BY <1>1
<1>4. WatchInterval \in Nat
  BY RunnerAssumption
<1>5. /\ wall \in Nat /\ nextWake \in Nat /\ wall <= nextWake
      /\ nextWake <= wall + WatchInterval
  BY <1>1, <1>4
<1>6. switch.lastEvent \in Nat \cup {None}
  BY <1>1
<1> QED
  BY <1>1, <1>2, <1>3, <1>5, <1>6 DEF Watched

\* To hear the feed restarts the measure.
LEMMA HearingKeepsWatched ==
    ASSUME Watched, switch'.lastEvent = wall,
           UNCHANGED <<wall, nextWake, stop, haltLogged, watching, client>>
    PROVE  Watched'
BY RunnerAssumption, LimitsAssumption DEF Watched

\* A step that leaves the watchdog alone, the clock included.
LEMMA IdleKeepsWatched ==
    ASSUME Watched, UNCHANGED <<switch, wall, nextWake, stop, haltLogged, watching, client>>
    PROVE  Watched'
BY DEF Watched

LEMMA WakingKeepsWatched ==
    ASSUME SwitchSound, Watched, HeartbeatWakes
    PROVE  Watched'
<1>1. /\ watching /\ wall = nextWake /\ wall' = wall /\ stop' = stop
      /\ nextWake' = wall + WatchInterval
      /\ switch' = HeartbeatCheck(switch, wall)
  BY DEF HeartbeatWakes
<1>2. switch'.lastEvent = switch.lastEvent /\ (~switch'.halted => ~Silent(switch, wall))
  BY <1>1, CheckedFields DEF SwitchSound
<1>3. WatchInterval \in Nat \ {0} /\ HeartbeatTimeout \in Nat
  BY RunnerAssumption, LimitsAssumption
<1>4. CASE switch'.halted
  <2>1. haltLogged' = TRUE /\ watching' = FALSE /\ client' \in Clients
    <3>1. OnHalt /\ watching' = FALSE
      BY <1>4 DEF HeartbeatWakes
    <3>2. client' = StoppedClient /\ haltLogged' = TRUE
      BY <3>1 DEF OnHalt
    <3>3. StoppedClient \in Clients
      BY DEF StoppedClient, Watched, Clients
    <3> QED
      BY <3>1, <3>2, <3>3
  <2>2. stop' \in BOOLEAN /\ haltLogged' \in BOOLEAN /\ watching' \in BOOLEAN
    BY <1>1, <2>1 DEF Watched
  <2>3. /\ wall' \in Nat /\ nextWake' \in Nat /\ switch'.lastEvent \in Nat \cup {None}
        /\ nextWake' <= wall' + WatchInterval
    BY <1>1, <1>2, <1>3 DEF Watched
  <2> QED
    BY <2>1, <2>2, <2>3 DEF Watched
<1>5. CASE ~switch'.halted
  <2>1. haltLogged' = haltLogged /\ watching' = ~stop /\ client' = client
    BY <1>5 DEF HeartbeatWakes, KeepsWatching
  <2>2. switch.lastEvent # None => wall - switch.lastEvent <= HeartbeatTimeout
    BY <1>2, <1>3, <1>5 DEF Silent, Watched, None
  <2>3. nextWake' - WatchInterval = wall
    BY <1>1, <1>3 DEF Watched
  <2>4. ~stop' /\ ~haltLogged' => watching' /\ ~client'.stop
    BY <1>1, <2>1 DEF Watched
  <2>5. ~stop' /\ ~haltLogged' /\ switch'.lastEvent # None =>
           nextWake' - WatchInterval - switch'.lastEvent <= HeartbeatTimeout
    BY <1>2, <2>2, <2>3
  <2> QED
    BY <1>1, <1>2, <1>3, <2>1, <2>4, <2>5 DEF Watched
<1> QED
  BY <1>4, <1>5

LEMMA StepWatched == SwitchSound /\ Watched /\ [Next]_vars => Watched'
<1> SUFFICES ASSUME SwitchSound, Watched, [Next]_vars PROVE Watched'
  OBVIOUS
<1>1. CASE ClientConnects
  <2>1. client' \in Clients /\ client'.stop = client.stop
    BY <1>1 DEF ClientConnects, Watched, Clients
  <2> QED
    BY <1>1, <2>1 DEF ClientConnects, Watched
<1>2. CASE ClientDrops
  <2>1. client' \in Clients /\ client'.stop = client.stop
    BY <1>2 DEF ClientDrops, Watched, Clients
  <2> QED
    BY <1>2, <2>1 DEF ClientDrops, Watched
<1>3. CASE UserStops
  <2>1. client' \in Clients
    BY <1>3 DEF UserStops, StoppedClient, Watched, Clients
  <2> QED
    BY <1>3, <2>1 DEF UserStops, Watched
<1>4. CASE PassTime
  BY <1>4, RunnerAssumption DEF PassTime, Watched
<1>5. CASE ForeignMessage
  BY <1>5, HeardFields, HearingKeepsWatched DEF ForeignMessage, SwitchSound
<1>6. ASSUME NEW m \in MarketMoves, NEW ts \in Stamps, ReceiveEvent(m, ts) PROVE Watched'
  BY <1>6, HeardFields, HearingKeepsWatched DEF ReceiveEvent, SwitchSound
<1>7. CASE ApplyEvent
  <2>1. switch'.lastEvent = wall
    BY <1>7, TickFields DEF ApplyEvent, SwitchSound
  <2> QED
    BY <1>7, <2>1, HearingKeepsWatched DEF ApplyEvent
<1>8. CASE HaltInHandler
  <2>1. haltLogged' = TRUE /\ UNCHANGED <<switch, stop, watching, wall, nextWake>>
    BY <1>8 DEF HaltInHandler, OnHalt
  <2>2. client' \in Clients
    BY <1>8 DEF HaltInHandler, OnHalt, StoppedClient, Watched, Clients
  <2> QED
    BY <2>1, <2>2 DEF Watched
<1>9. CASE DrainArrival
  BY <1>9, IdleKeepsWatched DEF DrainArrival, riskVars
<1>10. ASSUME NEW k \in OrderKinds, NEW delay \in Latencies, PlaceLimit(k, delay)
       PROVE  Watched'
  BY <1>10, IdleKeepsWatched DEF PlaceLimit, riskVars
<1>11. ASSUME NEW oid \in 1 .. (nextOid - 1), NEW delay \in Latencies, Cancel(oid, delay)
       PROVE  Watched'
  BY <1>11, IdleKeepsWatched DEF Cancel, riskVars
<1>12. CASE StrategyReturns \/ Ended \/ UNCHANGED vars
  BY <1>12, IdleKeepsWatched DEF StrategyReturns, Ended, vars, riskVars
<1>13. CASE HeartbeatWakes
  BY <1>13, WakingKeepsWatched
<1> QED
  BY <1>1, <1>2, <1>3, <1>4, <1>5, <1>6, <1>7, <1>8, <1>9, <1>10, <1>11, <1>12, <1>13 DEF Next

\* Until it is stopped or has halted, the watchdog is awake and in time.
LEMMA WatchdogStaysAwake == Spec => []Watched
BY InitWatched, StepWatched, SwitchStaysSound, PTL DEF Spec

\* A runner that nobody stopped has halted when the feed has been silent for
\* longer than the timeout and one sleep of the watchdog.
THEOREM SilenceIsNoticed == Spec => []SilenceNoticed
<1>1. Watched => SilenceNoticed
  BY RunnerAssumption, LimitsAssumption DEF Watched, SilenceNoticed, None
<1> QED
  BY <1>1, WatchdogStaysAwake, PTL

-----------------------------------------------------------------------------
\* The orders, the fills and the account.

Known == 1 .. (nextOid - 1)

\* The runner's clock follows the feed, and the event in the handler is new.
ClockSound ==
    /\ now \in Nat /\ seq \in Nat
    /\ events.count \in Nat /\ events.latest \in Nat /\ now <= events.latest
    /\ pc = "drain" => WellFormedMove(ev) /\ ev.ts \in Nat /\ ev.ts <= events.latest

\* Every order of ours was placed, and is in flight or rests, not both.
OrdersKnown ==
    /\ nextOid \in 1 .. (MaxOrders + 1)
    /\ DOMAIN placed = Known
    /\ \A o \in Known : placed[o].size \in Nat \ {0} /\ placed[o].arrives \in Nat
    /\ DOMAIN pending \subseteq Known /\ DOMAIN book.orders \subseteq Known
    /\ \A o \in DOMAIN pending : o \notin DOMAIN book.orders

PlaceEvent(e) ==
    /\ e.kind = "place_arrival" /\ Arriving(e.order) /\ e.order.oid \in Known
    /\ e.ts = placed[e.order.oid].arrives /\ e.order.size = placed[e.order.oid].size

CancelEvent(e) ==
    e.kind = "cancel_arrival" /\ \E i \in DOMAIN cancels : cancels[i] = e.oid

ArrivalsSound ==
    /\ \A e \in arrivals :
          /\ e.ts \in Nat /\ e.seq \in 0 .. (seq - 1)
          /\ PlaceEvent(e) \/ CancelEvent(e)
    /\ \A e, f \in arrivals : e.seq = f.seq => e = f

CancelsSound == cancels \in Seq(Nat) /\ \A i \in DOMAIN cancels : cancels[i] \in Known

\* What rests has landed at the end of its latency or later.
RestsSince(b) ==
    \A o \in DOMAIN b.orders :
        placed[o].arrives <= b.orders[o].placedAt /\ placed[o].arrives <= events.latest

\* No event that is still on its way has caused a fill.
FillSound(f) ==
    /\ IsFill(f) /\ f.oid \in Known /\ placed[f.oid].arrives <= events.latest
    /\ f.by \in 0 .. (seq - 1)
    /\ \A e \in arrivals : f.by # e.seq

FillsSound == IsFiniteSet(fills) /\ \A f \in fills : FillSound(f)

AccountSound == acct = Booked(NoAccount, fills)

\* What is in flight has not traded, and what rests is what was not filled.
SizesSound ==
    \A o \in Known :
        /\ o \in DOMAIN pending => Filled(fills, o) = 0
        /\ o \in DOMAIN book.orders =>
              Filled(fills, o) + RestingSize(book, o) = placed[o].size

\* The inductive invariant.
OrdersSound ==
    /\ ClockSound
    /\ OrdersKnown
    /\ ArrivalsSound
    /\ CancelsSound
    /\ IsBook(book) /\ RestsSince(book)
    /\ FillsSound
    /\ AccountSound
    /\ SizesSound
    /\ TracksItsOrders

\* The queue of arrivals has a first event.
LEMMA FirstArrival ==
    ASSUME OrdersSound, arrivals # {}
    PROVE  /\ Earliest(arrivals) \in arrivals
           /\ \A f \in arrivals : Earliest(arrivals).ts <= f.ts
<1>1. \A e \in arrivals : e.ts \in Nat /\ e.seq \in Nat
  BY DEF OrdersSound, ArrivalsSound, ClockSound
<1>2. \A e, f \in arrivals : e.seq = f.seq => e = f
  BY DEF OrdersSound, ArrivalsSound
<1> QED
  BY <1>1, <1>2, EarliestIsFirst

\* The fills of one event join the others and reach the account.
LEMMA NewFillsBooked ==
    ASSUME OrdersSound, NEW by, \A f \in fills : f.by # by,
           NEW new, IsFiniteSet(new), \A f \in new : IsFill(f) /\ f.by = by
    PROVE  /\ IsFiniteSet(fills \cup new)
           /\ \A o : /\ Filled(fills, o) \in Nat /\ Filled(new, o) \in Nat
                     /\ Filled(fills \cup new, o) = Filled(fills, o) + Filled(new, o)
           /\ RecordFills(acct, new) = Booked(NoAccount, fills \cup new)
<1>1. IsFiniteSet(fills) /\ \A f \in fills : IsFill(f)
  BY DEF OrdersSound, FillsSound, FillSound
<1>2. fills \cap new = {}
  OBVIOUS
<1>3. \A f \in fills \cup new : IsFill(f)
  BY <1>1
<1>4. IsFiniteSet(fills \cup new)
  BY <1>1, FS_Union
<1>5. \A o : /\ Filled(fills, o) \in Nat /\ Filled(new, o) \in Nat
             /\ Filled(fills \cup new, o) = Filled(fills, o) + Filled(new, o)
  BY <1>1, <1>2, <1>3, FilledAdds
<1>6. acct = Booked(NoAccount, fills) /\ NoAccount \in Accounts
  BY DEF OrdersSound, AccountSound, NoAccount, Accounts
<1>7. Booked(NoAccount, fills) \in Accounts
      /\ Booked(Booked(NoAccount, fills), new) = Booked(NoAccount, fills \cup new)
  BY <1>1, <1>2, <1>3, <1>6, BookedTwice
<1>8. RecordFills(acct, new) = Booked(acct, new)
  BY <1>6, <1>7, RecordFillsSums
<1> QED
  BY <1>4, <1>5, <1>6, <1>7, <1>8

LEMMA FilledIsNat ==
    ASSUME OrdersSound, NEW o
    PROVE  Filled(fills, o) \in Nat
<1>1. IsFiniteSet(fills) /\ \A f \in fills : IsFill(f)
  BY DEF OrdersSound, FillsSound, FillSound
<1>2. fills \cap {} = {} /\ fills \cup {} = fills /\ IsFiniteSet({})
  BY FS_EmptySet
<1> QED
  BY <1>1, <1>2, FilledAdds

-----------------------------------------------------------------------------
\* What one event, ours or the feed's, does to the orders.

\* An order that the event does not touch.
Stays(o) ==
    /\ o \in DOMAIN pending' <=> o \in DOMAIN pending
    /\ o \in DOMAIN book'.orders <=> o \in DOMAIN book.orders
    /\ RestingSize(book', o) = RestingSize(book, o)
    /\ Filled(fills', o) = Filled(fills, o)

\* Of "whole" contracts n are filled and the others rest.
Splits(o, whole, n) ==
    /\ o \notin DOMAIN pending'
    /\ Filled(fills', o) = Filled(fills, o) + n
    /\ RestingSize(book', o) = whole - n

Lands(o) ==
    o \in DOMAIN pending /\ \E n \in 0 .. placed[o].size : Splits(o, placed[o].size, n)

Trades(o) ==
    /\ o \in DOMAIN book.orders
    /\ \E n \in 1 .. book.orders[o].size : Splits(o, book.orders[o].size, n)

Dies(o) ==
    /\ o \in DOMAIN pending \cup DOMAIN book.orders
    /\ \E i \in DOMAIN cancels : cancels[i] = o
    /\ o \notin DOMAIN pending' /\ o \notin DOMAIN book'.orders
    /\ Filled(fills', o) = Filled(fills, o)

\* A fill that the event with the given number causes.
NewFill(f, by) ==
    /\ IsFill(f) /\ f.by = by
    /\ f.oid \in Known /\ placed[f.oid].arrives <= events.latest

Effect(by) ==
    /\ IsBook(book') /\ RestsSince(book')
    /\ DOMAIN pending' \subseteq DOMAIN pending
    /\ DOMAIN book'.orders \subseteq DOMAIN book.orders \cup (DOMAIN pending \ DOMAIN pending')
    /\ ourIds' = DOMAIN book'.orders
    /\ IsFiniteSet(fills') /\ fills \subseteq fills'
    /\ \A f \in fills' \ fills : NewFill(f, by)
    /\ acct' = Booked(NoAccount, fills')
    /\ \A o \in Known : Stays(o) \/ Lands(o) \/ Trades(o) \/ Dies(o)

\* A market event: only a trade touches our orders, and only resting ones.
LEMMA ApplyEffect ==
    ASSUME OrdersSound, ApplyEvent
    PROVE  Effect(seq)
<1> DEFINE new == MarketFills(book, ev, seq)
           gone == {x \in new : x.oid \notin DOMAIN book'.orders}
<1>1. /\ book' = BookAfterMarket(book, ev) /\ fills' = fills \cup new
      /\ acct' = RecordFills(acct, new) /\ pending' = pending
      /\ ourIds' = ourIds \ {f.oid : f \in gone}
  BY DEF ApplyEvent
<1>2. WellFormedMove(ev) /\ IsBook(book)
  BY DEF ApplyEvent, OrdersSound, ClockSound
<1>3. /\ IsBook(book')
      /\ OrdersShrink(book, book')
      /\ \A f \in new :
            /\ FillsOrder(book, book', f)
            /\ f.by = seq /\ f.price = ev.price /\ ev.kind = "trade"
      /\ \A f, g \in new : f.oid = g.oid => f = g
      /\ \A o \in DOMAIN book.orders :
            (\A f \in new : f.oid # o) => RestingSize(book', o) = book.orders[o].size
  BY <1>1, <1>2, MarketOnBook
<1> HIDE DEF new
<1>4. \A o \in DOMAIN book.orders :
         /\ book.orders[o] \in RestingOrders /\ o \in Known /\ o \notin DOMAIN pending
         /\ placed[o].arrives <= book.orders[o].placedAt /\ placed[o].arrives <= events.latest
  BY DEF OrdersSound, IsBook, RestsSince, OrdersKnown
<1>5. \A f \in new : NewFill(f, seq)
  <2> TAKE f \in new
  <2>1. f.oid \in DOMAIN book.orders /\ f.side = book.orders[f.oid].side
        /\ f.size \in 1 .. book.orders[f.oid].size
    BY <1>3 DEF FillsOrder
  <2>2. f.side \in Sides /\ f.size \in Nat \ {0}
    BY <1>4, <2>1 DEF RestingOrders
  <2>3. f.price \in Nat
    BY <1>2, <1>3 DEF WellFormedMove
  <2> QED
    BY <1>3, <1>4, <2>1, <2>2, <2>3 DEF NewFill, IsFill
<1>6. IsFiniteSet(new)
  <2>1. IsFiniteSet(Known)
    <3>1. 1 \in Int /\ nextOid - 1 \in Int
      BY RunnerAssumption DEF OrdersSound, OrdersKnown
    <3> QED
      BY <3>1, FS_Interval DEF Known
  <2>2. \A f \in new : f.oid \in Known
    BY <1>3, <1>4 DEF FillsOrder
  <2> QED
    BY <1>3, <2>1, <2>2, FewFills
<1>7. /\ IsFiniteSet(fills \cup new)
      /\ \A o : /\ Filled(fills, o) \in Nat /\ Filled(new, o) \in Nat
                /\ Filled(fills \cup new, o) = Filled(fills, o) + Filled(new, o)
      /\ RecordFills(acct, new) = Booked(NoAccount, fills \cup new)
  <2>1. \A f \in new : IsFill(f) /\ f.by = seq
    BY <1>5 DEF NewFill
  <2>2. \A f \in fills : f.by # seq
    BY DEF OrdersSound, FillsSound, FillSound, ClockSound
  <2> QED
    BY <1>6, <2>1, <2>2, NewFillsBooked
<1>8. RestsSince(book')
  BY <1>3, <1>4 DEF RestsSince, OrdersShrink
<1>9. \A o \in DOMAIN book.orders : book.orders[o].size # 0
  BY <1>4 DEF RestingOrders
<1>10. ourIds' = DOMAIN book'.orders
  <2>1. ourIds = DOMAIN book.orders /\ DOMAIN book'.orders \subseteq DOMAIN book.orders
    BY <1>3 DEF OrdersSound, TracksItsOrders, OrdersShrink
  <2>2. ASSUME NEW o \in DOMAIN book.orders, o \notin DOMAIN book'.orders
        PROVE  o \in {f.oid : f \in gone}
    <3>1. RestingSize(book', o) = 0
      BY <2>2 DEF RestingSize
    <3>2. PICK f \in new : f.oid = o
      BY <1>3, <1>9, <3>1
    <3> QED
      BY <2>2, <3>2
  <2> QED
    BY <1>1, <2>1, <2>2
<1>11. ASSUME NEW o \in Known PROVE Stays(o) \/ Trades(o)
  <2>1. CASE \E f \in new : f.oid = o
    <3>1. PICK f \in new : f.oid = o
      BY <2>1
    <3>2. o \in DOMAIN book.orders /\ f.size \in 1 .. book.orders[o].size
          /\ RestingSize(book', o) = book.orders[o].size - f.size
      BY <1>3, <3>1 DEF FillsOrder
    <3>3. IsFill(f) /\ \A g \in new : g.oid = f.oid => g = f
      BY <1>3, <1>5 DEF NewFill
    <3>4. Filled(new, o) = f.size
      BY <3>1, <3>3, FilledByOne
    <3>5. Filled(fills', o) = Filled(fills, o) + f.size
      BY <1>1, <1>7, <3>4
    <3> QED
      BY <1>1, <1>4, <3>2, <3>5 DEF Trades, Splits
  <2>2. CASE \A f \in new : f.oid # o
    <3>1. Filled(new, o) = 0
      BY <2>2, FilledByNone
    <3>2. Filled(fills', o) = Filled(fills, o)
      <4>1. /\ Filled(fills, o) \in Nat
            /\ Filled(fills \cup new, o) = Filled(fills, o) + Filled(new, o)
        BY <1>7
      <4> QED
        BY <1>1, <3>1, <4>1
    <3>3. CASE o \in DOMAIN book.orders
      <4>1. RestingSize(book', o) = book.orders[o].size /\ book.orders[o].size # 0
        BY <1>3, <1>9, <2>2, <3>3
      <4>2. o \in DOMAIN book'.orders /\ RestingSize(book, o) = book.orders[o].size
        BY <3>3, <4>1 DEF RestingSize
      <4> QED
        BY <1>1, <3>2, <3>3, <4>1, <4>2 DEF Stays
    <3>4. CASE o \notin DOMAIN book.orders
      <4>1. o \notin DOMAIN book'.orders
        BY <1>3, <3>4 DEF OrdersShrink
      <4> QED
        BY <1>1, <3>2, <3>4, <4>1 DEF Stays, RestingSize
    <3> QED
      BY <3>3, <3>4
  <2> QED
    BY <2>1, <2>2
<1>12. DOMAIN book'.orders \subseteq DOMAIN book.orders
  BY <1>3 DEF OrdersShrink
<1>13. \A f \in fills' \ fills : NewFill(f, seq)
  BY <1>1, <1>5
<1> QED
  BY <1>1, <1>3, <1>7, <1>8, <1>10, <1>11, <1>12, <1>13 DEF Effect

\* An arrival: the order leaves the flight, is filled in part, and rests with
\* what is left; a cancelled one is ignored.
LEMMA PlaceEffect ==
    ASSUME OrdersSound, NEW e \in arrivals, PlaceArrives(e), now' \in Nat, e.ts <= now',
           e.ts <= events.latest
    PROVE  Effect(e.seq)
<1>1. PlaceEvent(e) /\ e.ts \in Nat
  BY DEF PlaceArrives, OrdersSound, ArrivalsSound, CancelEvent
<1> DEFINE p == e.order
           new == ArrivalFills(book, p, now', e.seq)
<1>2. Arriving(p) /\ p.oid \in Known /\ e.ts = placed[p.oid].arrives
      /\ p.size = placed[p.oid].size /\ p.size \in Nat \ {0} /\ p.price \in Prices
  BY <1>1 DEF PlaceEvent, Arriving
<1>3. IsBook(book) /\ ourIds = DOMAIN book.orders
  BY DEF OrdersSound, TracksItsOrders
<1>4. \A o \in DOMAIN book.orders :
         /\ o \in Known /\ o \notin DOMAIN pending
         /\ placed[o].arrives <= book.orders[o].placedAt /\ placed[o].arrives <= events.latest
  BY DEF OrdersSound, RestsSince, OrdersKnown
<1>5. IsFiniteSet(fills) /\ acct = Booked(NoAccount, fills)
  BY DEF OrdersSound, FillsSound, AccountSound
<1>6. CASE p.oid \notin DOMAIN pending
  <2>1. UNCHANGED <<book, pending, ourIds, acct, fills>>
    BY <1>6 DEF PlaceArrives
  <2>2. RestsSince(book')
    BY <1>4, <2>1 DEF RestsSince
  <2>3. \A o \in Known : Stays(o)
    BY <2>1 DEF Stays
  <2> QED
    BY <1>3, <1>5, <2>1, <2>2, <2>3 DEF Effect
<1>7. CASE p.oid \in DOMAIN pending
  <2>1. /\ pending' = Without(pending, {p.oid})
        /\ book' = BookAfterArrival(book, p, now')
        /\ ourIds' = IF p.oid \in DOMAIN book'.orders THEN ourIds \cup {p.oid} ELSE ourIds
        /\ fills' = fills \cup new /\ acct' = RecordFills(acct, new)
    BY <1>7 DEF PlaceArrives
  <2>2. DOMAIN pending' = DOMAIN pending \ {p.oid}
    BY <2>1 DEF Without
  <2>3. p.oid \notin DOMAIN book.orders
    BY <1>4, <1>7
  <2>4. /\ IsBook(book')
        /\ DOMAIN book.orders \subseteq DOMAIN book'.orders
        /\ DOMAIN book'.orders \subseteq DOMAIN book.orders \cup {p.oid}
        /\ \A o \in DOMAIN book.orders : book'.orders[o] = book.orders[o]
        /\ p.oid \in DOMAIN book'.orders => book'.orders[p.oid].placedAt = now'
        /\ \A f \in new :
              /\ f.oid = p.oid /\ f.by = e.seq
              /\ f.side = p.side /\ f.price \in Prices
              /\ f.size \in 1 .. p.size
              /\ RestingSize(book', p.oid) = p.size - f.size
        /\ \A f, g \in new : f = g
        /\ new = {} => RestingSize(book', p.oid) = p.size
    BY <1>2, <1>3, <2>1, <2>3, ArrivalOnBook
  <2> HIDE DEF new
  <2>5. \A f \in new : NewFill(f, e.seq)
    <3> TAKE f \in new
    <3>1. p.side \in Sides /\ f.price \in Nat /\ f.size \in Nat \ {0}
      <4>1. f.price \in Prices /\ f.size \in 1 .. p.size
        BY <2>4
      <4>2. p.side \in Sides /\ p.size \in Nat
        BY <1>2 DEF Arriving
      <4>3. f.price \in Nat
        BY <4>1, PricesAssumption
      <4>4. f.size \in Nat \ {0}
        BY <4>1
      <4> QED
        BY <4>2, <4>3, <4>4
    <3>2. IsFill(f)
      BY <2>4, <3>1 DEF IsFill
    <3>3. placed[f.oid].arrives <= events.latest
      BY <1>2, <2>4
    <3> QED
      BY <1>2, <2>4, <3>2, <3>3 DEF NewFill
  <2>6. IsFiniteSet(new)
    <3>1. IsFiniteSet({p.oid})
      BY FS_Singleton
    <3> QED
      BY <2>4, <3>1, FewFills
  <2>7. /\ IsFiniteSet(fills \cup new)
        /\ \A o : /\ Filled(fills, o) \in Nat /\ Filled(new, o) \in Nat
                  /\ Filled(fills \cup new, o) = Filled(fills, o) + Filled(new, o)
        /\ RecordFills(acct, new) = Booked(NoAccount, fills \cup new)
    <3>1. \A f \in new : IsFill(f) /\ f.by = e.seq
      BY <2>5 DEF NewFill
    <3>2. \A f \in fills : f.by # e.seq
      BY DEF OrdersSound, FillsSound, FillSound
    <3> QED
      BY <2>6, <3>1, <3>2, NewFillsBooked
  <2>8. RestsSince(book')
    <3> SUFFICES ASSUME NEW o \in DOMAIN book'.orders
                 PROVE  placed[o].arrives <= book'.orders[o].placedAt
                        /\ placed[o].arrives <= events.latest
      BY DEF RestsSince
    <3>1. CASE o = p.oid
      BY <1>2, <2>4, <3>1
    <3>2. CASE o \in DOMAIN book.orders
      BY <1>4, <2>4, <3>2
    <3> QED
      BY <2>4, <3>1, <3>2
  <2>9. ASSUME NEW o \in Known PROVE Stays(o) \/ Lands(o)
    <3>1. CASE o = p.oid
      <4>1. CASE new = {}
        <5>1. Filled(new, o) = 0
          BY <4>1, FilledByNone
        <5>2. Splits(o, placed[o].size, 0)
          BY <1>2, <2>1, <2>2, <2>4, <2>7, <3>1, <4>1, <5>1 DEF Splits
        <5> QED
          BY <1>2, <1>7, <3>1, <5>2 DEF Lands
      <4>2. CASE new # {}
        <5>1. PICK f \in new : TRUE
          BY <4>2
        <5>2. Filled(new, f.oid) = f.size
          BY <2>4, <2>5, FilledByOne DEF NewFill
        <5>3. f.oid = o /\ f.size \in 1 .. p.size /\ RestingSize(book', o) = p.size - f.size
          BY <2>4, <3>1
        <5>4. Filled(fills', o) = Filled(fills, o) + f.size
          BY <2>1, <2>7, <5>2, <5>3
        <5>5. Splits(o, placed[o].size, f.size)
          BY <1>2, <2>2, <3>1, <5>3, <5>4 DEF Splits
        <5>6. f.size \in 0 .. placed[o].size
          BY <1>2, <3>1, <5>3
        <5> QED
          BY <1>7, <3>1, <5>5, <5>6 DEF Lands
      <4> QED
        BY <4>1, <4>2
    <3>2. CASE o # p.oid
      <4>1. Filled(new, o) = 0
        BY <2>4, <3>2, FilledByNone
      <4>2. Filled(fills', o) = Filled(fills, o)
        <5>1. /\ Filled(fills, o) \in Nat
              /\ Filled(fills \cup new, o) = Filled(fills, o) + Filled(new, o)
          BY <2>7
        <5> QED
          BY <2>1, <4>1, <5>1
      <4>3. o \in DOMAIN book'.orders <=> o \in DOMAIN book.orders
        BY <2>4, <3>2
      <4>4. RestingSize(book', o) = RestingSize(book, o)
        BY <2>4, <4>3 DEF RestingSize
      <4> QED
        BY <2>2, <3>2, <4>2, <4>3, <4>4 DEF Stays
    <3> QED
      BY <3>1, <3>2
  <2>10. DOMAIN book'.orders \subseteq DOMAIN book.orders \cup (DOMAIN pending \ DOMAIN pending')
         /\ ourIds' = DOMAIN book'.orders
    BY <1>3, <1>7, <2>1, <2>2, <2>4
  <2>11. \A f \in fills' \ fills : NewFill(f, e.seq)
    BY <2>1, <2>5
  <2> QED
    BY <2>1, <2>2, <2>4, <2>7, <2>8, <2>9, <2>10, <2>11 DEF Effect
<1> QED
  BY <1>6, <1>7

\* A cancellation: the order leaves the flight or the book, and nothing fills.
LEMMA CancelEffect ==
    ASSUME OrdersSound, NEW e \in arrivals, CancelArrives(e)
    PROVE  Effect(e.seq)
<1>1. /\ book' = RemoveOurOrder(book, e.oid) /\ ourIds' = ourIds \ {e.oid}
      /\ pending' = Without(pending, {e.oid})
      /\ acct' = acct /\ fills' = fills
  BY DEF CancelArrives
<1>2. DOMAIN pending' = DOMAIN pending \ {e.oid}
  BY <1>1 DEF Without
<1>3. IsBook(book) /\ IsRecord(book) /\ ourIds = DOMAIN book.orders
  BY DEF OrdersSound, IsBook, TracksItsOrders
<1>4. /\ IsBook(book') /\ DOMAIN book'.orders = DOMAIN book.orders \ {e.oid}
      /\ \A o \in DOMAIN book'.orders : book'.orders[o] = book.orders[o]
  BY <1>1, <1>3, RemovedFields
<1>5. RestsSince(book')
  BY <1>4 DEF RestsSince, OrdersSound
<1>6. \E i \in DOMAIN cancels : cancels[i] = e.oid
  BY DEF CancelArrives, OrdersSound, ArrivalsSound, PlaceEvent, CancelEvent
<1>7. ASSUME NEW o \in Known PROVE Stays(o) \/ Dies(o)
  <2>1. CASE o # e.oid
    <3>1. o \in DOMAIN book'.orders <=> o \in DOMAIN book.orders
      BY <1>4, <2>1
    <3>2. RestingSize(book', o) = RestingSize(book, o)
      BY <1>4, <3>1 DEF RestingSize
    <3> QED
      BY <1>1, <1>2, <2>1, <3>1, <3>2 DEF Stays
  <2>2. CASE o = e.oid
    <3>1. CASE o \in DOMAIN pending \cup DOMAIN book.orders
      BY <1>1, <1>2, <1>4, <1>6, <2>2, <3>1 DEF Dies
    <3>2. CASE o \notin DOMAIN pending \cup DOMAIN book.orders
      BY <1>1, <1>2, <1>4, <2>2, <3>2 DEF Stays, RestingSize
    <3> QED
      BY <3>1, <3>2
  <2> QED
    BY <2>1, <2>2
<1>8. IsFiniteSet(fills') /\ acct' = Booked(NoAccount, fills')
  BY <1>1 DEF OrdersSound, FillsSound, AccountSound
<1> QED
  BY <1>1, <1>2, <1>3, <1>4, <1>5, <1>7, <1>8 DEF Effect

\* One turn of the drain: the first arrival that is due leaves the queue.
LEMMA DrainEffect ==
    ASSUME OrdersSound, DrainArrival
    PROVE  LET e == Earliest(arrivals)
           IN  /\ e \in arrivals /\ arrivals' = arrivals \ {e}
               /\ \A x \in arrivals' : x.seq # e.seq
               /\ Effect(e.seq) /\ ClockSound'
<1> DEFINE e == Earliest(arrivals)
<1>1. PICK d \in arrivals : Due(d)
  BY DEF DrainArrival
<1>2. e \in arrivals /\ e.ts <= d.ts
  BY <1>1, FirstArrival
<1>3. /\ arrivals' = arrivals \ {e} /\ now' = Larger(now, e.ts)
      /\ PlaceArrives(e) \/ CancelArrives(e)
      /\ UNCHANGED <<pc, ev, events, seq>>
  BY DEF DrainArrival
<1> HIDE DEF e
<1>4. /\ e.ts \in Nat /\ d.ts \in Nat /\ e.seq \in Nat
      /\ \A x \in arrivals : x.seq = e.seq => x = e
  BY <1>2 DEF OrdersSound, ArrivalsSound, ClockSound
<1>5. ev.ts \in Nat /\ ev.ts <= events.latest /\ events.latest \in Nat /\ now \in Nat
      /\ now <= events.latest
  BY DEF DrainArrival, OrdersSound, ClockSound
<1>6. e.ts <= events.latest /\ now' \in Nat /\ e.ts <= now' /\ now' <= events.latest
  BY <1>1, <1>2, <1>3, <1>4, <1>5 DEF Due, Larger
<1>7. ClockSound'
  BY <1>3, <1>6 DEF OrdersSound, ClockSound
<1>8. Effect(e.seq)
  BY <1>2, <1>3, <1>6, PlaceEffect, CancelEffect
<1> QED
  BY <1>2, <1>3, <1>4, <1>7, <1>8 DEF e

-----------------------------------------------------------------------------
\* OrdersSound is inductive.

LEMMA InitOrders == Init => OrdersSound
<1> SUFFICES ASSUME Init PROVE OrdersSound
  OBVIOUS
<1>1. /\ pc = "idle" /\ now = 0 /\ seq = 0 /\ nextOid = 1 /\ arrivals = {}
      /\ events = [count |-> 0, latest |-> 0] /\ book = InitialBook
      /\ pending = << >> /\ placed = << >> /\ cancels = << >> /\ ourIds = {}
      /\ acct = NoAccount /\ fills = {}
  BY DEF Init
<1>2. DOMAIN << >> = {} /\ Known = {}
  BY <1>1 DEF Known
<1>3. ClockSound
  BY <1>1 DEF ClockSound
<1>4. IsBook(book) /\ DOMAIN book.orders = {}
  <2>1. InitialBook \in FreshBooks
    BY InputsAssumption
  <2>2. book.orders = << >>
    BY <1>1, <2>1 DEF FreshBooks
  <2> QED
    BY <1>1, <1>2, <2>1, <2>2 DEF FreshBooks, IsBook, IsRecord, Depths
<1>5. OrdersKnown
  BY <1>1, <1>2, <1>4, RunnerAssumption DEF OrdersKnown
<1>6. ArrivalsSound
  BY <1>1 DEF ArrivalsSound
<1>7. CancelsSound
  BY <1>1, <1>2 DEF CancelsSound
<1>8. RestsSince(book) /\ TracksItsOrders
  BY <1>1, <1>4 DEF RestsSince, TracksItsOrders
<1>9. FillsSound
  BY <1>1, FS_EmptySet DEF FillsSound
<1>10. AccountSound
  BY <1>1, SumsOfNone DEF AccountSound, Booked, NoAccount
<1>11. SizesSound
  BY <1>2 DEF SizesSound
<1> QED
  BY <1>3, <1>4, <1>5, <1>6, <1>7, <1>8, <1>9, <1>10, <1>11 DEF OrdersSound

\* The four things an event can do to an order keep its sizes in balance.
LEMMA EffectKeepsSizes ==
    ASSUME OrdersSound, NEW by, Effect(by), OrdersKnown', UNCHANGED <<nextOid, placed>>
    PROVE  SizesSound'
<1> SUFFICES ASSUME NEW o \in Known'
             PROVE  /\ o \in DOMAIN pending' => Filled(fills', o) = 0
                    /\ o \in DOMAIN book'.orders =>
                          Filled(fills', o) + RestingSize(book', o) = placed'[o].size
  BY DEF SizesSound
<1>1. o \in Known /\ placed' = placed
  BY DEF Known
<1>2. /\ Filled(fills, o) \in Nat /\ placed[o].size \in Nat
      /\ o \in DOMAIN pending => Filled(fills, o) = 0
      /\ o \in DOMAIN book.orders => Filled(fills, o) + RestingSize(book, o) = placed[o].size
  BY <1>1, FilledIsNat DEF OrdersSound, SizesSound, OrdersKnown
<1>3. CASE Stays(o)
  BY <1>1, <1>2, <1>3 DEF Stays
<1>4. CASE Lands(o)
  <2>1. PICK n \in 0 .. placed[o].size : Splits(o, placed[o].size, n)
    BY <1>4 DEF Lands
  <2>2. Filled(fills', o) = n /\ RestingSize(book', o) = placed[o].size - n
    BY <1>2, <1>4, <2>1 DEF Lands, Splits
  <2>3. Filled(fills', o) + RestingSize(book', o) = placed[o].size
    BY <1>2, <2>1, <2>2
  <2> QED
    BY <1>1, <2>1, <2>3 DEF Splits
<1>5. CASE Trades(o)
  <2> DEFINE whole == book.orders[o].size
  <2>1. PICK n \in 1 .. whole : Splits(o, whole, n)
    BY <1>5 DEF Trades
  <2>2. RestingSize(book, o) = whole
    BY <1>5 DEF Trades, RestingSize
  <2>3. whole \in Nat
    BY <1>5 DEF Trades, OrdersSound, IsBook, RestingOrders
  <2>4. Filled(fills, o) + whole = placed[o].size
    BY <1>2, <1>5, <2>2 DEF Trades
  <2> HIDE DEF whole
  <2>5. Filled(fills', o) = Filled(fills, o) + n /\ RestingSize(book', o) = whole - n
    BY <2>1 DEF Splits
  <2>6. Filled(fills', o) + RestingSize(book', o) = placed[o].size
    BY <1>2, <2>1, <2>3, <2>4, <2>5
  <2> QED
    BY <1>1, <2>1, <2>6 DEF Splits
<1>6. CASE Dies(o)
  BY <1>6 DEF Dies
<1> QED
  BY <1>1, <1>3, <1>4, <1>5, <1>6 DEF Effect

LEMMA EffectKeepsOrders ==
    ASSUME OrdersSound, NEW by, Effect(by), ClockSound', by \in 0 .. (seq' - 1), seq <= seq',
           arrivals' \subseteq arrivals, \A e \in arrivals' : e.seq # by,
           UNCHANGED <<nextOid, placed, cancels, events>>
    PROVE  OrdersSound'
<1>1. Known' = Known
  BY DEF Known
<1>2. OrdersKnown'
  BY <1>1 DEF Effect, OrdersSound, OrdersKnown
<1>3. seq \in Nat /\ seq' \in Nat
  BY DEF OrdersSound, ClockSound
<1>4. ArrivalsSound'
  <2> SUFFICES ASSUME NEW e \in arrivals'
               PROVE  /\ e.ts \in Nat /\ e.seq \in 0 .. (seq' - 1)
                      /\ PlaceEvent(e)' \/ CancelEvent(e)'
                      /\ \A f \in arrivals' : e.seq = f.seq => e = f
    BY DEF ArrivalsSound
  <2>1. /\ e.ts \in Nat /\ e.seq \in 0 .. (seq - 1)
        /\ PlaceEvent(e) \/ CancelEvent(e)
        /\ \A f \in arrivals : e.seq = f.seq => e = f
    BY DEF OrdersSound, ArrivalsSound
  <2>2. e.seq \in 0 .. (seq' - 1)
    BY <1>3, <2>1
  <2>3. PlaceEvent(e)' \/ CancelEvent(e)'
    BY <1>1, <2>1 DEF PlaceEvent, CancelEvent
  <2> QED
    BY <2>1, <2>2, <2>3
<1>5. CancelsSound' /\ IsBook(book') /\ RestsSince(book)' /\ TracksItsOrders' /\ AccountSound'
  BY <1>1 DEF Effect, OrdersSound, CancelsSound, RestsSince, TracksItsOrders, AccountSound
<1>6. FillsSound'
  <2>1. ASSUME NEW f \in fills PROVE FillSound(f)'
    <3>1. f.by \in 0 .. (seq' - 1)
      BY <1>3 DEF OrdersSound, FillsSound, FillSound
    <3> QED
      BY <1>1, <3>1 DEF OrdersSound, FillsSound, FillSound
  <2>2. ASSUME NEW f \in fills' \ fills PROVE FillSound(f)'
    BY <1>1, <2>2 DEF Effect, NewFill, FillSound
  <2> QED
    BY <2>1, <2>2 DEF Effect, FillsSound
<1>7. SizesSound'
  BY <1>2, EffectKeepsSizes
<1> QED
  BY <1>2, <1>4, <1>5, <1>6, <1>7 DEF OrdersSound

LEMMA DrainKeepsOrders ==
    ASSUME OrdersSound, DrainArrival
    PROVE  OrdersSound'
<1> DEFINE e == Earliest(arrivals)
<1>1. /\ e \in arrivals /\ arrivals' = arrivals \ {e}
      /\ \A x \in arrivals' : x.seq # e.seq
      /\ Effect(e.seq) /\ ClockSound'
  BY DrainEffect
<1> HIDE DEF e
<1>2. UNCHANGED <<nextOid, placed, cancels, events, seq>>
  BY DEF DrainArrival, riskVars
<1>3. e.seq \in 0 .. (seq' - 1) /\ seq \in Nat
  BY <1>1, <1>2 DEF OrdersSound, ArrivalsSound, ClockSound
<1> QED
  BY <1>1, <1>2, <1>3, EffectKeepsOrders

LEMMA ApplyKeepsOrders ==
    ASSUME OrdersSound, ApplyEvent
    PROVE  OrdersSound'
<1>1. Effect(seq)
  BY ApplyEffect
<1>2. /\ seq' = seq + 1 /\ now' = Larger(now, ev.ts) /\ arrivals' = arrivals
      /\ pc = "drain" /\ pc' # "drain"
      /\ UNCHANGED <<nextOid, placed, cancels, events>>
  BY DEF ApplyEvent
<1>3. /\ seq \in Nat /\ now \in Nat /\ events.count \in Nat /\ events.latest \in Nat
      /\ now <= events.latest /\ ev.ts \in Nat /\ ev.ts <= events.latest
  BY <1>2 DEF OrdersSound, ClockSound
<1>4. ClockSound'
  BY <1>2, <1>3 DEF ClockSound, Larger
<1>5. \A e \in arrivals : e.seq # seq
  BY <1>3 DEF OrdersSound, ArrivalsSound
<1>6. seq \in 0 .. (seq' - 1) /\ seq <= seq'
  BY <1>2, <1>3
<1> QED
  BY <1>1, <1>2, <1>4, <1>5, <1>6, EffectKeepsOrders

\* _on_halt walks exactly the orders on the book: nothing is left behind.
LEMMA HaltEmpties ==
    ASSUME OrdersSound, OnHalt
    PROVE  /\ IsBook(book') /\ haltLogged' = TRUE
           /\ haltLogged => UNCHANGED <<book, ourIds, pending, arrivals>>
           /\ ~haltLogged => /\ DOMAIN book'.orders = {} /\ ourIds' = {}
                             /\ DOMAIN pending' = {} /\ arrivals' = {}
<1>1. IsBook(book) /\ IsRecord(book) /\ ourIds = DOMAIN book.orders
  BY DEF OrdersSound, TracksItsOrders, IsBook
<1>2. CASE haltLogged
  BY <1>1, <1>2 DEF OnHalt
<1>3. CASE ~haltLogged
  <2> DEFINE kept == Without(book.orders, ourIds)
             c == [book EXCEPT !.orders = kept]
  <2>1. DOMAIN kept = {} /\ kept = [o \in DOMAIN kept |-> kept[o]]
    BY <1>1 DEF Without
  <2>2. book' = c /\ ourIds' = {} /\ pending' = << >> /\ arrivals' = {} /\ haltLogged' = TRUE
    BY <1>3 DEF OnHalt
  <2> HIDE DEF kept
  <2>3. IsRecord(c) /\ c.joined = book.joined /\ c.bids = book.bids /\ c.asks = book.asks
        /\ c.tick = book.tick /\ c.orders = kept
    BY <1>1 DEF IsRecord
  <2> HIDE DEF c
  <2>4. IsBook(c) /\ DOMAIN c.orders = {}
    BY <1>1, <2>1, <2>3 DEF IsBook
  <2>5. DOMAIN << >> = {}
    OBVIOUS
  <2> QED
    BY <1>3, <2>2, <2>4, <2>5
<1> QED
  BY <1>2, <1>3

LEMMA HaltKeepsOrders ==
    ASSUME OrdersSound, OnHalt, ClockSound',
           UNCHANGED <<events, seq, nextOid, acct, fills, placed, cancels>>
    PROVE  OrdersSound'
<1>1. /\ IsBook(book')
      /\ DOMAIN pending' \subseteq DOMAIN pending
      /\ DOMAIN book'.orders = {} \/ book' = book
      /\ arrivals' \subseteq arrivals
      /\ ourIds' = DOMAIN book'.orders
  BY HaltEmpties DEF OrdersSound, TracksItsOrders
<1>2. Known' = Known
  BY DEF Known
<1>3. OrdersKnown'
  BY <1>1, <1>2 DEF OrdersSound, OrdersKnown
<1>4. ArrivalsSound'
  BY <1>1, <1>2 DEF OrdersSound, ArrivalsSound, PlaceEvent, CancelEvent
<1>5. CancelsSound' /\ RestsSince(book)' /\ TracksItsOrders' /\ AccountSound'
  BY <1>1, <1>2 DEF OrdersSound, CancelsSound, RestsSince, TracksItsOrders, AccountSound
<1>6. FillsSound'
  BY <1>1, <1>2 DEF OrdersSound, FillsSound, FillSound
<1>7. SizesSound'
  BY <1>1, <1>2 DEF OrdersSound, SizesSound
<1> QED
  BY <1>1, <1>3, <1>4, <1>5, <1>6, <1>7 DEF OrdersSound

\* A step that moves no order; the feed may move on.
LEMMA FrameKeepsOrders ==
    ASSUME OrdersSound, ClockSound', UNCHANGED orderVars, events.latest <= events'.latest
    PROVE  OrdersSound'
<1>1. Known' = Known
  BY DEF Known, orderVars
<1>2. UNCHANGED <<arrivals, seq, book, pending, ourIds, nextOid, acct, fills, placed, cancels>>
  BY DEF orderVars
<1>3. events.latest \in Nat /\ events'.latest \in Nat
  BY DEF OrdersSound, ClockSound
<1>4. OrdersKnown' /\ ArrivalsSound' /\ CancelsSound'
  BY <1>1, <1>2 DEF OrdersSound, OrdersKnown, ArrivalsSound, PlaceEvent, CancelEvent, CancelsSound
<1>5. RestsSince(book)'
  <2>1. \A o \in DOMAIN book.orders :
           /\ placed[o].arrives \in Nat /\ placed[o].arrives <= events.latest
           /\ placed[o].arrives <= book.orders[o].placedAt
    BY DEF OrdersSound, OrdersKnown, RestsSince
  <2> QED
    BY <1>2, <1>3, <2>1 DEF RestsSince
<1>6. FillsSound'
  <2> SUFFICES ASSUME NEW f \in fills PROVE FillSound(f)'
    BY <1>2 DEF OrdersSound, FillsSound
  <2>1. FillSound(f) /\ placed[f.oid].arrives \in Nat
    BY DEF OrdersSound, FillsSound, FillSound, OrdersKnown
  <2>2. placed'[f.oid].arrives <= events'.latest
    BY <1>2, <1>3, <2>1 DEF FillSound
  <2> QED
    BY <1>1, <1>2, <2>1, <2>2 DEF FillSound
<1>7. AccountSound' /\ SizesSound' /\ TracksItsOrders' /\ IsBook(book')
  BY <1>1, <1>2 DEF OrdersSound, AccountSound, SizesSound, TracksItsOrders
<1> QED
  BY <1>4, <1>5, <1>6, <1>7 DEF OrdersSound

\* What is pushed has the next number, so it is not the cause of any fill.
LEMMA PushKeepsFill ==
    ASSUME OrdersSound, NEW f \in fills, NEW e, e.seq = seq,
           arrivals' = arrivals \cup {e}, seq' = seq + 1
    PROVE  f.by \in 0 .. (seq' - 1) /\ \A x \in arrivals' : f.by # x.seq
<1>1. seq \in Nat /\ f.by \in 0 .. (seq - 1) /\ \A x \in arrivals : f.by # x.seq
  BY DEF OrdersSound, ClockSound, FillsSound, FillSound
<1> QED
  BY <1>1

LEMMA PlacingKeepsOrders ==
    ASSUME OrdersSound, NEW k \in OrderKinds, NEW delay \in Latencies, PlaceLimit(k, delay)
    PROVE  OrdersSound'
<1> DEFINE p == [oid |-> nextOid, side |-> k.side, price |-> k.price,
                 size |-> k.size, postOnly |-> k.postOnly]
           e == [ts |-> now + delay, seq |-> seq, kind |-> "place_arrival", order |-> p]
           r == [side |-> k.side, size |-> k.size, arrives |-> now + delay]
<1>1. /\ arrivals' = arrivals \cup {e} /\ seq' = seq + 1
      /\ pending' = [o \in DOMAIN pending \cup {nextOid} |->
                       IF o = nextOid THEN p ELSE pending[o]]
      /\ placed' = [o \in 1 .. nextOid |-> IF o = nextOid THEN r ELSE placed[o]]
      /\ nextOid' = nextOid + 1 /\ pc = "strategy"
      /\ UNCHANGED <<pc, ev, now, events, book, ourIds, acct, fills, cancels>>
  BY DEF PlaceLimit, PushArrival
<1>2. now \in Nat /\ seq \in Nat /\ nextOid \in Nat \ {0} /\ delay \in Nat
      /\ MaxOrders \in Nat /\ nextOid <= MaxOrders
  BY RunnerAssumption DEF OrdersSound, ClockSound, OrdersKnown, PlaceLimit
<1>3. k.side \in Sides /\ k.price \in Prices /\ k.size \in Nat \ {0}
  BY InputsAssumption DEF Placeable
<1>4. /\ p.oid = nextOid /\ p.side = k.side /\ p.price = k.price /\ p.size = k.size
      /\ r.size = k.size /\ r.arrives = now + delay
  OBVIOUS
<1> HIDE DEF p, r
<1>5. /\ e.ts = now + delay /\ e.seq = seq /\ e.kind = "place_arrival" /\ e.order = p
      /\ e.ts \in Nat
  BY <1>2
<1> HIDE DEF e
<1>6. ClockSound'
  BY <1>1, <1>2 DEF OrdersSound, ClockSound
<1>7. Known' = Known \cup {nextOid} /\ nextOid \notin Known /\ Known' = 1 .. nextOid
  BY <1>1, <1>2 DEF Known
<1>8. /\ DOMAIN placed' = Known' /\ placed'[nextOid] = r
      /\ \A o \in Known : placed'[o] = placed[o]
  BY <1>1, <1>7
<1>9. /\ DOMAIN pending' = DOMAIN pending \cup {nextOid}
      /\ \A o \in DOMAIN pending : o # nextOid
      /\ nextOid \notin DOMAIN book.orders
  BY <1>1, <1>7 DEF OrdersSound, OrdersKnown
<1>10. OrdersKnown'
  <2>1. /\ \A o \in Known : placed[o].size \in Nat \ {0} /\ placed[o].arrives \in Nat
        /\ DOMAIN pending \subseteq Known /\ DOMAIN book.orders \subseteq Known
        /\ \A o \in DOMAIN pending : o \notin DOMAIN book.orders
    BY DEF OrdersSound, OrdersKnown
  <2>2. nextOid' \in 1 .. (MaxOrders + 1) /\ r.arrives \in Nat /\ r.size \in Nat \ {0}
    BY <1>1, <1>2, <1>3, <1>4
  <2>3. \A o \in Known' : placed'[o].size \in Nat \ {0} /\ placed'[o].arrives \in Nat
    BY <1>7, <1>8, <2>1, <2>2
  <2> QED
    BY <1>1, <1>7, <1>8, <1>9, <2>1, <2>2, <2>3 DEF OrdersKnown
<1>11. ArrivalsSound'
  <2>1. ASSUME NEW x \in arrivals'
        PROVE  /\ x.ts \in Nat /\ x.seq \in 0 .. (seq' - 1)
               /\ PlaceEvent(x)' \/ CancelEvent(x)'
    <3>1. CASE x = e
      BY <1>1, <1>2, <1>3, <1>4, <1>5, <1>7, <1>8, <3>1 DEF PlaceEvent, Arriving
    <3>2. CASE x \in arrivals
      <4>1. /\ x.ts \in Nat /\ x.seq \in 0 .. (seq - 1)
            /\ PlaceEvent(x) \/ CancelEvent(x)
        BY <3>2 DEF OrdersSound, ArrivalsSound
      <4>2. x.seq \in 0 .. (seq' - 1)
        BY <1>1, <1>2, <4>1
      <4>3. PlaceEvent(x)' \/ CancelEvent(x)'
        BY <1>1, <1>7, <1>8, <4>1 DEF PlaceEvent, CancelEvent
      <4> QED
        BY <4>1, <4>2, <4>3
    <3> QED
      BY <1>1, <3>1, <3>2
  <2>2. \A x \in arrivals : x.seq # seq
    BY <1>2 DEF OrdersSound, ArrivalsSound
  <2>3. \A x, y \in arrivals' : x.seq = y.seq => x = y
    BY <1>1, <1>5, <2>2 DEF OrdersSound, ArrivalsSound
  <2> QED
    BY <2>1, <2>3 DEF ArrivalsSound
<1>12. CancelsSound' /\ IsBook(book') /\ TracksItsOrders' /\ AccountSound'
  BY <1>1, <1>7 DEF OrdersSound, CancelsSound, TracksItsOrders, AccountSound
<1>13. RestsSince(book)'
  <2>1. \A o \in DOMAIN book.orders : placed'[o] = placed[o]
    BY <1>8 DEF OrdersSound, OrdersKnown
  <2> QED
    BY <1>1, <2>1 DEF OrdersSound, RestsSince
<1>14. FillsSound'
  <2>1. IsFiniteSet(fills')
    BY <1>1 DEF OrdersSound, FillsSound
  <2>2. ASSUME NEW f \in fills PROVE FillSound(f)'
    <3>1. IsFill(f) /\ f.oid \in Known /\ placed[f.oid].arrives <= events.latest
      BY DEF OrdersSound, FillsSound, FillSound
    <3>2. f.by \in 0 .. (seq' - 1) /\ \A x \in arrivals' : f.by # x.seq
      BY <1>1, <1>5, PushKeepsFill
    <3> QED
      BY <1>1, <1>7, <1>8, <3>1, <3>2 DEF FillSound
  <2> QED
    BY <1>1, <2>1, <2>2 DEF FillsSound
<1>15. SizesSound'
  <2> SUFFICES ASSUME NEW o \in Known'
               PROVE  /\ o \in DOMAIN pending' => Filled(fills, o) = 0
                      /\ o \in DOMAIN book.orders =>
                            Filled(fills, o) + RestingSize(book, o) = placed'[o].size
    BY <1>1 DEF SizesSound
  <2>1. CASE o \in Known
    BY <1>7, <1>8, <1>9, <2>1 DEF OrdersSound, SizesSound
  <2>2. CASE o = nextOid
    <3>1. \A f \in fills : f.oid # o
      BY <1>7, <2>2 DEF OrdersSound, FillsSound, FillSound
    <3> QED
      BY <1>9, <2>2, <3>1, FilledByNone
  <2> QED
    BY <1>7, <2>1, <2>2
<1> QED
  BY <1>6, <1>10, <1>11, <1>12, <1>13, <1>14, <1>15 DEF OrdersSound

LEMMA CancellingKeepsOrders ==
    ASSUME OrdersSound, NEW oid \in 1 .. (nextOid - 1), NEW delay \in Latencies,
           Cancel(oid, delay)
    PROVE  OrdersSound'
<1> DEFINE e == [ts |-> now + delay, seq |-> seq, kind |-> "cancel_arrival", oid |-> oid]
<1>1. /\ arrivals' = arrivals \cup {e} /\ seq' = seq + 1
      /\ cancels' = Append(cancels, oid) /\ pc = "strategy"
      /\ UNCHANGED <<pc, ev, now, events, book, pending, ourIds, nextOid, acct, fills, placed>>
  BY DEF Cancel, PushArrival
<1>2. now \in Nat /\ seq \in Nat /\ delay \in Nat /\ nextOid \in Nat
  BY RunnerAssumption DEF OrdersSound, ClockSound, OrdersKnown
<1>3. e.ts \in Nat /\ e.seq = seq /\ e.kind = "cancel_arrival" /\ e.oid = oid
  BY <1>2
<1> HIDE DEF e
<1>4. Known' = Known /\ oid \in Known /\ oid \in Nat
  BY <1>1, <1>2 DEF Known
<1>5. /\ cancels' \in Seq(Nat)
      /\ Len(cancels) + 1 \in DOMAIN cancels' /\ cancels'[Len(cancels) + 1] = oid
      /\ \A i \in DOMAIN cancels : i \in DOMAIN cancels' /\ cancels'[i] = cancels[i]
      /\ \A i \in DOMAIN cancels' : i \in DOMAIN cancels \/ i = Len(cancels) + 1
  <2>1. cancels \in Seq(Nat)
    BY DEF OrdersSound, CancelsSound
  <2> QED
    BY <1>1, <1>4, <2>1
<1>6. ClockSound'
  BY <1>1, <1>2 DEF OrdersSound, ClockSound
<1>7. OrdersKnown' /\ AccountSound' /\ SizesSound' /\ TracksItsOrders' /\ IsBook(book')
      /\ RestsSince(book)'
  BY <1>1, <1>4 DEF OrdersSound, OrdersKnown, AccountSound, SizesSound, TracksItsOrders, RestsSince
<1>8. CancelsSound'
  BY <1>4, <1>5 DEF OrdersSound, CancelsSound
<1>9. ArrivalsSound'
  <2>1. ASSUME NEW x \in arrivals'
        PROVE  /\ x.ts \in Nat /\ x.seq \in 0 .. (seq' - 1)
               /\ PlaceEvent(x)' \/ CancelEvent(x)'
    <3>1. CASE x = e
      BY <1>1, <1>2, <1>3, <1>5, <3>1 DEF CancelEvent
    <3>2. CASE x \in arrivals
      <4>1. /\ x.ts \in Nat /\ x.seq \in 0 .. (seq - 1)
            /\ PlaceEvent(x) \/ CancelEvent(x)
        BY <3>2 DEF OrdersSound, ArrivalsSound
      <4>2. x.seq \in 0 .. (seq' - 1)
        BY <1>1, <1>2, <4>1
      <4>3. PlaceEvent(x)' \/ CancelEvent(x)'
        BY <1>1, <1>4, <1>5, <4>1 DEF PlaceEvent, CancelEvent
      <4> QED
        BY <4>1, <4>2, <4>3
    <3> QED
      BY <1>1, <3>1, <3>2
  <2>2. \A x \in arrivals : x.seq # seq
    BY <1>2 DEF OrdersSound, ArrivalsSound
  <2>3. \A x, y \in arrivals' : x.seq = y.seq => x = y
    BY <1>1, <1>3, <2>2 DEF OrdersSound, ArrivalsSound
  <2> QED
    BY <2>1, <2>3 DEF ArrivalsSound
<1>10. FillsSound'
  <2>1. IsFiniteSet(fills')
    BY <1>1 DEF OrdersSound, FillsSound
  <2>2. ASSUME NEW f \in fills PROVE FillSound(f)'
    <3>1. IsFill(f) /\ f.oid \in Known /\ placed[f.oid].arrives <= events.latest
      BY DEF OrdersSound, FillsSound, FillSound
    <3>2. f.by \in 0 .. (seq' - 1) /\ \A x \in arrivals' : f.by # x.seq
      BY <1>1, <1>3, PushKeepsFill
    <3> QED
      BY <1>1, <1>4, <3>1, <3>2 DEF FillSound
  <2> QED
    BY <1>1, <2>1, <2>2 DEF FillsSound
<1> QED
  BY <1>6, <1>7, <1>8, <1>9, <1>10 DEF OrdersSound

\* The connection, the clock, foreign messages and the end of a handler.
LEMMA QuietKeepsOrders ==
    ASSUME OrdersSound,
           \/ ClientConnects \/ ClientDrops \/ UserStops \/ ForeignMessage \/ PassTime
           \/ StrategyReturns \/ UNCHANGED vars
    PROVE  OrdersSound'
<1>1. UNCHANGED <<now, events, orderVars>> /\ (pc' = "drain" => pc = "drain" /\ ev' = ev)
  BY DEF ClientConnects, ClientDrops, UserStops, ForeignMessage, PassTime, StrategyReturns, vars
<1>2. ClockSound' /\ events.latest \in Nat
  BY <1>1 DEF OrdersSound, ClockSound, orderVars
<1> QED
  BY <1>1, <1>2, FrameKeepsOrders

\* What the feed delivers moves its latest timestamp forward or not at all.
LEMMA ReceiveKeepsOrders ==
    ASSUME OrdersSound, NEW m \in MarketMoves, NEW ts \in Stamps, ReceiveEvent(m, ts)
    PROVE  OrdersSound'
<1>1. /\ ev' = Stamped(m, ts, None)
      /\ events' = [count |-> events.count + 1, latest |-> Larger(events.latest, ts)]
      /\ UNCHANGED <<now, orderVars>>
  BY DEF ReceiveEvent
<1>2. ts \in Nat /\ m \in FeedMoves
  BY RunnerAssumption, InputsAssumption
<1>3. ev'.ts = ts /\ WellFormedMove(ev')
  BY <1>1, <1>2, StampedFields
<1>4. /\ seq \in Nat /\ now \in Nat /\ events.count \in Nat /\ events.latest \in Nat
      /\ now <= events.latest
  BY DEF OrdersSound, ClockSound
<1>5. /\ events'.count \in Nat /\ events'.latest \in Nat
      /\ events.latest <= events'.latest /\ ts <= events'.latest
  BY <1>1, <1>2, <1>4 DEF Larger
<1>6. ClockSound'
  BY <1>1, <1>2, <1>3, <1>4, <1>5 DEF ClockSound, orderVars
<1> QED
  BY <1>1, <1>5, <1>6, FrameKeepsOrders

\* The two ways to a halt, and a check that finds the feed alive.
LEMMA HaltingKeepsOrders ==
    ASSUME OrdersSound, HaltInHandler \/ HeartbeatWakes
    PROVE  OrdersSound'
<1>1. /\ UNCHANGED <<now, events, seq, nextOid, acct, fills, placed, cancels>>
      /\ pc' = "idle"
      /\ OnHalt \/ UNCHANGED <<book, ourIds, pending, arrivals>>
      /\ UNCHANGED lastMid
  BY DEF HaltInHandler, HeartbeatWakes
<1>2. ClockSound' /\ events.latest \in Nat
  BY <1>1 DEF OrdersSound, ClockSound
<1>3. CASE OnHalt
  BY <1>1, <1>2, <1>3, HaltKeepsOrders
<1>4. CASE UNCHANGED <<book, ourIds, pending, arrivals>>
  BY <1>1, <1>2, <1>4, FrameKeepsOrders DEF orderVars
<1> QED
  BY <1>1, <1>3, <1>4

LEMMA StepOrders == OrdersSound /\ [Next]_vars => OrdersSound'
<1> SUFFICES ASSUME OrdersSound, [Next]_vars PROVE OrdersSound'
  OBVIOUS
<1> QED
  BY DrainKeepsOrders, ApplyKeepsOrders, PlacingKeepsOrders, CancellingKeepsOrders,
     QuietKeepsOrders, ReceiveKeepsOrders, HaltingKeepsOrders DEF Next, Ended

\* The orders, the arrivals, the fills and the account agree in every state.
THEOREM OrdersStaySound == Spec => []OrdersSound
BY InitOrders, StepOrders, PTL DEF Spec

-----------------------------------------------------------------------------
\* The loss of the day.

WithinDay(k, pnl) == DailyLossLimit # 0 => k.dailyAnchor - pnl <= DailyLossLimit

LossSound ==
    /\ switch.dailyAnchor \in Int /\ lastMid \in Int
    /\ pc = "strategy" => WithinDay(switch, MarkToMid2(acct, lastMid))

\* A tick that does not halt leaves the loss since the anchor within its limit.
LEMMA TickWithinDay ==
    ASSUME NEW k, IsSwitch(k), k.halted \in BOOLEAN, k.dailyAnchor \in Int,
           NEW t, NEW pnl \in Int, NEW inventory
    PROVE  LET s == Tick(k, t, pnl, inventory)
           IN  s.dailyAnchor \in Int /\ (~s.halted => WithinDay(s, pnl))
<1> DEFINE o == Observe(k, t, pnl, inventory)
           s == Tick(k, t, pnl, inventory)
<1>1. /\ IsSwitch(o) /\ o.halted = k.halted
      /\ o.dailyAnchor = (IF OpensDay(k, t) THEN pnl ELSE k.dailyAnchor)
      /\ o.dailyLoss = (IF OpensDay(k, t) THEN 0 ELSE Larger(0, k.dailyAnchor - pnl))
  BY DEF Observe, IsSwitch, SwitchFields
<1>2. s = CASE DrawdownBreached(o, pnl) -> Trip(o, "max_drawdown")
            [] ~DrawdownBreached(o, pnl) /\ DailyLossBreached(o) -> Trip(o, "daily_loss")
            [] OTHER -> o
  BY DEF Tick
<1> HIDE DEF o, s
<1>3. DailyLossLimit \in Nat
  BY LimitsAssumption
<1>4. o.dailyAnchor \in Int /\ o.dailyLoss = Larger(0, o.dailyAnchor - pnl)
  BY <1>1 DEF Larger
<1>5. \A reason : /\ Trip(o, reason).halted = TRUE
                  /\ Trip(o, reason).dailyAnchor = o.dailyAnchor
  BY <1>1 DEF Trip, IsSwitch, SwitchFields
<1>6. CASE DrawdownBreached(o, pnl)
  <2>1. s = Trip(o, "max_drawdown")
    BY <1>2, <1>6
  <2> QED
    BY <1>4, <1>5, <2>1 DEF s
<1>7. CASE ~DrawdownBreached(o, pnl) /\ DailyLossBreached(o)
  <2>1. s = Trip(o, "daily_loss")
    BY <1>2, <1>7
  <2> QED
    BY <1>4, <1>5, <2>1 DEF s
<1>8. CASE ~DrawdownBreached(o, pnl) /\ ~DailyLossBreached(o)
  <2>1. s = o
    BY <1>2, <1>8
  <2>2. WithinDay(o, pnl)
    BY <1>3, <1>4, <1>8 DEF DailyLossBreached, WithinDay, Larger
  <2> QED
    BY <1>4, <2>1, <2>2 DEF s
<1> QED
  BY <1>6, <1>7, <1>8

\* The account adds up numbers.
LEMMA AccountNumbers ==
    ASSUME OrdersSound'
    PROVE  acct'.cash \in Int /\ acct'.inventory \in Int
<1>1. NoAccount \in Accounts
  BY DEF NoAccount, Accounts
<1>2. IsFiniteSet(fills') /\ IsFiniteSet({}) /\ \A f \in fills' \cup {} : IsFill(f)
  BY FS_EmptySet DEF OrdersSound, FillsSound, FillSound
<1>3. Booked(NoAccount, fills') \in Accounts
  BY <1>1, <1>2, BookedTwice
<1> QED
  BY <1>3 DEF OrdersSound, AccountSound, Accounts

LEMMA ApplyKeepsLoss ==
    ASSUME OrdersSound, OrdersSound', SwitchSound, LossSound, ApplyEvent
    PROVE  LossSound'
<1> DEFINE pnl == MarkToMid2(acct', lastMid')
<1>1. /\ switch' = Tick(switch, wall, pnl, acct'.inventory)
      /\ pc' = IF switch'.halted THEN "halt" ELSE "strategy"
      /\ book' = BookAfterMarket(book, ev)
      /\ lastMid' = MidAfterMarket(book, ev, lastMid)
  BY DEF ApplyEvent
<1>2. lastMid' \in Int
  <2>1. Mid2(book') \in Int
    <3>1. BestBid(book') \in Prices \cup {None} /\ BestAsk(book') \in Prices \cup {None}
      BY TopIsOccupied DEF OrdersSound
    <3>2. \A p \in Prices \cup {None} : p \in Int
      BY PricesAssumption DEF None
    <3> QED
      BY <3>1, <3>2 DEF Mid2
  <2>2. lastMid' \in {lastMid, Mid2(book')}
    BY <1>1 DEF MidAfterMarket, RefreshedMid2
  <2> QED
    BY <2>1, <2>2 DEF LossSound
<1>3. pnl \in Int
  <2>1. acct'.cash \in Int /\ acct'.inventory \in Int
    BY AccountNumbers
  <2>2. TickValue \in Int
    BY FeesAssumption
  <2>3. acct'.inventory * lastMid' \in Int
    BY <1>2, <2>1
  <2>4. acct'.inventory * lastMid' * TickValue \in Int
    BY <2>2, <2>3
  <2> QED
    BY <2>1, <2>4 DEF MarkToMid2
<1>4. switch'.dailyAnchor \in Int /\ (~switch'.halted => WithinDay(switch', pnl))
  <2>1. IsSwitch(switch) /\ switch.halted \in BOOLEAN /\ switch.dailyAnchor \in Int
    BY DEF SwitchSound, LossSound
  <2> HIDE DEF pnl
  <2> QED
    BY <1>1, <1>3, <2>1, TickWithinDay
<1> QED
  BY <1>1, <1>2, <1>4 DEF LossSound

\* No other step touches the anchor, and none that goes on trading touches
\* the account.
LEMMA StepLoss ==
    ASSUME OrdersSound, OrdersSound', SwitchSound, LossSound, [Next]_vars
    PROVE  LossSound'
<1>1. CASE ApplyEvent
  BY <1>1, ApplyKeepsLoss
<1>2. ASSUME switch'.dailyAnchor = switch.dailyAnchor, lastMid' = lastMid,
             pc' = "strategy" => pc = "strategy" /\ acct' = acct
      PROVE  LossSound'
  BY <1>2 DEF LossSound, WithinDay
<1>3. CASE ClientConnects \/ ClientDrops \/ UserStops \/ PassTime
  BY <1>2, <1>3 DEF ClientConnects, ClientDrops, UserStops, PassTime, orderVars
<1>4. \A t : NoteWsMessage(switch, t).dailyAnchor = switch.dailyAnchor
  BY DEF NoteWsMessage, SwitchSound, IsSwitch, SwitchFields
<1>5. CASE ForeignMessage
  BY <1>2, <1>4, <1>5 DEF ForeignMessage, orderVars
<1>6. ASSUME NEW m \in MarketMoves, NEW ts \in Stamps, ReceiveEvent(m, ts) PROVE LossSound'
  BY <1>2, <1>4, <1>6 DEF ReceiveEvent, orderVars
<1>7. CASE DrainArrival
  BY <1>2, <1>7 DEF DrainArrival, riskVars
<1>8. CASE HaltInHandler
  BY <1>2, <1>8 DEF HaltInHandler
<1>9. ASSUME NEW k \in OrderKinds, NEW delay \in Latencies, PlaceLimit(k, delay) PROVE LossSound'
  BY <1>2, <1>9 DEF PlaceLimit, riskVars
<1>10. ASSUME NEW oid \in 1 .. (nextOid - 1), NEW delay \in Latencies, Cancel(oid, delay)
       PROVE  LossSound'
  BY <1>2, <1>10 DEF Cancel, riskVars
<1>11. CASE StrategyReturns
  BY <1>2, <1>11 DEF StrategyReturns, orderVars, riskVars
<1>12. CASE HeartbeatWakes
  <2>1. HeartbeatCheck(switch, wall).dailyAnchor = switch.dailyAnchor
    BY DEF HeartbeatCheck, Trip, SwitchSound, IsSwitch, SwitchFields
  <2> QED
    BY <1>2, <1>12, <2>1 DEF HeartbeatWakes
<1>13. CASE Ended \/ UNCHANGED vars
  BY <1>2, <1>13 DEF Ended, vars, orderVars, riskVars
<1> QED
  BY <1>1, <1>3, <1>5, <1>6, <1>7, <1>8, <1>9, <1>10, <1>11, <1>12, <1>13 DEF Next

\* The strategy runs only while the account, with the fills of the event it is
\* called for, is within the drawdown and within the loss of the day, and the
\* switch, not halted, knows its inventory.
THEOREM RiskIsCheckedFirst == Spec => []RiskCheckedFirst
<1>1. Init => LossSound
  BY DEF Init, LossSound, NewSwitch, None
<1>2. OrdersSound /\ OrdersSound' /\ SwitchSound /\ LossSound /\ [Next]_vars => LossSound'
  BY StepLoss
<1>3. SwitchSound /\ LossSound => RiskCheckedFirst
  BY DEF SwitchSound, Checked, LossSound, WithinDay, RiskCheckedFirst
<1> QED
  BY <1>1, <1>2, <1>3, SwitchStaysSound, OrdersStaySound, PTL DEF Spec

-----------------------------------------------------------------------------
\* The ids that _on_halt walks are exactly the orders on the book.
THEOREM OrdersAreTracked == Spec => []TracksItsOrders
<1>1. OrdersSound => TracksItsOrders
  BY DEF OrdersSound
<1> QED
  BY <1>1, OrdersStaySound, PTL

\* No order rests or has traded before the feed has reached its arrival time.
THEOREM LatencyIsHonoured == Spec => []LatencyHonoured
<1>1. OrdersSound => LatencyHonoured
  <2> SUFFICES ASSUME OrdersSound PROVE LatencyHonoured
    OBVIOUS
  <2>1. \A o \in DOMAIN book.orders :
           placed[o].arrives <= book.orders[o].placedAt /\ placed[o].arrives <= events.latest
    BY DEF OrdersSound, RestsSince
  <2>2. \A f \in fills : placed[f.oid].arrives <= events.latest
    BY DEF OrdersSound, FillsSound, FillSound
  <2>3. now <= events.latest
    BY DEF OrdersSound, ClockSound
  <2> QED
    BY <2>1, <2>2, <2>3 DEF LatencyHonoured
<1> QED
  BY <1>1, OrdersStaySound, PTL

-----------------------------------------------------------------------------
\* The halt.

\* Nothing brings an order back after the halt has been logged: the queue of
\* arrivals is empty, and the switch never lets the handler reach the strategy.
LEMMA StepHalt ==
    OrdersSound /\ SwitchSound /\ SwitchSound' /\ HaltIsFinal /\ [Next]_vars => HaltIsFinal'
<1> SUFFICES ASSUME OrdersSound, SwitchSound, SwitchSound', HaltIsFinal, [Next]_vars, haltLogged'
             PROVE  /\ DOMAIN book'.orders = {} /\ DOMAIN pending' = {} /\ arrivals' = {}
                    /\ pc' # "strategy"
                    /\ switch'.halted
  BY DEF HaltIsFinal
<1>1. switch'.halted
  BY DEF SwitchSound
<1>2. haltLogged =>
         /\ DOMAIN book.orders = {} /\ DOMAIN pending = {} /\ arrivals = {}
         /\ pc # "strategy" /\ switch.halted
  BY DEF HaltIsFinal
<1>3. CASE ClientConnects \/ ClientDrops \/ UserStops \/ ForeignMessage \/ PassTime
           \/ StrategyReturns \/ UNCHANGED vars
  BY <1>1, <1>2, <1>3 DEF ClientConnects, ClientDrops, UserStops, ForeignMessage, PassTime,
       StrategyReturns, vars, orderVars, riskVars
<1>4. ASSUME NEW m \in MarketMoves, NEW ts \in Stamps, ReceiveEvent(m, ts)
      PROVE  /\ DOMAIN book'.orders = {} /\ DOMAIN pending' = {} /\ arrivals' = {}
             /\ pc' # "strategy"
  BY <1>2, <1>4 DEF ReceiveEvent, orderVars
<1>5. CASE DrainArrival
  BY <1>2, <1>5 DEF DrainArrival, riskVars
<1>6. CASE ApplyEvent
  <2>1. haltLogged /\ pending' = pending /\ arrivals' = arrivals /\ pc' # "strategy"
    BY <1>1, <1>6 DEF ApplyEvent
  <2>2. DOMAIN book'.orders \subseteq DOMAIN book.orders \cup (DOMAIN pending \ DOMAIN pending')
    BY <1>6, ApplyEffect DEF Effect
  <2> QED
    BY <1>1, <1>2, <2>1, <2>2
<1>7. CASE HaltInHandler
  <2>1. OnHalt /\ pc' = "idle"
    BY <1>7 DEF HaltInHandler
  <2> QED
    BY <1>1, <1>2, <2>1, HaltEmpties
<1>8. ASSUME NEW k \in OrderKinds, NEW delay \in Latencies, PlaceLimit(k, delay)
      PROVE  FALSE
  BY <1>2, <1>8 DEF PlaceLimit, riskVars
<1>9. ASSUME NEW oid \in 1 .. (nextOid - 1), NEW delay \in Latencies, Cancel(oid, delay)
      PROVE  FALSE
  BY <1>2, <1>9 DEF Cancel, riskVars
<1>10. CASE HeartbeatWakes
  <2>1. OnHalt /\ pc' = "idle"
    BY <1>1, <1>10 DEF HeartbeatWakes
  <2> QED
    BY <1>1, <1>2, <2>1, HaltEmpties
<1> QED
  BY <1>1, <1>3, <1>4, <1>5, <1>6, <1>7, <1>8, <1>9, <1>10 DEF Next, Ended

\* A halt is final and complete, whichever coroutine found the breach.
THEOREM HaltsAreFinal == Spec => []HaltIsFinal
<1>1. Init => HaltIsFinal
  BY DEF Init, HaltIsFinal
<1> QED
  BY <1>1, StepHalt, OrdersStaySound, SwitchStaysSound, PTL DEF Spec

-----------------------------------------------------------------------------
\* The refinement of OrderLifecycle.

CancelAsked == {cancels[i] : i \in DOMAIN cancels}

PlacedSize(o) == IF o \in DOMAIN placed THEN placed[o].size ELSE 0

\* An order as OrderLifecycle sees it: what is filled of an order in flight, and
\* of one that rests, is decided by its size.
Viewed(o) ==
    /\ Phase(o) \in {"unborn", "inflight", "resting", "done"}
    /\ PlacedSize(o) \in Nat /\ FilledOf(o) \in Nat
    /\ FilledOf(o) = Filled(fills, o)
    /\ Phase(o) = "unborn" <=> o \notin Known
    /\ Phase(o) = "unborn" => PlacedSize(o) = 0 /\ FilledOf(o) = 0
    /\ Phase(o) = "inflight" <=> o \in DOMAIN pending
    /\ Phase(o) = "inflight" => FilledOf(o) = 0 /\ PlacedSize(o) > 0
    /\ Phase(o) = "resting" <=> o \in DOMAIN book.orders
    /\ Phase(o) = "resting" => FilledOf(o) + RestingSize(book, o) = PlacedSize(o)
    /\ RestingSize(book, o) \in Nat
    /\ o \in DOMAIN book.orders <=> RestingSize(book, o) > 0

OrdersViewed == \A o \in Oids : Viewed(o)

LEMMA FilledIs ==
    ASSUME IsFiniteSet(fills), NEW o
    PROVE  FilledOf(o) = Filled(fills, o)
<1> DEFINE S == {f \in fills : f.oid = o}
<1>1. IsFiniteSet(S)
  <2>1. S \in SUBSET fills
    OBVIOUS
  <2> QED
    BY <2>1, FS_Subset
<1>2. FilledOf(o) = SizesOf(S)
  BY DEF FilledOf, SizesOf
<1>3. Filled(fills, o) = SizeSum(S)
  BY DEF Filled
<1> HIDE DEF S
<1> QED
  BY <1>1, <1>2, <1>3, FoldsAreSums

LEMMA SoundIsViewed == OrdersSound => OrdersViewed
<1> SUFFICES ASSUME OrdersSound, NEW o \in Oids PROVE Viewed(o)
  BY DEF OrdersViewed
<1>1. /\ DOMAIN placed = Known /\ IsFiniteSet(fills)
      /\ o \in Known => placed[o].size \in Nat \ {0}
      /\ DOMAIN pending \subseteq Known /\ DOMAIN book.orders \subseteq Known
      /\ o \in DOMAIN pending => o \notin DOMAIN book.orders
  BY DEF OrdersSound, OrdersKnown, FillsSound
<1>2. FilledOf(o) = Filled(fills, o) /\ Filled(fills, o) \in Nat
  BY <1>1, FilledIs, FilledIsNat
<1>3. /\ PlacedSize(o) \in Nat
      /\ o \in Known => PlacedSize(o) = placed[o].size /\ PlacedSize(o) > 0
      /\ o \notin Known => PlacedSize(o) = 0
  BY <1>1 DEF PlacedSize
<1>4. /\ Phase(o) \in {"unborn", "inflight", "resting", "done"}
      /\ Phase(o) = "unborn" <=> o \notin Known
      /\ Phase(o) = "inflight" <=> o \in DOMAIN pending
      /\ Phase(o) = "resting" <=> o \in DOMAIN book.orders
  BY <1>1 DEF Phase
<1>5. o \notin Known => Filled(fills, o) = 0
  <2>1. o \notin Known => \A f \in fills : f.oid # o
    BY DEF OrdersSound, FillsSound, FillSound
  <2> QED
    BY <2>1, FilledByNone
<1>6. RestingSize(book, o) \in Nat /\ (o \in DOMAIN book.orders <=> RestingSize(book, o) > 0)
  <2>1. o \in DOMAIN book.orders => book.orders[o].size \in Nat \ {0}
    BY DEF OrdersSound, IsBook, RestingOrders
  <2> QED
    BY <2>1 DEF RestingSize
<1>7. /\ o \in DOMAIN pending => Filled(fills, o) = 0
      /\ o \in DOMAIN book.orders =>
            Filled(fills, o) + RestingSize(book, o) = PlacedSize(o)
  BY <1>1, <1>3 DEF OrdersSound, SizesSound
<1> QED
  BY <1>1, <1>2, <1>3, <1>4, <1>5, <1>6, <1>7 DEF Viewed

Moves(o) ==
    \/ Lifecycle!Stay(o) \/ Lifecycle!Submit(o) \/ Lifecycle!Arrive(o)
    \/ Lifecycle!Fill(o) \/ Lifecycle!Withdraw(o)

\* An order whose phase, size and fills do not change stays.
LEMMA SameStays ==
    ASSUME NEW o \in Oids, Phase(o)' = Phase(o), PlacedSize(o)' = PlacedSize(o),
           FilledOf(o)' = FilledOf(o)
    PROVE  Moves(o)
BY DEF Moves, Lifecycle!Stay, PlacedSize

\* Each of the four things an event can do to an order is a move of its life.
LEMMA EffectMoves ==
    ASSUME OrdersSound, OrdersSound', OrdersViewed, OrdersViewed', NEW by, Effect(by),
           UNCHANGED <<nextOid, placed, cancels>>, NEW o \in Oids
    PROVE  Moves(o)
<1>1. Viewed(o) /\ Viewed(o)'
  BY DEF OrdersViewed
<1>2. Known' = Known /\ PlacedSize(o)' = PlacedSize(o) /\ placed' = placed
  BY DEF Known, PlacedSize
<1>3. /\ FilledOf(o) = Filled(fills, o) /\ FilledOf(o)' = Filled(fills', o)
      /\ FilledOf(o) \in Nat /\ PlacedSize(o) \in Nat
  BY <1>1 DEF Viewed
<1>4. CASE o \notin Known
  <2>1. /\ Phase(o) = "unborn" /\ Phase(o)' = "unborn"
        /\ FilledOf(o) = 0 /\ FilledOf(o)' = 0
    BY <1>1, <1>2, <1>4 DEF Viewed
  <2> QED
    BY <1>2, <2>1, SameStays
<1>5. CASE o \in Known /\ Stays(o)
  <2>1. Phase(o)' = Phase(o)
    BY <1>2, <1>5 DEF Phase, Stays
  <2>2. FilledOf(o)' = FilledOf(o)
    BY <1>3, <1>5 DEF Stays
  <2> QED
    BY <1>2, <2>1, <2>2, SameStays
<1>6. CASE o \in Known /\ Lands(o)
  <2>1. o \in DOMAIN placed /\ PlacedSize(o) = placed[o].size
    BY <1>6 DEF OrdersSound, OrdersKnown, PlacedSize
  <2>2. PICK n \in 0 .. PlacedSize(o) : Splits(o, PlacedSize(o), n)
    BY <1>6, <2>1 DEF Lands
  <2>3. Phase(o) = "inflight" /\ FilledOf(o) = 0
    BY <1>1, <1>6 DEF Viewed, Lands
  <2>4. FilledOf(o)' = n
    BY <1>3, <2>2, <2>3 DEF Splits
  <2>5. Phase(o)' = IF n = PlacedSize(o) THEN "done" ELSE "resting"
    <3>1. o \notin DOMAIN pending' /\ RestingSize(book', o) = PlacedSize(o) - n
      BY <2>2 DEF Splits
    <3>2. o \in DOMAIN book'.orders <=> n # PlacedSize(o)
      BY <1>1, <1>3, <2>2, <3>1 DEF Viewed
    <3> QED
      BY <1>2, <2>1, <3>1, <3>2 DEF Phase
  <2>6. FilledOf(o)' \in FilledOf(o) .. PlacedSize(o)
    BY <1>3, <2>2, <2>3, <2>4
  <2>7. Lifecycle!Arrive(o)
    BY <1>2, <2>3, <2>4, <2>5, <2>6 DEF Lifecycle!Arrive, PlacedSize
  <2> QED
    BY <2>7 DEF Moves
<1>7. CASE o \in Known /\ Trades(o)
  <2> DEFINE whole == book.orders[o].size
  <2>1. o \in DOMAIN placed /\ PlacedSize(o) = placed[o].size
    BY <1>7 DEF OrdersSound, OrdersKnown, PlacedSize
  <2>2. PICK n \in 1 .. whole : Splits(o, whole, n)
    BY <1>7 DEF Trades
  <2>3. Phase(o) = "resting" /\ RestingSize(book, o) = whole
    BY <1>1, <1>7 DEF Viewed, Trades, RestingSize
  <2> HIDE DEF whole
  <2>4. FilledOf(o) + whole = PlacedSize(o) /\ whole \in Nat
    BY <1>1, <2>3 DEF Viewed
  <2>5. FilledOf(o)' = FilledOf(o) + n
    BY <1>3, <2>2 DEF Splits
  <2>6. FilledOf(o)' \in (FilledOf(o) + 1) .. PlacedSize(o)
    BY <1>3, <2>2, <2>4, <2>5
  <2>7. Phase(o)' = IF FilledOf(o)' = PlacedSize(o) THEN "done" ELSE "resting"
    <3>1. o \notin DOMAIN pending' /\ RestingSize(book', o) = whole - n
      BY <2>2 DEF Splits
    <3>2. o \in DOMAIN book'.orders <=> n # whole
      BY <1>1, <2>2, <2>4, <3>1 DEF Viewed
    <3>3. n = whole <=> FilledOf(o)' = PlacedSize(o)
      BY <1>3, <2>2, <2>4, <2>5
    <3> QED
      BY <1>2, <2>1, <3>1, <3>2, <3>3 DEF Phase
  <2>8. Lifecycle!Fill(o)
    BY <1>2, <2>3, <2>6, <2>7 DEF Lifecycle!Fill, PlacedSize
  <2> QED
    BY <2>8 DEF Moves
<1>8. CASE o \in Known /\ Dies(o)
  <2>1. Phase(o) \in {"inflight", "resting"}
    BY <1>1, <1>8 DEF Viewed, Dies
  <2>2. Phase(o)' = "done"
    BY <1>2, <1>8 DEF Phase, Dies, OrdersSound, OrdersKnown
  <2>3. FilledOf(o)' = FilledOf(o)
    BY <1>3, <1>8 DEF Dies
  <2>4. o \in CancelAsked
    BY <1>8 DEF Dies, CancelAsked
  <2>5. Lifecycle!Withdraw(o)
    BY <1>2, <2>1, <2>2, <2>3, <2>4 DEF Lifecycle!Withdraw, PlacedSize, CancelAsked
  <2> QED
    BY <2>5 DEF Moves
<1> QED
  BY <1>4, <1>5, <1>6, <1>7, <1>8 DEF Effect

\* Placing an order submits it, on a runner that has not stopped.
LEMMA PlacingMoves ==
    ASSUME OrdersSound, OrdersViewed, OrdersViewed', HaltIsFinal, NEW k \in OrderKinds,
           NEW delay \in Latencies, PlaceLimit(k, delay), NEW o \in Oids
    PROVE  Moves(o)
<1>1. /\ book' = book /\ fills' = fills /\ nextOid' = nextOid + 1
      /\ DOMAIN pending' = DOMAIN pending \cup {nextOid}
      /\ DOMAIN placed' = 1 .. nextOid
      /\ \A x \in 1 .. nextOid : x # nextOid => placed'[x] = placed[x]
      /\ pc = "strategy"
  BY DEF PlaceLimit
<1>2. Viewed(o) /\ Viewed(o)'
  BY DEF OrdersViewed
<1>3. nextOid \in Nat \ {0} /\ DOMAIN placed = Known
  BY RunnerAssumption DEF OrdersSound, OrdersKnown
<1>4. DOMAIN placed' = DOMAIN placed \cup {nextOid}
      /\ \A x \in DOMAIN placed : placed'[x] = placed[x]
  BY <1>1, <1>3 DEF Known
<1>5. CASE o = nextOid
  <2>1. o \notin Known
    BY <1>3, <1>5 DEF Known
  <2>2. Phase(o) = "unborn" /\ Phase(o)' = "inflight"
    BY <1>1, <1>2, <1>5, <2>1 DEF Viewed
  <2>3. PlacedSize(o)' > 0 /\ FilledOf(o)' = 0
    BY <1>2, <2>2 DEF Viewed
  <2>4. ~haltLogged
    BY <1>1 DEF HaltIsFinal
  <2>5. Lifecycle!Submit(o)
    BY <2>2, <2>3, <2>4 DEF Lifecycle!Submit, PlacedSize
  <2> QED
    BY <2>5 DEF Moves
<1>6. CASE o # nextOid
  <2>a. (o \in DOMAIN placed' <=> o \in DOMAIN placed) /\ (o \in Known' <=> o \in Known)
        /\ (o \in DOMAIN pending' <=> o \in DOMAIN pending)
    BY <1>1, <1>3, <1>4, <1>6 DEF Known
  <2>1. Phase(o)' = Phase(o)
    BY <1>1, <1>2, <2>a DEF Viewed
  <2>2. PlacedSize(o)' = PlacedSize(o)
    BY <1>4, <1>6 DEF PlacedSize
  <2>3. FilledOf(o)' = FilledOf(o)
    BY <1>1, <1>2 DEF Viewed
  <2> QED
    BY <2>1, <2>2, <2>3, SameStays
<1> QED
  BY <1>5, <1>6

\* Steps that move no order.
LEMMA OthersStay ==
    ASSUME OrdersViewed, OrdersViewed', UNCHANGED <<book, pending, fills, placed>>,
           NEW o \in Oids
    PROVE  Moves(o)
<1>1. Phase(o)' = Phase(o) /\ PlacedSize(o)' = PlacedSize(o)
  BY DEF Phase, PlacedSize
<1>2. FilledOf(o)' = FilledOf(o)
  BY DEF OrdersViewed, Viewed
<1> QED
  BY <1>1, <1>2, SameStays

\* The first halt withdraws every live order; a later one finds none.
LEMMA HaltMoves ==
    ASSUME OrdersSound, OrdersViewed, OrdersViewed', OnHalt,
           UNCHANGED <<nextOid, fills, placed>>, NEW o \in Oids
    PROVE  Moves(o)
<1>1. Viewed(o) /\ Viewed(o)'
  BY DEF OrdersViewed
<1>2. Known' = Known /\ PlacedSize(o)' = PlacedSize(o)
  BY DEF Known, PlacedSize
<1>3. FilledOf(o)' = FilledOf(o)
  BY <1>1 DEF Viewed
<1>4. CASE haltLogged
  BY <1>4, HaltEmpties, OthersStay
<1>5. CASE ~haltLogged
  <2>1. haltLogged' /\ DOMAIN book'.orders = {} /\ DOMAIN pending' = {}
    BY <1>5, HaltEmpties
  <2>2. CASE Phase(o) \in {"inflight", "resting"}
    <3>1. Phase(o)' = "done"
      BY <1>1, <1>2, <2>1, <2>2 DEF Viewed
    <3>2. Lifecycle!Withdraw(o)
      BY <1>2, <1>3, <1>5, <2>1, <2>2, <3>1 DEF Lifecycle!Withdraw, PlacedSize
    <3> QED
      BY <3>2 DEF Moves
  <2>3. CASE Phase(o) \notin {"inflight", "resting"}
    <3>1. Phase(o)' = Phase(o)
      BY <1>1, <1>2, <2>1, <2>3 DEF Viewed
    <3> QED
      BY <1>2, <1>3, <3>1, SameStays
  <2> QED
    BY <2>2, <2>3
<1> QED
  BY <1>4, <1>5

LEMMA StepMoves ==
    ASSUME OrdersSound, OrdersSound', OrdersViewed, OrdersViewed', HaltIsFinal, [Next]_vars,
           NEW o \in Oids
    PROVE  Moves(o)
<1>1. CASE ClientConnects \/ ClientDrops \/ UserStops \/ ForeignMessage \/ PassTime
           \/ StrategyReturns \/ UNCHANGED vars
  BY <1>1, OthersStay DEF ClientConnects, ClientDrops, UserStops, ForeignMessage, PassTime,
       StrategyReturns, vars, orderVars
<1>2. ASSUME NEW m \in MarketMoves, NEW ts \in Stamps, ReceiveEvent(m, ts) PROVE Moves(o)
  BY <1>2, OthersStay DEF ReceiveEvent, orderVars
<1>3. CASE DrainArrival
  <2>1. Effect(Earliest(arrivals).seq)
    BY <1>3, DrainEffect
  <2> QED
    BY <1>3, <2>1, EffectMoves DEF DrainArrival
<1>4. CASE ApplyEvent
  <2>1. Effect(seq)
    BY <1>4, ApplyEffect
  <2> QED
    BY <1>4, <2>1, EffectMoves DEF ApplyEvent
<1>5. ASSUME NEW oid \in 1 .. (nextOid - 1), NEW delay \in Latencies, Cancel(oid, delay)
      PROVE  Moves(o)
  BY <1>5, OthersStay DEF Cancel
<1>6. CASE HaltInHandler
  BY <1>6, HaltMoves DEF HaltInHandler
<1>7. CASE HeartbeatWakes
  <2>1. OnHalt \/ UNCHANGED <<book, pending>>
    BY <1>7 DEF HeartbeatWakes
  <2>2. UNCHANGED <<nextOid, fills, placed>>
    BY <1>7 DEF HeartbeatWakes
  <2> QED
    BY <2>1, <2>2, HaltMoves, OthersStay
<1> QED
  BY <1>1, <1>2, <1>3, <1>4, <1>5, <1>6, <1>7, PlacingMoves DEF Next, Ended

\* What was asked for stays asked for, and a logged halt stays logged.
LEMMA HistoryGrows ==
    ASSUME OrdersSound, [Next]_vars
    PROVE  CancelAsked \subseteq CancelAsked' /\ (haltLogged => haltLogged')
<1>1. CASE ClientConnects \/ ClientDrops \/ UserStops \/ ForeignMessage \/ PassTime
           \/ StrategyReturns \/ UNCHANGED vars \/ HaltInHandler \/ HeartbeatWakes
           \/ DrainArrival \/ ApplyEvent
  <2>1. cancels' = cancels /\ (haltLogged => haltLogged')
    BY <1>1 DEF ClientConnects, ClientDrops, UserStops, ForeignMessage, PassTime,
         StrategyReturns, HaltInHandler, HeartbeatWakes, OnHalt, DrainArrival, ApplyEvent,
         vars, orderVars, riskVars
  <2> QED
    BY <2>1 DEF CancelAsked
<1>2. ASSUME NEW m \in MarketMoves, NEW ts \in Stamps, ReceiveEvent(m, ts)
      PROVE  cancels' = cancels /\ haltLogged' = haltLogged
  BY <1>2 DEF ReceiveEvent, orderVars
<1>3. ASSUME NEW k \in OrderKinds, NEW delay \in Latencies, PlaceLimit(k, delay)
      PROVE  cancels' = cancels /\ haltLogged' = haltLogged
  BY <1>3 DEF PlaceLimit, riskVars
<1>4. ASSUME NEW oid \in 1 .. (nextOid - 1), NEW delay \in Latencies, Cancel(oid, delay)
      PROVE  CancelAsked \subseteq CancelAsked' /\ haltLogged' = haltLogged
  <2>1. cancels' = Append(cancels, oid) /\ haltLogged' = haltLogged
    BY <1>4 DEF Cancel, riskVars
  <2>2. cancels \in Seq(Nat) /\ oid \in Nat
    BY RunnerAssumption DEF OrdersSound, CancelsSound, OrdersKnown
  <2>3. \A i \in DOMAIN cancels : i \in DOMAIN cancels' /\ cancels'[i] = cancels[i]
    BY <2>1, <2>2
  <2> QED
    BY <2>1, <2>3 DEF CancelAsked
<1> QED
  BY <1>1, <1>2, <1>3, <1>4 DEF Next, Ended, CancelAsked

AskedKnown == CancelAsked \subseteq Oids

LEMMA AskedAreOrders == OrdersSound => AskedKnown
<1> SUFFICES ASSUME OrdersSound, NEW i \in DOMAIN cancels PROVE cancels[i] \in Oids
  BY DEF AskedKnown, CancelAsked
<1> QED
  BY RunnerAssumption DEF OrdersSound, OrdersKnown, CancelsSound, Known, Oids

LEMMA InitIsLifecycle == Init => Lifecycle!Init
<1> SUFFICES ASSUME Init PROVE Lifecycle!Init
  OBVIOUS
<1>1. DOMAIN << >> = {}
  OBVIOUS
<1>2. OrdersSound /\ OrdersViewed /\ placed = << >> /\ cancels = << >> /\ haltLogged = FALSE
  BY InitOrders, SoundIsViewed DEF Init
<1>3. ASSUME NEW o \in Oids PROVE Phase(o) = "unborn" /\ PlacedSize(o) = 0 /\ FilledOf(o) = 0
  <2>1. o \notin Known
    BY <1>1, <1>2 DEF OrdersSound, OrdersKnown
  <2> QED
    BY <1>2, <2>1 DEF OrdersViewed, Viewed
<1>4. CancelAsked = {}
  BY <1>1, <1>2 DEF CancelAsked
<1> QED
  BY <1>2, <1>3, <1>4 DEF Lifecycle!Init, PlacedSize, CancelAsked

LEMMA StepIsLifecycle ==
    /\ OrdersSound /\ OrdersViewed /\ HaltIsFinal /\ [Next]_vars
    /\ OrdersSound' /\ OrdersViewed' /\ HaltIsFinal' /\ Watched'
    => Lifecycle!Next
<1> SUFFICES ASSUME OrdersSound, OrdersViewed, HaltIsFinal, [Next]_vars,
                    OrdersSound', OrdersViewed', HaltIsFinal', Watched'
             PROVE  Lifecycle!Next
  OBVIOUS
<1>1. \A o \in Oids : Moves(o)
  BY StepMoves
<1>2. /\ \A o \in Oids : Phase(o)' \in {"unborn", "inflight", "resting", "done"}
      /\ \A o \in Oids : PlacedSize(o)' \in Nat /\ FilledOf(o)' \in Nat
  BY DEF OrdersViewed, Viewed
<1>3. /\ [o \in Oids |-> Phase(o)]' \in [Oids -> Lifecycle!Phases]
      /\ [o \in Oids |-> PlacedSize(o)]' \in [Oids -> Nat]
      /\ [o \in Oids |-> FilledOf(o)]' \in [Oids -> Nat]
  BY <1>2 DEF Lifecycle!Phases
<1>4. OrdersSound' => AskedKnown'
  BY AskedAreOrders, PTL
<1>5. CancelAsked \subseteq CancelAsked' /\ CancelAsked' \in SUBSET Oids
      /\ (haltLogged => haltLogged')
  BY <1>4, HistoryGrows DEF AskedKnown, Oids
<1>6. haltLogged' => \A o \in Oids : Phase(o)' \in {"unborn", "done"}
  <2>1. haltLogged' => DOMAIN book'.orders = {} /\ DOMAIN pending' = {}
    BY DEF HaltIsFinal
  <2> QED
    BY <2>1 DEF OrdersViewed, Viewed
<1>7. Lifecycle!StopsClean
  BY <1>6 DEF Lifecycle!StopsClean
<1>8. haltLogged' \in BOOLEAN
  BY DEF Watched
<1> QED
  BY <1>1, <1>3, <1>5, <1>7, <1>8 DEF Lifecycle!Next, Moves, PlacedSize, CancelAsked

\* Every run of the paper trader is a run of OrderLifecycle, halts included.
THEOREM PaperTraderKeepsLifecycle == Spec => ImplementsLifecycle
<1>1. OrdersSound => OrdersViewed
  BY SoundIsViewed
<1>2. /\ OrdersSound /\ OrdersViewed /\ HaltIsFinal /\ [Next]_vars
      /\ OrdersSound' /\ OrdersViewed' /\ HaltIsFinal' /\ Watched'
      => [Lifecycle!Next]_(Lifecycle!vars)
  BY StepIsLifecycle
<1> QED
  BY <1>1, <1>2, InitIsLifecycle, OrdersStaySound, HaltsAreFinal, WatchdogStaysAwake,
     PTL DEF Spec, ImplementsLifecycle, Lifecycle!Spec
=============================================================================
