----------------------------- MODULE Backtester -----------------------------
(***************************************************************************)
(* simulator/engine.py: the event-driven backtester.  One heap merges the  *)
(* replayed market feed with the arrivals that the strategy's own calls    *)
(* schedule; every turn of run() pops the earliest event, applies it,      *)
(* pulls the next market event from the feed and calls the strategy, which *)
(* may place and cancel any number of orders before it returns.            *)
(*                                                                         *)
(* The strategy is arbitrary.  The feed is any sequence of market events   *)
(* whose timestamps do not decrease (data/replay.py promises that order).  *)
(***************************************************************************)
EXTENDS OrderExecution, FiniteSetsExt

CONSTANTS
    InitialBook,   \* the book that the caller passes in
    MarketMoves,   \* market events the feed may contain, without timestamps
    Gaps,          \* milliseconds between consecutive market events
    Latencies,     \* what latency.sample() may add to the decision time
    OrderKinds,    \* [side, price, size, postOnly] that a strategy may place
    MaxEvents,     \* bound on the length of the feed
    MaxOrders,     \* bound on the orders a strategy places
    MaxCancels     \* bound on the cancellations it requests

ASSUME EngineAssumption ==
    /\ Gaps \subseteq Nat /\ Latencies \subseteq Nat
    /\ MaxEvents \in Nat /\ MaxOrders \in Nat /\ MaxCancels \in Nat

\* The caller's book holds no order of ours, the feed carries events of the
\* right types and the strategy only places what place_limit accepts.
ASSUME InputsAssumption ==
    /\ InitialBook \in FreshBooks
    /\ MarketMoves \subseteq FeedMoves
    /\ OrderKinds \subseteq Placeable

VARIABLES
    pc,            \* "pop", "strategy" (inside on_event) or "finished"
    now,           \* _now_ms
    heap,          \* _heap, as the set of its events
    seq,           \* next value of _seq_counter
    feed,          \* the iterator: [open, last timestamp, events pulled]
    book,          \* _book
    pending,       \* _pending_places: order id -> payload
    nextOid,       \* next value of _next_order_id
    acct,          \* cash, inventory, fees, rebates
    fills,         \* _fills
    lastMid,       \* _last_mid, doubled
    placed,        \* history: order id -> what was placed, and when
    cancels        \* history: the cancellations requested, in order

vars == <<pc, now, heap, seq, feed, book, pending, nextOid, acct, fills,
          lastMid, placed, cancels>>

Oids == 1 .. MaxOrders

\* run() primes the heap with the first event; without one it finishes.
Init ==
    /\ now = 0 /\ nextOid = 1
    /\ book = InitialBook
    /\ pending = << >> /\ placed = << >> /\ cancels = << >>
    /\ acct = NoAccount /\ fills = {} /\ lastMid = None
    /\ \/ /\ pc = "finished" /\ heap = {} /\ seq = 0
          /\ feed = [open |-> FALSE, last |-> 0, pulled |-> 0]
       \/ \E m \in MarketMoves, ts \in Gaps :
            /\ pc = "pop" /\ heap = {Stamped(m, ts, 0)} /\ seq = 1
            /\ feed = [open |-> TRUE, last |-> ts, pulled |-> 1]

-----------------------------------------------------------------------------
\* _apply, one operator per kind of event that is not a market event.

PlaceArrives(e) ==
    /\ e.kind = "place_arrival"
    /\ IF e.order.oid \notin DOMAIN pending         \* cancelled before arrival
       THEN UNCHANGED <<book, pending, acct, fills>>
       ELSE LET new == ArrivalFills(book, e.order, e.ts, e.seq)
            IN  /\ pending' = [o \in DOMAIN pending \ {e.order.oid} |-> pending[o]]
                /\ book' = BookAfterArrival(book, e.order, e.ts)
                /\ fills' = fills \cup new
                /\ acct' = RecordFills(acct, new)
    /\ UNCHANGED lastMid

\* Mutant: the arrival forgets that the order may still be pending.
CancelArrivesAtBookOnly(e) ==
    /\ e.kind = "cancel_arrival"
    /\ book' = RemoveOurOrder(book, e.oid)
    /\ UNCHANGED <<pending, acct, fills, lastMid>>

CancelArrives(e) ==
    /\ e.kind = "cancel_arrival"
    /\ book' = RemoveOurOrder(book, e.oid)
    /\ pending' = [o \in DOMAIN pending \ {e.oid} |-> pending[o]]
    /\ UNCHANGED <<acct, fills, lastMid>>

MarketArrives(e) ==
    /\ IsMarket(e)
    /\ book' = BookAfterMarket(book, e)
    /\ LET new == MarketFills(book, e, e.seq)
       IN  fills' = fills \cup new /\ acct' = RecordFills(acct, new)
    /\ lastMid' = MidAfterMarket(book, e, lastMid)
    /\ UNCHANGED pending

\* next(events_iter), once per turn whatever was popped: the feed ends, or
\* its next event goes onto the heap.
PullFeed(popped) ==
    \/ /\ heap' = heap \ {popped}
       /\ feed' = [feed EXCEPT !.open = FALSE]
       /\ UNCHANGED seq
    \/ /\ feed.open /\ feed.pulled < MaxEvents
       /\ \E m \in MarketMoves, gap \in Gaps :
            LET ts == feed.last + gap
            IN  /\ heap' = (heap \ {popped}) \cup {Stamped(m, ts, seq)}
                /\ feed' = [open |-> TRUE, last |-> ts, pulled |-> feed.pulled + 1]
                /\ seq' = seq + 1

Turn ==
    /\ pc = "pop"
    /\ LET e == Earliest(heap)
       IN  /\ now' = e.ts
           /\ PlaceArrives(e) \/ CancelArrives(e) \/ MarketArrives(e)
           /\ PullFeed(e)
    /\ pc' = "strategy"
    /\ UNCHANGED <<nextOid, placed, cancels>>

-----------------------------------------------------------------------------
\* The calls of the strategy, inside on_event.

\* Mutant: an order is on the book the moment it is decided.
InstantArrival(delay) == now

\* latency.sample(now): every model adds a non-negative delay.
ArrivalTime(delay) == now + delay

PushInternal(e) == heap' = heap \cup {e} /\ seq' = seq + 1

PlaceLimit(k, delay) ==
    /\ pc = "strategy" /\ nextOid <= MaxOrders
    /\ LET p == [oid |-> nextOid, side |-> k.side, price |-> k.price,
                 size |-> k.size, postOnly |-> k.postOnly]
       IN  /\ pending' = [o \in DOMAIN pending \cup {nextOid} |->
                            IF o = nextOid THEN p ELSE pending[o]]
           /\ PushInternal([ts |-> ArrivalTime(delay), seq |-> seq,
                            kind |-> "place_arrival", order |-> p])
           /\ placed' = [o \in DOMAIN placed \cup {nextOid} |->
                           IF o = nextOid
                           THEN [side |-> k.side, price |-> k.price, size |-> k.size,
                                 decided |-> now, arrives |-> now + delay]
                           ELSE placed[o]]
    /\ nextOid' = nextOid + 1
    /\ UNCHANGED <<pc, now, feed, book, acct, fills, lastMid, cancels>>

Cancel(oid, delay) ==
    /\ pc = "strategy" /\ Len(cancels) < MaxCancels
    /\ PushInternal([ts |-> ArrivalTime(delay), seq |-> seq,
                     kind |-> "cancel_arrival", oid |-> oid])
    /\ cancels' = Append(cancels, [oid |-> oid, seq |-> seq, arrives |-> now + delay])
    /\ UNCHANGED <<pc, now, feed, book, pending, nextOid, acct, fills, lastMid, placed>>

\* on_event returns; run() goes on while the heap has events.
StrategyReturns ==
    /\ pc = "strategy"
    /\ pc' = IF heap = {} THEN "finished" ELSE "pop"
    /\ UNCHANGED <<now, heap, seq, feed, book, pending, nextOid, acct, fills,
                   lastMid, placed, cancels>>

\* run() has returned its result.
Finished == pc = "finished" /\ UNCHANGED vars

Next ==
    \/ Turn
    \/ \E k \in OrderKinds, delay \in Latencies : PlaceLimit(k, delay)
    \/ \E oid \in 1 .. (nextOid - 1), delay \in Latencies : Cancel(oid, delay)
    \/ StrategyReturns
    \/ Finished

Spec == Init /\ [][Next]_vars

-----------------------------------------------------------------------------
\* The simulated clock never runs backwards, although market events and our
\* own arrivals come from different sources and the feed is pulled one event
\* per turn: the strategy never acts in the past (latency.py calls a negative
\* latency "a look-ahead leak"; the heap must not introduce one either).
ClockMonotone == [][now' >= now]_vars

\* No look-ahead: an order neither rests nor fills before the latency drawn
\* for it has passed, and it rests from exactly that time.
NoLookAhead ==
    /\ \A o \in DOMAIN book.orders : book.orders[o].placedAt = placed[o].arrives
    /\ \A f \in fills : f.ts >= placed[f.oid].arrives /\ f.inBook >= 0

\* The event with sequence number s is no longer on the heap.
Popped(s) == \A e \in heap : e.seq # s

\* A cancellation is final: once its event has been popped, the order is
\* neither pending nor resting, and no later event fills it.
CancelIsFinal ==
    \A i \in DOMAIN cancels :
        LET c == cancels[i]
        IN  Popped(c.seq) =>
              /\ c.oid \notin DOMAIN book.orders
              /\ c.oid \notin DOMAIN pending
              /\ \A f \in fills : f.oid = c.oid =>
                    f.ts < c.arrives \/ (f.ts = c.arrives /\ f.by < c.seq)

FilledOf(o) == MapThenSumSet(LAMBDA f : f.size, {f \in fills : f.oid = o})

CancelAsked   == {cancels[i].oid : i \in DOMAIN cancels}
CancelArrived == {cancels[i].oid : i \in {j \in DOMAIN cancels : Popped(cancels[j].seq)}}

\* No contract appears or is lost: an order's size is what is pending, what
\* rests and what was filled, until a cancellation arrives and takes the rest.
SizeConserved ==
    \A o \in DOMAIN placed :
        LET resting == IF o \in DOMAIN book.orders THEN book.orders[o].size ELSE 0
            flying  == IF o \in DOMAIN pending THEN pending[o].size ELSE 0
        IN  /\ FilledOf(o) + resting + flying <= placed[o].size
            /\ FilledOf(o) + resting + flying = placed[o].size \/ o \in CancelArrived

\* The running account equals the reference functions of metrics.py, applied
\* to the list of fills (realised_cash, inventory_from_fills).
RealisedCash ==
    MapThenSumSet(LAMBDA f : -Sign(f.side) * f.price * f.size * TickValue
                              + (IF f.maker THEN MakerRebate(f.price, f.size)
                                            ELSE -TakerFee(f.price, f.size)), fills)
InventoryFromFills == MapThenSumSet(LAMBDA f : Sign(f.side) * f.size, fills)

AccountMatchesFills ==
    /\ acct.cash = RealisedCash
    /\ acct.inventory = InventoryFromFills
    /\ acct.cash = acct.rebates - acct.fees
         - MapThenSumSet(LAMBDA f : Sign(f.side) * f.price * f.size * TickValue, fills)

-----------------------------------------------------------------------------
\* Refinement: the backtester keeps the promises of OrderLifecycle.
Phase(o) == CASE o \notin DOMAIN placed     -> "unborn"
              [] o \in DOMAIN pending       -> "inflight"
              [] o \in DOMAIN book.orders   -> "resting"
              [] OTHER                      -> "done"

Lifecycle == INSTANCE OrderLifecycle WITH
    Orders      <- Oids,
    phase       <- [o \in Oids |-> Phase(o)],
    size        <- [o \in Oids |-> IF o \in DOMAIN placed THEN placed[o].size ELSE 0],
    filled      <- [o \in Oids |-> FilledOf(o)],
    cancelAsked <- CancelAsked,
    stopped     <- FALSE

\* Every run of the backtester is a run of OrderLifecycle: each event moves
\* each order one legal step along its life, whatever the interleaving of
\* market events, arrivals and cancellations.
ImplementsLifecycle == Lifecycle!Spec
=============================================================================
