------------------------------- MODULE Quoting -------------------------------
(***************************************************************************)
(* strategies/quoting.py on top of the backtester: the cancel-and-replace  *)
(* loop of QuotingStrategy, with the pricing of its four subclasses        *)
(* (constant_spread.py, avellaneda_stoikov.py with and without signals,    *)
(* glt.py).  on_event decides the two target prices and then reconciles    *)
(* the bid and the ask, by way of Backtester's Cancel and PlaceLimit.      *)
(*                                                                         *)
(* Price differences are doubled, as the mid is.  Square roots and         *)
(* logarithms of the parameters are constants to the code and to us.       *)
(***************************************************************************)
EXTENDS Backtester

CONSTANTS
    Pricings,        \* which of the pricing rules the strategy may use
    LatencyModels,   \* the delays each of the latency models may draw
    QuoteSize,       \* size on each side
    BaseSpread,      \* the part of the half-spread that never changes, doubled
    RiskRate,        \* gamma * sigma^2 per ms; GLT's inventory term; doubled
    Horizon,         \* horizon_ms
    Alphas,          \* what microprice and OFI may add to the mid, doubled
    JumpTimes,       \* jump_schedule_ms, sorted
    DarkBefore, DarkAfter    \* pre_jump_withdraw_ms, post_jump_resume_ms

ASSUME QuotingAssumption ==
    /\ Pricings \subseteq {"constant", "as", "signals", "glt"}
    /\ LatencyModels \subseteq (SUBSET Latencies) \ {{}}
    /\ QuoteSize \in Nat \ {0} /\ BaseSpread \in Nat \ {0}
    /\ RiskRate \in Nat \ {0} /\ Horizon \in Nat \ {0} /\ Alphas \subseteq Int
    /\ JumpTimes \in Seq(Nat)
    /\ \A i, j \in DOMAIN JumpTimes : i <= j => JumpTimes[i] <= JumpTimes[j]
    /\ DarkBefore \in Nat /\ DarkAfter \in Nat
    /\ MaxOrders >= 2 * MaxEvents /\ MaxCancels >= 2 * MaxEvents

VARIABLES
    pricing,         \* the subclass
    delays,          \* the latency model of this run
    step,            \* where on_event is: "decide", "bid", "ask", "done", "ignored"
    target,          \* what desired_quotes returned
    quote,           \* _bid_oid, _bid_price, _ask_oid, _ask_price
    t0,              \* _t0_ms
    answered         \* history: the instants at which quotes were decided

quoting == <<pricing, delays, step, target, quote, t0, answered>>

NoQuotes == [bid |-> None, ask |-> None]
NoQuote  == [oid |-> None, price |-> None]

QInit ==
    /\ Init
    /\ pricing \in Pricings /\ delays \in LatencyModels
    /\ step = "ignored" /\ target = NoQuotes /\ t0 = None
    /\ answered = {}
    /\ quote = [side \in Sides |-> NoQuote]

-----------------------------------------------------------------------------
\* desired_quotes.

\* Half of p2, snapped to the tick grid.
SnapDown(p2, tick) == (p2 \div (2 * tick)) * tick
SnapUp(p2, tick)   == 0 - ((0 - p2) \div (2 * tick)) * tick

\* A crossed pair is not quoted at all.
Uncrossed(bid, ask) ==
    IF bid # None /\ ask # None /\ bid >= ask THEN NoQuotes
    ELSE [bid |-> bid, ask |-> ask]

BidAround(fair2, half2, tick) == SnapDown(fair2 - half2, tick)
AskAround(fair2, half2, tick) == SnapUp(fair2 + half2, tick)

\* Each side is withdrawn on its own.
EachInUnit(bid, ask) ==
    Uncrossed(IF bid > 0 THEN bid ELSE None, IF ask < Dollar THEN ask ELSE None)

BothInUnit(bid, ask) ==
    IF bid <= 0 \/ ask >= Dollar \/ bid >= ask THEN NoQuotes
    ELSE [bid |-> bid, ask |-> ask]

ConstantSpreadQuotes ==
    EachInUnit(BidAround(Mid2(book), BaseSpread, book.tick),
               AskAround(Mid2(book), BaseSpread, book.tick))

\* gamma * sigma^2 * (T - t), from the time of the first decision.
Risk(start) == RiskRate * Floor0(Horizon - (now - start))

AvellanedaStoikovQuotes ==
    LET risk == Risk(t0')
        fair == Mid2(book) - acct.inventory * risk
        half == BaseSpread + risk
    IN  BothInUnit(BidAround(fair, half, book.tick), AskAround(fair, half, book.tick))

\* Mutant: the first jump whose window has opened decides alone.
InFirstWindowOpened(ts) ==
    \E i \in DOMAIN JumpTimes :
        /\ \A j \in 1 .. (i - 1) : ts < JumpTimes[j] - DarkBefore
        /\ JumpTimes[i] - DarkBefore <= ts /\ ts <= JumpTimes[i] + DarkAfter

\* The loop over the sorted schedule stops at the first window still ahead.
InJumpWindow(ts) ==
    \E i \in DOMAIN JumpTimes :
        /\ \A j \in 1 .. (i - 1) : JumpTimes[j] - DarkBefore <= ts
        /\ JumpTimes[i] - DarkBefore <= ts /\ ts <= JumpTimes[i] + DarkAfter

SignalsQuotes(alpha) ==
    LET risk == Risk(t0')
        fair == Mid2(book) + alpha - acct.inventory * risk
        half == BaseSpread + risk
    IN  EachInUnit(BidAround(fair, half, book.tick), AskAround(fair, half, book.tick))

\* The distances from the mid differ; they are checked before snapping.
GLTQuotes ==
    LET deltaBid == BaseSpread + (2 * acct.inventory + 1) * RiskRate
        deltaAsk == BaseSpread + (1 - 2 * acct.inventory) * RiskRate
        bid == Mid2(book) - deltaBid
        ask == Mid2(book) + deltaAsk
    IN  Uncrossed(IF deltaBid > 0 /\ bid > 0 THEN SnapDown(bid, book.tick) ELSE None,
                  IF deltaAsk > 0 /\ ask < 2 * Dollar THEN SnapUp(ask, book.tick) ELSE None)

StartsClock == t0' = IF t0 = None THEN now ELSE t0

\* The VPIN gate may close at any event.
Withdrawn(toxic) ==
    \/ Mid2(book) = None
    \/ pricing = "signals" /\ (toxic \/ InJumpWindow(now))

Decide(toxic, alpha) ==
    /\ pc = "strategy" /\ step = "decide"
    /\ IF Withdrawn(toxic) THEN target' = NoQuotes /\ UNCHANGED t0
       ELSE \/ pricing = "constant" /\ target' = ConstantSpreadQuotes /\ UNCHANGED t0
            \/ pricing = "glt" /\ target' = GLTQuotes /\ UNCHANGED t0
            \/ pricing = "as" /\ StartsClock /\ target' = AvellanedaStoikovQuotes
            \/ pricing = "signals" /\ StartsClock /\ target' = SignalsQuotes(alpha)
    /\ step' = "bid"
    /\ answered' = answered \cup {now}
    /\ UNCHANGED <<vars, pricing, delays, quote>>

-----------------------------------------------------------------------------
\* _reconcile_side, first for the bid, then for the ask.

RequoteKinds == {"book", "price_change", "trade"}

Near(p, q) == 2 * (p - q) < book.tick /\ 2 * (q - p) < book.tick

Matches(side) ==
    target[side] # None /\ quote[side].price # None
      /\ Near(quote[side].price, target[side])

\* Mutant: a quote that is moved is not cancelled first.
ForgetStale(side, delay) ==
    /\ pc = "strategy" /\ step = side
    /\ quote[side].oid # None /\ ~Matches(side)
    /\ quote' = [quote EXCEPT ![side] = NoQuote]
    /\ UNCHANGED <<vars, pricing, delays, step, target, t0, answered>>

CancelStale(side, delay) ==
    /\ step = side
    /\ quote[side].oid # None /\ ~Matches(side)
    /\ Cancel(quote[side].oid, delay)
    /\ quote' = [quote EXCEPT ![side] = NoQuote]
    /\ UNCHANGED <<pricing, delays, step, target, t0, answered>>

PlaceMissing(side, delay) ==
    /\ step = side
    /\ quote[side].oid = None /\ target[side] # None
    /\ PlaceLimit([side |-> side, price |-> target[side], size |-> QuoteSize,
                   postOnly |-> TRUE], delay)
    /\ quote' = [quote EXCEPT ![side] = [oid |-> nextOid, price |-> target[side]]]
    /\ UNCHANGED <<pricing, delays, step, target, t0, answered>>

Reconciled(side) ==
    /\ pc = "strategy" /\ step = side
    /\ IF quote[side].oid = None THEN target[side] = None ELSE Matches(side)
    /\ step' = IF side = "bid" THEN "ask" ELSE "done"
    /\ UNCHANGED <<vars, pricing, delays, target, quote, t0, answered>>

\* The engine calls on_event, which looks at the kind of the event first.
EngineTurn ==
    /\ Turn
    /\ step' = IF Earliest(heap).kind \in RequoteKinds THEN "decide" ELSE "ignored"
    /\ UNCHANGED <<pricing, delays, target, quote, t0, answered>>

OnEventReturns ==
    /\ step \in {"done", "ignored"}
    /\ StrategyReturns
    /\ UNCHANGED quoting

QNext ==
    \/ EngineTurn
    \/ \E toxic \in BOOLEAN, alpha \in Alphas : Decide(toxic, alpha)
    \/ \E side \in Sides, delay \in delays : CancelStale(side, delay)
    \/ \E side \in Sides, delay \in delays : PlaceMissing(side, delay)
    \/ \E side \in Sides : Reconciled(side)
    \/ OnEventReturns
    \/ Finished /\ UNCHANGED quoting

QSpec == QInit /\ [][QNext]_<<vars, quoting>>

-----------------------------------------------------------------------------
\* No order is orphaned: whatever latency does to the order of arrivals, an
\* order that is in flight or rests is one the strategy remembers, or its
\* cancellation is on the way.  (The strategy never asks the book what it
\* holds; it has nothing but the two remembered ids.)
NoOrphans ==
    \A o \in DOMAIN pending \cup DOMAIN book.orders :
        \/ \E side \in Sides : quote[side].oid = o
        \/ \E e \in heap : e.kind = "cancel_arrival" /\ e.oid = o

ConstantLatency == \E d \in delays : delays = {d}

\* With one fixed latency quotes neither pile up nor meet: a replaced quote is
\* gone before its replacement rests, and no market event finds our bid at or
\* above our own ask, although the bid may move in one event and the ask in
\* another.
OneQuotePerSide ==
    ConstantLatency =>
        /\ \A side \in Sides :
              Cardinality({o \in DOMAIN book.orders : book.orders[o].side = side}) <= 1
        /\ pc = "pop" /\ IsMarket(Earliest(heap)) =>
              \A o, p \in DOMAIN book.orders :
                  book.orders[o].side = "bid" /\ book.orders[p].side = "ask" =>
                      book.orders[o].price < book.orders[p].price

\* The instants at which some scheduled jump keeps the maker away.
DarkTimes ==
    UNION {JumpTimes[i] - DarkBefore .. JumpTimes[i] + DarkAfter : i \in DOMAIN JumpTimes}

\* The maker is dark around every scheduled jump: no order is decided at such
\* an instant, and the quotes it had, resting or in flight, are filled no
\* later than one latency after the first event that it answers there.
\* (Until that event they stay: the gate is asked at events only.)
DarkNearJumps ==
    pricing = "signals" =>
        /\ \A o \in DOMAIN placed : placed[o].decided \notin DarkTimes
        /\ \A ts \in answered \cap DarkTimes, f \in fills :
              placed[f.oid].decided <= ts => \E d \in delays : f.ts <= ts + d

=============================================================================
