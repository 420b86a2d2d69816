--------------------------- MODULE OrderExecution ---------------------------
(***************************************************************************)
(* What Backtester and PaperTrader do, with the same code, to the book and *)
(* the account when an order arrives, a trade prints or a fill is booked   *)
(* (engine.py _handle_place_arrival, _record_fill, _apply; paper_trade.py  *)
(* repeats them), with the fees of fees/polymarket.py.                     *)
(***************************************************************************)
EXTENDS L2Book

CONSTANTS
    Dollar,       \* price units in one dollar: a price p stands for p / Dollar
    TickValue,    \* money units in one price unit
    FeeRate,      \* 4 * peak_rate of the fee category, in money units
    RebateRate    \* the same times its rebate share

ASSUME FeesAssumption ==
    /\ Dollar \in Nat \ {0} /\ TickValue \in Nat \ {0}
    /\ FeeRate \in Nat /\ RebateRate \in Nat /\ RebateRate <= FeeRate

\* peak_rate * size * p * (1 - p) * 4, with p held inside [0, 1].
FeeAt(rate, price, size) ==
    LET p == Smaller(Dollar, price) IN rate * size * p * (Dollar - p)

TakerFee(price, size)    == FeeAt(FeeRate, price, size)
MakerRebate(price, size) == FeeAt(RebateRate, price, size)

-----------------------------------------------------------------------------
\* The events of orderbook/events.py.

IsMarket(e) == e.kind \in {"book", "price_change", "trade", "tick_size_change"}

\* What the feed may carry: changes on the price grid, no negative size.
FeedMoves ==
    [kind : {"book"}, bids : [Prices -> Nat], asks : [Prices -> Nat]]
    \cup [kind : {"price_change"},
          changes : Seq([aggressor : {"BUY", "SELL"}, price : Prices, size : Nat])]
    \cup [kind : {"trade"}, price : Nat, size : Nat, aggressor : {"BUY", "SELL"}]
    \cup [kind : {"tick_size_change"}, tick : Nat \ {0}]

\* What a strategy may place: place_limit raises on any other side or size.
Placeable == [side : Sides, price : Prices, size : Nat \ {0}, postOnly : BOOLEAN]

\* Mutant: a plain queue, events in the order in which they were pushed.
BeforeBySeq(e, f) == e.seq < f.seq

\* SimEvent orders by timestamp, then by the order in which it was pushed.
Before(e, f) == e.ts < f.ts \/ (e.ts = f.ts /\ e.seq < f.seq)

Earliest(h) == CHOOSE e \in h : \A f \in h : e = f \/ Before(e, f)

\* A market move with its timestamp and sequence number.
Stamped(m, ts, s) == [x \in DOMAIN m \cup {"ts", "seq"} |->
    CASE x = "ts" -> ts [] x = "seq" -> s [] OTHER -> m[x]]

-----------------------------------------------------------------------------
\* The account and the fills.

NoAccount == [cash |-> 0, inventory |-> 0, fees |-> 0, rebates |-> 0]

Sign(side) == IF side = "bid" THEN 1 ELSE -1

\* Mutant: a taker fill earns the maker's rebate.
RecordFillAsMaker(acct, f) ==
    [cash      |-> acct.cash - Sign(f.side) * f.price * f.size * TickValue
                             + MakerRebate(f.price, f.size),
     inventory |-> acct.inventory + Sign(f.side) * f.size,
     fees      |-> acct.fees,
     rebates   |-> acct.rebates + MakerRebate(f.price, f.size)]

RecordFill(acct, f) ==
    LET fee    == IF f.maker THEN 0 ELSE TakerFee(f.price, f.size)
        rebate == IF f.maker THEN MakerRebate(f.price, f.size) ELSE 0
    IN  [cash      |-> acct.cash - Sign(f.side) * f.price * f.size * TickValue
                                 + rebate - fee,
         inventory |-> acct.inventory + Sign(f.side) * f.size,
         fees      |-> acct.fees + fee,
         rebates   |-> acct.rebates + rebate]

\* The same for the fills of one event.  The order of additions is left out:
\* it changes nothing but the rounding of floats.
RecordFills(acct, fills) ==
    LET book[S \in SUBSET fills] ==
          IF S = {} THEN acct
          ELSE LET f == CHOOSE x \in S : TRUE IN RecordFill(book[S \ {f}], f)
    IN  book[fills]

\* Twice mark_to_mid: cash alone until the first mid is known.
MarkToMid2(acct, mid2) ==
    2 * acct.cash + (IF mid2 = None THEN 0 ELSE acct.inventory * mid2 * TickValue)

\* _refresh_last_mid keeps the previous mid while one side is empty.
RefreshedMid2(b, mid2) == IF Mid2(b) = None THEN mid2 ELSE Mid2(b)

-----------------------------------------------------------------------------
\* _handle_place_arrival for an order that is still pending.  A fill carries
\* "by", the sequence number of the event that caused it.

CrossesSpread(b, side, price) ==
    IF side = "bid" THEN BestAsk(b) # None /\ price >= BestAsk(b)
                    ELSE BestBid(b) # None /\ price <= BestBid(b)

Takes(b, p) == ~p.postOnly /\ CrossesSpread(b, p.side, p.price)

TopFor(b, side)   == IF side = "bid" THEN BestAsk(b) ELSE BestBid(b)
DepthFor(b, side) == IF side = "bid" THEN b.asks[BestAsk(b)] ELSE b.bids[BestBid(b)]

\* The taker fill against the opposite top; the public book keeps its size.
ArrivalFills(b, p, now, by) ==
    IF ~Takes(b, p) THEN {}
    ELSE {[by |-> by, ts |-> now, oid |-> p.oid, side |-> p.side,
           price |-> TopFor(b, p.side), size |-> Smaller(p.size, DepthFor(b, p.side)),
           maker |-> FALSE, inBook |-> 0]}

\* Mutant: the whole order rests although a part of it was taken.
BookAfterArrivalWhole(b, p, now) ==
    AddOurOrder(b, p.oid, p.side, p.price, p.size, now)

BookAfterArrival(b, p, now) ==
    LET rest == IF Takes(b, p) THEN p.size - Smaller(p.size, DepthFor(b, p.side))
                               ELSE p.size
    IN  IF rest = 0 THEN b ELSE AddOurOrder(b, p.oid, p.side, p.price, rest, now)

-----------------------------------------------------------------------------
\* A market event, applied to the book (the first branches of _apply).

BookAfterMarket(b, m) ==
    CASE m.kind = "book"         -> ApplyBookSnapshot(b, m.bids, m.asks)
      [] m.kind = "price_change" -> ApplyPriceChanges(b, m.changes)
      [] m.kind = "trade"        -> BookAfterTrade(b, m.price, m.size, m.aggressor)
      [] m.kind = "tick_size_change" -> [b EXCEPT !.tick = m.tick]

MarketFills(b, m, by) ==
    IF m.kind # "trade" THEN {}
    ELSE LET fills == TradeFills(b, m.price, m.size, m.aggressor)
         IN  {[by |-> by, ts |-> m.ts, oid |-> o, side |-> b.orders[o].side,
               price |-> m.price, size |-> fills[o].size, maker |-> TRUE,
               inBook |-> m.ts - b.orders[o].placedAt] : o \in DOMAIN fills}

\* Every market event but tick_size_change refreshes the mid.
MidAfterMarket(b, m, mid2) ==
    IF m.kind = "tick_size_change" THEN mid2
    ELSE RefreshedMid2(BookAfterMarket(b, m), mid2)
=============================================================================
