---------------------------- MODULE SyntheticFeed ----------------------------
(***************************************************************************)
(* simulator/synthetic.py: the three generators of test markets, and one   *)
(* resting order of ours that their trades walk.  Each generator draws its *)
(* mids first, then merges snapshots and trades; a trade prints once for   *)
(* every tick from the touch down to the depth the aggressor will go.      *)
(*                                                                         *)
(* Prices are in half ticks, so that a mid may lie between two of them;    *)
(* real prices are even.  A draw from a distribution is any of its values, *)
(* and so is a coin for the side of a trade, whatever its bias.  Times are *)
(* in milliseconds.                                                        *)
(***************************************************************************)
EXTENDS L2Book, FiniteSetsExt

CONSTANTS
    Ticks,           \* ticks in the unit price: 1 / tick
    MidStart,        \* mid_start
    MidSteps,        \* what the mid may move between two snapshots
    FlowSteps,       \* what the hidden flow may move
    DriftStrength,   \* drift_strength, per snapshot
    Jumps,           \* sorted_jumps: [at, by], sorted by time
    Interval,        \* snapshot_interval_ms
    Duration,        \* duration_s
    DepthBudgets,    \* depths an aggressor may be willing to go
    BaseSize,        \* bbo_size, base_size
    FlowAmp,         \* flow_amp
    MaxTrades,       \* bound on the trades
    MaxOrders        \* bound on the orders we place

Tick == 2
Ours == 1            \* the id of our order

ASSUME FeedAssumption ==
    /\ Ticks \in Nat /\ Ticks >= 4
    /\ Prices = {Tick * i : i \in 1 .. Ticks - 1}
    /\ MidStart \in 1 .. Tick * Ticks - 1
    /\ Interval \in Nat \ {0} /\ Duration \in Nat \ {0}
    /\ DepthBudgets \subseteq Nat /\ BaseSize \in Nat \ {0} /\ FlowAmp \in Nat
    /\ MidSteps \subseteq Int /\ FlowSteps \subseteq Int /\ DriftStrength \in Nat
    /\ Jumps \in Seq([at : 1 .. Duration - 1, by : Int])
    /\ \A i \in 2 .. Len(Jumps) : Jumps[i - 1].at <= Jumps[i].at
    /\ MaxTrades \in Nat \ {0} /\ MaxOrders \in Nat

VARIABLES
    world,           \* which generator runs: "as", "drifted" or "jumpy"
    flow,            \* the hidden flow at every snapshot
    mids,            \* the mid of every snapshot
    snapIx,          \* snap_ix
    tradeAt,         \* time of the next trade; None when there is none left
    trades,          \* trade_ix
    walk,            \* the trade being printed: [side, ts, prices], what is left
    stamp,           \* timestamp of the last event
    high,            \* history: the highest timestamp so far
    longest,         \* history: prints of the longest walk so far
    book,            \* the book of the runner that consumes the feed
    placed,          \* number of orders placed
    verdict          \* history: what the walk owes our order

feed == <<world, flow, mids, snapIx, tradeAt, trades, walk, stamp, high, longest>>
marketVars == <<feed, book, placed, verdict>>

-----------------------------------------------------------------------------
\* The mids.

Clipped(raw) == Larger(2 * Tick, Smaller(Tick * (Ticks - 2), raw))

\* The last snapshot; there is one at 0 and one at every full interval.
Last == Duration \div Interval

\* A Brownian path.
ASMids(draw) ==
    LET raw[i \in 0 .. Last] == IF i = 0 THEN MidStart ELSE raw[i - 1] + draw[i]
    IN  [i \in 0 .. Last |-> Clipped(raw[i])]

\* The flow returns towards zero; of the decay only that it does is kept.
Decayed(phi) == IF phi >= 0 THEN phi \div 2 ELSE 0 - ((0 - phi) \div 2)

FlowPath(draw) ==
    LET phi[i \in 0 .. Last] == IF i = 0 THEN 0 ELSE Decayed(phi[i - 1]) + draw[i]
    IN  phi

\* The flow of one snapshot drifts the mid of the next.
DriftedMids(draw, phi) ==
    LET raw[i \in 0 .. Last] ==
          IF i = 0 THEN MidStart ELSE raw[i - 1] + DriftStrength * phi[i - 1] + draw[i]
    IN  [i \in 0 .. Last |-> Clipped(raw[i])]

\* The while loop over the jumps whose time has passed.
Due(idx, ts) ==
    {j \in idx + 1 .. Len(Jumps) : \A k \in idx + 1 .. j : Jumps[k].at <= ts}

JumpyMids(draw) ==
    LET path[i \in 0 .. Last] ==
          IF i = 0 THEN [raw |-> MidStart, idx |-> 0]
          ELSE LET before == path[i - 1]
                   due    == Due(before.idx, i * Interval)
               IN  [raw |-> before.raw + draw[i] + MapThenSumSet(LAMBDA j : Jumps[j].by, due),
                    idx |-> before.idx + Cardinality(due)]
    IN  [i \in 0 .. Last |-> Clipped(path[i].raw)]

NoWalk == [side |-> "BUY", ts |-> 0, prices |-> << >>]

Empty == [p \in Prices |-> 0]

\* Trade times are truncated to milliseconds, so two trades may share one.
NextTrade(earliest) == {None} \cup {t \in 0 .. Duration - 1 : t >= earliest}

MarketInit ==
    /\ world \in {"as", "drifted", "jumpy"}
    /\ \E draw \in [1 .. Last -> IF world = "drifted" THEN FlowSteps ELSE {0}] :
          flow = FlowPath(draw)
    /\ \E draw \in [1 .. Last -> MidSteps] :
          mids = CASE world = "as"      -> ASMids(draw)
                   [] world = "drifted" -> DriftedMids(draw, flow)
                   [] world = "jumpy"   -> JumpyMids(draw)
    /\ tradeAt \in NextTrade(0)
    /\ snapIx = 0 /\ trades = 0 /\ walk = NoWalk
    /\ stamp = 0 /\ high = 0 /\ longest = 1
    /\ book = NewBook(Empty, Empty, Tick) /\ placed = 0 /\ verdict = "open"

-----------------------------------------------------------------------------
\* Prices.

Rounded(price) == Tick * TickIndex(price, Tick)
InUnit(price)  == Larger(Tick, Smaller(Tick * (Ticks - 1), price))

TouchBid(mid) == InUnit(Rounded(mid - Tick))
TouchAsk(mid) == InUnit(Rounded(mid + Tick))

Side(price, size) == [p \in Prices |-> IF p = price THEN size ELSE 0]

\* Mutant: the last level the aggressor would pay for is missed.
LevelsShort(from, to) == (to - from) \div Tick

\* n_levels
Levels(from, to) == (to - from) \div Tick + 1

\* The prices that one trade prints, outward from the touch.
WalkPrices(mid, side, depth) ==
    IF side = "BUY"
    THEN LET start == TouchAsk(mid)
             end   == InUnit(Rounded(mid + depth))
         IN  [i \in 1 .. Larger(1, Levels(start, end)) |-> start + (i - 1) * Tick]
    ELSE LET start == TouchBid(mid)
             end   == InUnit(Rounded(mid - depth))
         IN  [i \in 1 .. Larger(1, Levels(end, start)) |-> start - (i - 1) * Tick]

-----------------------------------------------------------------------------
\* What a walk that goes "depth" far owes our order, if it rests on the side
\* that is hit with nothing in front of it.  The touch is always printed, and
\* rounding may carry a walk half a tick further than the aggressor would go.
Owed(mid, side, depth) ==
    IF Ours \notin DOMAIN book.orders \/ QueuePosition(book, Ours) # 0 THEN "open"
    ELSE LET o     == book.orders[Ours]
             touch == IF o.side = "bid" THEN TouchBid(mid) ELSE TouchAsk(mid)
             out   == IF o.side = "bid" THEN touch - o.price ELSE o.price - touch
             away  == IF o.side = "bid" THEN mid - o.price ELSE o.price - mid
         IN  CASE o.side # SideHitBy(side)         -> "spared"
               [] o.side = SideHitBy(side) /\ out < 0 -> "open"
               [] o.side = SideHitBy(side) /\ out >= 0 ->
                    IF out = 0 \/ away <= depth THEN "filled"
                    ELSE IF away > depth + 1 THEN "spared" ELSE "open"

-----------------------------------------------------------------------------
\* The merge.

Emitted(ts) ==
    /\ stamp' = ts
    /\ high' = Larger(high, ts)

\* Mutant: snapshots wait until the trades are through.
SnapshotIsNextLate == tradeAt = None

SnapshotIsNext ==
    \/ tradeAt = None
    \/ snapIx <= Last /\ snapIx * Interval <= tradeAt

BookEvent(bidSize, askSize) ==
    /\ walk.prices = << >> /\ snapIx <= Last /\ SnapshotIsNext
    /\ book' = ApplyBookSnapshot(book, Side(TouchBid(mids[snapIx]), bidSize),
                                       Side(TouchAsk(mids[snapIx]), askSize))
    /\ Emitted(snapIx * Interval)
    /\ snapIx' = snapIx + 1
    /\ verdict' = "open"
    /\ UNCHANGED <<world, flow, mids, tradeAt, trades, walk, longest, placed>>

ASBookEvent == world = "as" /\ BookEvent(BaseSize, BaseSize)

\* Buyers queue where the flow points, and asks thin out.
DriftedBookEvent ==
    /\ world = "drifted"
    /\ BookEvent(Larger(1, BaseSize + FlowAmp * flow[snapIx]),
                 Larger(1, BaseSize - FlowAmp * flow[snapIx]))

JumpyBookEvent == world = "jumpy" /\ BookEvent(BaseSize, BaseSize)

\* Mutant: the trade already sees the mid of the next snapshot.
RefMidAhead == mids[Smaller(snapIx, Last)]

\* The mid of the snapshot in force.
RefMid == mids[Larger(0, snapIx - 1)]

StartTrade(side, depth) ==
    /\ walk.prices = << >> /\ ~SnapshotIsNext
    /\ LET prices == WalkPrices(RefMid, side, depth)
       IN  /\ walk' = [side |-> side, ts |-> tradeAt, prices |-> prices]
           /\ longest' = Larger(longest, Len(prices))
    /\ verdict' = Owed(RefMid, side, depth)
    /\ trades' = trades + 1
    /\ tradeAt' \in IF trades' = MaxTrades THEN {None} ELSE NextTrade(tradeAt)
    /\ UNCHANGED <<world, flow, mids, snapIx, stamp, high, book, placed>>

ASTrade(side, depth)      == world = "as" /\ StartTrade(side, depth)
DriftedTrade(side, depth) == world = "drifted" /\ StartTrade(side, depth)
JumpyTrade(side, depth)   == world = "jumpy" /\ StartTrade(side, depth)

\* The next print of a walk is a millisecond later.
PrintLevel ==
    /\ walk.prices # << >>
    /\ book' = BookAfterTrade(book, Head(walk.prices), 1, walk.side)
    /\ Emitted(walk.ts)
    /\ walk' = [walk EXCEPT !.ts = @ + 1, !.prices = Tail(@)]
    /\ UNCHANGED <<world, flow, mids, snapIx, tradeAt, trades, longest, placed, verdict>>

-----------------------------------------------------------------------------
\* Our order comes and goes between any two events.

WePlace(side, price) ==
    /\ placed < MaxOrders /\ Ours \notin DOMAIN book.orders
    /\ Mid2(book) # None
    /\ IF side = "bid" THEN price < BestAsk(book) ELSE price > BestBid(book)
    /\ book' = AddOurOrder(book, Ours, side, price, 1, 0)
    /\ placed' = placed + 1
    /\ verdict' = "open"
    /\ UNCHANGED feed

WeCancel ==
    /\ Ours \in DOMAIN book.orders
    /\ book' = RemoveOurOrder(book, Ours)
    /\ verdict' = "open"
    /\ UNCHANGED <<feed, placed>>

\* The generator is exhausted.
Exhausted ==
    /\ walk.prices = << >> /\ tradeAt = None /\ snapIx > Last
    /\ UNCHANGED marketVars

MarketNext ==
    \/ ASBookEvent \/ DriftedBookEvent \/ JumpyBookEvent
    \/ \E side \in {"BUY", "SELL"}, depth \in DepthBudgets :
          \/ ASTrade(side, depth)
          \/ DriftedTrade(side, depth)
          \/ JumpyTrade(side, depth)
    \/ PrintLevel
    \/ \E side \in Sides, price \in Prices : WePlace(side, price)
    \/ WeCancel
    \/ Exhausted

MarketSpec == MarketInit /\ [][MarketNext]_marketVars

-----------------------------------------------------------------------------
\* A trade starts at the best price of the book that the consumer of the feed
\* has at that moment: the mid a trade refers to and the snapshots are merged
\* so that no trade sees a mid before its snapshot, or after the next one.
TradesMeetTheBook ==
    [][walk.prices = << >> /\ walk'.prices # << >> =>
         Head(walk'.prices) = IF walk'.side = "BUY" THEN BestAsk(book) ELSE BestBid(book)]_marketVars

\* "a maker bid at depth delta_maker is filled iff delta >= delta_maker"
\* (synthetic.py:8), for an order at or beyond the touch with nothing in front
\* of it, up to the half tick of rounding: the prints of one trade reach every
\* order they should and no other.
ReachDecidesFill ==
    walk.prices = << >> =>
        /\ verdict = "filled" => Ours \notin DOMAIN book.orders
        /\ verdict = "spared" => Ours \in DOMAIN book.orders

\* Timestamps run back when a snapshot or a trade falls into the milliseconds
\* over which a walk is spread, but never by more than a walk is long.
LagBounded == high - stamp < longest

=============================================================================
