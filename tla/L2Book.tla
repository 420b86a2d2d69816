------------------------------- MODULE L2Book -------------------------------
(***************************************************************************)
(* orderbook/l2_book.py: the public two-sided book that mirrors the feed,  *)
(* our own resting orders, and the estimate of the queue in front of each. *)
(* A book is a record; each method of L2OrderBook is a function on it.     *)
(*                                                                         *)
(* Prices are integers in units of the finest tick and sizes are natural   *)
(* numbers.  A side of the public book maps every price to its size, 0     *)
(* where the code's dictionary has no entry.  our_orders is a function     *)
(* from order ids that also holds level_size_at_placement (level) and      *)
(* placed_at_ms (placedAt), three dictionaries with the same keys; rank    *)
(* records the insertion order in which process_trade walks it.            *)
(***************************************************************************)
EXTENDS Basics, Sequences, FiniteSets

CONSTANT Prices       \* the price grid, in units of the finest tick

ASSUME PricesAssumption == Prices \subseteq Nat \ {0} /\ IsFiniteSet(Prices)

Sides == {"bid", "ask"}

NewBook(bids, asks, tick) ==
    [bids |-> bids, asks |-> asks, tick |-> tick, orders |-> << >>, joined |-> 0]

\* Every book that __init__ and public snapshots can make, without our orders.
FreshBooks ==
    [bids : [Prices -> Nat], asks : [Prices -> Nat], tick : Nat \ {0},
     orders : {<< >>}, joined : {0}]

Public(b, side, price) == IF side = "bid" THEN b.bids[price] ELSE b.asks[price]

-----------------------------------------------------------------------------
\* Public-feed appliers.  Neither touches our orders.

ApplyBookSnapshot(b, bids, asks) == [b EXCEPT !.bids = bids, !.asks = asks]

ApplyPriceChange(b, aggressor, price, size) ==
    IF aggressor = "BUY" THEN [b EXCEPT !.bids[price] = size]
                         ELSE [b EXCEPT !.asks[price] = size]

\* The entries of one price_change event, in order.
ApplyPriceChanges(b, changes) ==
    LET applied[i \in 0 .. Len(changes)] ==
          IF i = 0 THEN b
          ELSE ApplyPriceChange(applied[i - 1], changes[i].aggressor,
                                changes[i].price, changes[i].size)
    IN  applied[Len(changes)]

-----------------------------------------------------------------------------
\* Top of book; None when the side is empty.

Occupied(depth) == {p \in Prices : depth[p] > 0}

Highest(S) == IF S = {} THEN None ELSE CHOOSE p \in S : \A q \in S : q <= p
Lowest(S)  == IF S = {} THEN None ELSE CHOOSE p \in S : \A q \in S : p <= q

BestBid(b) == Highest(Occupied(b.bids))
BestAsk(b) == Lowest(Occupied(b.asks))

\* Twice the mid, so that it stays an integer.
Mid2(b) == IF BestBid(b) = None \/ BestAsk(b) = None THEN None
           ELSE BestBid(b) + BestAsk(b)

-----------------------------------------------------------------------------
\* Our orders.

\* Mutant: the queue ahead is not read from the level that is joined.
AddOurOrderInFront(b, oid, side, price, size, now) ==
    [b EXCEPT
        !.joined = @ + 1,
        !.orders = [o \in DOMAIN b.orders \cup {oid} |->
            IF o # oid THEN b.orders[o]
            ELSE [side |-> side, price |-> price, size |-> size, ahead |-> 0,
                  level |-> Public(b, side, price), placedAt |-> now,
                  rank |-> b.joined + 1]]]

AddOurOrder(b, oid, side, price, size, now) ==
    [b EXCEPT
        !.joined = @ + 1,
        !.orders = [o \in DOMAIN b.orders \cup {oid} |->
            IF o # oid THEN b.orders[o]
            ELSE [side |-> side, price |-> price, size |-> size,
                  ahead |-> Public(b, side, price),
                  level |-> Public(b, side, price), placedAt |-> now,
                  rank |-> b.joined + 1]]]

RemoveOurOrder(b, oid) ==
    [b EXCEPT !.orders = [o \in DOMAIN b.orders \ {oid} |-> b.orders[o]]]

-----------------------------------------------------------------------------
\* process_trade: a trade walks our orders on the side it hits.

\* round(price / tick), half to even as Python rounds.
TickIndex(price, tick) ==
    LET q == price \div tick
        r == price % tick
    IN  IF 2 * r > tick \/ (2 * r = tick /\ q % 2 = 1) THEN q + 1 ELSE q

SameTickLevel(p, q, tick) == TickIndex(p, tick) = TickIndex(q, tick)

SideHitBy(aggressor) == IF aggressor = "BUY" THEN "ask" ELSE "bid"

\* The three "continue"s of the loop.
Hits(b, o, price, aggressor) ==
    /\ o.side = SideHitBy(aggressor)
    /\ IF o.side = "bid" THEN o.price >= price ELSE o.price <= price
    /\ SameTickLevel(o.price, price, b.tick)

\* What is still in front of o: the queue it joined, less what the level has
\* lost since and what this very trade has already eaten at that price.
QueueRemaining(b, o, eaten) ==
    Floor0(o.ahead - (Floor0(o.level - Public(b, o.side, o.price)) + eaten))

FillOf(queue, left, size) == IF left <= queue THEN 0 ELSE Smaller(left - queue, size)

\* Mutant: the fill is not subtracted from what remains of the trade.
TakenByQueueOnly(queue, left, size) == Smaller(queue, left)

\* The part of a trade of which "left" remains that stops at order o: first
\* the queue in front of it, then the order itself.
TakenAt(queue, left, size) == Smaller(queue, left) + FillOf(queue, left, size)

\* The trade's volume still to be matched, and the volume already eaten at
\* each price, after the orders of rank 1..r.  The loop breaks when nothing
\* is left of the trade.
Walk(b, price, size, aggressor) ==
    LET walk[r \in 0 .. b.joined] ==
          IF r = 0 THEN [left |-> size, eaten |-> [p \in Prices |-> 0]]
          ELSE LET w    == walk[r - 1]
                   next == {o \in DOMAIN b.orders :
                              /\ b.orders[o].rank = r
                              /\ w.left > 0
                              /\ Hits(b, b.orders[o], price, aggressor)}
               IN  IF next = {} THEN w
                   ELSE LET o     == b.orders[CHOOSE x \in next : TRUE]
                            queue == QueueRemaining(b, o, w.eaten[o.price])
                            taken == TakenAt(queue, w.left, o.size)
                        IN  [left  |-> w.left - taken,
                             eaten |-> [w.eaten EXCEPT ![o.price] = @ + taken]]
    IN  walk

\* The queue in front of o and the fill of o when the walk reaches it.
Reached(b, walk, o, price, aggressor) ==
    walk[o.rank - 1].left > 0 /\ Hits(b, o, price, aggressor)

QueueAt(b, walk, o) == QueueRemaining(b, o, walk[o.rank - 1].eaten[o.price])

FillAt(b, walk, o, price, aggressor) ==
    IF Reached(b, walk, o, price, aggressor)
    THEN FillOf(QueueAt(b, walk, o), walk[o.rank - 1].left, o.size)
    ELSE 0

\* Mutant: the trade does not shorten the queue in front of the order.
OrderAfterTradeQueueKept(b, walk, o, price, aggressor) ==
    IF ~Reached(b, walk, o, price, aggressor) THEN o
    ELSE [o EXCEPT !.size  = @ - FillAt(b, walk, o, price, aggressor),
                   !.level = Public(b, o.side, o.price)]

\* An order the walk reached: its size and queue shrink, and the level is
\* snapshotted again so that the next trade starts from here.
OrderAfterTrade(b, walk, o, price, aggressor) ==
    IF ~Reached(b, walk, o, price, aggressor) THEN o
    ELSE [o EXCEPT
            !.size  = @ - FillAt(b, walk, o, price, aggressor),
            !.ahead = Floor0(QueueAt(b, walk, o) - walk[o.rank - 1].left),
            !.level = Public(b, o.side, o.price)]

\* The orders process_trade fills, and by how much.
TradeFills(b, price, size, aggressor) ==
    LET walk == Walk(b, price, size, aggressor)
        fill == [o \in DOMAIN b.orders |->
                    FillAt(b, walk, b.orders[o], price, aggressor)]
    IN  [o \in {x \in DOMAIN b.orders : fill[x] > 0} |->
            [size |-> fill[o], ahead |-> QueueAt(b, walk, b.orders[o])]]

\* The book after process_trade: fully filled orders are gone.
BookAfterTrade(b, price, size, aggressor) ==
    LET walk  == Walk(b, price, size, aggressor)
        after == [o \in DOMAIN b.orders |->
                    OrderAfterTrade(b, walk, b.orders[o], price, aggressor)]
    IN  [b EXCEPT !.orders =
            [o \in {x \in DOMAIN b.orders : after[x].size > 0} |-> after[o]]]

-----------------------------------------------------------------------------
\* queue_position: the diagnostic estimate for one order.
QueuePosition(b, oid) ==
    IF oid \notin DOMAIN b.orders THEN None
    ELSE LET o == b.orders[oid] IN QueueRemaining(b, o, 0)
=============================================================================
