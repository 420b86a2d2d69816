---------------------------- MODULE QueueEstimate ----------------------------
(***************************************************************************)
(* How good is the queue estimate of orderbook/l2_book.py?  This module    *)
(* runs L2OrderBook beside a real first-in first-out queue at one bid      *)
(* level: the exchange matches sells against the queue and publishes       *)
(* trades and level sizes; the book sees only those messages and must      *)
(* guess what is still in front of our orders and when they fill.          *)
(*                                                                         *)
(* The exchange is external to the repository.  It is modelled from what   *)
(* the code assumes of it: time priority within a level, last_trade_price  *)
(* messages with price, size and aggressor, price_change messages with the *)
(* level's new total, which excludes our (simulated) orders.  A level's    *)
(* total falls by trades and by cancellations; which of the two, and where *)
(* in the queue, no message says.                                          *)
(***************************************************************************)
EXTENDS L2Book, Functions

CONSTANTS
    Price,           \* the one level
    Oids,            \* our orders
    Volumes,         \* sizes of public orders, our orders and trades
    MaxEntries,      \* bound on the length of the queue
    MaxTrades,       \* bound on the trades
    MaxWithdrawn     \* bound on what is cancelled in front of one of our orders

ASSUME QueueAssumption ==
    /\ Price \in Prices /\ Volumes \subseteq Nat \ {0}
    /\ Oids \subseteq Nat \ {0} /\ IsFiniteSet(Oids)
    /\ MaxEntries \in Nat /\ MaxTrades \in Nat /\ MaxWithdrawn \in Nat

VARIABLES
    levelsFollow,    \* each trade's price_change is published before the next
                     \* trade; if not, all that we see is one burst of trades
    queue,           \* the exchange's queue: [owner, size], first in front
    trades,          \* trades printed so far
    stale,           \* the level changed and its price_change is not out yet
    book,            \* the L2OrderBook
    estimated,       \* what the book says each of our orders was filled
    actual,          \* what the exchange's queue gave each of our orders
    withdrawn        \* history: what was cancelled in front of each of them

vars == <<levelsFollow, queue, trades, stale, book, estimated, actual, withdrawn>>

Public0 == 0         \* owner of the public's volume; our ids are positive

SumSizes(s, owners) ==
    LET sum[i \in 0 .. Len(s)] ==
          IF i = 0 THEN 0
          ELSE sum[i - 1] + (IF s[i].owner \in owners THEN s[i].size ELSE 0)
    IN  sum[Len(s)]

PublicTotal(s) == SumSizes(s, {Public0})
Volume(s)      == SumSizes(s, Oids \cup {Public0})

Init ==
    /\ levelsFollow \in BOOLEAN
    /\ queue = << >> /\ trades = 0 /\ stale = FALSE
    /\ book = NewBook([p \in Prices |-> 0], [p \in Prices |-> 0], 1)
    /\ estimated = [o \in Oids |-> 0] /\ actual = [o \in Oids |-> 0]
    /\ withdrawn = [o \in Oids |-> 0]

-----------------------------------------------------------------------------
\* Orders join at the back, and a public order may be cancelled wherever it
\* stands.  The book learns at once of both, but only as the level's new total;
\* we join when the level the book shows is current.

PublicJoins(n) ==
    /\ ~stale /\ (trades = 0 \/ levelsFollow) /\ Len(queue) < MaxEntries
    /\ queue' = Append(queue, [owner |-> Public0, size |-> n])
    /\ book' = ApplyPriceChange(book, "BUY", Price, PublicTotal(queue'))
    /\ UNCHANGED <<levelsFollow, trades, stale, estimated, actual, withdrawn>>

Without(s, i) == SubSeq(s, 1, i - 1) \o SubSeq(s, i + 1, Len(s))

PublicCancels(i) ==
    /\ ~stale /\ (trades = 0 \/ levelsFollow) /\ queue[i].owner = Public0
    /\ queue' = Without(queue, i)
    /\ withdrawn' = [o \in Oids |-> withdrawn[o] +
                       IF \E a \in DOMAIN queue : queue[a].owner = o /\ i < a
                       THEN queue[i].size ELSE 0]
    /\ \A o \in Oids : withdrawn'[o] <= MaxWithdrawn
    /\ book' = ApplyPriceChange(book, "BUY", Price, PublicTotal(queue'))
    /\ UNCHANGED <<levelsFollow, trades, stale, estimated, actual>>

WeJoin(o, n) ==
    /\ ~stale /\ (trades = 0 \/ levelsFollow) /\ Len(queue) < MaxEntries
    /\ o \notin DOMAIN book.orders /\ actual[o] = 0 /\ estimated[o] = 0
    /\ \A i \in DOMAIN queue : queue[i].owner # o
    /\ queue' = Append(queue, [owner |-> o, size |-> n])
    /\ book' = AddOurOrder(book, o, "bid", Price, n, 0)
    /\ UNCHANGED <<levelsFollow, trades, stale, estimated, actual, withdrawn>>

\* What is left of the queue after n contracts are taken from its front.
AfterTaking(s, n) ==
    LET before[i \in 0 .. Len(s)] ==
          IF i = 0 THEN 0 ELSE before[i - 1] + s[i].size
        left   == [i \in DOMAIN s |-> Floor0(s[i].size - Floor0(n - before[i - 1]))]
        gone   == Cardinality({i \in DOMAIN s : left[i] = 0})
    IN  [i \in 1 .. (Len(s) - gone) |-> [s[i + gone] EXCEPT !.size = left[i + gone]]]

\* A sell of n contracts prints at the level; the level's new size follows
\* in a message of its own, or never before the next trade.
TradePrints(n) ==
    /\ ~stale /\ trades < MaxTrades
    /\ n <= Volume(queue)
    /\ trades' = trades + 1
    /\ queue' = AfterTaking(queue, n)
    /\ actual' = [o \in Oids |-> actual[o] + SumSizes(queue, {o}) - SumSizes(queue', {o})]
    /\ LET fills == TradeFills(book, Price, n, "SELL")
       IN  estimated' = [o \in Oids |-> estimated[o]
                            + IF o \in DOMAIN fills THEN fills[o].size ELSE 0]
    /\ book' = BookAfterTrade(book, Price, n, "SELL")
    /\ stale' = (levelsFollow /\ PublicTotal(queue') # PublicTotal(queue))
    /\ UNCHANGED <<levelsFollow, withdrawn>>

LevelPublished ==
    /\ stale /\ stale' = FALSE
    /\ book' = ApplyPriceChange(book, "BUY", Price, PublicTotal(queue))
    /\ UNCHANGED <<levelsFollow, queue, trades, estimated, actual, withdrawn>>

Next ==
    \/ \E n \in Volumes : PublicJoins(n)
    \/ \E i \in DOMAIN queue : PublicCancels(i)
    \/ \E o \in Oids, n \in Volumes : WeJoin(o, n)
    \/ \E n \in Volumes : TradePrints(n)
    \/ LevelPublished

Spec == Init /\ [][Next]_vars

-----------------------------------------------------------------------------
\* The public volume that is really in front of our order o.
AheadOf(o) ==
    LET at == CHOOSE i \in DOMAIN queue : queue[i].owner = o
    IN  PublicTotal(SubSeq(queue, 1, at))

Waiting == {o \in Oids : \E i \in DOMAIN queue : queue[i].owner = o}

\* Our orders that have ever joined.
Joined == Waiting \cup {o \in Oids : actual[o] > 0} \cup DOMAIN book.orders

\* In a burst of trades between two level updates, the estimate is exact for
\* an order that is our only one at the level and saw no cancellation in front
\* of it: the book fills what the exchange fills, and queue_position is the
\* volume really in front ("subsequent trades - which may arrive before the
\* next price_change on the same level - see consistent state", l2_book.py).
\* After cancellations it errs to the late side only, and by no more than they
\* withdrew, whatever else joined or left behind our order before the burst.
EstimateExact ==
    ~levelsFollow /\ Cardinality(Joined) <= 1 => \A o \in Oids :
        /\ estimated[o] <= actual[o] /\ actual[o] <= estimated[o] + withdrawn[o]
        /\ o \in DOMAIN book.orders /\ withdrawn[o] = 0 => o \in Waiting
        /\ o \in Waiting =>
              /\ o \in DOMAIN book.orders
              /\ QueuePosition(book, o) \in AheadOf(o) .. (AheadOf(o) + withdrawn[o])

\* With one order of ours at the level, however trades, level updates, joins
\* and cancellations interleave, the book is late with our fills by no more
\* than was cancelled in front of our order.  Late it can be: the level does
\* not say where volume left or joined, so public orders that join behind us
\* hide a cancellation in front of us from max(0, level - shown).
LateByWithdrawn ==
    Cardinality(Joined) <= 1 =>
        \A o \in Oids : actual[o] <= estimated[o] + withdrawn[o]

\* Time priority among our own orders, whatever the estimates: while an order
\* rests, no order that joined after it has traded.
OwnTimePriority ==
    \A o, p \in DOMAIN book.orders :
        book.orders[o].rank < book.orders[p].rank => estimated[p] = 0

TotalFilled(filled) == FoldFunctionOnSet(+, 0, filled, Oids)

\* One trade never hands our orders more than it traded.
TradeNotOverspent ==
    [][trades' # trades =>
         TotalFilled(estimated') - TotalFilled(estimated) <= Volume(queue) - Volume(queue')]_vars
=============================================================================
