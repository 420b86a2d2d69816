--------------------------- MODULE MCPaperTrader ---------------------------
\* A paper trader that starts with an empty book of two prices.  Amounts are
\* chosen so that one taken contract stays inside the drawdown limit and two
\* contracts at the upper price breach it; and so that one contract breaches
\* the daily loss, if a limit is set, when the day began before it was taken.
EXTENDS PaperTrader

Depth(p, n) == [q \in Prices |-> IF q = p THEN n ELSE 0]

EmptyBook == NewBook(Depth(3, 0), Depth(4, 0), 1)

Trade(price, size, aggressor) ==
    [kind |-> "trade", price |-> price, size |-> size, aggressor |-> aggressor]
Snapshot(bids, asks) == [kind |-> "book", bids |-> bids, asks |-> asks]

Moves == {Snapshot(Depth(3, 1), Depth(4, 1)), Trade(4, 2, "SELL")}

Orders == {[side |-> "bid", price |-> 4, size |-> 2, postOnly |-> FALSE]}
=============================================================================
