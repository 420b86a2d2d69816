--------------------------- MODULE MCBacktester ---------------------------
\* Small feeds, books and order menus for Backtester.
EXTENDS Backtester

Depth(p, n) == [q \in Prices |-> IF q = p THEN n ELSE 0]

Trade(price, size, aggressor) ==
    [kind |-> "trade", price |-> price, size |-> size, aggressor |-> aggressor]
Change(aggressor, price, size) == [aggressor |-> aggressor, price |-> price, size |-> size]
Changes(changes) == [kind |-> "price_change", changes |-> changes]
Snapshot(bids, asks) == [kind |-> "book", bids |-> bids, asks |-> asks]
TickSize(t) == [kind |-> "tick_size_change", tick |-> t]

Order(side, price, size, postOnly) ==
    [side |-> side, price |-> price, size |-> size, postOnly |-> postOnly]

\* Crossing orders with jittered latency, on a book whose prices share one
\* tick level after a tick size change and whose sides come and go.
CrossBook == NewBook(Depth(3, 1), Depth(4, 1), 1)
CrossMoves ==
    {Trade(4, 2, "BUY"), TickSize(2), Snapshot(Depth(3, 2), Depth(4, 0)),
     Changes(<<Change("BUY", 3, 0), Change("SELL", 4, 2)>>)}
CrossOrders == {Order("bid", 4, 2, FALSE), Order("ask", 4, 2, TRUE)}
=============================================================================
