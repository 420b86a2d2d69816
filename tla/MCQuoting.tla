----------------------------- MODULE MCQuoting -----------------------------
\* Small feeds for Quoting: the mid moves up and down, trades hit the quotes.
EXTENDS Quoting

Depth(p, n) == [q \in Prices |-> IF q = p THEN n ELSE 0]
Depth2(p, q) == [r \in Prices |-> IF r \in {p, q} THEN 1 ELSE 0]

Trade(price, size, aggressor) ==
    [kind |-> "trade", price |-> price, size |-> size, aggressor |-> aggressor]
Snapshot(bids, asks) == [kind |-> "book", bids |-> bids, asks |-> asks]
Change(aggressor, price, size) == [aggressor |-> aggressor, price |-> price, size |-> size]
Changes(changes) == [kind |-> "price_change", changes |-> changes]

Book == NewBook(Depth2(2, 3), Depth(5, 1), 1)

\* Mids 4, 3.5, 6 and 4.5 of 8; trades that reach a quote.
Moves ==
    {Snapshot(Depth(3, 1), Depth(5, 1)), Changes(<<Change("BUY", 3, 0)>>),
     Snapshot(Depth(5, 1), Depth(7, 1)),
     Trade(3, 2, "SELL"), Trade(5, 2, "BUY")}

NoOrderKinds == {}
\* Windows 1..3 and 2..4: at 4 only the second jump keeps the maker away.
TwoJumps == <<2, 3>>
=============================================================================
