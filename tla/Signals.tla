------------------------------- MODULE Signals -------------------------------
(***************************************************************************)
(* The two signals that strategies keep up to date event by event          *)
(* (avellaneda_stoikov.py _update_signals): the rolling order-flow         *)
(* imbalance of signals/ofi.py, fed by the best bid and offer after every  *)
(* book event, and the volume buckets of signals/vpin.py, fed by trades.   *)
(*                                                                         *)
(* Of a bucket the model keeps its volume; the shares of buys and sells    *)
(* and the mean price, which carry over with the volume, are left out.     *)
(***************************************************************************)
EXTENDS Basics, Sequences, FiniteSetsExt

CONSTANTS
    Tops,            \* best bid and offer: [bidPx, bidSz, askPx, askSz]
    Gaps,            \* time between events; the runners' clock never runs back
    Window,          \* window_seconds
    BucketVolume,    \* bucket_volume
    MaxBuckets,      \* n_buckets
    Volumes,         \* trade volumes
    MaxUpdates,      \* bound on the updates of the two signals
    MaxTime          \* bound on the clock

\* OFI.update is called with the prices and sizes of both sides.
TopOfBook == [bidPx : Nat, bidSz : Nat, askPx : Nat, askSz : Nat]

ASSUME SignalsAssumption ==
    /\ Tops \subseteq TopOfBook
    /\ Gaps \subseteq Nat /\ Window \in Nat \ {0}
    /\ BucketVolume \in Nat \ {0} /\ MaxBuckets \in Nat \ {0}
    /\ Volumes \subseteq Int /\ MaxUpdates \in Nat /\ MaxTime \in Nat

NoTop == [bidPx |-> None, bidSz |-> None, askPx |-> None, askSz |-> None]

VARIABLES
    now,             \* time of the last event
    events,          \* OFI _events: [ts, e], oldest first
    sum,             \* OFI _running_sum
    prev,            \* OFI _prev_bid_px, ..., _prev_ask_sz
    buckets,         \* VPIN _buckets, as the volumes buy + sell they hold
    current,         \* VPIN _cur_buy + _cur_sell
    seen,            \* history: all observations, [ts, top]
    traded,          \* history: volumes of all trades
    closed           \* history: buckets ever closed

ofi  == <<events, sum, prev, seen>>
vpin == <<buckets, current, traded, closed>>
signals == <<now, ofi, vpin>>

SignalsInit ==
    /\ now = 0
    /\ events = << >> /\ sum = 0 /\ prev = NoTop /\ seen = << >>
    /\ buckets = << >> /\ current = 0 /\ traded = << >> /\ closed = 0

-----------------------------------------------------------------------------
\* OFICalculator.update.

\* A side whose price improved brings its whole size, one whose price
\* worsened takes the old size away.
BidPressure(p, q) ==
    IF q.bidPx > p.bidPx THEN q.bidSz
    ELSE IF q.bidPx < p.bidPx THEN 0 - p.bidSz ELSE q.bidSz - p.bidSz

AskPressure(p, q) ==
    IF q.askPx < p.askPx THEN 0 - q.askSz
    ELSE IF q.askPx > p.askPx THEN p.askSz ELSE p.askSz - q.askSz

Contribution(p, q) == BidPressure(p, q) + AskPressure(p, q)

\* Mutant: what is exactly as old as the window goes too.
EvictedAtCutoff(s, cutoff) ==
    {i \in DOMAIN s : \A j \in 1 .. i : s[j].ts <= cutoff}

\* How far _evict empties the deque from its left end.
Evicted(s, cutoff) ==
    {i \in DOMAIN s : \A j \in 1 .. i : s[j].ts < cutoff}

FirstUpdate(ts, top) ==
    /\ prev = NoTop
    /\ UNCHANGED <<events, sum>>

LaterUpdate(ts, top) ==
    /\ prev # NoTop
    /\ LET e    == Contribution(prev, top)
           all  == Append(events, [ts |-> ts, e |-> e])
           gone == Evicted(all, ts - Window)
       IN  /\ events' = SubSeq(all, Cardinality(gone) + 1, Len(all))
           /\ sum' = sum + e - MapThenSumSet(LAMBDA i : all[i].e, gone)

UpdateOFI(ts, top) ==
    /\ FirstUpdate(ts, top) \/ LaterUpdate(ts, top)
    /\ prev' = top
    /\ seen' = Append(seen, [ts |-> ts, top |-> top])
    /\ UNCHANGED vpin

-----------------------------------------------------------------------------
\* VPINCalculator.add_trade.

\* Mutant: one trade closes at most one bucket.
ClosingOnce(volume) == IF volume >= BucketVolume THEN <<volume>> ELSE << >>

\* The while loop: each turn closes a bucket with all of the current volume
\* and carries the excess on.
Closing(volume) ==
    LET close[v \in 0 .. volume] ==
          IF v >= BucketVolume THEN <<v>> \o close[v - BucketVolume] ELSE << >>
    IN  close[volume]

\* popleft while there are too many.
LastOf(s, n) == SubSeq(s, Larger(Len(s) - n, 0) + 1, Len(s))

AddTrade(volume) ==
    /\ volume > 0
    /\ LET full == Closing(current + volume)
       IN  /\ buckets' = LastOf(buckets \o full, MaxBuckets)
           /\ current' = current + volume - Len(full) * BucketVolume
           /\ closed' = closed + Len(full)
    /\ traded' = Append(traded, volume)
    /\ UNCHANGED ofi

\* A trade without volume is ignored.
IgnoreTrade(volume) == volume <= 0 /\ UNCHANGED <<ofi, vpin>>

-----------------------------------------------------------------------------
\* _update_signals: what the kind of the event calls for.  A book with an
\* empty side, and a change of the tick size, update nothing.
Event(ts) ==
    /\ now' = ts
    /\ Len(seen) + Len(traded) < MaxUpdates /\ ts <= MaxTime
    /\ \/ \E top \in Tops : UpdateOFI(ts, top)
       \/ \E volume \in Volumes : AddTrade(volume) \/ IgnoreTrade(volume)
       \/ UNCHANGED <<ofi, vpin>>

-----------------------------------------------------------------------------
\* The OFI is the imbalance of exactly the trailing window as of the last
\* observation: the running sum, kept by additions and evictions, equals the
\* sum recomputed from all observations ever made.
Inside == {i \in 2 .. Len(seen) : seen[i].ts >= seen[Len(seen)].ts - Window}

WindowIsExact ==
    sum = MapThenSumSet(LAMBDA i : Contribution(seen[i - 1].top, seen[i].top), Inside)

\* Volume time keeps pace with the market: one bucket has closed for every
\* bucket_volume contracts traded, however the trades were cut, and what is
\* waiting is the remainder.  The estimate looks at the last n_buckets of them.
OneBucketPerVolume ==
    LET total == MapThenSumSet(LAMBDA i : traded[i], DOMAIN traded)
    IN  /\ closed = total \div BucketVolume /\ current = total % BucketVolume
        /\ Len(buckets) = Smaller(closed, MaxBuckets)
=============================================================================
