------------------------- MODULE Backtester_proofs -------------------------
(***************************************************************************)
(* Proofs about Backtester, for every feed, latency model, strategy and    *)
(* bound, and about Quoting, the strategy that runs on it.                 *)
(*                                                                         *)
(* HeapAhead: nothing on the heap lies in the past, since a strategy's     *)
(* arrivals are scheduled at or after now, and since the market event that *)
(* a turn pulls is no earlier than the last one pulled, which is still on  *)
(* the heap when the turn begins (or was just popped).  So the clock never *)
(* runs backwards.                                                         *)
(*                                                                         *)
(* EngineSound adds what the heap, the book, the orders in flight, the     *)
(* fills and the account say about each other.  With it a turn does one of *)
(* four things to each order (TurnEffect): nothing, it lands, it trades or *)
(* a cancellation ends it.  From there: no look-ahead, the account is the  *)
(* sum of the fills, a cancellation that arrived is final, every contract  *)
(* is accounted for, and each step is a step of OrderLifecycle.            *)
(***************************************************************************)
EXTENDS Quoting, OrderExecution_proofs

Feeds == [open : BOOLEAN, last : Nat, pulled : Nat]

\* The inductive invariant: the heap and the feed agree with the clock.
HeapAhead ==
    /\ now \in Nat /\ seq \in Nat
    /\ feed \in Feeds
    /\ \A e \in heap : e.ts \in Nat /\ e.seq \in 0 .. (seq - 1) /\ now <= e.ts
    /\ \A e, f \in heap : e.seq = f.seq => e = f
    /\ pc = "pop" => heap # {}
    /\ feed.open => \E e \in heap : e.ts = feed.last

-----------------------------------------------------------------------------
\* run() primes the heap with the first event of the feed.
LEMMA InitHeap == Init => HeapAhead
<1> SUFFICES ASSUME Init PROVE HeapAhead
  OBVIOUS
<1>1. CASE pc = "finished" /\ heap = {} /\ seq = 0
           /\ feed = [open |-> FALSE, last |-> 0, pulled |-> 0]
  BY <1>1 DEF Init, HeapAhead, Feeds
<1>2. ASSUME NEW m \in MarketMoves, NEW ts \in Gaps,
             pc = "pop", heap = {Stamped(m, ts, 0)}, seq = 1,
             feed = [open |-> TRUE, last |-> ts, pulled |-> 1]
      PROVE  HeapAhead
  BY <1>2, StampedFields, EngineAssumption DEF Init, HeapAhead, Feeds
<1> QED
  BY <1>1, <1>2 DEF Init

\* Pushing an event that is not in the past keeps the heap in order.
LEMMA PushKeepsAhead ==
    ASSUME HeapAhead, NEW e, e.ts \in Nat, e.seq = seq, now <= e.ts,
           PushInternal(e), UNCHANGED <<pc, now, feed>>
    PROVE  HeapAhead'
<1>1. now' \in Nat /\ seq' \in Nat /\ feed' \in Feeds
  BY DEF HeapAhead, PushInternal
<1>2. \A x \in heap' : x.ts \in Nat /\ x.seq \in 0 .. (seq' - 1) /\ now' <= x.ts
  BY DEF HeapAhead, PushInternal
<1>3. \A x, y \in heap' : x.seq = y.seq => x = y
  BY DEF HeapAhead, PushInternal
<1>4. pc' = "pop" => heap' # {}
  BY DEF HeapAhead, PushInternal
<1>5. feed'.open => \E x \in heap' : x.ts = feed'.last
  BY DEF HeapAhead, PushInternal
<1> QED
  BY <1>1, <1>2, <1>3, <1>4, <1>5 DEF HeapAhead

\* A turn: the popped event is the earliest, and the pulled one is not before.
LEMMA TurnStep ==
    ASSUME HeapAhead, Turn
    PROVE  HeapAhead' /\ now' >= now
<1> DEFINE popped == Earliest(heap)
<1>1. /\ popped \in heap
      /\ \A f \in heap : popped.ts <= f.ts
  <2>1. heap # {} /\ \A e \in heap : e.ts \in Nat /\ e.seq \in Nat
    BY DEF Turn, HeapAhead
  <2>2. \A e, f \in heap : e.seq = f.seq => e = f
    BY DEF HeapAhead
  <2> QED
    BY <2>1, <2>2, EarliestIsFirst
<1>2. now' = popped.ts /\ now' \in Nat /\ now' >= now /\ pc' = "strategy"
  BY <1>1 DEF Turn, HeapAhead
<1>3. PullFeed(popped)
  BY DEF Turn
<1> HIDE DEF popped
<1>4. CASE heap' = heap \ {popped} /\ feed' = [feed EXCEPT !.open = FALSE] /\ UNCHANGED seq
  <2>1. feed' \in Feeds /\ ~feed'.open
    BY <1>4 DEF HeapAhead, Feeds
  <2> QED
    BY <1>1, <1>2, <1>4, <2>1 DEF HeapAhead
<1>5. ASSUME NEW m \in MarketMoves, NEW gap \in Gaps, feed.open, feed.pulled < MaxEvents,
             heap' = (heap \ {popped}) \cup {Stamped(m, feed.last + gap, seq)},
             feed' = [open |-> TRUE, last |-> feed.last + gap, pulled |-> feed.pulled + 1],
             seq' = seq + 1
      PROVE  HeapAhead'
  <2> DEFINE pulled == Stamped(m, feed.last + gap, seq)
  <2>1. pulled.ts = feed.last + gap /\ pulled.seq = seq
    BY StampedFields
  <2>2. gap \in Nat /\ feed.last \in Nat /\ feed.pulled \in Nat /\ seq \in Nat
    BY EngineAssumption DEF HeapAhead, Feeds
  <2>3. popped.ts <= pulled.ts
    <3>1. PICK e \in heap : e.ts = feed.last
      BY <1>5 DEF HeapAhead
    <3> QED
      BY <1>1, <1>2, <2>1, <2>2, <3>1
  <2>4. heap' = (heap \ {popped}) \cup {pulled}
    BY <1>5
  <2> HIDE DEF pulled
  <2>5. feed' \in Feeds /\ feed'.last = feed.last + gap
    BY <1>5, <2>2 DEF Feeds
  <2>6. \A x \in heap' : x.ts \in Nat /\ x.seq \in 0 .. (seq' - 1) /\ now' <= x.ts
    <3> TAKE x \in heap'
    <3>1. CASE x \in heap
      BY <1>1, <1>2, <1>5, <2>2, <3>1 DEF HeapAhead
    <3>2. CASE x = pulled
      BY <1>2, <1>5, <2>1, <2>2, <2>3, <3>2
    <3> QED
      BY <2>4, <3>1, <3>2
  <2>7. \A x, y \in heap' : x.seq = y.seq => x = y
    BY <2>1, <2>2, <2>4 DEF HeapAhead
  <2>8. \E x \in heap' : x.ts = feed'.last
    BY <2>1, <2>4, <2>5
  <2> QED
    BY <1>2, <1>5, <2>2, <2>5, <2>6, <2>7, <2>8 DEF HeapAhead
<1> QED
  BY <1>2, <1>3, <1>4, <1>5 DEF PullFeed

\* Every step keeps the heap ahead of the clock, and the clock going forward.
LEMMA StepAhead ==
    HeapAhead /\ [Next]_vars => HeapAhead' /\ (now' >= now \/ UNCHANGED vars)
<1> SUFFICES ASSUME HeapAhead, [Next]_vars
             PROVE  HeapAhead' /\ (now' >= now \/ UNCHANGED vars)
  OBVIOUS
<1>0. now \in Nat
  BY DEF HeapAhead
<1>1. CASE Turn
  BY <1>1, TurnStep
<1>2. ASSUME NEW k \in OrderKinds, NEW delay \in Latencies, PlaceLimit(k, delay)
      PROVE  HeapAhead' /\ now' >= now
  <2> DEFINE p == [oid |-> nextOid, side |-> k.side, price |-> k.price,
                   size |-> k.size, postOnly |-> k.postOnly]
             e == [ts |-> ArrivalTime(delay), seq |-> seq,
                   kind |-> "place_arrival", order |-> p]
  <2>1. PushInternal(e) /\ UNCHANGED <<pc, now, feed>>
    BY <1>2 DEF PlaceLimit
  <2>2. e.ts \in Nat /\ e.seq = seq /\ now <= e.ts
    BY <1>0, EngineAssumption DEF ArrivalTime
  <2> HIDE DEF e
  <2> QED
    BY <1>0, <2>1, <2>2, PushKeepsAhead
<1>3. ASSUME NEW oid \in 1 .. (nextOid - 1), NEW delay \in Latencies, Cancel(oid, delay)
      PROVE  HeapAhead' /\ now' >= now
  <2> DEFINE e == [ts |-> ArrivalTime(delay), seq |-> seq,
                   kind |-> "cancel_arrival", oid |-> oid]
  <2>1. PushInternal(e) /\ UNCHANGED <<pc, now, feed>>
    BY <1>3 DEF Cancel
  <2>2. e.ts \in Nat /\ e.seq = seq /\ now <= e.ts
    BY <1>0, EngineAssumption DEF ArrivalTime
  <2> HIDE DEF e
  <2> QED
    BY <1>0, <2>1, <2>2, PushKeepsAhead
<1>4. CASE StrategyReturns
  BY <1>0, <1>4 DEF StrategyReturns, HeapAhead
<1>5. CASE Finished \/ UNCHANGED vars
  BY <1>5 DEF Finished, vars, HeapAhead
<1> QED
  BY <1>1, <1>2, <1>3, <1>4, <1>5 DEF Next

\* Nothing on the heap ever lies in the simulated past.
THEOREM HeapStaysAhead == Spec => []HeapAhead
BY InitHeap, StepAhead, PTL DEF Spec

\* The simulated clock never runs backwards.
THEOREM ClockNeverRunsBack == Spec => ClockMonotone
<1>1. HeapAhead /\ [Next]_vars => [now' >= now]_vars
  BY StepAhead
<1> QED
  BY <1>1, HeapStaysAhead, PTL DEF Spec, ClockMonotone

-----------------------------------------------------------------------------
\* The orders, the fills and the account.

Known == 1 .. (nextOid - 1)

\* Every order of ours was placed, and is in flight or rests, not both.
OrdersKnown ==
    /\ nextOid \in 1 .. (MaxOrders + 1)
    /\ DOMAIN placed = Known
    /\ \A o \in Known : placed[o].size \in Nat \ {0} /\ placed[o].arrives \in Nat
    /\ DOMAIN pending \subseteq Known /\ DOMAIN book.orders \subseteq Known
    /\ \A o \in DOMAIN pending :
          o \notin DOMAIN book.orders /\ pending[o].size = placed[o].size

\* What rests has been resting from the end of its latency.
RestsSince(b, t) ==
    \A o \in DOMAIN b.orders :
        b.orders[o].placedAt = placed[o].arrives /\ b.orders[o].placedAt <= t

BookSound == IsBook(book) /\ RestsSince(book, now)

\* The heap holds market events, arrivals of placed orders at their time, and
\* arrivals of cancellations that were requested.
PlaceEvent(e) ==
    /\ e.kind = "place_arrival" /\ Arriving(e.order) /\ e.order.oid \in Known
    /\ e.ts = placed[e.order.oid].arrives /\ e.order.size = placed[e.order.oid].size

CancelEvent(e) ==
    /\ e.kind = "cancel_arrival"
    /\ \E i \in DOMAIN cancels : cancels[i].oid = e.oid /\ cancels[i].seq = e.seq

EventsSound == \A e \in heap : WellFormedMove(e) \/ PlaceEvent(e) \/ CancelEvent(e)

CancelRecords == [oid : Nat, seq : Nat, arrives : Nat]

CancelsSound ==
    /\ cancels \in Seq(CancelRecords)
    /\ \A i \in DOMAIN cancels :
          /\ cancels[i].oid \in Known /\ cancels[i].seq \in 0 .. (seq - 1)
          /\ \A e \in heap : e.seq = cancels[i].seq =>
                /\ e.kind = "cancel_arrival" /\ e.oid = cancels[i].oid
                /\ e.ts = cancels[i].arrives

\* A fill is of a placed order, not before its arrival, and behind everything
\* that is still on the heap.
FillSound(f) ==
    /\ IsFill(f) /\ f.oid \in Known
    /\ f.ts \in Nat /\ f.ts <= now /\ f.ts >= placed[f.oid].arrives
    /\ f.by \in 0 .. (seq - 1) /\ f.inBook \in Nat
    /\ \A e \in heap : f.ts < e.ts \/ (f.ts = e.ts /\ f.by < e.seq)

FillsSound == IsFiniteSet(fills) /\ \A f \in fills : FillSound(f)

AccountSound == acct = Booked(NoAccount, fills)

\* The inductive invariant.
EngineSound ==
    /\ HeapAhead
    /\ OrdersKnown
    /\ BookSound
    /\ EventsSound
    /\ CancelsSound
    /\ FillsSound
    /\ AccountSound

-----------------------------------------------------------------------------
\* What a turn does to the heap: the earliest event leaves it, and at most one
\* market event, with the next sequence number, joins it.
LEMMA TurnEvents ==
    ASSUME HeapAhead, Turn
    PROVE  LET e == Earliest(heap)
           IN  /\ e \in heap
               /\ now' = e.ts /\ e.ts \in Nat /\ now <= e.ts /\ e.seq \in 0 .. (seq - 1)
               /\ seq' \in Nat /\ seq <= seq'
               /\ \A x \in heap' :
                     (e.ts < x.ts \/ (e.ts = x.ts /\ e.seq < x.seq)) /\ x.seq # e.seq
               /\ \A x \in heap' :
                     (x \in heap /\ x # e) \/ (x.seq = seq /\ WellFormedMove(x))
               /\ \A x \in heap : x # e => x \in heap'
<1> DEFINE e == Earliest(heap)
<1>1. /\ e \in heap
      /\ \A f \in heap : e = f \/ Before(e, f)
  <2>1. heap # {} /\ \A x \in heap : x.ts \in Nat /\ x.seq \in Nat
    BY DEF Turn, HeapAhead
  <2>2. \A x, f \in heap : x.seq = f.seq => x = f
    BY DEF HeapAhead
  <2> QED
    BY <2>1, <2>2, EarliestIsFirst
<1>2. now' = e.ts /\ HeapAhead' /\ now' >= now
  BY TurnStep DEF Turn
<1>3. PullFeed(e)
  BY DEF Turn
<1> HIDE DEF e
<1>4. e.ts \in Nat /\ now <= e.ts /\ e.seq \in 0 .. (seq - 1) /\ seq \in Nat
  BY <1>1 DEF HeapAhead
<1>5. seq' \in Nat /\ seq <= seq'
  BY <1>3, <1>4 DEF PullFeed
<1>6. \A x \in heap' : (x \in heap /\ x # e) \/ (x.seq = seq /\ WellFormedMove(x))
  <2>1. CASE heap' = heap \ {e}
    BY <2>1
  <2>2. ASSUME NEW m \in MarketMoves, NEW gap \in Gaps,
               heap' = (heap \ {e}) \cup {Stamped(m, feed.last + gap, seq)}
        PROVE  \A x \in heap' :
                  (x \in heap /\ x # e) \/ (x.seq = seq /\ WellFormedMove(x))
    <3>1. m \in FeedMoves
      BY InputsAssumption
    <3>2. /\ Stamped(m, feed.last + gap, seq).seq = seq
          /\ WellFormedMove(Stamped(m, feed.last + gap, seq))
      BY <3>1, StampedFields
    <3> QED
      BY <2>2, <3>2
  <2> QED
    BY <1>3, <2>1, <2>2 DEF PullFeed
<1>7. \A x \in heap' :
         (e.ts < x.ts \/ (e.ts = x.ts /\ e.seq < x.seq)) /\ x.seq # e.seq
  <2> TAKE x \in heap'
  <2>1. CASE x \in heap /\ x # e
    <3>1. Before(e, x) /\ x.seq # e.seq
      BY <1>1, <2>1 DEF HeapAhead
    <3> QED
      BY <3>1 DEF Before
  <2>2. CASE x.seq = seq
    <3>1. x.ts \in Nat /\ e.ts <= x.ts
      BY <1>2 DEF HeapAhead
    <3> QED
      BY <1>4, <2>2, <3>1
  <2> QED
    BY <1>6, <2>1, <2>2
<1>8. \A x \in heap : x # e => x \in heap'
  BY <1>3 DEF PullFeed
<1> QED
  BY <1>1, <1>2, <1>4, <1>5, <1>6, <1>7, <1>8 DEF e

-----------------------------------------------------------------------------
\* What a turn does to the orders.

\* An order that the popped event does not touch.
Stays(o) ==
    /\ o \in DOMAIN pending' <=> o \in DOMAIN pending
    /\ o \in DOMAIN pending => pending'[o] = pending[o]
    /\ o \in DOMAIN book'.orders <=> o \in DOMAIN book.orders
    /\ RestingSize(book', o) = RestingSize(book, o)
    /\ Filled(fills', o) = Filled(fills, o)

\* Of "whole" contracts n are filled and the others rest.
Splits(o, whole, n) ==
    /\ o \notin DOMAIN pending'
    /\ Filled(fills', o) = Filled(fills, o) + n
    /\ RestingSize(book', o) = whole - n

Lands(o) ==
    o \in DOMAIN pending /\ \E n \in 0 .. placed[o].size : Splits(o, placed[o].size, n)

Trades(o) ==
    /\ o \in DOMAIN book.orders
    /\ \E n \in 1 .. book.orders[o].size : Splits(o, book.orders[o].size, n)

Dies(o, e) ==
    /\ e.kind = "cancel_arrival" /\ e.oid = o
    /\ o \in DOMAIN pending \cup DOMAIN book.orders
    /\ o \notin DOMAIN pending' /\ o \notin DOMAIN book'.orders
    /\ Filled(fills', o) = Filled(fills, o)

\* A fill that the popped event causes.
NewFill(f, e) ==
    /\ IsFill(f) /\ f.ts = e.ts /\ f.by = e.seq /\ f.inBook \in Nat
    /\ f.oid \in DOMAIN pending \cup DOMAIN book.orders
    /\ placed[f.oid].arrives <= e.ts

Effect(e) ==
    /\ IsBook(book') /\ RestsSince(book', e.ts)
    /\ DOMAIN pending' \subseteq DOMAIN pending
    /\ \A o \in DOMAIN pending' : pending'[o] = pending[o]
    /\ DOMAIN book'.orders \subseteq DOMAIN book.orders \cup (DOMAIN pending \ DOMAIN pending')
    /\ IsFiniteSet(fills') /\ fills \subseteq fills'
    /\ \A f \in fills' \ fills : NewFill(f, e)
    /\ acct' = Booked(NoAccount, fills')
    /\ \A o \in Known : Stays(o) \/ Lands(o) \/ Trades(o) \/ Dies(o, e)
    /\ e.kind = "cancel_arrival" =>
          e.oid \notin DOMAIN pending' /\ e.oid \notin DOMAIN book'.orders /\ fills' = fills

\* The fills of one event join the others and reach the account.
LEMMA NewFillsBooked ==
    ASSUME EngineSound, NEW e \in heap, NEW new, IsFiniteSet(new),
           \A f \in new : IsFill(f) /\ f.ts = e.ts /\ f.by = e.seq
    PROVE  /\ IsFiniteSet(fills \cup new)
           /\ \A o : /\ Filled(fills, o) \in Nat /\ Filled(new, o) \in Nat
                     /\ Filled(fills \cup new, o) = Filled(fills, o) + Filled(new, o)
           /\ RecordFills(acct, new) = Booked(NoAccount, fills \cup new)
<1>1. IsFiniteSet(fills) /\ \A f \in fills : IsFill(f)
  BY DEF EngineSound, FillsSound, FillSound
<1>2. fills \cap new = {}
  <2>1. e.ts \in Nat /\ e.seq \in Nat
    BY DEF EngineSound, HeapAhead
  <2>2. ASSUME NEW f \in fills, f \in new PROVE FALSE
    <3>1. /\ f.ts = e.ts /\ f.by = e.seq
          /\ f.ts < e.ts \/ (f.ts = e.ts /\ f.by < e.seq)
      BY <2>2 DEF EngineSound, FillsSound, FillSound
    <3> QED
      BY <2>1, <3>1
  <2> QED
    BY <2>2
<1>3. \A f \in fills \cup new : IsFill(f)
  BY <1>1
<1>4. IsFiniteSet(fills \cup new)
  BY <1>1, FS_Union
<1>5. \A o : /\ Filled(fills, o) \in Nat /\ Filled(new, o) \in Nat
             /\ Filled(fills \cup new, o) = Filled(fills, o) + Filled(new, o)
  BY <1>1, <1>2, <1>3, FilledAdds
<1>6. acct = Booked(NoAccount, fills) /\ NoAccount \in Accounts
  BY DEF EngineSound, AccountSound, NoAccount, Accounts
<1>7. Booked(NoAccount, fills) \in Accounts
      /\ Booked(Booked(NoAccount, fills), new) = Booked(NoAccount, fills \cup new)
  BY <1>1, <1>2, <1>3, <1>6, BookedTwice
<1>8. RecordFills(acct, new) = Booked(acct, new)
  BY <1>6, <1>7, RecordFillsSums
<1> QED
  BY <1>4, <1>5, <1>6, <1>7, <1>8

\* A market event: only a trade touches our orders, and only resting ones.
LEMMA MarketTurn ==
    ASSUME EngineSound, NEW e \in heap, MarketArrives(e)
    PROVE  Effect(e)
<1> DEFINE new == MarketFills(book, e, e.seq)
<1>1. /\ book' = BookAfterMarket(book, e) /\ fills' = fills \cup new
      /\ acct' = RecordFills(acct, new) /\ pending' = pending
  BY DEF MarketArrives
<1>2. e.kind # "cancel_arrival" /\ WellFormedMove(e)
  BY DEF MarketArrives, IsMarket, EngineSound, EventsSound, PlaceEvent, CancelEvent
<1>3. IsBook(book)
  BY DEF EngineSound, BookSound
<1>4. /\ IsBook(book')
      /\ OrdersShrink(book, book')
      /\ \A f \in new :
            /\ FillsOrder(book, book', f)
            /\ f.by = e.seq /\ f.ts = e.ts /\ f.price = e.price /\ e.kind = "trade"
            /\ f.inBook = e.ts - book.orders[f.oid].placedAt
      /\ \A f, g \in new : f.oid = g.oid => f = g
      /\ \A o \in DOMAIN book.orders :
            (\A f \in new : f.oid # o) => RestingSize(book', o) = book.orders[o].size
  BY <1>1, <1>2, <1>3, MarketOnBook
<1> HIDE DEF new
<1>5. now \in Nat /\ e.ts \in Nat /\ now <= e.ts
  BY DEF EngineSound, HeapAhead
<1>6. \A o \in DOMAIN book.orders :
         /\ book.orders[o] \in RestingOrders /\ o \in Known /\ o \notin DOMAIN pending
         /\ book.orders[o].placedAt = placed[o].arrives /\ book.orders[o].placedAt <= now
  BY DEF EngineSound, BookSound, IsBook, RestsSince, OrdersKnown
<1>7. \A f \in new : NewFill(f, e)
  <2> TAKE f \in new
  <2>1. f.oid \in DOMAIN book.orders /\ f.side = book.orders[f.oid].side
        /\ f.size \in 1 .. book.orders[f.oid].size
    BY <1>4 DEF FillsOrder
  <2>2. book.orders[f.oid] \in RestingOrders
    BY <1>6, <2>1
  <2>3. f.side \in Sides /\ f.size \in Nat \ {0}
    BY <2>1, <2>2 DEF RestingOrders
  <2>4. f.price \in Nat
    BY <1>2, <1>4 DEF WellFormedMove
  <2>5. placed[f.oid].arrives = book.orders[f.oid].placedAt
        /\ book.orders[f.oid].placedAt \in Nat /\ book.orders[f.oid].placedAt <= now
    BY <1>6, <2>1, <2>2 DEF RestingOrders
  <2>6. f.inBook \in Nat /\ placed[f.oid].arrives <= e.ts
    BY <1>4, <1>5, <2>5
  <2> QED
    BY <1>4, <2>1, <2>3, <2>4, <2>6 DEF NewFill, IsFill
<1>8. IsFiniteSet(new)
  <2>1. IsFiniteSet(Known)
    <3>1. 1 \in Int /\ nextOid - 1 \in Int
      BY EngineAssumption DEF EngineSound, OrdersKnown
    <3> QED
      BY <3>1, FS_Interval DEF Known
  <2>2. \A f \in new : f.oid \in Known
    BY <1>4, <1>6 DEF FillsOrder
  <2> QED
    BY <1>4, <2>1, <2>2, FewFills
<1>9. /\ IsFiniteSet(fills \cup new)
      /\ \A o : /\ Filled(fills, o) \in Nat /\ Filled(new, o) \in Nat
                /\ Filled(fills \cup new, o) = Filled(fills, o) + Filled(new, o)
      /\ RecordFills(acct, new) = Booked(NoAccount, fills \cup new)
  <2>1. \A f \in new : IsFill(f) /\ f.ts = e.ts /\ f.by = e.seq
    BY <1>7 DEF NewFill
  <2> QED
    BY <1>8, <2>1, NewFillsBooked
<1>10. RestsSince(book', e.ts)
  <2> SUFFICES ASSUME NEW o \in DOMAIN book'.orders
               PROVE  book'.orders[o].placedAt = placed[o].arrives
                      /\ book'.orders[o].placedAt <= e.ts
    BY DEF RestsSince
  <2>1. o \in DOMAIN book.orders /\ book'.orders[o].placedAt = book.orders[o].placedAt
    BY <1>4 DEF OrdersShrink
  <2>2. book.orders[o].placedAt \in Nat
    BY <1>6, <2>1 DEF RestingOrders
  <2> QED
    BY <1>5, <1>6, <2>1, <2>2
<1>11. ASSUME NEW o \in Known PROVE Stays(o) \/ Trades(o)
  <2>1. CASE \E f \in new : f.oid = o
    <3>1. PICK f \in new : f.oid = o
      BY <2>1
    <3>2. o \in DOMAIN book.orders /\ f.size \in 1 .. book.orders[o].size
          /\ RestingSize(book', o) = book.orders[o].size - f.size
      BY <1>4, <3>1 DEF FillsOrder
    <3>3. IsFill(f) /\ \A g \in new : g.oid = f.oid => g = f
      BY <1>4, <1>7 DEF NewFill
    <3>4. Filled(new, o) = f.size
      BY <3>1, <3>3, FilledByOne
    <3>5. Filled(fills', o) = Filled(fills, o) + f.size
      BY <1>1, <1>9, <3>4
    <3> QED
      BY <1>1, <1>6, <3>2, <3>5 DEF Trades, Splits
  <2>2. CASE \A f \in new : f.oid # o
    <3>1. Filled(new, o) = 0
      BY <2>2, FilledByNone
    <3>2. Filled(fills', o) = Filled(fills, o)
      <4>1. /\ Filled(fills, o) \in Nat
            /\ Filled(fills \cup new, o) = Filled(fills, o) + Filled(new, o)
        BY <1>9
      <4> QED
        BY <1>1, <3>1, <4>1
    <3>3. CASE o \in DOMAIN book.orders
      <4>1. RestingSize(book', o) = book.orders[o].size /\ book.orders[o].size # 0
        BY <1>4, <1>6, <2>2, <3>3 DEF RestingOrders
      <4>2. o \in DOMAIN book'.orders /\ RestingSize(book, o) = book.orders[o].size
        BY <3>3, <4>1 DEF RestingSize
      <4> QED
        BY <1>1, <3>2, <3>3, <4>1, <4>2 DEF Stays
    <3>4. CASE o \notin DOMAIN book.orders
      <4>1. o \notin DOMAIN book'.orders
        BY <1>4, <3>4 DEF OrdersShrink
      <4> QED
        BY <1>1, <3>2, <3>4, <4>1 DEF Stays, RestingSize
    <3> QED
      BY <3>3, <3>4
  <2> QED
    BY <2>1, <2>2
<1>12. DOMAIN book'.orders \subseteq DOMAIN book.orders
  BY <1>4 DEF OrdersShrink
<1> QED
  BY <1>1, <1>2, <1>4, <1>7, <1>9, <1>10, <1>11, <1>12 DEF Effect

\* An arrival: the order leaves the flight, is filled in part, and rests with
\* what is left; a cancelled one is ignored.
LEMMA PlaceTurn ==
    ASSUME EngineSound, NEW e \in heap, PlaceArrives(e)
    PROVE  Effect(e)
<1>1. PlaceEvent(e) /\ e.kind # "cancel_arrival"
  BY DEF PlaceArrives, EngineSound, EventsSound, CancelEvent, WellFormedMove, IsMarket
<1> DEFINE p == e.order
           new == ArrivalFills(book, p, e.ts, e.seq)
<1>2. Arriving(p) /\ p.oid \in Known /\ e.ts = placed[p.oid].arrives
      /\ p.size = placed[p.oid].size /\ p.size \in Nat \ {0} /\ p.price \in Prices
  BY <1>1 DEF PlaceEvent, Arriving
<1>3. IsBook(book) /\ now \in Nat /\ e.ts \in Nat /\ now <= e.ts
  BY DEF EngineSound, HeapAhead, BookSound
<1>4. \A o \in DOMAIN book.orders :
         /\ book.orders[o] \in RestingOrders /\ o \in Known /\ o \notin DOMAIN pending
         /\ book.orders[o].placedAt = placed[o].arrives /\ book.orders[o].placedAt <= now
  BY DEF EngineSound, BookSound, IsBook, RestsSince, OrdersKnown
<1>5. IsFiniteSet(fills) /\ acct = Booked(NoAccount, fills)
  BY DEF EngineSound, FillsSound, AccountSound
<1>6. CASE p.oid \notin DOMAIN pending
  <2>1. UNCHANGED <<book, pending, acct, fills>>
    BY <1>6 DEF PlaceArrives
  <2>2. RestsSince(book', e.ts)
    <3>1. \A o \in DOMAIN book.orders : book.orders[o].placedAt \in Nat
      BY <1>4 DEF RestingOrders
    <3> QED
      BY <1>3, <1>4, <2>1, <3>1 DEF RestsSince
  <2>3. \A o \in Known : Stays(o)
    BY <2>1 DEF Stays
  <2> QED
    BY <1>1, <1>3, <1>5, <2>1, <2>2, <2>3 DEF Effect
<1>7. CASE p.oid \in DOMAIN pending
  <2>1. /\ pending' = [o \in DOMAIN pending \ {p.oid} |-> pending[o]]
        /\ book' = BookAfterArrival(book, p, e.ts)
        /\ fills' = fills \cup new /\ acct' = RecordFills(acct, new)
    BY <1>7 DEF PlaceArrives
  <2>2. DOMAIN pending' = DOMAIN pending \ {p.oid}
        /\ \A o \in DOMAIN pending' : pending'[o] = pending[o]
    BY <2>1
  <2>3. p.oid \notin DOMAIN book.orders
    BY <1>4, <1>7
  <2>4. /\ IsBook(book')
        /\ DOMAIN book.orders \subseteq DOMAIN book'.orders
        /\ DOMAIN book'.orders \subseteq DOMAIN book.orders \cup {p.oid}
        /\ \A o \in DOMAIN book.orders : book'.orders[o] = book.orders[o]
        /\ p.oid \in DOMAIN book'.orders => book'.orders[p.oid].placedAt = e.ts
        /\ \A f \in new :
              /\ f.oid = p.oid /\ f.by = e.seq /\ f.ts = e.ts /\ f.inBook = 0
              /\ f.side = p.side /\ f.price \in Prices
              /\ f.size \in 1 .. p.size
              /\ RestingSize(book', p.oid) = p.size - f.size
        /\ \A f, g \in new : f = g
        /\ new = {} => RestingSize(book', p.oid) = p.size
    BY <1>2, <1>3, <2>1, <2>3, ArrivalOnBook
  <2> HIDE DEF new
  <2>5. \A f \in new : IsFill(f) /\ NewFill(f, e)
    <3> TAKE f \in new
    <3>1. p.side \in Sides /\ f.price \in Nat /\ f.size \in Nat \ {0}
      <4>1. f.price \in Prices /\ f.size \in 1 .. p.size
        BY <2>4
      <4>2. p.side \in Sides /\ p.size \in Nat
        BY <1>2 DEF Arriving
      <4>3. f.price \in Nat
        BY <4>1, PricesAssumption
      <4>4. f.size \in Nat \ {0}
        BY <4>1
      <4> QED
        BY <4>2, <4>3, <4>4
    <3>2. IsFill(f)
      BY <2>4, <3>1 DEF IsFill
    <3>3. placed[f.oid].arrives <= e.ts
      BY <1>2, <1>3, <2>4
    <3> QED
      BY <1>7, <2>4, <3>2, <3>3 DEF NewFill
  <2>6. IsFiniteSet(new)
    <3>1. IsFiniteSet({p.oid})
      BY FS_Singleton
    <3> QED
      BY <2>4, <3>1, FewFills
  <2>7. /\ IsFiniteSet(fills \cup new)
        /\ \A o : /\ Filled(fills, o) \in Nat /\ Filled(new, o) \in Nat
                  /\ Filled(fills \cup new, o) = Filled(fills, o) + Filled(new, o)
        /\ RecordFills(acct, new) = Booked(NoAccount, fills \cup new)
    BY <2>4, <2>5, <2>6, NewFillsBooked
  <2>8. RestsSince(book', e.ts)
    <3> SUFFICES ASSUME NEW o \in DOMAIN book'.orders
                 PROVE  book'.orders[o].placedAt = placed[o].arrives
                        /\ book'.orders[o].placedAt <= e.ts
      BY DEF RestsSince
    <3>1. CASE o = p.oid
      BY <1>2, <1>3, <2>4, <3>1
    <3>2. CASE o \in DOMAIN book.orders
      <4>1. book'.orders[o] = book.orders[o] /\ book.orders[o].placedAt \in Nat
        BY <1>4, <2>4, <3>2 DEF RestingOrders
      <4> QED
        BY <1>3, <1>4, <3>2, <4>1
    <3> QED
      BY <2>4, <3>1, <3>2
  <2>9. ASSUME NEW o \in Known PROVE Stays(o) \/ Lands(o)
    <3>1. CASE o = p.oid
      <4>1. CASE new = {}
        <5>1. Filled(new, o) = 0
          BY <4>1, FilledByNone
        <5>2. Splits(o, placed[o].size, 0)
          BY <1>2, <2>1, <2>2, <2>4, <2>7, <3>1, <4>1, <5>1 DEF Splits
        <5> QED
          BY <1>2, <1>7, <3>1, <5>2 DEF Lands
      <4>2. CASE new # {}
        <5>1. PICK f \in new : TRUE
          BY <4>2
        <5>2. Filled(new, f.oid) = f.size
          BY <2>4, <2>5, FilledByOne
        <5>3. f.oid = o /\ f.size \in 1 .. p.size /\ RestingSize(book', o) = p.size - f.size
          BY <2>4, <3>1
        <5>4. Filled(fills', o) = Filled(fills, o) + f.size
          BY <2>1, <2>7, <5>2, <5>3
        <5>5. Splits(o, placed[o].size, f.size)
          BY <1>2, <2>2, <3>1, <5>3, <5>4 DEF Splits
        <5>6. f.size \in 0 .. placed[o].size
          BY <1>2, <3>1, <5>3
        <5> QED
          BY <1>7, <3>1, <5>5, <5>6 DEF Lands
      <4> QED
        BY <4>1, <4>2
    <3>2. CASE o # p.oid
      <4>1. Filled(new, o) = 0
        BY <2>4, <3>2, FilledByNone
      <4>2. Filled(fills', o) = Filled(fills, o)
        <5>1. /\ Filled(fills, o) \in Nat
              /\ Filled(fills \cup new, o) = Filled(fills, o) + Filled(new, o)
          BY <2>7
        <5> QED
          BY <2>1, <4>1, <5>1
      <4>3. o \in DOMAIN book'.orders <=> o \in DOMAIN book.orders
        BY <2>4, <3>2
      <4>4. RestingSize(book', o) = RestingSize(book, o)
        BY <2>4, <4>3 DEF RestingSize
      <4> QED
        BY <2>2, <3>2, <4>2, <4>3, <4>4 DEF Stays
    <3> QED
      BY <3>1, <3>2
  <2>10. DOMAIN book'.orders \subseteq DOMAIN book.orders \cup (DOMAIN pending \ DOMAIN pending')
    BY <1>7, <2>2, <2>4
  <2> QED
    BY <1>1, <2>1, <2>2, <2>4, <2>5, <2>7, <2>8, <2>9, <2>10 DEF Effect
<1> QED
  BY <1>6, <1>7

\* A cancellation: the order leaves the flight or the book, and nothing fills.
LEMMA CancelTurn ==
    ASSUME EngineSound, NEW e \in heap, CancelArrives(e)
    PROVE  Effect(e)
<1>1. /\ e.kind = "cancel_arrival" /\ book' = RemoveOurOrder(book, e.oid)
      /\ pending' = [o \in DOMAIN pending \ {e.oid} |-> pending[o]]
      /\ acct' = acct /\ fills' = fills
  BY DEF CancelArrives
<1>2. DOMAIN pending' = DOMAIN pending \ {e.oid}
      /\ \A o \in DOMAIN pending' : pending'[o] = pending[o]
  BY <1>1
<1>3. IsBook(book) /\ IsRecord(book) /\ now \in Nat /\ e.ts \in Nat /\ now <= e.ts
  BY DEF EngineSound, HeapAhead, BookSound, IsBook
<1>4. /\ IsBook(book') /\ DOMAIN book'.orders = DOMAIN book.orders \ {e.oid}
      /\ \A o \in DOMAIN book'.orders : book'.orders[o] = book.orders[o]
  BY <1>1, <1>3, RemovedFields
<1>5. RestsSince(book', e.ts)
  <2>1. \A o \in DOMAIN book.orders :
           /\ book.orders[o] \in RestingOrders
           /\ book.orders[o].placedAt = placed[o].arrives /\ book.orders[o].placedAt <= now
    BY DEF EngineSound, BookSound, IsBook, RestsSince
  <2>2. \A o \in DOMAIN book.orders : book.orders[o].placedAt \in Nat
    BY <2>1 DEF RestingOrders
  <2> QED
    BY <1>3, <1>4, <2>1, <2>2 DEF RestsSince
<1>6. ASSUME NEW o \in Known PROVE Stays(o) \/ Dies(o, e)
  <2>1. CASE o # e.oid
    <3>1. o \in DOMAIN book'.orders <=> o \in DOMAIN book.orders
      BY <1>4, <2>1
    <3>2. RestingSize(book', o) = RestingSize(book, o)
      BY <1>4, <3>1 DEF RestingSize
    <3> QED
      BY <1>1, <1>2, <2>1, <3>1, <3>2 DEF Stays
  <2>2. CASE o = e.oid
    <3>1. CASE o \in DOMAIN pending \cup DOMAIN book.orders
      BY <1>1, <1>2, <1>4, <2>2, <3>1 DEF Dies
    <3>2. CASE o \notin DOMAIN pending \cup DOMAIN book.orders
      BY <1>1, <1>2, <1>4, <2>2, <3>2 DEF Stays, RestingSize
    <3> QED
      BY <3>1, <3>2
  <2> QED
    BY <2>1, <2>2
<1>7. IsFiniteSet(fills') /\ acct' = Booked(NoAccount, fills')
  BY <1>1 DEF EngineSound, FillsSound, AccountSound
<1> QED
  BY <1>1, <1>2, <1>4, <1>5, <1>6, <1>7 DEF Effect

\* Every turn has that effect.
LEMMA TurnEffect ==
    ASSUME EngineSound, Turn
    PROVE  Effect(Earliest(heap))
<1>1. Earliest(heap) \in heap
  BY TurnEvents DEF EngineSound
<1>2. PlaceArrives(Earliest(heap)) \/ CancelArrives(Earliest(heap)) \/ MarketArrives(Earliest(heap))
  BY DEF Turn
<1> QED
  BY <1>1, <1>2, PlaceTurn, CancelTurn, MarketTurn

-----------------------------------------------------------------------------
\* EngineSound is inductive.

LEMMA InitSound == Init => EngineSound
<1> SUFFICES ASSUME Init PROVE EngineSound
  OBVIOUS
<1>1. HeapAhead
  BY InitHeap
<1>2. /\ now = 0 /\ nextOid = 1 /\ book = InitialBook
      /\ pending = << >> /\ placed = << >> /\ cancels = << >>
      /\ acct = NoAccount /\ fills = {}
  BY DEF Init
<1>3. Known = {}
  BY <1>2 DEF Known
<1>4. /\ InitialBook.bids \in Depths /\ InitialBook.asks \in Depths
      /\ InitialBook.tick \in Nat \ {0} /\ InitialBook.joined = 0
      /\ InitialBook.orders = << >> /\ IsRecord(InitialBook)
  BY InputsAssumption DEF FreshBooks, Depths, IsRecord
<1>5. DOMAIN << >> = {} /\ << >> = [o \in {} |-> << >>[o]]
  OBVIOUS
<1>6. IsBook(book) /\ DOMAIN book.orders = {}
  BY <1>2, <1>4, <1>5 DEF IsBook
<1>7. OrdersKnown /\ BookSound
  BY <1>2, <1>3, <1>5, <1>6, EngineAssumption
     DEF OrdersKnown, BookSound, RestsSince
<1>8. EventsSound
  <2>1. ASSUME NEW m \in MarketMoves, NEW ts \in Gaps
        PROVE  WellFormedMove(Stamped(m, ts, 0))
    BY StampedFields, InputsAssumption
  <2> QED
    BY <2>1 DEF Init, EventsSound
<1>9. CancelsSound
  BY <1>2, <1>5 DEF CancelsSound
<1>10. FillsSound /\ AccountSound
  <2>1. NoAccount = Booked(NoAccount, {})
    BY SumsOfNone DEF NoAccount, Booked
  <2> QED
    BY <1>2, <2>1, FS_EmptySet DEF FillsSound, AccountSound
<1> QED
  BY <1>1, <1>7, <1>8, <1>9, <1>10 DEF EngineSound

LEMMA TurnKeepsSound ==
    ASSUME EngineSound, Turn
    PROVE  EngineSound'
<1> DEFINE e == Earliest(heap)
<1>1. HeapAhead'
  BY TurnStep DEF EngineSound
<1>2. Effect(e)
  BY TurnEffect
<1>3. /\ e \in heap
      /\ now' = e.ts /\ e.ts \in Nat /\ now <= e.ts /\ e.seq \in 0 .. (seq - 1)
      /\ seq' \in Nat /\ seq <= seq'
      /\ \A x \in heap' :
            (e.ts < x.ts \/ (e.ts = x.ts /\ e.seq < x.seq)) /\ x.seq # e.seq
      /\ \A x \in heap' : (x \in heap /\ x # e) \/ (x.seq = seq /\ WellFormedMove(x))
  BY TurnEvents DEF EngineSound
<1>4. UNCHANGED <<nextOid, placed, cancels>>
  BY DEF Turn
<1> HIDE DEF e
<1>5. Known' = Known
  BY <1>4 DEF Known
<1>6. seq \in Nat /\ now \in Nat
  BY DEF EngineSound, HeapAhead
<1>7. OrdersKnown'
  BY <1>2, <1>4, <1>5 DEF EngineSound, OrdersKnown, Effect
<1>8. BookSound'
  BY <1>2, <1>3, <1>4 DEF Effect, BookSound, RestsSince
<1>9. EventsSound'
  <2> SUFFICES ASSUME NEW x \in heap'
               PROVE  WellFormedMove(x) \/ PlaceEvent(x)' \/ CancelEvent(x)'
    BY DEF EventsSound
  <2>1. CASE x \in heap
    BY <1>4, <1>5, <2>1 DEF EngineSound, EventsSound, PlaceEvent, CancelEvent
  <2>2. CASE WellFormedMove(x)
    BY <2>2
  <2> QED
    BY <1>3, <2>1, <2>2
<1>10. CancelsSound'
  <2>1. cancels' \in Seq(CancelRecords)
    BY <1>4 DEF EngineSound, CancelsSound
  <2>2. ASSUME NEW i \in DOMAIN cancels
        PROVE  /\ cancels[i].oid \in Known /\ cancels[i].seq \in 0 .. (seq' - 1)
               /\ \A x \in heap' : x.seq = cancels[i].seq =>
                     /\ x.kind = "cancel_arrival" /\ x.oid = cancels[i].oid
                     /\ x.ts = cancels[i].arrives
    <3>1. /\ cancels[i].oid \in Known /\ cancels[i].seq \in 0 .. (seq - 1)
          /\ \A x \in heap : x.seq = cancels[i].seq =>
                /\ x.kind = "cancel_arrival" /\ x.oid = cancels[i].oid
                /\ x.ts = cancels[i].arrives
      BY DEF EngineSound, CancelsSound
    <3>2. cancels[i].seq \in 0 .. (seq' - 1) /\ cancels[i].seq # seq
      BY <1>3, <1>6, <3>1
    <3> QED
      BY <1>3, <3>1, <3>2
  <2> QED
    BY <1>4, <1>5, <2>1, <2>2 DEF CancelsSound
<1>11. FillsSound'
  <2>1. IsFiniteSet(fills')
    BY <1>2 DEF Effect
  <2>2. ASSUME NEW f \in fills'
        PROVE  FillSound(f)'
    <3>1. CASE f \in fills
      <4>1. /\ IsFill(f) /\ f.oid \in Known
            /\ f.ts \in Nat /\ f.ts <= now /\ f.ts >= placed[f.oid].arrives
            /\ f.by \in 0 .. (seq - 1) /\ f.inBook \in Nat
            /\ f.ts < e.ts \/ (f.ts = e.ts /\ f.by < e.seq)
        BY <1>3, <3>1 DEF EngineSound, FillsSound, FillSound
      <4>2. f.ts <= now' /\ f.by \in 0 .. (seq' - 1)
        BY <1>3, <1>6, <4>1
      <4>3. ASSUME NEW x \in heap' PROVE f.ts < x.ts \/ (f.ts = x.ts /\ f.by < x.seq)
        <5>1. x.ts \in Nat /\ x.seq \in Nat
          BY <1>1 DEF HeapAhead
        <5>2. e.ts < x.ts \/ (e.ts = x.ts /\ e.seq < x.seq)
          BY <1>3
        <5>3. e.seq \in Nat /\ f.by \in Nat
          BY <1>3, <4>1
        <5> QED
          BY <1>3, <4>1, <5>1, <5>2, <5>3
      <4> QED
        BY <1>4, <1>5, <4>1, <4>2, <4>3 DEF FillSound
    <3>2. CASE f \notin fills
      <4>1. NewFill(f, e)
        BY <1>2, <3>2 DEF Effect
      <4>2. IsFill(f) /\ f.ts = e.ts /\ f.by = e.seq /\ f.inBook \in Nat
            /\ placed[f.oid].arrives <= e.ts
            /\ f.oid \in Known
        BY <4>1 DEF NewFill, EngineSound, OrdersKnown
      <4>3. placed[f.oid].arrives \in Nat
        BY <4>2 DEF EngineSound, OrdersKnown
      <4>4. f.ts \in Nat /\ f.ts <= now' /\ f.ts >= placed[f.oid].arrives
        BY <1>3, <4>2, <4>3
      <4>5. f.by \in 0 .. (seq' - 1)
        BY <1>3, <1>6, <4>2
      <4>6. \A x \in heap' : f.ts < x.ts \/ (f.ts = x.ts /\ f.by < x.seq)
        BY <1>3, <4>2
      <4> QED
        BY <1>4, <1>5, <4>2, <4>4, <4>5, <4>6 DEF FillSound
    <3> QED
      BY <3>1, <3>2
  <2> QED
    BY <2>1, <2>2 DEF FillsSound
<1>12. AccountSound'
  BY <1>2 DEF Effect, AccountSound
<1> QED
  BY <1>1, <1>7, <1>8, <1>9, <1>10, <1>11, <1>12 DEF EngineSound

\* An event that the strategy schedules lies behind every fill.
LEMMA PushedBehindFills ==
    ASSUME EngineSound, NEW e, e.ts \in Nat, now <= e.ts, e.seq = seq,
           heap' = heap \cup {e}, seq' = seq + 1, now' = now,
           NEW f \in fills
    PROVE  /\ f.by \in 0 .. (seq' - 1) /\ f.ts <= now'
           /\ \A x \in heap' : f.ts < x.ts \/ (f.ts = x.ts /\ f.by < x.seq)
<1>1. /\ f.ts \in Nat /\ f.ts <= now /\ f.by \in 0 .. (seq - 1)
      /\ \A x \in heap : f.ts < x.ts \/ (f.ts = x.ts /\ f.by < x.seq)
  BY DEF EngineSound, FillsSound, FillSound
<1>2. now \in Nat /\ seq \in Nat
  BY DEF EngineSound, HeapAhead
<1>3. f.ts < e.ts \/ (f.ts = e.ts /\ f.by < e.seq)
  BY <1>1, <1>2
<1> QED
  BY <1>1, <1>2, <1>3

LEMMA PlacingKeepsSound ==
    ASSUME EngineSound, NEW k \in Placeable, NEW delay \in Latencies, PlaceLimit(k, delay)
    PROVE  EngineSound'
<1> DEFINE p == [oid |-> nextOid, side |-> k.side, price |-> k.price,
                 size |-> k.size, postOnly |-> k.postOnly]
           e == [ts |-> ArrivalTime(delay), seq |-> seq,
                 kind |-> "place_arrival", order |-> p]
           r == [side |-> k.side, price |-> k.price, size |-> k.size,
                 decided |-> now, arrives |-> now + delay]
<1>1. /\ heap' = heap \cup {e} /\ seq' = seq + 1
      /\ pending' = [o \in DOMAIN pending \cup {nextOid} |->
                       IF o = nextOid THEN p ELSE pending[o]]
      /\ placed' = [o \in DOMAIN placed \cup {nextOid} |->
                      IF o = nextOid THEN r ELSE placed[o]]
      /\ nextOid' = nextOid + 1
      /\ UNCHANGED <<pc, now, feed, book, acct, fills, lastMid, cancels>>
  BY DEF PlaceLimit, PushInternal
<1>2. now \in Nat /\ seq \in Nat /\ nextOid \in Nat \ {0} /\ delay \in Nat
      /\ MaxOrders \in Nat /\ nextOid <= MaxOrders
  BY EngineAssumption DEF EngineSound, HeapAhead, OrdersKnown, PlaceLimit
<1>3. k.side \in Sides /\ k.price \in Prices /\ k.size \in Nat \ {0}
  BY DEF Placeable
<1>4. /\ p.oid = nextOid /\ p.side = k.side /\ p.price = k.price /\ p.size = k.size
      /\ r.size = k.size /\ r.arrives = now + delay
  OBVIOUS
<1> HIDE DEF p, r
<1>5. /\ e.ts = now + delay /\ e.seq = seq /\ e.kind = "place_arrival" /\ e.order = p
      /\ e.ts \in Nat /\ now <= e.ts
  BY <1>2 DEF ArrivalTime
<1> HIDE DEF e
<1>6. HeapAhead'
  BY <1>1, <1>5, PushKeepsAhead DEF EngineSound, PushInternal
<1>7. Known' = Known \cup {nextOid} /\ nextOid \notin Known
  BY <1>1, <1>2 DEF Known
<1>8. /\ DOMAIN placed' = Known' /\ placed'[nextOid] = r
      /\ \A o \in Known : placed'[o] = placed[o]
  BY <1>1, <1>7 DEF EngineSound, OrdersKnown
<1>9. OrdersKnown'
  <2>1. /\ DOMAIN placed = Known
        /\ \A o \in Known : placed[o].size \in Nat \ {0} /\ placed[o].arrives \in Nat
        /\ DOMAIN pending \subseteq Known /\ DOMAIN book.orders \subseteq Known
        /\ \A o \in DOMAIN pending :
              o \notin DOMAIN book.orders /\ pending[o].size = placed[o].size
    BY DEF EngineSound, OrdersKnown
  <2>2. nextOid' \in 1 .. (MaxOrders + 1) /\ r.arrives \in Nat /\ r.size \in Nat \ {0}
    BY <1>1, <1>2, <1>3, <1>4
  <2>3. \A o \in Known' : placed'[o].size \in Nat \ {0} /\ placed'[o].arrives \in Nat
    BY <1>7, <1>8, <2>1, <2>2
  <2>4. DOMAIN pending' = DOMAIN pending \cup {nextOid} /\ pending'[nextOid] = p
        /\ \A o \in DOMAIN pending : o # nextOid /\ pending'[o] = pending[o]
    BY <1>1, <1>7, <2>1
  <2>5. \A o \in DOMAIN pending' :
           o \notin DOMAIN book.orders /\ pending'[o].size = placed'[o].size
    BY <1>4, <1>7, <1>8, <2>1, <2>4
  <2> QED
    BY <1>1, <1>7, <1>8, <2>1, <2>2, <2>3, <2>4, <2>5 DEF OrdersKnown
<1>10. BookSound'
  <2>1. \A o \in DOMAIN book.orders : placed'[o] = placed[o]
    BY <1>8 DEF EngineSound, OrdersKnown
  <2> QED
    BY <1>1, <2>1 DEF EngineSound, BookSound, RestsSince
<1>11. EventsSound'
  <2> SUFFICES ASSUME NEW x \in heap'
               PROVE  WellFormedMove(x) \/ PlaceEvent(x)' \/ CancelEvent(x)'
    BY DEF EventsSound
  <2>1. CASE x = e
    BY <1>3, <1>4, <1>5, <1>7, <1>8, <2>1 DEF PlaceEvent, Arriving
  <2>2. CASE x \in heap
    BY <1>1, <1>7, <1>8, <2>2 DEF EngineSound, EventsSound, PlaceEvent, CancelEvent
  <2> QED
    BY <1>1, <2>1, <2>2
<1>12. CancelsSound'
  <2>1. \A i \in DOMAIN cancels : cancels[i].seq \in 0 .. (seq' - 1) /\ cancels[i].seq # seq
    BY <1>1, <1>2 DEF EngineSound, CancelsSound
  <2> QED
    BY <1>1, <1>5, <1>7, <2>1 DEF EngineSound, CancelsSound
<1>13. FillsSound'
  <2>1. IsFiniteSet(fills')
    BY <1>1 DEF EngineSound, FillsSound
  <2>2. ASSUME NEW f \in fills PROVE FillSound(f)'
    <3>1. /\ IsFill(f) /\ f.oid \in Known /\ f.ts \in Nat /\ f.ts >= placed[f.oid].arrives
          /\ f.inBook \in Nat
      BY DEF EngineSound, FillsSound, FillSound
    <3>2. /\ f.by \in 0 .. (seq' - 1) /\ f.ts <= now'
          /\ \A x \in heap' : f.ts < x.ts \/ (f.ts = x.ts /\ f.by < x.seq)
      BY <1>1, <1>5, PushedBehindFills
    <3> QED
      BY <1>7, <1>8, <3>1, <3>2 DEF FillSound
  <2> QED
    BY <1>1, <2>1, <2>2 DEF FillsSound
<1>14. AccountSound'
  BY <1>1 DEF EngineSound, AccountSound
<1> QED
  BY <1>6, <1>9, <1>10, <1>11, <1>12, <1>13, <1>14 DEF EngineSound

LEMMA CancellingKeepsSound ==
    ASSUME EngineSound, NEW oid \in 1 .. (nextOid - 1), NEW delay \in Latencies,
           Cancel(oid, delay)
    PROVE  EngineSound'
<1> DEFINE e == [ts |-> ArrivalTime(delay), seq |-> seq,
                 kind |-> "cancel_arrival", oid |-> oid]
           c == [oid |-> oid, seq |-> seq, arrives |-> now + delay]
<1>1. /\ heap' = heap \cup {e} /\ seq' = seq + 1 /\ cancels' = Append(cancels, c)
      /\ UNCHANGED <<pc, now, feed, book, pending, nextOid, acct, fills, lastMid, placed>>
  BY DEF Cancel, PushInternal
<1>2. now \in Nat /\ seq \in Nat /\ oid \in Nat /\ delay \in Nat /\ oid \in Known
  BY EngineAssumption DEF EngineSound, HeapAhead, OrdersKnown, Known
<1>3. c \in CancelRecords /\ c.oid = oid /\ c.seq = seq /\ c.arrives = now + delay
  BY <1>2 DEF CancelRecords
<1>4. /\ e.ts = now + delay /\ e.seq = seq /\ e.kind = "cancel_arrival" /\ e.oid = oid
      /\ e.ts \in Nat /\ now <= e.ts
  BY <1>2 DEF ArrivalTime
<1> HIDE DEF c, e
<1>5. HeapAhead'
  BY <1>1, <1>4, PushKeepsAhead DEF EngineSound, PushInternal
<1>6. Known' = Known
  BY <1>1 DEF Known
<1>7. /\ cancels' \in Seq(CancelRecords) /\ Len(cancels) \in Nat
      /\ DOMAIN cancels' = DOMAIN cancels \cup {Len(cancels) + 1}
      /\ cancels'[Len(cancels) + 1] = c
      /\ \A i \in DOMAIN cancels : cancels'[i] = cancels[i]
  <2>1. cancels \in Seq(CancelRecords)
    BY DEF EngineSound, CancelsSound
  <2> QED
    BY <1>1, <1>3, <2>1
<1>8. OrdersKnown' /\ BookSound' /\ AccountSound'
  BY <1>1, <1>6 DEF EngineSound, OrdersKnown, BookSound, RestsSince, AccountSound
<1>9. EventsSound'
  <2> SUFFICES ASSUME NEW x \in heap'
               PROVE  WellFormedMove(x) \/ PlaceEvent(x)' \/ CancelEvent(x)'
    BY DEF EventsSound
  <2>1. CASE x = e
    BY <1>3, <1>4, <1>7, <2>1 DEF CancelEvent
  <2>2. CASE x \in heap /\ (WellFormedMove(x) \/ PlaceEvent(x))
    BY <1>1, <1>6, <2>2 DEF PlaceEvent
  <2>3. CASE x \in heap /\ CancelEvent(x)
    BY <1>7, <2>3 DEF CancelEvent
  <2> QED
    BY <1>1, <2>1, <2>2, <2>3 DEF EngineSound, EventsSound
<1>10. CancelsSound'
  <2> SUFFICES ASSUME NEW i \in DOMAIN cancels'
               PROVE  /\ cancels'[i].oid \in Known' /\ cancels'[i].seq \in 0 .. (seq' - 1)
                      /\ \A x \in heap' : x.seq = cancels'[i].seq =>
                            /\ x.kind = "cancel_arrival" /\ x.oid = cancels'[i].oid
                            /\ x.ts = cancels'[i].arrives
    BY <1>7 DEF CancelsSound
  <2>1. CASE i \in DOMAIN cancels
    <3>1. /\ cancels[i].oid \in Known /\ cancels[i].seq \in 0 .. (seq - 1)
          /\ \A x \in heap : x.seq = cancels[i].seq =>
                /\ x.kind = "cancel_arrival" /\ x.oid = cancels[i].oid
                /\ x.ts = cancels[i].arrives
      BY <2>1 DEF EngineSound, CancelsSound
    <3>2. cancels[i].seq \in 0 .. (seq' - 1) /\ cancels[i].seq # e.seq
      BY <1>1, <1>2, <1>4, <3>1
    <3> QED
      BY <1>1, <1>6, <1>7, <2>1, <3>1, <3>2
  <2>2. CASE i = Len(cancels) + 1
    <3>1. \A x \in heap : x.seq # seq
      BY <1>2 DEF EngineSound, HeapAhead
    <3>2. seq \in 0 .. (seq' - 1)
      BY <1>1, <1>2
    <3> QED
      BY <1>1, <1>2, <1>3, <1>4, <1>6, <1>7, <2>2, <3>1, <3>2
  <2> QED
    BY <1>7, <2>1, <2>2
<1>11. FillsSound'
  <2>1. IsFiniteSet(fills')
    BY <1>1 DEF EngineSound, FillsSound
  <2>2. ASSUME NEW f \in fills PROVE FillSound(f)'
    <3>1. /\ IsFill(f) /\ f.oid \in Known /\ f.ts \in Nat /\ f.ts >= placed[f.oid].arrives
          /\ f.inBook \in Nat
      BY DEF EngineSound, FillsSound, FillSound
    <3>2. /\ f.by \in 0 .. (seq' - 1) /\ f.ts <= now'
          /\ \A x \in heap' : f.ts < x.ts \/ (f.ts = x.ts /\ f.by < x.seq)
      BY <1>1, <1>4, PushedBehindFills
    <3> QED
      BY <1>1, <1>6, <3>1, <3>2 DEF FillSound
  <2> QED
    BY <1>1, <2>1, <2>2 DEF FillsSound
<1> QED
  BY <1>5, <1>8, <1>9, <1>10, <1>11 DEF EngineSound

\* The strategy's return, the end of the run, and a step of nobody.
LEMMA QuietKeepsSound ==
    ASSUME EngineSound, StrategyReturns \/ UNCHANGED vars
    PROVE  EngineSound'
<1>1. /\ UNCHANGED <<now, heap, seq, feed, book, pending, nextOid, acct, fills,
                     lastMid, placed, cancels>>
      /\ pc' = "pop" => heap # {} \/ pc = "pop"
  BY DEF StrategyReturns, vars
<1>2. HeapAhead'
  BY <1>1 DEF EngineSound, HeapAhead
<1>3. OrdersKnown' /\ BookSound' /\ EventsSound'
  BY <1>1 DEF EngineSound, OrdersKnown, BookSound, RestsSince, EventsSound, PlaceEvent,
              CancelEvent, Known
<1>4. CancelsSound' /\ FillsSound' /\ AccountSound'
  BY <1>1 DEF EngineSound, CancelsSound, FillsSound, FillSound, AccountSound, Known
<1> QED
  BY <1>2, <1>3, <1>4 DEF EngineSound

LEMMA StepSound == EngineSound /\ [Next]_vars => EngineSound'
<1> SUFFICES ASSUME EngineSound, [Next]_vars PROVE EngineSound'
  OBVIOUS
<1> QED
  BY InputsAssumption, TurnKeepsSound, PlacingKeepsSound, CancellingKeepsSound, QuietKeepsSound
     DEF Next, Finished

\* The heap, the orders, the fills and the account agree in every state.
THEOREM EngineStaysSound == Spec => []EngineSound
BY InitSound, StepSound, PTL DEF Spec

\* An order neither rests nor fills before its latency has passed.
THEOREM NeverLooksAhead == Spec => []NoLookAhead
<1>1. EngineSound => NoLookAhead
  <2> SUFFICES ASSUME EngineSound PROVE NoLookAhead
    OBVIOUS
  <2>1. \A o \in DOMAIN book.orders : book.orders[o].placedAt = placed[o].arrives
    BY DEF EngineSound, BookSound, RestsSince
  <2>2. \A f \in fills : f.ts >= placed[f.oid].arrives /\ f.inBook >= 0
    BY DEF EngineSound, FillsSound, FillSound
  <2> QED
    BY <2>1, <2>2 DEF NoLookAhead
<1> QED
  BY <1>1, EngineStaysSound, PTL

\* The running account is what metrics.py computes from the list of fills.
THEOREM AccountAlwaysMatches == Spec => []AccountMatchesFills
<1>1. EngineSound => AccountMatchesFills
  <2> SUFFICES ASSUME EngineSound PROVE AccountMatchesFills
    OBVIOUS
  <2>1. IsFiniteSet(fills) /\ \A f \in fills : IsFill(f)
    BY DEF EngineSound, FillsSound, FillSound
  <2>2. acct = Booked(NoAccount, fills)
    BY DEF EngineSound, AccountSound
  <2>3. /\ InventorySum(fills) \in Int /\ ValueSum(fills) \in Int
        /\ FeeSum(fills) \in Int /\ RebateSum(fills) \in Int
    BY <2>1, SumsAreNumbers
  <2>4. /\ acct.cash = RebateSum(fills) - FeeSum(fills) - ValueSum(fills)
        /\ acct.inventory = InventorySum(fills)
        /\ acct.fees = FeeSum(fills) /\ acct.rebates = RebateSum(fills)
    BY <2>2, <2>3 DEF Booked, NoAccount
  <2>5. RealisedCash = RebateSum(fills) - FeeSum(fills) - ValueSum(fills)
    <3>1. RealisedCash = CashesOf(fills)
      BY DEF RealisedCash, CashesOf
    <3> QED
      BY <2>1, <3>1, FoldsAreSums, CashSumIs
  <2>6. InventoryFromFills = InventorySum(fills)
    <3>1. InventoryFromFills = InventoriesOf(fills)
      BY DEF InventoryFromFills, InventoriesOf
    <3> QED
      BY <2>1, <3>1, FoldsAreSums
  <2>7. MapThenSumSet(LAMBDA f : Sign(f.side) * f.price * f.size * TickValue, fills)
          = ValueSum(fills)
    <3>1. ValuesOf(fills) = ValueSum(fills)
      BY <2>1, FoldsAreSums
    <3> QED
      BY <3>1 DEF ValuesOf
  <2>8. acct.cash = acct.rebates - acct.fees - ValueSum(fills)
    BY <2>4
  <2> QED
    BY <2>4, <2>5, <2>6, <2>7, <2>8 DEF AccountMatchesFills
<1> QED
  BY <1>1, EngineStaysSound, PTL

-----------------------------------------------------------------------------
\* Cancellations.

\* A cancellation that has arrived stays arrived, whatever is pushed.
LEMMA PoppedStays ==
    ASSUME EngineSound, [Next]_vars, NEW i \in DOMAIN cancels, Popped(cancels[i].seq)
    PROVE  i \in DOMAIN cancels' /\ cancels'[i] = cancels[i] /\ Popped(cancels[i].seq)'
<1>1. seq \in Nat /\ cancels[i].seq \in 0 .. (seq - 1) /\ cancels \in Seq(CancelRecords)
  BY DEF EngineSound, HeapAhead, CancelsSound
<1>2. CASE Turn
  <2>1. \A x \in heap' : x \in heap \/ x.seq = seq
    BY <1>2, TurnEvents DEF EngineSound
  <2>2. cancels' = cancels
    BY <1>2 DEF Turn
  <2> QED
    BY <1>1, <2>1, <2>2 DEF Popped
<1>3. ASSUME NEW k \in OrderKinds, NEW delay \in Latencies, PlaceLimit(k, delay)
      PROVE  i \in DOMAIN cancels' /\ cancels'[i] = cancels[i] /\ Popped(cancels[i].seq)'
  <2>1. \A x \in heap' : x \in heap \/ x.seq = seq
    BY <1>3 DEF PlaceLimit, PushInternal
  <2>2. cancels' = cancels
    BY <1>3 DEF PlaceLimit
  <2> QED
    BY <1>1, <2>1, <2>2 DEF Popped
<1>4. ASSUME NEW oid \in 1 .. (nextOid - 1), NEW delay \in Latencies, Cancel(oid, delay)
      PROVE  i \in DOMAIN cancels' /\ cancels'[i] = cancels[i] /\ Popped(cancels[i].seq)'
  <2>1. \A x \in heap' : x \in heap \/ x.seq = seq
    BY <1>4 DEF Cancel, PushInternal
  <2> DEFINE c == [oid |-> oid, seq |-> seq, arrives |-> now + delay]
  <2>2. cancels' = Append(cancels, c)
    BY <1>4 DEF Cancel
  <2> HIDE DEF c
  <2>3. i \in DOMAIN cancels' /\ cancels'[i] = cancels[i]
    BY <1>1, <2>2
  <2> QED
    BY <1>1, <2>1, <2>3 DEF Popped
<1>5. CASE StrategyReturns \/ UNCHANGED vars
  BY <1>5 DEF StrategyReturns, vars, Popped
<1> QED
  BY <1>2, <1>3, <1>4, <1>5 DEF Next, Finished

\* The promise for one cancellation, once it has arrived.
Final(c) ==
    /\ c.oid \notin DOMAIN book.orders
    /\ c.oid \notin DOMAIN pending
    /\ \A f \in fills : f.oid = c.oid =>
          f.ts < c.arrives \/ (f.ts = c.arrives /\ f.by < c.seq)

\* A turn keeps it, and makes it true of the cancellation that arrives.
LEMMA TurnKeepsFinal ==
    ASSUME EngineSound, Turn, NEW i \in DOMAIN cancels,
           Popped(cancels[i].seq) => Final(cancels[i]), Popped(cancels[i].seq)'
    PROVE  Final(cancels[i])'
<1> DEFINE e == Earliest(heap)
           c == cancels[i]
<1>1. e \in heap /\ \A x \in heap : x # e => x \in heap'
  BY TurnEvents DEF EngineSound
<1>2. Effect(e)
  BY TurnEffect
<1>3. cancels' = cancels
  BY DEF Turn
<1> HIDE DEF e
<1>4. CASE Popped(c.seq)
  <2>1. Final(c)
    BY <1>4
  <2>2. c.oid \notin DOMAIN book'.orders /\ c.oid \notin DOMAIN pending'
    BY <1>2, <2>1 DEF Effect, Final
  <2>3. \A f \in fills' : f.oid = c.oid => f \in fills
    BY <1>2, <2>1 DEF Effect, NewFill, Final
  <2> QED
    BY <1>3, <2>1, <2>2, <2>3 DEF Final
<1>5. CASE ~Popped(c.seq)
  <2>1. e.seq = c.seq
    BY <1>1, <1>3, <1>5 DEF Popped
  <2>2. e.kind = "cancel_arrival" /\ e.oid = c.oid /\ e.ts = c.arrives
    BY <1>1, <2>1 DEF EngineSound, CancelsSound
  <2>3. c.oid \notin DOMAIN book'.orders /\ c.oid \notin DOMAIN pending' /\ fills' = fills
    BY <1>2, <2>2 DEF Effect
  <2>4. \A f \in fills : f.ts < c.arrives \/ (f.ts = c.arrives /\ f.by < c.seq)
    BY <1>1, <2>1, <2>2 DEF EngineSound, FillsSound, FillSound
  <2> QED
    BY <1>3, <2>3, <2>4 DEF Final
<1> QED
  BY <1>4, <1>5

LEMMA StepFinal == EngineSound /\ CancelIsFinal /\ [Next]_vars => CancelIsFinal'
<1> SUFFICES ASSUME EngineSound, CancelIsFinal, [Next]_vars,
                    NEW i \in DOMAIN cancels', Popped(cancels[i].seq)'
             PROVE  Final(cancels[i])'
  BY DEF CancelIsFinal, Final
<1>1. \A j \in DOMAIN cancels : Popped(cancels[j].seq) => Final(cancels[j])
  BY DEF CancelIsFinal, Final
<1>2. CASE Turn
  <2>1. cancels' = cancels
    BY <1>2 DEF Turn
  <2> QED
    BY <1>1, <1>2, <2>1, TurnKeepsFinal
<1>3. ASSUME NEW k \in OrderKinds, NEW delay \in Latencies, PlaceLimit(k, delay)
      PROVE  Final(cancels[i])'
  <2>1. /\ heap \subseteq heap' /\ cancels' = cancels /\ book' = book /\ fills' = fills
        /\ DOMAIN pending' = DOMAIN pending \cup {nextOid}
    BY <1>3 DEF PlaceLimit, PushInternal
  <2>2. cancels[i].oid # nextOid
    BY <2>1, EngineAssumption DEF EngineSound, OrdersKnown, CancelsSound, Known
  <2>3. Final(cancels[i])
    BY <1>1, <2>1 DEF Popped
  <2> QED
    BY <2>1, <2>2, <2>3 DEF Final
<1>4. ASSUME NEW oid \in 1 .. (nextOid - 1), NEW delay \in Latencies, Cancel(oid, delay)
      PROVE  Final(cancels[i])'
  <2> DEFINE e == [ts |-> ArrivalTime(delay), seq |-> seq,
                   kind |-> "cancel_arrival", oid |-> oid]
             c == [oid |-> oid, seq |-> seq, arrives |-> now + delay]
  <2>1. /\ heap' = heap \cup {e} /\ cancels' = Append(cancels, c)
        /\ book' = book /\ pending' = pending /\ fills' = fills
    BY <1>4 DEF Cancel, PushInternal
  <2>2. e.seq = seq /\ c.seq = seq
    OBVIOUS
  <2> HIDE DEF c, e
  <2>3. cancels \in Seq(CancelRecords)
    BY DEF EngineSound, CancelsSound
  <2>4. CASE i \in DOMAIN cancels
    <3>1. cancels'[i] = cancels[i]
      BY <2>1, <2>3, <2>4
    <3>2. Final(cancels[i])
      BY <1>1, <2>1, <2>4, <3>1 DEF Popped
    <3> QED
      BY <2>1, <3>1, <3>2 DEF Final
  <2>5. CASE i \notin DOMAIN cancels
    <3>1. cancels'[i] = c
      BY <2>1, <2>3, <2>5
    <3> QED
      BY <2>1, <2>2, <3>1 DEF Popped
  <2> QED
    BY <2>4, <2>5
<1>5. CASE StrategyReturns \/ UNCHANGED vars
  BY <1>1, <1>5 DEF StrategyReturns, vars, Popped, Final
<1> QED
  BY <1>2, <1>3, <1>4, <1>5 DEF Next, Finished

\* A cancellation that has arrived is final.
THEOREM CancellationsAreFinal == Spec => []CancelIsFinal
<1>1. Init => CancelIsFinal
  <2>1. DOMAIN << >> = {}
    OBVIOUS
  <2> QED
    BY <2>1 DEF Init, CancelIsFinal
<1> QED
  BY <1>1, StepFinal, EngineStaysSound, PTL DEF Spec

-----------------------------------------------------------------------------
\* Conservation.

InFlight(o) == IF o \in DOMAIN pending THEN pending[o].size ELSE 0

Accounted(o) == Filled(fills, o) + RestingSize(book, o) + InFlight(o)

Balanced(o) ==
    /\ Accounted(o) <= placed[o].size
    /\ Accounted(o) = placed[o].size \/ o \in CancelArrived

LEMMA FilledIs ==
    ASSUME IsFiniteSet(fills), NEW o
    PROVE  FilledOf(o) = Filled(fills, o)
<1> DEFINE S == {f \in fills : f.oid = o}
<1>1. IsFiniteSet(S)
  <2>1. S \in SUBSET fills
    OBVIOUS
  <2> QED
    BY <2>1, FS_Subset
<1>2. FilledOf(o) = SizesOf(S)
  BY DEF FilledOf, SizesOf
<1>3. Filled(fills, o) = SizeSum(S)
  BY DEF Filled
<1> HIDE DEF S
<1> QED
  BY <1>1, <1>2, <1>3, FoldsAreSums

\* The parts of an order's size are numbers.
LEMMA PartsAreNumbers ==
    ASSUME EngineSound, NEW o
    PROVE  /\ Filled(fills, o) \in Nat
           /\ RestingSize(book, o) \in Nat /\ InFlight(o) \in Nat
           /\ o \in DOMAIN book.orders <=> RestingSize(book, o) > 0
           /\ o \in DOMAIN pending => RestingSize(book, o) = 0
                                      /\ InFlight(o) = placed[o].size /\ placed[o].size > 0
           /\ o \notin DOMAIN pending => InFlight(o) = 0
<1>1. Filled(fills, o) \in Nat
  <2>1. IsFiniteSet(fills) /\ \A f \in fills : IsFill(f)
    BY DEF EngineSound, FillsSound, FillSound
  <2>2. fills \cap {} = {} /\ fills \cup {} = fills /\ IsFiniteSet({})
    BY FS_EmptySet
  <2> QED
    BY <2>1, <2>2, FilledAdds
<1>2. o \in DOMAIN book.orders => book.orders[o].size \in Nat \ {0}
  BY DEF EngineSound, BookSound, IsBook, RestingOrders
<1>3. RestingSize(book, o) \in Nat /\ (o \in DOMAIN book.orders <=> RestingSize(book, o) > 0)
  BY <1>2 DEF RestingSize
<1>4. o \in DOMAIN pending =>
         /\ o \notin DOMAIN book.orders /\ pending[o].size = placed[o].size
         /\ placed[o].size \in Nat \ {0}
  BY DEF EngineSound, OrdersKnown
<1>5. InFlight(o) \in Nat /\ (o \notin DOMAIN pending => InFlight(o) = 0)
  BY <1>4 DEF InFlight
<1>6. o \in DOMAIN pending => RestingSize(book, o) = 0
                              /\ InFlight(o) = placed[o].size /\ placed[o].size > 0
  BY <1>4 DEF InFlight, RestingSize
<1> QED
  BY <1>1, <1>3, <1>5, <1>6

AllBalanced == \A o \in Known : Balanced(o)

LEMMA ConservedIs == EngineSound => (SizeConserved <=> AllBalanced)
<1> SUFFICES ASSUME EngineSound PROVE SizeConserved <=> AllBalanced
  OBVIOUS
<1>1. IsFiniteSet(fills) /\ DOMAIN placed = Known
  BY DEF EngineSound, FillsSound, OrdersKnown
<1>2. \A o : FilledOf(o) = Filled(fills, o)
  BY <1>1, FilledIs
<1> QED
  BY <1>1, <1>2 DEF SizeConserved, AllBalanced, Balanced, Accounted, RestingSize, InFlight

\* What has arrived stays arrived.
LEMMA ArrivedGrows ==
    ASSUME EngineSound, [Next]_vars
    PROVE  CancelArrived \subseteq CancelArrived'
<1> SUFFICES ASSUME NEW i \in DOMAIN cancels, Popped(cancels[i].seq)
             PROVE  cancels[i].oid \in CancelArrived'
  BY DEF CancelArrived
<1>1. i \in DOMAIN cancels' /\ cancels'[i] = cancels[i] /\ Popped(cancels[i].seq)'
  BY PoppedStays
<1> QED
  BY <1>1 DEF CancelArrived

\* A turn moves an order's contracts from one part to another.
LEMMA TurnKeepsBalance ==
    ASSUME EngineSound, Turn, NEW o \in Known, Balanced(o)
    PROVE  Balanced(o)'
<1> DEFINE e == Earliest(heap)
<1>1. Effect(e) /\ EngineSound'
  BY TurnEffect, TurnKeepsSound
<1>2. e \in heap /\ \A x \in heap' : x.seq # e.seq
  BY TurnEvents DEF EngineSound
<1>3. placed' = placed /\ cancels' = cancels
  BY DEF Turn
<1> HIDE DEF e
<1>4. CancelArrived \subseteq CancelArrived'
  BY ArrivedGrows DEF Next
<1>5. /\ Filled(fills, o) \in Nat /\ RestingSize(book, o) \in Nat /\ InFlight(o) \in Nat
      /\ o \in DOMAIN pending => RestingSize(book, o) = 0 /\ InFlight(o) = placed[o].size
      /\ o \notin DOMAIN pending => InFlight(o) = 0
  BY <1>1, PartsAreNumbers
<1>6. /\ Filled(fills', o) \in Nat /\ RestingSize(book', o) \in Nat /\ InFlight(o)' \in Nat
      /\ o \notin DOMAIN pending' => InFlight(o)' = 0
  <2>1. o \notin DOMAIN pending' => InFlight(o)' = 0
    BY DEF InFlight
  <2>2. InFlight(o)' \in Nat
    BY <1>1, <1>3, <2>1 DEF InFlight, EngineSound, OrdersKnown
  <2>3. RestingSize(book', o) \in Nat
    BY <1>1 DEF RestingSize, EngineSound, BookSound, IsBook, RestingOrders
  <2>4. Filled(fills', o) \in Nat
    <3>1. IsFiniteSet(fills') /\ \A f \in fills' : IsFill(f)
      BY <1>1 DEF EngineSound, FillsSound, FillSound
    <3>2. fills' \cap {} = {} /\ fills' \cup {} = fills' /\ IsFiniteSet({})
      BY FS_EmptySet
    <3> QED
      BY <3>1, <3>2, FilledAdds
  <2> QED
    BY <2>1, <2>2, <2>3, <2>4
<1>7. /\ Accounted(o) = Filled(fills, o) + RestingSize(book, o) + InFlight(o)
      /\ Accounted(o)' = Filled(fills', o) + RestingSize(book', o) + InFlight(o)'
  BY DEF Accounted
<1>8. placed[o].size \in Nat /\ Accounted(o) <= placed[o].size
      /\ (Accounted(o) = placed[o].size \/ o \in CancelArrived)
  BY DEF Balanced, EngineSound, OrdersKnown
<1>9. CASE Stays(o)
  <2>1. Accounted(o)' = Accounted(o)
    BY <1>7, <1>9 DEF Stays, InFlight
  <2> QED
    BY <1>3, <1>4, <1>8, <2>1 DEF Balanced
<1>10. CASE Lands(o)
  <2>1. PICK n \in 0 .. placed[o].size : Splits(o, placed[o].size, n)
    BY <1>10 DEF Lands
  <2>2. Accounted(o) = Filled(fills, o) + placed[o].size
    BY <1>5, <1>7, <1>8, <1>10 DEF Lands
  <2>3. Accounted(o)' = Filled(fills, o) + n + (placed[o].size - n)
    BY <1>6, <1>7, <1>8, <2>1 DEF Splits
  <2>4. Accounted(o)' = Accounted(o)
    BY <1>5, <1>8, <2>1, <2>2, <2>3
  <2> QED
    BY <1>3, <1>4, <1>8, <2>4 DEF Balanced
<1>11. CASE Trades(o)
  <2> DEFINE whole == book.orders[o].size
  <2>1. PICK n \in 1 .. whole : Splits(o, whole, n)
    BY <1>11 DEF Trades
  <2>2. o \notin DOMAIN pending /\ RestingSize(book, o) = whole
    BY <1>11 DEF Trades, RestingSize, EngineSound, OrdersKnown
  <2> HIDE DEF whole
  <2>3. Accounted(o) = Filled(fills, o) + whole /\ whole \in Nat
    BY <1>5, <1>7, <2>2
  <2>4. Accounted(o)' = Filled(fills, o) + n + (whole - n)
    BY <1>6, <1>7, <2>1, <2>3 DEF Splits
  <2>5. Accounted(o)' = Accounted(o)
    BY <1>5, <2>1, <2>3, <2>4
  <2> QED
    BY <1>3, <1>4, <1>8, <2>5 DEF Balanced
<1>12. CASE Dies(o, e)
  <2>1. RestingSize(book', o) = 0 /\ InFlight(o)' = 0 /\ Filled(fills', o) = Filled(fills, o)
    BY <1>12 DEF Dies, RestingSize, InFlight
  <2>2. Accounted(o)' <= placed[o].size
    BY <1>5, <1>7, <1>8, <2>1
  <2>3. PICK i \in DOMAIN cancels : cancels[i].oid = o /\ cancels[i].seq = e.seq
    BY <1>2, <1>12 DEF Dies, EngineSound, EventsSound, CancelEvent, PlaceEvent,
                       WellFormedMove, IsMarket
  <2>4. o \in CancelArrived'
    BY <1>2, <1>3, <2>3 DEF CancelArrived, Popped
  <2> QED
    BY <1>3, <2>2, <2>4 DEF Balanced
<1> QED
  BY <1>1, <1>9, <1>10, <1>11, <1>12 DEF Effect

LEMMA StepConserved ==
    EngineSound /\ SizeConserved /\ [Next]_vars => SizeConserved'
<1> SUFFICES ASSUME EngineSound, SizeConserved, [Next]_vars
             PROVE  SizeConserved'
  OBVIOUS
<1>1. EngineSound'
  BY StepSound
<1>2. \A o \in Known : Balanced(o)
  BY ConservedIs DEF AllBalanced
<1>3. CancelArrived \subseteq CancelArrived'
  BY ArrivedGrows
<1>4. \A o \in Known' : Balanced(o)'
  <2>1. CASE Turn
    <3>1. Known' = Known
      BY <2>1 DEF Turn, Known
    <3> QED
      BY <1>2, <2>1, <3>1, TurnKeepsBalance
  <2>2. ASSUME NEW k \in OrderKinds, NEW delay \in Latencies, PlaceLimit(k, delay),
               NEW o \in Known'
        PROVE  Balanced(o)'
    <3>0. nextOid \in Nat \ {0}
      BY EngineAssumption DEF EngineSound, OrdersKnown
    <3>1. /\ book' = book /\ fills' = fills /\ nextOid' = nextOid + 1
          /\ DOMAIN pending' = DOMAIN pending \cup {nextOid}
          /\ pending'[nextOid].size = k.size
          /\ placed'[nextOid].size = k.size
          /\ \A x \in DOMAIN pending : x # nextOid => pending'[x] = pending[x]
          /\ \A x \in DOMAIN placed : x # nextOid => placed'[x] = placed[x]
      BY <2>2 DEF PlaceLimit
    <3>2. Known' = Known \cup {nextOid} /\ nextOid \notin Known
      BY <3>0, <3>1 DEF Known
    <3>3. CASE o \in Known
      <4>1. placed'[o] = placed[o]
        BY <3>1, <3>2, <3>3 DEF EngineSound, OrdersKnown
      <4>2. InFlight(o)' = InFlight(o)
        BY <3>1, <3>2, <3>3 DEF InFlight
      <4>3. Accounted(o)' = Accounted(o)
        BY <3>1, <4>2 DEF Accounted
      <4> QED
        BY <1>2, <1>3, <3>3, <4>1, <4>3 DEF Balanced
    <3>4. CASE o = nextOid
      <4>1. o \notin DOMAIN book.orders /\ \A f \in fills : f.oid # o
        BY <3>2, <3>4 DEF EngineSound, OrdersKnown, FillsSound, FillSound
      <4>2. Filled(fills, o) = 0 /\ RestingSize(book, o) = 0
        BY <4>1, FilledByNone DEF RestingSize
      <4>3. InFlight(o)' = k.size /\ k.size \in Nat
        BY <3>1, <3>4, InputsAssumption DEF InFlight, Placeable
      <4>4. Accounted(o)' = k.size
        BY <3>1, <4>2, <4>3 DEF Accounted
      <4> QED
        BY <3>1, <3>4, <4>3, <4>4 DEF Balanced
    <3> QED
      BY <3>2, <3>3, <3>4
  <2>3. ASSUME NEW oid \in 1 .. (nextOid - 1), NEW delay \in Latencies, Cancel(oid, delay)
        PROVE  \A o \in Known' : Balanced(o)'
    <3>1. UNCHANGED <<book, pending, nextOid, fills, placed>>
      BY <2>3 DEF Cancel
    <3> QED
      BY <1>2, <1>3, <3>1 DEF Balanced, Accounted, InFlight, Known
  <2>4. CASE StrategyReturns \/ UNCHANGED vars
    <3>1. UNCHANGED <<book, pending, nextOid, fills, placed>>
      BY <2>4 DEF StrategyReturns, vars
    <3> QED
      BY <1>2, <1>3, <3>1 DEF Balanced, Accounted, InFlight, Known
  <2> QED
    BY <2>1, <2>2, <2>3, <2>4 DEF Next, Finished
<1>5. EngineSound' => (SizeConserved' <=> AllBalanced')
  BY ConservedIs, PTL
<1> QED
  BY <1>1, <1>4, <1>5 DEF AllBalanced

\* No contract appears or is lost.
THEOREM SizesAreConserved == Spec => []SizeConserved
<1>1. Init => SizeConserved
  <2>1. DOMAIN << >> = {}
    OBVIOUS
  <2> QED
    BY <2>1 DEF Init, SizeConserved
<1> QED
  BY <1>1, StepConserved, EngineStaysSound, PTL DEF Spec

-----------------------------------------------------------------------------
\* The refinement of OrderLifecycle.

PlacedSize(o) == IF o \in DOMAIN placed THEN placed[o].size ELSE 0

\* An order as OrderLifecycle sees it: what is filled of an order in flight, and
\* of one that rests, is decided by its size.
Viewed(o) ==
    /\ Phase(o) \in {"unborn", "inflight", "resting", "done"}
    /\ PlacedSize(o) \in Nat /\ FilledOf(o) \in Nat
    /\ FilledOf(o) = Filled(fills, o)
    /\ Phase(o) = "unborn" <=> o \notin Known
    /\ Phase(o) = "unborn" => PlacedSize(o) = 0 /\ FilledOf(o) = 0
    /\ Phase(o) = "inflight" <=> o \in DOMAIN pending
    /\ Phase(o) = "inflight" => FilledOf(o) = 0 /\ PlacedSize(o) > 0
    /\ Phase(o) = "resting" <=> o \in DOMAIN book.orders
    /\ Phase(o) = "resting" => FilledOf(o) + RestingSize(book, o) = PlacedSize(o)
    /\ RestingSize(book, o) \in Nat
    /\ o \in DOMAIN book.orders <=> RestingSize(book, o) > 0

OrdersViewed == \A o \in Oids : Viewed(o)

LEMMA SoundIsViewed == EngineSound /\ SizeConserved /\ CancelIsFinal => OrdersViewed
<1> SUFFICES ASSUME EngineSound, SizeConserved, CancelIsFinal, NEW o \in Oids
             PROVE  Viewed(o)
  BY DEF OrdersViewed
<1>1. /\ Filled(fills, o) \in Nat
      /\ RestingSize(book, o) \in Nat /\ InFlight(o) \in Nat
      /\ o \in DOMAIN book.orders <=> RestingSize(book, o) > 0
      /\ o \in DOMAIN pending => RestingSize(book, o) = 0
                                 /\ InFlight(o) = placed[o].size /\ placed[o].size > 0
      /\ o \notin DOMAIN pending => InFlight(o) = 0
  BY PartsAreNumbers
<1>2. /\ DOMAIN placed = Known /\ IsFiniteSet(fills)
      /\ o \in Known => placed[o].size \in Nat
      /\ DOMAIN pending \subseteq Known /\ DOMAIN book.orders \subseteq Known
      /\ o \in DOMAIN pending => o \notin DOMAIN book.orders
  BY DEF EngineSound, OrdersKnown, FillsSound
<1>3. FilledOf(o) = Filled(fills, o)
  BY <1>2, FilledIs
<1>4. /\ PlacedSize(o) \in Nat
      /\ o \in Known => PlacedSize(o) = placed[o].size
      /\ o \notin Known => PlacedSize(o) = 0
  BY <1>2 DEF PlacedSize
<1>5. /\ Phase(o) \in {"unborn", "inflight", "resting", "done"}
      /\ Phase(o) = "unborn" <=> o \notin Known
      /\ Phase(o) = "inflight" <=> o \in DOMAIN pending
      /\ Phase(o) = "resting" <=> o \in DOMAIN book.orders
  BY <1>2 DEF Phase
<1>6. o \notin Known => Filled(fills, o) = 0
  <2>1. o \notin Known => \A f \in fills : f.oid # o
    BY DEF EngineSound, FillsSound, FillSound
  <2> QED
    BY <2>1, FilledByNone
<1>7. o \in Known =>
        /\ Accounted(o) = Filled(fills, o) + RestingSize(book, o) + InFlight(o)
        /\ Accounted(o) <= placed[o].size
        /\ Accounted(o) = placed[o].size \/ o \in CancelArrived
  BY ConservedIs DEF AllBalanced, Balanced, Accounted
<1>8. o \in CancelArrived => o \notin DOMAIN book.orders
  BY DEF CancelArrived, CancelIsFinal
<1>9. o \in DOMAIN pending => Filled(fills, o) = 0
  BY <1>1, <1>2, <1>7
<1>10. o \in DOMAIN book.orders => Filled(fills, o) + RestingSize(book, o) = PlacedSize(o)
  BY <1>1, <1>2, <1>4, <1>7, <1>8
<1> QED
  BY <1>1, <1>2, <1>3, <1>4, <1>5, <1>6, <1>9, <1>10 DEF Viewed

Moves(o) ==
    \/ Lifecycle!Stay(o) \/ Lifecycle!Submit(o) \/ Lifecycle!Arrive(o)
    \/ Lifecycle!Fill(o) \/ Lifecycle!Withdraw(o)

\* An order whose phase, size and fills do not change stays.
LEMMA SameStays ==
    ASSUME NEW o \in Oids, Phase(o)' = Phase(o), PlacedSize(o)' = PlacedSize(o),
           FilledOf(o)' = FilledOf(o)
    PROVE  Lifecycle!Stay(o)
BY DEF Lifecycle!Stay, PlacedSize

\* Each of the four things a turn can do to an order is a move of its life.
LEMMA TurnMoves ==
    ASSUME EngineSound, OrdersViewed, OrdersViewed', Turn, NEW o \in Oids
    PROVE  Moves(o)
<1> DEFINE e == Earliest(heap)
<1>1. Effect(e) /\ e \in heap
  BY TurnEffect, TurnEvents DEF EngineSound
<1>2. placed' = placed /\ cancels' = cancels /\ nextOid' = nextOid
  BY DEF Turn
<1> HIDE DEF e
<1>3. Viewed(o) /\ Viewed(o)'
  BY DEF OrdersViewed
<1>4. Known' = Known /\ PlacedSize(o)' = PlacedSize(o)
  BY <1>2 DEF Known, PlacedSize
<1>5. /\ FilledOf(o) = Filled(fills, o) /\ FilledOf(o)' = Filled(fills', o)
      /\ FilledOf(o) \in Nat /\ PlacedSize(o) \in Nat
  BY <1>3 DEF Viewed
<1>6. CASE o \notin Known
  <2>1. /\ Phase(o) = "unborn" /\ Phase(o)' = "unborn"
        /\ FilledOf(o) = 0 /\ FilledOf(o)' = 0
    BY <1>3, <1>4, <1>6 DEF Viewed
  <2> QED
    BY <1>4, <2>1, SameStays DEF Moves
<1>7. CASE o \in Known /\ Stays(o)
  <2>1. Phase(o)' = Phase(o)
    BY <1>2, <1>7 DEF Phase, Stays
  <2>2. FilledOf(o)' = FilledOf(o)
    BY <1>5, <1>7 DEF Stays
  <2> QED
    BY <1>4, <2>1, <2>2, SameStays DEF Moves
<1>8. CASE o \in Known /\ Lands(o)
  <2>1. o \in DOMAIN placed /\ PlacedSize(o) = placed[o].size
    BY <1>8 DEF EngineSound, OrdersKnown, PlacedSize
  <2>2. PICK n \in 0 .. PlacedSize(o) : Splits(o, PlacedSize(o), n)
    BY <1>8, <2>1 DEF Lands
  <2>3. Phase(o) = "inflight" /\ FilledOf(o) = 0
    BY <1>3, <1>8 DEF Viewed, Lands
  <2>4. FilledOf(o)' = n
    BY <1>5, <2>2, <2>3 DEF Splits
  <2>5. Phase(o)' = IF n = PlacedSize(o) THEN "done" ELSE "resting"
    <3>1. o \notin DOMAIN pending' /\ RestingSize(book', o) = PlacedSize(o) - n
      BY <2>2 DEF Splits
    <3>2. o \in DOMAIN book'.orders <=> n # PlacedSize(o)
      BY <1>3, <1>5, <2>2, <3>1 DEF Viewed
    <3> QED
      BY <1>2, <2>1, <3>1, <3>2 DEF Phase
  <2>6. FilledOf(o)' \in FilledOf(o) .. PlacedSize(o)
    BY <1>5, <2>2, <2>3, <2>4
  <2>7. Lifecycle!Arrive(o)
    BY <1>4, <2>3, <2>4, <2>5, <2>6 DEF Lifecycle!Arrive, PlacedSize
  <2> QED
    BY <2>7 DEF Moves
<1>9. CASE o \in Known /\ Trades(o)
  <2> DEFINE whole == book.orders[o].size
  <2>1. o \in DOMAIN placed /\ PlacedSize(o) = placed[o].size
    BY <1>9 DEF EngineSound, OrdersKnown, PlacedSize
  <2>2. PICK n \in 1 .. whole : Splits(o, whole, n)
    BY <1>9 DEF Trades
  <2>3. Phase(o) = "resting" /\ RestingSize(book, o) = whole
    BY <1>3, <1>9 DEF Viewed, Trades, RestingSize
  <2> HIDE DEF whole
  <2>4. FilledOf(o) + whole = PlacedSize(o) /\ whole \in Nat
    BY <1>3, <2>3 DEF Viewed
  <2>5. FilledOf(o)' = FilledOf(o) + n
    BY <1>5, <2>2 DEF Splits
  <2>6. FilledOf(o)' \in (FilledOf(o) + 1) .. PlacedSize(o)
    BY <1>5, <2>2, <2>4, <2>5
  <2>7. Phase(o)' = IF FilledOf(o)' = PlacedSize(o) THEN "done" ELSE "resting"
    <3>1. o \notin DOMAIN pending' /\ RestingSize(book', o) = whole - n
      BY <2>2 DEF Splits
    <3>2. o \in DOMAIN book'.orders <=> n # whole
      BY <1>3, <2>2, <2>4, <3>1 DEF Viewed
    <3>3. n = whole <=> FilledOf(o)' = PlacedSize(o)
      BY <1>5, <2>2, <2>4, <2>5
    <3> QED
      BY <1>2, <2>1, <3>1, <3>2, <3>3 DEF Phase
  <2>8. Lifecycle!Fill(o)
    BY <1>4, <2>3, <2>6, <2>7 DEF Lifecycle!Fill, PlacedSize
  <2> QED
    BY <2>8 DEF Moves
<1>10. CASE o \in Known /\ Dies(o, e)
  <2>1. Phase(o) \in {"inflight", "resting"}
    BY <1>3, <1>10 DEF Viewed, Dies
  <2>2. Phase(o)' = "done"
    BY <1>2, <1>10 DEF Phase, Dies, EngineSound, OrdersKnown
  <2>3. FilledOf(o)' = FilledOf(o)
    BY <1>5, <1>10 DEF Dies
  <2>4. PICK i \in DOMAIN cancels : cancels[i].oid = o
    BY <1>1, <1>10 DEF Dies, EngineSound, EventsSound, CancelEvent, PlaceEvent,
                       WellFormedMove, IsMarket
  <2>5. o \in CancelAsked
    BY <2>4 DEF CancelAsked
  <2>6. Lifecycle!Withdraw(o)
    BY <1>4, <2>1, <2>2, <2>3, <2>5 DEF Lifecycle!Withdraw, PlacedSize
  <2> QED
    BY <2>6 DEF Moves
<1> QED
  BY <1>1, <1>6, <1>7, <1>8, <1>9, <1>10 DEF Effect

\* Placing an order submits it and leaves the others alone.
LEMMA PlacingMoves ==
    ASSUME EngineSound, OrdersViewed, OrdersViewed', NEW k \in OrderKinds,
           NEW delay \in Latencies, PlaceLimit(k, delay), NEW o \in Oids
    PROVE  Moves(o)
<1>1. /\ book' = book /\ fills' = fills /\ nextOid' = nextOid + 1
      /\ DOMAIN pending' = DOMAIN pending \cup {nextOid}
      /\ placed'[nextOid].size = k.size
      /\ DOMAIN placed' = DOMAIN placed \cup {nextOid}
      /\ \A x \in DOMAIN placed : x # nextOid => placed'[x] = placed[x]
  BY DEF PlaceLimit
<1>2. Viewed(o) /\ Viewed(o)'
  BY DEF OrdersViewed
<1>3. nextOid \in Nat \ {0} /\ DOMAIN placed = Known
  BY EngineAssumption DEF EngineSound, OrdersKnown
<1>4. CASE o = nextOid
  <2>1. o \notin Known
    BY <1>3, <1>4 DEF Known
  <2>2. Phase(o) = "unborn" /\ Phase(o)' = "inflight"
    BY <1>1, <1>2, <1>4, <2>1 DEF Viewed
  <2>3. PlacedSize(o)' > 0 /\ FilledOf(o)' = 0
    BY <1>2, <2>2 DEF Viewed
  <2>4. Lifecycle!Submit(o)
    BY <2>2, <2>3 DEF Lifecycle!Submit, PlacedSize
  <2> QED
    BY <2>4 DEF Moves
<1>5. CASE o # nextOid
  <2>1. Phase(o)' = Phase(o)
    BY <1>1, <1>5 DEF Phase
  <2>2. PlacedSize(o)' = PlacedSize(o)
    BY <1>1, <1>5 DEF PlacedSize
  <2>3. FilledOf(o)' = FilledOf(o)
    BY <1>1, <1>2 DEF Viewed
  <2> QED
    BY <2>1, <2>2, <2>3, SameStays DEF Moves
<1> QED
  BY <1>4, <1>5

\* Every other step leaves every order where it is.
LEMMA OthersStay ==
    ASSUME OrdersViewed, OrdersViewed', UNCHANGED <<book, pending, fills, placed>>,
           NEW o \in Oids
    PROVE  Moves(o)
<1>1. Phase(o)' = Phase(o) /\ PlacedSize(o)' = PlacedSize(o)
  BY DEF Phase, PlacedSize
<1>2. FilledOf(o)' = FilledOf(o)
  BY DEF OrdersViewed, Viewed
<1> QED
  BY <1>1, <1>2, SameStays DEF Moves

\* What was asked for stays asked for.
LEMMA AskedGrows ==
    ASSUME EngineSound, [Next]_vars
    PROVE  CancelAsked \subseteq CancelAsked'
<1> SUFFICES ASSUME NEW i \in DOMAIN cancels PROVE cancels[i].oid \in CancelAsked'
  BY DEF CancelAsked
<1>1. i \in DOMAIN cancels' /\ cancels'[i] = cancels[i]
  <2>1. CASE cancels' = cancels
    BY <2>1
  <2>2. ASSUME NEW oid \in 1 .. (nextOid - 1), NEW delay \in Latencies, Cancel(oid, delay)
        PROVE  i \in DOMAIN cancels' /\ cancels'[i] = cancels[i]
    <3> DEFINE c == [oid |-> oid, seq |-> seq, arrives |-> now + delay]
    <3>1. cancels' = Append(cancels, c) /\ cancels \in Seq(CancelRecords)
      BY <2>2 DEF Cancel, EngineSound, CancelsSound
    <3> HIDE DEF c
    <3> QED
      BY <3>1
  <2> QED
    BY <2>1, <2>2 DEF Next, Turn, PlaceLimit, StrategyReturns, Finished, vars
<1> QED
  BY <1>1 DEF CancelAsked

AskedKnown == CancelAsked \subseteq Oids

LEMMA AskedAreOrders == EngineSound => AskedKnown
<1> SUFFICES ASSUME EngineSound, NEW i \in DOMAIN cancels PROVE cancels[i].oid \in Oids
  BY DEF AskedKnown, CancelAsked
<1> QED
  BY EngineAssumption DEF EngineSound, OrdersKnown, CancelsSound, Known, Oids

LEMMA InitIsLifecycle == Init => Lifecycle!Init
<1> SUFFICES ASSUME Init PROVE Lifecycle!Init
  OBVIOUS
<1>1. DOMAIN << >> = {}
  OBVIOUS
<1>2. EngineSound /\ placed = << >> /\ cancels = << >>
  BY InitSound DEF Init
<1>3. SizeConserved /\ CancelIsFinal
  BY <1>1, <1>2 DEF SizeConserved, CancelIsFinal
<1>4. \A o \in Oids : Phase(o) = "unborn" /\ PlacedSize(o) = 0
  <2> TAKE o \in Oids
  <2>1. o \notin DOMAIN placed /\ o \notin Known
    BY <1>1, <1>2 DEF EngineSound, OrdersKnown
  <2>2. Phase(o) = "unborn"
    BY <1>2, <1>3, <2>1, SoundIsViewed DEF OrdersViewed, Viewed
  <2> QED
    BY <2>1, <2>2 DEF PlacedSize
<1>5. \A o \in Oids : FilledOf(o) = 0
  BY <1>2, <1>3, <1>4, SoundIsViewed DEF OrdersViewed, Viewed
<1>6. CancelAsked = {}
  BY <1>1, <1>2 DEF CancelAsked
<1> QED
  BY <1>4, <1>5, <1>6 DEF Lifecycle!Init, PlacedSize

LEMMA StepIsLifecycle ==
    EngineSound /\ OrdersViewed /\ EngineSound' /\ OrdersViewed' /\ [Next]_vars
      => Lifecycle!Next
<1> SUFFICES ASSUME EngineSound, OrdersViewed, EngineSound', OrdersViewed', [Next]_vars
             PROVE  Lifecycle!Next
  OBVIOUS
<1>1. \A o \in Oids : Moves(o)
  <2> TAKE o \in Oids
  <2>1. ASSUME NEW oid \in 1 .. (nextOid - 1), NEW delay \in Latencies, Cancel(oid, delay)
        PROVE  Moves(o)
    BY <2>1, OthersStay DEF Cancel
  <2>2. CASE StrategyReturns \/ UNCHANGED vars
    BY <2>2, OthersStay DEF StrategyReturns, vars
  <2> QED
    BY <2>1, <2>2, TurnMoves, PlacingMoves DEF Next, Finished
<1>2. /\ \A o \in Oids : Phase(o)' \in {"unborn", "inflight", "resting", "done"}
      /\ \A o \in Oids : PlacedSize(o)' \in Nat /\ FilledOf(o)' \in Nat
  BY DEF OrdersViewed, Viewed
<1>3. /\ [o \in Oids |-> Phase(o)]' \in [Oids -> Lifecycle!Phases]
      /\ [o \in Oids |-> PlacedSize(o)]' \in [Oids -> Nat]
      /\ [o \in Oids |-> FilledOf(o)]' \in [Oids -> Nat]
  BY <1>2 DEF Lifecycle!Phases
<1>4. EngineSound' => AskedKnown'
  BY AskedAreOrders, PTL
<1>5. CancelAsked \subseteq CancelAsked' /\ CancelAsked' \in SUBSET Oids
  BY <1>4, AskedGrows DEF AskedKnown, Oids
<1>6. Lifecycle!StopsClean
  BY DEF Lifecycle!StopsClean
<1> QED
  BY <1>1, <1>3, <1>5, <1>6 DEF Lifecycle!Next, Moves, PlacedSize

\* Every run of the backtester is a run of OrderLifecycle.
THEOREM BacktesterKeepsLifecycle == Spec => ImplementsLifecycle
<1>1. EngineSound /\ SizeConserved /\ CancelIsFinal => OrdersViewed
  BY SoundIsViewed
<1>2. EngineSound /\ OrdersViewed /\ EngineSound' /\ OrdersViewed' /\ [Next]_vars
        => [Lifecycle!Next]_(Lifecycle!vars)
  BY StepIsLifecycle
<1> QED
  BY <1>1, <1>2, InitIsLifecycle, EngineStaysSound, SizesAreConserved, CancellationsAreFinal,
     PTL DEF Spec, ImplementsLifecycle, Lifecycle!Spec

-----------------------------------------------------------------------------
(***************************************************************************)
(* Quoting, the cancel-and-replace loop on top of the engine, for every    *)
(* pricing rule and schedule of jumps.                                     *)
(*                                                                         *)
(* Remembered, without a word about types: an order enters the flight with *)
(* its id in quote, and leaves quote with its cancellation on the heap.    *)
(*                                                                         *)
(* StaysDark: the loop that stops at the first jump still ahead misses no  *)
(* window because the schedule is sorted, and the clock stands still       *)
(* between the decision and the orders it leads to.  Withdrawing: when the *)
(* maker answers an event in the dark, each order of before is remembered, *)
(* so that on_event cancels it, or its cancellation is under way (Leaving).*)
(*                                                                         *)
(* QuotesSound: with one fixed latency internal events are handled in the  *)
(* order in which the strategy spoke (SpokenInOrder), so of two live       *)
(* orders on a side the cancellation of the older is ahead of the newer    *)
(* (Replaced).  A bid may still be placed at or above our own ask: two     *)
(* targets are at least a tick apart, hence the ask does not match its     *)
(* target and on_event cancels it before it returns (WillGo); both arrive  *)
(* at the same instant with no market event between them (GoneWith).       *)
(***************************************************************************)


\* A delay that the run's latency model draws is one of the engine's.
LEMMA DelaysAreLatencies ==
    ASSUME delays \in LatencyModels, NEW delay \in delays
    PROVE  delay \in Latencies /\ delay \in Nat
BY QuotingAssumption, EngineAssumption

\* What the strategy places and cancels is pushed at or after now.
LEMMA PlacedIsPushed ==
    ASSUME HeapAhead, NEW k, NEW delay \in Nat, PlaceLimit(k, delay)
    PROVE  /\ HeapAhead' /\ nextOid' = nextOid + 1 /\ UNCHANGED <<pc, now, book>>
           /\ DOMAIN pending' = DOMAIN pending \cup {nextOid}
           /\ DOMAIN placed' = DOMAIN placed \cup {nextOid}
           /\ placed'[nextOid].decided = now
           /\ placed'[nextOid].side = k.side /\ placed'[nextOid].price = k.price
           /\ \A o \in DOMAIN placed \ {nextOid} : placed'[o] = placed[o]
           /\ \E e : /\ heap' = heap \cup {e} /\ e.kind = "place_arrival" /\ e.order.oid = nextOid
                     /\ e.order.side = k.side /\ e.order.price = k.price
                     /\ e.ts = now + delay /\ e.seq = seq
<1> DEFINE p == [oid |-> nextOid, side |-> k.side, price |-> k.price,
                 size |-> k.size, postOnly |-> k.postOnly]
           e == [ts |-> ArrivalTime(delay), seq |-> seq,
                 kind |-> "place_arrival", order |-> p]
           r == [side |-> k.side, price |-> k.price, size |-> k.size,
                 decided |-> now, arrives |-> now + delay]
<1>1. /\ PushInternal(e) /\ UNCHANGED <<pc, now, feed, book>> /\ nextOid' = nextOid + 1
      /\ pending' = [o \in DOMAIN pending \cup {nextOid} |->
                       IF o = nextOid THEN p ELSE pending[o]]
      /\ placed' = [o \in DOMAIN placed \cup {nextOid} |->
                      IF o = nextOid THEN r ELSE placed[o]]
  BY DEF PlaceLimit
<1>2. now \in Nat
  BY DEF HeapAhead
<1>3. /\ e.ts = now + delay /\ e.ts \in Nat /\ now <= e.ts /\ e.seq = seq
      /\ e.kind = "place_arrival" /\ e.order.oid = nextOid
      /\ e.order.side = k.side /\ e.order.price = k.price
      /\ r.decided = now /\ r.side = k.side /\ r.price = k.price
  BY <1>2 DEF ArrivalTime
<1> HIDE DEF e, p, r
<1>4. HeapAhead'
  BY <1>1, <1>3, PushKeepsAhead
<1> QED
  BY <1>1, <1>3, <1>4 DEF PushInternal

LEMMA CancelIsPushed ==
    ASSUME HeapAhead, NEW oid, NEW delay \in Nat, Cancel(oid, delay)
    PROVE  /\ HeapAhead' /\ UNCHANGED <<pc, now, nextOid, book, pending, placed>>
           /\ \E e : /\ heap' = heap \cup {e} /\ e.kind = "cancel_arrival" /\ e.oid = oid
                     /\ e.ts = now + delay /\ e.seq = seq
<1> DEFINE e == [ts |-> ArrivalTime(delay), seq |-> seq,
                 kind |-> "cancel_arrival", oid |-> oid]
<1>1. PushInternal(e) /\ UNCHANGED <<pc, now, feed, book, pending, nextOid, placed>>
  BY DEF Cancel
<1>2. now \in Nat
  BY DEF HeapAhead
<1>3. /\ e.ts = now + delay /\ e.ts \in Nat /\ now <= e.ts /\ e.seq = seq
      /\ e.kind = "cancel_arrival" /\ e.oid = oid
  BY <1>2 DEF ArrivalTime
<1> HIDE DEF e
<1>4. HeapAhead'
  BY <1>1, <1>3, PushKeepsAhead
<1> QED
  BY <1>1, <1>3, <1>4 DEF PushInternal

-----------------------------------------------------------------------------
\* No order is orphaned.

\* The inductive invariant.  Nothing in it is about types of prices: a quote
\* outside the model's price grid is not forgotten either.
Remembered ==
    /\ HeapAhead /\ delays \in LatencyModels
    /\ nextOid \in Nat \ {0}
    /\ IsRecord(book)
    /\ \A e \in heap : IsMarket(e) => WellFormedMove(e)
    /\ DOMAIN pending \subseteq Known /\ DOMAIN book.orders \subseteq Known
    /\ DOMAIN quote = Sides
    /\ NoOrphans

LEMMA InitRemembered == QInit => Remembered
<1> SUFFICES ASSUME QInit PROVE Remembered
  OBVIOUS
<1>1. HeapAhead /\ delays \in LatencyModels /\ nextOid \in Nat \ {0} /\ DOMAIN quote = Sides
  BY InitHeap DEF QInit, Init
<1>2. IsRecord(book) /\ DOMAIN pending = {} /\ DOMAIN book.orders = {}
  <2>1. book = InitialBook /\ pending = << >>
    BY DEF QInit, Init
  <2>2. InitialBook.orders = << >> /\ IsRecord(InitialBook)
    BY InputsAssumption DEF FreshBooks, IsRecord
  <2> QED
    BY <2>1, <2>2
<1>3. \A e \in heap : IsMarket(e) => WellFormedMove(e)
  <2>1. ASSUME NEW m \in MarketMoves, NEW ts \in Gaps
        PROVE  WellFormedMove(Stamped(m, ts, 0))
    BY StampedFields, InputsAssumption
  <2> QED
    BY <2>1 DEF QInit, Init
<1> QED
  BY <1>1, <1>2, <1>3 DEF Remembered, NoOrphans

\* What a turn does to the orders that are alive: none is born, and one whose
\* cancellation is popped is gone.
LEMMA TurnAddsNoOrder ==
    ASSUME HeapAhead, IsRecord(book), \A e \in heap : IsMarket(e) => WellFormedMove(e), Turn
    PROVE  LET e == Earliest(heap)
           IN  /\ IsRecord(book')
               /\ DOMAIN pending' \subseteq DOMAIN pending
               /\ DOMAIN book'.orders \subseteq DOMAIN book.orders \cup DOMAIN pending
               /\ e.kind = "cancel_arrival" =>
                     e.oid \notin DOMAIN pending' /\ e.oid \notin DOMAIN book'.orders
<1> DEFINE e == Earliest(heap)
<1>1. e \in heap
  BY TurnEvents
<1>2. PlaceArrives(e) \/ CancelArrives(e) \/ MarketArrives(e)
  BY DEF Turn
<1> HIDE DEF e
<1>3. CASE PlaceArrives(e)
  <2>1. CASE e.order.oid \notin DOMAIN pending
    BY <1>3, <2>1 DEF PlaceArrives, e
  <2>2. CASE e.order.oid \in DOMAIN pending
    <3>1. /\ pending' = [o \in DOMAIN pending \ {e.order.oid} |-> pending[o]]
          /\ book' = BookAfterArrival(book, e.order, e.ts)
      BY <1>3, <2>2 DEF PlaceArrives
    <3>2. IsRecord(book') /\ DOMAIN book'.orders \subseteq DOMAIN book.orders \cup {e.order.oid}
      BY <3>1, ArrivalAddsOne
    <3> QED
      BY <1>3, <2>2, <3>1, <3>2 DEF PlaceArrives, e
  <2> QED
    BY <1>3, <2>1, <2>2 DEF PlaceArrives, e
<1>4. CASE CancelArrives(e)
  <2>1. /\ pending' = [o \in DOMAIN pending \ {e.oid} |-> pending[o]]
        /\ book' = RemoveOurOrder(book, e.oid)
    BY <1>4 DEF CancelArrives
  <2>2. IsRecord(book') /\ DOMAIN book'.orders = DOMAIN book.orders \ {e.oid}
    BY <2>1, RemovedFields
  <2> QED
    BY <2>1, <2>2 DEF e
<1>5. CASE MarketArrives(e)
  <2>1. WellFormedMove(e) /\ book' = BookAfterMarket(book, e) /\ pending' = pending
        /\ e.kind # "cancel_arrival"
    BY <1>1, <1>5 DEF MarketArrives, IsMarket
  <2> QED
    BY <2>1, MarketAddsNoOrder DEF e
<1> QED
  BY <1>2, <1>3, <1>4, <1>5

LEMMA TurnRemembers ==
    ASSUME Remembered, EngineTurn
    PROVE  Remembered'
<1> DEFINE e == Earliest(heap)
<1>1. Turn /\ HeapAhead /\ HeapAhead' /\ UNCHANGED <<delays, nextOid, quote>>
  BY TurnStep DEF EngineTurn, Remembered, Turn
<1>2. /\ IsRecord(book')
      /\ DOMAIN pending' \subseteq DOMAIN pending
      /\ DOMAIN book'.orders \subseteq DOMAIN book.orders \cup DOMAIN pending
      /\ e.kind = "cancel_arrival" =>
            e.oid \notin DOMAIN pending' /\ e.oid \notin DOMAIN book'.orders
  BY <1>1, TurnAddsNoOrder DEF Remembered
<1>3. /\ \A x \in heap' : (x \in heap /\ x # e) \/ (x.seq = seq /\ WellFormedMove(x))
      /\ \A x \in heap : x # e => x \in heap'
  BY <1>1, TurnEvents
<1> HIDE DEF e
<1>4. \A x \in heap' : IsMarket(x) => WellFormedMove(x)
  BY <1>3 DEF Remembered
<1>5. NoOrphans'
  <2> SUFFICES ASSUME NEW o \in DOMAIN pending' \cup DOMAIN book'.orders
               PROVE  \/ \E side \in Sides : quote[side].oid = o
                      \/ \E x \in heap' : x.kind = "cancel_arrival" /\ x.oid = o
    BY <1>1 DEF NoOrphans
  <2>1. o \in DOMAIN pending \cup DOMAIN book.orders
    BY <1>2
  <2>2. ASSUME NEW x \in heap, x.kind = "cancel_arrival", x.oid = o
        PROVE  x \in heap'
    BY <1>2, <1>3, <2>2
  <2> QED
    BY <2>1, <2>2 DEF Remembered, NoOrphans
<1> QED
  BY <1>1, <1>2, <1>4, <1>5 DEF Remembered, Known

LEMMA PlacingRemembers ==
    ASSUME Remembered, NEW side \in Sides, NEW delay \in delays, PlaceMissing(side, delay)
    PROVE  Remembered'
<1>1. delay \in Nat /\ HeapAhead
  BY DelaysAreLatencies DEF Remembered
<1>2. /\ PlaceLimit([side |-> side, price |-> target[side], size |-> QuoteSize,
                     postOnly |-> TRUE], delay)
      /\ quote[side].oid = None
      /\ quote' = [quote EXCEPT ![side] = [oid |-> nextOid, price |-> target[side]]]
      /\ delays' = delays
  BY DEF PlaceMissing
<1>3. /\ HeapAhead' /\ nextOid' = nextOid + 1 /\ book' = book
      /\ DOMAIN pending' = DOMAIN pending \cup {nextOid}
  BY <1>1, <1>2, PlacedIsPushed
<1>4. PICK e : /\ heap' = heap \cup {e} /\ e.kind = "place_arrival"
  BY <1>1, <1>2, PlacedIsPushed
<1>5. /\ DOMAIN quote' = Sides /\ quote'[side].oid = nextOid
      /\ \A s \in Sides \ {side} : quote'[s] = quote[s]
  BY <1>2 DEF Remembered
<1>6. Known' = Known \cup {nextOid} /\ nextOid' \in Nat \ {0}
  BY <1>3 DEF Remembered, Known
<1>7. \A x \in heap' : IsMarket(x) => WellFormedMove(x)
  BY <1>4 DEF Remembered, IsMarket
<1>8. NoOrphans'
  <2> SUFFICES ASSUME NEW o \in DOMAIN pending' \cup DOMAIN book'.orders
               PROVE  \/ \E s \in Sides : quote'[s].oid = o
                      \/ \E x \in heap' : x.kind = "cancel_arrival" /\ x.oid = o
    BY DEF NoOrphans
  <2>1. CASE o = nextOid
    BY <1>5, <2>1
  <2>2. CASE o \in DOMAIN pending \cup DOMAIN book.orders
    <3>1. o # None
      BY <2>2 DEF Remembered, Known, None
    <3>2. CASE \E s \in Sides : quote[s].oid = o
      BY <1>2, <1>5, <3>1, <3>2
    <3>3. CASE \E x \in heap : x.kind = "cancel_arrival" /\ x.oid = o
      BY <1>4, <3>3
    <3> QED
      BY <2>2, <3>2, <3>3 DEF Remembered, NoOrphans
  <2> QED
    BY <1>3, <2>1, <2>2
<1> QED
  BY <1>2, <1>3, <1>5, <1>6, <1>7, <1>8 DEF Remembered

LEMMA CancellingRemembers ==
    ASSUME Remembered, NEW side \in Sides, NEW delay \in delays, CancelStale(side, delay)
    PROVE  Remembered'
<1>1. delay \in Nat /\ HeapAhead
  BY DelaysAreLatencies DEF Remembered
<1>2. /\ Cancel(quote[side].oid, delay)
      /\ quote' = [quote EXCEPT ![side] = NoQuote]
      /\ delays' = delays
  BY DEF CancelStale
<1>3. HeapAhead' /\ UNCHANGED <<nextOid, book, pending>>
  BY <1>1, <1>2, CancelIsPushed
<1>4. PICK e : heap' = heap \cup {e} /\ e.kind = "cancel_arrival" /\ e.oid = quote[side].oid
  BY <1>1, <1>2, CancelIsPushed
<1>5. DOMAIN quote' = Sides /\ \A s \in Sides \ {side} : quote'[s] = quote[s]
  BY <1>2 DEF Remembered
<1>6. \A x \in heap' : IsMarket(x) => WellFormedMove(x)
  BY <1>4 DEF Remembered, IsMarket
<1>7. NoOrphans'
  <2> SUFFICES ASSUME NEW o \in DOMAIN pending \cup DOMAIN book.orders
               PROVE  \/ \E s \in Sides : quote'[s].oid = o
                      \/ \E x \in heap' : x.kind = "cancel_arrival" /\ x.oid = o
    BY <1>3 DEF NoOrphans
  <2> QED
    BY <1>4, <1>5 DEF Remembered, NoOrphans
<1> QED
  BY <1>2, <1>3, <1>5, <1>6, <1>7 DEF Remembered, Known

LEMMA StepRemembers == Remembered /\ [QNext]_<<vars, quoting>> => Remembered'
<1> SUFFICES ASSUME Remembered, [QNext]_<<vars, quoting>> PROVE Remembered'
  OBVIOUS
<1>1. CASE EngineTurn
  BY <1>1, TurnRemembers
<1>2. ASSUME NEW side \in Sides, NEW delay \in delays,
             CancelStale(side, delay) \/ PlaceMissing(side, delay)
      PROVE  Remembered'
  BY <1>2, CancellingRemembers, PlacingRemembers
<1>3. CASE UNCHANGED <<vars, delays, quote>>
  BY <1>3 DEF vars, Remembered, HeapAhead, NoOrphans, Known
<1>4. CASE OnEventReturns
  <2>1. UNCHANGED <<now, heap, seq, feed, book, pending, nextOid, delays, quote>>
        /\ (pc' = "pop" => heap # {})
    BY <1>4 DEF OnEventReturns, StrategyReturns, quoting
  <2> QED
    BY <2>1 DEF Remembered, HeapAhead, NoOrphans, Known
<1>5. ASSUME NEW toxic, NEW alpha, Decide(toxic, alpha) PROVE UNCHANGED <<vars, delays, quote>>
  BY <1>5 DEF Decide
<1>6. ASSUME NEW side \in Sides, Reconciled(side) PROVE UNCHANGED <<vars, delays, quote>>
  BY <1>6 DEF Reconciled
<1>7. Finished /\ UNCHANGED quoting => UNCHANGED <<vars, delays, quote>>
  BY DEF Finished, quoting
<1> QED
  BY <1>1, <1>2, <1>3, <1>4, <1>5, <1>6, <1>7 DEF QNext, quoting

\* Whatever latency does to the order of arrivals, the strategy remembers each
\* of its orders that is alive, or has its cancellation on the way.
THEOREM NoOrderIsOrphaned == QSpec => []NoOrphans
<1>1. Remembered => NoOrphans
  BY DEF Remembered
<1> QED
  BY <1>1, InitRemembered, StepRemembers, PTL DEF QSpec

-----------------------------------------------------------------------------
\* The maker is dark near a scheduled jump: first, no order is decided there.

NoneInside ==
    pricing = "signals" => \A o \in DOMAIN placed : placed[o].decided \notin DarkTimes

\* The loop that stops at the first jump still ahead misses no window, because
\* the schedule is sorted.
LEMMA WindowIsFound ==
    ASSUME NEW ts \in DarkTimes
    PROVE  ts \in Int /\ InJumpWindow(ts)
<1>1. \A j \in DOMAIN JumpTimes : JumpTimes[j] \in Nat
  BY QuotingAssumption
<1>2. PICK i \in DOMAIN JumpTimes : ts \in JumpTimes[i] - DarkBefore .. JumpTimes[i] + DarkAfter
  BY DEF DarkTimes
<1>3. i \in Nat /\ \A j \in 1 .. (i - 1) : j \in DOMAIN JumpTimes /\ j <= i
  BY QuotingAssumption
<1>4. ts \in Int /\ JumpTimes[i] - DarkBefore <= ts /\ ts <= JumpTimes[i] + DarkAfter
  BY <1>1, <1>2, QuotingAssumption
<1>5. \A j \in 1 .. (i - 1) : JumpTimes[j] - DarkBefore <= ts
  BY <1>1, <1>3, <1>4, QuotingAssumption
<1> QED
  BY <1>4, <1>5 DEF InJumpWindow

\* A decision to quote is taken outside every window, and is carried out at
\* the same instant: the clock moves only between two calls of on_event.
DecidedOutside ==
    pricing = "signals" /\ step \in {"bid", "ask"} /\ (\E side \in Sides : target[side] # None) =>
        now \notin DarkTimes

StaysDark == Remembered /\ DOMAIN placed = Known /\ NoneInside /\ DecidedOutside

LEMMA InitDark == QInit => StaysDark
<1> SUFFICES ASSUME QInit PROVE StaysDark
  OBVIOUS
<1>1. placed = << >> /\ nextOid = 1 /\ step = "ignored"
  BY DEF QInit, Init
<1>2. DOMAIN placed = {} /\ Known = {}
  BY <1>1 DEF Known
<1> QED
  BY <1>1, <1>2, InitRemembered DEF StaysDark, NoneInside, DecidedOutside

LEMMA DecidingStaysDark ==
    ASSUME StaysDark, NEW toxic, NEW alpha, Decide(toxic, alpha)
    PROVE  NoneInside' /\ DecidedOutside'
<1>1. UNCHANGED <<placed, now, pricing>>
  BY DEF Decide, vars
<1>2. CASE Withdrawn(toxic)
  <2>1. target' = NoQuotes
    BY <1>2 DEF Decide
  <2> QED
    BY <1>1, <2>1 DEF StaysDark, NoneInside, DecidedOutside, NoQuotes, Sides
<1>3. CASE ~Withdrawn(toxic)
  <2>1. pricing = "signals" => ~InJumpWindow(now)
    BY <1>3 DEF Withdrawn
  <2>2. now \in Nat
    BY DEF StaysDark, Remembered, HeapAhead
  <2>3. pricing = "signals" => now \notin DarkTimes
    BY <2>1, <2>2, WindowIsFound
  <2> QED
    BY <1>1, <2>3 DEF StaysDark, NoneInside, DecidedOutside
<1> QED
  BY <1>2, <1>3

LEMMA PlacingStaysDark ==
    ASSUME StaysDark, NEW side \in Sides, NEW delay \in delays, PlaceMissing(side, delay)
    PROVE  DOMAIN placed' = Known' /\ NoneInside' /\ DecidedOutside'
<1>1. delay \in Nat /\ HeapAhead /\ nextOid \in Nat \ {0}
  BY DelaysAreLatencies DEF StaysDark, Remembered
<1>2. /\ PlaceLimit([side |-> side, price |-> target[side], size |-> QuoteSize,
                     postOnly |-> TRUE], delay)
      /\ step = side /\ target[side] # None /\ UNCHANGED <<pricing, step, target>>
  BY DEF PlaceMissing
<1>3. /\ nextOid' = nextOid + 1
      /\ DOMAIN placed' = DOMAIN placed \cup {nextOid}
      /\ placed'[nextOid].decided = now
      /\ \A o \in DOMAIN placed \ {nextOid} : placed'[o] = placed[o]
  BY <1>1, <1>2, PlacedIsPushed
<1>4. now' = now
  BY <1>2 DEF PlaceLimit
<1>5. Known' = Known \cup {nextOid} /\ nextOid \notin Known
  BY <1>1, <1>3 DEF Known
<1>6. pricing = "signals" => now \notin DarkTimes
  BY <1>2 DEF StaysDark, DecidedOutside, Sides
<1>7. NoneInside'
  BY <1>2, <1>3, <1>6 DEF StaysDark, NoneInside
<1> QED
  BY <1>2, <1>3, <1>4, <1>5, <1>7 DEF StaysDark, DecidedOutside

LEMMA StepDark == StaysDark /\ [QNext]_<<vars, quoting>> => StaysDark'
<1> SUFFICES ASSUME StaysDark, [QNext]_<<vars, quoting>> PROVE StaysDark'
  OBVIOUS
<1>0. Remembered'
  BY StepRemembers DEF StaysDark
<1> SUFFICES DOMAIN placed' = Known' /\ NoneInside' /\ DecidedOutside'
  BY <1>0 DEF StaysDark
<1>1. CASE EngineTurn
  <2>1. UNCHANGED <<placed, nextOid, pricing>> /\ step' \in {"decide", "ignored"}
    BY <1>1 DEF EngineTurn, Turn
  <2> QED
    BY <2>1 DEF StaysDark, Known, NoneInside, DecidedOutside
<1>2. ASSUME NEW toxic, NEW alpha, Decide(toxic, alpha)
      PROVE  DOMAIN placed' = Known' /\ NoneInside' /\ DecidedOutside'
  <2>1. UNCHANGED <<placed, nextOid>>
    BY <1>2 DEF Decide, vars
  <2> QED
    BY <1>2, <2>1, DecidingStaysDark DEF StaysDark, Known
<1>3. ASSUME NEW side \in Sides, NEW delay \in delays, PlaceMissing(side, delay)
      PROVE  DOMAIN placed' = Known' /\ NoneInside' /\ DecidedOutside'
  BY <1>3, PlacingStaysDark
<1>4. CASE UNCHANGED <<placed, nextOid, pricing, target, now>>
           /\ (step' = step \/ step' = "done" \/ (step = "bid" /\ step' = "ask"))
  BY <1>4 DEF StaysDark, Known, NoneInside, DecidedOutside
<1>5. ASSUME NEW side \in Sides, NEW delay \in delays, CancelStale(side, delay)
      PROVE  UNCHANGED <<placed, nextOid, pricing, target, now, step>>
  BY <1>5 DEF CancelStale, Cancel
<1>6. ASSUME NEW side \in Sides, Reconciled(side)
      PROVE  UNCHANGED <<placed, nextOid, pricing, target, now>>
             /\ (step' = "done" \/ (step = "bid" /\ step' = "ask"))
  BY <1>6 DEF Reconciled, vars, Sides
<1>7. ASSUME OnEventReturns \/ (Finished /\ UNCHANGED quoting) \/ UNCHANGED <<vars, quoting>>
      PROVE  UNCHANGED <<placed, nextOid, pricing, target, now, step>>
  BY <1>7 DEF OnEventReturns, StrategyReturns, Finished, quoting, vars
<1> QED
  BY <1>1, <1>2, <1>3, <1>4, <1>5, <1>6, <1>7 DEF QNext

-----------------------------------------------------------------------------
\* Second, the quotes that it had are soon gone.

\* The orders that may still be filled.
Live == DOMAIN pending \cup DOMAIN book.orders

\* on_event is under way only while the engine waits for it.
InsideOnEvent == step \in {"decide", "bid", "ask"} => pc = "strategy"

\* By the time of the ask, a bid that is to be withdrawn has been.
BidWithdrawn == step = "ask" /\ target["bid"] = None => quote["bid"].oid = None

\* A cancellation on the heap arrives within one latency from now.
CancelsSoon ==
    \A e \in heap : e.kind = "cancel_arrival" => \E d \in delays : e.ts <= now + d

\* The cancellation of o is on the way and arrives within one latency from ts.
GoneSoon(o, ts) ==
    \E e \in heap : /\ e.kind = "cancel_arrival" /\ e.oid = o
                    /\ \E d \in delays : e.ts <= ts + d

\* What was quoted when the maker turned dark at ts is about to go, or on_event
\* is just withdrawing it.
Leaving ==
    pricing = "signals" =>
        \A ts \in answered \cap DarkTimes, o \in Live :
            placed[o].decided <= ts =>
                \/ GoneSoon(o, ts)
                \/ ts = now /\ step \in {"bid", "ask"} /\ \E side \in Sides : quote[side].oid = o

FilledSoon ==
    pricing = "signals" =>
        \A ts \in answered \cap DarkTimes, f \in fills :
            placed[f.oid].decided <= ts => \E d \in delays : f.ts <= ts + d

Withdrawing ==
    /\ answered \subseteq 0 .. now
    /\ \A f \in fills : f.oid \in Known /\ f.ts \in 0 .. now
    /\ InsideOnEvent /\ BidWithdrawn
    /\ CancelsSoon /\ Leaving /\ FilledSoon

LEMMA InitWithdrawing == QInit => Withdrawing
<1> SUFFICES ASSUME QInit PROVE Withdrawing
  OBVIOUS
<1>1. step = "ignored" /\ answered = {} /\ fills = {}
  BY DEF QInit, Init
<1>2. \A e \in heap : e.kind # "cancel_arrival"
  <2>1. ASSUME NEW m \in MarketMoves, NEW ts \in Gaps
        PROVE  Stamped(m, ts, 0).kind # "cancel_arrival"
    <3>1. WellFormedMove(Stamped(m, ts, 0))
      BY StampedFields, InputsAssumption
    <3> QED
      BY <3>1 DEF WellFormedMove, IsMarket
  <2> QED
    BY <2>1 DEF QInit, Init
<1> QED
  BY <1>1, <1>2 DEF Withdrawing, InsideOnEvent, BidWithdrawn, CancelsSoon, Leaving, FilledSoon

\* What a turn fills was alive, and is filled at the instant of the turn.
LEMMA TurnFills ==
    ASSUME Turn, NEW f \in fills', f \notin fills
    PROVE  f.oid \in Live /\ f.ts = now'
<1> DEFINE e == Earliest(heap)
<1>1. now' = e.ts /\ (PlaceArrives(e) \/ CancelArrives(e) \/ MarketArrives(e))
  BY DEF Turn
<1> HIDE DEF e
<1>2. CASE PlaceArrives(e)
  <2>1. e.order.oid \in DOMAIN pending /\ f \in ArrivalFills(book, e.order, e.ts, e.seq)
    BY <1>2 DEF PlaceArrives
  <2>2. f.oid = e.order.oid /\ f.ts = e.ts
    BY <2>1 DEF ArrivalFills
  <2> QED
    BY <1>1, <2>1, <2>2 DEF Live
<1>3. CASE CancelArrives(e)
  BY <1>3 DEF CancelArrives
<1>4. CASE MarketArrives(e)
  <2>1. f \in MarketFills(book, e, e.seq)
    BY <1>4 DEF MarketArrives
  <2> DEFINE new == TradeFills(book, e.price, e.size, e.aggressor)
  <2>2. DOMAIN new \subseteq DOMAIN book.orders
    BY DEF TradeFills
  <2> HIDE DEF new
  <2>3. \E o \in DOMAIN new :
           f = [by |-> e.seq, ts |-> e.ts, oid |-> o, side |-> book.orders[o].side,
                price |-> e.price, size |-> new[o].size, maker |-> TRUE,
                inBook |-> e.ts - book.orders[o].placedAt]
    BY <2>1 DEF MarketFills, new
  <2>4. f.oid \in DOMAIN new /\ f.ts = e.ts
    BY <2>3
  <2> QED
    BY <1>1, <2>2, <2>4 DEF Live
<1> QED
  BY <1>1, <1>2, <1>3, <1>4

\* A turn pops the cancellation of an order before it fills that order later.
LEMMA TurnWithdraws ==
    ASSUME StaysDark, Withdrawing, EngineTurn
    PROVE  Withdrawing'
<1> DEFINE e == Earliest(heap)
<1>1. /\ Turn /\ HeapAhead /\ HeapAhead' /\ now' >= now /\ pc = "pop" /\ pc' = "strategy"
      /\ UNCHANGED <<delays, nextOid, quote, placed, pricing, answered, target>>
      /\ step' \in {"decide", "ignored"}
  BY TurnStep DEF EngineTurn, StaysDark, Remembered, Turn
<1>2. step \notin {"decide", "bid", "ask"}
  BY <1>1 DEF Withdrawing, InsideOnEvent
<1>3. /\ Live' \subseteq Live
      /\ e.kind = "cancel_arrival" => e.oid \notin Live'
  BY <1>1, TurnAddsNoOrder DEF StaysDark, Remembered, Live
<1>4. /\ \A x \in heap' : (x \in heap /\ x # e) \/ (x.seq = seq /\ WellFormedMove(x))
      /\ \A x \in heap : x # e => x \in heap'
      /\ now' = e.ts /\ \A x \in heap : e.ts <= x.ts
  <2>1. \A x \in heap : e.ts <= x.ts
    <3>1. heap # {} /\ \A x \in heap : x.ts \in Nat /\ x.seq \in Nat
      BY <1>1 DEF HeapAhead
    <3>2. \A x, y \in heap : x.seq = y.seq => x = y
      BY <1>1 DEF HeapAhead
    <3> QED
      BY <3>1, <3>2, EarliestIsFirst
  <2> QED
    BY <1>1, <2>1, TurnEvents DEF Turn
<1> HIDE DEF e
<1>5. now \in Nat /\ now' \in Nat /\ \A d \in delays : d \in Nat
  BY <1>1, DelaysAreLatencies DEF HeapAhead, StaysDark, Remembered
<1>6. answered' \subseteq 0 .. now'
  BY <1>1, <1>5 DEF Withdrawing
<1>7. \A f \in fills' : f.oid \in Known' /\ f.ts \in 0 .. now'
  <2> TAKE f \in fills'
  <2>1. CASE f \in fills
    BY <1>1, <1>5, <2>1 DEF Withdrawing, Known
  <2>2. CASE f \notin fills
    <3>1. f.oid \in Live /\ f.ts = now'
      BY <1>1, <2>2, TurnFills
    <3> QED
      BY <1>1, <1>5, <3>1 DEF Known, Live, StaysDark, Remembered
  <2> QED
    BY <2>1, <2>2
<1>8. CancelsSoon'
  <2> SUFFICES ASSUME NEW x \in heap', x.kind = "cancel_arrival"
               PROVE  \E d \in delays : x.ts <= now' + d
    BY <1>1 DEF CancelsSoon
  <2>1. x \in heap /\ x.ts \in Nat
    BY <1>1, <1>4 DEF WellFormedMove, IsMarket, HeapAhead
  <2>2. PICK d \in delays : x.ts <= now + d
    BY <2>1 DEF Withdrawing, CancelsSoon
  <2>3. x.ts <= now' + d
    BY <1>1, <1>5, <2>1, <2>2
  <2> QED
    BY <2>3
<1>9. ASSUME pricing = "signals", NEW ts \in answered \cap DarkTimes, NEW o \in Live,
             placed[o].decided <= ts
      PROVE  GoneSoon(o, ts)
  BY <1>2, <1>9 DEF Withdrawing, Leaving
<1>10. Leaving'
  <2> SUFFICES ASSUME pricing = "signals", NEW ts \in answered \cap DarkTimes, NEW o \in Live',
                      placed[o].decided <= ts
               PROVE  GoneSoon(o, ts)'
    BY <1>1 DEF Leaving
  <2>1. PICK x \in heap : x.kind = "cancel_arrival" /\ x.oid = o /\ \E d \in delays : x.ts <= ts + d
    BY <1>3, <1>9 DEF GoneSoon
  <2>2. x \in heap'
    BY <1>3, <1>4, <2>1
  <2> QED
    BY <1>1, <2>1, <2>2 DEF GoneSoon
<1>11. FilledSoon'
  <2> SUFFICES ASSUME pricing = "signals", NEW ts \in answered \cap DarkTimes, NEW f \in fills',
                      placed[f.oid].decided <= ts
               PROVE  \E d \in delays : f.ts <= ts + d
    BY <1>1 DEF FilledSoon
  <2>1. CASE f \in fills
    BY <2>1 DEF Withdrawing, FilledSoon
  <2>2. CASE f \notin fills
    <3>1. f.oid \in Live /\ f.ts = e.ts
      BY <1>1, <1>4, <2>2, TurnFills
    <3>2. PICK x \in heap, d \in delays : x.ts <= ts + d
      BY <1>9, <3>1 DEF GoneSoon
    <3>3. e.ts <= x.ts /\ e.ts \in Nat /\ x.ts \in Nat /\ ts \in Nat /\ d \in Nat
      BY <1>1, <1>4, <1>5 DEF HeapAhead, Withdrawing
    <3>4. f.ts <= ts + d
      BY <3>1, <3>2, <3>3
    <3> QED
      BY <3>4
  <2> QED
    BY <2>1, <2>2
<1> QED
  BY <1>1, <1>6, <1>7, <1>8, <1>10, <1>11 DEF Withdrawing, InsideOnEvent, BidWithdrawn

\* When it turns dark, the strategy remembers each of its orders or has asked
\* for its cancellation already.
LEMMA DecidingWithdraws ==
    ASSUME StaysDark, Withdrawing, NEW toxic, NEW alpha, Decide(toxic, alpha)
    PROVE  Withdrawing'
<1>1. /\ UNCHANGED <<now, heap, pc, placed, fills, nextOid, delays, pricing, quote>>
      /\ Live' = Live /\ step = "decide" /\ step' = "bid" /\ pc = "strategy"
      /\ answered' = answered \cup {now}
  BY DEF Decide, vars, Live
<1>2. now \in Nat /\ \A d \in delays : d \in Nat
  BY DelaysAreLatencies DEF HeapAhead, StaysDark, Remembered
<1>3. Leaving'
  <2> SUFFICES ASSUME pricing = "signals", NEW ts \in answered' \cap DarkTimes, NEW o \in Live,
                      placed[o].decided <= ts
               PROVE  \/ GoneSoon(o, ts)
                      \/ ts = now /\ \E side \in Sides : quote[side].oid = o
    BY <1>1 DEF Leaving, GoneSoon
  <2>1. CASE ts = now
    <3>1. CASE \E side \in Sides : quote[side].oid = o
      BY <2>1, <3>1
    <3>2. CASE \E x \in heap : x.kind = "cancel_arrival" /\ x.oid = o
      BY <2>1, <3>2 DEF Withdrawing, CancelsSoon, GoneSoon
    <3> QED
      BY <3>1, <3>2 DEF StaysDark, Remembered, NoOrphans, Live
  <2>2. CASE ts # now
    BY <1>1, <2>2 DEF Withdrawing, Leaving
  <2> QED
    BY <2>1, <2>2
<1>4. FilledSoon'
  <2> SUFFICES ASSUME pricing = "signals", NEW ts \in answered' \cap DarkTimes, NEW f \in fills,
                      placed[f.oid].decided <= ts
               PROVE  \E d \in delays : f.ts <= ts + d
    BY <1>1 DEF FilledSoon
  <2>1. CASE ts = now
    <3>1. PICK d \in delays : TRUE
      BY QuotingAssumption DEF StaysDark, Remembered
    <3>2. f.ts <= now + d
      BY <1>2, <3>1 DEF Withdrawing
    <3> QED
      BY <2>1, <3>2
  <2>2. CASE ts # now
    BY <1>1, <2>2 DEF Withdrawing, FilledSoon
  <2> QED
    BY <2>1, <2>2
<1>5. answered' \subseteq 0 .. now' /\ \A f \in fills' : f.oid \in Known' /\ f.ts \in 0 .. now'
  BY <1>1, <1>2 DEF Withdrawing, Known
<1>6. InsideOnEvent' /\ BidWithdrawn' /\ CancelsSoon'
  BY <1>1 DEF Withdrawing, InsideOnEvent, BidWithdrawn, CancelsSoon
<1> QED
  BY <1>3, <1>4, <1>5, <1>6 DEF Withdrawing

\* A withdrawn quote leaves quote with its cancellation pushed.
LEMMA CancellingWithdraws ==
    ASSUME StaysDark, Withdrawing, NEW side \in Sides, NEW delay \in delays,
           CancelStale(side, delay)
    PROVE  Withdrawing'
<1>1. delay \in Nat /\ HeapAhead /\ now \in Nat
  BY DelaysAreLatencies DEF StaysDark, Remembered, HeapAhead
<1>2. /\ Cancel(quote[side].oid, delay) /\ step = side
      /\ quote' = [quote EXCEPT ![side] = NoQuote]
      /\ UNCHANGED <<pricing, delays, step, target, answered>>
  BY DEF CancelStale
<1>3. UNCHANGED <<pc, now, nextOid, placed>> /\ Live' = Live
  BY <1>1, <1>2, CancelIsPushed DEF Live
<1>4. fills' = fills
  BY <1>2 DEF Cancel
<1>5. PICK e : /\ heap' = heap \cup {e} /\ e.kind = "cancel_arrival"
               /\ e.oid = quote[side].oid /\ e.ts = now + delay
  BY <1>1, <1>2, CancelIsPushed
<1>6. /\ quote'[side].oid = None
      /\ \A s \in Sides \ {side} : quote'[s] = quote[s]
  BY <1>2 DEF StaysDark, Remembered, NoQuote
<1>7. BidWithdrawn'
  BY <1>2, <1>6 DEF Withdrawing, BidWithdrawn, Sides
<1>8. CancelsSoon'
  <2>1. \E d \in delays : e.ts <= now + d
    BY <1>1, <1>5
  <2> QED
    BY <1>2, <1>3, <1>5, <2>1 DEF Withdrawing, CancelsSoon
<1>9. Leaving'
  <2> SUFFICES ASSUME pricing = "signals", NEW ts \in answered \cap DarkTimes, NEW o \in Live,
                      placed[o].decided <= ts
               PROVE  \/ GoneSoon(o, ts)'
                      \/ ts = now /\ step \in {"bid", "ask"} /\ \E s \in Sides : quote'[s].oid = o
    BY <1>2, <1>3 DEF Leaving, GoneSoon
  <2>1. CASE GoneSoon(o, ts)
    BY <1>2, <1>5, <2>1 DEF GoneSoon
  <2>2. ASSUME ts = now, step \in {"bid", "ask"}, NEW s \in Sides, quote[s].oid = o
        PROVE  \/ GoneSoon(o, ts)'
               \/ ts = now /\ step \in {"bid", "ask"} /\ \E r \in Sides : quote'[r].oid = o
    <3>1. CASE s = side
      <4>1. e \in heap' /\ e.kind = "cancel_arrival" /\ e.oid = o /\ e.ts <= ts + delay
        BY <1>1, <1>5, <2>2, <3>1
      <4> QED
        BY <1>2, <4>1 DEF GoneSoon
    <3>2. CASE s # side
      BY <1>6, <2>2, <3>2
    <3> QED
      BY <3>1, <3>2
  <2> QED
    BY <2>1, <2>2 DEF Withdrawing, Leaving
<1>10. FilledSoon'
  BY <1>2, <1>3, <1>4 DEF Withdrawing, FilledSoon
<1> QED
  BY <1>2, <1>3, <1>4, <1>7, <1>8, <1>9, <1>10 DEF Withdrawing, InsideOnEvent, Known

\* A new quote is decided after every instant at which the maker was dark.
LEMMA PlacingWithdraws ==
    ASSUME StaysDark, Withdrawing, NEW side \in Sides, NEW delay \in delays,
           PlaceMissing(side, delay)
    PROVE  Withdrawing'
<1>1. delay \in Nat /\ HeapAhead /\ now \in Nat /\ nextOid \in Nat \ {0}
  BY DelaysAreLatencies DEF StaysDark, Remembered, HeapAhead
<1>2. /\ PlaceLimit([side |-> side, price |-> target[side], size |-> QuoteSize,
                     postOnly |-> TRUE], delay)
      /\ step = side /\ quote[side].oid = None /\ target[side] # None
      /\ quote' = [quote EXCEPT ![side] = [oid |-> nextOid, price |-> target[side]]]
      /\ UNCHANGED <<pricing, delays, step, target, answered>>
  BY DEF PlaceMissing
<1>3. /\ UNCHANGED <<pc, now, book>> /\ nextOid' = nextOid + 1
      /\ DOMAIN pending' = DOMAIN pending \cup {nextOid}
      /\ placed'[nextOid].decided = now
      /\ \A o \in DOMAIN placed \ {nextOid} : placed'[o] = placed[o]
  BY <1>1, <1>2, PlacedIsPushed
<1>4. fills' = fills
  BY <1>2 DEF PlaceLimit
<1>5. PICK e : heap' = heap \cup {e} /\ e.kind = "place_arrival"
  BY <1>1, <1>2, PlacedIsPushed
<1>6. \A s \in Sides \ {side} : quote'[s] = quote[s]
  BY <1>2 DEF StaysDark, Remembered
<1>7. /\ Live' = Live \cup {nextOid} /\ Known' = Known \cup {nextOid}
      /\ Live \subseteq Known /\ DOMAIN placed = Known /\ nextOid \notin Known
  BY <1>1, <1>3 DEF Live, Known, StaysDark, Remembered
<1>8. \A o \in Known : placed'[o] = placed[o] /\ o # None
  BY <1>1, <1>3, <1>7 DEF Known, None
<1>9. BidWithdrawn'
  BY <1>2, <1>6 DEF Withdrawing, BidWithdrawn, Sides
<1>10. CancelsSoon'
  BY <1>2, <1>3, <1>5 DEF Withdrawing, CancelsSoon
<1>11. Leaving'
  <2> SUFFICES ASSUME pricing = "signals", NEW ts \in answered \cap DarkTimes, NEW o \in Live',
                      placed'[o].decided <= ts
               PROVE  \/ GoneSoon(o, ts)'
                      \/ ts = now /\ step \in {"bid", "ask"} /\ \E s \in Sides : quote'[s].oid = o
    BY <1>2, <1>3 DEF Leaving, GoneSoon
  <2>1. CASE o = nextOid
    <3>1. now <= ts /\ ts \in 0 .. now
      BY <1>3, <2>1 DEF Withdrawing
    <3>2. ts = now
      BY <1>1, <3>1
    <3>3. now \notin DarkTimes
      BY <1>2 DEF StaysDark, DecidedOutside, Sides
    <3> QED
      BY <3>2, <3>3
  <2>2. CASE o \in Live
    <3>1. placed[o].decided <= ts /\ o # None
      BY <1>7, <1>8, <2>2
    <3>2. CASE GoneSoon(o, ts)
      BY <1>2, <1>5, <3>2 DEF GoneSoon
    <3>3. CASE ts = now /\ step \in {"bid", "ask"} /\ \E s \in Sides : quote[s].oid = o
      BY <1>2, <1>6, <3>1, <3>3
    <3> QED
      BY <2>2, <3>1, <3>2, <3>3 DEF Withdrawing, Leaving
  <2> QED
    BY <1>7, <2>1, <2>2
<1>12. FilledSoon'
  BY <1>2, <1>4, <1>8 DEF Withdrawing, FilledSoon
<1> QED
  BY <1>2, <1>3, <1>4, <1>7, <1>9, <1>10, <1>11, <1>12 DEF Withdrawing, InsideOnEvent

\* on_event goes on to the ask, or ends, when it has withdrawn what it had to.
LEMMA ReconcilingWithdraws ==
    ASSUME StaysDark, Withdrawing, NEW side \in Sides, Reconciled(side)
    PROVE  Withdrawing'
<1>1. /\ UNCHANGED <<pc, now, heap, placed, fills, nextOid, delays, pricing, quote,
                     target, answered>>
      /\ Live' = Live /\ step = side /\ pc = "strategy"
      /\ step' = IF side = "bid" THEN "ask" ELSE "done"
  BY DEF Reconciled, vars, Live
<1>2. target[side] = None => quote[side].oid = None
  BY DEF Reconciled, Matches
<1>3. BidWithdrawn'
  BY <1>1, <1>2 DEF BidWithdrawn, Sides
<1>4. Leaving'
  <2> SUFFICES ASSUME pricing = "signals", NEW ts \in answered \cap DarkTimes, NEW o \in Live,
                      placed[o].decided <= ts
               PROVE  \/ GoneSoon(o, ts)
                      \/ ts = now /\ step' = "ask" /\ \E s \in Sides : quote[s].oid = o
    BY <1>1 DEF Leaving, GoneSoon
  <2>1. CASE side = "bid"
    BY <1>1, <2>1 DEF Withdrawing, Leaving
  <2>2. CASE side = "ask"
    <3>1. o # None
      BY DEF StaysDark, Remembered, Live, Known, None
    <3>2. ASSUME ts = now PROVE \A s \in Sides : quote[s].oid = None
      <4>1. target["bid"] = None /\ target["ask"] = None
        BY <1>1, <3>2 DEF StaysDark, DecidedOutside, Sides
      <4> QED
        BY <1>1, <1>2, <2>2, <4>1 DEF Withdrawing, BidWithdrawn, Sides
    <3> QED
      BY <3>1, <3>2 DEF Withdrawing, Leaving
  <2> QED
    BY <2>1, <2>2 DEF Sides
<1> QED
  BY <1>1, <1>3, <1>4 DEF Withdrawing, InsideOnEvent, CancelsSoon, FilledSoon, Known

LEMMA StepWithdraws == StaysDark /\ Withdrawing /\ [QNext]_<<vars, quoting>> => Withdrawing'
<1> SUFFICES ASSUME StaysDark, Withdrawing, [QNext]_<<vars, quoting>> PROVE Withdrawing'
  OBVIOUS
<1>1. CASE EngineTurn
  BY <1>1, TurnWithdraws
<1>2. ASSUME NEW toxic, NEW alpha, Decide(toxic, alpha) PROVE Withdrawing'
  BY <1>2, DecidingWithdraws
<1>3. ASSUME NEW side \in Sides, NEW delay \in delays,
             CancelStale(side, delay) \/ PlaceMissing(side, delay)
      PROVE  Withdrawing'
  BY <1>3, CancellingWithdraws, PlacingWithdraws
<1>4. ASSUME NEW side \in Sides, Reconciled(side) PROVE Withdrawing'
  BY <1>4, ReconcilingWithdraws
<1>5. ASSUME UNCHANGED <<now, heap, book, pending, placed, fills, nextOid, quoting>>,
             pc' = pc \/ step \in {"done", "ignored"}
      PROVE  Withdrawing'
  <2>1. /\ UNCHANGED <<delays, pricing, quote, target, answered, step>> /\ Live' = Live
        /\ Known' = Known
    BY <1>5 DEF quoting, Live, Known
  <2>2. InsideOnEvent' /\ BidWithdrawn'
    BY <1>5, <2>1 DEF Withdrawing, InsideOnEvent, BidWithdrawn
  <2>3. CancelsSoon'
    BY <1>5, <2>1 DEF Withdrawing, CancelsSoon
  <2>4. Leaving'
    BY <1>5, <2>1 DEF Withdrawing, Leaving, GoneSoon
  <2>5. FilledSoon'
    BY <1>5, <2>1 DEF Withdrawing, FilledSoon
  <2> QED
    BY <1>5, <2>1, <2>2, <2>3, <2>4, <2>5 DEF Withdrawing
<1>6. CASE OnEventReturns \/ (Finished /\ UNCHANGED quoting) \/ UNCHANGED <<vars, quoting>>
  BY <1>5, <1>6 DEF OnEventReturns, StrategyReturns, Finished, vars
<1> QED
  BY <1>1, <1>2, <1>3, <1>4, <1>6 DEF QNext

\* Around every scheduled jump no order is decided, and the orders of before
\* are filled no later than one latency after the first event answered there.
THEOREM MakerStaysDark == QSpec => []DarkNearJumps
<1>1. NoneInside /\ FilledSoon => DarkNearJumps
  BY DEF NoneInside, FilledSoon, DarkNearJumps
<1>2. StaysDark => NoneInside
  BY DEF StaysDark
<1>3. Withdrawing => FilledSoon
  BY DEF Withdrawing
<1> QED
  BY <1>1, <1>2, <1>3, InitDark, StepDark, InitWithdrawing, StepWithdraws, PTL DEF QSpec

-----------------------------------------------------------------------------
\* One quote per side, and none that a market event finds crossed.

\* What the strategy quotes lies on the price grid of the model.
OnGrid == \A side \in Sides : target[side] \in Prices \cup {None}

Places(e, o)  == e.kind = "place_arrival" /\ e.order.oid = o
Cancels(e, o) == e.kind = "cancel_arrival" /\ e.oid = o
Internal(e)   == e.kind \in {"place_arrival", "cancel_arrival"}

\* The heap, the book and the strategy's memory tell the same of an order.
MemoryAgrees ==
    /\ delays \in LatencyModels
    /\ DOMAIN quote = Sides
    /\ \A o \in Known : placed[o].side \in Sides /\ placed[o].price \in Prices
    /\ \A e \in heap : e.kind = "place_arrival" =>
          /\ e.order.side = placed[e.order.oid].side
          /\ e.order.price = placed[e.order.oid].price
    /\ \A o \in DOMAIN book.orders :
          /\ book.orders[o].side = placed[o].side
          /\ book.orders[o].price = placed[o].price
    /\ \A side \in Sides : quote[side].oid # None =>
          /\ quote[side].oid \in Known
          /\ placed[quote[side].oid].side = side
          /\ placed[quote[side].oid].price = quote[side].price

\* One fixed latency keeps the order in which the strategy spoke.
SpokenInOrder ==
    /\ \A e, f \in heap : Internal(e) /\ Internal(f) /\ e.seq < f.seq => e.ts <= f.ts
    /\ \A e \in heap, d \in delays : Internal(e) => e.ts <= now + d

\* y is still in flight, and the cancellation of x is ahead of it.
GoneBefore(x, y) ==
    /\ y \in DOMAIN pending
    /\ \E c \in heap : Cancels(c, x) /\ \A f \in heap : Places(f, y) => c.seq < f.seq

\* The cancellation of x arrives at the same instant as y, or has to arrive at
\* this one if y has, and no market event is handled in between.
GoneWith(x, y) ==
    \E c \in heap :
        /\ Cancels(c, x)
        /\ y \in DOMAIN pending =>
              \A f \in heap : Places(f, y) =>
                 /\ f.ts = c.ts /\ f.seq < c.seq
                 /\ \A m \in heap : IsMarket(m) => m.seq < f.seq \/ c.seq < m.seq
        /\ y \notin DOMAIN pending =>
              c.ts = now /\ \A m \in heap : IsMarket(m) => ~Before(m, c)

\* The bid has been moved up to the ask x, which on_event is about to cancel.
WillGo(x, y) ==
    /\ step \in {"bid", "ask"}
    /\ x = quote["ask"].oid /\ ~Matches("ask")
    /\ y \in DOMAIN pending
    /\ \A f \in heap : Places(f, y) =>
          /\ \A d \in delays : f.ts = now + d
          /\ \A m \in heap : IsMarket(m) => m.seq < f.seq

Apart(x, y) == GoneBefore(x, y) \/ GoneWith(x, y) \/ WillGo(x, y)

\* Of two live orders on one side, the older is gone before the newer rests.
Replaced ==
    \A o, p \in Live : o < p /\ placed[o].side = placed[p].side => GoneBefore(o, p)

Crossed(o, p) ==
    placed[o].side = "bid" /\ placed[p].side = "ask" /\ placed[o].price >= placed[p].price

\* Of a bid and an ask that cross, one goes before the market meets the other.
CrossedApart == \A o, p \in Live : Crossed(o, p) => Apart(o, p) \/ Apart(p, o)

\* The bid is settled before the ask.
SettledBid == step = "ask" => quote["bid"].oid = None \/ Matches("bid")

TargetsApart ==
    step \in {"bid", "ask"} /\ target["bid"] # None /\ target["ask"] # None =>
        target["bid"] + book.tick <= target["ask"]

ClockStarted == t0 \in Nat \cup {None}

\* What on_event knows at each of its steps.
StepSettled == InsideOnEvent /\ SettledBid /\ TargetsApart /\ ClockStarted

\* What rests after a turn rested before or is what the turn made arrive, on
\* the side and at the price at which it was placed.
LEMMA ArrivalKeepsQuote ==
    ASSUME NEW b, IsRecord(b), NEW p, p.oid \notin DOMAIN b.orders, NEW t
    PROVE  LET c == BookAfterArrival(b, p, t)
           IN  /\ DOMAIN c.orders \subseteq DOMAIN b.orders \cup {p.oid}
               /\ \A o \in DOMAIN b.orders : o \in DOMAIN c.orders /\ c.orders[o] = b.orders[o]
               /\ p.oid \in DOMAIN c.orders =>
                     c.orders[p.oid].side = p.side /\ c.orders[p.oid].price = p.price
<1> DEFINE Rest == IF Takes(b, p) THEN p.size - Smaller(p.size, DepthFor(b, p.side))
                                  ELSE p.size
           new == Joining(b, p.side, p.price, Rest, t)
           c == AddOurOrder(b, p.oid, p.side, p.price, Rest, t)
<1>1. BookAfterArrival(b, p, t) = IF Rest = 0 THEN b ELSE c
  BY DEF BookAfterArrival
<1>2. new.side = p.side /\ new.price = p.price
  BY DEF Joining
<1> HIDE DEF Rest
<1>3. /\ IsRecord(c) /\ c.joined = b.joined + 1
      /\ c.bids = b.bids /\ c.asks = b.asks /\ c.tick = b.tick
      /\ DOMAIN c.orders = DOMAIN b.orders \cup {p.oid}
      /\ c.orders[p.oid] = new
      /\ \A o \in DOMAIN b.orders \ {p.oid} : c.orders[o] = b.orders[o]
      /\ c.orders = [o \in DOMAIN c.orders |-> c.orders[o]]
  BY AddedFields
<1> HIDE DEF new, c
<1> QED
  BY <1>1, <1>2, <1>3

LEMMA TurnOrders ==
    ASSUME EngineSound, MemoryAgrees, Turn
    PROVE  LET e == Earliest(heap)
           IN  /\ DOMAIN pending' \subseteq DOMAIN pending
               /\ \A o \in DOMAIN book'.orders :
                     /\ o \in DOMAIN book.orders \/ (o \in DOMAIN pending /\ Places(e, o))
                     /\ book'.orders[o].side = placed[o].side
                     /\ book'.orders[o].price = placed[o].price
               /\ \A o : Cancels(e, o) => o \notin Live'
<1> DEFINE e == Earliest(heap)
<1>1. e \in heap
  BY TurnEvents DEF EngineSound
<1>2. PlaceArrives(e) \/ CancelArrives(e) \/ MarketArrives(e)
  BY DEF Turn
<1>3. IsBook(book) /\ IsRecord(book)
  BY DEF EngineSound, BookSound, IsBook
<1>4. \A o \in DOMAIN book.orders :
         book.orders[o].side = placed[o].side /\ book.orders[o].price = placed[o].price
  BY DEF MemoryAgrees
<1> HIDE DEF e
<1>5. CASE PlaceArrives(e)
  <2>1. e.kind = "place_arrival" /\ e.order.side = placed[e.order.oid].side
        /\ e.order.price = placed[e.order.oid].price
    BY <1>1, <1>5 DEF PlaceArrives, MemoryAgrees
  <2>2. CASE e.order.oid \notin DOMAIN pending
    <3>1. UNCHANGED <<book, pending>>
      BY <1>5, <2>2 DEF PlaceArrives
    <3> QED
      BY <1>4, <2>1, <3>1 DEF Cancels, Live, e
  <2>3. CASE e.order.oid \in DOMAIN pending
    <3>1. /\ pending' = [o \in DOMAIN pending \ {e.order.oid} |-> pending[o]]
          /\ book' = BookAfterArrival(book, e.order, e.ts)
      BY <1>5, <2>3 DEF PlaceArrives
    <3>2. e.order.oid \notin DOMAIN book.orders
      BY <2>3 DEF EngineSound, OrdersKnown
    <3>3. /\ DOMAIN book'.orders \subseteq DOMAIN book.orders \cup {e.order.oid}
          /\ \A o \in DOMAIN book.orders :
                o \in DOMAIN book'.orders /\ book'.orders[o] = book.orders[o]
          /\ e.order.oid \in DOMAIN book'.orders =>
                book'.orders[e.order.oid].side = e.order.side
                  /\ book'.orders[e.order.oid].price = e.order.price
      BY <1>3, <3>1, <3>2, ArrivalKeepsQuote
    <3>4. DOMAIN pending' \subseteq DOMAIN pending
      BY <3>1
    <3>5. \A o \in DOMAIN book'.orders :
             /\ o \in DOMAIN book.orders \/ (o \in DOMAIN pending /\ Places(e, o))
             /\ book'.orders[o].side = placed[o].side
             /\ book'.orders[o].price = placed[o].price
      BY <1>4, <2>1, <2>3, <3>3 DEF Places
    <3> QED
      BY <2>1, <3>4, <3>5 DEF Cancels, e
  <2> QED
    BY <2>2, <2>3
<1>6. CASE CancelArrives(e)
  <2>1. /\ pending' = [o \in DOMAIN pending \ {e.oid} |-> pending[o]]
        /\ book' = RemoveOurOrder(book, e.oid)
    BY <1>6 DEF CancelArrives
  <2>2. DOMAIN book'.orders = DOMAIN book.orders \ {e.oid}
        /\ \A o \in DOMAIN book'.orders : book'.orders[o] = book.orders[o]
    BY <1>3, <2>1, RemovedFields
  <2>3. DOMAIN pending' = DOMAIN pending \ {e.oid}
    BY <2>1
  <2> QED
    BY <1>4, <2>2, <2>3 DEF Cancels, Live, e
<1>7. CASE MarketArrives(e)
  <2>1. e.kind # "cancel_arrival" /\ WellFormedMove(e)
    BY <1>1, <1>7
       DEF MarketArrives, IsMarket, EngineSound, EventsSound, PlaceEvent, CancelEvent
  <2>2. book' = BookAfterMarket(book, e) /\ pending' = pending
    BY <1>7 DEF MarketArrives
  <2>3. OrdersShrink(book, book')
    BY <1>3, <2>1, <2>2, MarketOnBook
  <2> QED
    BY <1>4, <2>1, <2>2, <2>3 DEF OrdersShrink, Cancels, e
<1> QED
  BY <1>2, <1>5, <1>6, <1>7

\* What a turn leaves on the heap: what was there but for the earliest event,
\* and at most one market event that is behind everything else.
LEMMA TurnHeap ==
    ASSUME HeapAhead, Turn
    PROVE  LET e == Earliest(heap)
           IN  /\ e \in heap /\ e.ts \in Nat /\ e.seq \in Nat
               /\ now' = e.ts /\ now \in Nat /\ now <= e.ts
               /\ \A x \in heap : x.ts \in Nat /\ x.seq \in Nat
               /\ \A x \in heap : x = e \/ (x \in heap' /\ Before(e, x))
               /\ \A x \in heap' :
                     \/ x \in heap /\ x # e
                     \/ /\ IsMarket(x) /\ ~Internal(x) /\ x.ts \in Nat /\ e.ts <= x.ts
                        /\ x.seq = seq /\ \A y \in heap : y.seq < x.seq
<1> DEFINE e == Earliest(heap)
<1>1. /\ e \in heap
      /\ now' = e.ts /\ e.ts \in Nat /\ now <= e.ts /\ e.seq \in 0 .. (seq - 1)
      /\ seq' \in Nat /\ seq <= seq'
      /\ \A x \in heap' :
            (e.ts < x.ts \/ (e.ts = x.ts /\ e.seq < x.seq)) /\ x.seq # e.seq
      /\ \A x \in heap' : (x \in heap /\ x # e) \/ (x.seq = seq /\ WellFormedMove(x))
      /\ \A x \in heap : x # e => x \in heap'
  BY TurnEvents
<1> HIDE DEF e
<1>2. /\ now \in Nat /\ seq \in Nat
      /\ \A x \in heap : x.ts \in Nat /\ x.seq \in 0 .. (seq - 1)
  BY DEF HeapAhead
<1>3. \A x \in heap : x.ts \in Nat /\ x.seq \in Nat /\ x.seq < seq
  BY <1>2
<1>4. \A x \in heap' : x.ts \in Nat
  BY TurnStep DEF HeapAhead
<1>5. \A x \in heap : x = e \/ (x \in heap' /\ Before(e, x))
  BY <1>1 DEF Before
<1>6. ASSUME NEW x \in heap', ~(x \in heap /\ x # e)
      PROVE  /\ IsMarket(x) /\ ~Internal(x) /\ x.ts \in Nat /\ e.ts <= x.ts
             /\ x.seq = seq /\ \A y \in heap : y.seq < x.seq
  <2>1. x.seq = seq /\ WellFormedMove(x)
    BY <1>1, <1>6
  <2>2. IsMarket(x) /\ ~Internal(x)
    BY <2>1 DEF WellFormedMove, IsMarket, Internal
  <2>3. e.ts <= x.ts
    BY <1>1, <1>4
  <2> QED
    BY <1>3, <1>4, <2>1, <2>2, <2>3
<1>7. e.seq \in Nat
  BY <1>1, <1>3
<1> QED
  BY <1>1, <1>2, <1>3, <1>5, <1>6, <1>7 DEF e

-----------------------------------------------------------------------------
\* One fixed latency keeps the order in which the strategy spoke.

LEMMA TurnKeepsOrder ==
    ASSUME HeapAhead, delays \in LatencyModels, SpokenInOrder, Turn, UNCHANGED delays
    PROVE  SpokenInOrder'
<1>1. /\ now' \in Nat /\ now \in Nat /\ now <= now'
      /\ \A x \in heap : x.ts \in Nat
      /\ \A x \in heap' : Internal(x) => x \in heap
  BY TurnHeap
<1>2. \A d \in delays : d \in Nat
  BY DelaysAreLatencies
<1>3. \A x \in heap', d \in delays : Internal(x) => x.ts <= now' + d
  BY <1>1, <1>2 DEF SpokenInOrder
<1> QED
  BY <1>1, <1>3 DEF SpokenInOrder

LEMMA PushKeepsOrder ==
    ASSUME HeapAhead, delays \in LatencyModels, ConstantLatency, SpokenInOrder,
           NEW delay \in delays, NEW e, e.ts = now + delay, e.seq = seq,
           heap' = heap \cup {e}, UNCHANGED <<now, delays>>
    PROVE  SpokenInOrder'
<1>1. now \in Nat /\ delay \in Nat
  BY DelaysAreLatencies DEF HeapAhead
<1>2. \A d \in delays : d = delay
  BY DEF ConstantLatency
<1>3. \A x \in heap : x.seq < seq
  BY DEF HeapAhead
<1>4. \A x \in heap : Internal(x) => x.ts <= e.ts
  BY DEF SpokenInOrder
<1>5. \A x, y \in heap' : Internal(x) /\ Internal(y) /\ x.seq < y.seq => x.ts <= y.ts
  <2> SUFFICES ASSUME NEW x \in heap', NEW y \in heap', Internal(x), Internal(y), x.seq < y.seq
               PROVE  x.ts <= y.ts
    OBVIOUS
  <2>1. CASE x \in heap /\ y \in heap
    BY <2>1 DEF SpokenInOrder
  <2>2. CASE x \in heap /\ y = e
    BY <1>4, <2>2
  <2>3. CASE x = e
    <3>1. seq \in Nat /\ \A z \in heap : z.seq \in Nat
      BY DEF HeapAhead
    <3>2. y.seq <= seq /\ y.seq \in Nat
      BY <1>3, <3>1
    <3> QED
      BY <2>3, <3>1, <3>2
  <2> QED
    BY <2>1, <2>2, <2>3
<1>6. ASSUME NEW x \in heap', Internal(x), NEW d \in delays
      PROVE  x.ts <= now + d
  <2>1. CASE x \in heap
    BY <1>6, <2>1 DEF SpokenInOrder
  <2>2. CASE x = e
    BY <1>1, <1>2, <2>2
  <2> QED
    BY <2>1, <2>2
<1> QED
  BY <1>5, <1>6 DEF SpokenInOrder

-----------------------------------------------------------------------------
\* What the calls of _reconcile_side change.

LEMMA PlaceFacts ==
    ASSUME EngineSound, MemoryAgrees,
           NEW side \in Sides, NEW delay \in delays, PlaceMissing(side, delay)
    PROVE  /\ pc = "strategy" /\ step = side /\ quote[side].oid = None /\ target[side] # None
           /\ UNCHANGED <<pc, now, book, pricing, delays, step, target, t0>>
           /\ Known' = Known \cup {nextOid} /\ nextOid \notin Known
           /\ Live \subseteq Known /\ Live' = Live \cup {nextOid}
           /\ DOMAIN pending' = DOMAIN pending \cup {nextOid}
           /\ placed'[nextOid].side = side /\ placed'[nextOid].price = target[side]
           /\ \A o \in Known : placed'[o] = placed[o]
           /\ DOMAIN quote' = Sides
           /\ quote'[side].oid = nextOid /\ quote'[side].price = target[side]
           /\ \A s \in Sides \ {side} : quote'[s] = quote[s]
           /\ \E e : /\ heap' = heap \cup {e} /\ Places(e, nextOid)
                     /\ e.order.side = side /\ e.order.price = target[side]
                     /\ e.ts = now + delay /\ e.seq = seq
<1> DEFINE k == [side |-> side, price |-> target[side], size |-> QuoteSize, postOnly |-> TRUE]
           q == [oid |-> nextOid, price |-> target[side]]
<1>1. /\ PlaceLimit(k, delay)
      /\ step = side /\ quote[side].oid = None /\ target[side] # None
      /\ quote' = [quote EXCEPT ![side] = q]
      /\ UNCHANGED <<pricing, delays, step, target, t0>>
  BY DEF PlaceMissing
<1>2. k.side = side /\ k.price = target[side] /\ q.oid = nextOid /\ q.price = target[side]
  OBVIOUS
<1> HIDE DEF k, q
<1>3. HeapAhead /\ delay \in Nat /\ DOMAIN quote = Sides /\ nextOid \in Nat \ {0}
      /\ DOMAIN placed = Known /\ DOMAIN pending \subseteq Known /\ DOMAIN book.orders \subseteq Known
  BY DelaysAreLatencies DEF EngineSound, MemoryAgrees, OrdersKnown
<1>4. /\ HeapAhead' /\ nextOid' = nextOid + 1 /\ UNCHANGED <<pc, now, book>>
      /\ DOMAIN pending' = DOMAIN pending \cup {nextOid}
      /\ DOMAIN placed' = DOMAIN placed \cup {nextOid}
      /\ placed'[nextOid].decided = now
      /\ placed'[nextOid].side = k.side /\ placed'[nextOid].price = k.price
      /\ \A o \in DOMAIN placed \ {nextOid} : placed'[o] = placed[o]
      /\ \E e : /\ heap' = heap \cup {e} /\ e.kind = "place_arrival" /\ e.order.oid = nextOid
                /\ e.order.side = k.side /\ e.order.price = k.price
                /\ e.ts = now + delay /\ e.seq = seq
  BY <1>1, <1>3, PlacedIsPushed
<1>5. Known' = Known \cup {nextOid} /\ nextOid \notin Known
  BY <1>3, <1>4 DEF Known
<1>6. Live \subseteq Known /\ Live' = Live \cup {nextOid}
  BY <1>3, <1>4 DEF Live
<1>7. /\ DOMAIN quote' = Sides /\ quote'[side] = q
      /\ \A s \in Sides \ {side} : quote'[s] = quote[s]
  BY <1>1, <1>3
<1>8. \A o \in Known : placed'[o] = placed[o]
  BY <1>3, <1>4, <1>5
<1>9. \E e : /\ heap' = heap \cup {e} /\ Places(e, nextOid)
             /\ e.order.side = side /\ e.order.price = target[side]
             /\ e.ts = now + delay /\ e.seq = seq
  BY <1>2, <1>4 DEF Places
<1>10. pc = "strategy"
  BY <1>1 DEF PlaceLimit
<1>11. placed'[nextOid].side = side /\ placed'[nextOid].price = target[side]
  BY <1>2, <1>4
<1> QED
  BY <1>1, <1>2, <1>4, <1>5, <1>6, <1>7, <1>8, <1>9, <1>10, <1>11

LEMMA CancelFacts ==
    ASSUME EngineSound, MemoryAgrees,
           NEW side \in Sides, NEW delay \in delays, CancelStale(side, delay)
    PROVE  /\ pc = "strategy" /\ step = side /\ quote[side].oid # None /\ ~Matches(side)
           /\ UNCHANGED <<pc, now, book, pricing, delays, step, target, t0>>
           /\ UNCHANGED <<pending, placed, nextOid>>
           /\ DOMAIN quote' = Sides /\ quote'[side].oid = None
           /\ \A s \in Sides \ {side} : quote'[s] = quote[s]
           /\ \E e : /\ heap' = heap \cup {e} /\ Cancels(e, quote[side].oid)
                     /\ e.ts = now + delay /\ e.seq = seq
<1>1. /\ Cancel(quote[side].oid, delay)
      /\ step = side /\ quote[side].oid # None /\ ~Matches(side)
      /\ quote' = [quote EXCEPT ![side] = NoQuote]
      /\ UNCHANGED <<pricing, delays, step, target, t0>>
  BY DEF CancelStale
<1>2. HeapAhead /\ delay \in Nat /\ DOMAIN quote = Sides
  BY DelaysAreLatencies DEF EngineSound, MemoryAgrees
<1>3. /\ HeapAhead' /\ UNCHANGED <<pc, now, nextOid, book, pending, placed>>
      /\ \E e : /\ heap' = heap \cup {e} /\ e.kind = "cancel_arrival" /\ e.oid = quote[side].oid
                /\ e.ts = now + delay /\ e.seq = seq
  BY <1>1, <1>2, CancelIsPushed
<1>4. /\ DOMAIN quote' = Sides /\ quote'[side].oid = None
      /\ \A s \in Sides \ {side} : quote'[s] = quote[s]
  BY <1>1, <1>2 DEF NoQuote
<1>5. \E e : /\ heap' = heap \cup {e} /\ Cancels(e, quote[side].oid)
             /\ e.ts = now + delay /\ e.seq = seq
  BY <1>3 DEF Cancels
<1>6. pc = "strategy"
  BY <1>1 DEF Cancel
<1> QED
  BY <1>1, <1>3, <1>4, <1>5, <1>6

\* The steps that leave the orders, the heap and the two quotes alone.
Quiet == UNCHANGED <<now, heap, seq, pending, book, placed, nextOid, delays, quote, fills, cancels>>

LEMMA QuietSteps ==
    /\ \A toxic, alpha : Decide(toxic, alpha) => Quiet
    /\ \A side : Reconciled(side) => Quiet
    /\ OnEventReturns => Quiet
    /\ Finished /\ UNCHANGED quoting => Quiet
    /\ UNCHANGED <<vars, quoting>> => Quiet
BY DEF Decide, Reconciled, OnEventReturns, StrategyReturns, Finished, vars, quoting, Quiet

-----------------------------------------------------------------------------
\* The engine's invariant, and what is remembered, through the strategy.

LEMMA QuotingKeepsSound ==
    ASSUME EngineSound, MemoryAgrees, OnGrid, [QNext]_<<vars, quoting>>
    PROVE  EngineSound'
<1>1. CASE EngineTurn
  BY <1>1, TurnKeepsSound DEF EngineTurn
<1>2. ASSUME NEW side \in Sides, NEW delay \in delays, PlaceMissing(side, delay)
      PROVE  EngineSound'
  <2> DEFINE k == [side |-> side, price |-> target[side], size |-> QuoteSize, postOnly |-> TRUE]
  <2>1. PlaceLimit(k, delay) /\ target[side] \in Prices
    BY <1>2 DEF PlaceMissing, OnGrid
  <2>2. k \in Placeable
    BY <2>1, QuotingAssumption DEF Placeable
  <2>3. delay \in Latencies
    BY DelaysAreLatencies DEF MemoryAgrees
  <2> HIDE DEF k
  <2> QED
    BY <2>1, <2>2, <2>3, PlacingKeepsSound
<1>3. ASSUME NEW side \in Sides, NEW delay \in delays, CancelStale(side, delay)
      PROVE  EngineSound'
  <2>1. Cancel(quote[side].oid, delay) /\ quote[side].oid \in 1 .. (nextOid - 1)
    BY <1>3 DEF CancelStale, MemoryAgrees, Known
  <2>2. delay \in Latencies
    BY DelaysAreLatencies DEF MemoryAgrees
  <2> QED
    BY <2>1, <2>2, CancellingKeepsSound
<1>4. CASE OnEventReturns
  BY <1>4, QuietKeepsSound DEF OnEventReturns
<1>5. CASE UNCHANGED vars
  BY <1>5, QuietKeepsSound
<1>6. /\ \A toxic, alpha : Decide(toxic, alpha) => UNCHANGED vars
      /\ \A side : Reconciled(side) => UNCHANGED vars
  BY DEF Decide, Reconciled
<1> QED
  BY <1>1, <1>2, <1>3, <1>4, <1>5, <1>6 DEF QNext, Finished

LEMMA MemoryStays ==
    ASSUME EngineSound, MemoryAgrees, OnGrid, [QNext]_<<vars, quoting>>
    PROVE  MemoryAgrees'
<1>1. CASE EngineTurn
  <2>1. Turn /\ UNCHANGED <<delays, quote, nextOid, placed>>
    BY <1>1 DEF EngineTurn, Turn
  <2>2. \A o \in DOMAIN book'.orders :
           book'.orders[o].side = placed[o].side /\ book'.orders[o].price = placed[o].price
    BY <2>1, TurnOrders
  <2>3. \A x \in heap' : Internal(x) => x \in heap
    BY <2>1, TurnHeap DEF EngineSound
  <2>4. \A x \in heap' : x.kind = "place_arrival" =>
           x.order.side = placed[x.order.oid].side /\ x.order.price = placed[x.order.oid].price
    BY <2>3 DEF Internal, MemoryAgrees
  <2> QED
    BY <2>1, <2>2, <2>4 DEF MemoryAgrees, Known
<1>2. ASSUME NEW side \in Sides, NEW delay \in delays, PlaceMissing(side, delay)
      PROVE  MemoryAgrees'
  <2>1. /\ Known' = Known \cup {nextOid} /\ nextOid \notin Known
        /\ placed'[nextOid].side = side /\ placed'[nextOid].price = target[side]
        /\ \A o \in Known : placed'[o] = placed[o]
        /\ DOMAIN quote' = Sides
        /\ quote'[side].oid = nextOid /\ quote'[side].price = target[side]
        /\ \A s \in Sides \ {side} : quote'[s] = quote[s]
        /\ UNCHANGED <<book, delays>> /\ target[side] # None
    BY <1>2, PlaceFacts
  <2>2. PICK e : /\ heap' = heap \cup {e} /\ Places(e, nextOid)
                 /\ e.order.side = side /\ e.order.price = target[side]
    BY <1>2, PlaceFacts
  <2>3. target[side] \in Prices
    BY <2>1 DEF OnGrid
  <2>4. \A o \in Known' : placed'[o].side \in Sides /\ placed'[o].price \in Prices
    BY <2>1, <2>3 DEF MemoryAgrees
  <2>5. \A x \in heap' : x.kind = "place_arrival" =>
           /\ x.order.side = placed'[x.order.oid].side
           /\ x.order.price = placed'[x.order.oid].price
    <3>1. \A x \in heap : x.kind = "place_arrival" => x.order.oid \in Known
      BY DEF EngineSound, EventsSound, PlaceEvent, CancelEvent, WellFormedMove, IsMarket
    <3> QED
      BY <2>1, <2>2, <3>1 DEF Places, MemoryAgrees
  <2>6. \A o \in DOMAIN book.orders : o \in Known
    BY DEF EngineSound, OrdersKnown
  <2>7. \A s \in Sides : quote'[s].oid # None =>
           /\ quote'[s].oid \in Known'
           /\ placed'[quote'[s].oid].side = s
           /\ placed'[quote'[s].oid].price = quote'[s].price
    BY <2>1 DEF MemoryAgrees
  <2> QED
    BY <2>1, <2>4, <2>5, <2>6, <2>7 DEF MemoryAgrees
<1>3. ASSUME NEW side \in Sides, NEW delay \in delays, CancelStale(side, delay)
      PROVE  MemoryAgrees'
  <2>1. /\ DOMAIN quote' = Sides /\ quote'[side].oid = None
        /\ \A s \in Sides \ {side} : quote'[s] = quote[s]
        /\ UNCHANGED <<book, delays, placed, nextOid>>
    BY <1>3, CancelFacts
  <2>2. PICK e : heap' = heap \cup {e} /\ Cancels(e, quote[side].oid)
    BY <1>3, CancelFacts
  <2> QED
    BY <2>1, <2>2 DEF Cancels, MemoryAgrees, Known
<1>4. CASE Quiet
  BY <1>4 DEF Quiet, MemoryAgrees, Known
<1> QED
  BY <1>1, <1>2, <1>3, <1>4, QuietSteps DEF QNext

LEMMA OrderStays ==
    ASSUME EngineSound, MemoryAgrees, ConstantLatency, SpokenInOrder, [QNext]_<<vars, quoting>>
    PROVE  SpokenInOrder'
<1>0. HeapAhead /\ delays \in LatencyModels
  BY DEF EngineSound, MemoryAgrees
<1>1. CASE EngineTurn
  BY <1>0, <1>1, TurnKeepsOrder DEF EngineTurn
<1>2. ASSUME NEW side \in Sides, NEW delay \in delays,
             PlaceMissing(side, delay) \/ CancelStale(side, delay)
      PROVE  SpokenInOrder'
  <2>1. UNCHANGED <<now, delays>>
    BY <1>2, PlaceFacts, CancelFacts
  <2>2. PICK e : heap' = heap \cup {e} /\ e.ts = now + delay /\ e.seq = seq
    BY <1>2, PlaceFacts, CancelFacts
  <2> QED
    BY <1>0, <2>1, <2>2, PushKeepsOrder
<1>3. CASE Quiet
  BY <1>3 DEF Quiet, SpokenInOrder
<1> QED
  BY <1>1, <1>2, <1>3, QuietSteps DEF QNext

-----------------------------------------------------------------------------
\* An order whose cancellation is ahead of its successor.

\* What is alive after a turn was alive before, and no cancellation of it was
\* the event that the turn handled.
LEMMA AliveBefore ==
    ASSUME EngineSound, MemoryAgrees, Turn, NEW o \in Live'
    PROVE  o \in Live /\ ~Cancels(Earliest(heap), o)
BY TurnOrders DEF Live

\* A turn handles the cancellation first: with one fixed latency the place is
\* not the earliest event while the cancellation is on the heap.
LEMMA TurnKeepsGone ==
    ASSUME EngineSound, MemoryAgrees, SpokenInOrder, Turn,
           NEW x \in Live', NEW y \in Live', GoneBefore(x, y)
    PROVE  GoneBefore(x, y)'
<1> DEFINE e == Earliest(heap)
<1>1. PICK c \in heap : /\ Cancels(c, x)
                        /\ \A f \in heap : Places(f, y) => c.seq < f.seq
  BY DEF GoneBefore
<1>2. /\ e \in heap /\ e.ts \in Nat /\ e.seq \in Nat
      /\ \A z \in heap : z.ts \in Nat /\ z.seq \in Nat
      /\ \A z \in heap : z = e \/ (z \in heap' /\ Before(e, z))
      /\ \A z \in heap' : Internal(z) => z \in heap
  BY TurnHeap DEF EngineSound
<1>3. c # e
  BY <1>1, AliveBefore
<1>4. y \in DOMAIN pending /\ y \notin DOMAIN book.orders
  BY DEF GoneBefore, EngineSound, OrdersKnown
<1>5. ~Places(e, y)
  <2> SUFFICES ASSUME Places(e, y) PROVE FALSE
    OBVIOUS
  <2>1. c.seq < e.seq /\ Internal(c) /\ Internal(e)
    BY <1>1, <1>2 DEF Places, Cancels, Internal
  <2>2. c.ts <= e.ts
    BY <1>2, <2>1 DEF SpokenInOrder
  <2>3. e.ts < c.ts \/ (e.ts = c.ts /\ e.seq < c.seq)
    BY <1>1, <1>2, <1>3 DEF Before
  <2> QED
    BY <1>1, <1>2, <2>1, <2>2, <2>3
<1>6. y \in DOMAIN pending'
  BY <1>4, <1>5, TurnOrders DEF Live
<1>7. \A f \in heap' : Places(f, y) => c.seq < f.seq
  BY <1>1, <1>2 DEF Places, Internal
<1> QED
  BY <1>1, <1>2, <1>3, <1>6, <1>7 DEF GoneBefore

\* Another order that is placed, or a cancellation, does not come in between.
LEMMA PushKeepsGone ==
    ASSUME NEW x, NEW y, GoneBefore(x, y), NEW e, heap' = heap \cup {e}, ~Places(e, y),
           DOMAIN pending \subseteq DOMAIN pending'
    PROVE  GoneBefore(x, y)'
BY DEF GoneBefore

\* An order of which the strategy has kept no memory is gone before the order
\* that is placed now.
LEMMA ForgottenIsGone ==
    ASSUME EngineSound, Remembered, MemoryAgrees,
           NEW side \in Sides, NEW delay \in delays, PlaceMissing(side, delay),
           NEW o \in Live, \A s \in Sides : quote[s].oid # o, NEW p, p = nextOid
    PROVE  GoneBefore(o, p)'
<1>1. PICK c \in heap : Cancels(c, o)
  BY DEF Remembered, NoOrphans, Live, Cancels
<1>2. PICK e : heap' = heap \cup {e} /\ e.seq = seq
  BY PlaceFacts
<1>3. p \notin Known /\ p \in DOMAIN pending'
  BY PlaceFacts
<1>4. \A f \in heap : ~Places(f, p)
  BY <1>3 DEF EngineSound, EventsSound, PlaceEvent, CancelEvent, WellFormedMove, IsMarket, Places
<1>5. c.seq < seq
  BY DEF EngineSound, HeapAhead
<1> QED
  BY <1>1, <1>2, <1>3, <1>4, <1>5 DEF GoneBefore

LEMMA ReplacedStays ==
    ASSUME EngineSound, Remembered, MemoryAgrees, SpokenInOrder, Replaced,
           [QNext]_<<vars, quoting>>
    PROVE  Replaced'
<1>1. CASE EngineTurn
  <2>1. Turn /\ UNCHANGED placed
    BY <1>1 DEF EngineTurn, Turn
  <2> SUFFICES ASSUME NEW o \in Live', NEW p \in Live', o < p, placed[o].side = placed[p].side
               PROVE  GoneBefore(o, p)'
    BY <2>1 DEF Replaced
  <2>2. o \in Live /\ p \in Live
    BY <2>1, AliveBefore
  <2> QED
    BY <2>1, <2>2, TurnKeepsGone DEF Replaced
<1>2. ASSUME NEW side \in Sides, NEW delay \in delays, PlaceMissing(side, delay)
      PROVE  Replaced'
  <2>1. /\ Live \subseteq Known /\ Live' = Live \cup {nextOid} /\ nextOid \notin Known
        /\ placed'[nextOid].side = side
        /\ \A o \in Known : placed'[o] = placed[o]
        /\ DOMAIN pending' = DOMAIN pending \cup {nextOid}
        /\ quote[side].oid = None
    BY <1>2, PlaceFacts
  <2>2. PICK e : heap' = heap \cup {e} /\ Places(e, nextOid)
    BY <1>2, PlaceFacts
  <2> SUFFICES ASSUME NEW o \in Live', NEW p \in Live', o < p, placed'[o].side = placed'[p].side
               PROVE  GoneBefore(o, p)'
    BY DEF Replaced
  <2>3. nextOid \in Nat /\ \A x \in Known : x \in Nat /\ x < nextOid
    BY DEF EngineSound, OrdersKnown, Known
  <2>4. CASE p \in Live
    <3>1. o \in Live
      BY <2>1, <2>3, <2>4
    <3>2. GoneBefore(o, p)
      BY <2>1, <2>4, <3>1 DEF Replaced
    <3>3. ~Places(e, p)
      BY <2>1, <2>2, <2>4 DEF Places
    <3> QED
      BY <2>1, <2>2, <3>2, <3>3, PushKeepsGone
  <2>5. CASE p = nextOid
    <3>1. o \in Live /\ o \in Known
      BY <2>1, <2>3, <2>5
    <3>2. placed[o].side = side
      BY <2>1, <2>5, <3>1
    <3>3. o # None
      BY <2>3, <3>1 DEF None
    <3>4. \A s \in Sides : quote[s].oid # o
      BY <2>1, <3>2, <3>3 DEF MemoryAgrees
    <3> QED
      BY <1>2, <2>5, <3>1, <3>4, ForgottenIsGone
  <2> QED
    BY <2>1, <2>4, <2>5
<1>3. ASSUME NEW side \in Sides, NEW delay \in delays, CancelStale(side, delay)
      PROVE  Replaced'
  <2>1. UNCHANGED <<pending, placed, book>>
    BY <1>3, CancelFacts
  <2>2. PICK e : heap' = heap \cup {e} /\ Cancels(e, quote[side].oid)
    BY <1>3, CancelFacts
  <2>3. \A y : ~Places(e, y)
    BY <2>2 DEF Places, Cancels
  <2>4. \A x, y : GoneBefore(x, y) => GoneBefore(x, y)'
    BY <2>1, <2>2, <2>3 DEF GoneBefore
  <2> QED
    BY <2>1, <2>4 DEF Replaced, Live
<1>4. CASE Quiet
  BY <1>4 DEF Quiet, Replaced, GoneBefore, Live
<1> QED
  BY <1>1, <1>2, <1>3, <1>4, QuietSteps DEF QNext

-----------------------------------------------------------------------------
\* The two target prices are at least one tick apart.

\* Multiples of the tick that differ do so by a tick.
LEMMA MultiplesApart ==
    ASSUME NEW a \in Int, NEW b \in Int, NEW t \in Nat \ {0}, a * t < 0 - b * t
    PROVE  a * t + t <= 0 - b * t
<1>1. (a + b) * t < 0
  OBVIOUS
<1>2. a + b < 0
  <2> SUFFICES ASSUME a + b \in Nat PROVE FALSE
    OBVIOUS
  <2>1. (a + b) * t \in Nat
    OBVIOUS
  <2> QED
    BY <1>1, <2>1
<1>3. 0 - (a + b + 1) \in Nat
  BY <1>2
<1>4. (0 - (a + b + 1)) * t \in Nat
  BY <1>3
<1>5. (0 - (a + b + 1)) * t = 0 - (a * t + b * t + t)
  OBVIOUS
<1>6. a * t \in Int /\ b * t \in Int
  OBVIOUS
<1> QED
  BY <1>4, <1>5, <1>6

LEMMA SnappedApart ==
    ASSUME NEW x \in Int, NEW y \in Int, NEW t \in Nat \ {0}, SnapDown(x, t) < SnapUp(y, t)
    PROVE  SnapDown(x, t) + t <= SnapUp(y, t)
<1> DEFINE a == x \div (2 * t)
           b == (0 - y) \div (2 * t)
<1>1. a \in Int /\ b \in Int
  OBVIOUS
<1>2. SnapDown(x, t) = a * t /\ SnapUp(y, t) = 0 - b * t
  BY DEF SnapDown, SnapUp
<1> HIDE DEF a, b
<1> QED
  BY <1>1, <1>2, MultiplesApart

\* What the subclasses make of the two prices, each of which may be withheld.
Spaced(q, t) == q["bid"] # None /\ q["ask"] # None => q["bid"] + t <= q["ask"]

LEMMA UncrossedIsSpaced ==
    ASSUME NEW x \in Int, NEW y \in Int, NEW t \in Nat \ {0},
           NEW bid \in {SnapDown(x, t), None}, NEW ask \in {SnapUp(y, t), None}
    PROVE  Spaced(Uncrossed(bid, ask), t)
<1> DEFINE q == Uncrossed(bid, ask)
<1>1. SnapDown(x, t) \in Int /\ SnapUp(y, t) \in Int
  <2>1. x \div (2 * t) \in Int /\ (0 - y) \div (2 * t) \in Int
    OBVIOUS
  <2> QED
    BY <2>1 DEF SnapDown, SnapUp
<1>2. q["bid"] # None /\ q["ask"] # None =>
         q["bid"] = bid /\ q["ask"] = ask /\ bid # None /\ ask # None /\ bid < ask
  BY <1>1 DEF Uncrossed, NoQuotes, None
<1> HIDE DEF q
<1>3. q["bid"] # None /\ q["ask"] # None => q["bid"] + t <= q["ask"]
  BY <1>2, SnappedApart
<1> QED
  BY <1>3 DEF Spaced, q

LEMMA EachIsSpaced ==
    ASSUME NEW x \in Int, NEW y \in Int, NEW t \in Nat \ {0}
    PROVE  /\ Spaced(EachInUnit(SnapDown(x, t), SnapUp(y, t)), t)
           /\ Spaced(BothInUnit(SnapDown(x, t), SnapUp(y, t)), t)
<1>1. Spaced(EachInUnit(SnapDown(x, t), SnapUp(y, t)), t)
  BY UncrossedIsSpaced DEF EachInUnit
<1> DEFINE q == BothInUnit(SnapDown(x, t), SnapUp(y, t))
<1>2. SnapDown(x, t) \in Int /\ SnapUp(y, t) \in Int
  <2>1. x \div (2 * t) \in Int /\ (0 - y) \div (2 * t) \in Int
    OBVIOUS
  <2> QED
    BY <2>1 DEF SnapDown, SnapUp
<1>3. q["bid"] # None /\ q["ask"] # None =>
         /\ q["bid"] = SnapDown(x, t) /\ q["ask"] = SnapUp(y, t)
         /\ SnapDown(x, t) < SnapUp(y, t)
  BY <1>2 DEF BothInUnit, NoQuotes, None
<1> HIDE DEF q
<1>4. q["bid"] # None /\ q["ask"] # None => q["bid"] + t <= q["ask"]
  BY <1>3, SnappedApart
<1> QED
  BY <1>1, <1>4 DEF Spaced, q

\* The numbers that the pricing rules read.
LEMMA PricingNumbers ==
    ASSUME EngineSound
    PROVE  /\ book.tick \in Nat \ {0} /\ now \in Nat
           /\ Mid2(book) \in Int /\ acct.inventory \in Int
<1>1. book.tick \in Nat \ {0} /\ now \in Nat
  BY DEF EngineSound, HeapAhead, BookSound, IsBook
<1>2. Mid2(book) \in Int
  <2>1. /\ BestBid(book) \in Prices \cup {None} /\ BestAsk(book) \in Prices \cup {None}
    BY TopIsOccupied DEF EngineSound, BookSound
  <2>2. \A p \in Prices \cup {None} : p \in Int
    BY PricesAssumption DEF None
  <2> QED
    BY <2>1, <2>2 DEF Mid2
<1>3. acct.inventory \in Int
  <2>1. NoAccount \in Accounts
    BY DEF NoAccount, Accounts
  <2>2. IsFiniteSet(fills) /\ \A f \in fills : IsFill(f)
    BY DEF EngineSound, FillsSound, FillSound
  <2>3. NoAccount.inventory \in Int /\ InventorySum(fills) \in Int
    BY <2>2, SumsAreNumbers DEF NoAccount
  <2> QED
    BY <2>3 DEF EngineSound, AccountSound, Booked
<1> QED
  BY <1>1, <1>2, <1>3

LEMMA DecidedApart ==
    ASSUME EngineSound, ClockStarted, NEW toxic, NEW alpha \in Alphas, Decide(toxic, alpha)
    PROVE  ClockStarted' /\ Spaced(target', book.tick)
<1> DEFINE t == book.tick
<1>1. t \in Nat \ {0} /\ now \in Nat /\ Mid2(book) \in Int /\ acct.inventory \in Int
  BY PricingNumbers
<1>2. /\ BaseSpread \in Int /\ RiskRate \in Int /\ Horizon \in Int /\ alpha \in Int
  BY QuotingAssumption
<1> HIDE DEF t
<1>3. CASE target' = NoQuotes /\ UNCHANGED t0
  <2>1. Spaced(NoQuotes, t)
    BY DEF Spaced, NoQuotes
  <2> QED
    BY <1>3, <2>1 DEF ClockStarted, t
<1>4. CASE target' = ConstantSpreadQuotes /\ UNCHANGED t0
  <2>1. Mid2(book) - BaseSpread \in Int /\ Mid2(book) + BaseSpread \in Int
    BY <1>1, <1>2
  <2>2. Spaced(EachInUnit(SnapDown(Mid2(book) - BaseSpread, t),
                          SnapUp(Mid2(book) + BaseSpread, t)), t)
    BY <1>1, <2>1, EachIsSpaced
  <2> QED
    BY <1>4, <2>2 DEF ClockStarted, ConstantSpreadQuotes, BidAround, AskAround, t
<1>5. CASE target' = GLTQuotes /\ UNCHANGED t0
  <2> DEFINE bid == Mid2(book) - (BaseSpread + (2 * acct.inventory + 1) * RiskRate)
             ask == Mid2(book) + (BaseSpread + (1 - 2 * acct.inventory) * RiskRate)
  <2>1. (2 * acct.inventory + 1) * RiskRate \in Int /\ (1 - 2 * acct.inventory) * RiskRate \in Int
    BY <1>1, <1>2
  <2>2. bid \in Int /\ ask \in Int
    BY <1>1, <1>2, <2>1
  <2> HIDE DEF bid, ask
  <2>3. \A b \in {SnapDown(bid, t), None}, a \in {SnapUp(ask, t), None} :
           Spaced(Uncrossed(b, a), t)
    BY <1>1, <2>2, UncrossedIsSpaced
  <2>4. \E b \in {SnapDown(bid, t), None}, a \in {SnapUp(ask, t), None} :
           GLTQuotes = Uncrossed(b, a)
    BY DEF GLTQuotes, bid, ask, t
  <2> QED
    BY <1>5, <2>3, <2>4 DEF ClockStarted, t
<1>6. CASE StartsClock /\ (target' = AvellanedaStoikovQuotes \/ target' = SignalsQuotes(alpha))
  <2>1. t0' \in Nat
    BY <1>1, <1>6 DEF StartsClock, ClockStarted
  <2> DEFINE risk == Risk(t0')
  <2>2. risk \in Int
    <3>1. Horizon - (now - t0') \in Int
      BY <1>1, <1>2, <2>1
    <3>2. Floor0(Horizon - (now - t0')) \in Int
      BY <3>1 DEF Floor0, Larger
    <3> QED
      BY <1>2, <3>2 DEF Risk
  <2> HIDE DEF risk
  <2>3. acct.inventory * risk \in Int
    BY <1>1, <2>2
  <2> DEFINE half == BaseSpread + risk
             fair == Mid2(book) + alpha - acct.inventory * risk
  <2>4. /\ Mid2(book) - acct.inventory * risk - half \in Int
        /\ Mid2(book) - acct.inventory * risk + half \in Int
        /\ fair - half \in Int
        /\ fair + half \in Int
    BY <1>1, <1>2, <2>2, <2>3
  <2>5. /\ Spaced(BothInUnit(SnapDown(Mid2(book) - acct.inventory * risk - half, t),
                             SnapUp(Mid2(book) - acct.inventory * risk + half, t)), t)
        /\ Spaced(EachInUnit(SnapDown(fair - half, t),
                             SnapUp(fair + half, t)), t)
    BY <1>1, <2>4, EachIsSpaced
  <2>6. AvellanedaStoikovQuotes =
           BothInUnit(SnapDown(Mid2(book) - acct.inventory * risk - half, t),
                      SnapUp(Mid2(book) - acct.inventory * risk + half, t))
    BY DEF AvellanedaStoikovQuotes, BidAround, AskAround, t, risk
  <2>7. SignalsQuotes(alpha) =
           EachInUnit(SnapDown(fair - half, t),
                      SnapUp(fair + half, t))
    BY DEF SignalsQuotes, BidAround, AskAround, t, risk
  <2> QED
    BY <1>6, <2>1, <2>5, <2>6, <2>7 DEF ClockStarted, t
<1> QED
  BY <1>3, <1>4, <1>5, <1>6 DEF Decide

\* on_event decides both prices before it touches a quote, and settles the bid
\* before it turns to the ask.
LEMMA StepsStaySettled ==
    ASSUME EngineSound, MemoryAgrees, StepSettled, [QNext]_<<vars, quoting>>
    PROVE  StepSettled'
<1>1. CASE EngineTurn
  <2>1. step' \in {"decide", "ignored"} /\ pc' = "strategy" /\ UNCHANGED t0
    BY <1>1 DEF EngineTurn, Turn
  <2> QED
    BY <2>1 DEF StepSettled, InsideOnEvent, SettledBid, TargetsApart, ClockStarted
<1>2. ASSUME NEW toxic \in BOOLEAN, NEW alpha \in Alphas, Decide(toxic, alpha)
      PROVE  StepSettled'
  <2>1. step' = "bid" /\ pc = "strategy" /\ UNCHANGED <<pc, book>>
    BY <1>2 DEF Decide, vars
  <2>2. ClockStarted' /\ Spaced(target', book.tick)
    BY <1>2, DecidedApart DEF StepSettled
  <2> QED
    BY <2>1, <2>2 DEF StepSettled, InsideOnEvent, SettledBid, TargetsApart, Spaced
<1>3. ASSUME NEW side \in Sides, NEW delay \in delays,
             PlaceMissing(side, delay) \/ CancelStale(side, delay)
      PROVE  StepSettled'
  <2>1. /\ step = side /\ UNCHANGED <<pc, book, step, target, t0>>
        /\ \A s \in Sides \ {side} : quote'[s] = quote[s]
    BY <1>3, PlaceFacts, CancelFacts
  <2>2. SettledBid'
    BY <2>1 DEF StepSettled, SettledBid, Matches, Near, Sides
  <2> QED
    BY <2>1, <2>2 DEF StepSettled, InsideOnEvent, TargetsApart, ClockStarted
<1>4. ASSUME NEW side \in Sides, Reconciled(side)
      PROVE  StepSettled'
  <2>1. /\ step = side /\ UNCHANGED <<pc, book, target, quote, t0>> /\ pc = "strategy"
        /\ step' = IF side = "bid" THEN "ask" ELSE "done"
        /\ quote[side].oid = None \/ Matches(side)
    BY <1>4 DEF Reconciled, vars
  <2>2. SettledBid'
    BY <2>1 DEF SettledBid, Matches, Near, Sides
  <2> QED
    BY <2>1, <2>2 DEF StepSettled, InsideOnEvent, TargetsApart, ClockStarted, Sides
<1>5. CASE OnEventReturns
  <2>1. step \in {"done", "ignored"} /\ UNCHANGED <<step, t0>>
    BY <1>5 DEF OnEventReturns, quoting
  <2> QED
    BY <2>1 DEF StepSettled, InsideOnEvent, SettledBid, TargetsApart, ClockStarted
<1>6. CASE UNCHANGED <<vars, quoting>>
  BY <1>6 DEF vars, quoting, StepSettled, InsideOnEvent, SettledBid, TargetsApart,
              ClockStarted, Matches, Near
<1> QED
  BY <1>1, <1>2, <1>3, <1>4, <1>5, <1>6 DEF QNext, Finished

-----------------------------------------------------------------------------
\* A bid and an ask that cross.

\* A turn handles the cancellation of x before any market event that comes
\* after the arrival of y.
LEMMA TurnKeepsApart ==
    ASSUME EngineSound, MemoryAgrees, SpokenInOrder, Turn,
           NEW x \in Live', NEW y \in Live', GoneWith(x, y)
    PROVE  GoneWith(x, y)'
<1> DEFINE e == Earliest(heap)
<1>1. PICK c \in heap :
         /\ Cancels(c, x)
         /\ y \in DOMAIN pending =>
               \A f \in heap : Places(f, y) =>
                  /\ f.ts = c.ts /\ f.seq < c.seq
                  /\ \A m \in heap : IsMarket(m) => m.seq < f.seq \/ c.seq < m.seq
         /\ y \notin DOMAIN pending =>
               c.ts = now /\ \A m \in heap : IsMarket(m) => ~Before(m, c)
  BY DEF GoneWith
<1>2. /\ e \in heap /\ e.ts \in Nat /\ e.seq \in Nat
      /\ now' = e.ts /\ now \in Nat /\ now <= e.ts
      /\ \A z \in heap : z.ts \in Nat /\ z.seq \in Nat
      /\ \A z \in heap : z = e \/ (z \in heap' /\ Before(e, z))
      /\ \A z \in heap' :
            \/ z \in heap /\ z # e
            \/ /\ IsMarket(z) /\ ~Internal(z) /\ z.ts \in Nat /\ e.ts <= z.ts
               /\ z.seq = seq /\ \A w \in heap : w.seq < z.seq
  BY TurnHeap DEF EngineSound
<1>3. c # e
  BY <1>1, AliveBefore
<1>4. c \in heap' /\ Before(e, c) /\ c.ts \in Nat /\ c.seq \in Nat
  BY <1>1, <1>2, <1>3
<1>5. \A z \in heap' : Places(z, y) => z \in heap /\ z # e
  BY <1>2 DEF Places, Internal
<1>6. DOMAIN pending' \subseteq DOMAIN pending
      /\ \A o \in DOMAIN book'.orders :
            o \in DOMAIN book.orders \/ (o \in DOMAIN pending /\ Places(e, o))
  BY TurnOrders
<1> HIDE DEF e
<1>7. CASE y \in DOMAIN pending'
  <2>1. y \in DOMAIN pending
    BY <1>6, <1>7
  <2>2. ASSUME NEW f \in heap', Places(f, y), NEW m \in heap', IsMarket(m)
        PROVE  m.seq < f.seq \/ c.seq < m.seq
    <3>1. f \in heap
      BY <1>5, <2>2
    <3>2. CASE m \in heap
      BY <1>1, <2>1, <2>2, <3>1, <3>2
    <3>3. CASE \A w \in heap : w.seq < m.seq
      BY <1>1, <3>3
    <3> QED
      BY <1>2, <2>2, <3>2, <3>3
  <2>3. \A f \in heap' : Places(f, y) => f.ts = c.ts /\ f.seq < c.seq
    BY <1>1, <1>5, <2>1
  <2> QED
    BY <1>1, <1>4, <1>7, <2>2, <2>3 DEF GoneWith
<1>8. CASE y \notin DOMAIN pending'
  <2>1. y \in DOMAIN book'.orders
    BY <1>8 DEF Live
  <2>2. CASE y \in DOMAIN pending /\ Places(e, y)
    <3>1. e.ts = c.ts /\ \A m \in heap : IsMarket(m) => m.seq < e.seq \/ c.seq < m.seq
      BY <1>1, <1>2, <2>2
    <3>2. ASSUME NEW m \in heap', IsMarket(m), Before(m, c) PROVE FALSE
      <4>1. m.ts < c.ts \/ (m.ts = c.ts /\ m.seq < c.seq)
        BY <3>2 DEF Before
      <4>2. CASE m \in heap /\ m # e
        <5>1. e.ts < m.ts \/ (e.ts = m.ts /\ e.seq < m.seq)
          BY <1>2, <4>2 DEF Before
        <5>2. m.seq < e.seq \/ c.seq < m.seq
          BY <3>1, <3>2, <4>2
        <5>3. m.ts \in Nat /\ m.seq \in Nat
          BY <1>2, <4>2
        <5> QED
          BY <1>2, <1>4, <3>1, <4>1, <5>1, <5>2, <5>3
      <4>3. CASE m.ts \in Nat /\ e.ts <= m.ts /\ m.seq = seq /\ \A w \in heap : w.seq < m.seq
        <5>1. c.seq < m.seq /\ seq \in Nat
          BY <1>1, <4>3 DEF EngineSound, HeapAhead
        <5> QED
          BY <1>2, <1>4, <3>1, <4>1, <4>3, <5>1
      <4> QED
        BY <1>2, <4>2, <4>3
    <3> QED
      BY <1>1, <1>2, <1>4, <1>8, <3>1, <3>2 DEF GoneWith
  <2>3. CASE y \in DOMAIN book.orders
    <3>1. y \notin DOMAIN pending
      BY <2>3 DEF EngineSound, OrdersKnown
    <3>2. c.ts = now /\ \A m \in heap : IsMarket(m) => ~Before(m, c)
      BY <1>1, <3>1
    <3>3. e.ts = c.ts
      <4>1. e.ts < c.ts \/ (e.ts = c.ts /\ e.seq < c.seq)
        BY <1>4 DEF Before
      <4> QED
        BY <1>2, <1>4, <3>2, <4>1
    <3>4. ASSUME NEW m \in heap', IsMarket(m), Before(m, c) PROVE FALSE
      <4>1. CASE m \in heap
        BY <3>2, <3>4, <4>1
      <4>2. CASE m.ts \in Nat /\ e.ts <= m.ts /\ m.seq = seq /\ \A w \in heap : w.seq < m.seq
        <5>1. c.seq < m.seq /\ seq \in Nat
          BY <1>1, <4>2 DEF EngineSound, HeapAhead
        <5>2. m.ts < c.ts \/ (m.ts = c.ts /\ m.seq < c.seq)
          BY <3>4 DEF Before
        <5> QED
          BY <1>2, <1>4, <3>3, <4>2, <5>1, <5>2
      <4> QED
        BY <1>2, <4>1, <4>2
    <3> QED
      BY <1>1, <1>2, <1>4, <1>8, <3>3, <3>4 DEF GoneWith
  <2> QED
    BY <1>6, <2>1, <2>2, <2>3
<1> QED
  BY <1>7, <1>8

\* Two live orders that are kept apart stay so.
LEMMA ApartStays ==
    ASSUME EngineSound, MemoryAgrees, StepSettled, ConstantLatency, SpokenInOrder,
           [QNext]_<<vars, quoting>>,
           NEW x \in Live, NEW y \in Live, x \in Live', y \in Live', Apart(x, y)
    PROVE  Apart(x, y)'
<1>0. Live \subseteq Known /\ \A o \in Known : o # None
  BY DEF EngineSound, OrdersKnown, Live, Known, None
<1>1. CASE EngineTurn
  <2>1. Turn /\ pc = "pop"
    BY <1>1 DEF EngineTurn, Turn
  <2>2. ~WillGo(x, y)
    BY <2>1 DEF StepSettled, InsideOnEvent, WillGo
  <2> QED
    BY <2>1, <2>2, TurnKeepsGone, TurnKeepsApart DEF Apart
<1>2. ASSUME NEW side \in Sides, NEW delay \in delays, PlaceMissing(side, delay)
      PROVE  Apart(x, y)'
  <2>1. /\ step = side /\ quote[side].oid = None
        /\ UNCHANGED <<now, book, delays, step, target>>
        /\ nextOid \notin Known
        /\ DOMAIN pending' = DOMAIN pending \cup {nextOid}
        /\ \A s \in Sides \ {side} : quote'[s] = quote[s]
    BY <1>2, PlaceFacts
  <2>2. PICK e : heap' = heap \cup {e} /\ Places(e, nextOid)
    BY <1>2, PlaceFacts
  <2>3. ~Places(e, y) /\ ~IsMarket(e) /\ (y \in DOMAIN pending' <=> y \in DOMAIN pending)
    BY <1>0, <2>1, <2>2 DEF Places, IsMarket
  <2>4. CASE GoneBefore(x, y)
    BY <2>1, <2>2, <2>3, <2>4, PushKeepsGone DEF Apart
  <2>5. CASE GoneWith(x, y)
    <3>1. GoneWith(x, y)'
      BY <2>1, <2>2, <2>3, <2>5 DEF GoneWith
    <3> QED
      BY <3>1 DEF Apart
  <2>6. CASE WillGo(x, y)
    <3>1. side = "bid" /\ quote'["ask"] = quote["ask"]
      BY <1>0, <2>1, <2>6 DEF WillGo, Sides
    <3>2. ~Matches("ask")'
      BY <2>1, <2>6, <3>1 DEF WillGo, Matches, Near
    <3>3. WillGo(x, y)'
      BY <2>1, <2>2, <2>3, <2>6, <3>1, <3>2 DEF WillGo
    <3> QED
      BY <3>3 DEF Apart
  <2> QED
    BY <2>4, <2>5, <2>6 DEF Apart
<1>3. ASSUME NEW side \in Sides, NEW delay \in delays, CancelStale(side, delay)
      PROVE  Apart(x, y)'
  <2>1. /\ step = side
        /\ UNCHANGED <<now, book, delays, step, target, pending>>
        /\ \A s \in Sides \ {side} : quote'[s] = quote[s]
    BY <1>3, CancelFacts
  <2>2. PICK e : heap' = heap \cup {e} /\ Cancels(e, quote[side].oid)
                 /\ e.ts = now + delay /\ e.seq = seq
    BY <1>3, CancelFacts
  <2>3. ~Places(e, y) /\ ~IsMarket(e)
    BY <2>2 DEF Places, Cancels, IsMarket
  <2>4. CASE GoneBefore(x, y)
    BY <2>1, <2>2, <2>3, <2>4, PushKeepsGone DEF Apart
  <2>5. CASE GoneWith(x, y)
    <3>1. GoneWith(x, y)'
      BY <2>1, <2>2, <2>3, <2>5 DEF GoneWith
    <3> QED
      BY <3>1 DEF Apart
  <2>6. CASE WillGo(x, y) /\ side = "bid"
    <3>1. quote'["ask"] = quote["ask"]
      BY <2>1, <2>6 DEF Sides
    <3>2. ~Matches("ask")'
      BY <2>1, <2>6, <3>1 DEF WillGo, Matches, Near
    <3>3. WillGo(x, y)'
      BY <2>1, <2>2, <2>3, <2>6, <3>1, <3>2 DEF WillGo
    <3> QED
      BY <3>3 DEF Apart
  <2>7. CASE WillGo(x, y) /\ side = "ask"
    <3>1. Cancels(e, x) /\ e \in heap' /\ y \in DOMAIN pending'
      BY <2>1, <2>2, <2>7 DEF WillGo
    <3>2. \A f \in heap : f.seq < seq
      BY DEF EngineSound, HeapAhead
    <3>3. \A f \in heap' : Places(f, y) =>
             /\ f.ts = e.ts /\ f.seq < e.seq
             /\ \A m \in heap' : IsMarket(m) => m.seq < f.seq \/ e.seq < m.seq
      BY <2>2, <2>3, <2>7, <3>2 DEF WillGo
    <3>4. GoneWith(x, y)'
      BY <3>1, <3>3 DEF GoneWith
    <3> QED
      BY <3>4 DEF Apart
  <2> QED
    BY <2>4, <2>5, <2>6, <2>7 DEF Apart, Sides
<1>4. CASE Quiet /\ ~WillGo(x, y)
  BY <1>4 DEF Quiet, Apart, GoneBefore, GoneWith
<1>5. CASE Quiet /\ UNCHANGED target /\ step' \in {"bid", "ask"}
  BY <1>5 DEF Quiet, Apart, GoneBefore, GoneWith, WillGo, Matches, Near
<1>6. ASSUME NEW toxic, NEW alpha, Decide(toxic, alpha)
      PROVE  Quiet /\ ~WillGo(x, y)
  BY <1>6, QuietSteps DEF Decide, WillGo
<1>7. ASSUME NEW side \in Sides, Reconciled(side)
      PROVE  Quiet /\ (~WillGo(x, y) \/ (UNCHANGED target /\ step' \in {"bid", "ask"}))
  BY <1>0, <1>7, QuietSteps DEF Reconciled, WillGo, Sides
<1>8. CASE OnEventReturns \/ (Finished /\ UNCHANGED quoting) \/ UNCHANGED <<vars, quoting>>
  <2>1. Quiet /\ UNCHANGED <<step, target>>
    BY <1>8, QuietSteps DEF OnEventReturns, quoting
  <2> QED
    BY <1>4, <1>5, <2>1 DEF WillGo
<1> QED
  BY <1>1, <1>2, <1>3, <1>4, <1>5, <1>6, <1>7, <1>8 DEF QNext

\* A bid that is placed at or above our own ask: the ask is the quote that
\* on_event turns to next, and it does not stay where it is.
LEMMA NewBidIsApart ==
    ASSUME EngineSound, Remembered, MemoryAgrees, StepSettled, OnGrid, ConstantLatency,
           NEW delay \in delays, PlaceMissing("bid", delay), NEW p, p = nextOid,
           NEW y \in Live, placed[y].side = "ask", placed[y].price <= target["bid"]
    PROVE  Apart(y, p)'
<1>1. /\ step = "bid" /\ quote["bid"].oid = None /\ target["bid"] # None
      /\ UNCHANGED <<now, book, delays, step, target>>
      /\ Live \subseteq Known /\ p \notin Known /\ p \in DOMAIN pending'
      /\ quote'["ask"] = quote["ask"]
  BY PlaceFacts DEF Sides
<1>2. PICK e : heap' = heap \cup {e} /\ Places(e, p) /\ e.ts = now + delay /\ e.seq = seq
  BY PlaceFacts DEF Sides
<1>3. y # None
  BY <1>1 DEF EngineSound, OrdersKnown, Known, None
<1>4. CASE y # quote["ask"].oid
  <2>1. \A s \in Sides : quote[s].oid # y
    BY <1>1, <1>3, <1>4 DEF Sides
  <2>2. GoneBefore(y, p)'
    BY <2>1, ForgottenIsGone DEF Sides
  <2> QED
    BY <2>2 DEF Apart
<1>5. CASE y = quote["ask"].oid
  <2>1. ~Matches("ask")
    <3> SUFFICES ASSUME Matches("ask") PROVE FALSE
      OBVIOUS
    <3>1. target["ask"] # None /\ 2 * (target["ask"] - quote["ask"].price) < book.tick
      BY DEF Matches, Near
    <3>2. target["bid"] + book.tick <= target["ask"]
      BY <1>1, <3>1 DEF StepSettled, TargetsApart
    <3>3. quote["ask"].price <= target["bid"] /\ quote["ask"].price \in Int
      <4>1. quote["ask"].price = placed[y].price
        BY <1>3, <1>5 DEF MemoryAgrees, Sides
      <4>2. placed[y].price \in Prices
        BY <1>1 DEF MemoryAgrees
      <4> QED
        BY <4>1, <4>2, PricesAssumption
    <3>4. book.tick \in Nat \ {0}
      BY PricingNumbers
    <3>5. target["ask"] \in Int /\ target["bid"] \in Int
      <4>1. target["ask"] \in Prices \cup {None} /\ target["bid"] \in Prices \cup {None}
        BY DEF OnGrid, Sides
      <4>2. \A x \in Prices \cup {None} : x \in Int
        BY PricesAssumption DEF None
      <4> QED
        BY <4>1, <4>2
    <3> QED
      BY <3>1, <3>2, <3>3, <3>4, <3>5
  <2>2. ~Matches("ask")'
    BY <1>1, <2>1 DEF Matches, Near
  <2>3. \A f \in heap : ~Places(f, p)
    BY <1>1 DEF EngineSound, EventsSound, PlaceEvent, CancelEvent, WellFormedMove, IsMarket, Places
  <2>4. \A d \in delays : d = delay
    BY DEF ConstantLatency
  <2>5. \A m \in heap : m.seq < seq
    BY DEF EngineSound, HeapAhead
  <2>6. ~IsMarket(e)
    BY <1>2 DEF Places, IsMarket
  <2>7. WillGo(y, p)'
    BY <1>1, <1>2, <1>5, <2>2, <2>3, <2>4, <2>5, <2>6 DEF WillGo
  <2> QED
    BY <2>7 DEF Apart
<1> QED
  BY <1>4, <1>5

\* An ask that is placed at or below a live bid: that bid is not the quote.
LEMMA NewAskIsApart ==
    ASSUME EngineSound, Remembered, MemoryAgrees, StepSettled, OnGrid,
           NEW delay \in delays, PlaceMissing("ask", delay), NEW p, p = nextOid,
           NEW y \in Live, placed[y].side = "bid", placed[y].price >= target["ask"]
    PROVE  Apart(y, p)'
<1>1. /\ step = "ask" /\ quote["ask"].oid = None /\ target["ask"] # None
      /\ Live \subseteq Known
  BY PlaceFacts DEF Sides
<1>2. y # None
  BY <1>1 DEF EngineSound, OrdersKnown, Known, None
<1>3. y # quote["bid"].oid
  <2> SUFFICES ASSUME y = quote["bid"].oid PROVE FALSE
    OBVIOUS
  <2>1. target["bid"] # None /\ 2 * (quote["bid"].price - target["bid"]) < book.tick
    BY <1>1, <1>2 DEF StepSettled, SettledBid, Matches, Near
  <2>2. target["bid"] + book.tick <= target["ask"]
    BY <1>1, <2>1 DEF StepSettled, TargetsApart
  <2>3. quote["bid"].price >= target["ask"] /\ quote["bid"].price \in Int
    <3>1. quote["bid"].price = placed[y].price
      BY <1>2 DEF MemoryAgrees, Sides
    <3>2. placed[y].price \in Prices
      BY <1>1 DEF MemoryAgrees
    <3> QED
      BY <3>1, <3>2, PricesAssumption
  <2>4. book.tick \in Nat \ {0}
    BY PricingNumbers
  <2>5. target["ask"] \in Int /\ target["bid"] \in Int
    <3>1. target["ask"] \in Prices \cup {None} /\ target["bid"] \in Prices \cup {None}
      BY DEF OnGrid, Sides
    <3>2. \A x \in Prices \cup {None} : x \in Int
      BY PricesAssumption DEF None
    <3> QED
      BY <3>1, <3>2
  <2> QED
    BY <2>1, <2>2, <2>3, <2>4, <2>5
<1>4. \A s \in Sides : quote[s].oid # y
  BY <1>1, <1>2, <1>3 DEF Sides
<1>5. GoneBefore(y, p)'
  BY <1>4, ForgottenIsGone DEF Sides
<1> QED
  BY <1>5 DEF Apart

LEMMA CrossedStaysApart ==
    ASSUME EngineSound, Remembered, MemoryAgrees, StepSettled, OnGrid, ConstantLatency,
           SpokenInOrder, CrossedApart, [QNext]_<<vars, quoting>>
    PROVE  CrossedApart'
<1> SUFFICES ASSUME NEW o \in Live', NEW p \in Live', Crossed(o, p)'
             PROVE  Apart(o, p)' \/ Apart(p, o)'
  BY DEF CrossedApart
<1>1. ASSUME o \in Live, p \in Live, placed'[o] = placed[o], placed'[p] = placed[p]
      PROVE  Apart(o, p)' \/ Apart(p, o)'
  <2>1. Apart(o, p) \/ Apart(p, o)
    BY <1>1 DEF CrossedApart, Crossed
  <2> QED
    BY <1>1, <2>1, ApartStays
<1>2. CASE EngineTurn
  <2>1. Turn /\ UNCHANGED placed
    BY <1>2 DEF EngineTurn, Turn
  <2> QED
    BY <1>1, <2>1, AliveBefore
<1>3. ASSUME NEW side \in Sides, NEW delay \in delays, PlaceMissing(side, delay)
      PROVE  Apart(o, p)' \/ Apart(p, o)'
  <2>1. /\ Live \subseteq Known /\ Live' = Live \cup {nextOid} /\ nextOid \notin Known
        /\ placed'[nextOid].side = side /\ placed'[nextOid].price = target[side]
        /\ \A x \in Known : placed'[x] = placed[x]
    BY <1>3, PlaceFacts
  <2>2. placed'[o].side = "bid" /\ placed'[p].side = "ask" /\ placed'[o].price >= placed'[p].price
    BY DEF Crossed
  <2>3. CASE o \in Live /\ p \in Live
    BY <1>1, <2>1, <2>3
  <2>4. CASE o = nextOid
    <3>1. p \in Live /\ side = "bid"
      BY <2>1, <2>2, <2>4
    <3>2. placed[p].side = "ask" /\ placed[p].price <= target["bid"]
      <4>1. placed'[p] = placed[p]
        BY <2>1, <3>1
      <4>2. placed'[p].price <= placed'[o].price
        BY <2>2
      <4> QED
        BY <2>1, <2>2, <2>4, <3>1, <4>1, <4>2
    <3> QED
      BY <1>3, <2>4, <3>1, <3>2, NewBidIsApart
  <2>5. CASE p = nextOid /\ o \in Live
    <3>1. side = "ask" /\ placed[o].side = "bid" /\ placed[o].price >= target["ask"]
      BY <2>1, <2>2, <2>5
    <3> QED
      BY <1>3, <2>5, <3>1, NewAskIsApart
  <2> QED
    BY <2>1, <2>3, <2>4, <2>5
<1>4. ASSUME NEW side \in Sides, NEW delay \in delays, CancelStale(side, delay)
      PROVE  Apart(o, p)' \/ Apart(p, o)'
  <2>1. UNCHANGED <<pending, placed, book>>
    BY <1>4, CancelFacts
  <2> QED
    BY <1>1, <2>1 DEF Live
<1>5. CASE Quiet
  <2>1. UNCHANGED <<pending, placed, book>>
    BY <1>5 DEF Quiet
  <2> QED
    BY <1>1, <2>1 DEF Live
<1> QED
  BY <1>2, <1>3, <1>4, <1>5, QuietSteps DEF QNext

-----------------------------------------------------------------------------
\* The inductive invariant, and what it means at the book.
QuotesSound ==
    /\ EngineSound /\ Remembered /\ MemoryAgrees /\ StepSettled
    /\ ConstantLatency => SpokenInOrder /\ Replaced /\ CrossedApart

LEMMA InitQuotes == QInit => QuotesSound
<1> SUFFICES ASSUME QInit PROVE QuotesSound
  OBVIOUS
<1>1. EngineSound /\ Remembered /\ delays \in LatencyModels
  BY InitSound, InitRemembered DEF QInit
<1>2. Known = {} /\ Live = {} /\ DOMAIN book.orders = {}
  <2>1. Known = {}
    BY DEF QInit, Init, Known
  <2> QED
    BY <1>1, <2>1 DEF EngineSound, OrdersKnown, Live
<1>3. \A x \in heap : ~Internal(x)
  <2>1. ASSUME NEW m \in MarketMoves, NEW ts \in Gaps
        PROVE  ~Internal(Stamped(m, ts, 0))
    BY StampedFields, InputsAssumption DEF WellFormedMove, IsMarket, Internal
  <2> QED
    BY <2>1 DEF QInit, Init
<1>4. step = "ignored" /\ t0 = None /\ quote = [side \in Sides |-> NoQuote]
  BY DEF QInit
<1>5. DOMAIN quote = Sides /\ \A side \in Sides : quote[side].oid = None
  BY <1>4 DEF NoQuote
<1>6. MemoryAgrees
  BY <1>1, <1>2, <1>3, <1>5 DEF MemoryAgrees, Internal
<1>7. StepSettled
  BY <1>4 DEF StepSettled, InsideOnEvent, SettledBid, TargetsApart, ClockStarted
<1>8. SpokenInOrder /\ Replaced /\ CrossedApart
  BY <1>2, <1>3 DEF SpokenInOrder, Replaced, CrossedApart
<1> QED
  BY <1>1, <1>6, <1>7, <1>8 DEF QuotesSound

LEMMA StepQuotes ==
    QuotesSound /\ OnGrid /\ [QNext]_<<vars, quoting>> => QuotesSound'
<1> SUFFICES ASSUME QuotesSound, OnGrid, [QNext]_<<vars, quoting>> PROVE QuotesSound'
  OBVIOUS
<1>1. EngineSound /\ Remembered /\ MemoryAgrees /\ StepSettled
  BY DEF QuotesSound
<1>2. EngineSound' /\ Remembered' /\ MemoryAgrees' /\ StepSettled'
  BY <1>1, QuotingKeepsSound, StepRemembers, MemoryStays, StepsStaySettled
<1>3. ASSUME ConstantLatency'
      PROVE  SpokenInOrder' /\ Replaced' /\ CrossedApart'
  <2>1. ConstantLatency
    <3>1. delays' = delays
      BY DEF QNext, EngineTurn, Decide, CancelStale, PlaceMissing, Reconciled, OnEventReturns,
             quoting
    <3> QED
      BY <1>3, <3>1 DEF ConstantLatency
  <2>2. SpokenInOrder /\ Replaced /\ CrossedApart
    BY <2>1 DEF QuotesSound
  <2> QED
    BY <1>1, <2>1, <2>2, OrderStays, ReplacedStays, CrossedStaysApart
<1> QED
  BY <1>2, <1>3 DEF QuotesSound

LEMMA QuotesStandAlone == QuotesSound => OneQuotePerSide
<1> SUFFICES ASSUME QuotesSound, ConstantLatency
             PROVE  /\ \A side \in Sides :
                          Cardinality({o \in DOMAIN book.orders : book.orders[o].side = side}) <= 1
                    /\ pc = "pop" /\ IsMarket(Earliest(heap)) =>
                          \A o, p \in DOMAIN book.orders :
                              book.orders[o].side = "bid" /\ book.orders[p].side = "ask" =>
                                  book.orders[o].price < book.orders[p].price
  BY DEF OneQuotePerSide
<1>1. EngineSound /\ MemoryAgrees /\ Replaced /\ CrossedApart
  BY DEF QuotesSound
<1>2. \A o \in DOMAIN book.orders :
         /\ o \in Live /\ o \in Known /\ o \in Nat /\ o \notin DOMAIN pending
         /\ book.orders[o].side = placed[o].side /\ book.orders[o].price = placed[o].price
  BY <1>1 DEF EngineSound, OrdersKnown, Live, Known, MemoryAgrees
<1>3. ASSUME NEW side \in Sides
      PROVE  Cardinality({o \in DOMAIN book.orders : book.orders[o].side = side}) <= 1
  <2> DEFINE S == {o \in DOMAIN book.orders : book.orders[o].side = side}
  <2>1. ASSUME NEW o \in S, NEW p \in S, o # p PROVE FALSE
    <3>1. o < p \/ p < o
      BY <1>2, <2>1
    <3>2. placed[o].side = placed[p].side /\ o \in Live /\ p \in Live
      BY <1>2
    <3>3. GoneBefore(o, p) \/ GoneBefore(p, o)
      BY <1>1, <3>1, <3>2 DEF Replaced
    <3> QED
      BY <1>2, <3>3 DEF GoneBefore
  <2>2. S = {} \/ \E o \in S : S = {o}
    BY <2>1
  <2> HIDE DEF S
  <2>3. Cardinality(S) = 0 \/ Cardinality(S) = 1
    BY <2>2, FS_EmptySet, FS_Singleton
  <2> QED
    BY <2>3 DEF S
<1>4. ASSUME pc = "pop", IsMarket(Earliest(heap)),
             NEW o \in DOMAIN book.orders, NEW p \in DOMAIN book.orders,
             book.orders[o].side = "bid", book.orders[p].side = "ask"
      PROVE  book.orders[o].price < book.orders[p].price
  <2>1. ASSUME NEW x \in DOMAIN book.orders, NEW y \in DOMAIN book.orders, Apart(x, y)
        PROVE  FALSE
    <3>1. y \notin DOMAIN pending
      BY <1>2
    <3>2. PICK c \in heap :
             Cancels(c, x) /\ \A m \in heap : IsMarket(m) => ~Before(m, c)
      BY <2>1, <3>1 DEF Apart, GoneBefore, GoneWith, WillGo
    <3>3. /\ Earliest(heap) \in heap
          /\ \A f \in heap : Earliest(heap) = f \/ Before(Earliest(heap), f)
      <4>1. heap # {} /\ \A e \in heap : e.ts \in Nat /\ e.seq \in Nat
        BY <1>1, <1>4 DEF EngineSound, HeapAhead
      <4>2. \A e, f \in heap : e.seq = f.seq => e = f
        BY <1>1 DEF EngineSound, HeapAhead
      <4> QED
        BY <4>1, <4>2, EarliestIsFirst
    <3>4. ~IsMarket(c)
      BY <3>2 DEF Cancels, IsMarket
    <3> QED
      BY <1>4, <3>2, <3>3, <3>4
  <2>2. ~Crossed(o, p)
    BY <1>1, <1>2, <2>1 DEF CrossedApart
  <2>3. placed[o].price \in Nat /\ placed[p].price \in Nat
    BY <1>1, <1>2, PricesAssumption DEF MemoryAgrees
  <2> QED
    BY <1>2, <1>4, <2>2, <2>3 DEF Crossed
<1> QED
  BY <1>3, <1>4

\* With one fixed latency, and while the strategy quotes on the grid, a quote
\* that is replaced is gone before the new one rests, and no market event
\* finds our bid at or above our own ask.
THEOREM OneQuoteRests == QSpec /\ []OnGrid => []OneQuotePerSide
<1>1. QSpec /\ []OnGrid => []QuotesSound
  BY InitQuotes, StepQuotes, PTL DEF QSpec
<1> QED
  BY <1>1, QuotesStandAlone, PTL
=============================================================================
