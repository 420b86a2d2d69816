# hft-pm in TLA+

`hft_pm` is a research stack for market making on binary prediction markets:
it captures a public order-book feed, replays it through an event-driven
backtester, and runs the same strategies live against simulated fills ("paper
trading") under a kill switch. This directory holds TLA+ modules translated
from `src/src/hft_pm` and `src/scripts`, TLC configurations that check them on small instances,
and proofs that TLAPS checks.

## 1. The system

| Component | State it keeps | Operations | Talks to |
|---|---|---|---|
| Kill switch (`risk/limits.py`) | latch and reason, peak PnL, PnL at the start of the UTC day, inventory, stamp of the last event | `tick`, `note_ws_message`, `heartbeat_check`, `can_open`, `reset` | called by the paper trader's handler and by its watchdog task |
| L2 book (`orderbook/l2_book.py`) | public bids and asks, our resting orders, the level size and queue seen when each joined | snapshot, price change, add, remove, `process_trade`, `queue_position` | both runners |
| Backtester (`simulator/engine.py`, `events.py`, `latency.py`, `metrics.py`) | event heap, simulated clock, pending orders, cash, inventory, fills | `run` (pop, apply, pull the feed, call the strategy), `place_limit`, `cancel` | replayed feed, book, fees, strategy |
| Fees (`fees/polymarket.py`) | none | `taker_fee`, `maker_rebate` | both runners |
| Paper trader (`live/paper_trade.py`) | the backtester's state, plus tracked order ids, halt flags, stop flag | `_on_ws_event`, `_drain_arrivals_up_to`, `_on_halt`, `_heartbeat_loop`, `stop`, `place_limit`, `cancel` | WebSocket client, kill switch, book, strategy |
| WebSocket client (`data/polymarket_ws.py`) | active connection, stop flag, backoff, stamp of the last message | `run`, `_subscribe`, `_read_loop` with its watchdog, `stop` | server; the paper trader's handler or the writer |
| Commands (`_run_cli` of `paper_trade.py` and of `polymarket_ws.py`) | the runner's task, the stop event, the open log or writer | start, wait for a signal, cancel, wait, close | client, paper trader, writer |
| Quoting strategies (`strategies/*.py`) | the id and price of the quote on each side, the time of the first decision | `on_event`, `_reconcile_side`, gates, pricing | a runner's `SimulatorAPI` |
| Capture and replay (`data/writer.py`, `replay.py`, `schemas.py`) | one file per token and UTC day; the open handles | `write`, `close`, iteration with a k-way merge, `verify_no_gaps` | client, backtester |
| Signals (`signals/*.py`) | rolling OFI window, VPIN buckets | `update`, `add_trade`, `value` | strategies, calibration |
| Calibration (`scripts/calibrate_strategy.py`, `signals/calibration.py`, `strategies/factory.py`) | the streams extracted from a capture, the estimates, the merged parameters | extract, estimate, regress, `merge_calibrated_params`, `build_strategy` | replay, signals, strategies |
| Synthetic feed (`simulator/synthetic.py`) | the drawn mids and trades, the two indices of the merge | the three generators | tests of the backtester |
| Cross-validation (`validation/purged_cv.py`) | none | the train and test indices of every split | scripts |
| The rest: Hawkes likelihood, validation statistics, settings, result summaries | none to speak of | numerical or wiring | |

What makes it hard:

* **Two sources, one clock.** Market events and the arrivals of our own orders
  meet in one heap. In the backtester the feed is pulled one event per turn; in
  the paper trader server timestamps may run backwards, and arrivals are drained
  by a running maximum.
* **Latency and cancellation.** An order may be cancelled before it arrives, a
  jittered cancellation may overtake its order, and trades may fill it first.
* **A queue nobody shows us.** The volume ahead of our order is inferred from two
  kinds of messages that report the same trades, and level sizes do not say whether
  the volume that left stood in front of us or behind.
* **A halt that must be complete.** The handler and the watchdog can both find a
  breach while orders rest, fly, or are being cancelled, and events keep coming
  until the connection is closed.
* **Silence, reconnection, stop.** Freezes are found by timers that read stamps
  written elsewhere; `stop()` races connection attempts; a task's cancellation
  meets a clean-up that itself suppresses cancellations; a log write may fail in
  any callback.
* **Streams out of order.** Stamps of a capture repeat and run back; the prints of
  a synthetic walk overlap the events that follow it.
* **Summaries of a history.** A running peak, a day anchor, a latch, a queue
  estimate, a rolling sum each stand for a whole path and can drift from it.

What correctness means, component by component:

* kill switch: halted if and only if some limit was breached since the last reset;
* book: own orders fill in the order they joined, one trade is never spent twice,
  the queue estimate is the real queue as far as the messages allow;
* backtester: no look-ahead, monotone clock, final cancellations, sizes conserved,
  the running account equal to the reference functions over the fills;
* both runners: every order lives the life that `SimulatorAPI` promises;
* paper trader: a halt withdraws everything and is final, its own index of
  orders is exact, risk is checked before the strategy acts, silence halts;
* strategies: no order is forgotten, quotes do not pile up or cross;
* tape: a torn line costs one event at most and is reported; the replay is
  complete, and ordered when the shards are;
* signals and splits: running values equal their definition over the history;
* client and commands: reconnect for ever with the right delays, spare live
  connections, answer `stop()`, a halt and a signal, write nothing after the end;
* calibration: no capture is refused for its stamps, no estimate looks ahead, no
  estimate breaks a strategy;
* synthetic feed: a trade starts at the touch of the book in force and fills the
  makers it reaches and no other.

## 2. Modules

| Module | Models | Status |
|---|---|---|
| `Basics` | `None`, minimum, maximum, floor at zero | |
| `RiskLimits` | `KillSwitch`, each method a function on a record of its fields | |
| `KillSwitch` | any sequence of calls to it, with a history that the invariants read | checked, proved |
| `L2Book` | `L2OrderBook`, each method a function on a record | used by all below |
| `QueueEstimate` | the book beside a real first-in first-out queue (external) | checked, proved |
| `OrderExecution` | what both runners do alike: arrival, fills, account, fees, event order | checked through both runners; its lemmas proved |
| `OrderLifecycle` | abstract: what `place_limit` and `cancel` promise | proved; refined by both runners |
| `Backtester` | `engine.py` under any ordered feed and any strategy | checked, safety proved |
| `PaperTrader` | the runner: handler, watchdog, `stop()`, halt | checked, safety proved |
| `WSClient` | the client with time, an unreliable network, callbacks that raise, cancellation | checked in `Session` |
| `Session` | the paper trading and the capture command around the client, or any other caller | checked, with liveness; safety proved |
| `Quoting` | the cancel-and-replace loop with its four pricing rules, on top of `Backtester` | checked, proved |
| `TapeFormat` | the files of the tape: appending and parsing | used by the next three |
| `Capture` | `JsonlWriter` under crashes and failing writes | checked in `Tape`, proved |
| `Replay` | the k-way merge over the shards of a tape | checked in `Tape`, proved |
| `Tape` | composes the two: captures, then a replay of the files they left | checked, proved |
| `Signals` | `OFICalculator` and the volume of the buckets of `VPINCalculator` | checked in `Calibration`, proved |
| `Calibration` | the signals in a live strategy, and the calibration script down to the strategy built from its file | checked, proved |
| `SyntheticFeed` | the three generators, and a resting order that their trades walk | checked, proved |
| `PurgedCV` | `purged_cpcv_splits`, one split per step | checked, proved |
| `MC*` | small books, feeds and menus for TLC | |
| `*_proofs` | theorems | |

`RiskLimits`, `L2Book` and `OrderExecution` have no variables: they are the
methods as operators on records, so that the state machines above them and the
proofs use the same definitions. `PaperTrader` composes all three and sees the
connection as `Session` shows it to a handler (it delivers, drops or is asked to
close); `Session` composes the client with its programs and keeps only the
halt of the trading.

### How state and actions correspond to the code

* **Numbers.** Prices are integers in units of the finest tick, a dollar is
  `Dollar` units and money is counted in `TickValue` units per price unit. The mid
  and what is marked to it are doubled so that halves stay integers; the
  kill switch of `PaperTrader` is given doubled PnL, inventory is not doubled.
  Float rounding is not modelled.
* **`L2Book`.** A side maps every price to a size, 0 where the dictionary has no
  entry. The dictionaries `_our_orders`, `_level_size_at_placement`,
  `_placed_at_ms` have the same keys and become one function; `rank` is the
  dictionary's insertion order, in which `process_trade` walks it.
* **`Backtester`.** `Turn` is one pass of the loop in `run()` up to the call of the
  strategy: pop, advance the clock, `_apply`, pull the feed. `PlaceLimit`, `Cancel`
  and `StrategyReturns` are the strategy's side of the call, so that every
  strategy is covered. `heap` is a set of events ordered by `(ts, seq)`.
* **`PaperTrader`.** The coroutines share one event loop and a handler never
  yields, so `pc # "idle"` keeps the other coroutines out. `ReceiveEvent`,
  `DrainArrival`, `ApplyEvent`, `HaltInHandler`, `PlaceLimit`, `Cancel`,
  `StrategyReturns` are the parts of the handler; `HeartbeatWakes` one turn of
  the watchdog.
* **`WSClient`, `Session`.** `pc` is where `run()` is; timers count seconds.
  `Stop(TRUE)` is `stop()` called within the running loop, `Stop(FALSE)` from a
  caller without one (the code then sets the flag only). A task asked to cancel
  (`cancel = "asked"`) can only receive its `CancelledError`; in the `finally`
  of the read loop (`pc = "unwinding"`) that error is suppressed. The context
  manager that closes the connection is `pc = "leaving"`. `clean` is a read loop that
  ended without an exception, as `async for` does when the connection was closed
  cleanly: `run()` then goes on to its delay without calling `on_disconnect`.
  `raising` is a log that
  cannot be written: every callback of the paper trader then raises where it logs,
  `OwnMessageRaises` and `HeartbeatRaises` being the places where this cuts a
  handler short. `Tasks` are the finally of `PaperTrader.run()` and the
  steps of the command.
* **`Quoting`.** `step` is where `on_event` is within the strategy's turn of
  `Backtester`; `CancelStale`, `PlaceMissing` and `Reconciled` are the branches of
  `_reconcile_side`, first for the bid and then for the ask. `answered` is a history of
  the instants at which `on_event` was called.
* **Tape.** A line is a sequence of pieces, because an append to a file whose last
  line was cut short continues that line. `handles` holds what a file object still
  buffers after a failed flush. `Tape` instantiates `Replay` with the files of
  `Capture`. A shard is known by its day and asset, which is the order `_shards`
  lists them in (`ListedBefore`) and decides the first ties. The generator of a
  shard is the number of the good line it yielded last: `NextGood` is its next
  turn. A replay begins when no capture runs, and the files do not change any
  more.
* **`Signals`.** `Event` is `_update_signals`: a book event updates the OFI, a
  trade the VPIN. `seen`, `traded` and `closed` are histories that only the
  invariants read.
* **`Calibration`.** `mode` is `"live"` (a strategy in a runner) or where the
  script and the program that uses its file are: `Read` is one turn of
  `_extract_streams`, `Estimate` the first half of `main`, `FitNext` and
  `Regress` are `_calibrate_ofi_alpha`, `MergeParams` and `BuildStrategy` the
  factory. An estimate is the string that says what kind of number it is; a
  calibration may also start from a file of another origin.
* **`SyntheticFeed`.** Prices count half ticks. `MarketInit` draws the mids and the flow as
  the generators do before their loop; the times and the depths of the trades,
  also drawn there, are drawn when they are needed, which no event can tell
  apart. `StartTrade` computes the prices of a walk, `PrintLevel` yields one of
  them. `verdict` records what the walk owes our order.
* **Type invariants.** `KillSwitch` has a `TypeOK` that its run checks and that is
  proved, `OrderLifecycle` one that is proved; the other machines are typed by
  the comments at their variables.

## 3. Plan
The modules were written in the order in which the code's most important
promises depend on each other; each was checked before the next was begun.

1. `RiskLimits`, `KillSwitch` and its proofs: the kill switch decides whether
   trading goes on at all.
2. `L2Book`, then `OrderExecution` and `Backtester`: every result of the
   project comes out of this loop. `QueueEstimate` puts the book next to a real
   queue, which the backtester cannot do because it has no ground truth.
3. `OrderLifecycle`: the abstract specification. `Backtester` and `PaperTrader`
   both implement it (`INSTANCE ... WITH`), which is what makes a backtest of a
   strategy say something about the strategy live.
4. `PaperTrader`, composed of `L2Book`, `OrderExecution`, `RiskLimits`; then
   `WSClient`, and `Session`, which composes it with the tasks of the two
   commands.
5. `Quoting` on top of `Backtester`: the only strategies the repository has.
6. `TapeFormat`, `Capture`, `Replay`, `Tape`: the tape that feeds the backtester; its
   order is the assumption of `Backtester`'s feed.
7. `Signals`, `PurgedCV`: the incremental algorithms and the index
   arithmetic; then `Calibration`, which feeds the signals from a capture and a
   strategy from its estimates.
8. `SyntheticFeed`: the markets against which the tests run the backtester.

Still ahead:

* *Model.* The quoting strategies on top of `PaperTrader`, where a halt falls
  between two quotes; the buy and sell shares of a VPIN bucket; the validation of
  settings in `config.py`; the recursion of the Hawkes intensity.
* *Prove.* Every safety property of the runs has its theorem; what is modelled next
  is to be proved as well.

## 4. Runs
`expect: pass` runs explore every reachable state of their instance. The runs
marked **violation** each check one sentence of a docstring or comment against
what the code does and end in a counterexample.

| Run (module, configuration) | Question | Bounds, and why they are enough |
|---|---|---|
| `kill_switch` | halted for every breach on record, and for nothing else | five PnL values that rise above the capital, breach each limit alone and lie exactly on it; four ticks: a peak, a fall, a day change and a reset fit; clock 0..3 with days of 2 |
| `backtester` | clock, latency, cancellation, sizes, account, refinement of `OrderLifecycle` | jittered latency {0, 2} with gaps {0, 1}, so arrivals overtake each other; a taker order, a resting one, one cancellation, a tick size that merges two prices; three market events |
| `queue_estimate` | is the estimate the real queue during a burst? how late can a fill be? do our own orders keep their order, and is a trade spent twice? | two orders of ours, up to four public and own entries of one or two contracts, three trades; two contracts cancelled in front of each of ours, which is enough to cancel, hide it by a joining order and trade through; every trade followed by its level update, or a burst of trades without updates in between |
| `paper_trader` | the handler and a halt at any point; wall clock, watchdog task, `stop()`, connection losses; refinement of `OrderLifecycle` | two server stamps in any order, two orders, one cancellation, three events; amounts chosen so that one contract survives the drawdown limit and two breach it, and one breaches the loss limit of a day that began before it was taken; days of two seconds, so that a day may change; four seconds of wall clock against a timeout of one: silence, notice, halt and drain fit |
| `paper_cap` **violation** | does the inventory cap halt new orders? | as `paper_trader` |
| `session` | backoff, freeze detection, reconnection, `stop()`; how a signal, a cancellation, a halt and a failing log end the programs | all three programs; timeouts and polls of 2 s and backoffs 1, 2, 3 (the cap) are reached and passed; failures are counted up to 4 and then no further; network, disk and signals change at any time without a bound |
| `session_halt` **violation** | does a halt end `run()`? | as above |
| `quoting` | no order is forgotten; one quote per side and no crossing of our own quotes when latency is constant; dark near jumps, the quotes of before included | all four pricing rules; prices 1..8 with the dollar at 8, five feed moves, three events up to two apart, latencies constant 1 or jittered {0, 2}; two jumps with the overlapping windows 1..3 and 2..4, so that an event may fall into the first, both, only the second or neither |
| `tape` | what a torn append costs; is the merge complete, and ordered on verified shards? | two tokens, two days, two server stamps, three writes, two of them cut short: a tear, its victim, a resumption and a second tear fit; up to three shards with ties and regressions |
| `calibration` | the rolling sum is the window's; one bucket per volume; are the streams of any capture accepted, depths measured from known mids, and strategies built from any numbers? | live: four updates, gaps below, at and beyond the window of 2, trades up to more than two buckets of 3, of which two are kept; script: four events, three stamps in any order, two books and two trade prices, on and off the mid; the thresholds 5, 50 and 30 become 2, 3 and 2, so that both sides of each are reached; files: every combination of the seven kinds of value, against every strategy |
| `purged_cv` | purge and embargo are exact | up to six samples, all group counts, windows beyond the whole sample |
| `synthetic` | does a walk fill the makers it reaches? does a trade start at the book in force? how far do stamps run back? | a unit of seven ticks, so that mids reach the clipping on both sides and walks the end of the grid; three snapshots, three jumps of which two fall between the same snapshots; two trades, of one print or several; one order at any price, at any time |

What the passing runs establish, in words:

* **Kill switch.** The latch, the running peak and the day anchor together
  never miss a breach, whatever the order of ticks, heartbeats and resets, and
  never invent one. `reset` forgets exactly what it should.
* **Book and backtester.** Within one price level our orders fill in the order
  they joined; no trade hands out more than it traded (`queue_estimate`); every contract of an order is
  filled, resting, in flight or withdrawn; cash and inventory equal
  `realised_cash` and `inventory_from_fills` over the fills; a cancelled order
  never trades after its cancellation was processed, even if the cancellation
  overtook it; nothing is executed before its latency has passed.
* **Queue estimate**, for an order of ours that is alone at its level. Exact for a burst
  of trades between two level updates, as long as nobody in front of us cancelled
  before. It errs to the late side by at most what was
  cancelled in front of us: a level that shrinks and grows again looks like one that
  never changed. It errs to the early side as soon as the updates that the trades
  cause are delivered in between.
* **Paper trader.** A halt leaves nothing resting, in flight or tracked, whoever
  finds it, and nothing happens after it; the hand-kept index of orders is always
  the set of the runner's live orders; the strategy is reached only while the account, with the fills of the event
  it answers, is within the drawdown and the loss of the day (the inventory cap is
  another matter: `paper_cap`); silence is noticed within the timeout plus one wake of the watchdog.
* **Client and commands.** The client reconnects for ever, with delays that follow
  the failures, although a connection may freeze; a live connection is not closed
  for the silence of the one before; `stop()` on an active connection ends it. A
  signal ends either command wherever the client is and even if its log cannot be
  written: the flag alone and the cancellation alone would not always do.
  Nothing is written to a log or a tape that has been closed.
* **Quoting.** The two remembered ids suffice to keep hold of every order, even
  when latency reorders arrivals; with constant latency no two quotes of a side
  and no crossed pair meet on the book. From the first event in the window of a jump
  on, nothing is decided and what was quoted before is gone within a latency; until
  that event it stays, for the gate is asked at events only.
* **Tape.** A write that is cut short costs at most one accepted event and the
  loss shows up in `verify_no_gaps`; whatever captures leave behind is replayed
  completely, and in order if no shard has a regression.
* **Signals and splits.** In integers, the running OFI sum is the sum over its window:
  no contribution is lost, kept or evicted twice, neither in a strategy nor over the
  nudged stamps of a calibration (the drift of a float sum is another
  matter and not modelled); volume buckets close
  at the pace of the volume; purge and embargo leave out exactly the samples that
  are too close to a tested one.
* **Calibration.** However the stamps of a capture repeat or run back, no estimator
  raises, and the depth of a trade is measured from a mid that was known by then; a
  later one is passed over only if its stamp was nudged;
  every file of numbers gives a strategy whose `sigma`, `kappa` and `A` are
  positive.
* **Synthetic feed.** A walk starts at the touch of the consumer's book, fills an
  order of ours exactly if the aggressor would go that far (up to half a tick of
  rounding), and the stamps run back by less than a walk is long.

### Disagreements with the documentation

Two are violation runs, and `PROJECT.json` quotes the lines they contradict:

* Nobody calls `can_open`: at the inventory cap new orders are accepted
  (`paper_cap`). Whether `can_open` itself would be enough, since it looks at the
  inventory of the last tick only, no run asks.
* A halt, found by the heartbeat task while the client is connecting, does not end
  `run()` (`session_halt`).

The others were met while the code was translated. The models contain the
behaviour; no run asserts the contrary:

* A daily-loss halt outlives its day: the latch is cleared by `reset()` only
  (`limits.py:10` speaks of the next UTC day).
* A trade is subtracted from the queue estimate twice when its level update
  follows, so a simulated fill may come too early; with two orders at one price
  the fill of the first counts as public volume in front of the second
  (`l2_book.py:203`, `:214`).
* A level that shrinks is attributed "to cancellations *in front of* us proportionally
  to our queue position" (`hft_prediction_markets_EN.md:1008`): the code takes the whole
  net decrease of a level as volume that was in front of us, and nothing for a
  cancellation that joining orders have made up for (`l2_book.py:195`).
* `polymarket_ws.py:77` calls `on_disconnect` the "notifier for connection drops": a
  connection that is closed cleanly ends the read loop without an exception, and nobody
  calls it (`polymarket_ws.py:131`).
* The cause of `session_halt` is general: `stop()` during a connection attempt
  finds no connection to close and leaves a flag that is read only when the
  connection that follows has ended (`polymarket_ws.py:207`; the docstring at
  `:122` speaks of reconnecting "until `stop`"). `StopIsAnswered` leaves this case
  out; `SignalEnds` covers it, because the commands also cancel the task.
* A filled quote is not replaced while the target stays the same: the strategy
  still remembers its id and price (`quoting.py:84`; the docstring at `:6` says
  "place a new quote where one is missing").
* GLT tests the raw price and sends the snapped one, which may be 0 or 1
  (`glt.py:108`); with signals a bid is tested against 0 only and an ask against
  1 only (`avellaneda_stoikov.py:240`).
* A record of a halt that cannot be written raises before the client is stopped; in
  the heartbeat task nothing repeats it, and the log is then not closed
  (`paper_trade.py:563`, `:284`).
* Once a capture holds one stamp of the future, `_extract_streams` nudges every book
  event until the stamps catch up, a millisecond each: times are then made up and
  depths measured from older mids than were known (`calibrate_strategy.py:100`
  speaks of republished snapshots only).
* A number in quotes in the calibrated file passes `merge_calibrated_params`, which
  tests `float(value)` and keeps `value`, and raises a `TypeError` in the
  constructor (`factory.py:94`, `:112`).
* Live, the OFI is updated after `price_change` events too; the calibration of its
  coefficient uses snapshots only (`avellaneda_stoikov.py:180`,
  `calibrate_strategy.py:92`).
* `synthetic.py:75` promises "strict ascending timestamp order": the prints of a walk
  are a millisecond apart and overlap what follows, and two events may share a
  stamp. `tests/unit/test_synthetic.py` asserts sorted stamps, of one market with one seed.
  `LagBounded` is what holds instead.
* `synthetic.py:8` says that a maker is filled "iff" the aggressor goes as deep as it
  rests: the touch is printed however shallow the trade, so a maker inside the two
  ticks around the mid is treated differently. Mids are clipped, not reflected
  (`synthetic.py:105`); a jump after the last snapshot never happens; and a maker
  whose quote a jump has crossed is not hit at its stale price, as
  `synthetic.py:361` has it, because no trade prints there any more.
* The merge does not order a shard that is itself out of order, although
  `replay.py:115` promises global order; `verify_no_gaps` reports such a shard.
* A VPIN bucket that overflows is recorded with its overflow (`vpin.py:63`),
  so buckets are not of equal volume.

### Fairness

Only `Session` has liveness properties. `Fairness` asks for weak fairness of the
client's own steps (`Run /\ ClientRuns`: the coroutine goes on when it can, a
connection attempt and a close end one way or the other, as the library's timeouts
guarantee), of the watchdog, the heartbeat and the other tasks (the event loop
runs what is ready) and of `Second` (time passes). Nothing is assumed of the
network, the disk, the messages and the signals: the server may refuse
connections, drop them or deliver nothing for ever. `AlwaysReconnects` and
`HaltEndsRun` state what they need beyond that in their own premises (a network
that stays up, callbacks that do not raise). The other modules state safety only:
what a runner does eventually depends on a feed that promises nothing.

Deadlock is checked except in the runs of `QueueEstimate`, `Calibration` and `Tape`,
where the number of trades, events and writes is bounded and the model simply
stops at the bound, or at the end of the work. The other machines end in an
explicit stuttering step (`Finished`, `AllSplits`, `Ended`, `Exhausted`) or never end.

## 5. Proofs
Each theorem holds for every value of the constants that satisfies the named
assumptions (`ASSUME` in the module that declares them). `InputsAssumption` of
`Backtester` and `PaperTrader` says what enters from outside: a book that holds
no order of ours, market events of the right types, and orders that
`place_limit` accepts (`FreshBooks`, `FeedMoves`, `Placeable`). Sizes, prices,
stamps, latencies and the number of orders and events are otherwise arbitrary.

* **The kill switch** (`NoBreachMissed`, `NoFalseAlarm`, `TypeCorrect` in
  `Supervision_proofs`, which holds what watches over a running program). Both
  invariants speak of the whole session, the code of a few fields, so neither
  is inductive alone. `SwitchFollows` adds what ties the fields to the history: the peak
  is the highest PnL of the session, or the capital's start, and is reached at
  one of its ticks; the day anchor is the PnL of the first tick of the current
  day; the last event is the last one heard. One lemma per fact that `Tick`
  establishes (`TickSeesDrawdown`, `TickSeesDailyLoss`, `OneAnchor`, ...), one
  step per action in `SwitchStep`. Assumes the limits are what the
  constructor of `RiskLimits` accepts.
* **`OrderExecution_proofs`** (lemmas only) is what the proofs about runners, strategies and signals rest on: what
  a trade may do to one of our orders (`TradeOnOrder`: it keeps its place, shrinks
  by exactly what the walk took, or leaves the book when nothing is left), that no
  public event adds or moves an order (`PublicOnBook`, `MarketOnBook`), what an
  arrival does (`ArrivalOnBook`), and that the account after a batch of fills is
  the account before plus the sums over the batch (`RecordFillsSums`,
  `BookedTwice`, `FoldsAreSums`). The walk, `PriceChanges` and the sums are
  recursive functions. The library's induction theorems take an operator, which
  the provers cannot instantiate, so induction is done by hand: the set of
  numbers (or of subsets of a finite set) for which the claim holds contains the
  first and with each its successor; were it not everything, the complement had a
  smallest element (`SmallestNat`, from the well-foundedness of the naturals).
  This gives existence and the defining equation of each recursive function
  (`WalkDef`, `AppliedDef`, `TableExists`), then what it computes.
* **`Backtester_proofs`**. The clock (`ClockNeverRunsBack`, `HeapStaysAhead`):
  it is set to the stamp of the popped event, so it is monotone exactly if the heap
  never holds an event of the past. Two sources feed the heap: arrivals, at
  `now` plus a latency that is a natural number, and the feed, whose next event
  is pulled when its predecessor has been popped and is no earlier. The
  invariant `HeapAhead` says so; the last pulled event is still on the heap
  when a turn begins, which bounds `now` by `feed.last`.
  The engine (`EngineStaysSound`): `EngineSound` adds that every event on the heap
  is a market event or an arrival that belongs to one order we placed, that an
  order is in flight or rests and never both, that the book is a book, that no
  event still on the heap has caused a fill, and that the account is
  `Booked(NoAccount, fills)`. `TurnEffect` reduces a whole turn to a disjunction
  for each order: it stays, lands, trades or dies. `NeverLooksAhead`,
  `AccountAlwaysMatches`, `CancellationsAreFinal` and `SizesAreConserved` follow,
  the last two with `EngineSound` as the context of their own induction.
* **`PaperTrader_proofs`**. Three invariants for three concerns. `SwitchSound` is
  about the place in the handler: the strategy is reached only past the check, and
  `tick` is told the account that the event left behind. `LossSound` adds the loss since
  the day's anchor, which is a comparison of amounts and therefore needs `OrdersSound`:
  the account holds numbers (`RiskIsCheckedFirst`).
  `Watched` relates the wall clock, the next wake of the watchdog and the stamp of
  the last event; silence that is not noticed would need a wake in the past
  (`SilenceIsNoticed`). `OrdersSound` is the counterpart of `EngineSound`, without a
  monotone clock, because server stamps run back: what keeps an order from
  executing too early is that the drain stops at the largest stamp seen
  (`OrdersAreTracked`, `LatencyIsHonoured`). For a halt, `HaltEmpties` shows that the
  loop over the tracked ids withdraws everything, which needs that the index is
  exact; afterwards no step brings anything back (`HaltsAreFinal`).
* **`OrderLifecycle_proofs`** (`OrdersConserved`, `EndIsFinal`, `StopIsFinal`).
  Of the abstract specification: no order is overfilled or ends short of its
  size without a cancellation or a stop, an ended order stays ended, nothing
  moves after a stop.
* **Refinement** (`BacktesterKeepsLifecycle`, `PaperTraderKeepsLifecycle`). The
  initial state maps to the initial state, and each step to a step of
  `OrderLifecycle` or a stutter. The mapping is a function of `pending`, the book,
  the fills and what the strategy asked for; `OrdersViewed` says what phase each
  order is seen in, `Moves` what the four effects do to it, and steps that touch
  several orders (a trade that walks a level, a halt) are one abstract step of all
  of them. So what is proved of `OrderLifecycle` holds of both runners: a strategy
  meets the same promises in a backtest and live.
* **The strategy** (also in `Backtester_proofs`, because `Quoting` extends the
  engine). `NoOrderIsOrphaned` from `Remembered`: an order enters
  the flight with its id in `quote` and leaves `quote` with its cancellation on the
  heap, so it never is without both. `MakerStaysDark` from `StaysDark`: the loop
  that stops at the first jump ahead misses no window, because the schedule is
  sorted; and from `Withdrawing`: in a dark instant an order of before is either
  still remembered, so that `on_event` cancels it before it returns, or its
  cancellation is under way (`Leaving`) and arrives within a latency. `OneQuoteRests` is the long one. With one fixed latency, internal events
  are handled in the order in which the strategy spoke (`SpokenInOrder`), so of two
  live orders on a side the cancellation of the older arrives before the newer
  (`Replaced`). A bid may be sent at or above our own ask; then that ask
  misses its target, `on_event` cancels it before it returns (`WillGo`), and both
  arrive at one instant with no market event in between (`GoneWith`). Two targets are
  at least a tick apart by the arithmetic of the four pricing rules
  (`DecidedApart`). The theorem assumes `[]OnGrid`, that the targets lie among
  `Prices`, the domain of the model's book: the code's dictionaries have no such
  bound. On the instance it holds in every state, since TLC would stop at the first
  price outside of the domain.
* **The session** (also in `Supervision_proofs`). `NothingWrittenLate`: whoever closes a
  sink has waited for everyone who writes to it: the invariant says that once the
  runner has left the client, `run()` has returned and the heartbeat is being or has
  been ended, and that a sink is closed only then. Most steps are `Harmless`
  to these facts; the two that close a sink and the one that leaves the client are
  looked at singly. `WatchdogIsFair`: with `StampIsOurs`, while a connection is
  read, the stamp is its own last life sign, because the subscription renews it.
  `BackoffFollowsFailures`: where `run()` is decides whether the delay belongs to
  the failures counted so far or to one more (`BackoffSound`);
  `SaturationAssumption` says that the history counter `failures`, which is
  bounded, is counted far enough for the delay to reach its maximum.
* **`QueueEstimate_proofs`**. The book is compared with a queue it never sees, so
  the invariant relates the two order by order. `Balanced`: what the queue gave an
  order and still holds of it is what the book filled and still holds of it.
  `LevelIsCurrent`: while all is published the level shows the public's volume,
  which is what an order that joins reads. For an only order, `NotBehind` bounds how far
  the book is behind: what it believes to be in front and the fills it has not booked,
  added up, exceed what is in front by no more than was cancelled there
  (`FillsAreLateByWithdrawn`). The two errors are added because neither bound survives
  a trade alone: a late fill may still wait behind a queue that is believed too long.
  In a burst, `NotEarly` bounds the other side, so that without a cancellation the two
  meet (`EstimateIsExact`). A cancellation in front is paid for by `withdrawn`
  (`DepthWithout`), and a public order that joins behind ours is in nobody's way.
  Through a trade both follow from `DepthAfter` (what is in front of an entry falls by the
  trade's volume and stops at 0, however many entries it uses up) and
  `SellOnOnlyOrder` (the book's estimate does the same in one step). Among orders of
  ours, `EarlierFirst` and `FillsWithin` say what the walk does: a later order sees
  only volume that an earlier one could not take (`OursInTimeOrder`), and the fills
  add up to no more than the trade (`TradesAreNotOverspent`). `QueueAssumption` asks
  for finitely many orders with positive ids; volumes and queues have any size.
* **`Research_proofs`**, the signals and the calibration. `StreamsSound` says that the nudged stamps of the mids
  strictly increase however the raw ones repeat or run back; so the mids known before a
  trade, by their nudged stamps, are a prefix, and the one the code takes is the last
  of it (`KnownIsPrefix`, `DepthsAreHonest`), and every stream passes the checks of the
  estimators (`NoEstimatorRaises`). `EstimatesSound` follows each estimate to the
  constructor of the strategy (`EveryFileBuilds`).
  `RunningSumIsWindow` needs more than the sum: `SignalSound` says that the deque
  holds the contributions of the observations from some number on, that all before
  it have left the window for good, and that the sum is theirs; an update appends
  one and evicts a prefix (`PrefixCount`), which shifts the terms of the sum
  (`SameTermsShifted`). `FitSound` gives it the order of the stamps, on the clock of
  a strategy and on the nudged stamps of the regression. `BucketsKeepPace` goes
  through the loop of `add_trade` by the induction described above
  (`ClosingExists`, `ClosingCounts`): it takes whole buckets and leaves less than
  one. The quotient and remainder of the property are then those of a product with
  a remainder (`BucketsAndRest`). `SignalsAssumption` says that the best bid and offer
  handed to `update` are numbers.
* **`Research_proofs`**, the splits (`SplitsArePurged`). `TrainIsTrainable` reduces ranges
  cut out group by group to a distance kept from every tested sample; it needs
  that each group is a non-empty range of samples (`GroupIsRange`), which is
  where `n_samples >= n_groups` is used.

* **`Tape_proofs`**, the captures (`LossIsReported`). `CaptureInv`: an append never
  touches a line that has its newline (`Grown`), so whatever `write()` acknowledged
  still ends a line of its file, after any number of crashes and failing flushes.
  Such a record is lost only if another piece stands before it on that line; the
  line is then scarred and no JSON (`LostIsScarred`). A scarred line hides one
  acknowledged record, which bounds the loss by the bad lines of the file, and a
  write that is cut short scars one line at most, which bounds it by `tears`
  (`LossIsBounded`).
* **`Tape_proofs`**, the replay. `MergeInv`: every good line is out already or not
  before the line its shard has in the heap (`ReplayIsComplete`); the ties, the
  first ones given by the order of the shards (`PrimeTies`) and each later one
  higher, keep the entries of the heap apart, so that it has a first (`FirstIs`);
  and if no shard has a regression the next good line of a shard is not older
  (`NextIsNotOlder`), so that nothing in the heap is older than what came out last
  (`ReplayIsOrdered`). `CaptureInv` says that the replay gets files of non-empty
  lines; `CaptureAssumption`, that tokens are numbered in the order in which they
  are listed and stamps are natural numbers.

* **`Research_proofs`**, the synthetic feed, for every mid path, flow, list of jumps,
  depth and number of trades. `MarketSound` has a part for each theorem. `LagSound`:
  the next snapshot, the next trade and the rest of a walk are less than `longest`
  behind the highest stamp, and the end of the walk is less than that ahead of
  whatever waits for it (`FeedLagsLessThanAWalk`); the bound alone is not inductive.
  `TopsSound`: after the first snapshot each side of the book is one level, at the
  touch of the mid in force, where the next trade starts
  (`TradesStartAtTheTouch`). `VerdictSound`: an order that is owed a fill lies ahead
  in the walk with no queue before it, one that is to be spared does not
  (`FillsFollowReach`). `WalkReaches` compares the prices of a walk with the depth, half
  a tick of rounding at each end and the cut to the unit included; `PrintOnBook`
  says that on the grid a print meets an order at its own price only, and then fills
  it. `FeedAssumption` asks for what the code's arguments are: whole steps of the
  mid, jumps in order of time and within the duration, positive sizes.

Checked by TLC only: all liveness properties, for the prover does not treat
fairness.

## 6. What is not modelled
* **Floating point.** Prices, sizes and PnL are integers. Rounding noise, the
  `1e-9` slacks of the snapping functions and the epsilon comparisons that exist
  only because of it are left out.
* **Formulas.** Logarithms, roots and exponentials in the pricing rules are
  constants of `Quoting`; what microprice and OFI add to the mid, and the VPIN
  gate, are nondeterministic inputs there. Of an estimate `Calibration` keeps its
  kind. `microprice`, the value of VPIN, the Hawkes processes and the validation
  statistics are stateless numerical code and are not modelled.
* **Distributions.** A draw of `SyntheticFeed` is any of its values; that makers fill
  at the rates of the theory is for the statistical tests.
* **Output.** The records of the paper trader's log, the PnL series, the result
  summary and the warnings of the scripts, logging.
* **Settings.** The validation of the YAML file (`config.py`) and the parsing of
  command lines.
* **Outside the repository.** The exchange's matching, the network and Python's
  file buffering are modelled as the environment and marked external in
  `PROJECT.json`.
* **Parts of the queue.** `QueueEstimate` has one level, at which public orders join and
  are cancelled as a whole; a reduction in place is not modelled. A join or a
  cancellation is published at once and happens neither between a trade and its level
  update nor in a burst after its first trade, and the updates come in order: what a
  late or reordered update does to the estimate no run asks. How early a fill may
  come is not bounded.
* **Schemas.** Field validation is abstracted to three kinds of record: valid,
  of unknown type, invalid.
