--------------------------- MODULE OrderLifecycle ---------------------------
(***************************************************************************)
(* What placing an order promises a strategy, whichever runner it trades   *)
(* through (strategies/base.py SimulatorAPI): an order travels before it   *)
(* rests, it is filled up to its size and not beyond, it ends by being     *)
(* filled completely or by a cancellation that was asked for, and an order *)
(* that has ended never trades again.  A runner that stops withdraws all   *)
(* its orders and does nothing more.                                       *)
(*                                                                         *)
(* Backtester and PaperTrader implement this specification.                *)
(***************************************************************************)
EXTENDS Integers

CONSTANT Orders       \* order ids

VARIABLES
    phase,            \* where each order is
    size,             \* the size it was placed with
    filled,           \* how much of it has been filled
    cancelAsked,      \* the orders whose cancellation was requested
    stopped           \* the runner has stopped trading

vars == <<phase, size, filled, cancelAsked, stopped>>

Phases == {"unborn", "inflight", "resting", "done"}

TypeOK ==
    /\ phase \in [Orders -> Phases]
    /\ size \in [Orders -> Nat]
    /\ filled \in [Orders -> Nat]
    /\ cancelAsked \subseteq Orders
    /\ stopped \in BOOLEAN

Init ==
    /\ phase = [o \in Orders |-> "unborn"]
    /\ size = [o \in Orders |-> 0]
    /\ filled = [o \in Orders |-> 0]
    /\ cancelAsked = {}
    /\ stopped = FALSE

-----------------------------------------------------------------------------
\* The moves of one order; a step moves any number of orders at once.

Stay(o) ==
    phase'[o] = phase[o] /\ size'[o] = size[o] /\ filled'[o] = filled[o]

Submit(o) ==
    /\ phase[o] = "unborn" /\ ~stopped
    /\ phase'[o] = "inflight"
    /\ size'[o] > 0
    /\ filled'[o] = 0

\* It reaches the book, and may take liquidity there before it rests.
Arrive(o) ==
    /\ phase[o] = "inflight"
    /\ size'[o] = size[o]
    /\ filled'[o] \in filled[o] .. size[o]
    /\ phase'[o] = IF filled'[o] = size[o] THEN "done" ELSE "resting"

Fill(o) ==
    /\ phase[o] = "resting"
    /\ size'[o] = size[o]
    /\ filled'[o] \in (filled[o] + 1) .. size[o]
    /\ phase'[o] = IF filled'[o] = size[o] THEN "done" ELSE "resting"

Withdraw(o) ==
    /\ phase[o] \in {"inflight", "resting"}
    /\ o \in cancelAsked \/ (stopped' /\ ~stopped)
    /\ phase'[o] = "done"
    /\ size'[o] = size[o]
    /\ filled'[o] = filled[o]

\* Halting withdraws every live order in the step that stops the runner.
StopsClean == stopped' => \A o \in Orders : phase'[o] \in {"unborn", "done"}

Next ==
    /\ phase' \in [Orders -> Phases]
    /\ size' \in [Orders -> Nat]
    /\ filled' \in [Orders -> Nat]
    /\ \A o \in Orders :
          Stay(o) \/ Submit(o) \/ Arrive(o) \/ Fill(o) \/ Withdraw(o)
    /\ cancelAsked' \in SUBSET Orders /\ cancelAsked \subseteq cancelAsked'
    /\ stopped' \in BOOLEAN /\ (stopped => stopped')
    /\ StopsClean

Spec == Init /\ [][Next]_vars

-----------------------------------------------------------------------------
\* No order is overfilled, nothing trades before it is placed, and an order
\* that ended short of its size was cancelled or withdrawn by a stop.
Conserved ==
    \A o \in Orders :
        /\ filled[o] <= size[o]
        /\ phase[o] = "inflight" => filled[o] = 0
        /\ phase[o] = "resting" => filled[o] < size[o]
        /\ phase[o] = "done" /\ filled[o] < size[o] => o \in cancelAsked \/ stopped
=============================================================================
