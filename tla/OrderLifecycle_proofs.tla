----------------------- MODULE OrderLifecycle_proofs -----------------------
(***************************************************************************)
(* Proofs about OrderLifecycle, for every set of orders and every size.    *)
(* Backtester and PaperTrader refine OrderLifecycle (the theorems          *)
(* BacktesterKeepsLifecycle and PaperTraderKeepsLifecycle), so what is     *)
(* proved here of its behaviours holds of theirs.                          *)
(***************************************************************************)
EXTENDS OrderLifecycle, TLAPS

\* After a stop every order that was ever placed has ended.
StoppedIsEmpty == stopped => \A o \in Orders : phase[o] \in {"unborn", "done"}

IInv == TypeOK /\ Conserved /\ StoppedIsEmpty

\* In the initial state no order exists.
LEMMA InitInv == Init => IInv
<1> SUFFICES ASSUME Init PROVE IInv
  OBVIOUS
<1>1. TypeOK
  BY DEF Init, TypeOK, Phases
<1>2. Conserved
  <2> SUFFICES ASSUME NEW o \in Orders
               PROVE  /\ filled[o] <= size[o]
                      /\ phase[o] \notin {"inflight", "resting", "done"}
    BY DEF Conserved
  <2>1. phase[o] = "unborn" /\ size[o] = 0 /\ filled[o] = 0
    BY DEF Init
  <2> QED
    BY <2>1
<1>3. StoppedIsEmpty
  BY DEF Init, StoppedIsEmpty
<1> QED
  BY <1>1, <1>2, <1>3 DEF IInv

\* One order at a time: whatever its move, its share of Conserved survives.
LEMMA MoveConserves ==
    ASSUME IInv, Next, NEW o \in Orders
    PROVE  /\ filled'[o] <= size'[o]
           /\ phase'[o] = "inflight" => filled'[o] = 0
           /\ phase'[o] = "resting" => filled'[o] < size'[o]
           /\ phase'[o] = "done" /\ filled'[o] < size'[o] => o \in cancelAsked' \/ stopped'
<1>1. /\ filled[o] \in Nat /\ size[o] \in Nat
      /\ filled'[o] \in Nat /\ size'[o] \in Nat
  BY DEF IInv, TypeOK, Next
<1>2. /\ filled[o] <= size[o]
      /\ phase[o] = "inflight" => filled[o] = 0
      /\ phase[o] = "resting" => filled[o] < size[o]
      /\ phase[o] = "done" /\ filled[o] < size[o] => o \in cancelAsked \/ stopped
  BY DEF IInv, Conserved
<1>3. cancelAsked \subseteq cancelAsked' /\ (stopped => stopped')
  BY DEF Next
<1>4. CASE Stay(o)
  BY <1>2, <1>3, <1>4 DEF Stay
<1>5. CASE Submit(o)
  BY <1>1, <1>5 DEF Submit
<1>6. CASE Arrive(o)
  BY <1>1, <1>2, <1>6 DEF Arrive
<1>7. CASE Fill(o)
  BY <1>1, <1>2, <1>7 DEF Fill
<1>8. CASE Withdraw(o)
  BY <1>1, <1>2, <1>3, <1>8 DEF Withdraw
<1> QED
  BY <1>4, <1>5, <1>6, <1>7, <1>8 DEF Next

\* Every step keeps the invariant.
LEMMA StepInv == IInv /\ [Next]_vars => IInv'
<1> SUFFICES ASSUME IInv, [Next]_vars
             PROVE  IInv'
  OBVIOUS
<1>1. CASE UNCHANGED vars
  BY <1>1 DEF vars, IInv, TypeOK, Conserved, StoppedIsEmpty
<1>2. CASE Next
  <2>1. TypeOK'
    BY <1>2 DEF Next, TypeOK, IInv
  <2>2. Conserved'
    BY <1>2, MoveConserves DEF Conserved
  <2>3. StoppedIsEmpty'
    BY <1>2 DEF Next, StopsClean, StoppedIsEmpty
  <2> QED
    BY <2>1, <2>2, <2>3 DEF IInv
<1> QED
  BY <1>1, <1>2

\* No order is overfilled, none trades before it is placed, and one that
\* ended short of its size was cancelled or withdrawn by a stop.
THEOREM OrdersConserved == Spec => []Conserved
<1>1. IInv => Conserved
  BY DEF IInv
<1> QED
  BY <1>1, InitInv, StepInv, PTL DEF Spec

\* An order that has ended stays ended and never trades again, whether it
\* ended by its last fill, by a cancellation or by a halt.
EndedStaysEnded ==
    \A o \in Orders : phase[o] = "done" =>
        phase'[o] = "done" /\ filled'[o] = filled[o] /\ size'[o] = size[o]

\* What the cancellation and the halt of a runner promise a strategy.
THEOREM EndIsFinal == Spec => [][EndedStaysEnded]_vars
<1>1. [Next]_vars => [EndedStaysEnded]_vars
  BY DEF Next, EndedStaysEnded, vars, Stay, Submit, Arrive, Fill, Withdraw
<1> QED
  BY <1>1, PTL DEF Spec

\* A runner that has stopped does nothing more: no order is born, moves or
\* trades in any later step.
NothingMoves == stopped =>
    \A o \in Orders : phase'[o] = phase[o] /\ filled'[o] = filled[o]

\* What _on_halt of the paper trader promises.
THEOREM StopIsFinal == Spec => [][NothingMoves]_vars
<1>1. IInv /\ [Next]_vars => [NothingMoves]_vars
  <2> SUFFICES ASSUME IInv, Next, stopped, NEW o \in Orders
               PROVE  phase'[o] = phase[o] /\ filled'[o] = filled[o]
    BY DEF NothingMoves
  <2>1. phase[o] \in {"unborn", "done"}
    BY DEF IInv, StoppedIsEmpty
  <2> QED
    BY <2>1 DEF Next, Stay, Submit, Arrive, Fill, Withdraw
<1> QED
  BY <1>1, InitInv, StepInv, PTL DEF Spec
=============================================================================
