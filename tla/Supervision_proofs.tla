------------------------- MODULE Supervision_proofs -------------------------
(***************************************************************************)
(* What watches over a running program: the kill switch (KillSwitch) and   *)
(* the client with its watchdogs and shutdown (Session).                   *)
(*                                                                         *)
(* Kill switch: its peak, anchor and latch summarise the whole session     *)
(* exactly, so that it halts for every breach of the session and for       *)
(* nothing else, for all limits and all sequences of calls.                *)
(*                                                                         *)
(* Session: nothing is written to a log or a tape that has been closed,    *)
(* the watchdog closes no connection that lives, and the delay between two *)
(* attempts follows the failures, for all timeouts and delays and however  *)
(* the tasks are interleaved.                                              *)
(***************************************************************************)
EXTENDS KillSwitch, Session, WellFoundedInduction, TLAPS

-----------------------------------------------------------------------------
\* The kill switch.

\* What the switch's fields mean in terms of the session.
PeakIsHighest ==
    /\ \A i \in DOMAIN curve : curve[i].pnl <= switch.peak
    /\ switch.peak = 0 \/ \E i \in DOMAIN curve : curve[i].pnl = switch.peak

AnchorOpensTheDay ==
    /\ curve = <<>> <=> switch.day = None
    /\ curve # <<>> =>
         /\ switch.day = curve[Len(curve)].day
         /\ \E i \in DOMAIN curve :
               /\ OpensItsDay(i) /\ OneDay(i, Len(curve))
               /\ curve[i].pnl = switch.dailyAnchor

SwitchFollows ==
    /\ TypeOK
    /\ switch.lastEvent = heard
    /\ PeakIsHighest
    /\ AnchorOpensTheDay
    /\ EveryBreachHalts
    /\ HaltsOnlyForBreach

-----------------------------------------------------------------------------
\* The drawdown rule looks at the peak alone, and that is enough: a fall that
\* is too deep from some height is too deep from any greater height.
LEMMA TooDeepMonotone ==
    ASSUME NEW g \in Int, NEW h \in Int, NEW p \in Int, h <= g, TooDeep(h, p)
    PROVE  TooDeep(g, p)
<1> DEFINE G == Larger(g, BaselineCapital)
           H == Larger(h, BaselineCapital)
<1>1. BaselineCapital \in Int /\ DrawdownNum \in Int /\ DrawdownDen \in Int
      /\ 0 < DrawdownNum /\ DrawdownNum < DrawdownDen
  BY LimitsAssumption
<1>2. G \in Int /\ H \in Int /\ 0 <= G - H /\ G - H <= g - h
  BY <1>1 DEF Larger
<1> HIDE DEF G, H
<1>3. \A x, y, n, d \in Int :
         0 <= x /\ x <= y /\ 0 < n /\ n < d => n * x <= d * y
  <2> SUFFICES ASSUME NEW x \in Int, NEW y \in Int, NEW n \in Int, NEW d \in Int,
                      0 <= x, x <= y, 0 < n, n < d
               PROVE  n * x <= d * y
    OBVIOUS
  <2>1. n * x <= d * x
    OBVIOUS
  <2>2. d * x <= d * y
    OBVIOUS
  <2> QED
    BY <2>1, <2>2
<1>4. DrawdownNum * (G - H) <= DrawdownDen * (g - h)
  BY <1>1, <1>2, <1>3
<1>5. (h - p) * DrawdownDen > DrawdownNum * H
  BY DEF TooDeep, H
<1>6. (g - p) * DrawdownDen = (h - p) * DrawdownDen + DrawdownDen * (g - h)
  BY <1>1
<1>7. DrawdownNum * G = DrawdownNum * H + DrawdownNum * (G - H)
  BY <1>1, <1>2
<1>8. (g - p) * DrawdownDen > DrawdownNum * G
  <2> DEFINE a == (g - p) * DrawdownDen
             b == (h - p) * DrawdownDen
             c == DrawdownDen * (g - h)
             d == DrawdownNum * G
             e == DrawdownNum * H
             f == DrawdownNum * (G - H)
  <2>1. a \in Int /\ b \in Int /\ c \in Int /\ d \in Int /\ e \in Int /\ f \in Int
    BY <1>1, <1>2
  <2>2. a = b + c /\ d = e + f /\ f <= c /\ b > e
    BY <1>4, <1>5, <1>6, <1>7
  <2> HIDE DEF a, b, c, d, e, f
  <2>3. a > d
    BY <2>1, <2>2
  <2> QED
    BY <2>3 DEF a, d
<1> QED
  BY <1>8 DEF TooDeep, G

-----------------------------------------------------------------------------
\* __init__ and reset() give every field a value of its type.
LEMMA NewSwitchTyped == NewSwitch \in Switches
<1>1. None \in Nat \cup {None} /\ "none" \in HaltReasons
  BY DEF HaltReasons
<1> QED
  BY <1>1 DEF NewSwitch, Switches

\* The six fields tick() writes, and what it leaves of the record's type.
LEMMA ObservedTyped ==
    ASSUME NEW k \in Switches, NEW peak \in Nat, NEW loss \in Nat,
           NEW anchor \in Int, NEW day \in Nat, NEW inv \in Int, NEW now \in Nat
    PROVE  [k EXCEPT !.inventory = inv, !.lastEvent = now, !.peak = peak,
                     !.day = day, !.dailyAnchor = anchor, !.dailyLoss = loss]
               \in Switches
  BY DEF Switches

\* The types of the switch's record under each method.
LEMMA SwitchTyped ==
    ASSUME TypeOK, NEW pnl \in Int
    PROVE  /\ Observe(switch, clock, pnl, 0) \in Switches
           /\ Tick(switch, clock, pnl, 0) \in Switches
           /\ NoteWsMessage(switch, clock) \in Switches
           /\ HeartbeatCheck(switch, clock) \in Switches
           /\ Day(clock) \in Nat
<1>1. Day(clock) \in Nat
  BY LimitsAssumption DEF TypeOK, Day
<1>2. \A k \in Switches, r \in HaltReasons : Trip(k, r) \in Switches
  BY DEF Switches, Trip
<1>3. Observe(switch, clock, pnl, 0) \in Switches
  <2> DEFINE peak == Peak(switch.peak, pnl)
             anchor == IF OpensDay(switch, clock) THEN pnl ELSE switch.dailyAnchor
             loss == IF OpensDay(switch, clock) THEN 0
                     ELSE Larger(0, switch.dailyAnchor - pnl)
             day == Day(clock)
  <2>1. switch \in Switches /\ clock \in Nat /\ switch.dailyAnchor \in Int
    BY DEF TypeOK, Switches
  <2>2. peak \in Nat
    BY DEF TypeOK, Switches, Peak, Larger
  <2>3. anchor \in Int /\ loss \in Nat /\ day \in Nat /\ 0 \in Int
    BY <1>1, <2>1 DEF Larger
  <2>4. Observe(switch, clock, pnl, 0)
          = [switch EXCEPT !.inventory = 0, !.lastEvent = clock, !.peak = peak,
                !.day = day, !.dailyAnchor = anchor, !.dailyLoss = loss]
    BY Zenon DEF Observe
  <2> HIDE DEF peak, anchor, loss, day
  <2>5. [switch EXCEPT !.inventory = 0, !.lastEvent = clock, !.peak = peak,
                !.day = day, !.dailyAnchor = anchor, !.dailyLoss = loss] \in Switches
    BY <2>1, <2>2, <2>3, ObservedTyped, Zenon
  <2> QED
    BY <2>4, <2>5, Zenon
<1>4. Tick(switch, clock, pnl, 0) \in Switches
  BY <1>2, <1>3 DEF Tick, HaltReasons
<1>5. NoteWsMessage(switch, clock) \in Switches
  BY DEF TypeOK, Switches, NoteWsMessage
<1>6. HeartbeatCheck(switch, clock) \in Switches
  BY <1>2 DEF TypeOK, HeartbeatCheck, HaltReasons
<1> QED
  BY <1>1, <1>3, <1>4, <1>5, <1>6

\* The initial state is well typed.
LEMMA TypeInit == SwitchInit => TypeOK
<1> SUFFICES ASSUME SwitchInit PROVE TypeOK
  OBVIOUS
<1>1. switch \in Switches
  BY NewSwitchTyped DEF SwitchInit
<1>2. curve \in Seq(Points) /\ clock \in Nat
  BY DEF SwitchInit
<1>3. heard \in Nat \cup {None} /\ silenceSeen \in BOOLEAN
  BY DEF SwitchInit
<1> QED
  BY <1>1, <1>2, <1>3, Zenon DEF TypeOK

\* Every method of the switch keeps the types.
LEMMA TypeStep == ASSUME TypeOK, [SwitchNext]_switchVars PROVE TypeOK'
<1>1. CASE \E pnl \in PnLs : TickEvent(pnl)
  <2> PICK pnl \in PnLs : TickEvent(pnl)
    BY <1>1
  <2>1. pnl \in Int /\ Day(clock) \in Nat
    BY EnvironmentAssumption, SwitchTyped
  <2>2. curve' \in Seq(Points)
    BY <2>1 DEF TickEvent, TypeOK, Points
  <2> QED
    BY <2>1, <2>2, SwitchTyped DEF TickEvent, TypeOK
<1>2. CASE RawMessage
  BY <1>2, SwitchTyped DEF RawMessage, TypeOK
<1>3. CASE WatchdogCheck
  BY <1>3, SwitchTyped DEF WatchdogCheck, TypeOK
<1>4. CASE ManualReset
  <2>1. switch' \in Switches
    BY <1>4, NewSwitchTyped DEF ManualReset, Reset
  <2>2. curve' \in Seq(Points) /\ clock' \in Nat
    BY <1>4 DEF ManualReset, TypeOK
  <2>3. heard' \in Nat \cup {None} /\ silenceSeen' \in BOOLEAN
    BY <1>4 DEF ManualReset
  <2> QED
    BY <2>1, <2>2, <2>3, Zenon DEF TypeOK
<1>5. CASE PassTime
  BY <1>5 DEF PassTime, TypeOK
<1>6. CASE UNCHANGED switchVars
  BY <1>6 DEF switchVars, TypeOK
<1> QED
  BY <1>1, <1>2, <1>3, <1>4, <1>5, <1>6 DEF SwitchNext

\* The fields of the switch and the history keep their types.
THEOREM TypeCorrect == SwitchSpec => []TypeOK
<1>1. SwitchInit => TypeOK
  BY TypeInit
<1>2. TypeOK /\ [SwitchNext]_switchVars => TypeOK'
  BY TypeStep
<1> QED
  BY <1>1, <1>2, PTL DEF SwitchSpec

-----------------------------------------------------------------------------
\* A tick appends one point to the session and leaves the others alone.
LEMMA TickAppends ==
    ASSUME TypeOK, NEW pnl \in Int, TickEvent(pnl)
    PROVE  /\ Len(curve') = Len(curve) + 1
           /\ Len(curve) \in Nat
           /\ DOMAIN curve = 1 .. Len(curve)
           /\ DOMAIN curve' = 1 .. (Len(curve) + 1)
           /\ \A i \in 1 .. Len(curve) : curve'[i] = curve[i]
           /\ \A i \in 1 .. Len(curve) : curve[i].pnl \in Int /\ curve[i].day \in Nat
           /\ curve'[Len(curve) + 1].pnl = pnl
           /\ curve'[Len(curve) + 1].day = Day(clock)
<1> DEFINE p == [day |-> Day(clock), pnl |-> pnl]
<1>1. curve \in Seq(Points) /\ curve' = Append(curve, p)
  BY DEF TypeOK, TickEvent
<1>2. p \in Points /\ p.pnl = pnl /\ p.day = Day(clock)
  BY SwitchTyped DEF Points
<1>3. \A i \in 1 .. Len(curve) : curve[i] \in Points
  BY <1>1
<1>4. \A i \in 1 .. Len(curve) : curve[i].pnl \in Int /\ curve[i].day \in Nat
  BY <1>3 DEF Points
<1> HIDE DEF p
<1> QED
  BY <1>1, <1>2, <1>4

\* What a tick does to the fields of the switch.
LEMMA TickFields ==
    ASSUME TypeOK, NEW pnl \in Int, TickEvent(pnl),
           NEW o, o = Observe(switch, clock, pnl, 0)
    PROVE  /\ o.peak = Peak(switch.peak, pnl)
           /\ o.day = Day(clock)
           /\ OpensDay(switch, clock) =>
                 o.dailyAnchor = pnl /\ o.dailyLoss = 0
           /\ ~OpensDay(switch, clock) =>
                 /\ o.dailyAnchor = switch.dailyAnchor
                 /\ o.dailyLoss = Larger(0, switch.dailyAnchor - pnl)
           /\ switch'.peak = o.peak
           /\ switch'.day = o.day
           /\ switch'.dailyAnchor = o.dailyAnchor
           /\ switch'.lastEvent = clock
           /\ switch'.halted <=> switch.halted \/ DrawdownBreached(o, pnl)
                                               \/ DailyLossBreached(o)
           /\ (switch.halted <=> switch.reason # "none") =>
                 (switch'.halted <=> switch'.reason # "none")
<1>1. switch \in Switches /\ o \in Switches
  BY SwitchTyped DEF TypeOK
<1>2. /\ o.peak = Peak(switch.peak, pnl)
      /\ o.day = Day(clock)
      /\ o.lastEvent = clock
      /\ o.halted = switch.halted
      /\ o.reason = switch.reason
      /\ o.dailyAnchor = IF OpensDay(switch, clock) THEN pnl ELSE switch.dailyAnchor
      /\ o.dailyLoss = IF OpensDay(switch, clock) THEN 0
                       ELSE Larger(0, switch.dailyAnchor - pnl)
  BY <1>1 DEF Observe, Switches
<1>3. \A r \in {"max_drawdown", "daily_loss"} :
         /\ Trip(o, r).peak = o.peak
         /\ Trip(o, r).day = o.day
         /\ Trip(o, r).dailyAnchor = o.dailyAnchor
         /\ Trip(o, r).lastEvent = o.lastEvent
         /\ Trip(o, r).halted = TRUE
         /\ Trip(o, r).reason = r
  BY <1>1 DEF Trip, Switches
<1>4. switch' = Tick(switch, clock, pnl, 0)
  BY DEF TickEvent
<1>5. CASE DrawdownBreached(o, pnl)
  <2>1. switch' = Trip(o, "max_drawdown")
    BY <1>4, <1>5 DEF Tick
  <2> QED
    BY <1>2, <1>3, <1>5, <2>1
<1>6. CASE ~DrawdownBreached(o, pnl) /\ DailyLossBreached(o)
  <2>1. switch' = Trip(o, "daily_loss")
    BY <1>4, <1>6 DEF Tick
  <2> QED
    BY <1>2, <1>3, <1>6, <2>1
<1>7. CASE ~DrawdownBreached(o, pnl) /\ ~DailyLossBreached(o)
  <2>1. switch' = o
    BY <1>4, <1>7 DEF Tick
  <2> QED
    BY <1>1, <1>2, <1>7, <2>1 DEF Switches
<1> QED
  BY <1>5, <1>6, <1>7

\* The peak stays the height of the session.
LEMMA TickKeepsPeak ==
    ASSUME TypeOK, PeakIsHighest, NEW pnl \in Int, TickEvent(pnl)
    PROVE  PeakIsHighest'
<1> DEFINE n == Len(curve)
           o == Observe(switch, clock, pnl, 0)
<1>1. switch'.peak = Peak(switch.peak, pnl)
  BY TickFields
<1>2. switch.peak \in Nat
  BY DEF TypeOK, Switches
<1>3. switch.peak <= switch'.peak /\ pnl <= switch'.peak
      /\ (switch'.peak = switch.peak \/ switch'.peak = pnl)
  BY <1>1, <1>2 DEF Peak, Larger
<1>4. switch'.peak \in Int
  BY <1>1, <1>2 DEF Peak, Larger
<1>5. \A i \in DOMAIN curve' : curve'[i].pnl <= switch'.peak
  <2> SUFFICES ASSUME NEW i \in DOMAIN curve'
               PROVE  curve'[i].pnl <= switch'.peak
    OBVIOUS
  <2>1. CASE i = n + 1
    BY <1>3, <2>1, TickAppends
  <2>2. CASE i \in 1 .. n
    <3>1. curve'[i] = curve[i] /\ curve[i].pnl \in Int /\ curve[i].pnl <= switch.peak
      BY <2>2, TickAppends DEF PeakIsHighest
    <3> QED
      BY <1>2, <1>3, <1>4, <3>1
  <2> QED
    BY <2>1, <2>2, TickAppends
<1>6. switch'.peak = 0 \/ \E i \in DOMAIN curve' : curve'[i].pnl = switch'.peak
  <2>1. CASE switch'.peak = pnl
    <3>1. n + 1 \in DOMAIN curve' /\ curve'[n + 1].pnl = pnl
      BY TickAppends
    <3> QED
      BY <2>1, <3>1
  <2>2. CASE switch'.peak = switch.peak /\ switch.peak # 0
    <3>1. PICK i \in DOMAIN curve : curve[i].pnl = switch.peak
      BY <2>2 DEF PeakIsHighest
    <3>2. i \in DOMAIN curve' /\ curve'[i] = curve[i]
      BY <3>1, TickAppends
    <3> QED
      BY <2>2, <3>1, <3>2
  <2> QED
    BY <1>3, <2>1, <2>2
<1> QED
  BY <1>5, <1>6 DEF PeakIsHighest

\* The drawdown rule, which looks at the peak, sees exactly the falls that
\* the whole session contains.
LEMMA TickSeesDrawdown ==
    ASSUME TypeOK, PeakIsHighest, NEW pnl \in Int, TickEvent(pnl),
           NEW o, o = Observe(switch, clock, pnl, 0)
    PROVE  DrawdownOnRecord' <=> DrawdownOnRecord \/ DrawdownBreached(o, pnl)
<1> DEFINE n == Len(curve)
<1>1. PeakIsHighest'
  BY TickKeepsPeak
<1>2. o.peak = switch'.peak /\ o.peak \in Int /\ 0 <= o.peak
  <2>1. switch.peak \in Nat /\ o.peak = Peak(switch.peak, pnl)
    BY TickFields DEF TypeOK, Switches
  <2> QED
    BY <2>1, TickFields DEF Peak, Larger
<1>3. DrawdownBreached(o, pnl) <=> TooDeep(o.peak, pnl)
  BY DEF DrawdownBreached, TooDeep
<1>4. ASSUME DrawdownBreached(o, pnl)
      PROVE  DrawdownOnRecord'
  <2>1. n + 1 \in DOMAIN curve' /\ curve'[n + 1].pnl = pnl /\ n \in Nat
    BY TickAppends
  <2>2. CASE o.peak = 0
    <3>1. TooDeep(0, curve'[n + 1].pnl)
      BY <1>3, <1>4, <2>1, <2>2
    <3> QED
      BY <2>1, <3>1 DEF DrawdownOnRecord, TooDeep
  <2>3. CASE o.peak # 0
    <3>1. PICK i \in DOMAIN curve' : curve'[i].pnl = o.peak
      BY <1>1, <1>2, <2>3 DEF PeakIsHighest
    <3>2. i \in 1 .. (n + 1)
      BY TickAppends
    <3>3. TooDeep(curve'[i].pnl, curve'[n + 1].pnl)
      BY <1>3, <1>4, <2>1, <3>1
    <3> QED
      BY <2>1, <3>2, <3>3 DEF DrawdownOnRecord, TooDeep
  <2> QED
    BY <2>2, <2>3
<1>5. ASSUME DrawdownOnRecord
      PROVE  DrawdownOnRecord'
  <2>1. PICK j \in DOMAIN curve :
           \/ TooDeep(0, curve[j].pnl)
           \/ \E i \in 1..j : TooDeep(curve[i].pnl, curve[j].pnl)
    BY <1>5 DEF DrawdownOnRecord
  <2>2. j \in DOMAIN curve' /\ j \in 1 .. n
        /\ \A i \in 1..j : curve'[i] = curve[i]
    BY TickAppends
  <2>3. curve'[j] = curve[j]
    BY <2>2, TickAppends
  <2> QED
    BY <2>1, <2>2, <2>3 DEF DrawdownOnRecord, TooDeep
<1>6. ASSUME DrawdownOnRecord', ~DrawdownOnRecord
      PROVE  DrawdownBreached(o, pnl)
  <2>1. PICK j \in DOMAIN curve' :
           \/ TooDeep(0, curve'[j].pnl)
           \/ \E i \in 1..j : TooDeep(curve'[i].pnl, curve'[j].pnl)
    BY <1>6 DEF DrawdownOnRecord, TooDeep
  <2>2. j = n + 1
    <3> SUFFICES ASSUME j \in 1 .. n PROVE FALSE
      BY TickAppends
    <3>1. j \in DOMAIN curve /\ curve'[j] = curve[j]
          /\ \A i \in 1..j : curve'[i] = curve[i]
      BY TickAppends
    <3> QED
      BY <1>6, <2>1, <3>1 DEF DrawdownOnRecord
  <2>3. PICK h \in Int : h <= o.peak /\ TooDeep(h, pnl)
    <3>1. curve'[j].pnl = pnl
      BY <2>2, TickAppends
    <3>2. CASE TooDeep(0, curve'[j].pnl)
      BY <1>2, <3>1, <3>2
    <3>3. CASE \E i \in 1..j : TooDeep(curve'[i].pnl, curve'[j].pnl)
      <4>1. PICK i \in 1..j : TooDeep(curve'[i].pnl, curve'[j].pnl)
        BY <3>3
      <4>2. i \in DOMAIN curve'
        BY <2>2, TickAppends
      <4>3. curve'[i].pnl \in Int
        BY <4>2, TickAppends
      <4>4. curve'[i].pnl <= o.peak
        BY <1>1, <1>2, <4>2 DEF PeakIsHighest
      <4> QED
        BY <3>1, <4>1, <4>3, <4>4
    <3> QED
      BY <2>1, <3>2, <3>3
  <2>4. TooDeep(o.peak, pnl)
    BY <1>2, <2>3, TooDeepMonotone
  <2> QED
    BY <1>3, <2>4
<1> QED
  BY <1>4, <1>5, <1>6

-----------------------------------------------------------------------------
\* Days of the session before and after a tick.
LEMMA TickDays ==
    ASSUME TypeOK, NEW pnl \in Int, TickEvent(pnl), NEW n, n = Len(curve)
    PROVE  /\ \A i \in 1 .. n : OpensItsDay(i)' <=> OpensItsDay(i)
           /\ \A i, j \in 1 .. n : OneDay(i, j)' <=> OneDay(i, j)
           /\ \A i \in 1 .. n :
                 OneDay(i, n + 1)' <=> OneDay(i, n) /\ curve[n].day = Day(clock)
           /\ OneDay(n + 1, n + 1)'
           /\ OpensItsDay(n + 1)' <=> curve = <<>> \/ curve[n].day # Day(clock)
<1>1. n \in Nat /\ \A i \in 1 .. n : curve'[i] = curve[i] /\ curve[i].day \in Nat
  BY TickAppends
<1>2. curve'[n + 1].day = Day(clock) /\ Day(clock) \in Nat
  BY TickAppends, SwitchTyped
<1>3. curve = <<>> <=> n = 0
  BY DEF TypeOK
<1>4. \A i \in 1 .. n : OpensItsDay(i)' <=> OpensItsDay(i)
  BY <1>1 DEF OpensItsDay
<1>5. \A i, j \in 1 .. n : OneDay(i, j)' <=> OneDay(i, j)
  BY <1>1 DEF OneDay
<1>6. \A i \in 1 .. n :
         OneDay(i, n + 1)' <=> OneDay(i, n) /\ curve[n].day = Day(clock)
  <2> SUFFICES ASSUME NEW i \in 1 .. n
               PROVE  OneDay(i, n + 1)' <=> OneDay(i, n) /\ curve[n].day = Day(clock)
    OBVIOUS
  <2>1. i .. (n + 1) = (i .. n) \cup {n + 1} /\ n \in i .. n
    BY <1>1
  <2>2. OneDay(i, n + 1)' <=> \A m \in i .. (n + 1) : curve'[m].day = curve'[i].day
    BY DEF OneDay
  <2>3. \A m \in i .. n : curve'[m] = curve[m]
    BY <1>1
  <2>4. curve'[i] = curve[i]
    BY <1>1
  <2> QED
    BY <1>2, <2>1, <2>2, <2>3, <2>4 DEF OneDay
<1>7. OneDay(n + 1, n + 1)'
  BY <1>1 DEF OneDay
<1>8. OpensItsDay(n + 1)' <=> curve = <<>> \/ curve[n].day # Day(clock)
  BY <1>1, <1>2, <1>3 DEF OpensItsDay
<1> QED
  BY <1>4, <1>5, <1>6, <1>7, <1>8

\* A tick opens a day exactly when it is the first of its day on record.
LEMMA TickOpensDay ==
    ASSUME TypeOK, AnchorOpensTheDay
    PROVE  OpensDay(switch, clock) <=>
              curve = <<>> \/ curve[Len(curve)].day # Day(clock)
  BY DEF AnchorOpensTheDay, OpensDay

\* The anchor stays the PnL of the first tick of the current day.
LEMMA TickKeepsAnchor ==
    ASSUME TypeOK, AnchorOpensTheDay, NEW pnl \in Int, TickEvent(pnl)
    PROVE  AnchorOpensTheDay'
<1> PICK n : n = Len(curve)
  OBVIOUS
<1>1. /\ switch'.day = Day(clock)
      /\ OpensDay(switch, clock) => switch'.dailyAnchor = pnl
      /\ ~OpensDay(switch, clock) => switch'.dailyAnchor = switch.dailyAnchor
  BY TickFields
<1>2. n \in Nat /\ Len(curve') = n + 1 /\ n + 1 \in DOMAIN curve'
      /\ curve'[n + 1].day = Day(clock) /\ curve'[n + 1].pnl = pnl
      /\ 1 .. n \subseteq DOMAIN curve'
  BY TickAppends
<1>3. curve' # <<>> /\ switch'.day # None
  <2>1. Day(clock) \in Nat
    BY SwitchTyped
  <2> QED
    BY <1>1, <1>2, <2>1 DEF None
<1>4. \E i \in DOMAIN curve' :
         /\ OpensItsDay(i)' /\ OneDay(i, n + 1)'
         /\ curve'[i].pnl = switch'.dailyAnchor
  <2>1. CASE OpensDay(switch, clock)
    <3>1. OpensItsDay(n + 1)' /\ OneDay(n + 1, n + 1)'
      BY <2>1, TickOpensDay, TickDays
    <3> QED
      BY <1>1, <1>2, <2>1, <3>1
  <2>2. CASE ~OpensDay(switch, clock)
    <3>1. curve # <<>> /\ curve[n].day = Day(clock)
      BY <2>2, TickOpensDay
    <3>2. PICK i \in DOMAIN curve :
             OpensItsDay(i) /\ OneDay(i, n) /\ curve[i].pnl = switch.dailyAnchor
      BY <3>1 DEF AnchorOpensTheDay
    <3>3. i \in 1 .. n /\ curve'[i] = curve[i]
      BY <3>2, TickAppends
    <3>4. OpensItsDay(i)' /\ OneDay(i, n + 1)'
      BY <3>1, <3>2, <3>3, TickDays
    <3> QED
      BY <1>1, <1>2, <2>2, <3>2, <3>3, <3>4
  <2> QED
    BY <2>1, <2>2
<1> QED
  BY <1>1, <1>2, <1>3, <1>4 DEF AnchorOpensTheDay

\* Only one tick can open the day that a later tick belongs to.
LEMMA OneAnchor ==
    ASSUME NEW j \in Nat, NEW i \in 1 .. j, NEW k \in 1 .. j,
           OpensItsDay(i)', OneDay(i, j)', OpensItsDay(k)', OneDay(k, j)'
    PROVE  i = k
<1>1. \A a, b \in 1 .. j : OpensItsDay(b)' /\ OneDay(a, j)' => ~(a < b)
  <2> SUFFICES ASSUME NEW a \in 1 .. j, NEW b \in 1 .. j,
                      OpensItsDay(b)', OneDay(a, j)', a < b
               PROVE  FALSE
    OBVIOUS
  <2>1. b - 1 \in a .. j /\ b \in a .. j /\ b # 1
    OBVIOUS
  <2>2. curve'[b - 1].day = curve'[a].day /\ curve'[b].day = curve'[a].day
    BY <2>1 DEF OneDay
  <2> QED
    BY <2>1, <2>2 DEF OpensItsDay
<1> QED
  BY <1>1

\* The daily rule, which looks at the anchor, sees exactly the losses of the
\* day that the session contains.
LEMMA TickSeesDailyLoss ==
    ASSUME TypeOK, AnchorOpensTheDay, NEW pnl \in Int, TickEvent(pnl),
           NEW o, o = Observe(switch, clock, pnl, 0)
    PROVE  DailyLossOnRecord' <=> DailyLossOnRecord \/ DailyLossBreached(o)
<1> PICK n : n = Len(curve)
  OBVIOUS
<1>1. n \in Nat /\ DOMAIN curve = 1 .. n /\ DOMAIN curve' = 1 .. (n + 1)
      /\ curve'[n + 1].pnl = pnl
      /\ \A i \in 1 .. n : curve'[i] = curve[i] /\ curve[i].pnl \in Int
  BY TickAppends
<1>2. PICK a \in 1 .. (n + 1) :
         OpensItsDay(a)' /\ OneDay(a, n + 1)' /\ curve'[a].pnl = switch'.dailyAnchor
  <2>1. AnchorOpensTheDay' /\ Len(curve') = n + 1 /\ curve' # <<>>
    BY TickKeepsAnchor, TickAppends
  <2> QED
    BY <1>1, <2>1 DEF AnchorOpensTheDay
<1>3. switch'.dailyAnchor \in Int
  <2>1. switch.dailyAnchor \in Int
    BY DEF TypeOK, Switches
  <2> QED
    BY <2>1, TickFields
<1>4. o.dailyLoss > DailyLossLimit <=> curve'[a].pnl - pnl > DailyLossLimit
  <2>1. o.dailyLoss = Larger(0, switch'.dailyAnchor - pnl)
    BY <1>3, TickFields DEF Larger
  <2> QED
    BY <1>2, <1>3, <2>1, LimitsAssumption DEF Larger
<1>5. \A i, j \in 1 .. n : LosesTheDay(i, j)' <=> LosesTheDay(i, j)
  BY <1>1, TickDays DEF LosesTheDay
<1>6. LosesTheDay(a, n + 1)' <=> o.dailyLoss > DailyLossLimit
  BY <1>1, <1>2, <1>4 DEF LosesTheDay
<1>7. \A i \in 1 .. (n + 1) : LosesTheDay(i, n + 1)' => i = a
  BY <1>1, <1>2, OneAnchor DEF LosesTheDay
<1>8. (\E j \in 1 .. (n + 1) : \E i \in 1 .. j : LosesTheDay(i, j)')
         <=> \/ \E j \in 1 .. n : \E i \in 1 .. j : LosesTheDay(i, j)
             \/ o.dailyLoss > DailyLossLimit
  <2>1. ASSUME NEW j \in 1 .. (n + 1), NEW i \in 1 .. j, LosesTheDay(i, j)'
        PROVE  \/ \E k \in 1 .. n : \E m \in 1 .. k : LosesTheDay(m, k)
               \/ o.dailyLoss > DailyLossLimit
    <3>1. CASE j = n + 1
      BY <1>6, <1>7, <2>1, <3>1
    <3>2. CASE j \in 1 .. n
      <4>1. i \in 1 .. n /\ LosesTheDay(i, j)
        BY <1>1, <1>5, <2>1, <3>2
      <4> QED
        BY <3>2, <4>1
    <3> QED
      BY <1>1, <3>1, <3>2
  <2>2. ASSUME NEW j \in 1 .. n, NEW i \in 1 .. j, LosesTheDay(i, j)
        PROVE  \E k \in 1 .. (n + 1) : \E m \in 1 .. k : LosesTheDay(m, k)'
    <3>1. i \in 1 .. n /\ j \in 1 .. (n + 1) /\ LosesTheDay(i, j)'
      BY <1>1, <1>5, <2>2
    <3> QED
      BY <3>1
  <2>3. ASSUME o.dailyLoss > DailyLossLimit
        PROVE  \E k \in 1 .. (n + 1) : \E m \in 1 .. k : LosesTheDay(m, k)'
    BY <1>1, <1>6, <2>3
  <2> QED
    BY <2>1, <2>2, <2>3
<1>9. DailyLossOnRecord' <=>
         DailyLossLimit # 0 /\ \E j \in 1 .. (n + 1) : \E i \in 1 .. j : LosesTheDay(i, j)'
  BY <1>1 DEF DailyLossOnRecord
<1>10. DailyLossOnRecord <=>
         DailyLossLimit # 0 /\ \E j \in 1 .. n : \E i \in 1 .. j : LosesTheDay(i, j)
  BY <1>1 DEF DailyLossOnRecord
<1> QED
  BY <1>8, <1>9, <1>10 DEF DailyLossBreached

-----------------------------------------------------------------------------
\* A step that adds no tick keeps what the record says of ticks.
LEMMA SameCurve ==
    ASSUME curve' = curve
    PROVE  /\ DrawdownOnRecord' <=> DrawdownOnRecord
           /\ DailyLossOnRecord' <=> DailyLossOnRecord
           /\ SwitchFollows /\ TypeOK' /\ switch'.lastEvent = heard'
                /\ switch'.peak = switch.peak /\ switch'.day = switch.day
                /\ switch'.dailyAnchor = switch.dailyAnchor
                /\ (silenceSeen => silenceSeen')
                /\ (switch'.halted <=> switch.halted \/ (silenceSeen' /\ ~silenceSeen))
                /\ (switch'.halted <=> switch'.reason # "none")
              => SwitchFollows'
<1>1. \A i, j : /\ OpensItsDay(i)' <=> OpensItsDay(i)
                /\ OneDay(i, j)' <=> OneDay(i, j)
                /\ LosesTheDay(i, j)' <=> LosesTheDay(i, j)
  BY DEF OpensItsDay, OneDay, LosesTheDay
<1>2. DrawdownOnRecord' <=> DrawdownOnRecord
  BY DEF DrawdownOnRecord, TooDeep
<1>3. DailyLossOnRecord' <=> DailyLossOnRecord
  BY <1>1 DEF DailyLossOnRecord
<1>4. ASSUME SwitchFollows, TypeOK', switch'.lastEvent = heard',
             switch'.peak = switch.peak, switch'.day = switch.day,
             switch'.dailyAnchor = switch.dailyAnchor,
             silenceSeen => silenceSeen',
             switch'.halted <=> switch.halted \/ (silenceSeen' /\ ~silenceSeen),
             switch'.halted <=> switch'.reason # "none"
      PROVE  SwitchFollows'
  <2>1. PeakIsHighest'
    BY <1>4 DEF SwitchFollows, PeakIsHighest
  <2>2. AnchorOpensTheDay'
    BY <1>1, <1>4 DEF SwitchFollows, AnchorOpensTheDay
  <2>3. EveryBreachHalts' /\ HaltsOnlyForBreach'
    BY <1>2, <1>3, <1>4
       DEF SwitchFollows, EveryBreachHalts, HaltsOnlyForBreach, BreachOnRecord
  <2> QED
    BY <1>4, <2>1, <2>2, <2>3 DEF SwitchFollows
<1> QED
  BY <1>2, <1>3, <1>4

\* A new session has no tick on record and a new switch.
LEMMA FreshSession ==
    ASSUME TypeOK', switch' = NewSwitch, curve' = <<>>, heard' = None,
           silenceSeen' = FALSE
    PROVE  SwitchFollows'
<1>1. switch'.peak = 0 /\ switch'.day = None /\ switch'.lastEvent = None
      /\ ~switch'.halted /\ switch'.reason = "none"
  BY DEF NewSwitch
<1>2. DOMAIN curve' = {}
  OBVIOUS
<1>3. ~BreachOnRecord'
  BY <1>2 DEF BreachOnRecord, DrawdownOnRecord, DailyLossOnRecord
<1> QED
  BY <1>1, <1>2, <1>3
     DEF SwitchFollows, PeakIsHighest, AnchorOpensTheDay, EveryBreachHalts, HaltsOnlyForBreach


-----------------------------------------------------------------------------
\* Every step keeps the inductive invariant.
LEMMA SwitchStep == ASSUME SwitchFollows, [SwitchNext]_switchVars PROVE SwitchFollows'
<1> USE DEF SwitchFollows
<1>0. TypeOK'
  BY TypeStep
<1>h. (silenceSeen => switch.halted) /\ (switch.halted <=> switch.reason # "none")
  BY DEF EveryBreachHalts, BreachOnRecord, HaltsOnlyForBreach
<1>1. CASE \E pnl \in PnLs : TickEvent(pnl)
  <2> PICK pnl \in PnLs : TickEvent(pnl)
    BY <1>1
  <2>1. pnl \in Int
    BY EnvironmentAssumption
  <2> DEFINE o == Observe(switch, clock, pnl, 0)
  <2>2. PeakIsHighest' /\ AnchorOpensTheDay'
    BY <2>1, TickKeepsPeak, TickKeepsAnchor
  <2>3. switch'.lastEvent = heard'
    BY <2>1, TickFields DEF TickEvent
  <2>4. BreachOnRecord' <=>
           BreachOnRecord \/ DrawdownBreached(o, pnl) \/ DailyLossBreached(o)
    <3>1. DrawdownOnRecord' <=> DrawdownOnRecord \/ DrawdownBreached(o, pnl)
      BY <2>1, TickSeesDrawdown
    <3>2. DailyLossOnRecord' <=> DailyLossOnRecord \/ DailyLossBreached(o)
      BY <2>1, TickSeesDailyLoss
    <3>3. silenceSeen' = silenceSeen
      BY DEF TickEvent
    <3> QED
      BY <3>1, <3>2, <3>3 DEF BreachOnRecord
  <2>5. switch'.halted <=>
           switch.halted \/ DrawdownBreached(o, pnl) \/ DailyLossBreached(o)
    BY <2>1, TickFields
  <2>6. switch'.halted <=> switch'.reason # "none"
    BY <2>1, TickFields DEF HaltsOnlyForBreach
  <2> QED
    BY <1>0, <2>2, <2>3, <2>4, <2>5, <2>6 DEF EveryBreachHalts, HaltsOnlyForBreach
<1>2. CASE RawMessage
  <2>1. /\ switch'.lastEvent = clock /\ heard' = clock
        /\ switch'.peak = switch.peak /\ switch'.day = switch.day
        /\ switch'.dailyAnchor = switch.dailyAnchor
        /\ switch'.halted = switch.halted /\ switch'.reason = switch.reason
    BY <1>2 DEF RawMessage, NoteWsMessage, TypeOK, Switches
  <2>2. curve' = curve /\ silenceSeen' = silenceSeen
    BY <1>2 DEF RawMessage
  <2> QED
    BY <1>0, <1>h, <2>1, <2>2, SameCurve
<1>3. CASE WatchdogCheck
  <2>1. curve' = curve /\ clock' = clock /\ heard' = heard
    BY <1>3 DEF WatchdogCheck
  <2>2. Silent(switch, clock) <=> (heard # None /\ clock - heard > HeartbeatTimeout)
    BY DEF Silent
  <2>3. CASE Silent(switch, clock)
    <3>1. /\ switch'.lastEvent = switch.lastEvent
          /\ switch'.peak = switch.peak /\ switch'.day = switch.day
          /\ switch'.dailyAnchor = switch.dailyAnchor
          /\ switch'.halted /\ switch'.reason = "heartbeat_timeout"
      BY <1>3, <2>3 DEF WatchdogCheck, HeartbeatCheck, Trip, TypeOK, Switches
    <3>2. silenceSeen'
      BY <1>3, <2>2, <2>3 DEF WatchdogCheck
    <3> QED
      BY <1>0, <1>h, <2>1, <3>1, <3>2, SameCurve
  <2>4. CASE ~Silent(switch, clock)
    <3>1. switch' = switch /\ silenceSeen' = silenceSeen
      BY <1>3, <2>2, <2>4 DEF WatchdogCheck, HeartbeatCheck, TypeOK
    <3> QED
      BY <1>0, <1>h, <2>1, <3>1, SameCurve
  <2> QED
    BY <2>3, <2>4
<1>4. CASE ManualReset
  <2>1. switch' = NewSwitch /\ curve' = <<>> /\ heard' = None /\ silenceSeen' = FALSE
    BY <1>4 DEF ManualReset, Reset
  <2> QED
    BY <1>0, <2>1, FreshSession
<1>5. CASE PassTime \/ UNCHANGED switchVars
  <2>1. switch' = switch /\ curve' = curve /\ heard' = heard
        /\ silenceSeen' = silenceSeen
    BY <1>5 DEF PassTime, switchVars
  <2> QED
    BY <1>0, <1>h, <2>1, SameCurve
<1> QED
  BY <1>1, <1>2, <1>3, <1>4, <1>5 DEF SwitchNext

\* The switch of limits.py halts for every breach of its session and for
\* nothing else, whatever the limits, the PnL path, the silences and the
\* resets.
THEOREM SwitchInvariant == SwitchSpec => []SwitchFollows
<1>1. SwitchInit => SwitchFollows
  <2> SUFFICES ASSUME SwitchInit PROVE SwitchFollows
    OBVIOUS
  <2>1. switch = NewSwitch /\ curve = <<>> /\ heard = None /\ silenceSeen = FALSE
    BY DEF SwitchInit
  <2>2. switch.peak = 0 /\ switch.day = None /\ switch.lastEvent = None
        /\ ~switch.halted /\ switch.reason = "none"
    BY <2>1 DEF NewSwitch
  <2>3. DOMAIN curve = {}
    BY <2>1
  <2>4. ~BreachOnRecord
    BY <2>1, <2>3 DEF BreachOnRecord, DrawdownOnRecord, DailyLossOnRecord
  <2> QED
    BY <2>1, <2>2, <2>3, <2>4, TypeInit
       DEF SwitchFollows, PeakIsHighest, AnchorOpensTheDay, EveryBreachHalts, HaltsOnlyForBreach
<1>2. SwitchFollows /\ [SwitchNext]_switchVars => SwitchFollows'
  BY SwitchStep
<1> QED
  BY <1>1, <1>2, PTL DEF SwitchSpec

\* No breach of the session is missed by the peak, the anchor and the latch.
THEOREM NoBreachMissed == SwitchSpec => []EveryBreachHalts
<1>1. SwitchFollows => EveryBreachHalts
  BY DEF SwitchFollows
<1> QED
  BY <1>1, SwitchInvariant, PTL

\* The switch never halts a session that kept within its limits.
THEOREM NoFalseAlarm == SwitchSpec => []HaltsOnlyForBreach
<1>1. SwitchFollows => HaltsOnlyForBreach
  BY DEF SwitchFollows
<1> QED
  BY <1>1, SwitchInvariant, PTL

-----------------------------------------------------------------------------
\* The session.

\* Why: who closes a sink has waited for everyone who writes to it.  The
\* runner leaves the client only when run() has returned, and takes the
\* heartbeat with it; both sinks are closed after that.
WritersGone == pc = "done" /\ heartbeat # "asleep"

IInv ==
    /\ ~wroteLate
    /\ runner # "client" => WritersGone
    /\ sink = "closed" => WritersGone

\* What a step may not do to the three parts.
Harmless ==
    /\ ~wroteLate'
    /\ UNCHANGED <<runner, sink>>
    /\ pc = "done" => pc' = "done"
    /\ heartbeat # "asleep" => heartbeat' # "asleep"

\* A harmless step keeps the invariant.
LEMMA HarmlessKeeps == IInv /\ Harmless => IInv'
  BY DEF IInv, Harmless, WritersGone

\* A write while the sink is open, or of nobody, is not late.
LEMMA NotLate ==
    ASSUME NEW writing \in BOOLEAN, ~wroteLate, Writes(writing),
           writing => sink # "closed"
    PROVE  ~wroteLate'
  BY DEF Writes

\* No step of the client leaves the end of run() or is taken there.
LEMMA ClientNotDone == Run \/ ConnectionLost => pc # "done"
  BY DEF Run, Connected, ConnectFails, Subscribed, SubscribeFails, CloseCompletes,
         ConnectionLost, Unwound, Left, SleepEnds, Cancelled, CancelledReading,
         CancelSwallowed, CancelledUnwound, At

\* The messages and the heartbeat call stop(), which leaves run() where it is.
LEMMA InductiveStep == IInv /\ [Next]_vars => IInv'
<1> SUFFICES ASSUME IInv, [Next]_vars PROVE IInv'
  OBVIOUS
<1>1. CASE ClientRuns
  <2>1. pc # "done" /\ runner' = runner /\ sink' = sink /\ heartbeat' = heartbeat
    BY <1>1, ClientNotDone DEF ClientRuns
  <2>2. sink # "closed"
    BY <2>1 DEF IInv, WritersGone
  <2>3. ~wroteLate'
    BY <1>1, <2>2, NotLate DEF IInv, ClientRuns, Paper, Reports
  <2> QED
    BY <2>1, <2>3, HarmlessKeeps DEF Harmless
<1>2. CASE WatchdogRuns
  <2>1. pc = "reading" /\ UNCHANGED <<runner, sink, heartbeat, pc>>
    BY <1>2 DEF WatchdogRuns, WatchdogLooks
  <2>2. ~wroteLate'
    BY <1>2, <2>1 DEF IInv, WritersGone, WatchdogRuns, Writes
  <2> QED
    BY <2>1, <2>2, HarmlessKeeps DEF Harmless
<1>3. ASSUME NEW malformed \in BOOLEAN, OtherMessage(malformed) PROVE IInv'
  <2>1. pc = "reading" /\ UNCHANGED <<runner, sink, heartbeat, pc>>
    BY <1>3 DEF OtherMessage, Message, MessageArrives, At
  <2>2. ~wroteLate'
    BY <1>3, <2>1 DEF IInv, WritersGone, OtherMessage, Writes
  <2> QED
    BY <2>1, <2>2, HarmlessKeeps DEF Harmless
<1>4. ASSUME NEW breach \in BOOLEAN, OwnMessage(breach) PROVE IInv'
  <2>1. pc = "reading" /\ UNCHANGED <<runner, sink, heartbeat, pc>>
    BY <1>4 DEF OwnMessage, Message, MessageArrives, At
  <2>2. ~wroteLate'
    BY <1>4, <2>1 DEF IInv, WritersGone, OwnMessage, Writes
  <2> QED
    BY <2>1, <2>2, HarmlessKeeps DEF Harmless
<1>5. ASSUME NEW breach \in BOOLEAN, OwnMessageRaises(breach) PROVE IInv'
  <2>1. pc = "reading" /\ UNCHANGED <<runner, sink, heartbeat, wroteLate>>
    BY <1>5 DEF OwnMessageRaises, MessageArrives, At
  <2> QED
    BY <2>1, HarmlessKeeps DEF Harmless, IInv
<1>6. CASE HeartbeatWakes
  <2>1. heartbeat = "asleep" /\ UNCHANGED <<runner, sink, pc>>
    BY <1>6 DEF HeartbeatWakes, kept
  <2>2. ~wroteLate'
    BY <1>6, <2>1 DEF IInv, WritersGone, HeartbeatWakes, Writes
  <2> QED
    BY <2>1, <2>2, HarmlessKeeps DEF Harmless
<1>7. CASE HeartbeatRaises
  BY <1>7, HarmlessKeeps DEF Harmless, IInv, HeartbeatRaises, clientVars, output
<1>8. CASE HeartbeatCancelled
  BY <1>8, HarmlessKeeps DEF Harmless, IInv, HeartbeatCancelled, clientVars, output
<1>9. CASE RunReturns
  BY <1>9 DEF RunReturns, IInv, WritersGone, clientVars, output
<1>10. CASE LogCloses
  BY <1>10 DEF LogCloses, IInv, WritersGone, clientVars
<1>11. CASE MainWakes
  BY <1>11, HarmlessKeeps DEF Harmless, IInv, MainWakes, output
<1>12. CASE MainExits
  BY <1>12 DEF MainExits, IInv, WritersGone, clientVars
<1>13. CASE Signal
  BY <1>13, HarmlessKeeps DEF Harmless, IInv, Signal, kept, output
<1>14. ASSUME NEW inLoop \in BOOLEAN, LibraryStops(inLoop) PROVE IInv'
  BY <1>14, HarmlessKeeps DEF Harmless, IInv, LibraryStops, kept, session, output
<1>15. CASE NetworkChanges \/ DiskChanges
  BY <1>15, HarmlessKeeps
     DEF Harmless, IInv, NetworkChanges, DiskChanges, session, output
<1>16. CASE Second
  BY <1>16, HarmlessKeeps DEF Harmless, IInv, Second, ClientSecond, output
<1>17. CASE UNCHANGED vars
  BY <1>17, HarmlessKeeps DEF Harmless, IInv, vars, clientVars, session, output
<1> QED
  BY <1>1, <1>2, <1>3, <1>4, <1>5, <1>6, <1>7, <1>8, <1>9, <1>10, <1>11, <1>12, <1>13,
     <1>14, <1>15, <1>16, <1>17
     DEF Next, Heartbeat, Tasks, Ended

\* For all timeouts and delays, with a network that does what it likes, a disk
\* that fails when it likes, and halts, stops, signals and cancellations at any
\* time: no task of the paper trading or of the capture command writes to a
\* sink that has been closed (the finally of PaperTrader.run and of _run_cli).
THEOREM NothingWrittenLate == Spec => []NothingAfterClose
<1>1. Init => IInv
  BY DEF Init, ClientInit, IInv
<1>2. IInv => NothingAfterClose
  BY DEF IInv, NothingAfterClose
<1> QED
  BY <1>1, <1>2, InductiveStep, PTL DEF Spec

-----------------------------------------------------------------------------
\* Why: from the subscription on, last_msg_ts is the life sign of this very
\* connection.
StampIsOurs == pc = "reading" => silence = age

\* Only a subscription begins to read, and only with a fresh stamp; messages
\* renew it, and seconds age it.
LEMMA StampStep == StampIsOurs /\ [Next]_vars => StampIsOurs'
<1> SUFFICES ASSUME StampIsOurs, [Next]_vars PROVE StampIsOurs'
  OBVIOUS
<1>1. CASE ClientRuns
  <2>1. CASE Subscribed
    BY <2>1 DEF StampIsOurs, Subscribed
  <2>2. CASE \/ Connected \/ ConnectFails \/ SubscribeFails \/ SleepEnds \/ Left
             \/ CloseCompletes \/ ConnectionLost \/ Unwound
    BY <2>2 DEF StampIsOurs, Connected, ConnectFails, SubscribeFails, SleepEnds, Left,
                Over, CloseCompletes, ConnectionLost, LoopEnds, Unwound
  <2>3. CASE Cancelled \/ CancelledReading \/ CancelSwallowed \/ CancelledUnwound
    BY <2>3 DEF StampIsOurs, Cancelled, CancelledReading, LoopEnds, CancelSwallowed,
                CancelledUnwound
  <2> QED
    BY <1>1, <2>1, <2>2, <2>3 DEF ClientRuns, Run
<1>2. CASE WatchdogRuns
  BY <1>2 DEF StampIsOurs, WatchdogRuns, WatchdogLooks
<1>3. ASSUME NEW m \in BOOLEAN, OtherMessage(m) \/ OwnMessage(m) PROVE StampIsOurs'
  BY <1>3 DEF StampIsOurs, OtherMessage, OwnMessage, Message
<1>4. ASSUME NEW breach \in BOOLEAN, OwnMessageRaises(breach) PROVE StampIsOurs'
  BY <1>4 DEF StampIsOurs, OwnMessageRaises, LoopEnds
<1>5. CASE HeartbeatWakes \/ Signal \/ \E inLoop \in BOOLEAN : LibraryStops(inLoop)
  BY <1>5 DEF StampIsOurs, HeartbeatWakes, Signal, LibraryStops, kept, lifeSigns
<1>6. CASE \/ HeartbeatRaises \/ HeartbeatCancelled \/ RunReturns \/ LogCloses
           \/ MainExits
  BY <1>6 DEF StampIsOurs, HeartbeatRaises, HeartbeatCancelled, RunReturns, LogCloses,
              MainExits, clientVars, lifeSigns
<1>7. CASE MainWakes \/ NetworkChanges \/ DiskChanges
  BY <1>7 DEF StampIsOurs, MainWakes, NetworkChanges, DiskChanges, lifeSigns
<1>8. CASE Second
  BY <1>8 DEF StampIsOurs, Second, ClientSecond
<1>9. CASE UNCHANGED vars
  BY <1>9 DEF StampIsOurs, vars, clientVars, lifeSigns
<1> QED
  BY <1>1, <1>2, <1>3, <1>4, <1>5, <1>6, <1>7, <1>8, <1>9
     DEF Next, Heartbeat, Tasks, Ended

\* For all timeouts, poll intervals and backoffs: a connection that the watchdog
\* of _read_loop closes has itself been silent for longer than the timeout,
\* however stale the stamp was when it was opened.
THEOREM WatchdogIsFair == Spec => WatchdogSparesTheLiving
<1>1. Init => StampIsOurs
  BY DEF Init, ClientInit, StampIsOurs
<1>2. StampIsOurs => [WatchdogLooks /\ closing' => age > ClientTimeout]_clientVars
  BY DEF StampIsOurs, WatchdogLooks, TooSilent
<1> QED
  BY <1>1, <1>2, StampStep, PTL DEF Spec, WatchdogSparesTheLiving
-----------------------------------------------------------------------------
\* A set of natural numbers that is not empty has a smallest element.
LEMMA SmallestNat ==
    ASSUME NEW S, S \subseteq Nat, S # {}
    PROVE  \E m \in S : \A n \in S : m <= n
<1>1. PICK m \in S : \A n \in S : <<n, m>> \notin OpToRel(<, Nat)
  <2>1. \E m \in S : \A n \in S : <<n, m>> \notin OpToRel(<, Nat)
    BY NatLessThanWellFounded, WFMin
  <2> QED
    BY <2>1
<1>2. ASSUME NEW n \in S PROVE m <= n
  <2>1. ~(n < m)
    BY <1>1 DEF OpToRel
  <2> QED
    BY <2>1
<1> QED
  BY <1>2

\* The delays after 0 .. n failures.
IsDoubling(d, n) ==
    d = [i \in 0 .. n |-> IF i = 0 THEN InitialBackoff ELSE 2 * d[i - 1]]

LEMMA DoublingGrows ==
    ASSUME NEW n \in Nat, NEW d, IsDoubling(d, n)
    PROVE  \E e : IsDoubling(e, n + 1)
<1> DEFINE e == [i \in 0 .. (n + 1) |-> IF i = n + 1 THEN 2 * d[n] ELSE d[i]]
<1>1. ASSUME NEW i \in 0 .. (n + 1)
      PROVE  e[i] = IF i = 0 THEN InitialBackoff ELSE 2 * e[i - 1]
  <2>1. CASE i = n + 1
    <3>1. e[i] = 2 * d[n] /\ e[i - 1] = d[n]
      BY <2>1
    <3> QED
      BY <2>1, <3>1
  <2>2. CASE i # n + 1
    <3>1. i \in 0 .. n /\ e[i] = d[i] /\ (i # 0 => e[i - 1] = d[i - 1])
      BY <2>2
    <3> QED
      BY <3>1 DEF IsDoubling
  <2> QED
    BY <2>1, <2>2
<1>2. e = [i \in 0 .. (n + 1) |-> e[i]]
  OBVIOUS
<1> HIDE DEF e
<1> QED
  BY <1>1, <1>2 DEF IsDoubling

\* The table of delays exists: else the smallest n without one is not 0, and
\* the table of n - 1 extends to n.
LEMMA DoublingExists ==
    ASSUME NEW n \in Nat
    PROVE  \E d : IsDoubling(d, n)
<1> DEFINE bad == {m \in Nat : ~\E d : IsDoubling(d, m)}
<1> SUFFICES ASSUME bad # {} PROVE FALSE
  OBVIOUS
<1>1. PICK m \in bad : \A i \in bad : m <= i
  BY SmallestNat
<1>2. m # 0
  <2>1. IsDoubling([i \in 0 .. 0 |-> InitialBackoff], 0)
    BY DEF IsDoubling
  <2> QED
    BY <2>1
<1>3. m - 1 \in Nat /\ m - 1 \notin bad
  BY <1>1, <1>2
<1>4. \E d : IsDoubling(d, (m - 1) + 1)
  BY <1>3, DoublingGrows
<1> QED
  BY <1>4

\* Each failure doubles the delay.
LEMMA EachDoubles ==
    /\ Doubled[0] = InitialBackoff
    /\ \A n \in 1 .. MaxFailures : Doubled[n] = 2 * Doubled[n - 1]
<1>1. IsDoubling(Doubled, MaxFailures)
  <2>1. \E d : IsDoubling(d, MaxFailures)
    BY DoublingExists, ClientAssumption
  <2>2. Doubled = CHOOSE d : IsDoubling(d, MaxFailures)
    BY DEF Doubled, IsDoubling
  <2> QED
    BY <2>1, <2>2
<1> QED
  BY <1>1, ClientAssumption DEF IsDoubling
LEMMA DelaysAreNat == \A n \in 0 .. MaxFailures : Doubled[n] \in Nat
<1> DEFINE bad == {n \in 0 .. MaxFailures : Doubled[n] \notin Nat}
<1> SUFFICES ASSUME bad # {} PROVE FALSE
  OBVIOUS
<1>1. PICK m \in bad : \A i \in bad : m <= i
  <2>1. bad \subseteq Nat
    BY ClientAssumption
  <2> QED
    BY <2>1, SmallestNat
<1>2. m # 0
  BY EachDoubles, ClientAssumption
<1>3. Doubled[m] = 2 * Doubled[m - 1] /\ Doubled[m - 1] \in Nat
  <2>1. m \in 1 .. MaxFailures /\ m - 1 \in 0 .. MaxFailures /\ m - 1 \notin bad
    BY <1>1, <1>2, ClientAssumption
  <2> QED
    BY <2>1, EachDoubles
<1>4. Doubled[m] \in Nat
  BY <1>3
<1> QED
  BY <1>1, <1>4

\* The delay after n failures.
DelayAfter(n) == Smaller(Doubled[n], MaxBackoff)

\* NextBackoff keeps up with the failures; where their count saturates, the
\* delay has, too.
LEMMA DelayFacts ==
    /\ DelayAfter(0) = InitialBackoff
    /\ \A n \in 1 .. MaxFailures :
          /\ DelayAfter(n - 1) \in Nat
          /\ NextBackoff(DelayAfter(n - 1)) = DelayAfter(n)
    /\ DelayAfter(MaxFailures) = DelayAfter(MaxFailures - 1)
<1>1. MaxFailures \in Nat \ {0} /\ MaxBackoff \in Nat /\ InitialBackoff <= MaxBackoff
  BY ClientAssumption, SaturationAssumption
<1>2. DelayAfter(0) = InitialBackoff
  BY <1>1, EachDoubles, ClientAssumption DEF DelayAfter, Smaller
<1>3. ASSUME NEW n \in 1 .. MaxFailures
      PROVE  /\ DelayAfter(n - 1) \in Nat
             /\ NextBackoff(DelayAfter(n - 1)) = DelayAfter(n)
  <2> DEFINE a == Doubled[n - 1]
             b == Doubled[n]
  <2>1. a \in Nat /\ b = 2 * a
    <3>1. n - 1 \in 0 .. MaxFailures
      BY <1>1
    <3> QED
      BY <3>1, EachDoubles, DelaysAreNat
  <2>2. DelayAfter(n - 1) = Smaller(a, MaxBackoff) /\ DelayAfter(n) = Smaller(b, MaxBackoff)
    BY DEF DelayAfter
  <2> HIDE DEF a, b
  <2> QED
    BY <1>1, <2>1, <2>2 DEF NextBackoff, Smaller
<1>4. DelayAfter(MaxFailures) = DelayAfter(MaxFailures - 1)
  <2> DEFINE a == Doubled[MaxFailures - 1]
             b == Doubled[MaxFailures]
  <2>1. a \in Nat /\ b = 2 * a /\ a >= MaxBackoff
    <3>1. MaxFailures - 1 \in 0 .. MaxFailures /\ MaxFailures \in 1 .. MaxFailures
      BY <1>1
    <3> QED
      BY <3>1, EachDoubles, DelaysAreNat, SaturationAssumption
  <2>2. /\ DelayAfter(MaxFailures - 1) = Smaller(a, MaxBackoff)
        /\ DelayAfter(MaxFailures) = Smaller(b, MaxBackoff)
    BY DEF DelayAfter
  <2> HIDE DEF a, b
  <2> QED
    BY <1>1, <2>1, <2>2 DEF Smaller
<1> QED
  BY <1>2, <1>3, <1>4

\* Why: run() doubles the delay after it has slept, so between two sleeps the
\* delay is already that of the next failure.
BackoffSound ==
    /\ failures \in 0 .. MaxFailures
    /\ pc = "sleeping" => failures > 0 /\ backoff = DelayAfter(failures - 1)
    /\ pc \in {"connecting", "subscribing", "reading", "unwinding", "leaving"} =>
           backoff = DelayAfter(failures)

\* A step that neither touches the delay nor goes to sleep or wakes.
Unmoved ==
    /\ UNCHANGED <<backoff, failures>>
    /\ \/ pc' = pc \/ pc' = "done"
       \/ /\ pc \in {"connecting", "subscribing", "reading", "unwinding"}
          /\ pc' \in {"subscribing", "unwinding", "leaving"}

LEMMA UnmovedKeeps == BackoffSound /\ Unmoved => BackoffSound'
  BY DEF BackoffSound, Unmoved, DelayAfter

\* One more connection is over.
LEMMA OverKeeps ==
    ASSUME BackoffSound, Over, pc \in {"connecting", "leaving"}
    PROVE  BackoffSound'
<1>1. MaxFailures \in Nat \ {0} /\ failures \in 0 .. MaxFailures
  BY ClientAssumption, SaturationAssumption DEF BackoffSound
<1>2. failures' = IF failures < MaxFailures THEN failures + 1 ELSE MaxFailures
  BY <1>1 DEF Over, Saturating, Smaller
<1>3. failures' \in 1 .. MaxFailures /\ pc' \in {"done", "sleeping"}
  BY <1>1, <1>2 DEF Over
<1>4. backoff' = DelayAfter(failures' - 1)
  <2>1. backoff' = DelayAfter(failures)
    BY DEF BackoffSound, Over
  <2>2. CASE failures < MaxFailures
    <3>1. failures' - 1 = failures
      BY <1>1, <1>2, <2>2
    <3> QED
      BY <2>1, <3>1
  <2>3. CASE ~(failures < MaxFailures)
    <3>1. failures = MaxFailures /\ failures' = MaxFailures
      BY <1>1, <1>2, <2>3
    <3> QED
      BY <2>1, <3>1, DelayFacts
  <2> QED
    BY <2>2, <2>3
<1>5. (DelayAfter(failures - 1))' = DelayAfter(failures' - 1)
  BY DEF DelayAfter
<1> QED
  BY <1>1, <1>3, <1>4, <1>5 DEF BackoffSound

\* The sleep is over, and the delay of the next failure is ready.
LEMMA SleepEndsKeeps ==
    ASSUME BackoffSound, SleepEnds
    PROVE  BackoffSound'
<1>1. failures \in 1 .. MaxFailures /\ failures' = failures
  BY ClientAssumption DEF BackoffSound, SleepEnds, At
<1>2. backoff' = DelayAfter(failures)
  BY <1>1, DelayFacts DEF BackoffSound, SleepEnds, At
<1>3. pc' \in {"done", "connecting"} /\ (DelayAfter(failures))' = DelayAfter(failures')
  BY DEF SleepEnds, DelayAfter
<1> QED
  BY <1>1, <1>2, <1>3, ClientAssumption DEF BackoffSound

LEMMA SubscribedKeeps ==
    ASSUME BackoffSound, Subscribed
    PROVE  BackoffSound'
<1>1. backoff' = InitialBackoff /\ failures' = 0 /\ pc' = "reading"
  BY DEF Subscribed
<1>2. (DelayAfter(failures))' = DelayAfter(failures')
  BY DEF DelayAfter
<1> QED
  BY <1>1, <1>2, DelayFacts, ClientAssumption DEF BackoffSound

LEMMA BackoffStep == BackoffSound /\ [Next]_vars => BackoffSound'
<1> SUFFICES ASSUME BackoffSound, [Next]_vars PROVE BackoffSound'
  OBVIOUS
<1>1. CASE ClientRuns
  <2>1. CASE Subscribed
    BY <2>1, SubscribedKeeps
  <2>2. CASE ConnectFails \/ Left
    BY <2>2, OverKeeps DEF ConnectFails, Left, At
  <2>3. CASE SleepEnds
    BY <2>3, SleepEndsKeeps
  <2>4. CASE Connected \/ SubscribeFails \/ CloseCompletes \/ ConnectionLost
    BY <2>4, UnmovedKeeps
       DEF Unmoved, Connected, SubscribeFails, CloseCompletes, ConnectionLost, LoopEnds, At, delays
  <2>5. CASE Unwound
    BY <2>5, UnmovedKeeps DEF Unmoved, Unwound, delays
  <2>6. CASE Cancelled \/ CancelledReading \/ CancelSwallowed \/ CancelledUnwound
    BY <2>6, UnmovedKeeps
       DEF Unmoved, Cancelled, CancelledReading, LoopEnds, CancelSwallowed, CancelledUnwound,
           delays
  <2> QED
    BY <1>1, <2>1, <2>2, <2>3, <2>4, <2>5, <2>6 DEF ClientRuns, Run
<1>2. CASE WatchdogRuns
  BY <1>2, UnmovedKeeps DEF Unmoved, WatchdogRuns, WatchdogLooks, delays
<1>3. ASSUME NEW m \in BOOLEAN, OtherMessage(m) \/ OwnMessage(m) PROVE BackoffSound'
  BY <1>3, UnmovedKeeps DEF Unmoved, OtherMessage, OwnMessage, Message, delays
<1>4. ASSUME NEW breach \in BOOLEAN, OwnMessageRaises(breach) PROVE BackoffSound'
  BY <1>4, UnmovedKeeps DEF Unmoved, OwnMessageRaises, LoopEnds, At, delays
<1>5. CASE HeartbeatWakes \/ Signal \/ \E inLoop \in BOOLEAN : LibraryStops(inLoop)
  BY <1>5, UnmovedKeeps DEF Unmoved, HeartbeatWakes, Signal, LibraryStops, kept, delays
<1>6. CASE \/ HeartbeatRaises \/ HeartbeatCancelled \/ RunReturns \/ LogCloses
           \/ MainExits
  BY <1>6, UnmovedKeeps
     DEF Unmoved, HeartbeatRaises, HeartbeatCancelled, RunReturns, LogCloses, MainExits,
         clientVars, delays
<1>7. CASE MainWakes \/ NetworkChanges \/ DiskChanges
  BY <1>7, UnmovedKeeps DEF Unmoved, MainWakes, NetworkChanges, DiskChanges, delays
<1>8. CASE Second
  BY <1>8, UnmovedKeeps DEF Unmoved, Second, ClientSecond
<1>9. CASE UNCHANGED vars
  BY <1>9, UnmovedKeeps DEF Unmoved, vars, clientVars, delays
<1> QED
  BY <1>1, <1>2, <1>3, <1>4, <1>5, <1>6, <1>7, <1>8, <1>9
     DEF Next, Heartbeat, Tasks, Ended

\* For all initial and maximal delays: before the sleep that follows n failures
\* since the last subscription, the delay is the initial one doubled n - 1
\* times, and no more than the maximum (the backoff of run()).
THEOREM BackoffFollowsFailures == Spec => []BackoffMatchesFailures
<1>1. Init => BackoffSound
  <2> SUFFICES ASSUME Init PROVE BackoffSound
    OBVIOUS
  <2>1. pc = "connecting" /\ backoff = InitialBackoff /\ failures = 0
    BY DEF Init, ClientInit
  <2> QED
    BY <2>1, DelayFacts, ClientAssumption DEF BackoffSound
<1>2. BackoffSound => BackoffMatchesFailures
  BY ClientAssumption DEF BackoffSound, BackoffMatchesFailures, DelayAfter, Floor0, Larger
<1> QED
  BY <1>1, <1>2, BackoffStep, PTL DEF Spec
=============================================================================
