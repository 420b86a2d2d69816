----------------------------- MODULE KillSwitch -----------------------------
(***************************************************************************)
(* The KillSwitch of risk/limits.py under every sequence of calls a runner *)
(* can make: ticks with any mark-to-mid PnL, raw-message heartbeats,       *)
(* watchdog checks and manual resets, while the wall clock advances.       *)
(*                                                                         *)
(* The switch itself keeps a peak, an anchor and a running loss.  The      *)
(* history variables keep what really happened since the last reset, and   *)
(* the properties compare the switch with that record: it must halt for    *)
(* every breach the record contains, and for nothing else.                 *)
(***************************************************************************)
EXTENDS RiskLimits, Sequences

CONSTANTS
    PnLs,         \* the mark-to-mid PnL values a tick may report
    MaxClock,     \* bound on the wall clock
    MaxTicks      \* bound on the ticks between two resets

ASSUME EnvironmentAssumption ==
    PnLs \subseteq Int /\ MaxClock \in Nat /\ MaxTicks \in Nat

VARIABLES
    switch,       \* the fields of the KillSwitch instance
    clock,        \* time.time(), in seconds
    curve,        \* history: the ticks since the last reset, [day, pnl]
    heard,        \* history: when the feed was last heard, None before that
    silenceSeen   \* history: a check has found the feed silent for too long

switchVars == <<switch, clock, curve, heard, silenceSeen>>

Points == [day : Nat, pnl : Int]

TypeOK ==
    /\ switch \in Switches
    /\ clock \in Nat
    /\ curve \in Seq(Points)
    /\ heard \in Nat \cup {None}
    /\ silenceSeen \in BOOLEAN

SwitchInit ==
    /\ switch = NewSwitch
    /\ clock = 0
    /\ curve = <<>>
    /\ heard = None
    /\ silenceSeen = FALSE

-----------------------------------------------------------------------------
\* The runner's calls.  Nothing guards them: PaperTrader keeps ticking a
\* halted switch when events arrive while its connection closes.

TickEvent(pnl) ==
    /\ Len(curve) < MaxTicks
    /\ switch' = Tick(switch, clock, pnl, 0)
    /\ curve' = Append(curve, [day |-> Day(clock), pnl |-> pnl])
    /\ heard' = clock
    /\ UNCHANGED <<clock, silenceSeen>>

RawMessage ==
    /\ switch' = NoteWsMessage(switch, clock)
    /\ heard' = clock
    /\ UNCHANGED <<clock, curve, silenceSeen>>

WatchdogCheck ==
    /\ switch' = HeartbeatCheck(switch, clock)
    /\ silenceSeen' = (silenceSeen \/ (heard # None /\ clock - heard > HeartbeatTimeout))
    /\ UNCHANGED <<clock, curve, heard>>

ManualReset ==
    /\ switch' = Reset(switch)
    /\ curve' = <<>>
    /\ heard' = None
    /\ silenceSeen' = FALSE
    /\ UNCHANGED clock

PassTime ==
    /\ clock < MaxClock
    /\ clock' = clock + 1
    /\ UNCHANGED <<switch, curve, heard, silenceSeen>>

SwitchNext ==
    \/ \E pnl \in PnLs : TickEvent(pnl)
    \/ RawMessage
    \/ WatchdogCheck
    \/ ManualReset
    \/ PassTime

SwitchSpec == SwitchInit /\ [][SwitchNext]_switchVars

-----------------------------------------------------------------------------
\* What the record of the session says, in terms of the limits only.

\* A fall from high to pnl is deeper than the limit allows.
TooDeep(high, pnl) ==
    (high - pnl) * DrawdownDen > DrawdownNum * Larger(high, BaselineCapital)

\* Some tick lies too deep under the session's start (PnL 0) or under a tick
\* that is not later than it.
DrawdownOnRecord ==
    \E j \in DOMAIN curve :
        \/ TooDeep(0, curve[j].pnl)
        \/ \E i \in 1..j : TooDeep(curve[i].pnl, curve[j].pnl)

\* i is the first tick of its UTC day.
OpensItsDay(i) == i = 1 \/ curve[i - 1].day # curve[i].day

\* Ticks i..j all belong to one UTC day.
OneDay(i, j) == \A m \in i..j : curve[m].day = curve[i].day

LosesTheDay(i, j) ==
    /\ OpensItsDay(i) /\ OneDay(i, j)
    /\ curve[i].pnl - curve[j].pnl > DailyLossLimit

\* Some tick is more than the daily limit below the first tick of its day.
DailyLossOnRecord ==
    /\ DailyLossLimit # 0
    /\ \E j \in DOMAIN curve : \E i \in 1..j : LosesTheDay(i, j)

BreachOnRecord == DrawdownOnRecord \/ DailyLossOnRecord \/ silenceSeen

-----------------------------------------------------------------------------
\* No breach is missed: if the session since the last reset contains a
\* drawdown, a daily loss or an observed silence beyond its limit, the switch
\* is halted.  (limits.py keeps only a running peak, an anchor and a latch.)
EveryBreachHalts == BreachOnRecord => switch.halted

\* No false alarm: a halted switch can point to a breach since the last
\* reset, and it carries a reason exactly when it is halted.
HaltsOnlyForBreach ==
    /\ switch.halted => BreachOnRecord
    /\ switch.halted <=> switch.reason # "none"
=============================================================================
