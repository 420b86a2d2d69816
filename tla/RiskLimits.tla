----------------------------- MODULE RiskLimits -----------------------------
(***************************************************************************)
(* The arithmetic of risk/limits.py: the thresholds of RiskLimits and the  *)
(* state transition of every KillSwitch method, as functions on the record *)
(* of the switch's fields.  KillSwitch is the state machine around them;   *)
(* PaperTrader embeds the same record in the live runner.                  *)
(*                                                                         *)
(* Money, contracts and seconds are integers; a percentage is the fraction *)
(* DrawdownNum / DrawdownDen, compared by cross-multiplication.            *)
(***************************************************************************)
EXTENDS Basics

CONSTANTS
    DrawdownNum, DrawdownDen,  \* max_drawdown_pct = DrawdownNum / DrawdownDen
    MaxInventory,              \* per-side inventory cap, in contracts
    HeartbeatTimeout,          \* seconds of silence that trip the switch
    DailyLossLimit,            \* money; 0 stands for None, the disabled rule
    BaselineCapital,           \* floor of the drawdown's denominator
    DaySeconds                 \* 86400 in the code

\* RiskLimits.__post_init__ rejects every other configuration.
ASSUME LimitsAssumption ==
    /\ DrawdownNum \in Nat /\ DrawdownDen \in Nat
    /\ 0 < DrawdownNum /\ DrawdownNum < DrawdownDen
    /\ MaxInventory \in Nat \ {0}
    /\ HeartbeatTimeout \in Nat \ {0}
    /\ DailyLossLimit \in Nat
    /\ BaselineCapital \in Nat \ {0}
    /\ DaySeconds \in Nat \ {0}

HaltReasons == {"none", "max_drawdown", "heartbeat_timeout", "daily_loss"}

Switches ==
    [peak : Nat, inventory : Int, lastEvent : Nat \cup {None},
     dailyLoss : Nat, dailyAnchor : Int, day : Nat \cup {None},
     halted : BOOLEAN, reason : HaltReasons]

Day(now) == now \div DaySeconds

-----------------------------------------------------------------------------
\* The bookkeeping half of tick(): peak, day anchor and loss since the anchor.

PeakForgets(peak, pnl) == pnl                                  \* mutant
Peak(peak, pnl) == Larger(peak, pnl)

OpensDay(k, now) == k.day = None \/ Day(now) # k.day

\* Mutant: the inventory of the tick is not stored.
ObserveKeepsInventory(k, now, pnl, inventory) ==
    [k EXCEPT
        !.lastEvent   = now,
        !.peak        = Peak(k.peak, pnl),
        !.day         = Day(now),
        !.dailyAnchor = IF OpensDay(k, now) THEN pnl ELSE k.dailyAnchor,
        !.dailyLoss   = IF OpensDay(k, now) THEN 0
                        ELSE Larger(0, k.dailyAnchor - pnl)]

Observe(k, now, pnl, inventory) ==
    [k EXCEPT
        !.inventory   = inventory,
        !.lastEvent   = now,
        !.peak        = Peak(k.peak, pnl),
        !.day         = Day(now),
        !.dailyAnchor = IF OpensDay(k, now) THEN pnl ELSE k.dailyAnchor,
        !.dailyLoss   = IF OpensDay(k, now) THEN 0
                        ELSE Larger(0, k.dailyAnchor - pnl)]

\* (peak - pnl) / max(peak, baseline) > pct, without the division.
DrawdownBreached(k, pnl) ==
    (k.peak - pnl) * DrawdownDen > DrawdownNum * Larger(k.peak, BaselineCapital)

DailyLossBreached(k) == DailyLossLimit # 0 /\ k.dailyLoss > DailyLossLimit

Trip(k, reason) == [k EXCEPT !.halted = TRUE, !.reason = reason]

-----------------------------------------------------------------------------
\* The public methods.

NewSwitch ==
    [peak |-> 0, inventory |-> 0, lastEvent |-> None, dailyLoss |-> 0,
     dailyAnchor |-> 0, day |-> None, halted |-> FALSE, reason |-> "none"]

\* Mutant: the halt is re-evaluated on every tick instead of latched.
TickUnlatched(k, now, pnl, inventory) ==
    LET o == Observe(k, now, pnl, inventory)
    IN  CASE DrawdownBreached(o, pnl) -> Trip(o, "max_drawdown")
          [] ~DrawdownBreached(o, pnl) /\ DailyLossBreached(o) -> Trip(o, "daily_loss")
          [] OTHER -> [o EXCEPT !.halted = FALSE, !.reason = "none"]

Tick(k, now, pnl, inventory) ==
    LET o == Observe(k, now, pnl, inventory)
    IN  CASE DrawdownBreached(o, pnl) -> Trip(o, "max_drawdown")
          [] ~DrawdownBreached(o, pnl) /\ DailyLossBreached(o) -> Trip(o, "daily_loss")
          [] OTHER -> o

NoteWsMessage(k, now) == [k EXCEPT !.lastEvent = now]

Silent(k, now) == k.lastEvent # None /\ now - k.lastEvent > HeartbeatTimeout

HeartbeatCheck(k, now) ==
    IF Silent(k, now) THEN Trip(k, "heartbeat_timeout") ELSE k

\* can_open(): the cap is tested against the inventory of the last tick only.
CanOpen(k, side) ==
    /\ ~k.halted
    /\ IF side = "bid" THEN k.inventory < MaxInventory
                       ELSE k.inventory > -MaxInventory

\* Mutant: a reset that keeps the peak of the session it closes.
ResetKeepsPeak(k) == [NewSwitch EXCEPT !.peak = k.peak]
Reset(k) == NewSwitch
=============================================================================
