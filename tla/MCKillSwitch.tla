---------------------------- MODULE MCKillSwitch ----------------------------
\* KillSwitch on a four-tick session: PnL values that rise above the baseline
\* capital, fall by exactly the drawdown limit and by one more, and lose the
\* daily limit while staying inside the drawdown.
EXTENDS KillSwitch

MCPnLs == {-3, -2, 0, 4, 8}
=============================================================================
