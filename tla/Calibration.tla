----------------------------- MODULE Calibration -----------------------------
(***************************************************************************)
(* The two users of the signals: a strategy in a runner, event by event    *)
(* ("live"), and scripts/calibrate_strategy.py, which reads a captured     *)
(* replay, estimates sigma, A, kappa and alpha_beta (signals/calibration)  *)
(* and writes them to the file that run_backtest.py --params merges into   *)
(* the configured parameters before it builds the strategy                 *)
(* (strategies/factory.py).                                                *)
(*                                                                         *)
(* Of an estimate the model keeps its kind: what tells a value that a      *)
(* strategy can use from one that it cannot.  Mids are doubled.            *)
(***************************************************************************)
EXTENDS Signals

CONSTANTS
    Stamps,          \* timestamps in the capture, in any order
    CapturedTops,    \* best bids and offers in the capture
    TradePrices,     \* doubled
    MinBooks,        \* 5: fewer book events are refused
    MinObs,          \* 50: fewer are not regressed
    MinPairs,        \* 30: fewer samples with a target are not regressed
    Horizon,         \* ofi_horizon_s
    MaxReads         \* bound on the events of the capture

ASSUME CalibrationAssumption ==
    /\ CapturedTops \subseteq TopOfBook
    /\ Stamps \subseteq Nat /\ TradePrices \subseteq Nat
    /\ MinBooks \in Nat /\ MinBooks >= 2 /\ MinObs \in Nat
    /\ MinPairs \in Nat /\ MinPairs >= 2 /\ Horizon \in Nat /\ MaxReads \in Nat

VARIABLES
    mode,            \* where the program is
    reads,           \* events read from the capture
    obs,             \* book_obs: [raw, ts, top]; raw is the stamp in the capture
    prints,          \* trades: [ts, price]
    series,          \* ofi_series
    est,             \* the calibrated file
    kind,            \* strategy.kind of the configuration
    params           \* the parameters after the merge

capture == <<reads, obs, prints>>
program == <<mode, capture, series, est, kind, params>>
vars    == <<signals, program>>

-----------------------------------------------------------------------------
\* What a number in the calibrated file, or its absence, looks like.  The
\* script writes the first three; a file of another origin may hold the rest:
\* NaN or infinity, a string that is no number, a number inside quotes.
FileValues ==
    {"positive", "zero", "negative", "absent", "nonfinite", "text", "quoted"}

Params == {"sigma", "kappa", "A", "alpha_beta"}

\* _PARAMS_BY_STRATEGY, as far as a calibrated value can reach it.
Allowed(k) ==
    CASE k = "constant_spread"                 -> {}
      [] k = "avellaneda_stoikov"              -> {"sigma", "kappa"}
      [] k = "avellaneda_stoikov_with_signals" -> {"sigma", "kappa", "alpha_beta"}
      [] k = "glt"                             -> {"sigma", "kappa", "A"}

Kinds == {"constant_spread", "avellaneda_stoikov",
          "avellaneda_stoikov_with_signals", "glt"}

StrictlyPositive == {"sigma", "kappa", "A"}

NoEstimates == [p \in Params |-> "absent"]

Init ==
    /\ SignalsInit
    /\ \/ mode \in {"live", "reading"} /\ est = NoEstimates
       \/ /\ mode = "estimated"        \* a file that is already there
          /\ est \in [Params -> FileValues]
    /\ reads = 0 /\ obs = << >> /\ prints = << >> /\ series = << >>
    /\ kind = "constant_spread" /\ params = << >>

Live ==
    /\ mode = "live"
    /\ \E gap \in Gaps : Event(now + gap)
    /\ UNCHANGED program

-----------------------------------------------------------------------------
\* _extract_streams.

LastTs == IF obs = << >> THEN -1 ELSE obs[Len(obs)].ts

\* Mutant: only an equal stamp is nudged, not an earlier one.
NudgedIfEqual(ts) == IF ts = LastTs THEN LastTs + 1 ELSE ts

Nudged(ts) == IF ts <= LastTs THEN LastTs + 1 ELSE ts

ReadBook(ts, top) ==
    /\ obs' = Append(obs, [raw |-> ts, ts |-> Nudged(ts), top |-> top])
    /\ UNCHANGED prints

ReadTrade(ts, price) ==
    /\ prints' = Append(prints, [ts |-> ts, price |-> price])
    /\ UNCHANGED obs

\* Another token, a one-sided book, an event of another kind.
ReadOther == UNCHANGED <<obs, prints>>

Read ==
    /\ mode = "reading" /\ reads < MaxReads
    /\ reads' = reads + 1
    /\ \/ \E ts \in Stamps, top \in CapturedTops : ReadBook(ts, top)
       \/ \E ts \in Stamps, price \in TradePrices : ReadTrade(ts, price)
       \/ ReadOther
    /\ UNCHANGED <<signals, mode, series, est, kind, params>>

-----------------------------------------------------------------------------
\* The estimators.

MidOf(i) == obs[i].top.bidPx + obs[i].top.askPx

Returned(i) == MidOf(i) - MidOf(i - 1)
Elapsed(i)  == obs[i].ts - obs[i - 1].ts

Sq(x) == x * x

\* Equal returns per square root of time.
SameScaled(i, j) ==
    /\ (Returned(i) > 0) <=> (Returned(j) > 0)
    /\ Sq(Returned(i)) * Elapsed(j) = Sq(Returned(j)) * Elapsed(i)

\* estimate_sigma: a sample standard deviation, 0 when all returns agree; of
\* one return its size.
Sigma ==
    LET steps == 2 .. Len(obs)
    IN  IF steps = {} \/ \E i \in steps : Elapsed(i) <= 0 THEN "raises"
        ELSE IF \/ Len(obs) = 2 /\ Returned(2) = 0
                \/ Len(obs) > 2 /\ \A i, j \in steps : SameScaled(i, j)
             THEN "zero" ELSE "positive"

\* A: the rate over a window of at least a millisecond.
ArrivalRate == IF Len(prints) < 2 THEN "zero" ELSE "positive"

\* Mutant: the first observation after the trade.
LastMidBeforePlusOne(ts) == Smaller(Len(obs), Cardinality({i \in DOMAIN obs : obs[i].ts <= ts}) + 1)

\* searchsorted(side="right") - 1, counted from 1; 0 if there is none.
LastMidBefore(ts) == Cardinality({i \in DOMAIN obs : obs[i].ts <= ts})

Depth(k) ==
    LET away == prints[k].price - MidOf(LastMidBefore(prints[k].ts))
    IN  Larger(away, 0 - away)

Measured == {k \in DOMAIN prints : LastMidBefore(prints[k].ts) > 0}

\* estimate_kappa over the depths that are not zero.
Kappa ==
    LET depths == {k \in Measured : Depth(k) > 0}
    IN  IF depths = {} THEN "zero"
        ELSE IF MapThenSumSet(Depth, depths) = 0 THEN "raises" ELSE "positive"

TooFewBooks ==
    /\ mode = "reading" /\ Len(obs) < MinBooks
    /\ mode' = "exit"
    /\ UNCHANGED <<signals, capture, series, est, kind, params>>

Estimate ==
    /\ mode = "reading" /\ Len(obs) >= MinBooks
    /\ est' = [est EXCEPT !["sigma"] = Sigma, !["A"] = ArrivalRate, !["kappa"] = Kappa]
    /\ mode' = "fitting"
    /\ UNCHANGED <<signals, capture, series, kind, params>>

-----------------------------------------------------------------------------
\* _calibrate_ofi_alpha: one OFI value per observation, then the regression.

Fitted == Len(obs) < MinObs \/ Len(series) = Len(obs)

FitNext ==
    /\ mode = "fitting" /\ ~Fitted
    /\ LET o == obs[Len(series) + 1]
       IN  UpdateOFI(o.ts, o.top) /\ now' = o.ts
    /\ series' = Append(series, sum')
    /\ UNCHANGED <<mode, capture, est, kind, params>>

\* The observations with a target at least a horizon ahead.
Ahead(i) == {j \in DOMAIN obs : obs[j].ts >= obs[i].ts + Horizon}
Valid    == {i \in DOMAIN obs : Ahead(i) # {}}

\* The kind of the slope of the regression through the origin.
Slope ==
    LET xy == MapThenSumSet(LAMBDA i : series[i] * (MidOf(Min(Ahead(i))) - MidOf(i)), Valid)
    IN  IF \/ Len(obs) < MinObs
           \/ Cardinality(Valid) < MinPairs
           \/ \A i, j \in Valid : series[i] = series[j]
           \/ xy = 0
        THEN "zero" ELSE IF xy > 0 THEN "positive" ELSE "negative"

Regress ==
    /\ mode = "fitting" /\ Fitted
    /\ est' = [est EXCEPT !["alpha_beta"] = Slope]
    /\ mode' = "estimated"
    /\ UNCHANGED <<signals, capture, series, kind, params>>

-----------------------------------------------------------------------------
\* merge_calibrated_params and build_strategy.

\* Mutant: what is not a finite number is not looked at.
KeptNonPositiveOnly(p) == p \in StrictlyPositive /\ est[p] \in {"zero", "negative"}

\* A configured value stays: the calibrated one is not usable.
Kept(p) ==
    p \in StrictlyPositive /\ est[p] \in {"zero", "negative", "nonfinite", "text"}

Merged(k) ==
    [p \in Allowed(k) |-> IF est[p] = "absent" \/ Kept(p) THEN "default" ELSE est[p]]

MergeParams ==
    /\ mode = "estimated"
    /\ \E k \in Kinds : kind' = k /\ params' = Merged(k)
    /\ mode' = "merged"
    /\ UNCHANGED <<signals, capture, series, est>>

\* A constructor compares with 0 and converts to float: a string is a
\* TypeError in the one and a text a ValueError in the other; a NaN passes.
Accepts(p, value) ==
    IF p \in StrictlyPositive THEN value \notin {"zero", "negative", "text", "quoted"}
                              ELSE value # "text"

BuildStrategy ==
    /\ mode = "merged"
    /\ mode' = IF \A p \in Allowed(kind) : Accepts(p, params[p]) THEN "built" ELSE "raised"
    /\ UNCHANGED <<signals, capture, series, est, kind, params>>

Next ==
    \/ Live
    \/ Read \/ TooFewBooks \/ Estimate
    \/ FitNext \/ Regress
    \/ MergeParams \/ BuildStrategy

Spec == Init /\ [][Next]_vars

-----------------------------------------------------------------------------
\* Whatever the order of the stamps in a capture, repeated or running back, no
\* estimator refuses what the script extracts from it: sigma gets strictly
\* increasing times, kappa no set of zero depths.
EstimatorsAccept == \A p \in Params : est[p] # "raises"

\* The depth of a trade is measured from a mid that was known at its time,
\* although the stamps that the search reads have been nudged forward; and a
\* later mid known by then is passed over only if its own stamp was nudged.
DepthsUseKnownMids ==
    \A k \in Measured :
        LET i == LastMidBefore(prints[k].ts)
        IN  /\ obs[i].raw <= prints[k].ts
            /\ \A j \in DOMAIN obs :
                   obs[j].ts = obs[j].raw /\ obs[j].raw <= prints[k].ts => j <= i

\* "A calibrated value of 0 or NaN passed through unchecked crashes the
\* strategy constructor" (factory.py:57): for every file of numbers, from the
\* script or from elsewhere, the strategy is built, and no parameter that must
\* be positive is anything else.
CalibrationNeverBreaks ==
    est["alpha_beta"] # "text" /\ (\A p \in Params : est[p] # "quoted") =>
        /\ mode # "raised"
        /\ mode = "built" => \A p \in Allowed(kind) \cap StrictlyPositive :
                                 params[p] \in {"default", "positive"}
=============================================================================
