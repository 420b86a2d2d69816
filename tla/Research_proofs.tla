-------------------------- MODULE Research_proofs --------------------------
(***************************************************************************)
(* Proofs about what runs offline: Calibration and the Signals in it, for  *)
(* every capture, window, bucket volume and calibrated file, PurgedCV, for *)
(* every number of samples and groups, and SyntheticFeed, for every market *)
(* that the generators can draw.                                           *)
(*                                                                         *)
(* StreamsSound: whatever the stamps of a capture, the nudged stamps of    *)
(* the mids strictly increase, so the mids known before a trade are a      *)
(* prefix of them (KnownIsPrefix) and the binary search of the code finds  *)
(* its end.  EstimatesSound: the estimates that reach a strategy are       *)
(* numbers of the kind its constructor asks for.                           *)
(*                                                                         *)
(* SignalSound: the events that the deque holds are the contributions of   *)
(* the observations since HoldsFrom, in order, the sum is theirs, and what *)
(* was evicted lies before the window for good, because the clock and the  *)
(* nudged stamps do not run back (QuietKeepsSignals, FittingFollowsObs).   *)
(*                                                                         *)
(* BucketsSound: what was traded is in the closed buckets or waits; the    *)
(* loop of add_trade takes whole buckets and leaves less than one          *)
(* (ClosingCounts).                                                        *)
(*                                                                         *)
(* SplitsSound: ranges cut out group by group are the same as a distance   *)
(* kept to every test sample, because a group is a non-empty range         *)
(* (GroupIsRange, TrainIsTrainable).                                       *)
(*                                                                         *)
(* MarketSound: the next snapshot, the next trade and the rest of a walk   *)
(* are never far behind the highest stamp; the book is the touch of the    *)
(* snapshot in force; and the order that a walk owes a fill lies ahead in  *)
(* it (WalkReaches: the prints of a trade are the prices between the touch *)
(* and the depth that the aggressor would go; PrintOnBook: a print meets   *)
(* an order at its own price only).  The mids of the three generators are  *)
(* recursive functions, which exist (PathExists) and stay in the unit.     *)
(***************************************************************************)
EXTENDS Calibration, PurgedCV, SyntheticFeed, OrderExecution_proofs, SequenceTheorems

-----------------------------------------------------------------------------
\* The streams of a capture.

Observations == [raw : Nat, ts : Nat, top : TopOfBook]

\* Whatever the stamps of the capture, those of the observations increase,
\* and none was moved back.
StreamsSound ==
    /\ obs \in Seq(Observations)
    /\ prints \in Seq([ts : Nat, price : Nat])
    /\ \A i, j \in DOMAIN obs : i < j => obs[i].ts < obs[j].ts
    /\ \A i \in DOMAIN obs : obs[i].raw <= obs[i].ts

LEMMA StreamFields ==
    ASSUME StreamsSound
    PROVE  /\ DOMAIN obs = 1 .. Len(obs) /\ Len(obs) \in Nat
           /\ \A i \in DOMAIN obs :
                 obs[i].raw \in Nat /\ obs[i].ts \in Nat /\ obs[i].top \in TopOfBook
           /\ \A k \in DOMAIN prints : prints[k].ts \in Nat /\ prints[k].price \in Nat
<1>1. DOMAIN obs = 1 .. Len(obs) /\ Len(obs) \in Nat
  BY DEF StreamsSound
<1>2. ASSUME NEW i \in DOMAIN obs
      PROVE  obs[i].raw \in Nat /\ obs[i].ts \in Nat /\ obs[i].top \in TopOfBook
  <2>1. obs[i] \in Observations
    BY <1>1 DEF StreamsSound
  <2> QED
    BY <2>1 DEF Observations
<1>3. ASSUME NEW k \in DOMAIN prints
      PROVE  prints[k].ts \in Nat /\ prints[k].price \in Nat
  <2> DEFINE P == [ts : Nat, price : Nat]
  <2>1. \A p \in P : p.ts \in Nat /\ p.price \in Nat
    OBVIOUS
  <2>2. prints \in Seq(P)
    BY DEF StreamsSound
  <2> HIDE DEF P
  <2>3. prints[k] \in P
    BY <2>2
  <2> QED
    BY <2>1, <2>3
<1> QED
  BY <1>1, <1>2, <1>3

LEMMA ReadKeepsStreams ==
    ASSUME StreamsSound, NEW ts \in Nat, NEW top \in TopOfBook, ReadBook(ts, top)
    PROVE  StreamsSound'
<1> DEFINE o == [raw |-> ts, ts |-> Nudged(ts), top |-> top]
<1>1. obs' = Append(obs, o) /\ prints' = prints
  BY DEF ReadBook
<1>2. LastTs \in Nat \cup {-1} /\ \A i \in DOMAIN obs : obs[i].ts <= LastTs
  <2>1. CASE obs = << >>
    BY <2>1 DEF LastTs
  <2>2. CASE obs # << >>
    <3>1. /\ Len(obs) \in DOMAIN obs /\ LastTs = obs[Len(obs)].ts
          /\ \A i \in DOMAIN obs : i <= Len(obs)
      BY <2>2, StreamFields DEF LastTs, StreamsSound
    <3>2. \A i \in DOMAIN obs : i < Len(obs) => obs[i].ts < obs[Len(obs)].ts
      BY <3>1 DEF StreamsSound
    <3>3. \A i \in DOMAIN obs : obs[i].ts \in Nat
      BY StreamFields
    <3> QED
      BY <3>1, <3>2, <3>3
  <2> QED
    BY <2>1, <2>2
<1>3. Nudged(ts) \in Nat /\ LastTs < Nudged(ts) /\ ts <= Nudged(ts)
  BY <1>2 DEF Nudged
<1>4. /\ o \in Observations /\ o.ts = Nudged(ts) /\ o.raw = ts
  BY <1>3 DEF Observations
<1> HIDE DEF o
<1>5. /\ obs' \in Seq(Observations) /\ Len(obs') = Len(obs) + 1
      /\ DOMAIN obs' = 1 .. (Len(obs) + 1) /\ DOMAIN obs = 1 .. Len(obs)
      /\ \A i \in DOMAIN obs : obs'[i] = obs[i]
      /\ obs'[Len(obs) + 1] = o
  BY <1>1, <1>4 DEF StreamsSound
<1>6. \A i \in DOMAIN obs : obs[i].ts \in Nat
  BY StreamFields
<1>7. \A i, j \in DOMAIN obs' : i < j => obs'[i].ts < obs'[j].ts
  <2> SUFFICES ASSUME NEW i \in DOMAIN obs', NEW j \in DOMAIN obs', i < j
               PROVE  obs'[i].ts < obs'[j].ts
    OBVIOUS
  <2>1. CASE j \in DOMAIN obs
    <3>1. i \in DOMAIN obs /\ i \in Int /\ j \in Int
      BY <1>5, <2>1, StreamFields
    <3>2. obs[i].ts < obs[j].ts
      BY <2>1, <3>1 DEF StreamsSound
    <3> QED
      BY <1>5, <2>1, <3>1, <3>2
  <2>2. CASE j = Len(obs) + 1
    <3>1. i \in DOMAIN obs /\ obs'[i].ts <= LastTs /\ obs'[j].ts = Nudged(ts)
      BY <1>2, <1>4, <1>5, <2>2
    <3> QED
      BY <1>2, <1>3, <1>5, <1>6, <3>1
  <2> QED
    BY <1>5, <2>1, <2>2
<1>8. \A i \in DOMAIN obs' : obs'[i].raw <= obs'[i].ts
  BY <1>3, <1>4, <1>5 DEF StreamsSound
<1> QED
  BY <1>1, <1>5, <1>7, <1>8 DEF StreamsSound

LEMMA StepStreams == StreamsSound /\ [Next]_vars => StreamsSound'
<1> SUFFICES ASSUME StreamsSound, [Next]_vars PROVE StreamsSound'
  OBVIOUS
<1>1. CASE UNCHANGED capture
  BY <1>1 DEF capture, StreamsSound
<1>2. CASE Read
  <2>1. CASE \E ts \in Stamps, top \in CapturedTops : ReadBook(ts, top)
    BY <2>1, CalibrationAssumption, ReadKeepsStreams
  <2>2. CASE \E ts \in Stamps, price \in TradePrices : ReadTrade(ts, price)
    <3>1. PICK ts \in Stamps, price \in TradePrices : ReadTrade(ts, price)
      BY <2>2
    <3> DEFINE p == [ts |-> ts, price |-> price]
    <3>2. p \in [ts : Nat, price : Nat]
      BY CalibrationAssumption
    <3>3. prints' = Append(prints, p) /\ obs' = obs
      BY <3>1 DEF ReadTrade
    <3> HIDE DEF p
    <3> QED
      BY <3>2, <3>3 DEF StreamsSound
  <2>3. CASE ReadOther
    BY <2>3 DEF ReadOther, StreamsSound
  <2> QED
    BY <1>2, <2>1, <2>2, <2>3 DEF Read
<1>3. \/ Live \/ TooFewBooks \/ Estimate \/ FitNext \/ Regress \/ MergeParams \/ BuildStrategy
      \/ UNCHANGED vars
      => UNCHANGED capture
  BY DEF Live, TooFewBooks, Estimate, FitNext, Regress, MergeParams, BuildStrategy,
         vars, program
<1> QED
  BY <1>1, <1>2, <1>3 DEF Next

LEMMA StreamsStaySound == Spec => []StreamsSound
<1>1. Init => StreamsSound
  BY DEF Init, StreamsSound
<1> QED
  BY <1>1, StepStreams, PTL DEF Spec

\* The observations that a trade can be measured from are the first ones.
LEMMA KnownIsPrefix ==
    ASSUME StreamsSound, NEW ts \in Nat
    PROVE  /\ LastMidBefore(ts) \in 0 .. Len(obs)
           /\ \A i \in DOMAIN obs : i <= LastMidBefore(ts) <=> obs[i].ts <= ts
<1> DEFINE S == {i \in DOMAIN obs : obs[i].ts <= ts}
<1>1. DOMAIN obs = 1 .. Len(obs) /\ Len(obs) \in Nat
  BY DEF StreamsSound
<1>2. \A i \in DOMAIN obs : obs[i].ts \in Nat
  BY StreamFields
<1>3. \A i \in S : \A j \in 1 .. i : j \in S
  <2> SUFFICES ASSUME NEW i \in S, NEW j \in 1 .. i PROVE j \in S
    OBVIOUS
  <2>1. j \in DOMAIN obs /\ i \in DOMAIN obs /\ obs[i].ts <= ts
    BY <1>1
  <2>2. j < i => obs[j].ts < obs[i].ts
    BY <2>1 DEF StreamsSound
  <2>3. obs[j].ts <= obs[i].ts
    BY <1>1, <1>2, <2>1, <2>2
  <2> QED
    BY <1>2, <2>1, <2>3
<1>4. S \subseteq 1 .. Len(obs)
  BY <1>1
<1> HIDE DEF S
<1>5. Cardinality(S) \in 0 .. Len(obs) /\ S = 1 .. Cardinality(S)
  BY <1>1, <1>3, <1>4, PrefixCount
<1>6. LastMidBefore(ts) = Cardinality(S)
  BY DEF LastMidBefore, S
<1> QED
  BY <1>1, <1>5, <1>6 DEF S

\* The nudged stamps never let an estimate look ahead: a depth is measured
\* from a mid that was published before the trade, and from the last of those
\* whose stamps are their own.
THEOREM DepthsAreHonest == Spec => []DepthsUseKnownMids
<1>1. StreamsSound => DepthsUseKnownMids
  <2> SUFFICES ASSUME StreamsSound, NEW k \in Measured
               PROVE  LET i == LastMidBefore(prints[k].ts)
                      IN  /\ obs[i].raw <= prints[k].ts
                          /\ \A j \in DOMAIN obs :
                                 obs[j].ts = obs[j].raw /\ obs[j].raw <= prints[k].ts => j <= i
    BY DEF DepthsUseKnownMids
  <2> DEFINE i == LastMidBefore(prints[k].ts)
  <2>1. k \in DOMAIN prints /\ i > 0 /\ prints[k].ts \in Nat
    BY StreamFields DEF Measured
  <2>2. i \in DOMAIN obs /\ obs[i].ts <= prints[k].ts
    <3>1. i \in 0 .. Len(obs) /\ \A j \in DOMAIN obs : j <= i <=> obs[j].ts <= prints[k].ts
      BY <2>1, KnownIsPrefix
    <3>2. i \in DOMAIN obs
      BY <2>1, <3>1, StreamFields
    <3> QED
      BY <3>1, <3>2
  <2>3. obs[i].raw <= obs[i].ts /\ obs[i].raw \in Nat /\ obs[i].ts \in Nat
    BY <2>2, StreamFields DEF StreamsSound
  <2>4. obs[i].raw <= prints[k].ts
    BY <2>1, <2>2, <2>3
  <2>5. ASSUME NEW j \in DOMAIN obs, obs[j].ts = obs[j].raw, obs[j].raw <= prints[k].ts
        PROVE  j <= i
    BY <2>1, <2>5, KnownIsPrefix
  <2> QED
    BY <2>4, <2>5
<1> QED
  BY <1>1, StreamsStaySound, PTL

-----------------------------------------------------------------------------
\* The estimates.

\* A sum of positive depths is not zero.
LEMMA DepthsAddUp ==
    ASSUME NEW S, IsFiniteSet(S), S # {}, \A k \in S : Depth(k) \in Nat \ {0}
    PROVE  MapThenSumSet(Depth, S) # 0
<1> DEFINE w == [k \in S |-> Depth(k)]
           Body(t) == [T \in SUBSET S |->
                         IF T = {} THEN 0
                         ELSE LET x == CHOOSE y \in T : TRUE
                              IN  Depth(x) + t[T \ {x}]]
           u == CHOOSE t : t = Body(t)
<1>1. MapThenSumSet(Depth, S) = u[S]
  BY DEF MapThenSumSet, MapThenFoldSet
<1>2. \A T \in SUBSET S : T # {} => AnyOf(T) \in T /\ AnyOf(T) \in S
  BY Sizes
<1>3. \A T \in SUBSET S : T # {} => w[AnyOf(T)] = LET x == AnyOf(T) IN Depth(x)
  BY <1>2
<1>4. \A t : Body(t) = [T \in SUBSET S |-> IF T = {} THEN 0
                                         ELSE w[AnyOf(T)] + t[T \ {AnyOf(T)}]]
  BY <1>3 DEF AnyOf
<1>5. \A k \in S : w[k] \in Nat \ {0}
  OBVIOUS
<1> HIDE DEF Body, w
<1>6. \A t : t = Body(t) <=> IsTable(t, w, S)
  BY <1>4 DEF IsTable
<1>7. IsTable(CHOOSE t : IsTable(t, w, S), w, S)
  BY TableExists
<1>8. IsTable(u, w, S)
  BY <1>6, <1>7
<1> HIDE DEF u
<1>9. Total(w, S) = u[S]
  BY <1>8, TotalOfSubset
<1>10. PICK x \in S : TRUE
  OBVIOUS
<1>11. /\ Total(w, S) = w[x] + Total(w, S \ {x})
       /\ w[x] \in Nat \ {0}
  BY <1>5, <1>10, TotalTakesOut
<1>12. Total(w, S \ {x}) \in Nat
  BY <1>5, FS_Subset, TotalNat
<1> QED
  BY <1>1, <1>9, <1>11, <1>12

\* The depth of a trade that can be measured is a distance.
LEMMA DepthIsNat ==
    ASSUME StreamsSound, NEW k \in Measured
    PROVE  Depth(k) \in Nat
<1> DEFINE i == LastMidBefore(prints[k].ts)
<1>1. prints[k].ts \in Nat /\ prints[k].price \in Nat /\ i > 0
  BY StreamFields DEF Measured
<1>2. i \in 0 .. Len(obs)
  BY <1>1, KnownIsPrefix
<1>3. i \in DOMAIN obs
  BY <1>1, <1>2, StreamFields
<1>4. obs[i].top.bidPx \in Nat /\ obs[i].top.askPx \in Nat
  BY <1>3, StreamFields DEF TopOfBook
<1>5. MidOf(i) \in Nat
  BY <1>4 DEF MidOf
<1> HIDE DEF i
<1> QED
  BY <1>1, <1>5 DEF Depth, Larger, i

LEMMA KappaIsFound == StreamsSound => Kappa \in {"zero", "positive"}
<1> SUFFICES ASSUME StreamsSound PROVE Kappa \in {"zero", "positive"}
  OBVIOUS
<1> DEFINE depths == {k \in Measured : Depth(k) > 0}
<1>1. \A k \in depths : Depth(k) \in Nat \ {0}
  BY DepthIsNat
<1>2. IsFiniteSet(depths)
  <2>1. DOMAIN prints = 1 .. Len(prints) /\ Len(prints) \in Nat
    BY DEF StreamsSound
  <2>2. IsFiniteSet(DOMAIN prints)
    BY <2>1, FS_Interval
  <2>3. depths \subseteq DOMAIN prints
    BY DEF Measured
  <2> QED
    BY <2>2, <2>3, FS_Subset
<1>3. depths # {} => MapThenSumSet(Depth, depths) # 0
  <2> HIDE DEF depths
  <2> QED
    BY <1>1, <1>2, DepthsAddUp
<1> QED
  BY <1>3 DEF Kappa

\* Sigma needs two observations and times that differ.
LEMMA SigmaIsFound == StreamsSound /\ Len(obs) >= MinBooks => Sigma \in {"zero", "positive"}
<1> SUFFICES ASSUME StreamsSound, Len(obs) >= MinBooks PROVE Sigma \in {"zero", "positive"}
  OBVIOUS
<1>1. 2 \in 2 .. Len(obs)
  BY CalibrationAssumption, StreamFields
<1>2. \A i \in 2 .. Len(obs) : ~(Elapsed(i) <= 0)
  <2> TAKE i \in 2 .. Len(obs)
  <2>1. i \in DOMAIN obs /\ i - 1 \in DOMAIN obs /\ i - 1 < i
    BY StreamFields
  <2>2. obs[i - 1].ts < obs[i].ts
    BY <2>1 DEF StreamsSound
  <2>3. obs[i].ts \in Nat /\ obs[i - 1].ts \in Nat
    BY <2>1, StreamFields
  <2> QED
    BY <2>2, <2>3 DEF Elapsed
<1> QED
  BY <1>1, <1>2 DEF Sigma

\* What the program has made of the estimates.
EstimatesSound ==
    /\ est \in [Params -> FileValues] /\ kind \in Kinds
    /\ mode \in {"merged", "built", "raised"} => params = Merged(kind)
    /\ mode = "built"  => \A p \in Allowed(kind) : Accepts(p, params[p])
    /\ mode = "raised" => \E p \in Allowed(kind) : ~Accepts(p, params[p])

LEMMA StepEstimates == StreamsSound /\ EstimatesSound /\ [Next]_vars => EstimatesSound'
<1> SUFFICES ASSUME StreamsSound, EstimatesSound, [Next]_vars PROVE EstimatesSound'
  OBVIOUS
<1>1. /\ Live \/ Read \/ FitNext \/ UNCHANGED vars => UNCHANGED <<mode, est, kind, params>>
      /\ TooFewBooks => mode' = "exit" /\ UNCHANGED <<est, kind, params>>
  BY DEF Live, Read, FitNext, TooFewBooks, vars, program
<1>2. CASE UNCHANGED <<mode, est, kind, params>>
  BY <1>2 DEF EstimatesSound, Merged, Kept
<1>3. CASE TooFewBooks
  BY <1>1, <1>3 DEF EstimatesSound
<1>4. CASE Estimate
  <2>1. /\ est' = [est EXCEPT !["sigma"] = Sigma, !["A"] = ArrivalRate, !["kappa"] = Kappa]
        /\ mode' = "fitting" /\ kind' = kind
    BY <1>4 DEF Estimate
  <2>2. Sigma \in FileValues /\ Kappa \in FileValues /\ ArrivalRate \in FileValues
    BY <1>4, SigmaIsFound, KappaIsFound DEF Estimate, ArrivalRate, FileValues
  <2>3. est' \in [Params -> FileValues]
    BY <2>1, <2>2 DEF EstimatesSound, Params
  <2> QED
    BY <2>1, <2>3 DEF EstimatesSound
<1>5. CASE Regress
  <2>1. est' = [est EXCEPT !["alpha_beta"] = Slope] /\ mode' = "estimated" /\ kind' = kind
    BY <1>5 DEF Regress
  <2>2. Slope \in FileValues
    BY DEF Slope, FileValues
  <2>3. est' \in [Params -> FileValues]
    BY <2>1, <2>2 DEF EstimatesSound
  <2> QED
    BY <2>1, <2>3 DEF EstimatesSound
<1>6. CASE MergeParams
  <2>1. kind' \in Kinds /\ params' = Merged(kind') /\ mode' = "merged" /\ est' = est
    BY <1>6 DEF MergeParams
  <2>2. (params = Merged(kind))'
    BY <2>1 DEF Merged, Kept
  <2> QED
    BY <2>1, <2>2 DEF EstimatesSound
<1>7. CASE BuildStrategy
  <2>1. /\ mode = "merged" /\ UNCHANGED <<est, kind, params>>
        /\ mode' = IF \A p \in Allowed(kind) : Accepts(p, params[p]) THEN "built" ELSE "raised"
    BY <1>7 DEF BuildStrategy
  <2>2. (params = Merged(kind))'
    BY <2>1 DEF EstimatesSound, Merged, Kept
  <2> QED
    BY <2>1, <2>2 DEF EstimatesSound
<1> QED
  BY <1>1, <1>2, <1>3, <1>4, <1>5, <1>6, <1>7 DEF Next

LEMMA EstimatesStaySound == Spec => []EstimatesSound
<1>1. Init => EstimatesSound
  BY DEF Init, EstimatesSound, NoEstimates, FileValues, Kinds
<1> QED
  BY <1>1, StepEstimates, StreamsStaySound, PTL DEF Spec

\* No capture, however its stamps repeat or run back, makes an estimator raise.
THEOREM NoEstimatorRaises == Spec => []EstimatorsAccept
<1>1. EstimatesSound => EstimatorsAccept
  BY DEF EstimatesSound, EstimatorsAccept, FileValues
<1> QED
  BY <1>1, EstimatesStaySound, PTL

\* Every file of numbers gives a strategy, with positive parameters.
THEOREM EveryFileBuilds == Spec => []CalibrationNeverBreaks
<1>1. EstimatesSound => CalibrationNeverBreaks
  <2> SUFFICES ASSUME EstimatesSound, est["alpha_beta"] # "text",
                      \A p \in Params : est[p] # "quoted",
                      mode \in {"built", "raised"}
               PROVE  /\ mode # "raised"
                      /\ \A p \in Allowed(kind) \cap StrictlyPositive :
                             params[p] \in {"default", "positive"}
    BY DEF CalibrationNeverBreaks
  <2>1. Allowed(kind) \subseteq Params /\ params = Merged(kind)
    BY DEF EstimatesSound, Allowed, Kinds, Params
  <2>2. ASSUME NEW p \in Allowed(kind)
        PROVE  Accepts(p, params[p])
    <3>1. /\ est[p] \in FileValues /\ est[p] # "quoted"
          /\ p = "alpha_beta" => est[p] # "text"
          /\ p \in StrictlyPositive \/ p = "alpha_beta"
      BY <2>1 DEF EstimatesSound, Params, StrictlyPositive
    <3>2. params[p] = IF est[p] = "absent" \/ Kept(p) THEN "default" ELSE est[p]
      BY <2>1 DEF Merged
    <3> QED
      BY <3>1, <3>2 DEF Accepts, Kept, FileValues, StrictlyPositive
  <2>3. \A p \in Allowed(kind) \cap StrictlyPositive : params[p] \in {"default", "positive"}
    <3> TAKE p \in Allowed(kind) \cap StrictlyPositive
    <3>1. est[p] \in FileValues /\ est[p] # "quoted"
      BY <2>1 DEF EstimatesSound
    <3>2. params[p] = IF est[p] = "absent" \/ Kept(p) THEN "default" ELSE est[p]
      BY <2>1 DEF Merged
    <3> QED
      BY <3>1, <3>2 DEF Kept, FileValues
  <2> QED
    BY <2>2, <2>3 DEF EstimatesSound
<1> QED
  BY <1>1, EstimatesStaySound, PTL

-----------------------------------------------------------------------------
\* The rolling window.

\* The sums as Signals writes them, with the fold of the library.
EntriesOf(all, S) == MapThenSumSet(LAMBDA i : all[i].e, S)
PressureOf(s, S)  == MapThenSumSet(LAMBDA i : Contribution(s[i - 1].top, s[i].top), S)
VolumeOf(s, S)    == MapThenSumSet(LAMBDA i : s[i], S)

LEMMA SignalFoldsAreSums ==
    ASSUME NEW s, NEW S, IsFiniteSet(S)
    PROVE  /\ EntriesOf(s, S) = Total([i \in S |-> s[i].e], S)
           /\ PressureOf(s, S) = Total([i \in S |-> Contribution(s[i - 1].top, s[i].top)], S)
           /\ VolumeOf(s, S) = Total([i \in S |-> s[i]], S)
<1>1. \A T \in SUBSET S : T # {} => AnyOf(T) \in T /\ AnyOf(T) \in S
  BY Sizes
<1>2. S \in SUBSET S
  OBVIOUS
<1>3. EntriesOf(s, S) = Total([i \in S |-> s[i].e], S)
  <2> DEFINE w == [i \in S |-> s[i].e]
             Body(t) == [T \in SUBSET S |->
                           IF T = {} THEN 0
                           ELSE LET x == CHOOSE y \in T : TRUE
                                IN  s[x].e + t[T \ {x}]]
             u == CHOOSE t : t = Body(t)
  <2>1. EntriesOf(s, S) = u[S]
    BY DEF EntriesOf, MapThenSumSet, MapThenFoldSet
  <2>2. \A T \in SUBSET S : T # {} => w[AnyOf(T)] = LET x == AnyOf(T) IN s[x].e
    BY <1>1
  <2>3. \A t : Body(t) = [T \in SUBSET S |-> IF T = {} THEN 0
                                           ELSE w[AnyOf(T)] + t[T \ {AnyOf(T)}]]
    BY <2>2 DEF AnyOf
  <2>4. Total([i \in S |-> s[i].e], S) = Total(w, S)
    OBVIOUS
  <2> HIDE DEF Body, w
  <2>5. \A t : t = Body(t) <=> IsTable(t, w, S)
    BY <2>3 DEF IsTable
  <2>6. IsTable(CHOOSE t : IsTable(t, w, S), w, S)
    BY TableExists
  <2>7. IsTable(u, w, S)
    BY <2>5, <2>6
  <2> HIDE DEF u
  <2> QED
    BY <1>2, <2>1, <2>4, <2>7, TotalOfSubset
<1>4. PressureOf(s, S) = Total([i \in S |-> Contribution(s[i - 1].top, s[i].top)], S)
  <2> DEFINE w == [i \in S |-> Contribution(s[i - 1].top, s[i].top)]
             Body(t) == [T \in SUBSET S |->
                           IF T = {} THEN 0
                           ELSE LET x == CHOOSE y \in T : TRUE
                                IN  Contribution(s[x - 1].top, s[x].top) + t[T \ {x}]]
             u == CHOOSE t : t = Body(t)
  <2>1. PressureOf(s, S) = u[S]
    BY DEF PressureOf, MapThenSumSet, MapThenFoldSet
  <2>2. \A T \in SUBSET S : T # {} => w[AnyOf(T)] = LET x == AnyOf(T) IN Contribution(s[x - 1].top, s[x].top)
    BY <1>1
  <2>3. \A t : Body(t) = [T \in SUBSET S |-> IF T = {} THEN 0
                                           ELSE w[AnyOf(T)] + t[T \ {AnyOf(T)}]]
    BY <2>2 DEF AnyOf
  <2>4. Total([i \in S |-> Contribution(s[i - 1].top, s[i].top)], S) = Total(w, S)
    OBVIOUS
  <2> HIDE DEF Body, w
  <2>5. \A t : t = Body(t) <=> IsTable(t, w, S)
    BY <2>3 DEF IsTable
  <2>6. IsTable(CHOOSE t : IsTable(t, w, S), w, S)
    BY TableExists
  <2>7. IsTable(u, w, S)
    BY <2>5, <2>6
  <2> HIDE DEF u
  <2> QED
    BY <1>2, <2>1, <2>4, <2>7, TotalOfSubset
<1>5. VolumeOf(s, S) = Total([i \in S |-> s[i]], S)
  <2> DEFINE w == [i \in S |-> s[i]]
             Body(t) == [T \in SUBSET S |->
                           IF T = {} THEN 0
                           ELSE LET x == CHOOSE y \in T : TRUE
                                IN  s[x] + t[T \ {x}]]
             u == CHOOSE t : t = Body(t)
  <2>1. VolumeOf(s, S) = u[S]
    BY DEF VolumeOf, MapThenSumSet, MapThenFoldSet
  <2>2. \A T \in SUBSET S : T # {} => w[AnyOf(T)] = LET x == AnyOf(T) IN s[x]
    BY <1>1
  <2>3. \A t : Body(t) = [T \in SUBSET S |-> IF T = {} THEN 0
                                           ELSE w[AnyOf(T)] + t[T \ {AnyOf(T)}]]
    BY <2>2 DEF AnyOf
  <2>4. Total([i \in S |-> s[i]], S) = Total(w, S)
    OBVIOUS
  <2> HIDE DEF Body, w
  <2>5. \A t : t = Body(t) <=> IsTable(t, w, S)
    BY <2>3 DEF IsTable
  <2>6. IsTable(CHOOSE t : IsTable(t, w, S), w, S)
    BY TableExists
  <2>7. IsTable(u, w, S)
    BY <2>5, <2>6
  <2> HIDE DEF u
  <2> QED
    BY <1>2, <2>1, <2>4, <2>7, TotalOfSubset
<1> QED
  BY <1>3, <1>4, <1>5

Sightings == [ts : Nat, top : TopOfBook]

\* What each observation after the first contributes.
Pressures(s) == [i \in 2 .. Len(s) |-> Contribution(s[i - 1].top, s[i].top)]

\* The contributions in the deque are those of the last observations, from
\* number first on; what was before them is too old.
HoldsFrom(first) ==
    /\ first \in 2 .. (Len(seen) + 1)
    /\ Len(events) = Len(seen) + 1 - first
    /\ \A j \in DOMAIN events :
          /\ events[j].ts = seen[first - 1 + j].ts
          /\ events[j].e = Pressures(seen)[first - 1 + j]
    /\ \A i \in 2 .. (first - 1) : seen[i].ts < seen[Len(seen)].ts - Window
    /\ \A i \in first .. Len(seen) : seen[i].ts >= seen[Len(seen)].ts - Window
    /\ sum = Total(Pressures(seen), first .. Len(seen))

SignalSound ==
    /\ seen \in Seq(Sightings) /\ events \in Seq([ts : Nat, e : Int])
    /\ now \in Nat /\ sum \in Int
    /\ \A i, j \in DOMAIN seen : i <= j => seen[i].ts <= seen[j].ts
    /\ \A i \in DOMAIN seen : seen[i].ts <= now
    /\ IF seen = << >> THEN prev = NoTop /\ events = << >> /\ sum = 0
       ELSE prev = seen[Len(seen)].top /\ \E first \in Nat : HoldsFrom(first)

LEMMA ContributionIsInt ==
    \A p, q \in TopOfBook : Contribution(p, q) \in Int
BY DEF Contribution, BidPressure, AskPressure, TopOfBook

LEMMA SightingFields ==
    ASSUME NEW s \in Seq(Sightings)
    PROVE  /\ DOMAIN s = 1 .. Len(s) /\ Len(s) \in Nat
           /\ \A i \in DOMAIN s : s[i].ts \in Nat /\ s[i].top \in TopOfBook
           /\ \A i \in 2 .. Len(s) : Pressures(s)[i] \in Int
<1>1. DOMAIN s = 1 .. Len(s) /\ Len(s) \in Nat
  OBVIOUS
<1>2. ASSUME NEW i \in DOMAIN s PROVE s[i].ts \in Nat /\ s[i].top \in TopOfBook
  <2>1. s[i] \in Sightings
    BY <1>1
  <2> QED
    BY <2>1 DEF Sightings
<1>3. \A i \in 2 .. Len(s) : Pressures(s)[i] \in Int
  <2> TAKE i \in 2 .. Len(s)
  <2>1. i \in DOMAIN s /\ i - 1 \in DOMAIN s
    BY <1>1
  <2>2. Contribution(s[i - 1].top, s[i].top) \in Int
    BY <1>2, <2>1, ContributionIsInt
  <2> QED
    BY <2>2 DEF Pressures
<1> QED
  BY <1>1, <1>2, <1>3

\* One more observation leaves the contributions of the others alone.
LEMMA PressuresGrow ==
    ASSUME NEW s \in Seq(Sightings), s # << >>, NEW x \in Sightings
    PROVE  LET t == Append(s, x)
           IN  /\ t \in Seq(Sightings) /\ Len(t) = Len(s) + 1
               /\ \A i \in DOMAIN s : t[i] = s[i]
               /\ t[Len(s) + 1] = x
               /\ \A i \in 2 .. Len(s) : Pressures(t)[i] = Pressures(s)[i]
               /\ Pressures(t)[Len(s) + 1] = Contribution(s[Len(s)].top, x.top)
<1> DEFINE t == Append(s, x)
<1>1. /\ t \in Seq(Sightings) /\ Len(t) = Len(s) + 1 /\ Len(s) \in Nat \ {0}
      /\ \A i \in 1 .. Len(s) : t[i] = s[i]
      /\ t[Len(s) + 1] = x
  OBVIOUS
<1> HIDE DEF t
<1>2. \A i \in 2 .. Len(s) : Pressures(t)[i] = Pressures(s)[i]
  <2> TAKE i \in 2 .. Len(s)
  <2>1. i \in 2 .. Len(t) /\ t[i] = s[i] /\ t[i - 1] = s[i - 1]
    BY <1>1
  <2> QED
    BY <2>1 DEF Pressures
<1>3. Pressures(t)[Len(s) + 1] = Contribution(s[Len(s)].top, x.top)
  <2>1. Len(s) + 1 \in 2 .. Len(t) /\ t[(Len(s) + 1) - 1] = s[Len(s)]
    BY <1>1
  <2> QED
    BY <1>1, <2>1 DEF Pressures
<1> QED
  BY <1>1, <1>2, <1>3 DEF t

\* A first observation is only remembered.
LEMMA FirstUpdateSound ==
    ASSUME SignalSound, NEW ts \in Nat, now <= ts, NEW top \in TopOfBook,
           seen = << >>, UpdateOFI(ts, top), now' = ts
    PROVE  SignalSound'
<1> DEFINE x == [ts |-> ts, top |-> top]
<1>1. x \in Sightings /\ x.ts = ts /\ x.top = top
  BY DEF Sightings
<1> HIDE DEF x
<1>2. prev = NoTop /\ events = << >> /\ sum = 0
  BY DEF SignalSound
<1>3. seen' = Append(seen, x) /\ prev' = top /\ events' = events /\ sum' = sum
  BY <1>2 DEF UpdateOFI, FirstUpdate, LaterUpdate, x
<1>4. /\ seen' \in Seq(Sightings) /\ Len(seen') = 1 /\ seen'[1] = x /\ DOMAIN seen' = {1}
      /\ seen' # << >>
  BY <1>1, <1>3
<1>5. HoldsFrom(2)'
  <2>1. Len(events') = 0 /\ DOMAIN events' = {} /\ 2 .. Len(seen') = {}
    BY <1>2, <1>3, <1>4
  <2>2. Total(Pressures(seen'), 2 .. Len(seen')) = 0
    BY <2>1, TotalEmpty
  <2>3. sum' = 0
    BY <1>2, <1>3
  <2>4. 2 \in 2 .. (Len(seen') + 1) /\ Len(events') = Len(seen') + 1 - 2
        /\ 2 .. (2 - 1) = {}
    BY <1>4, <2>1
  <2> QED
    BY <2>1, <2>2, <2>3, <2>4 DEF HoldsFrom
<1>6. /\ \A i, j \in DOMAIN seen' : i <= j => seen'[i].ts <= seen'[j].ts
      /\ \A i \in DOMAIN seen' : seen'[i].ts <= now'
  BY <1>1, <1>4
<1>7. \E first \in Nat : HoldsFrom(first)'
  BY <1>5
<1>8. prev' = seen'[Len(seen')].top
  BY <1>1, <1>3, <1>4
<1>9. events' \in Seq([ts : Nat, e : Int]) /\ sum' \in Int /\ now' \in Nat
  BY <1>2, <1>3
<1> QED
  BY <1>4, <1>6, <1>7, <1>8, <1>9 DEF SignalSound

\* The observations stay in order.
LEMMA SightingsStayOrdered ==
    ASSUME SignalSound, NEW ts \in Nat, now <= ts, NEW top \in TopOfBook,
           seen' = Append(seen, [ts |-> ts, top |-> top])
    PROVE  /\ \A i, j \in DOMAIN seen' : i <= j => seen'[i].ts <= seen'[j].ts
           /\ \A i \in DOMAIN seen' : seen'[i].ts <= ts
<1> DEFINE x == [ts |-> ts, top |-> top]
<1>1. x \in Sightings /\ x.ts = ts /\ seen' = Append(seen, x) /\ seen \in Seq(Sightings)
  BY DEF Sightings, SignalSound
<1> HIDE DEF x
<1>2. /\ DOMAIN seen' = 1 .. (Len(seen) + 1) /\ DOMAIN seen = 1 .. Len(seen)
      /\ Len(seen) \in Nat /\ seen'[Len(seen) + 1] = x
      /\ \A i \in 1 .. Len(seen) : seen'[i] = seen[i]
  BY <1>1
<1>3. \A i \in DOMAIN seen : seen[i].ts \in Nat /\ seen[i].ts <= ts
  <2> TAKE i \in DOMAIN seen
  <2>1. seen[i].ts \in Nat /\ seen[i].ts <= now /\ now \in Nat
    BY SightingFields, <1>1 DEF SignalSound
  <2> QED
    BY <2>1
<1>4. \A i \in DOMAIN seen' : seen'[i].ts <= ts /\ seen'[i].ts \in Nat
  BY <1>1, <1>2, <1>3
<1>5. ASSUME NEW i \in DOMAIN seen', NEW j \in DOMAIN seen', i <= j
      PROVE  seen'[i].ts <= seen'[j].ts
  <2>1. CASE j = Len(seen) + 1
    BY <1>1, <1>2, <1>4, <2>1
  <2>2. CASE j \in DOMAIN seen
    <3>1. i \in DOMAIN seen
      BY <1>2, <1>5, <2>2
    <3>2. seen[i].ts <= seen[j].ts
      BY <1>5, <2>2, <3>1 DEF SignalSound
    <3> QED
      BY <1>2, <2>2, <3>1, <3>2
  <2> QED
    BY <1>2, <2>1, <2>2
<1> QED
  BY <1>4, <1>5

\* What is left of a sequence when g elements go from its front.
LEMMA TailFields ==
    ASSUME NEW S, NEW s \in Seq(S), NEW g \in 0 .. Len(s)
    PROVE  LET t == SubSeq(s, g + 1, Len(s))
           IN  /\ t \in Seq(S) /\ Len(t) = Len(s) - g
               /\ \A j \in 1 .. (Len(s) - g) : t[j] = s[g + j]
<1> DEFINE t == SubSeq(s, g + 1, Len(s))
<1>1. g \in Nat /\ Len(s) \in Nat /\ \A j \in 1 .. Len(s) : s[j] \in S
  OBVIOUS
<1>2. \A j \in (g + 1) .. Len(s) : s[j] \in S
  BY <1>1
<1>3. t \in Seq(S) /\ Len(t) = IF g + 1 <= Len(s) THEN Len(s) - (g + 1) + 1 ELSE 0
  BY <1>1, <1>2, SubSeqProperties
<1>4. \A j \in 1 .. (Len(s) - g) : t[j] = s[(g + 1) + j - 1]
  BY <1>1, <1>2, SubSeqProperties
<1>5. \A j \in 1 .. (Len(s) - g) : (g + 1) + j - 1 = g + j
  BY <1>1
<1> QED
  BY <1>1, <1>3, <1>4, <1>5

\* A later one adds its contribution and evicts the oldest, as long as they
\* have left the window.
LEMMA LaterUpdateSound ==
    ASSUME SignalSound, NEW ts \in Nat, now <= ts, NEW top \in TopOfBook,
           seen # << >>, UpdateOFI(ts, top), now' = ts
    PROVE  SignalSound'
<1> DEFINE x    == [ts |-> ts, top |-> top]
           e    == Contribution(prev, top)
           new  == [ts |-> ts, e |-> e]
           all  == Append(events, new)
           gone == Evicted(all, ts - Window)
           g    == Cardinality(gone)
           n    == Len(seen)
           w    == Pressures(seen')
<1>1. /\ seen \in Seq(Sightings) /\ events \in Seq([ts : Nat, e : Int]) /\ sum \in Int
      /\ prev = seen[n].top
  BY DEF SignalSound
<1>2. PICK first \in Nat : HoldsFrom(first)
  BY DEF SignalSound
<1>3. /\ n \in Nat \ {0} /\ DOMAIN seen = 1 .. n /\ n \in DOMAIN seen
      /\ prev \in TopOfBook /\ \A i \in DOMAIN seen : seen[i].ts \in Nat
  BY <1>1, SightingFields
<1>4. prev # NoTop
  BY <1>3 DEF TopOfBook, NoTop, None
<1>5. /\ seen' = Append(seen, x) /\ prev' = top
      /\ events' = SubSeq(all, g + 1, Len(all))
      /\ sum' = sum + e - EntriesOf(all, gone)
  BY <1>4 DEF UpdateOFI, FirstUpdate, LaterUpdate, EntriesOf
<1>6. x \in Sightings /\ x.ts = ts /\ x.top = top
  BY DEF Sightings
<1>7. e \in Int /\ new \in [ts : Nat, e : Int] /\ new.ts = ts /\ new.e = e
  <2>1. e \in Int
    BY <1>3, ContributionIsInt
  <2> QED
    BY <2>1
<1>8. /\ seen' \in Seq(Sightings) /\ Len(seen') = n + 1 /\ seen'[n + 1] = x
      /\ \A i \in DOMAIN seen : seen'[i] = seen[i]
      /\ \A i \in 2 .. n : w[i] = Pressures(seen)[i]
      /\ w[n + 1] = e
  <2> HIDE DEF x
  <2> QED
    BY <1>1, <1>5, <1>6, PressuresGrow
<1> HIDE DEF x, e, new
<1>9. \A i \in 2 .. (n + 1) : w[i] \in Int
  BY <1>8, SightingFields
<1> HIDE DEF w
<1>10. /\ first \in 2 .. (n + 1) /\ Len(events) = n + 1 - first
       /\ DOMAIN events = 1 .. (n + 1 - first)
       /\ \A j \in DOMAIN events : /\ events[j].ts = seen[first - 1 + j].ts
                                   /\ events[j].e = Pressures(seen)[first - 1 + j]
       /\ \A i \in 2 .. (first - 1) : seen[i].ts < seen[n].ts - Window
       /\ sum = Total(Pressures(seen), first .. n)
  BY <1>1, <1>2 DEF HoldsFrom
<1>11. /\ all \in Seq([ts : Nat, e : Int]) /\ Len(all) = n + 2 - first
       /\ DOMAIN all = 1 .. (n + 2 - first)
       /\ \A j \in DOMAIN events : all[j] = events[j]
       /\ all[n + 2 - first] = new
  BY <1>1, <1>7, <1>10
\* The deque before the eviction is the last observations of all.
<1>12. \A j \in DOMAIN all : /\ all[j].ts = seen'[first - 1 + j].ts
                             /\ all[j].e = w[first - 1 + j]
                             /\ first - 1 + j \in 2 .. (n + 1)
  <2> TAKE j \in DOMAIN all
  <2>1. CASE j \in DOMAIN events
    <3>1. first - 1 + j \in 2 .. n /\ first - 1 + j \in DOMAIN seen
      BY <1>3, <1>10, <2>1
    <3>2. all[j] = events[j]
      BY <1>11, <2>1
    <3>3. /\ seen'[first - 1 + j] = seen[first - 1 + j]
          /\ w[first - 1 + j] = Pressures(seen)[first - 1 + j]
      BY <1>8, <3>1
    <3> QED
      BY <1>3, <1>10, <2>1, <3>1, <3>2, <3>3
  <2>2. CASE j = n + 2 - first
    <3>1. first - 1 + j = n + 1 /\ n + 1 \in 2 .. (n + 1)
      BY <1>3, <1>10, <2>2
    <3>2. all[j] = new
      BY <1>11, <2>2
    <3>3. seen'[n + 1].ts = new.ts
      BY <1>6, <1>7, <1>8
    <3>4. w[n + 1] = new.e
      BY <1>7, <1>8
    <3> QED
      BY <3>1, <3>2, <3>3, <3>4
  <2>3. j \in DOMAIN events \/ j = n + 2 - first
    <3>1. j \in 1 .. (n + 2 - first) /\ n \in Nat /\ first \in Nat
      BY <1>3, <1>10, <1>11
    <3>2. j \in 1 .. (n + 1 - first) \/ j = n + 2 - first
      BY <3>1
    <3> QED
      BY <1>10, <3>2
  <2> QED
    BY <2>1, <2>2, <2>3
<1>13. /\ \A i, j \in DOMAIN seen' : i <= j => seen'[i].ts <= seen'[j].ts
       /\ \A i \in DOMAIN seen' : seen'[i].ts <= ts
  BY <1>5, SightingsStayOrdered DEF x
<1> HIDE DEF all
<1>14. /\ gone \subseteq DOMAIN all
       /\ \A i \in gone : \A j \in 1 .. i : j \in gone
       /\ \A i \in gone : all[i].ts < ts - Window
       /\ \A i \in DOMAIN all \ gone : \E j \in 1 .. i : ~(all[j].ts < ts - Window)
  <2>1. gone = {i \in DOMAIN all : \A j \in 1 .. i : all[j].ts < ts - Window}
    BY DEF Evicted
  <2> HIDE DEF gone
  <2>2. ASSUME NEW i \in gone, NEW j \in 1 .. i PROVE j \in gone
    <3>1. i \in DOMAIN all /\ \A k \in 1 .. i : all[k].ts < ts - Window
      BY <2>1
    <3>2. j \in DOMAIN all /\ \A k \in 1 .. j : k \in 1 .. i
      BY <1>11, <3>1
    <3> QED
      BY <2>1, <3>1, <3>2
  <2>3. ASSUME NEW i \in gone PROVE all[i].ts < ts - Window
    <3>1. i \in DOMAIN all /\ \A k \in 1 .. i : all[k].ts < ts - Window
      BY <2>1
    <3>2. i \in 1 .. i
      BY <1>11, <3>1
    <3> QED
      BY <3>1, <3>2
  <2> QED
    BY <2>1, <2>2, <2>3
<1>15. n + 2 - first \notin gone
  BY <1>3, <1>7, <1>10, <1>11, <1>14, SignalsAssumption
<1> HIDE DEF gone
<1>16. g \in 0 .. (n + 1 - first) /\ gone = 1 .. g
  <2>1. n + 2 - first \in Nat /\ gone \subseteq 1 .. (n + 2 - first)
    BY <1>3, <1>10, <1>11, <1>14
  <2>2. g \in 0 .. (n + 2 - first) /\ gone = 1 .. g
    BY <1>14, <2>1, PrefixCount
  <2>3. g # n + 2 - first
    BY <1>3, <1>10, <1>15, <2>2
  <2> QED
    BY <1>3, <1>10, <2>2, <2>3
<1> HIDE DEF g
<1>17. /\ events' \in Seq([ts : Nat, e : Int]) /\ Len(events') = n + 2 - first - g
       /\ \A j \in 1 .. (n + 2 - first - g) : events'[j] = all[g + j]
       /\ DOMAIN events' = 1 .. (n + 2 - first - g)
  <2>1. Len(all) - g = n + 2 - first - g /\ g \in 0 .. Len(all)
    BY <1>3, <1>10, <1>11, <1>16
  <2>2. /\ events' \in Seq([ts : Nat, e : Int]) /\ Len(events') = Len(all) - g
        /\ \A j \in 1 .. (Len(all) - g) : events'[j] = all[g + j]
    BY <1>5, <1>11, <2>1, TailFields
  <2>3. DOMAIN events' = 1 .. Len(events')
    BY <2>2
  <2> QED
    BY <2>1, <2>2, <2>3
<1> DEFINE f == first + g
<1>18. f \in 2 .. (n + 1) /\ f \in Nat /\ n + 2 - f = n + 2 - first - g
  BY <1>3, <1>10, <1>16
<1>19. \A j \in DOMAIN events' : /\ events'[j].ts = seen'[f - 1 + j].ts
                                 /\ events'[j].e = w[f - 1 + j]
  <2> TAKE j \in DOMAIN events'
  <2>1. g + j \in DOMAIN all /\ first - 1 + (g + j) = f - 1 + j
    <3>1. j \in 1 .. (n + 2 - first - g) /\ g \in Nat /\ first \in Nat /\ n \in Nat
      BY <1>3, <1>10, <1>16, <1>17
    <3>2. g + j \in 1 .. (n + 2 - first)
      BY <3>1
    <3> QED
      BY <1>11, <3>1, <3>2
  <2>2. events'[j] = all[g + j]
    BY <1>17
  <2>3. /\ all[g + j].ts = seen'[first - 1 + (g + j)].ts
        /\ all[g + j].e = w[first - 1 + (g + j)]
    BY <1>12, <2>1
  <2> QED
    BY <2>1, <2>2, <2>3
<1>20. \A i \in 2 .. (f - 1) : seen'[i].ts < ts - Window
  <2> TAKE i \in 2 .. (f - 1)
  <2>1. CASE i <= first - 1
    <3>1. i \in 2 .. (first - 1) /\ i \in DOMAIN seen
      BY <1>3, <1>10, <2>1
    <3>2. seen[i].ts < seen[n].ts - Window /\ seen[n].ts <= now
      BY <1>3, <1>10, <3>1 DEF SignalSound
    <3>3. seen[i].ts \in Nat /\ seen[n].ts \in Nat /\ now \in Nat /\ Window \in Nat
      BY <1>3, <3>1, SignalsAssumption DEF SignalSound
    <3> DEFINE old  == seen[i].ts
               last == seen[n].ts
    <3>4. seen'[i].ts = old
      BY <1>8, <3>1
    <3>5. old < last - Window /\ last <= now /\ old \in Nat /\ last \in Nat
      BY <3>2, <3>3
    <3> HIDE DEF old, last
    <3>6. old < ts - Window
      BY <3>3, <3>5
    <3> QED
      BY <3>4, <3>6
  <2>2. CASE ~(i <= first - 1)
    <3>1. i - (first - 1) \in gone /\ first - 1 + (i - (first - 1)) = i
      BY <1>3, <1>10, <1>16, <2>2
    <3> QED
      BY <1>12, <1>14, <3>1
  <2> QED
    BY <2>1, <2>2
<1>21. \A i \in f .. (n + 1) : seen'[i].ts >= ts - Window
  <2> TAKE i \in f .. (n + 1)
  <2> DEFINE k == i - (first - 1)
  <2>1. k \in DOMAIN all /\ k \notin gone /\ first - 1 + k = i
    BY <1>3, <1>10, <1>11, <1>16
  <2>2. PICK j \in 1 .. k : ~(all[j].ts < ts - Window)
    BY <1>14, <2>1
  <2>3. j \in DOMAIN all /\ j <= k
    BY <1>11, <2>1
  <2>4. all[j].ts = seen'[first - 1 + j].ts /\ first - 1 + j \in DOMAIN seen'
        /\ first - 1 + j <= i /\ i \in DOMAIN seen'
    <3>1. all[j].ts = seen'[first - 1 + j].ts /\ first - 1 + j \in 2 .. (n + 1)
      BY <1>12, <2>3
    <3>2. DOMAIN seen' = 1 .. (n + 1)
      BY <1>8
    <3>3. first - 1 + j <= i /\ i \in 2 .. (n + 1)
      BY <1>3, <1>10, <1>18, <2>1, <2>3
    <3> QED
      BY <1>3, <3>1, <3>2, <3>3
  <2>5. seen'[first - 1 + j].ts <= seen'[i].ts
    BY <1>13, <2>4
  <2>6. seen'[first - 1 + j].ts \in Nat /\ seen'[i].ts \in Nat /\ Window \in Nat
    BY <1>8, <2>4, SightingFields, SignalsAssumption
  <2> QED
    BY <2>2, <2>4, <2>5, <2>6
\* The running sum.
<1>22. EntriesOf(all, gone) = Total(w, first .. (f - 1))
  <2> DEFINE v == [i \in gone |-> all[i].e]
  <2>1. IsFiniteSet(gone)
    BY <1>16, FS_Interval
  <2>2. EntriesOf(all, gone) = Total(v, gone)
    BY <2>1, SignalFoldsAreSums
  <2>3. \A j \in 1 .. g : v[j] = w[(first - 1) + j] /\ w[(first - 1) + j] \in Int
    <3> TAKE j \in 1 .. g
    <3>1. j \in gone /\ j \in DOMAIN all
      BY <1>14, <1>16
    <3>2. v[j] = all[j].e
      BY <3>1
    <3> QED
      BY <1>9, <1>12, <3>1, <3>2
  <2> HIDE DEF v
  <2> DEFINE off == first - 1
  <2>4. off \in Nat /\ g \in Nat
    BY <1>10, <1>16
  <2> HIDE DEF off
  <2>5. first = off + 1 /\ f - 1 = off + g
    BY <1>10, <1>16 DEF off
  <2>6. Shifted(v, w, off, g)
    BY <2>3 DEF off, Shifted
  <2> DEFINE hi == f - 1
  <2>7. hi = off + g
    BY <2>5
  <2> HIDE DEF f, hi
  <2>8. Total(v, 1 .. g) = Total(w, first .. hi)
    BY <2>4, <2>5, <2>6, <2>7, SameTermsShifted
  <2> QED
    BY <1>16, <2>2, <2>8 DEF hi
<1>23. sum' = Total(w, f .. (n + 1))
  <2> DEFINE F == first .. n
             G == first .. (f - 1)
             H == f .. (n + 1)
  <2>1. IsFiniteSet(F) /\ IsFiniteSet(G) /\ IsFiniteSet(H)
    <3>1. first \in Int /\ n \in Int /\ f - 1 \in Int /\ f \in Int /\ n + 1 \in Int
      BY <1>3, <1>10, <1>18
    <3> HIDE DEF f
    <3> QED
      BY <3>1, FS_Interval
  <2>2. G \cup H = F \cup {n + 1} /\ G \cap H = {} /\ n + 1 \notin F
    BY <1>3, <1>10, <1>16
  <2>3. \A i \in F \cup {n + 1} : w[i] \in Int
    BY <1>3, <1>9, <1>10
  <2>4. \A i \in F : w[i] = Pressures(seen)[i]
    BY <1>8, <1>10
  <2> HIDE DEF F, G, H, f
  <2>5. sum = Total(w, F)
    BY <1>10, <2>1, <2>4, TotalSameWeights DEF F
  <2>6. Total(w, F \cup {n + 1}) = Total(w, F) + w[n + 1]
    BY <2>1, <2>2, <2>3, TotalAdds
  <2>7. \A i \in G \cup H : w[i] \in Int
    BY <2>2, <2>3
  <2>8. Total(w, G \cup H) = Total(w, G) + Total(w, H)
    BY <2>1, <2>2, <2>7, TotalUnion
  <2>9. Total(w, G) \in Int /\ Total(w, H) \in Int
    BY <2>1, <2>7, TotalTakesOut
  <2>10. sum' = sum + w[n + 1] - Total(w, G)
    BY <1>5, <1>8, <1>22 DEF G
  <2>11. sum + w[n + 1] = Total(w, G) + Total(w, H)
    BY <2>2, <2>5, <2>6, <2>8
  <2>12. sum \in Int /\ w[n + 1] \in Int
    BY <1>1, <2>3
  <2>13. sum' = Total(w, H)
    BY <2>9, <2>10, <2>11, <2>12
  <2> QED
    BY <2>13 DEF H
<1>24. PICK k \in Nat : k = f
  BY <1>18
<1> HIDE DEF f
<1>25. HoldsFrom(k)'
  <2>1. seen'[Len(seen')].ts = ts /\ Len(seen') = n + 1
    BY <1>6, <1>8
  <2>2. /\ k \in 2 .. (Len(seen') + 1)
        /\ Len(events') = Len(seen') + 1 - k
        /\ \A j \in DOMAIN events' : /\ events'[j].ts = seen'[k - 1 + j].ts
                                     /\ events'[j].e = Pressures(seen')[k - 1 + j]
    BY <1>3, <1>17, <1>18, <1>19, <1>24, <2>1 DEF w
  <2>3. /\ \A i \in 2 .. (k - 1) : seen'[i].ts < seen'[Len(seen')].ts - Window
        /\ \A i \in k .. Len(seen') : seen'[i].ts >= seen'[Len(seen')].ts - Window
        /\ sum' = Total(Pressures(seen'), k .. Len(seen'))
    BY <1>20, <1>21, <1>23, <1>24, <2>1 DEF w
  <2> QED
    BY <2>2, <2>3 DEF HoldsFrom
<1>26. sum' \in Int
  <2>1. IsFiniteSet(f .. (n + 1)) /\ \A i \in f .. (n + 1) : w[i] \in Int
    <3>1. n + 1 \in Int /\ f \in Int /\ \A i \in f .. (n + 1) : i \in 2 .. (n + 1)
      BY <1>3, <1>18
    <3> QED
      BY <1>9, <3>1, FS_Interval
  <2> QED
    BY <1>23, <2>1, TotalTakesOut
<1>27. (\E from \in Nat : HoldsFrom(from))'
  BY <1>25
<1>28. prev' = seen'[Len(seen')].top /\ seen' # << >>
  BY <1>3, <1>5, <1>6, <1>8
<1> QED
  BY <1>8, <1>13, <1>17, <1>26, <1>27, <1>28 DEF SignalSound

\* Time may pass without an observation.
LEMMA QuietKeepsSignals ==
    ASSUME SignalSound, UNCHANGED ofi, now' \in Nat, now <= now'
    PROVE  SignalSound'
<1>1. UNCHANGED <<events, sum, prev, seen>>
  BY DEF ofi
<1>2. \A i \in DOMAIN seen : seen[i].ts <= now'
  <2> TAKE i \in DOMAIN seen
  <2>1. seen[i].ts \in Nat /\ seen[i].ts <= now /\ now \in Nat
    BY SightingFields DEF SignalSound
  <2> QED
    BY <2>1
<1>3. (\E from \in Nat : HoldsFrom(from)) => (\E from \in Nat : HoldsFrom(from))'
  BY <1>1 DEF HoldsFrom
<1> QED
  BY <1>1, <1>2, <1>3 DEF SignalSound

\* The script gives the signal the observations in order.
FitSound ==
    /\ series \in Seq(Int)
    /\ mode \in {"reading", "exit"} => series = << >> /\ now = 0
    /\ mode = "fitting" =>
          /\ Len(series) <= Len(obs)
          /\ now = IF series = << >> THEN 0 ELSE obs[Len(series)].ts

LEMMA FittingFollowsObs ==
    ASSUME StreamsSound, SignalSound, FitSound, FitNext
    PROVE  SignalSound' /\ FitSound'
<1> DEFINE k == Len(series) + 1
           o == obs[k]
<1>1. /\ mode = "fitting" /\ ~Fitted /\ UpdateOFI(o.ts, o.top) /\ now' = o.ts
      /\ series' = Append(series, sum') /\ mode' = mode /\ obs' = obs
  BY DEF FitNext, capture
<1>2. Len(series) \in Nat /\ Len(series) < Len(obs) /\ DOMAIN obs = 1 .. Len(obs) /\ Len(obs) \in Nat
  <2>1. Len(series) \in Nat /\ Len(series) <= Len(obs) /\ Len(series) # Len(obs)
    BY <1>1 DEF FitSound, Fitted
  <2> QED
    BY <2>1, StreamFields
<1>3. k \in DOMAIN obs /\ o.ts \in Nat /\ o.top \in TopOfBook
  <2>1. k \in DOMAIN obs
    BY <1>2
  <2> QED
    BY <2>1, StreamFields
<1>4. now <= o.ts
  <2>1. CASE series = << >>
    BY <1>1, <1>3, <2>1 DEF FitSound
  <2>2. CASE series # << >>
    <3>1. Len(series) \in DOMAIN obs /\ Len(series) < k
      BY <1>2, <2>2 DEF FitSound
    <3>2. obs[Len(series)].ts < obs[k].ts /\ obs[Len(series)].ts \in Nat
      BY <1>3, <3>1, StreamFields DEF StreamsSound
    <3>3. now = obs[Len(series)].ts
      BY <1>1, <2>2 DEF FitSound
    <3> QED
      BY <1>3, <3>2, <3>3
  <2> QED
    BY <2>1, <2>2
<1> HIDE DEF o
<1>5. SignalSound'
  <2>1. CASE seen = << >>
    BY <1>1, <1>3, <1>4, <2>1, FirstUpdateSound
  <2>2. CASE seen # << >>
    BY <1>1, <1>3, <1>4, <2>2, LaterUpdateSound
  <2> QED
    BY <2>1, <2>2
<1>6. FitSound'
  <2>1. sum' \in Int
    BY <1>5 DEF SignalSound
  <2>2. /\ series' \in Seq(Int) /\ Len(series') = k /\ series' # << >>
    BY <1>1, <2>1 DEF FitSound
  <2>3. Len(series') <= Len(obs') /\ now' = obs'[Len(series')].ts
    BY <1>1, <1>2, <2>2 DEF o
  <2> QED
    BY <1>1, <2>2, <2>3 DEF FitSound
<1> QED
  BY <1>5, <1>6

LEMMA StepSignals ==
    StreamsSound /\ SignalSound /\ FitSound /\ [Next]_vars => SignalSound' /\ FitSound'
<1> SUFFICES ASSUME StreamsSound, SignalSound, FitSound, [Next]_vars
             PROVE  SignalSound' /\ FitSound'
  OBVIOUS
<1>1. CASE Live
  <2>1. PICK gap \in Gaps : Event(now + gap)
    BY <1>1 DEF Live
  <2> DEFINE ts == now + gap
  <2>2. ts \in Nat /\ now <= ts /\ now' = ts
    BY <2>1, SignalsAssumption DEF Event, SignalSound
  <2>3. FitSound'
    <3>1. mode = "live" /\ mode' = "live" /\ series' = series
      BY <1>1 DEF Live, program
    <3> QED
      BY <3>1 DEF FitSound
  <2>4. UNCHANGED ofi \/ \E top \in Tops : UpdateOFI(ts, top)
    BY <2>1 DEF Event, AddTrade, IgnoreTrade
  <2> HIDE DEF ts
  <2>5. ASSUME NEW top \in Tops, UpdateOFI(ts, top) PROVE SignalSound'
    <3>1. top \in TopOfBook
      BY SignalsAssumption
    <3>2. CASE seen = << >>
      BY <2>2, <2>5, <3>1, <3>2, FirstUpdateSound
    <3>3. CASE seen # << >>
      BY <2>2, <2>5, <3>1, <3>3, LaterUpdateSound
    <3> QED
      BY <3>2, <3>3
  <2>6. UNCHANGED ofi => SignalSound'
    BY <2>2, QuietKeepsSignals
  <2> QED
    BY <2>3, <2>4, <2>5, <2>6
<1>2. CASE FitNext
  BY <1>2, FittingFollowsObs
<1>3. ASSUME UNCHANGED signals PROVE SignalSound'
  <2>1. UNCHANGED ofi /\ now' = now
    BY <1>3 DEF signals
  <2>2. now \in Nat
    BY DEF SignalSound
  <2>3. now' \in Nat /\ now <= now'
    BY <2>1, <2>2
  <2>4. SignalSound'
    BY <2>1, <2>3, QuietKeepsSignals
  <2> QED
    BY <2>4
<1>4. \/ Read \/ TooFewBooks \/ Estimate \/ Regress \/ MergeParams \/ BuildStrategy
      \/ UNCHANGED vars
      => UNCHANGED signals
  BY DEF Read, TooFewBooks, Estimate, Regress, MergeParams, BuildStrategy, vars
<1>5. \/ Read \/ TooFewBooks \/ Estimate \/ Regress \/ MergeParams \/ BuildStrategy
      \/ UNCHANGED vars
      => FitSound'
  <2>1. CASE Read \/ TooFewBooks
    BY <2>1 DEF Read, TooFewBooks, FitSound, signals
  <2>2. CASE Estimate
    BY <2>2, StreamFields DEF Estimate, FitSound, signals, capture
  <2>3. CASE Regress \/ MergeParams \/ BuildStrategy
    BY <2>3 DEF Regress, MergeParams, BuildStrategy, FitSound
  <2>4. CASE UNCHANGED vars
    BY <2>4 DEF vars, program, capture, signals, FitSound
  <2> QED
    BY <2>1, <2>2, <2>3, <2>4
<1> QED
  BY <1>1, <1>2, <1>3, <1>4, <1>5 DEF Next

LEMMA SignalsStaySound == Spec => [](SignalSound /\ FitSound)
<1>1. Init => SignalSound /\ FitSound
  BY DEF Init, SignalsInit, SignalSound, FitSound
<1> QED
  BY <1>1, StepSignals, StreamsStaySound, PTL DEF Spec

\* The running sum is the imbalance of exactly the trailing window, in a
\* strategy and in the calibration, after any number of evictions.
THEOREM RunningSumIsWindow == Spec => []WindowIsExact
<1>1. SignalSound => WindowIsExact
  <2> SUFFICES ASSUME SignalSound PROVE WindowIsExact
    OBVIOUS
  <2> DEFINE w == [i \in Inside |-> Contribution(seen[i - 1].top, seen[i].top)]
  <2>1. seen \in Seq(Sightings) /\ Len(seen) \in Nat
    BY DEF SignalSound
  <2>2. IsFiniteSet(Inside)
    <3>1. IsFiniteSet(2 .. Len(seen)) /\ Inside \subseteq 2 .. Len(seen)
      BY <2>1, FS_Interval DEF Inside
    <3> QED
      BY <3>1, FS_Subset
  <2>3. PressureOf(seen, Inside) = Total(w, Inside)
    BY <2>2, SignalFoldsAreSums
  <2>4. \A i \in Inside : w[i] = Pressures(seen)[i]
    BY DEF Inside, Pressures
  <2>5. Total(w, Inside) = Total(Pressures(seen), Inside)
    <3> HIDE DEF w
    <3> QED
      BY <2>2, <2>4, TotalSameWeights
  <2>6. sum = Total(Pressures(seen), Inside)
    <3>1. CASE seen = << >>
      <4>1. Inside = {} /\ sum = 0
        BY <3>1 DEF Inside, SignalSound
      <4> QED
        BY <4>1, TotalEmpty
    <3>2. CASE seen # << >>
      <4>1. PICK from \in Nat : HoldsFrom(from)
        BY <3>2 DEF SignalSound
      <4>2. /\ from \in 2 .. (Len(seen) + 1)
            /\ \A i \in 2 .. (from - 1) : seen[i].ts < seen[Len(seen)].ts - Window
            /\ \A i \in from .. Len(seen) : seen[i].ts >= seen[Len(seen)].ts - Window
            /\ sum = Total(Pressures(seen), from .. Len(seen))
        BY <4>1 DEF HoldsFrom
      <4>3. \A i \in 2 .. Len(seen) : seen[i].ts \in Nat
        BY <2>1, SightingFields
      <4>4. seen[Len(seen)].ts \in Nat /\ Window \in Nat
        BY <2>1, <3>2, SightingFields, SignalsAssumption
      <4>5. \A i \in 2 .. Len(seen) :
               seen[i].ts >= seen[Len(seen)].ts - Window <=> i \in from .. Len(seen)
        <5> TAKE i \in 2 .. Len(seen)
        <5>1. CASE i \in from .. Len(seen)
          BY <4>2, <5>1
        <5>2. CASE i \notin from .. Len(seen)
          <6>1. i \in 2 .. (from - 1)
            BY <2>1, <4>2, <5>2
          <6>2. seen[i].ts < seen[Len(seen)].ts - Window
            BY <4>2, <6>1
          <6> QED
            BY <4>3, <4>4, <5>2, <6>2
        <5> QED
          BY <5>1, <5>2
      <4>6. Inside = from .. Len(seen)
        BY <4>2, <4>5 DEF Inside
      <4> QED
        BY <4>2, <4>6
    <3> QED
      BY <3>1, <3>2
  <2> HIDE DEF w
  <2>7. sum = PressureOf(seen, Inside)
    BY <2>3, <2>5, <2>6
  <2> QED
    BY <2>7 DEF WindowIsExact, PressureOf
<1> QED
  BY <1>1, SignalsStaySound, PTL

-----------------------------------------------------------------------------
\* The volume buckets.

\* g gives the buckets that each volume up to V closes.
IsClosing(g, V) ==
    g = [v \in 0 .. V |-> IF v >= BucketVolume THEN <<v>> \o g[v - BucketVolume] ELSE << >>]

\* The quotient and the remainder of a number that is q buckets and r more.
LEMMA BucketsAndRest ==
    ASSUME NEW q \in Nat, NEW r \in 0 .. (BucketVolume - 1)
    PROVE  LET total == q * BucketVolume + r
           IN  total \div BucketVolume = q /\ total % BucketVolume = r
<1> DEFINE total == q * BucketVolume + r
           d == total \div BucketVolume
           m == total % BucketVolume
<1>1. BucketVolume \in Nat \ {0}
  BY SignalsAssumption
<1>2. total \in Nat
  BY <1>1
<1>3. d \in Int /\ m \in 0 .. (BucketVolume - 1) /\ total = d * BucketVolume + m
  BY <1>1, <1>2
<1> HIDE DEF d, m
<1>4. (q - d) * BucketVolume = m - r
  BY <1>1, <1>3
<1>5. q = d
  <2>1. CASE q > d
    <3>1. (q - d) * BucketVolume >= BucketVolume
      BY <1>1, <1>3, <2>1
    <3> QED
      BY <1>1, <1>3, <1>4, <3>1
  <2>2. CASE q < d
    <3>1. (d - q) * BucketVolume >= BucketVolume
      BY <1>1, <1>3, <2>2
    <3>2. (d - q) * BucketVolume = r - m
      BY <1>1, <1>3
    <3> QED
      BY <1>1, <1>3, <3>1, <3>2
  <2> QED
    BY <1>3, <2>1, <2>2
<1>6. m = r
  BY <1>1, <1>3, <1>4, <1>5
<1> QED
  BY <1>5, <1>6 DEF d, m

\* The function that the loop computes exists.
LEMMA ClosingExists ==
    ASSUME NEW V \in Nat
    PROVE  IsClosing(CHOOSE g : IsClosing(g, V), V)
<1> DEFINE Upto(g, n) ==
             g = [v \in 0 .. V |-> IF v >= BucketVolume /\ v <= n
                                   THEN <<v>> \o g[v - BucketVolume] ELSE << >>]
           Good == {n \in Nat : \E g : Upto(g, n)}
<1>1. BucketVolume \in Nat \ {0}
  BY SignalsAssumption
<1>2. 0 \in Good
  <2> DEFINE g == [v \in 0 .. V |-> << >>]
  <2>1. Upto(g, 0)
    BY <1>1
  <2> QED
    BY <2>1
<1>3. ASSUME NEW n \in Nat, n \in Good PROVE n + 1 \in Good
  <2>1. PICK g : Upto(g, n)
    BY <1>3
  <2> DEFINE h == [v \in 0 .. V |-> IF v >= BucketVolume /\ v <= n + 1
                                    THEN <<v>> \o g[v - BucketVolume] ELSE << >>]
  <2>2. ASSUME NEW v \in 0 .. V, v <= n PROVE h[v] = g[v]
    <3>1. g[v] = IF v >= BucketVolume /\ v <= n THEN <<v>> \o g[v - BucketVolume] ELSE << >>
      BY <2>1
    <3>2. v <= n + 1
      BY <2>2, <1>3
    <3>3. h[v] = IF v >= BucketVolume /\ v <= n + 1 THEN <<v>> \o g[v - BucketVolume] ELSE << >>
      OBVIOUS
    <3> QED
      BY <2>2, <3>1, <3>2, <3>3
  <2>3. ASSUME NEW v \in 0 .. V
        PROVE  h[v] = IF v >= BucketVolume /\ v <= n + 1
                      THEN <<v>> \o h[v - BucketVolume] ELSE << >>
    <3>1. CASE v >= BucketVolume /\ v <= n + 1
      <4>1. v - BucketVolume \in 0 .. V /\ v - BucketVolume <= n
        BY <1>1, <3>1
      <4>2. h[v - BucketVolume] = g[v - BucketVolume]
        BY <2>2, <4>1
      <4>3. h[v] = <<v>> \o g[v - BucketVolume]
        BY <3>1
      <4> QED
        BY <3>1, <4>2, <4>3
    <3>2. CASE ~(v >= BucketVolume /\ v <= n + 1)
      BY <3>2
    <3> QED
      BY <3>1, <3>2
  <2>4. h = [v \in 0 .. V |-> h[v]]
    OBVIOUS
  <2> HIDE DEF h
  <2>5. Upto(h, n + 1)
    BY <2>3, <2>4
  <2> QED
    BY <2>5
<1>4. \A n \in Nat : n \in Good => n + 1 \in Good
  BY <1>3
<1>5. V \in Good
  <2> HIDE DEF Good
  <2> QED
    BY <1>2, <1>4, InductionOverNat
<1>6. PICK g : Upto(g, V)
  BY <1>5
<1>7. IsClosing(g, V)
  <2>1. [v \in 0 .. V |-> IF v >= BucketVolume /\ v <= V
                          THEN <<v>> \o g[v - BucketVolume] ELSE << >>]
      = [v \in 0 .. V |-> IF v >= BucketVolume
                          THEN <<v>> \o g[v - BucketVolume] ELSE << >>]
    OBVIOUS
  <2> QED
    BY <1>6, <2>1 DEF IsClosing
<1> QED
  BY <1>7

\* A volume closes a bucket for each time that it holds the bucket's volume,
\* and what remains is less than a bucket.
LEMMA ClosingCounts ==
    ASSUME NEW V \in Nat
    PROVE  /\ Closing(V) \in Seq(Nat)
           /\ V - Len(Closing(V)) * BucketVolume \in 0 .. (BucketVolume - 1)
<1> DEFINE g == CHOOSE g : IsClosing(g, V)
           Counts(v) == /\ g[v] \in Seq(Nat)
                        /\ v - Len(g[v]) * BucketVolume \in 0 .. (BucketVolume - 1)
           Good == {n \in Nat : \A v \in 0 .. V : v <= n => Counts(v)}
<1>1. BucketVolume \in Nat \ {0}
  BY SignalsAssumption
<1>2. Closing(V) = g[V]
  BY DEF Closing, IsClosing
<1>3. \A v \in 0 .. V : g[v] = IF v >= BucketVolume THEN <<v>> \o g[v - BucketVolume] ELSE << >>
  BY ClosingExists DEF IsClosing
<1> HIDE DEF g
<1>4. ASSUME NEW v \in 0 .. V, v < BucketVolume PROVE Counts(v)
  <2>1. v \in Nat /\ ~(v >= BucketVolume)
    BY <1>1, <1>4
  <2>2. g[v] = << >>
    BY <1>3, <2>1
  <2>3. g[v] \in Seq(Nat) /\ Len(g[v]) = 0
    BY <2>2
  <2>4. v - 0 * BucketVolume \in 0 .. (BucketVolume - 1)
    BY <1>1, <1>4, <2>1
  <2> QED
    BY <2>3, <2>4
<1>5. 0 \in Good
  <2>1. \A v \in 0 .. V : v <= 0 => v < BucketVolume
    BY <1>1
  <2> HIDE DEF Counts
  <2> QED
    BY <1>4, <2>1
<1>6. ASSUME NEW n \in Nat, n \in Good PROVE n + 1 \in Good
  <2> SUFFICES ASSUME NEW v \in 0 .. V, v <= n + 1, v >= BucketVolume PROVE Counts(v)
    <3>1. \A v \in 0 .. V : v < BucketVolume \/ v >= BucketVolume
      BY <1>1
    <3> HIDE DEF Counts
    <3> QED
      BY <1>4, <3>1
  <2> DEFINE u == v - BucketVolume
  <2>1. u \in 0 .. V /\ u <= n /\ v = u + BucketVolume /\ v \in Nat
    BY <1>1
  <2>2. Counts(u)
    <3> HIDE DEF Counts, u
    <3> QED
      BY <1>6, <2>1
  <2>3. g[v] = <<v>> \o g[u]
    BY <1>3
  <2> HIDE DEF u
  <2>4. g[v] \in Seq(Nat) /\ Len(g[v]) = 1 + Len(g[u]) /\ Len(g[u]) \in Nat
    BY <2>1, <2>2, <2>3
  <2> DEFINE k == Len(g[u])
  <2>5. (1 + k) * BucketVolume = BucketVolume + k * BucketVolume
    BY <1>1, <2>4
  <2>6. v - (1 + k) * BucketVolume = u - k * BucketVolume
    <3> DEFINE b == k * BucketVolume
    <3>1. b \in Int
      BY <1>1, <2>4
    <3>2. (1 + k) * BucketVolume = BucketVolume + b
      BY <2>5
    <3> HIDE DEF b
    <3>3. v - (1 + k) * BucketVolume = u - b
      BY <1>1, <2>1, <3>1, <3>2
    <3> QED
      BY <3>3 DEF b
  <2>7. u - k * BucketVolume \in 0 .. (BucketVolume - 1)
    BY <2>2
  <2> QED
    BY <2>4, <2>6, <2>7
<1>7. \A n \in Nat : n \in Good => n + 1 \in Good
  BY <1>6
<1>8. V \in Good
  <2> HIDE DEF Good
  <2> QED
    BY <1>5, <1>7, InductionOverNat
<1>9. Counts(V)
  <2> HIDE DEF Counts
  <2> QED
    BY <1>8
<1> QED
  BY <1>2, <1>9

\* All that was traded is in the closed buckets or waits for the next.
BucketsSound ==
    /\ traded \in Seq(Nat) /\ buckets \in Seq(Nat) /\ closed \in Nat
    /\ current \in 0 .. (BucketVolume - 1)
    /\ Len(buckets) = Smaller(closed, MaxBuckets)
    /\ Total(traded, DOMAIN traded) = closed * BucketVolume + current

LEMMA TradeKeepsBuckets ==
    ASSUME BucketsSound, NEW volume \in Volumes, AddTrade(volume)
    PROVE  BucketsSound'
<1> DEFINE V    == current + volume
           full == Closing(V)
           k    == Len(full)
           n    == Len(traded)
           both == buckets \o full
           drop == Larger(Len(both) - MaxBuckets, 0)
<1>1. /\ BucketVolume \in Nat \ {0} /\ MaxBuckets \in Nat \ {0} /\ volume \in Nat /\ volume > 0
  BY SignalsAssumption DEF AddTrade
<1>2. /\ traded \in Seq(Nat) /\ buckets \in Seq(Nat) /\ closed \in Nat /\ current \in Nat
      /\ n \in Nat /\ V \in Nat
      /\ Len(buckets) = Smaller(closed, MaxBuckets)
      /\ Total(traded, DOMAIN traded) = closed * BucketVolume + current
  BY <1>1 DEF BucketsSound
<1>3. /\ buckets' = SubSeq(both, drop + 1, Len(both))
      /\ current' = V - k * BucketVolume
      /\ closed' = closed + k
      /\ traded' = Append(traded, volume)
  <2>1. buckets' = LastOf(both, MaxBuckets) /\ closed' = closed + k /\ traded' = Append(traded, volume)
    BY DEF AddTrade
  <2>2. current' = V - k * BucketVolume
    <3>1. current' = current + volume - Len(full) * BucketVolume
      BY DEF AddTrade
    <3>2. \A b : b \in Int => current + volume - b = V - b
      BY <1>1, <1>2
    <3>3. k * BucketVolume \in Int
      <4>1. k \in Nat
        BY <1>2, ClosingCounts
      <4> HIDE DEF k
      <4> QED
        BY <1>1, <4>1
    <3>4. current' = current + volume - k * BucketVolume
      BY <3>1
    <3> HIDE DEF V, k
    <3> QED
      BY <3>2, <3>3, <3>4
  <2>3. LastOf(both, MaxBuckets) = SubSeq(both, drop + 1, Len(both))
    BY DEF LastOf
  <2> HIDE DEF full, both, drop, k, V
  <2> QED
    BY <2>1, <2>2, <2>3
<1>4. full \in Seq(Nat) /\ V - k * BucketVolume \in 0 .. (BucketVolume - 1) /\ k \in Nat
  <2> HIDE DEF V
  <2>1. full \in Seq(Nat) /\ V - Len(Closing(V)) * BucketVolume \in 0 .. (BucketVolume - 1)
    BY <1>2, ClosingCounts
  <2>2. k \in Nat
    BY <2>1
  <2> QED
    BY <2>1, <2>2
<1> HIDE DEF full
<1>5. both \in Seq(Nat) /\ Len(both) = Len(buckets) + k
  <2>1. both \in Seq(Nat)
    BY <1>2, <1>4
  <2>2. Len(both) = Len(buckets) + Len(full)
    <3>1. buckets \in Seq(Nat) /\ full \in Seq(Nat)
      BY <1>2, <1>4
    <3> QED
      BY <3>1
  <2> QED
    BY <2>1, <2>2
<1> HIDE DEF both
<1>6. drop \in 0 .. Len(both)
  BY <1>1, <1>5 DEF Larger
<1> HIDE DEF drop
<1>7. buckets' \in Seq(Nat) /\ Len(buckets') = Len(both) - drop
  BY <1>3, <1>5, <1>6, TailFields
<1>8. Len(buckets') = Smaller(closed', MaxBuckets)
  <2> DEFINE m == Len(both)
             b == Len(buckets)
             d == Len(buckets')
  <2>1. m = b + k /\ d = m - drop
    BY <1>5, <1>7
  <2>5. drop = IF m - MaxBuckets > 0 THEN m - MaxBuckets ELSE 0
    <3>1. m \in Nat /\ MaxBuckets \in Nat
      BY <1>1, <1>5
    <3>2. drop = Larger(m - MaxBuckets, 0)
      BY DEF drop
    <3> HIDE DEF m
    <3> QED
      BY <3>1, <3>2 DEF Larger
  <2>2. b = Smaller(closed, MaxBuckets) /\ closed' = closed + k
    BY <1>2, <1>3
  <2>3. m \in Nat /\ b \in Nat /\ closed \in Nat /\ k \in Nat /\ MaxBuckets \in Nat
    BY <1>1, <1>2, <1>4, <1>5
  <2> HIDE DEF m, b, d, k
  <2>4. d = Smaller(closed', MaxBuckets)
    BY <2>1, <2>2, <2>3, <2>5 DEF Smaller
  <2> QED
    BY <2>4 DEF d
<1>9. Total(traded', DOMAIN traded') = Total(traded, DOMAIN traded) + volume
  <2>1. /\ DOMAIN traded = 1 .. n /\ DOMAIN traded' = 1 .. (n + 1)
        /\ \A i \in 1 .. n : traded'[i] = traded[i] /\ traded[i] \in Nat
        /\ traded'[n + 1] = volume
    BY <1>1, <1>2, <1>3
  <2> DEFINE F == 1 .. n
             x == n + 1
  <2>2. F \cup {x} = DOMAIN traded' /\ x \notin F /\ IsFiniteSet(F) /\ F = DOMAIN traded
    <3>1. F \cup {x} = 1 .. (n + 1) /\ x \notin F
      BY <1>2
    <3>2. IsFiniteSet(F)
      <4>1. n \in Int
        BY <1>2
      <4> HIDE DEF n
      <4> QED
        BY <4>1, FS_Interval
    <3> QED
      BY <2>1, <3>1, <3>2
  <2>3. \A i \in F \cup {x} : traded'[i] \in Int
    BY <1>1, <2>1
  <2>4. \A i \in F : traded'[i] = traded[i]
    BY <2>1
  <2>5. traded'[x] = volume
    BY <2>1
  <2> HIDE DEF F, x
  <2>6. Total(traded', F \cup {x}) = Total(traded', F) + traded'[x]
    BY <2>2, <2>3, TotalAdds
  <2>7. Total(traded', F) = Total(traded, F)
    BY <2>2, <2>4, TotalSameWeights
  <2> QED
    BY <2>2, <2>5, <2>6, <2>7
<1>10. (closed + k) * BucketVolume = closed * BucketVolume + k * BucketVolume
  BY <1>1, <1>2, <1>4
<1>11. closed' * BucketVolume + current' = closed * BucketVolume + current + volume
  <2> DEFINE a == closed * BucketVolume
             b == k * BucketVolume
  <2>1. a \in Int /\ b \in Int
    BY <1>1, <1>2, <1>4
  <2>2. closed' * BucketVolume = a + b
    BY <1>3, <1>10
  <2>3. current' = current + volume - b
    <3>1. current' = V - b /\ current \in Int /\ volume \in Int
      BY <1>1, <1>2, <1>3
    <3> HIDE DEF b
    <3> QED
      BY <2>1, <3>1
  <2> HIDE DEF a, b
  <2>4. closed' * BucketVolume + current' = a + current + volume
    BY <1>1, <1>2, <2>1, <2>2, <2>3
  <2> QED
    BY <2>4 DEF a
<1>12. traded' \in Seq(Nat)
  BY <1>1, <1>2, <1>3
<1>13. closed' \in Nat /\ current' \in 0 .. (BucketVolume - 1)
  BY <1>2, <1>3, <1>4
<1>14. Total(traded', DOMAIN traded') = closed' * BucketVolume + current'
  BY <1>2, <1>9, <1>11
<1> QED
  BY <1>7, <1>8, <1>12, <1>13, <1>14 DEF BucketsSound

LEMMA StepBuckets == BucketsSound /\ [Next]_vars => BucketsSound'
<1> SUFFICES ASSUME BucketsSound, [Next]_vars PROVE BucketsSound'
  OBVIOUS
<1>1. UNCHANGED vpin \/ \E volume \in Volumes : AddTrade(volume)
  <2>1. CASE Live
    BY <2>1 DEF Live, Event, UpdateOFI, IgnoreTrade
  <2>2. CASE FitNext
    BY <2>2 DEF FitNext, UpdateOFI
  <2>3. \/ Read \/ TooFewBooks \/ Estimate \/ Regress \/ MergeParams \/ BuildStrategy
        \/ UNCHANGED vars
        => UNCHANGED vpin
    BY DEF Read, TooFewBooks, Estimate, Regress, MergeParams, BuildStrategy, vars, signals
  <2> QED
    BY <2>1, <2>2, <2>3 DEF Next
<1>2. UNCHANGED vpin => BucketsSound'
  BY DEF vpin, BucketsSound
<1> QED
  BY <1>1, <1>2, TradeKeepsBuckets

\* Volume time keeps pace with the market, whatever the sizes of the trades.
THEOREM BucketsKeepPace == Spec => []OneBucketPerVolume
<1>1. Init => BucketsSound
  <2> SUFFICES ASSUME Init PROVE BucketsSound
    OBVIOUS
  <2>1. buckets = << >> /\ current = 0 /\ traded = << >> /\ closed = 0
    BY DEF Init, SignalsInit
  <2>2. Total(traded, DOMAIN traded) = 0
    BY <2>1, TotalEmpty
  <2> QED
    BY <2>1, <2>2, SignalsAssumption DEF BucketsSound, Smaller
<1>2. BucketsSound => OneBucketPerVolume
  <2> SUFFICES ASSUME BucketsSound PROVE OneBucketPerVolume
    OBVIOUS
  <2> DEFINE w == [i \in DOMAIN traded |-> traded[i]]
             total == VolumeOf(traded, DOMAIN traded)
  <2>1. IsFiniteSet(DOMAIN traded)
    BY FS_Interval DEF BucketsSound
  <2>2. total = Total(w, DOMAIN traded)
    BY <2>1, SignalFoldsAreSums
  <2>3. \A i \in DOMAIN traded : w[i] = traded[i]
    OBVIOUS
  <2>4. Total(w, DOMAIN traded) = Total(traded, DOMAIN traded)
    <3> HIDE DEF w
    <3> QED
      BY <2>1, <2>3, TotalSameWeights
  <2> HIDE DEF w, total
  <2>5. /\ total = closed * BucketVolume + current /\ closed \in Nat
        /\ current \in 0 .. (BucketVolume - 1)
        /\ Len(buckets) = Smaller(closed, MaxBuckets)
    BY <2>2, <2>4 DEF BucketsSound
  <2>6. total \div BucketVolume = closed /\ total % BucketVolume = current
    BY <2>5, BucketsAndRest
  <2> QED
    BY <2>5, <2>6 DEF OneBucketPerVolume, VolumeOf, total
<1> QED
  BY <1>1, <1>2, StepBuckets, PTL DEF Spec

-----------------------------------------------------------------------------
\* The splits of the cross-validation.

\* Products keep the order of their left factors.
LEMMA Monotone ==
    ASSUME NEW a \in Nat, NEW b \in Nat, NEW c \in Nat, a <= b
    PROVE  a * c <= b * c
  BY SMT

\* A group is a non-empty range of samples.
LEMMA GroupIsRange ==
    ASSUME ValidArguments, NEW g \in Groups
    PROVE  /\ Lo(g) \in Nat /\ Hi(g) \in Nat
           /\ Lo(g) < Hi(g) /\ Hi(g) <= nSamples
<1> DEFINE size == nSamples \div nGroups
<1>1. /\ nSamples \in Nat /\ nGroups \in Nat /\ nGroups > 1 /\ nSamples >= nGroups
      /\ g \in Nat /\ g <= nGroups - 1
  BY SamplesAssumption DEF ValidArguments, Groups
<1>2. size \in Nat /\ nGroups * size <= nSamples /\ size >= 1
  BY <1>1, SMT
<1> HIDE DEF size
<1>3. Lo(g) = g * size
  BY DEF Lo, GroupSize, size
<1>4. g * size \in Nat /\ (g + 1) * size \in Nat /\ (g + 1) * size = g * size + size
  BY <1>1, <1>2, SMT
<1>5. (g + 1) * size <= nGroups * size
  BY <1>1, <1>2, Monotone
<1>6. CASE g < nGroups - 1
  <2>1. Hi(g) = (g + 1) * size
    BY <1>6 DEF Hi, GroupSize, size
  <2> QED BY <2>1, <1>1, <1>2, <1>3, <1>4, <1>5, SMT
<1>7. CASE ~(g < nGroups - 1)
  <2>1. Hi(g) = nSamples
    BY <1>7 DEF Hi
  <2> QED BY <2>1, <1>1, <1>2, <1>3, <1>4, <1>5, SMT
<1> QED BY <1>6, <1>7

\* The ranges that the code excludes, group by group, leave exactly the samples
\* that keep their distance to every test sample: a sample before a test sample
\* is before the whole group or among other test samples, and it is too close
\* exactly when it is too close to the first sample of the group; and likewise
\* after it, with the last sample of the group.
LEMMA TrainIsTrainable ==
    ASSUME ValidArguments, NEW combo \in SUBSET Groups
    PROVE  Train(combo) = Trainable(Test(combo))
<1>1. nSamples \in Nat /\ purge \in Nat /\ embargo \in Nat
  BY SamplesAssumption DEF ValidArguments
<1>2. ASSUME NEW i \in Samples, i \notin Forbidden(combo)
      PROVE  i \in Trainable(Test(combo))
  <2>1. i \notin Test(combo)
    BY <1>2 DEF Forbidden
  <2>2. ASSUME NEW j \in Test(combo)
        PROVE  (i < j => j - i > purge) /\ (i > j => i - j > embargo)
    <3>1. PICK g \in combo : j \in Lo(g) .. (Hi(g) - 1)
      BY DEF Test
    <3>2. Lo(g) \in Nat /\ Hi(g) \in Nat /\ Lo(g) < Hi(g) /\ Hi(g) <= nSamples
      BY GroupIsRange
    <3>3. i \notin Lo(g) .. (Hi(g) - 1)
      BY <2>1, <3>1 DEF Test
    <3>4. i \notin Larger(0, Lo(g) - purge) .. (Lo(g) - 1)
      BY <1>2, <3>1 DEF Forbidden, Purged
    <3>5. i \notin Hi(g) .. (Smaller(nSamples, Hi(g) + embargo) - 1)
      BY <1>2, <3>1 DEF Forbidden, Embargoed
    <3>6. i \in Int /\ i >= 0 /\ i < nSamples
      BY <1>1 DEF Samples
    <3>7. i < j => j - i > purge
      BY <1>1, <3>1, <3>2, <3>3, <3>4, <3>6, SMT DEF Larger
    <3>8. i > j => i - j > embargo
      BY <1>1, <3>1, <3>2, <3>3, <3>5, <3>6, SMT DEF Smaller
    <3> QED BY <3>7, <3>8
  <2> QED BY <1>2, <2>1, <2>2 DEF Trainable
<1>3. ASSUME NEW i \in Trainable(Test(combo))
      PROVE  i \in Samples /\ i \notin Forbidden(combo)
  <2>1. i \in Samples /\ i \notin Test(combo)
    BY DEF Trainable
  <2>2. i \in Int /\ i >= 0 /\ i < nSamples
    BY <1>1, <2>1 DEF Samples
  <2>3. \A j \in Test(combo) : (i < j => j - i > purge) /\ (i > j => i - j > embargo)
    BY <1>3 DEF Trainable
  <2>4. ASSUME NEW g \in combo
        PROVE  /\ i \notin Larger(0, Lo(g) - purge) .. (Lo(g) - 1)
               /\ i \notin Hi(g) .. (Smaller(nSamples, Hi(g) + embargo) - 1)
    <3>1. Lo(g) \in Nat /\ Hi(g) \in Nat /\ Lo(g) < Hi(g) /\ Hi(g) <= nSamples
      BY GroupIsRange
    <3>2. Lo(g) \in Lo(g) .. (Hi(g) - 1) /\ (Hi(g) - 1) \in Lo(g) .. (Hi(g) - 1)
      BY <3>1, SMT
    <3>3. Lo(g) \in Test(combo) /\ (Hi(g) - 1) \in Test(combo)
      BY <3>2 DEF Test
    <3>4. i < Lo(g) => Lo(g) - i > purge
      BY <2>3, <3>3
    <3>5. i > Hi(g) - 1 => i - (Hi(g) - 1) > embargo
      BY <2>3, <3>3
    <3>6. i \notin Larger(0, Lo(g) - purge) .. (Lo(g) - 1)
      BY <1>1, <2>2, <3>1, <3>4, SMT DEF Larger
    <3>7. i \notin Hi(g) .. (Smaller(nSamples, Hi(g) + embargo) - 1)
      BY <1>1, <2>2, <3>1, <3>5, SMT DEF Smaller
    <3> QED BY <3>6, <3>7
  <2>5. i \notin Purged(combo)
    BY <2>4 DEF Purged
  <2>6. i \notin Embargoed(combo)
    BY <2>4 DEF Embargoed
  <2> QED BY <2>1, <2>5, <2>6 DEF Forbidden
<1>4. Trainable(Test(combo)) \subseteq Samples
  BY DEF Trainable
<1> QED BY <1>2, <1>3, <1>4 DEF Train

\* The inductive invariant: the arguments stay those the constructor checked.
SplitsSound == ValidArguments /\ PurgedExactly

\* In every split of every run of CombinatorialPurgedKFold, for every number of
\* samples and groups and all windows, training uses a sample exactly when it is
\* not tested and lies further than purge before and embargo after every test
\* sample: nothing leaks and nothing is left out without need.
THEOREM SplitsArePurged == SplitsSpec => []PurgedExactly
<1>1. SplitsInit => SplitsSound
  <2> SUFFICES ASSUME SplitsInit PROVE SplitsSound
    OBVIOUS
  <2>1. nSamples \in 1 .. MaxSamples /\ nGroups \in 2 .. nSamples /\ nTest \in 1 .. (nGroups - 1)
    BY DEF SplitsInit
  <2>2. MaxSamples \in Nat
    BY SamplesAssumption
  <2>3. nGroups \in 2 .. MaxSamples /\ nSamples >= nGroups
    BY <2>1, <2>2, SMT
  <2>4. ValidArguments
    BY <2>1, <2>3 DEF SplitsInit, ValidArguments
  <2>5. PurgedExactly
    BY DEF SplitsInit, PurgedExactly
  <2> QED BY <2>4, <2>5 DEF SplitsSound
<1>2. SplitsSound /\ [SplitsNext]_splitsVars => SplitsSound'
  <2> SUFFICES ASSUME SplitsSound, [SplitsNext]_splitsVars PROVE SplitsSound'
    OBVIOUS
  <2>1. UNCHANGED arguments
    BY DEF SplitsNext, Choose, AllSplits, splitsVars
  <2>2. ValidArguments'
    BY <2>1 DEF SplitsSound, ValidArguments, arguments
  <2>3. ASSUME NEW combo \in Combos, Choose(combo) PROVE PurgedExactly'
    <3>1. combo \in SUBSET Groups
      BY DEF Combos
    <3>2. Train(combo) = Trainable(Test(combo))
      BY <3>1, TrainIsTrainable DEF SplitsSound
    <3>3. splits' = splits \cup {[combo |-> combo, train |-> Train(combo), test |-> Test(combo)]}
      BY <2>3 DEF Choose
    <3>4. \A s \in splits' : s.train = Trainable(s.test)
      BY <3>2, <3>3 DEF SplitsSound, PurgedExactly
    <3> QED BY <2>1, <3>4 DEF PurgedExactly, Trainable, Samples, arguments
  <2>4. ASSUME UNCHANGED splits PROVE PurgedExactly'
    BY <2>1, <2>4 DEF SplitsSound, PurgedExactly, Trainable, Samples, arguments
  <2> QED BY <2>2, <2>3, <2>4 DEF SplitsNext, AllSplits, splitsVars, SplitsSound
<1>3. SplitsSound => PurgedExactly
  BY DEF SplitsSound
<1> QED BY <1>1, <1>2, <1>3, PTL DEF SplitsSpec

-----------------------------------------------------------------------------
\* The prices of a walk.

Even(x) == \E i \in Int : x = 2 * i

\* Rounding to a tick moves a price by half a tick at most, and by none if it
\* is on the grid.
LEMMA RoundedIs ==
    ASSUME NEW x \in Int
    PROVE  /\ Rounded(x) \in Int /\ Even(Rounded(x))
           /\ x - 1 <= Rounded(x) /\ Rounded(x) <= x + 1
           /\ Even(x) => Rounded(x) = x
<1> DEFINE q == x \div 2
           r == x % 2
<1>1. q \in Int /\ r \in 0 .. 1 /\ x = 2 * q + r
  OBVIOUS
<1>2. TickIndex(x, Tick) = IF r = 1 /\ q % 2 = 1 THEN q + 1 ELSE q
  <2>1. TickIndex(x, 2) = IF 2 * r > 2 \/ (2 * r = 2 /\ q % 2 = 1) THEN q + 1 ELSE q
    BY DEF TickIndex
  <2>2. ~(2 * r > 2) /\ (2 * r = 2 <=> r = 1)
    BY <1>1
  <2> HIDE DEF q, r
  <2> QED
    BY <2>1, <2>2 DEF Tick
<1> HIDE DEF q, r
<1>3. TickIndex(x, Tick) \in {q, q + 1} /\ (r = 0 => TickIndex(x, Tick) = q)
  BY <1>1, <1>2
<1>4. Rounded(x) = 2 * TickIndex(x, Tick)
  BY DEF Rounded, Tick
<1>5. (r = 1 \/ Rounded(x) = 2 * q) /\ Rounded(x) \in {2 * q, 2 * q + 2} /\ TickIndex(x, Tick) \in Int
  BY <1>1, <1>3, <1>4
<1>6. ASSUME Even(x) PROVE r = 0
  <2>1. PICK i \in Int : x = 2 * i
    BY <1>6 DEF Even
  <2> QED
    BY <1>1, <2>1
<1> QED
  BY <1>1, <1>4, <1>5, <1>6 DEF Even

LEMMA PriceIs ==
    ASSUME NEW p
    PROVE  /\ p \in Prices <=> p \in Int /\ Even(p) /\ 2 <= p /\ p <= 2 * (Ticks - 1)
           /\ Ticks \in Nat /\ Ticks >= 4
<1>1. Ticks \in Nat /\ Ticks >= 4 /\ Prices = {2 * i : i \in 1 .. Ticks - 1}
  BY FeedAssumption DEF Tick
<1>2. ASSUME p \in Prices PROVE p \in Int /\ Even(p) /\ 2 <= p /\ p <= 2 * (Ticks - 1)
  <2>1. PICK i \in 1 .. Ticks - 1 : p = 2 * i
    BY <1>1, <1>2
  <2> QED
    BY <1>1, <2>1 DEF Even
<1>3. ASSUME p \in Int, Even(p), 2 <= p, p <= 2 * (Ticks - 1) PROVE p \in Prices
  <2>1. PICK i \in Int : p = 2 * i
    BY <1>3 DEF Even
  <2>2. i \in 1 .. Ticks - 1
    BY <1>1, <1>3, <2>1
  <2> QED
    BY <1>1, <2>1, <2>2
<1> QED
  BY <1>1, <1>2, <1>3

\* What is cut to the unit is a price, no further from any price than before.
LEMMA InUnitIs ==
    ASSUME NEW x \in Int, Even(x)
    PROVE  /\ InUnit(x) \in Prices
           /\ \A p \in Prices : /\ x <= p => InUnit(x) <= p
                                /\ x >= p => InUnit(x) >= p
<1>1. Ticks \in Nat /\ Ticks >= 4
  BY PriceIs
<1>2. InUnit(x) = IF x < 2 THEN 2 ELSE IF x > 2 * (Ticks - 1) THEN 2 * (Ticks - 1) ELSE x
  BY <1>1 DEF InUnit, Larger, Smaller, Tick
<1>3. Even(2) /\ Even(2 * (Ticks - 1))
  BY <1>1 DEF Even
<1>4. InUnit(x) \in Int /\ Even(InUnit(x)) /\ 2 <= InUnit(x) /\ InUnit(x) <= 2 * (Ticks - 1)
  BY <1>1, <1>2, <1>3
<1>5. \A p \in Prices : p \in Int /\ 2 <= p /\ p <= 2 * (Ticks - 1)
  BY PriceIs
<1> QED
  BY <1>1, <1>2, <1>4, <1>5, PriceIs

LEMMA TouchIs ==
    ASSUME NEW mid \in Int
    PROVE  TouchBid(mid) \in Prices /\ TouchAsk(mid) \in Prices
<1>1. mid - Tick \in Int /\ mid + Tick \in Int
  BY DEF Tick
<1> QED
  BY <1>1, RoundedIs, InUnitIs DEF TouchBid, TouchAsk

\* The levels from one price to another, walked up or walked down.
LEMMA LevelsAre ==
    ASSUME NEW from \in Prices, NEW to \in Prices
    PROVE  LET n == Larger(1, Levels(from, to))
           IN  /\ n \in Nat /\ n >= 1
               /\ \A i \in 1 .. n : i = 1 \/ from + (i - 1) * Tick <= to
               /\ \A i \in 1 .. n : i = 1 \/ to - (i - 1) * Tick >= from
               /\ \A p \in Prices : from <= p /\ (p = from \/ p <= to) =>
                    \E i \in 1 .. n : p = from + (i - 1) * Tick
               /\ \A p \in Prices : p <= to /\ (p = to \/ from <= p) =>
                    \E i \in 1 .. n : p = to - (i - 1) * Tick
<1>1. PICK a \in Int, b \in Int : from = 2 * a /\ to = 2 * b
  BY PriceIs DEF Even
<1>2. (to - from) \div 2 = b - a
  BY <1>1
<1>3. Levels(from, to) = (b - a) + 1
  BY <1>2 DEF Levels, Tick
<1> DEFINE n == Larger(1, Levels(from, to))
<1>4. n = IF b > a THEN (b - a) + 1 ELSE 1
  BY <1>1, <1>3 DEF Larger
<1>5. n \in Nat /\ n >= 1
  BY <1>1, <1>4
<1>6. \A i \in 1 .. n : i = 1 \/ (from + (i - 1) * 2 <= to /\ to - (i - 1) * 2 >= from)
  BY <1>1, <1>4
<1>7. ASSUME NEW p \in Prices, from <= p, p = from \/ p <= to
      PROVE  \E i \in 1 .. n : p = from + (i - 1) * 2
  <2>1. PICK c \in Int : p = 2 * c
    BY PriceIs DEF Even
  <2>2. c - a + 1 \in 1 .. n /\ p = from + ((c - a + 1) - 1) * 2
    BY <1>1, <1>4, <1>7, <2>1
  <2> QED
    BY <2>2
<1>8. ASSUME NEW p \in Prices, p <= to, p = to \/ from <= p
      PROVE  \E i \in 1 .. n : p = to - (i - 1) * 2
  <2>1. PICK c \in Int : p = 2 * c
    BY PriceIs DEF Even
  <2>2. b - c + 1 \in 1 .. n /\ p = to - ((b - c + 1) - 1) * 2
    BY <1>1, <1>4, <1>8, <2>1
  <2> QED
    BY <2>2
<1> QED
  BY <1>5, <1>6, <1>7, <1>8 DEF Tick

TouchFor(mid, side) == IF side = "BUY" THEN TouchAsk(mid) ELSE TouchBid(mid)

\* How far beyond the mid a price lies, on the side that is hit.
Away(mid, side, p) == IF side = "BUY" THEN p - mid ELSE mid - p

Beyond(mid, side, p) ==
    IF side = "BUY" THEN p - TouchAsk(mid) ELSE TouchBid(mid) - p

\* The prints of a trade are prices; the first is the touch.  A price at or
\* beyond the touch is among them if the aggressor would go so far, and is not
\* if it is more than the rounding further away.
Reaches(w, mid, side, depth) ==
    \A p \in Prices :
        /\ Beyond(mid, side, p) = 0
             \/ (Beyond(mid, side, p) >= 0 /\ Away(mid, side, p) <= depth)
           => \E i \in DOMAIN w : w[i] = p
        /\ Beyond(mid, side, p) > 0 /\ Away(mid, side, p) > depth + 1
           => \A i \in DOMAIN w : w[i] # p

LEMMA WalkReaches ==
    ASSUME NEW mid \in Int, NEW side \in {"BUY", "SELL"}, NEW depth \in Nat
    PROVE  LET w == WalkPrices(mid, side, depth)
           IN  /\ w \in Seq(Prices) /\ Len(w) >= 1 /\ w[1] = TouchFor(mid, side)
               /\ Reaches(w, mid, side, depth)
<1> DEFINE w == WalkPrices(mid, side, depth)
<1>1. CASE side = "BUY"
  <2> DEFINE start == TouchAsk(mid)
             far   == Rounded(mid + depth)
             end   == InUnit(far)
             n     == Larger(1, Levels(start, end))
  <2>1. /\ far \in Int /\ Even(far)
        /\ mid + depth - 1 <= far /\ far <= mid + depth + 1
        /\ Even(mid + depth) => far = mid + depth
    BY RoundedIs
  <2>2. start \in Prices /\ end \in Prices
    BY <2>1, TouchIs, InUnitIs
  <2>3. w = [i \in 1 .. n |-> start + (i - 1) * Tick]
    BY <1>1 DEF WalkPrices
  <2>4. /\ \A p \in Prices : far <= p => end <= p
        /\ \A p \in Prices : far >= p => end >= p
    BY <2>1, InUnitIs
  <2> HIDE DEF start, end, far
  <2>5. /\ n \in Nat /\ n >= 1
        /\ \A i \in 1 .. n : i = 1 \/ start + (i - 1) * Tick <= end
        /\ \A p \in Prices : start <= p /\ (p = start \/ p <= end) =>
              \E i \in 1 .. n : p = start + (i - 1) * Tick
    BY <2>2, LevelsAre
  <2> HIDE DEF n
  <2>6. /\ \A p \in Prices : p \in Int /\ Even(p)
        /\ 2 <= start /\ end <= 2 * (Ticks - 1) /\ Ticks \in Int
    BY <2>2, PriceIs
  <2>7. ASSUME NEW i \in 1 .. n PROVE start + (i - 1) * Tick \in Prices
    <3>1. i \in Int /\ i >= 1
      BY <2>5
    <3>2. start + (i - 1) * 2 \in Int /\ Even(start + (i - 1) * 2)
          /\ 2 <= start + (i - 1) * 2
      <4>1. PICK s \in Int : start = 2 * s
        BY <2>2, <2>6 DEF Even
      <4>2. start + (i - 1) * 2 = 2 * (s + i - 1) /\ s + i - 1 \in Int
        BY <3>1, <4>1
      <4>3. Even(start + (i - 1) * 2)
        BY <4>2 DEF Even
      <4> QED
        BY <2>6, <3>1, <4>1, <4>2, <4>3
    <3>3. CASE i = 1
      BY <2>2, <2>6, <3>3 DEF Tick
    <3>4. CASE i # 1
      <4>1. start + (i - 1) * 2 <= 2 * (Ticks - 1)
        BY <2>2, <2>5, <2>6, <3>2, <3>4 DEF Tick
      <4> QED
        BY <3>2, <4>1, PriceIs DEF Tick
    <3> QED
      BY <3>3, <3>4
  <2>8. w \in Seq(Prices) /\ Len(w) = n /\ DOMAIN w = 1 .. n
    BY <2>3, <2>5, <2>7
  <2>9. w[1] = start
    BY <2>2, <2>3, <2>5, <2>6 DEF Tick
  <2>10. ASSUME NEW p \in Prices, p >= start, p = start \/ p - mid <= depth
         PROVE  \E i \in DOMAIN w : w[i] = p
    <3>1. p = start \/ p <= far
      <4>1. PICK c \in Int : p = 2 * c
        BY <2>6 DEF Even
      <4>2. PICK f \in Int : far = 2 * f
        BY <2>1 DEF Even
      <4> QED
        BY <2>1, <2>10, <4>1, <4>2 DEF Even
    <3>2. p = start \/ p <= end
      BY <2>1, <2>2, <2>4, <2>6, <3>1
    <3>3. start <= p
      BY <2>2, <2>6, <2>10
    <3>4. PICK i \in 1 .. n : p = start + (i - 1) * Tick
      BY <2>5, <3>2, <3>3
    <3> QED
      BY <2>3, <2>8, <3>4
  <2>11. ASSUME NEW p \in Prices, p > start, p - mid > depth + 1
         PROVE  \A i \in DOMAIN w : w[i] # p
    <3>1. far <= p - 2
      <4>1. PICK c \in Int : p = 2 * c
        BY <2>6 DEF Even
      <4>2. PICK f \in Int : far = 2 * f
        BY <2>1 DEF Even
      <4> QED
        BY <2>1, <2>11, <4>1, <4>2
    <3>2. p - 2 \in Prices
      <4>1. Even(p - 2)
        <5>1. PICK c \in Int : p = 2 * c
          BY <2>6 DEF Even
        <5>2. p - 2 = 2 * (c - 1) /\ c - 1 \in Int
          BY <5>1
        <5> QED
          BY <5>2 DEF Even
      <4>2. PICK s \in Int : start = 2 * s
        BY <2>2, <2>6 DEF Even
      <4>3. p - 2 >= 2 /\ p - 2 <= 2 * (Ticks - 1) /\ p - 2 \in Int
        <5>1. p <= 2 * (Ticks - 1) /\ p \in Int
          BY PriceIs
        <5>2. PICK c \in Int : p = 2 * c
          BY <2>6 DEF Even
        <5> QED
          BY <2>6, <2>11, <4>2, <5>1, <5>2
      <4> QED
        BY <4>1, <4>3, PriceIs
    <3>3. end <= p - 2
      BY <2>4, <3>1, <3>2
    <3>4. \A i \in 1 .. n : start + (i - 1) * Tick # p
      BY <2>2, <2>5, <2>6, <2>11, <3>3 DEF Tick
    <3> QED
      BY <2>3, <2>8, <3>4
  <2>12. \A p \in Prices : p - start = 0 <=> p = start
    BY <2>2, <2>6
  <2>13. \A p \in Prices : (p - start >= 0 <=> p >= start) /\ (p - start > 0 <=> p > start)
    BY <2>2, <2>6
  <2> QED
    BY <1>1, <2>2, <2>6, <2>8, <2>5, <2>9, <2>10, <2>11, <2>12, <2>13
    DEF Reaches, TouchFor, Away, Beyond, start
<1>2. CASE side = "SELL"
  <2> DEFINE start == TouchBid(mid)
             far   == Rounded(mid - depth)
             end   == InUnit(far)
             n     == Larger(1, Levels(end, start))
  <2>1. /\ far \in Int /\ Even(far)
        /\ mid - depth - 1 <= far /\ far <= mid - depth + 1
        /\ Even(mid - depth) => far = mid - depth
    BY RoundedIs
  <2>2. start \in Prices /\ end \in Prices
    BY <2>1, TouchIs, InUnitIs
  <2>3. w = [i \in 1 .. n |-> start - (i - 1) * Tick]
    BY <1>2 DEF WalkPrices
  <2>4. /\ \A p \in Prices : far <= p => end <= p
        /\ \A p \in Prices : far >= p => end >= p
    BY <2>1, InUnitIs
  <2> HIDE DEF start, end, far
  <2>5. /\ n \in Nat /\ n >= 1
        /\ \A i \in 1 .. n : i = 1 \/ start - (i - 1) * Tick >= end
        /\ \A p \in Prices : p <= start /\ (p = start \/ end <= p) =>
              \E i \in 1 .. n : p = start - (i - 1) * Tick
    BY <2>2, LevelsAre
  <2> HIDE DEF n
  <2>6. /\ \A p \in Prices : p \in Int /\ Even(p)
        /\ start <= 2 * (Ticks - 1) /\ 2 <= end /\ Ticks \in Int
    BY <2>2, PriceIs
  <2>7. ASSUME NEW i \in 1 .. n PROVE start - (i - 1) * Tick \in Prices
    <3>1. i \in Int /\ i >= 1
      BY <2>5
    <3>2. start - (i - 1) * 2 \in Int /\ Even(start - (i - 1) * 2)
          /\ start - (i - 1) * 2 <= 2 * (Ticks - 1)
      <4>1. PICK s \in Int : start = 2 * s
        BY <2>2, <2>6 DEF Even
      <4>2. start - (i - 1) * 2 = 2 * (s - i + 1) /\ s - i + 1 \in Int
        BY <3>1, <4>1
      <4>3. Even(start - (i - 1) * 2)
        BY <4>2 DEF Even
      <4> QED
        BY <2>6, <3>1, <4>1, <4>2, <4>3
    <3>3. CASE i = 1
      BY <2>2, <2>6, <3>3 DEF Tick
    <3>4. CASE i # 1
      <4>1. 2 <= start - (i - 1) * 2
        BY <2>2, <2>5, <2>6, <3>2, <3>4 DEF Tick
      <4> QED
        BY <3>2, <4>1, PriceIs DEF Tick
    <3> QED
      BY <3>3, <3>4
  <2>8. w \in Seq(Prices) /\ Len(w) = n /\ DOMAIN w = 1 .. n
    BY <2>3, <2>5, <2>7
  <2>9. w[1] = start
    BY <2>2, <2>3, <2>5, <2>6 DEF Tick
  <2>10. ASSUME NEW p \in Prices, p <= start, p = start \/ mid - p <= depth
         PROVE  \E i \in DOMAIN w : w[i] = p
    <3>1. p = start \/ p >= far
      <4>1. PICK c \in Int : p = 2 * c
        BY <2>6 DEF Even
      <4>2. PICK f \in Int : far = 2 * f
        BY <2>1 DEF Even
      <4> QED
        BY <2>1, <2>10, <4>1, <4>2 DEF Even
    <3>2. p = start \/ p >= end
      BY <2>1, <2>2, <2>4, <2>6, <3>1
    <3>3. p <= start
      BY <2>2, <2>6, <2>10
    <3>4. PICK i \in 1 .. n : p = start - (i - 1) * Tick
      BY <2>5, <3>2, <3>3
    <3> QED
      BY <2>3, <2>8, <3>4
  <2>11. ASSUME NEW p \in Prices, p < start, mid - p > depth + 1
         PROVE  \A i \in DOMAIN w : w[i] # p
    <3>1. far >= p + 2
      <4>1. PICK c \in Int : p = 2 * c
        BY <2>6 DEF Even
      <4>2. PICK f \in Int : far = 2 * f
        BY <2>1 DEF Even
      <4> QED
        BY <2>1, <2>11, <4>1, <4>2
    <3>2. p + 2 \in Prices
      <4>1. Even(p + 2)
        <5>1. PICK c \in Int : p = 2 * c
          BY <2>6 DEF Even
        <5>2. p + 2 = 2 * (c + 1) /\ c + 1 \in Int
          BY <5>1
        <5> QED
          BY <5>2 DEF Even
      <4>2. PICK s \in Int : start = 2 * s
        BY <2>2, <2>6 DEF Even
      <4>3. p + 2 >= 2 /\ p + 2 <= 2 * (Ticks - 1) /\ p + 2 \in Int
        <5>1. 2 <= p /\ p \in Int
          BY PriceIs
        <5>2. PICK c \in Int : p = 2 * c
          BY <2>6 DEF Even
        <5> QED
          BY <2>6, <2>11, <4>2, <5>1, <5>2
      <4> QED
        BY <4>1, <4>3, PriceIs
    <3>3. end >= p + 2
      BY <2>4, <3>1, <3>2
    <3>4. \A i \in 1 .. n : start - (i - 1) * Tick # p
      BY <2>2, <2>5, <2>6, <2>11, <3>3 DEF Tick
    <3> QED
      BY <2>3, <2>8, <3>4
  <2>12. \A p \in Prices : start - p = 0 <=> p = start
    BY <2>2, <2>6
  <2>13. \A p \in Prices : (start - p >= 0 <=> p <= start) /\ (start - p > 0 <=> p < start)
    BY <2>2, <2>6
  <2> QED
    BY <1>2, <2>2, <2>6, <2>8, <2>5, <2>9, <2>10, <2>11, <2>12, <2>13
    DEF Reaches, TouchFor, Away, Beyond, start
<1> QED
  BY <1>1, <1>2

-----------------------------------------------------------------------------
\* The paths of the generators.

\* A step that stays within S can be taken n times.
IsPath(f, S, s0, step, n) ==
    /\ f \in [0 .. n -> S] /\ f[0] = s0
    /\ \A i \in 1 .. n : f[i] = step[<<i, f[i - 1]>>]

LEMMA PathExists ==
    ASSUME NEW S, NEW s0 \in S, NEW n \in Nat, NEW step \in [(1 .. n) \X S -> S]
    PROVE  \E f : IsPath(f, S, s0, step, n)
<1> DEFINE Good == {k \in Nat : k <= n => \E f : IsPath(f, S, s0, step, k)}
<1>1. 0 \in Good
  <2> DEFINE f == [i \in 0 .. 0 |-> s0]
  <2>1. IsPath(f, S, s0, step, 0)
    BY DEF IsPath
  <2> QED
    BY <2>1
<1>2. ASSUME NEW k \in Nat, k \in Good PROVE k + 1 \in Good
  <2> SUFFICES ASSUME k + 1 <= n
               PROVE  \E f : IsPath(f, S, s0, step, k + 1)
    OBVIOUS
  <2>1. PICK g : IsPath(g, S, s0, step, k)
    BY <1>2
  <2> DEFINE f == [i \in 0 .. (k + 1) |-> IF i = k + 1 THEN step[<<i, g[k]>>] ELSE g[i]]
  <2>2. g[k] \in S /\ step[<<k + 1, g[k]>>] \in S
    BY <2>1 DEF IsPath
  <2>3. \A i \in 0 .. (k + 1) : i = k + 1 \/ (i \in 0 .. k /\ g[i] \in S)
    BY <2>1 DEF IsPath
  <2>4. f \in [0 .. (k + 1) -> S]
    BY <2>2, <2>3
  <2>5. f[0] = s0
    BY <2>1 DEF IsPath
  <2>6. ASSUME NEW i \in 1 .. (k + 1) PROVE f[i] = step[<<i, f[i - 1]>>]
    <3>1. CASE i = k + 1
      <4>1. f[i] = step[<<i, g[k]>>] /\ f[i - 1] = g[k]
        BY <3>1
      <4> QED
        BY <4>1
    <3>2. CASE i # k + 1
      <4>1. i \in 1 .. k /\ f[i] = g[i] /\ f[i - 1] = g[i - 1]
        BY <3>2
      <4> QED
        BY <2>1, <4>1 DEF IsPath
    <3> QED
      BY <3>1, <3>2
  <2> HIDE DEF f
  <2> QED
    BY <2>4, <2>5, <2>6 DEF IsPath
<1>3. n \in Good
  <2> HIDE DEF Good
  <2> QED
    BY <1>1, <1>2, InductionOverNat
<1> QED
  BY <1>3

\* A path that starts in S and takes steps within S stays in S.
LEMMA PathStays ==
    ASSUME NEW S, NEW g, NEW n \in Nat, g[0] \in S,
           \A k \in 0 .. n - 1 : g[k] \in S => g[k + 1] \in S
    PROVE  \A k \in 0 .. n : g[k] \in S
<1> DEFINE Good == {k \in Nat : k <= n => g[k] \in S}
<1>1. 0 \in Good
  OBVIOUS
<1>2. ASSUME NEW k \in Nat, k \in Good PROVE k + 1 \in Good
  BY <1>2
<1>3. \A k \in Nat : k \in Good
  <2> HIDE DEF Good
  <2> QED
    BY <1>1, <1>2, InductionOverNat
<1> QED
  BY <1>3

LEMMA LastIsNat == Last \in Nat
BY FeedAssumption DEF Last

MidRange == 2 * Tick .. Tick * (Ticks - 2)

LEMMA ClippedIs ==
    ASSUME NEW raw \in Int
    PROVE  Clipped(raw) \in MidRange
BY FeedAssumption DEF Clipped, MidRange, Larger, Smaller, Tick

Numbers == [0 .. Last -> Int]

LEMMA DecayedIs == \A x \in Int : Decayed(x) \in Int
BY DEF Decayed

LEMMA FlowIs ==
    ASSUME NEW draw \in [1 .. Last -> Int]
    PROVE  FlowPath(draw) \in Numbers
<1> DEFINE Body(g) == [i \in 0 .. Last |-> IF i = 0 THEN 0 ELSE Decayed(g[i - 1]) + draw[i]]
           g == CHOOSE g : g = Body(g)
           step == [q \in (1 .. Last) \X Int |-> Decayed(q[2]) + draw[q[1]]]
<1>1. FlowPath(draw) = g
  BY DEF FlowPath
<1>2. step \in [(1 .. Last) \X Int -> Int]
  BY DecayedIs
<1>3. \A i \in 1 .. Last : \A x \in Int : step[<<i, x>>] = Decayed(x) + draw[i]
  OBVIOUS
<1> HIDE DEF step
<1>4. PICK f : IsPath(f, Int, 0, step, Last)
  <2>1. 0 \in Int
    OBVIOUS
  <2>2. \E f : IsPath(f, Int, 0, step, Last)
    BY <1>2, <2>1, PathExists, LastIsNat
  <2> QED
    BY <2>2
<1>5. f = Body(f)
  <2>1. f = [i \in 0 .. Last |-> f[i]] /\ f[0] = 0
    BY <1>4 DEF IsPath
  <2>2. ASSUME NEW i \in 1 .. Last PROVE f[i] = Decayed(f[i - 1]) + draw[i]
    <3>1. f[i - 1] \in Int
      BY <1>4, LastIsNat DEF IsPath
    <3> QED
      BY <1>3, <1>4, <3>1 DEF IsPath
  <2>3. ASSUME NEW i \in 0 .. Last
        PROVE  f[i] = IF i = 0 THEN 0 ELSE Decayed(f[i - 1]) + draw[i]
    <3>1. i = 0 \/ i \in 1 .. Last
      BY LastIsNat
    <3> QED
      BY <2>1, <2>2, <3>1
  <2> QED
    BY <2>1, <2>3
<1>6. g = Body(g)
  BY <1>5
<1> HIDE DEF g
<1>7. g[0] \in Int /\ \A k \in 0 .. Last - 1 : g[k] \in Int => g[k + 1] \in Int
  <2>1. g[0] = 0
    BY <1>6, LastIsNat
  <2>2. ASSUME NEW k \in 0 .. Last - 1, g[k] \in Int PROVE g[k + 1] \in Int
    <3>1. k + 1 \in 0 .. Last /\ k + 1 # 0 /\ k + 1 \in 1 .. Last /\ (k + 1) - 1 = k
      BY LastIsNat
    <3>2. g[k + 1] = Decayed(g[k]) + draw[k + 1]
      BY <1>6, <3>1
    <3>3. Decayed(g[k]) \in Int
      BY <2>2, DecayedIs
    <3> HIDE DEF Body
    <3> QED
      BY <3>1, <3>2, <3>3
  <2> QED
    BY <2>1, <2>2
<1>8. \A k \in 0 .. Last : g[k] \in Int
  BY <1>7, PathStays, LastIsNat
<1> QED
  BY <1>1, <1>6, <1>8 DEF Numbers

LEMMA ASMidsAre ==
    ASSUME NEW draw \in [1 .. Last -> Int]
    PROVE  ASMids(draw) \in [0 .. Last -> MidRange]
<1> DEFINE Body(g) == [i \in 0 .. Last |-> IF i = 0 THEN MidStart ELSE g[i - 1] + draw[i]]
           g == CHOOSE g : g = Body(g)
           step == [q \in (1 .. Last) \X Int |-> q[2] + draw[q[1]]]
<1>1. ASMids(draw) = [i \in 0 .. Last |-> Clipped(g[i])]
  BY DEF ASMids
<1>2. \A i \in 1 .. Last : \A x \in Int : x + draw[i] \in Int
  OBVIOUS
<1>3. step \in [(1 .. Last) \X Int -> Int]
  BY <1>2
<1>4. \A i \in 1 .. Last : \A x \in Int : step[<<i, x>>] = x + draw[i]
  OBVIOUS
<1> HIDE DEF step
<1>5. MidStart \in Int
  BY FeedAssumption
<1>6. PICK f : IsPath(f, Int, MidStart, step, Last)
  <2>1. \E f : IsPath(f, Int, MidStart, step, Last)
    BY <1>3, <1>5, PathExists, LastIsNat
  <2> QED
    BY <2>1
<1>7. f = Body(f)
  <2>1. f = [i \in 0 .. Last |-> f[i]] /\ f[0] = MidStart
    BY <1>6 DEF IsPath
  <2>2. ASSUME NEW i \in 1 .. Last PROVE f[i] = f[i - 1] + draw[i]
    <3>1. f[i - 1] \in Int
      BY <1>6, LastIsNat DEF IsPath
    <3> QED
      BY <1>4, <1>6, <3>1 DEF IsPath
  <2>3. ASSUME NEW i \in 0 .. Last
        PROVE  f[i] = IF i = 0 THEN MidStart ELSE f[i - 1] + draw[i]
    <3>1. i = 0 \/ i \in 1 .. Last
      BY LastIsNat
    <3> QED
      BY <2>1, <2>2, <3>1
  <2> QED
    BY <2>1, <2>3
<1>8. g = Body(g)
  BY <1>7
<1> HIDE DEF g
<1>9. g[0] \in Int
  BY <1>5, <1>8, LastIsNat
<1>10. ASSUME NEW k \in 0 .. Last - 1, g[k] \in Int PROVE g[k + 1] \in Int
  <2>1. k + 1 \in 0 .. Last /\ k + 1 # 0 /\ k + 1 \in 1 .. Last /\ (k + 1) - 1 = k
    BY LastIsNat
  <2>2. g[k + 1] = g[k] + draw[k + 1]
    BY <1>8, <2>1
  <2> HIDE DEF Body
  <2> QED
    BY <1>2, <1>10, <2>1, <2>2
<1>11. \A k \in 0 .. Last : g[k] \in Int
  BY <1>9, <1>10, PathStays, LastIsNat
<1> QED
  BY <1>1, <1>11, ClippedIs

LEMMA DriftedMidsAre ==
    ASSUME NEW draw \in [1 .. Last -> Int], NEW phi \in Numbers
    PROVE  DriftedMids(draw, phi) \in [0 .. Last -> MidRange]
<1> DEFINE Body(g) == [i \in 0 .. Last |-> IF i = 0 THEN MidStart ELSE g[i - 1] + DriftStrength * phi[i - 1] + draw[i]]
           g == CHOOSE g : g = Body(g)
           step == [q \in (1 .. Last) \X Int |-> q[2] + DriftStrength * phi[q[1] - 1] + draw[q[1]]]
<1>1. DriftedMids(draw, phi) = [i \in 0 .. Last |-> Clipped(g[i])]
  BY DEF DriftedMids
<1>2. \A i \in 1 .. Last : \A x \in Int : x + DriftStrength * phi[i - 1] + draw[i] \in Int
  <2> TAKE i \in 1 .. Last
  <2> TAKE x \in Int
  <2>1. i - 1 \in 0 .. Last
    BY LastIsNat
  <2>2. phi[i - 1] \in Int /\ DriftStrength \in Int /\ draw[i] \in Int
    <3>1. DriftStrength \in Nat
      BY FeedAssumption
    <3>2. phi[i - 1] \in Int
      BY <2>1 DEF Numbers
    <3> QED
      BY <3>1, <3>2
  <2> QED
    BY <2>2
<1>3. step \in [(1 .. Last) \X Int -> Int]
  BY <1>2
<1>4. \A i \in 1 .. Last : \A x \in Int : step[<<i, x>>] = x + DriftStrength * phi[i - 1] + draw[i]
  OBVIOUS
<1> HIDE DEF step
<1>5. MidStart \in Int
  BY FeedAssumption
<1>6. PICK f : IsPath(f, Int, MidStart, step, Last)
  <2>1. \E f : IsPath(f, Int, MidStart, step, Last)
    BY <1>3, <1>5, PathExists, LastIsNat
  <2> QED
    BY <2>1
<1>7. f = Body(f)
  <2>1. f = [i \in 0 .. Last |-> f[i]] /\ f[0] = MidStart
    BY <1>6 DEF IsPath
  <2>2. ASSUME NEW i \in 1 .. Last PROVE f[i] = f[i - 1] + DriftStrength * phi[i - 1] + draw[i]
    <3>1. f[i - 1] \in Int
      BY <1>6, LastIsNat DEF IsPath
    <3> QED
      BY <1>4, <1>6, <3>1 DEF IsPath
  <2>3. ASSUME NEW i \in 0 .. Last
        PROVE  f[i] = IF i = 0 THEN MidStart ELSE f[i - 1] + DriftStrength * phi[i - 1] + draw[i]
    <3>1. i = 0 \/ i \in 1 .. Last
      BY LastIsNat
    <3> QED
      BY <2>1, <2>2, <3>1
  <2> QED
    BY <2>1, <2>3
<1>8. g = Body(g)
  BY <1>7
<1> HIDE DEF g
<1>9. g[0] \in Int
  BY <1>5, <1>8, LastIsNat
<1>10. ASSUME NEW k \in 0 .. Last - 1, g[k] \in Int PROVE g[k + 1] \in Int
  <2>1. k + 1 \in 0 .. Last /\ k + 1 # 0 /\ k + 1 \in 1 .. Last /\ (k + 1) - 1 = k
    BY LastIsNat
  <2>2. g[k + 1] = g[k] + DriftStrength * phi[(k + 1) - 1] + draw[k + 1]
    BY <1>8, <2>1
  <2> HIDE DEF Body
  <2> QED
    BY <1>2, <1>10, <2>1, <2>2
<1>11. \A k \in 0 .. Last : g[k] \in Int
  BY <1>9, <1>10, PathStays, LastIsNat
<1> QED
  BY <1>1, <1>11, ClippedIs

JumpsBy(S) == MapThenSumSet(LAMBDA j : Jumps[j].by, S)

LEMMA JumpsByIsInt ==
    ASSUME NEW S, S \subseteq DOMAIN Jumps
    PROVE  IsFiniteSet(S) /\ JumpsBy(S) \in Int
<1> DEFINE w == [j \in S |-> Jumps[j].by]
           Body(t) == [T \in SUBSET S |->
                         IF T = {} THEN 0
                         ELSE LET x == CHOOSE y \in T : TRUE
                              IN  Jumps[x].by + t[T \ {x}]]
           u == CHOOSE t : t = Body(t)
<1>1. Jumps \in Seq([at : 1 .. Duration - 1, by : Int])
  BY FeedAssumption
<1>2. IsFiniteSet(S)
  <2>1. DOMAIN Jumps = 1 .. Len(Jumps) /\ Len(Jumps) \in Nat
    BY <1>1
  <2>2. IsFiniteSet(DOMAIN Jumps)
    BY <2>1, FS_Interval
  <2> QED
    BY <2>2, FS_Subset
<1>3. \A T \in SUBSET S : T # {} => AnyOf(T) \in T /\ AnyOf(T) \in S
  BY <1>2, Sizes
<1>4. JumpsBy(S) = u[S]
  BY DEF JumpsBy, MapThenSumSet, MapThenFoldSet
<1>5. ASSUME NEW j \in S PROVE w[j] \in Int
  <2> DEFINE J == [at : 1 .. Duration - 1, by : Int]
  <2>1. \A x \in J : x.by \in Int
    OBVIOUS
  <2>2. Jumps \in Seq(J) /\ j \in DOMAIN Jumps
    BY <1>1
  <2> HIDE DEF J
  <2>3. Jumps[j] \in J
    BY <2>2
  <2> QED
    BY <2>1, <2>3
<1>6. \A T \in SUBSET S : T # {} => w[AnyOf(T)] = LET x == AnyOf(T) IN Jumps[x].by
  BY <1>3
<1>7. \A t : Body(t) = [T \in SUBSET S |-> IF T = {} THEN 0
                                         ELSE w[AnyOf(T)] + t[T \ {AnyOf(T)}]]
  BY <1>6 DEF AnyOf
<1> HIDE DEF Body, w
<1>8. \A t : t = Body(t) <=> IsTable(t, w, S)
  BY <1>7 DEF IsTable
<1>9. IsTable(CHOOSE t : IsTable(t, w, S), w, S)
  BY <1>2, TableExists
<1>10. IsTable(u, w, S)
  BY <1>8, <1>9
<1> HIDE DEF u
<1>11. S \in SUBSET S
  OBVIOUS
<1>12. JumpsBy(S) = Total(w, S)
  BY <1>2, <1>4, <1>10, <1>11, TotalOfSubset
<1> QED
  BY <1>2, <1>5, <1>12, TotalTakesOut

LEMMA DueAre ==
    ASSUME NEW idx \in Nat, NEW ts
    PROVE  /\ JumpsBy(Due(idx, ts)) \in Int
           /\ Cardinality(Due(idx, ts)) \in Nat
<1>1. Due(idx, ts) \subseteq DOMAIN Jumps
  <2>1. DOMAIN Jumps = 1 .. Len(Jumps) /\ Len(Jumps) \in Nat
    BY FeedAssumption
  <2> QED
    BY <2>1 DEF Due
<1> QED
  BY <1>1, JumpsByIsInt, FS_CardinalityType

Points == [raw : Int, idx : Nat]

\* The mid and the number of jumps taken at snapshot i.
PointAfter(before, i, draw) ==
    [raw |-> before.raw + draw[i] + JumpsBy(Due(before.idx, i * Interval)),
     idx |-> before.idx + Cardinality(Due(before.idx, i * Interval))]

LEMMA JumpyMidsAre ==
    ASSUME NEW draw \in [1 .. Last -> Int]
    PROVE  JumpyMids(draw) \in [0 .. Last -> MidRange]
<1> DEFINE s0 == [raw |-> MidStart, idx |-> 0]
           Body(g) == [i \in 0 .. Last |-> IF i = 0 THEN s0 ELSE PointAfter(g[i - 1], i, draw)]
           g == CHOOSE g : g = Body(g)
           step == [q \in (1 .. Last) \X Points |-> PointAfter(q[2], q[1], draw)]
<1>1. JumpyMids(draw) = [i \in 0 .. Last |-> Clipped(g[i].raw)]
  BY DEF JumpyMids, PointAfter, JumpsBy
<1>2. \A i \in 1 .. Last : \A x \in Points : PointAfter(x, i, draw) \in Points
  <2> TAKE i \in 1 .. Last
  <2> TAKE x \in Points
  <2>1. /\ x.idx \in Nat /\ x.raw \in Int /\ draw[i] \in Int
    BY DEF Points
  <2>2. /\ JumpsBy(Due(x.idx, i * Interval)) \in Int
        /\ Cardinality(Due(x.idx, i * Interval)) \in Nat
    BY <2>1, DueAre
  <2> QED
    BY <2>1, <2>2 DEF Points, PointAfter
<1>3. step \in [(1 .. Last) \X Points -> Points]
  BY <1>2
<1>4. \A i \in 1 .. Last : \A x \in Points : step[<<i, x>>] = PointAfter(x, i, draw)
  OBVIOUS
<1> HIDE DEF step
<1>5. s0 \in Points
  BY FeedAssumption DEF Points
<1> HIDE DEF s0
<1>6. PICK f : IsPath(f, Points, s0, step, Last)
  <2>1. \E f : IsPath(f, Points, s0, step, Last)
    BY <1>3, <1>5, PathExists, LastIsNat
  <2> QED
    BY <2>1
<1>7. f = Body(f)
  <2>1. f = [i \in 0 .. Last |-> f[i]] /\ f[0] = s0
    BY <1>6 DEF IsPath
  <2>2. ASSUME NEW i \in 1 .. Last PROVE f[i] = PointAfter(f[i - 1], i, draw)
    <3>1. f[i - 1] \in Points
      BY <1>6, LastIsNat DEF IsPath
    <3> QED
      BY <1>4, <1>6, <3>1 DEF IsPath
  <2>3. ASSUME NEW i \in 0 .. Last
        PROVE  f[i] = IF i = 0 THEN s0 ELSE PointAfter(f[i - 1], i, draw)
    <3>1. i = 0 \/ i \in 1 .. Last
      BY LastIsNat
    <3> QED
      BY <2>1, <2>2, <3>1
  <2> QED
    BY <2>1, <2>3
<1>8. g = Body(g)
  BY <1>7
<1> HIDE DEF g
<1>9. g[0] \in Points
  BY <1>5, <1>8, LastIsNat
<1>10. ASSUME NEW k \in 0 .. Last - 1, g[k] \in Points PROVE g[k + 1] \in Points
  <2>1. k + 1 \in 0 .. Last /\ k + 1 # 0 /\ k + 1 \in 1 .. Last /\ (k + 1) - 1 = k
    BY LastIsNat
  <2>2. g[k + 1] = PointAfter(g[k], k + 1, draw)
    BY <1>8, <2>1
  <2> HIDE DEF Body
  <2> QED
    BY <1>2, <1>10, <2>1, <2>2
<1>11. \A k \in 0 .. Last : g[k] \in Points
  BY <1>9, <1>10, PathStays, LastIsNat
<1> QED
  BY <1>1, <1>11, ClippedIs DEF Points

-----------------------------------------------------------------------------
\* A print and our order.

Meets(o, p, side) == o.side = SideHitBy(side) /\ o.price = p

\* On the grid, the loop of process_trade stops at one price only.
LEMMA HitsIs ==
    ASSUME NEW b, b.tick = Tick, NEW o \in RestingOrders, NEW p \in Prices,
           NEW side \in {"BUY", "SELL"}
    PROVE  Hits(b, o, p, side) <=> Meets(o, p, side)
<1>1. o.price \in Prices
  BY DEF RestingOrders
<1>2. /\ p \in Int /\ Even(p) /\ o.price \in Int /\ Even(o.price)
  BY <1>1, PriceIs
<1>3. Rounded(p) = p /\ Rounded(o.price) = o.price
  BY <1>2, RoundedIs
<1>4. SameTickLevel(o.price, p, b.tick) <=> o.price = p
  BY <1>3 DEF SameTickLevel, Rounded
<1> QED
  BY <1>2, <1>4 DEF Hits, Meets

LEMMA WalkAlone ==
    ASSUME NEW b, IsBook(b), DOMAIN b.orders \subseteq {Ours}, Ours \in DOMAIN b.orders,
           NEW p, NEW side
    PROVE  Walk(b, p, 1, side)[b.orders[Ours].rank - 1] = WalkStart(1)
<1> DEFINE w == Walk(b, p, 1, side)
           rank == b.orders[Ours].rank
           Good == {k \in Nat : k <= rank - 1 => w[k] = WalkStart(1)}
<1>1. rank \in Nat \ {0} /\ rank <= b.joined /\ b.joined \in Nat
  BY DEF IsBook, RestingOrders
<1>2. IsWalk(w, b, p, 1, side, b.joined)
  BY <1>1, WalkDef
<1> HIDE DEF w
<1>3. 0 \in Good
  BY <1>1, <1>2 DEF IsWalk
<1>4. ASSUME NEW k \in Nat, k \in Good PROVE k + 1 \in Good
  <2> SUFFICES ASSUME k + 1 <= rank - 1 PROVE w[k + 1] = WalkStart(1)
    OBVIOUS
  <2>1. w[k] = WalkStart(1)
    BY <1>1, <1>4
  <2>2. w[k + 1] = WalkStep(b, p, side, w[k], k + 1)
    <3>1. k + 1 \in 0 .. b.joined /\ k + 1 # 0 /\ (k + 1) - 1 = k
      BY <1>1
    <3> QED
      BY <1>2, <3>1 DEF IsWalk
  <2>3. {o \in DOMAIN b.orders : /\ b.orders[o].rank = k + 1
                                 /\ w[k].left > 0
                                 /\ Hits(b, b.orders[o], p, side)} = {}
    <3>1. \A o \in DOMAIN b.orders : b.orders[o].rank # k + 1
      BY <1>1
    <3> QED
      BY <3>1
  <2> QED
    BY <2>1, <2>2, <2>3 DEF WalkStep
<1>5. \A k \in Nat : k \in Good
  <2> HIDE DEF Good
  <2> QED
    BY <1>3, <1>4, InductionOverNat
<1> QED
  BY <1>1, <1>5 DEF w

\* A print leaves our order alone unless it is at its price on its side; there
\* it fills an order of one contract with nothing in front of it.
LEMMA PrintOnBook ==
    ASSUME NEW b, IsBook(b), b.tick = Tick, DOMAIN b.orders \subseteq {Ours},
           NEW p \in Prices, NEW side \in {"BUY", "SELL"}
    PROVE  LET c == BookAfterTrade(b, p, 1, side)
           IN  /\ IsBook(c) /\ OrdersShrink(b, c)
               /\ c.bids = b.bids /\ c.asks = b.asks /\ c.tick = b.tick
               /\ Ours \in DOMAIN b.orders =>
                    LET o == b.orders[Ours]
                    IN  /\ ~Meets(o, p, side) =>
                             Ours \in DOMAIN c.orders /\ c.orders[Ours] = o
                        /\ Meets(o, p, side) /\ o.size = 1 /\ QueuePosition(b, Ours) = 0
                             => Ours \notin DOMAIN c.orders
                        /\ Ours \in DOMAIN c.orders => c.orders[Ours].size <= o.size
<1> DEFINE c == BookAfterTrade(b, p, 1, side)
           after == [x \in DOMAIN b.orders |-> AfterTrade(b, p, 1, side, x)]
           rest == {x \in DOMAIN b.orders : after[x].size > 0}
           kept == [x \in rest |-> after[x]]
<1>1. c = [b EXCEPT !.orders = kept]
  BY DEF BookAfterTrade, AfterTrade
<1>2. IsBook(c) /\ OrdersShrink(b, c)
  BY TradeOnBook
<1>3. DOMAIN kept = rest /\ \A x \in rest : kept[x] = after[x]
  OBVIOUS
<1>4. c.orders = kept /\ c.bids = b.bids /\ c.asks = b.asks /\ c.tick = b.tick
  <2> HIDE DEF kept, c
  <2>1. IsRecord(b)
    BY DEF IsBook
  <2> QED
    BY <1>1, <2>1 DEF IsRecord
<1> HIDE DEF c, kept
<1>5. ASSUME Ours \in DOMAIN b.orders
      PROVE  LET o == b.orders[Ours]
             IN  /\ ~Meets(o, p, side) =>
                      Ours \in DOMAIN c.orders /\ c.orders[Ours] = o
                 /\ Meets(o, p, side) /\ o.size = 1 /\ QueuePosition(b, Ours) = 0
                      => Ours \notin DOMAIN c.orders
                 /\ Ours \in DOMAIN c.orders => c.orders[Ours].size <= o.size
  <2> DEFINE o == b.orders[Ours]
             f == FillOfOrder(b, p, 1, side, Ours)
             w == Walk(b, p, 1, side)
  <2>1. o \in RestingOrders /\ o.size \in Nat /\ o.size > 0 /\ o.price \in Prices
    BY <1>5 DEF IsBook, RestingOrders
  <2>2. f \in 0 .. o.size /\ after[Ours].size = o.size - f
    <3>1. f \in 0 .. o.size /\ AfterTrade(b, p, 1, side, Ours).size = o.size - f
      BY <1>5, TradeOnOrder
    <3> QED
      BY <1>5, <3>1
  <2>3. ASSUME ~Meets(o, p, side) PROVE after[Ours] = o
    <3>1. ~Hits(b, o, p, side)
      BY <2>1, <2>3, HitsIs
    <3> QED
      BY <1>5, <3>1 DEF AfterTrade, OrderAfterTrade, Reached
  <2>4. ASSUME Meets(o, p, side), o.size = 1, QueuePosition(b, Ours) = 0
        PROVE  f = 1
    <3>1. Hits(b, o, p, side)
      BY <2>1, <2>4, HitsIs
    <3>2. w[o.rank - 1] = WalkStart(1)
      BY <1>5, WalkAlone
    <3>3. w[o.rank - 1].left = 1 /\ w[o.rank - 1].eaten[o.price] = 0
      BY <2>1, <3>2 DEF WalkStart
    <3>4. QueueAt(b, w, o) = 0
      BY <1>5, <2>4, <3>3 DEF QueueAt, QueuePosition
    <3>5. FillOf(0, 1, 1) = 1
      BY DEF FillOf, Smaller
    <3>6. f = FillOf(QueueAt(b, w, o), w[o.rank - 1].left, o.size)
      BY <3>1, <3>3 DEF FillOfOrder, FillAt, Reached
    <3> HIDE DEF f, w, o
    <3> QED
      BY <2>4, <3>3, <3>4, <3>5, <3>6
  <2> HIDE DEF f, after
  <2>5. ASSUME ~Meets(o, p, side) PROVE Ours \in DOMAIN c.orders /\ c.orders[Ours] = o
    BY <1>3, <1>4, <1>5, <2>1, <2>3, <2>5
  <2>6. ASSUME Meets(o, p, side), o.size = 1, QueuePosition(b, Ours) = 0
        PROVE  Ours \notin DOMAIN c.orders
    <3>1. after[Ours].size = 0
      BY <2>2, <2>4, <2>6
    <3> QED
      BY <1>3, <1>4, <3>1
  <2>7. ASSUME Ours \in DOMAIN c.orders PROVE c.orders[Ours].size <= o.size
    <3>1. c.orders[Ours] = after[Ours]
      BY <1>3, <1>4, <2>7
    <3> QED
      BY <2>1, <2>2, <3>1
  <2> QED
    BY <2>5, <2>6, <2>7
<1> QED
  BY <1>2, <1>4, <1>5 DEF c

-----------------------------------------------------------------------------
\* The invariant of the feed.

FeedTyped ==
    /\ world \in {"as", "drifted", "jumpy"}
    /\ flow \in Numbers
    /\ mids \in [0 .. Last -> MidRange]
    /\ snapIx \in 0 .. Last + 1
    /\ tradeAt \in {None} \cup (0 .. Duration - 1)
    /\ walk \in [side : {"BUY", "SELL"}, ts : Nat, prices : Seq(Prices)]
    /\ stamp \in Nat /\ high \in Nat /\ longest \in Nat \ {0}

\* What is still to come is never far behind the highest stamp: neither the
\* next snapshot, nor the next trade, nor what is left of the walk; and a walk
\* ends less than its own length after the events that wait for it.
LagSound ==
    /\ LagBounded
    /\ snapIx <= Last => high - snapIx * Interval < longest
    /\ tradeAt # None => high - tradeAt < longest
    /\ walk.prices # << >> =>
          /\ high - walk.ts < longest
          /\ tradeAt # None => walk.ts + Len(walk.prices) - longest <= tradeAt
          /\ snapIx <= Last => walk.ts + Len(walk.prices) - longest <= snapIx * Interval

\* After the first snapshot each side of the book is one level, at the touch
\* of the last mid that was sent.
TopsSound ==
    snapIx >= 1 => \E n, m \in Nat \ {0} :
        /\ book.bids = Side(TouchBid(mids[snapIx - 1]), n)
        /\ book.asks = Side(TouchAsk(mids[snapIx - 1]), m)

OursSound ==
    /\ IsBook(book) /\ book.tick = Tick /\ DOMAIN book.orders \subseteq {Ours}
    /\ Ours \in DOMAIN book.orders => book.orders[Ours].size = 1

\* An order that is owed a fill is ahead in the walk with no queue before it;
\* one that is to be spared is in the book and not ahead.
VerdictSound ==
    /\ verdict = "filled" /\ Ours \in DOMAIN book.orders =>
          /\ QueuePosition(book, Ours) = 0
          /\ \E i \in DOMAIN walk.prices : Meets(book.orders[Ours], walk.prices[i], walk.side)
    /\ verdict = "spared" =>
          /\ Ours \in DOMAIN book.orders
          /\ \A i \in DOMAIN walk.prices : ~Meets(book.orders[Ours], walk.prices[i], walk.side)

MarketSound == FeedTyped /\ LagSound /\ TopsSound /\ OursSound /\ VerdictSound

LEMMA MarketSoundInit == MarketInit => MarketSound
<1> SUFFICES ASSUME MarketInit PROVE MarketSound
  OBVIOUS
<1> USE DEF MarketInit
<1>1. Last \in Nat /\ Duration \in Nat /\ Interval \in Nat /\ Interval * 0 = 0
  BY LastIsNat, FeedAssumption
<1>2. flow \in Numbers
  <2>1. PICK draw \in [1 .. Last -> IF world = "drifted" THEN FlowSteps ELSE {0}] :
             flow = FlowPath(draw)
    OBVIOUS
  <2>2. draw \in [1 .. Last -> Int]
    BY <2>1, FeedAssumption
  <2> QED
    BY <2>1, <2>2, FlowIs
<1>3. mids \in [0 .. Last -> MidRange]
  <2>1. PICK draw \in [1 .. Last -> MidSteps] :
             mids = CASE world = "as"      -> ASMids(draw)
                      [] world = "drifted" -> DriftedMids(draw, flow)
                      [] world = "jumpy"   -> JumpyMids(draw)
    OBVIOUS
  <2>2. draw \in [1 .. Last -> Int]
    BY <2>1, FeedAssumption
  <2>3. /\ ASMids(draw) \in [0 .. Last -> MidRange]
        /\ DriftedMids(draw, flow) \in [0 .. Last -> MidRange]
        /\ JumpyMids(draw) \in [0 .. Last -> MidRange]
    BY <1>2, <2>2, ASMidsAre, DriftedMidsAre, JumpyMidsAre
  <2> QED
    BY <2>1, <2>3
<1>4. tradeAt \in {None} \cup (0 .. Duration - 1)
  BY <1>1 DEF NextTrade
<1>5. walk \in [side : {"BUY", "SELL"}, ts : Nat, prices : Seq(Prices)] /\ walk.prices = << >>
  BY DEF NoWalk
<1>6. FeedTyped
  BY <1>1, <1>2, <1>3, <1>4, <1>5 DEF FeedTyped
<1>7. LagSound
  BY <1>1, <1>4, <1>5 DEF LagSound, LagBounded, None
<1>8. book = [bids |-> Empty, asks |-> Empty, tick |-> 2, orders |-> << >>, joined |-> 0]
  BY DEF NewBook, Tick
<1>9. OursSound
  <2>1. Empty \in Depths
    BY DEF Empty, Depths
  <2>2. DOMAIN book.orders = {} /\ book.orders = [o \in DOMAIN book.orders |-> book.orders[o]]
    BY <1>8
  <2> QED
    BY <1>8, <2>1, <2>2 DEF OursSound, IsBook, IsRecord, Tick
<1> QED
  BY <1>6, <1>7, <1>9 DEF MarketSound, TopsSound, VerdictSound

LEMMA SideIs ==
    ASSUME NEW p \in Prices, NEW n \in Nat \ {0}
    PROVE  Side(p, n) \in Depths /\ Occupied(Side(p, n)) = {p}
BY DEF Side, Depths, Occupied

LEMMA MidIs ==
    ASSUME FeedTyped, NEW i \in 0 .. Last
    PROVE  mids[i] \in Int
<1>1. MidRange \subseteq Int
  BY FeedAssumption DEF MidRange, Tick
<1> QED
  BY <1>1 DEF FeedTyped

LEMMA TailIs ==
    ASSUME NEW S, NEW s \in Seq(S), s # << >>
    PROVE  /\ Head(s) \in S /\ Head(s) = s[1] /\ Tail(s) \in Seq(S)
           /\ Len(s) \in Nat \ {0} /\ Len(Tail(s)) = Len(s) - 1
           /\ 1 \in DOMAIN s
           /\ \A i \in DOMAIN Tail(s) : i + 1 \in DOMAIN s /\ Tail(s)[i] = s[i + 1]
           /\ \A i \in DOMAIN s : i = 1 \/ (i - 1 \in DOMAIN Tail(s) /\ Tail(s)[i - 1] = s[i])
<1>1. Len(s) \in Nat /\ Len(s) # 0 /\ DOMAIN s = 1 .. Len(s)
  BY EmptySeq
<1>2. Tail(s) \in Seq(S) /\ Len(Tail(s)) = Len(s) - 1 /\ Head(s) = s[1] /\ Head(s) \in S
      /\ \A i \in 1 .. Len(Tail(s)) : Tail(s)[i] = s[i + 1]
  BY HeadTailProperties
<1>3. DOMAIN Tail(s) = 1 .. Len(s) - 1
  BY <1>2
<1> QED
  BY <1>1, <1>2, <1>3

\* A snapshot: the sides are set to the touch of its mid.
LEMMA BookEventKeeps ==
    ASSUME MarketSound, NEW n \in Nat \ {0}, NEW m \in Nat \ {0}, BookEvent(n, m)
    PROVE  MarketSound'
<1> DEFINE bids == Side(TouchBid(mids[snapIx]), n)
           asks == Side(TouchAsk(mids[snapIx]), m)
           at   == snapIx * Interval
<1>1. /\ walk.prices = << >> /\ snapIx <= Last /\ SnapshotIsNext
      /\ book' = ApplyBookSnapshot(book, bids, asks)
      /\ stamp' = at /\ high' = Larger(high, at)
      /\ snapIx' = snapIx + 1 /\ verdict' = "open"
      /\ UNCHANGED <<world, flow, mids, tradeAt, trades, walk, longest, placed>>
  BY DEF BookEvent, Emitted
<1>2. FeedTyped /\ LagSound /\ OursSound
  BY DEF MarketSound
<1>3. snapIx \in 0 .. Last /\ Last \in Nat /\ Interval \in Nat \ {0} /\ Duration \in Nat
  BY <1>1, <1>2, LastIsNat, FeedAssumption DEF FeedTyped
<1>4. at \in Nat /\ (snapIx + 1) * Interval = at + Interval
  BY <1>3
<1>5. bids \in Depths /\ asks \in Depths
  BY <1>2, <1>3, MidIs, TouchIs, SideIs
<1>6. book'.bids = bids /\ book'.asks = asks
      /\ IsRecord(book') /\ book'.orders = book.orders /\ book'.tick = book.tick
      /\ book'.joined = book.joined
  <2>1. IsRecord(book)
    BY <1>2 DEF OursSound, IsBook
  <2> HIDE DEF bids, asks
  <2> QED
    BY <1>1, <2>1 DEF ApplyBookSnapshot, IsRecord
<1> HIDE DEF at
<1>7. FeedTyped'
  BY <1>1, <1>2, <1>3, <1>4 DEF FeedTyped, Larger
<1>8. LagSound'
  <2>1. tradeAt = None \/ at <= tradeAt
    BY <1>1 DEF SnapshotIsNext, at
  <2>2. high - at < longest /\ longest \in Nat \ {0} /\ high \in Nat
    BY <1>1, <1>2 DEF LagSound, FeedTyped, at
  <2>3. tradeAt # None => tradeAt \in Nat /\ high - tradeAt < longest
    BY <1>2, <1>3 DEF LagSound, FeedTyped
  <2>4. snapIx' * Interval = at + Interval
    BY <1>1, <1>4
  <2>5. high' - stamp' < longest'
    BY <1>1, <1>4, <2>2 DEF Larger
  <2>6. snapIx' <= Last => high' - snapIx' * Interval < longest'
    BY <1>1, <1>3, <1>4, <2>2, <2>4 DEF Larger
  <2>7. tradeAt' # None => high' - tradeAt' < longest'
    BY <1>1, <1>4, <2>1, <2>2, <2>3 DEF Larger
  <2> QED
    BY <1>1, <2>5, <2>6, <2>7 DEF LagSound, LagBounded
<1>9. TopsSound'
  <2>1. snapIx' - 1 = snapIx /\ mids' = mids
    BY <1>1, <1>3
  <2> QED
    BY <1>6, <2>1 DEF TopsSound
<1>10. OursSound'
  <2> HIDE DEF bids, asks
  <2> QED
    BY <1>2, <1>5, <1>6 DEF OursSound, IsBook
<1>11. VerdictSound'
  BY <1>1 DEF VerdictSound
<1> QED
  BY <1>7, <1>8, <1>9, <1>10, <1>11 DEF MarketSound

\* What a trade owes our order, by the prices that it prints.
LEMMA OwedIs ==
    ASSUME OursSound, NEW mid \in Int, NEW side \in {"BUY", "SELL"}, NEW depth \in Nat
    PROVE  LET w == WalkPrices(mid, side, depth)
           IN  /\ Owed(mid, side, depth) = "filled" =>
                     /\ Ours \in DOMAIN book.orders /\ QueuePosition(book, Ours) = 0
                     /\ \E i \in DOMAIN w : Meets(book.orders[Ours], w[i], side)
               /\ Owed(mid, side, depth) = "spared" =>
                     /\ Ours \in DOMAIN book.orders
                     /\ \A i \in DOMAIN w : ~Meets(book.orders[Ours], w[i], side)
<1> DEFINE w == WalkPrices(mid, side, depth)
           o == book.orders[Ours]
           verd == Owed(mid, side, depth)
<1>1. CASE Ours \notin DOMAIN book.orders \/ QueuePosition(book, Ours) # 0
  BY <1>1 DEF Owed
<1>2. CASE Ours \in DOMAIN book.orders /\ QueuePosition(book, Ours) = 0
  <2>1. o \in RestingOrders
    BY <1>2 DEF OursSound, IsBook
  <2>2. o.price \in Prices /\ o.side \in Sides /\ o.price \in Int
    BY <2>1, PriceIs DEF RestingOrders
  <2>3. TouchBid(mid) \in Int /\ TouchAsk(mid) \in Int
    BY TouchIs, PriceIs
  <2>4. /\ Beyond(mid, side, o.price) = 0
             \/ (Beyond(mid, side, o.price) >= 0 /\ Away(mid, side, o.price) <= depth)
           => \E i \in DOMAIN w : w[i] = o.price
        /\ Beyond(mid, side, o.price) > 0 /\ Away(mid, side, o.price) > depth + 1
           => \A i \in DOMAIN w : w[i] # o.price
    <3>1. Reaches(w, mid, side, depth)
      BY WalkReaches
    <3> HIDE DEF o, w
    <3> QED
      BY <2>2, <3>1 DEF Reaches
  <2>5. CASE o.side # SideHitBy(side)
    <3>1. verd = "spared"
      BY <1>2, <2>5 DEF Owed
    <3> QED
      BY <1>2, <2>5, <3>1 DEF Meets
  <2>6. CASE o.side = SideHitBy(side)
    <3> DEFINE out == Beyond(mid, side, o.price)
               away == Away(mid, side, o.price)
    <3>1. verd = IF out < 0 THEN "open"
                 ELSE IF out = 0 \/ away <= depth THEN "filled"
                 ELSE IF away > depth + 1 THEN "spared" ELSE "open"
      <4> DEFINE touch == IF o.side = "bid" THEN TouchBid(mid) ELSE TouchAsk(mid)
                 gap   == IF o.side = "bid" THEN touch - o.price ELSE o.price - touch
                 far   == IF o.side = "bid" THEN mid - o.price ELSE o.price - mid
      <4>1. gap = out /\ far = away
        BY <2>2, <2>6 DEF Beyond, Away, SideHitBy, Sides
      <4>2. gap \in Int
        BY <2>2, <2>3
      <4>3. verd = CASE o.side # SideHitBy(side) -> "spared"
                     [] o.side = SideHitBy(side) /\ gap < 0 -> "open"
                     [] o.side = SideHitBy(side) /\ gap >= 0 ->
                          IF gap = 0 \/ far <= depth THEN "filled"
                          ELSE IF far > depth + 1 THEN "spared" ELSE "open"
        BY <1>2 DEF Owed
      <4> HIDE DEF gap, far, verd, out, away, o
      <4> QED
        BY <2>6, <4>1, <4>2, <4>3
    <3>2. out \in Int /\ away \in Int
      BY <2>2, <2>3 DEF Beyond, Away
    <3>3. \A p : Meets(o, p, side) <=> o.price = p
      BY <2>6 DEF Meets
    <3> HIDE DEF verd, out, away, o, w
    <3>4. verd = "filled" => \E i \in DOMAIN w : w[i] = o.price
      BY <2>4, <3>1, <3>2 DEF out, away
    <3>5. verd = "spared" => \A i \in DOMAIN w : w[i] # o.price
      BY <2>4, <3>1, <3>2 DEF out, away
    <3> QED
      BY <1>2, <3>3, <3>4, <3>5 DEF verd, o, w
  <2> QED
    BY <2>5, <2>6
<1> QED
  BY <1>1, <1>2

LEMMA StartTradeKeeps ==
    ASSUME MarketSound, NEW side \in {"BUY", "SELL"}, NEW depth \in DepthBudgets,
           StartTrade(side, depth)
    PROVE  MarketSound'
<1> DEFINE w == WalkPrices(RefMid, side, depth)
<1>1. /\ walk.prices = << >> /\ ~SnapshotIsNext
      /\ walk' = [side |-> side, ts |-> tradeAt, prices |-> w]
      /\ longest' = Larger(longest, Len(w))
      /\ verdict' = Owed(RefMid, side, depth)
      /\ tradeAt' \in {None} \cup NextTrade(tradeAt)
      /\ UNCHANGED <<world, flow, mids, snapIx, stamp, high, book, placed>>
  BY DEF StartTrade
<1>2. FeedTyped /\ LagSound /\ TopsSound /\ OursSound
  BY DEF MarketSound
<1>3. /\ Last \in Nat /\ Interval \in Nat \ {0} /\ Duration \in Nat \ {0}
      /\ depth \in Nat /\ snapIx \in 0 .. Last + 1 /\ snapIx * Interval \in Nat
  BY <1>2, LastIsNat, FeedAssumption DEF FeedTyped
<1>4. tradeAt \in 0 .. Duration - 1 /\ tradeAt # None
      /\ (snapIx <= Last => snapIx * Interval > tradeAt)
  <2>1. tradeAt # None /\ ~(snapIx <= Last /\ snapIx * Interval <= tradeAt)
    BY <1>1 DEF SnapshotIsNext
  <2>2. tradeAt \in 0 .. Duration - 1
    BY <1>2, <2>1 DEF FeedTyped
  <2> QED
    BY <1>3, <2>1, <2>2
<1>5. RefMid \in Int
  <2>1. Larger(0, snapIx - 1) \in 0 .. Last
    BY <1>3 DEF Larger
  <2> QED
    BY <1>2, <2>1, MidIs DEF RefMid
<1>6. w \in Seq(Prices) /\ Len(w) >= 1
  BY <1>3, <1>5, WalkReaches
<1>7. VerdictSound'
  <2>1. /\ Owed(RefMid, side, depth) = "filled" =>
              /\ Ours \in DOMAIN book.orders /\ QueuePosition(book, Ours) = 0
              /\ \E i \in DOMAIN w : Meets(book.orders[Ours], w[i], side)
        /\ Owed(RefMid, side, depth) = "spared" =>
              /\ Ours \in DOMAIN book.orders
              /\ \A i \in DOMAIN w : ~Meets(book.orders[Ours], w[i], side)
    BY <1>2, <1>3, <1>5, OwedIs
  <2> HIDE DEF w
  <2>2. walk'.prices = w /\ walk'.side = side /\ book' = book
    BY <1>1
  <2> QED
    BY <1>1, <2>1, <2>2 DEF VerdictSound
<1> HIDE DEF w
<1>8. Len(w) \in Nat /\ longest \in Nat \ {0} /\ high \in Nat /\ stamp \in Nat
      /\ longest' \in Nat \ {0} /\ longest' >= longest /\ longest' >= Len(w)
  BY <1>1, <1>2, <1>6 DEF FeedTyped, Larger
<1>9. tradeAt' \in {None} \cup (0 .. Duration - 1) /\ (tradeAt' # None => tradeAt' >= tradeAt)
  BY <1>1 DEF NextTrade
<1>10. FeedTyped'
  <2>1. walk' \in [side : {"BUY", "SELL"}, ts : Nat, prices : Seq(Prices)]
    BY <1>1, <1>4, <1>6
  <2> QED
    BY <1>1, <1>2, <1>8, <1>9, <2>1 DEF FeedTyped
<1>11. LagSound'
  <2>1. high - stamp < longest /\ high - tradeAt < longest
        /\ (snapIx <= Last => high - snapIx * Interval < longest)
    BY <1>2, <1>4 DEF LagSound, LagBounded
  <2>2. walk'.prices = w /\ walk'.ts = tradeAt
    BY <1>1
  <2>3. high - stamp < longest' /\ high - tradeAt < longest'
        /\ (snapIx <= Last => high - snapIx * Interval < longest')
    BY <1>3, <1>4, <1>8, <2>1
  <2>4. tradeAt' # None => high - tradeAt' < longest' /\ tradeAt + Len(w) - longest' <= tradeAt'
    BY <1>4, <1>8, <1>9, <2>3
  <2>5. snapIx <= Last => tradeAt + Len(w) - longest' <= snapIx * Interval
    BY <1>3, <1>4, <1>8
  <2> QED
    BY <1>1, <2>2, <2>3, <2>4, <2>5 DEF LagSound, LagBounded
<1>12. TopsSound' /\ OursSound'
  BY <1>1, <1>2 DEF TopsSound, OursSound
<1> QED
  BY <1>7, <1>10, <1>11, <1>12 DEF MarketSound

LEMMA PrintLevelKeeps ==
    ASSUME MarketSound, PrintLevel
    PROVE  MarketSound'
<1> DEFINE p == Head(walk.prices)
           s == walk.prices
           rest == Tail(walk.prices)
<1>1. /\ s # << >> /\ book' = BookAfterTrade(book, p, 1, walk.side)
      /\ stamp' = walk.ts /\ high' = Larger(high, walk.ts)
      /\ walk' = [walk EXCEPT !.ts = @ + 1, !.prices = Tail(@)]
      /\ UNCHANGED <<world, flow, mids, snapIx, tradeAt, trades, longest, placed, verdict>>
  BY DEF PrintLevel, Emitted
<1>2. FeedTyped /\ LagSound /\ TopsSound /\ OursSound /\ VerdictSound
  BY DEF MarketSound
<1>3. walk \in [side : {"BUY", "SELL"}, ts : Nat, prices : Seq(Prices)]
  BY <1>2 DEF FeedTyped
<1>4. /\ p \in Prices /\ p = s[1] /\ rest \in Seq(Prices)
      /\ Len(s) \in Nat \ {0} /\ Len(rest) = Len(s) - 1 /\ 1 \in DOMAIN s
      /\ \A i \in DOMAIN rest : i + 1 \in DOMAIN s /\ rest[i] = s[i + 1]
      /\ \A i \in DOMAIN s : i = 1 \/ (i - 1 \in DOMAIN rest /\ rest[i - 1] = s[i])
  <2>1. s \in Seq(Prices)
    BY <1>3
  <2> QED
    BY <1>1, <2>1, TailIs
<1>5. walk'.side = walk.side /\ walk'.ts = walk.ts + 1 /\ walk'.prices = rest
      /\ walk.side \in {"BUY", "SELL"} /\ walk.ts \in Nat
      /\ walk' = [side |-> walk.side, ts |-> walk.ts + 1, prices |-> rest]
  <2> HIDE DEF rest
  <2>1. walk' = [walk EXCEPT !.ts = walk.ts + 1, !.prices = rest]
    BY <1>1 DEF rest
  <2> QED
    BY <1>3, <2>1
<1>6. /\ IsBook(book') /\ OrdersShrink(book, book')
      /\ book'.bids = book.bids /\ book'.asks = book.asks /\ book'.tick = book.tick
      /\ Ours \in DOMAIN book.orders =>
           LET o == book.orders[Ours]
           IN  /\ ~Meets(o, p, walk.side) =>
                    Ours \in DOMAIN book'.orders /\ book'.orders[Ours] = o
               /\ Meets(o, p, walk.side) /\ o.size = 1 /\ QueuePosition(book, Ours) = 0
                    => Ours \notin DOMAIN book'.orders
               /\ Ours \in DOMAIN book'.orders => book'.orders[Ours].size <= o.size
  <2> HIDE DEF p
  <2>1. IsBook(book) /\ book.tick = Tick /\ DOMAIN book.orders \subseteq {Ours}
    BY <1>2 DEF OursSound
  <2> QED
    BY <1>1, <1>4, <1>5, <2>1, PrintOnBook
<1> HIDE DEF p, s, rest
<1>7. high \in Nat /\ longest \in Nat \ {0} /\ snapIx \in 0 .. Last + 1 /\ tradeAt \in Int
      /\ Last \in Nat /\ snapIx * Interval \in Nat
  <2>1. Last \in Nat /\ Interval \in Nat /\ Duration \in Nat
    BY LastIsNat, FeedAssumption
  <2> QED
    BY <1>2, <2>1 DEF FeedTyped, None
<1>8. FeedTyped'
  <2>1. walk' \in [side : {"BUY", "SELL"}, ts : Nat, prices : Seq(Prices)]
    BY <1>4, <1>5
  <2>2. stamp' \in Nat /\ high' \in Nat
    BY <1>1, <1>5, <1>7 DEF Larger
  <2> QED
    BY <1>1, <1>2, <2>1, <2>2 DEF FeedTyped
<1>9. LagSound'
  <2>1. /\ snapIx <= Last => high - snapIx * Interval < longest
        /\ tradeAt # None => high - tradeAt < longest
        /\ high - walk.ts < longest
        /\ tradeAt # None => walk.ts + Len(s) - longest <= tradeAt
        /\ snapIx <= Last => walk.ts + Len(s) - longest <= snapIx * Interval
    BY <1>1, <1>2 DEF LagSound, s
  <2>2. (high' = high \/ high' = walk.ts) /\ high' \in Nat
    BY <1>1, <1>5, <1>7 DEF Larger
  <2>3. high' - walk.ts < longest /\ high' - (walk.ts + 1) < longest
    BY <1>5, <1>7, <2>1, <2>2
  <2>4. ASSUME tradeAt # None PROVE high' - tradeAt < longest
    <3>1. high - tradeAt < longest /\ walk.ts + Len(s) - longest <= tradeAt
      BY <2>1, <2>4
    <3>2. walk.ts - tradeAt < longest
      BY <1>4, <1>5, <1>7, <3>1
    <3> QED
      BY <2>2, <3>1, <3>2
  <2>5. snapIx <= Last => high' - snapIx * Interval < longest
    BY <1>4, <1>5, <1>7, <2>1, <2>2
  <2>6. (walk.ts + 1) + Len(rest) - longest = walk.ts + Len(s) - longest
    BY <1>4, <1>5, <1>7
  <2> QED
    BY <1>1, <1>5, <2>1, <2>3, <2>4, <2>5, <2>6 DEF LagSound, LagBounded
<1>10. TopsSound'
  BY <1>1, <1>2, <1>6 DEF TopsSound
<1>11. OursSound'
  <2>1. DOMAIN book'.orders \subseteq DOMAIN book.orders
    BY <1>6 DEF OrdersShrink
  <2>2. ASSUME Ours \in DOMAIN book'.orders PROVE book'.orders[Ours].size = 1
    <3>1. Ours \in DOMAIN book.orders /\ book.orders[Ours].size = 1
      BY <1>2, <2>1, <2>2 DEF OursSound
    <3>2. book'.orders[Ours] \in RestingOrders /\ book'.orders[Ours].size <= 1
      BY <1>6, <2>2, <3>1 DEF IsBook
    <3> QED
      BY <3>2 DEF RestingOrders
  <2> QED
    BY <1>2, <1>6, <2>1, <2>2 DEF OursSound
<1>12. VerdictSound'
  <2> DEFINE o == book.orders[Ours]
  <2>1. verdict' = verdict /\ walk'.prices = rest /\ walk'.side = walk.side
    BY <1>1, <1>5
  <2>2. ASSUME verdict = "filled", Ours \in DOMAIN book'.orders
        PROVE  /\ QueuePosition(book', Ours) = 0
               /\ \E i \in DOMAIN rest : Meets(book'.orders[Ours], rest[i], walk.side)
    <3>1. Ours \in DOMAIN book.orders
      BY <1>6, <2>2 DEF OrdersShrink
    <3>2. o.size = 1 /\ QueuePosition(book, Ours) = 0
      BY <1>2, <2>2, <3>1 DEF OursSound, VerdictSound
    <3>3. PICK i \in DOMAIN s : Meets(o, s[i], walk.side)
      BY <1>2, <2>2, <3>1 DEF VerdictSound, s
    <3>4. ~Meets(o, p, walk.side)
      BY <1>6, <2>2, <3>1, <3>2
    <3>5. book'.orders[Ours] = o
      BY <1>6, <3>1, <3>4
    <3>6. i - 1 \in DOMAIN rest /\ Meets(o, rest[i - 1], walk.side)
      BY <1>4, <3>3, <3>4
    <3>7. QueuePosition(book', Ours) = QueuePosition(book, Ours)
      BY <1>6, <2>2, <3>1, <3>5 DEF QueuePosition, QueueRemaining, Public
    <3> QED
      BY <3>2, <3>5, <3>6, <3>7
  <2>3. ASSUME verdict = "spared"
        PROVE  /\ Ours \in DOMAIN book'.orders
               /\ \A i \in DOMAIN rest : ~Meets(book'.orders[Ours], rest[i], walk.side)
    <3>1. Ours \in DOMAIN book.orders /\ \A i \in DOMAIN s : ~Meets(o, s[i], walk.side)
      BY <1>2, <2>3 DEF VerdictSound, s
    <3>2. Ours \in DOMAIN book'.orders /\ book'.orders[Ours] = o
      BY <1>4, <1>6, <3>1
    <3> QED
      BY <1>4, <3>1, <3>2
  <2> QED
    BY <2>1, <2>2, <2>3 DEF VerdictSound
<1> QED
  BY <1>8, <1>9, <1>10, <1>11, <1>12 DEF MarketSound

LEMMA WePlaceKeeps ==
    ASSUME MarketSound, NEW side \in Sides, NEW price \in Prices, WePlace(side, price)
    PROVE  MarketSound'
<1>1. /\ Ours \notin DOMAIN book.orders
      /\ book' = AddOurOrder(book, Ours, side, price, 1, 0)
      /\ verdict' = "open" /\ UNCHANGED feed
  BY DEF WePlace
<1>2. FeedTyped /\ LagSound /\ TopsSound /\ OursSound
  BY DEF MarketSound
<1>3. /\ IsBook(book') /\ DOMAIN book'.orders = DOMAIN book.orders \cup {Ours}
      /\ book'.orders[Ours].size = 1
  <2> DEFINE c == AddOurOrder(book, Ours, side, price, 1, 0)
  <2>1. IsBook(book) /\ 1 \in Nat \ {0} /\ 0 \in Nat
    BY <1>2 DEF OursSound
  <2>2. /\ IsBook(c)
        /\ DOMAIN c.orders = DOMAIN book.orders \cup {Ours}
        /\ \A o \in DOMAIN book.orders : c.orders[o] = book.orders[o]
        /\ c.orders[Ours].placedAt = 0 /\ c.orders[Ours].size = 1
        /\ c.orders[Ours].side = side
    BY <1>1, <2>1, AddedOnBook
  <2> HIDE DEF c
  <2> QED
    BY <1>1, <2>2 DEF c
<1>4. book'.bids = book.bids /\ book'.asks = book.asks /\ book'.tick = book.tick
  <2> DEFINE more == [o \in DOMAIN book.orders \cup {Ours} |->
                        IF o # Ours THEN book.orders[o]
                        ELSE [side |-> side, price |-> price, size |-> 1,
                              ahead |-> Public(book, side, price),
                              level |-> Public(book, side, price), placedAt |-> 0,
                              rank |-> book.joined + 1]]
  <2>1. book' = [book EXCEPT !.joined = @ + 1, !.orders = more] /\ IsRecord(book)
    BY <1>1, <1>2 DEF AddOurOrder, OursSound, IsBook
  <2> HIDE DEF more
  <2> QED
    BY <2>1 DEF IsRecord
<1>5. FeedTyped' /\ LagSound'
  BY <1>1, <1>2 DEF feed, FeedTyped, LagSound, LagBounded
<1>6. TopsSound'
  BY <1>1, <1>2, <1>4 DEF feed, TopsSound
<1>7. OursSound' /\ VerdictSound'
  BY <1>1, <1>2, <1>3, <1>4 DEF OursSound, VerdictSound
<1> QED
  BY <1>5, <1>6, <1>7 DEF MarketSound

LEMMA WeCancelKeeps ==
    ASSUME MarketSound, WeCancel
    PROVE  MarketSound'
<1>1. /\ book' = RemoveOurOrder(book, Ours)
      /\ verdict' = "open" /\ UNCHANGED <<feed, placed>>
  BY DEF WeCancel
<1>2. FeedTyped /\ LagSound /\ TopsSound /\ OursSound
  BY DEF MarketSound
<1>3. IsBook(book') /\ DOMAIN book'.orders = DOMAIN book.orders \ {Ours}
  BY <1>1, <1>2, RemovedFields DEF OursSound, IsBook
<1>4. book'.bids = book.bids /\ book'.asks = book.asks /\ book'.tick = book.tick
  <2> DEFINE kept == [o \in DOMAIN book.orders \ {Ours} |-> book.orders[o]]
  <2>1. book' = [book EXCEPT !.orders = kept] /\ IsRecord(book)
    BY <1>1, <1>2 DEF RemoveOurOrder, OursSound, IsBook
  <2> HIDE DEF kept
  <2> QED
    BY <2>1 DEF IsRecord
<1>5. FeedTyped' /\ LagSound'
  BY <1>1, <1>2 DEF feed, FeedTyped, LagSound, LagBounded
<1>6. TopsSound'
  BY <1>1, <1>2, <1>4 DEF feed, TopsSound
<1>7. OursSound' /\ VerdictSound'
  BY <1>1, <1>2, <1>3, <1>4 DEF OursSound, VerdictSound
<1> QED
  BY <1>5, <1>6, <1>7 DEF MarketSound

\* One step of the feed, by action.
LEMMA MarketSoundNext == MarketSound /\ [MarketNext]_marketVars => MarketSound'
<1> SUFFICES ASSUME MarketSound, [MarketNext]_marketVars PROVE MarketSound'
  OBVIOUS
<1>1. BaseSize \in Nat \ {0} /\ FlowAmp \in Int
  BY FeedAssumption
<1>2. CASE ASBookEvent \/ JumpyBookEvent
  BY <1>1, <1>2, BookEventKeeps DEF ASBookEvent, JumpyBookEvent
<1>3. CASE DriftedBookEvent
  <2> DEFINE n == Larger(1, BaseSize + FlowAmp * flow[snapIx])
             m == Larger(1, BaseSize - FlowAmp * flow[snapIx])
  <2>1. BookEvent(n, m)
    BY <1>3 DEF DriftedBookEvent
  <2>2. flow[snapIx] \in Int
    <3>1. snapIx \in 0 .. Last
      BY <2>1, LastIsNat DEF MarketSound, FeedTyped, BookEvent
    <3> QED
      BY <3>1 DEF MarketSound, FeedTyped, Numbers
  <2>3. n \in Nat \ {0} /\ m \in Nat \ {0}
    BY <1>1, <2>2 DEF Larger
  <2> HIDE DEF n, m
  <2> QED
    BY <2>1, <2>3, BookEventKeeps
<1>4. ASSUME NEW side \in {"BUY", "SELL"}, NEW depth \in DepthBudgets,
             ASTrade(side, depth) \/ DriftedTrade(side, depth) \/ JumpyTrade(side, depth)
      PROVE  MarketSound'
  BY <1>4, StartTradeKeeps DEF ASTrade, DriftedTrade, JumpyTrade
<1>5. CASE PrintLevel
  BY <1>5, PrintLevelKeeps
<1>6. ASSUME NEW side \in Sides, NEW price \in Prices, WePlace(side, price)
      PROVE  MarketSound'
  BY <1>6, WePlaceKeeps
<1>7. CASE WeCancel
  BY <1>7, WeCancelKeeps
<1>8. CASE Exhausted \/ UNCHANGED marketVars
  <2>1. UNCHANGED marketVars
    BY <1>8 DEF Exhausted
  <2> QED
    BY <2>1 DEF marketVars, feed, MarketSound, FeedTyped, LagSound, LagBounded, TopsSound,
                OursSound, VerdictSound
<1> QED
  BY <1>2, <1>3, <1>4, <1>5, <1>6, <1>7, <1>8 DEF MarketNext

LEMMA MarketStaysSound == MarketSpec => []MarketSound
BY MarketSoundInit, MarketSoundNext, PTL DEF MarketSpec

\* Stamps run back by less than the longest walk, for every market: every mid
\* path and every sequence of trades.
THEOREM FeedLagsLessThanAWalk == MarketSpec => []LagBounded
<1>1. MarketSound => LagBounded
  BY DEF MarketSound, LagSound
<1> QED
  BY <1>1, MarketStaysSound, PTL

\* At the end of every walk, the order that the aggressor was willing to reach
\* is filled and the one that he was not is still there.
THEOREM FillsFollowReach == MarketSpec => []ReachDecidesFill
<1>1. MarketSound => ReachDecidesFill
  BY DEF MarketSound, VerdictSound, ReachDecidesFill
<1> QED
  BY <1>1, MarketStaysSound, PTL

\* The trade that starts has a snapshot before it, and the next one is later.
LEMMA TradeMeetsTouch ==
    ASSUME MarketSound, NEW side \in {"BUY", "SELL"}, NEW depth \in DepthBudgets,
           StartTrade(side, depth)
    PROVE  Head(walk'.prices) = IF walk'.side = "BUY" THEN BestAsk(book) ELSE BestBid(book)
<1> DEFINE w == WalkPrices(RefMid, side, depth)
<1>1. ~SnapshotIsNext /\ walk' = [side |-> side, ts |-> tradeAt, prices |-> w]
  BY DEF StartTrade
<1>2. FeedTyped /\ TopsSound /\ Last \in Nat /\ Interval \in Nat /\ Duration \in Nat /\ depth \in Nat
  BY LastIsNat, FeedAssumption DEF MarketSound
<1>3. snapIx \in 0 .. Last + 1 /\ tradeAt \in Nat
  BY <1>1, <1>2 DEF FeedTyped, SnapshotIsNext
<1>4. snapIx >= 1
  <2>1. ASSUME snapIx = 0 PROVE FALSE
    <3>1. snapIx <= Last /\ snapIx * Interval = 0
      BY <1>2, <2>1
    <3> QED
      BY <1>1, <1>3, <3>1 DEF SnapshotIsNext
  <2> QED
    BY <1>3, <2>1
<1>5. RefMid = mids[snapIx - 1] /\ RefMid \in Int
  <2>1. Larger(0, snapIx - 1) = snapIx - 1 /\ snapIx - 1 \in 0 .. Last
    BY <1>2, <1>3, <1>4 DEF Larger
  <2> QED
    BY <1>2, <2>1, MidIs DEF RefMid
<1>6. PICK n, m \in Nat \ {0} : /\ book.bids = Side(TouchBid(RefMid), n)
                                /\ book.asks = Side(TouchAsk(RefMid), m)
  BY <1>2, <1>4, <1>5 DEF TopsSound
<1>7. TouchBid(RefMid) \in Prices /\ TouchAsk(RefMid) \in Prices
  BY <1>5, TouchIs
<1>8. Occupied(book.bids) = {TouchBid(RefMid)} /\ Occupied(book.asks) = {TouchAsk(RefMid)}
  BY <1>6, <1>7, SideIs
<1>9. \A p \in Prices : Highest({p}) = p /\ Lowest({p}) = p
  <2> TAKE p \in Prices
  <2>1. p <= p
    BY PriceIs
  <2> QED
    BY <2>1 DEF Highest, Lowest
<1>10. BestBid(book) = TouchBid(RefMid) /\ BestAsk(book) = TouchAsk(RefMid)
  BY <1>7, <1>8, <1>9 DEF BestBid, BestAsk
<1>11. w \in Seq(Prices) /\ Len(w) >= 1 /\ w[1] = TouchFor(RefMid, side)
  BY <1>2, <1>5, WalkReaches
<1> HIDE DEF w
<1>12. Head(w) = w[1]
  BY <1>11
<1> QED
  BY <1>1, <1>10, <1>11, <1>12 DEF TouchFor

\* No trade sees a mid before its snapshot or after the next one: each starts
\* at the best price of the book that the consumer of the feed has.
THEOREM TradesStartAtTheTouch == MarketSpec => TradesMeetTheBook
<1> DEFINE Met == walk.prices = << >> /\ walk'.prices # << >> =>
                    Head(walk'.prices) = IF walk'.side = "BUY" THEN BestAsk(book) ELSE BestBid(book)
<1>1. ASSUME MarketSound, MarketNext PROVE Met
  <2>1. CASE ASBookEvent \/ DriftedBookEvent \/ JumpyBookEvent
    BY <2>1 DEF ASBookEvent, DriftedBookEvent, JumpyBookEvent, BookEvent
  <2>2. ASSUME NEW side \in {"BUY", "SELL"}, NEW depth \in DepthBudgets,
               ASTrade(side, depth) \/ DriftedTrade(side, depth) \/ JumpyTrade(side, depth)
        PROVE  Met
    BY <1>1, <2>2, TradeMeetsTouch DEF ASTrade, DriftedTrade, JumpyTrade
  <2>3. CASE PrintLevel
    BY <2>3 DEF PrintLevel
  <2>4. CASE UNCHANGED feed
    BY <2>4 DEF feed
  <2>5. /\ WeCancel => UNCHANGED feed
        /\ Exhausted => UNCHANGED feed
        /\ \A side \in Sides, price \in Prices : WePlace(side, price) => UNCHANGED feed
    BY DEF WeCancel, Exhausted, WePlace, marketVars
  <2> HIDE DEF Met
  <2> QED
    BY <1>1, <2>1, <2>2, <2>3, <2>4, <2>5 DEF MarketNext
<1>2. MarketSound /\ [MarketNext]_marketVars => [Met]_marketVars
  <2> HIDE DEF Met
  <2> QED
    BY <1>1
<1> QED
  BY <1>2, MarketStaysSound, PTL DEF MarketSpec, TradesMeetTheBook

=============================================================================
