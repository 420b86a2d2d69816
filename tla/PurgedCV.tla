------------------------------ MODULE PurgedCV ------------------------------
(***************************************************************************)
(* validation/purged_cv.py: the splits of combinatorial cross-validation.  *)
(* Samples 0 .. nSamples-1 fall into nGroups consecutive groups; every     *)
(* choice of nTest of them is the test set of one split, and training      *)
(* leaves out the samples just before (purge) and just after (embargo)     *)
(* each test group.                                                        *)
(*                                                                         *)
(* Each turn of the loop over the choices is a step.                       *)
(***************************************************************************)
EXTENDS Basics, FiniteSets

CONSTANTS
    MaxSamples,                  \* bound on the number of samples
    Windows                      \* lengths of the purge and embargo windows

ASSUME SamplesAssumption == MaxSamples \in Nat /\ Windows \subseteq Nat

VARIABLES
    nSamples, nGroups, nTest,    \* n_samples, n_groups, n_test_groups
    purge, embargo,              \* purge_window, embargo
    splits                       \* [combo, train, test] of the choices so far

arguments  == <<nSamples, nGroups, nTest, purge, embargo>>
splitsVars == <<arguments, splits>>

\* The arguments that raise no ValueError.
ValidArguments ==
    /\ nSamples \in 1 .. MaxSamples /\ nGroups \in 2 .. MaxSamples /\ nTest \in 1 .. (nGroups - 1)
    /\ purge \in Windows /\ embargo \in Windows
    /\ nSamples >= nGroups

Samples == 0 .. (nSamples - 1)
Groups  == 0 .. (nGroups - 1)

SplitsInit ==
    /\ nSamples \in 1 .. MaxSamples /\ nGroups \in 2 .. nSamples /\ nTest \in 1 .. (nGroups - 1)
    /\ purge \in Windows /\ embargo \in Windows
    /\ splits = {}

-----------------------------------------------------------------------------
GroupSize == nSamples \div nGroups

Lo(g) == g * GroupSize

\* The last group takes the remainder.
Hi(g) == IF g < nGroups - 1 THEN (g + 1) * GroupSize ELSE nSamples

Test(combo) == UNION {Lo(g) .. (Hi(g) - 1) : g \in combo}

\* Mutant: the embargo follows the whole test set, not each test group.
AfterLastOnly(combo) ==
    UNION {Hi(g) .. (Smaller(nSamples, Hi(g) + embargo) - 1) :
             g \in {h \in combo : \A i \in combo : i <= h}}

Purged(combo)    == UNION {Larger(0, Lo(g) - purge) .. (Lo(g) - 1) : g \in combo}
Embargoed(combo) == UNION {Hi(g) .. (Smaller(nSamples, Hi(g) + embargo) - 1) : g \in combo}

Forbidden(combo) == Test(combo) \cup Purged(combo) \cup Embargoed(combo)

Train(combo) == {i \in Samples : i \notin Forbidden(combo)}

Combos == {c \in SUBSET Groups : Cardinality(c) = nTest}
Chosen == {s.combo : s \in splits}

\* The order of itertools.combinations, which is lexicographic.
Precedes(c, d) == \E x \in c \ d : \A y \in (c \ d) \cup (d \ c) : x <= y

Choose(combo) ==
    /\ combo \notin Chosen
    /\ \A c \in Combos \ Chosen : c = combo \/ Precedes(combo, c)
    /\ splits' = splits \cup {[combo |-> combo, train |-> Train(combo), test |-> Test(combo)]}
    /\ UNCHANGED arguments

\* The list of splits is returned.
AllSplits == Chosen = Combos /\ UNCHANGED splitsVars

SplitsNext == (\E combo \in Combos : Choose(combo)) \/ AllSplits

SplitsSpec == SplitsInit /\ [][SplitsNext]_splitsVars

-----------------------------------------------------------------------------
\* The samples that may be trained on, told without groups: outside the test
\* set, more than purge before every later test sample and more than embargo
\* after every earlier one.
Trainable(test) ==
    {i \in Samples \ test :
        \A j \in test : (i < j => j - i > purge) /\ (i > j => i - j > embargo)}

\* No leak and no waste: in every split training uses exactly the samples
\* that are far enough from every test sample, at the ends of the data and
\* between neighbouring test groups too.
PurgedExactly == \A s \in splits : s.train = Trainable(s.test)
=============================================================================
