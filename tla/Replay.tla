------------------------------- MODULE Replay -------------------------------
(***************************************************************************)
(* data/replay.py: Replay.__iter__, the k-way merge of the shards of a     *)
(* tape.  A shard is one file, named by its date and its asset.  Nobody    *)
(* writes the files during a replay.                                       *)
(***************************************************************************)
EXTENDS TapeFormat

VARIABLES
    tape,            \* <<day, asset>> -> lines, for the shards
    started,         \* the generator has been primed
    heap,            \* [ts, recv, tie, shard, at]: the next good line of each shard
    tieSeq,          \* tie_seq
    out              \* the events yielded so far, as [shard, at]

vars == <<tape, started, heap, tieSeq, out>>

EventAt(k, i) == RecordOf(tape[k][i])

\* _shards lists the files by date and then by asset.
ListedBefore(j, k) == j[1] < k[1] \/ (j[1] = k[1] /\ j[2] < k[2])

Entry(k, i, tie) ==
    [ts |-> EventAt(k, i).ts, recv |-> EventAt(k, i).recv, tie |-> tie,
     shard |-> k, at |-> i]

Init == started = FALSE /\ heap = {} /\ tieSeq = 0 /\ out = << >>

\* Every shard that has an event contributes its first.
Prime ==
    /\ ~started /\ started' = TRUE
    /\ LET live == {k \in DOMAIN tape : Good(tape[k]) # {}}
       IN  /\ heap' = {Entry(k, NextGood(tape[k], 0),
                             Cardinality({j \in live : ListedBefore(j, k)})) : k \in live}
           /\ tieSeq' = Cardinality(live)
    /\ UNCHANGED <<tape, out>>

\* Mutant: the heap is ordered by the receive clock.
EarlierByReceipt(e, f) == e.recv < f.recv \/ (e.recv = f.recv /\ e.tie < f.tie)

\* Heap entries compare as tuples.
Earlier(e, f) ==
    \/ e.ts < f.ts
    \/ e.ts = f.ts /\ e.recv < f.recv
    \/ e.ts = f.ts /\ e.recv = f.recv /\ e.tie < f.tie

First == CHOOSE e \in heap : \A f \in heap : e = f \/ Earlier(e, f)

\* Mutant: a shard whose next event ties with the one yielded is dropped.
RefillLater(e) ==
    IF \/ GoodAfter(tape[e.shard], e.at) = {}
       \/ EventAt(e.shard, NextGood(tape[e.shard], e.at)).ts = e.ts
    THEN heap' = heap \ {e} /\ UNCHANGED tieSeq
    ELSE /\ heap' = (heap \ {e}) \cup {Entry(e.shard, NextGood(tape[e.shard], e.at), tieSeq)}
         /\ tieSeq' = tieSeq + 1

Refill(e) ==
    IF GoodAfter(tape[e.shard], e.at) = {}
    THEN heap' = heap \ {e} /\ UNCHANGED tieSeq
    ELSE /\ heap' = (heap \ {e}) \cup {Entry(e.shard, NextGood(tape[e.shard], e.at), tieSeq)}
         /\ tieSeq' = tieSeq + 1

Yield ==
    /\ started /\ heap # {}
    /\ out' = Append(out, [shard |-> First.shard, at |-> First.at])
    /\ Refill(First)
    /\ UNCHANGED <<tape, started>>

Next == Prime \/ Yield

-----------------------------------------------------------------------------
InOrder == \A i \in 2 .. Len(out) :
    EventAt(out[i - 1].shard, out[i - 1].at).ts <= EventAt(out[i].shard, out[i].at).ts

\* What verify_no_gaps accepts comes out in global timestamp order: no
\* regression inside any shard means none in the replay, across assets, days
\* and ties.  This is what the backtester's clock relies on.
VerifiedMeansOrdered ==
    (\A k \in DOMAIN tape : Regressions(tape[k]) = 0) => InOrder

\* The merge neither loses, repeats nor reorders the events of a shard, bad
\* lines and equal timestamps included.
MergeComplete ==
    /\ \A i, j \in DOMAIN out :
          i < j /\ out[i].shard = out[j].shard => out[i].at < out[j].at
    /\ started /\ heap = {} =>
          \A k \in DOMAIN tape : \A n \in Good(tape[k]) :
              \E i \in DOMAIN out : out[i] = [shard |-> k, at |-> n]
=============================================================================
