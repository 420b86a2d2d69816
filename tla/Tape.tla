-------------------------------- MODULE Tape --------------------------------
(***************************************************************************)
(* The life of a tape: captures that may crash and be resumed write its    *)
(* files, and once a capture is over the backtester replays them.          *)
(***************************************************************************)
EXTENDS Capture

VARIABLES
    started,         \* the replay's state: see Replay
    heap,
    tieSeq,
    out

replay == <<started, heap, tieSeq, out>>
tapeVars == <<vars, replay>>

\* The shards are the files that exist when the replay starts.
R == INSTANCE Replay WITH tape <- files

TapeInit == Init /\ R!Init

Capturing == ~started /\ Next /\ UNCHANGED replay

Replaying == ~alive /\ UNCHANGED vars /\ R!Next

TapeNext == Capturing \/ Replaying

TapeSpec == TapeInit /\ [][TapeNext]_tapeVars

-----------------------------------------------------------------------------
\* What verify_no_gaps accepts comes out in global timestamp order: no
\* regression inside any shard means none in the replay, across assets, days,
\* ties and torn lines.  This is what the backtester's clock relies on.
VerifiedMeansOrdered == R!VerifiedMeansOrdered

\* The merge neither loses, repeats nor reorders the events of a shard, bad
\* lines and equal timestamps included.
MergeComplete == R!MergeComplete
=============================================================================
