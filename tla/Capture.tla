------------------------------ MODULE Capture ------------------------------
(***************************************************************************)
(* data/writer.py: the append-only capture, as the capture command of      *)
(* polymarket_ws.py drives it: one file per asset and UTC day of receipt,  *)
(* kept open and flushed after every line.  The process may die in the     *)
(* middle of an append; captures are resumed on the same files.  An append *)
(* may fail (a full disk) while the process goes on: some of it is on      *)
(* disk, and Python's file object keeps the rest in its buffer, unless the *)
(* line is larger than the buffer, and tries again at the next flush.      *)
(***************************************************************************)
EXTENDS TapeFormat, SequencesExt

CONSTANTS
    Assets,          \* token ids, numbered in the order in which they are listed
    Stamps,          \* server timestamps
    Sent,            \* the kinds of events that the server sends
    DayLength,       \* the length of a day, in units of the receive clock
    MaxClock,        \* bound on the receive clock
    MaxWrites,       \* bound on the writes
    MaxTears         \* bound on the writes that are cut short

ASSUME CaptureAssumption ==
    /\ Assets \subseteq Nat /\ Stamps \subseteq Nat /\ Sent \subseteq Kinds
    /\ DayLength \in Nat \ {0} /\ MaxClock \in Nat /\ MaxWrites \in Nat /\ MaxTears \in Nat

VARIABLES
    files,           \* <<day, asset>> -> lines, for the files that exist
    handles,         \* _handles: key -> records its file object still buffers
    alive,           \* the capture process runs
    clock,           \* the receive clock
    writes,          \* writes so far; it numbers the records
    tears,           \* history: writes that were cut short
    acked            \* history: <<key, record>> whose write() returned

vars == <<files, handles, alive, clock, writes, tears, acked>>

Day(recv) == recv \div DayLength

Init ==
    /\ files = << >> /\ handles = << >> /\ alive = TRUE
    /\ clock = 0 /\ writes = 0 /\ tears = 0 /\ acked = {}

-----------------------------------------------------------------------------
KeyOf(r) == <<Day(r.recv), r.asset>>

Record(asset, ts, kind) ==
    [id |-> writes, asset |-> asset, ts |-> ts, recv |-> clock, kind |-> kind]

LinesAt(key) == IF key \in DOMAIN files THEN files[key] ELSE << >>

\* Mutant: a file that is not open yet is opened with "w".
LinesOverwritten(key) == IF key \in DOMAIN handles THEN files[key] ELSE << >>

\* _handle_for opens for appending what is not open yet.
LinesFor(key) == LinesAt(key)

Buffered(key) == IF key \in DOMAIN handles THEN handles[key] ELSE << >>

With(f, key, val) == [k \in DOMAIN f \cup {key} |-> IF k = key THEN val ELSE f[k]]

Torn(lines, r) == Open(lines) /\ Last(Last(lines).pieces).rec = r

\* The file after more of a record: a torn line is continued.
Extended(lines, r, piece, ended) ==
    IF Torn(lines, r)
    THEN Front(lines) \o <<[pieces |-> Front(Last(lines).pieces) \o <<piece>>, ended |-> ended]>>
    ELSE Appended(lines, piece, ended)

\* The first record may go on where a torn line ended; each of the others is a
\* line of its own.
Flushed(lines, rs) ==
    IF rs = << >> THEN lines
    ELSE Extended(lines, rs[1], Whole(rs[1]), TRUE)
           \o [i \in 1 .. Len(rs) - 1 |-> [pieces |-> <<Whole(rs[i + 1])>>, ended |-> TRUE]]

\* What may be on disk after a flush of r that failed: a part of it, all of it
\* without the newline, or nothing new.
Attempts(lines, r) ==
    {lines, Extended(lines, r, Whole(r), FALSE)}
      \cup IF Torn(lines, r) THEN {} ELSE {Extended(lines, r, Part(r), FALSE)}

Write(asset, ts, kind) ==
    /\ alive /\ writes < MaxWrites
    /\ LET r == Record(asset, ts, kind)
       IN  /\ files' = With(files, KeyOf(r),
                            Flushed(LinesFor(KeyOf(r)), Append(Buffered(KeyOf(r)), r)))
           /\ handles' = With(handles, KeyOf(r), << >>)
           /\ acked' = acked \cup {<<KeyOf(r), r>>}
    /\ writes' = writes + 1
    /\ UNCHANGED <<alive, clock, tears>>

\* A flush of what is buffered and of the new record, which fails when done of
\* these records are out.
CutShort(asset, ts, kind, done) ==
    /\ alive /\ writes < MaxWrites /\ tears < MaxTears
    /\ LET r   == Record(asset, ts, kind)
           all == Append(Buffered(KeyOf(r)), r)
       IN  \E lines \in Attempts(Flushed(LinesFor(KeyOf(r)), SubSeq(all, 1, done)), all[done + 1]) :
             files' = With(files, KeyOf(r), lines)
    /\ writes' = writes + 1 /\ tears' = tears + 1
    /\ UNCHANGED <<clock, acked>>

\* write() raises OSError; the capture logs "writer rejected event" and goes on.
\* A record that is larger than the buffer is not kept.
WriteFails(asset, ts, kind) ==
    LET r   == Record(asset, ts, kind)
        old == Buffered(KeyOf(r))
    IN  \E done \in 0 .. Len(old) :
          /\ CutShort(asset, ts, kind, done)
          /\ LET rest == SubSeq(old, done + 1, Len(old))
             IN  \E kept \in {rest, Append(rest, r)} : handles' = With(handles, KeyOf(r), kept)
          /\ UNCHANGED alive

CrashInWrite(asset, ts, kind) ==
    /\ \E done \in 0 .. Len(Buffered(KeyOf(Record(asset, ts, kind)))) :
          CutShort(asset, ts, kind, done)
    /\ handles' = << >> /\ alive' = FALSE

\* The end of a capture, where close() flushes what is still buffered as far as
\* the disk lets it, or a crash between writes, which flushes nothing.
Ends ==
    /\ alive
    /\ \E flushed \in SUBSET {k \in DOMAIN handles : handles[k] # << >>} :
          files' = [k \in DOMAIN files |->
                      IF k \in flushed THEN Flushed(files[k], handles[k]) ELSE files[k]]
    /\ handles' = << >> /\ alive' = FALSE
    /\ UNCHANGED <<clock, writes, tears, acked>>

Restart ==
    /\ ~alive /\ alive' = TRUE
    /\ UNCHANGED <<files, handles, clock, writes, tears, acked>>

TimePasses ==
    /\ clock < MaxClock /\ clock' = clock + 1
    /\ UNCHANGED <<files, handles, alive, writes, tears, acked>>

Next ==
    \/ \E asset \in Assets, ts \in Stamps, kind \in Sent :
          Write(asset, ts, kind) \/ WriteFails(asset, ts, kind) \/ CrashInWrite(asset, ts, kind)
    \/ Ends \/ Restart \/ TimePasses

Spec == Init /\ [][Next]_vars

-----------------------------------------------------------------------------
\* The market events that write() accepted and the replay will not yield.
Lost == {a \in acked : /\ a[2].kind = "market"
                       /\ \A i \in Good(LinesAt(a[1])) :
                            RecordOf(LinesAt(a[1])[i]) # a[2]}

\* A write that was cut short, by a crash or by the disk, costs at most one
\* event that was accepted - the next of its file, which continues the torn
\* line - however often captures are resumed; and no loss goes unreported: a
\* file from which accepted events are missing shows as many parse errors
\* ("Bad lines surface in verify_no_gaps()").
LossBoundedAndReported ==
    /\ Cardinality(Lost) <= tears
    /\ \A k \in DOMAIN files :
          Cardinality({a \in Lost : a[1] = k}) <= ParseErrors(files[k])
=============================================================================
