----------------------------- MODULE TapeFormat -----------------------------
(***************************************************************************)
(* The JSONL tape between data/writer.py and data/replay.py.  A file is a  *)
(* sequence of lines.  A line is the pieces that appends left between two  *)
(* newlines: one whole record, unless a write was cut short.  Only the     *)
(* last line of a file may lack its newline.                               *)
(*                                                                         *)
(* A record is an event with its two clocks; of its content only kind      *)
(* matters here: a market event, an event of an unknown type, or one that  *)
(* fails validation.                                                       *)
(***************************************************************************)
EXTENDS Basics, Sequences, FiniteSets

Kinds == {"market", "unknown", "invalid"}

Whole(r) == [rec |-> r, cut |-> FALSE]      \* all of the JSON text
Part(r)  == [rec |-> r, cut |-> TRUE]       \* a proper prefix of it

Open(lines) == lines # << >> /\ ~lines[Len(lines)].ended

\* A file opened with "a" goes on exactly where it ended.
Appended(lines, piece, ended) ==
    IF Open(lines)
    THEN [lines EXCEPT ![Len(lines)] =
            [pieces |-> Append(@.pieces, piece), ended |-> ended]]
    ELSE Append(lines, [pieces |-> <<piece>>, ended |-> ended])

-----------------------------------------------------------------------------
\* Reading.

\* _decode_line: two records run together, or a part of one, are no JSON.
Decodes(line) == Len(line.pieces) = 1 /\ ~line.pieces[1].cut

RecordOf(line) == line.pieces[1].rec

\* parse_event accepts the registered event types that validate.
Parses(line) == Decodes(line) /\ RecordOf(line).kind = "market"

\* _iter_shard yields the good lines, in file order.
Good(lines) == {i \in DOMAIN lines : Parses(lines[i])}

GoodAfter(lines, i) == {j \in Good(lines) : j > i}

NextGood(lines, i) ==
    CHOOSE j \in GoodAfter(lines, i) : \A h \in GoodAfter(lines, i) : j <= h

\* verify_no_gaps, for one shard.
ParseErrors(lines) ==
    Cardinality({i \in DOMAIN lines :
                   ~Decodes(lines[i]) \/ RecordOf(lines[i]).kind = "invalid"})

Regressions(lines) ==
    Cardinality({i \in Good(lines) :
                   /\ GoodAfter(lines, i) # {}
                   /\ RecordOf(lines[NextGood(lines, i)]).ts < RecordOf(lines[i]).ts})
=============================================================================
