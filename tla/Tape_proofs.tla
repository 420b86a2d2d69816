---------------------------- MODULE Tape_proofs ----------------------------
(***************************************************************************)
(* The tape for every set of tokens and stamps, every length of day and    *)
(* any number of captures, torn writes, shards and events.                 *)
(*                                                                         *)
(* The captures.  Appending never touches a line that has its newline, so  *)
(* what write() acknowledged still ends a line of its file.  Such a record *)
(* is lost only if the line has another piece before it: the line is       *)
(* scarred.  Each write that is cut short scars one line at most, and a    *)
(* scarred line hides one acknowledged record at most.                     *)
(*                                                                         *)
(* The replay.  A good line is either out already or not before the line   *)
(* that its shard has in the heap; the ties keep the entries of the heap   *)
(* apart, so that the heap has a first; and on shards without regressions  *)
(* nothing in the heap is older than what came out last.                   *)
(***************************************************************************)
EXTENDS Tape, FiniteSetTheorems, SequenceTheorems, WellFoundedInduction, TLAPS

-----------------------------------------------------------------------------
\* Lines and how appends change them.

Records == [id : Nat, asset : Assets, ts : Nat, recv : Nat, kind : Kinds]
Pieces  == [rec : Records, cut : BOOLEAN]
Lines   == [pieces : Seq(Pieces) \ {<< >>}, ended : BOOLEAN]

Scarred(line) == Len(line.pieces) # 1 \/ ~line.ended \/ line.pieces[1].cut

EndsWith(line, r) == line.ended /\ line.pieces[Len(line.pieces)] = Whole(r)

\* An append leaves every line that has its newline as it is.
Grown(old, new) ==
    /\ new \in Seq(Lines) /\ Len(old) <= Len(new)
    /\ \A i \in 1 .. Len(old) : old[i].ended => new[i] = old[i]

\* No line is scarred but those that were, and line n.
ScarredBut(old, new, n) ==
    \A i \in 1 .. Len(new) :
        Scarred(new[i]) => i = n \/ (i \in 1 .. Len(old) /\ Scarred(old[i]))

\* One more piece is at the end of the last line if that had no newline, and
\* on a new line otherwise.
OneMore(old, new, piece, ended) ==
    /\ Grown(old, new) /\ new # << >>
    /\ \A i \in 1 .. Len(new) - 1 : i \in 1 .. Len(old) /\ new[i] = old[i]
    /\ new[Len(new)].ended = ended
    /\ new[Len(new)].pieces[Len(new[Len(new)].pieces)] = piece
    /\ IF Open(old) THEN Len(new) = Len(old)
       ELSE Len(new) = Len(old) + 1 /\ new[Len(new)].pieces = <<piece>>

LEMMA ExtendedIs ==
    ASSUME NEW lines \in Seq(Lines), NEW r, NEW piece \in Pieces, NEW ended \in BOOLEAN,
           NEW new, new = Extended(lines, r, piece, ended)
    PROVE  OneMore(lines, new, piece, ended)
<1> DEFINE n   == Len(lines)
           old == lines[n]
<1>0. n \in Nat /\ (Open(lines) => n \in 1 .. n /\ old \in Lines /\ ~old.ended)
  <2>1. lines # << >> => n >= 1
    BY EmptySeq
  <2> QED
    BY <2>1 DEF Open
<1>1. CASE Open(lines)
  <2>1. \E ps \in Seq(Pieces) \ {<< >>} :
          /\ ps[Len(ps)] = piece
          /\ new = [lines EXCEPT ![n] = [pieces |-> ps, ended |-> ended]]
    <3>1. CASE Torn(lines, r)
      <4> DEFINE ps == Front(old.pieces) \o <<piece>>
                 m  == Len(old.pieces)
                 x  == [pieces |-> ps, ended |-> ended]
      <4>1. old.pieces \in Seq(Pieces) /\ m \in Nat /\ m >= 1
        <5>1. old.pieces \in Seq(Pieces) /\ old.pieces # << >>
          BY <1>0, <1>1 DEF Lines
        <5> QED
          BY <5>1, EmptySeq
      <4>2. /\ Front(old.pieces) \in Seq(Pieces)
            /\ Len(Front(old.pieces)) = m - 1
        <5>1. \A i \in 1 .. (m - 1) : old.pieces[i] \in Pieces
          BY <4>1
        <5> QED
          BY <4>1, <5>1, SubSeqProperties DEF Front
      <4>3. ps \in Seq(Pieces) /\ Len(ps) = m /\ ps[m] = piece
        <5>1. <<piece>> \in Seq(Pieces) /\ Len(<<piece>>) = 1 /\ <<piece>>[1] = piece
          OBVIOUS
        <5>2. /\ ps \in Seq(Pieces) /\ Len(ps) = (m - 1) + 1
              /\ \A i \in 1 .. (m - 1) + 1 :
                   ps[i] = IF i <= m - 1 THEN Front(old.pieces)[i] ELSE <<piece>>[i - (m - 1)]
          <6> HIDE DEF m
          <6> QED
            BY <4>2, <5>1, ConcatProperties
        <5>3. (m - 1) + 1 = m /\ m \in 1 .. m /\ ~(m <= m - 1) /\ m - (m - 1) = 1
          BY <4>1
        <5> HIDE DEF ps, m
        <5> QED
          BY <5>1, <5>2, <5>3
      <4>4. ps # << >>
        BY <4>1, <4>3, EmptySeq
      <4>5. x \in Lines
        BY <4>3, <4>4 DEF Lines
      <4>6. new = Front(lines) \o <<x>>
        BY <3>1 DEF Extended, Last
      <4>7. Front(lines) \in Seq(Lines) /\ Len(Front(lines)) = n - 1
              /\ \A i \in 1 .. n - 1 : Front(lines)[i] = lines[i]
        <5>1. \A i \in 1 .. (n - 1) : lines[i] \in Lines
          BY <1>0
        <5>2. 1 \in Int /\ n - 1 \in Int /\ n >= 1
          BY <1>0, <1>1
        <5>3. /\ Front(lines) \in Seq(Lines)
              /\ Len(Front(lines)) = IF 1 <= n - 1 THEN (n - 1) - 1 + 1 ELSE 0
              /\ \A i \in 1 .. (n - 1) - 1 + 1 : Front(lines)[i] = lines[1 + i - 1]
          BY <5>1, <5>2, SubSeqProperties DEF Front
        <5>4. \A i \in 1 .. n - 1 : i \in 1 .. (n - 1) - 1 + 1 /\ 1 + i - 1 = i
          BY <5>2
        <5>0. n \in Nat
          BY <1>0
        <5> HIDE DEF n
        <5>5. CASE 1 <= n - 1
          BY <5>0, <5>2, <5>3, <5>4, <5>5
        <5>6. CASE ~(1 <= n - 1)
          BY <5>0, <5>2, <5>3, <5>4, <5>6
        <5> QED
          BY <5>5, <5>6
      <4>8. new = [lines EXCEPT ![n] = x]
        <5>1. <<x>> \in Seq(Lines) /\ Len(<<x>>) = 1 /\ <<x>>[1] = x
          BY <4>5
        <5>2. /\ new \in Seq(Lines) /\ Len(new) = n
              /\ \A i \in 1 .. n : new[i] = IF i <= n - 1 THEN lines[i] ELSE x
          <6> HIDE DEF x
          <6>1. /\ new \in Seq(Lines) /\ Len(new) = (n - 1) + 1
                /\ \A i \in 1 .. (n - 1) + 1 :
                     new[i] = IF i <= n - 1 THEN Front(lines)[i] ELSE <<x>>[i - (n - 1)]
            BY <4>6, <4>7, <5>1, ConcatProperties
          <6>2. \A i \in 1 .. n : i <= n - 1 \/ i = n
            BY <1>0
          <6> QED
            BY <1>0, <4>7, <5>1, <6>1, <6>2
        <5>3. /\ [lines EXCEPT ![n] = x] \in Seq(Lines)
              /\ Len([lines EXCEPT ![n] = x]) = n
              /\ \A i \in 1 .. n : [lines EXCEPT ![n] = x][i] = IF i = n THEN x ELSE lines[i]
          <6> HIDE DEF x
          <6> QED
            BY <1>0, <1>1, <4>5, ExceptSeq
        <5> HIDE DEF x
        <5>4. \A i \in 1 .. n : new[i] = [lines EXCEPT ![n] = x][i]
          BY <1>0, <5>2, <5>3
        <5> QED
          BY <5>2, <5>3, <5>4, SeqEqual
      <4> QED
        BY <4>3, <4>4, <4>8
    <3>2. CASE ~Torn(lines, r)
      <4> DEFINE ps == Append(old.pieces, piece)
      <4>1. old.pieces \in Seq(Pieces)
        BY <1>0, <1>1 DEF Lines
      <4>2. ps \in Seq(Pieces) /\ Len(ps) = Len(old.pieces) + 1 /\ ps[Len(ps)] = piece
        BY <4>1
      <4>3. ps # << >>
        BY <4>1, <4>2, EmptySeq
      <4>4. new = [lines EXCEPT ![n] = [pieces |-> ps, ended |-> ended]]
        BY <1>1, <3>2 DEF Extended, Appended
      <4> QED
        BY <4>2, <4>3, <4>4
    <3> QED
      BY <3>1, <3>2
  <2>2. PICK ps \in Seq(Pieces) \ {<< >>} :
          /\ ps[Len(ps)] = piece
          /\ new = [lines EXCEPT ![n] = [pieces |-> ps, ended |-> ended]]
    BY <2>1
  <2> DEFINE x == [pieces |-> ps, ended |-> ended]
  <2>3. x \in Lines /\ x.ended = ended /\ x.pieces = ps
    BY DEF Lines
  <2> HIDE DEF x
  <2>4. /\ new \in Seq(Lines) /\ Len(new) = n
        /\ \A i \in 1 .. n : new[i] = IF i = n THEN x ELSE lines[i]
    BY <1>0, <1>1, <2>2, <2>3, ExceptSeq DEF x
  <2>5. new # << >>
    BY <1>0, <1>1, <2>4, EmptySeq
  <2>6. Grown(lines, new)
    BY <1>0, <1>1, <2>4 DEF Grown
  <2>7. new[Len(new)] = x
    BY <1>0, <1>1, <2>4
  <2>8. \A i \in 1 .. Len(new) - 1 : i \in 1 .. Len(lines) /\ new[i] = lines[i]
    BY <1>0, <2>4
  <2> QED
    BY <1>1, <2>2, <2>3, <2>4, <2>5, <2>6, <2>7, <2>8 DEF OneMore
<1>2. CASE ~Open(lines)
  <2> DEFINE x == [pieces |-> <<piece>>, ended |-> ended]
  <2>1. new = Append(lines, x)
    BY <1>2 DEF Extended, Appended, Torn
  <2>2. x \in Lines /\ x.ended = ended /\ x.pieces = <<piece>>
    <3>1. <<piece>> \in Seq(Pieces) /\ <<piece>> # << >>
      OBVIOUS
    <3> QED
      BY <3>1 DEF Lines
  <2> HIDE DEF x
  <2>3. /\ new \in Seq(Lines) /\ Len(new) = n + 1
        /\ \A i \in 1 .. n + 1 : new[i] = IF i <= n THEN lines[i] ELSE x
    BY <1>0, <2>1, <2>2
  <2>4. new[Len(new)] = x /\ \A i \in 1 .. n : new[i] = lines[i]
    BY <1>0, <2>3
  <2>5. new # << >> /\ Grown(lines, new)
    BY <1>0, <2>3, <2>4, EmptySeq DEF Grown
  <2>6. <<piece>>[Len(<<piece>>)] = piece
    OBVIOUS
  <2>7. \A i \in 1 .. Len(new) - 1 : i \in 1 .. Len(lines) /\ new[i] = lines[i]
    BY <1>0, <2>3, <2>4
  <2> QED
    BY <1>2, <2>2, <2>3, <2>4, <2>5, <2>6, <2>7 DEF OneMore
<1> QED
  BY <1>1, <1>2

\* A flush scars no line, and what it wrote last ends a line.
LEMMA FlushedIs ==
    ASSUME NEW lines \in Seq(Lines), NEW rs \in Seq(Records),
           NEW new, new = Flushed(lines, rs)
    PROVE  /\ Grown(lines, new) /\ ScarredBut(lines, new, 0)
           /\ rs # << >> => new # << >> /\ EndsWith(new[Len(new)], rs[Len(rs)])
<1> DEFINE n == Len(lines)
<1>0. n \in Nat
  OBVIOUS
<1>1. CASE rs = << >>
  <2>1. new = lines
    BY <1>1 DEF Flushed
  <2>2. Grown(lines, new) /\ ScarredBut(lines, new, 0)
    BY <1>0, <2>1 DEF Grown, ScarredBut
  <2> QED
    BY <1>1, <2>2
<1>2. CASE rs # << >>
  <2> DEFINE m    == Len(rs)
             ext  == Extended(lines, rs[1], Whole(rs[1]), TRUE)
             line == [i \in 1 .. m - 1 |-> [pieces |-> <<Whole(rs[i + 1])>>, ended |-> TRUE]]
             e    == Len(ext)
  <2>1. m \in Nat /\ m >= 1 /\ \A i \in 1 .. m : rs[i] \in Records
    BY <1>2, EmptySeq
  <2>2. ASSUME NEW i \in 1 .. m PROVE Whole(rs[i]) \in Pieces
    BY <2>1 DEF Whole, Pieces
  <2>3. OneMore(lines, ext, Whole(rs[1]), TRUE)
    <3>1. 1 \in 1 .. m /\ TRUE \in BOOLEAN
      BY <2>1
    <3>2. Whole(rs[1]) \in Pieces
      BY <2>2, <3>1
    <3>3. ext = Extended(lines, rs[1], Whole(rs[1]), TRUE)
      OBVIOUS
    <3> HIDE DEF m, ext
    <3> QED
      BY <3>1, <3>2, <3>3, ExtendedIs, Zenon
  <2>4. ASSUME NEW i \in 1 .. m - 1
        PROVE  /\ line[i] \in Lines /\ ~Scarred(line[i])
               /\ EndsWith(line[i], rs[i + 1])
    <3>1. i + 1 \in 1 .. m
      BY <2>1
    <3>2. Whole(rs[i + 1]) \in Pieces /\ ~Whole(rs[i + 1]).cut
      BY <2>2, <3>1 DEF Whole
    <3>3. /\ <<Whole(rs[i + 1])>> \in Seq(Pieces) /\ <<Whole(rs[i + 1])>> # << >>
          /\ Len(<<Whole(rs[i + 1])>>) = 1
          /\ <<Whole(rs[i + 1])>>[1] = Whole(rs[i + 1])
      BY <3>2
    <3>4. /\ line[i] = [pieces |-> <<Whole(rs[i + 1])>>, ended |-> TRUE]
          /\ line[i].pieces = <<Whole(rs[i + 1])>> /\ line[i].ended
      OBVIOUS
    <3>5. line[i] \in Lines
      BY <3>3, <3>4 DEF Lines
    <3> QED
      BY <3>2, <3>3, <3>4, <3>5 DEF Scarred, EndsWith
  <2>5. line \in Seq(Lines) /\ Len(line) = m - 1
    <3>1. line \in [1 .. m - 1 -> Lines] /\ m - 1 \in Nat
      BY <2>1, <2>4
    <3> HIDE DEF line
    <3> QED
      BY <3>1
  <2>6. new = ext \o line
    BY <1>2 DEF Flushed
  <2>7. ext \in Seq(Lines) /\ e \in Nat /\ e >= 1
    <3>1. ext \in Seq(Lines) /\ ext # << >>
      BY <2>3 DEF OneMore, Grown
    <3> HIDE DEF ext
    <3> QED
      BY <3>1, EmptySeq
  <2> HIDE DEF ext, line, m
  <2> DEFINE d == Len(line)
  <2>80. /\ new \in Seq(Lines) /\ Len(new) = e + d
         /\ \A i \in 1 .. e + d : new[i] = IF i <= e THEN ext[i] ELSE line[i - e]
    <3>1. ext \in Seq(Lines) /\ line \in Seq(Lines)
      BY <2>5, <2>7
    <3>2. /\ ext \o line \in Seq(Lines) /\ Len(ext \o line) = Len(ext) + Len(line)
          /\ \A i \in 1 .. Len(ext) + Len(line) :
               (ext \o line)[i] = IF i <= Len(ext) THEN ext[i] ELSE line[i - Len(ext)]
      BY <3>1, ConcatProperties
    <3> QED
      BY <2>6, <3>2, Zenon
  <2>81. d \in Nat /\ d = m - 1
    BY <2>1, <2>5
  <2> HIDE DEF d, e
  <2>8. /\ new \in Seq(Lines) /\ Len(new) = e + d /\ d \in Nat /\ d = m - 1
        /\ \A i \in 1 .. e : new[i] = ext[i]
        /\ \A i \in 1 .. d : new[e + i] = line[i]
    <3>1. \A i \in 1 .. e : i \in 1 .. e + d /\ i <= e
      BY <2>7, <2>81
    <3>2. \A i \in 1 .. d : e + i \in 1 .. e + d /\ ~(e + i <= e) /\ (e + i) - e = i
      BY <2>7, <2>81
    <3> QED
      BY <2>80, <2>81, <3>1, <3>2
  <2>9. Grown(lines, new)
    <3>1. n <= e /\ \A i \in 1 .. n : lines[i].ended => ext[i] = lines[i]
      BY <2>3 DEF Grown, OneMore, e
    <3> QED
      BY <1>0, <2>1, <2>7, <2>8, <3>1 DEF Grown
  <2>10. ASSUME NEW i \in 1 .. Len(new), Scarred(new[i])
         PROVE  i \in 1 .. n /\ Scarred(lines[i])
    <3>1. CASE i > e
      <4>1. i - e \in 1 .. m - 1 /\ i = e + (i - e)
        BY <2>1, <2>7, <2>8, <3>1
      <4>2. new[i] = line[i - e]
        BY <2>8, <4>1
      <4> QED
        BY <2>4, <2>10, <4>1, <4>2
    <3>2. CASE i = e /\ Open(lines)
      <4>1. i = n /\ ~lines[n].ended /\ n \in 1 .. n
        BY <1>0, <2>3, <2>7, <3>2 DEF Open, OneMore, e
      <4> QED
        BY <4>1 DEF Scarred
    <3>3. CASE i = e /\ ~Open(lines)
      <4>1. new[i] = ext[e] /\ ext[e].pieces = <<Whole(rs[1])>> /\ ext[e].ended
        BY <2>1, <2>3, <2>7, <2>8, <3>3 DEF OneMore, e
      <4>2. Len(<<Whole(rs[1])>>) = 1 /\ ~<<Whole(rs[1])>>[1].cut
        BY DEF Whole
      <4> QED
        BY <2>10, <4>1, <4>2 DEF Scarred
    <3>4. CASE i < e
      <4>1. i \in 1 .. e - 1 /\ i \in 1 .. e
        BY <2>7, <2>8, <3>4
      <4>2. new[i] = ext[i]
        BY <2>8, <4>1
      <4> QED
        BY <2>3, <2>10, <4>1, <4>2 DEF OneMore, e
    <3> QED
      BY <2>7, <2>8, <2>1, <3>1, <3>2, <3>3, <3>4
  <2>11. new # << >> /\ EndsWith(new[Len(new)], rs[m])
    <3>1. new # << >>
      BY <2>1, <2>7, <2>8, EmptySeq
    <3>2. CASE m = 1
      <4>1. new[Len(new)] = ext[e] /\ rs[m] = rs[1]
        BY <2>7, <2>8, <3>2
      <4> QED
        BY <2>3, <3>1, <4>1 DEF EndsWith, OneMore, e
    <3>3. CASE m # 1
      <4>1. d \in 1 .. d /\ d = m - 1 /\ d \in 1 .. m - 1 /\ d + 1 = m
        BY <2>1, <2>8, <3>3
      <4>2. new[Len(new)] = line[d]
        BY <2>8, <4>1
      <4> QED
        BY <2>4, <3>1, <4>1, <4>2
    <3> QED
      BY <3>2, <3>3
  <2> QED
    BY <1>2, <2>9, <2>10, <2>11 DEF ScarredBut, m
<1> QED
  BY <1>1, <1>2

\* What a flush that fails leaves on disk scars at most the last line.
LEMMA AttemptIs ==
    ASSUME NEW lines \in Seq(Lines), NEW r \in Records, NEW new \in Attempts(lines, r)
    PROVE  Grown(lines, new) /\ ScarredBut(lines, new, Len(new))
<1>1. CASE new = lines
  BY <1>1 DEF Grown, ScarredBut
<1>2. ASSUME NEW piece \in Pieces, new = Extended(lines, r, piece, FALSE)
      PROVE  Grown(lines, new) /\ ScarredBut(lines, new, Len(new))
  <2>1. /\ Grown(lines, new)
        /\ \A i \in 1 .. Len(new) - 1 : i \in 1 .. Len(lines) /\ new[i] = lines[i]
    <3>1. OneMore(lines, new, piece, FALSE)
      BY <1>2, ExtendedIs, Zenon
    <3> QED
      BY <3>1 DEF OneMore
  <2>2. Len(new) \in Nat
    BY <2>1 DEF Grown
  <2> QED
    BY <2>1, <2>2 DEF ScarredBut
<1>3. Whole(r) \in Pieces /\ Part(r) \in Pieces
  BY DEF Whole, Part, Pieces
<1> QED
  BY <1>1, <1>2, <1>3 DEF Attempts

LEMMA GrownTwice ==
    ASSUME NEW a \in Seq(Lines), NEW b, NEW c, NEW n,
           Grown(a, b), ScarredBut(a, b, 0), Grown(b, c), ScarredBut(b, c, n)
    PROVE  Grown(a, c) /\ ScarredBut(a, c, n)
<1>1. Len(a) \in Nat /\ Len(b) \in Nat /\ Len(c) \in Nat
  BY DEF Grown
<1>2. Grown(a, c)
  BY <1>1 DEF Grown
<1>3. ASSUME NEW i \in 1 .. Len(b), Scarred(b[i]) PROVE i \in 1 .. Len(a) /\ Scarred(a[i])
  BY <1>1, <1>3 DEF ScarredBut
<1>4. ScarredBut(a, c, n)
  BY <1>3 DEF ScarredBut
<1> QED
  BY <1>2, <1>4

-----------------------------------------------------------------------------
\* The files.

FilesTyped(fs) ==
    /\ IsFiniteSet(DOMAIN fs) /\ DOMAIN fs \subseteq Nat \X Assets
    /\ \A k \in DOMAIN fs : fs[k] \in Seq(Lines)

\* Record r ends a line of file k.
KeptIn(fs, k, r) ==
    k \in DOMAIN fs /\ \E i \in 1 .. Len(fs[k]) : EndsWith(fs[k][i], r)

Scars(fs) ==
    {x \in (DOMAIN fs) \X Nat : x[2] \in 1 .. Len(fs[x[1]]) /\ Scarred(fs[x[1]][x[2]])}

\* What ends a line goes on doing so while files only grow.
LEMMA KeptWhileGrowing ==
    ASSUME NEW fs, NEW gs, FilesTyped(fs),
           \A k \in DOMAIN fs : k \in DOMAIN gs /\ Grown(fs[k], gs[k])
    PROVE  \A k, r : KeptIn(fs, k, r) => KeptIn(gs, k, r)
<1> SUFFICES ASSUME NEW k, NEW r, KeptIn(fs, k, r) PROVE KeptIn(gs, k, r)
  OBVIOUS
<1>1. PICK i \in 1 .. Len(fs[k]) : k \in DOMAIN fs /\ EndsWith(fs[k][i], r)
  BY DEF KeptIn
<1>2. k \in DOMAIN gs /\ Grown(fs[k], gs[k]) /\ Len(fs[k]) \in Nat
  BY <1>1 DEF FilesTyped
<1>3. i \in 1 .. Len(gs[k]) /\ gs[k][i] = fs[k][i]
  BY <1>1, <1>2 DEF Grown, EndsWith
<1> QED
  BY <1>1, <1>2, <1>3 DEF KeptIn

\* One file grows, or comes to exist; the others stay.
LEMMA OneFileGrows ==
    ASSUME FilesTyped(files), NEW key \in Nat \X Assets, NEW lines, NEW n,
           Grown(LinesAt(key), lines), ScarredBut(LinesAt(key), lines, n),
           NEW gs, gs = With(files, key, lines)
    PROVE  /\ FilesTyped(gs)
           /\ \A k \in DOMAIN files : k \in DOMAIN gs /\ Grown(files[k], gs[k])
           /\ key \in DOMAIN gs /\ gs[key] = lines
           /\ Scars(gs) \subseteq Scars(files) \cup {<<key, n>>}
           /\ n = 0 => Scars(gs) \subseteq Scars(files)
<1>1. /\ DOMAIN gs = DOMAIN files \cup {key} /\ gs[key] = lines
      /\ \A k \in DOMAIN files : k # key => gs[k] = files[k]
  BY DEF With
<1>2. lines \in Seq(Lines)
  BY DEF Grown
<1>3. FilesTyped(gs)
  <2>1. IsFiniteSet(DOMAIN gs)
    BY <1>1, FS_AddElement DEF FilesTyped
  <2>2. DOMAIN gs \subseteq Nat \X Assets
    BY <1>1 DEF FilesTyped
  <2>3. \A k \in DOMAIN gs : gs[k] \in Seq(Lines)
    BY <1>1, <1>2 DEF FilesTyped
  <2> QED
    BY <2>1, <2>2, <2>3 DEF FilesTyped
<1>4. ASSUME NEW k \in DOMAIN files PROVE k \in DOMAIN gs /\ Grown(files[k], gs[k])
  <2>1. CASE k = key
    BY <1>1, <2>1 DEF LinesAt
  <2>2. CASE k # key
    <3>1. gs[k] = files[k] /\ files[k] \in Seq(Lines)
      BY <1>1, <2>2 DEF FilesTyped
    <3> QED
      BY <1>1, <3>1 DEF Grown
  <2> QED
    BY <2>1, <2>2
<1>5. ASSUME NEW x \in Scars(gs)
      PROVE  x \in Scars(files) \/ (x = <<key, n>> /\ n # 0)
  <2>1. /\ x[1] \in DOMAIN gs /\ x[2] \in Nat /\ x = <<x[1], x[2]>>
        /\ x[2] \in 1 .. Len(gs[x[1]]) /\ Scarred(gs[x[1]][x[2]])
    BY DEF Scars
  <2>2. CASE x[1] # key
    BY <1>1, <2>1, <2>2 DEF Scars
  <2>3. CASE x[1] = key
    <3>1. x[2] = n \/ (x[2] \in 1 .. Len(LinesAt(key)) /\ Scarred(LinesAt(key)[x[2]]))
      BY <1>1, <2>1, <2>3 DEF ScarredBut
    <3>2. CASE x[2] = n
      BY <2>1, <2>3, <3>2
    <3>3. CASE x[2] \in 1 .. Len(LinesAt(key)) /\ Scarred(LinesAt(key)[x[2]])
      <4>1. key \in DOMAIN files
        BY <3>3 DEF LinesAt
      <4>2. LinesAt(key) = files[key]
        BY <4>1 DEF LinesAt
      <4> QED
        BY <2>1, <2>3, <3>3, <4>1, <4>2 DEF Scars
    <3> QED
      BY <3>1, <3>2, <3>3
  <2> QED
    BY <2>2, <2>3
<1> QED
  BY <1>1, <1>3, <1>4, <1>5

LEMMA OneScarMore ==
    ASSUME NEW S, NEW T, NEW x, NEW t \in Nat, IsFiniteSet(S), Cardinality(S) <= t,
           T \subseteq S \cup {x}
    PROVE  /\ IsFiniteSet(T) /\ Cardinality(T) <= t + 1
           /\ T \subseteq S => Cardinality(T) <= t
<1>1. /\ IsFiniteSet(S \cup {x}) /\ Cardinality(S) \in Nat
      /\ Cardinality(S \cup {x}) <= Cardinality(S) + 1 /\ Cardinality(S \cup {x}) \in Nat
  <2>1. Cardinality(S) \in Nat
    BY FS_CardinalityType
  <2> QED
    BY <2>1, FS_AddElement
<1>2. IsFiniteSet(T) /\ Cardinality(T) <= Cardinality(S \cup {x}) /\ Cardinality(T) \in Nat
  BY <1>1, FS_Subset, FS_CardinalityType
<1>3. T \subseteq S => Cardinality(T) <= Cardinality(S)
  BY FS_Subset
<1> QED
  BY <1>1, <1>2, <1>3

-----------------------------------------------------------------------------
\* The captures.

CaptureInv ==
    /\ FilesTyped(files)
    /\ \A k \in DOMAIN handles : handles[k] \in Seq(Records)
    /\ clock \in Nat /\ writes \in Nat /\ tears \in Nat
    /\ \A a \in acked : a = <<a[1], a[2]>> /\ a[2] \in Records /\ KeptIn(files, a[1], a[2])
    /\ IsFiniteSet(Scars(files)) /\ Cardinality(Scars(files)) <= tears

\* What a write starts from: the record, the file it goes to and what is
\* buffered for that file.
LEMMA WriteStart ==
    ASSUME CaptureInv, NEW asset \in Assets, NEW ts \in Stamps, NEW kind \in Sent,
           NEW r, r = Record(asset, ts, kind)
    PROVE  /\ r \in Records /\ KeyOf(r) \in Nat \X Assets
           /\ LinesAt(KeyOf(r)) \in Seq(Lines)
           /\ Buffered(KeyOf(r)) \in Seq(Records)
<1>1. r \in Records
  BY CaptureAssumption DEF Record, Records, CaptureInv
<1>2. KeyOf(r) \in Nat \X Assets
  <2>1. r.recv \in Nat /\ r.asset \in Assets
    BY <1>1 DEF Records
  <2>2. r.recv \div DayLength \in Nat
    BY <2>1, CaptureAssumption
  <2> QED
    BY <2>1, <2>2 DEF KeyOf, Day
<1>3. LinesAt(KeyOf(r)) \in Seq(Lines)
  BY DEF LinesAt, CaptureInv, FilesTyped
<1>4. Buffered(KeyOf(r)) \in Seq(Records)
  BY DEF Buffered, CaptureInv
<1> QED
  BY <1>1, <1>2, <1>3, <1>4

LEMMA HandlesStayTyped ==
    ASSUME CaptureInv, NEW key, NEW rs \in Seq(Records), NEW hs, hs = With(handles, key, rs)
    PROVE  \A k \in DOMAIN hs : hs[k] \in Seq(Records)
BY DEF With, CaptureInv

LEMMA WriteKeeps ==
    ASSUME CaptureInv, NEW asset \in Assets, NEW ts \in Stamps, NEW kind \in Sent,
           Write(asset, ts, kind)
    PROVE  CaptureInv'
<1> DEFINE r   == Record(asset, ts, kind)
           key == KeyOf(r)
           rs  == Append(Buffered(key), r)
           new == Flushed(LinesAt(key), rs)
<1>1. /\ r \in Records /\ key \in Nat \X Assets
      /\ LinesAt(key) \in Seq(Lines) /\ Buffered(key) \in Seq(Records)
  BY WriteStart
<1>2. /\ files' = With(files, key, new) /\ handles' = With(handles, key, << >>)
      /\ acked' = acked \cup {<<key, r>>} /\ writes' = writes + 1
      /\ UNCHANGED <<alive, clock, tears>>
  BY DEF Write, LinesFor
<1> HIDE DEF r, key
<1>3. rs \in Seq(Records) /\ rs # << >> /\ rs[Len(rs)] = r
  <2>1. rs \in Seq(Records) /\ Len(rs) = Len(Buffered(key)) + 1 /\ rs[Len(rs)] = r
    BY <1>1
  <2>2. Len(Buffered(key)) \in Nat
    BY <1>1
  <2>3. rs # << >>
    <3> HIDE DEF rs
    <3> QED
      BY <2>1, <2>2
  <2> QED
    BY <2>1, <2>3
<1>4. /\ Grown(LinesAt(key), new) /\ ScarredBut(LinesAt(key), new, 0)
      /\ new # << >> /\ EndsWith(new[Len(new)], r)
  <2> HIDE DEF rs
  <2> QED
    BY <1>1, <1>3, FlushedIs
<1> HIDE DEF new
<1>5. /\ FilesTyped(files') /\ key \in DOMAIN files' /\ files'[key] = new
      /\ \A k \in DOMAIN files : k \in DOMAIN files' /\ Grown(files[k], files'[k])
      /\ Scars(files') \subseteq Scars(files)
  BY <1>1, <1>2, <1>4, OneFileGrows DEF CaptureInv
<1>6. \A k \in DOMAIN handles' : handles'[k] \in Seq(Records)
  <2>1. << >> \in Seq(Records)
    BY EmptySeq
  <2> QED
    BY <1>2, <2>1, HandlesStayTyped
<1>7. ASSUME NEW a \in acked'
      PROVE  a = <<a[1], a[2]>> /\ a[2] \in Records /\ KeptIn(files', a[1], a[2])
  <2>1. CASE a \in acked
    <3>1. \A k, rec : KeptIn(files, k, rec) => KeptIn(files', k, rec)
      BY <1>5, KeptWhileGrowing DEF CaptureInv
    <3> QED
      BY <2>1, <3>1 DEF CaptureInv
  <2>2. CASE a = <<key, r>>
    <3>1. Len(new) \in 1 .. Len(new)
      <4>1. new \in Seq(Lines)
        BY <1>4 DEF Grown
      <4> QED
        BY <1>4, <4>1, EmptySeq
    <3> QED
      BY <1>1, <1>4, <1>5, <2>2, <3>1 DEF KeptIn
  <2> QED
    BY <1>2, <1>7, <2>1, <2>2
<1>8. IsFiniteSet(Scars(files')) /\ Cardinality(Scars(files')) <= tears'
  BY <1>2, <1>5, OneScarMore DEF CaptureInv
<1>9. clock' \in Nat /\ writes' \in Nat /\ tears' \in Nat
  BY <1>2 DEF CaptureInv
<1> QED
  BY <1>5, <1>6, <1>7, <1>8, <1>9 DEF CaptureInv

LEMMA CutShortKeeps ==
    ASSUME CaptureInv, NEW asset \in Assets, NEW ts \in Stamps, NEW kind \in Sent,
           NEW done \in 0 .. Len(Buffered(KeyOf(Record(asset, ts, kind)))),
           CutShort(asset, ts, kind, done),
           \A k \in DOMAIN handles' : handles'[k] \in Seq(Records)
    PROVE  CaptureInv'
<1> DEFINE r   == Record(asset, ts, kind)
           key == KeyOf(r)
           all == Append(Buffered(key), r)
           mid == Flushed(LinesAt(key), SubSeq(all, 1, done))
<1>1. /\ r \in Records /\ key \in Nat \X Assets
      /\ LinesAt(key) \in Seq(Lines) /\ Buffered(key) \in Seq(Records)
  BY WriteStart
<1>2. PICK lines \in Attempts(mid, all[done + 1]) : files' = With(files, key, lines)
  BY DEF CutShort, LinesFor
<1>3. writes' = writes + 1 /\ tears' = tears + 1 /\ UNCHANGED <<clock, acked>>
  BY DEF CutShort
<1>4. done \in 0 .. Len(Buffered(key))
  OBVIOUS
<1> HIDE DEF r, key
<1>5. all \in Seq(Records) /\ Len(all) = Len(Buffered(key)) + 1
  BY <1>1
<1> HIDE DEF all
<1>6. SubSeq(all, 1, done) \in Seq(Records) /\ all[done + 1] \in Records
  <2>1. done \in Nat /\ \A i \in 1 .. done + 1 : all[i] \in Records
    BY <1>1, <1>4, <1>5
  <2> QED
    BY <2>1, SubSeqProperties
<1>7. Grown(LinesAt(key), mid) /\ ScarredBut(LinesAt(key), mid, 0)
  BY <1>1, <1>6, FlushedIs
<1> HIDE DEF mid
<1>8. Grown(mid, lines) /\ ScarredBut(mid, lines, Len(lines))
  <2>1. mid \in Seq(Lines)
    BY <1>7 DEF Grown
  <2> QED
    BY <1>2, <1>6, <2>1, AttemptIs
<1>9. Grown(LinesAt(key), lines) /\ ScarredBut(LinesAt(key), lines, Len(lines))
  BY <1>1, <1>7, <1>8, GrownTwice
<1>10. /\ FilesTyped(files')
       /\ \A k \in DOMAIN files : k \in DOMAIN files' /\ Grown(files[k], files'[k])
       /\ Scars(files') \subseteq Scars(files) \cup {<<key, Len(lines)>>}
  BY <1>1, <1>2, <1>9, OneFileGrows DEF CaptureInv
<1>11. \A k, rec : KeptIn(files, k, rec) => KeptIn(files', k, rec)
  BY <1>10, KeptWhileGrowing DEF CaptureInv
<1>12. IsFiniteSet(Scars(files')) /\ Cardinality(Scars(files')) <= tears'
  BY <1>3, <1>10, OneScarMore DEF CaptureInv
<1>13. clock' \in Nat /\ writes' \in Nat /\ tears' \in Nat
  BY <1>3 DEF CaptureInv
<1>14. \A a \in acked' : a = <<a[1], a[2]>> /\ a[2] \in Records /\ KeptIn(files', a[1], a[2])
  BY <1>3, <1>11 DEF CaptureInv
<1> QED
  BY <1>10, <1>12, <1>13, <1>14 DEF CaptureInv

LEMMA FailureKeeps ==
    ASSUME CaptureInv, NEW asset \in Assets, NEW ts \in Stamps, NEW kind \in Sent,
           WriteFails(asset, ts, kind)
    PROVE  CaptureInv'
<1> DEFINE r   == Record(asset, ts, kind)
           old == Buffered(KeyOf(r))
<1>1. PICK done \in 0 .. Len(old) :
        /\ CutShort(asset, ts, kind, done)
        /\ \E kept \in {SubSeq(old, done + 1, Len(old)),
                        Append(SubSeq(old, done + 1, Len(old)), r)} :
             handles' = With(handles, KeyOf(r), kept)
  BY DEF WriteFails
<1>2. r \in Records /\ old \in Seq(Records)
  BY WriteStart
<1>3. ASSUME NEW kept \in {SubSeq(old, done + 1, Len(old)),
                           Append(SubSeq(old, done + 1, Len(old)), r)}
      PROVE  kept \in Seq(Records)
  <2> HIDE DEF r, old
  <2>1. done \in Nat /\ Len(old) \in Nat /\ \A i \in done + 1 .. Len(old) : old[i] \in Records
    BY <1>2
  <2>2. SubSeq(old, done + 1, Len(old)) \in Seq(Records)
    BY <2>1, SubSeqProperties
  <2> DEFINE rest == SubSeq(old, done + 1, Len(old))
  <2> HIDE DEF rest
  <2>3. rest \in Seq(Records)
    BY <2>2 DEF rest
  <2>4. Append(rest, r) \in Seq(Records)
    BY <1>2, <2>3
  <2>5. kept = rest \/ kept = Append(rest, r)
    BY DEF rest
  <2> QED
    BY <2>3, <2>4, <2>5
<1>4. \A k \in DOMAIN handles' : handles'[k] \in Seq(Records)
  BY <1>1, <1>3, HandlesStayTyped
<1> QED
  BY <1>1, <1>4, CutShortKeeps

LEMMA CrashKeeps ==
    ASSUME CaptureInv, NEW asset \in Assets, NEW ts \in Stamps, NEW kind \in Sent,
           CrashInWrite(asset, ts, kind)
    PROVE  CaptureInv'
<1>1. \A k \in DOMAIN handles' : handles'[k] \in Seq(Records)
  BY DEF CrashInWrite
<1>2. PICK done \in 0 .. Len(Buffered(KeyOf(Record(asset, ts, kind)))) :
        CutShort(asset, ts, kind, done)
  BY DEF CrashInWrite
<1> QED
  BY <1>1, <1>2, CutShortKeeps

LEMMA EndKeeps ==
    ASSUME CaptureInv, Ends
    PROVE  CaptureInv'
<1>1. PICK flushed \in SUBSET {k \in DOMAIN handles : handles[k] # << >>} :
        files' = [k \in DOMAIN files |->
                    IF k \in flushed THEN Flushed(files[k], handles[k]) ELSE files[k]]
  BY DEF Ends
<1>2. handles' = << >> /\ UNCHANGED <<clock, writes, tears, acked>>
  BY DEF Ends
<1>3. ASSUME NEW k \in DOMAIN files
      PROVE  Grown(files[k], files'[k]) /\ ScarredBut(files[k], files'[k], 0)
  <2>1. files[k] \in Seq(Lines)
    BY DEF CaptureInv, FilesTyped
  <2>2. CASE k \in flushed
    <3>1. handles[k] \in Seq(Records) /\ files'[k] = Flushed(files[k], handles[k])
      BY <1>1, <2>2 DEF CaptureInv
    <3> QED
      BY <2>1, <3>1, FlushedIs
  <2>3. CASE k \notin flushed
    <3>1. files'[k] = files[k]
      BY <1>1, <2>3
    <3> QED
      BY <2>1, <3>1 DEF Grown, ScarredBut
  <2> QED
    BY <2>2, <2>3
<1>4. DOMAIN files' = DOMAIN files
  BY <1>1
<1>5. FilesTyped(files')
  BY <1>3, <1>4 DEF CaptureInv, FilesTyped, Grown
<1>6. Scars(files') \subseteq Scars(files)
  <2> SUFFICES ASSUME NEW x \in Scars(files') PROVE x \in Scars(files)
    OBVIOUS
  <2>1. /\ x \in (DOMAIN files) \X Nat /\ x[1] \in DOMAIN files
        /\ x[2] \in 1 .. Len(files'[x[1]]) /\ Scarred(files'[x[1]][x[2]])
    BY <1>4 DEF Scars
  <2>2. x[2] \in 1 .. Len(files[x[1]]) /\ Scarred(files[x[1]][x[2]])
    BY <1>3, <2>1 DEF ScarredBut
  <2> QED
    BY <2>1, <2>2 DEF Scars
<1>7. \A k, r : KeptIn(files, k, r) => KeptIn(files', k, r)
  BY <1>3, <1>4, KeptWhileGrowing DEF CaptureInv
<1>8. IsFiniteSet(Scars(files')) /\ Cardinality(Scars(files')) <= tears'
  BY <1>2, <1>6, OneScarMore DEF CaptureInv
<1> QED
  BY <1>2, <1>5, <1>7, <1>8 DEF CaptureInv

LEMMA CaptureKeeps ==
    ASSUME CaptureInv, [Next]_vars
    PROVE  CaptureInv'
<1>1. CASE UNCHANGED <<files, handles, writes, tears, acked>> /\ clock' \in Nat
  BY <1>1 DEF CaptureInv
<1>2. CASE Restart \/ UNCHANGED vars
  <2>1. UNCHANGED <<files, handles, clock, writes, tears, acked>>
    BY <1>2 DEF Restart, vars
  <2> QED
    BY <1>1, <2>1 DEF CaptureInv
<1>3. CASE TimePasses
  BY <1>1, <1>3 DEF TimePasses, CaptureInv
<1> QED
  BY <1>2, <1>3, EndKeeps, WriteKeeps, FailureKeeps, CrashKeeps DEF Next

-----------------------------------------------------------------------------
\* What is lost.

\* A record that ends a line and is not read back has a piece before it there.
LEMMA LostIsScarred ==
    ASSUME CaptureInv, NEW a \in Lost
    PROVE  /\ a = <<a[1], a[2]>> /\ a[1] \in DOMAIN files
           /\ \E i \in 1 .. Len(files[a[1]]) :
                /\ Scarred(files[a[1]][i]) /\ ~Decodes(files[a[1]][i])
                /\ a[2] = files[a[1]][i].pieces[Len(files[a[1]][i].pieces)].rec
<1> DEFINE k == a[1]
           r == a[2]
<1>1. /\ a \in acked /\ r.kind = "market"
      /\ \A i \in Good(LinesAt(k)) : RecordOf(LinesAt(k)[i]) # r
  BY DEF Lost
<1>2. a = <<k, r>> /\ KeptIn(files, k, r)
  BY <1>1 DEF CaptureInv
<1>3. PICK i \in 1 .. Len(files[k]) : k \in DOMAIN files /\ EndsWith(files[k][i], r)
  BY <1>2 DEF KeptIn
<1> DEFINE line == files[k][i]
<1>4. LinesAt(k) = files[k] /\ i \in DOMAIN files[k] /\ line \in Lines
  BY <1>3 DEF LinesAt, CaptureInv, FilesTyped
<1>5. line.pieces[Len(line.pieces)] = Whole(r)
  BY <1>3 DEF EndsWith
<1>6. ASSUME Len(line.pieces) = 1 PROVE FALSE
  <2>1. line.pieces[1] = Whole(r)
    BY <1>5, <1>6
  <2>2. Parses(line) /\ RecordOf(line) = r
    BY <1>1, <1>6, <2>1 DEF Parses, Decodes, RecordOf, Whole
  <2>3. i \in Good(LinesAt(k))
    BY <1>4, <2>2 DEF Good
  <2> QED
    BY <1>1, <1>4, <2>2, <2>3
<1>7. Scarred(line) /\ ~Decodes(line)
  BY <1>6 DEF Scarred, Decodes
<1>8. r = line.pieces[Len(line.pieces)].rec
  BY <1>5 DEF Whole
<1> QED
  BY <1>2, <1>3, <1>7, <1>8

\* A function has at most as many values as arguments.
LEMMA ImageIsNoLarger ==
    ASSUME NEW S, IsFiniteSet(S), NEW f
    PROVE  /\ IsFiniteSet({f[x] : x \in S})
           /\ Cardinality({f[x] : x \in S}) <= Cardinality(S)
<1> DEFINE T == {f[x] : x \in S}
           g == [x \in S |-> f[x]]
<1>1. g \in Surjection(S, T)
  BY DEF Surjection
<1> HIDE DEF g, T
<1>2. IsFiniteSet(T) /\ Cardinality(T) <= Cardinality(S)
  BY <1>1, FS_Surjection
<1> QED
  BY <1>2 DEF T

\* No more records are lost than lines are scarred.
LEMMA LostBelowScars ==
    ASSUME CaptureInv
    PROVE  /\ Cardinality(Lost) <= Cardinality(Scars(files))
           /\ Cardinality(Lost) \in Nat
<1> DEFINE Final(x) == files[x[1]][x[2]].pieces[Len(files[x[1]][x[2]].pieces)].rec
           hidden == [x \in Scars(files) |-> <<x[1], Final(x)>>]
           image  == {hidden[x] : x \in Scars(files)}
<1>1. IsFiniteSet(image) /\ Cardinality(image) <= Cardinality(Scars(files))
  <2>1. IsFiniteSet(Scars(files))
    BY DEF CaptureInv
  <2> HIDE DEF hidden
  <2> QED
    BY <2>1, ImageIsNoLarger
<1>2. ASSUME NEW a \in Lost PROVE a \in image
  <2>1. PICK i \in 1 .. Len(files[a[1]]) :
          /\ a = <<a[1], a[2]>> /\ a[1] \in DOMAIN files
          /\ Scarred(files[a[1]][i])
          /\ a[2] = files[a[1]][i].pieces[Len(files[a[1]][i].pieces)].rec
    BY LostIsScarred
  <2>2. <<a[1], i>> \in Scars(files)
    BY <2>1 DEF Scars
  <2>3. a = hidden[<<a[1], i>>]
    BY <2>1, <2>2
  <2> QED
    BY <2>2, <2>3
<1> HIDE DEF image
<1>3. Cardinality(Lost) <= Cardinality(image)
  BY <1>1, <1>2, FS_Subset
<1>4. /\ Cardinality(Scars(files)) \in Nat /\ Cardinality(image) \in Nat
      /\ Cardinality(Lost) \in Nat
  BY <1>1, <1>2, FS_CardinalityType, FS_Subset DEF CaptureInv
<1> QED
  BY <1>1, <1>3, <1>4

\* In each file no more records are lost than lines do not decode.
LEMMA LostIsReported ==
    ASSUME CaptureInv, NEW k \in DOMAIN files
    PROVE  Cardinality({a \in Lost : a[1] = k}) <= ParseErrors(files[k])
<1> DEFINE bad == {i \in DOMAIN files[k] :
                     ~Decodes(files[k][i]) \/ RecordOf(files[k][i]).kind = "invalid"}
           here == {a \in Lost : a[1] = k}
           Final(i) == files[k][i].pieces[Len(files[k][i].pieces)].rec
           hidden == [i \in bad |-> <<k, Final(i)>>]
           image  == {hidden[i] : i \in bad}
<1>1. IsFiniteSet(bad)
  <2>1. DOMAIN files[k] = 1 .. Len(files[k]) /\ Len(files[k]) \in Nat
    BY DEF CaptureInv, FilesTyped
  <2>2. IsFiniteSet(DOMAIN files[k])
    BY <2>1, FS_Interval
  <2> QED
    BY <2>2, FS_Subset
<1>2. IsFiniteSet(image) /\ Cardinality(image) <= Cardinality(bad)
  <2> HIDE DEF bad, hidden
  <2> QED
    BY <1>1, ImageIsNoLarger
<1>3. ASSUME NEW a \in here PROVE a \in image
  <2>1. PICK i \in 1 .. Len(files[a[1]]) :
          /\ a = <<a[1], a[2]>>
          /\ ~Decodes(files[a[1]][i])
          /\ a[2] = files[a[1]][i].pieces[Len(files[a[1]][i].pieces)].rec
    BY LostIsScarred
  <2>2. i \in bad /\ a[1] = k
    BY <2>1 DEF CaptureInv, FilesTyped
  <2>3. a = hidden[i]
    BY <2>1, <2>2
  <2> QED
    BY <2>2, <2>3
<1> HIDE DEF image, here
<1>4. Cardinality(here) <= Cardinality(image)
  BY <1>2, <1>3, FS_Subset
<1>5. Cardinality(bad) \in Nat /\ Cardinality(image) \in Nat /\ Cardinality(here) \in Nat
  BY <1>1, <1>2, <1>3, FS_CardinalityType, FS_Subset
<1>6. Cardinality(here) <= Cardinality(bad)
  BY <1>2, <1>4, <1>5
<1> QED
  BY <1>6 DEF here, ParseErrors

LEMMA LossIsBounded ==
    ASSUME CaptureInv
    PROVE  LossBoundedAndReported
<1>1. Cardinality(Lost) <= tears
  <2>1. Cardinality(Scars(files)) \in Nat /\ Cardinality(Scars(files)) <= tears /\ tears \in Nat
    BY FS_CardinalityType DEF CaptureInv
  <2>2. Cardinality(Lost) \in Nat
    BY LostBelowScars
  <2> QED
    BY <2>1, <2>2, LostBelowScars
<1> QED
  BY <1>1, LostIsReported DEF LossBoundedAndReported

-----------------------------------------------------------------------------
\* The good lines of a file.

\* A set of natural numbers that is not empty has a smallest element.
LEMMA SmallestNat ==
    ASSUME NEW S, S \subseteq Nat, S # {}
    PROVE  \E m \in S : \A n \in S : m <= n
<1>1. PICK m \in S : \A n \in S : <<n, m>> \notin OpToRel(<, Nat)
  <2>1. \E m \in S : \A n \in S : <<n, m>> \notin OpToRel(<, Nat)
    BY NatLessThanWellFounded, WFMin
  <2> QED
    BY <2>1
<1>2. ASSUME NEW n \in S PROVE m <= n
  <2>1. ~(n < m)
    BY <1>1 DEF OpToRel
  <2> QED
    BY <2>1
<1> QED
  BY <1>2

LEMMA NextGoodIs ==
    ASSUME NEW lines \in Seq(Lines), NEW i \in Nat, GoodAfter(lines, i) # {}
    PROVE  /\ NextGood(lines, i) \in Good(lines) /\ NextGood(lines, i) > i
           /\ NextGood(lines, i) \in Nat
           /\ \A n \in Good(lines) : n > i => NextGood(lines, i) <= n
<1>1. GoodAfter(lines, i) \subseteq Nat
  BY DEF GoodAfter, Good
<1>2. \E j \in GoodAfter(lines, i) : \A h \in GoodAfter(lines, i) : j <= h
  BY <1>1, SmallestNat
<1>3. /\ NextGood(lines, i) \in GoodAfter(lines, i)
      /\ \A h \in GoodAfter(lines, i) : NextGood(lines, i) <= h
  BY <1>2 DEF NextGood
<1> QED
  BY <1>1, <1>3 DEF GoodAfter

\* A good line has a record with its two clocks.
LEMMA GoodLineIs ==
    ASSUME NEW lines \in Seq(Lines), NEW i \in Good(lines)
    PROVE  /\ i \in Nat /\ i >= 1 /\ RecordOf(lines[i]) \in Records
           /\ RecordOf(lines[i]).ts \in Nat /\ RecordOf(lines[i]).recv \in Nat
<1>1. i \in 1 .. Len(lines) /\ lines[i] \in Lines /\ Len(lines[i].pieces) = 1
  BY DEF Good, Parses, Decodes
<1>2. lines[i].pieces[1] \in Pieces
  BY <1>1 DEF Lines
<1> QED
  BY <1>1, <1>2 DEF RecordOf, Pieces, Records

\* In a file without regressions the next good line is not older.
LEMMA NextIsNotOlder ==
    ASSUME NEW lines \in Seq(Lines), NEW i \in Good(lines), GoodAfter(lines, i) # {},
           Regressions(lines) = 0
    PROVE  RecordOf(lines[i]).ts <= RecordOf(lines[NextGood(lines, i)]).ts
<1> DEFINE back == {n \in Good(lines) :
                      /\ GoodAfter(lines, n) # {}
                      /\ RecordOf(lines[NextGood(lines, n)]).ts < RecordOf(lines[n]).ts}
<1>1. IsFiniteSet(back)
  <2>1. DOMAIN lines = 1 .. Len(lines) /\ Len(lines) \in Nat
    OBVIOUS
  <2>2. IsFiniteSet(DOMAIN lines) /\ back \subseteq DOMAIN lines
    BY <2>1, FS_Interval DEF Good
  <2> HIDE DEF back
  <2> QED
    BY <2>2, FS_Subset
<1>2. Cardinality(back) = 0
  BY DEF Regressions
<1>3. i \notin back
  <2> HIDE DEF back
  <2> QED
    BY <1>1, <1>2, FS_EmptySet
<1>4. i \in Nat /\ NextGood(lines, i) \in Good(lines)
  BY GoodLineIs, NextGoodIs
<1>5. RecordOf(lines[i]).ts \in Nat /\ RecordOf(lines[NextGood(lines, i)]).ts \in Nat
  BY <1>4, GoodLineIs
<1> QED
  BY <1>3, <1>5

-----------------------------------------------------------------------------
\* The heap.

\* The replay reads the format in which the captures write.
LEMMA SameFormat ==
    /\ \A line : R!RecordOf(line) = RecordOf(line) /\ R!Parses(line) = Parses(line)
    /\ \A lines : R!Good(lines) = Good(lines)
    /\ \A lines, i : /\ R!GoodAfter(lines, i) = GoodAfter(lines, i)
                     /\ R!NextGood(lines, i) = NextGood(lines, i)
    /\ \A lines : R!Regressions(lines) = Regressions(lines)
    /\ \A S : R!Cardinality(S) = Cardinality(S)
<1>0. \A S : R!Cardinality(S) = Cardinality(S)
  BY DEF R!Cardinality, Cardinality
<1>1. \A line : R!RecordOf(line) = RecordOf(line) /\ R!Parses(line) = Parses(line)
  BY DEF R!RecordOf, RecordOf, R!Parses, Parses, R!Decodes, Decodes
<1>2. \A lines : R!Good(lines) = Good(lines)
  BY <1>1 DEF R!Good, Good
<1>3. \A lines, i : R!GoodAfter(lines, i) = GoodAfter(lines, i)
  BY <1>2 DEF R!GoodAfter, GoodAfter
<1>4. \A lines, i : R!NextGood(lines, i) = NextGood(lines, i)
  BY <1>3 DEF R!NextGood, NextGood
<1>5. \A lines : R!Regressions(lines) = Regressions(lines)
  BY <1>0, <1>1, <1>2, <1>3, <1>4 DEF R!Regressions, Regressions
<1> QED
  BY <1>0, <1>1, <1>2, <1>3, <1>4, <1>5

\* Entry e stands for a good line.
EntrySound(e) ==
    /\ e.shard \in DOMAIN files /\ e.at \in Good(files[e.shard])
    /\ e.tie \in Nat /\ e = R!Entry(e.shard, e.at, e.tie)

HeapSound ==
    /\ tieSeq \in Nat
    /\ \A e \in heap : EntrySound(e) /\ e.tie < tieSeq
    /\ \A e, f \in heap : e.tie = f.tie \/ e.shard = f.shard => e = f

LEMMA EntryIs ==
    ASSUME FilesTyped(files), NEW e, EntrySound(e)
    PROVE  /\ e.ts = R!EventAt(e.shard, e.at).ts /\ e.ts \in Nat
           /\ e.recv \in Nat /\ e.at \in Nat /\ e.at >= 1
<1>1. files[e.shard] \in Seq(Lines)
  BY DEF FilesTyped, EntrySound
<1>2. /\ e.at \in Nat /\ e.at >= 1 /\ R!EventAt(e.shard, e.at).ts \in Nat
      /\ R!EventAt(e.shard, e.at).recv \in Nat
  <2>1. e.at \in Good(files[e.shard])
    BY DEF EntrySound
  <2>2. /\ e.at \in Nat /\ e.at >= 1 /\ RecordOf(files[e.shard][e.at]).ts \in Nat
        /\ RecordOf(files[e.shard][e.at]).recv \in Nat
    BY <1>1, <2>1, GoodLineIs
  <2> QED
    BY <2>2, SameFormat DEF R!EventAt
<1>3. e = R!Entry(e.shard, e.at, e.tie)
  BY DEF EntrySound
<1>4. e.ts = R!EventAt(e.shard, e.at).ts /\ e.recv = R!EventAt(e.shard, e.at).recv
  BY <1>3 DEF R!Entry
<1> QED
  BY <1>2, <1>4

\* The heap has a first: among the entries with the smallest stamp, among those
\* of them that were received first, the one with the smallest tie.
LEMMA FirstIs ==
    ASSUME FilesTyped(files), HeapSound, heap # {}
    PROVE  R!First \in heap /\ \A f \in heap : R!First.ts <= f.ts
<1> DEFINE stamps == {e.ts : e \in heap}
<1>1. \A e \in heap : e.ts \in Nat /\ e.recv \in Nat /\ e.tie \in Nat
  BY EntryIs DEF HeapSound, EntrySound
<1>2. PICK s \in stamps : \A t \in stamps : s <= t
  <2>1. stamps \subseteq Nat /\ stamps # {}
    BY <1>1
  <2> HIDE DEF stamps
  <2> QED
    BY <2>1, SmallestNat
<1> DEFINE receipts == {e.recv : e \in {f \in heap : f.ts = s}}
<1>3. PICK v \in receipts : \A w \in receipts : v <= w
  <2>1. receipts \subseteq Nat /\ receipts # {}
    BY <1>1, <1>2
  <2> HIDE DEF receipts
  <2> QED
    BY <2>1, SmallestNat
<1> DEFINE ties == {e.tie : e \in {f \in heap : f.ts = s /\ f.recv = v}}
<1>4. PICK m \in ties : \A n \in ties : m <= n
  <2>1. ties \subseteq Nat /\ ties # {}
    BY <1>1, <1>3
  <2> HIDE DEF ties
  <2> QED
    BY <2>1, SmallestNat
<1>5. PICK e \in heap : e.ts = s /\ e.recv = v /\ e.tie = m
  BY <1>4
<1>6. ASSUME NEW f \in heap PROVE e = f \/ R!Earlier(e, f)
  <2>1. f.ts \in Nat /\ f.recv \in Nat /\ f.tie \in Nat /\ s <= f.ts /\ s \in Nat
    BY <1>1, <1>2, <1>5
  <2>2. f.ts = s => v <= f.recv /\ v \in Nat
    BY <1>1, <1>3, <1>5
  <2>3. f.ts = s /\ f.recv = v => m <= f.tie /\ m \in Nat
    BY <1>1, <1>4, <1>5
  <2>4. e.tie = f.tie => e = f
    BY <1>5 DEF HeapSound
  <2> QED
    BY <1>5, <2>1, <2>2, <2>3, <2>4 DEF R!Earlier
<1>7. R!First \in heap /\ \A f \in heap : R!First = f \/ R!Earlier(R!First, f)
  BY <1>5, <1>6 DEF R!First
<1>8. ASSUME NEW f \in heap PROVE R!First.ts <= f.ts
  <2>1. R!First = f \/ R!Earlier(R!First, f)
    BY <1>7
  <2>2. R!First.ts \in Nat /\ f.ts \in Nat
    BY <1>1, <1>7
  <2> QED
    BY <2>1, <2>2 DEF R!Earlier
<1> QED
  BY <1>7, <1>8

\* Events come out of a shard in the order of its lines.
OutSound ==
    /\ out \in Seq([shard : DOMAIN files, at : Nat])
    /\ \A i \in 1 .. Len(out) : out[i].at \in Good(files[out[i].shard])
    /\ \A i, j \in 1 .. Len(out) :
          i < j /\ out[i].shard = out[j].shard => out[i].at < out[j].at
    /\ \A i \in 1 .. Len(out) : \A e \in heap :
          out[i].shard = e.shard => out[i].at < e.at

\* Good line n of shard k is out or still to come.
Accounted(k, n) ==
    \/ \E i \in 1 .. Len(out) : out[i] = [shard |-> k, at |-> n]
    \/ \E e \in heap : e.shard = k /\ e.at <= n

AllAccounted == \A k \in DOMAIN files : \A n \in Good(files[k]) : Accounted(k, n)

Verified == \A k \in DOMAIN files : Regressions(files[k]) = 0

StampAt(k, i) == RecordOf(files[k][i]).ts

\* On verified shards the stamps that are out ascend, and nothing in the heap
\* is older than the last of them.
StampsAscend ==
    /\ \A i \in 2 .. Len(out) :
          StampAt(out[i - 1].shard, out[i - 1].at) <= StampAt(out[i].shard, out[i].at)
    /\ out # << >> =>
          \A e \in heap : StampAt(out[Len(out)].shard, out[Len(out)].at) <= e.ts

MergeInv == HeapSound /\ OutSound /\ AllAccounted /\ (Verified => StampsAscend)

\* Entries of different shards differ in their ties when the heap is primed.
LEMMA PrimeTies ==
    ASSUME NEW live, IsFiniteSet(live), live \subseteq Nat \X Nat,
           NEW tie, tie = [k \in live |-> Cardinality({j \in live : R!ListedBefore(j, k)})]
    PROVE  /\ \A k \in live : tie[k] \in Nat /\ tie[k] < Cardinality(live)
           /\ \A j, k \in live : tie[j] = tie[k] => j = k
<1> DEFINE before(k) == {j \in live : R!ListedBefore(j, k)}
<1>0. \A k \in live : k[1] \in Nat /\ k[2] \in Nat /\ k = <<k[1], k[2]>>
  OBVIOUS
<1>1. ASSUME NEW k \in live
      PROVE  /\ IsFiniteSet(before(k)) /\ tie[k] = Cardinality(before(k))
             /\ tie[k] \in Nat /\ before(k) \subseteq live /\ k \notin before(k)
  <2>1. IsFiniteSet(before(k)) /\ Cardinality(before(k)) \in Nat
    BY FS_Subset, FS_CardinalityType
  <2>2. ~R!ListedBefore(k, k)
    BY <1>0 DEF R!ListedBefore
  <2> QED
    BY <2>1, <2>2
<1>2. ASSUME NEW k \in live PROVE tie[k] < Cardinality(live)
  <2>1. before(k) # live
    BY <1>1
  <2>2. Cardinality(before(k)) <= Cardinality(live) /\ Cardinality(before(k)) # Cardinality(live)
    BY <1>1, <2>1, FS_Subset
  <2>3. Cardinality(live) \in Nat
    BY FS_CardinalityType
  <2>4. tie[k] = Cardinality(before(k)) /\ tie[k] \in Nat
    BY <1>1
  <2> HIDE DEF before
  <2> QED
    BY <2>2, <2>3, <2>4
<1>3. ASSUME NEW j \in live, NEW k \in live, R!ListedBefore(j, k)
      PROVE  tie[j] # tie[k]
  <2>1. before(j) \subseteq before(k)
    <3> SUFFICES ASSUME NEW i \in before(j) PROVE R!ListedBefore(i, k)
      OBVIOUS
    <3>1. i \in live /\ R!ListedBefore(i, j)
      OBVIOUS
    <3> QED
      BY <1>0, <1>3, <3>1 DEF R!ListedBefore
  <2>2. j \in before(k) /\ j \notin before(j)
    BY <1>1, <1>3
  <2>3. before(j) # before(k)
    BY <2>2
  <2>4. before(j) \in SUBSET before(k)
    BY <2>1
  <2> HIDE DEF before
  <2> QED
    BY <1>1, <2>3, <2>4, FS_Subset
<1>4. ASSUME NEW j \in live, NEW k \in live, j # k
      PROVE  R!ListedBefore(j, k) \/ R!ListedBefore(k, j)
  BY <1>0, <1>4 DEF R!ListedBefore
<1> QED
  BY <1>1, <1>2, <1>3, <1>4

LEMMA PrimeStarts ==
    ASSUME CaptureInv, heap = {}, out = << >>, R!Prime, UNCHANGED vars
    PROVE  MergeInv'
<1> DEFINE live == {k \in DOMAIN files : Good(files[k]) # {}}
           tie  == [k \in live |-> Cardinality({j \in live : R!ListedBefore(j, k)})]
           from(k) == NextGood(files[k], 0)
<1>0. files' = files /\ out' = << >> /\ Len(out') = 0
  BY DEF vars, R!Prime
<1>1. /\ heap' = {R!Entry(k, from(k), tie[k]) : k \in live}
      /\ tieSeq' = Cardinality(live)
  <2>1. \A lines, i : R!Good(lines) = Good(lines) /\ R!NextGood(lines, i) = NextGood(lines, i)
    BY SameFormat
  <2>2. {k \in DOMAIN files : R!Good(files[k]) # {}} = live
    BY <2>1
  <2> DEFINE Heap(L) == {R!Entry(k, R!NextGood(files[k], 0),
                                 R!Cardinality({j \in L : R!ListedBefore(j, k)})) : k \in L}
  <2>3. heap' = Heap({k \in DOMAIN files : R!Good(files[k]) # {}})
    BY DEF R!Prime
  <2>4. tieSeq' = R!Cardinality({k \in DOMAIN files : R!Good(files[k]) # {}})
    BY DEF R!Prime
  <2>5. heap' = Heap(live)
    BY <2>2, <2>3
  <2>6. \A k \in live : /\ R!NextGood(files[k], 0) = from(k)
                        /\ R!Cardinality({j \in live : R!ListedBefore(j, k)}) = tie[k]
    BY <2>1, SameFormat
  <2> HIDE DEF live, tie, from
  <2>7. Heap(live) = {R!Entry(k, from(k), tie[k]) : k \in live}
    BY <2>6
  <2> QED
    BY <2>2, <2>4, <2>5, <2>7, SameFormat
<1>2. IsFiniteSet(live) /\ live \subseteq Nat \X Nat
  <2>1. IsFiniteSet(DOMAIN files) /\ DOMAIN files \subseteq Nat \X Assets
    BY DEF CaptureInv, FilesTyped
  <2> QED
    BY <2>1, CaptureAssumption, FS_Subset
<1>3. /\ \A k \in live : tie[k] \in Nat /\ tie[k] < Cardinality(live)
      /\ \A j, k \in live : tie[j] = tie[k] => j = k
  <2> HIDE DEF live
  <2> QED
    BY <1>2, PrimeTies
<1>4. ASSUME NEW k \in live
      PROVE  /\ from(k) \in Good(files[k])
             /\ \A n \in Good(files[k]) : from(k) <= n
  <2>1. files[k] \in Seq(Lines) /\ 0 \in Nat
    BY DEF CaptureInv, FilesTyped
  <2>2. \A n \in Good(files[k]) : n > 0
    BY <2>1, GoodLineIs
  <2>3. GoodAfter(files[k], 0) # {}
    BY <2>2 DEF GoodAfter
  <2> QED
    BY <2>1, <2>2, <2>3, NextGoodIs
<1>5. ASSUME NEW e \in heap'
      PROVE  \E k \in live : /\ e.shard = k /\ e.at = from(k) /\ e.tie = tie[k]
                             /\ e = R!Entry(k, from(k), tie[k])
  <2>1. PICK k \in live : e = R!Entry(k, from(k), tie[k])
    BY <1>1
  <2> HIDE DEF live, tie, from
  <2>2. e.shard = k /\ e.at = from(k) /\ e.tie = tie[k]
    BY <2>1 DEF R!Entry
  <2> QED
    BY <2>1, <2>2
<1>6. HeapSound'
  <2>1. tieSeq' \in Nat
    BY <1>1, <1>2, FS_CardinalityType
  <2>2. ASSUME NEW e \in heap'
        PROVE  EntrySound(e)' /\ e.tie < tieSeq'
    <3>1. PICK k \in live : /\ e.shard = k /\ e.at = from(k) /\ e.tie = tie[k]
                            /\ e = R!Entry(k, from(k), tie[k])
      BY <1>5
    <3>2. k \in DOMAIN files /\ e = R!Entry(e.shard, e.at, e.tie)
      BY <3>1
    <3> HIDE DEF live, tie, from
    <3>3. (e = R!Entry(e.shard, e.at, e.tie))'
      BY <1>0, <3>2 DEF R!Entry, R!EventAt
    <3>4. e.at \in Good(files[e.shard]) /\ e.tie \in Nat
      BY <1>3, <1>4, <3>1
    <3> QED
      BY <1>0, <1>1, <1>3, <3>1, <3>2, <3>3, <3>4 DEF EntrySound
  <2>3. ASSUME NEW e \in heap', NEW f \in heap', e.tie = f.tie \/ e.shard = f.shard
        PROVE  e = f
    <3>1. PICK j \in live : e.shard = j /\ e.tie = tie[j] /\ e = R!Entry(j, from(j), tie[j])
      BY <1>5
    <3>2. PICK k \in live : f.shard = k /\ f.tie = tie[k] /\ f = R!Entry(k, from(k), tie[k])
      BY <1>5
    <3> HIDE DEF live, tie, from
    <3>3. j = k
      BY <1>3, <2>3, <3>1, <3>2
    <3> QED
      BY <3>1, <3>2, <3>3
  <2> QED
    BY <2>1, <2>2, <2>3 DEF HeapSound
<1>7. OutSound'
  <2>1. << >> \in Seq([shard : DOMAIN files, at : Nat])
    BY EmptySeq
  <2> QED
    BY <1>0, <2>1 DEF OutSound
<1>8. ASSUME NEW k \in DOMAIN files, NEW n \in Good(files[k])
      PROVE  Accounted(k, n)'
  <2>1. k \in live
    OBVIOUS
  <2>2. R!Entry(k, from(k), tie[k]) \in heap'
    BY <1>1, <2>1
  <2>3. PICK e \in heap' : e = R!Entry(k, from(k), tie[k])
    BY <2>2
  <2>4. e.shard = k /\ e.at = from(k)
    <3> HIDE DEF from, tie, live
    <3> QED
      BY <2>3 DEF R!Entry
  <2> QED
    BY <1>4, <2>1, <2>4 DEF Accounted
<1>9. StampsAscend'
  BY <1>0 DEF StampsAscend
<1> QED
  BY <1>0, <1>6, <1>7, <1>8, <1>9 DEF MergeInv, AllAccounted

LEMMA YieldKeeps ==
    ASSUME CaptureInv, MergeInv, R!Yield, UNCHANGED vars
    PROVE  MergeInv'
<1> DEFINE e    == R!First
           y    == [shard |-> e.shard, at |-> e.at]
           nxt  == NextGood(files[e.shard], e.at)
           new  == R!Entry(e.shard, nxt, tieSeq)
           rest == GoodAfter(files[e.shard], e.at)
<1>0. files' = files /\ heap # {} /\ FilesTyped(files)
  BY DEF vars, R!Yield, CaptureInv
<1>1. e \in heap /\ \A f \in heap : e.ts <= f.ts
  BY <1>0, FirstIs DEF MergeInv
<1>2. /\ EntrySound(e) /\ e.tie < tieSeq /\ files[e.shard] \in Seq(Lines)
      /\ e.at \in Nat /\ e.ts \in Nat /\ e.ts = StampAt(e.shard, e.at)
  <2>1. EntrySound(e) /\ e.tie < tieSeq
    BY <1>1 DEF MergeInv, HeapSound
  <2>2. e.at \in Nat /\ e.ts \in Nat /\ e.ts = R!EventAt(e.shard, e.at).ts
    BY <1>0, <2>1, EntryIs
  <2>3. files[e.shard] \in Seq(Lines)
    BY <1>0, <2>1 DEF FilesTyped, EntrySound
  <2>4. R!EventAt(e.shard, e.at).ts = StampAt(e.shard, e.at)
    BY SameFormat DEF R!EventAt, StampAt
  <2> QED
    BY <2>1, <2>2, <2>3, <2>4
<1>3. /\ out' = Append(out, y)
      /\ IF rest = {} THEN heap' = heap \ {e} /\ tieSeq' = tieSeq
         ELSE heap' = (heap \ {e}) \cup {new} /\ tieSeq' = tieSeq + 1
  <2>1. out' = Append(out, y) /\ R!Refill(e)
    BY DEF R!Yield
  <2>2. R!GoodAfter(files[e.shard], e.at) = rest /\ R!NextGood(files[e.shard], e.at) = nxt
    BY SameFormat
  <2> HIDE DEF rest, nxt, e
  <2> QED
    BY <2>1, <2>2 DEF R!Refill
<1>4. tieSeq \in Nat /\ tieSeq' \in Nat /\ tieSeq <= tieSeq'
  BY <1>3 DEF MergeInv, HeapSound
<1>5. ASSUME rest # {}
      PROVE  /\ nxt \in Good(files[e.shard]) /\ nxt > e.at /\ nxt \in Nat
             /\ \A n \in Good(files[e.shard]) : n > e.at => nxt <= n
             /\ Verified => e.ts <= StampAt(e.shard, nxt)
  <2>1. /\ nxt \in Good(files[e.shard]) /\ nxt > e.at /\ nxt \in Nat
        /\ \A n \in Good(files[e.shard]) : n > e.at => nxt <= n
    BY <1>2, <1>5, NextGoodIs
  <2>2. Verified => StampAt(e.shard, e.at) <= StampAt(e.shard, nxt)
    <3> SUFFICES ASSUME Verified PROVE StampAt(e.shard, e.at) <= StampAt(e.shard, nxt)
      OBVIOUS
    <3>1. Regressions(files[e.shard]) = 0 /\ e.at \in Good(files[e.shard])
      BY <1>2 DEF Verified, EntrySound
    <3> QED
      BY <1>2, <1>5, <3>1, NextIsNotOlder DEF StampAt
  <2> QED
    BY <1>2, <2>1, <2>2
<1> HIDE DEF e, rest, nxt
<1>6. new.shard = e.shard /\ new.at = nxt /\ new.tie = tieSeq /\ new.ts = StampAt(e.shard, nxt)
  BY SameFormat DEF R!Entry, R!EventAt, StampAt
<1> HIDE DEF new
<1>7. ASSUME NEW f \in heap'
      PROVE  \/ f \in heap /\ f # e
             \/ rest # {} /\ f = new /\ tieSeq' = tieSeq + 1
  BY <1>3
<1>8. HeapSound'
  <2>1. ASSUME NEW f \in heap' PROVE EntrySound(f)' /\ f.tie < tieSeq'
    <3>1. CASE f \in heap
      <4>1. EntrySound(f) /\ f.tie < tieSeq
        BY <3>1 DEF MergeInv, HeapSound
      <4>2. R!Entry(f.shard, f.at, f.tie)' = R!Entry(f.shard, f.at, f.tie)
        BY <1>0 DEF R!Entry, R!EventAt
      <4>3. EntrySound(f)'
        BY <1>0, <4>1, <4>2 DEF EntrySound
      <4>4. f.tie \in Nat
        BY <4>1 DEF EntrySound
      <4> QED
        BY <1>4, <4>1, <4>3, <4>4
    <3>2. CASE rest # {} /\ f = new /\ tieSeq' = tieSeq + 1
      <4>1. f = R!Entry(f.shard, f.at, f.tie)
        BY <1>6, <3>2 DEF new
      <4>2. R!Entry(f.shard, f.at, f.tie)' = R!Entry(f.shard, f.at, f.tie)
        BY <1>0 DEF R!Entry, R!EventAt
      <4>3. e.shard \in DOMAIN files
        BY <1>2 DEF EntrySound
      <4> QED
        BY <1>0, <1>4, <1>5, <1>6, <3>2, <4>1, <4>2, <4>3 DEF EntrySound
    <3> QED
      BY <1>7, <3>1, <3>2
  <2>2. ASSUME NEW f \in heap', NEW g \in heap', f.tie = g.tie \/ f.shard = g.shard
        PROVE  f = g
    <3>1. ASSUME NEW h \in heap, h # e PROVE h.tie # tieSeq /\ h.shard # e.shard
      <4>1. h.tie < tieSeq /\ h.tie \in Nat
        BY DEF MergeInv, HeapSound, EntrySound
      <4>2. h.shard # e.shard
        BY <1>1, <3>1 DEF MergeInv, HeapSound
      <4> QED
        BY <1>4, <4>1, <4>2
    <3>2. CASE f \in heap /\ g \in heap
      BY <2>2, <3>2 DEF MergeInv, HeapSound
    <3>3. CASE f \in heap /\ f # e /\ g = new
      BY <1>6, <2>2, <3>1, <3>3
    <3>4. CASE g \in heap /\ g # e /\ f = new
      BY <1>6, <2>2, <3>1, <3>4
    <3> QED
      BY <1>7, <3>2, <3>3, <3>4
  <2> QED
    BY <1>4, <2>1, <2>2 DEF HeapSound
<1>9. y \in [shard : DOMAIN files, at : Nat] /\ y.shard = e.shard /\ y.at = e.at
  BY <1>2 DEF EntrySound
<1> HIDE DEF y
<1> DEFINE n == Len(out)
<1>10. /\ out' \in Seq([shard : DOMAIN files, at : Nat]) /\ n \in Nat
       /\ Len(out') = n + 1 /\ out'[n + 1] = y
       /\ \A i \in 1 .. n : out'[i] = out[i]
  BY <1>3, <1>9 DEF MergeInv, OutSound
<1>11. ASSUME NEW i \in 1 .. n
       PROVE  /\ out[i].at \in Good(files[out[i].shard]) /\ out[i].at \in Nat
              /\ out[i].shard = e.shard => out[i].at < e.at
              /\ out[i].shard \in DOMAIN files
  <2>1. out[i] \in [shard : DOMAIN files, at : Nat]
    <3>1. out \in Seq([shard : DOMAIN files, at : Nat])
      BY DEF MergeInv, OutSound
    <3> QED
      BY <3>1, ElementOfSeq
  <2> QED
    BY <1>1, <2>1 DEF MergeInv, OutSound
<1> HIDE DEF n
<1>12. OutSound'
  <2>1. ASSUME NEW i \in 1 .. n + 1 PROVE out'[i].at \in Good(files[out'[i].shard])
    <3>1. CASE i = n + 1
      BY <1>2, <1>9, <1>10, <3>1 DEF EntrySound
    <3>2. CASE i \in 1 .. n
      BY <1>10, <1>11, <3>2
    <3> QED
      BY <1>10, <3>1, <3>2
  <2>2. ASSUME NEW i \in 1 .. n + 1, NEW j \in 1 .. n + 1, i < j,
               out'[i].shard = out'[j].shard
        PROVE  out'[i].at < out'[j].at
    <3>1. i \in 1 .. n
      BY <1>10, <2>2
    <3>2. CASE j \in 1 .. n
      BY <1>10, <2>2, <3>1, <3>2 DEF MergeInv, OutSound, n
    <3>3. CASE j = n + 1
      BY <1>9, <1>10, <1>11, <2>2, <3>1, <3>3
    <3> QED
      BY <1>10, <3>2, <3>3
  <2>3. ASSUME NEW i \in 1 .. n + 1, NEW f \in heap', out'[i].shard = f.shard
        PROVE  out'[i].at < f.at
    <3>1. CASE f \in heap /\ f # e
      <4>1. f.shard # e.shard
        BY <1>1, <3>1 DEF MergeInv, HeapSound
      <4>2. i \in 1 .. n /\ out'[i] = out[i]
        BY <1>9, <1>10, <2>3, <4>1
      <4> QED
        BY <2>3, <3>1, <4>2 DEF MergeInv, OutSound, n
    <3>2. CASE rest # {} /\ f = new
      <4>1. f.at = nxt /\ nxt > e.at /\ nxt \in Nat /\ f.shard = e.shard
        BY <1>5, <1>6, <3>2
      <4>2. CASE i = n + 1
        BY <1>9, <1>10, <4>1, <4>2
      <4>3. CASE i \in 1 .. n
        <5>1. out[i].at < e.at /\ out[i].at \in Nat /\ out'[i] = out[i]
          BY <1>10, <1>11, <2>3, <4>1, <4>3
        <5> QED
          BY <1>2, <4>1, <5>1
      <4> QED
        BY <1>10, <4>2, <4>3
    <3> QED
      BY <1>7, <3>1, <3>2
  <2> QED
    BY <1>0, <1>10, <2>1, <2>2, <2>3 DEF OutSound
<1>13. ASSUME NEW k \in DOMAIN files, NEW m \in Good(files[k])
       PROVE  Accounted(k, m)'
  <2>1. m \in Nat
    BY <1>0, GoodLineIs DEF FilesTyped
  <2>2. CASE \E i \in 1 .. n : out[i] = [shard |-> k, at |-> m]
    <3>1. \E i \in 1 .. n + 1 : out'[i] = [shard |-> k, at |-> m]
      BY <1>10, <2>2
    <3> QED
      BY <1>10, <3>1 DEF Accounted
  <2>3. CASE \E f \in heap : f # e /\ f.shard = k /\ f.at <= m
    <3>1. \A f \in heap : f # e => f \in heap'
      BY <1>3
    <3> QED
      BY <2>3, <3>1 DEF Accounted
  <2>4. CASE e.shard = k /\ e.at = m
    <3>1. y = [shard |-> k, at |-> m]
      BY <2>4 DEF y
    <3>2. n + 1 \in 1 .. Len(out') /\ out'[n + 1] = y
      BY <1>10
    <3> QED
      BY <3>1, <3>2 DEF Accounted
  <2>5. CASE e.shard = k /\ e.at < m
    <3>1. m \in rest
      BY <2>5 DEF rest, GoodAfter
    <3>2. new \in heap' /\ new.shard = k /\ new.at <= m
      BY <1>3, <1>5, <1>6, <2>5, <3>1
    <3> QED
      BY <3>2 DEF Accounted
  <2> QED
    BY <1>2, <2>1, <2>2, <2>3, <2>4, <2>5 DEF MergeInv, AllAccounted, Accounted, n
<1>14. ASSUME Verified PROVE StampsAscend'
  <2>1. StampsAscend
    BY <1>14 DEF MergeInv
  <2>2. \A k, i : StampAt(k, i)' = StampAt(k, i)
    BY <1>0 DEF StampAt
  <2>3. n # 0 => StampAt(out[n].shard, out[n].at) <= e.ts
    <3>1. out # << >> => StampAt(out[n].shard, out[n].at) <= e.ts
      BY <1>1, <2>1 DEF StampsAscend, n
    <3>2. n # 0 => out # << >>
      BY DEF n
    <3> QED
      BY <3>1, <3>2
  <2>4. ASSUME NEW i \in 2 .. n + 1
        PROVE  StampAt(out'[i - 1].shard, out'[i - 1].at) <= StampAt(out'[i].shard, out'[i].at)
    <3>1. i - 1 \in 1 .. n /\ out'[i - 1] = out[i - 1]
      BY <1>10
    <3>2. CASE i = n + 1
      BY <1>2, <1>9, <1>10, <2>3, <3>1, <3>2
    <3>3. CASE i \in 2 .. n
      <4>1. out'[i] = out[i]
        BY <1>10, <3>3
      <4> QED
        BY <2>1, <3>1, <3>3, <4>1 DEF StampsAscend, n
    <3> QED
      BY <1>10, <3>2, <3>3
  <2>5. ASSUME NEW f \in heap'
        PROVE  StampAt(out'[n + 1].shard, out'[n + 1].at) <= f.ts
    <3>1. out'[n + 1].shard = e.shard /\ out'[n + 1].at = e.at
      BY <1>9, <1>10
    <3>2. e.ts <= f.ts
      BY <1>1, <1>5, <1>6, <1>7, <1>14
    <3> QED
      BY <1>2, <3>1, <3>2
  <2> QED
    BY <1>10, <2>2, <2>4, <2>5 DEF StampsAscend
<1>15. AllAccounted'
  BY <1>0, <1>13 DEF AllAccounted
<1>16. Verified' => Verified
  BY <1>0 DEF Verified
<1> QED
  BY <1>8, <1>12, <1>14, <1>15, <1>16 DEF MergeInv

-----------------------------------------------------------------------------
\* The tape.

TapeInv ==
    /\ CaptureInv
    /\ IF started THEN MergeInv ELSE heap = {} /\ out = << >>

LEMMA TapeStarts == ASSUME TapeInit PROVE TapeInv
<1>1. /\ files = << >> /\ handles = << >> /\ clock = 0 /\ writes = 0 /\ tears = 0
      /\ acked = {} /\ started = FALSE /\ heap = {} /\ out = << >>
  BY DEF TapeInit, Init, R!Init
<1>2. DOMAIN files = {} /\ DOMAIN handles = {}
  BY <1>1
<1>3. FilesTyped(files)
  BY <1>2, FS_EmptySet DEF FilesTyped
<1>4. Scars(files) = {}
  BY <1>2 DEF Scars
<1>5. CaptureInv
  BY <1>1, <1>2, <1>3, <1>4, FS_EmptySet DEF CaptureInv
<1> QED
  BY <1>1, <1>5 DEF TapeInv

LEMMA TapeKeeps == ASSUME TapeInv, [TapeNext]_tapeVars PROVE TapeInv'
<1>1. CASE Capturing
  <2>1. ~started /\ Next /\ UNCHANGED replay
    BY <1>1 DEF Capturing
  <2>2. CaptureInv'
    BY <2>1, CaptureKeeps DEF TapeInv
  <2> QED
    BY <2>1, <2>2 DEF TapeInv, replay
<1>2. ASSUME UNCHANGED vars PROVE CaptureInv'
  BY <1>2, CaptureKeeps DEF TapeInv
<1>3. CASE Replaying /\ R!Prime
  <2>1. UNCHANGED vars /\ ~started /\ started' = TRUE
    BY <1>3 DEF Replaying, R!Prime
  <2>2. MergeInv'
    BY <1>3, <2>1, PrimeStarts DEF TapeInv
  <2> QED
    BY <1>2, <2>1, <2>2 DEF TapeInv
<1>4. CASE Replaying /\ R!Yield
  <2>1. UNCHANGED vars /\ started /\ started' = started
    BY <1>4 DEF Replaying, R!Yield
  <2>2. MergeInv'
    BY <1>4, <2>1, YieldKeeps DEF TapeInv
  <2> QED
    BY <1>2, <2>1, <2>2 DEF TapeInv
<1>5. CASE UNCHANGED tapeVars
  <2>1. UNCHANGED vars /\ UNCHANGED <<started, heap, tieSeq, out>>
    BY <1>5 DEF tapeVars, replay
  <2>2. MergeInv => MergeInv'
    BY <2>1 DEF vars, MergeInv, HeapSound, EntrySound, OutSound, AllAccounted, Accounted,
                Verified, StampsAscend, StampAt, R!Entry, R!EventAt
  <2> QED
    BY <1>2, <2>1, <2>2 DEF TapeInv
<1> QED
  BY <1>1, <1>3, <1>4, <1>5 DEF TapeNext, Replaying, R!Next

\* A torn write costs at most one accepted event, whatever is resumed on it,
\* and a file that lost events shows as many parse errors (JsonlWriter.write,
\* verify_no_gaps).
THEOREM LossIsReported == TapeSpec => []LossBoundedAndReported
<1>1. TapeInv => LossBoundedAndReported
  BY LossIsBounded DEF TapeInv
<1> QED
  BY <1>1, TapeStarts, TapeKeeps, PTL DEF TapeSpec

\* What verify_no_gaps accepts comes out of Replay.__iter__ in global order.
THEOREM ReplayIsOrdered == TapeSpec => []VerifiedMeansOrdered
<1>1. ASSUME TapeInv PROVE VerifiedMeansOrdered
  <2>1. CASE ~started
    <3>1. out = << >>
      BY <1>1, <2>1 DEF TapeInv
    <3>2. \A i \in 2 .. Len(out) : FALSE
      BY <3>1
    <3> QED
      BY <3>2 DEF VerifiedMeansOrdered, R!VerifiedMeansOrdered, R!InOrder
  <2>2. CASE started
    <3>1. (\A k \in DOMAIN files : R!Regressions(files[k]) = 0) => Verified
      BY SameFormat DEF Verified
    <3>2. Verified => StampsAscend
      BY <1>1, <2>2 DEF TapeInv, MergeInv
    <3>3. StampsAscend => R!InOrder
      BY SameFormat DEF StampsAscend, StampAt, R!InOrder, R!EventAt
    <3> QED
      BY <3>1, <3>2, <3>3 DEF VerifiedMeansOrdered, R!VerifiedMeansOrdered
  <2> QED
    BY <2>1, <2>2
<1> QED
  BY <1>1, TapeStarts, TapeKeeps, PTL DEF TapeSpec

\* Replay.__iter__ yields each good line of each shard once, in file order.
THEOREM ReplayIsComplete == TapeSpec => []MergeComplete
<1>1. ASSUME TapeInv PROVE MergeComplete
  <2>1. CASE ~started
    <3>1. out = << >> /\ Len(out) = 0 /\ DOMAIN out = {}
      BY <1>1, <2>1 DEF TapeInv
    <3> QED
      BY <2>1, <3>1 DEF MergeComplete, R!MergeComplete
  <2>2. CASE started
    <3>1. OutSound /\ AllAccounted /\ DOMAIN out = 1 .. Len(out)
      BY <1>1, <2>2 DEF TapeInv, MergeInv, OutSound
    <3>2. ASSUME heap = {}, NEW k \in DOMAIN files, NEW n \in R!Good(files[k])
          PROVE  \E i \in DOMAIN out : out[i] = [shard |-> k, at |-> n]
      <4>1. n \in Good(files[k])
        BY SameFormat
      <4> QED
        BY <3>1, <3>2, <4>1 DEF AllAccounted, Accounted
    <3> QED
      BY <3>1, <3>2 DEF OutSound, MergeComplete, R!MergeComplete
  <2> QED
    BY <2>1, <2>2
<1> QED
  BY <1>1, TapeStarts, TapeKeeps, PTL DEF TapeSpec
=============================================================================
