------------------------ MODULE QueueEstimate_proofs ------------------------
(***************************************************************************)
(* What L2OrderBook knows of a queue it cannot see, proved for any number  *)
(* of orders, any volumes and any length of the queue.                     *)
(*                                                                         *)
(* The argument relates the two sides order by order.  Balanced: what the  *)
(* queue gave an order and still holds of it is what the book filled and   *)
(* still holds of it, because both started from the order's size.          *)
(* LevelIsCurrent: while every change is published, the level shows the    *)
(* public's volume.  For an order that is our only one, NotBehind: what    *)
(* the book believes to be in front and the fills it has not booked exceed *)
(* what is in front by no more than was cancelled there; and NotEarly: in  *)
(* a burst of trades the book is never before the queue.  NotBehind adds   *)
(* the two errors up because neither bound survives a trade on its own: a  *)
(* late fill may still wait behind a queue that is believed too long.      *)
(* Both survive a trade because the two sides subtract the same volume and *)
(* stop at 0, the queue entry by entry (DepthAfter), the book in one step  *)
(* (SellOnOnlyOrder), and a cancellation because what it takes off the     *)
(* queue in front it adds to what was withdrawn (DepthWithout).            *)
(* Orders of one level keep their time priority because the walk reaches a *)
(* later order only with volume that an earlier one could not take         *)
(* (EarlierFirst), and hand out at most the trade's volume (FillsWithin).  *)
(***************************************************************************)
EXTENDS QueueEstimate, OrderExecution_proofs

-----------------------------------------------------------------------------
\* Sums along the queue.

Entries == [owner : Oids \cup {Public0}, size : Nat \ {0}]

\* The volume of the first i entries.
DepthOf(s, i) == Total([j \in DOMAIN s |-> s[j].size], 1 .. i)

OwnedSizes(s, owners) ==
    [j \in DOMAIN s |-> IF s[j].owner \in owners THEN s[j].size ELSE 0]

\* The sums of the first 0 .. n weights, as a recursive function.
IsRunning(g, w, n) == g = [i \in 0 .. n |-> IF i = 0 THEN 0 ELSE g[i - 1] + w[i]]

\* The sum of the first weights grows by one weight at a time.
LEMMA TotalSteps ==
    ASSUME NEW n \in Nat, NEW w, \A i \in 1 .. n : w[i] \in Int
    PROVE  /\ Total(w, 1 .. 0) = 0
           /\ \A i \in 1 .. n : Total(w, 1 .. i) = Total(w, 1 .. (i - 1)) + w[i]
           /\ \A i \in 0 .. n : Total(w, 1 .. i) \in Int
<1>1. Total(w, 1 .. 0) = 0
  <2>1. 1 .. 0 = {}
    OBVIOUS
  <2> QED
    BY <2>1, TotalEmpty
<1>2. ASSUME NEW i \in 1 .. n
      PROVE  Total(w, 1 .. i) = Total(w, 1 .. (i - 1)) + w[i]
  <2> DEFINE F == 1 .. (i - 1)
  <2>1. 1 .. i = F \cup {i} /\ i \notin F
    OBVIOUS
  <2>2. IsFiniteSet(F)
    <3>1. i - 1 \in Int
      OBVIOUS
    <3> QED
      BY <3>1, FS_Interval
  <2>3. \A y \in F \cup {i} : w[y] \in Int
    BY <2>1
  <2> HIDE DEF F
  <2>4. Total(w, F \cup {i}) = Total(w, F) + w[i]
    BY <2>1, <2>2, <2>3, TotalAdds
  <2> QED
    BY <2>1, <2>4 DEF F
<1>3. ASSUME NEW i \in 0 .. n PROVE Total(w, 1 .. i) \in Int
  <2> DEFINE F == 1 .. i
  <2>1. IsFiniteSet(F)
    <3>1. i \in Int
      OBVIOUS
    <3> QED
      BY <3>1, FS_Interval
  <2>2. \A y \in F : w[y] \in Int
    OBVIOUS
  <2> HIDE DEF F
  <2>3. Total(w, F) \in Int
    BY <2>1, <2>2, TotalTakesOut
  <2> QED
    BY <2>3 DEF F
<1> QED
  BY <1>1, <1>2, <1>3

\* The recursive function exists and holds these sums.
LEMMA RunningSums ==
    ASSUME NEW n \in Nat, NEW w, \A i \in 1 .. n : w[i] \in Int
    PROVE  LET g == CHOOSE g : IsRunning(g, w, n)
           IN  IsRunning(g, w, n) /\ \A i \in 0 .. n : g[i] = Total(w, 1 .. i)
<1> DEFINE g == CHOOSE g : IsRunning(g, w, n)
           h == [i \in 0 .. n |-> Total(w, 1 .. i)]
<1>1. \A i \in 0 .. n : Total(w, 1 .. i) = IF i = 0 THEN 0 ELSE Total(w, 1 .. (i - 1)) + w[i]
  <2> TAKE i \in 0 .. n
  <2>1. CASE i = 0
    BY <2>1, TotalSteps
  <2>2. CASE i # 0
    <3>1. i \in 1 .. n
      BY <2>2
    <3> QED
      BY <2>2, <3>1, TotalSteps
  <2> QED
    BY <2>1, <2>2
<1>2. IsRunning(h, w, n)
  <2>1. \A i \in 0 .. n : h[i] = IF i = 0 THEN 0 ELSE h[i - 1] + w[i]
    <3> TAKE i \in 0 .. n
    <3>1. i # 0 => i - 1 \in 0 .. n
      OBVIOUS
    <3> QED
      BY <1>1, <3>1
  <2>2. h = [i \in 0 .. n |-> h[i]]
    OBVIOUS
  <2> HIDE DEF h
  <2> QED
    BY <2>1, <2>2 DEF IsRunning
<1>3. IsRunning(g, w, n)
  BY <1>2
<1> HIDE DEF g
<1> DEFINE Good == {i \in Nat : i <= n => g[i] = Total(w, 1 .. i)}
<1>4. 0 \in Good
  <2>1. g[0] = 0
    BY <1>3 DEF IsRunning
  <2> QED
    BY <2>1, TotalSteps
<1>5. ASSUME NEW i \in Nat, i \in Good PROVE i + 1 \in Good
  <2> SUFFICES ASSUME i + 1 <= n PROVE g[i + 1] = Total(w, 1 .. (i + 1))
    OBVIOUS
  <2> DEFINE k == i + 1
  <2>1. k \in 1 .. n /\ k \in 0 .. n /\ k # 0 /\ k - 1 = i
    OBVIOUS
  <2>2. g[i] = Total(w, 1 .. i)
    BY <1>5
  <2> HIDE DEF k
  <2>3. g[k] = g[k - 1] + w[k]
    BY <1>3, <2>1 DEF IsRunning
  <2>4. Total(w, 1 .. k) = Total(w, 1 .. (k - 1)) + w[k]
    BY <2>1, TotalSteps
  <2> QED
    BY <2>1, <2>2, <2>3, <2>4 DEF k
<1>6. \A i \in Nat : i \in Good
  <2>1. \A i \in Nat : i \in Good => i + 1 \in Good
    BY <1>5
  <2> HIDE DEF Good
  <2> QED
    BY <1>4, <2>1, InductionOverNat
<1>7. \A i \in 0 .. n : g[i] = Total(w, 1 .. i)
  BY <1>6
<1> QED
  BY <1>3, <1>7 DEF g

LEMMA EntryFields ==
    ASSUME NEW s \in Seq(Entries)
    PROVE  /\ Len(s) \in Nat /\ DOMAIN s = 1 .. Len(s)
           /\ \A i \in DOMAIN s : /\ s[i] \in Entries /\ s[i].owner \in Oids \cup {Public0}
                                  /\ s[i].size \in Nat \ {0}
<1>1. \A i \in DOMAIN s : s[i] \in Entries
  OBVIOUS
<1>2. Len(s) \in Nat /\ DOMAIN s = 1 .. Len(s)
  OBVIOUS
<1> QED
  BY <1>1, <1>2 DEF Entries

\* SumSizes adds up the entries of the owners.
LEMMA SumSizesIs ==
    ASSUME NEW s \in Seq(Entries), NEW owners
    PROVE  /\ SumSizes(s, owners) = Total(OwnedSizes(s, owners), 1 .. Len(s))
           /\ SumSizes(s, owners) \in Nat
           /\ \A i \in 1 .. Len(s) : OwnedSizes(s, owners)[i] \in Nat
<1> DEFINE w == OwnedSizes(s, owners)
           n == Len(s)
           Body(g) == [i \in 0 .. n |->
                          IF i = 0 THEN 0
                          ELSE g[i - 1] + (IF s[i].owner \in owners THEN s[i].size ELSE 0)]
           u == CHOOSE g : g = Body(g)
<1>1. n \in Nat /\ \A i \in 1 .. n : w[i] \in Nat
  BY EntryFields DEF OwnedSizes
<1>2. SumSizes(s, owners) = u[n]
  BY DEF SumSizes
<1>3. \A i \in 1 .. n : w[i] = IF s[i].owner \in owners THEN s[i].size ELSE 0
  BY EntryFields DEF OwnedSizes
<1>4. ASSUME NEW g PROVE Body(g) = [i \in 0 .. n |-> IF i = 0 THEN 0 ELSE g[i - 1] + w[i]]
  <2>1. \A i \in 0 .. n : i # 0 => i \in 1 .. n
    BY <1>1
  <2> HIDE DEF w, n
  <2> QED
    BY <1>3, <2>1
<1> HIDE DEF Body
<1>5. \A g : g = Body(g) <=> IsRunning(g, w, n)
  BY <1>4 DEF IsRunning
<1> HIDE DEF w
<1>6. \A i \in 1 .. n : w[i] \in Int
  BY <1>1
<1> HIDE DEF n
<1>7. u = CHOOSE g : IsRunning(g, w, n)
  BY <1>5
<1>8. \A i \in 0 .. n : u[i] = Total(w, 1 .. i)
  BY <1>1, <1>6, <1>7, RunningSums
<1>9. u[n] = Total(w, 1 .. n)
  BY <1>1, <1>8
<1>10. Total(w, 1 .. n) \in Nat
  <2>1. n \in Int
    BY <1>1
  <2>2. IsFiniteSet(1 .. n)
    BY <2>1, FS_Interval
  <2> QED
    BY <1>1, <2>2, TotalNat
<1> QED
  BY <1>1, <1>2, <1>9, <1>10 DEF n, w

\* The volume of the first entries grows with every entry.
LEMMA DepthSteps ==
    ASSUME NEW s \in Seq(Entries)
    PROVE  /\ DepthOf(s, 0) = 0
           /\ \A i \in 1 .. Len(s) : DepthOf(s, i) = DepthOf(s, i - 1) + s[i].size
           /\ \A i \in 0 .. Len(s) : DepthOf(s, i) \in Nat
           /\ \A j \in 0 .. Len(s) : \A i \in 0 .. j : DepthOf(s, i) <= DepthOf(s, j)
<1> DEFINE w == [j \in DOMAIN s |-> s[j].size]
           n == Len(s)
<1>1. n \in Nat /\ (\A i \in 1 .. n : w[i] \in Nat /\ w[i] \in Int /\ w[i] = s[i].size)
  BY EntryFields
<1>2. \A i \in 0 .. n : DepthOf(s, i) = Total(w, 1 .. i)
  BY DEF DepthOf
<1> HIDE DEF w, n
<1>3. \A i \in 1 .. n : w[i] \in Int
  BY <1>1
<1>4. /\ Total(w, 1 .. 0) = 0
      /\ \A i \in 1 .. n : Total(w, 1 .. i) = Total(w, 1 .. (i - 1)) + w[i]
      /\ \A i \in 0 .. n : Total(w, 1 .. i) \in Int
  BY <1>1, <1>3, TotalSteps
<1>5. DepthOf(s, 0) = 0
  BY <1>1, <1>2, <1>4
<1>6. \A i \in 1 .. n : DepthOf(s, i) = DepthOf(s, i - 1) + s[i].size
  <2> TAKE i \in 1 .. n
  <2>1. i - 1 \in 0 .. n /\ i \in 0 .. n
    BY <1>1
  <2> QED
    BY <1>1, <1>2, <1>4, <2>1
<1>7. \A i \in 0 .. n : DepthOf(s, i) \in Int
  BY <1>2, <1>4
<1> DEFINE Good == {j \in Nat : j <= n => /\ DepthOf(s, j) \in Nat
                                          /\ \A i \in 0 .. j : DepthOf(s, i) <= DepthOf(s, j)}
<1>8. 0 \in Good
  <2>1. \A i \in 0 .. 0 : i = 0
    OBVIOUS
  <2> QED
    BY <1>5, <2>1
<1>9. ASSUME NEW j \in Nat, j \in Good PROVE j + 1 \in Good
  <2> SUFFICES ASSUME j + 1 <= n
               PROVE  /\ DepthOf(s, j + 1) \in Nat
                      /\ \A i \in 0 .. (j + 1) : DepthOf(s, i) <= DepthOf(s, j + 1)
    OBVIOUS
  <2> DEFINE k == j + 1
  <2>1. k \in 1 .. n /\ k - 1 = j /\ j \in 0 .. n
    <3>1. n \in Nat /\ j \in Nat /\ j + 1 <= n
      BY <1>1
    <3> HIDE DEF Good
    <3> QED
      BY <3>1
  <2>2. DepthOf(s, j) \in Nat /\ \A i \in 0 .. j : DepthOf(s, i) <= DepthOf(s, j)
    BY <1>1, <1>9
  <2>3. \A i \in 0 .. k : i \in 0 .. j \/ i = k
    OBVIOUS
  <2> HIDE DEF k
  <2>4. DepthOf(s, k) = DepthOf(s, j) + s[k].size /\ s[k].size \in Nat
    BY <1>1, <1>6, <2>1
  <2>5. DepthOf(s, k) \in Nat /\ DepthOf(s, j) <= DepthOf(s, k)
    BY <2>2, <2>4
  <2>6. \A i \in 0 .. k : DepthOf(s, i) <= DepthOf(s, k)
    <3> TAKE i \in 0 .. k
    <3>1. CASE i = k
      BY <2>5, <3>1
    <3>2. CASE i \in 0 .. j
      <4>1. DepthOf(s, i) <= DepthOf(s, j) /\ DepthOf(s, i) \in Int
        <5>1. i \in 0 .. n
          <6>1. i \in 0 .. j /\ j \in 0 .. n /\ n \in Nat
            BY <1>1, <2>1, <3>2
          <6> HIDE DEF Good
          <6> QED
            BY <6>1
        <5> QED
          BY <1>7, <2>2, <3>2, <5>1
      <4> QED
        BY <2>2, <2>5, <4>1
    <3> QED
      BY <2>3, <3>1, <3>2
  <2> QED
    BY <2>5, <2>6 DEF k
<1>10. \A j \in Nat : j \in Good
  <2>1. \A j \in Nat : j \in Good => j + 1 \in Good
    BY <1>9
  <2> HIDE DEF Good
  <2> QED
    BY <1>8, <2>1, InductionOverNat
<1>11. \A j \in 0 .. n : /\ DepthOf(s, j) \in Nat
                         /\ \A i \in 0 .. j : DepthOf(s, i) <= DepthOf(s, j)
  BY <1>1, <1>10
<1> QED
  BY <1>5, <1>6, <1>11 DEF n

-----------------------------------------------------------------------------
\* What a trade leaves of the queue.

Left(s, n, i) == Floor0(s[i].size - Floor0(n - DepthOf(s, i - 1)))

Used(s, n) == Cardinality({i \in DOMAIN s : Left(s, n, i) = 0})

\* An entry loses what of the trade reaches it.
LEMMA LeftIs ==
    ASSUME NEW s \in Seq(Entries), NEW n \in Nat, NEW i \in 1 .. Len(s)
    PROVE  /\ Left(s, n, i) \in 0 .. s[i].size
           /\ Left(s, n, i) = 0 <=> DepthOf(s, i) <= n
           /\ Floor0(DepthOf(s, i) - n) = Floor0(DepthOf(s, i - 1) - n) + Left(s, n, i)
<1> DEFINE d == DepthOf(s, i - 1)
           e == DepthOf(s, i)
           z == s[i].size
           l == Left(s, n, i)
<1>1. i - 1 \in 0 .. Len(s) /\ i \in 0 .. Len(s) /\ i \in DOMAIN s
  BY EntryFields
<1>2. d \in Nat /\ e = d + z /\ z \in Nat \ {0}
  BY <1>1, DepthSteps, EntryFields
<1>3. l = Floor0(z - Floor0(n - d))
  BY DEF Left
<1> HIDE DEF d, e, z, l
<1>4. l \in 0 .. z /\ (l = 0 <=> e <= n)
  BY <1>2, <1>3 DEF Floor0, Larger
<1>5. Floor0(e - n) = Floor0(d - n) + l
  BY <1>2, <1>3 DEF Floor0, Larger
<1> QED
  BY <1>4, <1>5 DEF d, e, z, l

\* The entries that a trade uses up are the first.
LEMMA UsedIsPrefix ==
    ASSUME NEW s \in Seq(Entries), NEW n \in Nat
    PROVE  /\ Used(s, n) \in 0 .. Len(s)
           /\ \A i \in 1 .. Len(s) : Left(s, n, i) = 0 <=> i <= Used(s, n)
<1> DEFINE m == Len(s)
           S == {i \in DOMAIN s : Left(s, n, i) = 0}
<1>1. m \in Nat /\ DOMAIN s = 1 .. m
  BY EntryFields
<1> HIDE DEF m
<1>2. S \subseteq 1 .. m
  BY <1>1
<1>3. ASSUME NEW i \in S, NEW j \in 1 .. i PROVE j \in S
  <2>1. i \in 1 .. m /\ j \in 1 .. m /\ j \in 0 .. i /\ i \in 0 .. m /\ j \in 0 .. m
    BY <1>1
  <2>2. DepthOf(s, i) <= n /\ DepthOf(s, j) <= DepthOf(s, i)
    BY <2>1, LeftIs, DepthSteps DEF m
  <2>3. DepthOf(s, i) \in Nat /\ DepthOf(s, j) \in Nat
    BY <2>1, DepthSteps DEF m
  <2>4. DepthOf(s, j) <= n
    BY <2>2, <2>3
  <2>5. Left(s, n, j) = 0
    BY <2>1, <2>4, LeftIs DEF m
  <2> QED
    BY <1>1, <2>1, <2>5
<1>4. Used(s, n) = Cardinality(S)
  BY DEF Used
<1>5. \A i \in 1 .. m : i \in S <=> Left(s, n, i) = 0
  BY <1>1
<1> HIDE DEF S
<1>6. Cardinality(S) \in 0 .. m /\ S = 1 .. Cardinality(S)
  BY <1>1, <1>2, <1>3, PrefixCount
<1> QED
  BY <1>1, <1>4, <1>5, <1>6 DEF m

LEMMA AfterTakingIs ==
    ASSUME NEW s \in Seq(Entries), NEW n \in Nat
    PROVE  AfterTaking(s, n) =
             [j \in 1 .. (Len(s) - Used(s, n)) |->
                [s[j + Used(s, n)] EXCEPT !.size = Left(s, n, j + Used(s, n))]]
<1> DEFINE m == Len(s)
           w == [j \in DOMAIN s |-> s[j].size]
           Body(g) == [i \in 0 .. m |-> IF i = 0 THEN 0 ELSE g[i - 1] + s[i].size]
           u == CHOOSE g : g = Body(g)
           left == [i \in DOMAIN s |-> Floor0(s[i].size - Floor0(n - u[i - 1]))]
           want == [i \in DOMAIN s |-> Left(s, n, i)]
           gone == Cardinality({i \in DOMAIN s : left[i] = 0})
<1>1. m \in Nat /\ DOMAIN s = 1 .. m /\ \A i \in 1 .. m : w[i] = s[i].size /\ w[i] \in Int
  BY EntryFields
<1>2. AfterTaking(s, n) = [j \in 1 .. (m - gone) |-> [s[j + gone] EXCEPT !.size = left[j + gone]]]
  BY DEF AfterTaking
<1>3. ASSUME NEW g PROVE Body(g) = [i \in 0 .. m |-> IF i = 0 THEN 0 ELSE g[i - 1] + w[i]]
  <2>1. \A i \in 0 .. m : i # 0 => i \in 1 .. m
    BY <1>1
  <2> HIDE DEF w, m
  <2> QED
    BY <1>1, <2>1
<1> HIDE DEF Body
<1>4. \A g : g = Body(g) <=> IsRunning(g, w, m)
  BY <1>3 DEF IsRunning
<1>5. u = CHOOSE g : IsRunning(g, w, m)
  BY <1>4
<1>6. \A i \in 0 .. m : DepthOf(s, i) = Total(w, 1 .. i)
  BY DEF DepthOf
<1> HIDE DEF u, w, m
<1>7. \A i \in 0 .. m : u[i] = Total(w, 1 .. i)
  <2>1. \A i \in 1 .. m : w[i] \in Int
    BY <1>1
  <2> QED
    BY <1>1, <1>5, <2>1, RunningSums
<1>8. \A i \in 1 .. m : u[i - 1] = DepthOf(s, i - 1)
  <2> TAKE i \in 1 .. m
  <2>1. i - 1 \in 0 .. m
    BY <1>1
  <2> QED
    BY <1>6, <1>7, <2>1
<1>9. left = want
  BY <1>1, <1>8 DEF Left
<1>10. gone = Used(s, n)
  <2>1. {i \in DOMAIN s : left[i] = 0} = {i \in DOMAIN s : Left(s, n, i) = 0}
    BY <1>9
  <2> QED
    BY <2>1 DEF Used
<1>11. gone \in 0 .. m
  BY <1>10, UsedIsPrefix DEF m
<1> HIDE DEF gone, left
<1>12. \A j \in 1 .. (m - gone) : left[j + gone] = Left(s, n, j + gone)
  <2> TAKE j \in 1 .. (m - gone)
  <2>1. j + gone \in DOMAIN s
    BY <1>1, <1>11
  <2> QED
    BY <1>9, <2>1
<1>13. AfterTaking(s, n) = [j \in 1 .. (m - gone) |->
                              [s[j + gone] EXCEPT !.size = Left(s, n, j + gone)]]
  BY <1>2, <1>12
<1> QED
  BY <1>10, <1>13 DEF m

\* What is left is the rest of the queue, its first entry perhaps cut.
LEMMA AfterTakingFields ==
    ASSUME NEW s \in Seq(Entries), NEW n \in Nat
    PROVE  LET t == AfterTaking(s, n)
               g == Used(s, n)
           IN  /\ t \in Seq(Entries) /\ Len(t) = Len(s) - g
               /\ \A j \in 1 .. Len(t) : /\ j + g \in DOMAIN s
                                         /\ t[j].owner = s[j + g].owner
                                         /\ t[j].size = Left(s, n, j + g)
<1> DEFINE t == AfterTaking(s, n)
           g == Used(s, n)
           m == Len(s)
           k == m - g
<1>1. m \in Nat /\ DOMAIN s = 1 .. m /\ g \in 0 .. m
      /\ \A i \in 1 .. m : Left(s, n, i) = 0 <=> i <= g
  BY EntryFields, UsedIsPrefix
<1>2. t = [j \in 1 .. k |-> [s[j + g] EXCEPT !.size = Left(s, n, j + g)]]
  BY AfterTakingIs
<1> HIDE DEF t, g
<1>3. ASSUME NEW j \in 1 .. k
      PROVE  /\ j + g \in DOMAIN s
             /\ t[j] \in Entries /\ t[j].owner = s[j + g].owner
             /\ t[j].size = Left(s, n, j + g)
  <2> DEFINE i == j + g
             l == Left(s, n, i)
  <2>1. i \in 1 .. m /\ i \in DOMAIN s /\ ~(i <= g)
    BY <1>1
  <2>2. l \in Nat \ {0}
    <3>1. l \in 0 .. s[i].size /\ s[i].size \in Nat
      BY <2>1, LeftIs, EntryFields
    <3>2. l # 0
      BY <1>1, <2>1
    <3> HIDE DEF l, i
    <3> QED
      BY <3>1, <3>2
  <2>3. t[j] = [s[i] EXCEPT !.size = l]
    BY <1>2
  <2> HIDE DEF l, i
  <2>4. s[i] \in Entries
    BY <2>1, EntryFields
  <2>5. t[j] \in Entries /\ t[j].owner = s[i].owner /\ t[j].size = l
    BY <2>2, <2>3, <2>4 DEF Entries
  <2> QED
    BY <2>1, <2>5 DEF l, i
<1>4. k \in Nat
  BY <1>1
<1> HIDE DEF k, m
<1>5. \A j \in 1 .. k : t[j] \in Entries
  BY <1>3
<1>6. t = [j \in 1 .. k |-> t[j]]
  BY <1>2
<1>7. t \in Seq(Entries) /\ Len(t) = k
  BY <1>4, <1>5, <1>6
<1> QED
  BY <1>3, <1>7 DEF t, g, k, m

\* In front of each entry that stays lies what lay there, less the trade.
LEMMA DepthAfter ==
    ASSUME NEW s \in Seq(Entries), NEW n \in Nat
    PROVE  LET t == AfterTaking(s, n)
               g == Used(s, n)
           IN  \A j \in 0 .. Len(t) : DepthOf(t, j) = Floor0(DepthOf(s, j + g) - n)
<1> DEFINE t == AfterTaking(s, n)
           g == Used(s, n)
           m == Len(s)
<1>1. /\ t \in Seq(Entries) /\ Len(t) = m - g /\ g \in 0 .. m /\ m \in Nat
      /\ \A j \in 1 .. Len(t) : t[j].size = Left(s, n, j + g)
  BY AfterTakingFields, UsedIsPrefix, EntryFields
<1> HIDE DEF t
<1> DEFINE Good == {j \in Nat : j <= Len(t) => DepthOf(t, j) = Floor0(DepthOf(s, j + g) - n)}
<1>2. 0 \in Good
  <2>1. DepthOf(t, 0) = 0
    BY <1>1, DepthSteps
  <2>2. DepthOf(s, g) \in Nat /\ DepthOf(s, g) <= n
    <3>1. CASE g = 0
      BY <3>1, DepthSteps
    <3>2. CASE g # 0
      <4>1. g \in 1 .. Len(s) /\ g \in 0 .. Len(s) /\ g <= g
        BY <1>1, <3>2
      <4>2. Left(s, n, g) = 0
        BY <4>1, UsedIsPrefix
      <4> QED
        BY <4>1, <4>2, LeftIs, DepthSteps
    <3> QED
      BY <3>1, <3>2
  <2>3. 0 + g = g
    BY <1>1
  <2>4. Floor0(DepthOf(s, g) - n) = 0
    BY <2>2 DEF Floor0, Larger
  <2> HIDE DEF g
  <2> QED
    BY <2>1, <2>3, <2>4
<1>3. ASSUME NEW j \in Nat, j \in Good PROVE j + 1 \in Good
  <2> SUFFICES ASSUME j + 1 <= Len(t)
               PROVE  DepthOf(t, j + 1) = Floor0(DepthOf(s, j + 1 + g) - n)
    OBVIOUS
  <2> DEFINE k == j + 1
             i == k + g
  <2>1. DepthOf(t, j) = Floor0(DepthOf(s, j + g) - n)
    <3>1. j <= Len(t)
      BY <1>1
    <3> QED
      BY <1>3, <3>1
  <2>2. k \in 1 .. Len(t) /\ k - 1 = j /\ i \in 1 .. Len(s) /\ i - 1 = j + g
    <3>1. g \in Nat /\ m \in Nat /\ Len(t) = m - g /\ j \in Nat /\ j + 1 <= Len(t)
      BY <1>1
    <3> HIDE DEF g, Good
    <3> QED
      BY <3>1
  <2> HIDE DEF k, i, g, Good
  <2>3. DepthOf(t, k) = DepthOf(t, j) + t[k].size
    BY <1>1, <2>2, DepthSteps
  <2>4. t[k].size = Left(s, n, i)
    BY <1>1, <2>2 DEF i
  <2>5. Floor0(DepthOf(s, i) - n) = Floor0(DepthOf(s, j + g) - n) + Left(s, n, i)
    BY <2>2, LeftIs
  <2>6. DepthOf(t, k) = Floor0(DepthOf(s, i) - n)
    BY <2>1, <2>3, <2>4, <2>5
  <2> QED
    BY <2>6 DEF k, i
<1>4. \A j \in Nat : j \in Good
  <2>1. \A j \in Nat : j \in Good => j + 1 \in Good
    BY <1>3
  <2> HIDE DEF Good
  <2> QED
    BY <1>2, <2>1, InductionOverNat
<1>5. \A j \in 0 .. Len(t) : DepthOf(t, j) = Floor0(DepthOf(s, j + g) - n)
  BY <1>4
<1> QED
  BY <1>5 DEF t

-----------------------------------------------------------------------------
\* The volume of one owner.

LEMMA SameUpTo ==
    ASSUME NEW k \in Nat, NEW v, NEW w, \A i \in 1 .. k : v[i] = w[i]
    PROVE  Total(v, 1 .. k) = Total(w, 1 .. k)
<1>1. IsFiniteSet(1 .. k)
  <2>1. k \in Int
    OBVIOUS
  <2> QED
    BY <2>1, FS_Interval
<1> QED
  BY <1>1, TotalSameWeights

\* Nothing but zeros adds up to zero.
LEMMA TotalZero ==
    ASSUME NEW F, IsFiniteSet(F), NEW w, \A x \in F : w[x] = 0
    PROVE  Total(w, F) = 0
<1> DEFINE Good == {T \in SUBSET F : Total(w, T) = 0}
<1>1. {} \in Good
  BY TotalEmpty
<1>2. ASSUME NEW T \in SUBSET F, NEW x \in F \ T, T \in Good PROVE T \cup {x} \in Good
  <2>1. IsFiniteSet(T)
    BY FS_Subset
  <2>2. \A y \in T \cup {x} : w[y] \in Int
    OBVIOUS
  <2>3. Total(w, T \cup {x}) = Total(w, T) + w[x]
    BY <2>1, <2>2, TotalAdds
  <2>4. Total(w, T) = 0 /\ w[x] = 0 /\ T \cup {x} \in SUBSET F
    BY <1>2
  <2> QED
    BY <2>3, <2>4
<1>3. F \in Good
  <2>1. F \in SUBSET F
    OBVIOUS
  <2>2. \A T \in SUBSET F : \A x \in F \ T : T \in Good => T \cup {x} \in Good
    BY <1>2
  <2> HIDE DEF Good
  <2> QED
    BY <1>1, <2>1, <2>2, InductionOverSubsets
<1> QED
  BY <1>3

LEMMA OwnedByOne ==
    ASSUME NEW s \in Seq(Entries), NEW a \in DOMAIN s, NEW o, s[a].owner = o,
           \A i \in DOMAIN s : s[i].owner = o => i = a
    PROVE  SumSizes(s, {o}) = s[a].size
<1> DEFINE w == OwnedSizes(s, {o})
           F == 1 .. Len(s)
<1>1. /\ DOMAIN s = F /\ s[a].size \in Nat /\ Len(s) \in Int
      /\ SumSizes(s, {o}) = Total(w, F) /\ \A i \in F : w[i] \in Nat
  BY EntryFields, SumSizesIs
<1>2. w[a] = s[a].size /\ \A i \in F \ {a} : w[i] = 0
  BY <1>1 DEF OwnedSizes
<1>3. IsFiniteSet(F)
  BY <1>1, FS_Interval
<1> HIDE DEF w, F
<1>4. \A i \in F : w[i] \in Int
  BY <1>1
<1>5. Total(w, F) = w[a] + Total(w, F \ {a})
  BY <1>1, <1>3, <1>4, TotalTakesOut
<1>6. IsFiniteSet(F \ {a})
  BY <1>3, FS_Subset
<1>7. Total(w, F \ {a}) = 0
  BY <1>2, <1>6, TotalZero
<1> QED
  BY <1>1, <1>2, <1>5, <1>7

LEMMA OwnedByNone ==
    ASSUME NEW s \in Seq(Entries), NEW o, \A i \in DOMAIN s : s[i].owner # o
    PROVE  SumSizes(s, {o}) = 0
<1> DEFINE w == OwnedSizes(s, {o})
           F == 1 .. Len(s)
<1>1. DOMAIN s = F /\ Len(s) \in Int /\ SumSizes(s, {o}) = Total(w, F)
  BY EntryFields, SumSizesIs
<1>2. \A i \in F : w[i] = 0
  BY <1>1 DEF OwnedSizes
<1>3. IsFiniteSet(F)
  BY <1>1, FS_Interval
<1> HIDE DEF w, F
<1> QED
  BY <1>1, <1>2, <1>3, TotalZero

\* The volume of a queue is that of all its entries.
LEMMA VolumeIsDepth ==
    ASSUME NEW s \in Seq(Entries)
    PROVE  Volume(s) = DepthOf(s, Len(s)) /\ Volume(s) \in Nat
<1> DEFINE all == Oids \cup {Public0}
           w == OwnedSizes(s, all)
           v == [j \in DOMAIN s |-> s[j].size]
<1>1. /\ Len(s) \in Nat /\ Volume(s) = Total(w, 1 .. Len(s)) /\ Volume(s) \in Nat
  BY EntryFields, SumSizesIs DEF Volume
<1>2. \A i \in 1 .. Len(s) : w[i] = v[i]
  BY EntryFields DEF OwnedSizes
<1>3. DepthOf(s, Len(s)) = Total(v, 1 .. Len(s))
  BY DEF DepthOf
<1> HIDE DEF w, v
<1> QED
  BY <1>1, <1>2, <1>3, SameUpTo

\* The public's volume in a queue of its own.
LEMMA AllPublic ==
    ASSUME NEW s \in Seq(Entries), \A i \in DOMAIN s : s[i].owner = Public0
    PROVE  PublicTotal(s) = DepthOf(s, Len(s))
<1> DEFINE w == OwnedSizes(s, {Public0})
           v == [j \in DOMAIN s |-> s[j].size]
<1>1. Len(s) \in Nat /\ PublicTotal(s) = Total(w, 1 .. Len(s))
  BY EntryFields, SumSizesIs DEF PublicTotal
<1>2. \A i \in 1 .. Len(s) : w[i] = v[i]
  BY EntryFields DEF OwnedSizes
<1>3. DepthOf(s, Len(s)) = Total(v, 1 .. Len(s))
  BY DEF DepthOf
<1> HIDE DEF w, v
<1> QED
  BY <1>1, <1>2, <1>3, SameUpTo

\* The public's volume in front of the only entry that is not public.
LEMMA PublicAhead ==
    ASSUME NEW s \in Seq(Entries), NEW a \in DOMAIN s, s[a].owner # Public0,
           \A i \in DOMAIN s : s[i].owner # Public0 => i = a
    PROVE  PublicTotal(SubSeq(s, 1, a)) = DepthOf(s, a - 1)
<1> DEFINE t == SubSeq(s, 1, a)
           w == OwnedSizes(t, {Public0})
           v == [j \in DOMAIN s |-> s[j].size]
<1>1. a \in 1 .. Len(s) /\ Len(s) \in Nat /\ DOMAIN s = 1 .. Len(s)
  BY EntryFields
<1>2. t \in Seq(Entries) /\ Len(t) = a /\ DOMAIN t = 1 .. a /\ \A i \in 1 .. a : t[i] = s[i]
  <2>1. \A i \in 1 .. Len(s) : s[i] \in Entries
    BY <1>1, EntryFields
  <2> QED
    BY <1>1, <2>1
<1> HIDE DEF t
<1>3. PublicTotal(t) = Total(w, 1 .. a) /\ \A i \in 1 .. a : w[i] \in Nat
  BY <1>2, SumSizesIs DEF PublicTotal
<1>4. w[a] = 0 /\ \A i \in 1 .. (a - 1) : w[i] = v[i]
  <2>1. w[a] = 0
    BY <1>1, <1>2 DEF OwnedSizes
  <2>2. ASSUME NEW i \in 1 .. (a - 1) PROVE w[i] = v[i]
    <3>1. i \in DOMAIN s /\ i \in 1 .. a /\ i # a
      BY <1>1
    <3>2. s[i].owner = Public0
      BY <3>1
    <3> QED
      BY <1>2, <3>1, <3>2 DEF OwnedSizes
  <2> QED
    BY <2>1, <2>2
<1>5. DepthOf(s, a - 1) = Total(v, 1 .. (a - 1))
  BY DEF DepthOf
<1> HIDE DEF w, v
<1>6. Total(w, 1 .. a) = Total(w, 1 .. (a - 1)) + w[a] /\ Total(w, 1 .. (a - 1)) \in Int
  <2>1. a \in Nat /\ a \in 1 .. a /\ a - 1 \in 0 .. a /\ \A i \in 1 .. a : w[i] \in Int
    BY <1>1, <1>3
  <2> QED
    BY <2>1, TotalSteps
<1>7. Total(w, 1 .. (a - 1)) = Total(v, 1 .. (a - 1))
  <2>1. a - 1 \in Nat
    BY <1>1
  <2> QED
    BY <1>4, <2>1, SameUpTo
<1> QED
  BY <1>3, <1>4, <1>5, <1>6, <1>7 DEF t

\* A trade takes its own volume from the queue.
LEMMA TradeTakes ==
    ASSUME NEW s \in Seq(Entries), NEW n \in Nat, n <= Volume(s)
    PROVE  Volume(AfterTaking(s, n)) = Volume(s) - n
<1> DEFINE t == AfterTaking(s, n)
           g == Used(s, n)
<1>1. t \in Seq(Entries) /\ Len(t) = Len(s) - g /\ g \in 0 .. Len(s) /\ Len(s) \in Nat
  BY AfterTakingFields, UsedIsPrefix, EntryFields
<1>2. \A j \in 0 .. Len(t) : DepthOf(t, j) = Floor0(DepthOf(s, j + g) - n)
  BY DepthAfter
<1> HIDE DEF t, g
<1>3. Len(t) \in 0 .. Len(t) /\ Len(t) + g = Len(s)
  BY <1>1
<1>4. DepthOf(t, Len(t)) = Floor0(DepthOf(s, Len(s)) - n)
  BY <1>2, <1>3
<1>5. /\ Volume(t) = DepthOf(t, Len(t)) /\ Volume(s) = DepthOf(s, Len(s)) /\ Volume(s) \in Nat
  BY <1>1, VolumeIsDepth
<1>6. Floor0(Volume(s) - n) = Volume(s) - n
  BY <1>5 DEF Floor0, Larger
<1> QED
  BY <1>4, <1>5, <1>6 DEF t

-----------------------------------------------------------------------------
\* A sell that walks our orders at the level.

OurBook(b) ==
    /\ IsBook(b) /\ DOMAIN b.orders \subseteq Oids
    /\ \A o \in DOMAIN b.orders : b.orders[o].side = "bid" /\ b.orders[o].price = Price
    /\ \A o, p \in DOMAIN b.orders : b.orders[o].rank = b.orders[p].rank => o = p

Sell(b, n) == Walk(b, Price, n, "SELL")

FillIn(b, n, o) == FillOfOrder(b, Price, n, "SELL", o)

LEMMA AllHit ==
    ASSUME NEW b, OurBook(b), NEW o \in DOMAIN b.orders
    PROVE  Hits(b, b.orders[o], Price, "SELL")
<1>1. Price \in Nat
  BY QueueAssumption, PricesAssumption
<1>2. b.orders[o].side = "bid" /\ b.orders[o].price = Price
  BY DEF OurBook
<1>3. Price >= Price
  BY <1>1
<1> QED
  BY <1>2, <1>3 DEF Hits, SideHitBy, SameTickLevel

\* What the walk does when it comes to an order of ours.
LEMMA WalkAtOrder ==
    ASSUME NEW b, OurBook(b), NEW n \in Nat, NEW o \in DOMAIN b.orders
    PROVE  LET k == b.orders[o]
               r == k.rank
               before == Sell(b, n)[r - 1].left
               front == QueueAt(b, Sell(b, n), k)
           IN  /\ r \in 1 .. b.joined /\ b.joined \in Nat /\ k.size \in Nat \ {0}
               /\ before \in Nat /\ front \in Nat
               /\ FillIn(b, n, o) = IF before > 0 THEN FillOf(front, before, k.size) ELSE 0
               /\ Sell(b, n)[r].left =
                    IF before > 0 THEN before - TakenAt(front, before, k.size) ELSE before
<1> DEFINE k == b.orders[o]
           r == k.rank
           walk == Sell(b, n)
           w == walk[r - 1]
           before == w.left
           front == QueueAt(b, walk, k)
           next == {x \in DOMAIN b.orders :
                      /\ b.orders[x].rank = r
                      /\ w.left > 0
                      /\ Hits(b, b.orders[x], Price, "SELL")}
<1>1. IsBook(b) /\ k \in RestingOrders /\ r <= b.joined /\ b.joined \in Nat
  BY DEF OurBook, IsBook
<1>2. r \in 1 .. b.joined /\ k.size \in Nat \ {0} /\ k.price \in Prices
  BY <1>1 DEF RestingOrders
<1>3. IsWalk(walk, b, Price, n, "SELL", b.joined) /\ \A i \in 0 .. b.joined : walk[i] \in Walking
  BY <1>1, WalkDef, WalkTyped DEF Sell
<1>4. w \in Walking
  <2>1. r - 1 \in 0 .. b.joined
    BY <1>1, <1>2
  <2> QED
    BY <1>3, <2>1
<1>5. before \in Nat /\ w.eaten[k.price] \in Nat
  BY <1>2, <1>4 DEF Walking, Depths
<1>6. front = QueueRemaining(b, k, w.eaten[k.price]) /\ front \in Nat
  BY <1>1, <1>5, QueueIsNat DEF QueueAt
<1>7. Hits(b, k, Price, "SELL")
  BY AllHit
<1>8. FillIn(b, n, o) = IF before > 0 THEN FillOf(front, before, k.size) ELSE 0
  BY <1>7 DEF FillIn, FillOfOrder, FillAt, Reached, Sell
<1>9. walk[r] = WalkStep(b, Price, "SELL", w, r)
  <2>1. r \in 0 .. b.joined /\ r # 0
    BY <1>2
  <2> QED
    BY <1>3, <2>1 DEF IsWalk
<1>10. next = IF before > 0 THEN {o} ELSE {}
  <2>1. \A x \in DOMAIN b.orders : b.orders[x].rank = r => x = o
    BY DEF OurBook
  <2> QED
    BY <1>7, <2>1
<1>11. walk[r].left = IF before > 0 THEN before - TakenAt(front, before, k.size) ELSE before
  <2>1. CASE before > 0
    <3>1. next = {o} /\ next # {} /\ (CHOOSE x \in next : TRUE) = o
      BY <1>10, <2>1
    <3>2. walk[r] = [left  |-> w.left - TakenAt(QueueRemaining(b, k, w.eaten[k.price]), w.left, k.size),
                     eaten |-> [w.eaten EXCEPT ![k.price] = @ + TakenAt(QueueRemaining(b, k, w.eaten[k.price]), w.left, k.size)]]
      BY <1>9, <3>1 DEF WalkStep
    <3> HIDE DEF w, front, k
    <3>3. walk[r].left = w.left - TakenAt(front, w.left, k.size)
      BY <1>6, <3>2
    <3> QED
      BY <2>1, <3>3
  <2>2. CASE ~(before > 0)
    BY <1>9, <1>10, <2>2 DEF WalkStep
  <2> QED
    BY <2>1, <2>2
<1> QED
  BY <1>1, <1>2, <1>5, <1>6, <1>8, <1>11

\* What remains of the trade only shrinks along the walk.
LEMMA LeftFalls ==
    ASSUME NEW b, OurBook(b), NEW n \in Nat
    PROVE  /\ Sell(b, n)[0].left = n
           /\ \A i \in 0 .. b.joined : Sell(b, n)[i].left \in Nat
           /\ \A j \in 0 .. b.joined : \A i \in 0 .. j : Sell(b, n)[j].left <= Sell(b, n)[i].left
<1> DEFINE walk == Sell(b, n)
           m == b.joined
<1>1. IsBook(b) /\ m \in Nat
  BY DEF OurBook, IsBook
<1>2. IsWalk(walk, b, Price, n, "SELL", m) /\ \A i \in 0 .. m : walk[i] \in Walking
  BY <1>1, WalkDef, WalkTyped DEF Sell
<1> HIDE DEF walk
<1>3. walk[0].left = n
  BY <1>1, <1>2 DEF IsWalk, WalkStart
<1>4. \A i \in 0 .. m : walk[i].left \in Nat
  BY <1>2 DEF Walking
<1>5. ASSUME NEW i \in 1 .. m PROVE walk[i].left <= walk[i - 1].left
  <2>1. i \in 0 .. m /\ i # 0 /\ i - 1 \in 0 .. m
    BY <1>1
  <2>2. walk[i] = WalkStep(b, Price, "SELL", walk[i - 1], i)
    BY <1>2, <2>1 DEF IsWalk
  <2>3. walk[i - 1].left \in Nat /\ walk[i].left \in Nat
    BY <1>4, <2>1
  <2>4. CASE \E o \in DOMAIN b.orders : b.orders[o].rank = i
    <3>1. PICK o \in DOMAIN b.orders : b.orders[o].rank = i
      BY <2>4
    <3> DEFINE k == b.orders[o]
               before == walk[k.rank - 1].left
               front == QueueAt(b, walk, k)
    <3>2. /\ k.size \in Nat \ {0} /\ before \in Nat /\ front \in Nat
          /\ walk[k.rank].left =
               IF before > 0 THEN before - TakenAt(front, before, k.size) ELSE before
      BY WalkAtOrder DEF walk
    <3>3. before = walk[i - 1].left /\ walk[k.rank] = walk[i]
      BY <3>1
    <3> HIDE DEF before, front, k
    <3>4. TakenAt(front, before, k.size) \in 0 .. before
      BY <3>2, TakenWithinTrade
    <3> QED
      BY <3>2, <3>3, <3>4
  <2>5. CASE ~(\E o \in DOMAIN b.orders : b.orders[o].rank = i)
    <3>1. walk[i] = walk[i - 1]
      BY <2>2, <2>5 DEF WalkStep
    <3> QED
      BY <2>3, <3>1
  <2> QED
    BY <2>4, <2>5
<1> DEFINE Good == {j \in Nat : j <= m => \A i \in 0 .. j : walk[j].left <= walk[i].left}
<1>6. 0 \in Good
  <2>1. \A i \in 0 .. 0 : i = 0
    OBVIOUS
  <2>2. walk[0].left <= walk[0].left
    BY <1>3
  <2> QED
    BY <2>1, <2>2
<1>7. ASSUME NEW j \in Nat, j \in Good PROVE j + 1 \in Good
  <2> SUFFICES ASSUME j + 1 <= m, NEW i \in 0 .. (j + 1)
               PROVE  walk[j + 1].left <= walk[i].left
    OBVIOUS
  <2> DEFINE k == j + 1
  <2>1. \A l \in 0 .. j : walk[j].left <= walk[l].left
    BY <1>1, <1>7
  <2>2. k \in 1 .. m /\ k - 1 = j /\ j \in 0 .. m /\ i \in 0 .. m /\ k \in 0 .. m
        /\ (i \in 0 .. j \/ i = k)
    <3> HIDE DEF Good
    <3> QED
      BY <1>1
  <2> HIDE DEF k, Good
  <2>3. walk[k].left <= walk[j].left
    BY <1>5, <2>2
  <2>4. walk[k].left \in Nat /\ walk[j].left \in Nat /\ walk[i].left \in Nat
    BY <1>4, <2>2
  <2>5. i \in 0 .. j => walk[j].left <= walk[i].left
    BY <2>1
  <2>6. walk[k].left <= walk[i].left
    BY <2>2, <2>3, <2>4, <2>5
  <2> QED
    BY <2>6 DEF k
<1>8. \A j \in Nat : j \in Good
  <2>1. \A j \in Nat : j \in Good => j + 1 \in Good
    BY <1>7
  <2> HIDE DEF Good
  <2> QED
    BY <1>6, <2>1, InductionOverNat
<1>9. \A j \in 0 .. m : \A i \in 0 .. j : walk[j].left <= walk[i].left
  BY <1>1, <1>8
<1> QED
  BY <1>3, <1>4, <1>9 DEF walk

\* A trade passes an order only when it has filled it: while one is left,
\* those that joined after it get nothing.
LEMMA EarlierFirst ==
    ASSUME NEW b, OurBook(b), NEW n \in Nat,
           NEW o \in DOMAIN b.orders, NEW p \in DOMAIN b.orders,
           b.orders[o].rank < b.orders[p].rank,
           FillIn(b, n, o) # b.orders[o].size
    PROVE  FillIn(b, n, p) = 0
<1> DEFINE walk == Sell(b, n)
           r == b.orders[o].rank
           q == b.orders[p].rank
           size == b.orders[o].size
           before == walk[r - 1].left
           front == QueueAt(b, walk, b.orders[o])
<1>1. /\ r \in 1 .. b.joined /\ b.joined \in Nat /\ size \in Nat \ {0}
      /\ before \in Nat /\ front \in Nat
      /\ FillIn(b, n, o) = IF before > 0 THEN FillOf(front, before, size) ELSE 0
      /\ walk[r].left = IF before > 0 THEN before - TakenAt(front, before, size) ELSE before
  BY WalkAtOrder
<1>2. /\ q \in 1 .. b.joined /\ walk[q - 1].left \in Nat
      /\ walk[q - 1].left > 0 \/ FillIn(b, n, p) = 0
  BY WalkAtOrder
<1> HIDE DEF walk, r, q, size, before, front
<1>3. FillIn(b, n, o) # size /\ r < q
  BY DEF size, r, q
<1>4. walk[r].left = 0
  BY <1>1, <1>3 DEF FillOf, TakenAt, Smaller
<1>5. walk[q - 1].left <= walk[r].left
  <2>1. q - 1 \in 0 .. b.joined /\ r \in 0 .. (q - 1)
    BY <1>1, <1>2, <1>3
  <2> QED
    BY <2>1, LeftFalls DEF walk
<1> QED
  BY <1>2, <1>4, <1>5

\* Our only order meets the whole trade and nothing eaten.
LEMMA WalkAlone ==
    ASSUME NEW b, OurBook(b), NEW n \in Nat, NEW o \in DOMAIN b.orders,
           \A p \in DOMAIN b.orders : p = o
    PROVE  Sell(b, n)[b.orders[o].rank - 1] = WalkStart(n)
<1> DEFINE walk == Sell(b, n)
           m == b.joined
           r == b.orders[o].rank
<1>1. IsBook(b) /\ m \in Nat /\ r \in 1 .. m
  BY WalkAtOrder DEF OurBook, IsBook
<1>2. IsWalk(walk, b, Price, n, "SELL", m)
  BY <1>1, WalkDef DEF Sell
<1> HIDE DEF walk, m
<1> DEFINE Good == {i \in Nat : i < r => walk[i] = WalkStart(n)}
<1>3. 0 \in Good
  BY <1>1, <1>2 DEF IsWalk
<1>4. ASSUME NEW i \in Nat, i \in Good PROVE i + 1 \in Good
  <2> SUFFICES ASSUME i + 1 < r PROVE walk[i + 1] = WalkStart(n)
    OBVIOUS
  <2> DEFINE k == i + 1
  <2>1. k \in 0 .. m /\ k # 0 /\ k - 1 = i /\ k # r /\ i < r
    <3>1. r \in 1 .. m /\ m \in Nat
      BY <1>1
    <3> HIDE DEF Good, r
    <3> QED
      BY <3>1
  <2>2. walk[i] = WalkStart(n)
    BY <1>4, <2>1
  <2> HIDE DEF k, Good
  <2>3. walk[k] = WalkStep(b, Price, "SELL", walk[k - 1], k)
    BY <1>2, <2>1 DEF IsWalk
  <2>4. \A p \in DOMAIN b.orders : b.orders[p].rank # k
    BY <2>1
  <2>5. walk[k] = walk[k - 1]
    BY <2>3, <2>4 DEF WalkStep
  <2> QED
    BY <2>1, <2>2, <2>5 DEF k
<1>5. \A i \in Nat : i \in Good
  <2>1. \A i \in Nat : i \in Good => i + 1 \in Good
    BY <1>4
  <2> HIDE DEF Good
  <2> QED
    BY <1>3, <2>1, InductionOverNat
<1>6. r - 1 \in Nat /\ r - 1 < r
  BY <1>1
<1>7. walk[r - 1] = WalkStart(n)
  BY <1>5, <1>6
<1> QED
  BY <1>7 DEF walk

\* All our orders together get no more than the trade.
LEMMA FillsWithin ==
    ASSUME NEW b, OurBook(b), NEW n \in Nat
    PROVE  Total([o \in DOMAIN b.orders |-> FillIn(b, n, o)], DOMAIN b.orders) <= n
<1> DEFINE f == [o \in DOMAIN b.orders |-> FillIn(b, n, o)]
           D == DOMAIN b.orders
           walk == Sell(b, n)
           m == b.joined
           Upto(i) == {o \in D : b.orders[o].rank <= i}
<1>1. m \in Nat /\ IsFiniteSet(D)
  <2>1. IsFiniteSet(Oids)
    BY QueueAssumption
  <2> QED
    BY <2>1, FS_Subset DEF OurBook, IsBook
<1>2. \A o \in D : f[o] \in Nat /\ b.orders[o].rank \in 1 .. m
  <2> TAKE o \in D
  <2> DEFINE k == b.orders[o]
             before == walk[k.rank - 1].left
             front == QueueAt(b, walk, k)
  <2>1. /\ k.rank \in 1 .. m /\ k.size \in Nat \ {0} /\ before \in Nat /\ front \in Nat
        /\ FillIn(b, n, o) = IF before > 0 THEN FillOf(front, before, k.size) ELSE 0
    BY WalkAtOrder
  <2> HIDE DEF before, front
  <2>2. FillOf(front, before, k.size) \in Nat
    <3> HIDE DEF k
    <3>1. FillOf(front, before, k.size) \in 0 .. k.size
      BY <2>1, TakenWithinTrade
    <3> QED
      BY <2>1, <3>1
  <2> QED
    BY <2>1, <2>2
<1>3. /\ walk[0].left = n
      /\ \A i \in 0 .. m : walk[i].left \in Nat
      /\ \A i \in 0 .. m : \A j \in 0 .. i : walk[i].left <= walk[j].left
  BY LeftFalls
<1> DEFINE rank(o) == b.orders[o].rank
<1>3a. \A o \in D : rank(o) \in 1 .. m
  BY <1>2
<1>3b. \A i : Upto(i) = {o \in D : rank(o) <= i}
  OBVIOUS
<1>3c. \A i, o : o \in Upto(i) => o \in D
  OBVIOUS
<1> HIDE DEF rank, Upto, m, D, f, walk
<1> DEFINE Good == {i \in Nat : i <= m => Total(f, Upto(i)) <= n - walk[i].left}
<1>4. 0 \in Good
  <2>1. Upto(0) = {}
    BY <1>1, <1>3a, <1>3b
  <2>2. Total(f, Upto(0)) = 0
    BY <2>1, TotalEmpty
  <2>3. 0 <= n - walk[0].left
    BY <1>3
  <2> QED
    BY <2>2, <2>3
<1>5. ASSUME NEW i \in Nat, i \in Good PROVE i + 1 \in Good
  <2> SUFFICES ASSUME i + 1 <= m PROVE Total(f, Upto(i + 1)) <= n - walk[i + 1].left
    OBVIOUS
  <2> DEFINE k == i + 1
             U == Upto(i)
             V == Upto(k)
  <2>1. k \in 0 .. m /\ i \in 0 .. m /\ k - 1 = i /\ i \in 0 .. k /\ i <= m
    <3> HIDE DEF Good
    <3> QED
      BY <1>1
  <2>2. Total(f, U) <= n - walk[i].left
    BY <1>5, <2>1
  <2>3. IsFiniteSet(U) /\ \A o \in U : f[o] \in Nat
    <3>1. U \subseteq D
      BY <1>3c
    <3> QED
      BY <1>1, <1>2, <3>1, FS_Subset
  <2>4. \A o \in D : rank(o) <= k <=> rank(o) <= i \/ rank(o) = k
    <3> TAKE o \in D
    <3>1. rank(o) \in Nat
      BY <1>1, <1>3a
    <3> HIDE DEF Good
    <3> QED
      BY <3>1
  <2> HIDE DEF k, Good
  <2>5. Total(f, U) \in Nat
    <3> HIDE DEF f, U
    <3> QED
      BY <2>3, TotalNat
  <2>6. walk[k].left \in Nat /\ walk[i].left \in Nat /\ walk[k].left <= walk[i].left
    BY <1>3, <2>1
  <2>7. CASE \E o \in D : rank(o) = k
    <3>1. PICK o \in D : rank(o) = k
      BY <2>7
    <3>2. V = U \cup {o}
      <4>1. \A x \in D : rank(x) = k => x = o
        BY <3>1 DEF OurBook, rank, D
      <4>2. \A x \in D : rank(x) <= k <=> rank(x) <= i \/ x = o
        BY <2>4, <3>1, <4>1
      <4> QED
        BY <1>3b, <3>1, <4>2
    <3>3. o \notin U
      <4>1. ~(k <= i)
        BY <2>1
      <4> QED
        BY <1>3b, <3>1, <4>1
    <3>4. \A x \in U \cup {o} : f[x] \in Int
      BY <1>2, <2>3
    <3>5. Total(f, V) = Total(f, U) + f[o]
      <4> HIDE DEF f, U, V
      <4> QED
        BY <2>3, <3>2, <3>3, <3>4, TotalAdds
    <3>6. f[o] <= walk[i].left - walk[k].left /\ f[o] \in Nat
      <4> DEFINE x == b.orders[o]
                 before == walk[x.rank - 1].left
                 front == QueueAt(b, walk, x)
      <4>1. /\ x.size \in Nat \ {0} /\ before \in Nat /\ front \in Nat
            /\ FillIn(b, n, o) = IF before > 0 THEN FillOf(front, before, x.size) ELSE 0
            /\ walk[x.rank].left =
                 IF before > 0 THEN before - TakenAt(front, before, x.size) ELSE before
        BY <3>1, WalkAtOrder DEF walk, D
      <4>2. before = walk[i].left /\ walk[x.rank] = walk[k] /\ f[o] = FillIn(b, n, o)
        BY <2>1, <3>1 DEF rank, f, D
      <4>3. f[o] \in Nat
        BY <1>2
      <4> HIDE DEF before, front, x, walk, f
      <4>4. FillOf(front, before, x.size) <= TakenAt(front, before, x.size)
            /\ TakenAt(front, before, x.size) \in Int
            /\ FillOf(front, before, x.size) \in Int
        BY <4>1 DEF TakenAt, FillOf, Smaller
      <4>5. FillIn(b, n, o) <= before - walk[x.rank].left
        BY <4>1, <4>4
      <4> QED
        BY <4>2, <4>3, <4>5
    <3> HIDE DEF U, V, f, walk
    <3>7. Total(f, V) <= n - walk[k].left
      BY <2>2, <2>5, <2>6, <3>5, <3>6
    <3> QED
      BY <3>7 DEF V, k
  <2>8. CASE ~(\E o \in D : rank(o) = k)
    <3>1. V = U
      BY <1>3b, <2>4, <2>8
    <3> HIDE DEF U, V, f, walk
    <3>2. Total(f, V) <= n - walk[k].left
      BY <2>2, <2>5, <2>6, <3>1
    <3> QED
      BY <3>2 DEF V, k
  <2> QED
    BY <2>7, <2>8
<1>6. m \in Good
  <2>1. \A i \in Nat : i \in Good => i + 1 \in Good
    BY <1>5
  <2> HIDE DEF Good
  <2> QED
    BY <1>1, <1>4, <2>1, InductionOverNat
<1>7. Upto(m) = D
  <2>1. \A o \in D : rank(o) <= m
    BY <1>1, <1>3a
  <2> HIDE DEF Good
  <2> QED
    BY <1>3b, <2>1
<1>8. Total(f, Upto(m)) <= n - walk[m].left
  <2>1. m <= m
    BY <1>1
  <2> QED
    BY <1>6, <2>1
<1> HIDE DEF Good
<1>9. Total(f, D) \in Nat /\ walk[m].left \in Nat
  <2>1. m \in 0 .. m
    BY <1>1
  <2>2. \A o \in D : f[o] \in Nat
    BY <1>2
  <2> HIDE DEF f, D
  <2> QED
    BY <1>1, <1>3, <2>1, <2>2, TotalNat
<1> HIDE DEF f, D, Upto, walk
<1>10. Total(f, D) <= n
  BY <1>7, <1>8, <1>9
<1> QED
  BY <1>10 DEF f, D

\* What a sell leaves of the book: our orders, less their fills.
LEMMA SellOnBook ==
    ASSUME NEW b, OurBook(b), NEW n \in Nat
    PROVE  LET c     == BookAfterTrade(b, Price, n, "SELL")
               fills == TradeFills(b, Price, n, "SELL")
           IN  /\ OurBook(c) /\ c.bids = b.bids /\ c.joined = b.joined
               /\ DOMAIN c.orders = {o \in DOMAIN b.orders : FillIn(b, n, o) # b.orders[o].size}
               /\ \A o \in DOMAIN b.orders : FillIn(b, n, o) \in 0 .. b.orders[o].size
               /\ \A o \in DOMAIN c.orders :
                     /\ c.orders[o].rank = b.orders[o].rank
                     /\ c.orders[o].size = b.orders[o].size - FillIn(b, n, o)
                     /\ c.orders[o] = AfterTrade(b, Price, n, "SELL", o)
               /\ DOMAIN fills = {o \in DOMAIN b.orders : FillIn(b, n, o) > 0}
               /\ \A o \in DOMAIN fills : fills[o].size = FillIn(b, n, o)
<1> DEFINE f == [o \in DOMAIN b.orders |-> FillIn(b, n, o)]
           after == [o \in DOMAIN b.orders |-> AfterTrade(b, Price, n, "SELL", o)]
           rest == {x \in DOMAIN b.orders : after[x].size > 0}
           kept == [o \in rest |-> after[o]]
           c == BookAfterTrade(b, Price, n, "SELL")
           fills == TradeFills(b, Price, n, "SELL")
<1>1. c = [b EXCEPT !.orders = kept]
  BY DEF BookAfterTrade, AfterTrade
<1>2. /\ DOMAIN fills = {x \in DOMAIN b.orders : f[x] > 0}
      /\ \A o \in DOMAIN fills : fills[o].size = f[o]
  BY DEF TradeFills, FillOfOrder, FillIn
<1>3. ASSUME NEW o \in DOMAIN b.orders
      PROVE  /\ b.orders[o].size \in Nat
             /\ f[o] \in 0 .. b.orders[o].size
             /\ SameOrder(b.orders[o], after[o])
             /\ after[o].size = b.orders[o].size - f[o]
  <2>1. b.orders[o] \in RestingOrders /\ IsBook(b)
    BY DEF IsBook, OurBook
  <2> QED
    BY <2>1, TradeOnOrder DEF FillIn, RestingOrders
<1>4. IsBook(c)
  BY TradeOnBook DEF OurBook
<1>5. \A o \in DOMAIN b.orders : f[o] = FillIn(b, n, o) /\ after[o] = AfterTrade(b, Price, n, "SELL", o)
  OBVIOUS
<1>6. DOMAIN kept = rest /\ (\A o \in rest : kept[o] = after[o]) /\ rest \subseteq DOMAIN b.orders
  OBVIOUS
<1>7. c.orders = kept /\ c.bids = b.bids /\ c.joined = b.joined
  <2> HIDE DEF kept, c
  <2>1. IsRecord(b)
    BY DEF OurBook, IsBook
  <2> QED
    BY <1>1, <2>1 DEF IsRecord
<1> HIDE DEF f, after, c, fills, kept
<1>8. \A o \in DOMAIN b.orders : after[o].size > 0 <=> f[o] # b.orders[o].size
  <2> TAKE o \in DOMAIN b.orders
  <2> QED
    BY <1>3
<1>9. rest = {o \in DOMAIN b.orders : f[o] # b.orders[o].size}
  BY <1>8
<1> HIDE DEF rest
<1>10. \A o \in rest : /\ c.orders[o] = after[o] /\ after[o].rank = b.orders[o].rank
                       /\ after[o].side = b.orders[o].side /\ after[o].price = b.orders[o].price
  BY <1>3, <1>6, <1>7 DEF SameOrder
<1>11. OurBook(c)
  <2>1. DOMAIN c.orders = rest
    BY <1>6, <1>7
  <2>2. \A o \in rest : c.orders[o].side = "bid" /\ c.orders[o].price = Price
    BY <1>6, <1>10 DEF OurBook
  <2>3. \A o, p \in rest : c.orders[o].rank = c.orders[p].rank => o = p
    <3> TAKE o, p \in rest
    <3>1. c.orders[o].rank = b.orders[o].rank /\ c.orders[p].rank = b.orders[p].rank
      BY <1>10
    <3> QED
      BY <1>6, <3>1 DEF OurBook
  <2>4. rest \subseteq Oids
    BY <1>6 DEF OurBook
  <2> QED
    BY <1>4, <2>1, <2>2, <2>3, <2>4 DEF OurBook
<1>12. \A o \in rest : c.orders[o].size = b.orders[o].size - f[o]
  BY <1>3, <1>6, <1>10
<1>13. DOMAIN c.orders = rest
  BY <1>6, <1>7
<1>14. /\ DOMAIN c.orders = {o \in DOMAIN b.orders : FillIn(b, n, o) # b.orders[o].size}
       /\ \A o \in DOMAIN b.orders : FillIn(b, n, o) \in 0 .. b.orders[o].size
       /\ DOMAIN fills = {o \in DOMAIN b.orders : FillIn(b, n, o) > 0}
       /\ \A o \in DOMAIN fills : fills[o].size = FillIn(b, n, o)
  BY <1>2, <1>3, <1>5, <1>9, <1>13
<1>15. \A o \in DOMAIN c.orders :
         /\ c.orders[o].rank = b.orders[o].rank
         /\ c.orders[o].size = b.orders[o].size - FillIn(b, n, o)
         /\ c.orders[o] = AfterTrade(b, Price, n, "SELL", o)
  BY <1>5, <1>6, <1>10, <1>12, <1>13
<1> QED
  BY <1>7, <1>11, <1>14, <1>15 DEF c, fills

\* The queue in front of an order, as the book sees it.
LEMMA PositionIs ==
    ASSUME NEW b, OurBook(b), NEW o \in DOMAIN b.orders
    PROVE  LET k == b.orders[o]
           IN  /\ QueuePosition(b, o) = Floor0(k.ahead - Floor0(k.level - b.bids[Price]))
               /\ k.ahead \in Nat /\ k.level \in Nat /\ b.bids[Price] \in Nat
               /\ QueuePosition(b, o) \in Nat
<1> DEFINE k == b.orders[o]
<1>1. k \in RestingOrders /\ k.side = "bid" /\ k.price = Price
  BY DEF OurBook, IsBook
<1>2. k.ahead \in Nat /\ k.level \in Nat /\ b.bids[Price] \in Nat
  BY <1>1, QueueAssumption DEF OurBook, IsBook, Depths, RestingOrders
<1>3. QueuePosition(b, o) = Floor0(k.ahead - (Floor0(k.level - b.bids[Price]) + 0))
  BY <1>1 DEF QueuePosition, QueueRemaining, Public
<1> HIDE DEF k
<1>4. Floor0(k.level - b.bids[Price]) \in Nat
  BY <1>2 DEF Floor0, Larger
<1>5. QueuePosition(b, o) = Floor0(k.ahead - Floor0(k.level - b.bids[Price]))
  BY <1>3, <1>4
<1>6. QueuePosition(b, o) \in Nat
  BY <1>2, <1>4, <1>5 DEF Floor0, Larger
<1> QED
  BY <1>2, <1>5, <1>6 DEF k

\* A sell and our only order: the queue in front of it goes first, and what
\* is left of the queue is measured from the level as it is now.
LEMMA SellOnOnlyOrder ==
    ASSUME NEW b, OurBook(b), NEW n \in Nat \ {0}, NEW o \in DOMAIN b.orders,
           \A p \in DOMAIN b.orders : p = o
    PROVE  LET c == BookAfterTrade(b, Price, n, "SELL")
               front == QueuePosition(b, o)
           IN  /\ FillIn(b, n, o) = FillOf(front, n, b.orders[o].size)
               /\ o \in DOMAIN c.orders => /\ c.orders[o].ahead = Floor0(front - n)
                                           /\ c.orders[o].level = b.bids[Price]
<1> DEFINE c == BookAfterTrade(b, Price, n, "SELL")
           k == b.orders[o]
           walk == Sell(b, n)
           front == QueuePosition(b, o)
<1>1. k \in RestingOrders /\ k.side = "bid" /\ k.price = Price
  BY DEF OurBook, IsBook
<1>2. walk[k.rank - 1] = WalkStart(n)
  BY WalkAlone
<1>3. walk[k.rank - 1].left = n /\ walk[k.rank - 1].eaten[Price] = 0
  BY <1>2, QueueAssumption DEF WalkStart
<1>4. QueueAt(b, walk, k) = front
  BY <1>1, <1>3 DEF QueueAt, QueuePosition
<1>5. FillIn(b, n, o) = FillOf(front, n, k.size)
  <2>1. FillIn(b, n, o) = IF walk[k.rank - 1].left > 0
                          THEN FillOf(QueueAt(b, walk, k), walk[k.rank - 1].left, k.size) ELSE 0
    BY WalkAtOrder
  <2> HIDE DEF walk, k, front
  <2> QED
    BY <1>3, <1>4, <2>1
<1>6. ASSUME o \in DOMAIN c.orders
      PROVE  c.orders[o].ahead = Floor0(front - n) /\ c.orders[o].level = b.bids[Price]
  <2>1. c.orders[o] = AfterTrade(b, Price, n, "SELL", o)
    BY <1>6, SellOnBook
  <2>2. Reached(b, walk, k, Price, "SELL")
    BY <1>3, AllHit DEF Reached
  <2> DEFINE x == k.size - FillAt(b, walk, k, Price, "SELL")
             y == Floor0(QueueAt(b, walk, k) - walk[k.rank - 1].left)
             z == Public(b, k.side, k.price)
  <2>3. AfterTrade(b, Price, n, "SELL", o) = [k EXCEPT !.size = x, !.ahead = y, !.level = z]
    BY <2>2 DEF AfterTrade, OrderAfterTrade, Sell
  <2>4. y = Floor0(front - n) /\ z = b.bids[Price]
    BY <1>1, <1>3, <1>4 DEF Public
  <2> HIDE DEF x, y, z, k
  <2>5. [k EXCEPT !.size = x, !.ahead = y, !.level = z].ahead = y
        /\ [k EXCEPT !.size = x, !.ahead = y, !.level = z].level = z
    BY <1>1 DEF RestingOrders
  <2> QED
    BY <2>1, <2>3, <2>4, <2>5
<1> QED
  BY <1>5, <1>6

-----------------------------------------------------------------------------
\* One more entry at the back.

LEMMA SumAppend ==
    ASSUME NEW s \in Seq(Entries), NEW e \in Entries, NEW owners
    PROVE  /\ Append(s, e) \in Seq(Entries) /\ Len(Append(s, e)) = Len(s) + 1
           /\ \A i \in DOMAIN s : Append(s, e)[i] = s[i]
           /\ Append(s, e)[Len(s) + 1] = e
           /\ SumSizes(Append(s, e), owners) =
                SumSizes(s, owners) + (IF e.owner \in owners THEN e.size ELSE 0)
<1> DEFINE t == Append(s, e)
           m == Len(s)
           v == OwnedSizes(s, owners)
           w == OwnedSizes(t, owners)
           x == IF e.owner \in owners THEN e.size ELSE 0
<1>1. /\ t \in Seq(Entries) /\ Len(t) = m + 1 /\ m \in Nat /\ DOMAIN t = 1 .. (m + 1)
      /\ DOMAIN s = 1 .. m /\ t[m + 1] = e
  BY EntryFields
<1>1a. \A i \in DOMAIN s : t[i] = s[i]
  BY <1>1
<1>2. /\ SumSizes(s, owners) = Total(v, 1 .. m) /\ SumSizes(t, owners) = Total(w, 1 .. (m + 1))
      /\ \A i \in 1 .. (m + 1) : w[i] \in Nat
      /\ SumSizes(s, owners) \in Nat
  BY <1>1, SumSizesIs
<1>3. w[m + 1] = x
  BY <1>1 DEF OwnedSizes
<1>4. \A i \in 1 .. m : v[i] = w[i]
  BY <1>1, <1>1a DEF OwnedSizes
<1> HIDE DEF t, m, v, w, x
<1>5. Total(v, 1 .. m) = Total(w, 1 .. m)
  BY <1>1, <1>4, SameUpTo
<1>6. /\ m + 1 \in Nat /\ m + 1 \in 1 .. (m + 1) /\ (m + 1) - 1 = m
      /\ \A i \in 1 .. (m + 1) : w[i] \in Int
  BY <1>1, <1>2
<1>7. Total(w, 1 .. (m + 1)) = Total(w, 1 .. m) + w[m + 1]
  BY <1>6, TotalSteps
<1> QED
  BY <1>1, <1>1a, <1>2, <1>3, <1>5, <1>7 DEF t, m, x

\* What is in front of an entry does not change when one joins behind it.
LEMMA DepthAppend ==
    ASSUME NEW s \in Seq(Entries), NEW e \in Entries
    PROVE  \A i \in 0 .. Len(s) : DepthOf(Append(s, e), i) = DepthOf(s, i)
<1> DEFINE t == Append(s, e)
           v == [j \in DOMAIN s |-> s[j].size]
           w == [j \in DOMAIN t |-> t[j].size]
<1>1. /\ Len(t) = Len(s) + 1 /\ t \in Seq(Entries)
      /\ \A i \in DOMAIN s : t[i] = s[i]
  BY SumAppend
<1>2. Len(s) \in Nat /\ DOMAIN s = 1 .. Len(s) /\ DOMAIN t = 1 .. (Len(s) + 1)
  BY <1>1, EntryFields
<1>3. \A i \in 1 .. Len(s) : v[i] = w[i]
  BY <1>1, <1>2
<1>4. \A i : DepthOf(t, i) = Total(w, 1 .. i) /\ DepthOf(s, i) = Total(v, 1 .. i)
  BY DEF DepthOf
<1> HIDE DEF t, v, w
<1>5. ASSUME NEW i \in 0 .. Len(s) PROVE DepthOf(t, i) = DepthOf(s, i)
  <2>1. i \in Nat /\ \A j \in 1 .. i : v[j] = w[j]
    BY <1>2, <1>3
  <2>2. Total(v, 1 .. i) = Total(w, 1 .. i)
    BY <2>1, SameUpTo
  <2> QED
    BY <2>2, <1>4
<1> QED
  BY <1>5 DEF t

-----------------------------------------------------------------------------
\* Our entries in the queue.

\* Each of our orders has at most one entry.
OneEach(s) ==
    \A i, j \in DOMAIN s : s[i].owner # Public0 /\ s[i].owner = s[j].owner => i = j

Owns(s, o) == \E i \in DOMAIN s : s[i].owner = o

\* An order of ours owns volume in the queue exactly when it has an entry.
LEMMA OwnVolume ==
    ASSUME NEW s \in Seq(Entries), OneEach(s), NEW o \in Oids
    PROVE  /\ SumSizes(s, {o}) \in Nat
           /\ Owns(s, o) <=> SumSizes(s, {o}) > 0
           /\ \A a \in DOMAIN s : s[a].owner = o => SumSizes(s, {o}) = s[a].size
<1>1. o # Public0
  BY QueueAssumption DEF Public0
<1>2. SumSizes(s, {o}) \in Nat
  BY SumSizesIs
<1>3. ASSUME NEW a \in DOMAIN s, s[a].owner = o
      PROVE  SumSizes(s, {o}) = s[a].size /\ s[a].size > 0
  <2>1. \A i \in DOMAIN s : s[i].owner = o => i = a
    BY <1>1, <1>3 DEF OneEach
  <2>2. SumSizes(s, {o}) = s[a].size
    BY <1>3, <2>1, OwnedByOne
  <2> QED
    BY <2>2, EntryFields
<1>4. ASSUME ~Owns(s, o) PROVE SumSizes(s, {o}) = 0
  <2>1. \A i \in DOMAIN s : s[i].owner # o
    BY <1>4 DEF Owns
  <2> QED
    BY <2>1, OwnedByNone
<1>5. Owns(s, o) => SumSizes(s, {o}) > 0
  <2> SUFFICES ASSUME NEW a \in DOMAIN s, s[a].owner = o PROVE SumSizes(s, {o}) > 0
    BY DEF Owns
  <2> QED
    BY <1>3
<1>6. Owns(s, o) <=> SumSizes(s, {o}) > 0
  BY <1>4, <1>5
<1> QED
  BY <1>2, <1>3, <1>6

\* A trade takes from our entry what reaches it, and moves it to the front by
\* the entries that are used up.
LEMMA OwnAfter ==
    ASSUME NEW s \in Seq(Entries), OneEach(s), NEW n \in Nat, NEW o \in Oids
    PROVE  LET t == AfterTaking(s, n)
               g == Used(s, n)
           IN  /\ OneEach(t)
               /\ SumSizes(t, {o}) \in 0 .. SumSizes(s, {o})
               /\ \A a \in DOMAIN s : s[a].owner = o =>
                     SumSizes(t, {o}) = Left(s, n, a)
               /\ \A c \in DOMAIN t : t[c].owner = o =>
                     /\ c + g \in DOMAIN s /\ s[c + g].owner = o
                     /\ DepthOf(t, c - 1) = Floor0(DepthOf(s, c + g - 1) - n)
<1> DEFINE t == AfterTaking(s, n)
           g == Used(s, n)
<1>1. /\ t \in Seq(Entries) /\ Len(t) = Len(s) - g
      /\ \A j \in 1 .. Len(t) : /\ j + g \in DOMAIN s
                                /\ t[j].owner = s[j + g].owner
                                /\ t[j].size = Left(s, n, j + g)
  BY AfterTakingFields
<1>2. /\ Len(s) \in Nat /\ DOMAIN s = 1 .. Len(s) /\ Len(t) \in Nat /\ DOMAIN t = 1 .. Len(t)
      /\ g \in 0 .. Len(s)
  BY <1>1, EntryFields, UsedIsPrefix
<1>3. \A i \in 1 .. Len(s) : Left(s, n, i) = 0 <=> i <= g
  BY UsedIsPrefix
<1>4. \A j \in 0 .. Len(t) : DepthOf(t, j) = Floor0(DepthOf(s, j + g) - n)
  BY DepthAfter
<1> HIDE DEF t, g
<1>5. OneEach(t)
  <2> SUFFICES ASSUME NEW i \in DOMAIN t, NEW j \in DOMAIN t,
                      t[i].owner # Public0, t[i].owner = t[j].owner
               PROVE  i = j
    BY DEF OneEach
  <2>1. /\ i + g \in DOMAIN s /\ j + g \in DOMAIN s
        /\ s[i + g].owner # Public0 /\ s[i + g].owner = s[j + g].owner
    BY <1>1, <1>2
  <2>2. i + g = j + g
    BY <2>1 DEF OneEach
  <2> QED
    BY <2>2, <1>2
<1>6. ASSUME NEW c \in DOMAIN t, t[c].owner = o
      PROVE  /\ c + g \in DOMAIN s /\ s[c + g].owner = o
             /\ DepthOf(t, c - 1) = Floor0(DepthOf(s, c + g - 1) - n)
  <2>1. c \in 1 .. Len(t) /\ c - 1 \in 0 .. Len(t)
    BY <1>2
  <2>2. (c - 1) + g = c + g - 1
    BY <2>1, <1>2
  <2> QED
    BY <1>1, <1>4, <1>6, <2>1, <2>2
<1>7. ASSUME NEW a \in DOMAIN s, s[a].owner = o
      PROVE  SumSizes(t, {o}) = Left(s, n, a) /\ Left(s, n, a) \in 0 .. SumSizes(s, {o})
  <2>1. o # Public0
    BY QueueAssumption DEF Public0
  <2>2. SumSizes(s, {o}) = s[a].size
    BY <1>7, OwnVolume
  <2>3. Left(s, n, a) \in 0 .. s[a].size
    BY <1>2, LeftIs
  <2>4. CASE a <= g
    <3>1. Left(s, n, a) = 0
      BY <1>2, <1>3, <2>4
    <3>2. ~Owns(t, o)
      <4> SUFFICES ASSUME NEW c \in DOMAIN t, t[c].owner = o PROVE FALSE
        BY DEF Owns
      <4>1. c + g \in DOMAIN s /\ s[c + g].owner = o /\ c \in 1 .. Len(t)
        BY <1>6, <1>2
      <4>2. c + g = a
        BY <4>1, <1>7, <2>1 DEF OneEach
      <4> QED
        BY <4>1, <4>2, <2>4, <1>2
    <3> QED
      BY <3>1, <3>2, <2>2, <2>3, <1>1, OwnedByNone DEF Owns
  <2>5. CASE ~(a <= g)
    <3> DEFINE c == a - g
    <3>1. c \in DOMAIN t /\ c \in 1 .. Len(t) /\ c + g = a
      BY <1>1, <1>2, <2>5
    <3> HIDE DEF c
    <3>2. t[c].owner = o /\ t[c].size = Left(s, n, a)
      BY <3>1, <1>1, <1>7
    <3> QED
      BY <3>1, <3>2, <1>1, <1>5, <2>2, <2>3, OwnVolume
  <2> QED
    BY <2>4, <2>5
<1>8. SumSizes(t, {o}) \in 0 .. SumSizes(s, {o})
  <2>1. CASE Owns(s, o)
    BY <2>1, <1>7 DEF Owns
  <2>2. CASE ~Owns(s, o)
    <3>1. ~Owns(t, o)
      BY <2>2, <1>6 DEF Owns
    <3>2. SumSizes(t, {o}) = 0
      BY <3>1, <1>1, OwnedByNone DEF Owns
    <3> QED
      BY <3>2, SumSizesIs
  <2> QED
    BY <2>1, <2>2
<1> QED
  BY <1>5, <1>6, <1>7, <1>8 DEF t, g

-----------------------------------------------------------------------------
\* A public entry leaves the queue.

\* The public's volume is at least what is in front of an entry, when all that
\* is in front is the public's.
LEMMA PublicCovers ==
    ASSUME NEW s \in Seq(Entries), NEW a \in DOMAIN s,
           \A i \in DOMAIN s : i < a => s[i].owner = Public0
    PROVE  DepthOf(s, a - 1) <= PublicTotal(s)
<1> DEFINE w == OwnedSizes(s, {Public0})
           v == [j \in DOMAIN s |-> s[j].size]
           m == Len(s)
           F == 1 .. (a - 1)
           G == a .. m
<1>1. /\ m \in Nat /\ DOMAIN s = 1 .. m /\ a \in 1 .. m
      /\ PublicTotal(s) = Total(w, 1 .. m) /\ \A i \in 1 .. m : w[i] \in Nat
  BY EntryFields, SumSizesIs DEF PublicTotal
<1>2. \A i \in F : v[i] = w[i]
  BY <1>1 DEF OwnedSizes
<1>3. DepthOf(s, a - 1) = Total(v, F)
  BY DEF DepthOf
<1> HIDE DEF w, v
<1>4. Total(v, F) = Total(w, F)
  <2>1. a - 1 \in Nat
    BY <1>1
  <2> QED
    BY <1>2, <2>1, SameUpTo
<1>5. 1 .. m = F \cup G /\ F \cap G = {}
  BY <1>1
<1>6. IsFiniteSet(F) /\ IsFiniteSet(G)
  <2>1. a - 1 \in Int /\ a \in Int /\ m \in Int
    BY <1>1
  <2> QED
    BY <2>1, FS_Interval
<1> HIDE DEF F, G, m
<1>7. \A i \in F \cup G : w[i] \in Nat /\ w[i] \in Int
  BY <1>1, <1>5
<1>8. Total(w, F \cup G) = Total(w, F) + Total(w, G)
  BY <1>5, <1>6, <1>7, TotalUnion
<1>9. Total(w, F) \in Nat /\ Total(w, G) \in Nat
  BY <1>6, <1>7, TotalNat
<1>10. PublicTotal(s) = Total(w, F) + Total(w, G) /\ DepthOf(s, a - 1) = Total(w, F)
  BY <1>1, <1>3, <1>4, <1>5, <1>8
<1> QED
  BY <1>9, <1>10

LEMMA WithoutFields ==
    ASSUME NEW s \in Seq(Entries), NEW i \in DOMAIN s
    PROVE  LET t == Without(s, i)
           IN  /\ t \in Seq(Entries) /\ Len(t) = Len(s) - 1
               /\ \A j \in DOMAIN t : /\ (IF j < i THEN j ELSE j + 1) \in DOMAIN s
                                      /\ t[j] = s[IF j < i THEN j ELSE j + 1]
<1> DEFINE m == Len(s)
           front == SubSeq(s, 1, i - 1)
           back == SubSeq(s, i + 1, m)
           t == Without(s, i)
<1>1. m \in Nat /\ DOMAIN s = 1 .. m /\ i \in 1 .. m /\ \A j \in 1 .. m : s[j] \in Entries
  BY EntryFields
<1>2. /\ front \in Seq(Entries) /\ Len(front) = i - 1
      /\ \A j \in 1 .. (i - 1) : front[j] = s[j]
  BY <1>1
<1>3. /\ back \in Seq(Entries) /\ Len(back) = m - i
      /\ \A j \in 1 .. (m - i) : back[j] = s[j + i]
  BY <1>1
<1>4. t = front \o back
  BY DEF Without
<1> HIDE DEF front, back, t, m
<1>5. /\ t \in Seq(Entries) /\ Len(t) = m - 1
      /\ \A j \in 1 .. (m - 1) : t[j] = IF j < i THEN front[j] ELSE back[j - (i - 1)]
  BY <1>1, <1>2, <1>3, <1>4
<1>6. ASSUME NEW j \in DOMAIN t
      PROVE  /\ (IF j < i THEN j ELSE j + 1) \in DOMAIN s
             /\ t[j] = s[IF j < i THEN j ELSE j + 1]
  <2>1. j \in 1 .. (m - 1)
    BY <1>1, <1>5
  <2>2. CASE j < i
    <3>1. j \in 1 .. (i - 1)
      BY <2>1, <2>2
    <3> QED
      BY <1>1, <1>2, <1>5, <2>1, <2>2, <3>1
  <2>3. CASE ~(j < i)
    <3> DEFINE k == j - (i - 1)
    <3>1. k \in 1 .. (m - i) /\ k + i = j + 1 /\ j + 1 \in 1 .. m
      BY <1>1, <2>1, <2>3
    <3>2. t[j] = back[k]
      BY <1>5, <2>1, <2>3
    <3> HIDE DEF k
    <3>3. back[k] = s[k + i]
      BY <1>3, <3>1
    <3> QED
      BY <1>1, <2>3, <3>1, <3>2, <3>3
  <2> QED
    BY <2>2, <2>3
<1> QED
  BY <1>5, <1>6 DEF t, m

\* It takes its volume from the front of those behind it and of no other.
LEMMA DepthWithout ==
    ASSUME NEW s \in Seq(Entries), NEW i \in DOMAIN s
    PROVE  LET t == Without(s, i)
           IN  /\ \A j \in 0 .. Len(t) : j < i => DepthOf(t, j) = DepthOf(s, j)
               /\ \A j \in 0 .. Len(t) :
                     j >= i - 1 => DepthOf(t, j) + s[i].size = DepthOf(s, j + 1)
<1> DEFINE t == Without(s, i)
           m == Len(s)
           v == [j \in DOMAIN s |-> s[j].size]
           w == [j \in DOMAIN t |-> t[j].size]
<1>1. /\ t \in Seq(Entries) /\ Len(t) = m - 1
      /\ \A j \in DOMAIN t : /\ (IF j < i THEN j ELSE j + 1) \in DOMAIN s
                             /\ t[j] = s[IF j < i THEN j ELSE j + 1]
  BY WithoutFields
<1>2. /\ m \in Nat /\ DOMAIN s = 1 .. m /\ i \in 1 .. m
      /\ DOMAIN t = 1 .. Len(t) /\ Len(t) \in Nat
  BY <1>1, EntryFields
<1>3. \A j : DepthOf(t, j) = Total(w, 1 .. j) /\ DepthOf(s, j) = Total(v, 1 .. j)
  BY DEF DepthOf
<1>4. \A j \in DOMAIN t : j < i => w[j] = v[j]
  BY <1>1
<1> HIDE DEF t, v, w, m
<1>5. ASSUME NEW j \in 0 .. Len(t), j < i PROVE DepthOf(t, j) = DepthOf(s, j)
  <2>1. j \in Nat /\ \A l \in 1 .. j : w[l] = v[l]
    BY <1>2, <1>4, <1>5
  <2>2. Total(w, 1 .. j) = Total(v, 1 .. j)
    BY <2>1, SameUpTo
  <2> QED
    BY <2>2, <1>3
<1> DEFINE Good == {j \in Nat : j <= Len(t) /\ j >= i - 1 =>
                                  DepthOf(t, j) + s[i].size = DepthOf(s, j + 1)}
<1>6. ASSUME NEW j \in Nat, j = i - 1, j <= Len(t) PROVE DepthOf(t, j) + s[i].size = DepthOf(s, j + 1)
  <2>1. j \in 0 .. Len(t) /\ j < i /\ j + 1 = i /\ i - 1 = j
    BY <1>2, <1>6
  <2>2. DepthOf(t, j) = DepthOf(s, j)
    BY <1>5, <2>1
  <2>3. DepthOf(s, i) = DepthOf(s, i - 1) + s[i].size
    BY <1>2, DepthSteps DEF m
  <2> QED
    BY <2>1, <2>2, <2>3
<1>7. 0 \in Good
  <2>1. 0 >= i - 1 => 0 = i - 1
    BY <1>2
  <2> QED
    BY <1>6, <2>1
<1>8. ASSUME NEW j \in Nat, j \in Good PROVE j + 1 \in Good
  <2> DEFINE k == j + 1
  <2> SUFFICES ASSUME k <= Len(t), k >= i - 1
               PROVE  DepthOf(t, k) + s[i].size = DepthOf(s, k + 1)
    OBVIOUS
  <2>1. CASE k = i - 1
    BY <1>6, <2>1
  <2>2. CASE k # i - 1
    <3>1. /\ k \in 1 .. Len(t) /\ k - 1 = j /\ j <= Len(t) /\ j >= i - 1 /\ ~(k < i)
          /\ k + 1 \in 1 .. m /\ (k + 1) - 1 = k /\ j \in 0 .. Len(t)
      BY <1>1, <1>2, <2>2
    <3>2. DepthOf(t, j) + s[i].size = DepthOf(s, k)
      BY <1>8, <3>1
    <3>3. t[k] = s[k + 1]
      BY <1>1, <1>2, <3>1
    <3> HIDE DEF k, Good
    <3>4. DepthOf(t, k) = DepthOf(t, k - 1) + t[k].size
      BY <1>1, <3>1, DepthSteps
    <3>5. DepthOf(s, k + 1) = DepthOf(s, (k + 1) - 1) + s[k + 1].size
      BY <3>1, DepthSteps DEF m
    <3>6. DepthOf(t, j) \in Nat /\ s[i].size \in Nat /\ s[k + 1].size \in Nat
      BY <1>1, <1>2, <3>1, DepthSteps, EntryFields
    <3>7. /\ DepthOf(t, k) = DepthOf(t, j) + s[k + 1].size
          /\ DepthOf(s, k + 1) = DepthOf(s, k) + s[k + 1].size
      BY <3>1, <3>3, <3>4, <3>5
    <3> QED
      BY <3>2, <3>6, <3>7
  <2> QED
    BY <2>1, <2>2
<1>9. \A j \in Nat : j \in Good
  <2>1. \A j \in Nat : j \in Good => j + 1 \in Good
    BY <1>8
  <2> HIDE DEF Good
  <2> QED
    BY <1>7, <2>1, InductionOverNat
<1>10. \A j \in 0 .. Len(t) : j >= i - 1 => DepthOf(t, j) + s[i].size = DepthOf(s, j + 1)
  BY <1>9
<1> QED
  BY <1>5, <1>10 DEF t

\* Our entries stay what they are when a public one leaves.
LEMMA OwnWithout ==
    ASSUME NEW s \in Seq(Entries), OneEach(s), NEW i \in DOMAIN s, s[i].owner = Public0
    PROVE  LET t == Without(s, i)
           IN  /\ t \in Seq(Entries) /\ OneEach(t)
               /\ \A o \in Oids : SumSizes(t, {o}) = SumSizes(s, {o})
               /\ \A c \in DOMAIN t :
                     LET a == IF c < i THEN c ELSE c + 1
                     IN  /\ a \in DOMAIN s /\ s[a].owner = t[c].owner
                         /\ DepthOf(t, c - 1) + (IF i < a THEN s[i].size ELSE 0) = DepthOf(s, a - 1)
<1> DEFINE t == Without(s, i)
           At(c) == IF c < i THEN c ELSE c + 1
<1>1. /\ t \in Seq(Entries) /\ Len(t) = Len(s) - 1
      /\ \A j \in DOMAIN t : At(j) \in DOMAIN s /\ t[j] = s[At(j)]
  BY WithoutFields
<1>2. /\ Len(s) \in Nat /\ DOMAIN s = 1 .. Len(s) /\ i \in 1 .. Len(s)
      /\ DOMAIN t = 1 .. Len(t) /\ Len(t) \in Nat
  BY <1>1, EntryFields
<1>3. /\ \A j \in 0 .. Len(t) : j < i => DepthOf(t, j) = DepthOf(s, j)
      /\ \A j \in 0 .. Len(t) : j >= i - 1 => DepthOf(t, j) + s[i].size = DepthOf(s, j + 1)
  BY DepthWithout
<1> HIDE DEF t
<1>4. \A c, d \in DOMAIN t : At(c) = At(d) => c = d
  BY <1>2
<1>5. \A a \in DOMAIN s : a # i => \E c \in DOMAIN t : At(c) = a
  <2> SUFFICES ASSUME NEW a \in DOMAIN s, a # i PROVE \E c \in DOMAIN t : At(c) = a
    OBVIOUS
  <2>1. CASE a < i
    <3>1. a \in DOMAIN t /\ At(a) = a
      BY <1>1, <1>2, <2>1
    <3> QED
      BY <3>1
  <2>2. CASE ~(a < i)
    <3>1. a - 1 \in DOMAIN t /\ At(a - 1) = a
      BY <1>1, <1>2, <2>2
    <3> QED
      BY <3>1
  <2> QED
    BY <2>1, <2>2
<1>6. ASSUME NEW c \in DOMAIN t
      PROVE  DepthOf(t, c - 1) + (IF i < At(c) THEN s[i].size ELSE 0) = DepthOf(s, At(c) - 1)
  <2>1. c - 1 \in 0 .. Len(t) /\ c \in Nat
    BY <1>2
  <2>2. CASE c < i
    <3>1. At(c) = c /\ ~(i < c) /\ c - 1 < i
      BY <1>2, <2>1, <2>2
    <3>2. DepthOf(t, c - 1) = DepthOf(s, c - 1) /\ DepthOf(t, c - 1) \in Nat
      BY <1>1, <1>3, <2>1, <3>1, DepthSteps
    <3> QED
      BY <3>1, <3>2
  <2>3. CASE ~(c < i)
    <3>1. /\ At(c) = c + 1 /\ i < c + 1 /\ c - 1 >= i - 1
          /\ (c - 1) + 1 = c /\ (c + 1) - 1 = c
      BY <1>2, <2>1, <2>3
    <3>2. DepthOf(t, c - 1) + s[i].size = DepthOf(s, (c - 1) + 1)
      BY <1>3, <2>1, <3>1
    <3> QED
      BY <3>1, <3>2
  <2> QED
    BY <2>2, <2>3
<1> HIDE DEF At
<1>7. OneEach(t)
  BY <1>1, <1>4 DEF OneEach
<1>8. ASSUME NEW o \in Oids PROVE SumSizes(t, {o}) = SumSizes(s, {o})
  <2>0. o # Public0
    BY QueueAssumption DEF Public0
  <2>1. CASE \E a \in DOMAIN s : s[a].owner = o
    <3>1. PICK a \in DOMAIN s : s[a].owner = o
      BY <2>1
    <3>2. PICK c \in DOMAIN t : At(c) = a
      BY <1>5, <2>0, <3>1
    <3>3. t[c].owner = o /\ t[c].size = s[a].size
      BY <1>1, <3>1, <3>2
    <3>4. SumSizes(s, {o}) = s[a].size
      BY <3>1, OwnVolume
    <3>5. SumSizes(t, {o}) = t[c].size
      BY <1>1, <1>7, <3>2, <3>3, OwnVolume
    <3> QED
      BY <3>3, <3>4, <3>5
  <2>2. CASE ~\E a \in DOMAIN s : s[a].owner = o
    <3>1. \A c \in DOMAIN t : t[c].owner # o
      BY <1>1, <2>2
    <3>2. SumSizes(s, {o}) = 0
      BY <2>2, OwnedByNone
    <3>3. SumSizes(t, {o}) = 0
      BY <1>1, <3>1, OwnedByNone
    <3> QED
      BY <3>2, <3>3
  <2> QED
    BY <2>1, <2>2
<1> QED
  BY <1>1, <1>6, <1>7, <1>8 DEF t, At

-----------------------------------------------------------------------------
\* The machine.

QueueTyped ==
    /\ queue \in Seq(Entries) /\ OneEach(queue)
    /\ trades \in Nat /\ levelsFollow \in BOOLEAN /\ stale \in BOOLEAN
    /\ OurBook(book)
    /\ estimated \in [Oids -> Nat] /\ actual \in [Oids -> Nat]
    /\ withdrawn \in [Oids -> Nat]

\* What the book shows at the level is what the public has there, as long as
\* every change was published.
LevelIsCurrent ==
    /\ ~levelsFollow => ~stale
    /\ ~stale /\ (trades = 0 \/ levelsFollow) => book.bids[Price] = PublicTotal(queue)

\* What the queue has given an order and still holds of it is what the book
\* says: the order's size.
Balanced(o) ==
    actual[o] + SumSizes(queue, {o}) = estimated[o] + RestingSize(book, o)

\* The size with which our order joined; 0 before.
Had(o) == estimated[o] + RestingSize(book, o)

\* o is the only order of ours that has joined.
Alone(o) == Had(o) > 0 /\ \A p \in Oids : Had(p) > 0 => p = o

\* The book is behind the queue by no more than was cancelled in front of o:
\* what it believes to be in front together with the fills it has not booked
\* exceeds what is in front, nothing if o has left the queue, by at most that.
NotBehind(o) ==
    LET held    == book.orders[o].ahead + actual[o]
        granted == estimated[o] + withdrawn[o]
    IN  o \in DOMAIN book.orders =>
           /\ \A a \in DOMAIN queue : queue[a].owner = o => held <= DepthOf(queue, a - 1) + granted
           /\ ~Owns(queue, o) => held <= granted

\* In a burst of trades it is never before the queue.  Until the first trade
\* the level has only moved with the public, so that what the estimate takes
\* off the queue ahead leaves at least the level; from then on the level stands.
NotEarly(o) ==
    /\ estimated[o] <= actual[o]
    /\ o \in DOMAIN book.orders =>
          /\ IF trades = 0 THEN book.orders[o].level <= book.orders[o].ahead
                           ELSE book.orders[o].level <= book.bids[Price]
          /\ \A a \in DOMAIN queue :
                queue[a].owner = o => DepthOf(queue, a - 1) <= book.orders[o].ahead

QueueSound ==
    /\ QueueTyped /\ LevelIsCurrent
    /\ \A o \in Oids : Balanced(o)
    /\ OwnTimePriority
    /\ \A o \in Oids : Alone(o) =>
          /\ actual[o] <= estimated[o] + withdrawn[o] /\ NotBehind(o)
          /\ ~levelsFollow => NotEarly(o)

\* What the balance says of one order.
LEMMA BalanceSays ==
    ASSUME QueueSound, NEW o \in Oids
    PROVE  /\ actual[o] \in Nat /\ estimated[o] \in Nat
           /\ RestingSize(book, o) \in Nat /\ SumSizes(queue, {o}) \in Nat
           /\ actual[o] + SumSizes(queue, {o}) = estimated[o] + RestingSize(book, o)
           /\ Had(o) = estimated[o] + RestingSize(book, o)
           /\ o \in DOMAIN book.orders <=> RestingSize(book, o) > 0
           /\ Owns(queue, o) <=> SumSizes(queue, {o}) > 0
           /\ Owns(queue, o) <=> o \in Waiting
           /\ o \in Joined <=> Had(o) > 0
<1>1. /\ actual[o] \in Nat /\ estimated[o] \in Nat
      /\ actual[o] + SumSizes(queue, {o}) = estimated[o] + RestingSize(book, o)
  BY DEF QueueSound, QueueTyped, Balanced
<1>2. /\ SumSizes(queue, {o}) \in Nat
      /\ Owns(queue, o) <=> SumSizes(queue, {o}) > 0
  BY OwnVolume DEF QueueSound, QueueTyped
<1>3. Owns(queue, o) <=> o \in Waiting
  BY DEF Owns, Waiting
<1>4. o \in DOMAIN book.orders => book.orders[o] \in RestingOrders
  BY DEF QueueSound, QueueTyped, OurBook, IsBook
<1>5. o \in DOMAIN book.orders => book.orders[o].size \in Nat \ {0}
  BY <1>4 DEF RestingOrders
<1>6. /\ RestingSize(book, o) \in Nat
      /\ o \in DOMAIN book.orders <=> RestingSize(book, o) > 0
  BY <1>5 DEF RestingSize
<1>7. o \in Joined <=> (SumSizes(queue, {o}) > 0 \/ actual[o] > 0 \/ RestingSize(book, o) > 0)
  BY <1>2, <1>3, <1>6 DEF Joined
<1>8. Had(o) = estimated[o] + RestingSize(book, o)
  BY DEF Had
<1>9. o \in Joined <=> Had(o) > 0
  BY <1>1, <1>2, <1>6, <1>7, <1>8
<1> QED
  BY <1>1, <1>2, <1>3, <1>6, <1>8, <1>9

\* An order that has not joined has no fill on either side.
LEMMA NotJoined ==
    ASSUME QueueSound, NEW o \in Oids, o \notin Joined
    PROVE  /\ actual[o] = 0 /\ estimated[o] = 0
           /\ o \notin DOMAIN book.orders /\ ~Owns(queue, o) /\ Had(o) = 0
<1>1. /\ actual[o] + SumSizes(queue, {o}) = estimated[o] + RestingSize(book, o)
      /\ Had(o) = estimated[o] + RestingSize(book, o)
      /\ actual[o] \in Nat /\ estimated[o] \in Nat
      /\ RestingSize(book, o) \in Nat /\ SumSizes(queue, {o}) \in Nat
  BY BalanceSays
<1>2. /\ o \in DOMAIN book.orders <=> RestingSize(book, o) > 0
      /\ Owns(queue, o) <=> SumSizes(queue, {o}) > 0
      /\ ~(Had(o) > 0)
  BY BalanceSays
<1>3. estimated[o] = 0 /\ RestingSize(book, o) = 0 /\ Had(o) = 0
  BY <1>1, <1>2
<1>4. actual[o] = 0 /\ SumSizes(queue, {o}) = 0
  BY <1>1, <1>3
<1> QED
  BY <1>2, <1>3, <1>4

\* With at most one order of ours joined, that order is alone.
LEMMA OneJoinedIsAlone ==
    ASSUME QueueSound, Cardinality(Joined) <= 1, NEW o \in Oids, o \in Joined
    PROVE  Alone(o)
<1>1. Joined \subseteq Oids
  BY DEF Joined, Waiting, QueueSound, QueueTyped, OurBook
<1>2. IsFiniteSet(Joined)
  BY <1>1, QueueAssumption, FS_Subset
<1>3. ASSUME NEW p \in Oids, p \in Joined PROVE p = o
  <2>1. Joined \ {o} = {}
    <3>1. Cardinality(Joined \ {o}) = Cardinality(Joined) - 1
      BY <1>2, FS_RemoveElement
    <3>2. IsFiniteSet(Joined \ {o})
      BY <1>2, FS_Subset
    <3>3. Cardinality(Joined) \in Nat /\ Cardinality(Joined \ {o}) \in Nat
      BY <1>2, <3>2, FS_CardinalityType
    <3>4. Cardinality(Joined \ {o}) = 0
      BY <3>1, <3>3
    <3> QED
      BY <3>2, <3>4, FS_EmptySet
  <2> QED
    BY <2>1, <1>3
<1> QED
  BY <1>3, BalanceSays DEF Alone

\* The volume in front of an order that is alone.
LEMMA AheadIs ==
    ASSUME QueueSound, NEW o \in Oids, Alone(o), NEW a \in DOMAIN queue, queue[a].owner = o
    PROVE  AheadOf(o) = DepthOf(queue, a - 1)
<1>1. o # Public0 /\ queue \in Seq(Entries) /\ OneEach(queue)
  BY QueueAssumption DEF Public0, QueueSound, QueueTyped
<1>2. ASSUME NEW i \in DOMAIN queue, queue[i].owner # Public0 PROVE i = a
  <2> DEFINE p == queue[i].owner
  <2>1. p \in Oids
    BY <1>1, <1>2, EntryFields
  <2>2. p \in Waiting
    BY <2>1 DEF Waiting
  <2>3. p = o
    BY <2>1, <2>2, BalanceSays DEF Alone, Joined
  <2> QED
    BY <2>3, <1>1, <1>2 DEF OneEach
<1>3. PublicTotal(SubSeq(queue, 1, a)) = DepthOf(queue, a - 1)
  BY <1>1, <1>2, PublicAhead
<1>4. (CHOOSE i \in DOMAIN queue : queue[i].owner = o) = a
  <2>1. \A i \in DOMAIN queue : queue[i].owner = o => i = a
    BY <1>1, <1>2
  <2> QED
    BY <2>1
<1> QED
  BY <1>3, <1>4 DEF AheadOf

\* An order that is alone has only the public's volume in front of it.
LEMMA PublicInFront ==
    ASSUME QueueSound, NEW o \in Oids, Alone(o), NEW a \in DOMAIN queue, queue[a].owner = o
    PROVE  DepthOf(queue, a - 1) <= PublicTotal(queue)
<1>1. o # Public0 /\ queue \in Seq(Entries) /\ OneEach(queue)
  BY QueueAssumption DEF Public0, QueueSound, QueueTyped
<1>2. ASSUME NEW i \in DOMAIN queue, i < a PROVE queue[i].owner = Public0
  <2> SUFFICES ASSUME queue[i].owner # Public0 PROVE FALSE
    OBVIOUS
  <2> DEFINE p == queue[i].owner
  <2>1. p \in Oids
    BY <1>1, EntryFields
  <2>2. p \in Waiting
    BY <2>1 DEF Waiting
  <2>3. p = o
    BY <2>1, <2>2, BalanceSays DEF Alone, Joined
  <2>4. i = a
    BY <2>3, <1>1 DEF OneEach
  <2>5. a \in Nat
    BY <1>1, EntryFields
  <2> QED
    BY <1>2, <2>4, <2>5
<1> QED
  BY <1>1, <1>2, PublicCovers

\* In a burst of trades the estimate covers what is really in front.
LEMMA EstimateCovers ==
    ASSUME QueueSound, ~levelsFollow, NEW o \in Oids, Alone(o), o \in DOMAIN book.orders,
           NEW a \in DOMAIN queue, queue[a].owner = o
    PROVE  DepthOf(queue, a - 1) <= QueuePosition(book, o)
<1> DEFINE ahead == book.orders[o].ahead
           level == book.orders[o].level
           shown == book.bids[Price]
           d     == DepthOf(queue, a - 1)
<1>1. d <= ahead /\ IF trades = 0 THEN level <= ahead ELSE level <= shown
  BY DEF QueueSound, NotEarly
<1>2. /\ QueuePosition(book, o) = Floor0(ahead - Floor0(level - shown))
      /\ ahead \in Nat /\ level \in Nat /\ shown \in Nat
  BY PositionIs DEF QueueSound, QueueTyped
<1>3. trades = 0 => d <= shown
  BY PublicInFront DEF QueueSound, LevelIsCurrent
<1>4. d \in Nat
  <2>1. a - 1 \in 0 .. Len(queue) /\ queue \in Seq(Entries)
    BY EntryFields DEF QueueSound, QueueTyped
  <2> QED
    BY <2>1, DepthSteps
<1> HIDE DEF ahead, level, shown, d
<1>5. d <= Floor0(ahead - Floor0(level - shown))
  BY <1>1, <1>2, <1>3, <1>4 DEF Floor0, Larger
<1> QED
  BY <1>2, <1>5 DEF d

-----------------------------------------------------------------------------
\* The properties follow.

LEMMA SoundIsExact == QueueSound => EstimateExact
<1> SUFFICES ASSUME QueueSound, ~levelsFollow, Cardinality(Joined) <= 1, NEW o \in Oids
             PROVE  /\ estimated[o] <= actual[o] /\ actual[o] <= estimated[o] + withdrawn[o]
                    /\ o \in DOMAIN book.orders /\ withdrawn[o] = 0 => o \in Waiting
                    /\ o \in Waiting =>
                          /\ o \in DOMAIN book.orders
                          /\ QueuePosition(book, o) \in AheadOf(o) .. (AheadOf(o) + withdrawn[o])
  BY DEF EstimateExact
<1>1. withdrawn[o] \in Nat
  BY DEF QueueSound, QueueTyped
<1>2. /\ actual[o] \in Nat /\ estimated[o] \in Nat
      /\ RestingSize(book, o) \in Nat /\ SumSizes(queue, {o}) \in Nat
      /\ actual[o] + SumSizes(queue, {o}) = estimated[o] + RestingSize(book, o)
      /\ o \in DOMAIN book.orders <=> RestingSize(book, o) > 0
      /\ Owns(queue, o) <=> SumSizes(queue, {o}) > 0
      /\ Owns(queue, o) <=> o \in Waiting
  BY BalanceSays
<1>3. CASE o \notin Joined
  <2>1. actual[o] = 0 /\ estimated[o] = 0 /\ o \notin DOMAIN book.orders /\ ~Owns(queue, o)
    BY <1>3, NotJoined
  <2> QED
    BY <1>1, <1>2, <2>1
<1>4. CASE o \in Joined
  <2>1. Alone(o)
    BY <1>4, OneJoinedIsAlone
  <2>2. actual[o] <= estimated[o] + withdrawn[o] /\ NotBehind(o) /\ NotEarly(o)
    BY <2>1 DEF QueueSound
  <2>3. estimated[o] <= actual[o]
    BY <2>2 DEF NotEarly
  <2>4. o \in DOMAIN book.orders /\ withdrawn[o] = 0 => o \in Waiting
    <3> SUFFICES ASSUME RestingSize(book, o) > 0, withdrawn[o] = 0
                 PROVE  SumSizes(queue, {o}) > 0
      BY <1>2
    <3> QED
      BY <1>2, <2>2, <2>3
  <2>5. ASSUME o \in Waiting
        PROVE  /\ o \in DOMAIN book.orders
               /\ QueuePosition(book, o) \in AheadOf(o) .. (AheadOf(o) + withdrawn[o])
    <3> DEFINE ahead == book.orders[o].ahead
               level == book.orders[o].level
               shown == book.bids[Price]
               front == QueuePosition(book, o)
               act   == actual[o]
               est   == estimated[o]
               w     == withdrawn[o]
    <3>1. PICK a \in DOMAIN queue : queue[a].owner = o
      BY <2>5 DEF Waiting
    <3>2. o \in DOMAIN book.orders
      <4>1. SumSizes(queue, {o}) > 0
        BY <2>5, <1>2
      <4>2. RestingSize(book, o) > 0
        BY <4>1, <1>2, <2>3
      <4> QED
        BY <4>2, <1>2
    <3>3. AheadOf(o) = DepthOf(queue, a - 1)
      BY <2>1, <3>1, AheadIs
    <3>4. PICK d \in Nat : d = DepthOf(queue, a - 1)
      <4>1. a - 1 \in 0 .. Len(queue) /\ queue \in Seq(Entries)
        BY EntryFields DEF QueueSound, QueueTyped
      <4> QED
        BY <4>1, DepthSteps
    <3>5. d <= front
      BY <2>1, <3>1, <3>2, <3>4, EstimateCovers
    <3>6. /\ front = Floor0(ahead - Floor0(level - shown)) /\ front \in Nat
          /\ ahead \in Nat /\ level \in Nat /\ shown \in Nat
      BY <3>2, PositionIs DEF QueueSound, QueueTyped
    <3>7. ahead + act <= d + (est + w)
      BY <2>2, <3>1, <3>2, <3>4 DEF NotBehind
    <3>8. act \in Nat /\ est \in Nat /\ w \in Nat /\ est <= act
      BY <1>1, <1>2, <2>3
    <3> HIDE DEF ahead, level, shown, front, act, est, w
    <3>9. front <= ahead
      BY <3>6 DEF Floor0, Larger
    <3>10. front \in d .. (d + w)
      BY <3>5, <3>6, <3>7, <3>8, <3>9
    <3> QED
      BY <3>2, <3>3, <3>4, <3>10 DEF front, w
  <2> QED
    BY <2>2, <2>3, <2>4, <2>5
<1> QED
  BY <1>3, <1>4

LEMMA SoundIsLateByWithdrawn == QueueSound => LateByWithdrawn
<1> SUFFICES ASSUME QueueSound, Cardinality(Joined) <= 1, NEW o \in Oids
             PROVE  actual[o] <= estimated[o] + withdrawn[o]
  BY DEF LateByWithdrawn
<1>1. CASE o \in Joined
  BY <1>1, OneJoinedIsAlone DEF QueueSound
<1>2. CASE o \notin Joined
  <2>1. actual[o] = 0 /\ estimated[o] = 0 /\ withdrawn[o] \in Nat
    BY <1>2, NotJoined DEF QueueSound, QueueTyped
  <2> QED
    BY <2>1
<1> QED
  BY <1>1, <1>2

-----------------------------------------------------------------------------
\* The level's size is published.

LEMMA LevelSet ==
    ASSUME NEW b, OurBook(b), NEW n \in Nat
    PROVE  LET c == ApplyPriceChange(b, "BUY", Price, n)
           IN  OurBook(c) /\ c.orders = b.orders /\ c.joined = b.joined /\ c.bids[Price] = n
<1> DEFINE bids == [b.bids EXCEPT ![Price] = n]
           c == [b EXCEPT !.bids = bids]
<1>1. /\ IsRecord(b) /\ b.bids \in Depths /\ Price \in Prices /\ n \in Nat
  BY QueueAssumption DEF OurBook, IsBook
<1>2. bids \in Depths /\ bids[Price] = n
  BY <1>1 DEF Depths
<1> HIDE DEF bids
<1>3. /\ IsRecord(c) /\ c.bids = bids /\ c.asks = b.asks /\ c.tick = b.tick
      /\ c.orders = b.orders /\ c.joined = b.joined
  BY <1>1 DEF IsRecord
<1>4. ApplyPriceChange(b, "BUY", Price, n) = c
  BY <1>1 DEF ApplyPriceChange, bids, IsRecord
<1> HIDE DEF c
<1>5. OurBook(c)
  BY <1>2, <1>3 DEF OurBook, IsBook
<1> QED
  BY <1>2, <1>3, <1>4, <1>5

-----------------------------------------------------------------------------
\* The first state.

LEMMA QueueInit == Init => QueueSound
<1> SUFFICES ASSUME Init PROVE QueueSound
  OBVIOUS
<1> DEFINE none == [p \in Prices |-> 0]
<1>1. /\ queue = << >> /\ trades = 0 /\ stale = FALSE /\ levelsFollow \in BOOLEAN
      /\ estimated = [o \in Oids |-> 0] /\ actual = [o \in Oids |-> 0]
      /\ withdrawn = [o \in Oids |-> 0]
      /\ book = [bids |-> none, asks |-> none, tick |-> 1, orders |-> << >>, joined |-> 0]
  BY DEF Init, NewBook
<1>2. queue \in Seq(Entries) /\ DOMAIN queue = {} /\ Len(queue) = 0
  BY <1>1
<1>3. none \in Depths /\ none[Price] = 0
  BY QueueAssumption DEF Depths
<1> HIDE DEF none
<1>4. /\ book.bids = none /\ book.asks = none /\ book.tick = 1 /\ book.joined = 0
      /\ book.orders = << >> /\ DOMAIN book.orders = {}
      /\ book.orders = [o \in DOMAIN book.orders |-> book.orders[o]]
  BY <1>1
<1>5. IsRecord(book)
  BY <1>1, <1>4 DEF IsRecord
<1>6. OurBook(book)
  BY <1>3, <1>4, <1>5 DEF OurBook, IsBook
<1>7. QueueTyped
  <2>1. OneEach(queue)
    BY <1>2 DEF OneEach
  <2>2. /\ estimated \in [Oids -> Nat] /\ actual \in [Oids -> Nat]
        /\ withdrawn \in [Oids -> Nat]
    BY <1>1
  <2>3. trades \in Nat /\ stale \in BOOLEAN /\ levelsFollow \in BOOLEAN
    BY <1>1
  <2>4. queue \in Seq(Entries)
    BY <1>2
  <2> QED
    BY <1>6, <2>1, <2>2, <2>3, <2>4 DEF QueueTyped
<1>8. \A owners : SumSizes(queue, owners) = 0
  <2> SUFFICES ASSUME NEW owners PROVE SumSizes(queue, owners) = 0
    OBVIOUS
  <2>1. SumSizes(queue, owners) = Total(OwnedSizes(queue, owners), 1 .. 0)
    BY <1>2, SumSizesIs
  <2>2. 1 .. 0 = {}
    OBVIOUS
  <2> QED
    BY <2>1, <2>2, TotalEmpty
<1>9. LevelIsCurrent
  BY <1>1, <1>3, <1>4, <1>8 DEF LevelIsCurrent, PublicTotal
<1>10. ASSUME NEW o \in Oids PROVE Balanced(o) /\ Had(o) = 0
  BY <1>1, <1>4, <1>8 DEF Balanced, Had, RestingSize
<1>11. \A o \in Oids : ~Alone(o)
  BY <1>10 DEF Alone
<1>12. OwnTimePriority
  BY <1>4 DEF OwnTimePriority
<1> QED
  BY <1>7, <1>9, <1>10, <1>11, <1>12 DEF QueueSound

-----------------------------------------------------------------------------
\* A public order joins.

LEMMA SoundAfterPublicJoins ==
    ASSUME QueueSound, NEW n \in Volumes, PublicJoins(n)
    PROVE  QueueSound'
<1> DEFINE e == [owner |-> Public0, size |-> n]
           s == queue
<1>1. /\ ~stale /\ (trades = 0 \/ levelsFollow)
      /\ queue' = Append(s, e)
      /\ book' = ApplyPriceChange(book, "BUY", Price, PublicTotal(queue'))
      /\ levelsFollow' = levelsFollow /\ trades' = trades /\ stale' = stale
      /\ estimated' = estimated /\ actual' = actual /\ withdrawn' = withdrawn
  BY DEF PublicJoins
<1>2. e \in Entries /\ e.owner = Public0 /\ e.size = n /\ n \in Nat \ {0}
  BY QueueAssumption DEF Entries
<1>3. s \in Seq(Entries) /\ OneEach(s) /\ OurBook(book)
  BY DEF QueueSound, QueueTyped
<1> HIDE DEF e, s
<1>4. /\ queue' \in Seq(Entries) /\ Len(queue') = Len(s) + 1
      /\ \A i \in DOMAIN s : queue'[i] = s[i]
      /\ queue'[Len(s) + 1] = e
  BY <1>1, <1>2, <1>3, SumAppend
<1>5. /\ DOMAIN s = 1 .. Len(s) /\ Len(s) \in Nat /\ DOMAIN queue' = 1 .. (Len(s) + 1)
  BY <1>3, <1>4, EntryFields
<1>6. \A i \in DOMAIN queue' : queue'[i].owner # Public0 => i \in DOMAIN s /\ queue'[i] = s[i]
  BY <1>2, <1>4, <1>5
<1>7. OneEach(queue')
  BY <1>3, <1>6 DEF OneEach
<1>8. PublicTotal(queue') = PublicTotal(s) + n /\ PublicTotal(s) \in Nat /\ PublicTotal(queue') \in Nat
  <2>1. SumSizes(queue', {Public0}) = SumSizes(s, {Public0}) + n
    BY <1>1, <1>2, <1>3, SumAppend
  <2> QED
    BY <2>1, <1>3, <1>4, SumSizesIs DEF PublicTotal
<1>9. /\ OurBook(book') /\ book'.orders = book.orders /\ book'.joined = book.joined
      /\ book'.bids[Price] = PublicTotal(queue')
  BY <1>1, <1>3, <1>8, LevelSet
<1>10. QueueTyped'
  BY <1>1, <1>4, <1>7, <1>9 DEF QueueSound, QueueTyped
<1>11. LevelIsCurrent'
  BY <1>1, <1>9 DEF QueueSound, LevelIsCurrent
<1>12. ASSUME NEW o \in Oids
       PROVE  /\ SumSizes(queue', {o}) = SumSizes(s, {o})
              /\ RestingSize(book', o) = RestingSize(book, o)
  <2>1. Public0 \notin {o}
    BY QueueAssumption DEF Public0
  <2>2. SumSizes(queue', {o}) = SumSizes(s, {o}) + 0
    BY <1>1, <1>2, <1>3, <2>1, SumAppend
  <2>3. SumSizes(s, {o}) \in Nat
    BY <1>3, SumSizesIs
  <2> QED
    BY <2>2, <2>3, <1>9 DEF RestingSize
<1>13. \A o \in Oids : Balanced(o)' /\ Had(o)' = Had(o)
  BY <1>1, <1>12 DEF QueueSound, Balanced, Had, s
<1>14. OwnTimePriority'
  BY <1>1, <1>9 DEF QueueSound, OwnTimePriority
<1>15. ASSUME NEW o \in Oids, Alone(o)'
       PROVE  /\ actual'[o] <= estimated'[o] + withdrawn'[o] /\ NotBehind(o)'
              /\ (~levelsFollow' => NotEarly(o)')
  <2>1. Alone(o)
    BY <1>13, <1>15 DEF Alone
  <2>2. /\ actual[o] <= estimated[o] + withdrawn[o] /\ NotBehind(o)
        /\ (~levelsFollow => NotEarly(o))
    BY <2>1 DEF QueueSound
  <2>3. ASSUME NEW a \in DOMAIN queue', queue'[a].owner = o
        PROVE  a \in DOMAIN s /\ s[a].owner = o /\ DepthOf(queue', a - 1) = DepthOf(s, a - 1)
    <3>1. a \in DOMAIN s /\ s[a].owner = o
      BY <1>6, <2>3, QueueAssumption DEF Public0
    <3>2. a - 1 \in 0 .. Len(s)
      BY <3>1, <1>5
    <3> QED
      BY <3>1, <3>2, <1>1, <1>2, <1>3, DepthAppend
  <2>4. NotBehind(o)'
    <3>1. Owns(queue', o) <=> Owns(s, o)
      <4>1. SumSizes(queue', {o}) = SumSizes(s, {o})
        BY <1>12
      <4>2. /\ Owns(queue', o) <=> SumSizes(queue', {o}) > 0
            /\ Owns(s, o) <=> SumSizes(s, {o}) > 0
        BY <1>3, <1>4, <1>7, OwnVolume
      <4> QED
        BY <4>1, <4>2
    <3> QED
      BY <1>1, <1>9, <2>2, <2>3, <3>1 DEF NotBehind, s
  <2>5. ASSUME ~levelsFollow PROVE NotEarly(o)'
    <3>1. trades = 0 /\ trades' = 0
      BY <1>1, <2>5
    <3>2. NotEarly(o)
      BY <2>2, <2>5
    <3> QED
      BY <1>1, <1>9, <2>3, <3>1, <3>2 DEF NotEarly, s
  <2> QED
    BY <1>1, <2>2, <2>4, <2>5
<1> QED
  BY <1>10, <1>11, <1>13, <1>14, <1>15 DEF QueueSound

-----------------------------------------------------------------------------
\* A public order is cancelled.

LEMMA SoundAfterPublicCancels ==
    ASSUME QueueSound, NEW i \in DOMAIN queue, PublicCancels(i)
    PROVE  QueueSound'
<1> DEFINE s == queue
           At(c) == IF c < i THEN c ELSE c + 1
           Lost(o) == IF \E a \in DOMAIN s : s[a].owner = o /\ i < a THEN s[i].size ELSE 0
<1>1. /\ ~stale /\ (trades = 0 \/ levelsFollow) /\ s[i].owner = Public0
      /\ queue' = Without(s, i)
      /\ withdrawn' = [o \in Oids |-> withdrawn[o] + Lost(o)]
      /\ book' = ApplyPriceChange(book, "BUY", Price, PublicTotal(queue'))
      /\ levelsFollow' = levelsFollow /\ trades' = trades /\ stale' = stale
      /\ estimated' = estimated /\ actual' = actual
  BY DEF PublicCancels
<1>2. /\ s \in Seq(Entries) /\ OneEach(s) /\ OurBook(book) /\ i \in DOMAIN s
      /\ s[i].size \in Nat
  BY EntryFields DEF QueueSound, QueueTyped
<1>3. \A o \in Oids : Lost(o) \in Nat
  BY <1>2
<1> HIDE DEF s, At, Lost
<1>4. /\ queue' \in Seq(Entries) /\ OneEach(queue')
      /\ \A o \in Oids : SumSizes(queue', {o}) = SumSizes(s, {o})
      /\ \A c \in DOMAIN queue' :
            LET a == IF c < i THEN c ELSE c + 1
            IN  /\ a \in DOMAIN s /\ s[a].owner = queue'[c].owner
                /\ DepthOf(queue', c - 1) + (IF i < a THEN s[i].size ELSE 0) = DepthOf(s, a - 1)
  BY <1>1, <1>2, OwnWithout
<1>5. PublicTotal(queue') \in Nat
  BY <1>4, SumSizesIs DEF PublicTotal
<1>6. /\ OurBook(book') /\ book'.orders = book.orders
      /\ book'.bids[Price] = PublicTotal(queue')
  BY <1>1, <1>2, <1>5, LevelSet
<1>7. \A o \in Oids : withdrawn[o] \in Nat /\ withdrawn'[o] = withdrawn[o] + Lost(o)
  BY <1>1 DEF QueueSound, QueueTyped
<1>8. QueueTyped'
  <2>1. withdrawn' \in [Oids -> Nat]
    <3>1. \A o \in Oids : withdrawn[o] + Lost(o) \in Nat
      BY <1>3, <1>7
    <3> QED
      BY <1>1, <3>1
  <2> QED
    BY <1>1, <1>4, <1>6, <2>1 DEF QueueSound, QueueTyped
<1>9. LevelIsCurrent'
  BY <1>1, <1>6 DEF QueueSound, LevelIsCurrent
<1>10. \A o \in Oids : RestingSize(book', o) = RestingSize(book, o)
  BY <1>6 DEF RestingSize
<1>11. \A o \in Oids : Balanced(o)' /\ Had(o)' = Had(o)
  BY <1>1, <1>4, <1>10 DEF QueueSound, Balanced, Had, s
<1>12. OwnTimePriority'
  BY <1>1, <1>6 DEF QueueSound, OwnTimePriority
<1>13. ASSUME NEW o \in Oids, Alone(o)'
       PROVE  /\ actual'[o] <= estimated'[o] + withdrawn'[o] /\ NotBehind(o)'
              /\ (~levelsFollow' => NotEarly(o)')
  <2> DEFINE act == actual[o]
             est == estimated[o]
             w   == withdrawn[o]
             more == Lost(o)
             ahead == book.orders[o].ahead
  <2>1. Alone(o)
    BY <1>11, <1>13 DEF Alone
  <2>2. /\ act <= est + w /\ NotBehind(o)
        /\ (~levelsFollow => NotEarly(o))
    BY <2>1 DEF QueueSound
  <2>3. act \in Nat /\ est \in Nat /\ w \in Nat /\ more \in Nat
    BY <1>3, <1>7, BalanceSays
  <2>4. actual'[o] = act /\ estimated'[o] = est /\ withdrawn'[o] = w + more
    BY <1>1, <1>7
  <2>5. o \in DOMAIN book.orders => ahead \in Nat
    BY <1>2, PositionIs
  \* The entry of o moves up if the cancelled one was in front of it.
  <2>6. ASSUME NEW c \in DOMAIN queue', queue'[c].owner = o
        PROVE  /\ At(c) \in DOMAIN s /\ s[At(c)].owner = o
               /\ DepthOf(queue', c - 1) + more = DepthOf(s, At(c) - 1)
               /\ DepthOf(queue', c - 1) \in Nat
    <3>1. /\ At(c) \in DOMAIN s /\ s[At(c)].owner = o
          /\ DepthOf(queue', c - 1) + (IF i < At(c) THEN s[i].size ELSE 0) = DepthOf(s, At(c) - 1)
      BY <1>4, <2>6 DEF At
    <3>2. \A a \in DOMAIN s : s[a].owner = o => a = At(c)
      BY <1>2, <3>1, QueueAssumption DEF OneEach, Public0
    <3>3. more = IF i < At(c) THEN s[i].size ELSE 0
      BY <3>1, <3>2 DEF Lost
    <3>4. c - 1 \in 0 .. Len(queue')
      BY <1>4, <2>6, EntryFields
    <3> QED
      BY <1>4, <3>1, <3>3, <3>4, DepthSteps
  <2>7. Owns(queue', o) <=> Owns(s, o)
    <3>1. /\ Owns(queue', o) <=> SumSizes(queue', {o}) > 0
          /\ Owns(s, o) <=> SumSizes(s, {o}) > 0
      BY <1>2, <1>4, OwnVolume
    <3> QED
      BY <1>4, <3>1
  <2>8. ASSUME o \in DOMAIN book.orders
        PROVE  /\ \A c \in DOMAIN queue' :
                     queue'[c].owner = o => ahead + act <= DepthOf(queue', c - 1) + (est + (w + more))
               /\ ~Owns(queue', o) => ahead + act <= est + (w + more)
    <3>1. /\ \A a \in DOMAIN s : s[a].owner = o => ahead + act <= DepthOf(s, a - 1) + (est + w)
          /\ ~Owns(s, o) => ahead + act <= est + w
      BY <2>2, <2>8 DEF NotBehind, s
    <3>2. ahead \in Nat
      BY <2>5, <2>8
    <3> HIDE DEF ahead, act, est, w, more
    <3>3. ASSUME NEW c \in DOMAIN queue', queue'[c].owner = o
          PROVE  ahead + act <= DepthOf(queue', c - 1) + (est + (w + more))
      <4>1. ahead + act <= DepthOf(s, At(c) - 1) + (est + w)
        BY <2>6, <3>1, <3>3
      <4>2. /\ DepthOf(queue', c - 1) + more = DepthOf(s, At(c) - 1)
            /\ DepthOf(queue', c - 1) \in Nat
        BY <2>6, <3>3
      <4> QED
        BY <2>3, <3>2, <4>1, <4>2
    <3>4. ~Owns(queue', o) => ahead + act <= est + (w + more)
      BY <2>3, <2>7, <3>1, <3>2
    <3> QED
      BY <3>3, <3>4
  <2>9. NotBehind(o)'
    BY <1>6, <2>4, <2>8 DEF NotBehind
  <2>10. ASSUME ~levelsFollow PROVE NotEarly(o)'
    <3>1. trades = 0 /\ trades' = 0
      BY <1>1, <2>10
    <3>2. NotEarly(o)
      BY <2>2, <2>10
    <3>3. ASSUME o \in DOMAIN book.orders, NEW c \in DOMAIN queue', queue'[c].owner = o
          PROVE  DepthOf(queue', c - 1) <= ahead
      <4>1. DepthOf(s, At(c) - 1) <= ahead
        BY <2>6, <3>2, <3>3 DEF NotEarly, s
      <4>2. /\ DepthOf(queue', c - 1) + more = DepthOf(s, At(c) - 1)
            /\ DepthOf(queue', c - 1) \in Nat /\ ahead \in Nat
        BY <2>5, <2>6, <3>3
      <4> HIDE DEF ahead, more
      <4> QED
        BY <2>3, <4>1, <4>2
    <3> QED
      BY <1>1, <1>6, <3>1, <3>2, <3>3 DEF NotEarly
  <2>11. actual'[o] <= estimated'[o] + withdrawn'[o]
    <3> HIDE DEF act, est, w, more
    <3> QED
      BY <2>2, <2>3, <2>4
  <2> QED
    BY <1>1, <2>9, <2>10, <2>11
<1> QED
  BY <1>8, <1>9, <1>11, <1>12, <1>13 DEF QueueSound

-----------------------------------------------------------------------------
\* A late level is published.

LEMMA SoundAfterLevelPublished ==
    ASSUME QueueSound, LevelPublished
    PROVE  QueueSound'
<1>1. /\ stale /\ stale' = FALSE
      /\ book' = ApplyPriceChange(book, "BUY", Price, PublicTotal(queue))
      /\ levelsFollow' = levelsFollow /\ queue' = queue /\ trades' = trades
      /\ estimated' = estimated /\ actual' = actual /\ withdrawn' = withdrawn
  BY DEF LevelPublished
<1>2. levelsFollow
  BY <1>1 DEF QueueSound, QueueTyped, LevelIsCurrent
<1>3. PublicTotal(queue) \in Nat
  BY SumSizesIs DEF PublicTotal, QueueSound, QueueTyped
<1>4. /\ OurBook(book') /\ book'.orders = book.orders
      /\ book'.bids[Price] = PublicTotal(queue)
  BY <1>1, <1>3, LevelSet DEF QueueSound, QueueTyped
<1>5. QueueTyped'
  BY <1>1, <1>4 DEF QueueSound, QueueTyped
<1>6. LevelIsCurrent'
  BY <1>1, <1>4 DEF LevelIsCurrent
<1>7. \A o \in Oids : RestingSize(book', o) = RestingSize(book, o)
  BY <1>4 DEF RestingSize
<1>8. \A o \in Oids : Balanced(o)' /\ Had(o)' = Had(o)
  BY <1>1, <1>7 DEF QueueSound, Balanced, Had
<1>9. OwnTimePriority'
  BY <1>1, <1>4 DEF QueueSound, OwnTimePriority
<1>10. ASSUME NEW o \in Oids, Alone(o)'
       PROVE  /\ actual'[o] <= estimated'[o] + withdrawn'[o] /\ NotBehind(o)'
              /\ (~levelsFollow' => NotEarly(o)')
  <2>1. Alone(o)
    BY <1>8, <1>10 DEF Alone
  <2> QED
    BY <2>1, <1>1, <1>2, <1>4 DEF QueueSound, NotBehind
<1> QED
  BY <1>5, <1>6, <1>8, <1>9, <1>10 DEF QueueSound

-----------------------------------------------------------------------------
\* We join.

LEMMA SoundAfterWeJoin ==
    ASSUME QueueSound, NEW x \in Oids, NEW n \in Volumes, WeJoin(x, n)
    PROVE  QueueSound'
<1> DEFINE e == [owner |-> x, size |-> n]
           s == queue
           m == Len(s)
           new == Joining(book, "bid", Price, n, 0)
<1>1. /\ ~stale /\ (trades = 0 \/ levelsFollow)
      /\ x \notin DOMAIN book.orders /\ actual[x] = 0 /\ estimated[x] = 0
      /\ \A i \in DOMAIN s : s[i].owner # x
      /\ queue' = Append(s, e)
      /\ book' = AddOurOrder(book, x, "bid", Price, n, 0)
      /\ levelsFollow' = levelsFollow /\ trades' = trades /\ stale' = stale
      /\ estimated' = estimated /\ actual' = actual /\ withdrawn' = withdrawn
  BY DEF WeJoin
<1>2. /\ x \in Nat \ {0} /\ x # Public0 /\ n \in Nat \ {0}
      /\ e \in Entries /\ e.owner = x /\ e.size = n
  BY QueueAssumption DEF Entries, Public0
<1>3. s \in Seq(Entries) /\ OneEach(s) /\ OurBook(book) /\ IsBook(book) /\ IsRecord(book)
  BY DEF QueueSound, QueueTyped, OurBook, IsBook
<1>3a. book.bids[Price] \in Nat /\ book.joined \in Nat
  BY <1>3, QueueAssumption DEF IsBook, Depths
<1>4. /\ new.side = "bid" /\ new.price = Price /\ new.size = n
      /\ new.ahead = book.bids[Price] /\ new.level = book.bids[Price]
      /\ new.rank = book.joined + 1
  BY DEF Joining, Public
<1> HIDE DEF e, s, new, m
<1>5. /\ queue' \in Seq(Entries) /\ Len(queue') = m + 1
      /\ \A i \in DOMAIN s : queue'[i] = s[i]
      /\ queue'[m + 1] = e
  BY <1>1, <1>2, <1>3, SumAppend DEF m
<1>6. /\ DOMAIN s = 1 .. m /\ m \in Nat /\ DOMAIN queue' = 1 .. (m + 1)
  BY <1>3, <1>5, EntryFields DEF m
<1>7. \A i \in DOMAIN queue' : i # m + 1 => i \in DOMAIN s /\ queue'[i] = s[i]
  BY <1>5, <1>6
<1>8. OneEach(queue')
  BY <1>1, <1>2, <1>3, <1>5, <1>7 DEF OneEach
<1>9. ASSUME NEW o \in Oids
      PROVE  SumSizes(queue', {o}) = SumSizes(s, {o}) + (IF o = x THEN n ELSE 0)
  <2>1. SumSizes(queue', {o}) = SumSizes(s, {o}) + (IF x \in {o} THEN n ELSE 0)
    BY <1>1, <1>2, <1>3, SumAppend
  <2> QED
    BY <2>1
<1>10. /\ IsRecord(book') /\ book'.joined = book.joined + 1 /\ book'.bids = book.bids
       /\ DOMAIN book'.orders = DOMAIN book.orders \cup {x}
       /\ book'.orders[x] = new
       /\ \A o \in DOMAIN book.orders \ {x} : book'.orders[o] = book.orders[o]
  <2> DEFINE c == AddOurOrder(book, x, "bid", Price, n, 0)
  <2>0. IsRecord(book)
    BY <1>3
  <2>1. /\ IsRecord(c) /\ c.joined = book.joined + 1
        /\ c.bids = book.bids /\ c.asks = book.asks /\ c.tick = book.tick
        /\ DOMAIN c.orders = DOMAIN book.orders \cup {x}
        /\ c.orders[x] = new
        /\ \A o \in DOMAIN book.orders \ {x} : c.orders[o] = book.orders[o]
        /\ c.orders = [o \in DOMAIN c.orders |-> c.orders[o]]
    BY <2>0, AddedFields DEF new
  <2>2. book' = c
    BY <1>1
  <2> HIDE DEF c
  <2> QED
    BY <2>1, <2>2
<1>11. IsBook(book')
  <2>1. Price \in Prices /\ "bid" \in Sides /\ 0 \in Nat
    BY QueueAssumption DEF Sides
  <2> QED
    BY <1>1, <1>2, <1>3, <2>1, AddedOnBook
<1>12. ASSUME NEW o \in DOMAIN book.orders
       PROVE  book'.orders[o] = book.orders[o] /\ o # x
  BY <1>1, <1>10, <1>12
<1>13. \A o \in DOMAIN book.orders : book.orders[o].rank \in Nat /\ book.orders[o].rank <= book.joined
  BY <1>3 DEF IsBook, RestingOrders
<1>14. OurBook(book')
  <2>1. DOMAIN book'.orders \subseteq Oids
    BY <1>3, <1>10 DEF OurBook
  <2>2. \A o \in DOMAIN book'.orders : book'.orders[o].side = "bid" /\ book'.orders[o].price = Price
    BY <1>3, <1>4, <1>10, <1>12 DEF OurBook
  <2>3. ASSUME NEW o \in DOMAIN book'.orders, NEW p \in DOMAIN book'.orders,
               book'.orders[o].rank = book'.orders[p].rank
        PROVE  o = p
    <3>1. CASE o \in DOMAIN book.orders /\ p \in DOMAIN book.orders
      BY <2>3, <3>1, <1>3, <1>12 DEF OurBook
    <3>2. CASE o = x /\ p = x
      BY <3>2
    <3>3. ASSUME NEW q \in DOMAIN book.orders PROVE book'.orders[q].rank # book'.orders[x].rank
      BY <1>3a, <1>4, <1>10, <1>12, <1>13
    <3> QED
      BY <2>3, <3>1, <3>2, <3>3, <1>10
  <2> QED
    BY <1>11, <2>1, <2>2, <2>3 DEF OurBook
<1>15. QueueTyped'
  BY <1>1, <1>5, <1>8, <1>14 DEF QueueSound, QueueTyped
<1>16. PublicTotal(queue') = PublicTotal(s) /\ PublicTotal(s) \in Nat
  <2>1. SumSizes(queue', {Public0}) = SumSizes(s, {Public0}) + (IF x \in {Public0} THEN n ELSE 0)
    BY <1>1, <1>2, <1>3, SumAppend
  <2>2. SumSizes(s, {Public0}) \in Nat
    BY <1>3, SumSizesIs
  <2> QED
    BY <2>1, <2>2, <1>2 DEF PublicTotal
<1>17. LevelIsCurrent'
  BY <1>1, <1>10, <1>16 DEF QueueSound, LevelIsCurrent, s
<1>18. ASSUME NEW o \in Oids
       PROVE  RestingSize(book', o) = RestingSize(book, o) + (IF o = x THEN n ELSE 0)
  <2>1. CASE o = x
    <3>1. RestingSize(book, x) = 0 /\ RestingSize(book', x) = n
      BY <1>1, <1>4, <1>10 DEF RestingSize
    <3> QED
      BY <3>1, <2>1, <1>2
  <2>2. CASE o # x
    <3>1. RestingSize(book', o) = RestingSize(book, o)
      BY <2>2, <1>10, <1>12 DEF RestingSize
    <3>2. RestingSize(book, o) \in Nat
      BY BalanceSays
    <3> QED
      BY <3>1, <3>2, <2>2
  <2> QED
    BY <2>1, <2>2
<1>19. ASSUME NEW o \in Oids
       PROVE  Balanced(o)' /\ Had(o)' = Had(o) + (IF o = x THEN n ELSE 0)
  <2> DEFINE more == IF o = x THEN n ELSE 0
  <2>1. more \in Nat
    BY <1>2
  <2>2. SumSizes(queue', {o}) = SumSizes(s, {o}) + more /\ RestingSize(book', o) = RestingSize(book, o) + more
    BY <1>9, <1>18
  <2>3. /\ actual[o] \in Nat /\ estimated[o] \in Nat
        /\ RestingSize(book, o) \in Nat /\ SumSizes(s, {o}) \in Nat
        /\ actual[o] + SumSizes(s, {o}) = estimated[o] + RestingSize(book, o)
        /\ Had(o) = estimated[o] + RestingSize(book, o)
    BY BalanceSays DEF s
  <2> HIDE DEF more
  <2>4. /\ actual[o] + SumSizes(queue', {o}) = estimated[o] + RestingSize(book', o)
        /\ estimated[o] + RestingSize(book', o) = Had(o) + more
    BY <2>1, <2>2, <2>3
  <2> QED
    BY <2>4, <1>1 DEF Balanced, Had, more
<1>20. OwnTimePriority'
  <2> SUFFICES ASSUME NEW o \in DOMAIN book'.orders, NEW p \in DOMAIN book'.orders,
                      book'.orders[o].rank < book'.orders[p].rank
               PROVE  estimated[p] = 0
    BY <1>1 DEF OwnTimePriority
  <2>1. CASE p = x
    BY <2>1, <1>1
  <2>2. CASE p # x
    <3>1. p \in DOMAIN book.orders
      BY <2>2, <1>10
    <3>2. o # x
      BY <3>1, <1>3a, <1>4, <1>10, <1>12, <1>13
    <3>3. o \in DOMAIN book.orders
      BY <3>2, <1>10
    <3> QED
      BY <3>1, <3>3, <1>12 DEF QueueSound, OwnTimePriority
  <2> QED
    BY <2>1, <2>2
<1>21. ASSUME NEW o \in Oids, Alone(o)'
       PROVE  actual'[o] <= estimated'[o] + withdrawn'[o] /\ NotBehind(o)' /\ NotEarly(o)'
  <2>1. \A p \in Oids : Had(p)' > 0 => p = o
    BY <1>21 DEF Alone
  <2>2. Had(x)' > 0 /\ x = o
    <3>0. Had(x) = estimated[x] + RestingSize(book, x) /\ RestingSize(book, x) \in Nat
      BY BalanceSays
    <3>1. Had(x)' = Had(x) + n /\ Had(x) \in Nat
      BY <1>1, <1>19, <3>0
    <3>2. Had(x)' > 0
      BY <3>1, <1>2
    <3> QED
      BY <3>2, <2>1
  <2>3. ASSUME NEW i \in DOMAIN s PROVE s[i].owner = Public0
    <3>0. s[i].owner \in Oids \cup {Public0} /\ s[i].owner # x
      BY <1>1, <1>3, EntryFields
    <3>1. PICK p \in Oids \cup {Public0} : p = s[i].owner /\ p # x
      BY <3>0
    <3>2. ASSUME p \in Oids PROVE FALSE
      <4>1. Owns(queue, p)
        BY <3>1 DEF Owns, s
      <4>2. ~(Had(p) > 0)
        <5>1. Had(p)' = Had(p) + 0
          BY <3>1, <3>2, <1>19
        <5>2. /\ Had(p) = estimated[p] + RestingSize(book, p)
              /\ RestingSize(book, p) \in Nat /\ estimated[p] \in Nat
          BY <3>2, BalanceSays
        <5> QED
          BY <5>1, <5>2, <2>1, <2>2, <3>1, <3>2
      <4> QED
        BY <3>2, <4>1, <4>2, NotJoined, BalanceSays
    <3> QED
      BY <3>1, <3>2
  <2>4. book.bids[Price] = DepthOf(s, m)
    <3>1. PublicTotal(s) = DepthOf(s, m)
      BY <1>3, <2>3, AllPublic DEF m
    <3> QED
      BY <3>1, <1>1 DEF QueueSound, LevelIsCurrent, s
  <2>5. ASSUME NEW a \in DOMAIN queue', queue'[a].owner = o
        PROVE  new.ahead = DepthOf(queue', a - 1)
    <3>1. a = m + 1
      BY <1>1, <1>7, <2>2, <2>5
    <3>2. a - 1 = m /\ m \in 0 .. m
      BY <3>1, <1>6
    <3>3. DepthOf(queue', m) = DepthOf(s, m)
      BY <3>2, <1>1, <1>2, <1>3, DepthAppend DEF m
    <3> QED
      BY <3>2, <3>3, <2>4, <1>4
  <2>6. actual'[o] = 0 /\ estimated'[o] = 0
    BY <1>1, <2>2
  <2>7. /\ new.ahead \in Nat /\ new.level <= book'.bids[Price] /\ new.level <= new.ahead
        /\ withdrawn'[o] \in Nat
    BY <1>1, <1>3a, <1>4, <1>10 DEF QueueSound, QueueTyped
  <2>8. book'.orders[o] = new
    BY <1>10, <2>2
  <2>9. NotBehind(o)'
    <3>1. ASSUME NEW a \in DOMAIN queue', queue'[a].owner = o
          PROVE  new.ahead + 0 <= DepthOf(queue', a - 1) + (0 + withdrawn'[o])
      BY <2>5, <2>7, <3>1
    <3>2. Owns(queue', o)
      <4>1. m + 1 \in DOMAIN queue'
        BY <1>6
      <4> QED
        BY <4>1, <1>2, <1>5, <2>2 DEF Owns
    <3> QED
      BY <2>6, <2>8, <3>1, <3>2 DEF NotBehind
  <2>10. NotEarly(o)'
    <3>1. \A a \in DOMAIN queue' : queue'[a].owner = o => DepthOf(queue', a - 1) <= new.ahead
      BY <2>5, <2>7
    <3> QED
      BY <2>6, <2>7, <2>8, <3>1 DEF NotEarly
  <2> QED
    BY <2>6, <2>7, <2>9, <2>10
<1> QED
  BY <1>15, <1>17, <1>19, <1>20, <1>21 DEF QueueSound

-----------------------------------------------------------------------------
\* A trade prints.

\* What a sell does to one order of ours: what the book fills, and what the
\* exchange's queue gives it.
LEMMA TradeOnOne ==
    ASSUME QueueSound, NEW n \in Volumes, TradePrints(n), NEW o \in Oids
    PROVE  LET fill == IF o \in DOMAIN book.orders THEN FillIn(book, n, o) ELSE 0
           IN  /\ fill \in 0 .. RestingSize(book, o)
               /\ estimated'[o] = estimated[o] + fill
               /\ RestingSize(book', o) = RestingSize(book, o) - fill
               /\ actual'[o] = actual[o] + (SumSizes(queue, {o}) - SumSizes(queue', {o}))
               /\ SumSizes(queue', {o}) \in 0 .. SumSizes(queue, {o})
<1> DEFINE fill == IF o \in DOMAIN book.orders THEN FillIn(book, n, o) ELSE 0
           fills == TradeFills(book, Price, n, "SELL")
<1>1. /\ queue' = AfterTaking(queue, n)
      /\ actual' = [p \in Oids |-> actual[p] + SumSizes(queue, {p}) - SumSizes(queue', {p})]
      /\ estimated' = [p \in Oids |-> estimated[p]
                         + IF p \in DOMAIN fills THEN fills[p].size ELSE 0]
      /\ book' = BookAfterTrade(book, Price, n, "SELL")
  BY DEF TradePrints
<1>2. /\ queue \in Seq(Entries) /\ OneEach(queue) /\ OurBook(book) /\ n \in Nat
  BY QueueAssumption DEF QueueSound, QueueTyped
<1>3. /\ DOMAIN book'.orders = {p \in DOMAIN book.orders : FillIn(book, n, p) # book.orders[p].size}
      /\ \A p \in DOMAIN book.orders : FillIn(book, n, p) \in 0 .. book.orders[p].size
      /\ \A p \in DOMAIN book'.orders :
            book'.orders[p].size = book.orders[p].size - FillIn(book, n, p)
      /\ DOMAIN fills = {p \in DOMAIN book.orders : FillIn(book, n, p) > 0}
      /\ \A p \in DOMAIN fills : fills[p].size = FillIn(book, n, p)
  BY <1>1, <1>2, SellOnBook
<1> HIDE DEF fills
<1>4. SumSizes(queue', {o}) \in 0 .. SumSizes(queue, {o})
  BY <1>1, <1>2, OwnAfter
<1>5. actual'[o] = actual[o] + (SumSizes(queue, {o}) - SumSizes(queue', {o}))
  <2> DEFINE Sum(p) == SumSizes(queue, {p})
             Rest(p) == SumSizes(queue', {p})
  <2>0. actual' = [p \in Oids |-> actual[p] + Sum(p) - Rest(p)]
    BY <1>1
  <2> HIDE DEF Sum, Rest
  <2>1. actual'[o] = actual[o] + Sum(o) - Rest(o)
    BY <2>0
  <2> USE DEF Sum, Rest
  <2>2. actual[o] \in Nat /\ SumSizes(queue, {o}) \in Nat
    BY BalanceSays
  <2>3. SumSizes(queue', {o}) \in Int
    BY <1>4, <2>2
  <2> QED
    BY <2>1, <2>2, <2>3
<1>6. estimated'[o] = estimated[o] + (IF o \in DOMAIN fills THEN fills[o].size ELSE 0)
  BY <1>1
<1>7. CASE o \in DOMAIN book.orders
  <2> DEFINE f == FillIn(book, n, o)
             z == book.orders[o].size
  <2>1. fill = f /\ RestingSize(book, o) = z /\ f \in 0 .. z
    BY <1>3, <1>7 DEF RestingSize
  <2>2. z \in Nat
    BY <1>7, <2>1, BalanceSays
  <2>3. RestingSize(book', o) = IF f # z THEN z - f ELSE 0
    BY <1>3, <1>7 DEF RestingSize
  <2>4. (IF o \in DOMAIN fills THEN fills[o].size ELSE 0) = IF f > 0 THEN f ELSE 0
    BY <1>3, <1>7
  <2> HIDE DEF f, z, fill
  <2>5. RestingSize(book', o) = z - f
    BY <2>1, <2>2, <2>3
  <2>6. (IF f > 0 THEN f ELSE 0) = f
    BY <2>1, <2>2
  <2>7. estimated'[o] = estimated[o] + f
    BY <1>6, <2>4, <2>6
  <2> QED
    BY <1>4, <1>5, <2>1, <2>5, <2>7 DEF fill
<1>8. CASE o \notin DOMAIN book.orders
  <2>1. o \notin DOMAIN fills /\ o \notin DOMAIN book'.orders
    BY <1>3, <1>8
  <2>2. RestingSize(book, o) = 0 /\ RestingSize(book', o) = 0 /\ fill = 0
    BY <2>1, <1>8 DEF RestingSize
  <2>3. estimated'[o] = estimated[o] + 0
    BY <2>1, <1>6
  <2> QED
    BY <1>4, <1>5, <2>2, <2>3
<1> QED
  BY <1>7, <1>8

\* What is left of an entry of size z when d more is taken than is in front.
Given(d, z) == Floor0(z - Floor0(d))

LEMMA SoundAfterTradePrints ==
    ASSUME QueueSound, NEW n \in Volumes, TradePrints(n)
    PROVE  QueueSound'
<1> DEFINE g == Used(queue, n)
           t == AfterTaking(queue, n)
           Fill(o) == IF o \in DOMAIN book.orders THEN FillIn(book, n, o) ELSE 0
<1>1. /\ ~stale /\ queue' = t /\ trades' = trades + 1
      /\ actual' = [o \in Oids |-> actual[o] + SumSizes(queue, {o}) - SumSizes(queue', {o})]
      /\ book' = BookAfterTrade(book, Price, n, "SELL")
      /\ stale' = (levelsFollow /\ PublicTotal(queue') # PublicTotal(queue))
      /\ levelsFollow' = levelsFollow /\ withdrawn' = withdrawn
  BY DEF TradePrints
<1>1e. /\ DOMAIN estimated' = Oids
       /\ estimated' = [o \in DOMAIN estimated' |-> estimated'[o]]
  BY DEF TradePrints
<1>2. /\ queue \in Seq(Entries) /\ OneEach(queue) /\ OurBook(book) /\ n \in Nat \ {0}
  BY QueueAssumption DEF QueueSound, QueueTyped
<1>3. /\ OurBook(book') /\ book'.bids = book.bids
      /\ DOMAIN book'.orders = {o \in DOMAIN book.orders : FillIn(book, n, o) # book.orders[o].size}
      /\ \A o \in DOMAIN book'.orders : book'.orders[o].rank = book.orders[o].rank
  BY <1>1, <1>2, SellOnBook
<1>4. /\ queue' \in Seq(Entries) /\ OneEach(queue')
  <2>1. OneEach(t) \/ Oids = {}
    BY <1>2, OwnAfter
  <2>2. Oids = {} => OneEach(t)
    BY <1>2, AfterTakingFields, EntryFields DEF OneEach
  <2>3. t \in Seq(Entries)
    BY <1>2, AfterTakingFields
  <2> QED
    BY <1>1, <2>1, <2>2, <2>3
<1>5. \A o \in Oids :
         /\ Fill(o) \in 0 .. RestingSize(book, o)
         /\ estimated'[o] = estimated[o] + Fill(o)
         /\ RestingSize(book', o) = RestingSize(book, o) - Fill(o)
         /\ actual'[o] = actual[o] + (SumSizes(queue, {o}) - SumSizes(queue', {o}))
         /\ SumSizes(queue', {o}) \in 0 .. SumSizes(queue, {o})
  BY TradeOnOne
<1> HIDE DEF g, t, Fill
<1>6. ASSUME NEW o \in Oids
      PROVE  /\ estimated'[o] \in Nat /\ actual'[o] \in Nat
             /\ Balanced(o)' /\ Had(o)' = Had(o)
  <2>1. /\ actual[o] \in Nat /\ estimated[o] \in Nat
        /\ RestingSize(book, o) \in Nat /\ SumSizes(queue, {o}) \in Nat
        /\ actual[o] + SumSizes(queue, {o}) = estimated[o] + RestingSize(book, o)
        /\ Had(o) = estimated[o] + RestingSize(book, o)
    BY BalanceSays
  <2>2. /\ Fill(o) \in 0 .. RestingSize(book, o)
        /\ estimated'[o] = estimated[o] + Fill(o)
        /\ RestingSize(book', o) = RestingSize(book, o) - Fill(o)
        /\ actual'[o] = actual[o] + (SumSizes(queue, {o}) - SumSizes(queue', {o}))
        /\ SumSizes(queue', {o}) \in 0 .. SumSizes(queue, {o})
    BY <1>5
  <2>3. estimated'[o] \in Nat /\ actual'[o] \in Nat
    BY <2>1, <2>2
  <2>4. /\ actual'[o] + SumSizes(queue', {o}) = estimated'[o] + RestingSize(book', o)
        /\ estimated'[o] + RestingSize(book', o) = Had(o)
    BY <2>1, <2>2
  <2> QED
    BY <2>3, <2>4 DEF Balanced, Had
<1>7. QueueTyped'
  <2>1. DOMAIN actual' = Oids /\ actual' = [o \in DOMAIN actual' |-> actual'[o]]
    BY <1>1
  <2>2. estimated' \in [Oids -> Nat]
    BY <1>1e, <1>6
  <2>3. actual' \in [Oids -> Nat]
    BY <2>1, <1>6
  <2>4. levelsFollow' \in BOOLEAN /\ stale' \in BOOLEAN
    BY <1>1 DEF QueueSound, QueueTyped
  <2>5. trades' \in Nat /\ withdrawn' \in [Oids -> Nat]
    BY <1>1 DEF QueueSound, QueueTyped
  <2> QED
    BY <1>3, <1>4, <2>2, <2>3, <2>4, <2>5 DEF QueueTyped
<1>8. LevelIsCurrent'
  <2>1. trades' # 0
    <3>1. trades \in Nat
      BY DEF QueueSound, QueueTyped
    <3> QED
      BY <3>1, <1>1
  <2>2. CASE ~levelsFollow
    BY <2>1, <2>2, <1>1 DEF LevelIsCurrent
  <2>3. CASE levelsFollow /\ ~stale'
    <3>1. PublicTotal(queue') = PublicTotal(queue)
      BY <2>3, <1>1
    <3>2. book.bids[Price] = PublicTotal(queue)
      BY <2>3, <1>1 DEF QueueSound, LevelIsCurrent
    <3> QED
      BY <3>1, <3>2, <2>3, <1>1, <1>3 DEF LevelIsCurrent
  <2>4. CASE levelsFollow /\ stale'
    BY <2>4, <1>1 DEF LevelIsCurrent
  <2> QED
    BY <2>2, <2>3, <2>4
<1>9. OwnTimePriority'
  <2> SUFFICES ASSUME NEW o \in DOMAIN book'.orders, NEW p \in DOMAIN book'.orders,
                      book'.orders[o].rank < book'.orders[p].rank
               PROVE  estimated'[p] = 0
    BY DEF OwnTimePriority
  <2>1. /\ o \in DOMAIN book.orders /\ p \in DOMAIN book.orders
        /\ book.orders[o].rank < book.orders[p].rank
        /\ FillIn(book, n, o) # book.orders[o].size
    BY <1>3
  <2>2. FillIn(book, n, p) = 0
    BY <2>1, <1>2, EarlierFirst
  <2>3. p \in Oids /\ estimated[p] = 0
    BY <2>1, <1>2 DEF QueueSound, OwnTimePriority, OurBook
  <2>4. Fill(p) = 0
    BY <2>1, <2>2 DEF Fill
  <2>5. estimated'[p] = estimated[p] + Fill(p)
    BY <2>3, <1>5
  <2> QED
    BY <2>3, <2>4, <2>5
<1>10. ASSUME NEW o \in Oids, Alone(o)'
       PROVE  /\ actual'[o] <= estimated'[o] + withdrawn'[o] /\ NotBehind(o)'
              /\ (~levelsFollow' => NotEarly(o)')
  <2>1. Alone(o)
    BY <1>6, <1>10 DEF Alone
  <2>2. /\ actual[o] <= estimated[o] + withdrawn[o] /\ NotBehind(o)
        /\ (~levelsFollow => NotEarly(o))
    BY <2>1 DEF QueueSound
  <2>3. /\ actual[o] \in Nat /\ estimated[o] \in Nat /\ withdrawn[o] \in Nat
        /\ RestingSize(book, o) \in Nat /\ SumSizes(queue, {o}) \in Nat
        /\ actual[o] + SumSizes(queue, {o}) = estimated[o] + RestingSize(book, o)
    BY BalanceSays DEF QueueSound, QueueTyped
  <2>4. /\ estimated'[o] = estimated[o] + Fill(o) /\ withdrawn'[o] = withdrawn[o]
        /\ actual'[o] = actual[o] + (SumSizes(queue, {o}) - SumSizes(queue', {o}))
        /\ SumSizes(queue', {o}) \in 0 .. SumSizes(queue, {o})
    BY <1>1, <1>5
  <2>4a. Owns(queue', o) <=> SumSizes(queue', {o}) > 0
    BY <1>4, OwnVolume
  <2>4b. trades' # 0
    BY <1>1 DEF QueueSound, QueueTyped
  <2>5. CASE o \notin DOMAIN book.orders
    <3>1. RestingSize(book, o) = 0 /\ Fill(o) = 0 /\ o \notin DOMAIN book'.orders
      BY <2>5, <1>3 DEF RestingSize, Fill
    <3>2. actual'[o] <= estimated'[o] + withdrawn'[o]
      BY <2>3, <2>4, <3>1
    <3>3. ASSUME ~levelsFollow PROVE estimated'[o] <= actual'[o]
      <4>1. estimated[o] <= actual[o]
        BY <2>2, <3>3 DEF NotEarly
      <4> QED
        BY <4>1, <2>3, <2>4, <3>1
    <3> QED
      BY <1>1, <3>1, <3>2, <3>3 DEF NotBehind, NotEarly
  <2>6. CASE o \in DOMAIN book.orders
    \* front is the estimate of what is in front of the order; z is what the
    \* queue holds of it and size what the book holds.
    <3> DEFINE size  == book.orders[o].size
               ahead == book.orders[o].ahead
               level == book.orders[o].level
               shown == book.bids[Price]
               front == QueuePosition(book, o)
               z     == SumSizes(queue, {o})
               est   == estimated[o]
               act   == actual[o]
               w     == withdrawn[o]
    <3>0. RestingSize(book, o) = size
      BY <2>6 DEF RestingSize
    <3>0a. RestingSize(book, o) \in Nat /\ RestingSize(book, o) > 0
      BY <2>6, BalanceSays
    <3>1. RestingSize(book, o) = size /\ size \in Nat \ {0}
      BY <3>0, <3>0a
    <3>6. /\ front = Floor0(ahead - Floor0(level - shown))
          /\ ahead \in Nat /\ level \in Nat /\ shown \in Nat /\ front \in Nat
      BY <2>6, <1>2, PositionIs
    <3>8. \A p \in DOMAIN book.orders : p = o
      <4>1. ASSUME NEW p \in DOMAIN book.orders PROVE p = o
        <5>1. p \in Oids
          BY <1>2 DEF OurBook
        <5>2. p \in Joined
          BY DEF Joined
        <5> QED
          BY <5>1, <5>2, <2>1, BalanceSays DEF Alone
      <4> QED
        BY <4>1
    <3>9. /\ FillIn(book, n, o) = FillOf(front, n, size)
          /\ o \in DOMAIN book'.orders => /\ book'.orders[o].ahead = Floor0(front - n)
                                          /\ book'.orders[o].level = shown
      BY <1>1, <1>2, <2>6, <3>8, SellOnOnlyOrder
    <3>10. Fill(o) = FillOf(front, n, size)
      BY <2>6, <3>9 DEF Fill
    <3>15. /\ est \in Nat /\ act \in Nat /\ w \in Nat /\ z \in Nat
           /\ act + z = est + size /\ act <= est + w /\ n \in Nat
      BY <1>2, <2>2, <2>3, <3>1
    <3>15a. o \in DOMAIN book'.orders => book'.orders[o].level <= book'.bids[Price]
      BY <1>3, <3>6, <3>9
    <3>15b. front <= ahead
      <4> HIDE DEF ahead, level, shown, front
      <4> QED
        BY <3>6 DEF Floor0, Larger
    \* The real queue still holds the order: d is what is in front of it there.
    <3>2. CASE Owns(queue, o)
      <4>3. PICK a \in DOMAIN queue : queue[a].owner = o
        BY <3>2 DEF Owns
      <4>4. a \in 1 .. Len(queue) /\ a - 1 \in 0 .. Len(queue)
        BY <4>3, <1>2, EntryFields
      <4>5. PICK d \in Nat : d = DepthOf(queue, a - 1)
        BY <4>4, <1>2, DepthSteps
      <4>7. ahead + act <= d + (est + w)
        BY <2>2, <2>6, <4>3, <4>5 DEF NotBehind
      <4>11. queue[a].size = z
        BY <1>2, <4>3, OwnVolume
      <4>12. SumSizes(queue', {o}) = Given(n - d, z)
        <5>1. SumSizes(queue', {o}) = Left(queue, n, a)
          BY <1>1, <1>2, <4>3, OwnAfter DEF t
        <5> QED
          BY <5>1, <4>5, <4>11 DEF Left, Given
      <4>12a. \A c \in DOMAIN t : t[c].owner = o =>
                 /\ c + g \in DOMAIN queue /\ queue[c + g].owner = o
                 /\ DepthOf(t, c - 1) = Floor0(DepthOf(queue, c + g - 1) - n)
        <5>1. queue \in Seq(Entries) /\ OneEach(queue) /\ n \in Nat
          BY <1>2
        <5> QED
          BY <5>1, OwnAfter DEF t, g
      <4>13. ASSUME NEW c \in DOMAIN queue', queue'[c].owner = o
             PROVE  DepthOf(queue', c - 1) = Floor0(d - n)
        <5>0. c \in DOMAIN t /\ t[c].owner = o /\ queue' = t /\ n \in Nat
          BY <1>1, <1>2, <4>13
        <5>1. /\ c + g \in DOMAIN queue /\ queue[c + g].owner = o
              /\ DepthOf(t, c - 1) = Floor0(DepthOf(queue, c + g - 1) - n)
          BY <5>0, <4>12a
        <5>2. c + g = a
          BY <5>1, <4>3, <1>2, QueueAssumption DEF OneEach, Public0
        <5>3. c + g - 1 = a - 1
          <6>1. c \in Nat
            BY <1>4, EntryFields
          <6>2. g \in Nat
            BY <1>2, UsedIsPrefix DEF g
          <6> QED
            BY <5>2, <6>1, <6>2
        <5> QED
          BY <5>0, <5>1, <5>3, <4>5
      <4>14. ~levelsFollow => est <= act /\ d <= front
        <5>1. ~levelsFollow => est <= act
          BY <2>2 DEF NotEarly
        <5>2. ~levelsFollow => d <= front
          BY <2>1, <2>6, <4>3, <4>5, EstimateCovers
        <5> QED
          BY <5>1, <5>2
      <4>16. z # 0
        <5>1. SumSizes(queue, {o}) > 0
          BY <3>2, BalanceSays
        <5> QED
          BY <5>1
      <4> HIDE DEF size, ahead, level, shown, front, z, est, act, w
      <4>17. LET after == act + (z - Given(n - d, z))
                 now   == est + FillOf(front, n, size)
             IN  /\ after <= now + w
                 /\ Floor0(front - n) + after <= Floor0(d - n) + (now + w)
                 /\ Given(n - d, z) = 0 => Floor0(front - n) + after <= now + w
                 /\ est <= act /\ d <= front => now <= after /\ Floor0(d - n) <= Floor0(front - n)
        <5> DEFINE fill   == FillOf(front, n, size)
                   left   == Given(n - d, z)
                   behind == Floor0(front - n)
                   rest   == Floor0(d - n)
        <5>1. /\ n <= front => fill = 0 /\ behind = front - n
              /\ n > front => behind = 0 /\ fill = (IF n - front <= size THEN n - front ELSE size)
          BY <3>1, <3>6, <3>15 DEF FillOf, Floor0, Larger, Smaller
        <5>2. /\ n <= d => left = z /\ rest = d - n
              /\ n > d => rest = 0 /\ left = (IF n - d <= z THEN z - (n - d) ELSE 0)
          BY <3>15 DEF Given, Floor0, Larger
        <5>3. /\ size \in Nat /\ front \in Nat /\ ahead \in Nat /\ front <= ahead /\ d \in Nat
              /\ est \in Nat /\ act \in Nat /\ w \in Nat /\ z \in Nat /\ n \in Nat
              /\ act + z = est + size /\ act <= est + w /\ ahead + act <= d + (est + w)
              /\ z # 0
          BY <3>1, <3>6, <3>15, <3>15b, <4>7, <4>16
        <5> HIDE DEF fill, left, behind, rest
        <5>4. /\ act + (z - left) <= (est + fill) + w
              /\ behind + (act + (z - left)) <= rest + ((est + fill) + w)
              /\ left = 0 => behind + (act + (z - left)) <= (est + fill) + w
          <6>1. CASE n <= front
            BY <5>1, <5>2, <5>3, <6>1
          <6>2. CASE n > front
            BY <5>1, <5>2, <5>3, <6>2
          <6> QED
            BY <5>3, <6>1, <6>2
        <5>5. est <= act /\ d <= front => est + fill <= act + (z - left) /\ rest <= behind
          BY <5>1, <5>2, <5>3
        <5> QED
          BY <5>4, <5>5 DEF fill, left, behind, rest
      <4>18. /\ actual'[o] = act + (z - Given(n - d, z))
             /\ estimated'[o] = est + FillOf(front, n, size) /\ withdrawn'[o] = w
        BY <2>4, <3>10, <4>12 DEF act, z, est, w
      <4>20. NotBehind(o)'
        <5>1. ~Owns(queue', o) => Given(n - d, z) = 0
          BY <2>3, <2>4, <2>4a, <4>12
        <5> QED
          BY <3>9, <4>13, <4>17, <4>18, <5>1 DEF NotBehind
      <4>21. ASSUME ~levelsFollow PROVE NotEarly(o)'
        BY <2>4b, <3>9, <3>15a, <4>13, <4>14, <4>17, <4>18, <4>21 DEF NotEarly
      <4> QED
        BY <1>1, <4>17, <4>18, <4>20, <4>21
    \* The real queue is done with the order: the book still has to fill it.
    <3>3. CASE ~Owns(queue, o)
      <4>1. z = 0
        BY <3>3, BalanceSays
      <4>2. ahead + act <= est + w
        BY <2>2, <2>6, <3>3 DEF NotBehind
      <4>3. SumSizes(queue', {o}) = 0 /\ ~Owns(queue', o)
        BY <2>4, <2>4a, <4>1
      <4>4. \A c \in DOMAIN queue' : queue'[c].owner # o
        BY <4>3 DEF Owns
      <4> HIDE DEF size, ahead, level, shown, front, z, est, act, w
      <4>5. LET now == est + FillOf(front, n, size)
            IN  /\ act <= now + w /\ now <= act
                /\ Floor0(front - n) + act <= now + w
        BY <3>1, <3>6, <3>15, <3>15b, <4>1, <4>2 DEF FillOf, Floor0, Larger, Smaller
      <4>6. /\ actual'[o] = act /\ withdrawn'[o] = w
            /\ estimated'[o] = est + FillOf(front, n, size)
        <5>1. actual'[o] = act + (0 - 0)
          BY <2>4, <4>1, <4>3 DEF act, z
        <5> QED
          BY <2>4, <3>10, <3>15, <5>1 DEF est, w
      <4>7. NotBehind(o)'
        BY <3>9, <4>4, <4>5, <4>6 DEF NotBehind
      <4>8. NotEarly(o)'
        BY <2>4b, <3>9, <3>15a, <4>4, <4>5, <4>6 DEF NotEarly
      <4> QED
        BY <4>5, <4>6, <4>7, <4>8
    <3> QED
      BY <3>2, <3>3
  <2> QED
    BY <2>5, <2>6
<1> QED
  BY <1>6, <1>7, <1>8, <1>9, <1>10 DEF QueueSound

-----------------------------------------------------------------------------
\* What one trade fills, over all our orders.

\* A sum of sums.
LEMMA TotalPlus ==
    ASSUME NEW F, IsFiniteSet(F), NEW u, NEW v, NEW w,
           \A x \in F : v[x] \in Int /\ w[x] \in Int /\ u[x] = v[x] + w[x]
    PROVE  Total(u, F) = Total(v, F) + Total(w, F)
<1> DEFINE Good == {T \in SUBSET F : Total(u, T) = Total(v, T) + Total(w, T)}
<1>1. {} \in Good
  BY TotalEmpty
<1>2. ASSUME NEW T \in SUBSET F, NEW x \in F \ T, T \in Good PROVE T \cup {x} \in Good
  <2>1. IsFiniteSet(T)
    BY FS_Subset
  <2>2. /\ \A y \in T \cup {x} : u[y] \in Int
        /\ \A y \in T \cup {x} : v[y] \in Int
        /\ \A y \in T \cup {x} : w[y] \in Int
    OBVIOUS
  <2>3. /\ Total(u, T \cup {x}) = Total(u, T) + u[x]
        /\ Total(v, T \cup {x}) = Total(v, T) + v[x]
        /\ Total(w, T \cup {x}) = Total(w, T) + w[x]
    BY <2>1, <2>2, TotalAdds
  <2>4. /\ \A y \in T : v[y] \in Int
        /\ \A y \in T : w[y] \in Int
    OBVIOUS
  <2>5. Total(v, T) \in Int /\ Total(w, T) \in Int
    BY <2>1, <2>4, TotalTakesOut
  <2>6. /\ Total(u, T) = Total(v, T) + Total(w, T) /\ T \cup {x} \in SUBSET F
        /\ u[x] = v[x] + w[x] /\ v[x] \in Int /\ w[x] \in Int
    BY <1>2
  <2>7. Total(u, T \cup {x}) = Total(v, T \cup {x}) + Total(w, T \cup {x})
    BY <2>3, <2>5, <2>6
  <2> QED
    BY <2>6, <2>7
<1>3. F \in Good
  <2>1. F \in SUBSET F
    OBVIOUS
  <2>2. \A T \in SUBSET F : \A x \in F \ T : T \in Good => T \cup {x} \in Good
    BY <1>2
  <2> HIDE DEF Good
  <2> QED
    BY <1>1, <2>1, <2>2, InductionOverSubsets
<1> QED
  BY <1>3

LEMMA TotalFilledIs ==
    ASSUME NEW filled
    PROVE  TotalFilled(filled) = Total(filled, Oids)
<1> DEFINE Body(t) == [T \in SUBSET Oids |->
                         IF T = {} THEN 0
                         ELSE LET x == CHOOSE y \in T : TRUE
                              IN  filled[x] + t[T \ {x}]]
           u == CHOOSE t : t = Body(t)
<1>1. TotalFilled(filled) = u[Oids]
  BY DEF TotalFilled, FoldFunctionOnSet, MapThenFoldSet
<1>2. \A t : t = Body(t) <=> IsTable(t, filled, Oids)
  BY DEF IsTable, AnyOf
<1> HIDE DEF Body
<1>3. IsTable(CHOOSE t : IsTable(t, filled, Oids), filled, Oids)
  BY QueueAssumption, TableExists
<1>4. IsTable(u, filled, Oids)
  BY <1>2, <1>3
<1> HIDE DEF u
<1>5. Oids \in SUBSET Oids /\ IsFiniteSet(Oids)
  BY QueueAssumption
<1> QED
  BY <1>1, <1>4, <1>5, TotalOfSubset

LEMMA TradeWithin ==
    ASSUME QueueSound, NEW n \in Volumes, TradePrints(n)
    PROVE  TotalFilled(estimated') - TotalFilled(estimated) <= Volume(queue) - Volume(queue')
<1> DEFINE D == DOMAIN book.orders
           fill == [o \in Oids |-> IF o \in D THEN FillIn(book, n, o) ELSE 0]
           part == [o \in D |-> FillIn(book, n, o)]
<1>1. /\ queue' = AfterTaking(queue, n) /\ n <= Volume(queue)
      /\ queue \in Seq(Entries) /\ OurBook(book) /\ n \in Nat
      /\ D \subseteq Oids /\ IsFiniteSet(Oids)
      /\ estimated \in [Oids -> Nat]
  BY QueueAssumption DEF TradePrints, QueueSound, QueueTyped, OurBook
<1>2. \A o \in Oids : estimated'[o] = estimated[o] + fill[o]
  BY TradeOnOne
<1>3. \A o \in D : fill[o] = part[o]
  BY <1>1
<1>4. \A o \in Oids \ D : fill[o] = 0
  OBVIOUS
<1>5. \A o \in Oids : fill[o] \in Int /\ estimated[o] \in Int
  <2> SUFFICES ASSUME NEW o \in Oids PROVE fill[o] \in Int /\ estimated[o] \in Int
    OBVIOUS
  <2>1. fill[o] \in 0 .. RestingSize(book, o)
    BY TradeOnOne
  <2>2. RestingSize(book, o) \in Nat /\ estimated[o] \in Nat
    BY BalanceSays
  <2> QED
    BY <2>1, <2>2
<1>6. Total(part, D) <= n
  BY <1>1, FillsWithin
<1> HIDE DEF D, fill, part
<1>7. Total(estimated', Oids) = Total(estimated, Oids) + Total(fill, Oids)
  BY <1>1, <1>2, <1>5, TotalPlus
<1>8. Total(fill, Oids) = Total(part, D)
  <2>1. IsFiniteSet(D) /\ IsFiniteSet(Oids \ D) /\ D \cap (Oids \ D) = {} /\ D \cup (Oids \ D) = Oids
    BY <1>1, FS_Subset
  <2>2. \A o \in D \cup (Oids \ D) : fill[o] \in Int
    BY <2>1, <1>5
  <2>3. Total(fill, Oids) = Total(fill, D) + Total(fill, Oids \ D)
    <3>1. Total(fill, D \cup (Oids \ D)) = Total(fill, D) + Total(fill, Oids \ D)
      BY <2>1, <2>2, TotalUnion
    <3> QED
      BY <2>1, <3>1
  <2>4. Total(fill, Oids \ D) = 0
    BY <2>1, <1>4, TotalZero
  <2>5. Total(fill, D) = Total(part, D)
    BY <2>1, <1>3, TotalSameWeights
  <2>6. Total(fill, D) \in Int
    BY <2>1, <2>2, TotalTakesOut
  <2> QED
    BY <2>3, <2>4, <2>5, <2>6
<1>9. Total(estimated, Oids) \in Int /\ Total(fill, Oids) \in Int
  <2>1. \A o \in Oids : estimated[o] \in Int
    BY <1>5
  <2>2. \A o \in Oids : fill[o] \in Int
    BY <1>5
  <2> QED
    BY <2>1, <2>2, <1>1, TotalTakesOut
<1>10. Volume(queue') = Volume(queue) - n /\ Volume(queue) \in Nat
  BY <1>1, TradeTakes, VolumeIsDepth
<1>11. TotalFilled(estimated') = Total(estimated', Oids) /\ TotalFilled(estimated) = Total(estimated, Oids)
  BY TotalFilledIs
<1> QED
  BY <1>1, <1>6, <1>7, <1>8, <1>9, <1>10, <1>11

-----------------------------------------------------------------------------
\* The theorems.

LEMMA QueueStep == QueueSound /\ [Next]_vars => QueueSound'
<1> SUFFICES ASSUME QueueSound, [Next]_vars PROVE QueueSound'
  OBVIOUS
<1>1. CASE \E n \in Volumes : PublicJoins(n)
  BY <1>1, SoundAfterPublicJoins
<1>2. CASE \E o \in Oids, n \in Volumes : WeJoin(o, n)
  BY <1>2, SoundAfterWeJoin
<1>3. CASE \E n \in Volumes : TradePrints(n)
  BY <1>3, SoundAfterTradePrints
<1>4. CASE LevelPublished
  BY <1>4, SoundAfterLevelPublished
<1>5. CASE \E i \in DOMAIN queue : PublicCancels(i)
  BY <1>5, SoundAfterPublicCancels
<1>6. CASE UNCHANGED vars
  BY <1>6 DEF vars, QueueSound, QueueTyped, LevelIsCurrent, Balanced, OwnTimePriority, Alone, Had,
              NotBehind, NotEarly
<1> QED
  BY <1>1, <1>2, <1>3, <1>4, <1>5, <1>6 DEF Next

\* The estimate and the exchange's queue stay in balance.
THEOREM QueueStaysSound == Spec => []QueueSound
BY QueueInit, QueueStep, PTL DEF Spec

\* In a burst of trades between two level updates, for an only order that saw no
\* cancellation in front of it, the book fills what the exchange fills and
\* queue_position is the volume really in front: what the comment of
\* process_trade promises.  Cancellations in front make both err to the late
\* side, by no more than they withdrew.
THEOREM EstimateIsExact == Spec => []EstimateExact
BY QueueStaysSound, SoundIsExact, PTL

\* However trades, level updates, joins and cancellations interleave,
\* process_trade is late with the fills of an only order by no more than was
\* cancelled in front of it.
THEOREM FillsAreLateByWithdrawn == Spec => []LateByWithdrawn
BY QueueStaysSound, SoundIsLateByWithdrawn, PTL

\* process_trade never fills an order of ours while one that joined the level
\* before it still rests.
THEOREM OursInTimeOrder == Spec => []OwnTimePriority
<1>1. QueueSound => OwnTimePriority
  BY DEF QueueSound
<1> QED
  BY <1>1, QueueStaysSound, PTL

\* One call of process_trade never hands our orders more than the trade took
\* from the exchange's queue.
THEOREM TradesAreNotOverspent == Spec => TradeNotOverspent
<1>1. QueueSound /\ [Next]_vars =>
        [trades' # trades =>
           TotalFilled(estimated') - TotalFilled(estimated) <= Volume(queue) - Volume(queue')]_vars
  <2> SUFFICES ASSUME QueueSound, Next, trades' # trades
               PROVE  TotalFilled(estimated') - TotalFilled(estimated) <= Volume(queue) - Volume(queue')
    BY DEF vars
  <2>1. PICK n \in Volumes : TradePrints(n)
    BY DEF Next, PublicJoins, PublicCancels, WeJoin, LevelPublished
  <2> QED
    BY <2>1, TradeWithin
<1> QED
  BY <1>1, QueueStaysSound, PTL DEF Spec, TradeNotOverspent
=============================================================================
