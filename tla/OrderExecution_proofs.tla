----------------------- MODULE OrderExecution_proofs -----------------------
(***************************************************************************)
(* Facts about the operators of L2Book and OrderExecution, for the proofs  *)
(* of the machines that are built from them: what a public event, an       *)
(* arrival and a trade may do to our orders, and what the sums over the    *)
(* fills are when fills are added.                                         *)
(*                                                                         *)
(* Both kinds of fact are about recursive functions.  A set of numbers or  *)
(* of subsets stands for the induction hypothesis: it holds the base, is   *)
(* closed under one more step, and so holds everything.                    *)
(***************************************************************************)
EXTENDS OrderExecution, FiniteSetsExt, FiniteSetTheorems, WellFoundedInduction, TLAPS

-----------------------------------------------------------------------------
\* Induction.

\* A set of natural numbers that is not empty has a smallest element.
LEMMA SmallestNat ==
    ASSUME NEW S, S \subseteq Nat, S # {}
    PROVE  \E m \in S : \A n \in S : m <= n
<1>1. \E m \in S : \A n \in S : <<n, m>> \notin OpToRel(<, Nat)
  BY NatLessThanWellFounded, WFMin
<1>2. PICK m \in S : \A n \in S : <<n, m>> \notin OpToRel(<, Nat)
  BY <1>1
<1>3. ASSUME NEW n \in S PROVE m <= n
  <2>1. ~(n < m)
    BY <1>2 DEF OpToRel
  <2> QED
    BY <2>1
<1> QED
  BY <1>3

\* Induction over the natural numbers, for a set that holds 0 and successors.
LEMMA InductionOverNat ==
    ASSUME NEW S, 0 \in S, \A n \in Nat : n \in S => n + 1 \in S
    PROVE  \A n \in Nat : n \in S
<1> SUFFICES ASSUME Nat \ S # {} PROVE FALSE
  OBVIOUS
<1>1. PICK m \in Nat \ S : \A n \in Nat \ S : m <= n
  BY SmallestNat
<1>2. m # 0 /\ m - 1 \in Nat
  BY <1>1
<1>3. m - 1 \in S
  BY <1>1, <1>2
<1> QED
  BY <1>1, <1>2, <1>3

\* Induction over the subsets of a finite set, for a set of subsets that
\* holds the empty one and grows one element at a time.
LEMMA InductionOverSubsets ==
    ASSUME NEW F, IsFiniteSet(F), NEW Good, {} \in Good,
           \A T \in SUBSET F : \A x \in F \ T : T \in Good => T \cup {x} \in Good
    PROVE  \A T \in SUBSET F : T \in Good
<1> SUFFICES ASSUME NEW B \in SUBSET F, B \notin Good PROVE FALSE
  OBVIOUS
<1> DEFINE Bad   == {T \in SUBSET F : T \notin Good}
           sizes == {Cardinality(T) : T \in Bad}
<1>1. ASSUME NEW T \in SUBSET F PROVE IsFiniteSet(T) /\ Cardinality(T) \in Nat
  BY FS_Subset, FS_CardinalityType
<1>2. sizes \subseteq Nat /\ sizes # {}
  BY <1>1
<1>3. PICK T \in Bad : \A U \in Bad : Cardinality(T) <= Cardinality(U)
  <2>1. PICK n \in sizes : \A m \in sizes : n <= m
    <3> HIDE DEF sizes
    <3> QED
      BY <1>2, SmallestNat
  <2> QED
    BY <2>1
<1>4. PICK x : x \in T
  BY <1>3
<1>5. Cardinality(T \ {x}) = Cardinality(T) - 1
  BY <1>1, <1>3, <1>4, FS_RemoveElement
<1>6. T \ {x} \in SUBSET F /\ T \ {x} \in Good
  BY <1>1, <1>3, <1>5
<1>7. (T \ {x}) \cup {x} = T
  BY <1>4
<1> QED
  BY <1>3, <1>4, <1>6, <1>7

-----------------------------------------------------------------------------
\* Sums over a finite set, of the weights w.

\* The choice that FoldSet and MapThenSumSet make.
AnyOf(T) == CHOOSE x \in T : TRUE

\* t is a table of the partial sums of w over the subsets of F of up to n
\* elements.
IsTableUpto(t, w, F, n) ==
    t = [T \in SUBSET F |-> IF T = {} \/ Cardinality(T) > n THEN 0
                            ELSE w[AnyOf(T)] + t[T \ {AnyOf(T)}]]

IsTable(t, w, F) ==
    t = [T \in SUBSET F |-> IF T = {} THEN 0 ELSE w[AnyOf(T)] + t[T \ {AnyOf(T)}]]

Total(w, F) == (CHOOSE t : IsTable(t, w, F))[F]

LEMMA Sizes ==
    ASSUME NEW F, IsFiniteSet(F), NEW T \in SUBSET F
    PROVE  /\ IsFiniteSet(T)
           /\ Cardinality(T) \in Nat
           /\ Cardinality(T) <= Cardinality(F)
           /\ Cardinality(T) = 0 <=> T = {}
           /\ \A x \in T : Cardinality(T \ {x}) = Cardinality(T) - 1
           /\ T # {} => AnyOf(T) \in T
<1>1. IsFiniteSet(T) /\ Cardinality(T) \in Nat /\ Cardinality(T) <= Cardinality(F)
  BY FS_Subset, FS_CardinalityType
<1>2. T # {} => AnyOf(T) \in T
  BY DEF AnyOf
<1> QED
  BY <1>1, <1>2, FS_EmptySet, FS_RemoveElement

\* A table that is right for subsets of up to n elements extends to n + 1.
LEMMA TableGrows ==
    ASSUME NEW F, IsFiniteSet(F), NEW w, NEW n \in Nat,
           NEW t, IsTableUpto(t, w, F, n)
    PROVE  \E u : IsTableUpto(u, w, F, n + 1)
<1> DEFINE u == [T \in SUBSET F |->
                   IF T = {} \/ Cardinality(T) > n + 1 THEN 0
                   ELSE w[AnyOf(T)] + t[T \ {AnyOf(T)}]]
<1>1. ASSUME NEW T \in SUBSET F, Cardinality(T) <= n PROVE u[T] = t[T]
  <2>1. t[T] = IF T = {} \/ Cardinality(T) > n THEN 0
               ELSE w[AnyOf(T)] + t[T \ {AnyOf(T)}]
    BY DEF IsTableUpto
  <2>2. Cardinality(T) \in Nat
    BY Sizes
  <2> QED
    BY <1>1, <2>1, <2>2
<1>2. ASSUME NEW T \in SUBSET F
      PROVE  u[T] = IF T = {} \/ Cardinality(T) > n + 1 THEN 0
                    ELSE w[AnyOf(T)] + u[T \ {AnyOf(T)}]
  <2>1. CASE T = {} \/ Cardinality(T) > n + 1
    BY <2>1
  <2>2. CASE T # {} /\ ~(Cardinality(T) > n + 1)
    <3> DEFINE R == T \ {AnyOf(T)}
    <3>1. R \in SUBSET F /\ Cardinality(R) <= n
      BY <2>2, Sizes
    <3>2. u[R] = t[R]
      BY <1>1, <3>1
    <3> QED
      BY <2>2, <3>2
  <2> QED
    BY <2>1, <2>2
<1>3. u = [T \in SUBSET F |-> u[T]]
  OBVIOUS
<1>4. IsTableUpto(u, w, F, n + 1)
  <2> HIDE DEF u
  <2> QED
    BY <1>2, <1>3 DEF IsTableUpto
<1> QED
  BY <1>4

LEMMA TableExists ==
    ASSUME NEW F, IsFiniteSet(F), NEW w
    PROVE  IsTable(CHOOSE t : IsTable(t, w, F), w, F)
<1> DEFINE Good == {n \in Nat : \E t : IsTableUpto(t, w, F, n)}
<1>1. 0 \in Good
  <2> DEFINE t == [T \in SUBSET F |-> 0]
  <2>1. IsTableUpto(t, w, F, 0)
    BY Sizes DEF IsTableUpto
  <2> QED
    BY <2>1
<1>2. \A n \in Nat : n \in Good => n + 1 \in Good
  BY TableGrows
<1>3. Cardinality(F) \in Good
  <2> HIDE DEF Good
  <2> QED
    BY <1>1, <1>2, InductionOverNat, FS_CardinalityType
<1>4. PICK t : IsTableUpto(t, w, F, Cardinality(F))
  BY <1>3
<1>5. IsTable(t, w, F)
  <2>1. \A T \in SUBSET F : ~(Cardinality(T) > Cardinality(F))
    BY Sizes, FS_CardinalityType
  <2> QED
    BY <1>4, <2>1 DEF IsTable, IsTableUpto
<1> QED
  BY <1>5

\* Only one table is right.
LEMMA TableUnique ==
    ASSUME NEW F, IsFiniteSet(F), NEW w, NEW t, IsTable(t, w, F),
           NEW u, IsTable(u, w, F)
    PROVE  t = u
<1> DEFINE Good == {n \in Nat : \A T \in SUBSET F : Cardinality(T) = n => t[T] = u[T]}
<1>1. 0 \in Good
  BY Sizes DEF IsTable
<1>2. ASSUME NEW n \in Nat, n \in Good PROVE n + 1 \in Good
  <2> SUFFICES ASSUME NEW T \in SUBSET F, Cardinality(T) = n + 1 PROVE t[T] = u[T]
    OBVIOUS
  <2> DEFINE R == T \ {AnyOf(T)}
  <2>1. T # {} /\ R \in SUBSET F /\ Cardinality(R) = n
    BY Sizes
  <2>2. t[R] = u[R]
    BY <1>2, <2>1
  <2>3. t[T] = w[AnyOf(T)] + t[R] /\ u[T] = w[AnyOf(T)] + u[R]
    BY <2>1 DEF IsTable
  <2> QED
    BY <2>2, <2>3
<1>3. \A n \in Nat : n \in Good
  <2> HIDE DEF Good
  <2> QED
    BY <1>1, <1>2, InductionOverNat
<1>4. \A T \in SUBSET F : t[T] = u[T]
  BY <1>3, Sizes
<1>5. t = [T \in SUBSET F |-> t[T]] /\ u = [T \in SUBSET F |-> u[T]]
  BY DEF IsTable
<1> QED
  BY <1>4, <1>5

\* A table for F holds the totals of its subsets.
LEMMA TotalOfSubset ==
    ASSUME NEW F, IsFiniteSet(F), NEW w, NEW t, IsTable(t, w, F),
           NEW T \in SUBSET F
    PROVE  Total(w, T) = t[T]
<1> DEFINE u == [U \in SUBSET T |-> t[U]]
<1>1. ASSUME NEW U \in SUBSET T
      PROVE  u[U] = IF U = {} THEN 0 ELSE w[AnyOf(U)] + u[U \ {AnyOf(U)}]
  <2>1. U \in SUBSET F /\ U \ {AnyOf(U)} \in SUBSET T
    OBVIOUS
  <2> QED
    BY <2>1 DEF IsTable
<1>2. u = [U \in SUBSET T |-> u[U]]
  OBVIOUS
<1>3. IsTable(u, w, T) /\ u[T] = t[T]
  <2>1. u[T] = t[T]
    OBVIOUS
  <2> HIDE DEF u
  <2> QED
    BY <1>1, <1>2, <2>1 DEF IsTable
<1>4. IsFiniteSet(T)
  BY Sizes
<1> HIDE DEF u
<1> QED
  BY <1>3, <1>4, TableExists, TableUnique DEF Total

\* Weights that agree on F have the same sum over F.
LEMMA TotalSameWeights ==
    ASSUME NEW F, IsFiniteSet(F), NEW v, NEW w, \A x \in F : v[x] = w[x]
    PROVE  Total(v, F) = Total(w, F)
<1> DEFINE t == CHOOSE t : IsTable(t, w, F)
<1>1. IsTable(t, w, F)
  BY TableExists
<1> HIDE DEF t
<1>2. ASSUME NEW T \in SUBSET F
      PROVE  t[T] = IF T = {} THEN 0 ELSE v[AnyOf(T)] + t[T \ {AnyOf(T)}]
  <2>1. T # {} => AnyOf(T) \in F
    BY Sizes
  <2> QED
    BY <1>1, <2>1 DEF IsTable
<1>3. IsTable(t, v, F)
  BY <1>1, <1>2 DEF IsTable
<1> QED
  BY <1>1, <1>3, TotalOfSubset

\* The empty sum is 0.
LEMMA TotalEmpty ==
    ASSUME NEW w
    PROVE  Total(w, {}) = 0
BY TableExists, FS_EmptySet DEF Total, IsTable

\* The partial sum t[T] is an integer, and any member may be taken out first.
TakesOut(t, w, T) == t[T] \in Int /\ \A x \in T : t[T] = w[x] + t[T \ {x}]

\* If that holds of every proper part of T, it holds of T: two members may be
\* taken out in either order.
LEMMA TakesOutStep ==
    ASSUME NEW F, IsFiniteSet(F), NEW w, \A x \in F : w[x] \in Int,
           NEW t, IsTable(t, w, F), NEW T \in SUBSET F,
           \A R \in SUBSET T : R # T => TakesOut(t, w, R)
    PROVE  TakesOut(t, w, T)
<1>1. CASE T = {}
  BY <1>1 DEF IsTable, TakesOut
<1>2. CASE T # {}
  <2> DEFINE a == AnyOf(T)
  <2>1. a \in T /\ w[a] \in Int
    BY <1>2, Sizes
  <2>2. TakesOut(t, w, T \ {a})
    BY <2>1
  <2>3. t[T] = w[a] + t[T \ {a}]
    BY <1>2 DEF IsTable
  <2> HIDE DEF a
  <2>4. ASSUME NEW x \in T, x # a PROVE t[T] = w[x] + t[T \ {x}]
    <3> DEFINE both == T \ {a, x}
    <3>1. (T \ {a}) \ {x} = both /\ (T \ {x}) \ {a} = both
      OBVIOUS
    <3>2. TakesOut(t, w, T \ {x}) /\ TakesOut(t, w, both) /\ w[x] \in Int
      <4>1. T \ {x} # T /\ both # T
        BY <2>1
      <4> QED
        BY <4>1
    <3>3. t[T \ {a}] = w[x] + t[both]
      BY <2>2, <2>4, <3>1 DEF TakesOut
    <3>4. t[T \ {x}] = w[a] + t[both]
      BY <2>1, <2>4, <3>1, <3>2 DEF TakesOut
    <3> QED
      BY <2>1, <2>3, <3>2, <3>3, <3>4 DEF TakesOut
  <2>5. t[T] \in Int
    BY <2>1, <2>2, <2>3 DEF TakesOut
  <2>6. \A x \in T : t[T] = w[x] + t[T \ {x}]
    BY <2>3, <2>4
  <2> QED
    BY <2>5, <2>6 DEF TakesOut
<1> QED
  BY <1>1, <1>2

LEMMA TableTakesOut ==
    ASSUME NEW F, IsFiniteSet(F), NEW w, \A x \in F : w[x] \in Int,
           NEW t, IsTable(t, w, F)
    PROVE  TakesOut(t, w, F)
<1> DEFINE Good == {n \in Nat : \A T \in SUBSET F :
                                   Cardinality(T) <= n => TakesOut(t, w, T)}
<1>1. ASSUME NEW T \in SUBSET F, NEW R \in SUBSET T, R # T
      PROVE  Cardinality(R) \in Nat /\ Cardinality(T) \in Nat /\ Cardinality(R) < Cardinality(T)
  <2>1. IsFiniteSet(T) /\ Cardinality(T) \in Nat /\ Cardinality(R) \in Nat
    BY Sizes
  <2> QED
    BY <1>1, <2>1, FS_Subset
<1>2. 0 \in Good
  <2> SUFFICES ASSUME NEW T \in SUBSET F, Cardinality(T) <= 0 PROVE TakesOut(t, w, T)
    OBVIOUS
  <2>1. T = {}
    BY Sizes
  <2> QED
    BY <2>1, TakesOutStep
<1>3. ASSUME NEW n \in Nat, n \in Good PROVE n + 1 \in Good
  <2> SUFFICES ASSUME NEW T \in SUBSET F, Cardinality(T) <= n + 1 PROVE TakesOut(t, w, T)
    OBVIOUS
  <2>1. \A R \in SUBSET T : R # T => TakesOut(t, w, R)
    BY <1>1, <1>3
  <2> QED
    BY <2>1, TakesOutStep
<1>4. \A n \in Nat : n \in Good
  <2> HIDE DEF Good
  <2> QED
    BY <1>2, <1>3, InductionOverNat
<1> QED
  BY <1>4, FS_CardinalityType

\* A sum of integers is one, and any member may be taken out first.
LEMMA TotalTakesOut ==
    ASSUME NEW F, IsFiniteSet(F), NEW w, \A x \in F : w[x] \in Int
    PROVE  /\ Total(w, F) \in Int
           /\ \A x \in F : Total(w, F) = w[x] + Total(w, F \ {x})
<1> DEFINE t == CHOOSE t : IsTable(t, w, F)
<1>1. IsTable(t, w, F)
  BY TableExists
<1> HIDE DEF t
<1>2. Total(w, F) = t[F] /\ \A x \in F : Total(w, F \ {x}) = t[F \ {x}]
  BY <1>1, TotalOfSubset
<1>3. TakesOut(t, w, F)
  BY <1>1, TableTakesOut
<1> QED
  BY <1>2, <1>3 DEF TakesOut

\* A new element adds its weight.
LEMMA TotalAdds ==
    ASSUME NEW F, IsFiniteSet(F), NEW x, x \notin F,
           NEW w, \A y \in F \cup {x} : w[y] \in Int
    PROVE  Total(w, F \cup {x}) = Total(w, F) + w[x]
<1>1. IsFiniteSet(F \cup {x}) /\ (F \cup {x}) \ {x} = F
  BY FS_AddElement
<1>2. Total(w, F \cup {x}) = w[x] + Total(w, F) /\ Total(w, F) \in Int
  BY <1>1, TotalTakesOut
<1> QED
  BY <1>2

\* A sum of natural numbers is one.
LEMMA TotalNat ==
    ASSUME NEW F, IsFiniteSet(F), NEW w, \A x \in F : w[x] \in Nat
    PROVE  Total(w, F) \in Nat
<1> DEFINE Good == {T \in SUBSET F : Total(w, T) \in Nat}
<1>1. {} \in Good
  BY TotalEmpty
<1>2. ASSUME NEW T \in SUBSET F, NEW x \in F \ T, T \in Good PROVE T \cup {x} \in Good
  <2>1. IsFiniteSet(T) /\ Total(w, T) \in Nat /\ w[x] \in Nat
    BY <1>2, Sizes
  <2>2. Total(w, T \cup {x}) = Total(w, T) + w[x]
    BY <2>1, TotalAdds
  <2>3. T \cup {x} \in SUBSET F
    OBVIOUS
  <2> QED
    BY <2>1, <2>2, <2>3
<1>3. F \in Good
  <2> HIDE DEF Good
  <2> QED
    BY <1>1, <1>2, InductionOverSubsets
<1> QED
  BY <1>3

\* Sums over disjoint sets add up.
LEMMA TotalUnion ==
    ASSUME NEW F, IsFiniteSet(F), NEW G, IsFiniteSet(G), F \cap G = {},
           NEW w, \A x \in F \cup G : w[x] \in Int
    PROVE  Total(w, F \cup G) = Total(w, F) + Total(w, G)
<1> DEFINE Good == {T \in SUBSET G : Total(w, F \cup T) = Total(w, F) + Total(w, T)}
<1>1. {} \in Good
  BY TotalEmpty, TotalTakesOut
<1>2. ASSUME NEW T \in SUBSET G, NEW x \in G \ T, T \in Good PROVE T \cup {x} \in Good
  <2>1. IsFiniteSet(T) /\ IsFiniteSet(F \cup T)
    BY Sizes, FS_Union
  <2>2. Total(w, (F \cup T) \cup {x}) = Total(w, F \cup T) + w[x]
    BY <2>1, TotalAdds
  <2>3. Total(w, T \cup {x}) = Total(w, T) + w[x]
    BY <2>1, TotalAdds
  <2>4. Total(w, F) \in Int /\ Total(w, T) \in Int /\ w[x] \in Int
    BY <2>1, TotalTakesOut
  <2>5. (F \cup T) \cup {x} = F \cup (T \cup {x}) /\ T \cup {x} \in SUBSET G
    OBVIOUS
  <2>6. Total(w, F \cup (T \cup {x})) = (Total(w, F) + Total(w, T)) + w[x]
    BY <1>2, <2>2, <2>5
  <2> QED
    BY <2>3, <2>4, <2>5, <2>6
<1>3. G \in Good
  <2> HIDE DEF Good
  <2> QED
    BY <1>1, <1>2, InductionOverSubsets
<1> QED
  BY <1>3

-----------------------------------------------------------------------------
\* The book.

Depths == [Prices -> Nat]

RestingOrders ==
    [side : Sides, price : Prices, size : Nat \ {0}, ahead : Nat, level : Nat,
     placedAt : Nat, rank : Nat \ {0}]

\* A book has its five fields.
IsRecord(b) ==
    b = [bids |-> b.bids, asks |-> b.asks, tick |-> b.tick, orders |-> b.orders,
         joined |-> b.joined]

\* A book of the right types: every resting order has something left and a
\* rank of its own among those that joined.
IsBook(b) ==
    /\ IsRecord(b)
    /\ b.bids \in Depths /\ b.asks \in Depths /\ b.tick \in Nat \ {0} /\ b.joined \in Nat
    /\ b.orders = [o \in DOMAIN b.orders |-> b.orders[o]]
    /\ \A o \in DOMAIN b.orders :
          b.orders[o] \in RestingOrders /\ b.orders[o].rank <= b.joined

\* The books after 0 .. n of the entries of a price_change event.
IsApplied(g, b, changes, n) ==
    g = [i \in 0 .. n |->
           IF i = 0 THEN b
           ELSE ApplyPriceChange(g[i - 1], changes[i].aggressor,
                                 changes[i].price, changes[i].size)]

LEMMA AppliedExists ==
    ASSUME NEW b, NEW changes, NEW n \in Nat
    PROVE  \E g : IsApplied(g, b, changes, n)
<1> DEFINE Good == {k \in Nat : \E g : IsApplied(g, b, changes, k)}
<1>1. 0 \in Good
  <2> DEFINE g == [i \in 0 .. 0 |-> b]
  <2>1. IsApplied(g, b, changes, 0)
    BY DEF IsApplied
  <2> QED
    BY <2>1
<1>2. ASSUME NEW k \in Nat, k \in Good PROVE k + 1 \in Good
  <2>1. PICK g : IsApplied(g, b, changes, k)
    BY <1>2
  <2> DEFINE next == ApplyPriceChange(g[k], changes[k + 1].aggressor,
                                      changes[k + 1].price, changes[k + 1].size)
             h == [i \in 0 .. (k + 1) |-> IF i = k + 1 THEN next ELSE g[i]]
  <2>2. ASSUME NEW i \in 0 .. (k + 1)
        PROVE  h[i] = IF i = 0 THEN b
                      ELSE ApplyPriceChange(h[i - 1], changes[i].aggressor,
                                            changes[i].price, changes[i].size)
    <3>1. CASE i = k + 1
      <4>1. h[i] = next /\ h[i - 1] = g[k] /\ i - 1 = k
        BY <3>1
      <4> QED
        BY <3>1, <4>1
    <3>2. CASE i # k + 1
      <4>1. i \in 0 .. k /\ h[i] = g[i] /\ (i # 0 => h[i - 1] = g[i - 1])
        BY <3>2
      <4> QED
        BY <2>1, <4>1 DEF IsApplied
    <3> QED
      BY <3>1, <3>2
  <2>3. h = [i \in 0 .. (k + 1) |-> h[i]]
    OBVIOUS
  <2> HIDE DEF h
  <2>4. IsApplied(h, b, changes, k + 1)
    BY <2>2, <2>3 DEF IsApplied
  <2> QED
    BY <2>4
<1>3. n \in Good
  <2> HIDE DEF Good
  <2> QED
    BY <1>1, <1>2, InductionOverNat
<1> QED
  BY <1>3

LEMMA AppliedDef ==
    ASSUME NEW b, NEW changes, Len(changes) \in Nat
    PROVE  \E g : /\ IsApplied(g, b, changes, Len(changes))
                 /\ ApplyPriceChanges(b, changes) = g[Len(changes)]
<1> DEFINE g == CHOOSE g : IsApplied(g, b, changes, Len(changes))
<1>1. IsApplied(g, b, changes, Len(changes))
  BY AppliedExists
<1>2. ApplyPriceChanges(b, changes) = g[Len(changes)]
  BY DEF ApplyPriceChanges, IsApplied
<1> QED
  BY <1>1, <1>2

\* c differs from b in the public depths only.
SameOrders(b, c) ==
    IsRecord(c) /\ c.tick = b.tick /\ c.orders = b.orders /\ c.joined = b.joined

TypedDepths(b) == b.bids \in Depths /\ b.asks \in Depths

Change  == [aggressor : {"BUY", "SELL"}, price : Prices, size : Nat]
Changes == Seq(Change)

\* What an event from the feed carries, once it is stamped.
WellFormedMove(m) ==
    /\ IsMarket(m)
    /\ m.kind = "book" => m.bids \in Depths /\ m.asks \in Depths
    /\ m.kind = "price_change" => m.changes \in Changes
    /\ m.kind = "trade" => m.price \in Nat /\ m.size \in Nat
    /\ m.kind = "tick_size_change" => m.tick \in Nat \ {0}

\* A stamped event carries its timestamp and number, and all it had before.
LEMMA StampedFields ==
    ASSUME NEW m, NEW ts, NEW s
    PROVE  /\ Stamped(m, ts, s).ts = ts /\ Stamped(m, ts, s).seq = s
           /\ m \in FeedMoves => WellFormedMove(Stamped(m, ts, s))
<1> DEFINE e == Stamped(m, ts, s)
<1>1. e.ts = ts /\ e.seq = s
  BY DEF Stamped
<1>2. CASE m \in [kind : {"book"}, bids : Depths, asks : Depths]
  <2>1. e.kind = m.kind /\ e.bids = m.bids /\ e.asks = m.asks
    BY <1>2 DEF Stamped
  <2> HIDE DEF e
  <2> QED
    BY <1>1, <1>2, <2>1 DEF WellFormedMove, IsMarket, e
<1>3. CASE m \in [kind : {"price_change"}, changes : Changes]
  <2>1. e.kind = m.kind /\ e.changes = m.changes
    BY <1>3 DEF Stamped
  <2> HIDE DEF e
  <2> QED
    BY <1>1, <1>3, <2>1 DEF WellFormedMove, IsMarket, e
<1>4. CASE m \in [kind : {"trade"}, price : Nat, size : Nat, aggressor : {"BUY", "SELL"}]
  <2>1. e.kind = m.kind /\ e.price = m.price /\ e.size = m.size
    BY <1>4 DEF Stamped
  <2> HIDE DEF e
  <2> QED
    BY <1>1, <1>4, <2>1 DEF WellFormedMove, IsMarket, e
<1>5. CASE m \in [kind : {"tick_size_change"}, tick : Nat \ {0}]
  <2>1. e.kind = m.kind /\ e.tick = m.tick
    BY <1>5 DEF Stamped
  <2> HIDE DEF e
  <2> QED
    BY <1>1, <1>5, <2>1 DEF WellFormedMove, IsMarket, e
<1>6. CASE m \notin FeedMoves
  BY <1>1, <1>6
<1> QED
  BY <1>2, <1>3, <1>4, <1>5, <1>6 DEF FeedMoves, Depths, Changes, Change

\* A price_change event leaves our orders alone.
LEMMA PriceChangesKeepOrders ==
    ASSUME NEW b, IsRecord(b), NEW changes \in Changes
    PROVE  /\ SameOrders(b, ApplyPriceChanges(b, changes))
           /\ TypedDepths(b) => TypedDepths(ApplyPriceChanges(b, changes))
<1>1. PICK g : /\ IsApplied(g, b, changes, Len(changes))
               /\ ApplyPriceChanges(b, changes) = g[Len(changes)]
  BY AppliedDef DEF Changes
<1> DEFINE Kept(c) == SameOrders(b, c) /\ (TypedDepths(b) => TypedDepths(c))
           Good == {k \in Nat : k <= Len(changes) => Kept(g[k])}
<1>2. 0 \in Good
  BY <1>1 DEF IsApplied, SameOrders, TypedDepths, Changes
<1>3. ASSUME NEW k \in Nat, k \in Good PROVE k + 1 \in Good
  <2> SUFFICES ASSUME k + 1 <= Len(changes) PROVE Kept(g[k + 1])
    OBVIOUS
  <2>1. k + 1 \in 1 .. Len(changes) /\ Kept(g[k])
    BY <1>3 DEF Changes
  <2>2. changes[k + 1].price \in Prices /\ changes[k + 1].size \in Nat
    <3> HIDE DEF Kept
    <3>1. \A i \in 1 .. Len(changes) : changes[i] \in Change
      BY DEF Changes
    <3> QED
      BY <2>1, <3>1 DEF Change
  <2>3. g[k + 1] = ApplyPriceChange(g[k], changes[k + 1].aggressor,
                                    changes[k + 1].price, changes[k + 1].size)
    BY <1>1, <2>1 DEF IsApplied
  <2>4. ASSUME NEW c, Kept(c), NEW agg, NEW p \in Prices, NEW s \in Nat
        PROVE  Kept(ApplyPriceChange(c, agg, p, s))
    BY <2>4 DEF ApplyPriceChange, SameOrders, TypedDepths, IsRecord, Depths
  <2> HIDE DEF Kept
  <2> QED
    BY <2>1, <2>2, <2>3, <2>4
<1>4. \A k \in Nat : k \in Good
  <2> HIDE DEF Good
  <2> QED
    BY <1>2, <1>3, InductionOverNat
<1> QED
  BY <1>1, <1>4 DEF Changes

-----------------------------------------------------------------------------
\* The walk of a trade.

WalkStart(size) == [left |-> size, eaten |-> [p \in Prices |-> 0]]

WalkStep(b, price, aggressor, w, r) ==
    LET next == {o \in DOMAIN b.orders :
                   /\ b.orders[o].rank = r
                   /\ w.left > 0
                   /\ Hits(b, b.orders[o], price, aggressor)}
    IN  IF next = {} THEN w
        ELSE LET o     == b.orders[CHOOSE x \in next : TRUE]
                 queue == QueueRemaining(b, o, w.eaten[o.price])
                 taken == TakenAt(queue, w.left, o.size)
             IN  [left  |-> w.left - taken,
                  eaten |-> [w.eaten EXCEPT ![o.price] = @ + taken]]

\* What is left and eaten after the orders of rank 0 .. n.
IsWalk(g, b, price, size, aggressor, n) ==
    g = [r \in 0 .. n |-> IF r = 0 THEN WalkStart(size)
                          ELSE WalkStep(b, price, aggressor, g[r - 1], r)]

LEMMA WalkExists ==
    ASSUME NEW b, NEW price, NEW size, NEW aggressor, NEW n \in Nat
    PROVE  \E g : IsWalk(g, b, price, size, aggressor, n)
<1> DEFINE Is(g, k) == IsWalk(g, b, price, size, aggressor, k)
           Good == {k \in Nat : \E g : Is(g, k)}
<1>1. 0 \in Good
  <2> DEFINE g == [r \in 0 .. 0 |-> WalkStart(size)]
  <2>1. Is(g, 0)
    BY DEF IsWalk
  <2> QED
    BY <2>1
<1>2. ASSUME NEW k \in Nat, k \in Good PROVE k + 1 \in Good
  <2>1. PICK g : Is(g, k)
    BY <1>2
  <2> DEFINE next == WalkStep(b, price, aggressor, g[k], k + 1)
             h == [r \in 0 .. (k + 1) |-> IF r = k + 1 THEN next ELSE g[r]]
  <2>2. ASSUME NEW r \in 0 .. (k + 1)
        PROVE  h[r] = IF r = 0 THEN WalkStart(size)
                      ELSE WalkStep(b, price, aggressor, h[r - 1], r)
    <3>1. CASE r = k + 1
      <4>1. h[r] = next /\ h[r - 1] = g[k] /\ r - 1 = k
        BY <3>1
      <4> QED
        BY <3>1, <4>1
    <3>2. CASE r # k + 1
      <4>1. r \in 0 .. k /\ h[r] = g[r] /\ (r # 0 => h[r - 1] = g[r - 1])
        BY <3>2
      <4> QED
        BY <2>1, <4>1 DEF IsWalk
    <3> QED
      BY <3>1, <3>2
  <2>3. h = [r \in 0 .. (k + 1) |-> h[r]]
    OBVIOUS
  <2> HIDE DEF h
  <2>4. Is(h, k + 1)
    BY <2>2, <2>3 DEF IsWalk
  <2> QED
    BY <2>4
<1>3. n \in Good
  <2> HIDE DEF Good
  <2> QED
    BY <1>1, <1>2, InductionOverNat
<1> QED
  BY <1>3

LEMMA WalkDef ==
    ASSUME NEW b, b.joined \in Nat, NEW price, NEW size, NEW aggressor
    PROVE  IsWalk(Walk(b, price, size, aggressor), b, price, size, aggressor, b.joined)
<1> DEFINE g == CHOOSE g : IsWalk(g, b, price, size, aggressor, b.joined)
<1>1. IsWalk(g, b, price, size, aggressor, b.joined)
  BY WalkExists
<1>2. Walk(b, price, size, aggressor) = g
  BY DEF Walk, IsWalk, WalkStart, WalkStep
<1> QED
  BY <1>1, <1>2

\* The queue that is left in front of an order is never negative.
LEMMA QueueIsNat ==
    ASSUME NEW b, IsBook(b), NEW o \in RestingOrders, NEW eaten \in Nat
    PROVE  QueueRemaining(b, o, eaten) \in Nat
<1>1. Public(b, o.side, o.price) \in Nat
  BY DEF IsBook, Depths, RestingOrders, Public
<1>2. o.ahead \in Nat /\ o.level \in Nat
  BY DEF RestingOrders
<1> QED
  BY <1>1, <1>2 DEF QueueRemaining, Floor0, Larger

\* Neither the queue nor the order takes more than is left of the trade, and
\* an order takes at most its size.
LEMMA TakenWithinTrade ==
    ASSUME NEW queue \in Nat, NEW left \in Nat, NEW size \in Nat
    PROVE  /\ FillOf(queue, left, size) \in 0 .. size
           /\ TakenAt(queue, left, size) \in 0 .. left
BY DEF FillOf, TakenAt, Smaller

Walking == [left : Nat, eaten : Depths]

\* A trade never gives out more than its own size.
LEMMA WalkTyped ==
    ASSUME NEW b, IsBook(b), NEW price, NEW size \in Nat, NEW aggressor
    PROVE  \A r \in 0 .. b.joined : Walk(b, price, size, aggressor)[r] \in Walking
<1> DEFINE walk == Walk(b, price, size, aggressor)
<1>1. IsWalk(walk, b, price, size, aggressor, b.joined) /\ b.joined \in Nat
  BY WalkDef DEF IsBook
<1> HIDE DEF walk
<1> DEFINE Good == {k \in Nat : k <= b.joined => walk[k] \in Walking}
<1>2. 0 \in Good
  BY <1>1 DEF IsWalk, WalkStart, Walking, Depths
<1>3. ASSUME NEW w \in Walking, NEW r PROVE WalkStep(b, price, aggressor, w, r) \in Walking
  <2> DEFINE next == {o \in DOMAIN b.orders :
                        /\ b.orders[o].rank = r
                        /\ w.left > 0
                        /\ Hits(b, b.orders[o], price, aggressor)}
             o == b.orders[CHOOSE x \in next : TRUE]
             queue == QueueRemaining(b, o, w.eaten[o.price])
             taken == TakenAt(queue, w.left, o.size)
  <2>1. CASE next = {}
    BY <2>1 DEF WalkStep
  <2>2. CASE next # {}
    <3>1. o \in RestingOrders
      <4>1. (CHOOSE x \in next : TRUE) \in next
        BY <2>2
      <4> QED
        BY <4>1 DEF IsBook
    <3>2. WalkStep(b, price, aggressor, w, r)
            = [left |-> w.left - taken, eaten |-> [w.eaten EXCEPT ![o.price] = @ + taken]]
      BY <2>2 DEF WalkStep
    <3> HIDE DEF o, next
    <3>3. w.left \in Nat /\ w.eaten \in Depths /\ o.price \in Prices /\ o.size \in Nat
      BY <3>1 DEF Walking, RestingOrders
    <3>4. w.eaten[o.price] \in Nat
      BY <3>3 DEF Depths
    <3>5. queue \in Nat
      BY <3>1, <3>4, QueueIsNat
    <3> HIDE DEF queue
    <3>6. taken \in 0 .. w.left
      BY <3>3, <3>5, TakenWithinTrade
    <3> HIDE DEF taken
    <3>7. w.left - taken \in Nat /\ w.eaten[o.price] + taken \in Nat
      BY <3>3, <3>4, <3>6
    <3>8. [w.eaten EXCEPT ![o.price] = @ + taken] \in Depths
      BY <3>3, <3>7 DEF Depths
    <3> QED
      BY <3>2, <3>7, <3>8 DEF Walking
  <2> QED
    BY <2>1, <2>2
<1>4. ASSUME NEW k \in Nat, k \in Good PROVE k + 1 \in Good
  <2> SUFFICES ASSUME k + 1 <= b.joined PROVE walk[k + 1] \in Walking
    OBVIOUS
  <2>1. walk[k] \in Walking
    BY <1>1, <1>4
  <2>2. walk[k + 1] = WalkStep(b, price, aggressor, walk[k], k + 1)
    BY <1>1 DEF IsWalk
  <2> QED
    BY <1>3, <2>1, <2>2
<1>5. \A k \in Nat : k \in Good
  <2> HIDE DEF Good
  <2> QED
    BY <1>2, <1>4, InductionOverNat
<1> QED
  BY <1>1, <1>5 DEF walk

-----------------------------------------------------------------------------
\* A trade.

FillOfOrder(b, price, size, aggressor, o) ==
    FillAt(b, Walk(b, price, size, aggressor), b.orders[o], price, aggressor)

AfterTrade(b, price, size, aggressor, o) ==
    OrderAfterTrade(b, Walk(b, price, size, aggressor), b.orders[o], price, aggressor)

\* a is the order o with a new size and a new queue in front of it.
SameOrder(o, a) ==
    /\ a.side = o.side /\ a.price = o.price /\ a.placedAt = o.placedAt /\ a.rank = o.rank
    /\ a.size \in Nat
    /\ a.size > 0 => a \in RestingOrders

\* What a trade does to one resting order: it fills at most the size, takes
\* the fill off the size and leaves the rest of the order what it was.
LEMMA TradeOnOrder ==
    ASSUME NEW b, IsBook(b), NEW price, NEW size \in Nat, NEW aggressor,
           NEW x \in DOMAIN b.orders
    PROVE  LET o == b.orders[x]
               f == FillOfOrder(b, price, size, aggressor, x)
               a == AfterTrade(b, price, size, aggressor, x)
           IN  /\ f \in 0 .. o.size
               /\ SameOrder(o, a)
               /\ a.size = o.size - f
<1> DEFINE o == b.orders[x]
           walk == Walk(b, price, size, aggressor)
           w == walk[o.rank - 1]
           queue == QueueAt(b, walk, o)
<1>1. o \in RestingOrders /\ o.rank <= b.joined /\ b.joined \in Nat
  BY DEF IsBook
<1>2. w \in Walking
  <2>1. o.rank - 1 \in 0 .. b.joined
    BY <1>1 DEF RestingOrders
  <2> QED
    BY <2>1, WalkTyped
<1>3. queue \in Nat
  <2>1. w.eaten[o.price] \in Nat
    BY <1>1, <1>2 DEF Walking, Depths, RestingOrders
  <2> QED
    BY <1>1, <2>1, QueueIsNat DEF QueueAt
<1>4. FillOf(queue, w.left, o.size) \in 0 .. o.size /\ o.size \in Nat /\ w.left \in Nat
  BY <1>1, <1>2, <1>3, TakenWithinTrade DEF Walking, RestingOrders
<1>5. Floor0(queue - w.left) \in Nat
  BY <1>3, <1>4 DEF Floor0, Larger
<1>6. Public(b, o.side, o.price) \in Nat
  BY <1>1 DEF IsBook, Depths, RestingOrders, Public
<1>7. CASE Reached(b, walk, o, price, aggressor)
  <2>1. FillOfOrder(b, price, size, aggressor, x) = FillOf(queue, w.left, o.size)
    BY <1>7 DEF FillOfOrder, FillAt
  <2>2. AfterTrade(b, price, size, aggressor, x)
          = [o EXCEPT !.size  = @ - FillOf(queue, w.left, o.size),
                      !.ahead = Floor0(queue - w.left),
                      !.level = Public(b, o.side, o.price)]
    BY <1>7 DEF AfterTrade, OrderAfterTrade, FillAt
  <2> DEFINE s == o.size - FillOf(queue, w.left, o.size)
             q == Floor0(queue - w.left)
             l == Public(b, o.side, o.price)
  <2>3. AfterTrade(b, price, size, aggressor, x)
          = [o EXCEPT !.size = s, !.ahead = q, !.level = l]
    BY <2>2
  <2>4. s \in Nat /\ q \in Nat /\ l \in Nat
    BY <1>4, <1>5, <1>6
  <2> HIDE DEF q, l
  <2> HIDE DEF walk, w, queue
  <2> DEFINE a == [o EXCEPT !.size = s, !.ahead = q, !.level = l]
  <2>5. SameOrder(o, a) /\ a.size = s
    <3> HIDE DEF s, o
    <3>1. /\ a.side = o.side /\ a.price = o.price /\ a.placedAt = o.placedAt
          /\ a.rank = o.rank /\ a.size = s
      BY <1>1 DEF RestingOrders
    <3>2. s \in Nat \ {0} => a \in RestingOrders
      BY <1>1, <2>4 DEF RestingOrders
    <3> HIDE DEF a
    <3> QED
      BY <2>4, <3>1, <3>2 DEF SameOrder
  <2> QED
    BY <1>4, <2>1, <2>3, <2>5
<1>8. CASE ~Reached(b, walk, o, price, aggressor)
  <2>1. FillOfOrder(b, price, size, aggressor, x) = 0
    BY <1>8 DEF FillOfOrder, FillAt
  <2>2. AfterTrade(b, price, size, aggressor, x) = o
    BY <1>8 DEF AfterTrade, OrderAfterTrade
  <2>3. SameOrder(o, o)
    BY <1>1 DEF SameOrder, RestingOrders
  <2> QED
    BY <1>4, <2>1, <2>2, <2>3
<1> QED
  BY <1>7, <1>8

\* c holds no order that b does not, and those that stay keep their identity.
OrdersShrink(b, c) ==
    /\ DOMAIN c.orders \subseteq DOMAIN b.orders
    /\ \A o \in DOMAIN c.orders :
          /\ c.orders[o].side = b.orders[o].side
          /\ c.orders[o].price = b.orders[o].price
          /\ c.orders[o].placedAt = b.orders[o].placedAt

RestingSize(b, o) == IF o \in DOMAIN b.orders THEN b.orders[o].size ELSE 0

\* Even on a book that is not typed, a trade adds no order.
LEMMA TradeAddsNoOrder ==
    ASSUME NEW b, IsRecord(b), NEW price, NEW size, NEW aggressor
    PROVE  LET c == BookAfterTrade(b, price, size, aggressor)
           IN  IsRecord(c) /\ DOMAIN c.orders \subseteq DOMAIN b.orders
<1> DEFINE after == [o \in DOMAIN b.orders |-> AfterTrade(b, price, size, aggressor, o)]
           kept == [o \in {x \in DOMAIN b.orders : after[x].size > 0} |-> after[o]]
<1>1. BookAfterTrade(b, price, size, aggressor) = [b EXCEPT !.orders = kept]
  BY DEF BookAfterTrade, AfterTrade
<1>2. DOMAIN kept \subseteq DOMAIN b.orders
  OBVIOUS
<1> HIDE DEF kept, after
<1> QED
  BY <1>1, <1>2 DEF IsRecord

\* A trade on a typed book: what the orders lose is what is filled.
LEMMA TradeOnBook ==
    ASSUME NEW b, IsBook(b), NEW price, NEW size \in Nat, NEW aggressor
    PROVE  LET c     == BookAfterTrade(b, price, size, aggressor)
               fills == TradeFills(b, price, size, aggressor)
           IN  /\ IsBook(c) /\ c.joined = b.joined
               /\ OrdersShrink(b, c)
               /\ DOMAIN fills \subseteq DOMAIN b.orders
               /\ \A o \in DOMAIN b.orders :
                     IF o \in DOMAIN fills
                     THEN /\ fills[o].size \in 1 .. b.orders[o].size
                          /\ RestingSize(c, o) = b.orders[o].size - fills[o].size
                     ELSE RestingSize(c, o) = b.orders[o].size
<1> DEFINE f == [o \in DOMAIN b.orders |-> FillOfOrder(b, price, size, aggressor, o)]
           after == [o \in DOMAIN b.orders |-> AfterTrade(b, price, size, aggressor, o)]
           rest == {x \in DOMAIN b.orders : after[x].size > 0}
           kept == [o \in rest |-> after[o]]
           c == BookAfterTrade(b, price, size, aggressor)
           fills == TradeFills(b, price, size, aggressor)
<1>1. c = [b EXCEPT !.orders = kept]
  BY DEF BookAfterTrade, AfterTrade
<1>2. /\ DOMAIN fills = {x \in DOMAIN b.orders : f[x] > 0}
      /\ \A o \in DOMAIN fills : fills[o].size = f[o]
  BY DEF TradeFills, FillOfOrder
<1>3. ASSUME NEW o \in DOMAIN b.orders
      PROVE  /\ b.orders[o] \in RestingOrders /\ b.orders[o].rank <= b.joined
             /\ f[o] \in 0 .. b.orders[o].size
             /\ SameOrder(b.orders[o], after[o])
             /\ after[o].size = b.orders[o].size - f[o]
  <2>1. b.orders[o] \in RestingOrders /\ b.orders[o].rank <= b.joined
    BY DEF IsBook
  <2> QED
    BY <2>1, TradeOnOrder
<1> HIDE DEF f, after, c, fills
<1>4. ASSUME NEW o \in DOMAIN b.orders
      PROVE  /\ after[o].size = b.orders[o].size - f[o] /\ after[o].size \in Nat
             /\ after[o].rank <= b.joined
             /\ after[o].side = b.orders[o].side /\ after[o].price = b.orders[o].price
             /\ after[o].placedAt = b.orders[o].placedAt
             /\ after[o].size > 0 => after[o] \in RestingOrders
  BY <1>3 DEF SameOrder
<1>5. c.orders = kept /\ c.joined = b.joined /\ IsRecord(c)
      /\ c.bids = b.bids /\ c.asks = b.asks /\ c.tick = b.tick
  BY <1>1 DEF IsBook, IsRecord
<1>6. IsBook(c)
  BY <1>4, <1>5 DEF IsBook
<1>7. OrdersShrink(b, c)
  BY <1>4, <1>5 DEF OrdersShrink
<1>8. ASSUME NEW o \in DOMAIN b.orders
      PROVE  RestingSize(c, o) = after[o].size
  BY <1>4, <1>5 DEF RestingSize
<1>9. ASSUME NEW o \in DOMAIN b.orders
      PROVE  IF o \in DOMAIN fills
             THEN /\ fills[o].size \in 1 .. b.orders[o].size
                  /\ RestingSize(c, o) = b.orders[o].size - fills[o].size
             ELSE RestingSize(c, o) = b.orders[o].size
  <2>1. b.orders[o].size \in Nat /\ f[o] \in 0 .. b.orders[o].size
    BY <1>3 DEF RestingOrders
  <2> QED
    BY <1>2, <1>4, <1>8, <2>1
<1> QED
  BY <1>2, <1>5, <1>6, <1>7, <1>9 DEF c, fills

-----------------------------------------------------------------------------
\* A market event.

\* What an event may do to a record of a book, whatever is in it.
LEMMA MarketAddsNoOrder ==
    ASSUME NEW b, IsRecord(b), NEW m, WellFormedMove(m)
    PROVE  LET c == BookAfterMarket(b, m)
           IN  IsRecord(c) /\ DOMAIN c.orders \subseteq DOMAIN b.orders
<1>1. CASE m.kind = "trade"
  BY <1>1, TradeAddsNoOrder DEF BookAfterMarket
<1>2. CASE m.kind = "price_change"
  <2>1. m.changes \in Changes
    BY <1>2 DEF WellFormedMove, Changes, Change
  <2> QED
    BY <1>2, <2>1, PriceChangesKeepOrders DEF BookAfterMarket, SameOrders
<1>3. CASE m.kind = "book"
  BY <1>3 DEF BookAfterMarket, ApplyBookSnapshot, IsRecord
<1>4. CASE m.kind = "tick_size_change"
  BY <1>4 DEF BookAfterMarket, IsRecord
<1> QED
  BY <1>1, <1>2, <1>3, <1>4 DEF WellFormedMove, IsMarket

\* A public event other than a trade moves the public book only.
LEMMA PublicOnBook ==
    ASSUME NEW b, IsBook(b), NEW m, WellFormedMove(m), m.kind # "trade"
    PROVE  LET c == BookAfterMarket(b, m)
           IN  IsBook(c) /\ c.orders = b.orders
<1>1. CASE m.kind = "price_change"
  <2> DEFINE c == ApplyPriceChanges(b, m.changes)
  <2>1. m.changes \in Changes
    BY <1>1 DEF WellFormedMove, Changes, Change
  <2>2. SameOrders(b, c) /\ TypedDepths(c)
    BY <2>1, PriceChangesKeepOrders DEF IsBook, TypedDepths
  <2>3. BookAfterMarket(b, m) = c
    BY <1>1 DEF BookAfterMarket
  <2> HIDE DEF c
  <2> QED
    BY <2>2, <2>3 DEF IsBook, SameOrders, TypedDepths
<1>2. CASE m.kind = "book"
  <2> DEFINE a == [b EXCEPT !.bids = m.bids]
             c == [a EXCEPT !.asks = m.asks]
  <2>1. BookAfterMarket(b, m) = c /\ m.bids \in Depths /\ m.asks \in Depths
    BY <1>2 DEF BookAfterMarket, ApplyBookSnapshot, WellFormedMove, Depths
  <2>2. a.bids = m.bids /\ a.tick = b.tick
        /\ a.orders = b.orders /\ a.joined = b.joined /\ IsRecord(a)
    BY DEF IsBook, IsRecord
  <2> HIDE DEF a
  <2>3. c.bids = m.bids /\ c.asks = m.asks /\ c.tick = b.tick
        /\ c.orders = b.orders /\ c.joined = b.joined /\ IsRecord(c)
    BY <2>2 DEF IsRecord
  <2> HIDE DEF c
  <2> QED
    BY <2>1, <2>3 DEF IsBook
<1>3. CASE m.kind = "tick_size_change"
  <2> DEFINE c == [b EXCEPT !.tick = m.tick]
  <2>1. BookAfterMarket(b, m) = c /\ m.tick \in Nat \ {0}
    BY <1>3 DEF BookAfterMarket, WellFormedMove
  <2>2. c.bids = b.bids /\ c.asks = b.asks /\ c.tick = m.tick
        /\ c.orders = b.orders /\ c.joined = b.joined /\ IsRecord(c)
    BY DEF IsBook, IsRecord
  <2> HIDE DEF c
  <2> QED
    BY <2>1, <2>2 DEF IsBook
<1> QED
  BY <1>1, <1>2, <1>3 DEF WellFormedMove, IsMarket

\* What f fills is what its order has lost between the books b and c.
FillsOrder(b, c, f) ==
    /\ f.oid \in DOMAIN b.orders
    /\ f.side = b.orders[f.oid].side
    /\ f.size \in 1 .. b.orders[f.oid].size
    /\ RestingSize(c, f.oid) = b.orders[f.oid].size - f.size

\* A market event: fills name their event, its time and an order that loses
\* what they fill, one fill to an order; an order without a fill loses nothing.
LEMMA MarketOnBook ==
    ASSUME NEW b, IsBook(b), NEW m, WellFormedMove(m), NEW by
    PROVE  LET c   == BookAfterMarket(b, m)
               new == MarketFills(b, m, by)
           IN  /\ IsBook(c)
               /\ OrdersShrink(b, c)
               /\ \A f \in new :
                     /\ FillsOrder(b, c, f)
                     /\ f.by = by /\ f.ts = m.ts /\ f.maker
                     /\ f.price = m.price /\ m.kind = "trade"
                     /\ f.inBook = m.ts - b.orders[f.oid].placedAt
               /\ \A f, g \in new : f.oid = g.oid => f = g
               /\ \A o \in DOMAIN b.orders :
                     (\A f \in new : f.oid # o) => RestingSize(c, o) = b.orders[o].size
<1> DEFINE c == BookAfterMarket(b, m)
           new == MarketFills(b, m, by)
<1>1. CASE m.kind # "trade"
  <2>1. IsBook(c) /\ c.orders = b.orders /\ new = {}
    BY <1>1, PublicOnBook DEF MarketFills
  <2> HIDE DEF c, new
  <2>2. OrdersShrink(b, c) /\ \A o \in DOMAIN b.orders : RestingSize(c, o) = b.orders[o].size
    BY <2>1 DEF OrdersShrink, RestingSize
  <2> QED
    BY <2>1, <2>2 DEF c, new
<1>2. CASE m.kind = "trade"
  <2> DEFINE fills == TradeFills(b, m.price, m.size, m.aggressor)
  <2>1. c = BookAfterTrade(b, m.price, m.size, m.aggressor)
    BY <1>2 DEF BookAfterMarket
  <2> DEFINE fill(o) ==
               [by |-> by, ts |-> m.ts, oid |-> o, side |-> b.orders[o].side,
                price |-> m.price, size |-> fills[o].size, maker |-> TRUE,
                inBook |-> m.ts - b.orders[o].placedAt]
  <2>2. new = {fill(o) : o \in DOMAIN fills}
    BY <1>2 DEF MarketFills
  <2>3. m.price \in Nat /\ m.size \in Nat
    BY <1>2 DEF WellFormedMove
  <2>4. /\ IsBook(c) /\ OrdersShrink(b, c)
        /\ DOMAIN fills \subseteq DOMAIN b.orders
        /\ \A o \in DOMAIN b.orders :
              IF o \in DOMAIN fills
              THEN /\ fills[o].size \in 1 .. b.orders[o].size
                   /\ RestingSize(c, o) = b.orders[o].size - fills[o].size
              ELSE RestingSize(c, o) = b.orders[o].size
    BY <2>1, <2>3, TradeOnBook
  <2>0. \A o \in DOMAIN fills :
           /\ fill(o).oid = o /\ fill(o).side = b.orders[o].side /\ fill(o).size = fills[o].size
           /\ fill(o).by = by /\ fill(o).ts = m.ts /\ fill(o).maker /\ fill(o).price = m.price
           /\ fill(o).inBook = m.ts - b.orders[o].placedAt
    OBVIOUS
  <2> HIDE DEF c, new, fills, fill
  <2>5. \A f \in new :
           /\ FillsOrder(b, c, f)
           /\ f.by = by /\ f.ts = m.ts /\ f.maker
           /\ f.price = m.price /\ m.kind = "trade"
           /\ f.inBook = m.ts - b.orders[f.oid].placedAt
    BY <1>2, <2>0, <2>2, <2>4 DEF FillsOrder
  <2>6. \A f, g \in new : f.oid = g.oid => f = g
    BY <2>0, <2>2
  <2>7. \A o \in DOMAIN b.orders :
           (\A f \in new : f.oid # o) => RestingSize(c, o) = b.orders[o].size
    BY <2>0, <2>2, <2>4
  <2> QED
    BY <2>4, <2>5, <2>6, <2>7 DEF c, new
<1> QED
  BY <1>1, <1>2

-----------------------------------------------------------------------------
\* An arrival.

\* A finite set of numbers that is not empty has a largest element.
LEMMA LargestNat ==
    ASSUME NEW S, S \subseteq Nat, IsFiniteSet(S), S # {}
    PROVE  \E m \in S : \A n \in S : n <= m
<1> DEFINE Good == {T \in SUBSET S : T # {} => \E m \in T : \A n \in T : n <= m}
<1>1. {} \in Good
  OBVIOUS
<1>2. ASSUME NEW T \in SUBSET S, NEW x \in S \ T, T \in Good PROVE T \cup {x} \in Good
  <2>1. CASE T = {}
    BY <2>1
  <2>2. CASE T # {}
    <3>1. PICK m \in T : \A n \in T : n <= m
      BY <1>2, <2>2
    <3>2. CASE x <= m
      <4>1. \A n \in T \cup {x} : n <= m
        BY <3>1, <3>2
      <4> QED
        BY <4>1
    <3>3. CASE ~(x <= m)
      <4>1. \A n \in T \cup {x} : n <= x
        BY <3>1, <3>3
      <4> QED
        BY <4>1
    <3> QED
      BY <3>2, <3>3
  <2> QED
    BY <2>1, <2>2
<1>3. S \in Good
  <2> HIDE DEF Good
  <2> QED
    BY <1>1, <1>2, InductionOverSubsets
<1> QED
  BY <1>3

\* A side that is not empty has a top, with something to take.
LEMMA TopIsOccupied ==
    ASSUME NEW b, IsBook(b)
    PROVE  /\ BestBid(b) \in Prices \cup {None} /\ BestAsk(b) \in Prices \cup {None}
           /\ BestBid(b) # None => b.bids[BestBid(b)] \in Nat \ {0}
           /\ BestAsk(b) # None => b.asks[BestAsk(b)] \in Nat \ {0}
<1>1. ASSUME NEW d \in Depths, Occupied(d) # {}
      PROVE  Highest(Occupied(d)) \in Occupied(d) /\ Lowest(Occupied(d)) \in Occupied(d)
  <2>1. Occupied(d) \subseteq Nat /\ IsFiniteSet(Occupied(d))
    BY PricesAssumption, FS_Subset DEF Occupied
  <2>2. \E m \in Occupied(d) : \A n \in Occupied(d) : n <= m
    BY <1>1, <2>1, LargestNat
  <2>3. \E m \in Occupied(d) : \A n \in Occupied(d) : m <= n
    BY <1>1, <2>1, SmallestNat
  <2> QED
    BY <1>1, <2>2, <2>3 DEF Highest, Lowest
<1>2. \A d \in Depths : \A p \in Occupied(d) : p \in Prices /\ d[p] \in Nat \ {0}
  BY DEF Occupied, Depths
<1>3. b.bids \in Depths /\ b.asks \in Depths
  BY DEF IsBook
<1>4. Occupied(b.bids) = {} => BestBid(b) = None
  BY DEF BestBid, Highest
<1>5. Occupied(b.asks) = {} => BestAsk(b) = None
  BY DEF BestAsk, Lowest
<1>6. Occupied(b.bids) # {} => BestBid(b) \in Prices /\ b.bids[BestBid(b)] \in Nat \ {0}
  BY <1>1, <1>2, <1>3 DEF BestBid
<1>7. Occupied(b.asks) # {} => BestAsk(b) \in Prices /\ b.asks[BestAsk(b)] \in Nat \ {0}
  BY <1>1, <1>2, <1>3 DEF BestAsk
<1> QED
  BY <1>4, <1>5, <1>6, <1>7

\* An order as it joins the queue of its level.
Joining(b, side, price, size, now) ==
    [side |-> side, price |-> price, size |-> size,
     ahead |-> Public(b, side, price), level |-> Public(b, side, price),
     placedAt |-> now, rank |-> b.joined + 1]

\* Joining the queue, on any record of a book.
LEMMA AddedFields ==
    ASSUME NEW b, IsRecord(b), NEW oid, NEW side, NEW price, NEW size, NEW now
    PROVE  LET c == AddOurOrder(b, oid, side, price, size, now)
           IN  /\ IsRecord(c) /\ c.joined = b.joined + 1
               /\ c.bids = b.bids /\ c.asks = b.asks /\ c.tick = b.tick
               /\ DOMAIN c.orders = DOMAIN b.orders \cup {oid}
               /\ c.orders[oid] = Joining(b, side, price, size, now)
               /\ \A o \in DOMAIN b.orders \ {oid} : c.orders[o] = b.orders[o]
               /\ c.orders = [o \in DOMAIN c.orders |-> c.orders[o]]
<1> DEFINE orders == [o \in DOMAIN b.orders \cup {oid} |->
                        IF o # oid THEN b.orders[o]
                        ELSE Joining(b, side, price, size, now)]
           a == [b EXCEPT !.joined = @ + 1]
           c == [a EXCEPT !.orders = orders]
<1>1. AddOurOrder(b, oid, side, price, size, now) = c
  BY DEF AddOurOrder, Joining
<1>4. /\ DOMAIN orders = DOMAIN b.orders \cup {oid}
      /\ orders[oid] = Joining(b, side, price, size, now)
      /\ \A o \in DOMAIN b.orders \ {oid} : orders[o] = b.orders[o]
      /\ orders = [o \in DOMAIN orders |-> orders[o]]
  OBVIOUS
<1> HIDE DEF orders
<1>2. IsRecord(a) /\ a.joined = b.joined + 1 /\ a.bids = b.bids /\ a.asks = b.asks
      /\ a.tick = b.tick
  BY DEF IsRecord
<1> HIDE DEF a
<1>3. IsRecord(c) /\ c.joined = b.joined + 1 /\ c.bids = b.bids /\ c.asks = b.asks
      /\ c.tick = b.tick /\ c.orders = orders
  BY <1>2 DEF IsRecord
<1> HIDE DEF c
<1> QED
  BY <1>1, <1>3, <1>4

LEMMA AddedOnBook ==
    ASSUME NEW b, IsBook(b), NEW oid, oid \notin DOMAIN b.orders,
           NEW side \in Sides, NEW price \in Prices, NEW size \in Nat \ {0}, NEW now \in Nat
    PROVE  LET c == AddOurOrder(b, oid, side, price, size, now)
           IN  /\ IsBook(c)
               /\ DOMAIN c.orders = DOMAIN b.orders \cup {oid}
               /\ \A o \in DOMAIN b.orders : c.orders[o] = b.orders[o]
               /\ c.orders[oid].placedAt = now /\ c.orders[oid].size = size
               /\ c.orders[oid].side = side
<1> DEFINE c == AddOurOrder(b, oid, side, price, size, now)
           new == Joining(b, side, price, size, now)
<1>1. /\ IsRecord(c) /\ c.joined = b.joined + 1
      /\ c.bids = b.bids /\ c.asks = b.asks /\ c.tick = b.tick
      /\ DOMAIN c.orders = DOMAIN b.orders \cup {oid}
      /\ c.orders[oid] = new
      /\ \A o \in DOMAIN b.orders \ {oid} : c.orders[o] = b.orders[o]
      /\ c.orders = [o \in DOMAIN c.orders |-> c.orders[o]]
  <2>1. IsRecord(b)
    BY DEF IsBook
  <2> QED
    BY <2>1, AddedFields
<1>2. Public(b, side, price) \in Nat /\ b.joined \in Nat
  BY DEF IsBook, Depths, Public
<1>3. new \in RestingOrders /\ new.rank = b.joined + 1 /\ new.placedAt = now
      /\ new.size = size /\ new.side = side
  BY <1>2 DEF RestingOrders, Joining
<1> HIDE DEF c, new
<1>4. /\ DOMAIN c.orders = DOMAIN b.orders \cup {oid}
      /\ \A o \in DOMAIN b.orders : c.orders[o] = b.orders[o]
      /\ c.orders[oid] = new
      /\ c.orders = [o \in DOMAIN c.orders |-> c.orders[o]]
  BY <1>1
<1>5. \A o \in DOMAIN c.orders :
         c.orders[o] \in RestingOrders /\ c.orders[o].rank <= c.joined
  <2> TAKE o \in DOMAIN c.orders
  <2>1. CASE o = oid
    BY <1>1, <1>2, <1>3, <1>4, <2>1
  <2>2. CASE o \in DOMAIN b.orders
    <3>1. b.orders[o] \in RestingOrders /\ b.orders[o].rank <= b.joined /\ b.orders[o].rank \in Nat
      BY <2>2 DEF IsBook, RestingOrders
    <3> QED
      BY <1>1, <1>2, <1>4, <2>2, <3>1
  <2> QED
    BY <1>4, <2>1, <2>2
<1>6. IsBook(c)
  BY <1>1, <1>2, <1>4, <1>5 DEF IsBook
<1> QED
  BY <1>3, <1>4, <1>6 DEF c

\* The fields of a placed order that the arrival reads.
Arriving(p) == p.side \in Sides /\ p.price \in Prices /\ p.size \in Nat \ {0}

\* On any record of a book, an arrival adds its own order at most.
LEMMA ArrivalAddsOne ==
    ASSUME NEW b, IsRecord(b), NEW p, NEW now
    PROVE  LET c == BookAfterArrival(b, p, now)
           IN  IsRecord(c) /\ DOMAIN c.orders \subseteq DOMAIN b.orders \cup {p.oid}
<1> DEFINE Rest == IF Takes(b, p) THEN p.size - Smaller(p.size, DepthFor(b, p.side))
                                  ELSE p.size
<1>1. ASSUME NEW oid, NEW side, NEW price, NEW rest
      PROVE  LET c == AddOurOrder(b, oid, side, price, rest, now)
             IN  IsRecord(c) /\ DOMAIN c.orders = DOMAIN b.orders \cup {oid}
  <2> DEFINE c == AddOurOrder(b, oid, side, price, rest, now)
             new == Joining(b, side, price, rest, now)
  <2>1. /\ IsRecord(c) /\ c.joined = b.joined + 1
        /\ c.bids = b.bids /\ c.asks = b.asks /\ c.tick = b.tick
        /\ DOMAIN c.orders = DOMAIN b.orders \cup {oid}
        /\ c.orders[oid] = new
        /\ \A o \in DOMAIN b.orders \ {oid} : c.orders[o] = b.orders[o]
        /\ c.orders = [o \in DOMAIN c.orders |-> c.orders[o]]
    BY AddedFields
  <2> QED
    BY <2>1
<1>2. ASSUME NEW rest
      PROVE  LET c == AddOurOrder(b, p.oid, p.side, p.price, rest, now)
             IN  IsRecord(c) /\ DOMAIN c.orders = DOMAIN b.orders \cup {p.oid}
  BY <1>1
<1>3. BookAfterArrival(b, p, now)
        = IF Rest = 0 THEN b ELSE AddOurOrder(b, p.oid, p.side, p.price, Rest, now)
  BY DEF BookAfterArrival
<1> HIDE DEF Rest
<1> QED
  BY <1>2, <1>3

\* An arrival: what is not taken from the opposite top rests from now on, and
\* no other order of ours notices.
LEMMA ArrivalOnBook ==
    ASSUME NEW b, IsBook(b), NEW p, Arriving(p), p.oid \notin DOMAIN b.orders,
           NEW now \in Nat, NEW by
    PROVE  LET c   == BookAfterArrival(b, p, now)
               new == ArrivalFills(b, p, now, by)
           IN  /\ IsBook(c)
               /\ DOMAIN b.orders \subseteq DOMAIN c.orders
               /\ DOMAIN c.orders \subseteq DOMAIN b.orders \cup {p.oid}
               /\ \A o \in DOMAIN b.orders : c.orders[o] = b.orders[o]
               /\ p.oid \in DOMAIN c.orders =>
                     c.orders[p.oid].placedAt = now /\ c.orders[p.oid].side = p.side
               /\ \A f \in new :
                     /\ f.oid = p.oid /\ f.by = by /\ f.ts = now /\ f.inBook = 0 /\ ~f.maker
                     /\ f.side = p.side /\ f.price \in Prices
                     /\ f.size \in 1 .. p.size
                     /\ RestingSize(c, p.oid) = p.size - f.size
               /\ \A f, g \in new : f = g
               /\ new = {} => RestingSize(c, p.oid) = p.size
<1> DEFINE taken == Smaller(p.size, DepthFor(b, p.side))
           rest == IF Takes(b, p) THEN p.size - taken ELSE p.size
           c == BookAfterArrival(b, p, now)
           new == ArrivalFills(b, p, now, by)
           fill == [by |-> by, ts |-> now, oid |-> p.oid, side |-> p.side,
                    price |-> TopFor(b, p.side), size |-> taken,
                    maker |-> FALSE, inBook |-> 0]
<1>0. p.side \in Sides /\ p.price \in Prices /\ p.size \in Nat \ {0}
  BY DEF Arriving
<1>1. c = IF rest = 0 THEN b ELSE AddOurOrder(b, p.oid, p.side, p.price, rest, now)
  BY DEF BookAfterArrival
<1>2. new = IF Takes(b, p) THEN {fill} ELSE {}
  BY DEF ArrivalFills
<1>3. Takes(b, p) => TopFor(b, p.side) \in Prices /\ DepthFor(b, p.side) \in Nat \ {0}
  BY <1>0, TopIsOccupied DEF Takes, CrossesSpread, TopFor, DepthFor, Sides
<1>4. Takes(b, p) => taken \in 1 .. p.size
  BY <1>0, <1>3 DEF Smaller
<1>5. fill.oid = p.oid /\ fill.by = by /\ fill.ts = now /\ fill.inBook = 0 /\ ~fill.maker
      /\ fill.side = p.side /\ fill.price = TopFor(b, p.side) /\ fill.size = taken
  OBVIOUS
<1> HIDE DEF fill, taken
<1>6. rest \in Nat
  BY <1>0, <1>4
<1>7. /\ IsBook(c)
      /\ DOMAIN b.orders \subseteq DOMAIN c.orders
      /\ DOMAIN c.orders \subseteq DOMAIN b.orders \cup {p.oid}
      /\ \A o \in DOMAIN b.orders : c.orders[o] = b.orders[o]
      /\ p.oid \in DOMAIN c.orders =>
            c.orders[p.oid].placedAt = now /\ c.orders[p.oid].side = p.side
      /\ RestingSize(c, p.oid) = rest
  <2> HIDE DEF c, rest
  <2>1. CASE rest = 0
    BY <1>1, <2>1 DEF RestingSize
  <2>2. CASE rest # 0
    <3>1. rest \in Nat \ {0} /\ c = AddOurOrder(b, p.oid, p.side, p.price, rest, now)
      BY <1>1, <1>6, <2>2
    <3>2. /\ IsBook(c)
          /\ DOMAIN c.orders = DOMAIN b.orders \cup {p.oid}
          /\ \A o \in DOMAIN b.orders : c.orders[o] = b.orders[o]
          /\ c.orders[p.oid].placedAt = now /\ c.orders[p.oid].size = rest
          /\ c.orders[p.oid].side = p.side
      BY <1>0, <3>1, AddedOnBook
    <3> QED
      BY <3>2 DEF RestingSize
  <2> QED
    BY <2>1, <2>2
<1> HIDE DEF c, new
<1>8. \A f \in new :
         /\ f.oid = p.oid /\ f.by = by /\ f.ts = now /\ f.inBook = 0 /\ ~f.maker
         /\ f.side = p.side /\ f.price \in Prices
         /\ f.size \in 1 .. p.size
         /\ RestingSize(c, p.oid) = p.size - f.size
  BY <1>2, <1>3, <1>4, <1>5, <1>7
<1>9. /\ \A f, g \in new : f = g
      /\ new = {} => RestingSize(c, p.oid) = p.size
  BY <1>2, <1>7
<1> QED
  BY <1>7, <1>8, <1>9 DEF c, new

\* A cancelled order is gone; nothing else changes.
LEMMA RemovedFields ==
    ASSUME NEW b, IsRecord(b), NEW oid
    PROVE  LET c == RemoveOurOrder(b, oid)
           IN  /\ IsRecord(c)
               /\ DOMAIN c.orders = DOMAIN b.orders \ {oid}
               /\ \A o \in DOMAIN c.orders : c.orders[o] = b.orders[o]
               /\ IsBook(b) => IsBook(c)
<1> DEFINE kept == [o \in DOMAIN b.orders \ {oid} |-> b.orders[o]]
           c == [b EXCEPT !.orders = kept]
<1>1. RemoveOurOrder(b, oid) = c
  BY DEF RemoveOurOrder
<1>2. DOMAIN kept = DOMAIN b.orders \ {oid} /\ kept = [o \in DOMAIN kept |-> kept[o]]
      /\ \A o \in DOMAIN kept : kept[o] = b.orders[o]
  OBVIOUS
<1> HIDE DEF kept
<1>3. IsRecord(c) /\ c.joined = b.joined /\ c.bids = b.bids /\ c.asks = b.asks
      /\ c.tick = b.tick /\ c.orders = kept
  BY DEF IsRecord
<1> HIDE DEF c
<1> QED
  BY <1>1, <1>2, <1>3 DEF IsBook

-----------------------------------------------------------------------------
\* The queue of events.

\* A heap that is not empty has an earliest event, so Earliest finds it.
LEMMA EarliestIsFirst ==
    ASSUME NEW h, h # {},
           \A e \in h : e.ts \in Nat /\ e.seq \in Nat,
           \A e, f \in h : e.seq = f.seq => e = f
    PROVE  /\ Earliest(h) \in h
           /\ \A f \in h : Earliest(h) = f \/ Before(Earliest(h), f)
           /\ \A f \in h : Earliest(h).ts <= f.ts
<1>1. PICK t \in {e.ts : e \in h} : \A n \in {e.ts : e \in h} : t <= n
  <2>1. {e.ts : e \in h} # {} /\ {e.ts : e \in h} \subseteq Nat
    OBVIOUS
  <2> QED
    BY <2>1, SmallestNat
<1> DEFINE first == {x \in h : x.ts = t}
<1>2. PICK s \in {x.seq : x \in first} : \A n \in {x.seq : x \in first} : s <= n
  <2>1. {x.seq : x \in first} # {} /\ {x.seq : x \in first} \subseteq Nat
    BY <1>1
  <2> QED
    BY <2>1, SmallestNat
<1>3. PICK e \in first : e.seq = s
  BY <1>2
<1>4. ASSUME NEW f \in h PROVE e = f \/ Before(e, f)
  <2>0. e \in h /\ e.ts = t /\ e.ts \in Nat /\ f.ts \in Nat /\ e.seq \in Nat /\ f.seq \in Nat
    BY <1>3
  <2>1. e.ts <= f.ts
    BY <1>1, <2>0
  <2>2. CASE f.ts = e.ts
    <3>1. e.seq <= f.seq
      BY <1>2, <1>3, <2>0, <2>2
    <3>2. e.seq = f.seq => e = f
      BY <2>0
    <3> QED
      BY <2>0, <2>2, <3>1, <3>2 DEF Before
  <2> QED
    BY <2>0, <2>1, <2>2 DEF Before
<1>5. /\ Earliest(h) \in h
      /\ \A f \in h : Earliest(h) = f \/ Before(Earliest(h), f)
  BY <1>4 DEF Earliest
<1> QED
  BY <1>5 DEF Before

-----------------------------------------------------------------------------
\* The account and the fills.

ValueOf(f)  == Sign(f.side) * f.price * f.size * TickValue
FeeOf(f)    == IF f.maker THEN 0 ELSE TakerFee(f.price, f.size)
RebateOf(f) == IF f.maker THEN MakerRebate(f.price, f.size) ELSE 0

SizeSum(S)      == Total([f \in S |-> f.size], S)
InventorySum(S) == Total([f \in S |-> Sign(f.side) * f.size], S)
ValueSum(S)     == Total([f \in S |-> ValueOf(f)], S)
FeeSum(S)       == Total([f \in S |-> FeeOf(f)], S)
RebateSum(S)    == Total([f \in S |-> RebateOf(f)], S)

\* The fields of a fill that the sums read.
IsFill(f) == f.side \in Sides /\ f.price \in Nat /\ f.size \in Nat \ {0}

\* The numbers that a fill adds to the sums.
LEMMA FillNumbers ==
    ASSUME NEW f, IsFill(f)
    PROVE  /\ f.size \in Nat /\ Sign(f.side) * f.size \in Int
           /\ ValueOf(f) \in Int /\ FeeOf(f) \in Int /\ RebateOf(f) \in Int
<1>1. Sign(f.side) \in Int /\ f.price \in Int /\ f.size \in Int /\ f.size \in Nat
  BY DEF IsFill, Sign
<1>2. Smaller(Dollar, f.price) \in Int
  BY <1>1, FeesAssumption DEF Smaller
<1>3. \A rate \in Nat : FeeAt(rate, f.price, f.size) \in Int
  <2> TAKE rate \in Nat
  <2> DEFINE p == Smaller(Dollar, f.price)
  <2>1. Dollar - p \in Int /\ p \in Int
    BY <1>2, FeesAssumption
  <2> HIDE DEF p
  <2>2. rate * f.size \in Int
    BY <1>1
  <2>3. rate * f.size * p \in Int
    BY <2>1, <2>2
  <2>4. rate * f.size * p * (Dollar - p) \in Int
    BY <2>1, <2>3
  <2> QED
    BY <2>4 DEF FeeAt, p
<1>4. TakerFee(f.price, f.size) \in Int /\ MakerRebate(f.price, f.size) \in Int
  BY <1>3, FeesAssumption DEF TakerFee, MakerRebate
<1>5. FeeOf(f) \in Int /\ RebateOf(f) \in Int
  BY <1>4 DEF FeeOf, RebateOf
<1>6. ValueOf(f) \in Int
  <2> DEFINE g == Sign(f.side)
  <2>1. g \in Int
    BY <1>1
  <2> HIDE DEF g
  <2>2. g * f.price \in Int
    BY <1>1, <2>1
  <2>3. g * f.price * f.size \in Int
    BY <1>1, <2>2
  <2>4. g * f.price * f.size * TickValue \in Int
    BY <2>3, FeesAssumption
  <2> QED
    BY <2>4 DEF ValueOf, g
<1>7. Sign(f.side) * f.size \in Int
  BY <1>1
<1> QED
  BY <1>1, <1>5, <1>6, <1>7

\* A sum over two sets without a common element is the sum of their sums.
LEMMA SumsOfUnion ==
    ASSUME NEW F, IsFiniteSet(F), NEW G, IsFiniteSet(G), F \cap G = {},
           \A f \in F \cup G : IsFill(f)
    PROVE  /\ SizeSum(F \cup G) = SizeSum(F) + SizeSum(G)
           /\ InventorySum(F \cup G) = InventorySum(F) + InventorySum(G)
           /\ ValueSum(F \cup G) = ValueSum(F) + ValueSum(G)
           /\ FeeSum(F \cup G) = FeeSum(F) + FeeSum(G)
           /\ RebateSum(F \cup G) = RebateSum(F) + RebateSum(G)
<1>1. SizeSum(F \cup G) = SizeSum(F) + SizeSum(G)
  <2> DEFINE w == [f \in F \cup G |-> f.size]
             u == [f \in F |-> f.size]
             v == [f \in G |-> f.size]
  <2>1. \A f \in F \cup G : w[f] \in Int
    BY FillNumbers
  <2>2. /\ \A f \in F : w[f] = u[f]
        /\ \A f \in G : w[f] = v[f]
    OBVIOUS
  <2>3. SizeSum(F \cup G) = Total(w, F \cup G) /\ SizeSum(F) = Total(u, F) /\ SizeSum(G) = Total(v, G)
    BY DEF SizeSum
  <2> HIDE DEF w, u, v
  <2>4. Total(w, F) = Total(u, F) /\ Total(w, G) = Total(v, G)
    BY <2>2, TotalSameWeights
  <2>5. Total(w, F \cup G) = Total(w, F) + Total(w, G)
    BY <2>1, TotalUnion
  <2> QED
    BY <2>3, <2>4, <2>5
<1>2. InventorySum(F \cup G) = InventorySum(F) + InventorySum(G)
  <2> DEFINE w == [f \in F \cup G |-> Sign(f.side) * f.size]
             u == [f \in F |-> Sign(f.side) * f.size]
             v == [f \in G |-> Sign(f.side) * f.size]
  <2>1. \A f \in F \cup G : w[f] \in Int
    BY FillNumbers
  <2>2. /\ \A f \in F : w[f] = u[f]
        /\ \A f \in G : w[f] = v[f]
    OBVIOUS
  <2>3. InventorySum(F \cup G) = Total(w, F \cup G) /\ InventorySum(F) = Total(u, F) /\ InventorySum(G) = Total(v, G)
    BY DEF InventorySum
  <2> HIDE DEF w, u, v
  <2>4. Total(w, F) = Total(u, F) /\ Total(w, G) = Total(v, G)
    BY <2>2, TotalSameWeights
  <2>5. Total(w, F \cup G) = Total(w, F) + Total(w, G)
    BY <2>1, TotalUnion
  <2> QED
    BY <2>3, <2>4, <2>5
<1>3. ValueSum(F \cup G) = ValueSum(F) + ValueSum(G)
  <2> DEFINE w == [f \in F \cup G |-> ValueOf(f)]
             u == [f \in F |-> ValueOf(f)]
             v == [f \in G |-> ValueOf(f)]
  <2>1. \A f \in F \cup G : w[f] \in Int
    BY FillNumbers
  <2>2. /\ \A f \in F : w[f] = u[f]
        /\ \A f \in G : w[f] = v[f]
    OBVIOUS
  <2>3. ValueSum(F \cup G) = Total(w, F \cup G) /\ ValueSum(F) = Total(u, F) /\ ValueSum(G) = Total(v, G)
    BY DEF ValueSum
  <2> HIDE DEF w, u, v
  <2>4. Total(w, F) = Total(u, F) /\ Total(w, G) = Total(v, G)
    BY <2>2, TotalSameWeights
  <2>5. Total(w, F \cup G) = Total(w, F) + Total(w, G)
    BY <2>1, TotalUnion
  <2> QED
    BY <2>3, <2>4, <2>5
<1>4. FeeSum(F \cup G) = FeeSum(F) + FeeSum(G)
  <2> DEFINE w == [f \in F \cup G |-> FeeOf(f)]
             u == [f \in F |-> FeeOf(f)]
             v == [f \in G |-> FeeOf(f)]
  <2>1. \A f \in F \cup G : w[f] \in Int
    BY FillNumbers
  <2>2. /\ \A f \in F : w[f] = u[f]
        /\ \A f \in G : w[f] = v[f]
    OBVIOUS
  <2>3. FeeSum(F \cup G) = Total(w, F \cup G) /\ FeeSum(F) = Total(u, F) /\ FeeSum(G) = Total(v, G)
    BY DEF FeeSum
  <2> HIDE DEF w, u, v
  <2>4. Total(w, F) = Total(u, F) /\ Total(w, G) = Total(v, G)
    BY <2>2, TotalSameWeights
  <2>5. Total(w, F \cup G) = Total(w, F) + Total(w, G)
    BY <2>1, TotalUnion
  <2> QED
    BY <2>3, <2>4, <2>5
<1>5. RebateSum(F \cup G) = RebateSum(F) + RebateSum(G)
  <2> DEFINE w == [f \in F \cup G |-> RebateOf(f)]
             u == [f \in F |-> RebateOf(f)]
             v == [f \in G |-> RebateOf(f)]
  <2>1. \A f \in F \cup G : w[f] \in Int
    BY FillNumbers
  <2>2. /\ \A f \in F : w[f] = u[f]
        /\ \A f \in G : w[f] = v[f]
    OBVIOUS
  <2>3. RebateSum(F \cup G) = Total(w, F \cup G) /\ RebateSum(F) = Total(u, F) /\ RebateSum(G) = Total(v, G)
    BY DEF RebateSum
  <2> HIDE DEF w, u, v
  <2>4. Total(w, F) = Total(u, F) /\ Total(w, G) = Total(v, G)
    BY <2>2, TotalSameWeights
  <2>5. Total(w, F \cup G) = Total(w, F) + Total(w, G)
    BY <2>1, TotalUnion
  <2> QED
    BY <2>3, <2>4, <2>5
<1> QED
  BY <1>1, <1>2, <1>3, <1>4, <1>5

\* The sums over no fill, over one, and in general.
LEMMA SumsOfNone ==
    /\ SizeSum({}) = 0 /\ InventorySum({}) = 0 /\ ValueSum({}) = 0
    /\ FeeSum({}) = 0 /\ RebateSum({}) = 0
BY TotalEmpty DEF SizeSum, InventorySum, ValueSum, FeeSum, RebateSum

LEMMA SumsOfOne ==
    ASSUME NEW x, IsFill(x)
    PROVE  /\ SizeSum({x}) = x.size
           /\ InventorySum({x}) = Sign(x.side) * x.size
           /\ ValueSum({x}) = ValueOf(x)
           /\ FeeSum({x}) = FeeOf(x)
           /\ RebateSum({x}) = RebateOf(x)
<1>1. ASSUME NEW w, w[x] \in Int
      PROVE  Total(w, {x}) = w[x]
  <2>1. IsFiniteSet({}) /\ x \notin {} /\ {} \cup {x} = {x}
    BY FS_EmptySet
  <2>2. Total(w, {} \cup {x}) = Total(w, {}) + w[x]
    BY <1>1, <2>1, TotalAdds
  <2> QED
    BY <1>1, <2>1, <2>2, TotalEmpty
<1>2. SizeSum({x}) = x.size
  <2> DEFINE w == [f \in {x} |-> f.size]
  <2>1. w[x] = x.size /\ w[x] \in Int
    BY FillNumbers
  <2>2. SizeSum({x}) = Total(w, {x})
    BY DEF SizeSum
  <2> HIDE DEF w
  <2> QED
    BY <1>1, <2>1, <2>2
<1>3. InventorySum({x}) = Sign(x.side) * x.size
  <2> DEFINE w == [f \in {x} |-> Sign(f.side) * f.size]
  <2>1. w[x] = Sign(x.side) * x.size /\ w[x] \in Int
    BY FillNumbers
  <2>2. InventorySum({x}) = Total(w, {x})
    BY DEF InventorySum
  <2> HIDE DEF w
  <2> QED
    BY <1>1, <2>1, <2>2
<1>4. ValueSum({x}) = ValueOf(x)
  <2> DEFINE w == [f \in {x} |-> ValueOf(f)]
  <2>1. w[x] = ValueOf(x) /\ w[x] \in Int
    BY FillNumbers
  <2>2. ValueSum({x}) = Total(w, {x})
    BY DEF ValueSum
  <2> HIDE DEF w
  <2> QED
    BY <1>1, <2>1, <2>2
<1>5. FeeSum({x}) = FeeOf(x)
  <2> DEFINE w == [f \in {x} |-> FeeOf(f)]
  <2>1. w[x] = FeeOf(x) /\ w[x] \in Int
    BY FillNumbers
  <2>2. FeeSum({x}) = Total(w, {x})
    BY DEF FeeSum
  <2> HIDE DEF w
  <2> QED
    BY <1>1, <2>1, <2>2
<1>6. RebateSum({x}) = RebateOf(x)
  <2> DEFINE w == [f \in {x} |-> RebateOf(f)]
  <2>1. w[x] = RebateOf(x) /\ w[x] \in Int
    BY FillNumbers
  <2>2. RebateSum({x}) = Total(w, {x})
    BY DEF RebateSum
  <2> HIDE DEF w
  <2> QED
    BY <1>1, <2>1, <2>2
<1> QED
  BY <1>2, <1>3, <1>4, <1>5, <1>6

LEMMA SumsAreNumbers ==
    ASSUME NEW S, IsFiniteSet(S), \A f \in S : IsFill(f)
    PROVE  /\ SizeSum(S) \in Nat /\ InventorySum(S) \in Int
           /\ ValueSum(S) \in Int /\ FeeSum(S) \in Int /\ RebateSum(S) \in Int
<1>1. SizeSum(S) \in Nat
  <2> DEFINE w == [f \in S |-> f.size]
  <2>1. \A f \in S : w[f] \in Nat
    BY FillNumbers
  <2>2. SizeSum(S) = Total(w, S)
    BY DEF SizeSum
  <2> HIDE DEF w
  <2> QED
    BY <2>1, <2>2, TotalNat
<1>2. InventorySum(S) \in Int
  <2> DEFINE w == [f \in S |-> Sign(f.side) * f.size]
  <2>1. \A f \in S : w[f] \in Int
    BY FillNumbers
  <2>2. InventorySum(S) = Total(w, S)
    BY DEF InventorySum
  <2> HIDE DEF w
  <2> QED
    BY <2>1, <2>2, TotalTakesOut
<1>3. ValueSum(S) \in Int
  <2> DEFINE w == [f \in S |-> ValueOf(f)]
  <2>1. \A f \in S : w[f] \in Int
    BY FillNumbers
  <2>2. ValueSum(S) = Total(w, S)
    BY DEF ValueSum
  <2> HIDE DEF w
  <2> QED
    BY <2>1, <2>2, TotalTakesOut
<1>4. FeeSum(S) \in Int
  <2> DEFINE w == [f \in S |-> FeeOf(f)]
  <2>1. \A f \in S : w[f] \in Int
    BY FillNumbers
  <2>2. FeeSum(S) = Total(w, S)
    BY DEF FeeSum
  <2> HIDE DEF w
  <2> QED
    BY <2>1, <2>2, TotalTakesOut
<1>5. RebateSum(S) \in Int
  <2> DEFINE w == [f \in S |-> RebateOf(f)]
  <2>1. \A f \in S : w[f] \in Int
    BY FillNumbers
  <2>2. RebateSum(S) = Total(w, S)
    BY DEF RebateSum
  <2> HIDE DEF w
  <2> QED
    BY <2>1, <2>2, TotalTakesOut
<1> QED
  BY <1>1, <1>2, <1>3, <1>4, <1>5

Accounts == [cash : Int, inventory : Int, fees : Int, rebates : Int]

\* An account after the fills S.
Booked(acct, S) ==
    [cash      |-> acct.cash + RebateSum(S) - FeeSum(S) - ValueSum(S),
     inventory |-> acct.inventory + InventorySum(S),
     fees      |-> acct.fees + FeeSum(S),
     rebates   |-> acct.rebates + RebateSum(S)]

\* Booking one more fill, in whatever order they are booked.
LEMMA RecordOneMore ==
    ASSUME NEW acct \in Accounts, NEW S, IsFiniteSet(S), \A f \in S : IsFill(f),
           NEW x \in S
    PROVE  RecordFill(Booked(acct, S \ {x}), x) = Booked(acct, S)
<1> DEFINE R == S \ {x}
<1>1. IsFill(x) /\ IsFiniteSet(R) /\ IsFiniteSet({x}) /\ R \cap {x} = {} /\ R \cup {x} = S
  BY FS_Singleton, FS_Subset
<1>2. \A f \in R \cup {x} : IsFill(f)
  BY <1>1
<1>3. \A f \in R : IsFill(f)
  OBVIOUS
<1> HIDE DEF R
<1>4. /\ InventorySum(S) = InventorySum(R) + Sign(x.side) * x.size
      /\ ValueSum(S) = ValueSum(R) + ValueOf(x)
      /\ FeeSum(S) = FeeSum(R) + FeeOf(x)
      /\ RebateSum(S) = RebateSum(R) + RebateOf(x)
  BY <1>1, <1>2, SumsOfUnion, SumsOfOne
<1>5. /\ InventorySum(R) \in Int /\ ValueSum(R) \in Int
      /\ FeeSum(R) \in Int /\ RebateSum(R) \in Int
  BY <1>1, <1>3, SumsAreNumbers
<1>6. Sign(x.side) * x.size \in Int /\ ValueOf(x) \in Int /\ FeeOf(x) \in Int /\ RebateOf(x) \in Int
  BY <1>1, FillNumbers
<1> DEFINE a == Booked(acct, R)
<1>7. /\ a.cash = acct.cash + RebateSum(R) - FeeSum(R) - ValueSum(R)
      /\ a.inventory = acct.inventory + InventorySum(R)
      /\ a.fees = acct.fees + FeeSum(R)
      /\ a.rebates = acct.rebates + RebateSum(R)
  BY DEF Booked
<1> HIDE DEF a
<1>8. RecordFill(a, x) = [cash      |-> a.cash - ValueOf(x) + RebateOf(x) - FeeOf(x),
                          inventory |-> a.inventory + Sign(x.side) * x.size,
                          fees      |-> a.fees + FeeOf(x),
                          rebates   |-> a.rebates + RebateOf(x)]
  BY DEF RecordFill, ValueOf, FeeOf, RebateOf
<1>9. /\ a.cash - ValueOf(x) + RebateOf(x) - FeeOf(x)
            = acct.cash + RebateSum(S) - FeeSum(S) - ValueSum(S)
      /\ a.inventory + Sign(x.side) * x.size = acct.inventory + InventorySum(S)
      /\ a.fees + FeeOf(x) = acct.fees + FeeSum(S)
      /\ a.rebates + RebateOf(x) = acct.rebates + RebateSum(S)
  <2> DEFINE i == Sign(x.side) * x.size
  <2>1. acct.cash \in Int /\ acct.inventory \in Int /\ acct.fees \in Int /\ acct.rebates \in Int
    BY DEF Accounts
  <2>2. i \in Int /\ InventorySum(S) = InventorySum(R) + i
    BY <1>4, <1>6
  <2> HIDE DEF i
  <2>3. a.inventory + i = acct.inventory + InventorySum(S)
    BY <1>5, <1>7, <2>1, <2>2
  <2>4. a.cash - ValueOf(x) + RebateOf(x) - FeeOf(x)
            = acct.cash + RebateSum(S) - FeeSum(S) - ValueSum(S)
    BY <1>4, <1>5, <1>6, <1>7, <2>1
  <2>5. a.fees + FeeOf(x) = acct.fees + FeeSum(S) /\ a.rebates + RebateOf(x) = acct.rebates + RebateSum(S)
    BY <1>4, <1>5, <1>6, <1>7, <2>1
  <2> QED
    BY <2>3, <2>4, <2>5 DEF i
<1> QED
  BY <1>8, <1>9 DEF Booked, a, R

\* The account after the fills of one event is the account before it and the
\* sums over those fills.
LEMMA RecordFillsSums ==
    ASSUME NEW acct \in Accounts, NEW F, IsFiniteSet(F), \A f \in F : IsFill(f)
    PROVE  RecordFills(acct, F) = Booked(acct, F)
<1> DEFINE Body(t) == [S \in SUBSET F |->
                         IF S = {} THEN acct
                         ELSE LET f == CHOOSE x \in S : TRUE IN RecordFill(t[S \ {f}], f)]
           table == [S \in SUBSET F |-> Booked(acct, S)]
           u == CHOOSE t : t = Body(t)
<1>1. RecordFills(acct, F) = u[F]
  BY DEF RecordFills
<1>2. Booked(acct, {}) = acct
  <2>1. acct = [cash |-> acct.cash, inventory |-> acct.inventory, fees |-> acct.fees,
                rebates |-> acct.rebates]
        /\ acct.cash \in Int /\ acct.inventory \in Int /\ acct.fees \in Int /\ acct.rebates \in Int
    BY DEF Accounts
  <2> QED
    BY <2>1, SumsOfNone DEF Booked
<1>3. \A S \in SUBSET F : S # {} =>
         /\ AnyOf(S) \in S
         /\ RecordFill(Booked(acct, S \ {AnyOf(S)}), AnyOf(S)) = Booked(acct, S)
  BY Sizes, RecordOneMore
<1>4. \A t : Body(t) = [S \in SUBSET F |->
                          IF S = {} THEN acct ELSE RecordFill(t[S \ {AnyOf(S)}], AnyOf(S))]
  BY DEF AnyOf
<1>5. table = Body(table)
  <2>1. \A S \in SUBSET F : table[S] = IF S = {} THEN acct
                            ELSE RecordFill(table[S \ {AnyOf(S)}], AnyOf(S))
    BY <1>2, <1>3
  <2>2. table = [S \in SUBSET F |-> table[S]]
    OBVIOUS
  <2> HIDE DEF table, Body
  <2> QED
    BY <1>4, <2>1, <2>2
<1> HIDE DEF Body
<1>6. u = Body(u)
  BY <1>5
<1>7. \A S \in SUBSET F : u[S] = IF S = {} THEN acct
                          ELSE RecordFill(u[S \ {AnyOf(S)}], AnyOf(S))
  <2> HIDE DEF u
  <2> QED
    BY <1>4, <1>6
<1> HIDE DEF u
<1> DEFINE Good == {n \in Nat : \A S \in SUBSET F : Cardinality(S) <= n => u[S] = Booked(acct, S)}
<1>8. 0 \in Good
  <2>1. ASSUME NEW S \in SUBSET F, Cardinality(S) <= 0
        PROVE  u[S] = Booked(acct, S)
    <3>1. S = {}
      BY <2>1, Sizes
    <3> QED
      BY <1>2, <1>7, <3>1
  <2> QED
    BY <2>1
<1>9. \A n \in Nat : n \in Good => n + 1 \in Good
  <2> SUFFICES ASSUME NEW n \in Nat, n \in Good, NEW S \in SUBSET F, Cardinality(S) <= n + 1
               PROVE  u[S] = Booked(acct, S)
    OBVIOUS
  <2>1. CASE S = {}
    BY <1>2, <1>7, <2>1
  <2>2. CASE S # {}
    <3> DEFINE x == AnyOf(S)
    <3>1. x \in S /\ RecordFill(Booked(acct, S \ {x}), x) = Booked(acct, S)
      BY <1>3, <2>2
    <3>2. u[S] = RecordFill(u[S \ {x}], x)
      BY <1>7, <2>2
    <3> HIDE DEF x
    <3>3. Cardinality(S \ {x}) <= n
      BY <3>1, Sizes
    <3>4. u[S \ {x}] = Booked(acct, S \ {x})
      BY <3>3
    <3> QED
      BY <3>1, <3>2, <3>4
  <2> QED
    BY <2>1, <2>2
<1> HIDE DEF Good
<1>10. Cardinality(F) \in Good
  BY <1>8, <1>9, InductionOverNat, Sizes
<1>11. Cardinality(F) <= Cardinality(F)
  BY Sizes
<1> QED
  BY <1>1, <1>10, <1>11 DEF Good

\* What a fill does to the cash, as metrics.py adds it up.
CashOf(f) == -Sign(f.side) * f.price * f.size * TickValue
               + (IF f.maker THEN MakerRebate(f.price, f.size) ELSE -TakerFee(f.price, f.size))

CashSum(S) == Total([f \in S |-> CashOf(f)], S)

LEMMA CashSumIs ==
    ASSUME NEW F, IsFiniteSet(F), \A f \in F : IsFill(f)
    PROVE  CashSum(F) = RebateSum(F) - FeeSum(F) - ValueSum(F)
<1> DEFINE w == [f \in F |-> CashOf(f)]
           r == [f \in F |-> RebateOf(f)]
           d == [f \in F |-> FeeOf(f)]
           v == [f \in F |-> ValueOf(f)]
           Good == {T \in SUBSET F : Total(w, T) = Total(r, T) - Total(d, T) - Total(v, T)}
<1>1. \A f \in F : /\ w[f] \in Int /\ r[f] \in Int /\ d[f] \in Int /\ v[f] \in Int
                   /\ w[f] = r[f] - d[f] - v[f]
  <2> TAKE f \in F
  <2>1. ValueOf(f) \in Int /\ FeeOf(f) \in Int /\ RebateOf(f) \in Int
    BY FillNumbers
  <2>2. CashOf(f) = -ValueOf(f) + (IF f.maker THEN MakerRebate(f.price, f.size)
                                              ELSE -TakerFee(f.price, f.size))
    BY DEF CashOf, ValueOf
  <2>3. CASE f.maker
    <3>1. FeeOf(f) = 0 /\ RebateOf(f) = MakerRebate(f.price, f.size)
          /\ CashOf(f) = -ValueOf(f) + MakerRebate(f.price, f.size)
      BY <2>2, <2>3 DEF FeeOf, RebateOf
    <3> QED
      BY <2>1, <3>1
  <2>4. CASE ~f.maker
    <3>1. RebateOf(f) = 0 /\ FeeOf(f) = TakerFee(f.price, f.size)
          /\ CashOf(f) = -ValueOf(f) + -TakerFee(f.price, f.size)
      BY <2>2, <2>4 DEF FeeOf, RebateOf
    <3> QED
      BY <2>1, <3>1
  <2> QED
    BY <2>3, <2>4
<1>2. CashSum(F) = Total(w, F) /\ RebateSum(F) = Total(r, F) /\ FeeSum(F) = Total(d, F)
      /\ ValueSum(F) = Total(v, F)
  BY DEF CashSum, RebateSum, FeeSum, ValueSum
<1> HIDE DEF w, r, d, v
<1>3. {} \in Good
  BY TotalEmpty
<1>4. ASSUME NEW T \in SUBSET F, NEW x \in F \ T, T \in Good
      PROVE  T \cup {x} \in Good
  <2>1. IsFiniteSet(T) /\ x \notin T /\ \A y \in T \cup {x} : y \in F
    BY FS_Subset
  <2>2. /\ Total(w, T) \in Int /\ Total(r, T) \in Int /\ Total(d, T) \in Int /\ Total(v, T) \in Int
    BY <1>1, <2>1, TotalTakesOut
  <2>3. /\ Total(w, T \cup {x}) = Total(w, T) + w[x]
        /\ Total(r, T \cup {x}) = Total(r, T) + r[x]
        /\ Total(d, T \cup {x}) = Total(d, T) + d[x]
        /\ Total(v, T \cup {x}) = Total(v, T) + v[x]
    BY <1>1, <2>1, TotalAdds
  <2>4. w[x] \in Int /\ r[x] \in Int /\ d[x] \in Int /\ v[x] \in Int /\ w[x] = r[x] - d[x] - v[x]
    BY <1>1
  <2>5. Total(w, T) = Total(r, T) - Total(d, T) - Total(v, T)
    BY <1>4
  <2> QED
    BY <2>2, <2>3, <2>4, <2>5
<1> HIDE DEF Good
<1>5. F \in Good
  BY <1>3, <1>4, InductionOverSubsets
<1> QED
  BY <1>2, <1>5 DEF Good

\* The sums as the modules write them, with the fold of the library.
SizesOf(S)       == MapThenSumSet(LAMBDA f : f.size, S)
InventoriesOf(S) == MapThenSumSet(LAMBDA f : Sign(f.side) * f.size, S)
ValuesOf(S)      == MapThenSumSet(LAMBDA f : Sign(f.side) * f.price * f.size * TickValue, S)
CashesOf(S)      ==
    MapThenSumSet(LAMBDA f : -Sign(f.side) * f.price * f.size * TickValue
                              + (IF f.maker THEN MakerRebate(f.price, f.size)
                                            ELSE -TakerFee(f.price, f.size)), S)

LEMMA FoldsAreSums ==
    ASSUME NEW S, IsFiniteSet(S)
    PROVE  /\ SizesOf(S) = SizeSum(S)
           /\ InventoriesOf(S) = InventorySum(S)
           /\ ValuesOf(S) = ValueSum(S)
           /\ CashesOf(S) = CashSum(S)
<1>1. \A T \in SUBSET S : T # {} => AnyOf(T) \in T /\ AnyOf(T) \in S
  BY Sizes
<1>2. SizesOf(S) = SizeSum(S)
  <2> DEFINE w == [f \in S |-> f.size]
             Body(t) == [T \in SUBSET S |->
                           IF T = {} THEN 0
                           ELSE LET x == CHOOSE y \in T : TRUE
                                IN  x.size + t[T \ {x}]]
             u == CHOOSE t : t = Body(t)
  <2>1. SizesOf(S) = u[S]
    BY DEF SizesOf, MapThenSumSet, MapThenFoldSet
  <2>2. SizeSum(S) = Total(w, S)
    BY DEF SizeSum
  <2>3. \A T \in SUBSET S : T # {} => w[AnyOf(T)] = LET x == AnyOf(T) IN x.size
    BY <1>1
  <2>4. \A t : Body(t) = [T \in SUBSET S |-> IF T = {} THEN 0
                                           ELSE w[AnyOf(T)] + t[T \ {AnyOf(T)}]]
    BY <2>3 DEF AnyOf
  <2> HIDE DEF Body, w
  <2>5. \A t : t = Body(t) <=> IsTable(t, w, S)
    BY <2>4 DEF IsTable
  <2>6. IsTable(CHOOSE t : IsTable(t, w, S), w, S)
    BY TableExists
  <2>7. IsTable(u, w, S)
    BY <2>5, <2>6
  <2> HIDE DEF u
  <2>8. S \in SUBSET S
    OBVIOUS
  <2> QED
    BY <2>1, <2>2, <2>7, <2>8, TotalOfSubset
<1>3. InventoriesOf(S) = InventorySum(S)
  <2> DEFINE w == [f \in S |-> Sign(f.side) * f.size]
             Body(t) == [T \in SUBSET S |->
                           IF T = {} THEN 0
                           ELSE LET x == CHOOSE y \in T : TRUE
                                IN  Sign(x.side) * x.size + t[T \ {x}]]
             u == CHOOSE t : t = Body(t)
  <2>1. InventoriesOf(S) = u[S]
    BY DEF InventoriesOf, MapThenSumSet, MapThenFoldSet
  <2>2. InventorySum(S) = Total(w, S)
    BY DEF InventorySum
  <2>3. \A T \in SUBSET S : T # {} => w[AnyOf(T)] = LET x == AnyOf(T) IN Sign(x.side) * x.size
    BY <1>1
  <2>4. \A t : Body(t) = [T \in SUBSET S |-> IF T = {} THEN 0
                                           ELSE w[AnyOf(T)] + t[T \ {AnyOf(T)}]]
    BY <2>3 DEF AnyOf
  <2> HIDE DEF Body, w
  <2>5. \A t : t = Body(t) <=> IsTable(t, w, S)
    BY <2>4 DEF IsTable
  <2>6. IsTable(CHOOSE t : IsTable(t, w, S), w, S)
    BY TableExists
  <2>7. IsTable(u, w, S)
    BY <2>5, <2>6
  <2> HIDE DEF u
  <2>8. S \in SUBSET S
    OBVIOUS
  <2> QED
    BY <2>1, <2>2, <2>7, <2>8, TotalOfSubset
<1>4. ValuesOf(S) = ValueSum(S)
  <2> DEFINE w == [f \in S |-> ValueOf(f)]
             Body(t) == [T \in SUBSET S |->
                           IF T = {} THEN 0
                           ELSE LET x == CHOOSE y \in T : TRUE
                                IN  Sign(x.side) * x.price * x.size * TickValue + t[T \ {x}]]
             u == CHOOSE t : t = Body(t)
  <2>1. ValuesOf(S) = u[S]
    BY DEF ValuesOf, MapThenSumSet, MapThenFoldSet
  <2>2. ValueSum(S) = Total(w, S)
    BY DEF ValueSum
  <2>3. \A T \in SUBSET S : T # {} => w[AnyOf(T)] = LET x == AnyOf(T) IN ValueOf(x)
    BY <1>1
  <2>4. \A t : Body(t) = [T \in SUBSET S |-> IF T = {} THEN 0
                                           ELSE w[AnyOf(T)] + t[T \ {AnyOf(T)}]]
    BY <2>3 DEF AnyOf, ValueOf
  <2> HIDE DEF Body, w
  <2>5. \A t : t = Body(t) <=> IsTable(t, w, S)
    BY <2>4 DEF IsTable
  <2>6. IsTable(CHOOSE t : IsTable(t, w, S), w, S)
    BY TableExists
  <2>7. IsTable(u, w, S)
    BY <2>5, <2>6
  <2> HIDE DEF u
  <2>8. S \in SUBSET S
    OBVIOUS
  <2> QED
    BY <2>1, <2>2, <2>7, <2>8, TotalOfSubset
<1>5. CashesOf(S) = CashSum(S)
  <2> DEFINE w == [f \in S |-> CashOf(f)]
             Body(t) == [T \in SUBSET S |->
                           IF T = {} THEN 0
                           ELSE LET x == CHOOSE y \in T : TRUE
                                IN  (-Sign(x.side) * x.price * x.size * TickValue
                                    + (IF x.maker THEN MakerRebate(x.price, x.size)
                                                  ELSE -TakerFee(x.price, x.size))) + t[T \ {x}]]
             u == CHOOSE t : t = Body(t)
  <2>1. CashesOf(S) = u[S]
    BY DEF CashesOf, MapThenSumSet, MapThenFoldSet
  <2>2. CashSum(S) = Total(w, S)
    BY DEF CashSum
  <2>3. \A T \in SUBSET S : T # {} => w[AnyOf(T)] = LET x == AnyOf(T) IN CashOf(x)
    BY <1>1
  <2>4. \A t : Body(t) = [T \in SUBSET S |-> IF T = {} THEN 0
                                           ELSE w[AnyOf(T)] + t[T \ {AnyOf(T)}]]
    BY <2>3 DEF AnyOf, CashOf
  <2> HIDE DEF Body, w
  <2>5. \A t : t = Body(t) <=> IsTable(t, w, S)
    BY <2>4 DEF IsTable
  <2>6. IsTable(CHOOSE t : IsTable(t, w, S), w, S)
    BY TableExists
  <2>7. IsTable(u, w, S)
    BY <2>5, <2>6
  <2> HIDE DEF u
  <2>8. S \in SUBSET S
    OBVIOUS
  <2> QED
    BY <2>1, <2>2, <2>7, <2>8, TotalOfSubset
<1> QED
  BY <1>2, <1>3, <1>4, <1>5

\* Booking the fills of a second event adds its sums to those of the first.
LEMMA BookedTwice ==
    ASSUME NEW acct \in Accounts, NEW F, IsFiniteSet(F), NEW G, IsFiniteSet(G),
           F \cap G = {}, \A f \in F \cup G : IsFill(f)
    PROVE  /\ Booked(acct, F) \in Accounts
           /\ Booked(Booked(acct, F), G) = Booked(acct, F \cup G)
<1>1. /\ InventorySum(F) \in Int /\ ValueSum(F) \in Int /\ FeeSum(F) \in Int /\ RebateSum(F) \in Int
      /\ InventorySum(G) \in Int /\ ValueSum(G) \in Int /\ FeeSum(G) \in Int /\ RebateSum(G) \in Int
  BY SumsAreNumbers
<1>2. /\ InventorySum(F \cup G) = InventorySum(F) + InventorySum(G)
      /\ ValueSum(F \cup G) = ValueSum(F) + ValueSum(G)
      /\ FeeSum(F \cup G) = FeeSum(F) + FeeSum(G)
      /\ RebateSum(F \cup G) = RebateSum(F) + RebateSum(G)
  BY SumsOfUnion
<1>3. acct.cash \in Int /\ acct.inventory \in Int /\ acct.fees \in Int /\ acct.rebates \in Int
  BY DEF Accounts
<1> DEFINE a == Booked(acct, F)
<1>4. /\ a.cash = acct.cash + RebateSum(F) - FeeSum(F) - ValueSum(F)
      /\ a.inventory = acct.inventory + InventorySum(F)
      /\ a.fees = acct.fees + FeeSum(F)
      /\ a.rebates = acct.rebates + RebateSum(F)
      /\ a \in Accounts
  BY <1>1, <1>3 DEF Booked, Accounts
<1> HIDE DEF a
<1>5. /\ a.cash + RebateSum(G) - FeeSum(G) - ValueSum(G)
            = acct.cash + RebateSum(F \cup G) - FeeSum(F \cup G) - ValueSum(F \cup G)
      /\ a.inventory + InventorySum(G) = acct.inventory + InventorySum(F \cup G)
      /\ a.fees + FeeSum(G) = acct.fees + FeeSum(F \cup G)
      /\ a.rebates + RebateSum(G) = acct.rebates + RebateSum(F \cup G)
  BY <1>1, <1>2, <1>3, <1>4
<1>6. Booked(a, G) = Booked(acct, F \cup G)
  BY <1>5 DEF Booked
<1> QED
  BY <1>4, <1>6 DEF a

\* How much of order o the fills in S have filled.
Filled(S, o) == SizeSum({f \in S : f.oid = o})

\* New fills add to what was filled; an order none of them is for keeps it.
LEMMA FilledAdds ==
    ASSUME NEW F, IsFiniteSet(F), NEW G, IsFiniteSet(G), F \cap G = {},
           \A f \in F \cup G : IsFill(f), NEW o
    PROVE  /\ Filled(F, o) \in Nat /\ Filled(G, o) \in Nat
           /\ Filled(F \cup G, o) = Filled(F, o) + Filled(G, o)
<1> DEFINE P == {f \in F : f.oid = o}
           Q == {f \in G : f.oid = o}
<1>1. {f \in F \cup G : f.oid = o} = P \cup Q
  OBVIOUS
<1>2. IsFiniteSet(P) /\ IsFiniteSet(Q)
  <2>1. P \in SUBSET F /\ Q \in SUBSET G
    OBVIOUS
  <2> QED
    BY <2>1, FS_Subset
<1>3. P \cap Q = {} /\ \A f \in P \cup Q : IsFill(f)
  OBVIOUS
<1>4. Filled(F, o) = SizeSum(P) /\ Filled(G, o) = SizeSum(Q) /\ Filled(F \cup G, o) = SizeSum(P \cup Q)
  BY <1>1 DEF Filled
<1> HIDE DEF P, Q
<1>5. SizeSum(P \cup Q) = SizeSum(P) + SizeSum(Q)
  BY <1>2, <1>3, SumsOfUnion
<1>6. SizeSum(P) \in Nat /\ SizeSum(Q) \in Nat
  BY <1>2, <1>3, SumsAreNumbers
<1> QED
  BY <1>4, <1>5, <1>6

LEMMA FilledByNone ==
    ASSUME NEW G, NEW o, \A g \in G : g.oid # o
    PROVE  Filled(G, o) = 0
<1>1. {g \in G : g.oid = o} = {}
  OBVIOUS
<1> QED
  BY <1>1, SumsOfNone DEF Filled

LEMMA FilledByOne ==
    ASSUME NEW G, NEW f \in G, IsFill(f), \A g \in G : g.oid = f.oid => g = f
    PROVE  Filled(G, f.oid) = f.size
<1>1. {g \in G : g.oid = f.oid} = {f}
  OBVIOUS
<1> QED
  BY <1>1, SumsOfOne DEF Filled

\* Fills of different orders, of which there are finitely many, are finitely many.
LEMMA FewFills ==
    ASSUME NEW G, NEW ids, IsFiniteSet(ids), \A g \in G : g.oid \in ids,
           \A f, g \in G : f.oid = g.oid => f = g
    PROVE  IsFiniteSet(G)
<1> DEFINE id == [g \in G |-> g.oid]
<1>1. id \in Injection(G, ids)
  BY DEF Injection, IsInjective
<1> QED
  BY <1>1, FS_Injection

-----------------------------------------------------------------------------
\* Sets of positions.

\* A set of positions that holds with each one those before it is a prefix,
\* as long as it has elements.
LEMMA PrefixCount ==
    ASSUME NEW n \in Nat, NEW S, S \subseteq 1 .. n,
           \A i \in S : \A j \in 1 .. i : j \in S
    PROVE  /\ Cardinality(S) \in 0 .. n
           /\ S = 1 .. Cardinality(S)
<1>1. IsFiniteSet(S)
  <2>1. IsFiniteSet(1 .. n)
    BY FS_Interval
  <2> QED
    BY <2>1, FS_Subset
<1>2. CASE S = {}
  BY <1>2, FS_EmptySet
<1>3. CASE S # {}
  <2>1. S \subseteq Nat
    OBVIOUS
  <2>2. \E m \in S : \A i \in S : i <= m
    BY <1>1, <1>3, <2>1, LargestNat
  <2>3. PICK m \in S : \A i \in S : i <= m
    BY <2>2
  <2>4. m \in 1 .. n
    OBVIOUS
  <2>5. \A i \in 1 .. m : i \in S
    OBVIOUS
  <2>6. S = 1 .. m
    <3>1. \A i \in S : i \in 1 .. m
      BY <2>3
    <3> QED
      BY <2>5, <3>1
  <2>7. Cardinality(S) = m
    BY <2>4, <2>6, FS_Interval
  <2> QED
    BY <2>4, <2>6, <2>7
<1> QED
  BY <1>2, <1>3

\* A sum does not depend on where the numbering of its terms begins.
Shifted(v, w, off, g) == \A j \in 1 .. g : v[j] = w[off + j] /\ w[off + j] \in Int

LEMMA SameTermsShifted ==
    ASSUME NEW off \in Nat, NEW g \in Nat, NEW v, NEW w,
           Shifted(v, w, off, g), NEW lo, lo = off + 1, NEW hi, hi = off + g
    PROVE  Total(v, 1 .. g) = Total(w, lo .. hi)
<1> USE DEF Shifted
<1> DEFINE Good == {m \in Nat : m <= g => Total(v, 1 .. m) = Total(w, (off + 1) .. (off + m))}
<1>1. 0 \in Good
  <2>1. 1 .. 0 = {} /\ (off + 1) .. (off + 0) = {}
    OBVIOUS
  <2> QED
    BY <2>1, TotalEmpty
<1>2. ASSUME NEW m \in Nat, m \in Good, m + 1 <= g PROVE m + 1 \in Good
  <2> DEFINE F == 1 .. m
             G == (off + 1) .. (off + m)
             x == m + 1
             y == off + (m + 1)
  <2>1. Total(v, F) = Total(w, G)
    BY <1>2
  <2>2. 1 .. (m + 1) = F \cup {x} /\ (off + 1) .. (off + (m + 1)) = G \cup {y}
    OBVIOUS
  <2>3. x \notin F /\ y \notin G /\ IsFiniteSet(F) /\ IsFiniteSet(G)
    BY FS_Interval
  <2>4. \A j \in F \cup {x} : v[j] \in Int
    <3>1. \A j \in 1 .. (m + 1) : j \in 1 .. g
      BY <1>2
    <3>2. \A j \in 1 .. g : v[j] \in Int
      OBVIOUS
    <3> QED
      BY <2>2, <3>1, <3>2
  <2>5. \A i \in G \cup {y} : w[i] \in Int
    <3>1. \A i \in (off + 1) .. (off + (m + 1)) : i - off \in 1 .. g /\ off + (i - off) = i
      BY <1>2
    <3>2. \A i \in (off + 1) .. (off + (m + 1)) : w[i] \in Int
      <4> TAKE i \in (off + 1) .. (off + (m + 1))
      <4>1. w[off + (i - off)] \in Int
        BY <3>1
      <4> QED
        BY <3>1, <4>1
    <3> QED
      BY <2>2, <3>2
  <2>6. v[x] = w[y]
    BY <1>2
  <2> HIDE DEF F, G, x, y
  <2>7. Total(v, F \cup {x}) = Total(v, F) + v[x]
    BY <2>3, <2>4, TotalAdds
  <2>8. Total(w, G \cup {y}) = Total(w, G) + w[y]
    BY <2>3, <2>5, TotalAdds
  <2>9. Total(v, F \cup {x}) = Total(w, G \cup {y})
    BY <2>1, <2>6, <2>7, <2>8
  <2>10. Total(v, 1 .. (m + 1)) = Total(w, (off + 1) .. (off + (m + 1)))
    BY <2>2, <2>9
  <2> QED
    BY <2>10
<1>3. \A m \in Nat : m \in Good => m + 1 \in Good
  BY <1>2
<1>4. g \in Good
  <2> HIDE DEF Good
  <2> QED
    BY <1>1, <1>3, InductionOverNat
<1> QED
  BY <1>4
=============================================================================
