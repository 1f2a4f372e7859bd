----------------------- MODULE MarginTrading_proofs -----------------------
(***************************************************************************)
(* The books, the limits, the costs, the maintenance margin and the facts  *)
(* behind an entry of MarginAccount and MarginTrading, for any assets,     *)
(* terms, prices, records, rates, limits and lengths of a run.             *)
(***************************************************************************)
EXTENDS MarginTrading, TLAPS, FiniteSetTheorems, NaturalsInduction, WellFoundedInduction

-----------------------------------------------------------------------------
(* Sums of functions with a finite domain.                                 *)

\* A nonempty set of numbers has a least one.
LEMMA LeastOfSet ==
    ASSUME NEW T, T \subseteq Nat, T # {}
    PROVE  \E x \in T : \A y \in T : x <= y
<1> DEFINE Less == OpToRel(<, Nat)
<1>1. Less = {p \in Nat \X Nat : p[1] < p[2]}
    BY Zenon DEF OpToRel
<1>2. IsWellFoundedOn(Less, Nat)
    BY NatLessThanWellFounded, Zenon
<1> HIDE DEF Less
<1>3. PICK x \in T : \A y \in T : ~(<<y, x>> \in Less)
    BY <1>2, WFMin, Zenon
<1>4. ASSUME NEW y \in T PROVE x <= y
  <2>1. x \in Nat /\ y \in Nat /\ <<y, x>> \notin Less
    BY <1>3
  <2>2. ~(<<y, x>>[1] < <<y, x>>[2])
    BY <1>1, <2>1, Zenon
  <2>3. QED
    BY <2>1, <2>2
<1>5. QED
    BY <1>4

\* A set that holds zero and, with every number below n, the next one, holds
\* all numbers up to n.
LEMMA UpTo ==
    ASSUME NEW n \in Nat, NEW S, 0 \in S,
           \A i \in 1..n : i - 1 \in S => i \in S
    PROVE  \A i \in 0..n : i \in S
<1> DEFINE T == {i \in 0..n : i \notin S}
<1> SUFFICES ASSUME T # {} PROVE FALSE
    OBVIOUS
<1>1. T \subseteq Nat
    OBVIOUS
<1>2. PICK x \in T : \A y \in T : x <= y
  <2> HIDE DEF T
  <2>1. QED
    BY <1>1, LeastOfSet
<1>3. x \in 1..n /\ x - 1 \in 0..n /\ x - 1 \notin T
    BY <1>2
<1>4. QED
    BY <1>2, <1>3

\* The element that a fold takes first, and what it makes of a set: the fold's
\* recursion, and what Sum is in its terms.
FirstOf(s) == CHOOSE x \in s : TRUE

Folds(f, fold) ==
    fold = [s \in SUBSET DOMAIN f |->
               IF s = {} THEN 0 ELSE f[FirstOf(s)] + fold[s \ {FirstOf(s)}]]

Partial(f) == CHOOSE fold : Folds(f, fold)

LEMMA SumIsPartial == ASSUME NEW f PROVE Sum(f) = Partial(f)[DOMAIN f]
  BY DEF Sum, FoldFunction, FoldFunctionOnSet, MapThenFoldSet, Partial, Folds, FirstOf

\* Taking the first element leaves one element less.
LEMMA OneLess ==
    ASSUME NEW s, IsFiniteSet(s), NEW x \in s
    PROVE  /\ IsFiniteSet(s \ {x})
           /\ Cardinality(s) \in Nat /\ Cardinality(s \ {x}) \in Nat
           /\ Cardinality(s) = Cardinality(s \ {x}) + 1
<1>1. IsFiniteSet(s \ {x}) /\ Cardinality(s \ {x}) = Cardinality(s) - 1
    BY FS_RemoveElement
<1>2. Cardinality(s) \in Nat /\ Cardinality(s \ {x}) \in Nat
    BY <1>1, FS_CardinalityType
<1>3. QED
    BY <1>1, <1>2

LEMMA FirstIsIn == ASSUME NEW s, s # {} PROVE FirstOf(s) \in s
  BY DEF FirstOf

\* A fold that satisfies the recursion on the subsets of at most n elements.
FoldsUpTo(f, n, fold) ==
    /\ fold \in [SUBSET DOMAIN f -> Int]
    /\ fold[{}] = 0
    /\ \A s \in SUBSET DOMAIN f :
          s # {} /\ Cardinality(s) <= n =>
              fold[s] = f[FirstOf(s)] + fold[s \ {FirstOf(s)}]

\* A function on a finite set of whole numbers.
IsAmounts(f) == IsFiniteSet(DOMAIN f) /\ f \in [DOMAIN f -> Int]

LEMMA FoldGrows ==
    ASSUME NEW f, IsAmounts(f), NEW n \in Nat, NEW fold, FoldsUpTo(f, n, fold)
    PROVE  \E more : FoldsUpTo(f, n + 1, more)
<1> DEFINE more == [s \in SUBSET DOMAIN f |->
                      IF s = {} THEN 0 ELSE f[FirstOf(s)] + fold[s \ {FirstOf(s)}]]
<1>1. ASSUME NEW s \in SUBSET DOMAIN f, s # {}
      PROVE  /\ FirstOf(s) \in DOMAIN f /\ f[FirstOf(s)] \in Int
             /\ s \ {FirstOf(s)} \in SUBSET DOMAIN f
             /\ fold[s \ {FirstOf(s)}] \in Int
    BY <1>1, FirstIsIn DEF IsAmounts, FoldsUpTo
<1>2. more \in [SUBSET DOMAIN f -> Int] /\ more[{}] = 0
  <2>1. ASSUME NEW s \in SUBSET DOMAIN f
        PROVE  (IF s = {} THEN 0 ELSE f[FirstOf(s)] + fold[s \ {FirstOf(s)}]) \in Int
    <3>1. CASE s = {}
      BY <3>1
    <3>2. CASE s # {}
      <4>1. f[FirstOf(s)] \in Int /\ fold[s \ {FirstOf(s)}] \in Int
        BY <1>1, <3>2
      <4>2. QED
        BY <3>2, <4>1
    <3>3. QED
      BY <3>1, <3>2
  <2>2. {} \in SUBSET DOMAIN f
    OBVIOUS
  <2>3. QED
    BY <2>1, <2>2
<1>3. ASSUME NEW s \in SUBSET DOMAIN f, IsFiniteSet(s) => Cardinality(s) <= n
      PROVE  more[s] = fold[s]
  <2>1. IsFiniteSet(s)
    BY FS_Subset DEF IsAmounts
  <2>2. QED
    BY <1>3, <2>1 DEF FoldsUpTo
<1>4. ASSUME NEW s \in SUBSET DOMAIN f, s # {}, Cardinality(s) <= n + 1
      PROVE  more[s] = f[FirstOf(s)] + more[s \ {FirstOf(s)}]
  <2> DEFINE t == s \ {FirstOf(s)}
  <2>1. IsFiniteSet(s) /\ FirstOf(s) \in s
    BY <1>4, FS_Subset, FirstIsIn DEF IsAmounts
  <2>2. Cardinality(t) \in Nat /\ Cardinality(s) \in Nat /\ Cardinality(s) = Cardinality(t) + 1
    BY <2>1, OneLess
  <2>3. Cardinality(t) <= n
    BY <1>4, <2>2
  <2>4. more[t] = fold[t]
    BY <1>3, <2>3
  <2>5. QED
    BY <1>4, <2>4
<1>5. FoldsUpTo(f, n + 1, more)
  <2> HIDE DEF more
  <2>1. QED
    BY <1>2, <1>4 DEF FoldsUpTo
<1>6. QED
    BY <1>5

LEMMA FoldExists ==
    ASSUME NEW f, IsAmounts(f)
    PROVE  \E fold \in [SUBSET DOMAIN f -> Int] : Folds(f, fold)
<1> DEFINE n == Cardinality(DOMAIN f)
           S == {i \in 0..n : \E fold : FoldsUpTo(f, i, fold)}
<1>1. n \in Nat
    BY FS_CardinalityType DEF IsAmounts
<1>2. 0 \in S
  <2>1. FoldsUpTo(f, 0, [s \in SUBSET DOMAIN f |-> 0])
    <3>1. ASSUME NEW s \in SUBSET DOMAIN f, s # {} PROVE ~(Cardinality(s) <= 0)
      <4>1. PICK x : x \in s
        BY <3>1
      <4>2. IsFiniteSet(s)
        BY FS_Subset DEF IsAmounts
      <4>3. Cardinality(s) \in Nat /\ Cardinality(s \ {x}) \in Nat
            /\ Cardinality(s) = Cardinality(s \ {x}) + 1
        BY <4>1, <4>2, OneLess
      <4>4. QED
        BY <4>3
    <3>2. QED
      BY <3>1 DEF FoldsUpTo
  <2>2. QED
    BY <1>1, <2>1
<1>3. \A i \in 1..n : i - 1 \in S => i \in S
  <2> SUFFICES ASSUME NEW i \in 1..n, i - 1 \in S PROVE i \in S
    OBVIOUS
  <2>1. i - 1 \in Nat /\ (i - 1) + 1 = i
    BY <1>1
  <2>2. \E fold : FoldsUpTo(f, i - 1, fold)
    OBVIOUS
  <2>3. \E fold : FoldsUpTo(f, i, fold)
    BY <2>1, <2>2, FoldGrows
  <2>4. QED
    BY <1>1, <2>3
<1>4. n \in S
  <2> HIDE DEF S
  <2>1. \A i \in 0..n : i \in S
    BY <1>1, <1>2, <1>3, UpTo
  <2>2. QED
    BY <1>1, <2>1
<1>5. PICK fold : FoldsUpTo(f, n, fold)
    BY <1>4
<1>6. \A s \in SUBSET DOMAIN f : Cardinality(s) <= n
    BY FS_Subset DEF IsAmounts
<1>7. Folds(f, fold)
    BY <1>5, <1>6 DEF FoldsUpTo, Folds
<1>8. QED
    BY <1>5, <1>7 DEF FoldsUpTo

LEMMA PartialRecurs ==
    ASSUME NEW f, IsAmounts(f)
    PROVE  /\ Partial(f)[{}] = 0
           /\ \A s \in SUBSET DOMAIN f :
                 s # {} => Partial(f)[s] = f[FirstOf(s)] + Partial(f)[s \ {FirstOf(s)}]
<1>1. Folds(f, Partial(f))
    BY FoldExists DEF Partial
<1> DEFINE P == Partial(f)
<1> HIDE DEF P
<1>2. P = [s \in SUBSET DOMAIN f |->
             IF s = {} THEN 0 ELSE f[FirstOf(s)] + P[s \ {FirstOf(s)}]]
    BY <1>1 DEF Folds, P
<1>3. P[{}] = 0 /\ \A s \in SUBSET DOMAIN f :
                 s # {} => P[s] = f[FirstOf(s)] + P[s \ {FirstOf(s)}]
    BY <1>2
<1>4. QED
    BY <1>3 DEF P


\* Partial sums are whole numbers.
LEMMA PartialIsInt ==
    ASSUME NEW f, IsAmounts(f)
    PROVE  \A s \in SUBSET DOMAIN f : Partial(f)[s] \in Int
<1>1. PICK fold \in [SUBSET DOMAIN f -> Int] : Folds(f, fold)
    BY FoldExists
<1>2. Folds(f, Partial(f))
    BY <1>1 DEF Partial
<1> DEFINE n == Cardinality(DOMAIN f)
           S == {i \in 0..n : \A s \in SUBSET DOMAIN f :
                   Cardinality(s) = i => Partial(f)[s] \in Int}
<1>3. n \in Nat
    BY FS_CardinalityType DEF IsAmounts
<1>4. 0 \in S
  <2>1. ASSUME NEW s \in SUBSET DOMAIN f, Cardinality(s) = 0 PROVE s = {}
    BY <2>1, FS_Subset, FS_EmptySet DEF IsAmounts
  <2>2. Partial(f)[{}] \in Int
    BY PartialRecurs
  <2>3. ASSUME NEW s \in SUBSET DOMAIN f, Cardinality(s) = 0 PROVE Partial(f)[s] \in Int
    BY <2>1, <2>2, <2>3
  <2>4. QED
    BY <1>3, <2>3
<1>5. \A i \in 1..n : i - 1 \in S => i \in S
  <2> SUFFICES ASSUME NEW i \in 1..n, i - 1 \in S,
                      NEW s \in SUBSET DOMAIN f, Cardinality(s) = i
               PROVE  Partial(f)[s] \in Int
    BY <1>3
  <2>1. IsFiniteSet(s)
    BY FS_Subset DEF IsAmounts
  <2>2. s # {}
    <3>1. i # 0 /\ Cardinality({}) = 0
      BY <1>3, FS_EmptySet
    <3>2. QED
      BY <3>1
  <2> DEFINE x == FirstOf(s)
  <2>3. x \in s
    BY <2>2, FirstIsIn
  <2>4. Cardinality(s \ {x}) = i - 1
    BY <1>3, <2>1, <2>3, OneLess
  <2>5. Partial(f)[s \ {x}] \in Int
    BY <2>4
  <2>6. f[x] \in Int
    BY <2>3 DEF IsAmounts
  <2>7. Partial(f)[s] = f[x] + Partial(f)[s \ {x}]
    BY <2>2, PartialRecurs
  <2>8. QED
    BY <2>5, <2>6, <2>7
<1>6. \A i \in 0..n : i \in S
  <2> HIDE DEF S
  <2>1. QED
    BY <1>3, <1>4, <1>5, UpTo
<1>7. ASSUME NEW s \in SUBSET DOMAIN f PROVE Cardinality(s) \in 0..n
    BY <1>3, FS_Subset, FS_CardinalityType DEF IsAmounts
<1>8. QED
    BY <1>6, <1>7

\* Any element may be taken first.
LEMMA PartialSplits ==
    ASSUME NEW f, IsAmounts(f)
    PROVE  \A s \in SUBSET DOMAIN f : \A x \in s :
              Partial(f)[s] = f[x] + Partial(f)[s \ {x}]
<1> DEFINE P == Partial(f)
           n == Cardinality(DOMAIN f)
           S == {i \in 0..n : \A s \in SUBSET DOMAIN f : Cardinality(s) = i =>
                   \A x \in s : P[s] = f[x] + P[s \ {x}]}
<1>1. \A s \in SUBSET DOMAIN f : P[s] \in Int
    BY PartialIsInt
<1>2. \A s \in SUBSET DOMAIN f : s # {} => P[s] = f[FirstOf(s)] + P[s \ {FirstOf(s)}]
    BY PartialRecurs
<1> HIDE DEF P
<1>3. n \in Nat
    BY FS_CardinalityType DEF IsAmounts
<1>4. 0 \in S
  <2>1. ASSUME NEW s \in SUBSET DOMAIN f, Cardinality(s) = 0 PROVE s = {}
    BY <2>1, FS_Subset, FS_EmptySet DEF IsAmounts
  <2>2. QED
    BY <1>3, <2>1
<1>5. \A i \in 1..n : i - 1 \in S => i \in S
  <2> SUFFICES ASSUME NEW i \in 1..n, i - 1 \in S,
                      NEW s \in SUBSET DOMAIN f, Cardinality(s) = i, NEW x \in s
               PROVE  P[s] = f[x] + P[s \ {x}]
    BY <1>3
  <2> PICK y : y = FirstOf(s)
    OBVIOUS
  <2>1. IsFiniteSet(s) /\ y \in s
    BY FS_Subset, FirstIsIn DEF IsAmounts
  <2>2. P[s] = f[y] + P[s \ {y}]
    BY <1>2
  <2>3. CASE x = y
    BY <2>2, <2>3
  <2>4. CASE x # y
    <3>1. Cardinality(s \ {x}) = i - 1 /\ Cardinality(s \ {y}) = i - 1
      BY <1>3, <2>1, OneLess
    <3> PICK t \in SUBSET DOMAIN f : t = s \ {x, y}
      OBVIOUS
    <3>2. (s \ {y}) \ {x} = t /\ (s \ {x}) \ {y} = t
          /\ x \in s \ {y} /\ y \in s \ {x}
          /\ s \ {y} \in SUBSET DOMAIN f /\ s \ {x} \in SUBSET DOMAIN f
      BY <2>1, <2>4
    <3>3. P[s \ {y}] = f[x] + P[t] /\ P[s \ {x}] = f[y] + P[t]
      BY <3>1, <3>2
    <3>4. f[x] \in Int /\ f[y] \in Int /\ P[t] \in Int
      BY <1>1, <2>1 DEF IsAmounts
    <3>5. QED
      BY <2>2, <3>3, <3>4
  <2>5. QED
    BY <2>3, <2>4
<1>6. \A i \in 0..n : i \in S
  <2> HIDE DEF S
  <2>1. QED
    BY <1>3, <1>4, <1>5, UpTo
<1>7. ASSUME NEW s \in SUBSET DOMAIN f PROVE Cardinality(s) \in 0..n
    BY <1>3, FS_Subset, FS_CardinalityType DEF IsAmounts
<1>8. \A s \in SUBSET DOMAIN f : \A x \in s : P[s] = f[x] + P[s \ {x}]
    BY <1>6, <1>7
<1>9. QED
    BY <1>8 DEF P

\* What h calls the elements of a set.
Named(h, s) == {h[x] : x \in s}

\* What the elements are called does not matter.
LEMMA PartialOfImage ==
    ASSUME NEW f, IsAmounts(f), NEW g, IsAmounts(g),
           NEW h, NEW d \in SUBSET DOMAIN f,
           \A x \in d : h[x] \in DOMAIN g /\ g[h[x]] = f[x],
           \A x, y \in d : h[x] = h[y] => x = y
    PROVE  Partial(f)[d] = Partial(g)[Named(h, d)]
<1> DEFINE P == Partial(f)
           Q == Partial(g)
           n == Cardinality(DOMAIN f)
           S == {i \in 0..n : \A s \in SUBSET d : Cardinality(s) = i =>
                   P[s] = Q[Named(h, s)]}
<1>1. P[{}] = 0 /\ \A s \in SUBSET DOMAIN f : \A x \in s : P[s] = f[x] + P[s \ {x}]
    BY PartialRecurs, PartialSplits
<1>2. Q[{}] = 0 /\ \A s \in SUBSET DOMAIN g : \A x \in s : Q[s] = g[x] + Q[s \ {x}]
    BY PartialRecurs, PartialSplits
<1> HIDE DEF P, Q
<1>3. n \in Nat
    BY FS_CardinalityType DEF IsAmounts
<1>4. 0 \in S
  <2>1. ASSUME NEW s \in SUBSET d, Cardinality(s) = 0 PROVE s = {}
    BY <2>1, FS_Subset, FS_EmptySet DEF IsAmounts
  <2>2. ASSUME NEW s \in SUBSET d, Cardinality(s) = 0 PROVE P[s] = Q[Named(h, s)]
    <3>1. s = {} /\ Named(h, s) = {}
      BY <2>1, <2>2 DEF Named
    <3>2. QED
      BY <1>1, <1>2, <3>1
  <2>3. QED
    BY <1>3, <2>2
<1>5. \A i \in 1..n : i - 1 \in S => i \in S
  <2> SUFFICES ASSUME NEW i \in 1..n, i - 1 \in S, NEW s \in SUBSET d, Cardinality(s) = i
               PROVE  P[s] = Q[Named(h, s)]
    BY <1>3
  <2>1. IsFiniteSet(s) /\ s # {}
    BY <1>3, FS_Subset, FS_EmptySet DEF IsAmounts
  <2>2. PICK y : y \in s
    BY <2>1
  <2> PICK r \in SUBSET d : r = s \ {y}
    OBVIOUS
  <2>3. Cardinality(r) = i - 1
    <3>1. Cardinality(r) \in Nat /\ Cardinality(s) = Cardinality(r) + 1
      BY <2>1, <2>2, OneLess, Zenon
    <3>2. QED
      BY <3>1
  <2>4. P[r] = Q[Named(h, r)]
    BY <2>3
  <2>5. P[s] = f[y] + P[r]
    BY <1>1, <2>2
  <2> PICK t : t = Named(h, s)
    OBVIOUS
  <2>6. t \in SUBSET DOMAIN g /\ h[y] \in t /\ g[h[y]] = f[y]
    BY <2>2 DEF Named
  <2>7. t \ {h[y]} = Named(h, r)
    <3>1. ASSUME NEW x \in s, h[x] # h[y] PROVE x \in r
      BY <3>1
    <3>2. ASSUME NEW x \in r PROVE h[x] \in t /\ h[x] # h[y]
      BY <2>2 DEF Named
    <3>3. QED
      BY <3>1, <3>2 DEF Named
  <2>8. Q[t] = g[h[y]] + Q[t \ {h[y]}]
    BY <1>2, <2>6
  <2>9. QED
    BY <2>4, <2>5, <2>6, <2>7, <2>8
<1>6. \A i \in 0..n : i \in S
  <2> HIDE DEF S
  <2>1. QED
    BY <1>3, <1>4, <1>5, UpTo
<1>7. Cardinality(d) \in 0..n
    BY <1>3, FS_Subset, FS_CardinalityType DEF IsAmounts
<1>8. P[d] = Q[Named(h, d)]
    BY <1>6, <1>7
<1>9. QED
    BY <1>8 DEF P, Q

\* Two sets that have nothing in common.
LEMMA PartialOfUnion ==
    ASSUME NEW f, IsAmounts(f), NEW a \in SUBSET DOMAIN f, NEW b \in SUBSET DOMAIN f,
           a \cap b = {}
    PROVE  Partial(f)[a \cup b] = Partial(f)[a] + Partial(f)[b]
<1> DEFINE P == Partial(f)
           n == Cardinality(DOMAIN f)
           S == {i \in 0..n : \A s \in SUBSET b : Cardinality(s) = i =>
                   P[a \cup s] = P[a] + P[s]}
<1>1. P[{}] = 0 /\ \A s \in SUBSET DOMAIN f : \A x \in s : P[s] = f[x] + P[s \ {x}]
    BY PartialRecurs, PartialSplits
<1>2. \A s \in SUBSET DOMAIN f : P[s] \in Int
    BY PartialIsInt
<1> HIDE DEF P
<1>3. n \in Nat
    BY FS_CardinalityType DEF IsAmounts
<1>4. 0 \in S
  <2>1. ASSUME NEW s \in SUBSET b, Cardinality(s) = 0 PROVE P[a \cup s] = P[a] + P[s]
    <3>1. s = {}
      BY <2>1, FS_Subset, FS_EmptySet DEF IsAmounts
    <3>2. a \cup s = a /\ P[a] \in Int
      BY <1>2, <3>1
    <3>3. QED
      BY <1>1, <3>1, <3>2
  <2>2. QED
    BY <1>3, <2>1
<1>5. \A i \in 1..n : i - 1 \in S => i \in S
  <2> SUFFICES ASSUME NEW i \in 1..n, i - 1 \in S, NEW s \in SUBSET b, Cardinality(s) = i
               PROVE  P[a \cup s] = P[a] + P[s]
    BY <1>3
  <2>1. IsFiniteSet(s) /\ s # {}
    BY <1>3, FS_Subset, FS_EmptySet DEF IsAmounts
  <2>2. PICK y : y \in s
    BY <2>1
  <2> PICK r \in SUBSET b : r = s \ {y}
    OBVIOUS
  <2>3. Cardinality(r) = i - 1
    BY <1>3, <2>1, <2>2, OneLess
  <2>4. P[a \cup r] = P[a] + P[r]
    BY <2>3
  <2>5. P[s] = f[y] + P[r]
    BY <1>1, <2>2
  <2>6. a \cup s \in SUBSET DOMAIN f /\ y \in a \cup s /\ (a \cup s) \ {y} = a \cup r
    BY <2>2
  <2>7. P[a \cup s] = f[y] + P[a \cup r]
    BY <1>1, <2>6
  <2>8. f[y] \in Int /\ P[a] \in Int /\ P[r] \in Int
    BY <1>2, <2>2 DEF IsAmounts
  <2>9. QED
    BY <2>4, <2>5, <2>7, <2>8
<1>6. \A i \in 0..n : i \in S
  <2> HIDE DEF S
  <2>1. QED
    BY <1>3, <1>4, <1>5, UpTo
<1>7. Cardinality(b) \in 0..n
    BY <1>3, FS_Subset, FS_CardinalityType DEF IsAmounts
<1>8. P[a \cup b] = P[a] + P[b]
    BY <1>6, <1>7
<1>9. QED
    BY <1>8 DEF P

LEMMA SumIsInt == ASSUME NEW f, IsAmounts(f) PROVE Sum(f) \in Int
  BY PartialIsInt, SumIsPartial

LEMMA SumOfNone == ASSUME NEW f, IsAmounts(f), DOMAIN f = {} PROVE Sum(f) = 0
  BY PartialRecurs, SumIsPartial

\* g has the amounts of f, under the names h gives them, and one more.
OneMore(f, g, h, z) ==
    /\ IsAmounts(f) /\ IsAmounts(g) /\ z \in DOMAIN g
    /\ \A x \in DOMAIN f : h[x] \in DOMAIN g \ {z} /\ g[h[x]] = f[x]
    /\ \A x, y \in DOMAIN f : h[x] = h[y] => x = y
    /\ \A y \in DOMAIN g \ {z} : \E x \in DOMAIN f : y = h[x]

LEMMA SumOfOneMore ==
    ASSUME NEW f, NEW g, NEW h, NEW z, OneMore(f, g, h, z)
    PROVE  Sum(g) = g[z] + Sum(f)
<1>1. Named(h, DOMAIN f) = DOMAIN g \ {z}
    BY DEF Named, OneMore
<1>2. Partial(f)[DOMAIN f] = Partial(g)[Named(h, DOMAIN f)]
  <2>1. /\ \A x \in DOMAIN f : h[x] \in DOMAIN g /\ g[h[x]] = f[x]
        /\ \A x, y \in DOMAIN f : h[x] = h[y] => x = y
        /\ IsAmounts(f) /\ IsAmounts(g)
    BY DEF OneMore
  <2>2. QED
    BY <2>1, PartialOfImage
<1>3. Partial(g)[DOMAIN g] = g[z] + Partial(g)[DOMAIN g \ {z}]
    BY PartialSplits DEF OneMore
<1>4. QED
    BY <1>1, <1>2, <1>3, SumIsPartial

\* The amounts of two functions in one.
Joins(f, g, k, u, v) ==
    /\ IsAmounts(f) /\ IsAmounts(g) /\ IsAmounts(k)
    /\ \A x \in DOMAIN f : u[x] \in DOMAIN k /\ k[u[x]] = f[x]
    /\ \A x, y \in DOMAIN f : u[x] = u[y] => x = y
    /\ \A x \in DOMAIN g : v[x] \in DOMAIN k /\ k[v[x]] = g[x]
    /\ \A x, y \in DOMAIN g : v[x] = v[y] => x = y
    /\ \A x \in DOMAIN f : \A y \in DOMAIN g : u[x] # v[y]
    /\ \A z \in DOMAIN k : (\E x \in DOMAIN f : z = u[x]) \/ (\E y \in DOMAIN g : z = v[y])

LEMMA SumOfTwo ==
    ASSUME NEW f, NEW g, NEW k, NEW u, NEW v, Joins(f, g, k, u, v)
    PROVE  Sum(k) = Sum(f) + Sum(g)
<1> USE DEF Joins
<1> PICK a : a = Named(u, DOMAIN f)
    OBVIOUS
<1> PICK b : b = Named(v, DOMAIN g)
    OBVIOUS
<1>1. a \in SUBSET DOMAIN k
  <2>1. ASSUME NEW z \in a PROVE z \in DOMAIN k
    BY DEF Named
  <2>2. QED
    BY <2>1
<1>2. b \in SUBSET DOMAIN k
  <2>1. ASSUME NEW z \in b PROVE z \in DOMAIN k
    BY DEF Named
  <2>2. QED
    BY <2>1
<1>3. Sum(f) = Partial(k)[a]
    BY PartialOfImage, SumIsPartial
<1>4. Sum(g) = Partial(k)[b]
    BY PartialOfImage, SumIsPartial
<1>5. a \cap b = {}
  <2> SUFFICES ASSUME NEW z \in a, z \in b PROVE FALSE
    OBVIOUS
  <2>1. \E x \in DOMAIN f : z = u[x]
    BY DEF Named
  <2>2. \E y \in DOMAIN g : z = v[y]
    BY DEF Named
  <2>3. QED
    BY <2>1, <2>2
<1>6. a \cup b = DOMAIN k
  <2>1. ASSUME NEW z \in DOMAIN k PROVE z \in a \cup b
    <3>1. CASE \E x \in DOMAIN f : z = u[x]
      BY <3>1 DEF Named
    <3>2. CASE \E y \in DOMAIN g : z = v[y]
      BY <3>2 DEF Named
    <3>3. QED
      BY <3>1, <3>2
  <2>2. QED
    BY <1>1, <1>2, <2>1
<1>7. Partial(k)[a \cup b] = Partial(k)[a] + Partial(k)[b]
    BY <1>5, <1>1, <1>2, PartialOfUnion
<1>8. QED
    BY <1>3, <1>4, <1>6, <1>7, SumIsPartial

-----------------------------------------------------------------------------
(* The inputs of a run, and the facts behind an entry.                     *)

InputsInv ==
    /\ calendar \in Calendars /\ flows \in FlowSets
    /\ session \in 0..Len(calendar) /\ at \in Nat \ {0}
    /\ phase \in {"night", "entries", "advance", "failed"}
    /\ phase # "night" => session > 0 /\ day \in Days[calendar][session]

LEMMA InputsStart == ASSUME Init PROVE InputsInv
<1>1. Len(calendar) \in Nat
    BY InputsAssumption DEF Init
<1>2. QED
    BY <1>1 DEF Init, InputsInv

\* What advancing a position does beside the copy it works on.
LEMMA AdvanceFrame ==
    ASSUME NEW p, Advance(p)
    PROVE  /\ Turn(p)
           /\ UNCHANGED <<calendar, flows, session, day, account, entered, entitled,
                          incidents>>
           /\ \/ phase' = "failed" /\ at' = at /\ advanced' = advanced
              \/ phase' = phase /\ at' = at + 1
<1>1. CASE Fail(p)
    BY <1>1, Zenon DEF Fail
<1>2. ASSUME NEW price, CloseAt(p, price)
      PROVE  /\ phase' = phase /\ at' = at + 1
             /\ UNCHANGED <<calendar, flows, session, day, account, entered, entitled,
                            incidents>>
    BY <1>2, Zenon DEF CloseAt
<1>3. ASSUME NEW forced, NEW exit, CarryOn(p, forced, exit)
      PROVE  /\ phase' = phase /\ at' = at + 1
             /\ UNCHANGED <<calendar, flows, session, day, account, entered, entitled,
                            incidents>>
    BY <1>3, Zenon DEF CarryOn
<1>4. CASE ClosePending(p)
    BY <1>2, <1>4, Zenon DEF ClosePending
<1>5. CASE DeferPending(p)
    BY <1>3, <1>5, Zenon DEF DeferPending
<1>6. CASE CloseByRule(p)
    BY <1>2, <1>6, Zenon DEF CloseByRule
<1>7. CASE DeferExit(p)
    BY <1>3, <1>7, Zenon DEF DeferExit
<1>8. CASE Hold(p)
    BY <1>3, <1>8, Zenon DEF Hold
<1>9. QED
    BY <1>1, <1>4, <1>5, <1>6, <1>7, <1>8, Zenon DEF Advance

LEMMA InputsStep == ASSUME InputsInv, [Next]_vars PROVE InputsInv'
<1>1. Len(calendar) \in Nat
    BY InputsAssumption DEF InputsInv
<1>2. CASE OpenSession
  <2>1. /\ session' = session + 1 /\ day' \in Days[calendar][session + 1]
        /\ calendar' = calendar /\ flows' = flows /\ at' = 1 /\ phase' = "entries"
        /\ session < Len(calendar)
    BY <1>2, Zenon DEF OpenSession
  <2>2. day' \in Days[calendar'][session']
    BY <2>1
  <2>3. QED
    BY <1>1, <2>1, <2>2 DEF InputsInv
<1>3. CASE Enter \/ Refuse \/ EndEntries
    BY <1>3 DEF Enter, Refuse, EndEntries, InputsInv
<1>4. ASSUME NEW i \in DOMAIN account.positions, Advance(account.positions[i])
      PROVE  InputsInv'
  <2> PICK p : p = account.positions[i]
    OBVIOUS
  <2>1. Advance(p)
    BY <1>4
  <2>2. /\ UNCHANGED <<calendar, flows, session, day>>
        /\ phase = "advance"
        /\ \/ phase' = "failed" /\ at' = at
           \/ phase' = phase /\ at' = at + 1
    BY <2>1, AdvanceFrame, Zenon DEF Turn
  <2>3. QED
    BY <2>2 DEF InputsInv
<1>5. CASE Settle
    BY <1>5 DEF Settle, InputsInv
<1>6. CASE UNCHANGED vars
    BY <1>6 DEF vars, InputsInv
<1>7. QED
    BY <1>2, <1>3, <1>4, <1>5, <1>6 DEF Next

\* A record that is ready says yes to the mode, knows what the mode needs, was
\* known at the decision and was in force and recent then.
LEMMA ReadyRecord ==
    ASSUME NEW s, IsSnapshot(s, Base), NEW mode \in Margin, NEW asOf \in Int,
           Eligibility(mode, s, asOf) = "eligible"
    PROVE  InForce(s, asOf) /\ SaysYes(mode, s)
<1> PICK t : t = TimeReasons(s, asOf)
    OBVIOUS
<1> PICK o : o = OtherReasons(mode, s)
    OBVIOUS
<1>1. /\ t = {} /\ o = {}
      /\ EligibleFlag(mode, s) # "no"
  <2>1. ~(s = <<>>)
    BY DEF Eligibility
  <2>2. ~(EligibleFlag(mode, s) = "no" /\ t = {})
    BY <2>1 DEF Eligibility
  <2>3. t \cup o = {}
    BY <2>1, <2>2 DEF Eligibility
  <2>4. QED
    BY <2>2, <2>3
<1>2. /\ ~(s.fetched > asOf) /\ ~(s.from > asOf)
      /\ ~(s.until # Unknown /\ asOf >= s.until)
      /\ ~(asOf - s.available > Policy.age)
      /\ s.quality \notin {"stale", "unavailable", "synthetic"}
    BY <1>1 DEF TimeReasons
<1>3. /\ s.fetched \in Nat /\ s.available \in Nat /\ s.from \in Nat
      /\ s.until \in {Unknown} \cup Nat /\ Policy.age \in Nat
      /\ s.quality \in {"verified", "partial", "stale", "unavailable", "synthetic"}
      /\ {s.longEligible, s.shortEligible} \subseteq {"yes", "no", "unknown"}
    BY PoliciesAssumption DEF IsSnapshot, ValidRiskPolicy
<1>4. /\ MissingFields(mode, s) = {}
      /\ EligibleFlag(mode, s) # "unknown"
      /\ mode = "margin_short" => s.short \in {"available", "limited"}
    BY <1>1 DEF OtherReasons
<1>5. EligibleFlag(mode, s) = "yes"
    BY <1>1, <1>3, <1>4 DEF EligibleFlag
<1>6. \A f \in NeededFields(mode, s) : s[f] # Unknown
    BY <1>4 DEF MissingFields
<1>7. InForce(s, asOf)
    BY <1>2, <1>3 DEF InForce, Unknown
<1>8. QED
    BY <1>4, <1>5, <1>6, <1>7 DEF SaysYes

\* A card that is a candidate or a warning is of a record that is ready, with no
\* grade that blocks; a leveraged fund and a limited inventory make it a warning.
LEMMA CardThatAllows ==
    ASSUME NEW asOf, NEW i, IsAnalysisInput(i, asOf), NEW s, NEW card,
           card = Card(i, s, asOf),
           card.status \notin {"blocked", "not_eligible", "insufficient_data"}
    PROVE  /\ Eligibility(i.mode, s, asOf) = "eligible"
           /\ "block" \notin CardGrades(i, s)
           /\ "warn" \in CardGrades(i, s) \/ Leveraged(i) => card.status = "warning"
<1> PICK e : e = Eligibility(i.mode, s, asOf)
    OBVIOUS
<1> PICK g : g = CardGrades(i, s)
    OBVIOUS
<1>1. card.status = CardStatus(i, e, g)
    BY DEF Card
<1>2. e \in {"eligible", "not_eligible", "insufficient_data"}
    BY Zenon DEF Eligibility
<1>3. ~(e # "eligible")
  <2>1. e # "eligible" => CardStatus(i, e, g) = e
    BY DEF CardStatus
  <2>2. QED
    BY <1>1, <1>2, <2>1
<1>4. "block" \notin g
  <2>1. "block" \in g => CardStatus(i, e, g) = "blocked"
    BY <1>3 DEF CardStatus
  <2>2. QED
    BY <1>1, <2>1
<1>5. "warn" \in g \/ Leveraged(i) => CardStatus(i, e, g) = "warning"
  <2> SUFFICES ASSUME "warn" \in g \/ Leveraged(i) PROVE CardStatus(i, e, g) = "warning"
    OBVIOUS
  <2>1. QED
    BY <1>3, <1>4 DEF CardStatus, Leveraged
<1>6. QED
    BY <1>1, <1>3, <1>4, <1>5

\* What no grade of a card blocks.
LEMMA NothingBlocks ==
    ASSUME NEW asOf, NEW i, IsAnalysisInput(i, asOf), NEW s, IsSnapshot(s, Base),
           "block" \notin CardGrades(i, s)
    PROVE  /\ s.restrictions \cap HardRestrictions(i.mode) = {}
           /\ i.value >= Policy.value
           /\ i.event > Policy.event.block
<1>1. ASSUME NEW r \in s.restrictions PROVE r \notin HardRestrictions(i.mode)
  <2>1. RestrictionGrade(i.mode, r) # "block"
    BY DEF CardGrades
  <2>2. QED
    BY <2>1 DEF RestrictionGrade
<1>2. MarketGrades(i).value \in CardGrades(i, s)
  <2>1. "value" \in DOMAIN MarketGrades(i)
    BY DEF MarketGrades
  <2>2. MarketGrades(i).value \in Range(MarketGrades(i))
    BY <2>1, Zenon DEF Range
  <2>3. QED
    BY <2>2, Zenon DEF CardGrades
<1>3. RiskGrades(i).event \in CardGrades(i, s)
  <2>1. "event" \in DOMAIN RiskGrades(i)
    BY DEF RiskGrades
  <2>2. RiskGrades(i).event \in Range(RiskGrades(i))
    BY <2>1, Zenon DEF Range
  <2>3. QED
    BY <2>2, Zenon DEF CardGrades
<1>4. {i.value, i.event} \subseteq {Unknown} \cup Nat
      /\ Policy.value \in Nat /\ Policy.event.block \in Nat
    BY PoliciesAssumption DEF IsAnalysisInput, ValidRiskPolicy
<1>5. i.value >= Policy.value
  <2>1. Known(i.value, Floor(i.value, Policy.value), "block") # "block"
    BY <1>2 DEF MarketGrades
  <2>2. i.value # Unknown /\ ~(i.value < Policy.value)
    BY <2>1 DEF Known, Floor
  <2>3. QED
    BY <1>4, <2>2
<1>6. i.event > Policy.event.block
  <2>1. Known(i.event, Falling(i.event, Policy.event), "block") # "block"
    BY <1>3 DEF RiskGrades
  <2>2. i.event # Unknown /\ Falling(i.event, Policy.event) # "block"
    BY <2>1 DEF Known
  <2>3. ~(i.event <= Policy.event.block)
    BY <1>4, <2>2 DEF Falling
  <2>4. QED
    BY <1>4, <2>2, <2>3
<1>7. QED
    BY <1>1, <1>5, <1>6

\* A limited inventory of a short is worth a warning.
LEMMA LimitedWarns ==
    ASSUME NEW i, NEW s, i.mode = "margin_short", s.short = "limited"
    PROVE  "warn" \in CardGrades(i, s)
<1>1. QualityGrades(i, s).limited = "warn" /\ "limited" \in DOMAIN QualityGrades(i, s)
    BY DEF QualityGrades
<1>2. "warn" \in Range(QualityGrades(i, s))
    BY <1>1, Zenon DEF Range
<1>3. QED
    BY <1>2, Zenon DEF CardGrades

LEMMA EnterOnFacts ==
    ASSUME InputsInv, Enter
    PROVE  LET c == day.entries[at]
               s == c.snapshot
               mode == c.terms.mode
           IN  mode \in Margin =>
                /\ InForce(s, Decided(c))
                /\ SaysYes(mode, s)
                /\ s.restrictions \cap HardRestrictions(mode) = {}
                /\ c.inputs.value >= Policy.value
                /\ c.inputs.event > Policy.event.block
                /\ Leveraged(c.inputs) => c.approved
                /\ mode = "margin_short" /\ s.short = "limited" => c.approved
<1>1. /\ at \in DOMAIN day.entries /\ day \in Days[calendar][session]
      /\ calendar \in Calendars /\ session \in DOMAIN calendar
      /\ calendar[session] \in Nat
  <2>1. calendar \in Seq(Nat) /\ session \in 1..Len(calendar)
    BY InputsAssumption DEF InputsInv, Enter
  <2>2. QED
    BY <2>1 DEF Enter, InputsInv
<1> PICK c : c = day.entries[at]
    OBVIOUS
<1> PICK asOf : asOf = Decided(c)
    OBVIOUS
<1>2. IsSelected(c, asOf) /\ CardAllows(c)
  <2>1. asOf = calendar[session] - c.lag
    BY DEF Decided, Date
  <2>2. QED
    BY <1>1, <2>1, SelectedAssumption DEF Enter, Admitted
<1>i. asOf \in Int
  <2>1. IsCandidate(c, day)
    BY <1>1, InputsAssumption DEF IsDay
  <2>2. QED
    BY <1>1, <2>1 DEF IsCandidate, Decided, Date
<1> PICK s : s = c.snapshot
    OBVIOUS
<1> PICK i : i = c.inputs
    OBVIOUS
<1> PICK mode : mode = c.terms.mode
    OBVIOUS
<1> SUFFICES ASSUME mode \in Margin
             PROVE  /\ InForce(s, asOf)
                    /\ SaysYes(mode, s)
                    /\ s.restrictions \cap HardRestrictions(mode) = {}
                    /\ i.value >= Policy.value
                    /\ i.event > Policy.event.block
                    /\ Leveraged(i) => c.approved
                    /\ mode = "margin_short" /\ s.short = "limited" => c.approved
    BY Zenon
<1>3. /\ i.mode = mode /\ IsAnalysisInput(i, asOf) /\ IsSnapshot(s, Base)
      /\ c.card = Card(i, s, asOf)
    BY <1>2 DEF IsSelected
<1> PICK card : card = c.card
    OBVIOUS
<1>4. /\ card.status \notin {"blocked", "not_eligible", "insufficient_data"}
      /\ card.status = "warning" => c.approved
    BY <1>2 DEF CardAllows
<1>5. /\ Eligibility(mode, s, asOf) = "eligible"
      /\ "block" \notin CardGrades(i, s)
      /\ "warn" \in CardGrades(i, s) \/ Leveraged(i) => card.status = "warning"
    BY <1>3, <1>4, CardThatAllows
<1>6. mode = "margin_short" /\ s.short = "limited" => "warn" \in CardGrades(i, s)
    BY <1>3, LimitedWarns
<1>7. /\ s.restrictions \cap HardRestrictions(mode) = {}
      /\ i.value >= Policy.value
      /\ i.event > Policy.event.block
    BY <1>3, <1>5, NothingBlocks
<1>8. InForce(s, asOf) /\ SaysYes(mode, s)
    BY <1>i, <1>3, <1>5, ReadyRecord
<1>9. QED
    BY <1>4, <1>5, <1>6, <1>7, <1>8

\* Whatever the records, inputs and thresholds: a margin position is opened only
\* on a record that was ready and in force when it was decided, with nothing on
\* its card that blocks, and after a review of what warns
\* (docs/23_margin_trading.md sections 2, 5 and 9).
THEOREM EntriesRestOnFacts == Spec => OpenedOnFacts
<1>1. InputsInv /\ [Next]_vars =>
        [Enter =>
            LET c == day.entries[at]
                s == c.snapshot
                mode == c.terms.mode
            IN  mode \in Margin =>
                /\ InForce(s, Decided(c))
                /\ SaysYes(mode, s)
                /\ s.restrictions \cap HardRestrictions(mode) = {}
                /\ c.inputs.value >= Policy.value
                /\ c.inputs.event > Policy.event.block
                /\ Leveraged(c.inputs) => c.approved
                /\ mode = "margin_short" /\ s.short = "limited" => c.approved]_vars
    BY EnterOnFacts, Zenon
<1>2. Init => InputsInv
    BY InputsStart
<1>3. InputsInv /\ [Next]_vars => InputsInv'
    BY InputsStep
<1>4. QED
    BY <1>1, <1>2, <1>3, PTL DEF Spec, OpenedOnFacts

-----------------------------------------------------------------------------
(* Amounts.                                                                *)

LEMMA TimesNat == \A a, b \in Nat : a * b \in Nat
  OBVIOUS

LEMMA TimesPositive == \A a, b \in Nat \ {0} : a * b \in Nat \ {0}
  OBVIOUS

LEMMA DivNat == \A a \in Nat : \A b \in Nat \ {0} : a \div b \in Nat
  OBVIOUS

LEMMA TimesMonotone ==
    \A a, b \in Int : \A n \in Nat : a <= b => a * n <= b * n
  OBVIOUS

LEMMA TimesMoved == \A a, b, c \in Nat : (a * b) * c = a * (c * b)
  OBVIOUS

\* The execution policy in numbers.
LEMMA PolicyNumbers ==
    /\ Base \in Nat \ {0} /\ LotSize \in Nat \ {0} /\ InitialCash \in Nat \ {0}
    /\ Fee \in Nat /\ Spread \in Nat /\ Slip \in Nat /\ Adverse \in Nat /\ Adverse < Base
    /\ MaxPositions \in Nat \ {0} /\ WarningBuffer \in Nat
    /\ RiskRate \in Nat /\ OpenRiskRate \in Nat /\ Leverage \in Nat
    /\ NotionalRate \in Nat /\ SectorRate \in Nat /\ GroupRate \in Nat
    /\ Base * Base \in Nat \ {0}
<1>1. ValidExecutionPolicy
    BY PolicyAssumption
<1>2. Leverage * Base \in Nat /\ Base * Base \in Nat \ {0}
    BY <1>1, TimesNat, TimesPositive DEF ValidExecutionPolicy
<1>3. QED
    BY <1>1, <1>2 DEF ValidExecutionPolicy, Spread, Adverse

LEMMA Directions ==
    \A mode : Direction(mode) \in {-1, 1} /\ Base + Adverse * Direction(mode) \in Nat \ {0}
              /\ Base - Adverse * Direction(mode) \in Nat \ {0}
  BY PolicyNumbers DEF Direction

LEMMA MoneyTyped == \A yen \in Nat : Money(yen) \in Nat
  BY PolicyNumbers, TimesNat DEF Money

\* Whole lots of an amount.
LEMMA LotsFit ==
    ASSUME NEW amount \in Int, NEW unit \in Nat \ {0}
    PROVE  /\ Lots(amount, unit) \in Nat
           /\ Lots(amount, unit) > 0 => Lots(amount, unit) * unit <= amount
<1>1. LotSize \in Nat \ {0} /\ unit * LotSize \in Nat \ {0}
    BY PolicyNumbers, TimesPositive
<1>2. CASE amount <= 0
    BY <1>2 DEF Lots
<1>3. CASE ~(amount <= 0)
  <2> PICK n : n = amount \div (unit * LotSize)
    OBVIOUS
  <2>1. n \in Nat /\ n * (unit * LotSize) <= amount
    BY <1>1, <1>3
  <2>2. Lots(amount, unit) = n * LotSize
    BY <1>3 DEF Lots
  <2>3. n * LotSize \in Nat /\ (n * LotSize) * unit <= amount
    <3>1. \A m, l, u \in Nat : m * (u * l) <= amount => m * l \in Nat /\ (m * l) * u <= amount
      BY TimesMoved, TimesNat
    <3>2. n \in Nat /\ LotSize \in Nat /\ unit \in Nat
      BY <1>1, <2>1
    <3>3. QED
      BY <2>1, <3>1, <3>2, Zenon
  <2>4. QED
    BY <2>2, <2>3
<1>4. QED
    BY <1>2, <1>3

-----------------------------------------------------------------------------
(* Positions and accounts.                                                 *)

\* What the sectors and groups of candidates may be.
LabelsOf(d) == UNION {{d.entries[i].sector, d.entries[i].group} : i \in DOMAIN d.entries}

DaysOf(dates) == UNION {Days[dates][n] : n \in DOMAIN dates}

Labels == UNION {LabelsOf(d) : d \in UNION {DaysOf(c) : c \in Calendars}}

Position ==
    [symbol: Symbols, mode: Margin \cup {"cash"}, sector: Labels, group: Labels,
     quantity: Nat, notional: Nat, margin: Nat, fee: Nat, loss: Nat,
     accrued: Int, accruedTo: Nat, opened: Nat, deadline: Nat,
     stop: Nat, take: Nat, mark: Nat, fx: Nat,
     forced: {"none", "deadline", "maintenance"}, exit: {"none", "rule"}, terms: Terms]

Account == [cash: Int, realized: Int, positions: Seq(Position)]

LEMMA PositionFields ==
    ASSUME NEW p \in Position
    PROVE  /\ p.symbol \in Symbols /\ p.mode \in Margin \cup {"cash"}
           /\ p.quantity \in Nat /\ p.notional \in Nat /\ p.margin \in Nat
           /\ p.fee \in Nat /\ p.loss \in Nat /\ p.accrued \in Int /\ p.accruedTo \in Nat
           /\ p.opened \in Nat /\ p.deadline \in Nat
           /\ p.mark \in Nat /\ p.fx \in Nat
           /\ p.forced \in {"none", "deadline", "maintenance"} /\ p.exit \in {"none", "rule"}
           /\ p.terms \in Terms
  BY DEF Position

LEMMA PositionAmounts ==
    ASSUME NEW p \in Position
    PROVE  /\ CurrentValue(p) \in Nat
           /\ AccountEquity(p) \in Int
           /\ p.margin + p.fee \in Nat /\ p.loss \in Nat
<1>1. /\ p.mark \in Nat /\ p.quantity \in Nat /\ p.fx \in Nat
      /\ p.margin \in Nat /\ p.notional \in Nat /\ p.accrued \in Int
      /\ p.fee \in Nat /\ p.loss \in Nat
    BY PositionFields
<1>2. CurrentValue(p) \in Nat
    BY <1>1, PolicyNumbers, TimesNat DEF CurrentValue
<1>3. Direction(p.mode) * (CurrentValue(p) - p.notional) \in Int
    BY <1>1, <1>2, Directions
<1>4. AccountEquity(p) \in Int
    BY <1>1, <1>3 DEF AccountEquity
<1>5. QED
    BY <1>1, <1>2, <1>4

LEMMA DomainOfList ==
    ASSUME NEW list \in Seq(Position), NEW S \in SUBSET DOMAIN list
    PROVE  IsFiniteSet(S) /\ \A i \in S : list[i] \in Position /\ i \in 1..Len(list)
<1>1. DOMAIN list = 1..Len(list) /\ Len(list) \in Nat
    OBVIOUS
<1>2. IsFiniteSet(DOMAIN list)
    BY <1>1, FS_Interval
<1>3. QED
    BY <1>1, <1>2, FS_Subset

\* The amounts of some of the positions of a list.
Values(list, S) == [i \in S |-> CurrentValue(list[i])]
Equities(list, S) == [i \in S |-> AccountEquity(list[i])]
DepositsOf(list) == [i \in DOMAIN list |-> list[i].margin + list[i].fee]

LEMMA AmountsTyped ==
    ASSUME NEW list \in Seq(Position), NEW S \in SUBSET DOMAIN list
    PROVE  /\ IsAmounts(Values(list, S)) /\ DOMAIN Values(list, S) = S
           /\ IsAmounts(Equities(list, S)) /\ DOMAIN Equities(list, S) = S
           /\ IsAmounts(DepositsOf(list)) /\ DOMAIN DepositsOf(list) = DOMAIN list
           /\ IsAmounts([i \in DOMAIN list |-> list[i].loss])
<1>1. /\ IsFiniteSet(S) /\ IsFiniteSet(DOMAIN list)
      /\ \A i \in DOMAIN list : list[i] \in Position
    BY DomainOfList
<1>2. \A i \in DOMAIN list : /\ CurrentValue(list[i]) \in Int /\ AccountEquity(list[i]) \in Int
                             /\ list[i].margin + list[i].fee \in Int /\ list[i].loss \in Int
    BY <1>1, PositionAmounts
<1>3. QED
    BY <1>1, <1>2 DEF IsAmounts, Values, Equities, DepositsOf

LEMMA AccountValues ==
    ASSUME NEW acc \in Account
    PROVE  /\ Gross(acc) \in Int /\ Equity(acc) \in Int /\ PlannedRisk(acc) \in Int
           /\ \A field, value : Alike(acc, field, value) \in Int
<1> PICK list \in Seq(Position) : list = acc.positions
    BY DEF Account
<1>1. Sum(Values(list, DOMAIN list)) \in Int /\ Sum(Equities(list, DOMAIN list)) \in Int
    BY AmountsTyped, SumIsInt
<1>2. Sum([i \in DOMAIN list |-> list[i].loss]) \in Int
    BY AmountsTyped, SumIsInt
<1>3. ASSUME NEW field, NEW value PROVE Alike(acc, field, value) \in Int
  <2> PICK S \in SUBSET DOMAIN list : S = {j \in DOMAIN list : list[j][field] = value}
    OBVIOUS
  <2>1. Sum(Values(list, S)) \in Int
    BY AmountsTyped, SumIsInt
  <2>2. QED
    BY <2>1 DEF Alike, Values
<1>4. QED
    BY <1>1, <1>2, <1>3 DEF Gross, Equity, PlannedRisk, Values, Equities, Account

-----------------------------------------------------------------------------
(* Candidates, and what they may buy.                                      *)

LEMMA DateTyped ==
    ASSUME InputsInv, session > 0
    PROVE  Date \in Nat /\ calendar \in Seq(Nat) /\ \A i \in 1..session : calendar[i] \in Nat
<1>1. calendar \in Seq(Nat) /\ session \in 1..Len(calendar) /\ Len(calendar) \in Nat
    BY InputsAssumption DEF InputsInv
<1>2. QED
    BY <1>1 DEF Date

\* The day of a session is one of those the inputs may bring.
LEMMA DayTyped == ASSUME InputsInv, phase # "night" PROVE IsDay(day)
<1>1. calendar \in Calendars /\ calendar \in Seq(Nat) /\ session \in 1..Len(calendar)
      /\ day \in Days[calendar][session]
    BY InputsAssumption DEF InputsInv
<1>2. session \in DOMAIN calendar
    BY <1>1
<1>3. QED
    BY <1>1, <1>2, InputsAssumption

\* A bar of the session.
LEMMA BarTyped ==
    ASSUME InputsInv, phase # "night", NEW s \in Symbols, day.bars[s] # NoBar
    PROVE  /\ day.bars[s].open \in Nat \ {0} /\ day.bars[s].close \in Nat \ {0}
           /\ day.bars[s].low \in Nat \ {0} /\ day.bars[s].high \in Nat \ {0}
           /\ Fx(s) \in Nat \ {0}
<1>1. IsBar(day.bars[s])
  <2>1. IsDay(day)
    BY DayTyped
  <2>2. QED
    BY <2>1 DEF IsDay
<1>2. QED
    BY <1>1 DEF IsBar, Fx

LEMMA CandidateTyped ==
    ASSUME InputsInv, phase # "night", at \in DOMAIN day.entries,
           NEW c, c = day.entries[at]
    PROVE  /\ c.symbol \in Symbols /\ c.sector \in Labels /\ c.group \in Labels
           /\ c.stop \in Nat \ {0} /\ c.take \in Nat \ {0}
           /\ c.volume \in Nat /\ c.requested \in Nat
           /\ c.terms \in Terms /\ c.terms.mode \in Margin \cup {"cash"}
           /\ c.terms.initial \in Nat \ {0} /\ c.terms.minimum \in Nat /\ c.terms.term \in Nat
           /\ day.bars[c.symbol] # NoBar
           /\ day.bars[c.symbol].open \in Nat \ {0} /\ Fx(c.symbol) \in Nat \ {0}
<1>1. /\ day \in Days[calendar][session] /\ calendar \in Calendars
      /\ session \in DOMAIN calendar
  <2>1. calendar \in Seq(Nat)
    BY InputsAssumption DEF InputsInv
  <2>2. QED
    BY <2>1 DEF InputsInv
<1>2. IsCandidate(c, day) /\ IsTerms(c.terms)
  <2>1. IsCandidate(c, day)
    BY <1>1, DayTyped DEF IsDay
  <2>2. QED
    BY <2>1, InputsAssumption DEF IsCandidate
<1>3. c.sector \in Labels /\ c.group \in Labels
  <2>1. day \in UNION {DaysOf(d) : d \in Calendars}
    <3>1. Days[calendar][session] \in {Days[calendar][n] : n \in DOMAIN calendar}
      BY <1>1
    <3>2. day \in DaysOf(calendar)
      BY <1>1, <3>1, Zenon DEF DaysOf
    <3>3. DaysOf(calendar) \in {DaysOf(d) : d \in Calendars}
      BY <1>1
    <3>4. QED
      BY <3>2, <3>3, Zenon
  <2>2. {c.sector, c.group} \in {{day.entries[i].sector, day.entries[i].group} :
                                    i \in DOMAIN day.entries}
    BY Zenon
  <2>3. c.sector \in LabelsOf(day) /\ c.group \in LabelsOf(day)
    BY <2>2, Zenon DEF LabelsOf
  <2>4. \A x \in LabelsOf(day) : x \in Labels
    BY <2>1, Zenon DEF Labels
  <2>5. QED
    BY <2>3, <2>4
<1>4. /\ c.symbol \in Symbols /\ day.bars[c.symbol] # NoBar
      /\ c.terms \in Terms /\ c.terms.mode \in Modes
      /\ c.stop \in Nat \ {0} /\ c.take \in Nat \ {0}
      /\ c.volume \in Nat /\ c.requested \in Nat
    BY <1>2 DEF IsCandidate
<1>5. c.terms.initial \in 1..Base /\ c.terms.minimum \in Nat /\ c.terms.term \in Nat
    BY <1>2 DEF IsTerms
<1>6. day.bars[c.symbol].open \in Nat \ {0} /\ Fx(c.symbol) \in Nat \ {0}
    BY <1>4, BarTyped
<1>7. c.terms.initial \in Nat \ {0} /\ c.terms.mode \in Margin \cup {"cash"}
  <2>1. Base \in Nat
    BY PolicyNumbers
  <2>2. c.terms.initial \in Nat \ {0}
    BY ONLY <1>5, <2>1
  <2>3. Modes \subseteq Margin \cup {"cash"}
    BY InputsAssumption, Zenon
  <2>4. QED
    BY ONLY <1>4, <2>2, <2>3, Zenon
<1>8. QED
    BY <1>3, <1>4, <1>5, <1>6, <1>7, Zenon

LEMMA TimesDiffers == \A a, b \in Nat : \A n \in Nat \ {0} : a # b => a * n # b * n
  OBVIOUS

LEMMA TimesInt == \A a, b \in Int : a * b \in Int
  OBVIOUS

\* Two different prices are apart at any rate.
LEMMA Distances ==
    ASSUME NEW price \in Nat \ {0}, NEW fx \in Nat \ {0}, NEW base \in Nat \ {0},
           NEW stop \in Nat, stop # price
    PROVE  (IF price * fx > stop * fx THEN price * fx - stop * fx
            ELSE stop * fx - price * fx) * base \in Nat \ {0}
<1>1. PICK u \in Nat : u = price * fx
    BY TimesNat
<1>2. PICK r \in Nat : r = stop * fx
    BY TimesNat
<1>3. r # u
    BY <1>1, <1>2, TimesDiffers
<1>4. PICK d \in Nat \ {0} : d = IF u > r THEN u - r ELSE r - u
    BY ONLY <1>3, u \in Nat, r \in Nat
<1>5. d * base \in Nat \ {0}
    BY <1>4, TimesPositive
<1>6. QED
    BY ONLY <1>1, <1>2, <1>4, <1>5, Zenon

\* One share, and what it may lose, when the levels are in order.
LEMMA UnitTyped ==
    ASSUME InputsInv, phase # "night", at \in DOMAIN day.entries,
           NEW c, c = day.entries[at], LevelsInOrder(c)
    PROVE  /\ EntryPrice(c.terms.mode, day.bars[c.symbol].open) \in Nat \ {0}
           /\ Unit(c) \in Nat \ {0} /\ UnitRisk(c) \in Nat \ {0}
<1>1. PICK price \in Nat \ {0} : price = EntryPrice(c.terms.mode, day.bars[c.symbol].open)
  <2>1. PICK open \in Nat \ {0} : open = day.bars[c.symbol].open
    BY CandidateTyped
  <2>2. EntryPrice(c.terms.mode, open) \in Nat \ {0}
    BY <2>1, Directions, TimesPositive DEF EntryPrice
  <2>3. QED
    BY <2>1, <2>2, Zenon
<1>2. PICK fx \in Nat \ {0} : fx = Fx(c.symbol)
    BY CandidateTyped
<1>3. PICK stop \in Nat : stop = Scaled(c.stop)
    BY CandidateTyped, PolicyNumbers, TimesNat DEF Scaled
<1>4. Unit(c) = price * fx
    BY <1>1, <1>2, Zenon DEF Unit
<1>5. stop # price
  <2>1. stop < price \/ price < stop
    BY <1>1, <1>3, Zenon DEF LevelsInOrder
  <2>2. QED
    BY ONLY <2>1, stop \in Nat, price \in Nat \ {0}
<1>6. PICK costs \in Nat : costs = (price * fx) * (Fee + Spread + Slip)
  <2>1. price * fx \in Nat /\ Fee + Spread + Slip \in Nat
    <3>1. price * fx \in Nat \ {0}
      BY <1>1, <1>2, TimesPositive, Zenon
    <3>2. Fee \in Nat /\ Spread \in Nat /\ Slip \in Nat
      BY PolicyNumbers, Zenon
    <3>3. Fee + Spread + Slip \in Nat
      BY ONLY <3>2
    <3>4. QED
      BY <3>1, <3>3, Zenon
  <2>2. QED
    BY <2>1, TimesNat
<1>7. PICK far \in Nat \ {0} :
         far = (IF price * fx > stop * fx THEN price * fx - stop * fx
                ELSE stop * fx - price * fx) * Base
  <2>1. Base \in Nat \ {0}
    BY PolicyNumbers
  <2>2. QED
    BY ONLY <1>1, <1>2, <1>3, <1>5, <2>1, Distances
<1>8. UnitRisk(c) = far + costs
    BY <1>3, <1>2, <1>4, <1>6, <1>7, Zenon DEF UnitRisk
<1>9. far + costs \in Nat \ {0} /\ price * fx \in Nat \ {0}
  <2>1. far + costs \in Nat \ {0}
    BY ONLY far \in Nat \ {0}, costs \in Nat
  <2>2. price * fx \in Nat \ {0}
    BY <1>1, <1>2, TimesPositive, Zenon
  <2>3. QED
    BY <2>1, <2>2, Zenon
<1>10. QED
    BY <1>1, <1>4, <1>8, <1>9, Zenon

\* The quantity does not exceed any of its limits.
LEMMA QuantityFits ==
    ASSUME InputsInv, phase # "night", at \in DOMAIN day.entries,
           NEW c, c = day.entries[at], LevelsInOrder(c),
           NEW acc \in Account, Quantity(acc, c) > 0
    PROVE  /\ Quantity(acc, c) \in Nat \ {0} /\ Equity(acc) > 0
           /\ \A r \in Capacities(acc, c) : r \in Nat /\ Quantity(acc, c) <= r
<1>1. /\ Equity(acc) \in Int /\ Gross(acc) \in Int /\ PlannedRisk(acc) \in Int
      /\ \A field, value : Alike(acc, field, value) \in Int
    BY AccountValues
<1> PICK unit \in Nat \ {0} : unit = Unit(c)
    BY UnitTyped
<1> PICK risk \in Nat \ {0} : risk = UnitRisk(c)
    BY UnitTyped
<1> PICK T : T = Capacities(acc, c)
    OBVIOUS
<1>2. T \subseteq Nat /\ T # {}
  <2>1. /\ risk * Base * Base \in Nat \ {0}
        /\ unit * (c.terms.initial + Fee) * Base \in Nat \ {0}
        /\ unit * Base * Base * Base \in Nat \ {0}
        /\ unit * Base * Base \in Nat \ {0}
        /\ 1 \in Nat \ {0}
    <3>1. c.terms.initial + Fee \in Nat \ {0}
      BY CandidateTyped, PolicyNumbers
    <3> PICK rate \in Nat \ {0} : rate = c.terms.initial + Fee
      BY <3>1
    <3> PICK base \in Nat \ {0} : base = Base
      BY PolicyNumbers
    <3>2. risk * base \in Nat \ {0}
      BY TimesPositive
    <3>3. risk * base * base \in Nat \ {0}
      BY <3>2, TimesPositive
    <3>4. unit * rate \in Nat \ {0} /\ unit * base \in Nat \ {0}
      BY TimesPositive
    <3>5. unit * rate * base \in Nat \ {0} /\ unit * base * base \in Nat \ {0}
      BY <3>4, TimesPositive
    <3>6. unit * base * base * base \in Nat \ {0}
      BY <3>5, TimesPositive
    <3>7. 1 \in Nat \ {0}
      OBVIOUS
    <3>8. QED
      BY ONLY <3>3, <3>5, <3>6, <3>7, rate = c.terms.initial + Fee, base = Base, Zenon
  <2> PICK equity \in Int : equity = Equity(acc)
    BY <1>1
  <2>2. acc.cash \in Int /\ c.volume \in Int /\ c.requested \in Int
    <3>1. acc.cash \in Int
      BY DEF Account
    <3>2. QED
      BY <3>1, CandidateTyped
  <2>3. /\ equity * RiskRate \in Int /\ equity * OpenRiskRate \in Int
        /\ PlannedRisk(acc) * Base \in Int
        /\ equity * NotionalRate \in Int /\ equity * SectorRate \in Int
        /\ equity * GroupRate \in Int /\ equity * Leverage \in Int
        /\ Alike(acc, "sector", c.sector) * Base \in Int
        /\ Alike(acc, "group", c.group) * Base \in Int
    BY <1>1, PolicyNumbers, TimesInt
  <2>4. Smaller(equity * RiskRate, equity * OpenRiskRate - PlannedRisk(acc) * Base) \in Int
    BY <2>3 DEF Smaller
  <2>5. \A amount \in Int : \A u \in Nat \ {0} : Lots(amount, u) \in Nat
    BY LotsFit
  <2>6. /\ equity * SectorRate - Alike(acc, "sector", c.sector) * Base \in Int
        /\ equity * GroupRate - Alike(acc, "group", c.group) * Base \in Int
        /\ equity * Leverage - Gross(acc) \in Int
    BY <1>1, <2>3
  <2>7. /\ Lots(Smaller(equity * RiskRate, equity * OpenRiskRate - PlannedRisk(acc) * Base),
                risk * Base * Base) \in Nat
        /\ Lots(acc.cash, unit * (c.terms.initial + Fee) * Base) \in Nat
        /\ Lots(c.volume, 1) \in Nat /\ Lots(c.requested, 1) \in Nat
    BY <2>1, <2>2, <2>4, <2>5
  <2>8. /\ Lots(equity * NotionalRate, unit * Base * Base * Base) \in Nat
        /\ Lots(equity * SectorRate - Alike(acc, "sector", c.sector) * Base,
                unit * Base * Base * Base) \in Nat
        /\ Lots(equity * GroupRate - Alike(acc, "group", c.group) * Base,
                unit * Base * Base * Base) \in Nat
        /\ Lots(equity * Leverage - Gross(acc), unit * Base * Base) \in Nat
    BY <2>1, <2>3, <2>5, <2>6
  <2>9. PICK some : some = {Lots(Smaller(equity * RiskRate,
                                       equity * OpenRiskRate - PlannedRisk(acc) * Base),
                               risk * Base * Base),
                          Lots(acc.cash, unit * (c.terms.initial + Fee) * Base),
                          Lots(c.volume, 1),
                          Lots(equity * NotionalRate, unit * Base * Base * Base),
                          Lots(equity * SectorRate - Alike(acc, "sector", c.sector) * Base,
                               unit * Base * Base * Base),
                          Lots(equity * GroupRate - Alike(acc, "group", c.group) * Base,
                               unit * Base * Base * Base),
                          Lots(equity * Leverage - Gross(acc), unit * Base * Base)}
    OBVIOUS
  <2>10. T = some \cup IF c.requested = 0 THEN {} ELSE {Lots(c.requested, 1)}
    BY <2>9, Zenon DEF Capacities
  <2>11. some \subseteq Nat /\ some # {}
    BY <2>7, <2>8, <2>9
  <2>12. QED
    BY ONLY <2>7, <2>10, <2>11
<1>3. ~(Equity(acc) <= 0)
    BY DEF Quantity
<1>4. Quantity(acc, c) = CHOOSE q \in T : \A r \in T : q <= r
    BY <1>3 DEF Quantity
<1>5. \E q \in T : \A r \in T : q <= r
    BY <1>2, LeastOfSet
<1>6. Quantity(acc, c) \in T /\ \A r \in T : Quantity(acc, c) <= r
    BY <1>4, <1>5
<1>7. QED
    BY <1>1, <1>2, <1>3, <1>6

LEMMA TimesThree ==
    \A u, q, b, x \in Nat : /\ u * q * b * b \in Nat
                            /\ q * (u * b * b) = u * q * b * b
                            /\ q * (u * b * b * b) = (u * q * b * b) * b
  OBVIOUS

\* What is bought stays within the leverage and the limits of the sector and of
\* the group.
LEMMA BoughtFits ==
    ASSUME InputsInv, phase # "night", at \in DOMAIN day.entries,
           NEW c, c = day.entries[at], LevelsInOrder(c),
           NEW acc \in Account, NEW q, q = Quantity(acc, c), q > 0
    PROVE  /\ q \in Nat \ {0} /\ Notional(c, q) \in Nat
           /\ Gross(acc) + Notional(c, q) <= Equity(acc) * Leverage
           /\ Alike(acc, "sector", c.sector) * Base + Notional(c, q) * Base
                <= Equity(acc) * SectorRate
           /\ Alike(acc, "group", c.group) * Base + Notional(c, q) * Base
                <= Equity(acc) * GroupRate
<1> PICK u \in Nat \ {0} : u = Unit(c)
    BY UnitTyped
<1> PICK b \in Nat \ {0} : b = Base
    BY PolicyNumbers
<1>1. q \in Nat \ {0} /\ \A r \in Capacities(acc, c) : r \in Nat /\ q <= r
    BY QuantityFits
<1> PICK m \in Nat : m = u * q * b * b /\ q * (u * b * b) = m /\ q * (u * b * b * b) = m * b
    BY <1>1, TimesThree
<1>2. Notional(c, q) = m
    BY DEF Notional
<1>3. /\ Equity(acc) \in Int /\ Gross(acc) \in Int
      /\ \A field, value : Alike(acc, field, value) \in Int
      /\ Leverage \in Nat /\ SectorRate \in Nat /\ GroupRate \in Nat
    BY AccountValues, PolicyNumbers
<1>4. ASSUME NEW amount \in Int, NEW unit \in Nat \ {0}, q <= Lots(amount, unit)
      PROVE  q * unit <= amount
  <2> PICK l \in Nat : l = Lots(amount, unit) /\ (l > 0 => l * unit <= amount)
    BY LotsFit
  <2>1. q <= l /\ l > 0
    BY <1>1, <1>4
  <2>2. q * unit <= l * unit
    BY <1>1, <2>1, TimesMonotone
  <2>3. q * unit \in Nat /\ l * unit \in Nat
    BY <1>1, TimesNat
  <2>4. QED
    BY <2>1, <2>2, <2>3
<1>5. u * b * b \in Nat \ {0} /\ u * b * b * b \in Nat \ {0}
    BY TimesPositive
<1>6. Gross(acc) + m <= Equity(acc) * Leverage
  <2> PICK amount \in Int : amount = Equity(acc) * Leverage
    BY <1>3, TimesInt
  <2>1. q <= Lots(amount - Gross(acc), u * b * b)
    BY <1>1, Zenon DEF Capacities
  <2>2. amount - Gross(acc) \in Int
    BY <1>3
  <2>3. q * (u * b * b) <= amount - Gross(acc)
    BY <1>4, <1>5, <2>1, <2>2
  <2>4. m <= amount - Gross(acc)
    BY <2>3
  <2>5. QED
    BY <1>3, <2>4
<1>7. Alike(acc, "sector", c.sector) * b + m * b <= Equity(acc) * SectorRate
  <2> PICK amount \in Int : amount = Equity(acc) * SectorRate
    BY <1>3, TimesInt
  <2> PICK held \in Int : held = Alike(acc, "sector", c.sector) * b
    BY <1>3, TimesInt
  <2>1. q <= Lots(amount - held, u * b * b * b)
    BY <1>1, Zenon DEF Capacities
  <2>2. amount - held \in Int
    OBVIOUS
  <2>3. q * (u * b * b * b) <= amount - held
    BY <1>4, <1>5, <2>1, <2>2
  <2> PICK more \in Nat : more = m * b
    BY TimesNat
  <2>4. more <= amount - held
    BY <2>3
  <2>5. held + more <= amount
    BY <2>4
  <2>6. QED
    BY <2>5
<1>8. Alike(acc, "group", c.group) * b + m * b <= Equity(acc) * GroupRate
  <2> PICK amount \in Int : amount = Equity(acc) * GroupRate
    BY <1>3, TimesInt
  <2> PICK held \in Int : held = Alike(acc, "group", c.group) * b
    BY <1>3, TimesInt
  <2>1. q <= Lots(amount - held, u * b * b * b)
    BY <1>1, Zenon DEF Capacities
  <2>2. amount - held \in Int
    OBVIOUS
  <2>3. q * (u * b * b * b) <= amount - held
    BY <1>4, <1>5, <2>1, <2>2
  <2> PICK more \in Nat : more = m * b
    BY TimesNat
  <2>4. more <= amount - held
    BY <2>3
  <2>5. held + more <= amount
    BY <2>4
  <2>6. QED
    BY <2>5
<1>9. QED
    BY <1>1, <1>2, <1>6, <1>7, <1>8

LEMMA TimesRest ==
    ASSUME NEW a \in Nat, NEW q \in Nat, NEW x \in Nat, NEW b \in Nat
    PROVE  a * q * x * b * b = a * x * q * b * b
  OBVIOUS

\* The position an entry opens.
LEMMA OpenedTyped ==
    ASSUME InputsInv, phase # "night", at \in DOMAIN day.entries,
           NEW c, c = day.entries[at], LevelsInOrder(c), NEW q \in Nat \ {0},
           NEW p, p = NewPosition(c, q)
    PROVE  /\ p \in Position
           /\ p.symbol = c.symbol /\ p.sector = c.sector /\ p.group = c.group
           /\ p.opened = session /\ p.accruedTo = Date /\ p.terms = c.terms
           /\ p.mode = c.terms.mode
           /\ CurrentValue(p) = Notional(c, q) /\ AccountEquity(p) = p.margin
           /\ p.margin + p.fee = CashRequired(c, q)
           /\ CashRequired(c, q) \in Nat
<1>1. /\ c.symbol \in Symbols /\ c.sector \in Labels /\ c.group \in Labels
      /\ c.stop \in Nat /\ c.take \in Nat /\ c.terms \in Terms /\ c.terms.term \in Nat
      /\ c.terms.initial \in Nat /\ c.terms.minimum \in Nat
      /\ c.terms.mode \in Margin \cup {"cash"} /\ Fx(c.symbol) \in Nat
    BY CandidateTyped
<1>2. /\ session \in Nat /\ Date \in Nat
    BY InputsAssumption, DateTyped DEF InputsInv
<1>3. PICK price \in Nat : price = EntryPrice(c.terms.mode, day.bars[c.symbol].open)
    BY UnitTyped
<1>4. PICK fx \in Nat : fx = Fx(c.symbol)
    BY <1>1
<1>5. Unit(c) = price * fx /\ Unit(c) \in Nat /\ UnitRisk(c) \in Nat
    BY <1>3, <1>4, UnitTyped DEF Unit
<1>6. PICK notional \in Nat : notional = Notional(c, q)
    BY <1>5, PolicyNumbers, TimesNat DEF Notional
<1>7. PICK fee \in Nat : fee = EntryFee(c, q)
    BY <1>6, PolicyNumbers, TimesNat, DivNat DEF EntryFee
<1>8. PICK margin \in Nat : margin = MarginReserved(c, q)
  <2>1. (notional * c.terms.initial) \div Base \in Nat
    BY <1>1, <1>6, PolicyNumbers, TimesNat, DivNat
  <2>2. Money(c.terms.minimum) * Fx(c.symbol) \in Nat
    BY <1>1, MoneyTyped, TimesNat
  <2>3. QED
    BY <1>6, <2>1, <2>2 DEF MarginReserved, Larger
<1>9. PICK loss \in Nat : loss = UnitRisk(c) * q * Base
    BY <1>5, PolicyNumbers, TimesNat
<1>10. PICK deadline \in Nat : deadline = IF c.terms.term = 0 THEN 0 ELSE Date + c.terms.term
    BY <1>1, <1>2
<1>11. p = [symbol |-> c.symbol, mode |-> c.terms.mode, sector |-> c.sector,
            group |-> c.group, quantity |-> q, notional |-> notional, margin |-> margin,
            fee |-> fee, loss |-> loss, accrued |-> 0, accruedTo |-> Date,
            opened |-> session, deadline |-> deadline, stop |-> c.stop, take |-> c.take,
            mark |-> price, fx |-> fx, forced |-> "none", exit |-> "none",
            terms |-> c.terms]
    BY <1>3, <1>4, <1>6, <1>7, <1>8, <1>9, <1>10, Zenon DEF NewPosition
<1>12. /\ p.symbol = c.symbol /\ p.mode = c.terms.mode /\ p.sector = c.sector
       /\ p.group = c.group /\ p.quantity = q /\ p.notional = notional /\ p.margin = margin
       /\ p.fee = fee /\ p.accrued = 0 /\ p.accruedTo = Date /\ p.opened = session
       /\ p.mark = price /\ p.fx = fx /\ p.terms = c.terms
    BY <1>11
<1>13. p \in Position
  BY ONLY <1>1, <1>2, <1>3, <1>4, <1>6, <1>7, <1>8, <1>9, <1>10, <1>11 DEF Position
<1>14. CurrentValue(p) = notional
  <2>1. CurrentValue(p) = price * q * fx * Base * Base
    BY <1>12, Zenon DEF CurrentValue
  <2>2. notional = price * fx * q * Base * Base
    BY <1>5, <1>6, Zenon DEF Notional
  <2>3. price \in Nat /\ q \in Nat /\ fx \in Nat /\ Base \in Nat
    BY <1>3, <1>4, PolicyNumbers
  <2>4. price * q * fx * Base * Base = price * fx * q * Base * Base
    BY <2>3, TimesRest
  <2>5. QED
    BY <2>1, <2>2, <2>4, Zenon
<1>15. AccountEquity(p) = margin
  <2>1. notional - notional = 0 /\ margin + 0 - 0 = margin
    BY <1>6, <1>8
  <2>2. Direction(p.mode) * 0 = 0
    BY Directions
  <2>3. AccountEquity(p) = margin + Direction(p.mode) * (notional - notional) - 0
    BY <1>12, <1>14, Zenon DEF AccountEquity
  <2>4. QED
    BY <2>1, <2>2, <2>3, Zenon
<1>16. CashRequired(c, q) = margin + fee /\ margin + fee \in Nat
    BY <1>7, <1>8 DEF CashRequired
<1>17. QED
    BY <1>6, <1>12, <1>13, <1>14, <1>15, <1>16, Zenon

-----------------------------------------------------------------------------
(* Advancing a position.                                                   *)

LEMMA TermsTyped ==
    ASSUME NEW t \in Terms
    PROVE  /\ t.rate \in Nat /\ t.reverse \in Nat /\ t.term \in Nat
           /\ t.from \in Nat /\ t.until \in Nat /\ t.maintenance \in Nat
<1>1. IsTerms(t)
    BY InputsAssumption
<1>2. t.initial \in Nat
    BY <1>1, PolicyNumbers DEF IsTerms
<1>3. QED
    BY <1>1, <1>2 DEF IsTerms

LEMMA UpdateTyped ==
    ASSUME InputsInv, phase # "night", NEW p \in Position
    PROVE  Update(p) \in Terms
<1>1. IsDay(day) /\ p.symbol \in Symbols /\ p.terms \in Terms
    BY DayTyped, PositionFields
<1>2. QED
    BY <1>1 DEF Update, IsDay

LEMMA DailyTyped ==
    ASSUME NEW p \in Position, NEW t \in Terms, NEW fx \in Nat
    PROVE  Daily(p, t, fx) \in Nat
<1>1. p.notional \in Nat /\ p.quantity \in Nat /\ t.rate \in Nat /\ t.reverse \in Nat
    BY PositionFields, TermsTyped
<1>2. (p.notional * t.rate) \div (Base * Base) \in Nat
    BY <1>1, PolicyNumbers, TimesNat, DivNat
<1>3. t.reverse * p.quantity * fx \in Nat
    BY <1>1, TimesNat
<1>4. QED
    BY <1>2, <1>3 DEF Daily

LEMMA FinancingTyped ==
    ASSUME InputsInv, phase # "night", NEW p \in Position, day.bars[p.symbol] # NoBar
    PROVE  /\ Daily(p, p.terms, Fx(p.symbol)) \in Nat
           /\ Daily(p, Update(p), Fx(p.symbol)) \in Nat
           /\ Transition(p) \in Nat /\ Date \in Nat
           /\ Financing(p) \in Int
<1>1. /\ p.symbol \in Symbols /\ p.terms \in Terms /\ p.accruedTo \in Nat
      /\ Update(p) \in Terms /\ Fx(p.symbol) \in Nat /\ session > 0
    BY PositionFields, UpdateTyped, BarTyped DEF InputsInv
<1>2. /\ Daily(p, p.terms, Fx(p.symbol)) \in Nat
      /\ Daily(p, Update(p), Fx(p.symbol)) \in Nat
    BY <1>1, DailyTyped
<1>3. Date \in Nat
    BY <1>1, DateTyped
<1>4. Transition(p) \in Nat
    BY <1>1, TermsTyped DEF Transition, Larger
<1>5. /\ Daily(p, p.terms, Fx(p.symbol)) * (Transition(p) - p.accruedTo) \in Int
      /\ Daily(p, Update(p), Fx(p.symbol)) * (Date - Transition(p)) \in Int
    BY <1>1, <1>2, <1>3, <1>4, TimesInt
<1>6. QED
    BY <1>2, <1>3, <1>4, <1>5 DEF Financing

\* What neither the maintenance check nor the valuation at the close changes.
Kept(p, q) ==
    /\ q.symbol = p.symbol /\ q.mode = p.mode /\ q.opened = p.opened
    /\ q.margin = p.margin /\ q.fee = p.fee /\ q.accrued = p.accrued
    /\ q.accruedTo = p.accruedTo /\ q.terms = p.terms

\* A new mark and a new rate leave the other fields of a position.
LEMMA MarkIsNew ==
    \A p \in Position : \A mark \in Nat :
        [p EXCEPT !.mark = mark] \in Position /\ Kept(p, [p EXCEPT !.mark = mark])
  BY DEF Position, Kept

LEMMA RateIsNew ==
    \A p \in Position : \A fx \in Nat :
        [p EXCEPT !.fx = fx] \in Position /\ Kept(p, [p EXCEPT !.fx = fx])
  BY DEF Position, Kept

\* A new term or deadline leaves them too.
SameHolding(p, q) ==
    /\ q.symbol = p.symbol /\ q.mode = p.mode /\ q.opened = p.opened
    /\ q.margin = p.margin /\ q.fee = p.fee /\ q.accrued = p.accrued
    /\ q.forced = p.forced

LEMMA TermsAreNew ==
    \A p \in Position : \A t \in Terms :
        /\ [p EXCEPT !.terms = t] \in Position /\ SameHolding(p, [p EXCEPT !.terms = t])
        /\ [p EXCEPT !.terms = t].terms = t
  BY DEF Position, SameHolding

LEMMA DeadlineIsNew ==
    \A p \in Position : \A n \in Nat :
        /\ [p EXCEPT !.deadline = n] \in Position /\ SameHolding(p, [p EXCEPT !.deadline = n])
        /\ [p EXCEPT !.deadline = n].terms = p.terms
  BY DEF Position, SameHolding

OnlyAccrual(p, q) ==
    /\ q.symbol = p.symbol /\ q.mode = p.mode /\ q.opened = p.opened
    /\ q.margin = p.margin /\ q.fee = p.fee /\ q.terms = p.terms

LEMMA AccrualIsNew ==
    \A p \in Position : \A n \in Int :
        /\ [p EXCEPT !.accrued = n] \in Position /\ OnlyAccrual(p, [p EXCEPT !.accrued = n])
        /\ [p EXCEPT !.accrued = n].accrued = n
  BY DEF Position, OnlyAccrual

LEMMA AccrualTimeIsNew ==
    \A p \in Position : \A n \in Nat :
        /\ [p EXCEPT !.accruedTo = n] \in Position /\ OnlyAccrual(p, [p EXCEPT !.accruedTo = n])
        /\ [p EXCEPT !.accruedTo = n].accrued = p.accrued
        /\ [p EXCEPT !.accruedTo = n].accruedTo = n
  BY DEF Position, OnlyAccrual

LEMMA ForcedIsNew ==
    \A p \in Position : \A v \in {"none", "deadline", "maintenance"} :
        /\ [p EXCEPT !.forced = v] \in Position /\ Kept(p, [p EXCEPT !.forced = v])
        /\ [p EXCEPT !.forced = v].fx = p.fx /\ [p EXCEPT !.forced = v].mark = p.mark
        /\ [p EXCEPT !.forced = v].quantity = p.quantity
        /\ [p EXCEPT !.forced = v].notional = p.notional
        /\ [p EXCEPT !.forced = v].forced = v
  BY DEF Position, Kept

LEMMA ExitIsNew ==
    \A p \in Position : \A v \in {"none", "rule"} :
        /\ [p EXCEPT !.exit = v] \in Position /\ Kept(p, [p EXCEPT !.exit = v])
        /\ [p EXCEPT !.exit = v].fx = p.fx
  BY DEF Position, Kept

LEMMA RenewedTyped ==
    ASSUME InputsInv, phase # "night", NEW p \in Position, p.opened \in 1..session,
           NEW r, r = Renewed(p)
    PROVE  /\ r \in Position /\ r.symbol = p.symbol /\ r.opened = p.opened /\ r.mode = p.mode
           /\ r.margin = p.margin /\ r.fee = p.fee /\ r.accrued = p.accrued
           /\ r.terms = Update(p) /\ r.forced = p.forced
<1>1. PICK t \in Terms : t = Update(p)
    BY UpdateTyped
<1>2. calendar[p.opened] \in Nat /\ t.term \in Nat /\ p.deadline \in Nat
    BY <1>1, DateTyped, TermsTyped, PositionFields DEF InputsInv
<1>3. PICK deadline \in Nat :
         deadline = IF p.deadline = 0 \/ t.term = 0 THEN 0
                    ELSE Smaller(p.deadline, calendar[p.opened] + t.term)
    BY <1>2 DEF Smaller
<1>4. r = [p EXCEPT !.terms = t, !.deadline = deadline]
    BY <1>1, <1>3 DEF Renewed, Position
<1> DEFINE s == [p EXCEPT !.terms = t]
<1>5. s \in Position /\ SameHolding(p, s) /\ s.terms = t
    BY <1>1, TermsAreNew
<1>6. r = [s EXCEPT !.deadline = deadline]
    BY <1>4
<1> HIDE DEF s
<1>7. r \in Position /\ SameHolding(s, r) /\ r.terms = s.terms
  <2>1. /\ [s EXCEPT !.deadline = deadline] \in Position
        /\ SameHolding(s, [s EXCEPT !.deadline = deadline])
        /\ [s EXCEPT !.deadline = deadline].terms = s.terms
    BY ONLY <1>3, <1>5, DeadlineIsNew
  <2>2. QED
    BY ONLY <1>6, <2>1, Zenon
<1>8. QED
    BY ONLY <1>1, <1>5, <1>7, Zenon DEF SameHolding

LEMMA CarriedTyped ==
    ASSUME InputsInv, phase # "night", NEW p \in Position, p.opened \in 1..session,
           day.bars[p.symbol] # NoBar,
           NEW forced \in {"none", "deadline", "maintenance"}, NEW exit \in {"none", "rule"},
           NEW q, q = Carried(p, forced, exit)
    PROVE  /\ q \in Position /\ q.symbol = p.symbol /\ q.opened = p.opened /\ q.mode = p.mode
           /\ q.margin = p.margin /\ q.fee = p.fee
           /\ q.accrued = p.accrued + Financing(p) /\ q.accruedTo = Date
           /\ q.terms = Update(p) /\ q.fx = Fx(p.symbol)
<1>1. PICK r \in Position :
         /\ r = Renewed(p)
         /\ r.symbol = p.symbol /\ r.opened = p.opened /\ r.mode = p.mode
         /\ r.margin = p.margin /\ r.fee = p.fee /\ r.accrued = p.accrued
         /\ r.terms = Update(p)
    BY RenewedTyped
<1>2. PICK accrued \in Int : accrued = p.accrued + Financing(p)
    BY FinancingTyped, PositionFields
<1>3. Date \in Nat
    BY FinancingTyped
<1>4. PICK mark \in Nat : mark = Scaled(day.bars[p.symbol].close)
    BY BarTyped, PositionFields, PolicyNumbers, TimesNat DEF Scaled
<1>5. PICK fx \in Nat : fx = Fx(p.symbol)
    BY BarTyped, PositionFields
<1>6. q = [r EXCEPT !.accrued = accrued, !.accruedTo = Date, !.mark = mark,
                    !.fx = fx, !.forced = forced, !.exit = exit]
    BY <1>1, <1>2, <1>4, <1>5 DEF Carried, Position
<1>7. PICK a \in Position :
         /\ a = [r EXCEPT !.accrued = accrued, !.accruedTo = Date, !.mark = mark]
         /\ a.symbol = r.symbol /\ a.opened = r.opened /\ a.mode = r.mode
         /\ a.margin = r.margin /\ a.fee = r.fee /\ a.terms = r.terms
         /\ a.accrued = accrued /\ a.accruedTo = Date
  <2> PICK b : b = [r EXCEPT !.accrued = accrued, !.accruedTo = Date]
    OBVIOUS
  <2>1. /\ b \in Position
        /\ b.symbol = r.symbol /\ b.opened = r.opened /\ b.mode = r.mode
        /\ b.margin = r.margin /\ b.fee = r.fee /\ b.terms = r.terms
        /\ b.accrued = accrued /\ b.accruedTo = Date
    <3>1. b = [[r EXCEPT !.accrued = accrued] EXCEPT !.accruedTo = Date]
      OBVIOUS
    <3>2. [r EXCEPT !.accrued = accrued] \in Position
          /\ OnlyAccrual(r, [r EXCEPT !.accrued = accrued])
          /\ [r EXCEPT !.accrued = accrued].accrued = accrued
      BY ONLY r \in Position, accrued \in Int, AccrualIsNew
    <3> DEFINE a == [r EXCEPT !.accrued = accrued]
    <3> HIDE DEF a
    <3>3. a \in Position
      BY <3>2 DEF a
    <3>4. /\ [a EXCEPT !.accruedTo = Date] \in Position
          /\ OnlyAccrual(a, [a EXCEPT !.accruedTo = Date])
          /\ [a EXCEPT !.accruedTo = Date].accrued = a.accrued
          /\ [a EXCEPT !.accruedTo = Date].accruedTo = Date
      BY ONLY <3>3, Date \in Nat, <1>3, AccrualTimeIsNew
    <3>5. QED
      BY ONLY <3>1, <3>2, <3>4, Zenon DEF OnlyAccrual, a
  <2>2. [r EXCEPT !.accrued = accrued, !.accruedTo = Date, !.mark = mark]
          = [b EXCEPT !.mark = mark]
    OBVIOUS
  <2>3. [b EXCEPT !.mark = mark] \in Position /\ Kept(b, [b EXCEPT !.mark = mark])
    BY <1>4, <2>1, MarkIsNew
  <2>4. QED
    BY ONLY <2>1, <2>2, <2>3, Zenon DEF Kept
<1>8. PICK e \in Position : e = [a EXCEPT !.fx = fx] /\ Kept(a, e) /\ e.fx = fx
  <2>1. [a EXCEPT !.fx = fx] \in Position /\ Kept(a, [a EXCEPT !.fx = fx])
    BY <1>5, <1>7, RateIsNew
  <2>2. [a EXCEPT !.fx = fx].fx = fx
    BY ONLY <1>7 DEF Position
  <2>3. QED
    BY <2>1, <2>2, Zenon
<1>9. q = [[e EXCEPT !.forced = forced] EXCEPT !.exit = exit]
    BY ONLY <1>6, <1>7, <1>8
<1>10. /\ q \in Position /\ Kept(e, q) /\ q.fx = e.fx
  <2> DEFINE f == [e EXCEPT !.forced = forced]
  <2>1. f \in Position /\ Kept(e, f) /\ f.fx = e.fx
    BY <1>8, ForcedIsNew
  <2> HIDE DEF f
  <2>2. /\ [f EXCEPT !.exit = exit] \in Position /\ Kept(f, [f EXCEPT !.exit = exit])
        /\ [f EXCEPT !.exit = exit].fx = f.fx
    BY <2>1, ExitIsNew
  <2>3. QED
    BY ONLY <1>9, <2>1, <2>2, Zenon DEF Kept, f
<1>11. /\ q.symbol = r.symbol /\ q.opened = r.opened /\ q.mode = r.mode
       /\ q.margin = r.margin /\ q.fee = r.fee /\ q.terms = r.terms
       /\ q.accrued = accrued /\ q.accruedTo = Date /\ q.fx = fx
    BY ONLY <1>7, <1>8, <1>10, Zenon DEF Kept
<1>12. QED
    BY <1>1, <1>2, <1>5, <1>10, <1>11

-----------------------------------------------------------------------------
(* Lists of positions.                                                     *)

Deposits(list) == Sum(DepositsOf(list))

LEMMA DepositsTyped == ASSUME NEW list \in Seq(Position) PROVE Deposits(list) \in Int
  BY AmountsTyped, SumIsInt DEF Deposits

LEMMA SameDeposits ==
    ASSUME NEW list \in Seq(Position), NEW new \in Seq(Position),
           DOMAIN new = DOMAIN list,
           \A i \in DOMAIN list : new[i].margin = list[i].margin /\ new[i].fee = list[i].fee
    PROVE  Deposits(new) = Deposits(list)
<1>1. DepositsOf(new) = DepositsOf(list)
    BY DEF DepositsOf
<1>2. QED
    BY <1>1 DEF Deposits

LEMMA WithoutTyped ==
    ASSUME NEW list \in Seq(Position), NEW i \in DOMAIN list, NEW new, new = Without(list, i)
    PROVE  /\ new \in Seq(Position) /\ Len(new) = Len(list) - 1 /\ DOMAIN new = 1..Len(new)
           /\ \A j \in DOMAIN new : new[j] = list[IF j < i THEN j ELSE j + 1]
                                    /\ (IF j < i THEN j ELSE j + 1) \in DOMAIN list \ {i}
           /\ Deposits(list) = list[i].margin + list[i].fee + Deposits(new)
<1>1. Len(list) \in Nat \ {0} /\ DOMAIN list = 1..Len(list)
      /\ \A j \in 1..Len(list) : list[j] \in Position
    OBVIOUS
<1>2. new = [j \in 1..(Len(list) - 1) |-> IF j < i THEN list[j] ELSE list[j + 1]]
    BY DEF Without
<1>3. \A j \in 1..(Len(list) - 1) : j \in DOMAIN list /\ j + 1 \in DOMAIN list
    BY <1>1
<1>4. \A j \in 1..(Len(list) - 1) : (IF j < i THEN list[j] ELSE list[j + 1]) \in Position
    BY <1>1, <1>3
<1>5. /\ new \in Seq(Position) /\ Len(new) = Len(list) - 1 /\ DOMAIN new = 1..(Len(list) - 1)
    BY <1>1, <1>2, <1>4
<1>6. \A j \in DOMAIN new : new[j] = list[IF j < i THEN j ELSE j + 1]
                            /\ (IF j < i THEN j ELSE j + 1) \in DOMAIN list \ {i}
    BY <1>1, <1>2, <1>3, <1>5
<1>7. PICK h : h = [j \in DOMAIN new |-> IF j < i THEN j ELSE j + 1]
    OBVIOUS
<1>8. PICK f : f = DepositsOf(new)
    OBVIOUS
<1>9. PICK g : g = DepositsOf(list)
    OBVIOUS
<1>10. /\ IsAmounts(f) /\ DOMAIN f = DOMAIN new /\ IsAmounts(g) /\ DOMAIN g = DOMAIN list
    BY <1>5, <1>8, <1>9, AmountsTyped
<1>11. \A j \in DOMAIN f : h[j] \in DOMAIN g \ {i} /\ g[h[j]] = f[j]
    BY <1>6, <1>7, <1>8, <1>9, <1>10 DEF DepositsOf
<1>12. \A j, k \in DOMAIN f : h[j] = h[k] => j = k
    BY <1>1, <1>5, <1>7, <1>10
<1>13. \A k \in DOMAIN g \ {i} : \E j \in DOMAIN f : k = h[j]
  <2> SUFFICES ASSUME NEW k \in DOMAIN g \ {i} PROVE \E j \in DOMAIN f : k = h[j]
    OBVIOUS
  <2>1. CASE k < i
    <3>1. k \in DOMAIN f /\ h[k] = k
      BY <1>1, <1>5, <1>7, <1>10, <2>1
    <3>2. QED
      BY <3>1
  <2>2. CASE ~(k < i)
    <3>1. k - 1 \in DOMAIN f /\ h[k - 1] = k
      BY <1>1, <1>5, <1>7, <1>10, <2>2
    <3>2. QED
      BY <3>1
  <2>3. QED
    BY <2>1, <2>2
<1>14. Sum(g) = g[i] + Sum(f)
  <2>1. OneMore(f, g, h, i)
    BY <1>10, <1>11, <1>12, <1>13 DEF OneMore
  <2>2. QED
    BY <2>1, SumOfOneMore
<1>15. g[i] = list[i].margin + list[i].fee
    BY <1>9 DEF DepositsOf
<1>16. QED
    BY <1>5, <1>6, <1>8, <1>9, <1>14, <1>15 DEF Deposits

LEMMA AppendedTyped ==
    ASSUME NEW list \in Seq(Position), NEW p \in Position, NEW new, new = Append(list, p)
    PROVE  /\ new \in Seq(Position) /\ Len(new) = Len(list) + 1
           /\ DOMAIN list = 1..Len(list) /\ DOMAIN new = 1..Len(new)
           /\ new[Len(new)] = p /\ \A i \in DOMAIN list : new[i] = list[i]
           /\ Deposits(new) = p.margin + p.fee + Deposits(list)
           /\ Sum(Values(new, DOMAIN new)) = CurrentValue(p) + Sum(Values(list, DOMAIN list))
           /\ Sum(Equities(new, DOMAIN new)) = AccountEquity(p) + Sum(Equities(list, DOMAIN list))
<1>1. /\ new \in Seq(Position) /\ Len(new) = Len(list) + 1 /\ Len(list) \in Nat
      /\ DOMAIN list = 1..Len(list) /\ DOMAIN new = 1..Len(new)
      /\ new[Len(new)] = p /\ \A i \in DOMAIN list : new[i] = list[i]
    OBVIOUS
<1>2. PICK z : z = Len(new) /\ z \in DOMAIN new /\ z \notin DOMAIN list
               /\ DOMAIN new \ {z} = DOMAIN list
    BY <1>1
<1>3. PICK h : h = [i \in DOMAIN list |-> i]
    OBVIOUS
<1>4. ASSUME NEW f, IsAmounts(f), DOMAIN f = DOMAIN list,
             NEW g, IsAmounts(g), DOMAIN g = DOMAIN new,
             \A i \in DOMAIN list : g[i] = f[i]
      PROVE  Sum(g) = g[z] + Sum(f)
  <2>1. \A i \in DOMAIN f : h[i] \in DOMAIN g \ {z} /\ g[h[i]] = f[i]
    BY <1>2, <1>3, <1>4
  <2>2. \A i, j \in DOMAIN f : h[i] = h[j] => i = j
    BY <1>3, <1>4
  <2>3. \A j \in DOMAIN g \ {z} : \E i \in DOMAIN f : j = h[i]
    BY <1>2, <1>3, <1>4
  <2>4. OneMore(f, g, h, z)
    BY <1>2, <1>4, <2>1, <2>2, <2>3 DEF OneMore
  <2>5. QED
    BY <2>4, SumOfOneMore
<1>5. Deposits(new) = p.margin + p.fee + Deposits(list)
  <2>1. /\ IsAmounts(DepositsOf(list)) /\ DOMAIN DepositsOf(list) = DOMAIN list
        /\ IsAmounts(DepositsOf(new)) /\ DOMAIN DepositsOf(new) = DOMAIN new
    BY <1>1, AmountsTyped
  <2>2. /\ \A i \in DOMAIN list : DepositsOf(new)[i] = DepositsOf(list)[i]
        /\ DepositsOf(new)[z] = p.margin + p.fee
    BY <1>1, <1>2 DEF DepositsOf
  <2>3. QED
    BY <1>4, <2>1, <2>2 DEF Deposits
<1>6. Sum(Values(new, DOMAIN new)) = CurrentValue(p) + Sum(Values(list, DOMAIN list))
  <2>1. /\ IsAmounts(Values(list, DOMAIN list)) /\ DOMAIN Values(list, DOMAIN list) = DOMAIN list
        /\ IsAmounts(Values(new, DOMAIN new)) /\ DOMAIN Values(new, DOMAIN new) = DOMAIN new
    BY <1>1, AmountsTyped
  <2>2. /\ \A i \in DOMAIN list : Values(new, DOMAIN new)[i] = Values(list, DOMAIN list)[i]
        /\ Values(new, DOMAIN new)[z] = CurrentValue(p)
    BY <1>1, <1>2 DEF Values
  <2>3. QED
    BY <1>4, <2>1, <2>2
<1>7. Sum(Equities(new, DOMAIN new)) = AccountEquity(p) + Sum(Equities(list, DOMAIN list))
  <2>1. /\ IsAmounts(Equities(list, DOMAIN list))
        /\ DOMAIN Equities(list, DOMAIN list) = DOMAIN list
        /\ IsAmounts(Equities(new, DOMAIN new)) /\ DOMAIN Equities(new, DOMAIN new) = DOMAIN new
    BY <1>1, AmountsTyped
  <2>2. /\ \A i \in DOMAIN list : Equities(new, DOMAIN new)[i] = Equities(list, DOMAIN list)[i]
        /\ Equities(new, DOMAIN new)[z] = AccountEquity(p)
    BY <1>1, <1>2 DEF Equities
  <2>3. QED
    BY <1>4, <2>1, <2>2
<1>8. QED
    BY <1>1, <1>5, <1>6, <1>7

LEMMA JoinedTyped ==
    ASSUME NEW list \in Seq(Position), NEW more \in Seq(Position), NEW new, new = list \o more
    PROVE  /\ new \in Seq(Position) /\ Len(new) = Len(list) + Len(more)
           /\ DOMAIN new = 1..Len(new)
           /\ \A i \in DOMAIN list : i \in DOMAIN new /\ new[i] = list[i]
           /\ \A i \in DOMAIN more : i + Len(list) \in DOMAIN new /\ new[i + Len(list)] = more[i]
           /\ \A i \in DOMAIN new : i \in DOMAIN list \/ i - Len(list) \in DOMAIN more
           /\ Deposits(new) = Deposits(list) + Deposits(more)
<1>1. PICK n \in Nat : n = Len(list)
    OBVIOUS
<1>2. PICK m \in Nat : m = Len(more)
    OBVIOUS
<1>3. /\ new \in Seq(Position) /\ Len(new) = n + m
      /\ DOMAIN new = 1..(n + m) /\ DOMAIN list = 1..n /\ DOMAIN more = 1..m
      /\ \A i \in 1..n : new[i] = list[i]
      /\ \A i \in 1..m : new[i + n] = more[i]
    BY <1>1, <1>2
<1>4. PICK u : u = [i \in 1..n |-> i]
    OBVIOUS
<1>5. PICK v : v = [i \in 1..m |-> i + n]
    OBVIOUS
<1>6. PICK f : f = DepositsOf(list)
    OBVIOUS
<1>7. PICK g : g = DepositsOf(more)
    OBVIOUS
<1>8. PICK k : k = DepositsOf(new)
    OBVIOUS
<1>9. /\ IsAmounts(f) /\ IsAmounts(g) /\ IsAmounts(k)
      /\ DOMAIN f = 1..n /\ DOMAIN g = 1..m /\ DOMAIN k = 1..(n + m)
    BY <1>3, <1>6, <1>7, <1>8, AmountsTyped
<1>10. \A i \in 1..n : u[i] = i /\ i \in 1..(n + m) /\ k[i] = f[i]
    BY <1>1, <1>2, <1>3, <1>4, <1>6, <1>8 DEF DepositsOf
<1>11. \A i \in 1..m : v[i] = i + n /\ i + n \in 1..(n + m) /\ k[i + n] = g[i]
    BY <1>1, <1>2, <1>3, <1>5, <1>7, <1>8 DEF DepositsOf
<1>12. Joins(f, g, k, u, v)
  <2>1. /\ \A i \in DOMAIN f : u[i] \in DOMAIN k /\ k[u[i]] = f[i]
        /\ \A i \in DOMAIN g : v[i] \in DOMAIN k /\ k[v[i]] = g[i]
    BY <1>9, <1>10, <1>11
  <2>2. /\ \A i, j \in DOMAIN f : u[i] = u[j] => i = j
        /\ \A i, j \in DOMAIN g : v[i] = v[j] => i = j
        /\ \A i \in DOMAIN f : \A j \in DOMAIN g : u[i] # v[j]
    BY <1>1, <1>2, <1>9, <1>10, <1>11
  <2>3. ASSUME NEW z \in DOMAIN k
        PROVE  (\E x \in DOMAIN f : z = u[x]) \/ (\E y \in DOMAIN g : z = v[y])
    <3>1. CASE z \in 1..n
      BY <1>9, <1>10, <3>1
    <3>2. CASE z \notin 1..n
      <4>1. z \in 1..(n + m) /\ n \in Nat /\ m \in Nat
        BY <1>1, <1>2, <1>9
      <4>2. z - n \in 1..m /\ (z - n) + n = z
        BY <3>2, <4>1
      <4>3. v[z - n] = z
        BY <1>11, <4>2
      <4>4. QED
        BY <1>9, <4>2, <4>3
    <3>3. QED
      BY <3>1, <3>2
  <2>4. QED
    BY <1>9, <2>1, <2>2, <2>3 DEF Joins
<1>13. Sum(k) = Sum(f) + Sum(g)
    BY <1>12, SumOfTwo
<1>14. \A i \in DOMAIN new : i \in DOMAIN list \/ i - Len(list) \in DOMAIN more
    BY <1>1, <1>2, <1>3
<1>15. /\ \A i \in DOMAIN list : i \in DOMAIN new
       /\ \A i \in DOMAIN more : i + Len(list) \in DOMAIN new
    BY <1>1, <1>2, <1>3
<1>16. QED
    BY <1>1, <1>2, <1>3, <1>6, <1>7, <1>8, <1>13, <1>14, <1>15 DEF Deposits

LEMMA MaintainedTyped ==
    ASSUME NEW list \in Seq(Position), NEW new, new = Maintained(list)
    PROVE  /\ new \in Seq(Position) /\ DOMAIN new = DOMAIN list /\ Len(new) = Len(list)
           /\ \A i \in DOMAIN list :
                 /\ Kept(list[i], new[i]) /\ new[i].fx = list[i].fx
                 /\ CurrentValue(new[i]) = CurrentValue(list[i])
                 /\ AccountEquity(new[i]) = AccountEquity(list[i])
                 /\ Breached(list) /\ list[i].mode \in Margin => new[i].forced # "none"
           /\ Deposits(new) = Deposits(list)
<1>1. PICK n \in Nat : n = Len(list) /\ DOMAIN list = 1..n
    OBVIOUS
<1>2. ASSUME NEW i \in DOMAIN list
      PROVE  /\ new[i] \in Position
             /\ Kept(list[i], new[i]) /\ new[i].fx = list[i].fx
             /\ new[i].mark = list[i].mark /\ new[i].quantity = list[i].quantity
             /\ new[i].notional = list[i].notional
             /\ Breached(list) /\ list[i].mode \in Margin => new[i].forced # "none"
  <2>1. PICK p \in Position : p = list[i]
    OBVIOUS
  <2>2. CASE Breached(list) /\ p.mode \in Margin /\ p.forced = "none"
    <3>1. new[i] = [p EXCEPT !.forced = "maintenance"]
      BY <2>1, <2>2 DEF Maintained
    <3>2. /\ new[i] \in Position /\ Kept(p, new[i]) /\ new[i].fx = p.fx
          /\ new[i].mark = p.mark /\ new[i].quantity = p.quantity
          /\ new[i].notional = p.notional /\ new[i].forced = "maintenance"
      <4> DEFINE q == [p EXCEPT !.forced = "maintenance"]
      <4>1. /\ q \in Position /\ Kept(p, q) /\ q.fx = p.fx /\ q.mark = p.mark
            /\ q.quantity = p.quantity /\ q.notional = p.notional /\ q.forced = "maintenance"
        BY ONLY p \in Position, ForcedIsNew
      <4> HIDE DEF q
      <4>2. new[i] = q
        BY <3>1, Zenon DEF q
      <4>3. QED
        BY ONLY <4>1, <4>2, Zenon
    <3>3. QED
      BY <2>1, <3>2, Zenon
  <2>3. CASE ~(Breached(list) /\ p.mode \in Margin /\ p.forced = "none")
    <3>1. new[i] = p
      BY <2>1, <2>3 DEF Maintained
    <3>2. QED
      BY <2>1, <2>3, <3>1 DEF Kept
  <2>4. QED
    BY <2>2, <2>3
<1>3. DOMAIN new = 1..n /\ new = [i \in 1..n |-> new[i]]
    BY <1>1 DEF Maintained
<1>4. new \in Seq(Position) /\ Len(new) = n
    BY <1>1, <1>2, <1>3
<1>5. \A i \in DOMAIN list : CurrentValue(new[i]) = CurrentValue(list[i])
    BY <1>2 DEF CurrentValue
<1>6. \A i \in DOMAIN list : AccountEquity(new[i]) = AccountEquity(list[i])
    BY <1>2, <1>5 DEF AccountEquity, Kept
<1>7. Deposits(new) = Deposits(list)
    BY <1>1, <1>2, <1>3, <1>4, SameDeposits DEF Kept
<1>8. QED
    BY <1>1, <1>2, <1>3, <1>4, <1>5, <1>6, <1>7

LEMMA MarkThenRate ==
    \A p \in Position : \A mark, fx \in Nat :
        [p EXCEPT !.mark = mark, !.fx = fx] = [[p EXCEPT !.mark = mark] EXCEPT !.fx = fx]
  OBVIOUS

LEMMA PositionMarked ==
    ASSUME NEW p \in Position, NEW mark \in Nat, NEW fx \in Nat,
           NEW q, q = [p EXCEPT !.mark = mark, !.fx = fx]
    PROVE  q \in Position /\ Kept(p, q)
<1> DEFINE r == [p EXCEPT !.mark = mark]
<1>1. r \in Position /\ Kept(p, r)
  BY MarkIsNew
<1>2. q = [r EXCEPT !.fx = fx]
  BY MarkThenRate
<1> HIDE DEF r
<1>3. q \in Position /\ Kept(r, q)
  BY <1>1, <1>2, RateIsNew, Zenon
<1>4. QED
  BY <1>1, <1>3, Zenon DEF Kept

LEMMA MarkedTyped ==
    ASSUME InputsInv, phase # "night", NEW list \in Seq(Position),
           \A i \in DOMAIN list : list[i].opened = session => day.bars[list[i].symbol] # NoBar,
           NEW new, new = MarkedToday(list)
    PROVE  /\ new \in Seq(Position) /\ DOMAIN new = DOMAIN list /\ Len(new) = Len(list)
           /\ \A i \in DOMAIN list :
                 /\ Kept(list[i], new[i])
                 /\ list[i].opened # session => new[i].fx = list[i].fx
           /\ Deposits(new) = Deposits(list)
<1>1. PICK n \in Nat : n = Len(list) /\ DOMAIN list = 1..n
    OBVIOUS
<1>2. ASSUME NEW i \in DOMAIN list
      PROVE  /\ new[i] \in Position
             /\ Kept(list[i], new[i])
             /\ list[i].opened # session => new[i].fx = list[i].fx
  <2>1. PICK p \in Position : p = list[i]
    OBVIOUS
  <2>2. CASE p.opened = session
    <3>1. day.bars[p.symbol] # NoBar /\ p.symbol \in Symbols
      BY <2>1, <2>2, PositionFields
    <3>2. PICK fx \in Nat : fx = Fx(p.symbol)
      BY <3>1, BarTyped
    <3>3. PICK mark \in Nat : mark = Scaled(day.bars[p.symbol].close)
      BY <3>1, BarTyped, PolicyNumbers, TimesNat DEF Scaled
    <3>4. new[i] = [p EXCEPT !.mark = mark, !.fx = fx]
      BY <2>1, <2>2, <3>2, <3>3 DEF MarkedToday
    <3>5. new[i] \in Position /\ Kept(p, new[i])
      BY <3>4, PositionMarked, Zenon
    <3>6. QED
      BY <2>1, <2>2, <3>5, Zenon
  <2>3. CASE p.opened # session
    <3>1. new[i] = p
      BY <2>1, <2>3 DEF MarkedToday
    <3>2. QED
      BY <2>1, <3>1 DEF Kept
  <2>4. QED
    BY <2>2, <2>3
<1>3. DOMAIN new = 1..n /\ new = [i \in 1..n |-> new[i]]
    BY <1>1 DEF MarkedToday
<1>4. new \in Seq(Position) /\ Len(new) = n
    BY <1>1, <1>2, <1>3
<1>5. Deposits(new) = Deposits(list)
    BY <1>1, <1>2, <1>3, <1>4, SameDeposits DEF Kept
<1>6. QED
    BY <1>1, <1>2, <1>3, <1>4, <1>5

-----------------------------------------------------------------------------
(* The inductive invariant.                                                *)

Distinct(list) == \A i, j \in DOMAIN list : list[i].symbol = list[j].symbol => i = j

\* A position at the end of session s: charged to its date, under terms in force.
Current(p, s) ==
    p.opened \in 1..s /\ p.accruedTo = calendar[s] /\ p.terms.from <= calendar[s]

\* The session the account is of.
Held == IF phase = "night" THEN session ELSE session - 1
InSession == phase \in {"entries", "advance"}

AccountInv ==
    /\ account \in Account
    /\ Distinct(account.positions)
    /\ \A i \in DOMAIN account.positions : Current(account.positions[i], Held)

\* What was opened today, behind what was held before.
IsNew(i) == i \in DOMAIN entered.positions /\ i > Len(account.positions)

EnteredInv ==
    /\ entered \in Account
    /\ InSession =>
        /\ Len(account.positions) <= Len(entered.positions)
        /\ Distinct(entered.positions)
        /\ \A i \in DOMAIN account.positions : entered.positions[i] = account.positions[i]
        /\ \A i \in DOMAIN entered.positions : IsNew(i) =>
              /\ entered.positions[i].opened = session
              /\ Current(entered.positions[i], session)
              /\ day.bars[entered.positions[i].symbol] # NoBar

\* The first position of the account whose turn has not come.
Turns == IF phase = "entries" THEN 1 ELSE at

\* What becomes of a position that stays open.
Comes(p, q) ==
    /\ q.symbol = p.symbol /\ q.opened = p.opened /\ q.mode = p.mode
    /\ q.accrued = p.accrued + Financing(p) /\ q.accruedTo = Date
    /\ q.terms = Update(p) /\ q.fx = Fx(p.symbol)
    /\ Fits(p, Update(p)) /\ day.bars[p.symbol] # NoBar

IsOf(i, q) ==
    IF i >= Turns THEN q = account.positions[i] ELSE Comes(account.positions[i], q)

AdvancedInv ==
    /\ advanced \in Account
    /\ InSession =>
        /\ Distinct(advanced.positions)
        /\ \A i \in DOMAIN account.positions : i >= Turns =>
              \E j \in DOMAIN advanced.positions : advanced.positions[j] = account.positions[i]
        /\ \A j \in DOMAIN advanced.positions : \E i \in DOMAIN account.positions :
              IsOf(i, advanced.positions[j])

\* Dividends a position is entitled to.
EntitledInv ==
    /\ IsFiniteSet(entitled)
    /\ \A e \in entitled : e.sign \in {-1, 1} /\ e.quantity \in Nat /\ e.flow.amount \in Nat

\* The books of the account and of its two copies.
MoneyInv ==
    /\ account.cash + Deposits(account.positions) = Capital + account.realized
    /\ InSession =>
        /\ entered.cash + Deposits(entered.positions)
             = account.cash + Deposits(account.positions)
        /\ advanced.cash + Deposits(advanced.positions) = Capital + advanced.realized

BooksInv ==
    InputsInv /\ AccountInv /\ EnteredInv /\ AdvancedInv /\ EntitledInv /\ MoneyInv

\* The entries so far, against the equity of the night before.
WithinLimits ==
    /\ Gross(entered) <= Equity(account) * Leverage
    /\ \A i \in DOMAIN entered.positions : IsNew(i) =>
          /\ Alike(entered, "sector", entered.positions[i].sector) * Base
                <= Equity(account) * SectorRate
          /\ Alike(entered, "group", entered.positions[i].group) * Base
                <= Equity(account) * GroupRate

LimitsInv ==
    InSession => /\ Equity(entered) <= Equity(account)
                 /\ entered = account \/ WithinLimits

\* A breach at the end of a session leaves no margin position unscheduled.
BreachInv ==
    phase = "night" /\ Breached(account.positions) =>
        \A i \in MarginPositions(account.positions) : account.positions[i].forced # "none"


LEMMA BooksStart == ASSUME Init PROVE BooksInv /\ LimitsInv /\ BreachInv
<1>1. <<>> \in Seq(Position) /\ DOMAIN <<>> = {} /\ Len(<<>>) = 0
    OBVIOUS
<1>2. Capital \in Int
    BY PolicyNumbers, MoneyTyped DEF Capital
<1>3. PICK acc \in Account :
         acc = NewAccount /\ acc.positions = <<>> /\ acc.cash = Capital /\ acc.realized = 0
  <2>1. NewAccount \in [cash: Int, realized: Int, positions: Seq(Position)]
    <3>1. 0 \in Int
      OBVIOUS
    <3>2. QED
      BY <1>1, <1>2, <3>1, Zenon DEF NewAccount
  <2>2. NewAccount.positions = <<>> /\ NewAccount.cash = Capital /\ NewAccount.realized = 0
    BY DEF NewAccount
  <2>3. QED
    BY <2>1, <2>2, Zenon DEF Account
<1>4. account = acc /\ entered = acc /\ advanced = acc /\ phase = "night" /\ entitled = {}
    BY <1>3 DEF Init
<1>5. Deposits(<<>>) = 0
  <2>1. IsAmounts(DepositsOf(<<>>)) /\ DOMAIN DepositsOf(<<>>) = {}
    BY <1>1, AmountsTyped
  <2>2. QED
    BY <2>1, SumOfNone DEF Deposits
<1>6. AccountInv
    BY <1>1, <1>3, <1>4 DEF AccountInv, Distinct
<1>7. EnteredInv /\ AdvancedInv
    BY <1>4 DEF EnteredInv, AdvancedInv, InSession
<1>8. EntitledInv
    BY <1>4, FS_EmptySet DEF EntitledInv
<1>9. MoneyInv
    BY <1>2, <1>3, <1>4, <1>5 DEF MoneyInv, InSession
<1>10. LimitsInv
    BY <1>4 DEF LimitsInv, InSession
<1>11. BreachInv
    BY <1>1, <1>3, <1>4 DEF BreachInv, Breached, MarginPositions
<1>12. QED
    BY <1>6, <1>7, <1>8, <1>9, <1>10, <1>11, InputsStart DEF BooksInv

LEMMA AccountFields ==
    ASSUME NEW acc \in Account
    PROVE  acc.cash \in Int /\ acc.realized \in Int /\ acc.positions \in Seq(Position)
  BY DEF Account

\* What an entry does.
LEMMA EnterEffect ==
    ASSUME InputsInv, entered \in Account, Enter
    PROVE  \E p \in Position :
              /\ entered' \in Account /\ entered'.positions = Append(entered.positions, p)
              /\ entered'.cash = entered.cash - (p.margin + p.fee)
              /\ \A i \in DOMAIN entered.positions : entered.positions[i].symbol # p.symbol
              /\ Current(p, session) /\ p.opened = session /\ day.bars[p.symbol] # NoBar
              /\ AccountEquity(p) = p.margin
              /\ Gross(entered) + CurrentValue(p) <= Equity(entered) * Leverage
              /\ Alike(entered, "sector", p.sector) * Base + CurrentValue(p) * Base
                    <= Equity(entered) * SectorRate
              /\ Alike(entered, "group", p.group) * Base + CurrentValue(p) * Base
                    <= Equity(entered) * GroupRate
<1>1. PICK c : c = day.entries[at]
    OBVIOUS
<1>2. PICK q : q = Quantity(entered, c)
    OBVIOUS
<1>3. /\ phase # "night" /\ at \in DOMAIN day.entries
      /\ Admitted(entered, c) /\ Affordable(entered, c)
      /\ entered' = [entered EXCEPT !.cash = @ - CashRequired(c, q),
                                    !.positions = Append(@, NewPosition(c, q))]
    BY <1>1, <1>2, Zenon DEF Enter
<1>4. LevelsInOrder(c) /\ KnownInTime(c) /\ q > 0
      /\ \A i \in DOMAIN entered.positions : entered.positions[i].symbol # c.symbol
    BY <1>2, <1>3, Zenon DEF Admitted, Affordable
<1>5. /\ q \in Nat \ {0} /\ Notional(c, q) \in Nat
      /\ Gross(entered) + Notional(c, q) <= Equity(entered) * Leverage
      /\ Alike(entered, "sector", c.sector) * Base + Notional(c, q) * Base
           <= Equity(entered) * SectorRate
      /\ Alike(entered, "group", c.group) * Base + Notional(c, q) * Base
           <= Equity(entered) * GroupRate
    BY <1>1, <1>2, <1>3, <1>4, BoughtFits
<1>6. PICK p \in Position :
         /\ p = NewPosition(c, q)
         /\ p.symbol = c.symbol /\ p.sector = c.sector /\ p.group = c.group
         /\ p.opened = session /\ p.accruedTo = Date /\ p.terms = c.terms
         /\ CurrentValue(p) = Notional(c, q) /\ AccountEquity(p) = p.margin
         /\ p.margin + p.fee = CashRequired(c, q)
         /\ CashRequired(c, q) \in Nat
    BY <1>1, <1>3, <1>4, <1>5, OpenedTyped
<1>7. PICK cost \in Nat : cost = p.margin + p.fee /\ cost = CashRequired(c, q)
    BY <1>6
<1>8. PICK new \in Seq(Position) : new = Append(entered.positions, p)
    BY AccountFields, AppendedTyped
<1>9. PICK cash \in Int : cash = entered.cash - cost
    BY <1>7, AccountFields
<1>10. entered' = [entered EXCEPT !.cash = cash, !.positions = new]
    BY <1>3, <1>6, <1>7, <1>8, <1>9 DEF Account
<1>11. entered' \in Account /\ entered'.positions = new /\ entered'.cash = cash
    BY <1>8, <1>9, <1>10 DEF Account
<1>12. Current(p, session)
  <2>1. /\ session \in Nat /\ session > 0 /\ Date \in Nat /\ Date = calendar[session]
    BY <1>3, InputsAssumption, DateTyped DEF InputsInv, Date
  <2>2. c.terms.from \in Nat /\ c.lag \in Nat
    <3>1. IsCandidate(c, day)
      BY <1>1, <1>3, InputsAssumption DEF InputsInv, IsDay
    <3>2. QED
      BY <3>1, TermsTyped DEF IsCandidate
  <2>3. c.terms.from <= Date - c.lag
    BY <1>4 DEF KnownInTime, Decided
  <2>4. QED
    BY <1>6, <2>1, <2>2, <2>3 DEF Current
<1>13. day.bars[p.symbol] # NoBar
    BY <1>1, <1>3, <1>6, CandidateTyped
<1>14. QED
    BY <1>4, <1>5, <1>6, <1>7, <1>8, <1>9, <1>11, <1>12, <1>13


LEMMA EnterBooks == ASSUME BooksInv, Enter PROVE BooksInv'
<1> USE DEF BooksInv
<1>1. InputsInv'
    BY InputsStep, Zenon DEF Next
<1>2. /\ phase = "entries" /\ phase' = "entries"
      /\ UNCHANGED <<calendar, flows, session, day, account, advanced, entitled>>
    BY Zenon DEF Enter
<1>3. AccountInv'
    BY <1>2 DEF AccountInv, Held, Current
<1>4. AdvancedInv'
  <2>1. \A p, q : Comes(p, q)' <=> Comes(p, q)
    BY <1>2 DEF Comes, Financing, Update, Transition, Date, Fx, Fits
  <2>2. Turns' = Turns /\ InSession' = InSession
    BY <1>2, Zenon DEF Turns, InSession
  <2>3. \A i, q : IsOf(i, q)' <=> IsOf(i, q)
    BY <1>2, <2>1, <2>2, Zenon DEF IsOf
  <2>4. QED
    BY <1>2, <2>2, <2>3, Zenon DEF AdvancedInv
<1>5. EntitledInv'
    BY <1>2 DEF EntitledInv
<1>6. PICK p \in Position :
         /\ entered' \in Account /\ entered'.positions = Append(entered.positions, p)
         /\ entered'.cash = entered.cash - (p.margin + p.fee)
         /\ \A i \in DOMAIN entered.positions : entered.positions[i].symbol # p.symbol
         /\ Current(p, session) /\ p.opened = session /\ day.bars[p.symbol] # NoBar
    BY EnterEffect DEF EnteredInv
<1>7. PICK list \in Seq(Position) : list = entered.positions
    BY AccountFields DEF EnteredInv
<1>8. PICK new \in Seq(Position) :
         /\ new = entered'.positions /\ Len(new) = Len(list) + 1
         /\ DOMAIN list = 1..Len(list) /\ DOMAIN new = 1..Len(new)
         /\ new[Len(new)] = p /\ \A i \in DOMAIN list : new[i] = list[i]
         /\ Deposits(new) = p.margin + p.fee + Deposits(list)
  <2>1. entered'.positions = Append(list, p)
    BY <1>6, <1>7, Zenon
  <2>2. p \in Position /\ list \in Seq(Position)
    BY <1>6, <1>7
  <2>3. QED
    BY <2>1, <2>2, AppendedTyped
<1>9. PICK n \in Nat : n = Len(list)
    OBVIOUS
<1>10. PICK m \in Nat : m = Len(account.positions) /\ DOMAIN account.positions = 1..m
    BY AccountFields DEF AccountInv
<1>11. /\ m <= n /\ Distinct(list)
       /\ \A i \in 1..m : list[i] = account.positions[i]
       /\ \A i \in 1..n : i > m => /\ list[i].opened = session
                                   /\ Current(list[i], session)
                                   /\ day.bars[list[i].symbol] # NoBar
    BY <1>2, <1>7, <1>8, <1>9, <1>10 DEF EnteredInv, InSession, IsNew
<1>12. DOMAIN new = 1..(n + 1) /\ new[n + 1] = p /\ \A i \in 1..n : new[i] = list[i]
    BY <1>8, <1>9
<1>13. EnteredInv'
  <2>1. Distinct(new)
    <3>1. \A i \in 1..n : new[i].symbol # p.symbol
      BY <1>6, <1>7, <1>8, <1>9, <1>12
    <3>2. QED
      BY <1>8, <1>9, <1>11, <1>12, <3>1 DEF Distinct
  <2>2. \A i \in 1..m : new[i] = account.positions[i]
    BY <1>9, <1>10, <1>11, <1>12
  <2>3. \A i \in 1..(n + 1) : i > m => /\ new[i].opened = session
                                       /\ Current(new[i], session)
                                       /\ day.bars[new[i].symbol] # NoBar
    <3>1. ASSUME NEW i \in 1..(n + 1), i > m
          PROVE  new[i].opened = session /\ Current(new[i], session)
                 /\ day.bars[new[i].symbol] # NoBar
      <4>1. CASE i = n + 1
        BY <1>6, <1>12, <4>1
      <4>2. CASE i \in 1..n
        BY <1>11, <1>12, <3>1, <4>2
      <4>3. QED
        BY <1>9, <4>1, <4>2
    <3>2. QED
      BY <3>1
  <2>4. m <= n + 1
    BY <1>9, <1>10, <1>11
  <2>5. QED
    BY <1>2, <1>6, <1>8, <1>9, <1>10, <1>12, <2>1, <2>2, <2>3, <2>4
       DEF EnteredInv, InSession, IsNew, Distinct, Current
<1>14. MoneyInv'
  <2>1. Deposits(list) \in Int /\ entered.cash \in Int /\ p.margin \in Nat /\ p.fee \in Nat
    BY DepositsTyped, AccountFields, PositionFields DEF EnteredInv
  <2>2. entered'.cash + Deposits(new) = entered.cash + Deposits(list)
    BY <1>6, <1>8, <2>1
  <2>3. QED
    BY <1>2, <1>7, <1>8, <2>2 DEF MoneyInv, InSession
<1>15. QED
    BY <1>1, <1>3, <1>4, <1>5, <1>13, <1>14

\* What positions with one value in a field are worth, after one more.
LEMMA AlikeAppended ==
    ASSUME NEW acc \in Account, NEW p \in Position, NEW new \in Account,
           new.positions = Append(acc.positions, p), NEW field, NEW value
    PROVE  Alike(new, field, value)
             = Alike(acc, field, value) + (IF p[field] = value THEN CurrentValue(p) ELSE 0)
<1>1. PICK list \in Seq(Position) : list = acc.positions
    BY AccountFields
<1>2. PICK more \in Seq(Position) : more = new.positions
    BY AccountFields
<1>3. /\ Len(more) = Len(list) + 1 /\ Len(list) \in Nat
      /\ DOMAIN list = 1..Len(list) /\ DOMAIN more = 1..Len(more)
      /\ more[Len(more)] = p /\ \A i \in DOMAIN list : more[i] = list[i]
    BY <1>1, <1>2, AppendedTyped
<1>4. PICK z : z = Len(more) /\ z \notin DOMAIN list /\ DOMAIN more = DOMAIN list \cup {z}
               /\ more[z] = p
    BY <1>3
<1>5. PICK S \in SUBSET DOMAIN list : S = {j \in DOMAIN list : list[j][field] = value}
    OBVIOUS
<1>6. PICK T \in SUBSET DOMAIN more : T = {j \in DOMAIN more : more[j][field] = value}
    OBVIOUS
<1>7. Alike(acc, field, value) = Sum(Values(list, S))
    BY <1>1, <1>5 DEF Alike, Values
<1>8. Alike(new, field, value) = Sum(Values(more, T))
    BY <1>2, <1>6 DEF Alike, Values
<1>9. /\ IsAmounts(Values(list, S)) /\ DOMAIN Values(list, S) = S
      /\ IsAmounts(Values(more, T)) /\ DOMAIN Values(more, T) = T
    BY AmountsTyped
<1>10. \A i \in S : more[i] = list[i]
    BY <1>3
<1>11. CASE p[field] = value
  <2>1. T = S \cup {z} /\ z \notin S
    BY <1>3, <1>4, <1>5, <1>6, <1>11
  <2>2. PICK h : h = [i \in S |-> i]
    OBVIOUS
  <2>3. /\ \A i \in S : Values(more, T)[i] = Values(list, S)[i]
        /\ Values(more, T)[z] = CurrentValue(p)
    BY <1>4, <1>10, <2>1 DEF Values
  <2>4. OneMore(Values(list, S), Values(more, T), h, z)
    BY <1>9, <2>1, <2>2, <2>3 DEF OneMore
  <2>5. Sum(Values(more, T)) = CurrentValue(p) + Sum(Values(list, S))
    BY <2>3, <2>4, SumOfOneMore
  <2>6. CurrentValue(p) \in Int /\ Sum(Values(list, S)) \in Int
    BY <1>9, PositionAmounts, SumIsInt
  <2>7. QED
    BY <1>7, <1>8, <1>11, <2>5, <2>6
<1>12. CASE p[field] # value
  <2>1. T = S
    BY <1>3, <1>4, <1>5, <1>6, <1>12
  <2>2. Values(more, T) = Values(list, S)
    BY <1>10, <2>1 DEF Values
  <2>3. Sum(Values(list, S)) \in Int
    BY <1>9, SumIsInt
  <2>4. QED
    BY <1>7, <1>8, <1>12, <2>2, <2>3
<1>13. QED
    BY <1>11, <1>12


\* The limits, one entry after another.
LEMMA EnterLimits == ASSUME BooksInv, LimitsInv, Enter PROVE LimitsInv'
<1>1. /\ phase = "entries" /\ phase' = "entries" /\ account' = account
      /\ InputsInv /\ AccountInv /\ EnteredInv
    BY Zenon DEF Enter, BooksInv
<1>2. PICK p \in Position :
         /\ entered' \in Account /\ entered'.positions = Append(entered.positions, p)
         /\ entered'.cash = entered.cash - (p.margin + p.fee)
         /\ AccountEquity(p) = p.margin
         /\ Gross(entered) + CurrentValue(p) <= Equity(entered) * Leverage
         /\ Alike(entered, "sector", p.sector) * Base + CurrentValue(p) * Base
               <= Equity(entered) * SectorRate
         /\ Alike(entered, "group", p.group) * Base + CurrentValue(p) * Base
               <= Equity(entered) * GroupRate
    BY <1>1, EnterEffect DEF EnteredInv
<1>3. PICK list \in Seq(Position) : list = entered.positions
    BY <1>1, AccountFields DEF EnteredInv
<1>4. PICK new \in Seq(Position) :
         /\ new = entered'.positions /\ Len(new) = Len(list) + 1
         /\ DOMAIN list = 1..Len(list) /\ DOMAIN new = 1..Len(new)
         /\ new[Len(new)] = p /\ \A i \in DOMAIN list : new[i] = list[i]
         /\ Sum(Values(new, DOMAIN new)) = CurrentValue(p) + Sum(Values(list, DOMAIN list))
         /\ Sum(Equities(new, DOMAIN new)) = AccountEquity(p) + Sum(Equities(list, DOMAIN list))
    BY <1>2, <1>3, AppendedTyped
<1>5. PICK value \in Nat : value = CurrentValue(p)
    BY PositionAmounts
<1>6. /\ p.margin \in Nat /\ p.fee \in Nat /\ entered.cash \in Int
      /\ Leverage \in Nat /\ SectorRate \in Nat /\ GroupRate \in Nat /\ Base \in Nat
    BY <1>1, PositionFields, AccountFields, PolicyNumbers DEF EnteredInv
<1>7. /\ Equity(account) \in Int /\ Equity(entered) \in Int /\ Gross(entered) \in Int
      /\ \A field, of : Alike(entered, field, of) \in Int
    BY <1>1, AccountValues DEF EnteredInv, AccountInv
<1>8. Equity(entered) <= Equity(account)
    BY <1>1 DEF LimitsInv, InSession
<1>9. Gross(entered') = value + Gross(entered)
    BY <1>3, <1>4, <1>5 DEF Gross, Values
<1>10. Equity(entered') = Equity(entered) - p.fee
  <2>1. PICK sum \in Int : sum = Sum(Equities(list, DOMAIN list))
    BY AmountsTyped, SumIsInt
  <2>2. Equity(entered) = entered.cash + sum
    BY <1>3, <2>1 DEF Equity, Equities
  <2>3. Equity(entered') = entered'.cash + (p.margin + sum)
    BY <1>2, <1>4, <2>1 DEF Equity, Equities
  <2>4. QED
    <3>1. PICK cash \in Int : cash = entered.cash
      BY <1>6
    <3>2. PICK margin \in Nat : margin = p.margin
      BY <1>6
    <3>3. PICK fee \in Nat : fee = p.fee
      BY <1>6
    <3>4. /\ Equity(entered) = cash + sum
          /\ Equity(entered') = (cash - (margin + fee)) + (margin + sum)
      BY <1>2, <2>2, <2>3, <3>1, <3>2, <3>3, Zenon
    <3>5. (cash - (margin + fee)) + (margin + sum) = (cash + sum) - fee
      BY ONLY cash \in Int, margin \in Nat, fee \in Nat, sum \in Int
    <3>6. QED
      BY <3>3, <3>4, <3>5, Zenon
<1>11. Equity(entered') <= Equity(account)
    BY <1>6, <1>7, <1>8, <1>10
<1>12. ASSUME NEW rate \in Nat PROVE Equity(entered) * rate <= Equity(account) * rate
    BY <1>7, <1>8, TimesMonotone
<1>13. Gross(entered') <= Equity(account) * Leverage
  <2>1. PICK a \in Int : a = Equity(account) * Leverage
    BY <1>6, <1>7, TimesInt
  <2>2. PICK b \in Int : b = Equity(entered) * Leverage
    BY <1>6, <1>7, TimesInt
  <2>3. b <= a
    BY <1>6, <1>12, <2>1, <2>2
  <2>4. Gross(entered) + value <= b
    BY <1>2, <1>5, <2>2
  <2>5. QED
    BY <1>5, <1>7, <1>9, <2>1, <2>3, <2>4
<1>14. ASSUME NEW field, NEW of, NEW rate \in Nat,
              Alike(entered, field, of) * Base + value * Base <= Equity(entered) * rate,
              p[field] = of
       PROVE  Alike(entered', field, of) * Base <= Equity(account) * rate
  <2>1. PICK held \in Int : held = Alike(entered, field, of)
    BY <1>7
  <2>2. Alike(entered', field, of) = held + value
    <3>1. entered \in Account /\ entered' \in Account
      BY <1>1, <1>2 DEF EnteredInv
    <3>2. Alike(entered', field, of)
            = Alike(entered, field, of) + (IF p[field] = of THEN CurrentValue(p) ELSE 0)
      BY <1>2, <3>1, AlikeAppended
    <3>3. QED
      BY <1>5, <1>14, <2>1, <3>2, Zenon
  <2>3. (held + value) * Base = held * Base + value * Base
    BY <1>5, <1>6, <2>1
  <2>4. PICK a \in Int : a = Equity(account) * rate
    BY <1>7, TimesInt
  <2>5. PICK b \in Int : b = Equity(entered) * rate
    BY <1>7, TimesInt
  <2>6. PICK used \in Int : used = held * Base + value * Base
    BY <1>5, <1>6, <2>1, TimesInt
  <2>7. used <= b /\ b <= a
    BY <1>12, <1>14, <2>1, <2>4, <2>5, <2>6
  <2>8. used <= a
    BY <2>4, <2>5, <2>6, <2>7
  <2>9. QED
    BY <2>2, <2>3, <2>4, <2>6, <2>8
<1>15. ASSUME NEW field, NEW of, NEW rate \in Nat,
              Alike(entered, field, of) * Base <= Equity(account) * rate,
              p[field] # of
       PROVE  Alike(entered', field, of) * Base <= Equity(account) * rate
  <2>1. Alike(entered', field, of) = Alike(entered, field, of)
    <3>1. entered \in Account /\ entered' \in Account
      BY <1>1, <1>2 DEF EnteredInv
    <3>2. Alike(entered', field, of)
            = Alike(entered, field, of) + (IF p[field] = of THEN CurrentValue(p) ELSE 0)
      BY <1>2, <3>1, AlikeAppended
    <3>3. Alike(entered', field, of) = Alike(entered, field, of) + 0
      BY <1>15, <3>2, Zenon
    <3>4. Alike(entered, field, of) \in Int
      BY <1>7
    <3>5. QED
      BY ONLY <3>3, <3>4
  <2>2. QED
    BY <1>15, <2>1
<1>16. ASSUME NEW i \in DOMAIN new, i > Len(account.positions)
       PROVE  /\ Alike(entered', "sector", new[i].sector) * Base <= Equity(account) * SectorRate
              /\ Alike(entered', "group", new[i].group) * Base <= Equity(account) * GroupRate
  <2>1. /\ Alike(entered', "sector", p.sector) * Base <= Equity(account) * SectorRate
        /\ Alike(entered', "group", p.group) * Base <= Equity(account) * GroupRate
    BY <1>2, <1>5, <1>6, <1>14
  <2>2. CASE i = Len(new)
    BY <1>4, <2>1, <2>2
  <2>3. CASE i # Len(new)
    <3>1. i \in DOMAIN list /\ new[i] = list[i]
      BY <1>4, <2>3
    <3>2. entered # account
      <4>1. i \in DOMAIN account.positions => ~(i > Len(account.positions))
        BY <1>1, AccountFields DEF AccountInv
      <4>2. QED
        BY <1>3, <1>16, <3>1, <4>1
    <3>3. WithinLimits
      BY <1>1, <3>2 DEF LimitsInv, InSession
    <3>4. /\ Alike(entered, "sector", list[i].sector) * Base <= Equity(account) * SectorRate
          /\ Alike(entered, "group", list[i].group) * Base <= Equity(account) * GroupRate
      BY <1>3, <1>16, <3>1, <3>3 DEF WithinLimits, IsNew
    <3>5. Alike(entered', "sector", list[i].sector) * Base <= Equity(account) * SectorRate
      <4>1. CASE p.sector = list[i].sector
        BY <2>1, <4>1
      <4>2. CASE p.sector # list[i].sector
        BY <1>6, <1>15, <3>4, <4>2
      <4>3. QED
        BY <4>1, <4>2
    <3>6. Alike(entered', "group", list[i].group) * Base <= Equity(account) * GroupRate
      <4>1. CASE p.group = list[i].group
        BY <2>1, <4>1
      <4>2. CASE p.group # list[i].group
        BY <1>6, <1>15, <3>4, <4>2
      <4>3. QED
        BY <4>1, <4>2
    <3>7. QED
      BY <3>1, <3>5, <3>6
  <2>4. QED
    BY <2>2, <2>3
<1>17. WithinLimits'
    BY <1>1, <1>4, <1>13, <1>16 DEF WithinLimits, IsNew
<1>18. QED
    BY <1>1, <1>11, <1>17 DEF LimitsInv, InSession


LEMMA OpenSessionBooks == ASSUME BooksInv, OpenSession PROVE BooksInv' /\ LimitsInv'
<1> USE DEF BooksInv
<1>1. InputsInv'
    BY InputsStep, Zenon DEF Next
<1>2. /\ phase = "night" /\ phase' = "entries" /\ session' = session + 1 /\ at' = 1
      /\ calendar' = calendar /\ account' = account /\ entitled' = entitled
      /\ entered' = account /\ advanced' = account
    BY Zenon DEF OpenSession
<1>3. session \in Nat
    BY InputsAssumption DEF InputsInv
<1>4. PICK list \in Seq(Position) : list = account.positions
    BY AccountFields DEF AccountInv
<1>5. account \in Account /\ Distinct(list) /\ DOMAIN list = 1..Len(list)
      /\ Len(list) \in Nat /\ \A i \in DOMAIN list : Current(list[i], session)
    BY <1>2, <1>4 DEF AccountInv, Held
<1>6. AccountInv'
    BY <1>2, <1>3, <1>4, <1>5 DEF AccountInv, Held, Current, Distinct
<1>7. EnteredInv'
    BY <1>2, <1>4, <1>5 DEF EnteredInv, InSession, IsNew, Distinct
<1>8. AdvancedInv'
  <2>1. \A j \in DOMAIN list : j >= 1
    BY <1>5
  <2>2. \A j \in DOMAIN list : IsOf(j, list[j])'
    BY <1>2, <1>4, <2>1 DEF IsOf, Turns
  <2>3. QED
    BY <1>2, <1>4, <1>5, <2>1, <2>2 DEF AdvancedInv, InSession, Turns, Distinct
<1>9. EntitledInv'
    BY <1>2 DEF EntitledInv
<1>10. MoneyInv'
    BY <1>2 DEF MoneyInv
<1>11. LimitsInv'
  <2>1. Equity(account) \in Int
    BY <1>5, AccountValues
  <2>2. QED
    BY <1>2, <2>1 DEF LimitsInv
<1>12. QED
    BY <1>1, <1>6, <1>7, <1>8, <1>9, <1>10, <1>11

\* Steps that leave the account and its copies alone.
LEMMA QuietBooks ==
    ASSUME BooksInv, LimitsInv, InputsInv',
           UNCHANGED <<calendar, flows, session, day, account, entered, advanced, entitled>>,
           \/ phase' = phase /\ (phase = "entries" \/ at' = at)
           \/ phase = "entries" /\ phase' = "advance" /\ at' = 1
           \/ phase = "advance" /\ phase' = "failed"
    PROVE  BooksInv' /\ LimitsInv'
<1> USE DEF BooksInv
<1>1. AccountInv'
    BY DEF AccountInv, Held, Current
<1>2. EnteredInv'
    BY DEF EnteredInv, InSession, IsNew, Current
<1>3. AdvancedInv'
  <2>1. CASE phase' = "failed"
    BY <2>1 DEF AdvancedInv, InSession
  <2>2. CASE phase' # "failed"
    <3>1. (InSession' <=> InSession) /\ (InSession => Turns' = Turns)
      BY <2>2 DEF InSession, Turns
    <3>2. ASSUME NEW i, NEW q, InSession PROVE IsOf(i, q)' <=> IsOf(i, q)
      BY <3>1, <3>2 DEF IsOf, Comes, Financing, Update, Transition, Date, Fx, Fits
    <3>3. QED
      BY <3>1, <3>2 DEF AdvancedInv
  <2>3. QED
    BY <2>1, <2>2
<1>4. EntitledInv' /\ MoneyInv'
    BY DEF EntitledInv, MoneyInv, InSession
<1>5. LimitsInv'
    BY DEF LimitsInv, InSession, WithinLimits, IsNew
<1>6. QED
    BY <1>1, <1>2, <1>3, <1>4, <1>5


\* The position whose turn it is, in the account and in the copy it is advanced on.
LEMMA TurnFacts ==
    ASSUME BooksInv, NEW p, Turn(p), Usable(p), NEW h, h = Holds(advanced, p)
    PROVE  /\ phase = "advance" /\ at \in DOMAIN account.positions /\ p = account.positions[at]
           /\ p \in Position /\ p.opened \in 1..session
           /\ day.bars[p.symbol] # NoBar /\ Fits(p, Update(p))
           /\ h \in DOMAIN advanced.positions /\ advanced.positions[h] = p
           /\ Turns = at
<1> USE DEF BooksInv
<1>1. /\ phase = "advance" /\ at \in DOMAIN account.positions /\ p = account.positions[at]
      /\ day.bars[p.symbol] # NoBar /\ Fits(p, Update(p))
    BY DEF Turn, Usable
<1>2. p \in Position
    BY <1>1, AccountFields DEF AccountInv
<1>3. p.opened \in 1..session
  <2>1. session \in Nat /\ p.opened \in 1..(session - 1)
    BY <1>1, InputsAssumption DEF AccountInv, Current, Held, InputsInv
  <2>2. QED
    BY <2>1
<1>4. Turns = at /\ at >= Turns
    BY <1>1 DEF Turns, InputsInv
<1>5. \E j \in DOMAIN advanced.positions : advanced.positions[j] = p
    BY <1>1, <1>4 DEF AdvancedInv, InSession
<1>6. h \in DOMAIN advanced.positions /\ advanced.positions[h] = p
    BY <1>5 DEF Holds
<1>7. QED
    BY <1>1, <1>2, <1>3, <1>4, <1>6

\* The prices of an exit are whole numbers.
LEMMA ExitTyped ==
    ASSUME InputsInv, phase # "night", NEW p \in Position, day.bars[p.symbol] # NoBar
    PROVE  day.bars[p.symbol].open \in Int /\ RegularExit(p) \in Int
<1>1. PICK b : b = day.bars[p.symbol]
    OBVIOUS
<1>2. b.open \in Nat /\ b.low \in Nat /\ b.high \in Nat
    BY <1>1, PositionFields, BarTyped
<1>3. p.stop \in Nat /\ p.take \in Nat
    BY DEF Position
<1>4. RegularExit(p) \in {b.open, p.stop, p.take, 0}
    BY <1>1, <1>2, <1>3 DEF RegularExit
<1>5. QED
    BY <1>1, <1>2, <1>3, <1>4

\* What a close leaves of the copy.
LEMMA ClosedTyped ==
    ASSUME InputsInv, phase # "night", NEW p \in Position, day.bars[p.symbol] # NoBar,
           NEW acc \in Account, NEW h, h = Holds(acc, p), h \in DOMAIN acc.positions,
           acc.positions[h] = p, NEW price \in Int,
           NEW new, new = Closed(acc, p, price, Financing(p))
    PROVE  /\ new \in Account /\ new.positions = Without(acc.positions, h)
           /\ new.cash + Deposits(new.positions) - new.realized
                = acc.cash + Deposits(acc.positions) - acc.realized
<1>1. PICK value \in Int : value = ExitValue(p, Scaled(price), Fx(p.symbol))
  <2>1. p.quantity \in Int /\ Fx(p.symbol) \in Int /\ Base \in Int
        /\ Base - Adverse * Direction(p.mode) \in Int
    BY PositionFields, BarTyped, PolicyNumbers, Directions
  <2>2. Scaled(price) \in Int
    BY <2>1, TimesInt DEF Scaled
  <2>3. Scaled(price) * (Base - Adverse * Direction(p.mode)) * p.quantity * Fx(p.symbol) * Base
          \in Int
    BY <2>1, <2>2, TimesInt
  <2>4. QED
    BY <2>3 DEF ExitValue
<1>2. PICK fee \in Int : fee = (value * Fee) \div Base
  <2>1. PICK cost \in Int : cost = value * Fee
    BY <1>1, PolicyNumbers, TimesInt
  <2>2. cost \div Base \in Int
    BY <2>1, PolicyNumbers
  <2>3. QED
    BY <2>1, <2>2
<1>3. p.notional \in Int /\ p.accrued \in Int /\ p.margin \in Int /\ p.fee \in Int
    BY PositionFields
<1>4. PICK gross \in Int : gross = Direction(p.mode) * (value - p.notional)
    BY <1>1, <1>3, Directions, TimesInt
<1>5. PICK costs \in Int : costs = fee + p.accrued + Financing(p)
    BY <1>2, <1>3, FinancingTyped
<1>6. gross \in Int /\ costs \in Int
    BY <1>4, <1>5
<1>7. PICK list \in Seq(Position) : list = Without(acc.positions, h)
    BY AccountFields, WithoutTyped
<1>8. Deposits(acc.positions) = p.margin + p.fee + Deposits(list)
    BY <1>7, AccountFields, WithoutTyped
<1>9. acc.cash \in Int /\ acc.realized \in Int
    BY AccountFields
<1>10. new = [cash |-> acc.cash + p.margin + gross - costs,
             realized |-> acc.realized + gross - p.fee - costs, positions |-> list]
    BY <1>1, <1>2, <1>4, <1>5, <1>7, Zenon DEF Closed
<1>11. PICK cash \in Int : cash = acc.cash + p.margin + gross - costs
    BY <1>3, <1>6, <1>9
<1>12. PICK realized \in Int : realized = acc.realized + gross - p.fee - costs
    BY <1>3, <1>6, <1>9
<1>13. /\ new = [cash |-> cash, realized |-> realized, positions |-> list]
    BY <1>10, <1>11, <1>12
<1>14. new \in Account /\ new.cash = cash /\ new.realized = realized /\ new.positions = list
    BY <1>7, <1>11, <1>12, <1>13 DEF Account
<1>15. PICK left \in Int : left = Deposits(list)
    BY <1>7, DepositsTyped
<1>16. cash + left - realized = acc.cash + (p.margin + p.fee + left) - acc.realized
  <2>1. PICK c \in Int : c = acc.cash
    BY <1>9
  <2>2. PICK r \in Int : r = acc.realized
    BY <1>9
  <2>3. PICK m \in Int : m = p.margin
    BY <1>3
  <2>4. PICK f \in Int : f = p.fee
    BY <1>3
  <2>5. PICK l \in Int : l = left
    BY <1>15
  <2>6. cash = c + m + gross - costs /\ realized = r + gross - f - costs
    BY <1>11, <1>12, <2>1, <2>2, <2>3, <2>4
  <2>7. cash + l - realized = c + (m + f + l) - r
    BY <1>6, <2>6
  <2>8. QED
    BY <2>1, <2>2, <2>3, <2>4, <2>5, <2>7
<1>17. QED
    BY <1>7, <1>8, <1>14, <1>15, <1>16


\* What a turn leaves as it is.
LEMMA TurnFrame ==
    ASSUME BooksInv, LimitsInv, phase = "advance", phase' = "advance", at' = at + 1,
           UNCHANGED <<calendar, flows, session, day, account, entered, entitled>>,
           NEW n, n = at
    PROVE  /\ AccountInv' /\ EnteredInv' /\ EntitledInv' /\ LimitsInv'
           /\ Turns = at /\ Turns' = at + 1 /\ at \in Nat \ {0} /\ InSession /\ InSession'
           /\ \A q : \A i \in Nat : i < at => (IsOf(i, q)' <=> IsOf(i, q))
           /\ \A q : \A i \in Nat : i > at => (IsOf(i, q)' <=> IsOf(i, q))
           /\ \A q : IsOf(n, q)' <=> Comes(account.positions[n], q)
<1> USE DEF BooksInv
<1>1. AccountInv'
    BY DEF AccountInv, Held, Current
<1>2. EnteredInv' /\ EntitledInv'
    BY DEF EnteredInv, InSession, IsNew, Current, EntitledInv
<1>3. LimitsInv'
    BY DEF LimitsInv, InSession, WithinLimits, IsNew
<1>4. Turns = at /\ Turns' = at + 1 /\ at \in Nat \ {0} /\ InSession /\ InSession'
    BY DEF Turns, InputsInv, InSession
<1>5. \A p, q : Comes(p, q)' <=> Comes(p, q)
    BY DEF Comes, Financing, Update, Transition, Date, Fx, Fits
<1>6. \A q : \A i \in Nat : i < at => (IsOf(i, q)' <=> IsOf(i, q))
    BY <1>4, <1>5 DEF IsOf
<1>7. \A q : \A i \in Nat : i > at => (IsOf(i, q)' <=> IsOf(i, q))
    BY <1>4, <1>5 DEF IsOf
<1>8. \A q : IsOf(n, q)' <=> Comes(account.positions[n], q)
    BY <1>4, <1>5 DEF IsOf
<1>9. QED
    BY <1>1, <1>2, <1>3, <1>4, <1>6, <1>7, <1>8

LEMMA CloseBooks ==
    ASSUME BooksInv, LimitsInv, InputsInv', NEW p, Turn(p), Usable(p),
           NEW price \in Int, CloseAt(p, price)
    PROVE  BooksInv' /\ LimitsInv'
<1> USE DEF BooksInv
<1>1. PICK h : h = Holds(advanced, p)
    OBVIOUS
<1>2. /\ phase = "advance" /\ at \in DOMAIN account.positions /\ p = account.positions[at]
      /\ p \in Position /\ day.bars[p.symbol] # NoBar
      /\ h \in DOMAIN advanced.positions /\ advanced.positions[h] = p
    BY <1>1, TurnFacts
<1>3. /\ advanced' = Closed(advanced, p, price, Financing(p)) /\ at' = at + 1
      /\ phase' = phase
      /\ UNCHANGED <<calendar, flows, session, day, account, entered, entitled>>
    BY Zenon DEF CloseAt
<1>4. /\ AccountInv' /\ EnteredInv' /\ EntitledInv' /\ LimitsInv'
      /\ Turns = at /\ Turns' = at + 1 /\ at \in Nat \ {0} /\ InSession /\ InSession'
      /\ \A q : \A i \in Nat : i < at => (IsOf(i, q)' <=> IsOf(i, q))
      /\ \A q : \A i \in Nat : i > at => (IsOf(i, q)' <=> IsOf(i, q))
    BY <1>2, <1>3, TurnFrame
<1>5. PICK list \in Seq(Position) : list = advanced.positions
    BY AccountFields DEF AdvancedInv
<1>6. PICK held \in Seq(Position) : held = account.positions
    BY AccountFields DEF AccountInv
<1>7. /\ advanced' \in Account /\ advanced'.positions = Without(list, h)
      /\ advanced'.cash + Deposits(advanced'.positions) - advanced'.realized
           = advanced.cash + Deposits(advanced.positions) - advanced.realized
    BY <1>1, <1>2, <1>3, <1>5, ClosedTyped DEF AdvancedInv
<1>8. PICK new \in Seq(Position) :
         /\ new = advanced'.positions /\ Len(new) = Len(list) - 1 /\ DOMAIN new = 1..Len(new)
         /\ \A j \in DOMAIN new : new[j] = list[IF j < h THEN j ELSE j + 1]
                                  /\ (IF j < h THEN j ELSE j + 1) \in DOMAIN list \ {h}
    BY <1>2, <1>5, <1>7, WithoutTyped
<1>9. /\ DOMAIN list = 1..Len(list) /\ Len(list) \in Nat /\ DOMAIN held = 1..Len(held)
      /\ Distinct(list) /\ Distinct(held)
      /\ \A i \in DOMAIN held : i >= at => \E j \in DOMAIN list : list[j] = held[i]
      /\ \A j \in DOMAIN list : \E i \in DOMAIN held : IsOf(i, list[j])
    BY <1>4, <1>5, <1>6 DEF AdvancedInv, AccountInv
<1>10. Distinct(new)
  <2>1. ASSUME NEW j \in DOMAIN new, NEW k \in DOMAIN new, new[j].symbol = new[k].symbol
        PROVE  j = k
    <3>4. PICK a : a = (IF j < h THEN j ELSE j + 1)
      OBVIOUS
    <3>5. PICK b : b = (IF k < h THEN k ELSE k + 1)
      OBVIOUS
    <3>6. new[j] = list[a] /\ new[k] = list[b] /\ a \in DOMAIN list /\ b \in DOMAIN list
      BY <1>8, <3>4, <3>5
    <3>1. (IF j < h THEN j ELSE j + 1) = (IF k < h THEN k ELSE k + 1)
      BY <1>9, <2>1, <3>4, <3>5, <3>6 DEF Distinct
    <3>2. j \in Int /\ k \in Int /\ h \in Int
      BY <1>2, <1>5, <1>8, <1>9
    <3>3. QED
      BY <3>1, <3>2
  <2>2. QED
    BY <2>1 DEF Distinct
<1>11. ASSUME NEW i \in DOMAIN held, i >= at + 1
       PROVE  \E j \in DOMAIN new : new[j] = held[i]
  <2>1. i >= at /\ i # at
    BY <1>4, <1>9, <1>11
  <2>2. PICK j \in DOMAIN list : list[j] = held[i]
    BY <1>9, <2>1
  <2>3. j # h
    BY <1>2, <1>5, <1>6, <1>9, <2>1, <2>2 DEF Distinct
  <2>4. CASE j < h
    <3>1. j \in DOMAIN new
      BY <1>2, <1>5, <1>8, <1>9, <2>4
    <3>2. QED
      BY <1>8, <2>2, <2>4, <3>1
  <2>5. CASE ~(j < h)
    <3>1. j - 1 \in DOMAIN new /\ ~(j - 1 < h) /\ (j - 1) + 1 = j
      <4>1. PICK n \in Nat : n = Len(list)
        BY <1>9
      <4>2. j \in 1..n /\ h \in 1..n /\ DOMAIN new = 1..(n - 1)
        BY <1>2, <1>5, <1>8, <1>9, <2>2, <4>1
      <4>3. QED
        BY ONLY <2>3, <2>5, <4>1, <4>2
    <3>2. QED
      BY <1>8, <2>2, <3>1
  <2>6. QED
    BY <2>4, <2>5
<1>12. ASSUME NEW j \in DOMAIN new PROVE \E i \in DOMAIN held : IsOf(i, new[j])'
  <2>1. PICK k \in DOMAIN list : k # h /\ new[j] = list[k]
    BY <1>8
  <2>2. PICK i \in DOMAIN held : IsOf(i, list[k])
    BY <1>9
  <2>3. i # at
    <3> SUFFICES ASSUME i = at PROVE FALSE
      OBVIOUS
    <3>1. list[k] = p
      BY <1>2, <1>4, <2>2 DEF IsOf
    <3>2. QED
      BY <1>2, <1>5, <1>9, <2>1, <3>1 DEF Distinct
  <2>4. i \in Nat /\ (i < at \/ i > at)
    BY <1>4, <1>9, <2>3
  <2>5. PICK q : q = list[k] /\ q = new[j]
    BY <2>1
  <2>6. IsOf(i, q)'
    BY <1>4, <2>2, <2>4, <2>5
  <2>7. QED
    BY <1>8, <2>5, <2>6
<1>13. AdvancedInv'
  <2>1. account'.positions = held
    BY <1>3, <1>6
  <2>2. QED
    BY <1>4, <1>7, <1>8, <1>10, <1>11, <1>12, <2>1 DEF AdvancedInv, Distinct
<1>14. MoneyInv'
  <2>1. /\ advanced.cash \in Int /\ advanced.realized \in Int /\ Deposits(list) \in Int
        /\ advanced'.cash \in Int /\ advanced'.realized \in Int /\ Deposits(new) \in Int
        /\ Capital \in Int
    BY <1>7, AccountFields, DepositsTyped, PolicyNumbers, MoneyTyped DEF AdvancedInv, Capital
  <2>2. advanced.cash + Deposits(list) = Capital + advanced.realized
    BY <1>4, <1>5 DEF MoneyInv
  <2>3. advanced'.cash + Deposits(new) - advanced'.realized
          = advanced.cash + Deposits(list) - advanced.realized
    BY <1>5, <1>7, <1>8
  <2>4. PICK a, b, c, d, e, f, z \in Int :
           /\ a = advanced.cash /\ b = Deposits(list) /\ c = advanced.realized
           /\ d = advanced'.cash /\ e = Deposits(new) /\ f = advanced'.realized
           /\ z = Capital
    BY <2>1
  <2>7. a + b = z + c /\ d + e - f = a + b - c
    BY <2>2, <2>3, <2>4
  <2>8. d + e = z + f
    BY <2>7
  <2>5. advanced'.cash + Deposits(new) = Capital + advanced'.realized
    BY <2>4, <2>8
  <2>6. QED
    BY <1>3, <1>4, <1>8, <2>5 DEF MoneyInv
<1>15. QED
    BY <1>4, <1>13, <1>14

\* A session a position stays open in.
LEMMA CarryBooks ==
    ASSUME BooksInv, LimitsInv, InputsInv', NEW p, Turn(p), Usable(p),
           NEW forced \in {"none", "deadline", "maintenance"}, NEW exit \in {"none", "rule"},
           CarryOn(p, forced, exit)
    PROVE  BooksInv' /\ LimitsInv'
<1> USE DEF BooksInv
<1>1. PICK h : h = Holds(advanced, p)
    OBVIOUS
<1>2. /\ phase = "advance" /\ at \in DOMAIN account.positions /\ p = account.positions[at]
      /\ p \in Position /\ p.opened \in 1..session
      /\ day.bars[p.symbol] # NoBar /\ Fits(p, Update(p))
      /\ h \in DOMAIN advanced.positions /\ advanced.positions[h] = p
    BY <1>1, TurnFacts
<1>3. PICK q \in Position :
         /\ q = Carried(p, forced, exit) /\ q.margin = p.margin /\ q.fee = p.fee
         /\ q.symbol = p.symbol /\ q.opened = p.opened /\ q.mode = p.mode
         /\ q.accrued = p.accrued + Financing(p) /\ q.accruedTo = Date
         /\ q.terms = Update(p) /\ q.fx = Fx(p.symbol)
    BY <1>2, CarriedTyped
<1>4. Comes(p, q)
    BY <1>2, <1>3 DEF Comes
<1>5. /\ advanced' = [advanced EXCEPT !.positions[h] = q] /\ at' = at + 1
      /\ phase' = phase
      /\ UNCHANGED <<calendar, flows, session, day, account, entered, entitled>>
    BY <1>1, <1>3, Zenon DEF CarryOn
<1>6. PICK n : n = at
    OBVIOUS
<1>7. /\ AccountInv' /\ EnteredInv' /\ EntitledInv' /\ LimitsInv'
      /\ Turns = at /\ Turns' = at + 1 /\ at \in Nat \ {0} /\ InSession /\ InSession'
      /\ \A r : \A i \in Nat : i < at => (IsOf(i, r)' <=> IsOf(i, r))
      /\ \A r : \A i \in Nat : i > at => (IsOf(i, r)' <=> IsOf(i, r))
      /\ \A r : IsOf(n, r)' <=> Comes(account.positions[n], r)
    BY <1>2, <1>5, <1>6, TurnFrame
<1>8. PICK list \in Seq(Position) : list = advanced.positions
    BY AccountFields DEF AdvancedInv
<1>9. PICK held \in Seq(Position) : held = account.positions
    BY AccountFields DEF AccountInv
<1>10. PICK new \in Seq(Position) : new = [list EXCEPT ![h] = q]
  <2>1. PICK k \in Nat : k = Len(list) /\ DOMAIN list = 1..k
    OBVIOUS
  <2>2. \A j \in 1..k : list[j] \in Position
    BY <2>1
  <2>3. [list EXCEPT ![h] = q] = [j \in 1..k |-> IF j = h THEN q ELSE list[j]]
    BY <2>1
  <2>4. \A j \in 1..k : (IF j = h THEN q ELSE list[j]) \in Position
    BY <1>3, <2>2
  <2>5. [j \in 1..k |-> IF j = h THEN q ELSE list[j]] \in Seq(Position)
    BY <2>1, <2>4
  <2>6. QED
    BY <2>3, <2>5
<1>11. /\ DOMAIN new = DOMAIN list /\ new[h] = q /\ h \in DOMAIN list /\ list[h] = p
       /\ \A j \in DOMAIN list : j # h => new[j] = list[j]
    BY <1>2, <1>8, <1>10
<1>12. /\ advanced' \in Account /\ advanced'.positions = new
       /\ advanced'.cash = advanced.cash /\ advanced'.realized = advanced.realized
    BY <1>5, <1>8, <1>10 DEF AdvancedInv, Account
<1>13. /\ DOMAIN held = 1..Len(held) /\ Len(held) \in Nat
       /\ Distinct(list) /\ Distinct(held)
       /\ \A i \in DOMAIN held : i >= at => \E j \in DOMAIN list : list[j] = held[i]
       /\ \A j \in DOMAIN list : \E i \in DOMAIN held : IsOf(i, list[j])
    BY <1>7, <1>8, <1>9 DEF AdvancedInv, AccountInv
<1>14. Distinct(new)
  <2>1. \A j \in DOMAIN list : new[j].symbol = list[j].symbol
    BY <1>3, <1>11
  <2>2. QED
    BY <1>11, <1>13, <2>1 DEF Distinct
<1>15. ASSUME NEW i \in DOMAIN held, i >= at + 1
       PROVE  \E j \in DOMAIN new : new[j] = held[i]
  <2>1. i >= at /\ i # at
    BY <1>7, <1>13, <1>15
  <2>2. PICK j \in DOMAIN list : list[j] = held[i]
    BY <1>13, <2>1
  <2>3. j # h
    BY <1>2, <1>9, <1>11, <1>13, <2>1, <2>2 DEF Distinct
  <2>4. QED
    BY <1>11, <2>2, <2>3
<1>16. ASSUME NEW j \in DOMAIN new PROVE \E i \in DOMAIN held : IsOf(i, new[j])'
  <2>1. CASE j = h
    <3>1. n \in DOMAIN held /\ account.positions[n] = p /\ new[j] = q
      BY <1>2, <1>6, <1>9, <1>11, <2>1
    <3>2. IsOf(n, q)'
      BY <1>4, <1>7, <3>1
    <3>3. QED
      BY <3>1, <3>2
  <2>2. CASE j # h
    <3>1. PICK r : r = list[j] /\ r = new[j]
      BY <1>11, <2>2
    <3>2. PICK i \in DOMAIN held : IsOf(i, r)
      BY <1>11, <1>13, <3>1
    <3>3. i # at
      <4> SUFFICES ASSUME i = at PROVE FALSE
        OBVIOUS
      <4>1. r = p
        BY <1>2, <1>7, <3>2 DEF IsOf
      <4>2. QED
        BY <1>11, <1>13, <2>2, <3>1, <4>1 DEF Distinct
    <3>4. i \in Nat /\ (i < at \/ i > at)
      BY <1>7, <1>13, <3>3
    <3>5. IsOf(i, r)'
      BY <1>7, <3>2, <3>4
    <3>6. QED
      BY <3>1, <3>5
  <2>3. QED
    BY <2>1, <2>2
<1>17. AdvancedInv'
  <2>1. account'.positions = held
    BY <1>5, <1>9
  <2>2. QED
    BY <1>7, <1>12, <1>14, <1>15, <1>16, <2>1 DEF AdvancedInv, Distinct
<1>18. MoneyInv'
  <2>1. \A i \in DOMAIN list : new[i].margin = list[i].margin /\ new[i].fee = list[i].fee
    BY <1>3, <1>11
  <2>2. Deposits(new) = Deposits(list)
    BY <1>11, <2>1, SameDeposits
  <2>3. QED
    BY <1>5, <1>7, <1>8, <1>12, <2>2 DEF MoneyInv
<1>19. QED
    BY <1>7, <1>17, <1>18

LEMMA AdvanceBooks ==
    ASSUME BooksInv, LimitsInv, InputsInv', NEW p, Advance(p)
    PROVE  BooksInv' /\ LimitsInv'
<1>1. CASE Fail(p)
  <2>1. /\ phase = "advance" /\ phase' = "failed"
        /\ UNCHANGED <<calendar, flows, session, day, account, entered, advanced, entitled>>
    BY <1>1, Zenon DEF Fail, Turn
  <2>2. QED
    BY <2>1, QuietBooks
<1>2. ASSUME Turn(p), Usable(p)
      PROVE  /\ p \in Position /\ day.bars[p.symbol] # NoBar /\ p.exit \in {"none", "rule"}
             /\ ForcedReason(Renewed(p)) \in {"none", "deadline", "maintenance"}
             /\ day.bars[p.symbol].open \in Int /\ RegularExit(p) \in Int
  <2>1. PICK h : h = Holds(advanced, p)
    OBVIOUS
  <2>2. /\ phase = "advance" /\ p \in Position /\ p.opened \in 1..session
        /\ day.bars[p.symbol] # NoBar /\ InputsInv
    BY <1>2, <2>1, TurnFacts DEF BooksInv
  <2>3. PICK r \in Position : r = Renewed(p)
    BY <2>2, RenewedTyped
  <2>4. ForcedReason(r) \in {"none", "deadline", "maintenance"}
    BY PositionFields DEF ForcedReason
  <2>5. day.bars[p.symbol].open \in Int /\ RegularExit(p) \in Int
    BY <2>2, ExitTyped
  <2>6. QED
    BY <2>2, <2>3, <2>4, <2>5, PositionFields
<1>3. CASE ClosePending(p)
  <2>1. Turn(p) /\ Usable(p) /\ CloseAt(p, day.bars[p.symbol].open)
    BY <1>3, Zenon DEF ClosePending
  <2>2. PICK price \in Int : price = day.bars[p.symbol].open
    BY <1>2, <2>1
  <2>3. CloseAt(p, price)
    BY <2>1, <2>2
  <2>4. QED
    BY <2>1, <2>3, CloseBooks
<1>4. CASE CloseByRule(p)
  <2>1. Turn(p) /\ Usable(p) /\ CloseAt(p, RegularExit(p))
    BY <1>4, Zenon DEF CloseByRule
  <2>2. PICK price \in Int : price = RegularExit(p)
    BY <1>2, <2>1
  <2>3. CloseAt(p, price)
    BY <2>1, <2>2
  <2>4. QED
    BY <2>1, <2>3, CloseBooks
<1>5. CASE DeferPending(p)
  <2>1. Turn(p) /\ Usable(p) /\ CarryOn(p, ForcedReason(Renewed(p)), p.exit)
    BY <1>5, Zenon DEF DeferPending
  <2>2. PICK forced \in {"none", "deadline", "maintenance"} : forced = ForcedReason(Renewed(p))
    BY <1>2, <2>1
  <2>3. PICK exit \in {"none", "rule"} : exit = p.exit
    BY <1>2, <2>1
  <2>4. CarryOn(p, forced, exit)
    BY <2>1, <2>2, <2>3
  <2>5. QED
    BY <2>1, <2>4, CarryBooks
<1>6. CASE DeferExit(p)
  <2>1. Turn(p) /\ Usable(p) /\ CarryOn(p, "none", "rule")
    BY <1>6, Zenon DEF DeferExit
  <2>2. QED
    BY <2>1, CarryBooks
<1>7. CASE Hold(p)
  <2>1. Turn(p) /\ Usable(p) /\ CarryOn(p, "none", "none")
    BY <1>7, Zenon DEF Hold
  <2>2. QED
    BY <2>1, CarryBooks
<1>8. QED
    BY <1>1, <1>3, <1>4, <1>5, <1>6, <1>7, Zenon DEF Advance

-----------------------------------------------------------------------------
(* The end of a session.                                                   *)

\* Dividends are finitely many, and what they pay is a number.
LEMMA PaidTyped ==
    ASSUME BooksInv, phase = "advance"
    PROVE  /\ IsFiniteSet(entitled \cup NewlyEntitled)
           /\ \A e \in entitled \cup NewlyEntitled :
                 e.sign \in {-1, 1} /\ e.quantity \in Nat /\ e.flow.amount \in Nat
           /\ Paid \in Int
<1> USE DEF BooksInv
<1>1. PICK list \in Seq(Position) : list = account.positions
    BY AccountFields DEF AccountInv
<1>2. IsFiniteSet(DOMAIN list) /\ \A i \in DOMAIN list : list[i] \in Position
    BY DomainOfList
<1>3. IsFiniteSet(flows) /\ \A f \in flows : f.amount \in Nat
    BY InputsAssumption DEF InputsInv
<1>4. PICK held : held = {x \in flows \X DOMAIN list : EntitledTo(x[1], list[x[2]])}
    OBVIOUS
<1>5. IsFiniteSet(held)
  <2>1. IsFiniteSet(flows \X DOMAIN list)
    BY <1>2, <1>3, FS_Product
  <2>2. held \in SUBSET (flows \X DOMAIN list)
    BY <1>4
  <2>3. QED
    BY <2>1, <2>2, FS_Subset
<1>6. PICK g : g = [x \in held |-> [flow |-> x[1], quantity |-> list[x[2]].quantity,
                                    sign |-> Direction(list[x[2]].mode)]]
    OBVIOUS
<1>7. PICK new : new = {g[x] : x \in held}
    OBVIOUS
<1>8. NewlyEntitled = new
    BY <1>1, <1>4, <1>6, <1>7 DEF NewlyEntitled
<1>9. IsFiniteSet(new)
  <2>1. g \in [held -> new] /\ \A e \in new : \E x \in held : g[x] = e
    BY <1>6, <1>7
  <2>2. g \in Surjection(held, new)
    BY <2>1 DEF Surjection
  <2>3. QED
    BY <1>5, <2>2, FS_Surjection
<1>10. \A e \in new : e.sign \in {-1, 1} /\ e.quantity \in Nat /\ e.flow.amount \in Nat
  <2>1. ASSUME NEW x \in held
        PROVE  g[x].sign \in {-1, 1} /\ g[x].quantity \in Nat /\ g[x].flow.amount \in Nat
    <3>1. x[1] \in flows /\ x[2] \in DOMAIN list
      BY <1>4
    <3>2. list[x[2]].quantity \in Nat /\ Direction(list[x[2]].mode) \in {-1, 1}
      BY <1>2, <3>1, PositionFields, Directions
    <3>3. QED
      BY <1>3, <1>6, <3>1, <3>2
  <2>2. QED
    BY <1>7, <2>1
<1>11. IsFiniteSet(entitled) /\ \A e \in entitled :
          e.sign \in {-1, 1} /\ e.quantity \in Nat /\ e.flow.amount \in Nat
    BY DEF EntitledInv
<1>12. IsFiniteSet(entitled \cup NewlyEntitled)
    BY <1>8, <1>9, <1>11, FS_Union
<1>13. \A e \in entitled \cup NewlyEntitled :
          e.sign \in {-1, 1} /\ e.quantity \in Nat /\ e.flow.amount \in Nat
    BY <1>8, <1>10, <1>11
<1>14. PICK payable : payable = {e \in entitled \cup NewlyEntitled : e.flow.paid = session}
    OBVIOUS
<1>15. IsFiniteSet(payable)
    BY <1>12, <1>14, FS_Subset
<1>16. ASSUME NEW e \in payable PROVE e.sign * Money(e.quantity * e.flow.amount) \in Int
  <2>1. e.sign \in Int /\ e.quantity \in Nat /\ e.flow.amount \in Nat
    BY <1>13, <1>14
  <2>2. PICK amount \in Nat : amount = e.quantity * e.flow.amount
    BY <2>1, TimesNat
  <2>3. PICK money \in Nat : money = Money(amount)
    BY MoneyTyped
  <2>4. e.sign * money \in Int
    BY <2>1, TimesInt
  <2>5. QED
    BY <2>2, <2>3, <2>4
<1>17. PICK f : f = [e \in payable |-> e.sign * Money(e.quantity * e.flow.amount)]
    OBVIOUS
<1>18. IsAmounts(f)
    BY <1>15, <1>16, <1>17 DEF IsAmounts
<1>19. Paid = Sum(f)
    BY <1>14, <1>17, Zenon DEF Paid
<1>20. QED
    BY <1>12, <1>13, <1>18, <1>19, SumIsInt

\* What a list has beyond another one it begins with.
Begins(list, held) ==
    Len(held) <= Len(list) /\ \A i \in DOMAIN held : list[i] = held[i]

IsRest(rest, list, held) == rest = SubSeq(list, Len(held) + 1, Len(list))

LEMMA RestTyped ==
    ASSUME NEW held \in Seq(Position), NEW list \in Seq(Position), Begins(list, held),
           NEW rest, IsRest(rest, list, held)
    PROVE  /\ rest \in Seq(Position) /\ DOMAIN rest = 1..(Len(list) - Len(held))
           /\ \A i \in DOMAIN rest : /\ i + Len(held) \in DOMAIN list /\ i + Len(held) > Len(held)
                                     /\ rest[i] = list[i + Len(held)]
           /\ Deposits(list) = Deposits(held) + Deposits(rest)
<1>1. PICK m \in Nat : m = Len(held) /\ DOMAIN held = 1..m
    OBVIOUS
<1>2. PICK n \in Nat : n = Len(list) /\ DOMAIN list = 1..n
    OBVIOUS
<1>3. m <= n /\ \A i \in 1..m : list[i] = held[i]
    BY <1>1, <1>2 DEF Begins
<1>4. rest = [i \in 1..(n - m) |-> list[i + m]]
  <2>1. rest = [i \in 1..(n - (m + 1) + 1) |-> list[i + (m + 1) - 1]]
    BY <1>1, <1>2, <1>3 DEF IsRest
  <2>2. n - (m + 1) + 1 = n - m /\ \A i \in 1..(n - m) : i + (m + 1) - 1 = i + m
    BY <1>1, <1>2
  <2>3. QED
    BY <2>1, <2>2
<1>5. \A i \in 1..(n - m) : i + m \in 1..n /\ i + m > m /\ list[i + m] \in Position
    BY <1>1, <1>2
<1>6. PICK new \in Seq(Position) : new = rest /\ Len(new) = n - m /\ DOMAIN new = 1..(n - m)
  <2>1. PICK k \in Nat : k = n - m
    BY <1>1, <1>2, <1>3
  <2>2. \A i \in 1..k : list[i + m] \in Position
    BY <1>5, <2>1
  <2>3. rest = [i \in 1..k |-> list[i + m]]
    BY <1>4, <2>1
  <2>4. rest \in Seq(Position) /\ Len(rest) = k /\ DOMAIN rest = 1..k
    BY <2>1, <2>2, <2>3
  <2>5. QED
    BY <2>1, <2>4
<1>7. PICK all : all = held \o new
    OBVIOUS
<1>8. /\ DOMAIN all = 1..n /\ \A i \in 1..m : all[i] = held[i]
      /\ \A i \in 1..(n - m) : all[i + m] = new[i]
      /\ Deposits(all) = Deposits(held) + Deposits(new)
  <2>1. /\ Len(all) = Len(held) + Len(new) /\ DOMAIN all = 1..Len(all)
        /\ \A i \in DOMAIN held : all[i] = held[i]
        /\ \A i \in DOMAIN new : all[i + Len(held)] = new[i]
        /\ Deposits(all) = Deposits(held) + Deposits(new)
    <3>1. Len(all) = Len(held) + Len(new) /\ DOMAIN all = 1..Len(all)
      <4>1. Len(all) = Len(held) + Len(new)
        BY <1>6, <1>7, JoinedTyped
      <4>2. all \in Seq(Position)
        BY <1>6, <1>7, JoinedTyped
      <4>3. QED
        BY <4>1, <4>2
    <3>2. \A i \in DOMAIN held : all[i] = held[i]
      BY <1>6, <1>7, JoinedTyped
    <3>3. \A i \in DOMAIN new : all[i + Len(held)] = new[i]
      BY <1>6, <1>7, JoinedTyped
    <3>4. Deposits(all) = Deposits(held) + Deposits(new)
      BY <1>6, <1>7, JoinedTyped
    <3>5. QED
      BY <3>1, <3>2, <3>3, <3>4
  <2>2. Len(all) = n
    BY <1>1, <1>2, <1>6, <2>1
  <2>3. QED
    BY <1>1, <1>6, <2>1, <2>2
<1>9. ASSUME NEW i \in 1..n PROVE all[i] = list[i]
  <2>1. CASE i <= m
    BY <1>1, <1>2, <1>3, <1>8, <2>1
  <2>2. CASE i > m
    <3>1. i - m \in 1..(n - m) /\ (i - m) + m = i
      BY <1>1, <1>2, <2>2
    <3>2. QED
      BY <1>4, <1>6, <1>8, <3>1
  <2>3. QED
    BY <1>1, <1>2, <2>1, <2>2
<1>10. DepositsOf(all) = DepositsOf(list)
    BY <1>2, <1>8, <1>9 DEF DepositsOf
<1>11. Deposits(list) = Deposits(held) + Deposits(new)
    BY <1>8, <1>10 DEF Deposits
<1>12. \A i \in DOMAIN rest : /\ i + m \in DOMAIN list /\ i + m > m
                              /\ rest[i] = list[i + m]
    BY <1>2, <1>4, <1>5, <1>6
<1>13. QED
    BY <1>1, <1>2, <1>6, <1>11, <1>12

\* What was opened today is the rest of the copy the entries were made on.
LEMMA NewTyped ==
    ASSUME BooksInv, InSession, NEW new, new = NewPositions
    PROVE  /\ new \in Seq(Position)
           /\ \A i \in DOMAIN new :
                 /\ IsNew(i + Len(account.positions))
                 /\ new[i] = entered.positions[i + Len(account.positions)]
           /\ Deposits(entered.positions) = Deposits(account.positions) + Deposits(new)
           /\ \A i, j \in DOMAIN new :
                 i + Len(account.positions) = j + Len(account.positions) => i = j
<1> USE DEF BooksInv
<1>1. PICK held \in Seq(Position) : held = account.positions
    BY AccountFields DEF AccountInv
<1>2. PICK list \in Seq(Position) : list = entered.positions
    BY AccountFields DEF EnteredInv
<1>3. Begins(list, held)
    BY <1>1, <1>2 DEF EnteredInv, Begins
<1>4. IsRest(new, list, held)
    BY <1>1, <1>2 DEF NewPositions, IsRest
<1>5. /\ new \in Seq(Position) /\ DOMAIN new = 1..(Len(list) - Len(held))
      /\ \A i \in DOMAIN new : /\ i + Len(held) \in DOMAIN list /\ i + Len(held) > Len(held)
                               /\ new[i] = list[i + Len(held)]
      /\ Deposits(list) = Deposits(held) + Deposits(new)
    BY <1>3, <1>4, RestTyped
<1>6. \A i, j \in DOMAIN new : i + Len(held) = j + Len(held) => i = j
    BY <1>5
<1>7. QED
    BY <1>1, <1>2, <1>5, <1>6 DEF IsNew

\* Where a position at the end of a session comes from.
OldOne(q) == \E i \in DOMAIN account.positions : Comes(account.positions[i], q)

NewOne(q) ==
    /\ \E i \in DOMAIN entered.positions :
          IsNew(i) /\ q.symbol = entered.positions[i].symbol
    /\ q.opened = session /\ Current(q, session) /\ day.bars[q.symbol] # NoBar

LEMMA KeptOrigin ==
    ASSUME NEW q, NEW r, Kept(q, r), OldOne(q) => r.fx = q.fx
    PROVE  (OldOne(q) => OldOne(r)) /\ (NewOne(q) => NewOne(r))
<1>1. ASSUME OldOne(q) PROVE OldOne(r)
  <2>1. PICK i \in DOMAIN account.positions : Comes(account.positions[i], q)
    BY <1>1 DEF OldOne
  <2>2. Comes(account.positions[i], r)
    BY <1>1, <2>1 DEF Comes, Kept
  <2>3. QED
    BY <2>2 DEF OldOne
<1>2. ASSUME NewOne(q) PROVE NewOne(r)
    BY <1>2 DEF NewOne, Kept, Current
<1>3. QED
    BY <1>1, <1>2

\* An old position is not one opened today.
LEMMA OriginsDiffer ==
    ASSUME BooksInv, InSession, NEW q, OldOne(q)
    PROVE  /\ q.opened # session /\ Current(q, session)
           /\ \A r : NewOne(r) => r.symbol # q.symbol
<1> USE DEF BooksInv
<1>1. PICK i \in DOMAIN account.positions : Comes(account.positions[i], q)
    BY DEF OldOne
<1>2. PICK p \in Position : p = account.positions[i]
    BY <1>1, AccountFields DEF AccountInv
<1>3. /\ session \in Nat /\ phase # "night" /\ session > 0
      /\ p.opened \in 1..(session - 1)
      /\ p.accruedTo = calendar[session - 1] /\ p.terms.from <= calendar[session - 1]
    BY <1>1, <1>2, InputsAssumption DEF AccountInv, Current, Held, InSession, InputsInv
<1>4. q.opened = p.opened /\ q.accruedTo = Date /\ q.terms = Update(p) /\ Fits(p, Update(p))
    BY <1>1, <1>2 DEF Comes
<1>5. calendar[session - 1] <= Date /\ calendar[session - 1] \in Nat /\ Date \in Nat
  <2>1. calendar \in Calendars /\ session - 1 \in 1..(Len(calendar) - 1)
    <3>1. Len(calendar) \in Nat /\ session \in 0..Len(calendar) /\ session - 1 >= 1
      BY <1>3, InputsAssumption DEF InputsInv
    <3>2. QED
      BY <1>3, <3>1 DEF InputsInv
  <2>2. calendar[session - 1] < calendar[(session - 1) + 1] /\ (session - 1) + 1 = session
    BY <1>3, <2>1, InputsAssumption
  <2>3. calendar[session] \in Nat /\ calendar[session - 1] \in Nat
    BY <1>3, DateTyped
  <2>4. QED
    BY <2>2, <2>3 DEF Date
<1>6. q.terms.from <= Date
  <2>1. CASE Update(p) = p.terms
    <3>1. p.terms.from \in Nat
      BY PositionFields, TermsTyped
    <3>2. QED
      BY <1>3, <1>4, <1>5, <2>1, <3>1
  <2>2. CASE Update(p) # p.terms
    BY <1>4, <2>2 DEF Fits
  <2>3. QED
    BY <2>1, <2>2
<1>7. q.opened # session /\ Current(q, session)
  <2>1. q.opened \in 1..session /\ q.opened # session
    BY <1>3, <1>4
  <2>2. QED
    BY <1>4, <1>6, <2>1 DEF Current, Date
<1>8. ASSUME NEW r, NewOne(r) PROVE r.symbol # q.symbol
  <2>1. PICK j \in DOMAIN entered.positions :
           IsNew(j) /\ r.symbol = entered.positions[j].symbol
    BY <1>8 DEF NewOne
  <2>2. PICK m \in Nat : m = Len(account.positions) /\ DOMAIN account.positions = 1..m
    BY AccountFields DEF AccountInv
  <2>3. PICK n \in Nat : n = Len(entered.positions) /\ DOMAIN entered.positions = 1..n
    BY AccountFields DEF EnteredInv
  <2>4. m <= n /\ Distinct(entered.positions) /\ entered.positions[i] = account.positions[i]
    BY <1>1, <2>2, <2>3 DEF EnteredInv
  <2>5. i \in 1..m /\ i \in 1..n /\ j \in 1..n /\ j > m
    BY <1>1, <2>1, <2>2, <2>3, <2>4 DEF IsNew
  <2>6. i # j
    BY <2>2, <2>5
  <2>7. entered.positions[i].symbol # entered.positions[j].symbol
    BY <2>3, <2>4, <2>5, <2>6 DEF Distinct
  <2>8. QED
    BY <1>1, <1>2, <2>1, <2>4, <2>7 DEF Comes
<1>9. QED
    BY <1>7, <1>8

\* The merge of the two copies.
LEMMA MergedTyped ==
    ASSUME BooksInv, phase = "advance", at > Len(account.positions),
           NEW list, list = MergedPositions
    PROVE  /\ list \in Seq(Position) /\ Distinct(list)
           /\ \A i \in DOMAIN list : OldOne(list[i]) \/ NewOne(list[i])
           /\ Deposits(list) = Deposits(advanced.positions) + Deposits(NewPositions)
<1> USE DEF BooksInv
<1>1. PICK held \in Seq(Position) : held = advanced.positions
    BY AccountFields DEF AdvancedInv
<1>2. PICK old \in Seq(Position) :
         /\ old = Maintained(held) /\ DOMAIN old = DOMAIN held
         /\ \A i \in DOMAIN held : Kept(held[i], old[i]) /\ old[i].fx = held[i].fx
         /\ Deposits(old) = Deposits(held)
    BY <1>1, MaintainedTyped
<1>3. InSession
    BY DEF InSession
<1>4. PICK m \in Nat : m = Len(account.positions) /\ DOMAIN account.positions = 1..m
    BY AccountFields DEF AccountInv
<1>5. PICK new \in Seq(Position) :
         /\ new = NewPositions
         /\ \A i \in DOMAIN new : IsNew(i + m) /\ new[i] = entered.positions[i + m]
         /\ \A i, j \in DOMAIN new : i + m = j + m => i = j
    BY <1>3, <1>4, NewTyped
<1>6. ASSUME NEW i \in DOMAIN old PROVE OldOne(old[i])
  <2>1. PICK k \in DOMAIN account.positions : IsOf(k, held[i])
    BY <1>1, <1>2, <1>3, <1>6 DEF AdvancedInv
  <2>2. ~(k >= Turns)
    BY <1>4, <2>1 DEF Turns, InputsInv
  <2>3. OldOne(held[i])
    BY <2>1, <2>2 DEF IsOf, OldOne
  <2>4. Kept(held[i], old[i]) /\ old[i].fx = held[i].fx
    BY <1>2, <1>6
  <2>5. QED
    BY <2>3, <2>4, KeptOrigin
<1>7. \A i \in DOMAIN new : NewOne(new[i])
  <2>1. ASSUME NEW i \in DOMAIN new PROVE NewOne(new[i])
    <3>1. PICK j : j = i + m /\ IsNew(j) /\ new[i] = entered.positions[j]
      BY <1>5
    <3>2. j \in DOMAIN entered.positions
      BY <3>1 DEF IsNew
    <3>3. /\ new[i].opened = session /\ Current(new[i], session)
          /\ day.bars[new[i].symbol] # NoBar
      BY <1>3, <3>1, <3>2 DEF EnteredInv
    <3>4. QED
      BY <3>1, <3>2, <3>3 DEF NewOne
  <2>2. QED
    BY <2>1
<1>8. Distinct(old)
  <2>1. Distinct(held)
    BY <1>1, <1>3 DEF AdvancedInv
  <2>2. \A i \in DOMAIN held : old[i].symbol = held[i].symbol
    BY <1>2 DEF Kept
  <2>3. QED
    BY <1>2, <2>1, <2>2 DEF Distinct
<1>9. Distinct(new)
  <2>1. ASSUME NEW i \in DOMAIN new, NEW j \in DOMAIN new, new[i].symbol = new[j].symbol
        PROVE  i = j
    <3>1. PICK a : a = i + m /\ IsNew(a) /\ new[i] = entered.positions[a]
      BY <1>5
    <3>2. PICK b : b = j + m /\ IsNew(b) /\ new[j] = entered.positions[b]
      BY <1>5
    <3>3. Distinct(entered.positions)
      BY <1>3 DEF EnteredInv
    <3>4. a = b
      BY <2>1, <3>1, <3>2, <3>3 DEF Distinct, IsNew
    <3>5. i + m = j + m
      BY <3>1, <3>2, <3>4
    <3>6. QED
      BY <1>5, <3>5
  <2>2. QED
    BY <2>1 DEF Distinct
<1>10. list = old \o new
    BY <1>1, <1>2, <1>5 DEF MergedPositions
<1>10a. old \in Seq(Position) /\ new \in Seq(Position)
    BY <1>2, <1>5
<1>11. /\ \A i \in DOMAIN old : list[i] = old[i]
       /\ \A i \in DOMAIN new : list[i + Len(old)] = new[i]
  <2>1. \A i \in DOMAIN old : list[i] = old[i]
    BY <1>10, <1>10a, JoinedTyped
  <2>2. \A i \in DOMAIN new : list[i + Len(old)] = new[i]
    BY <1>10, <1>10a, JoinedTyped
  <2>3. QED
    BY <2>1, <2>2
<1>12. \A i \in DOMAIN list : i \in DOMAIN old \/ i - Len(old) \in DOMAIN new
    BY <1>10, <1>10a, JoinedTyped
<1>13. list \in Seq(Position) /\ Deposits(list) = Deposits(old) + Deposits(new)
  <2>1. list \in Seq(Position)
    BY <1>10, <1>10a, JoinedTyped
  <2>2. Deposits(list) = Deposits(old) + Deposits(new)
    BY <1>10, <1>10a, JoinedTyped
  <2>3. QED
    BY <2>1, <2>2
<1>14. PICK n \in Nat : n = Len(old)
    BY <1>2
<1>15. ASSUME NEW i \in DOMAIN list
       PROVE  /\ i \in Int
              /\ \/ i \in DOMAIN old /\ list[i] = old[i]
                 \/ i - n \in DOMAIN new /\ list[i] = new[i - n]
  <2>1. i \in Int /\ n \in Int
    BY <1>13, <1>14
  <2>2. CASE i \in DOMAIN old
    BY <1>11, <2>1, <2>2
  <2>3. CASE i - n \in DOMAIN new
    <3>1. (i - n) + n = i
      BY <2>1
    <3>2. list[(i - n) + n] = new[i - n]
      BY <1>11, <1>14, <2>3
    <3>3. QED
      BY <2>1, <2>3, <3>1, <3>2
  <2>4. QED
    BY <1>12, <1>14, <1>15, <2>2, <2>3
<1>16. ASSUME NEW i \in DOMAIN list PROVE OldOne(list[i]) \/ NewOne(list[i])
    BY <1>6, <1>7, <1>15
<1>17. ASSUME NEW q, OldOne(q), NEW r, NewOne(r) PROVE q.symbol # r.symbol
    BY <1>3, <1>17, OriginsDiffer
<1>18. Distinct(list)
  <2>1. ASSUME NEW i \in DOMAIN list, NEW j \in DOMAIN list, list[i].symbol = list[j].symbol
        PROVE  i = j
    <3>1. i \in Int /\ j \in Int /\ n \in Int
      BY <1>14, <1>15
    <3>2. CASE /\ i \in DOMAIN old /\ list[i] = old[i]
               /\ j \in DOMAIN old /\ list[j] = old[j]
      BY <1>8, <2>1, <3>2 DEF Distinct
    <3>3. CASE /\ i - n \in DOMAIN new /\ list[i] = new[i - n]
               /\ j - n \in DOMAIN new /\ list[j] = new[j - n]
      <4>1. PICK a : a = i - n
        OBVIOUS
      <4>2. PICK b : b = j - n
        OBVIOUS
      <4>3. a = b
        BY <1>9, <2>1, <3>3, <4>1, <4>2 DEF Distinct
      <4>4. QED
        BY <3>1, <4>1, <4>2, <4>3
    <3>4. CASE /\ i \in DOMAIN old /\ list[i] = old[i]
               /\ j - n \in DOMAIN new /\ list[j] = new[j - n]
      <4>1. OldOne(list[i]) /\ NewOne(list[j])
        BY <1>6, <1>7, <3>4
      <4>2. QED
        BY <1>17, <2>1, <4>1
    <3>5. CASE /\ j \in DOMAIN old /\ list[j] = old[j]
               /\ i - n \in DOMAIN new /\ list[i] = new[i - n]
      <4>1. OldOne(list[j]) /\ NewOne(list[i])
        BY <1>6, <1>7, <3>5
      <4>2. QED
        BY <1>17, <2>1, <4>1
    <3>6. QED
      BY <1>15, <3>2, <3>3, <3>4, <3>5
  <2>2. QED
    BY <2>1 DEF Distinct
<1>19. QED
    BY <1>1, <1>2, <1>5, <1>13, <1>16, <1>18

\* The positions a session ends with.
LEMMA SettledTyped ==
    ASSUME BooksInv, phase = "advance", at > Len(account.positions),
           NEW final, final = Maintained(MarkedToday(MergedPositions))
    PROVE  /\ final \in Seq(Position) /\ Distinct(final)
           /\ \A i \in DOMAIN final : OldOne(final[i]) \/ NewOne(final[i])
           /\ Deposits(final) = Deposits(advanced.positions) + Deposits(NewPositions)
           /\ Breached(final) => \A i \in MarginPositions(final) : final[i].forced # "none"
<1>1. PICK list \in Seq(Position) :
         /\ list = MergedPositions /\ Distinct(list)
         /\ \A i \in DOMAIN list : OldOne(list[i]) \/ NewOne(list[i])
         /\ Deposits(list) = Deposits(advanced.positions) + Deposits(NewPositions)
    BY MergedTyped
<1>2. InSession /\ InputsInv /\ phase # "night"
    BY DEF InSession, BooksInv
<1>3. \A i \in DOMAIN list : OldOne(list[i]) => list[i].opened # session
    BY <1>2, OriginsDiffer
<1>4. \A i \in DOMAIN list : list[i].opened = session => day.bars[list[i].symbol] # NoBar
    BY <1>1, <1>3 DEF NewOne
<1>5. PICK marked \in Seq(Position) :
         /\ marked = MarkedToday(list) /\ DOMAIN marked = DOMAIN list
         /\ \A i \in DOMAIN list : /\ Kept(list[i], marked[i])
                                   /\ list[i].opened # session => marked[i].fx = list[i].fx
         /\ Deposits(marked) = Deposits(list)
    BY <1>1, <1>2, <1>4, MarkedTyped
<1>6. \A i \in DOMAIN list : OldOne(marked[i]) \/ NewOne(marked[i])
    BY <1>1, <1>3, <1>5, KeptOrigin
<1>7. /\ final \in Seq(Position) /\ DOMAIN final = DOMAIN marked
      /\ \A i \in DOMAIN marked :
            /\ Kept(marked[i], final[i]) /\ final[i].fx = marked[i].fx
            /\ CurrentValue(final[i]) = CurrentValue(marked[i])
            /\ AccountEquity(final[i]) = AccountEquity(marked[i])
            /\ Breached(marked) /\ marked[i].mode \in Margin => final[i].forced # "none"
      /\ Deposits(final) = Deposits(marked)
  <2>1. final = Maintained(marked)
    BY <1>1, <1>5
  <2>2. QED
    BY <1>5, <2>1, MaintainedTyped
<1>8. \A i \in DOMAIN final : OldOne(final[i]) \/ NewOne(final[i])
    BY <1>5, <1>6, <1>7, KeptOrigin
<1>9. Distinct(final)
  <2>1. \A i \in DOMAIN list : final[i].symbol = list[i].symbol
    BY <1>5, <1>7 DEF Kept
  <2>2. QED
    BY <1>1, <1>5, <1>7, <2>1 DEF Distinct
<1>10. Breached(final) => Breached(marked)
  <2>1. PICK S : S = MarginPositions(marked)
    OBVIOUS
  <2>2. MarginPositions(final) = S
    BY <1>7, <2>1 DEF MarginPositions, Kept
  <2>3. \A i \in S : i \in DOMAIN marked
    BY <2>1 DEF MarginPositions
  <2>4. [i \in S |-> AccountEquity(final[i])] = [i \in S |-> AccountEquity(marked[i])]
    BY <1>7, <2>3
  <2>5. MarginEquity(final) = MarginEquity(marked)
    BY <2>1, <2>2, <2>4 DEF MarginEquity
  <2>6. [i \in S |-> (CurrentValue(final[i]) * final[i].terms.maintenance) \div Base]
          = [i \in S |-> (CurrentValue(marked[i]) * marked[i].terms.maintenance) \div Base]
    BY <1>7, <2>3 DEF Kept
  <2>7. MaintenanceRequired(final) = MaintenanceRequired(marked)
    BY <2>1, <2>2, <2>6 DEF MaintenanceRequired
  <2>8. QED
    BY <2>1, <2>2, <2>5, <2>7 DEF Breached
<1>11. Breached(final) => \A i \in MarginPositions(final) : final[i].forced # "none"
    BY <1>7, <1>10 DEF MarginPositions, Kept
<1>12. QED
    BY <1>1, <1>5, <1>7, <1>8, <1>9, <1>11

LEMMA SettleBooks == ASSUME BooksInv, Settle PROVE BooksInv' /\ LimitsInv' /\ BreachInv'
<1>1. InputsInv'
    BY InputsStep, Zenon DEF Next, BooksInv
<1>2. PICK final : final = Maintained(MarkedToday(MergedPositions))
    OBVIOUS
<1>3. /\ phase = "advance" /\ at > Len(account.positions)
      /\ account' = [cash |-> MergedCash + Paid, realized |-> advanced.realized + Paid,
                     positions |-> final]
      /\ entered' = account' /\ advanced' = account'
      /\ entitled' = entitled \cup NewlyEntitled
      /\ phase' = "night" /\ session' = session /\ calendar' = calendar
    BY <1>2, Zenon DEF Settle
<1>4. /\ final \in Seq(Position) /\ Distinct(final)
      /\ \A i \in DOMAIN final : OldOne(final[i]) \/ NewOne(final[i])
      /\ Deposits(final) = Deposits(advanced.positions) + Deposits(NewPositions)
      /\ Breached(final) => \A i \in MarginPositions(final) : final[i].forced # "none"
    BY <1>2, <1>3, SettledTyped
<1>5. InSession /\ InSession' = FALSE
    BY <1>3 DEF InSession
<1>6. /\ Paid \in Int /\ IsFiniteSet(entitled')
      /\ \A e \in entitled' :
            e.sign \in {-1, 1} /\ e.quantity \in Nat /\ e.flow.amount \in Nat
    BY <1>3, PaidTyped
<1>7. PICK paid \in Int : paid = Paid
    BY <1>6
<1>8. /\ account.cash \in Int /\ account.realized \in Int /\ entered.cash \in Int
      /\ advanced.cash \in Int /\ advanced.realized \in Int /\ Capital \in Int
      /\ Deposits(account.positions) \in Int /\ Deposits(advanced.positions) \in Int
  <2>1. account \in Account /\ entered \in Account /\ advanced \in Account
    BY DEF BooksInv, AccountInv, EnteredInv, AdvancedInv
  <2>2. account.positions \in Seq(Position) /\ advanced.positions \in Seq(Position)
    BY <2>1, AccountFields
  <2>3. /\ account.cash \in Int /\ account.realized \in Int /\ entered.cash \in Int
        /\ advanced.cash \in Int /\ advanced.realized \in Int
    BY <2>1, AccountFields
  <2>4. Deposits(account.positions) \in Int /\ Deposits(advanced.positions) \in Int
    BY <2>2, DepositsTyped
  <2>5. Capital \in Int
    BY PolicyNumbers, MoneyTyped DEF Capital
  <2>6. QED
    BY <2>3, <2>4, <2>5
<1>9. /\ Deposits(NewPositions) \in Int
      /\ Deposits(entered.positions) = Deposits(account.positions) + Deposits(NewPositions)
  <2>1. PICK new \in Seq(Position) :
           /\ new = NewPositions
           /\ Deposits(entered.positions) = Deposits(account.positions) + Deposits(new)
    BY <1>5, NewTyped
  <2>2. Deposits(new) \in Int
    BY <2>1, DepositsTyped
  <2>3. QED
    BY <2>1, <2>2
<1>10. PICK cash \in Int : cash = MergedCash + Paid
    BY <1>6, <1>8 DEF MergedCash
<1>11. PICK realized \in Int : realized = advanced.realized + Paid
    BY <1>6, <1>8
<1>12. /\ account' \in Account /\ account'.positions = final
       /\ account'.cash = cash /\ account'.realized = realized
    BY <1>3, <1>4, <1>10, <1>11 DEF Account
<1>13. \A i \in DOMAIN final : Current(final[i], session)
  <2>1. \A q : OldOne(q) => Current(q, session)
    BY <1>5, OriginsDiffer
  <2>2. QED
    BY <1>4, <2>1 DEF NewOne
<1>14. AccountInv'
    BY <1>3, <1>4, <1>12, <1>13 DEF AccountInv, Held, Current, Distinct
<1>15. EnteredInv' /\ AdvancedInv'
    BY <1>3, <1>5, <1>12 DEF EnteredInv, AdvancedInv
<1>16. EntitledInv'
    BY <1>6 DEF EntitledInv
<1>17. cash + Deposits(final) = Capital + realized
  <2>1. PICK before \in Int : before = account.cash
    BY <1>8
  <2>2. PICK in \in Int : in = entered.cash
    BY <1>8
  <2>3. PICK out \in Int : out = advanced.cash
    BY <1>8
  <2>4. PICK result \in Int : result = advanced.realized
    BY <1>8
  <2>5. PICK held \in Int : held = Deposits(account.positions)
    BY <1>8
  <2>6. PICK left \in Int : left = Deposits(advanced.positions)
    BY <1>8
  <2>7. PICK new \in Int : new = Deposits(NewPositions)
    BY <1>9
  <2>8. PICK capital \in Int : capital = Capital
    BY <1>8
  <2>9. in + Deposits(entered.positions) = before + held /\ out + left = capital + result
    BY <1>5, <2>1, <2>2, <2>3, <2>4, <2>5, <2>6, <2>8 DEF BooksInv, MoneyInv
  <2>10. Deposits(entered.positions) = held + new
    BY <1>9, <2>5, <2>7
  <2>11. in + (held + new) = before + held
    BY <2>9, <2>10
  <2>12. cash = in + (out - before) + paid /\ realized = result + paid
    BY <1>7, <1>10, <1>11, <2>1, <2>2, <2>3, <2>4 DEF MergedCash
  <2>13. cash + (left + new) = capital + realized
    BY <2>9, <2>11, <2>12
  <2>14. QED
    BY <1>4, <2>6, <2>7, <2>8, <2>13
<1>18. MoneyInv'
    BY <1>5, <1>12, <1>17 DEF MoneyInv
<1>19. LimitsInv'
    BY <1>5 DEF LimitsInv
<1>20. BreachInv'
    BY <1>4, <1>12 DEF BreachInv
<1>21. QED
    BY <1>1, <1>14, <1>15, <1>16, <1>18, <1>19, <1>20 DEF BooksInv

-----------------------------------------------------------------------------
(* The theorems.                                                           *)

LEMMA BooksStep ==
    ASSUME BooksInv, LimitsInv, BreachInv, [Next]_vars
    PROVE  BooksInv' /\ LimitsInv' /\ BreachInv'
<1>1. InputsInv'
    BY InputsStep DEF BooksInv
<1>2. CASE OpenSession
  <2>1. BooksInv' /\ LimitsInv'
    BY <1>2, OpenSessionBooks
  <2>2. BreachInv'
    BY <1>2 DEF OpenSession, BreachInv
  <2>3. QED
    BY <2>1, <2>2
<1>3. CASE Enter
  <2>1. BooksInv' /\ LimitsInv'
    BY <1>3, EnterBooks, EnterLimits
  <2>2. BreachInv'
    BY <1>3 DEF Enter, BreachInv
  <2>3. QED
    BY <2>1, <2>2
<1>4. CASE Refuse \/ EndEntries
  <2>1. /\ UNCHANGED <<calendar, flows, session, day, account, entered, advanced, entitled>>
        /\ phase = "entries"
        /\ \/ phase' = phase
           \/ phase' = "advance" /\ at' = 1
    BY <1>4, Zenon DEF Refuse, EndEntries
  <2>2. BooksInv' /\ LimitsInv'
    BY <1>1, <2>1, QuietBooks
  <2>3. BreachInv'
    BY <2>1 DEF BreachInv
  <2>4. QED
    BY <2>2, <2>3
<1>5. ASSUME NEW i \in DOMAIN account.positions, Advance(account.positions[i])
      PROVE  BooksInv' /\ LimitsInv' /\ BreachInv'
  <2>1. PICK p : p = account.positions[i]
    OBVIOUS
  <2>2. Advance(p)
    BY <1>5, <2>1
  <2>3. BooksInv' /\ LimitsInv'
    BY <1>1, <2>2, AdvanceBooks
  <2>4. phase' # "night"
    BY <2>2, AdvanceFrame DEF Turn
  <2>5. BreachInv'
    BY <2>4 DEF BreachInv
  <2>6. QED
    BY <2>3, <2>5
<1>6. CASE Settle
    BY <1>6, SettleBooks
<1>7. CASE UNCHANGED vars
  <2>1. /\ UNCHANGED <<calendar, flows, session, day, account, entered, advanced, entitled>>
        /\ phase' = phase /\ at' = at
    BY <1>7 DEF vars
  <2>2. BooksInv' /\ LimitsInv'
    BY <1>1, <2>1, QuietBooks
  <2>3. BreachInv'
    BY <2>1 DEF BreachInv
  <2>4. QED
    BY <2>2, <2>3
<1>8. QED
    BY <1>2, <1>3, <1>4, <1>5, <1>6, <1>7, Zenon DEF Next

\* The inductive invariant behind the properties of the account: its books and
\* those of the two copies, their relation, the limits and the breaches.
THEOREM AccountInvariant == Spec => [](BooksInv /\ LimitsInv /\ BreachInv)
<1>1. Init => BooksInv /\ LimitsInv /\ BreachInv
    BY BooksStart
<1>2. (BooksInv /\ LimitsInv /\ BreachInv) /\ [Next]_vars
        => (BooksInv /\ LimitsInv /\ BreachInv)'
    BY BooksStep
<1>3. QED
    BY <1>1, <1>2, PTL DEF Spec

\* Merging the copy of the entries and the copy of the exits loses and doubles
\* nothing, whatever was opened, closed, charged and paid: what is in cash,
\* reserved and paid in fees is the initial cash and the realized result.
THEOREM BooksReconcile == Spec => []Reconciles
<1>1. BooksInv => Reconciles
    BY DEF BooksInv, MoneyInv, Reconciles, Deposits, DepositsOf
<1>2. QED
    BY <1>1, AccountInvariant, PTL

\* The entries of a session, each sized beside the ones before it, together stay
\* within the leverage, the sector and the group limits of the equity the account
\* had the night before, for any number of positions and any rates.
THEOREM EntriesWithinLimits == Spec => []EntriesKeepLimits
<1>1. BooksInv /\ LimitsInv => EntriesKeepLimits
  <2> SUFFICES ASSUME BooksInv, LimitsInv, phase = "advance", entered # account
               PROVE  /\ Gross(entered) <= Equity(account) * Leverage
                      /\ \A i \in (Len(account.positions) + 1)..Len(entered.positions) :
                            LET p == entered.positions[i]
                            IN  /\ Alike(entered, "sector", p.sector) * Base
                                      <= Equity(account) * SectorRate
                                /\ Alike(entered, "group", p.group) * Base
                                      <= Equity(account) * GroupRate
    BY DEF EntriesKeepLimits
  <2>1. WithinLimits
    BY DEF LimitsInv, InSession
  <2>2. PICK m \in Nat : m = Len(account.positions)
    BY AccountFields DEF BooksInv, AccountInv
  <2>3. PICK n \in Nat : n = Len(entered.positions) /\ DOMAIN entered.positions = 1..n
    BY AccountFields DEF BooksInv, EnteredInv
  <2>4. \A i \in (m + 1)..n : i \in 1..n /\ i > m
    BY <2>2, <2>3
  <2>5. \A i \in (m + 1)..n : IsNew(i)
    BY <2>2, <2>3, <2>4 DEF IsNew
  <2>6. QED
    BY <2>1, <2>2, <2>3, <2>5 DEF WithinLimits, IsNew
<1>2. QED
    BY <1>1, AccountInvariant, PTL

\* At a close in breach of the maintenance margin no margin position is left
\* unscheduled, not even one opened in that session.
THEOREM BreachesForceAll == Spec => []BreachForcesAll
<1>1. BreachInv => BreachForcesAll
    BY DEF BreachInv, BreachForcesAll
<1>2. QED
    BY <1>1, AccountInvariant, PTL

\* Days split at one of them cost between the smaller and the larger rate each.
LEMMA SplitCost ==
    ASSUME NEW a \in Nat, NEW b \in Nat, NEW x \in Nat, NEW y \in Nat
    PROVE  \E low, high \in {a, b} : a * x + b * y \in (low * (x + y))..(high * (x + y))
<1>1. /\ a * (x + y) = a * x + a * y /\ b * (x + y) = b * x + b * y
      /\ a * x \in Nat /\ a * y \in Nat /\ b * x \in Nat /\ b * y \in Nat
    BY TimesNat
<1>2. a * (x + y) \in Int /\ b * (x + y) \in Int /\ a * x + b * y \in Int
    BY <1>1
<1>3. CASE a <= b
  <2>1. a * x <= b * x /\ a * y <= b * y
    BY <1>3, TimesMonotone
  <2>2. a * x + b * y \in (a * (x + y))..(b * (x + y))
    BY <1>1, <1>2, <2>1
  <2>3. QED
    BY <2>2
<1>4. CASE b <= a
  <2>1. b * x <= a * x /\ b * y <= a * y
    BY <1>4, TimesMonotone
  <2>2. a * x + b * y \in (b * (x + y))..(a * (x + y))
    BY <1>1, <1>2, <2>1
  <2>3. QED
    BY <2>2
<1>5. QED
    BY <1>3, <1>4

\* What a position that stays open is charged in a session.
LEMMA SessionCost ==
    ASSUME BooksInv, InSession, NEW i \in DOMAIN account.positions,
           NEW p, p = account.positions[i], NEW q, Comes(p, q),
           NEW days, days = Date - calendar[session - 1]
    PROVE  \E low, high \in {Daily(p, p.terms, q.fx), Daily(p, q.terms, q.fx)} :
               q.accrued - p.accrued \in (low * days)..(high * days)
<1> USE DEF BooksInv
<1>1. /\ p \in Position /\ session \in Nat /\ session > 0 /\ phase # "night"
      /\ p.opened \in 1..(session - 1)
      /\ p.accruedTo = calendar[session - 1] /\ p.terms.from <= calendar[session - 1]
    BY AccountFields, InputsAssumption DEF AccountInv, Current, Held, InSession, InputsInv
<1>2. /\ q.accrued = p.accrued + Financing(p) /\ q.terms = Update(p) /\ q.fx = Fx(p.symbol)
      /\ Fits(p, Update(p)) /\ day.bars[p.symbol] # NoBar
    BY DEF Comes
<1>3. PICK a \in Nat : a = Daily(p, p.terms, Fx(p.symbol))
    BY <1>1, <1>2, FinancingTyped
<1>4. PICK b \in Nat : b = Daily(p, Update(p), Fx(p.symbol))
    BY <1>1, <1>2, FinancingTyped
<1>5. PICK turn \in Nat : turn = Transition(p)
    BY <1>1, <1>2, FinancingTyped
<1>6. PICK date \in Nat : date = Date
    BY <1>1, <1>2, FinancingTyped
<1>7. PICK last \in Nat : last = p.accruedTo /\ last = calendar[session - 1]
    BY <1>1, PositionFields
<1>8. last <= date
  <2>1. calendar \in Calendars /\ session - 1 \in 1..(Len(calendar) - 1)
    <3>1. Len(calendar) \in Nat /\ session \in 0..Len(calendar) /\ session - 1 >= 1
      BY <1>1, InputsAssumption DEF InputsInv
    <3>2. QED
      BY <1>1, <3>1 DEF InputsInv
  <2>2. calendar[session - 1] < calendar[(session - 1) + 1] /\ (session - 1) + 1 = session
    BY <1>1, <2>1, InputsAssumption
  <2>3. last < date
    BY <1>6, <1>7, <2>2 DEF Date
  <2>4. QED
    BY <2>3
<1>9. last <= turn /\ turn <= date
  <2>1. Update(p).from \in Nat
    BY <1>1, UpdateTyped, TermsTyped
  <2>2. Update(p).from <= date
    <3>1. CASE Update(p) = p.terms
      BY <1>1, <1>7, <1>8, <2>1, <3>1
    <3>2. CASE Update(p) # p.terms
      BY <1>2, <1>6, <3>2 DEF Fits
    <3>3. QED
      BY <3>1, <3>2
  <2>3. QED
    BY <1>5, <1>7, <1>8, <2>1, <2>2 DEF Transition, Larger
<1>10. PICK x \in Nat : x = turn - last
    BY <1>5, <1>7, <1>9
<1>11. PICK y \in Nat : y = date - turn
    BY <1>5, <1>6, <1>9
<1>12. Financing(p) = a * x + b * y
    BY <1>3, <1>4, <1>5, <1>6, <1>7, <1>10, <1>11 DEF Financing
<1>13. days = x + y
    BY <1>5, <1>6, <1>7, <1>10, <1>11
<1>14. q.accrued - p.accrued = a * x + b * y
  <2>1. PICK cost \in Int : cost = a * x + b * y
    BY <1>3, <1>4, <1>10, <1>11, TimesNat
  <2>2. PICK accrued \in Int : accrued = p.accrued
    BY <1>1, PositionFields
  <2>3. q.accrued = accrued + cost
    BY <1>2, <1>12, <2>1, <2>2
  <2>4. QED
    BY <2>1, <2>2, <2>3
<1>15. \E low, high \in {a, b} : a * x + b * y \in (low * (x + y))..(high * (x + y))
    BY <1>3, <1>4, <1>10, <1>11, SplitCost
<1>16. {Daily(p, p.terms, q.fx), Daily(p, q.terms, q.fx)} = {a, b}
    BY <1>2, <1>3, <1>4
<1>17. QED
    BY <1>13, <1>14, <1>15, <1>16

LEMMA SettleCosts ==
    ASSUME BooksInv, Settle,
           NEW i \in DOMAIN account.positions, NEW j \in DOMAIN account'.positions,
           NEW p, p = account.positions[i], NEW q, q = account'.positions[j],
           p.symbol = q.symbol, p.opened = q.opened,
           NEW days, days = Date - calendar[session - 1]
    PROVE  \E low, high \in {Daily(p, p.terms, q.fx), Daily(p, q.terms, q.fx)} :
               q.accrued - p.accrued \in (low * days)..(high * days)
<1>1. PICK final : final = Maintained(MarkedToday(MergedPositions))
    OBVIOUS
<1>2. /\ phase = "advance" /\ at > Len(account.positions) /\ account'.positions = final
    BY <1>1, Zenon DEF Settle
<1>3. InSession
    BY <1>2 DEF InSession
<1>4. OldOne(q) \/ NewOne(q)
    BY <1>1, <1>2, SettledTyped
<1>5. ~NewOne(q)
  <2>1. /\ p.opened \in 1..(session - 1) /\ session \in Nat
    BY <1>2, InputsAssumption DEF BooksInv, AccountInv, Current, Held, InputsInv
  <2>2. QED
    BY <2>1 DEF NewOne
<1>6. PICK k \in DOMAIN account.positions : Comes(account.positions[k], q)
    BY <1>4, <1>5 DEF OldOne
<1>7. k = i
    BY <1>6 DEF Comes, BooksInv, AccountInv, Distinct
<1>8. Comes(p, q)
    BY <1>6, <1>7
<1>9. QED
    BY <1>3, <1>8, SessionCost

\* Whatever the terms, their updates and the calendar: a position that stays open
\* is charged once for every day since the session before, at the rate of the old
\* terms or of the new ones, and for no day twice.
THEOREM FinancingIsOncePerDay == Spec => FinancingOncePerDay
<1>1. BooksInv /\ [Next]_vars =>
        [Settle =>
            \A i \in DOMAIN account.positions, j \in DOMAIN account'.positions :
                LET p == account.positions[i]
                    q == account'.positions[j]
                    days == Date - calendar[session - 1]
                    costs == {Daily(p, p.terms, q.fx), Daily(p, q.terms, q.fx)}
                IN  p.symbol = q.symbol /\ p.opened = q.opened =>
                        \E low, high \in costs :
                            q.accrued - p.accrued \in (low * days)..(high * days)]_vars
  <2> SUFFICES ASSUME BooksInv, Settle,
                      NEW i \in DOMAIN account.positions,
                      NEW j \in DOMAIN account'.positions,
                      account.positions[i].symbol = account'.positions[j].symbol,
                      account.positions[i].opened = account'.positions[j].opened
               PROVE  \E low, high \in {Daily(account.positions[i], account.positions[i].terms,
                                               account'.positions[j].fx),
                                        Daily(account.positions[i], account'.positions[j].terms,
                                               account'.positions[j].fx)} :
                          account'.positions[j].accrued - account.positions[i].accrued
                            \in (low * (Date - calendar[session - 1]))
                                 ..(high * (Date - calendar[session - 1]))
    BY Zenon
  <2>1. PICK p : p = account.positions[i]
    OBVIOUS
  <2>2. PICK q : q = account'.positions[j]
    OBVIOUS
  <2>3. PICK days : days = Date - calendar[session - 1]
    OBVIOUS
  <2>4. \E low, high \in {Daily(p, p.terms, q.fx), Daily(p, q.terms, q.fx)} :
           q.accrued - p.accrued \in (low * days)..(high * days)
    BY <2>1, <2>2, <2>3, SettleCosts
  <2>5. QED
    BY <2>1, <2>2, <2>3, <2>4
<1>2. QED
    BY <1>1, AccountInvariant, PTL DEF Spec, FinancingOncePerDay

=============================================================================
