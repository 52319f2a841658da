---------------------------- MODULE SumTheorems -----------------------------
(***************************************************************************)
(* Laws of SumFunctionOnSet, the sum of a[w] for all w in a finite set. It *)
(* is defined by recursion: one element after the other is chosen and      *)
(* removed. The laws say that the order of the choices does not matter.    *)
(*                                                                         *)
(* The proofs look at the table of the sums of all subsets of a finite set *)
(* W, and use induction on the number of elements of a subset.             *)
(***************************************************************************)
EXTENDS SetInduction, Functions, FiniteSets, FiniteSetTheorems

Pick(s) == CHOOSE w \in s : TRUE

Row(r, a, s) == IF s = {} THEN 0 ELSE a[Pick(s)] + r[s \ {Pick(s)}]

RowsRight(r, a, W) == \A s \in SUBSET W : r[s] = Row(r, a, s)

IsTable(r, a, W) == r \in [SUBSET W -> Nat] /\ RowsRight(r, a, W)

\* What is chosen is an element.
LEMMA PickIsIn == ASSUME NEW s, s # {} PROVE Pick(s) \in s
  BY DEF Pick

\* Removing an element of a subset of W leaves a smaller subset of W.
LEMMA Smaller ==
    ASSUME NEW W, IsFiniteSet(W), NEW s \in SUBSET W
    PROVE  /\ Cardinality(s) \in Nat
           /\ Cardinality(s) = 0 <=> s = {}
           /\ \A w \in s : /\ s \ {w} \in SUBSET W
                           /\ Cardinality(s \ {w}) = Cardinality(s) - 1
<1>1. IsFiniteSet(s)
  BY FS_Subset
<1>2. Cardinality(s) \in Nat
  BY <1>1, FS_CardinalityType
<1>3. Cardinality(s) = 0 <=> s = {}
  BY <1>1, FS_EmptySet
<1>4. ASSUME NEW w \in s
      PROVE  s \ {w} \in SUBSET W /\ Cardinality(s \ {w}) = Cardinality(s) - 1
  BY <1>1, <1>4, FS_RemoveElement
<1> QED
  BY <1>2, <1>3, <1>4

\* The table exists. One that is right for the subsets of at most n elements
\* yields one that is right for those of at most n + 1.
LEMMA TableExists ==
    ASSUME NEW W, IsFiniteSet(W), NEW a \in [W -> Nat]
    PROVE  \E r : IsTable(r, a, W)
<1> DEFINE Right(r, n) == \A s \in SUBSET W : Cardinality(s) <= n => r[s] = Row(r, a, s)
           T == {n \in Nat : \E r \in [SUBSET W -> Nat] : Right(r, n)}
<1>1. 0 \in T
  <2> DEFINE r == [s \in SUBSET W |-> 0]
  <2>1. r \in [SUBSET W -> Nat]
    OBVIOUS
  <2>2. ASSUME NEW s \in SUBSET W, Cardinality(s) <= 0
        PROVE  r[s] = Row(r, a, s)
    <3>1. s = {}
      BY <2>2, Smaller
    <3> QED
      BY <3>1 DEF Row
  <2> QED
    BY <2>1, <2>2
<1>2. ASSUME NEW n \in Nat, n \in T
      PROVE  n + 1 \in T
  <2>1. PICK r \in [SUBSET W -> Nat] : Right(r, n)
    BY <1>2
  <2> DEFINE q == [s \in SUBSET W |-> Row(r, a, s)]
  <2>2. ASSUME NEW s \in SUBSET W
        PROVE  Row(r, a, s) \in Nat
    <3>1. CASE s = {}
      BY <3>1 DEF Row
    <3>2. CASE s # {}
      <4>1. Pick(s) \in s /\ s \ {Pick(s)} \in SUBSET W
        BY <3>2, PickIsIn
      <4>2. a[Pick(s)] \in Nat /\ r[s \ {Pick(s)}] \in Nat
        BY <4>1
      <4> QED
        BY <3>2, <4>2 DEF Row
    <3> QED
      BY <3>1, <3>2
  <2>3. q \in [SUBSET W -> Nat]
    BY <2>2
  <2>4. ASSUME NEW s \in SUBSET W, Cardinality(s) <= n + 1
        PROVE  q[s] = Row(q, a, s)
    <3>1. CASE s = {}
      BY <3>1 DEF Row
    <3>2. CASE s # {}
      <4> DEFINE rest == s \ {Pick(s)}
      <4>1. Pick(s) \in s
        BY <3>2, PickIsIn
      <4>2. rest \in SUBSET W /\ Cardinality(rest) <= n
        BY <4>1, <2>4, Smaller
      <4>3. r[rest] = q[rest]
        BY <4>2, <2>1
      <4> QED
        BY <3>2, <4>3 DEF Row
    <3> QED
      BY <3>1, <3>2
  <2> HIDE DEF q
  <2>5. Right(q, n + 1)
    BY <2>4
  <2>6. n + 1 \in Nat
    OBVIOUS
  <2> HIDE DEF Right
  <2> QED
    BY <2>3, <2>5, <2>6
<1>3. \A n \in Nat : n \in T
  BY <1>1, <1>2, InductionOnSet
<1>4. Cardinality(W) \in T
  BY <1>3, FS_CardinalityType
<1>5. PICK r \in [SUBSET W -> Nat] : Right(r, Cardinality(W))
  BY <1>4
<1>6. ASSUME NEW s \in SUBSET W
      PROVE  r[s] = Row(r, a, s)
  <2>1. Cardinality(s) <= Cardinality(W)
    BY FS_Subset
  <2> QED
    BY <1>5, <2>1
<1> QED
  BY <1>5, <1>6 DEF IsTable, RowsRight

\* Tables of two functions agree on the subsets on which the functions agree.
LEMMA TablesAgree ==
    ASSUME NEW V, IsFiniteSet(V), NEW W, V \subseteq W, NEW a, NEW b,
           \A w \in V : a[w] = b[w],
           NEW q, RowsRight(q, a, V),
           NEW r, RowsRight(r, b, W)
    PROVE  \A s \in SUBSET V : q[s] = r[s]
<1> DEFINE T == {n \in Nat : \A s \in SUBSET V : Cardinality(s) <= n => q[s] = r[s]}
<1>1. 0 \in T
  <2>1. ASSUME NEW s \in SUBSET V, Cardinality(s) <= 0
        PROVE  q[s] = r[s]
    <3>1. s = {}
      BY <2>1, Smaller
    <3> QED
      BY <3>1 DEF RowsRight, Row
  <2> QED
    BY <2>1
<1>2. ASSUME NEW n \in Nat, n \in T
      PROVE  n + 1 \in T
  <2>1. ASSUME NEW s \in SUBSET V, Cardinality(s) <= n + 1
        PROVE  q[s] = r[s]
    <3>1. s \in SUBSET W
      OBVIOUS
    <3>2. CASE s = {}
      BY <3>1, <3>2 DEF RowsRight, Row
    <3>3. CASE s # {}
      <4> DEFINE rest == s \ {Pick(s)}
      <4>1. Pick(s) \in s
        BY <3>3, PickIsIn
      <4>2. rest \in SUBSET V /\ Cardinality(rest) <= n
        BY <4>1, <2>1, Smaller
      <4>3. q[rest] = r[rest]
        BY <1>2, <4>2
      <4>4. a[Pick(s)] = b[Pick(s)]
        BY <4>1
      <4> QED
        BY <3>1, <3>3, <4>3, <4>4 DEF RowsRight, Row
    <3> QED
      BY <3>2, <3>3
  <2> QED
    BY <2>1
<1>3. \A n \in Nat : n \in T
  BY <1>1, <1>2, InductionOnSet
<1>4. ASSUME NEW s \in SUBSET V
      PROVE  q[s] = r[s]
  <2>1. Cardinality(s) \in T
    BY <1>3, Smaller
  <2>2. Cardinality(s) <= Cardinality(s)
    BY Smaller
  <2> QED
    BY <2>1, <2>2
<1> QED
  BY <1>4

\* SumFunctionOnSet is an entry of the table.
LEMMA SumOfTable ==
    ASSUME NEW W, IsFiniteSet(W), NEW a \in [W -> Nat], NEW S \in SUBSET W,
           NEW r, IsTable(r, a, W)
    PROVE  SumFunctionOnSet(a, S) = r[S]
<1> DEFINE Rows(f) == [s \in SUBSET S |-> IF s = {} THEN 0 ELSE a[Pick(s)] + f[s \ {Pick(s)}]]
           sums == CHOOSE f : f = Rows(f)
           own == [s \in SUBSET S |-> r[s]]
<1>1. SumFunctionOnSet(a, S) = sums[S]
  BY DEF SumFunctionOnSet, FoldFunctionOnSet, MapThenFoldSet, Pick
<1>2. own = Rows(own)
  <2>1. ASSUME NEW s \in SUBSET S
        PROVE  own[s] = Rows(own)[s]
    <3>1. s \in SUBSET W /\ r[s] = Row(r, a, s)
      BY DEF IsTable, RowsRight
    <3>2. CASE s = {}
      BY <3>1, <3>2 DEF Row
    <3>3. CASE s # {}
      <4>1. s \ {Pick(s)} \in SUBSET S
        OBVIOUS
      <4> QED
        BY <3>1, <3>3, <4>1 DEF Row
    <3> QED
      BY <3>2, <3>3
  <2> QED
    BY <2>1
<1>3. sums = Rows(sums)
  BY <1>2
<1> HIDE DEF sums
<1>4. RowsRight(sums, a, S)
  <2>1. ASSUME NEW s \in SUBSET S
        PROVE  sums[s] = Row(sums, a, s)
    <3>1. sums[s] = Rows(sums)[s]
      BY <1>3
    <3> QED
      BY <3>1 DEF Row
  <2> QED
    BY <2>1 DEF RowsRight
<1>5. IsFiniteSet(S)
  BY FS_Subset
<1>6. RowsRight(r, a, W)
  BY DEF IsTable
<1>7. S \subseteq W /\ \A w \in S : a[w] = a[w]
  OBVIOUS
<1> HIDE DEF Rows, own
<1>8. \A s \in SUBSET S : sums[s] = r[s]
  BY <1>4, <1>5, <1>6, <1>7, TablesAgree
<1> QED
  BY <1>1, <1>8

\* In the table, any element may be the first to be taken out.
LEMMA TableRemove ==
    ASSUME NEW W, IsFiniteSet(W), NEW a \in [W -> Nat], NEW r, IsTable(r, a, W)
    PROVE  \A s \in SUBSET W : \A w \in s : r[s] = a[w] + r[s \ {w}]
<1> DEFINE T == {n \in Nat : \A s \in SUBSET W :
                    Cardinality(s) <= n => \A w \in s : r[s] = a[w] + r[s \ {w}]}
<1>1. 0 \in T
  <2>1. ASSUME NEW s \in SUBSET W, Cardinality(s) <= 0
        PROVE  s = {}
    BY <2>1, Smaller
  <2> QED
    BY <2>1
<1>2. ASSUME NEW n \in Nat, n \in T
      PROVE  n + 1 \in T
  <2>1. ASSUME NEW s \in SUBSET W, Cardinality(s) <= n + 1, NEW w \in s
        PROVE  r[s] = a[w] + r[s \ {w}]
    <3> DEFINE p == Pick(s)
    <3>1. p \in s
      BY PickIsIn
    <3>2. r[s] = a[p] + r[s \ {p}]
      BY <3>1 DEF IsTable, RowsRight, Row
    <3> HIDE DEF p
    <3>3. CASE w = p
      BY <3>2, <3>3
    <3>4. CASE w # p
      <4> DEFINE q == s \ {p}
                 t == s \ {w}
                 both == s \ {p, w}
      <4>1. /\ q \in SUBSET W /\ Cardinality(q) <= n /\ w \in q
            /\ t \in SUBSET W /\ Cardinality(t) <= n /\ p \in t
        BY <2>1, <3>1, <3>4, Smaller
      <4>2. r[q] = a[w] + r[q \ {w}] /\ r[t] = a[p] + r[t \ {p}]
        BY <1>2, <4>1
      <4>3. q \ {w} = both /\ t \ {p} = both
        OBVIOUS
      <4>4. a[w] \in Nat /\ a[p] \in Nat /\ r[both] \in Nat
        BY <3>1 DEF IsTable
      <4> QED
        BY <3>2, <4>2, <4>3, <4>4
    <3> QED
      BY <3>3, <3>4
  <2>2. n + 1 \in Nat
    OBVIOUS
  <2> QED
    BY <2>1, <2>2
<1>3. \A n \in Nat : n \in T
  BY <1>1, <1>2, InductionOnSet
<1>4. ASSUME NEW s \in SUBSET W
      PROVE  \A w \in s : r[s] = a[w] + r[s \ {w}]
  <2>1. Cardinality(s) \in T
    BY <1>3, Smaller
  <2>2. Cardinality(s) <= Cardinality(s)
    BY Smaller
  <2> QED
    BY <2>1, <2>2
<1> QED
  BY <1>4

-----------------------------------------------------------------------------
(***************************************************************************)
(* The laws.                                                               *)
(***************************************************************************)

\* A sum of natural numbers is one, and the empty sum is 0.
LEMMA SumType ==
    ASSUME NEW W, IsFiniteSet(W), NEW a \in [W -> Nat], NEW S \in SUBSET W
    PROVE  SumFunctionOnSet(a, S) \in Nat /\ SumFunctionOnSet(a, {}) = 0
<1>1. PICK r : IsTable(r, a, W)
  BY TableExists
<1>2. {} \in SUBSET W
  OBVIOUS
<1>3. SumFunctionOnSet(a, S) = r[S] /\ SumFunctionOnSet(a, {}) = r[{}]
  BY <1>1, <1>2, SumOfTable
<1> QED
  BY <1>1, <1>2, <1>3 DEF IsTable, RowsRight, Row

\* Any element of the set can be taken out of the sum.
THEOREM SumRemove ==
    ASSUME NEW W, IsFiniteSet(W), NEW a \in [W -> Nat], NEW S \in SUBSET W, NEW w \in S
    PROVE  SumFunctionOnSet(a, S) = a[w] + SumFunctionOnSet(a, S \ {w})
<1>1. PICK r : IsTable(r, a, W)
  BY TableExists
<1>2. S \ {w} \in SUBSET W
  OBVIOUS
<1>3. SumFunctionOnSet(a, S) = r[S] /\ SumFunctionOnSet(a, S \ {w}) = r[S \ {w}]
  BY <1>1, <1>2, SumOfTable
<1>4. r[S] = a[w] + r[S \ {w}]
  BY <1>1, TableRemove
<1> QED
  BY <1>3, <1>4

\* Only the values on the set matter.
LEMMA SumSame ==
    ASSUME NEW W, IsFiniteSet(W), NEW a \in [W -> Nat], NEW b \in [W -> Nat],
           NEW S \in SUBSET W, \A w \in S : a[w] = b[w]
    PROVE  SumFunctionOnSet(a, S) = SumFunctionOnSet(b, S)
<1>1. PICK q : IsTable(q, a, W)
  BY TableExists
<1>2. PICK r : IsTable(r, b, W)
  BY TableExists
<1>3. SumFunctionOnSet(a, S) = q[S] /\ SumFunctionOnSet(b, S) = r[S]
  BY <1>1, <1>2, SumOfTable
<1>4. IsFiniteSet(S) /\ S \subseteq W
  BY FS_Subset
<1>5. RowsRight(q, a, S)
  BY <1>1 DEF IsTable, RowsRight
<1>6. RowsRight(r, b, W)
  BY <1>2 DEF IsTable
<1>7. \A s \in SUBSET S : q[s] = r[s]
  BY <1>4, <1>5, <1>6, TablesAgree
<1> QED
  BY <1>3, <1>7

\* Changing one value changes the sum by as much.
THEOREM SumUpdate ==
    ASSUME NEW W, IsFiniteSet(W), NEW a \in [W -> Nat], NEW b \in [W -> Nat],
           NEW S \in SUBSET W, NEW v \in S, \A w \in S \ {v} : a[w] = b[w]
    PROVE  SumFunctionOnSet(b, S) = SumFunctionOnSet(a, S) - a[v] + b[v]
<1> DEFINE rest == S \ {v}
<1>1. rest \in SUBSET W
  OBVIOUS
<1>2. SumFunctionOnSet(a, rest) = SumFunctionOnSet(b, rest)
  BY <1>1, SumSame
<1>3. /\ SumFunctionOnSet(a, S) = a[v] + SumFunctionOnSet(a, rest)
      /\ SumFunctionOnSet(b, S) = b[v] + SumFunctionOnSet(b, rest)
  BY SumRemove
<1>4. a[v] \in Nat /\ b[v] \in Nat /\ SumFunctionOnSet(a, rest) \in Nat
  BY <1>1, SumType
<1> QED
  BY <1>2, <1>3, <1>4

ZeroOn(a, N) == \A w \in N : a[w] = 0

\* Elements with value 0 can be added to the set.
THEOREM SumZeros ==
    ASSUME NEW W, IsFiniteSet(W), NEW a \in [W -> Nat], NEW S \in SUBSET W,
           NEW N \in SUBSET W, ZeroOn(a, N)
    PROVE  SumFunctionOnSet(a, S \cup N) = SumFunctionOnSet(a, S)
<1> DEFINE Sum(s) == SumFunctionOnSet(a, s)
           T == {n \in Nat : \A s \in SUBSET N : Cardinality(s) <= n => Sum(S \cup s) = Sum(S)}
<1>1. IsFiniteSet(N)
  BY FS_Subset
<1> HIDE DEF Sum
<1>2. 0 \in T
  <2>1. ASSUME NEW s \in SUBSET N, Cardinality(s) <= 0
        PROVE  S \cup s = S
    BY <1>1, <2>1, Smaller
  <2> QED
    BY <2>1
<1>3. ASSUME NEW n \in Nat, n \in T
      PROVE  n + 1 \in T
  <2>1. ASSUME NEW s \in SUBSET N, Cardinality(s) <= n + 1
        PROVE  Sum(S \cup s) = Sum(S)
    <3>1. CASE s \subseteq S
      <4>1. S \cup s = S
        BY <3>1
      <4> QED
        BY <4>1
    <3>2. CASE ~(s \subseteq S)
      <4>1. PICK w \in s : w \notin S
        BY <3>2
      <4>2. s \ {w} \in SUBSET N /\ Cardinality(s \ {w}) <= n
        BY <1>1, <2>1, Smaller
      <4>3. Sum(S \cup (s \ {w})) = Sum(S)
        BY <1>3, <4>2
      <4>4. (S \cup s) \ {w} = S \cup (s \ {w}) /\ S \cup s \in SUBSET W /\ w \in S \cup s
        BY <4>1
      <4>5. Sum(S \cup s) = a[w] + Sum((S \cup s) \ {w})
        BY <4>4, SumRemove DEF Sum
      <4>6. a[w] = 0 /\ Sum(S) \in Nat
        BY SumType DEF Sum, ZeroOn
      <4> QED
        BY <4>3, <4>4, <4>5, <4>6
    <3> QED
      BY <3>1, <3>2
  <2>2. n + 1 \in Nat
    OBVIOUS
  <2> QED
    BY <2>1, <2>2
<1>4. \A n \in Nat : n \in T
  BY <1>2, <1>3, InductionOnSet
<1>5. Cardinality(N) \in T /\ N \in SUBSET N /\ Cardinality(N) <= Cardinality(N)
  BY <1>1, <1>4, FS_CardinalityType
<1>6. Sum(S \cup N) = Sum(S)
  BY <1>5
<1> QED
  BY <1>6 DEF Sum
=============================================================================
