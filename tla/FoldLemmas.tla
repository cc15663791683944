---------------------------- MODULE FoldLemmas ------------------------------
(***************************************************************************)
(* Lemmas about the folds of the community modules, for any operator: a    *)
(* fold goes through the elements one after another (the traces), and two  *)
(* folds whose steps keep a relation end related.  A module instantiates   *)
(* it with the operator and the relation of one of its folds.              *)
(***************************************************************************)
EXTENDS SequencesExt, Integers, FiniteSetTheorems, WellFoundedInduction, TLAPS

CONSTANTS
    Op(_, _, _),       \* context, accumulator, element
    Rel(_, _, _)       \* what, accumulator, accumulator

Left(ctx, base, s)  == FoldLeft(LAMBDA acc, x : Op(ctx, acc, x), base, s)
Right(ctx, s, base) == FoldRight(LAMBDA x, acc : Op(ctx, acc, x), s, base)
OverSet(ctx, base, S) == FoldSet(LAMBDA x, acc : Op(ctx, acc, x), base, S)

\* The values a fold of n elements goes through.
LeftTrace(r, ctx, base, s, n) ==
    r[0] = base /\ \A k \in 1..n : r[k] = Op(ctx, r[k - 1], s[k])
RightTrace(r, ctx, base, s, n) ==
    r[n + 1] = base /\ \A k \in 1..n : r[k] = Op(ctx, r[k + 1], s[k])
SetTrace(p, r, ctx, base, S, n) ==
    /\ n = Cardinality(S) /\ p \in [1..n -> S]
    /\ \A x \in S : \E k \in 1..n : p[k] = x
    /\ LeftTrace(r, ctx, base, p, n)
-----------------------------------------------------------------------------
\* The pairs of the order on the natural numbers.
LEMMA LessPairs ==
    ASSUME NEW m \in Nat, NEW n \in Nat
    PROVE  <<m, n>> \in OpToRel(<, Nat) <=> m < n
BY DEF OpToRel

\* A non-empty set of natural numbers has a smallest element.
LEMMA Smallest ==
    ASSUME NEW S \in SUBSET Nat, S # {}
    PROVE  \E n \in S : \A m \in S : n <= m
<1>1. PICK n \in S : \A m \in S : ~(<<m, n>> \in OpToRel(<, Nat))
  BY NatLessThanWellFounded, WFMin
<1>2. \A m \in S : ~(m < n)
  BY <1>1, LessPairs
<1> QED
  BY <1>2

\* Induction on the natural numbers, on a set.
LEMMA NatInduct ==
    ASSUME NEW S, 0 \in S, \A n \in Nat : n \in S => n + 1 \in S
    PROVE  Nat \subseteq S
<1> DEFINE out == Nat \ S
<1> SUFFICES ASSUME out # {} PROVE FALSE
  OBVIOUS
<1>1. PICK n \in out : \A m \in out : n <= m
  BY Smallest
<1>2. n # 0 /\ n - 1 \in Nat /\ n - 1 \notin out
  BY <1>1
<1>3. n - 1 + 1 \in S
  BY <1>2
<1> QED BY <1>1, <1>3

\* A set up to n + 1 that has n + 1 has it as its greatest element.
LEMMA MaxUpTo ==
    ASSUME NEW n \in Nat, NEW S \in SUBSET (1..(n + 1)), n + 1 \in S
    PROVE  Max(S) = n + 1
<1>1. \A y \in S : n + 1 >= y
  OBVIOUS
<1>2. \A x \in S : (\A y \in S : x >= y) => x = n + 1
  OBVIOUS
<1> QED BY <1>1, <1>2 DEF Max

\* g solves the recursion of FoldLeft on the subsets of 1..n.
Solves(g, ctx, base, s, n) ==
    g = [S \in SUBSET (1..n) |->
            IF S = {} THEN base ELSE Op(ctx, g[S \ {Max(S)}], s[Max(S)])]

\* The recursion FoldLeft chooses a solution of has one.
LEMMA LeftSolution ==
    ASSUME NEW ctx, NEW base, NEW s, NEW n \in Nat
    PROVE  \E g : Solves(g, ctx, base, s, n)
<1> DEFINE good == {m \in Nat : \E g : Solves(g, ctx, base, s, m)}
<1>1. 0 \in good
  <2>1. SUBSET (1..0) = {{}}
    OBVIOUS
  <2>2. Solves([S \in SUBSET (1..0) |-> base], ctx, base, s, 0)
    BY <2>1 DEF Solves
  <2> QED BY <2>2
<1>2. ASSUME NEW m \in Nat, m \in good PROVE m + 1 \in good
  <2>1. PICK g : Solves(g, ctx, base, s, m)
    BY <1>2
  <2> DEFINE h == [S \in SUBSET (1..(m + 1)) |->
                     IF m + 1 \in S THEN Op(ctx, g[S \ {m + 1}], s[m + 1]) ELSE g[S]]
  <2> HIDE DEF h
  <2>2. ASSUME NEW S \in SUBSET (1..(m + 1))
        PROVE h[S] = IF S = {} THEN base ELSE Op(ctx, h[S \ {Max(S)}], s[Max(S)])
    <3>1. CASE m + 1 \in S
      <4>1. Max(S) = m + 1
        BY <3>1, MaxUpTo
      <4>2. S \ {m + 1} \in SUBSET (1..(m + 1)) /\ m + 1 \notin S \ {m + 1}
        OBVIOUS
      <4>3. h[S \ {m + 1}] = g[S \ {m + 1}]
        BY <4>2 DEF h
      <4> QED BY <3>1, <4>1, <4>3 DEF h
    <3>2. CASE m + 1 \notin S /\ S # {}
      <4>1. S \in SUBSET (1..m)
        BY <3>2
      <4>2. h[S] = g[S]
        BY <3>2 DEF h
      <4>3. g[S] = Op(ctx, g[S \ {Max(S)}], s[Max(S)])
        BY <2>1, <3>2, <4>1 DEF Solves
      <4>4. h[S \ {Max(S)}] = g[S \ {Max(S)}]
        BY <3>2 DEF h
      <4> QED BY <3>2, <4>2, <4>3, <4>4
    <3>3. CASE S = {}
      <4>1. h[S] = g[S]
        BY <3>3 DEF h
      <4>2. g[S] = base
        BY <2>1, <3>3 DEF Solves
      <4> QED BY <3>3, <4>1, <4>2
    <3> QED BY <3>1, <3>2, <3>3
  <2>3. h = [S \in SUBSET (1..(m + 1)) |-> h[S]]
    BY DEF h
  <2>4. Solves(h, ctx, base, s, m + 1)
    BY <2>2, <2>3 DEF Solves
  <2> QED BY <2>4
<1>3. Nat \subseteq good
  <2> HIDE DEF good
  <2> QED BY <1>1, <1>2, NatInduct
<1> QED BY <1>3

\* A fold from the left is the last of the values it goes through.
THEOREM FoldLeftTrace ==
    ASSUME NEW ctx, NEW base, NEW s, NEW n \in Nat, DOMAIN s = 1..n
    PROVE  \E r : LeftTrace(r, ctx, base, s, n) /\ Left(ctx, base, s) = r[n]
<1>1. PICK g : /\ Solves(g, ctx, base, s, n)
               /\ Left(ctx, base, s) = g[1..n]
  <2> DEFINE h == CHOOSE g : Solves(g, ctx, base, s, n)
  <2>1. Solves(h, ctx, base, s, n)
    BY LeftSolution, Zenon
  <2>2. Left(ctx, base, s) = h[1..n]
    BY Zenon DEF Left, FoldLeft, MapThenFoldSet, Solves
  <2> QED BY <2>1, <2>2
<1> DEFINE r == [k \in 0..n |-> g[1..k]]
<1>3. r[0] = base
  BY <1>1 DEF Solves
<1>4. ASSUME NEW k \in 1..n PROVE r[k] = Op(ctx, r[k - 1], s[k])
  <2>1. PICK m \in Nat : k = m + 1
    <3>1. k - 1 \in Nat /\ k = (k - 1) + 1
      OBVIOUS
    <3> QED BY <3>1
  <2>2. (1..k) \in SUBSET (1..n) /\ (1..k) # {} /\ m + 1 \in 1..k
    <3>1. k \in 1..k /\ \A j \in 1..k : j \in 1..n
      BY <2>1
    <3> QED BY <2>1, <3>1
  <2>3. Max(1..k) = k
    BY <2>1, <2>2, MaxUpTo
  <2>4. (1..k) \ {k} = 1..m /\ m \in 0..n /\ k \in 0..n /\ k - 1 = m
    BY <2>1
  <2>5. g[1..k] = Op(ctx, g[(1..k) \ {k}], s[k])
    BY <1>1, <2>2, <2>3 DEF Solves
  <2> QED BY <2>4, <2>5
<1>5. Left(ctx, base, s) = r[n]
  BY <1>1
<1> HIDE DEF r
<1>6. LeftTrace(r, ctx, base, s, n)
  BY <1>3, <1>4 DEF LeftTrace
<1> QED BY <1>5, <1>6

\* One more element keeps two accumulators related.
Keeps(w, c1, c2, s1, s2, n) ==
    \A k \in 1..n : \A a1, a2 :
        Rel(w, a1, a2) => Rel(w, Op(c1, a1, s1[k]), Op(c2, a2, s2[k]))

\* Two folds of as many elements end related when every element keeps them so.
THEOREM FoldsRelated ==
    ASSUME NEW w, NEW c1, NEW c2, NEW b1, NEW b2, NEW s1, NEW s2, NEW n \in Nat,
           DOMAIN s1 = 1..n, DOMAIN s2 = 1..n,
           Rel(w, b1, b2), Keeps(w, c1, c2, s1, s2, n)
    PROVE  Rel(w, Left(c1, b1, s1), Left(c2, b2, s2))
<1>1. PICK r : LeftTrace(r, c1, b1, s1, n) /\ Left(c1, b1, s1) = r[n]
  BY FoldLeftTrace
<1>2. PICK q : LeftTrace(q, c2, b2, s2, n) /\ Left(c2, b2, s2) = q[n]
  BY FoldLeftTrace
<1> DEFINE good == {m \in Nat : m <= n => Rel(w, r[m], q[m])}
<1>3. 0 \in good
  BY <1>1, <1>2 DEF LeftTrace
<1>4. ASSUME NEW m \in Nat, m \in good PROVE m + 1 \in good
  <2> SUFFICES ASSUME m + 1 <= n PROVE Rel(w, r[m + 1], q[m + 1])
    OBVIOUS
  <2>1. PICK k \in 1..n : k = m + 1
    OBVIOUS
  <2>2. k - 1 = m /\ Rel(w, r[k - 1], q[k - 1])
    BY <1>4, <2>1
  <2>3. r[k] = Op(c1, r[k - 1], s1[k]) /\ q[k] = Op(c2, q[k - 1], s2[k])
    BY <1>1, <1>2 DEF LeftTrace
  <2>4. Rel(w, Op(c1, r[k - 1], s1[k]), Op(c2, q[k - 1], s2[k]))
    BY <2>2, Zenon DEF Keeps
  <2> QED BY <2>1, <2>3, <2>4
<1>5. Nat \subseteq good
  <2> HIDE DEF good
  <2> QED BY <1>3, <1>4, NatInduct
<1> QED BY <1>1, <1>2, <1>5
-----------------------------------------------------------------------------
\* A set from k on that has k has it as its least element.
LEMMA MinFrom ==
    ASSUME NEW l \in Nat, NEW n \in Nat, NEW S \in SUBSET (l..n), l \in S
    PROVE  Min(S) = l
<1>1. \A y \in S : l <= y
  OBVIOUS
<1>2. \A x \in S : (\A y \in S : x <= y) => x = l
  OBVIOUS
<1> QED BY <1>1, <1>2 DEF Min

\* g solves the recursion of FoldRight on the subsets of l..n.
SolvesRight(g, ctx, base, s, l, n) ==
    g = [S \in SUBSET (l..n) |->
            IF S = {} THEN base ELSE Op(ctx, g[S \ {Min(S)}], s[Min(S)])]

\* The recursion FoldRight chooses a solution of has one.
LEMMA RightSolution ==
    ASSUME NEW ctx, NEW base, NEW s, NEW n \in Nat
    PROVE  \E g : SolvesRight(g, ctx, base, s, 1, n)
<1> DEFINE good == {m \in Nat : m <= n => \E g : SolvesRight(g, ctx, base, s, n - m + 1, n)}
<1>1. 0 \in good
  <2>1. SUBSET ((n - 0 + 1)..n) = {{}}
    OBVIOUS
  <2>2. SolvesRight([S \in SUBSET ((n - 0 + 1)..n) |-> base], ctx, base, s, n - 0 + 1, n)
    BY <2>1 DEF SolvesRight
  <2> QED BY <2>2
<1>2. ASSUME NEW m \in Nat, m \in good PROVE m + 1 \in good
  <2> SUFFICES ASSUME m + 1 <= n
               PROVE  \E g : SolvesRight(g, ctx, base, s, n - (m + 1) + 1, n)
    OBVIOUS
  <2> DEFINE l == n - m
  <2>0. l \in Nat /\ l \in 1..n /\ n - m + 1 = l + 1 /\ n - (m + 1) + 1 = l
    OBVIOUS
  <2> HIDE DEF l
  <2>1. PICK g : SolvesRight(g, ctx, base, s, l + 1, n)
    BY <1>2, <2>0
  <2> DEFINE h == [S \in SUBSET (l..n) |->
                     IF l \in S THEN Op(ctx, g[S \ {l}], s[l]) ELSE g[S]]
  <2> HIDE DEF h
  <2>2. ASSUME NEW S \in SUBSET (l..n)
        PROVE h[S] = IF S = {} THEN base ELSE Op(ctx, h[S \ {Min(S)}], s[Min(S)])
    <3>1. CASE l \in S
      <4>1. Min(S) = l
        BY <2>0, <3>1, MinFrom
      <4>2. S \ {l} \in SUBSET (l..n) /\ l \notin S \ {l}
        OBVIOUS
      <4>3. h[S \ {l}] = g[S \ {l}]
        BY <4>2 DEF h
      <4> QED BY <3>1, <4>1, <4>3 DEF h
    <3>2. CASE l \notin S /\ S # {}
      <4>1. S \in SUBSET ((l + 1)..n)
        BY <2>0, <3>2
      <4>2. h[S] = g[S]
        BY <3>2 DEF h
      <4>3. g[S] = Op(ctx, g[S \ {Min(S)}], s[Min(S)])
        BY <2>1, <3>2, <4>1 DEF SolvesRight
      <4>4. h[S \ {Min(S)}] = g[S \ {Min(S)}]
        BY <3>2 DEF h
      <4> QED BY <3>2, <4>2, <4>3, <4>4
    <3>3. CASE S = {}
      <4>1. h[S] = g[S]
        BY <3>3 DEF h
      <4>2. g[S] = base
        BY <2>1, <3>3 DEF SolvesRight
      <4> QED BY <3>3, <4>1, <4>2
    <3> QED BY <3>1, <3>2, <3>3
  <2>3. h = [S \in SUBSET (l..n) |-> h[S]]
    BY DEF h
  <2>4. SolvesRight(h, ctx, base, s, l, n)
    BY <2>2, <2>3 DEF SolvesRight
  <2> QED BY <2>0, <2>4
<1>3. Nat \subseteq good
  <2> HIDE DEF good
  <2> QED BY <1>1, <1>2, NatInduct
<1>4. n \in good /\ n - n + 1 = 1
  BY <1>3
<1> QED BY <1>4

\* A fold from the right, from its last element to its first.
THEOREM FoldRightTrace ==
    ASSUME NEW ctx, NEW base, NEW s, NEW n \in Nat, DOMAIN s = 1..n
    PROVE  \E r : RightTrace(r, ctx, base, s, n) /\ Right(ctx, s, base) = r[1]
<1>1. PICK g : /\ SolvesRight(g, ctx, base, s, 1, n)
               /\ Right(ctx, s, base) = g[1..n]
  <2> DEFINE h == CHOOSE g : SolvesRight(g, ctx, base, s, 1, n)
  <2>1. SolvesRight(h, ctx, base, s, 1, n)
    BY RightSolution, Zenon
  <2>2. Right(ctx, s, base) = h[1..n]
    BY Zenon DEF Right, FoldRight, MapThenFoldSet, SolvesRight
  <2> QED BY <2>1, <2>2
<1> DEFINE r == [k \in 1..(n + 1) |-> g[k..n]]
<1>3. r[n + 1] = base
  <2>1. (n + 1)..n = {}
    OBVIOUS
  <2> QED BY <1>1, <2>1 DEF SolvesRight
<1>4. ASSUME NEW k \in 1..n PROVE r[k] = Op(ctx, r[k + 1], s[k])
  <2>1. (k..n) \in SUBSET (1..n) /\ (k..n) # {} /\ k \in k..n /\ k \in Nat
    <3>1. k \in Nat /\ k >= 1 /\ k <= n
      OBVIOUS
    <3>2. k \in k..n /\ \A j \in k..n : j \in 1..n
      BY <3>1
    <3>3. (k..n) \in SUBSET (1..n)
      BY <3>2
    <3> QED BY <3>1, <3>2, <3>3
  <2>2. Min(k..n) = k
    BY <2>1, MinFrom
  <2>3. (k..n) \ {k} = (k + 1)..n /\ k \in 1..(n + 1) /\ k + 1 \in 1..(n + 1)
    OBVIOUS
  <2>4. g[k..n] = Op(ctx, g[(k..n) \ {k}], s[k])
    BY <1>1, <2>1, <2>2 DEF SolvesRight
  <2> QED BY <2>3, <2>4
<1>5. Right(ctx, s, base) = r[1]
  BY <1>1
<1> HIDE DEF r
<1>6. RightTrace(r, ctx, base, s, n)
  BY <1>3, <1>4 DEF RightTrace
<1> QED BY <1>5, <1>6
-----------------------------------------------------------------------------
\* g solves the recursion of FoldSet on the sets in D.
SolvesSet(g, ctx, base, D) ==
    g = [S \in D |->
            IF S = {} THEN base
            ELSE LET x == CHOOSE y \in S : TRUE IN Op(ctx, g[S \ {x}], x)]

UpToSize(S, m) == {T \in SUBSET S : Cardinality(T) <= m}

\* The recursion FoldSet chooses a solution of has one on a finite set.
LEMMA SetSolution ==
    ASSUME NEW ctx, NEW base, NEW S, IsFiniteSet(S)
    PROVE  \E g : SolvesSet(g, ctx, base, SUBSET S)
<1> DEFINE good == {m \in Nat : \E g : SolvesSet(g, ctx, base, UpToSize(S, m))}
<1>0. ASSUME NEW T \in SUBSET S
      PROVE  /\ IsFiniteSet(T) /\ Cardinality(T) \in Nat /\ Cardinality(T) <= Cardinality(S)
             /\ T = {} <=> Cardinality(T) = 0
             /\ \A x \in T : Cardinality(T \ {x}) = Cardinality(T) - 1
  BY FS_Subset, FS_CardinalityType, FS_EmptySet, FS_RemoveElement
<1>1. 0 \in good
  <2>1. UpToSize(S, 0) = {{}}
    BY <1>0 DEF UpToSize
  <2>2. SolvesSet([T \in UpToSize(S, 0) |-> base], ctx, base, UpToSize(S, 0))
    BY <2>1 DEF SolvesSet
  <2> QED BY <2>2
<1>2. ASSUME NEW m \in Nat, m \in good PROVE m + 1 \in good
  <2>1. PICK g : SolvesSet(g, ctx, base, UpToSize(S, m))
    BY <1>2
  <2> DEFINE h == [T \in UpToSize(S, m + 1) |->
                     IF T = {} THEN base
                     ELSE LET x == CHOOSE y \in T : TRUE IN Op(ctx, g[T \ {x}], x)]
  <2>2. ASSUME NEW T \in UpToSize(S, m) PROVE h[T] = g[T]
    <3>1. T \in UpToSize(S, m + 1)
      BY <1>0 DEF UpToSize
    <3> QED BY <2>1, <3>1 DEF SolvesSet
  <2>3. ASSUME NEW T \in UpToSize(S, m + 1), T # {}, NEW x \in T
        PROVE  T \ {x} \in UpToSize(S, m)
    <3>1. T \in SUBSET S /\ Cardinality(T) <= m + 1 /\ T \ {x} \in SUBSET S
      BY DEF UpToSize
    <3>2. Cardinality(T \ {x}) = Cardinality(T) - 1 /\ Cardinality(T) \in Nat
      BY <1>0, <3>1
    <3>3. Cardinality(T \ {x}) <= m
      BY <3>1, <3>2
    <3> QED BY <3>1, <3>3 DEF UpToSize
  <2>4. ASSUME NEW T \in UpToSize(S, m + 1)
        PROVE h[T] = IF T = {} THEN base
                     ELSE LET x == CHOOSE y \in T : TRUE IN Op(ctx, h[T \ {x}], x)
    <3>1. CASE T = {}
      BY <3>1
    <3>2. CASE T # {}
      <4> DEFINE x == CHOOSE y \in T : TRUE
      <4>1. x \in T
        BY <3>2
      <4>2. h[T \ {x}] = g[T \ {x}]
        BY <2>2, <2>3, <3>2, <4>1
      <4>3. h[T] = Op(ctx, g[T \ {x}], x)
        BY <3>2
      <4> HIDE DEF h
      <4> QED BY <3>2, <4>2, <4>3
    <3> QED BY <3>1, <3>2
  <2>5. h = [T \in UpToSize(S, m + 1) |-> h[T]]
    OBVIOUS
  <2> HIDE DEF h
  <2>6. SolvesSet(h, ctx, base, UpToSize(S, m + 1))
    BY <2>4, <2>5 DEF SolvesSet
  <2> QED BY <2>6
<1>3. Nat \subseteq good
  <2> HIDE DEF good
  <2> QED BY <1>1, <1>2, NatInduct
<1>4. Cardinality(S) \in Nat
  BY FS_CardinalityType
<1>5. UpToSize(S, Cardinality(S)) = SUBSET S
  BY <1>0 DEF UpToSize
<1> QED BY <1>3, <1>4, <1>5

\* p lists the elements of T, and r the values of the fold that g solves.
Enumerates(m, T, p, r, g, ctx, base) ==
    /\ m = Cardinality(T) /\ p \in [1..m -> T]
    /\ \A x \in T : \E k \in 1..m : p[k] = x
    /\ r[0] = base
    /\ \A k \in 1..m : r[k] = Op(ctx, r[k - 1], p[k])
    /\ g[T] = r[m]

\* A fold over a finite set goes through its elements in some order.
THEOREM FoldSetTrace ==
    ASSUME NEW ctx, NEW base, NEW S, IsFiniteSet(S)
    PROVE  \E n \in Nat : \E p, r :
              SetTrace(p, r, ctx, base, S, n) /\ OverSet(ctx, base, S) = r[n]
<1>1. PICK g : /\ SolvesSet(g, ctx, base, SUBSET S)
               /\ OverSet(ctx, base, S) = g[S]
  <2> DEFINE h == CHOOSE g : SolvesSet(g, ctx, base, SUBSET S)
  <2>1. SolvesSet(h, ctx, base, SUBSET S)
    BY SetSolution, Zenon
  <2>2. OverSet(ctx, base, S) = h[S]
    BY Zenon DEF OverSet, FoldSet, MapThenFoldSet, SolvesSet
  <2> QED BY <2>1, <2>2
<1> DEFINE good == {m \in Nat : \A T \in SUBSET S : Cardinality(T) = m =>
                        \E p, r : Enumerates(m, T, p, r, g, ctx, base)}
<1>0. ASSUME NEW T \in SUBSET S
      PROVE  /\ IsFiniteSet(T) /\ Cardinality(T) \in Nat
             /\ T = {} <=> Cardinality(T) = 0
             /\ \A x \in T : Cardinality(T \ {x}) = Cardinality(T) - 1
  BY FS_Subset, FS_CardinalityType, FS_EmptySet, FS_RemoveElement
<1>2. 0 \in good
  <2> SUFFICES ASSUME NEW T \in SUBSET S, Cardinality(T) = 0
               PROVE  \E p, r : Enumerates(0, T, p, r, g, ctx, base)
    OBVIOUS
  <2>1. T = {}
    BY <1>0
  <2>2. g[T] = base
    BY <1>1, <2>1 DEF SolvesSet
  <2>3. Enumerates(0, T, [k \in 1..0 |-> k], [k \in {0} |-> base], g, ctx, base)
    <3>1. 1..0 = {} /\ [k \in 1..0 |-> k] \in [1..0 -> T]
      OBVIOUS
    <3> QED BY <2>1, <2>2, <3>1 DEF Enumerates
  <2> QED BY <2>3
<1>3. ASSUME NEW m \in Nat, m \in good PROVE m + 1 \in good
  <2> SUFFICES ASSUME NEW T \in SUBSET S, Cardinality(T) = m + 1
               PROVE  \E p, r : Enumerates(m + 1, T, p, r, g, ctx, base)
    OBVIOUS
  <2> DEFINE x == CHOOSE y \in T : TRUE
  <2>1. T # {} /\ x \in T
    <3>1. T # {}
      BY <1>0
    <3> QED BY <3>1
  <2>2. T \ {x} \in SUBSET S /\ Cardinality(T \ {x}) = m
    <3>1. IsFiniteSet(T) /\ Cardinality(T \ {x}) = Cardinality(T) - 1
      BY <1>0, <2>1, Zenon
    <3> QED BY <3>1
  <2>3. PICK p, r : Enumerates(m, T \ {x}, p, r, g, ctx, base)
    BY <1>3, <2>2, Zenon
  <2>4. g[T] = Op(ctx, g[T \ {x}], x)
    BY <1>1, <2>1 DEF SolvesSet
  <2> HIDE DEF x
  <2> DEFINE p2 == [k \in 1..(m + 1) |-> IF k = m + 1 THEN x ELSE p[k]]
             r2 == [k \in 0..(m + 1) |-> IF k = m + 1 THEN g[T] ELSE r[k]]
  <2>5. p2 \in [1..(m + 1) -> T]
    <3>1. \A k \in 1..(m + 1) : k # m + 1 => k \in 1..m
      OBVIOUS
    <3> QED BY <2>1, <2>3, <3>1 DEF Enumerates
  <2>6. \A y \in T : \E k \in 1..(m + 1) : p2[k] = y
    <3> SUFFICES ASSUME NEW y \in T PROVE \E k \in 1..(m + 1) : p2[k] = y
      OBVIOUS
    <3>1. CASE y = x
      BY <3>1
    <3>2. CASE y # x
      <4>1. PICK k \in 1..m : p[k] = y
        BY <2>3, <3>2 DEF Enumerates
      <4>2. k \in 1..(m + 1) /\ p2[k] = y
        BY <4>1
      <4> QED BY <4>2
    <3> QED BY <3>1, <3>2
  <2>7. r2[0] = base
    BY <2>3 DEF Enumerates
  <2>8. ASSUME NEW k \in 1..(m + 1) PROVE r2[k] = Op(ctx, r2[k - 1], p2[k])
    <3>1. CASE k = m + 1
      BY <2>3, <2>4, <3>1 DEF Enumerates
    <3>2. CASE k # m + 1
      <4>1. k \in 1..m /\ k - 1 \in 0..(m + 1) /\ k - 1 # m + 1 /\ k \in 0..(m + 1)
        BY <3>2
      <4> QED BY <2>3, <3>2, <4>1 DEF Enumerates
    <3> QED BY <3>1, <3>2
  <2>9. g[T] = r2[m + 1]
    OBVIOUS
  <2> HIDE DEF p2, r2
  <2>10. Enumerates(m + 1, T, p2, r2, g, ctx, base)
    BY <2>5, <2>6, <2>7, <2>8, <2>9 DEF Enumerates
  <2> QED BY <2>10
<1>4. Nat \subseteq good
  <2> HIDE DEF good
  <2> QED BY <1>2, <1>3, NatInduct
<1>5. Cardinality(S) \in Nat
  BY FS_CardinalityType
<1>6. PICK p, r : Enumerates(Cardinality(S), S, p, r, g, ctx, base)
  BY <1>4, <1>5
<1>7. SetTrace(p, r, ctx, base, S, Cardinality(S)) /\ OverSet(ctx, base, S) = r[Cardinality(S)]
  BY <1>1, <1>6 DEF Enumerates, SetTrace, LeftTrace
<1> QED BY <1>5, <1>7
-----------------------------------------------------------------------------
\* Folds whose contexts make every step alike are equal.
LEMMA SameChoice ==
    ASSUME NEW c1, NEW c2, NEW base, NEW s,
           \A acc, x : Op(c1, acc, x) = Op(c2, acc, x)
    PROVE  Left(c1, base, s) = Left(c2, base, s)
<1> DEFINE D == DOMAIN s
           F1(g) == g = [S \in SUBSET D |-> IF S = {} THEN base ELSE Op(c1, g[S \ {Max(S)}], s[Max(S)])]
           F2(g) == g = [S \in SUBSET D |-> IF S = {} THEN base ELSE Op(c2, g[S \ {Max(S)}], s[Max(S)])]
<1>1. \A g : F1(g) <=> F2(g)
  OBVIOUS
<1>2. Left(c1, base, s) = (CHOOSE g : F1(g))[D]
  BY Zenon DEF Left, FoldLeft, MapThenFoldSet
<1>3. Left(c2, base, s) = (CHOOSE g : F2(g))[D]
  BY Zenon DEF Left, FoldLeft, MapThenFoldSet
<1>4. (CHOOSE g : F1(g)) = (CHOOSE g : F2(g))
  <2> HIDE DEF F1, F2
  <2> QED BY <1>1
<1> QED BY <1>2, <1>3, <1>4
-----------------------------------------------------------------------------
\* g solves the recursion of FlattenSeq up to the n-th sequence.
SolvesFlat(g, ss, n) ==
    g = [i \in 1..n |-> IF i = 1 THEN ss[i] ELSE g[i - 1] \o ss[i]]

\* The recursion FlattenSeq chooses a solution of has one.
LEMMA FlatSolution ==
    ASSUME NEW ss, NEW n \in Nat
    PROVE  \E g : SolvesFlat(g, ss, n)
<1> DEFINE good == {m \in Nat : \E g : SolvesFlat(g, ss, m)}
<1>1. 0 \in good
  <2>1. SolvesFlat([i \in 1..0 |-> i], ss, 0)
    BY DEF SolvesFlat
  <2> QED BY <2>1
<1>2. ASSUME NEW m \in Nat, m \in good PROVE m + 1 \in good
  <2>1. PICK g : SolvesFlat(g, ss, m)
    BY <1>2
  <2> DEFINE h == [i \in 1..(m + 1) |->
                     IF i = 1 THEN ss[i] ELSE g[i - 1] \o ss[i]]
  <2>2. ASSUME NEW i \in 1..m PROVE h[i] = g[i]
    <3>1. i \in 1..(m + 1)
      OBVIOUS
    <3>2. h[i] = IF i = 1 THEN ss[i] ELSE g[i - 1] \o ss[i]
      BY <3>1, Zenon
    <3>3. g[i] = IF i = 1 THEN ss[i] ELSE g[i - 1] \o ss[i]
      BY <2>1, Zenon DEF SolvesFlat
    <3> QED BY <3>2, <3>3, Zenon
  <2>3. ASSUME NEW i \in 1..(m + 1)
        PROVE h[i] = IF i = 1 THEN ss[i] ELSE h[i - 1] \o ss[i]
    <3>1. CASE i = 1
      BY <3>1
    <3>2. CASE i # 1
      <4>1. i - 1 \in 1..m
        BY <3>2
      <4>2. h[i - 1] = g[i - 1]
        BY <2>2, <4>1
      <4> QED BY <3>2, <4>2
    <3> QED BY <3>1, <3>2
  <2>4. h = [i \in 1..(m + 1) |-> h[i]]
    OBVIOUS
  <2> HIDE DEF h
  <2>5. SolvesFlat(h, ss, m + 1)
    BY <2>3, <2>4 DEF SolvesFlat
  <2> QED BY <2>5
<1>3. Nat \subseteq good
  <2> HIDE DEF good
  <2> QED BY <1>1, <1>2, NatInduct
<1> QED BY <1>3

\* Flattening a sequence of sequences over X gives a sequence over X.
THEOREM FlattenSeqIn ==
    ASSUME NEW X, NEW ss \in Seq(Seq(X))
    PROVE  FlattenSeq(ss) \in Seq(X)
<1> DEFINE n == Len(ss)
<1>0. n \in Nat /\ \A i \in 1..n : ss[i] \in Seq(X)
  OBVIOUS
<1>1. CASE n = 0
  <2>1. FlattenSeq(ss) = ss
    BY <1>1, Zenon DEF FlattenSeq
  <2> QED BY <1>1, <2>1
<1>2. CASE n # 0
  <2>1. PICK g : SolvesFlat(g, ss, n) /\ FlattenSeq(ss) = g[n]
    <3> DEFINE h == CHOOSE g : SolvesFlat(g, ss, n)
    <3>1. SolvesFlat(h, ss, n)
      BY <1>0, FlatSolution, Zenon
    <3>2. FlattenSeq(ss) = h[n]
      BY <1>2, Zenon DEF FlattenSeq, SolvesFlat
    <3> QED BY <3>1, <3>2
  <2>2. ASSUME NEW k \in 1..n
        PROVE  /\ k = 1 => g[k] = ss[k]
               /\ k # 1 => g[k] = g[k - 1] \o ss[k]
    <3> HIDE DEF n
    <3>1. g[k] = IF k = 1 THEN ss[k] ELSE g[k - 1] \o ss[k]
      BY <2>1, Zenon DEF SolvesFlat
    <3> QED BY <3>1, Zenon
  <2> DEFINE good == {m \in Nat : m + 1 <= n => g[m + 1] \in Seq(X)}
  <2>3. 0 \in good
    <3>1. 1 \in 1..n
      BY <1>0, <1>2
    <3>2. g[1] \in Seq(X)
      <4> HIDE DEF n
      <4> QED BY <1>0, <2>2, <3>1
    <3> QED BY <3>2
  <2>4. ASSUME NEW m \in Nat, m \in good PROVE m + 1 \in good
    <3> SUFFICES ASSUME m + 1 + 1 <= n PROVE g[m + 1 + 1] \in Seq(X)
      OBVIOUS
    <3>1. PICK k \in 1..n : k = m + 1 + 1
      BY <1>0
    <3>2. k # 1 /\ k - 1 = m + 1
      BY <3>1
    <3>3. g[k - 1] \in Seq(X) /\ ss[k] \in Seq(X)
      BY <1>0, <2>4, <3>1, <3>2
    <3>4. g[k - 1] \o ss[k] \in Seq(X)
      BY <3>3
    <3>5. g[k] \in Seq(X)
      BY <2>2, <3>2, <3>4, Zenon
    <3> QED BY <3>1, <3>5, Zenon
  <2>5. Nat \subseteq good
    <3> HIDE DEF good
    <3> QED BY <2>3, <2>4, NatInduct
  <2>6. n - 1 \in Nat /\ n - 1 + 1 = n
    BY <1>0, <1>2
  <2> HIDE DEF n
  <2>7. g[n] \in Seq(X)
    BY <2>5, <2>6
  <2> QED BY <2>1, <2>7
<1> QED BY <1>1, <1>2
=============================================================================
