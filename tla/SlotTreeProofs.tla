---------------------------- MODULE SlotTreeProofs ----------------------------
(***************************************************************************)
(* Proofs about SlotTree, for every tree of components, every callable and *)
(* every order in which slots run and are dropped: where a slot looks for  *)
(* its widgets they are, and the children of every widget are those of its *)
(* component.                                                              *)
(***************************************************************************)
EXTENDS SlotTree, Integers, SequenceTheorems, FiniteSetTheorems, WellFoundedInduction, TLAPS

-----------------------------------------------------------------------------
(* Recursion and induction.                                                *)

\* A set of natural numbers that is not empty has a least one: every induction
\* below is the search for a least counterexample.
LEMMA LeastNumber ==
    ASSUME NEW S \in SUBSET Nat, S # {}
    PROVE  \E x \in S : \A y \in S : x <= y
<1> DEFINE R == OpToRel(<, Nat)
<1>1. IsWellFoundedOn(R, Nat)
  BY NatLessThanWellFounded
<1>2. \A x, y \in Nat : x < y => <<x, y>> \in R
  BY Zenon DEF OpToRel
<1> HIDE DEF R
<1>3. PICK x \in S : \A y \in S : ~(<<y, x>> \in R)
  BY <1>1, WFMin
<1>4. \A y \in S : ~(y < x)
  BY <1>2, <1>3
<1>5. QED
  BY <1>4

\* What holds of 0, and of every number with the one before, holds up to n.
LEMMA UpTo ==
    ASSUME NEW n \in Nat, NEW H \in SUBSET Nat, 0 \in H,
           \A i \in 1..n : i - 1 \in H => i \in H
    PROVE  0..n \subseteq H
<1> SUFFICES ASSUME ~(0..n \subseteq H) PROVE FALSE
  OBVIOUS
<1> DEFINE S == 0..n \ H
<1>1. S \in SUBSET Nat /\ S # {}
  OBVIOUS
<1> HIDE DEF S
<1>2. PICK x \in S : \A y \in S : x <= y
  BY <1>1, LeastNumber
<1>3. x \in 0..n /\ x \notin H /\ x # 0
  BY <1>2 DEF S
<1>4. x \in 1..n /\ x - 1 \in 0..n /\ ~(x <= x - 1)
  BY <1>3
<1>5. x - 1 \in H
  BY <1>2, <1>4 DEF S
<1>6. QED
  BY <1>3, <1>4, <1>5

\* A step from each number to the next gives a function.
Steps(f, a, n, step) == f[0] = a /\ \A i \in 1..n : f[i] = step[i][f[i - 1]]
LEMMA StepsExist ==
    ASSUME NEW S, NEW a \in S, NEW n \in Nat, NEW step \in [1..n -> [S -> S]]
    PROVE  \E f \in [0..n -> S] : Steps(f, a, n, step)
<1> DEFINE Is(k, f) == f[0] = a /\ \A i \in 1..k : f[i] = step[i][f[i - 1]]
           H == {k \in Nat : k <= n => \E f \in [0..k -> S] : Is(k, f)}
<1>1. 0 \in H
  <2> DEFINE f == [k \in 0..0 |-> a]
  <2>1. f \in [0..0 -> S] /\ Is(0, f)
    OBVIOUS
  <2> HIDE DEF f, Is
  <2>2. QED
    BY <2>1
<1>2. ASSUME NEW k \in 1..n, k - 1 \in H PROVE k \in H
  <2>1. PICK f \in [0..(k - 1) -> S] : Is(k - 1, f)
    BY <1>2
  <2> DEFINE g == [j \in 0..k |-> IF j = k THEN step[k][f[k - 1]] ELSE f[j]]
  <2>2. k \in Nat /\ k - 1 \in 0..(k - 1) /\ f[k - 1] \in S
    OBVIOUS
  <2>3. step[k][f[k - 1]] \in S
    BY <2>2
  <2>4. \A j \in 0..k : j # k => j \in 0..(k - 1)
    OBVIOUS
  <2>5. g \in [0..k -> S]
    BY <2>3, <2>4
  <2>6. g[0] = a
    BY <2>1
  <2>7. ASSUME NEW i \in 1..k PROVE g[i] = step[i][g[i - 1]]
    <3>1. i - 1 \in 0..(k - 1) /\ i - 1 # k /\ i - 1 \in 0..k /\ i \in 0..k
      OBVIOUS
    <3>2. g[i - 1] = f[i - 1]
      BY <3>1
    <3>3. CASE i = k
      BY <3>2, <3>3, <3>1
    <3>4. CASE i # k
      <4>1. i \in 1..(k - 1)
        BY <3>4
      <4>2. f[i] = step[i][f[i - 1]]
        BY <4>1, <2>1
      <4>3. g[i] = f[i]
        BY <3>1, <3>4
      <4>4. QED
        BY <4>2, <4>3, <3>2
    <3>5. QED
      BY <3>3, <3>4
  <2>8. Is(k, g)
    BY <2>6, <2>7
  <2> HIDE DEF g, Is
  <2>9. QED
    BY <2>2, <2>5, <2>8
<1> HIDE DEF H
<1>3. H \in SUBSET Nat
  BY DEF H
<1>4. 0..n \subseteq H
  BY <1>1, <1>2, <1>3, UpTo
<1>5. n \in H
  BY <1>4
<1>6. QED
  BY <1>5 DEF H, Steps

-----------------------------------------------------------------------------
(* What is reached from a node of a tree.                                  *)

LEMMA ReachExists ==
    ASSUME NEW next \in [Ordinary -> SUBSET Ordinary]
    PROVE  \E r : r = [n \in Ordinary |-> {n} \union UNION {r[k] : k \in next[n]}]
<1> DEFINE Closed(C) == \A x \in C : next[x] \subseteq C
           r == [n \in Ordinary |-> {m \in Ordinary : \A C \in SUBSET Ordinary : n \in C /\ Closed(C) => m \in C}]
<1>1. ASSUME NEW n \in Ordinary PROVE r[n] = {n} \union UNION {r[k] : k \in next[n]}
  <2> DEFINE U == {n} \union UNION {r[k] : k \in next[n]}
  <2>1. ASSUME NEW k \in next[n], NEW m \in r[k] PROVE m \in r[n]
    <3>1. k \in Ordinary /\ m \in Ordinary
      OBVIOUS
    <3>2. ASSUME NEW C \in SUBSET Ordinary, n \in C, Closed(C) PROVE m \in C
      <4>1. k \in C
        BY <3>2
      <4>2. QED
        BY <4>1, <3>1, <3>2
    <3>3. QED
      BY <3>1, <3>2
  <2>2. n \in r[n]
    OBVIOUS
  <2>3. U \subseteq r[n]
    <3> SUFFICES ASSUME NEW m \in U PROVE m \in r[n]
      OBVIOUS
    <3>1. m = n \/ \E k \in next[n] : m \in r[k]
      OBVIOUS
    <3> HIDE DEF r
    <3>2. QED
      BY <2>1, <2>2, <3>1
  <2>4. U \in SUBSET Ordinary /\ n \in U
    BY <2>3
  <2>5. ASSUME NEW x \in U PROVE next[x] \subseteq U
    <3>1. CASE x = n
      <4>1. \A k \in next[n] : k \in r[k]
        OBVIOUS
      <4>2. QED
        BY <4>1, <3>1
    <3>2. CASE \E k \in next[n] : x \in r[k]
      <4>1. PICK k \in next[n] : x \in r[k]
        BY <3>2
      <4>2. k \in Ordinary /\ x \in Ordinary
        BY <4>1
      <4>3. ASSUME NEW y \in next[x] PROVE y \in r[k]
        <5>1. y \in Ordinary
          BY <4>2
        <5>2. ASSUME NEW C \in SUBSET Ordinary, k \in C, Closed(C) PROVE y \in C
          <6>1. x \in C
            BY <4>1, <4>2, <5>2
          <6>2. QED
            BY <6>1, <5>2
        <5>3. QED
          BY <4>2, <5>1, <5>2
      <4>4. QED
        BY <4>1, <4>3, ZenonT(60)
    <3>3. QED
      BY <3>1, <3>2
  <2>6. ASSUME NEW m \in r[n] PROVE m \in U
    <3>1. Closed(U)
      BY <2>5
    <3> HIDE DEF U
    <3>2. QED
      BY <3>1, <2>4, <2>6
  <2>7. QED
    BY <2>3, <2>6
<1> DEFINE r2 == [n \in Ordinary |-> {n} \union UNION {r[k] : k \in next[n]}]
<1>2. r = r2
  <2>1. \A n \in Ordinary : r[n] = r2[n]
    BY <1>1
  <2>2. QED
    BY <2>1
<1> HIDE DEF r
<1>3. QED
  BY <1>2

\* The least set with n that is closed.
LEMMA ReachLeast ==
    ASSUME NEW next \in [Ordinary -> SUBSET Ordinary],
           NEW r, r = [n \in Ordinary |-> {n} \union UNION {r[k] : k \in next[n]}],
           \A n \in Ordinary : \A k \in next[n] : Height[k] < Height[n],
           NEW n \in Ordinary, NEW C, n \in C, \A x \in C \intersect Ordinary : next[x] \subseteq C
    PROVE  r[n] \subseteq C
<1> SUFFICES ASSUME ~(r[n] \subseteq C) PROVE FALSE
  OBVIOUS
<1> DEFINE S == {Height[x] : x \in {x \in Ordinary : x \in C /\ ~(r[x] \subseteq C)}}
<1>1. S \in SUBSET Nat /\ S # {}
  <2>1. S \in SUBSET Nat
    BY HeightAssumption
  <2>2. Height[n] \in S
    OBVIOUS
  <2>3. QED
    BY <2>1, <2>2
<1> HIDE DEF S
<1>2. PICK h \in S : \A y \in S : h <= y
  BY <1>1, LeastNumber
<1>3. PICK x \in Ordinary : x \in C /\ ~(r[x] \subseteq C) /\ h = Height[x]
  BY <1>2 DEF S
<1>4. r[x] = {x} \union UNION {r[k] : k \in next[x]}
  BY <1>3
<1>5. PICK k \in next[x] : ~(r[k] \subseteq C)
  <2>1. PICK m : m \in r[x] /\ m \notin C
    BY <1>3
  <2>2. m # x
    BY <1>3, <2>1
  <2>3. PICK k \in next[x] : m \in r[k]
    BY <1>4, <2>1, <2>2
  <2>4. QED
    BY <2>1, <2>3
<1>6. k \in Ordinary /\ k \in C /\ Height[k] < h /\ Height[k] \in Nat /\ h \in Nat
  BY <1>3, <1>5, HeightAssumption
<1>7. Height[k] \in S
  BY <1>5, <1>6 DEF S
<1>8. QED
  BY <1>2, <1>6, <1>7

\* It is closed.
LEMMA ReachClosed ==
    ASSUME NEW next \in [Ordinary -> SUBSET Ordinary],
           NEW r, r = [n \in Ordinary |-> {n} \union UNION {r[k] : k \in next[n]}],
           \A n \in Ordinary : \A k \in next[n] : Height[k] < Height[n],
           NEW n \in Ordinary
    PROVE  n \in r[n] /\ r[n] \subseteq Ordinary /\ \A x \in r[n] : next[x] \subseteq r[n]
<1> DEFINE Closed(m) == \A x \in r[m] : next[x] \subseteq r[m]
           S == {Height[m] : m \in {m \in Ordinary : ~Closed(m)}}
<1>1. r[n] \subseteq Ordinary
  BY ReachLeast
<1>2. n \in r[n]
  OBVIOUS
<1>3. ASSUME ~Closed(n) PROVE FALSE
  <2>1. S \in SUBSET Nat /\ S # {}
    <3>1. S \in SUBSET Nat
      BY HeightAssumption
    <3>2. Height[n] \in S
      BY <1>3
    <3>3. QED
      BY <3>1, <3>2
  <2> HIDE DEF S
  <2>2. PICK h \in S : \A y \in S : h <= y
    BY <2>1, LeastNumber
  <2>3. PICK m \in Ordinary : ~Closed(m) /\ h = Height[m]
    BY <2>2 DEF S
  <2>4. r[m] = {m} \union UNION {r[k] : k \in next[m]}
    BY <2>3
  <2>5. PICK x \in r[m] : \E k \in next[x] : k \notin r[m]
    BY <2>3
  <2> PICK k \in next[x] : k \notin r[m]
    BY <2>5
  <2>6. x # m
    <3>1. ASSUME x = m PROVE FALSE
      <4>1. k \in Ordinary
        BY <3>1, <2>5
      <4>2. k \in r[k]
        BY <4>1
      <4>3. QED
        BY <2>4, <2>5, <3>1, <4>2
    <3>2. QED
      BY <3>1
  <2>7. PICK y \in next[m] : x \in r[y]
    BY <2>4, <2>5, <2>6
  <2>8. y \in Ordinary /\ Height[y] < h /\ Height[y] \in Nat /\ h \in Nat
    BY <2>3, <2>7, HeightAssumption
  <2>9. k \notin r[y]
    BY <2>4, <2>5, <2>7
  <2>10. ~Closed(y)
    BY <2>5, <2>7, <2>9
  <2>11. Height[y] \in S
    BY <2>8, <2>10 DEF S
  <2>12. QED
    BY <2>2, <2>8, <2>11
<1>4. QED
  BY <1>1, <1>2, <1>3

KidsNext  == [n \in Ordinary |-> OrdinaryKids(n)]
BelowNext == [n \in Ordinary |-> AnyKids(n)]

LEMMA Shape ==
    /\ \A n \in Ordinary : /\ Kids[n] \in Seq(Ordinary \union Slot \union {None})
                           /\ Len(Kids[n]) \in Nat /\ DOMAIN Kids[n] = 1..Len(Kids[n])
                           /\ Range(Kids[n]) = {Kids[n][i] : i \in DOMAIN Kids[n]}
    /\ \A s \in Slot : MayShow(s) \subseteq Ordinary
    /\ \A n \in Ordinary : OrdinaryKids(n) \subseteq Ordinary
    /\ \A n \in Ordinary : \A k \in OrdinaryKids(n) : Height[k] < Height[n]
    /\ \A n \in Ordinary : \A s \in Range(Kids[n]) \intersect Slot : Height[s] < Height[n]
    /\ \A s \in Slot : \A k \in MayShow(s) : Height[k] < Height[s]
    /\ \A k \in Ordinary \union Slot : Height[k] \in Nat
<1>1. \A n \in Ordinary : /\ Kids[n] \in Seq(Ordinary \union Slot \union {None})
                          /\ Len(Kids[n]) \in Nat /\ DOMAIN Kids[n] = 1..Len(Kids[n])
                          /\ Range(Kids[n]) = {Kids[n][i] : i \in DOMAIN Kids[n]}
  BY TreeAssumption, LenProperties DEF Range
<1>2. ASSUME NEW s \in Slot PROVE MayShow(s) \subseteq Ordinary
  <2>1. \A l \in Outputs[s] : Range(l) \subseteq Ordinary
    BY TreeAssumption, RangeOfSeq
  <2>2. QED
    BY <2>1 DEF MayShow
<1>3. \A n \in Ordinary : OrdinaryKids(n) \subseteq Ordinary
  BY DEF OrdinaryKids
<1>4. \A n \in Ordinary : \A k \in OrdinaryKids(n) : Height[k] < Height[n]
  BY HeightAssumption, TreeAssumption DEF OrdinaryKids
<1>5. \A n \in Ordinary : \A s \in Range(Kids[n]) \intersect Slot : Height[s] < Height[n]
  BY HeightAssumption, TreeAssumption
<1>6. /\ \A s \in Slot : \A k \in MayShow(s) : Height[k] < Height[s]
      /\ \A k \in Ordinary \union Slot : Height[k] \in Nat
  BY HeightAssumption
<1>7. QED
  BY <1>1, <1>2, <1>3, <1>4, <1>5, <1>6

LEMMA StaticIs ==
    /\ KidsNext \in [Ordinary -> SUBSET Ordinary]
    /\ Static = [n \in Ordinary |-> {n} \union UNION {Static[k] : k \in KidsNext[n]}]
    /\ \A n \in Ordinary : \A k \in KidsNext[n] : Height[k] < Height[n]
<1>1. /\ KidsNext \in [Ordinary -> SUBSET Ordinary]
      /\ \A n \in Ordinary : \A k \in KidsNext[n] : Height[k] < Height[n]
  BY Shape DEF KidsNext
<1>2. \E r : r = [n \in Ordinary |-> {n} \union UNION {r[k] : k \in KidsNext[n]}]
  BY <1>1, ReachExists
<1>3. PICK r : r = [n \in Ordinary |-> {n} \union UNION {r[k] : k \in OrdinaryKids(n)}]
  BY <1>2 DEF KidsNext
<1>4. Static = [n \in Ordinary |-> {n} \union UNION {Static[k] : k \in OrdinaryKids(n)}]
  BY <1>3 DEF Static
<1>5. QED
  BY <1>1, <1>4 DEF KidsNext

LEMMA BelowIs ==
    /\ BelowNext \in [Ordinary -> SUBSET Ordinary]
    /\ Below = [n \in Ordinary |-> {n} \union UNION {Below[k] : k \in BelowNext[n]}]
    /\ \A n \in Ordinary : \A k \in BelowNext[n] : Height[k] < Height[n]
<1>1. ASSUME NEW n \in Ordinary, NEW k \in AnyKids(n) PROVE k \in Ordinary /\ Height[k] < Height[n]
  <2>1. CASE k \in OrdinaryKids(n)
    BY <2>1, Shape
  <2>2. CASE k \notin OrdinaryKids(n)
    <3>1. PICK s \in Range(Kids[n]) \intersect Slot : k \in MayShow(s)
      BY <2>2, <1>1 DEF AnyKids
    <3>2. k \in Ordinary /\ Height[k] < Height[s] /\ Height[s] < Height[n]
      BY <3>1, Shape
    <3>3. s \in Ordinary \union Slot /\ k \in Ordinary \union Slot /\ n \in Ordinary \union Slot
      BY <3>1, <3>2
    <3>4. Height[k] \in Nat /\ Height[s] \in Nat /\ Height[n] \in Nat
      BY <3>3, Shape
    <3>5. QED
      BY <3>2, <3>4
  <2>3. QED
    BY <2>1, <2>2
<1>2. /\ BelowNext \in [Ordinary -> SUBSET Ordinary]
      /\ \A n \in Ordinary : \A k \in BelowNext[n] : Height[k] < Height[n]
  BY <1>1 DEF BelowNext
<1>3. \E r : r = [n \in Ordinary |-> {n} \union UNION {r[k] : k \in BelowNext[n]}]
  BY <1>2, ReachExists
<1>4. PICK r : r = [n \in Ordinary |-> {n} \union UNION {r[k] : k \in AnyKids(n)}]
  BY <1>3 DEF BelowNext
<1>5. Below = [n \in Ordinary |-> {n} \union UNION {Below[k] : k \in AnyKids(n)}]
  BY <1>4 DEF Below
<1>6. QED
  BY <1>2, <1>5 DEF BelowNext

\* The ordinary nodes below n: n, those below its children, and no more.
LEMMA StaticFacts ==
    ASSUME NEW n \in Ordinary
    PROVE  /\ n \in Static[n] /\ Static[n] \subseteq Ordinary
           /\ \A x \in Static[n] : OrdinaryKids(x) \subseteq Static[n]
           /\ \A x \in Static[n] : Static[x] \subseteq Static[n]
           /\ \A x \in Static[n] : Height[x] <= Height[n]
           /\ \A x \in Static[n] : x = n \/ \E m \in Static[n] : x \in OrdinaryKids(m)
<1>1. n \in Static[n] /\ Static[n] \subseteq Ordinary /\ \A x \in Static[n] : KidsNext[x] \subseteq Static[n]
  BY StaticIs, ReachClosed
<1>2. \A x \in Ordinary : KidsNext[x] = OrdinaryKids(x)
  BY DEF KidsNext
<1>3. ASSUME NEW x \in Ordinary, NEW C, x \in C, \A y \in C \intersect Ordinary : OrdinaryKids(y) \subseteq C
      PROVE  Static[x] \subseteq C
  <2>1. \A y \in C \intersect Ordinary : KidsNext[y] \subseteq C
    BY <1>2, <1>3
  <2>2. QED
    BY <2>1, <1>3, StaticIs, ReachLeast
<1>4. \A x \in Static[n] : OrdinaryKids(x) \subseteq Static[n]
  BY <1>1, <1>2
<1>5. ASSUME NEW x \in Static[n] PROVE Static[x] \subseteq Static[n]
  BY <1>1, <1>3, <1>4
<1>6. \A x \in Static[n] : Height[x] <= Height[n]
  <2> DEFINE C == {x \in Ordinary : Height[x] <= Height[n]}
  <2>1. n \in C
    BY Shape
  <2>2. ASSUME NEW y \in C \intersect Ordinary, NEW k \in OrdinaryKids(y) PROVE k \in C
    <3>1. k \in Ordinary /\ Height[k] < Height[y] /\ Height[k] \in Nat /\ Height[y] \in Nat /\ Height[n] \in Nat
      BY Shape
    <3>2. QED
      BY <3>1
  <2>3. Static[n] \subseteq C
    <3> HIDE DEF C
    <3>1. QED
      BY <2>1, <2>2, <1>3
  <2>4. QED
    BY <2>3
<1>7. \A x \in Static[n] : x = n \/ \E m \in Static[n] : x \in OrdinaryKids(m)
  <2> DEFINE C == {x \in Static[n] : x = n \/ \E m \in Static[n] : x \in OrdinaryKids(m)}
  <2>1. n \in C
    BY <1>1
  <2>2. ASSUME NEW y \in C \intersect Ordinary, NEW k \in OrdinaryKids(y) PROVE k \in C
    BY <1>4
  <2>3. Static[n] \subseteq C
    <3> HIDE DEF C
    <3>1. QED
      BY <2>1, <2>2, <1>3
  <2>4. QED
    BY <2>3
<1>8. QED
  BY <1>1, <1>4, <1>5, <1>6, <1>7

\* A node with no ordinary parent: where a static tree begins.
IsTop(k) == k \in Ordinary /\ \A n \in Ordinary : k \notin Range(Kids[n])

LEMMA TopFacts ==
    /\ IsTop(Root)
    /\ \A s \in Slot : \A k \in MayShow(s) : IsTop(k) /\ k # Root
    /\ \A s, t \in Slot : \A k \in MayShow(s) : k \in MayShow(t) => s = t
BY PlaceAssumption, TreeAssumption, Shape DEF IsTop

\* A node has one parent.
LEMMA OneParent ==
    ASSUME NEW m \in Ordinary, NEW n \in Ordinary,
           NEW i \in DOMAIN Kids[m], NEW j \in DOMAIN Kids[n], Kids[m][i] = Kids[n][j], Kids[m][i] # None
    PROVE  m = n /\ i = j
BY PlaceAssumption

LEMMA OneParentOf ==
    ASSUME NEW m \in Ordinary, NEW n \in Ordinary, NEW k \in Ordinary \union Slot,
           k \in Range(Kids[m]), k \in Range(Kids[n])
    PROVE  m = n
<1>1. PICK i \in DOMAIN Kids[m] : Kids[m][i] = k
  BY DEF Range
<1>2. PICK j \in DOMAIN Kids[n] : Kids[n][j] = k
  BY DEF Range
<1>3. k # None
  BY TreeAssumption
<1>4. QED
  BY <1>1, <1>2, <1>3, OneParent

\* Static trees that do not contain each other share nothing.
LEMMA Apart ==
    ASSUME NEW a \in Ordinary, NEW b \in Ordinary, a \notin Static[b], b \notin Static[a]
    PROVE  Static[a] \intersect Static[b] = {}
<1> DEFINE C == Static[a] \ Static[b]
<1>1. a \in C
  BY StaticFacts
<1>2. ASSUME NEW x \in C \intersect Ordinary, NEW k \in KidsNext[x] PROVE k \in C
  <2>1. k \in OrdinaryKids(x) /\ k \in Ordinary /\ k \in Range(Kids[x])
    BY <1>2 DEF KidsNext, OrdinaryKids
  <2>2. k \in Static[a]
    BY <1>2, <2>1, StaticFacts
  <2>3. ASSUME k \in Static[b] PROVE FALSE
    <3>1. k # b
      BY <2>2
    <3>2. PICK m \in Static[b] : k \in OrdinaryKids(m)
      BY <2>3, <3>1, StaticFacts
    <3>3. m \in Ordinary /\ k \in Range(Kids[m])
      BY <3>2, StaticFacts DEF OrdinaryKids
    <3>4. m = x
      BY <2>1, <3>3, OneParentOf
    <3>5. QED
      BY <1>2, <3>2, <3>4
  <2>4. QED
    BY <2>2, <2>3
<1>3. Static[a] \subseteq C
  <2> HIDE DEF C
  <2>1. QED
    BY <1>1, <1>2, StaticIs, ReachLeast
<1>4. QED
  BY <1>3

LEMMA TopsApart ==
    ASSUME NEW a, NEW b, IsTop(a), IsTop(b), a # b
    PROVE  Static[a] \intersect Static[b] = {}
<1>1. a \in Ordinary /\ b \in Ordinary
  BY DEF IsTop
<1>2. ASSUME NEW x, NEW y, IsTop(x), IsTop(y), x # y PROVE x \notin Static[y]
  <2>1. x \in Ordinary /\ y \in Ordinary
    BY <1>2 DEF IsTop
  <2>2. \A m \in Static[y] : x \notin OrdinaryKids(m)
    BY <1>2, <2>1, StaticFacts DEF IsTop, OrdinaryKids
  <2>3. QED
    BY <2>1, <2>2, <1>2, StaticFacts
<1>3. QED
  BY <1>1, <1>2, Apart

LEMMA KidsApart ==
    ASSUME NEW n \in Ordinary, NEW a \in OrdinaryKids(n), NEW b \in OrdinaryKids(n), a # b
    PROVE  Static[a] \intersect Static[b] = {}
<1>1. ASSUME NEW x \in OrdinaryKids(n), NEW y \in OrdinaryKids(n), x # y PROVE x \notin Static[y]
  <2>1. x \in Ordinary /\ y \in Ordinary /\ x \in Range(Kids[n])
    BY DEF OrdinaryKids
  <2>2. ASSUME x \in Static[y] PROVE FALSE
    <3>1. PICK m \in Static[y] : x \in OrdinaryKids(m)
      BY <1>1, <2>1, <2>2, StaticFacts
    <3>2. m \in Ordinary /\ x \in Range(Kids[m]) /\ Height[m] <= Height[y]
      BY <2>1, <3>1, StaticFacts DEF OrdinaryKids
    <3>3. m = n
      BY <2>1, <3>2, OneParentOf
    <3>4. Height[y] < Height[n] /\ Height[y] \in Nat /\ Height[n] \in Nat
      BY <1>1, <2>1, Shape
    <3>5. QED
      BY <3>2, <3>3, <3>4
  <2>3. QED
    BY <2>2
<1>2. a \in Ordinary /\ b \in Ordinary
  BY Shape
<1>3. QED
  BY <1>1, <1>2, Apart

LEMMA BelowFacts ==
    ASSUME NEW n \in Ordinary
    PROVE  /\ Below[n] \subseteq Ordinary /\ Static[n] \subseteq Below[n]
           /\ \A C : n \in C /\ (\A x \in C \intersect Ordinary : AnyKids(x) \subseteq C) => Below[n] \subseteq C
<1>1. n \in Below[n] /\ Below[n] \subseteq Ordinary /\ \A x \in Below[n] : BelowNext[x] \subseteq Below[n]
  BY BelowIs, ReachClosed
<1>2. Static[n] \subseteq Below[n]
  <2>1. ASSUME NEW x \in Below[n] \intersect Ordinary PROVE KidsNext[x] \subseteq Below[n]
    <3>1. KidsNext[x] \subseteq BelowNext[x]
      BY DEF KidsNext, BelowNext, AnyKids
    <3>2. QED
      BY <1>1, <3>1
  <2>2. QED
    BY <1>1, <2>1, StaticIs, ReachLeast
<1>3. ASSUME NEW C, n \in C, \A x \in C \intersect Ordinary : AnyKids(x) \subseteq C PROVE Below[n] \subseteq C
  <2>1. \A x \in C \intersect Ordinary : BelowNext[x] \subseteq C
    BY <1>3 DEF BelowNext
  <2>2. QED
    BY <1>3, <2>1, BelowIs, ReachLeast
<1>4. QED
  BY <1>1, <1>2, <1>3

-----------------------------------------------------------------------------
(* Components as the children of a widget.                                 *)

Part(sh, k) == IF k \in Ordinary THEN <<k>> ELSE IF k \in Slot THEN sh[k] ELSE <<>>

\* The children up to each component of l.
IsUpto(u, l, sh) ==
    /\ u \in [0..Len(l) -> Seq(Ordinary)]
    /\ u[0] = <<>>
    /\ \A i \in 1..Len(l) : u[i] = u[i - 1] \o Part(sh, l[i])
Upto(sh, n) == CHOOSE u : IsUpto(u, Kids[n], sh)

Shows == [Slot -> Seq(Ordinary)]
Children == Seq(Ordinary \union Slot \union {None})

LEMMA PartIs ==
    ASSUME NEW sh \in Shows, NEW k
    PROVE  Part(sh, k) \in Seq(Ordinary) /\ Len(Part(sh, k)) \in Nat
<1>1. Part(sh, k) \in Seq(Ordinary)
  BY DEF Part, Shows
<1>2. QED
  BY <1>1, LenProperties

LEMMA UptoExists ==
    ASSUME NEW sh \in Shows, NEW l \in Children
    PROVE  \E u : IsUpto(u, l, sh)
<1> DEFINE n == Len(l)
           step == [i \in 1..n |-> [x \in Seq(Ordinary) |-> x \o Part(sh, l[i])]]
<1>1. n \in Nat
  BY LenProperties DEF Children
<1>2. <<>> \in Seq(Ordinary)
  BY EmptySeq
<1>3. step \in [1..n -> [Seq(Ordinary) -> Seq(Ordinary)]]
  <2> SUFFICES ASSUME NEW i \in 1..n, NEW x \in Seq(Ordinary) PROVE x \o Part(sh, l[i]) \in Seq(Ordinary)
    OBVIOUS
  <2>1. QED
    BY PartIs, ConcatProperties
<1>4. \A x \in Seq(Ordinary), i \in 1..n : step[i][x] = x \o Part(sh, l[i])
  OBVIOUS
<1> HIDE DEF step, n
<1>5. PICK f \in [0..n -> Seq(Ordinary)] : f[0] = <<>> /\ \A i \in 1..n : f[i] = step[i][f[i - 1]]
  <2>1. PICK T, e, m, q : T = Seq(Ordinary) /\ e = <<>> /\ m = n /\ q = step
    OBVIOUS
  <2>2. e \in T /\ m \in Nat /\ q \in [1..m -> [T -> T]]
    BY <1>1, <1>2, <1>3, <2>1
  <2>3. \E f \in [0..m -> T] : Steps(f, e, m, q)
    BY ONLY <2>2, StepsExist, Zenon
  <2>4. QED
    BY <2>1, <2>3 DEF Steps
<1>6. \A i \in 1..n : i - 1 \in 0..n
  BY <1>1
<1>7. \A i \in 1..n : f[i] = f[i - 1] \o Part(sh, l[i])
  BY <1>4, <1>5, <1>6
<1>8. IsUpto(f, l, sh)
  BY <1>5, <1>7 DEF IsUpto, n
<1>9. QED
  BY <1>8

\* Spread is its last value.
LEMMA SpreadIs ==
    ASSUME NEW sh \in Shows, NEW l \in Children, NEW u, IsUpto(u, l, sh)
    PROVE  Spread(l, sh) = u[Len(l)]
<1> DEFINE seqs == [i \in DOMAIN l |->
               IF l[i] \in Ordinary THEN <<l[i]>> ELSE IF l[i] \in Slot THEN sh[l[i]] ELSE <<>>]
           n == Len(l)
           f == [i \in 1..n |-> u[i]]
<1>1. n \in Nat /\ DOMAIN l = 1..n
  BY LenProperties DEF Children
<1>2. \A i \in 1..n : seqs[i] = Part(sh, l[i])
  BY <1>1 DEF Part
<1>3. seqs \in Seq(Seq(Ordinary)) /\ Len(seqs) = n
  <2>1. seqs \in [1..n -> Seq(Ordinary)]
    BY <1>1, <1>2, PartIs
  <2> HIDE DEF seqs, n
  <2>2. QED
    BY <2>1, <1>1
<1>4. Spread(l, sh) = FlattenSeq(seqs)
  BY DEF Spread
<1> HIDE DEF seqs
<1>5. CASE n = 0
  <2>1. seqs = <<>>
    BY <1>3, <1>5, EmptySeq
  <2>2. FlattenSeq(seqs) = seqs
    BY <1>3, <1>5 DEF FlattenSeq
  <2>3. u[n] = <<>>
    BY <1>5 DEF IsUpto
  <2>4. QED
    BY <1>4, <2>1, <2>2, <2>3
<1>6. CASE n # 0
  <2>1. u[1] = seqs[1]
    <3>1. 1 \in 1..n
      BY <1>1, <1>6
    <3>2. u[1] = u[0] \o Part(sh, l[1])
      BY <3>1, SMTT(40) DEF IsUpto
    <3>3. u[0] = <<>>
      BY DEF IsUpto
    <3>4. QED
      BY <3>1, <3>2, <3>3, <1>2, PartIs, ConcatEmptySeq
  <2>2. ASSUME NEW i \in 1..n, i # 1 PROVE f[i] = f[i - 1] \o seqs[i]
    <3>1. i - 1 \in 1..n
      BY <2>2, <1>1
    <3>2. u[i] = u[i - 1] \o Part(sh, l[i])
      BY DEF IsUpto
    <3>3. QED
      BY <1>2, <3>1, <3>2
  <2>3. f = [i \in 1..n |-> IF i = 1 THEN seqs[i] ELSE f[i - 1] \o seqs[i]]
    <3>1. \A i \in 1..n : f[i] = (IF i = 1 THEN seqs[i] ELSE f[i - 1] \o seqs[i])
      BY <2>1, <2>2
    <3>2. QED
      BY <3>1
  <2> DEFINE Flat(g) == g = [i \in 1..n |-> IF i = 1 THEN seqs[i] ELSE g[i - 1] \o seqs[i]]
             flat == CHOOSE g : Flat(g)
  <2>4. FlattenSeq(seqs) = flat[n]
    BY <1>3, <1>6 DEF FlattenSeq
  <2>5. Flat(f)
    BY <2>3
  <2> HIDE DEF f
  <2>6. Flat(flat)
    <3> HIDE DEF Flat
    <3>1. QED
      BY <2>5
  <2> HIDE DEF flat
  <2> DEFINE H == {i \in Nat : i \in 1..n => flat[i] = u[i]}
  <2>7. 0 \in H
    OBVIOUS
  <2>8. ASSUME NEW i \in 1..n, i - 1 \in H PROVE i \in H
    <3>1. flat[i] = IF i = 1 THEN seqs[i] ELSE flat[i - 1] \o seqs[i]
      BY <2>6
    <3>2. CASE i = 1
      BY <2>1, <3>1, <3>2
    <3>3. CASE i # 1
      <4>1. i - 1 \in 1..n
        BY <3>3, <1>1
      <4>2. flat[i - 1] = u[i - 1]
        BY <2>8, <4>1
      <4>3. u[i] = u[i - 1] \o Part(sh, l[i])
        BY DEF IsUpto
      <4>4. flat[i] = flat[i - 1] \o seqs[i]
        BY <3>1, <3>3
      <4>5. seqs[i] = Part(sh, l[i])
        BY <1>2
      <4>6. flat[i] = u[i]
        BY <4>2, <4>3, <4>4, <4>5
      <4>7. QED
        BY <4>6
    <3>4. QED
      BY <3>2, <3>3
  <2>9. n \in H /\ n \in 1..n
    <3> HIDE DEF H
    <3>1. H \in SUBSET Nat
      BY DEF H
    <3>2. 0..n \subseteq H
      BY <1>1, <2>7, <2>8, <3>1, UpTo
    <3>3. QED
      BY <3>2, <1>1, <1>6
  <2>10. QED
    BY <1>4, <2>4, <2>9
<1>7. QED
  BY <1>5, <1>6

LEMMA UptoFacts ==
    ASSUME NEW sh \in Shows, NEW n \in Ordinary, NEW u, u = Upto(sh, n)
    PROVE  /\ IsUpto(u, Kids[n], sh) /\ Spread(Kids[n], sh) = u[Len(Kids[n])]
           /\ u[0] = <<>> /\ \A i \in 0..Len(Kids[n]) : u[i] \in Seq(Ordinary) /\ Len(u[i]) \in Nat
           /\ \A i \in 1..Len(Kids[n]) : /\ u[i] = u[i - 1] \o Part(sh, Kids[n][i])
                                         /\ Len(u[i]) = Len(u[i - 1]) + Len(Part(sh, Kids[n][i]))
<1>1. Kids[n] \in Children /\ Len(Kids[n]) \in Nat
  BY Shape DEF Children
<1>2. \E v : IsUpto(v, Kids[n], sh)
  BY <1>1, UptoExists
<1>3. IsUpto(u, Kids[n], sh)
  BY <1>2, Zenon DEF Upto
<1>4. Spread(Kids[n], sh) = u[Len(Kids[n])]
  BY <1>1, <1>3, SpreadIs
<1>5. /\ u[0] = <<>> /\ \A i \in 0..Len(Kids[n]) : u[i] \in Seq(Ordinary)
      /\ \A i \in 1..Len(Kids[n]) : u[i] = u[i - 1] \o Part(sh, Kids[n][i])
  BY <1>3 DEF IsUpto
<1>6. ASSUME NEW i \in 1..Len(Kids[n])
      PROVE  Len(u[i]) = Len(u[i - 1]) + Len(Part(sh, Kids[n][i]))
  <2>1. i - 1 \in 0..Len(Kids[n])
    BY <1>1
  <2>2. u[i - 1] \in Seq(Ordinary) /\ Part(sh, Kids[n][i]) \in Seq(Ordinary)
    BY <1>5, <2>1, PartIs
  <2>3. QED
    BY <1>5, <2>2, ConcatProperties, ZenonT(60)
<1>7. \A i \in 0..Len(Kids[n]) : Len(u[i]) \in Nat
  BY <1>5, LenProperties
<1>8. QED
  BY <1>3, <1>4, <1>5, <1>6, <1>7

\* What comes after a component is the same wherever the parts are.
SameAfter(sh, to, n, i) == \A j \in 1..Len(Kids[n]) : j > i => Part(sh, Kids[n][j]) = Part(to, Kids[n][j])
LEMMA SameTail ==
    ASSUME NEW sh \in Shows, NEW to \in Shows, NEW n \in Ordinary, NEW i \in 0..Len(Kids[n]),
           SameAfter(sh, to, n, i)
    PROVE  \A j \in i..Len(Kids[n]) : \E X \in Seq(Ordinary) :
              Upto(sh, n)[j] = Upto(sh, n)[i] \o X /\ Upto(to, n)[j] = Upto(to, n)[i] \o X
<1> PICK u, v : u = Upto(sh, n) /\ v = Upto(to, n)
  OBVIOUS
<1> DEFINE m == Len(Kids[n])
           P(j) == \E X \in Seq(Ordinary) : u[j] = u[i] \o X /\ v[j] = v[i] \o X
           H == {j \in Nat : j >= i /\ j <= m => P(j)}
<1>1. m \in Nat /\ i \in Nat
  BY Shape
<1>2. /\ \A j \in 0..m : u[j] \in Seq(Ordinary)
      /\ \A j \in 1..m : u[j] = u[j - 1] \o Part(sh, Kids[n][j])
  BY ONLY UptoFacts, sh \in Shows, n \in Ordinary, u = Upto(sh, n), ZenonT(60)
<1>v. /\ \A j \in 0..m : v[j] \in Seq(Ordinary)
      /\ \A j \in 1..m : v[j] = v[j - 1] \o Part(to, Kids[n][j])
  BY UptoFacts
<1>3. P(i)
  <2>1. u[i] = u[i] \o <<>> /\ v[i] = v[i] \o <<>> /\ <<>> \in Seq(Ordinary)
    BY <1>2, <1>v, ConcatEmptySeq, EmptySeq
  <2>2. QED
    BY <2>1
<1> HIDE DEF m
<1>4. 0 \in H
  <2>1. 0 >= i /\ 0 <= m => i = 0
    BY <1>1
  <2> HIDE DEF P
  <2>2. QED
    BY <2>1, <1>3
<1>5. ASSUME NEW j \in 1..m, j - 1 \in H PROVE j \in H
  <2>j. j \in Nat
    OBVIOUS
  <2>1. CASE j < i
    BY <2>1, <2>j, <1>1
  <2>2. CASE j = i
    <3> HIDE DEF P
    <3>1. QED
      BY <2>2, <2>j, <1>3
  <2>3. CASE j > i
    <3>1. j - 1 \in 0..m /\ j - 1 >= i /\ j - 1 <= m
      BY <2>3, <1>1
    <3>2. PICK X \in Seq(Ordinary) : u[j - 1] = u[i] \o X /\ v[j - 1] = v[i] \o X
      BY <1>5, <3>1
    <3>3. PICK p : p = Part(sh, Kids[n][j]) /\ p = Part(to, Kids[n][j])
      BY <2>3 DEF m, SameAfter
    <3>4. p \in Seq(Ordinary)
      BY <3>3, PartIs
    <3>5. u[j] = (u[i] \o X) \o p /\ v[j] = (v[i] \o X) \o p
      BY <1>2, <1>v, <3>2, <3>3
    <3>6. X \o p \in Seq(Ordinary) /\ u[i] \in Seq(Ordinary) /\ v[i] \in Seq(Ordinary)
      BY <1>2, <1>v, <3>4, ConcatProperties DEF m
    <3>7. (u[i] \o X) \o p = u[i] \o (X \o p) /\ (v[i] \o X) \o p = v[i] \o (X \o p)
      <4> PICK A, B, T : A = u[i] /\ B = v[i] /\ T = Seq(Ordinary)
        OBVIOUS
      <4>1. A \in Seq(Ordinary) /\ B \in Seq(Ordinary) /\ X \in Seq(Ordinary) /\ p \in Seq(Ordinary)
        BY <3>4, <3>6
      <4>2. (A \o X) \o p = A \o (X \o p)
        BY ONLY <4>1, ConcatAssociative, SMTT(40)
      <4>3. (B \o X) \o p = B \o (X \o p)
        BY ONLY <4>1, ConcatAssociative, SMTT(40)
      <4>4. QED
        BY <4>2, <4>3
    <3>8. P(j)
      BY <3>5, <3>6, <3>7
    <3> HIDE DEF P
    <3>9. QED
      BY <3>8, <2>j
  <2>4. j < i \/ j = i \/ j > i
    BY <2>j, <1>1
  <2> HIDE DEF H
  <2>5. QED
    BY <2>1, <2>2, <2>3, <2>4
<1> HIDE DEF P
<1>6. 0..m \subseteq H
  <2>1. H \in SUBSET Nat
    OBVIOUS
  <2> HIDE DEF H
  <2>2. QED
    BY <1>1, <1>4, <1>5, <2>1, UpTo
<1>7. \A j \in i..m : j \in 0..m /\ j >= i /\ j <= m
  BY <1>1 DEF m
<1>8. \A j \in i..m : P(j)
  BY <1>6, <1>7
<1>9. \A j \in i..Len(Kids[n]) : \E X \in Seq(Ordinary) : u[j] = u[i] \o X /\ v[j] = v[i] \o X
  BY <1>8 DEF P, m
<1>10. QED
  BY <1>9

LEMMA SameHead ==
    ASSUME NEW sh \in Shows, NEW to \in Shows, NEW n \in Ordinary, NEW i \in 0..Len(Kids[n]),
           \A j \in 1..i : Part(sh, Kids[n][j]) = Part(to, Kids[n][j])
    PROVE  Upto(sh, n)[i] = Upto(to, n)[i]
<1> PICK u, v, m : u = Upto(sh, n) /\ v = Upto(to, n) /\ m = Len(Kids[n])
  OBVIOUS
<1> DEFINE H == {j \in Nat : j <= i => u[j] = v[j]}
<1>1. m \in Nat /\ i \in Nat /\ i <= m
  BY Shape
<1>2. u[0] = <<>> /\ \A j \in 1..m : u[j] = u[j - 1] \o Part(sh, Kids[n][j])
  BY ONLY UptoFacts, sh \in Shows, n \in Ordinary, u = Upto(sh, n), m = Len(Kids[n]), ZenonT(60)
<1>v. v[0] = <<>> /\ \A j \in 1..m : v[j] = v[j - 1] \o Part(to, Kids[n][j])
  BY UptoFacts, ZenonT(60)
<1>3. 0 \in H
  BY <1>2, <1>v
<1>4. ASSUME NEW j \in 1..i, j - 1 \in H PROVE j \in H
  <2>1. j \in 1..m /\ j - 1 <= i /\ j \in Nat
    BY <1>1
  <2>2. u[j - 1] = v[j - 1]
    BY <1>4, <2>1
  <2>3. QED
    BY <1>2, <1>v, <2>1, <2>2
<1>5. H \in SUBSET Nat
  OBVIOUS
<1> HIDE DEF H
<1>6. 0..i \subseteq H
  BY <1>1, <1>3, <1>4, <1>5, UpTo
<1>7. i \in H /\ i <= i
  BY <1>1, <1>6
<1>8. QED
  BY <1>7 DEF H

\* A part in the middle of a list.
IsMiddle(c, A, P, X) ==
    /\ Len(A) + Len(P) <= Len(c)
    /\ \A j \in 1..Len(P) : c[Len(A) + j] = P[j]
    /\ SubSeq(c, Len(A) + 1, Len(A) + Len(P)) = P
    /\ SubSeq(c, 1, Len(A)) = A /\ SubSeq(c, Len(A) + Len(P) + 1, Len(c)) = X
LEMMA Middle ==
    ASSUME NEW S, NEW A \in Seq(S), NEW P \in Seq(S), NEW X \in Seq(S)
    PROVE  (A \o P) \o X \in Seq(S) /\ IsMiddle((A \o P) \o X, A, P, X)
<1> PICK c : c = (A \o P) \o X
  OBVIOUS
<1> PICK a, p, x : a = Len(A) /\ p = Len(P) /\ x = Len(X)
  OBVIOUS
<1>1. a \in Nat /\ p \in Nat /\ x \in Nat
  BY LenProperties
<1>2. A \o P \in Seq(S) /\ Len(A \o P) = a + p /\ \A i \in 1..a + p : (A \o P)[i] = IF i <= a THEN A[i] ELSE P[i - a]
  BY ConcatProperties
<1>3. c \in Seq(S) /\ Len(c) = (a + p) + x
      /\ \A i \in 1..(a + p) + x : c[i] = IF i <= a + p THEN (A \o P)[i] ELSE X[i - (a + p)]
  BY <1>2, ConcatProperties
<1>4. \A i \in 1..a : c[i] = A[i]
  <2> SUFFICES ASSUME NEW i \in 1..a PROVE c[i] = A[i]
    OBVIOUS
  <2>1. i \in 1..a + p /\ i \in 1..(a + p) + x /\ i <= a + p /\ i <= a
    BY <1>1
  <2>2. QED
    BY <1>2, <1>3, <2>1
<1>5. \A j \in 1..p : c[a + j] = P[j]
  <2> SUFFICES ASSUME NEW j \in 1..p PROVE c[a + j] = P[j]
    OBVIOUS
  <2>1. a + j \in 1..a + p /\ a + j \in 1..(a + p) + x /\ a + j <= a + p /\ ~(a + j <= a) /\ (a + j) - a = j
    BY <1>1
  <2>2. QED
    BY <1>2, <1>3, <2>1
<1>6. \A j \in 1..x : c[a + p + j] = X[j]
  <2> SUFFICES ASSUME NEW j \in 1..x PROVE c[a + p + j] = X[j]
    OBVIOUS
  <2>1. a + p + j \in 1..(a + p) + x /\ ~(a + p + j <= a + p) /\ (a + p + j) - (a + p) = j
    BY <1>1
  <2>2. QED
    BY <1>3, <2>1
<1>7. \A i \in 1..(a + p) + x : c[i] \in S
  BY <1>3, LenProperties
<1>8. SubSeq(c, 1, a) = A
  <2>1. \A i \in 1..a : c[i] \in S
    BY <1>1, <1>7
  <2>2. /\ SubSeq(c, 1, a) \in Seq(S) /\ Len(SubSeq(c, 1, a)) = (IF 1 <= a THEN a - 1 + 1 ELSE 0)
        /\ \A i \in 1..a - 1 + 1 : SubSeq(c, 1, a)[i] = c[1 + i - 1]
    BY <1>1, <2>1, SubSeqProperties
  <2>3. Len(SubSeq(c, 1, a)) = a /\ \A i \in 1..a : SubSeq(c, 1, a)[i] = A[i]
    BY <1>1, <1>4, <2>2
  <2>4. QED
    BY <2>2, <2>3, SeqEqual
<1>9. SubSeq(c, a + 1, a + p) = P
  <2>1. \A i \in (a + 1)..(a + p) : c[i] \in S
    BY <1>1, <1>7
  <2>2. a + 1 \in Int /\ a + p \in Int
    BY <1>1
  <2>3. /\ SubSeq(c, a + 1, a + p) \in Seq(S)
        /\ Len(SubSeq(c, a + 1, a + p)) = (IF a + 1 <= a + p THEN (a + p) - (a + 1) + 1 ELSE 0)
        /\ \A i \in 1..(a + p) - (a + 1) + 1 : SubSeq(c, a + 1, a + p)[i] = c[(a + 1) + i - 1]
    BY <2>1, <2>2, SubSeqProperties
  <2>4. (IF a + 1 <= a + p THEN (a + p) - (a + 1) + 1 ELSE 0) = p /\ (a + p) - (a + 1) + 1 = p
        /\ \A i \in 1..p : (a + 1) + i - 1 = a + i
    BY <1>1
  <2>5. Len(SubSeq(c, a + 1, a + p)) = p /\ \A i \in 1..p : SubSeq(c, a + 1, a + p)[i] = P[i]
    BY <1>5, <2>3, <2>4
  <2>6. QED
    BY <2>3, <2>5, SeqEqual
<1>10. SubSeq(c, a + p + 1, (a + p) + x) = X
  <2> PICK m, n : m = a + p + 1 /\ n = (a + p) + x
    OBVIOUS
  <2>1. \A i \in m..n : c[i] \in S
    BY <1>1, <1>7
  <2>2. m \in Int /\ n \in Int
    BY <1>1
  <2>3. /\ SubSeq(c, m, n) \in Seq(S)
        /\ Len(SubSeq(c, m, n)) = (IF m <= n THEN n - m + 1 ELSE 0)
        /\ \A i \in 1..n - m + 1 : SubSeq(c, m, n)[i] = c[m + i - 1]
    BY ONLY <2>1, <2>2, SubSeqProperties
  <2>4. (IF m <= n THEN n - m + 1 ELSE 0) = x /\ n - m + 1 = x
        /\ \A i \in 1..x : m + i - 1 = a + p + i
    BY <1>1
  <2>5. Len(SubSeq(c, m, n)) = x /\ \A i \in 1..x : SubSeq(c, m, n)[i] = X[i]
    BY <1>6, <2>3, <2>4
  <2>6. QED
    BY <2>3, <2>5, SeqEqual
<1>11. a + p <= Len(c)
  BY <1>1, <1>3
<1>12. IsMiddle(c, A, P, X)
  BY <1>3, <1>5, <1>8, <1>9, <1>10, <1>11 DEF IsMiddle
<1>13. QED
  BY <1>3, <1>12

\* The part of one component among the children.
IsPart(c, b, p) ==
    /\ c \in Seq(Ordinary) /\ b \in Nat /\ Len(p) \in Nat /\ b + Len(p) <= Len(c)
    /\ \A j \in 1..Len(p) : c[b + j] = p[j]
    /\ SubSeq(c, b + 1, b + Len(p)) = p
LEMMA PartAt ==
    ASSUME NEW sh \in Shows, NEW n \in Ordinary, NEW i \in DOMAIN Kids[n]
    PROVE  IsPart(Spread(Kids[n], sh), Len(Upto(sh, n)[i - 1]), Part(sh, Kids[n][i]))
<1> PICK c, b, p : c = Spread(Kids[n], sh) /\ b = Len(Upto(sh, n)[i - 1]) /\ p = Part(sh, Kids[n][i])
  OBVIOUS
<1> PICK u, m : u = Upto(sh, n) /\ m = Len(Kids[n])
  OBVIOUS
<1>1. m \in Nat /\ i \in 1..m /\ i \in 0..m /\ i - 1 \in 0..m /\ m \in i..m
  BY Shape
<1>2. /\ c = u[m] /\ \A j \in 0..m : u[j] \in Seq(Ordinary) /\ Len(u[j]) \in Nat
      /\ \A j \in 1..m : u[j] = u[j - 1] \o Part(sh, Kids[n][j])
  BY UptoFacts
<1>3. PICK X \in Seq(Ordinary) : u[m] = u[i] \o X
  <2>1. SameAfter(sh, sh, n, i)
    BY DEF SameAfter
  <2>2. \A j \in i..Len(Kids[n]) : \E X \in Seq(Ordinary) : u[j] = u[i] \o X /\ u[j] = u[i] \o X
    BY ONLY i \in 0..Len(Kids[n]), <2>1, SameTail, sh \in Shows, n \in Ordinary, u = Upto(sh, n)
  <2>3. QED
    BY <1>1, <2>2
<1>4. u[i] = u[i - 1] \o p /\ p \in Seq(Ordinary) /\ Len(p) \in Nat /\ u[i - 1] \in Seq(Ordinary) /\ b = Len(u[i - 1])
  BY <1>1, <1>2, PartIs
<1>5. c = (u[i - 1] \o p) \o X
  BY <1>2, <1>3, <1>4
<1>6. PICK A : A = u[i - 1]
  OBVIOUS
<1>7. A \in Seq(Ordinary) /\ c = (A \o p) \o X /\ b = Len(A)
  BY <1>4, <1>5, <1>6
<1>8. /\ c \in Seq(Ordinary) /\ b + Len(p) <= Len(c)
      /\ \A j \in 1..Len(p) : c[b + j] = p[j]
      /\ SubSeq(c, b + 1, b + Len(p)) = p
  <2>1. PICK T : T = Ordinary
    OBVIOUS
  <2>2. A \in Seq(T) /\ p \in Seq(T) /\ X \in Seq(T) /\ c = (A \o p) \o X
    BY <1>3, <1>4, <1>7, <2>1
  <2>3. /\ c \in Seq(T) /\ Len(A) + Len(p) <= Len(c)
        /\ \A j \in 1..Len(p) : c[Len(A) + j] = p[j]
        /\ SubSeq(c, Len(A) + 1, Len(A) + Len(p)) = p
    <3>1. IsMiddle(c, A, p, X) /\ c \in Seq(T)
      BY ONLY <2>2, Middle
    <3>2. QED
      BY <3>1 DEF IsMiddle
  <2>4. QED
    BY <1>7, <2>1, <2>3
<1>9. b \in Nat
  BY <1>1, <1>2, <1>4
<1>10. IsPart(c, b, p)
  BY <1>4, <1>8, <1>9 DEF IsPart
<1>11. QED
  BY <1>10

\* Another output in the place of a slot's.
Replace(c, b, k, l) == (SubSeq(c, 1, b) \o l) \o SubSeq(c, b + k + 1, Len(c))
LEMMA Replaced ==
    ASSUME NEW sh \in Shows, NEW n \in Ordinary, NEW i \in DOMAIN Kids[n], Kids[n][i] \in Slot,
           NEW l \in Seq(Ordinary)
    PROVE  Replace(Spread(Kids[n], sh), Len(Upto(sh, n)[i - 1]), Len(sh[Kids[n][i]]), l)
              = Spread(Kids[n], [sh EXCEPT ![Kids[n][i]] = l])
<1> PICK to, c, b, k : /\ to = [sh EXCEPT ![Kids[n][i]] = l] /\ c = Spread(Kids[n], sh)
                       /\ b = Len(Upto(sh, n)[i - 1]) /\ k = Len(sh[Kids[n][i]])
  OBVIOUS
<1> PICK u, v, m : u = Upto(sh, n) /\ v = Upto(to, n) /\ m = Len(Kids[n])
  OBVIOUS
<1>1. m \in Nat /\ DOMAIN Kids[n] = 1..m
  BY Shape
<1>2. i \in 1..m /\ i \in 0..m /\ i - 1 \in 0..m /\ m \in i..m
  BY <1>1
<1>3. to \in Shows
  BY DEF Shows
<1>4. \A j \in 1..m : j # i => Part(sh, Kids[n][j]) = Part(to, Kids[n][j])
  <2> SUFFICES ASSUME NEW j \in 1..m, j # i PROVE Part(sh, Kids[n][j]) = Part(to, Kids[n][j])
    OBVIOUS
  <2>1. Kids[n][i] # None
    BY TreeAssumption
  <2>2. Kids[n][j] # Kids[n][i]
    BY <1>1, <1>2, <2>1, OneParent
  <2>3. QED
    BY <2>2 DEF Part, Shows
<1>5. Part(sh, Kids[n][i]) = sh[Kids[n][i]] /\ Part(to, Kids[n][i]) = l /\ sh[Kids[n][i]] \in Seq(Ordinary)
  BY TreeAssumption DEF Part, Shows
<1>6. /\ c = u[m] /\ \A j \in 0..m : u[j] \in Seq(Ordinary)
      /\ \A j \in 1..m : u[j] = u[j - 1] \o Part(sh, Kids[n][j])
  BY UptoFacts, ZenonT(60)
<1>v. Spread(Kids[n], to) = v[m] /\ \A j \in 1..m : v[j] = v[j - 1] \o Part(to, Kids[n][j])
  BY <1>3, UptoFacts, ZenonT(60)
<1>7. PICK X \in Seq(Ordinary) : u[m] = u[i] \o X /\ v[m] = v[i] \o X
  <2>1. ASSUME NEW j \in 1..Len(Kids[n]), j > i PROVE Part(sh, Kids[n][j]) = Part(to, Kids[n][j])
    <3>1. j \in 1..m /\ j # i
      BY <2>1, <1>1, <1>2
    <3>2. QED
      BY <3>1, <1>4
  <2>2. i \in 0..Len(Kids[n]) /\ SameAfter(sh, to, n, i)
    BY <1>2, <2>1 DEF SameAfter
  <2>3. \A j \in i..Len(Kids[n]) : \E X \in Seq(Ordinary) : u[j] = u[i] \o X /\ v[j] = v[i] \o X
    BY ONLY <2>2, to \in Shows, SameTail, u = Upto(sh, n), v = Upto(to, n), sh \in Shows, n \in Ordinary
  <2>4. QED
    BY <1>2, <2>3
<1>8. u[i - 1] = v[i - 1]
  <2>1. \A j \in 1..(i - 1) : Part(sh, Kids[n][j]) = Part(to, Kids[n][j])
    <3>1. \A j \in 1..(i - 1) : j \in 1..m /\ j # i
      BY <1>1, <1>2, SMTT(40)
    <3>2. QED
      BY <3>1, <1>4
  <2>2. i - 1 \in 0..Len(Kids[n])
    BY <1>2
  <2>3. QED
    BY <1>3, <2>1, <2>2, SameHead
<1>9. PICK A, P : A = u[i - 1] /\ P = sh[Kids[n][i]]
  OBVIOUS
<1>10. c = (A \o P) \o X /\ Spread(Kids[n], to) = (A \o l) \o X
  BY <1>2, <1>5, <1>6, <1>v, <1>7, <1>8, <1>9
<1>11. A \in Seq(Ordinary) /\ P \in Seq(Ordinary) /\ b = Len(A) /\ k = Len(P)
  BY <1>2, <1>5, <1>6, <1>9
<1>12. (SubSeq(c, 1, b) \o l) \o SubSeq(c, b + k + 1, Len(c)) = (A \o l) \o X
  <2>1. (SubSeq(c, 1, Len(A)) \o l) \o SubSeq(c, Len(A) + Len(P) + 1, Len(c)) = (A \o l) \o X
    <3> PICK T : T = Ordinary
      OBVIOUS
    <3>1. A \in Seq(T) /\ P \in Seq(T) /\ X \in Seq(T) /\ l \in Seq(T) /\ c = (A \o P) \o X
      BY <1>7, <1>10, <1>11
    <3>2. QED
      <4>1. IsMiddle(c, A, P, X)
        BY ONLY <3>1, Middle
      <4>2. SubSeq(c, 1, Len(A)) = A /\ SubSeq(c, Len(A) + Len(P) + 1, Len(c)) = X
        BY <4>1 DEF IsMiddle
      <4>3. QED
        BY <4>2
  <2>2. QED
    BY <2>1, <1>11
<1>13. Replace(c, b, k, l) = Spread(Kids[n], to)
  BY <1>10, <1>12 DEF Replace
<1>14. QED
  BY <1>13

-----------------------------------------------------------------------------
(* Numbering the components of a node.                                     *)

LEMMA SumsExist ==
    ASSUME NEW m \in Nat, NEW gives \in [1..m -> Nat]
    PROVE  \E f \in [0..m -> Nat] : f[0] = 0 /\ \A i \in 1..m : f[i] = f[i - 1] + gives[i]
<1> DEFINE step == [i \in 1..m |-> [x \in Nat |-> x + gives[i]]]
<1>1. step \in [1..m -> [Nat -> Nat]]
  OBVIOUS
<1>2. \A i \in 1..m, x \in Nat : step[i][x] = x + gives[i]
  OBVIOUS
<1> HIDE DEF step
<1>3. PICK f \in [0..m -> Nat] : f[0] = 0 /\ \A i \in 1..m : f[i] = step[i][f[i - 1]]
  <2>1. PICK T, e, q : T = Nat /\ e = 0 /\ q = step
    OBVIOUS
  <2>2. e \in T /\ q \in [1..m -> [T -> T]]
    BY <1>1, <2>1
  <2>3. \E f \in [0..m -> T] : Steps(f, e, m, q)
    BY ONLY m \in Nat, <2>2, StepsExist, Zenon
  <2>4. QED
    BY <2>1, <2>3 DEF Steps
<1>4. \A i \in 1..m : i - 1 \in 0..m /\ f[i - 1] \in Nat
  OBVIOUS
<1>5. \A i \in 1..m : f[i] = f[i - 1] + gives[i]
  BY <1>2, <1>3, <1>4
<1>6. QED
  BY <1>3, <1>5

\* How many of the first components of n are in S.
IsAmong(f, n, S) ==
    /\ f \in [0..Len(Kids[n]) -> Nat]
    /\ f[0] = 0
    /\ \A i \in 1..Len(Kids[n]) : f[i] = f[i - 1] + (IF Kids[n][i] \in S THEN 1 ELSE 0)
Among(n, S) == CHOOSE f : IsAmong(f, n, S)

LEMMA AmongIs ==
    ASSUME NEW n \in Ordinary, NEW S
    PROVE  IsAmong(Among(n, S), n, S)
<1> PICK m : m = Len(Kids[n])
  OBVIOUS
<1> DEFINE gives == [i \in 1..m |-> IF Kids[n][i] \in S THEN 1 ELSE 0]
<1>1. m \in Nat
  BY Shape
<1>2. gives \in [1..m -> Nat] /\ \A i \in 1..m : gives[i] = IF Kids[n][i] \in S THEN 1 ELSE 0
  OBVIOUS
<1> HIDE DEF gives
<1>3. PICK f \in [0..m -> Nat] : f[0] = 0 /\ \A i \in 1..m : f[i] = f[i - 1] + gives[i]
  BY <1>1, <1>2, SumsExist
<1>4. IsAmong(f, n, S)
  BY <1>2, <1>3 DEF IsAmong
<1>5. QED
  BY <1>4, Zenon DEF Among

\* It grows, and with every component in S.
LEMMA AmongGrows ==
    ASSUME NEW n \in Ordinary, NEW S, NEW i \in 0..Len(Kids[n]), NEW j \in 0..Len(Kids[n]), i <= j
    PROVE  /\ Among(n, S)[i] \in Nat /\ Among(n, S)[j] \in Nat /\ Among(n, S)[i] <= Among(n, S)[j]
           /\ i < j /\ Kids[n][j] \in S => Among(n, S)[i] < Among(n, S)[j]
<1> PICK f, m : f = Among(n, S) /\ m = Len(Kids[n])
  OBVIOUS
<1> DEFINE H == {k \in Nat : i <= k /\ k <= m => f[i] <= f[k]}
<1>1. m \in Nat /\ i \in 0..m /\ j \in 0..m
  BY Shape
<1>2. f \in [0..m -> Nat] /\ \A k \in 1..m : f[k] = f[k - 1] + (IF Kids[n][k] \in S THEN 1 ELSE 0)
  BY AmongIs DEF IsAmong
<1>3. 0 \in H
  BY <1>1, <1>2
<1>4. ASSUME NEW k \in 1..m, k - 1 \in H PROVE k \in H
  <2> HIDE DEF H
  <2>a. k \in 1..m /\ k \in 0..m /\ k - 1 \in 0..m /\ k - 1 \in Nat /\ k \in Nat
    BY <1>1
  <2>b. f[k - 1] \in Nat /\ f[k] \in Nat /\ f[i] \in Nat
    BY <1>1, <1>2, <2>a
  <2>1. k \in 0..m /\ k - 1 \in 0..m /\ k - 1 \in Nat /\ f[k - 1] \in Nat /\ f[k] \in Nat /\ f[i] \in Nat
    BY <2>a, <2>b
  <2>2. f[k - 1] <= f[k]
    <3>1. PICK x, y : x = f[k - 1] /\ y = f[k]
      OBVIOUS
    <3>2. y = x + (IF Kids[n][k] \in S THEN 1 ELSE 0) /\ x \in Nat
      BY <1>2, <2>a, <2>b, <3>1
    <3>3. QED
      BY <3>1, <3>2
  <2> USE DEF H
  <2>3. CASE i <= k - 1
    BY <1>4, <2>1, <2>2, <2>3
  <2>4. CASE ~(i <= k - 1)
    BY <1>1, <2>1, <2>4
  <2>5. QED
    BY <2>3, <2>4
<1>5. H \in SUBSET Nat
  OBVIOUS
<1> HIDE DEF H
<1>6. 0..m \subseteq H
  BY <1>1, <1>3, <1>4, <1>5, UpTo
<1>7. \A k \in 0..m : i <= k => f[i] <= f[k]
  BY <1>6 DEF H
<1>8. ASSUME i < j, Kids[n][j] \in S PROVE f[i] < f[j]
  <2>1. j \in 1..m /\ j - 1 \in 0..m /\ i <= j - 1
    BY <1>1, <1>8
  <2>2. f[i] <= f[j - 1] /\ f[j] = f[j - 1] + 1 /\ f[j - 1] \in Nat /\ f[i] \in Nat
    BY <1>1, <1>2, <1>7, <1>8, <2>1
  <2>3. QED
    BY <2>2
<1>9. QED
  BY <1>1, <1>2, <1>7, <1>8

\* The step from one component to the next.
LEMMA AmongNext ==
    ASSUME NEW n \in Ordinary, NEW S, NEW i \in DOMAIN Kids[n]
    PROVE  /\ Among(n, S)[i - 1] \in Nat /\ Among(n, S)[i] \in Nat /\ Among(n, S)[0] = 0
           /\ Kids[n][i] \in S => Among(n, S)[i] = Among(n, S)[i - 1] + 1
           /\ Kids[n][i] \notin S => Among(n, S)[i] = Among(n, S)[i - 1]
<1> PICK f, m : f = Among(n, S) /\ m = Len(Kids[n])
  OBVIOUS
<1>1. m \in Nat /\ i \in 1..m /\ i \in 0..m /\ i - 1 \in 0..m
  BY Shape
<1>2. /\ f \in [0..m -> Nat] /\ f[0] = 0
      /\ \A k \in 1..m : f[k] = f[k - 1] + (IF Kids[n][k] \in S THEN 1 ELSE 0)
  BY AmongIs DEF IsAmong
<1>3. f[i - 1] \in Nat /\ f[i] \in Nat
  BY <1>1, <1>2
<1>4. QED
  BY <1>1, <1>2, <1>3

\* The index a group computes, from what the slots before it have spliced in.
Sums(g, p, c) ==
    /\ p \in Nat /\ p # 0 /\ g[p].static \in Nat
    /\ c \in [0..(p - 1) -> Nat] /\ c[0] = 0
    /\ \A k \in 1..(p - 1) : /\ (IF g[k].live THEN count[g[k].slot] ELSE 0) \in Nat
                             /\ c[k] = c[k - 1] + (IF g[k].live THEN count[g[k].slot] ELSE 0)
LEMMA IndexIs ==
    ASSUME NEW s, NEW c, Sums(group[parent[s]], place[s], c)
    PROVE  AbsoluteIndexOf(s) = group[parent[s]][place[s]].static + c[place[s] - 1]
<1> PICK g, p : g = group[parent[s]] /\ p = place[s]
  OBVIOUS
<1>a. /\ p \in Nat /\ p # 0 /\ g[p].static \in Nat /\ c \in [0..(p - 1) -> Nat] /\ c[0] = 0
      /\ \A k \in 1..(p - 1) : /\ (IF g[k].live THEN count[g[k].slot] ELSE 0) \in Nat
                               /\ c[k] = c[k - 1] + (IF g[k].live THEN count[g[k].slot] ELSE 0)
  BY DEF Sums
<1> DEFINE Is(f) == f = [k \in 1..p |-> IF k = 1 THEN g[p].static
                                     ELSE f[k - 1] + (IF g[k - 1].live THEN count[g[k - 1].slot] ELSE 0)]
           index == CHOOSE f : Is(f)
           h == [k \in 1..p |-> g[p].static + c[k - 1]]
<1>1. \A k \in 1..p : k - 1 \in 0..(p - 1) /\ c[k - 1] \in Nat
  <2>1. \A k \in 1..p : k - 1 \in 0..(p - 1)
    BY <1>a
  <2>2. c \in [0..(p - 1) -> Nat]
    BY <1>a
  <2>3. QED
    BY ONLY <2>1, <2>2
<1>2. ASSUME NEW k \in 1..p
      PROVE  h[k] = IF k = 1 THEN g[p].static
                    ELSE h[k - 1] + (IF g[k - 1].live THEN count[g[k - 1].slot] ELSE 0)
  <2>1. CASE k = 1
    <3>1. h[k] = g[p].static + c[0] /\ c[0] = 0 /\ g[p].static \in Nat
      BY <1>a, <2>1
    <3>2. QED
      BY <2>1, <3>1
  <2>2. CASE k # 1
    <3>1. k - 1 \in 1..p /\ k - 1 \in 1..(p - 1) /\ (k - 1) - 1 \in 0..(p - 1)
      <4>1. p \in Nat /\ k \in 1..p
        BY <1>a
      <4>2. QED
        BY ONLY <2>2, <4>1
    <3>2. PICK x, y, z, a : /\ x = c[k - 1] /\ y = c[(k - 1) - 1] /\ a = g[p].static
                            /\ z = IF g[k - 1].live THEN count[g[k - 1].slot] ELSE 0
      OBVIOUS
    <3>a. x = y + z
      BY <1>a, <3>1, <3>2
    <3>b. x \in Nat /\ y \in Nat /\ a \in Nat
      BY <1>a, <1>1, <3>1, <3>2
    <3>c. h[k] = a + x
      BY <3>2
    <3>d. h[k - 1] = a + y
      BY <3>1, <3>2
    <3>e. z \in Nat
      BY <1>a, <3>1, <3>2
    <3>4. h[k] = h[k - 1] + z
      BY ONLY <3>a, <3>b, <3>c, <3>d, <3>e
    <3>5. QED
      BY <2>2, <3>2, <3>4
  <2>3. QED
    BY <2>1, <2>2
<1>3. Is(h)
  <2> DEFINE r == [k \in 1..p |-> IF k = 1 THEN g[p].static
                                  ELSE h[k - 1] + (IF g[k - 1].live THEN count[g[k - 1].slot] ELSE 0)]
  <2>1. \A k \in 1..p : h[k] = r[k]
    BY <1>2
  <2>2. h = r
    BY <2>1
  <2>3. QED
    BY <2>2
<1>4. p \in 1..p /\ h[p] = g[p].static + c[p - 1]
  <2>1. p \in 1..p
    BY <1>a
  <2>2. QED
    BY <2>1
<1> HIDE DEF h
<1>5. Is(index)
  <2> HIDE DEF Is
  <2>1. QED
    BY <1>3
<1>6. AbsoluteIndexOf(s) = index[p]
  BY DEF AbsoluteIndexOf
<1> HIDE DEF index
<1> DEFINE H == {k \in Nat : k \in 1..p => index[k] = h[k]}
<1>7. 0 \in H
  OBVIOUS
<1>8. ASSUME NEW k \in 1..p, k - 1 \in H PROVE k \in H
  <2>1. index[k] = IF k = 1 THEN g[p].static
                   ELSE index[k - 1] + (IF g[k - 1].live THEN count[g[k - 1].slot] ELSE 0)
    BY <1>5
  <2>2. h[k] = IF k = 1 THEN g[p].static
               ELSE h[k - 1] + (IF g[k - 1].live THEN count[g[k - 1].slot] ELSE 0)
    BY <1>3
  <2>3. k # 1 => k - 1 \in 1..p
    <3>1. p \in Nat /\ k \in 1..p
      BY <1>a
    <3>2. QED
      BY ONLY <3>1
  <2>4. index[k] = h[k]
    BY <1>8, <2>1, <2>2, <2>3
  <2>5. QED
    BY <2>4
<1>9. H \in SUBSET Nat
  OBVIOUS
<1> HIDE DEF H
<1>10. 0..p \subseteq H
  BY <1>a, <1>7, <1>8, <1>9, UpTo
<1>11. index[p] = h[p]
  BY <1>4, <1>10 DEF H
<1>12. QED
  BY <1>4, <1>6, <1>11

-----------------------------------------------------------------------------
(* The inductive invariant.  What every slot shows, sh, is its last output  *)
(* or, from the splice until the end of its Reconcile, the new one.         *)

ResolveFrame == [op : {"resolve"}, at : Ordinary, node : Ordinary, owner : Slot \union {Host},
                 i : Nat, static : Nat, real : Nat, ran : BOOLEAN]
RunFrame     == [op : {"run"}, slot : Slot, found : BOOLEAN, base : Nat, out : Seq(Ordinary), i : Nat]
DestroyFrame == [op : {"destroy"}, slot : Slot]
Frames  == ResolveFrame \union RunFrame \union DestroyFrame
Owners  == Slot \union {Host}
Entries == [static : Nat, slot : Slot, live : BOOLEAN]

Typed ==
    /\ children \in [Ordinary -> Seq(Ordinary)]
    /\ slots \subseteq Slot
    /\ parent \in [Slot -> Ordinary]
    /\ group \in [Ordinary -> Seq(Entries)]
    /\ place \in [Slot -> Nat]
    /\ count \in [Slot -> Nat]
    /\ previous \in [Slot -> Seq(Ordinary)]
    /\ nested \in [Owners -> Seq(Slot)]
    /\ stack \in Seq(Frames)

IsResolve(f) == f.op = "resolve"
IsRun(f)     == f.op = "run"
IsDestroy(f) == f.op = "destroy"
FoundRun(f)  == IsRun(f) /\ f.found
Clears(f)    == IsDestroy(f) \/ (IsRun(f) /\ ~f.found)

\* The nodes a slot may be attached to when it belongs to o.
Area(sh, o) == IF o = Host THEN Static[Root] ELSE StaticOf(Range(sh[o]))

\* No slot is attached below k.
Bare(k) == \A t \in slots : parent[t] \notin Static[k]

\* Only a constructed slot shows anything, and what its callable returns.
ShownOK(sh) ==
    /\ sh \in Shows
    /\ \A s \in Slot : sh[s] # <<>> => s \in slots /\ sh[s] \in Outputs[s]

\* It shows its last output, except while it runs.
SettledOK(sh) ==
    /\ \A s \in slots : count[s] = Len(previous[s])
    /\ \A s \in slots : sh[s] = previous[s] \/ \E d \in DOMAIN stack : FoundRun(stack[d]) /\ stack[d].slot = s
    /\ \A d \in DOMAIN stack : /\ FoundRun(stack[d]) => sh[stack[d].slot] = stack[d].out
                               /\ Clears(stack[d]) => sh[stack[d].slot] = previous[stack[d].slot]

\* The widgets are those of the components, at every step.
TreeOK(sh) ==
    /\ alive = UNION {Area(sh, o) : o \in slots \union {Host}}
    /\ \A w \in alive : children[w] = Spread(Kids[w], sh)
    /\ \A s \in slots : parent[s] \in alive /\ s \in Range(Kids[parent[s]])

\* The entries of a group are the <Slot>s among the children, in order.
EntryOK(w, i) ==
    LET c == Kids[w][i]
        k == Among(w, Slot)[i]
    IN  /\ c \in slots => /\ parent[c] = w /\ place[c] = k /\ k <= Len(group[w])
                          /\ group[w][k].static = Among(w, Ordinary)[i - 1]
        /\ k <= Len(group[w]) => group[w][k].slot = c /\ (group[w][k].live <=> c \in slots)
GroupsOK == \A w \in Ordinary : \A i \in DOMAIN Kids[w] : Kids[w][i] \in Slot => EntryOK(w, i)

\* A slot in nobody's list has one that destroys it, or one that will get it.
Taken(o, t, d) ==
    \/ IsDestroy(stack[d]) /\ stack[d].slot = t /\ o = (IF d = 1 THEN Host ELSE stack[d - 1].slot)
    \/ /\ IsResolve(stack[d]) /\ stack[d].ran /\ stack[d].owner = o
       /\ Kids[stack[d].node][stack[d].i] = t

OwnersOK(sh) ==
    /\ \A o \in Owners : /\ IsInjective(nested[o])
                         /\ \A t \in Range(nested[o]) : t \in slots /\ parent[t] \in Area(sh, o)
    /\ \A s \in Slot \ slots : nested[s] = <<>>
    /\ \A t \in slots : \E o \in Owners :
          /\ parent[t] \in Area(sh, o)
          /\ t \in Range(nested[o]) \/ \E d \in DOMAIN stack : Taken(o, t, d)
    /\ \A d \in DOMAIN stack, o \in Owners, p \in Owners, t \in Slot : Taken(o, t, d) => t \notin Range(nested[p])

\* A walk has the numbers of its component, and nothing after it has a slot yet.
ResolveOK(sh, f) ==
    LET n == f.node
        last == IF f.ran THEN f.i ELSE f.i - 1
    IN  /\ f.at = n /\ n \in Area(sh, f.owner)
        /\ f.i \in 1..Len(Kids[n]) + 1
        /\ f.ran => f.i <= Len(Kids[n]) /\ Kids[n][f.i] \in slots
        /\ f.static = Among(n, Ordinary)[f.i - 1]
        /\ f.real = Len(Upto(sh, n)[f.i - 1])
        /\ Len(group[n]) = Among(n, Slot)[last]
        /\ \A j \in DOMAIN Kids[n] : j > last =>
              /\ Kids[n][j] \notin slots
              /\ Kids[n][j] \in Ordinary => Bare(Kids[n][j])

RunOK(sh, f) ==
    LET w == parent[f.slot]
    IN  /\ f.slot \in slots
        /\ ~f.found => f.i = 1
        /\ f.found =>
              /\ f.i \in 1..Len(f.out) + 1
              /\ \A q \in DOMAIN Kids[w] : Kids[w][q] = f.slot => f.base = Len(Upto(sh, w)[q - 1])
              /\ \A j \in DOMAIN f.out : j >= f.i => Bare(f.out[j])

FrameOK(sh, f) ==
    /\ IsResolve(f) => ResolveOK(sh, f)
    /\ IsRun(f) => RunOK(sh, f)
    /\ IsDestroy(f) => f.slot \in slots
FramesOK(sh) == \A d \in DOMAIN stack : FrameOK(sh, stack[d])

\* Who calls whom.
CallOK(sh, f, g) ==
    \/ IsDestroy(g) /\ Clears(f) /\ parent[g.slot] \in Area(sh, f.slot)
    \/ /\ IsRun(g) /\ IsResolve(f) /\ f.ran /\ Kids[f.node][f.i] = g.slot
       /\ ~g.found => nested[g.slot] = <<>>
    \/ /\ IsResolve(g) /\ IsResolve(f) /\ ~f.ran /\ f.i > 1
       /\ Kids[f.node][f.i - 1] = g.node /\ g.owner = f.owner
    \/ /\ IsResolve(g) /\ FoundRun(f) /\ f.i > 1
       /\ f.out[f.i - 1] = g.node /\ g.owner = f.slot
FirstOK(sh, f) ==
    /\ IsResolve(f) => f.node = Root /\ f.owner = Host
    /\ IsDestroy(f) => parent[f.slot] \in Area(sh, Host)
CallsOK(sh) ==
    /\ stack # <<>> => FirstOK(sh, stack[1])
    /\ \A d \in DOMAIN stack : d > 1 => CallOK(sh, stack[d - 1], stack[d])

Rank(f) == Height[IF IsResolve(f) THEN f.node ELSE f.slot]

\* The call a frame is waiting for is about n.
Inside(f, n) ==
    \/ IsResolve(f) /\ ~f.ran /\ f.i > 1 /\ Kids[f.node][f.i - 1] \in Ordinary /\ n \in Static[Kids[f.node][f.i - 1]]
    \/ FoundRun(f) /\ f.i > 1 /\ n \in Static[f.out[f.i - 1]]
OwnerOf(f) == IF IsResolve(f) THEN f.owner ELSE f.slot

\* The calls go down the tree; a walk is inside every call for its owner.
Nested(st) ==
    /\ \A d, e \in DOMAIN st : d < e => Rank(st[e]) < Rank(st[d])
    /\ \A d \in DOMAIN st : d > 2 /\ IsDestroy(st[d]) => IsDestroy(st[d - 1])
    /\ \A d \in DOMAIN st : IsResolve(st[d]) /\ st[d].owner # Host =>
          \E e \in DOMAIN st : e < d /\ FoundRun(st[e]) /\ st[e].slot = st[d].owner
    /\ \A d, e \in DOMAIN st : d < e /\ IsResolve(st[e]) =>
          OwnerOf(st[d]) # st[e].owner \/ Inside(st[d], st[e].node)

Good(sh) ==
    /\ Typed /\ ShownOK(sh) /\ SettledOK(sh) /\ TreeOK(sh) /\ GroupsOK /\ OwnersOK(sh)
    /\ FramesOK(sh) /\ CallsOK(sh) /\ Nested(stack)
Inv == \E sh \in Shows : Good(sh)

-----------------------------------------------------------------------------
(* Where the output of a slot is.                                          *)

LEMMA Position ==
    ASSUME Typed, GroupsOK, NEW sh \in Shows, NEW n \in Ordinary, NEW i \in DOMAIN Kids[n], Kids[n][i] \in slots,
           \A j \in 1..(i - 1) : Kids[n][j] \in Slot =>
              Len(sh[Kids[n][j]]) = IF Kids[n][j] \in slots THEN count[Kids[n][j]] ELSE 0
    PROVE  AbsoluteIndexOf(Kids[n][i]) = Len(Upto(sh, n)[i - 1])
<1> PICK s, g, p, K, a, b, u :
       /\ s = Kids[n][i] /\ g = group[n] /\ p = Among(n, Slot)[i] /\ K = p - 1
       /\ a = Among(n, Ordinary) /\ b = Among(n, Slot) /\ u = Upto(sh, n)
  OBVIOUS
<1>1. DOMAIN Kids[n] = 1..Len(Kids[n]) /\ Len(Kids[n]) \in Nat
  BY Shape
<1>2. s \in slots /\ s \in Slot /\ i \in 1..Len(Kids[n])
  BY <1>1 DEF Typed
<1>3. EntryOK(n, i)
  BY <1>2 DEF GroupsOK
<1>4. /\ b[i] = b[i - 1] + 1 /\ b[i] \in Nat /\ b[i - 1] \in Nat /\ b[0] = 0
      /\ a[i - 1] \in Nat /\ a[0] = 0
  BY <1>2, AmongNext
<1>5. K = b[i - 1] /\ K \in Nat /\ p = K + 1 /\ p \in Nat /\ p # 0
  BY <1>4
<1>6. parent[s] = n /\ place[s] = p /\ p <= Len(g) /\ g[p].static = a[i - 1]
  BY <1>2, <1>3 DEF EntryOK
<1>7. g \in Seq(Entries) /\ Len(g) \in Nat
  BY LenProperties DEF Typed
<1>8. \A k \in 1..K : k \in DOMAIN g /\ g[k] \in Entries
  <2>1. \A k \in 1..K : k \in 1..Len(g)
    BY <1>5, <1>6, <1>7
  <2>2. QED
    BY <1>7, <2>1, LenProperties
<1> DEFINE gives == [k \in 1..K |-> IF g[k].live THEN count[g[k].slot] ELSE 0]
<1>9. \A k \in 1..K : gives[k] \in Nat
  <2> SUFFICES ASSUME NEW k \in 1..K PROVE gives[k] \in Nat
    OBVIOUS
  <2>1. g[k].slot \in Slot
    BY <1>8 DEF Entries
  <2>2. QED
    BY <2>1 DEF Typed
<1>10. \A k \in 1..K : gives[k] = IF g[k].live THEN count[g[k].slot] ELSE 0
  OBVIOUS
<1> HIDE DEF gives
<1>11. PICK c \in [0..K -> Nat] : c[0] = 0 /\ \A k \in 1..K : c[k] = c[k - 1] + gives[k]
  <2>1. gives \in [1..K -> Nat]
    BY <1>9 DEF gives
  <2>2. QED
    BY <1>5, <2>1, SumsExist
<1>12. AbsoluteIndexOf(s) = a[i - 1] + c[K]
  <2>1. K = p - 1
    BY <1>5
  <2>2. \A k \in 1..(p - 1) : /\ (IF g[k].live THEN count[g[k].slot] ELSE 0) \in Nat
                              /\ c[k] = c[k - 1] + (IF g[k].live THEN count[g[k].slot] ELSE 0)
    BY <1>9, <1>10, <1>11, <2>1
  <2>3. /\ p \in Nat /\ p # 0 /\ g[p].static \in Nat
        /\ c \in [0..(p - 1) -> Nat] /\ c[0] = 0
    BY <1>4, <1>5, <1>6, <1>11, <2>1
  <2>4. Sums(g, p, c)
    BY <2>2, <2>3 DEF Sums
  <2>5. g = group[parent[s]] /\ p = place[s]
    BY <1>6
  <2>6. AbsoluteIndexOf(s) = group[parent[s]][place[s]].static + c[place[s] - 1]
    BY ONLY <2>4, <2>5, IndexIs
  <2>7. QED
    BY <1>6, <2>1, <2>5, <2>6
<1> DEFINE H == {j \in Nat : j <= i - 1 => b[j] \in 0..K /\ Len(u[j]) = a[j] + c[b[j]]}
<1>13. \A j \in 0..(i - 1) : b[j] \in 0..K
  <2> SUFFICES ASSUME NEW j \in 0..(i - 1) PROVE b[j] \in 0..K
    OBVIOUS
  <2>1. j \in 0..Len(Kids[n]) /\ i - 1 \in 0..Len(Kids[n]) /\ j <= i - 1
    BY <1>1, <1>2
  <2>2. b[j] \in Nat /\ b[j] <= b[i - 1]
    BY <2>1, AmongGrows
  <2>3. QED
    BY <1>5, <2>2
<1>14. /\ u[0] = <<>> /\ \A j \in 0..Len(Kids[n]) : Len(u[j]) \in Nat
       /\ \A j \in 1..Len(Kids[n]) : Len(u[j]) = Len(u[j - 1]) + Len(Part(sh, Kids[n][j]))
  BY ONLY UptoFacts, u = Upto(sh, n), sh \in Shows, n \in Ordinary, ZenonT(60)
<1>15. 0 \in H
  <2>1. b[0] \in 0..K /\ Len(u[0]) = 0 /\ a[0] + c[b[0]] = 0
    BY <1>4, <1>5, <1>11, <1>14
  <2>2. QED
    BY <2>1
<1>16. ASSUME NEW j \in 1..(i - 1), j - 1 \in H PROVE j \in H
  <2>1. j \in 1..Len(Kids[n]) /\ j \in Nat /\ j - 1 <= i - 1 /\ j \in DOMAIN Kids[n] /\ j \in 0..(i - 1)
    BY <1>1, <1>2
  <2>2. Len(u[j - 1]) = a[j - 1] + c[b[j - 1]] /\ b[j - 1] \in 0..K /\ b[j] \in 0..K
    BY <1>13, <1>16, <2>1
  <2> HIDE DEF H
  <2>3. Len(u[j]) = Len(u[j - 1]) + Len(Part(sh, Kids[n][j]))
    BY <1>14, <2>1
  <2>a. /\ a[j - 1] \in Nat /\ a[j] \in Nat
        /\ Kids[n][j] \in Ordinary => a[j] = a[j - 1] + 1
        /\ Kids[n][j] \notin Ordinary => a[j] = a[j - 1]
    BY ONLY <2>1, AmongNext, a = Among(n, Ordinary), n \in Ordinary
  <2>b. /\ b[j - 1] \in Nat /\ b[j] \in Nat
        /\ Kids[n][j] \in Slot => b[j] = b[j - 1] + 1
        /\ Kids[n][j] \notin Slot => b[j] = b[j - 1]
    BY <2>1, AmongNext
  <2>4. /\ a[j - 1] \in Nat /\ a[j] \in Nat /\ b[j - 1] \in Nat /\ b[j] \in Nat
        /\ Kids[n][j] \in Ordinary => a[j] = a[j - 1] + 1
        /\ Kids[n][j] \notin Ordinary => a[j] = a[j - 1]
        /\ Kids[n][j] \in Slot => b[j] = b[j - 1] + 1
        /\ Kids[n][j] \notin Slot => b[j] = b[j - 1]
    BY <2>a, <2>b
  <2>5. Kids[n][j] \notin Ordinary \/ Kids[n][j] \notin Slot
    BY TreeAssumption
  <2>6. c[b[j - 1]] \in Nat /\ c[b[j]] \in Nat
    BY <1>11, <2>2
  <2>7. CASE Kids[n][j] \in Ordinary
    <3>1. Part(sh, Kids[n][j]) = <<Kids[n][j]>> /\ Len(<<Kids[n][j]>>) = 1
      BY <2>7 DEF Part
    <3>2. Len(u[j]) = Len(u[j - 1]) + 1 /\ a[j] = a[j - 1] + 1 /\ c[b[j]] = c[b[j - 1]]
      BY <2>3, <2>4, <2>5, <2>7, <3>1
    <3>3. Len(u[j]) = a[j] + c[b[j]]
      BY <2>2, <2>4, <2>6, <3>2
    <3>4. QED
      BY <2>1, <2>2, <3>3 DEF H
  <2>8. CASE Kids[n][j] \in Slot
    <3>1. Part(sh, Kids[n][j]) = sh[Kids[n][j]]
      BY <2>5, <2>8 DEF Part
    <3>2. PICK k : k = b[j]
      OBVIOUS
    <3>3. k \in 1..K /\ k - 1 = b[j - 1] /\ k <= Len(g)
      <4>1. k = b[j - 1] + 1 /\ b[j - 1] \in Nat /\ k \in 0..K
        BY <2>2, <2>4, <2>8, <3>2
      <4>2. PICK x, l : x = b[j - 1] /\ l = Len(g)
        OBVIOUS
      <4>3. k = x + 1 /\ x \in Nat /\ k \in 0..K /\ K \in Nat /\ K + 1 <= l /\ l \in Nat
        BY <1>5, <1>6, <1>7, <4>1, <4>2
      <4>4. k \in 1..K /\ k - 1 = x /\ k <= l
        BY ONLY <4>3
      <4>5. QED
        BY <4>2, <4>4
    <3>4. EntryOK(n, j)
      BY <2>1, <2>8 DEF GroupsOK
    <3>5. g[k].slot = Kids[n][j] /\ (g[k].live <=> Kids[n][j] \in slots)
      BY <3>2, <3>3, <3>4 DEF EntryOK
    <3>6. gives[k] = IF Kids[n][j] \in slots THEN count[Kids[n][j]] ELSE 0
      BY <1>10, <3>3, <3>5
    <3>7. gives[k] = Len(sh[Kids[n][j]])
      BY <2>8, <3>6
    <3>8. c[k] = c[k - 1] + gives[k] /\ gives[k] \in Nat
      BY <1>9, <1>11, <3>3
    <3>9. a[j] = a[j - 1]
      BY <2>4, <2>5, <2>8
    <3>10. Len(u[j]) = a[j] + c[b[j]]
      <4> PICK x, y, z, v, w : x = Len(u[j]) /\ y = Len(u[j - 1]) /\ z = gives[k] /\ v = c[k - 1] /\ w = a[j]
        OBVIOUS
      <4>1. x = y + z /\ y = w + v /\ v \in Nat /\ w \in Nat /\ z \in Nat /\ c[b[j]] = v + z
        BY <2>2, <2>3, <2>4, <2>6, <3>1, <3>2, <3>3, <3>7, <3>8, <3>9
      <4>2. x = w + (v + z)
        BY ONLY <4>1
      <4>3. QED
        BY <4>1, <4>2
    <3>11. QED
      BY <2>1, <2>2, <3>10 DEF H
  <2>9. CASE Kids[n][j] \notin Ordinary /\ Kids[n][j] \notin Slot
    <3>1. Part(sh, Kids[n][j]) = <<>> /\ Len(<<>>) = 0
      BY <2>9 DEF Part
    <3>2. Len(u[j]) = Len(u[j - 1]) + 0 /\ a[j] = a[j - 1] /\ c[b[j]] = c[b[j - 1]] /\ Len(u[j - 1]) \in Nat
      BY <1>14, <2>1, <2>2, <2>3, <2>4, <2>6, <2>9, <3>1
    <3>3. Len(u[j]) = a[j] + c[b[j]]
      BY <2>2, <3>2
    <3>4. QED
      BY <2>1, <2>2, <3>3 DEF H
  <2>10. QED
    BY <2>7, <2>8, <2>9
<1>17. H \in SUBSET Nat
  OBVIOUS
<1> HIDE DEF H
<1>18. i - 1 \in Nat /\ i - 1 <= i - 1 /\ i - 1 \in 0..(i - 1)
  BY <1>2
<1>19. 0..(i - 1) \subseteq H
  BY <1>15, <1>16, <1>17, <1>18, UpTo
<1>20. Len(u[i - 1]) = a[i - 1] + c[b[i - 1]]
  BY <1>18, <1>19 DEF H
<1>21. QED
  BY <1>5, <1>12, <1>20

-----------------------------------------------------------------------------
(* Calls.                                                                  *)

LEMMA FrameIs ==
    ASSUME NEW f \in Frames
    PROVE  /\ IsResolve(f) \/ IsRun(f) \/ IsDestroy(f)
           /\ IsResolve(f) => /\ ~IsRun(f) /\ ~IsDestroy(f) /\ ~FoundRun(f) /\ ~Clears(f) /\ f \in ResolveFrame
                              /\ f.at \in Ordinary /\ f.node \in Ordinary /\ f.owner \in Owners
                              /\ f.i \in Nat /\ f.static \in Nat /\ f.real \in Nat /\ f.ran \in BOOLEAN
           /\ IsRun(f) => /\ ~IsResolve(f) /\ ~IsDestroy(f) /\ f \in RunFrame /\ (FoundRun(f) <=> ~Clears(f))
                          /\ f.slot \in Slot /\ f.found \in BOOLEAN /\ f.base \in Nat
                          /\ f.out \in Seq(Ordinary) /\ f.i \in Nat
           /\ IsDestroy(f) => /\ ~IsResolve(f) /\ ~IsRun(f) /\ ~FoundRun(f) /\ Clears(f)
                              /\ f \in DestroyFrame /\ f.slot \in Slot
           /\ Rank(f) \in Nat
<1>1. CASE f \in ResolveFrame
  <2>1. /\ f.op = "resolve" /\ f.at \in Ordinary /\ f.node \in Ordinary /\ f.owner \in Owners
        /\ f.i \in Nat /\ f.static \in Nat /\ f.real \in Nat /\ f.ran \in BOOLEAN
    BY <1>1 DEF ResolveFrame, Owners
  <2>2. Rank(f) \in Nat
    BY <2>1, Shape DEF Rank, IsResolve
  <2>3. QED
    BY <1>1, <2>1, <2>2 DEF IsResolve, IsRun, IsDestroy, FoundRun, Clears
<1>2. CASE f \in RunFrame
  <2>1. /\ f.op = "run" /\ f.slot \in Slot /\ f.found \in BOOLEAN /\ f.base \in Nat
        /\ f.out \in Seq(Ordinary) /\ f.i \in Nat
    BY <1>2 DEF RunFrame
  <2>2. Rank(f) \in Nat
    BY <2>1, Shape DEF Rank, IsResolve
  <2>3. QED
    BY <1>2, <2>1, <2>2 DEF IsResolve, IsRun, IsDestroy, FoundRun, Clears
<1>3. CASE f \in DestroyFrame
  <2>1. f.op = "destroy" /\ f.slot \in Slot
    BY <1>3 DEF DestroyFrame
  <2>2. Rank(f) \in Nat
    BY <2>1, Shape DEF Rank, IsResolve
  <2>3. QED
    BY <1>3, <2>1, <2>2 DEF IsResolve, IsRun, IsDestroy, FoundRun, Clears
<1>4. QED
  BY <1>1, <1>2, <1>3 DEF Frames

\* The stack without its top, with another top, and with one more call.
Same(st, q, k) == \A d \in 1..k : q[d] = st[d]
IsStack(q, k) == q \in Seq(Frames) /\ k \in Nat /\ Len(q) = k /\ DOMAIN q = 1..k /\ \A d \in 1..k : q[d] \in Frames

LEMMA StackIs ==
    ASSUME NEW st \in Seq(Frames)
    PROVE  IsStack(st, Len(st)) /\ (st # <<>> => Len(st) >= 1 /\ Len(st) - 1 \in Nat /\ Last(st) = st[Len(st)])
<1> PICK m : m = Len(st)
  OBVIOUS
<1>1. m \in Nat /\ st \in [1..m -> Frames] /\ DOMAIN st = 1..m
  BY LenProperties
<1>2. st # <<>> => m # 0
  BY EmptySeq
<1>3. QED
  BY <1>1, <1>2 DEF IsStack, Last

LEMMA PopIs ==
    ASSUME NEW st \in Seq(Frames), NEW m \in Nat, IsStack(st, m), m # 0
    PROVE  IsStack(Front(st), m - 1) /\ Same(st, Front(st), m - 1)
<1> PICK q, a : q = Front(st) /\ a = m - 1
  OBVIOUS
<1>1. a \in Nat /\ a \in Int /\ 1 \in Int /\ a + 1 = m /\ q = SubSeq(st, 1, a)
  BY DEF Front, IsStack
<1>2. \A d \in 1..a : d \in 1..m /\ st[d] \in Frames
  BY <1>1 DEF IsStack
<1>3. /\ SubSeq(st, 1, a) \in Seq(Frames)
      /\ Len(SubSeq(st, 1, a)) = (IF 1 <= a THEN a - 1 + 1 ELSE 0)
      /\ \A d \in 1..a - 1 + 1 : SubSeq(st, 1, a)[d] = st[1 + d - 1]
  BY ONLY <1>1, <1>2, SubSeqProperties
<1>4. Len(q) = a /\ q \in Seq(Frames) /\ \A d \in 1..a : q[d] = st[d]
  BY <1>1, <1>3
<1>5. DOMAIN q = 1..a /\ \A d \in 1..a : q[d] \in Frames
  BY <1>4, LenProperties
<1>6. QED
  BY <1>1, <1>4, <1>5 DEF IsStack, Same

LEMMA PushIs ==
    ASSUME NEW st \in Seq(Frames), NEW m \in Nat, IsStack(st, m), NEW g \in Frames
    PROVE  IsStack(Append(st, g), m + 1) /\ Same(st, Append(st, g), m) /\ Append(st, g)[m + 1] = g
<1>1. PICK q : q = Append(st, g)
  OBVIOUS
<1>2. /\ q \in Seq(Frames) /\ Len(q) = m + 1 /\ q[m + 1] = g /\ \A d \in 1..m : q[d] = st[d]
  BY <1>1, AppendProperties DEF IsStack
<1>3. DOMAIN q = 1..(m + 1) /\ m + 1 \in Nat /\ \A d \in 1..(m + 1) : q[d] \in Frames
  BY <1>2, LenProperties
<1>4. QED
  BY <1>1, <1>2, <1>3 DEF IsStack, Same

LEMMA GotoIs ==
    ASSUME NEW st \in Seq(Frames), NEW m \in Nat, IsStack(st, m), m # 0, NEW g \in Frames
    PROVE  /\ IsStack(Append(Front(st), g), m) /\ Same(st, Append(Front(st), g), m - 1)
           /\ Append(Front(st), g)[m] = g
<1> PICK q, a, r : q = Front(st) /\ a = m - 1 /\ r = Append(q, g)
  OBVIOUS
<1>1. a \in Nat /\ a + 1 = m
  OBVIOUS
<1>2. IsStack(q, a) /\ Same(st, q, a)
  BY PopIs
<1>3. q \in Seq(Frames)
  BY <1>2 DEF IsStack
<1>4. IsStack(r, a + 1) /\ Same(q, r, a) /\ r[a + 1] = g
  BY <1>1, <1>2, <1>3, PushIs
<1>5. Same(st, r, a)
  BY <1>2, <1>4 DEF Same
<1>6. QED
  BY <1>1, <1>4, <1>5

-----------------------------------------------------------------------------
(* The order of the calls.                                                 *)

\* A frame that goes on stays what it is about.
Alike(f, g) ==
    /\ g.op = f.op
    /\ IsResolve(f) => g.node = f.node /\ g.owner = f.owner
    /\ ~IsResolve(f) => g.slot = f.slot

LEMMA NestedPop ==
    ASSUME NEW m \in Nat, NEW st, IsStack(st, m), m # 0, Nested(st), NEW q, IsStack(q, m - 1), Same(st, q, m - 1)
    PROVE  Nested(q)
<1>1. \A d \in DOMAIN q : d \in DOMAIN st /\ q[d] = st[d] /\ d \in Nat /\ (d > 2 => d - 1 \in DOMAIN q)
  BY DEF IsStack, Same
<1>2. \A d, e \in DOMAIN q : d < e => Rank(q[e]) < Rank(q[d])
  BY <1>1 DEF Nested
<1>3. \A d \in DOMAIN q : d > 2 /\ IsDestroy(q[d]) => IsDestroy(q[d - 1])
  BY <1>1 DEF Nested
<1>4. ASSUME NEW d \in DOMAIN q, IsResolve(q[d]), q[d].owner # Host
      PROVE  \E e \in DOMAIN q : e < d /\ FoundRun(q[e]) /\ q[e].slot = q[d].owner
  <2>1. PICK e \in DOMAIN st : e < d /\ FoundRun(st[e]) /\ st[e].slot = st[d].owner
    BY <1>1, <1>4 DEF Nested
  <2>2. e \in DOMAIN q
    BY <2>1, <1>1 DEF IsStack
  <2>3. QED
    BY <1>1, <2>1, <2>2
<1>5. \A d, e \in DOMAIN q : d < e /\ IsResolve(q[e]) =>
          OwnerOf(q[d]) # q[e].owner \/ Inside(q[d], q[e].node)
  BY <1>1 DEF Nested
<1>6. QED
  BY <1>2, <1>3, <1>4, <1>5 DEF Nested

LEMMA NestedGoto ==
    ASSUME NEW m \in Nat, NEW st, IsStack(st, m), m # 0, Nested(st),
           NEW q, IsStack(q, m), Same(st, q, m - 1), Alike(st[m], q[m])
    PROVE  Nested(q)
<1>1. /\ DOMAIN q = DOMAIN st /\ m \in DOMAIN q
      /\ \A d \in DOMAIN q : d \in Nat /\ d <= m /\ (d > 2 => d - 1 \in DOMAIN q) /\ (d < m => d \in 1..(m - 1))
  BY DEF IsStack
<1>2. \A d \in DOMAIN q : d # m => q[d] = st[d]
  BY <1>1 DEF Same
<1>3. \A d \in DOMAIN q : /\ Rank(q[d]) = Rank(st[d]) /\ (IsResolve(q[d]) <=> IsResolve(st[d]))
                          /\ (IsDestroy(q[d]) <=> IsDestroy(st[d]))
                          /\ IsResolve(q[d]) => q[d].owner = st[d].owner /\ q[d].node = st[d].node
  <2> SUFFICES ASSUME NEW d \in DOMAIN q
               PROVE  /\ Rank(q[d]) = Rank(st[d]) /\ (IsResolve(q[d]) <=> IsResolve(st[d]))
                      /\ (IsDestroy(q[d]) <=> IsDestroy(st[d]))
                      /\ IsResolve(q[d]) => q[d].owner = st[d].owner /\ q[d].node = st[d].node
    OBVIOUS
  <2>1. CASE d # m
    BY <1>2, <2>1
  <2>2. CASE d = m
    BY <2>2 DEF Alike, Rank, IsResolve, IsDestroy
  <2>3. QED
    BY <2>1, <2>2
<1>4. \A d, e \in DOMAIN q : d < e => Rank(q[e]) < Rank(q[d])
  BY <1>1, <1>3 DEF Nested
<1>5. \A d \in DOMAIN q : d > 2 /\ IsDestroy(q[d]) => IsDestroy(q[d - 1])
  BY <1>1, <1>3 DEF Nested
<1>6. ASSUME NEW d \in DOMAIN q, IsResolve(q[d]), q[d].owner # Host
      PROVE  \E e \in DOMAIN q : e < d /\ FoundRun(q[e]) /\ q[e].slot = q[d].owner
  <2>1. PICK e \in DOMAIN st : e < d /\ FoundRun(st[e]) /\ st[e].slot = st[d].owner
    BY <1>1, <1>3, <1>6 DEF Nested
  <2>2. e # m
    BY <2>1, <1>1
  <2>3. QED
    BY <1>1, <1>2, <1>3, <1>6, <2>1, <2>2
<1>7. ASSUME NEW d \in DOMAIN q, NEW e \in DOMAIN q, d < e, IsResolve(q[e])
      PROVE  OwnerOf(q[d]) # q[e].owner \/ Inside(q[d], q[e].node)
  <2>1. d # m
    BY <1>1, <1>7
  <2>2. q[d] = st[d] /\ q[e].owner = st[e].owner /\ q[e].node = st[e].node /\ IsResolve(st[e])
    BY <1>2, <1>3, <1>7, <2>1
  <2>3. QED
    BY <1>1, <1>7, <2>2 DEF Nested
<1>8. QED
  BY <1>4, <1>5, <1>6, <1>7 DEF Nested

LEMMA NestedPush ==
    ASSUME NEW m \in Nat, NEW st, IsStack(st, m), m # 0, Nested(st),
           NEW q, IsStack(q, m + 1), Same(st, q, m), NEW h, h = q[m + 1],
           Rank(h) < Rank(st[m]), IsDestroy(h) /\ m > 1 => IsDestroy(st[m]),
           IsResolve(h) /\ h.owner # Host => \E e \in 1..m : FoundRun(st[e]) /\ st[e].slot = h.owner,
           IsResolve(h) => \A d \in 1..m : OwnerOf(st[d]) # h.owner \/ Inside(st[d], h.node)
    PROVE  Nested(q)
<1>1. /\ DOMAIN q = 1..(m + 1) /\ DOMAIN st = 1..m /\ m \in DOMAIN st
      /\ \A d \in DOMAIN q : d \in Nat /\ (d # m + 1 => d \in DOMAIN st)
      /\ \A d \in DOMAIN st : d \in DOMAIN q /\ d < m + 1 /\ d <= m
  BY DEF IsStack
<1>2. \A d \in DOMAIN st : q[d] = st[d]
  BY <1>1 DEF Same
<1>3. ASSUME NEW d \in DOMAIN q, NEW e \in DOMAIN q, d < e PROVE Rank(q[e]) < Rank(q[d])
  <2>1. d \in DOMAIN st
    BY <1>1, <1>3
  <2>2. CASE e = m + 1
    <3>1. Rank(st[m]) \in Nat /\ Rank(st[d]) \in Nat /\ Rank(h) \in Nat
      BY <1>1, <2>1, FrameIs DEF IsStack
    <3>2. d = m \/ Rank(st[m]) < Rank(st[d])
      BY <1>1, <2>1 DEF Nested
    <3>3. Rank(h) < Rank(st[d])
      BY <3>1, <3>2
    <3>4. QED
      BY <2>2, <3>3, <2>1, <1>2
  <2>3. CASE e # m + 1
    <3>1. e \in DOMAIN st
      BY <1>1, <2>3
    <3>2. QED
      BY <1>2, <1>3, <2>1, <3>1 DEF Nested
  <2>4. QED
    BY <2>2, <2>3
<1>4. ASSUME NEW d \in DOMAIN q, d > 2, IsDestroy(q[d]) PROVE IsDestroy(q[d - 1])
  <2>1. d - 1 \in DOMAIN st
    BY <1>1, <1>4
  <2>2. CASE d = m + 1
    <3>1. m > 1 /\ d - 1 = m
      BY <1>4, <2>2
    <3>2. QED
      BY <1>1, <1>2, <1>4, <2>2, <3>1
  <2>3. CASE d # m + 1
    <3>1. d \in DOMAIN st
      BY <1>1, <2>3
    <3>2. QED
      BY <1>2, <1>4, <2>1, <3>1 DEF Nested
  <2>4. QED
    BY <2>2, <2>3
<1>5. ASSUME NEW d \in DOMAIN q, IsResolve(q[d]), q[d].owner # Host
      PROVE  \E e \in DOMAIN q : e < d /\ FoundRun(q[e]) /\ q[e].slot = q[d].owner
  <2>1. CASE d = m + 1
    <3>1. PICK e \in 1..m : FoundRun(st[e]) /\ st[e].slot = h.owner
      BY <1>5, <2>1
    <3>2. e \in DOMAIN q /\ e < d /\ q[e] = st[e] /\ q[d] = h
      BY <1>1, <1>2, <2>1
    <3>3. QED
      BY <3>1, <3>2
  <2>2. CASE d # m + 1
    <3>1. d \in DOMAIN st /\ q[d] = st[d]
      BY <1>1, <1>2, <2>2
    <3>2. PICK e \in DOMAIN st : e < d /\ FoundRun(st[e]) /\ st[e].slot = st[d].owner
      BY <1>5, <3>1 DEF Nested
    <3>3. QED
      BY <1>1, <1>2, <3>1, <3>2
  <2>3. QED
    BY <2>1, <2>2
<1>6. ASSUME NEW d \in DOMAIN q, NEW e \in DOMAIN q, d < e, IsResolve(q[e])
      PROVE  OwnerOf(q[d]) # q[e].owner \/ Inside(q[d], q[e].node)
  <2>1. d \in DOMAIN st /\ q[d] = st[d] /\ d \in 1..m
    BY <1>1, <1>2, <1>6
  <2>2. CASE e = m + 1
    BY <1>6, <2>1, <2>2
  <2>3. CASE e # m + 1
    <3>1. e \in DOMAIN st /\ q[e] = st[e]
      BY <1>1, <1>2, <2>3
    <3>2. QED
      BY <1>6, <2>1, <3>1 DEF Nested
  <2>4. QED
    BY <2>2, <2>3
<1>7. QED
  BY <1>3, <1>4, <1>5, <1>6 DEF Nested

-----------------------------------------------------------------------------
(* Who owns what.                                                          *)

LEMMA AreaTop ==
    ASSUME NEW sh, ShownOK(sh), NEW o \in Owners, NEW x \in Area(sh, o)
    PROVE  \E r \in Ordinary : /\ IsTop(r) /\ x \in Static[r] /\ Static[r] \subseteq Area(sh, o)
                               /\ \/ o = Host /\ r = Root
                                  \/ o # Host /\ o \in slots /\ o \in Slot /\ r \in Range(sh[o]) /\ r \in MayShow(o)
<1>1. CASE o = Host
  <2>1. IsTop(Root) /\ Root \in Ordinary
    BY TopFacts, TreeAssumption
  <2>2. QED
    BY <1>1, <2>1 DEF Area
<1>2. CASE o # Host
  <2>1. o \in Slot /\ x \in StaticOf(Range(sh[o]))
    BY <1>2 DEF Area, Owners
  <2>2. PICK r \in Range(sh[o]) : x \in Static[r]
    BY <2>1 DEF StaticOf
  <2>3. sh[o] # <<>>
    BY <2>2 DEF Range
  <2>4. o \in slots /\ sh[o] \in Outputs[o]
    BY <2>1, <2>3 DEF ShownOK
  <2>5. r \in MayShow(o)
    BY <2>2, <2>4 DEF MayShow
  <2>6. IsTop(r) /\ r \in Ordinary
    BY <2>1, <2>5, TopFacts, Shape
  <2>7. Static[r] \subseteq Area(sh, o)
    BY <1>2, <2>2 DEF Area, StaticOf
  <2>8. QED
    BY <1>2, <2>1, <2>2, <2>4, <2>5, <2>6, <2>7
<1>3. QED
  BY <1>1, <1>2

LEMMA AreaFacts ==
    ASSUME NEW sh, ShownOK(sh), NEW o \in Owners, NEW x \in Area(sh, o)
    PROVE  /\ x \in Ordinary /\ Static[x] \subseteq Area(sh, o)
           /\ o # Host => o \in Slot /\ o \in slots /\ Height[x] < Height[o]
           /\ IsTop(x) => (o = Host /\ x = Root) \/ (o \in Slot /\ o \in slots /\ x \in Range(sh[o]))
           /\ \A y \in Ordinary : x \in OrdinaryKids(y) => y \in Area(sh, o)
<1>1. PICK r \in Ordinary : /\ IsTop(r) /\ x \in Static[r] /\ Static[r] \subseteq Area(sh, o)
                            /\ \/ o = Host /\ r = Root
                               \/ o # Host /\ o \in slots /\ o \in Slot /\ r \in Range(sh[o]) /\ r \in MayShow(o)
  BY AreaTop
<1>2. x \in Ordinary /\ Static[x] \subseteq Static[r] /\ Height[x] <= Height[r]
  BY <1>1, StaticFacts
<1>3. x = r \/ \E k \in Static[r] : x \in OrdinaryKids(k)
  BY <1>1, StaticFacts
<1>4. ASSUME o # Host PROVE o \in Slot /\ o \in slots /\ Height[x] < Height[o]
  <2>1. o \in Slot /\ o \in slots /\ r \in MayShow(o)
    BY <1>1, <1>4
  <2>2. Height[r] < Height[o] /\ Height[r] \in Nat /\ Height[o] \in Nat /\ Height[x] \in Nat
    BY <1>2, <2>1, Shape
  <2>3. QED
    BY <1>2, <2>1, <2>2
<1>5. ASSUME IsTop(x) PROVE (o = Host /\ x = Root) \/ (o \in Slot /\ o \in slots /\ x \in Range(sh[o]))
  <2>1. \A k \in Static[r] : k \in Ordinary /\ x \notin OrdinaryKids(k)
    BY <1>5, StaticFacts DEF IsTop, OrdinaryKids
  <2>2. x = r
    BY <1>3, <2>1
  <2>3. QED
    BY <1>1, <2>2
<1>6. ASSUME NEW y \in Ordinary, x \in OrdinaryKids(y) PROVE y \in Area(sh, o)
  <2>1. x # r
    BY <1>1, <1>6 DEF IsTop, OrdinaryKids
  <2>2. PICK k \in Static[r] : x \in OrdinaryKids(k)
    BY <1>3, <2>1
  <2>3. k \in Ordinary /\ x \in Range(Kids[k]) /\ x \in Range(Kids[y])
    BY <1>6, <2>2, StaticFacts DEF OrdinaryKids
  <2>4. k = y
    BY <1>2, <2>3, OneParentOf
  <2>5. QED
    BY <1>1, <2>2, <2>4
<1>7. QED
  BY <1>1, <1>2, <1>4, <1>5, <1>6

\* A node belongs to one owner.
LEMMA AreasApart ==
    ASSUME NEW sh, ShownOK(sh), NEW o \in Owners, NEW p \in Owners,
           NEW x, x \in Area(sh, o), x \in Area(sh, p)
    PROVE  o = p
<1>1. PICK r \in Ordinary : /\ IsTop(r) /\ x \in Static[r]
                            /\ \/ o = Host /\ r = Root
                               \/ o # Host /\ o \in slots /\ o \in Slot /\ r \in Range(sh[o]) /\ r \in MayShow(o)
  BY AreaTop
<1>2. PICK q \in Ordinary : /\ IsTop(q) /\ x \in Static[q]
                            /\ \/ p = Host /\ q = Root
                               \/ p # Host /\ p \in slots /\ p \in Slot /\ q \in Range(sh[p]) /\ q \in MayShow(p)
  BY AreaTop
<1>3. r = q
  BY <1>1, <1>2, TopsApart
<1>4. QED
  BY <1>1, <1>2, <1>3, TopFacts

\* Two entries of an output share nothing.
LEMMA EntriesApart ==
    ASSUME NEW s \in Slot, NEW l \in Outputs[s], NEW i \in DOMAIN l, NEW j \in DOMAIN l, i # j
    PROVE  Static[l[i]] \intersect Static[l[j]] = {}
<1>1. l \in Seq(Ordinary) /\ IsInjective(l)
  BY TreeAssumption
<1>2. l[i] \in MayShow(s) /\ l[j] \in MayShow(s)
  BY DEF MayShow, Range
<1>3. IsTop(l[i]) /\ IsTop(l[j])
  BY <1>2, TopFacts
<1>4. l[i] # l[j]
  BY <1>1 DEF IsInjective
<1>5. QED
  BY <1>3, <1>4, TopsApart

\* Children that show the same are the same.
LEMMA UptoSame ==
    ASSUME NEW sh \in Shows, NEW to \in Shows, NEW n \in Ordinary, NEW i \in 0..Len(Kids[n]),
           \A j \in 1..i : Kids[n][j] \in Slot => sh[Kids[n][j]] = to[Kids[n][j]]
    PROVE  Upto(sh, n)[i] = Upto(to, n)[i]
<1>1. \A j \in 1..i : Part(sh, Kids[n][j]) = Part(to, Kids[n][j])
  BY DEF Part
<1>2. QED
  BY <1>1, SameHead

LEMMA SpreadSame ==
    ASSUME NEW sh \in Shows, NEW to \in Shows, NEW n \in Ordinary,
           \A s \in Slot : s \in Range(Kids[n]) => sh[s] = to[s]
    PROVE  Spread(Kids[n], sh) = Spread(Kids[n], to)
<1> PICK m : m = Len(Kids[n])
  OBVIOUS
<1>1. m \in Nat /\ DOMAIN Kids[n] = 1..m /\ m \in 0..Len(Kids[n])
  BY Shape
<1>2. \A j \in 1..m : Kids[n][j] \in Range(Kids[n])
  BY <1>1, Shape
<1>3. Upto(sh, n)[m] = Upto(to, n)[m]
  BY <1>1, <1>2, UptoSame
<1>4. Spread(Kids[n], sh) = Upto(sh, n)[m]
  BY ONLY UptoFacts, sh \in Shows, n \in Ordinary, m = Len(Kids[n])
<1>5. Spread(Kids[n], to) = Upto(to, n)[m]
  BY ONLY UptoFacts, to \in Shows, n \in Ordinary, m = Len(Kids[n])
<1>6. QED
  BY <1>3, <1>4, <1>5

-----------------------------------------------------------------------------
(* The innermost call.                                                     *)

LEMMA TopIs ==
    ASSUME Typed, stack # <<>>
    PROVE  /\ Len(stack) \in Nat /\ Len(stack) # 0 /\ IsStack(stack, Len(stack)) /\ Len(stack) \in DOMAIN stack
           /\ Top = stack[Len(stack)] /\ Top \in Frames
           /\ IsStack(Under, Len(stack) - 1) /\ Same(stack, Under, Len(stack) - 1)
<1> PICK m : m = Len(stack)
  OBVIOUS
<1>1. stack \in Seq(Frames)
  BY DEF Typed
<1>2. IsStack(stack, m) /\ m >= 1 /\ Top = stack[m]
  BY <1>1, StackIs DEF Top
<1>3. m \in Nat /\ m # 0 /\ m \in DOMAIN stack /\ stack[m] \in Frames
  BY <1>2 DEF IsStack
<1>4. IsStack(Under, m - 1) /\ Same(stack, Under, m - 1)
  BY <1>1, <1>2, <1>3, PopIs DEF Under
<1>5. QED
  BY <1>2, <1>3, <1>4

\* Every other call is about a higher node.
LEMMA TopLowest ==
    ASSUME Typed, Nested(stack), stack # <<>>, NEW d \in DOMAIN stack, d # Len(stack)
    PROVE  /\ Rank(Top) < Rank(stack[d]) /\ Rank(Top) \in Nat /\ Rank(stack[d]) \in Nat
           /\ stack[d] \in Frames /\ d \in 1..(Len(stack) - 1) /\ d < Len(stack)
<1> PICK m : m = Len(stack)
  OBVIOUS
<1>1. m \in Nat /\ m \in DOMAIN stack /\ DOMAIN stack = 1..m /\ Top = stack[m] /\ \A e \in 1..m : stack[e] \in Frames
  BY TopIs DEF IsStack
<1>2. d \in 1..(m - 1) /\ d < m
  BY <1>1
<1>3. Rank(stack[m]) < Rank(stack[d])
  BY <1>1, <1>2 DEF Nested
<1>4. QED
  BY <1>1, <1>2, <1>3, FrameIs

\* A slot below the innermost call has none.
LEMMA NoCallFor ==
    ASSUME Typed, Nested(stack), stack # <<>>, NEW s \in Slot, Height[s] < Rank(Top),
           NEW d \in DOMAIN stack, ~IsResolve(stack[d])
    PROVE  stack[d].slot # s
<1>1. Rank(stack[d]) \in Nat /\ Rank(Top) \in Nat /\ Rank(Top) <= Rank(stack[d]) /\ Height[s] \in Nat
  <2>1. Rank(Top) \in Nat /\ Height[s] \in Nat
    BY TopIs, FrameIs, Shape
  <2>2. CASE d = Len(stack)
    BY <2>1, <2>2, TopIs
  <2>3. CASE d # Len(stack)
    BY <2>1, <2>3, TopLowest
  <2>4. QED
    BY <2>2, <2>3, <2>1
<1>2. Rank(stack[d]) = Height[stack[d].slot]
  BY DEF Rank
<1>3. QED
  BY <1>1, <1>2

\* No other call is about the slot of the innermost one.
LEMMA OneCall ==
    ASSUME Typed, Nested(stack), stack # <<>>, ~IsResolve(Top),
           NEW d \in DOMAIN stack, d # Len(stack), ~IsResolve(stack[d])
    PROVE  stack[d].slot # Top.slot
<1>1. Rank(Top) < Rank(stack[d]) /\ Rank(Top) \in Nat
  BY TopLowest
<1>2. Rank(stack[d]) = Height[stack[d].slot] /\ Rank(Top) = Height[Top.slot]
  BY DEF Rank
<1>3. QED
  BY <1>1, <1>2

\* Nor is it the owner of a walk.
LEMMA OwnerCalls ==
    ASSUME Typed, Nested(stack), stack # <<>>, NEW d \in DOMAIN stack, IsResolve(stack[d]), stack[d].owner # Host
    PROVE  /\ \E e \in DOMAIN stack : e < d /\ e # Len(stack) /\ FoundRun(stack[e]) /\ stack[e].slot = stack[d].owner
           /\ ~IsResolve(Top) => stack[d].owner # Top.slot
<1>1. PICK e \in DOMAIN stack : e < d /\ FoundRun(stack[e]) /\ stack[e].slot = stack[d].owner
  BY DEF Nested
<1>2. e # Len(stack)
  <2>1. d \in 1..Len(stack) /\ Len(stack) \in Nat /\ e \in 1..Len(stack)
    BY TopIs DEF IsStack
  <2>2. QED
    BY <1>1, <2>1
<1>3. ~IsResolve(stack[e])
  BY <1>1, TopIs, FrameIs DEF FoundRun, IsRun, IsResolve
<1>4. ~IsResolve(Top) => stack[e].slot # Top.slot
  BY <1>2, <1>3, OneCall
<1>5. QED
  BY <1>1, <1>2, <1>4

\* A slot no call is about shows its last output.
LEMMA Settled ==
    ASSUME NEW sh, SettledOK(sh), NEW s \in slots,
           \A d \in DOMAIN stack : FoundRun(stack[d]) => stack[d].slot # s
    PROVE  sh[s] = previous[s] /\ count[s] = Len(sh[s])
BY DEF SettledOK

\* Whoever waits for a call that clears is about a node above its parent, or the
\* parent itself.
LEMMA CallerAbove ==
    ASSUME NEW sh, Good(sh), stack # <<>>, Clears(Top), NEW d \in DOMAIN stack, d # Len(stack)
    PROVE  Height[parent[Top.slot]] <= Rank(stack[d]) /\ Height[parent[Top.slot]] \in Nat
<1> PICK m, s, f : m = Len(stack) /\ s = Top.slot /\ f = stack[m - 1]
  OBVIOUS
<1>1. Typed /\ Nested(stack) /\ ShownOK(sh) /\ CallsOK(sh) /\ FramesOK(sh) /\ TreeOK(sh)
  BY DEF Good
<1>2. m \in Nat /\ IsStack(stack, m) /\ Top = stack[m] /\ m \in DOMAIN stack /\ Top \in Frames
  BY <1>1, TopIs
<1>3. d \in 1..m /\ m > 1 /\ m - 1 \in DOMAIN stack /\ m - 1 # m /\ f \in Frames
  BY <1>2 DEF IsStack
<1>4. s \in slots /\ s \in Slot /\ parent[s] \in Ordinary
  <2>1. FrameOK(sh, Top)
    BY <1>1, <1>2 DEF FramesOK
  <2>2. s \in slots
    BY <2>1 DEF FrameOK, Clears, RunOK
  <2>3. QED
    BY <1>1, <2>2 DEF Typed
<1>5. CallOK(sh, f, Top)
  BY <1>1, <1>2, <1>3 DEF CallsOK
<1>6. ~IsResolve(Top)
  BY <1>2, FrameIs
<1>7. Height[parent[s]] <= Rank(f)
  <2>1. CASE IsDestroy(Top) /\ Clears(f) /\ parent[s] \in Area(sh, f.slot)
    <3>1. f.slot \in Slot /\ Rank(f) = Height[f.slot]
      BY <1>3, <2>1, FrameIs DEF Rank, Clears
    <3>2. f.slot \in Owners /\ f.slot # Host
      BY <3>1, TreeAssumption DEF Owners
    <3>3. Height[parent[s]] < Height[f.slot]
      BY <1>1, <2>1, <3>2, AreaFacts
    <3>4. Height[parent[s]] \in Nat /\ Height[f.slot] \in Nat
      BY <1>4, <3>1, Shape
    <3>5. QED
      BY <3>1, <3>3, <3>4
  <2>2. CASE IsRun(Top) /\ IsResolve(f) /\ f.ran /\ Kids[f.node][f.i] = s
    <3>1. FrameOK(sh, f)
      BY <1>1, <1>3 DEF FramesOK
    <3>2. f.node \in Ordinary /\ f.i \in 1..Len(Kids[f.node]) + 1 /\ f.i <= Len(Kids[f.node])
      BY <1>3, <2>2, <3>1, FrameIs DEF FrameOK, ResolveOK
    <3>3. f.i \in DOMAIN Kids[f.node]
      BY <3>2, Shape
    <3>4. s \in Range(Kids[f.node])
      BY <2>2, <3>3 DEF Range
    <3>5. s \in Range(Kids[parent[s]])
      BY <1>1, <1>4 DEF TreeOK
    <3>6. parent[s] = f.node
      BY <1>4, <3>2, <3>4, <3>5, OneParentOf
    <3>7. Rank(f) = Height[f.node] /\ Height[f.node] \in Nat
      BY <2>2, <3>2, Shape DEF Rank
    <3>8. QED
      BY <3>6, <3>7
  <2>3. QED
    BY <1>5, <1>6, <2>1, <2>2 DEF CallOK
<1>8. Rank(f) <= Rank(stack[d])
  <2>1. CASE d = m - 1
    BY <2>1, <1>3, FrameIs
  <2>2. CASE d # m - 1
    <3>1. d < m - 1
      BY <1>2, <1>3, <2>2
    <3>2. Rank(f) < Rank(stack[d])
      BY <1>1, <1>3, <3>1 DEF Nested
    <3>3. Rank(f) \in Nat /\ Rank(stack[d]) \in Nat
      BY <1>2, <1>3, FrameIs DEF IsStack
    <3>4. QED
      BY <3>2, <3>3
  <2>3. QED
    BY <2>1, <2>2
<1>9. Height[parent[s]] \in Nat /\ Rank(f) \in Nat /\ Rank(stack[d]) \in Nat
  BY <1>2, <1>3, <1>4, FrameIs, Shape DEF IsStack
<1>10. QED
  BY <1>7, <1>8, <1>9

\* No call, but the innermost, is about a <Slot> with the same parent.
LEMMA NoSiblingCall ==
    ASSUME NEW sh, Good(sh), stack # <<>>, Clears(Top), NEW t \in Slot, t \in Range(Kids[parent[Top.slot]]),
           parent[Top.slot] \in Ordinary, NEW d \in DOMAIN stack, d # Len(stack), ~IsResolve(stack[d])
    PROVE  stack[d].slot # t
<1>1. Height[parent[Top.slot]] <= Rank(stack[d]) /\ Height[parent[Top.slot]] \in Nat
  BY CallerAbove
<1>2. Height[t] < Height[parent[Top.slot]] /\ Height[t] \in Nat
  BY Shape
<1>3. Rank(stack[d]) = Height[stack[d].slot]
  BY DEF Rank
<1>4. stack[d].slot = t => Height[t] < Height[t]
  BY <1>1, <1>2, <1>3
<1>5. QED
  BY <1>2, <1>4

\* What a slot that clears has: a live parent, its place there, and the index of
\* what it shows.
LEMMA ClearingIs ==
    ASSUME NEW sh, Good(sh), stack # <<>>, Clears(Top)
    PROVE  LET s == Top.slot
               w == parent[s]
           IN  /\ s \in slots /\ s \in Slot /\ w \in Ordinary /\ w \in alive /\ ~FoundRun(Top) /\ ~IsResolve(Top)
               /\ children[w] = Spread(Kids[w], sh)
               /\ sh[s] = previous[s] /\ count[s] = Len(sh[s])
               /\ \E q \in DOMAIN Kids[w] : Kids[w][q] = s /\ AbsoluteIndexOf(s) = Len(Upto(sh, w)[q - 1])
<1> PICK s, w, m : s = Top.slot /\ w = parent[s] /\ m = Len(stack)
  OBVIOUS
<1>1. Typed /\ Nested(stack) /\ ShownOK(sh) /\ SettledOK(sh) /\ GroupsOK /\ FramesOK(sh) /\ TreeOK(sh)
  BY DEF Good
<1>2. m \in DOMAIN stack /\ Top = stack[m] /\ Top \in Frames
  BY <1>1, TopIs
<1>3. ~FoundRun(Top) /\ ~IsResolve(Top)
  BY <1>2, FrameIs DEF Clears
<1>4. s \in slots /\ s \in Slot /\ w \in Ordinary
  <2>1. FrameOK(sh, Top)
    BY <1>1, <1>2 DEF FramesOK
  <2>2. s \in slots
    BY <2>1 DEF FrameOK, Clears, RunOK
  <2>3. QED
    BY <1>1, <2>2 DEF Typed
<1>5. w \in alive /\ s \in Range(Kids[w]) /\ children[w] = Spread(Kids[w], sh)
  BY <1>1, <1>4 DEF TreeOK
<1>6. ASSUME NEW t \in slots, t \in Range(Kids[w])
      PROVE  sh[t] = previous[t] /\ count[t] = Len(sh[t])
  <2>1. t \in Slot
    BY <1>1 DEF Typed
  <2>2. ASSUME NEW d \in DOMAIN stack, FoundRun(stack[d]) PROVE stack[d].slot # t
    <3>1. d # m
      BY <1>2, <1>3, <2>2
    <3>2. ~IsResolve(stack[d])
      BY <2>2 DEF FoundRun, IsRun, IsResolve
    <3>3. QED
      BY <1>4, <1>6, <2>1, <3>1, <3>2, NoSiblingCall
  <2>3. QED
    BY <1>1, <2>2, Settled
<1>7. PICK q \in DOMAIN Kids[w] : Kids[w][q] = s
  BY <1>5 DEF Range
<1>8. ASSUME NEW j \in 1..(q - 1), Kids[w][j] \in Slot
      PROVE  Len(sh[Kids[w][j]]) = IF Kids[w][j] \in slots THEN count[Kids[w][j]] ELSE 0
  <2>1. j \in DOMAIN Kids[w]
    BY <1>4, Shape
  <2>2. Kids[w][j] \in Range(Kids[w])
    BY <1>4, <2>1, Shape, ZenonT(60)
  <2>3. CASE Kids[w][j] \in slots
    BY <1>6, <2>2, <2>3
  <2>4. CASE Kids[w][j] \notin slots
    <3>1. sh[Kids[w][j]] = <<>>
      BY <1>1, <1>8, <2>4 DEF ShownOK
    <3>2. Len(<<>>) = 0
      OBVIOUS
    <3>3. QED
      BY <2>4, <3>1, <3>2
  <2>5. QED
    BY <2>3, <2>4
<1>9. AbsoluteIndexOf(Kids[w][q]) = Len(Upto(sh, w)[q - 1])
  <2>1. sh \in Shows /\ Kids[w][q] \in slots
    BY <1>1, <1>4, <1>7 DEF ShownOK
  <2>2. QED
    BY <1>1, <1>4, <1>8, <2>1, Position
<1>10. QED
  BY <1>3, <1>4, <1>5, <1>6, <1>7, <1>9

\* Once its nested slots are gone, no slot is attached to what it shows.
LEMMA AreaBare ==
    ASSUME NEW sh, Good(sh), stack # <<>>, Clears(Top), nested[Top.slot] = <<>>, NEW t \in slots
    PROVE  parent[t] \notin Area(sh, Top.slot)
<1> SUFFICES ASSUME parent[t] \in Area(sh, Top.slot) PROVE FALSE
  OBVIOUS
<1> PICK s, m : s = Top.slot /\ m = Len(stack)
  OBVIOUS
<1>1. Typed /\ Nested(stack) /\ ShownOK(sh) /\ OwnersOK(sh) /\ FramesOK(sh) /\ CallsOK(sh)
  BY DEF Good
<1>2. s \in Slot /\ s \in Owners /\ s # Host /\ ~FoundRun(Top) /\ ~IsResolve(Top)
  BY ClearingIs, TreeAssumption DEF Owners
<1>3. m \in Nat /\ IsStack(stack, m) /\ Top = stack[m] /\ m \in DOMAIN stack
  BY <1>1, TopIs
<1>4. PICK o \in Owners : /\ parent[t] \in Area(sh, o)
                          /\ t \in Range(nested[o]) \/ \E d \in DOMAIN stack : Taken(o, t, d)
  BY <1>1 DEF OwnersOK
<1>5. o = s
  BY <1>1, <1>2, <1>4, AreasApart
<1>6. t \notin Range(nested[o])
  BY <1>5 DEF Range
<1>7. PICK d \in DOMAIN stack : Taken(s, t, d)
  BY <1>4, <1>5, <1>6
<1>8. d \in 1..m /\ stack[d] \in Frames
  BY <1>3 DEF IsStack
<1>9. CASE IsDestroy(stack[d]) /\ s = (IF d = 1 THEN Host ELSE stack[d - 1].slot)
  <2>1. d > 1 /\ s = stack[d - 1].slot /\ d - 1 \in DOMAIN stack /\ d - 1 # m
    BY <1>2, <1>3, <1>8, <1>9 DEF IsStack
  <2>2. CallOK(sh, stack[d - 1], stack[d])
    BY <1>1, <2>1 DEF CallsOK
  <2>3. ~IsResolve(stack[d]) /\ ~IsRun(stack[d])
    BY <1>8, <1>9, FrameIs
  <2>4. Clears(stack[d - 1])
    BY <2>2, <2>3 DEF CallOK
  <2>5. ~IsResolve(stack[d - 1])
    BY <2>4 DEF Clears, IsDestroy, IsRun, IsResolve
  <2>6. QED
    BY <1>1, <1>2, <2>1, <2>5, OneCall
<1>10. CASE IsResolve(stack[d]) /\ stack[d].owner = s
  BY <1>1, <1>2, <1>10, OwnerCalls
<1>11. QED
  BY <1>7, <1>9, <1>10 DEF Taken

\* The walk meets each ordinary child at the widget built from it.
LEMMA InStep ==
    ASSUME NEW sh, Good(sh), AtChild, Child \in Ordinary
    PROVE  /\ children[Top.at][Top.real + 1] = Child /\ Top.at = Top.node
           /\ Top.node \in Ordinary /\ Top.i \in DOMAIN Kids[Top.node] /\ Top.node \in alive
<1>1. Typed /\ Nested(stack) /\ ShownOK(sh) /\ FramesOK(sh) /\ TreeOK(sh)
  BY DEF Good
<1> PICK n, i : n = Top.node /\ i = Top.i
  OBVIOUS
<1>2. Top \in Frames /\ IsResolve(Top) /\ FrameOK(sh, Top)
  BY <1>1, TopIs DEF AtChild, Resolving, IsResolve, FramesOK
<1>3. /\ n \in Ordinary /\ Top.owner \in Owners /\ Top.at = n /\ n \in Area(sh, Top.owner) /\ i \in Nat
      /\ i \in 1..Len(Kids[n]) + 1 /\ Top.real = Len(Upto(sh, n)[i - 1])
  BY <1>2, FrameIs DEF FrameOK, ResolveOK
<1>4. i \in DOMAIN Kids[n]
  BY <1>3, Shape DEF AtChild
<1>5. n \in alive
  <2>1. Top.owner \in slots \union {Host}
    BY <1>1, <1>3, AreaFacts
  <2>2. QED
    BY <1>1, <1>3, <2>1 DEF TreeOK
<1>6. children[n] = Spread(Kids[n], sh)
  BY <1>1, <1>5 DEF TreeOK
<1>7. Part(sh, Kids[n][i]) = <<Child>>
  BY DEF Child, Part
<1>8. sh \in Shows
  BY <1>1 DEF ShownOK
<1>9. \A j \in 1..Len(<<Child>>) : children[n][Top.real + j] = <<Child>>[j]
  <2> PICK c, b, p : c = children[n] /\ b = Top.real /\ p = <<Child>>
    OBVIOUS
  <2>1. c = Spread(Kids[n], sh) /\ b = Len(Upto(sh, n)[i - 1]) /\ p = Part(sh, Kids[n][i])
    BY <1>3, <1>6, <1>7
  <2>2. IsPart(c, b, p)
    BY ONLY <1>3, <1>4, <1>8, <2>1, PartAt
  <2>3. QED
    BY <2>2 DEF IsPart
<1>10. children[n][Top.real + 1] = Child
  BY <1>9
<1>11. QED
  BY <1>3, <1>4, <1>5, <1>10

-----------------------------------------------------------------------------
(* Splicing one output in the place of another.                            *)

\* What a slot may show exists only while the slot does.
LEMMA ShownBy ==
    ASSUME Typed, NEW sh, ShownOK(sh), TreeOK(sh), NEW y \in Ordinary, NEW t \in Slot, t \in Range(Kids[y]),
           NEW k \in MayShow(t), k \in alive
    PROVE  t \in slots /\ parent[t] = y /\ y \in alive
<1>1. PICK o \in slots \union {Host} : k \in Area(sh, o)
  BY DEF TreeOK
<1>2. o \in Owners
  BY <1>1 DEF Owners, Typed
<1>3. IsTop(k) /\ k # Root
  BY TopFacts
<1>4. o \in Slot /\ o \in slots /\ k \in Range(sh[o])
  BY <1>1, <1>2, <1>3, AreaFacts
<1>5. sh[o] # <<>>
  BY <1>4 DEF Range
<1>6. k \in MayShow(o)
  BY <1>4, <1>5 DEF ShownOK, MayShow
<1>7. o = t
  BY <1>4, <1>6, TopFacts
<1>8. parent[t] \in Ordinary /\ parent[t] \in alive /\ t \in Range(Kids[parent[t]])
  BY <1>4, <1>7 DEF TreeOK, Typed
<1>9. parent[t] = y
  BY <1>8, OneParentOf
<1>10. QED
  BY <1>4, <1>7, <1>8, <1>9

\* All there is below a node with no slots is its static tree.
LEMMA GoneIs ==
    ASSUME Typed, NEW sh, ShownOK(sh), TreeOK(sh), NEW x \in Ordinary, Bare(x)
    PROVE  alive \intersect Below[x] \subseteq Static[x]
<1> DEFINE C == Static[x] \union {y \in Ordinary : y \notin alive}
<1>1. x \in C
  BY StaticFacts
<1>2. ASSUME NEW y \in C \intersect Ordinary, NEW k \in AnyKids(y) PROVE k \in C
  <2>1. CASE k \in OrdinaryKids(y)
    <3>1. k \in Ordinary
      BY <2>1, Shape
    <3>2. CASE y \in Static[x]
      BY <2>1, <3>2, StaticFacts
    <3>3. CASE y \notin Static[x]
      <4>1. y \notin alive
        BY <3>3
      <4>2. k \notin alive
        <5> SUFFICES ASSUME k \in alive PROVE FALSE
          OBVIOUS
        <5>1. PICK o \in slots \union {Host} : k \in Area(sh, o)
          BY DEF TreeOK
        <5>2. o \in Owners
          BY <5>1 DEF Owners, Typed
        <5>3. y \in Area(sh, o)
          BY <2>1, <5>1, <5>2, AreaFacts
        <5>4. QED
          BY <4>1, <5>3 DEF TreeOK
      <4>3. QED
        BY <3>1, <4>2
    <3>4. QED
      BY <3>2, <3>3
  <2>2. CASE k \notin OrdinaryKids(y)
    <3>1. PICK t \in Range(Kids[y]) \intersect Slot : k \in MayShow(t)
      BY <1>2, <2>2 DEF AnyKids
    <3>2. k \in Ordinary
      BY <3>1, Shape
    <3>3. ASSUME k \in alive PROVE FALSE
      <4>1. t \in slots /\ parent[t] = y /\ y \in alive
        BY <3>1, <3>3, ShownBy
      <4>2. y \in Static[x]
        BY <4>1
      <4>3. QED
        BY <4>1, <4>2 DEF Bare
    <3>4. QED
      BY <3>2, <3>3
  <2>3. QED
    BY <2>1, <2>2
<1>3. Below[x] \subseteq C
  <2> HIDE DEF C
  <2>1. \A y \in C \intersect Ordinary : AnyKids(y) \subseteq C
    BY <1>2
  <2>2. QED
    BY <1>1, <2>1, BelowFacts
<1>4. QED
  BY <1>3

LEMMA SpreadSeq ==
    ASSUME NEW sh \in Shows, NEW n \in Ordinary
    PROVE  Spread(Kids[n], sh) \in Seq(Ordinary)
<1>1. PICK u : u = Upto(sh, n)
  OBVIOUS
<1>2. Spread(Kids[n], sh) = u[Len(Kids[n])] /\ \A i \in 0..Len(Kids[n]) : u[i] \in Seq(Ordinary)
  BY ONLY <1>1, UptoFacts, sh \in Shows, n \in Ordinary
<1>3. Len(Kids[n]) \in 0..Len(Kids[n])
  BY Shape
<1>4. QED
  BY <1>2, <1>3

LEMMA SpliceIs ==
    ASSUME NEW sh, Good(sh), stack # <<>>, Clears(Top), NEW l \in Seq(Ordinary)
    PROVE  Spliced(parent[Top.slot], AbsoluteIndexOf(Top.slot), Len(previous[Top.slot]), l)
              = Spread(Kids[parent[Top.slot]], [sh EXCEPT ![Top.slot] = l])
<1> PICK s, w, c, b, k : /\ s = Top.slot /\ w = parent[s] /\ c = children[w]
                         /\ b = AbsoluteIndexOf(s) /\ k = Len(previous[s])
  OBVIOUS
<1>1. /\ s \in Slot /\ w \in Ordinary /\ c = Spread(Kids[w], sh) /\ k = Len(sh[s])
      /\ \E q \in DOMAIN Kids[w] : Kids[w][q] = s /\ b = Len(Upto(sh, w)[q - 1])
  BY ClearingIs
<1>2. PICK q \in DOMAIN Kids[w] : Kids[w][q] = s /\ b = Len(Upto(sh, w)[q - 1])
  BY <1>1
<1>3. sh \in Shows
  BY DEF Good, ShownOK
<1>4. b \in Nat /\ c \in Seq(Ordinary) /\ b <= Len(c) /\ Len(c) \in Nat
  <2>1. IsPart(Spread(Kids[w], sh), Len(Upto(sh, w)[q - 1]), Part(sh, Kids[w][q]))
    BY <1>1, <1>3, PartAt
  <2>2. PICK p, r : p = Len(Part(sh, Kids[w][q])) /\ r = Len(c)
    OBVIOUS
  <2>3. b \in Nat /\ c \in Seq(Ordinary) /\ p \in Nat /\ b + p <= r
    BY <1>1, <1>2, <2>1, <2>2 DEF IsPart
  <2>4. r \in Nat
    BY <2>2, <2>3, LenProperties
  <2>5. b <= r
    BY ONLY <2>3, <2>4
  <2>6. QED
    BY <2>2, <2>3, <2>4, <2>5
<1>5. Min({b, Len(c)}) = b
  <2>1. PICK r : r = Len(c)
    OBVIOUS
  <2>2. b \in {b, r} /\ \A y \in {b, r} : b <= y
    BY <1>4, <2>1
  <2>3. \A x \in {b, r} : (\A y \in {b, r} : x <= y) => x = b
    BY <1>4, <2>1
  <2>4. QED
    BY <2>1, <2>2, <2>3 DEF Min
<1>6. Spliced(w, b, k, l) = Replace(c, b, k, l)
  BY <1>5 DEF Spliced, Replace
<1>7. Replace(Spread(Kids[w], sh), Len(Upto(sh, w)[q - 1]), Len(sh[Kids[w][q]]), l)
         = Spread(Kids[w], [sh EXCEPT ![Kids[w][q]] = l])
  BY <1>1, <1>2, <1>3, Replaced
<1>8. QED
  BY <1>1, <1>2, <1>6, <1>7

LEMMA InStatic ==
    ASSUME NEW S, NEW y
    PROVE  y \in StaticOf(S) <=> \E x \in S : y \in Static[x]
BY DEF StaticOf

\* The tree after a splice is the one of the new output.
Replaces(sh, s, w, old, l, to) ==
    /\ stack # <<>> /\ Clears(Top) /\ nested[Top.slot] = <<>>
    /\ s = Top.slot /\ w = parent[s] /\ old = previous[s]
    /\ l \in Seq(Ordinary) /\ l \in Outputs[s] \union {<<>>}
    /\ Rebuilt(w, Spliced(w, AbsoluteIndexOf(s), Len(old), l),
               BelowOf(Range(old) \ Range(l)), StaticOf(Range(l) \ Range(old)))
    /\ to = [sh EXCEPT ![s] = l]
LEMMA Rebuilds ==
    ASSUME NEW sh, Good(sh), NEW s, NEW w, NEW old, NEW l, NEW to, Replaces(sh, s, w, old, l, to)
    PROVE  /\ to \in Shows /\ children' \in [Ordinary -> Seq(Ordinary)]
           /\ alive' = UNION {Area(to, o) : o \in slots \union {Host}}
           /\ \A n \in alive' : children'[n] = Spread(Kids[n], to)
           /\ \A t \in slots : parent[t] \in alive'
           /\ \A x \in Range(l) : Bare(x)
<1> SUFFICES ASSUME stack # <<>>, Clears(Top), nested[Top.slot] = <<>>,
                    s = Top.slot, w = parent[s], old = previous[s],
                    l \in Seq(Ordinary), l \in Outputs[s] \union {<<>>},
                    Rebuilt(w, Spliced(w, AbsoluteIndexOf(s), Len(old), l),
                            BelowOf(Range(old) \ Range(l)), StaticOf(Range(l) \ Range(old))),
                    to = [sh EXCEPT ![s] = l]
             PROVE  /\ to \in Shows /\ children' \in [Ordinary -> Seq(Ordinary)]
                    /\ alive' = UNION {Area(to, o) : o \in slots \union {Host}}
                    /\ \A n \in alive' : children'[n] = Spread(Kids[n], to)
                    /\ \A t \in slots : parent[t] \in alive'
                    /\ \A x \in Range(l) : Bare(x)
  BY DEF Replaces
<1>1. Typed /\ ShownOK(sh) /\ TreeOK(sh) /\ sh \in Shows
  BY DEF Good, ShownOK
<1>2. /\ s \in slots /\ s \in Slot /\ s \in Owners /\ s # Host /\ w \in Ordinary /\ w \in alive /\ sh[s] = old
  BY ClearingIs, TreeAssumption DEF Owners
<1>3. to \in Shows
  BY <1>1, <1>2 DEF Shows
<1>4. /\ \A o \in Owners : o # s => Area(to, o) = Area(sh, o)
      /\ Area(sh, s) = StaticOf(Range(old)) /\ Area(to, s) = StaticOf(Range(l))
  BY <1>1, <1>2 DEF Area, Shows, Owners
<1>5. \A t \in slots : parent[t] \notin Area(sh, s)
  BY AreaBare
<1>6. \A x \in Range(old) \union Range(l) : x \in MayShow(s) /\ IsTop(x) /\ x \in Ordinary /\ x # Root
  <2> SUFFICES ASSUME NEW x \in Range(old) \union Range(l) PROVE x \in MayShow(s)
    BY <1>2, TopFacts, Shape
  <2>1. CASE x \in Range(old)
    <3>1. sh[s] # <<>> /\ x \in Range(sh[s])
      BY <1>2, <2>1 DEF Range
    <3>2. QED
      BY <1>1, <1>2, <3>1 DEF ShownOK, MayShow
  <2>2. CASE x \in Range(l)
    <3>1. l # <<>>
      BY <2>2 DEF Range
    <3>2. QED
      BY <2>2, <3>1 DEF MayShow
  <2>3. QED
    BY <2>1, <2>2
<1>7. \A x \in Range(old) : Bare(x)
  BY <1>4, <1>5 DEF Bare, StaticOf
<1> DEFINE gone == BelowOf(Range(old) \ Range(l))
           fresh == StaticOf(Range(l) \ Range(old))
<1>8. alive \intersect gone = StaticOf(Range(old) \ Range(l))
  <2>1. ASSUME NEW y \in alive, y \in gone PROVE y \in StaticOf(Range(old) \ Range(l))
    <3>1. PICK x \in Range(old) \ Range(l) : y \in Below[x]
      BY <2>1 DEF BelowOf
    <3>2. y \in Static[x]
      BY <1>1, <1>6, <1>7, <3>1, GoneIs
    <3>3. QED
      BY <3>1, <3>2 DEF StaticOf
  <2>2. ASSUME NEW y \in StaticOf(Range(old) \ Range(l)) PROVE y \in alive /\ y \in gone
    <3>1. PICK x \in Range(old) \ Range(l) : y \in Static[x]
      BY <2>2 DEF StaticOf
    <3>2. y \in Below[x]
      BY <1>6, <3>1, BelowFacts
    <3>3. y \in Area(sh, s)
      BY <1>4, <3>1 DEF StaticOf
    <3>4. QED
      BY <1>1, <1>2, <3>1, <3>2, <3>3 DEF TreeOK, BelowOf
  <2>3. QED
    BY <2>1, <2>2
<1>9. \A y \in fresh : y \notin alive
  <2> SUFFICES ASSUME NEW y \in fresh, y \in alive PROVE FALSE
    OBVIOUS
  <2>1. PICK x \in Range(l) \ Range(old) : y \in Static[x]
    BY DEF StaticOf
  <2>2. PICK o \in slots \union {Host} : y \in Area(sh, o)
    BY <1>1 DEF TreeOK
  <2>3. o \in Owners
    BY <1>1, <2>2 DEF Owners, Typed
  <2>4. PICK r \in Ordinary : /\ IsTop(r) /\ y \in Static[r]
                              /\ \/ o = Host /\ r = Root
                                 \/ o # Host /\ o \in slots /\ o \in Slot /\ r \in Range(sh[o]) /\ r \in MayShow(o)
    BY <1>1, <2>2, <2>3, AreaTop
  <2>5. r = x
    BY <1>6, <2>1, <2>4, TopsApart
  <2>6. o = s
    BY <1>2, <1>6, <2>1, <2>4, <2>5, TopFacts
  <2>7. QED
    BY <1>2, <2>1, <2>4, <2>5, <2>6
<1>10. alive' = (alive \ gone) \union fresh
  BY DEF Rebuilt
<1>11. StaticOf(Range(old) \ Range(l)) \subseteq Area(sh, s) /\ fresh \subseteq Area(to, s)
  <2>1. StaticOf(Range(old) \ Range(l)) \subseteq StaticOf(Range(old)) /\ fresh \subseteq StaticOf(Range(l))
    BY ONLY DEF StaticOf
  <2> HIDE DEF fresh
  <2>2. QED
    BY <1>4, <2>1
<1>12. ASSUME NEW y \in alive' PROVE \E o \in slots \union {Host} : y \in Area(to, o)
  <2>1. CASE y \in fresh
    BY <1>2, <1>11, <2>1
  <2>2. CASE y \in alive /\ y \notin gone
    <3>1. PICK o \in slots \union {Host} : y \in Area(sh, o)
      BY <1>1, <2>2 DEF TreeOK
    <3>2. o \in Owners
      BY <1>1, <3>1 DEF Owners, Typed
    <3>3. CASE o # s
      BY <1>4, <3>1, <3>2, <3>3
    <3>4. CASE o = s
      <4>1. PICK x \in Range(old) : y \in Static[x]
        BY <1>4, <3>1, <3>4 DEF StaticOf
      <4>2. x \in Range(l)
        <5>1. x \notin Range(l) => y \in StaticOf(Range(old) \ Range(l))
          BY <4>1 DEF StaticOf
        <5>2. QED
          BY <1>8, <2>2, <5>1
      <4>3. y \in Area(to, s)
        BY <1>4, <4>1, <4>2 DEF StaticOf
      <4>4. QED
        BY <1>2, <4>3
    <3>5. QED
      BY <3>3, <3>4
  <2>3. QED
    BY <1>10, <2>1, <2>2
<1>13. ASSUME NEW o \in slots \union {Host}, NEW y \in Area(to, o) PROVE y \in alive'
  <2>1. o \in Owners
    BY <1>1 DEF Owners, Typed
  <2>2. CASE o # s
    <3>1. y \in Area(sh, o)
      BY <1>4, <2>1, <2>2
    <3>2. y \in alive
      BY <1>1, <3>1 DEF TreeOK
    <3>3. y \notin gone
      <4>1. y \in gone => y \in Area(sh, s)
        BY <1>8, <1>11, <3>2
      <4>2. QED
        BY <1>1, <1>2, <2>1, <2>2, <3>1, <4>1, AreasApart
    <3>4. QED
      BY <1>10, <3>2, <3>3
  <2>3. CASE o = s
    <3>0. y \in StaticOf(Range(l))
      BY ONLY <1>4, <1>13, <2>3
    <3>1. PICK x \in Range(l) : y \in Static[x]
      BY ONLY <3>0, InStatic
    <3>2. CASE x \notin Range(old)
      <4>1. y \in fresh
        BY <3>1, <3>2 DEF StaticOf
      <4>2. QED
        BY <1>10, <4>1
    <3>3. CASE x \in Range(old)
      <4>1. y \in Area(sh, s)
        BY <1>4, <3>1, <3>3 DEF StaticOf
      <4>2. y \in alive
        BY <1>1, <1>2, <4>1 DEF TreeOK
      <4>3. y \notin gone
        <5> SUFFICES ASSUME y \in gone PROVE FALSE
          OBVIOUS
        <5>0. y \in StaticOf(Range(old) \ Range(l))
          <6> HIDE DEF gone
          <6>1. y \in gone
            OBVIOUS
          <6>2. QED
            BY ONLY <1>8, <4>2, <6>1
        <5>1. PICK z \in Range(old) \ Range(l) : y \in Static[z]
          BY ONLY <5>0, InStatic
        <5>2. z # x
          BY <3>1, <5>1
        <5>3. QED
          BY <1>6, <3>1, <5>1, <5>2, TopsApart
      <4>4. QED
        BY <1>10, <4>2, <4>3
    <3>4. QED
      BY <3>2, <3>3
  <2>4. QED
    BY <2>2, <2>3
<1>14. alive' = UNION {Area(to, o) : o \in slots \union {Host}}
  BY <1>12, <1>13
<1>15. ASSUME NEW t \in slots PROVE parent[t] \in alive'
  <2>1. parent[t] \in alive
    BY <1>1 DEF TreeOK
  <2>2. parent[t] \notin gone
    BY <1>5, <1>8, <1>11, <2>1
  <2>3. QED
    BY <1>10, <2>1, <2>2
<1>16. children' = [n \in Ordinary |->
           IF n = w THEN Spliced(w, AbsoluteIndexOf(s), Len(old), l)
           ELSE IF n \in fresh THEN Widgets(Kids[n])
           ELSE IF n \in gone THEN <<>> ELSE children[n]]
  BY DEF Rebuilt
<1>17. Spliced(w, AbsoluteIndexOf(s), Len(old), l) = Spread(Kids[w], to)
  BY SpliceIs
<1>18. \A n \in Ordinary : Widgets(Kids[n]) = Spread(Kids[n], [t \in Slot |-> <<>>])
  BY DEF Widgets
<1>19. [t \in Slot |-> <<>>] \in Shows /\ <<>> \in Seq(Ordinary)
  BY EmptySeq DEF Shows
<1>20. \A n \in Ordinary : children'[n] \in Seq(Ordinary)
  <2> SUFFICES ASSUME NEW n \in Ordinary PROVE children'[n] \in Seq(Ordinary)
    OBVIOUS
  <2>1. Spread(Kids[n], to) \in Seq(Ordinary) /\ Widgets(Kids[n]) \in Seq(Ordinary) /\ children[n] \in Seq(Ordinary)
    BY <1>1, <1>3, <1>18, <1>19, SpreadSeq DEF Typed
  <2> HIDE DEF gone, fresh
  <2>2. QED
    BY <1>16, <1>17, <1>19, <2>1
<1>21. children' \in [Ordinary -> Seq(Ordinary)]
  <2> HIDE DEF gone, fresh
  <2>1. children' = [n \in Ordinary |-> children'[n]]
    BY <1>16
  <2>2. QED
    BY <1>20, <2>1
<1>22. s \in Range(Kids[w])
  BY <1>1, <1>2 DEF TreeOK
<1>23. ASSUME NEW n \in alive' PROVE children'[n] = Spread(Kids[n], to)
  <2>1. n \in Ordinary
    <3>1. PICK o \in slots \union {Host} : n \in Area(to, o)
      BY <1>12
    <3>2. o \in Owners
      BY <1>1 DEF Owners, Typed
    <3>3. CASE o # s
      BY <1>1, <1>4, <3>1, <3>2, <3>3, AreaFacts
    <3>4. CASE o = s
      <4>1. n \in StaticOf(Range(l))
        BY ONLY <1>4, <3>1, <3>4
      <4>2. PICK x \in Range(l) : n \in Static[x]
        BY ONLY <4>1, InStatic
      <4>3. QED
        BY <1>6, <4>2, StaticFacts
    <3>5. QED
      BY <3>3, <3>4
  <2>2. CASE n = w
    BY <1>16, <1>17, <2>1, <2>2
  <2>3. CASE n # w /\ n \in fresh
    <3>1. ASSUME NEW t \in Slot, t \in Range(Kids[n]) PROVE to[t] = [r \in Slot |-> <<>>][t]
      <4>1. t # s
        BY <1>2, <1>22, <2>1, <2>3, <3>1, OneParentOf
      <4>2. t \notin slots
        <5> SUFFICES ASSUME t \in slots PROVE FALSE
          OBVIOUS
        <5>1. parent[t] \in alive /\ t \in Range(Kids[parent[t]]) /\ parent[t] \in Ordinary
          BY <1>1 DEF TreeOK, Typed
        <5>2. parent[t] = n
          BY <2>1, <3>1, <5>1, OneParentOf
        <5>3. QED
          BY <1>9, <2>3, <5>1, <5>2
      <4>3. sh[t] = <<>>
        BY <1>1, <4>2 DEF ShownOK
      <4>4. QED
        BY <1>1, <4>1, <4>3 DEF Shows
    <3>2. Spread(Kids[n], to) = Spread(Kids[n], [r \in Slot |-> <<>>])
      BY <1>3, <1>19, <2>1, <3>1, SpreadSame
    <3>3. children'[n] = Widgets(Kids[n])
      BY <1>16, <2>1, <2>3
    <3>4. QED
      BY <1>18, <2>1, <3>2, <3>3
  <2>4. CASE n # w /\ n \notin fresh
    <3>1. n \in alive /\ n \notin gone
      BY <1>10, <1>23, <2>4
    <3>2. children'[n] = children[n]
      BY <1>16, <2>1, <2>4, <3>1
    <3>3. children[n] = Spread(Kids[n], sh)
      BY <1>1, <3>1 DEF TreeOK
    <3>4. s \notin Range(Kids[n])
      BY <1>2, <1>22, <2>1, <2>4, OneParentOf
    <3>5. \A t \in Slot : t \in Range(Kids[n]) => sh[t] = to[t]
      BY <1>1, <3>4 DEF Shows
    <3>6. QED
      BY <1>1, <1>3, <2>1, <3>2, <3>3, <3>5, SpreadSame
  <2>5. QED
    BY <2>2, <2>3, <2>4
<1>24. ASSUME NEW x \in Range(l) PROVE Bare(x)
  <2>1. CASE x \in Range(old)
    BY <1>7, <2>1
  <2>2. CASE x \notin Range(old)
    <3>1. \A y \in Static[x] : y \notin alive
      BY <1>9, <2>2 DEF StaticOf
    <3>2. QED
      BY <1>1, <3>1 DEF Bare, TreeOK
  <2>3. QED
    BY <2>1, <2>2
<1>25. QED
  BY <1>3, <1>14, <1>15, <1>21, <1>23, <1>24

-----------------------------------------------------------------------------
(* What a step leaves of the calls.  The top st[m] of the stack returns, or *)
(* goes on, or goes on and calls another.                                   *)

GoesOn(f, g) == Alike(f, g) /\ (FoundRun(f) => FoundRun(g) /\ g.out = f.out)
After(st, q, m, k) ==
    /\ m \in Nat /\ m # 0 /\ IsStack(st, m) /\ k \in Nat /\ IsStack(q, k) /\ Same(st, q, m - 1)
    /\ k # m - 1 => GoesOn(st[m], q[m]) /\ k \in {m, m + 1}

LEMMA PopAfter ==
    ASSUME Typed, stack # <<>>, stack' = Under
    PROVE  After(stack, stack', Len(stack), Len(stack) - 1) /\ stack' \in Seq(Frames)
<1> PICK m : m = Len(stack)
  OBVIOUS
<1>1. m \in Nat /\ m # 0 /\ IsStack(stack, m) /\ IsStack(Under, m - 1) /\ Same(stack, Under, m - 1)
  BY TopIs
<1>2. m - 1 \in Nat
  BY <1>1
<1>3. QED
  BY <1>1, <1>2 DEF After, IsStack

LEMMA GotoAfter ==
    ASSUME Typed, stack # <<>>, NEW g \in Frames, Goto(g), GoesOn(Top, g)
    PROVE  /\ After(stack, stack', Len(stack), Len(stack)) /\ stack' \in Seq(Frames)
           /\ stack'[Len(stack)] = g
<1> PICK m : m = Len(stack)
  OBVIOUS
<1>1. m \in Nat /\ m # 0 /\ IsStack(stack, m) /\ Top = stack[m] /\ stack \in Seq(Frames)
  BY TopIs DEF Typed
<1>2. stack' = Append(Front(stack), g)
  BY DEF Goto, Under
<1>3. IsStack(stack', m) /\ Same(stack, stack', m - 1) /\ stack'[m] = g
  BY <1>1, <1>2, GotoIs
<1>4. QED
  BY <1>1, <1>3 DEF After, IsStack

LEMMA CallAfter ==
    ASSUME Typed, stack # <<>>, NEW g \in Frames, NEW h \in Frames, Call(g, h), GoesOn(Top, g)
    PROVE  /\ After(stack, stack', Len(stack), Len(stack) + 1) /\ stack' \in Seq(Frames)
           /\ stack'[Len(stack)] = g /\ stack'[Len(stack) + 1] = h
<1> PICK m : m = Len(stack)
  OBVIOUS
<1>1. m \in Nat /\ m # 0 /\ IsStack(stack, m) /\ Top = stack[m] /\ stack \in Seq(Frames) /\ m + 1 \in Nat
  BY TopIs DEF Typed
<1>2. stack' = Append(Append(Front(stack), g), h)
  BY DEF Call, Under
<1>3. IsStack(stack', m + 1) /\ Same(stack, stack', m - 1) /\ stack'[m] = g /\ stack'[m + 1] = h
  <2>1. PICK r, q : r = Append(Front(stack), g) /\ q = Append(r, h)
    OBVIOUS
  <2>2. IsStack(r, m) /\ Same(stack, r, m - 1) /\ r[m] = g
    BY <1>1, <2>1, GotoIs
  <2>3. r \in Seq(Frames)
    BY <2>2 DEF IsStack
  <2>4. IsStack(q, m + 1) /\ Same(r, q, m) /\ q[m + 1] = h
    BY <1>1, <2>1, <2>2, <2>3, PushIs
  <2>5. m \in 1..m /\ \A d \in 1..(m - 1) : d \in 1..m
    BY <1>1
  <2>6. Same(stack, q, m - 1) /\ q[m] = g
    BY <2>2, <2>4, <2>5 DEF Same
  <2>7. QED
    BY <1>2, <2>1, <2>4, <2>6
<1>4. QED
  BY <1>1, <1>3 DEF After, IsStack

LEMMA PushAfter ==
    ASSUME Typed, stack # <<>>, NEW h \in Frames, stack' = Append(stack, h)
    PROVE  /\ After(stack, stack', Len(stack), Len(stack) + 1) /\ stack' \in Seq(Frames)
           /\ stack'[Len(stack)] = Top /\ stack'[Len(stack) + 1] = h
<1> PICK m : m = Len(stack)
  OBVIOUS
<1>1. m \in Nat /\ m # 0 /\ IsStack(stack, m) /\ Top = stack[m] /\ stack \in Seq(Frames) /\ m + 1 \in Nat
  BY TopIs DEF Typed
<1>2. IsStack(stack', m + 1) /\ Same(stack, stack', m) /\ stack'[m + 1] = h
  BY <1>1, PushIs
<1>3. Same(stack, stack', m - 1) /\ stack'[m] = stack[m]
  BY <1>1, <1>2 DEF Same
<1>4. GoesOn(stack[m], stack'[m])
  BY <1>3 DEF GoesOn, Alike
<1>5. QED
  BY <1>1, <1>2, <1>3, <1>4 DEF After, IsStack

LEMMA AfterIs ==
    ASSUME NEW st, NEW q, NEW m, NEW k, After(st, q, m, k)
    PROVE  /\ m \in Nat /\ m # 0 /\ k \in Nat /\ m \in DOMAIN st /\ DOMAIN st = 1..m /\ DOMAIN q = 1..k
           /\ k = m - 1 \/ k = m \/ k = m + 1
           /\ k # m - 1 => m \in DOMAIN q /\ GoesOn(st[m], q[m])
           /\ \A d \in DOMAIN q : d # m /\ d # m + 1 => d \in 1..(m - 1) /\ q[d] = st[d]
           /\ \A d \in 1..(m - 1) : d \in DOMAIN q /\ d \in DOMAIN st /\ q[d] = st[d] /\ d # m
           /\ \A d \in DOMAIN q : d = m + 1 => k = m + 1
           /\ \A d \in DOMAIN q : d = m => k # m - 1
<1>1. /\ m \in Nat /\ m # 0 /\ k \in Nat /\ DOMAIN st = 1..m /\ DOMAIN q = 1..k
      /\ k = m - 1 \/ k = m \/ k = m + 1
      /\ k # m - 1 => GoesOn(st[m], q[m])
      /\ Same(st, q, m - 1)
  BY DEF After, IsStack
<1>2. \A d \in 1..k : d # m /\ d # m + 1 => d \in 1..(m - 1)
  BY <1>1
<1>3. \A d \in 1..(m - 1) : d \in 1..k /\ d \in 1..m /\ d # m
  BY <1>1
<1>4. \A d \in 1..(m - 1) : q[d] = st[d]
  BY <1>1 DEF Same
<1>5. m \in 1..m /\ (k # m - 1 => m \in 1..k) /\ (m + 1 \in 1..k => k = m + 1) /\ (m \in 1..k => k # m - 1)
  BY <1>1
<1>6. QED
  BY <1>1, <1>2, <1>3, <1>4, <1>5

LEMMA FramesAfter ==
    ASSUME NEW to, NEW q, NEW st, NEW m, NEW k, After(st, q, m, k), q = stack',
           \A d \in 1..(m - 1) : FrameOK(to, st[d])',
           k # m - 1 => FrameOK(to, q[m])',
           k = m + 1 => FrameOK(to, q[m + 1])'
    PROVE  FramesOK(to)'
<1>1. \A d \in DOMAIN q : FrameOK(to, q[d])'
  BY AfterIs
<1>2. QED
  BY <1>1 DEF FramesOK

LEMMA CallsAfter ==
    ASSUME NEW to, NEW q, NEW st, NEW m, NEW k, After(st, q, m, k), q = stack',
           FirstOK(to, st[1])',
           \A d \in 1..m : d > 1 => CallOK(to, st[d - 1], st[d])',
           k = m + 1 => CallOK(to, q[m], q[m + 1])'
    PROVE  CallsOK(to)'
<1>1. k # m - 1 => GoesOn(st[m], q[m])
  BY AfterIs
<1>2. ASSUME k # 0 PROVE FirstOK(to, q[1])'
  <2>1. CASE m = 1
    <3>1. Alike(st[1], q[1])
      BY <1>1, <1>2, <2>1 DEF GoesOn
    <3>2. QED
      BY <3>1 DEF FirstOK, Alike, IsResolve, IsDestroy
  <2>2. CASE m # 1
    <3>1. 1 \in 1..(m - 1)
      BY <2>2, AfterIs
    <3>2. q[1] = st[1]
      BY <3>1, AfterIs
    <3>3. QED
      BY <3>2
  <2>3. QED
    BY <2>1, <2>2
<1>3. ASSUME NEW d \in DOMAIN q, d > 1 PROVE CallOK(to, q[d - 1], q[d])'
  <2>1. CASE d = m + 1
    <3>1. k = m + 1 /\ d - 1 = m
      BY <2>1, AfterIs
    <3>2. QED
      BY <2>1, <3>1
  <2>2. CASE d # m + 1
    <3>1. m \in Nat /\ d \in 1..m /\ d - 1 \in 1..(m - 1)
      <4>1. m \in Nat /\ m # 0 /\ (d = m \/ d \in 1..(m - 1))
        BY <2>2, AfterIs
      <4>2. QED
        BY <1>3, <4>1
    <3>2. q[d - 1] = st[d - 1]
      BY <3>1, AfterIs
    <3>3. CallOK(to, st[d - 1], st[d])'
      BY <1>3, <3>1
    <3>4. CASE d = m
      <4>1. GoesOn(st[d], q[d])
        BY <1>3, <3>4, AfterIs
      <4>2. QED
        BY <3>2, <3>3, <4>1 DEF CallOK, GoesOn, Alike, IsResolve, IsRun, IsDestroy, FoundRun, Clears
    <3>5. CASE d # m
      <4>1. q[d] = st[d]
        BY <2>2, <3>5, AfterIs
      <4>2. QED
        BY <3>2, <3>3, <4>1
    <3>6. QED
      BY <3>4, <3>5
  <2>3. QED
    BY <2>1, <2>2
<1>4. stack' # <<>> => k # 0
  <2>1. IsStack(q, k) 
    BY DEF After
  <2>2. k = 0 => q = <<>>
    BY <2>1, EmptySeq DEF IsStack
  <2>3. QED
    BY <2>2
<1>5. QED
  BY <1>2, <1>3, <1>4 DEF CallsOK

LEMMA SettledAfter ==
    ASSUME NEW sh, SettledOK(sh), NEW q, NEW st, NEW m, NEW k, After(st, q, m, k), st = stack, q = stack',
           \A s \in Slot : \/ (s \in slots' => s \in slots) /\ count'[s] = count[s] /\ previous'[s] = previous[s]
                           \/ count'[s] = Len(previous'[s]) /\ sh[s] = previous'[s],
           slots' \subseteq Slot,
           k = m - 1 /\ FoundRun(st[m]) => sh[st[m].slot] = previous'[st[m].slot],
           k # m - 1 /\ FoundRun(q[m]) => FoundRun(st[m]),
           k = m + 1 => ~FoundRun(q[m + 1]) /\ (Clears(q[m + 1]) => sh[q[m + 1].slot] = previous'[q[m + 1].slot])
    PROVE  SettledOK(sh)'
<1>1. \A s \in slots' : count'[s] = Len(previous'[s])
  BY DEF SettledOK
<1>2. ASSUME NEW s \in slots'
      PROVE  sh[s] = previous'[s] \/ \E d \in DOMAIN q : FoundRun(q[d]) /\ q[d].slot = s
  <2> SUFFICES ASSUME sh[s] # previous'[s] PROVE \E d \in DOMAIN q : FoundRun(q[d]) /\ q[d].slot = s
    OBVIOUS
  <2>1. s \in slots /\ previous'[s] = previous[s]
    BY <1>2
  <2>2. PICK d \in DOMAIN st : FoundRun(st[d]) /\ st[d].slot = s
    BY <2>1 DEF SettledOK
  <2>3. CASE d = m
    <3>1. k # m - 1
      BY <2>2, <2>3
    <3>2. m \in DOMAIN q /\ GoesOn(st[m], q[m])
      BY <3>1, AfterIs
    <3>3. FoundRun(q[m]) /\ q[m].slot = s
      BY <2>2, <2>3, <3>2 DEF GoesOn, Alike, FoundRun, IsRun, IsResolve
    <3>4. QED
      BY <3>2, <3>3
  <2>4. CASE d # m
    <3>1. d \in 1..(m - 1)
      BY <2>4, <2>2, AfterIs
    <3>2. d \in DOMAIN q /\ q[d] = st[d]
      BY <3>1, AfterIs
    <3>3. QED
      BY <2>2, <3>2
  <2>5. QED
    BY <2>3, <2>4
<1>3. ASSUME NEW d \in DOMAIN q
      PROVE  /\ FoundRun(q[d]) => sh[q[d].slot] = q[d].out
             /\ Clears(q[d]) => sh[q[d].slot] = previous'[q[d].slot]
  <2>1. CASE d = m + 1
    <3>1. k = m + 1
      BY <2>1, AfterIs
    <3>2. QED
      BY <2>1, <3>1
  <2>2. CASE d # m + 1
    <3>1. /\ d \in DOMAIN st /\ q[d] \in Frames /\ st[d] \in Frames
          /\ FoundRun(q[d]) => FoundRun(st[d]) /\ q[d].slot = st[d].slot /\ q[d].out = st[d].out
          /\ Clears(q[d]) => Clears(st[d]) /\ q[d].slot = st[d].slot
      <4>1. CASE d # m
        <5>1. d \in DOMAIN st /\ q[d] = st[d]
          BY <2>2, <4>1, AfterIs
        <5>2. q[d] \in Frames
          BY DEF After, IsStack
        <5>3. QED
          BY <5>1, <5>2
      <4>2. CASE d = m
        <5>1. k # m - 1 /\ m \in DOMAIN st
          BY <4>2, AfterIs
        <5>2. GoesOn(st[m], q[m]) /\ q[m] \in Frames /\ st[m] \in Frames
          <6>1. GoesOn(st[m], q[m])
            BY <5>1, AfterIs
          <6>2. q[m] \in Frames
            BY <4>2 DEF After, IsStack
          <6>3. st[m] \in Frames
            BY <5>1 DEF After, IsStack
          <6>4. QED
            BY <6>1, <6>2, <6>3
        <5>3. FoundRun(q[m]) => FoundRun(st[m])
          BY <5>1
        <5>4. QED
          BY <4>2, <5>1, <5>2, <5>3, FrameIs DEF GoesOn, Alike, FoundRun, Clears, IsRun, IsResolve, IsDestroy
      <4>3. QED
        BY <4>1, <4>2
    <3>2. FoundRun(q[d]) => sh[q[d].slot] = q[d].out
      BY <3>1 DEF SettledOK
    <3>3. ASSUME Clears(q[d]) PROVE sh[q[d].slot] = previous'[q[d].slot]
      <4>1. q[d].slot \in Slot
        BY <3>1, <3>3, FrameIs DEF Clears
      <4>2. sh[q[d].slot] = previous[q[d].slot]
        BY <3>1, <3>3 DEF SettledOK
      <4>3. QED
        BY <4>1, <4>2
    <3>4. QED
      BY <3>2, <3>3
  <2>3. QED
    BY <2>1, <2>2
<1>4. QED
  BY <1>1, <1>2, <1>3 DEF SettledOK

\* A new call is deeper than the one that makes it, and inside those of its owner.
Fits(q, m, h) ==
    /\ Rank(h) < Rank(q[m])
    /\ IsDestroy(h) /\ m > 1 => IsDestroy(q[m])
    /\ IsResolve(h) /\ h.owner # Host => \E e \in 1..m : FoundRun(q[e]) /\ q[e].slot = h.owner
    /\ IsResolve(h) => \A d \in 1..m : OwnerOf(q[d]) # h.owner \/ Inside(q[d], h.node)

LEMMA NestedAfter ==
    ASSUME NEW st, NEW q, NEW m, NEW k, After(st, q, m, k), Nested(st), k = m + 1 => Fits(q, m, q[m + 1])
    PROVE  Nested(q)
<1>1. m \in Nat /\ m # 0 /\ IsStack(st, m) /\ IsStack(q, k) /\ Same(st, q, m - 1) /\ (k = m - 1 \/ k = m \/ k = m + 1)
  BY DEF After
<1>2. CASE k = m - 1
  BY <1>1, <1>2, NestedPop
<1>3. ASSUME k # m - 1 PROVE Alike(st[m], q[m])
  BY <1>3 DEF After, GoesOn
<1>4. CASE k = m
  <2>1. m # m - 1
    BY <1>1
  <2>2. QED
    BY <1>1, <1>3, <1>4, <2>1, NestedGoto
<1>5. CASE k = m + 1
  <2>1. m + 1 # m - 1 /\ m \in 1..m
    BY <1>1
  <2>2. PICK r : r = [d \in 1..m |-> q[d]]
    OBVIOUS
  <2>3. \A d \in 1..m : q[d] \in Frames
    BY <1>1, <1>5 DEF IsStack
  <2>4. r \in [1..m -> Frames]
    BY <2>2, <2>3
  <2>5. r \in Seq(Frames)
    BY <1>1, <2>4, IsASeq
  <2>6. Len(r) = m
    BY <1>1, <2>4, <2>5, LenProperties
  <2>7. IsStack(r, m)
    BY <1>1, <2>2, <2>3, <2>5, <2>6 DEF IsStack
  <2>8. Same(st, r, m - 1) /\ r[m] = q[m] /\ Same(r, q, m)
    BY <1>1, <2>1, <2>2 DEF Same
  <2>9. Nested(r)
    BY <1>1, <1>3, <1>5, <2>1, <2>7, <2>8, NestedGoto
  <2>10. Fits(r, m, q[m + 1])
    BY <1>5, <2>2, <2>1 DEF Fits
  <2>11. QED
    BY <1>1, <1>5, <2>7, <2>8, <2>9, <2>10, NestedPush DEF Fits
<1>6. QED
  BY <1>1, <1>2, <1>4, <1>5

\* Some call takes t for o.
Claimed(o, t) == \E d \in DOMAIN stack : Taken(o, t, d)
NoTaker(f) == ~IsDestroy(f) /\ ~(IsResolve(f) /\ f.ran)

LEMMA TakenAfter ==
    ASSUME NEW st, NEW q, NEW j \in Nat, st = stack, q = stack', \A d \in 1..j : q[d] = st[d],
           NEW d \in 1..j, NEW o, NEW t
    PROVE  Taken(o, t, d)' <=> Taken(o, t, d)
<1>1. q[d] = st[d] /\ (d # 1 => q[d - 1] = st[d - 1])
  BY DEF Same
<1>2. QED
  BY <1>1 DEF Taken, IsDestroy, IsResolve

LEMMA ClaimedAfter ==
    ASSUME NEW st, NEW q, NEW m, NEW k, After(st, q, m, k), st = stack, q = stack',
           NoTaker(st[m]), k # m - 1 => NoTaker(q[m]), k = m + 1 => NoTaker(q[m + 1])
    PROVE  \A o, t : Claimed(o, t)' <=> Claimed(o, t)
<1> SUFFICES ASSUME NEW o, NEW t PROVE Claimed(o, t)' <=> Claimed(o, t)
  OBVIOUS
<1>1. m - 1 \in Nat /\ \A d \in 1..(m - 1) : q[d] = st[d]
  BY AfterIs
<1>2. \A d \in 1..(m - 1) : Taken(o, t, d)' <=> Taken(o, t, d)
  BY <1>1, TakenAfter
<1>3. ASSUME NEW d \in DOMAIN stack, Taken(o, t, d) PROVE d \in 1..(m - 1) /\ d \in DOMAIN q
  <2>1. d # m
    BY <1>3 DEF Taken, NoTaker, IsDestroy, IsResolve
  <2>2. QED
    BY <2>1, AfterIs
<1>4. ASSUME NEW d \in DOMAIN q, Taken(o, t, d)' PROVE d \in 1..(m - 1) /\ d \in DOMAIN st
  <2>1. ~NoTaker(q[d])
    BY <1>4 DEF Taken, NoTaker, IsDestroy, IsResolve
  <2>2. d # m /\ d # m + 1
    BY <2>1, AfterIs
  <2>3. QED
    BY <2>2, AfterIs
<1>5. QED
  BY <1>2, <1>3, <1>4 DEF Claimed

LEMMA OwnersAfter ==
    ASSUME NEW sh, OwnersOK(sh), UNCHANGED <<slots, parent, nested>>, \A o, t : Claimed(o, t)' <=> Claimed(o, t)
    PROVE  OwnersOK(sh)'
<1>1. \A t \in slots : \E o \in Owners : parent[t] \in Area(sh, o) /\ (t \in Range(nested[o]) \/ Claimed(o, t))
  BY DEF OwnersOK, Claimed
<1>2. \A o \in Owners, p \in Owners, t \in Slot : Claimed(o, t) => t \notin Range(nested[p])
  BY DEF OwnersOK, Claimed
<1>3. \A t \in slots' : \E o \in Owners : parent'[t] \in Area(sh, o) /\ (t \in Range(nested'[o]) \/ Claimed(o, t)')
  BY <1>1
<1>4. \A o \in Owners, p \in Owners, t \in Slot : Claimed(o, t)' => t \notin Range(nested'[p])
  BY <1>2
<1>5. \A o, t : \A d \in DOMAIN stack' : Taken(o, t, d)' => Claimed(o, t)'
  BY DEF Claimed
<1>6. /\ \A o \in Owners : /\ IsInjective(nested'[o])
                           /\ \A t \in Range(nested'[o]) : t \in slots' /\ parent'[t] \in Area(sh, o)
      /\ \A s \in Slot \ slots' : nested'[s] = <<>>
  BY DEF OwnersOK
<1>7. ASSUME NEW t \in slots' PROVE \E o \in Owners :
          /\ parent'[t] \in Area(sh, o)
          /\ t \in Range(nested'[o]) \/ \E d \in DOMAIN stack' : Taken(o, t, d)'
  BY <1>3 DEF Claimed
<1>8. \A d \in DOMAIN stack', o \in Owners, p \in Owners, t \in Slot : Taken(o, t, d)' => t \notin Range(nested'[p])
  BY <1>4, <1>5
<1>9. QED
  BY <1>6, <1>7, <1>8 DEF OwnersOK

-----------------------------------------------------------------------------
(* Lists of slots.                                                         *)

Distinctly(l) == l \in Seq(Slot) /\ IsInjective(l)

LEMMA AppendedIs ==
    ASSUME NEW l, Distinctly(l), NEW c \in Slot, c \notin Range(l)
    PROVE  Distinctly(Append(l, c)) /\ Range(Append(l, c)) = Range(l) \union {c}
<1> PICK a, w : a = Len(l) /\ w = Append(l, c)
  OBVIOUS
<1>1. l \in Seq(Slot) /\ a \in Nat /\ DOMAIN l = 1..a
  BY LenProperties DEF Distinctly
<1>2. w \in Seq(Slot) /\ Len(w) = a + 1 /\ (\A j \in 1..a : w[j] = l[j]) /\ w[a + 1] = c
  BY <1>1, AppendProperties
<1>3. DOMAIN w = 1..(a + 1)
  BY <1>2, LenProperties
<1>4. \A j \in 1..(a + 1) : j = a + 1 \/ j \in 1..a
  BY <1>1
<1>5. a + 1 \in 1..(a + 1) /\ \A j \in 1..a : j \in 1..(a + 1)
  BY <1>1
<1>6. \A j \in 1..a : l[j] # c
  BY <1>1 DEF Range
<1>7. IsInjective(w)
  BY <1>1, <1>2, <1>3, <1>4, <1>6 DEF IsInjective, Distinctly
<1>8. Range(w) = Range(l) \union {c}
  BY <1>1, <1>2, <1>3, <1>4, <1>5 DEF Range
<1>9. QED
  BY <1>2, <1>7, <1>8 DEF Distinctly

\* w is l without its ith.
Without(w, l, i) ==
    /\ w \in Seq(Slot) /\ Len(l) \in Nat /\ i \in 1..Len(l) /\ Len(w) = Len(l) - 1
    /\ \A j \in 1..(Len(l) - 1) : w[j] = IF j < i THEN l[j] ELSE l[j + 1]

LEMMA WithoutIs ==
    ASSUME NEW l, Distinctly(l), NEW i, NEW w, Without(w, l, i)
    PROVE  Distinctly(w) /\ Range(w) = Range(l) \ {l[i]} /\ l[i] \in Range(l) /\ l[i] \in Slot
<1> PICK a : a = Len(l)
  OBVIOUS
<1>1. /\ a \in Nat /\ i \in 1..a /\ w \in Seq(Slot) /\ Len(w) = a - 1
      /\ \A j \in 1..(a - 1) : w[j] = IF j < i THEN l[j] ELSE l[j + 1]
  BY DEF Without
<1>2. DOMAIN l = 1..a /\ DOMAIN w = 1..(a - 1) /\ \A j \in 1..a : l[j] \in Slot
  BY <1>1, LenProperties, ElementOfSeq DEF Distinctly
<1>3. \A j, k \in 1..a : l[j] = l[k] => j = k
  BY <1>2 DEF Distinctly, IsInjective
<1>4. \A j \in 1..(a - 1) : \E k \in 1..a : k # i /\ w[j] = l[k] /\ k = IF j < i THEN j ELSE j + 1
  <2> SUFFICES ASSUME NEW j \in 1..(a - 1)
               PROVE  \E k \in 1..a : k # i /\ w[j] = l[k] /\ k = IF j < i THEN j ELSE j + 1
    OBVIOUS
  <2>1. CASE j < i
    <3>1. j \in 1..a /\ j # i
      BY <1>1, <2>1
    <3>2. QED
      BY <1>1, <2>1, <3>1
  <2>2. CASE ~(j < i)
    <3>1. j + 1 \in 1..a /\ j + 1 # i
      BY <1>1, <2>2
    <3>2. QED
      BY <1>1, <2>2, <3>1
  <2>3. QED
    BY <2>1, <2>2
<1>5. IsInjective(w)
  <2> SUFFICES ASSUME NEW j \in 1..(a - 1), NEW k \in 1..(a - 1), w[j] = w[k] PROVE j = k
    BY <1>2 DEF IsInjective
  <2>1. PICK x \in 1..a : w[j] = l[x] /\ x = IF j < i THEN j ELSE j + 1
    BY <1>4
  <2>2. PICK y \in 1..a : w[k] = l[y] /\ y = IF k < i THEN k ELSE k + 1
    BY <1>4
  <2>3. x = y
    BY <1>3, <2>1, <2>2
  <2>4. QED
    BY <1>1, <2>1, <2>2, <2>3
<1>6. ASSUME NEW x \in Range(w) PROVE x \in Range(l) /\ x # l[i]
  <2>1. PICK j \in 1..(a - 1) : w[j] = x
    BY <1>2 DEF Range
  <2>2. PICK k \in 1..a : k # i /\ x = l[k]
    BY <1>4, <2>1
  <2>3. QED
    BY <1>1, <1>2, <1>3, <2>2 DEF Range
<1>7. ASSUME NEW x \in Range(l), x # l[i] PROVE x \in Range(w)
  <2>1. PICK k \in 1..a : l[k] = x
    BY <1>2 DEF Range
  <2>2. CASE k < i
    <3>1. k \in 1..(a - 1)
      BY <1>1, <2>2
    <3>2. w[k] = x
      BY <1>1, <2>1, <2>2, <3>1
    <3>3. QED
      BY <1>2, <3>1, <3>2 DEF Range
  <2>3. CASE k > i
    <3>1. k - 1 \in 1..(a - 1) /\ ~(k - 1 < i) /\ (k - 1) + 1 = k
      BY <1>1, <2>3
    <3>2. w[k - 1] = x
      BY <1>1, <2>1, <3>1
    <3>3. QED
      BY <1>2, <3>1, <3>2 DEF Range
  <2>4. k # i
    BY <1>7, <2>1
  <2>5. QED
    BY <1>1, <2>2, <2>3, <2>4
<1>8. l[i] \in Range(l) /\ l[i] \in Slot
  BY <1>1, <1>2 DEF Range
<1>9. QED
  BY <1>1, <1>5, <1>6, <1>7, <1>8 DEF Distinctly

LEMMA TailWithout ==
    ASSUME NEW l \in Seq(Slot), l # <<>>
    PROVE  Without(Tail(l), l, 1) /\ Head(l) = l[1]
<1> PICK a, w : a = Len(l) /\ w = Tail(l)
  OBVIOUS
<1>1. a \in Nat /\ a # 0
  BY LenProperties, EmptySeq
<1>2. w \in Seq(Slot) /\ Len(w) = a - 1 /\ \A j \in 1..Len(w) : w[j] = l[j + 1]
  BY HeadTailProperties
<1>3. \A j \in 1..(a - 1) : ~(j < 1) /\ w[j] = l[j + 1]
  BY <1>1, <1>2
<1>4. 1 \in 1..a
  BY <1>1
<1>5. Head(l) = l[1]
  OBVIOUS
<1>6. QED
  BY <1>1, <1>2, <1>3, <1>4, <1>5 DEF Without

LEMMA RemovedWithout ==
    ASSUME NEW l \in Seq(Slot), NEW i \in DOMAIN l
    PROVE  Without(RemoveAt(l, i), l, i)
<1> PICK a, b, c, w : a = Len(l) /\ b = SubSeq(l, 1, i - 1) /\ c = SubSeq(l, i + 1, a) /\ w = b \o c
  OBVIOUS
<1>1. a \in Nat /\ i \in 1..a /\ \A j \in 1..a : l[j] \in Slot
  BY LenProperties, ElementOfSeq
<1>0. a \in Int /\ i \in Int /\ 1 <= i /\ i <= a
  BY ONLY <1>1
<1>2. b \in Seq(Slot) /\ Len(b) = i - 1 /\ \A j \in 1..(i - 1) : b[j] = l[j]
  <2>1. 1 \in Int /\ i - 1 \in Int /\ \A j \in 1..(i - 1) : l[j] \in Slot
    BY <1>1
  <2>2. b \in Seq(Slot) /\ Len(b) = (IF 1 <= i - 1 THEN (i - 1) - 1 + 1 ELSE 0)
        /\ \A j \in 1..((i - 1) - 1 + 1) : b[j] = l[1 + j - 1]
    BY <2>1, SubSeqProperties
  <2>3. (i - 1) - 1 + 1 = i - 1 /\ \A j \in 1..(i - 1) : 1 + j - 1 = j
    BY <1>1
  <2>4. (IF 1 <= i - 1 THEN (i - 1) - 1 + 1 ELSE 0) = i - 1
    BY <1>1
  <2>5. QED
    BY <2>2, <2>3, <2>4
<1>3. c \in Seq(Slot) /\ Len(c) = a - i /\ \A j \in 1..(a - i) : c[j] = l[i + j]
  <2>0. PICK p : p = i + 1
    OBVIOUS
  <2>1. p \in Int /\ a \in Int /\ \A j \in p..a : l[j] \in Slot
    BY <1>1, <2>0
  <2>2. /\ SubSeq(l, p, a) \in Seq(Slot) /\ Len(SubSeq(l, p, a)) = (IF p <= a THEN a - p + 1 ELSE 0)
        /\ \A j \in 1..(a - p + 1) : SubSeq(l, p, a)[j] = l[p + j - 1]
    BY ONLY <2>1, SubSeqProperties
  <2>3. a - p + 1 = a - i /\ \A j \in 1..(a - i) : p + j - 1 = i + j
    BY ONLY <1>0, <2>0
  <2>4. (IF p <= a THEN a - p + 1 ELSE 0) = a - i
    BY ONLY <1>0, <2>0
  <2>5. c = SubSeq(l, p, a)
    BY <2>0
  <2>6. QED
    BY ONLY <2>2, <2>3, <2>4, <2>5
<1>4. /\ w \in Seq(Slot) /\ Len(w) = Len(b) + Len(c)
      /\ \A j \in 1..(Len(b) + Len(c)) : w[j] = IF j <= Len(b) THEN b[j] ELSE c[j - Len(b)]
  BY ONLY <1>2, <1>3, ConcatProperties, w = b \o c
<1>5. (i - 1) + (a - i) = a - 1
  BY ONLY <1>0
<1>6. Len(w) = a - 1 /\ \A j \in 1..(a - 1) : w[j] = IF j <= i - 1 THEN b[j] ELSE c[j - (i - 1)]
  BY <1>2, <1>3, <1>4, <1>5, ZenonT(60)
<1>7. ASSUME NEW j \in 1..(a - 1) PROVE w[j] = IF j < i THEN l[j] ELSE l[j + 1]
  <2>1. CASE j < i
    <3>1. j <= i - 1 /\ j \in 1..(i - 1)
      BY <1>1, <2>1
    <3>2. QED
      BY <1>2, <1>6, <2>1, <3>1
  <2>2. CASE ~(j < i)
    <3>1. ~(j <= i - 1) /\ j - (i - 1) \in 1..(a - i) /\ i + (j - (i - 1)) = j + 1
      <4>1. j \in Int /\ 1 <= j /\ j <= a - 1 /\ i <= j
        BY ONLY <1>0, <2>2, j \in 1..(a - 1)
      <4>2. QED
        BY ONLY <1>0, <4>1
    <3>2. w[j] = c[j - (i - 1)]
      BY <1>6, <3>1
    <3>3. c[j - (i - 1)] = l[i + (j - (i - 1))]
      BY <1>3, <3>1
    <3>4. QED
      BY <2>2, <3>1, <3>2, <3>3
  <2>3. QED
    BY <2>1, <2>2
<1>8. RemoveAt(l, i) = w
  BY DEF RemoveAt
<1>9. QED
  BY <1>1, <1>4, <1>6, <1>7, <1>8 DEF Without

-----------------------------------------------------------------------------
(* Steps that leave the tree and the groups alone.                         *)

LEMMA GoodIs ==
    ASSUME NEW sh, Good(sh)
    PROVE  /\ Typed /\ ShownOK(sh) /\ SettledOK(sh) /\ TreeOK(sh) /\ GroupsOK /\ OwnersOK(sh)
           /\ FramesOK(sh) /\ CallsOK(sh) /\ Nested(stack) /\ sh \in Shows
BY DEF Good, ShownOK

LEMMA Unmoved ==
    ASSUME NEW sh, Good(sh), UNCHANGED <<tree, slots, slot>>
    PROVE  /\ ShownOK(sh)' /\ TreeOK(sh)' /\ GroupsOK'
           /\ \A f : FrameOK(sh, f) => FrameOK(sh, f)'
           /\ \A f, g : CallOK(sh, f, g) /\ (IsRun(g) => nested'[g.slot] = nested[g.slot]) => CallOK(sh, f, g)'
           /\ \A f : FirstOK(sh, f) => FirstOK(sh, f)'
<1>1. alive' = alive /\ children' = children /\ slots' = slots /\ parent' = parent /\ group' = group /\ place' = place
  BY DEF tree, slot
<1>2. ShownOK(sh)' /\ TreeOK(sh)'
  BY <1>1 DEF Good, ShownOK, TreeOK
<1>3. GroupsOK'
  BY <1>1 DEF Good, GroupsOK, EntryOK
<1>4. \A f : ResolveOK(sh, f) => ResolveOK(sh, f)'
  BY <1>1 DEF ResolveOK, Bare
<1>5. \A f : RunOK(sh, f) => RunOK(sh, f)'
  BY <1>1 DEF RunOK, Bare
<1>6. \A f : FrameOK(sh, f) => FrameOK(sh, f)'
  BY <1>1, <1>4, <1>5 DEF FrameOK
<1>7. \A f, g : CallOK(sh, f, g) /\ (IsRun(g) => nested'[g.slot] = nested[g.slot]) => CallOK(sh, f, g)'
  BY <1>1 DEF CallOK
<1>8. \A f : FirstOK(sh, f) => FirstOK(sh, f)'
  BY <1>1 DEF FirstOK
<1>9. QED
  BY <1>2, <1>3, <1>6, <1>7, <1>8

\* The innermost walk.
LEMMA ResolveTop ==
    ASSUME NEW sh, Good(sh), Resolving
    PROVE  /\ stack # <<>> /\ Top \in ResolveFrame /\ Top \in Frames /\ IsResolve(Top) /\ ResolveOK(sh, Top)
           /\ Top.node \in Ordinary /\ Top.owner \in Owners /\ Top.at = Top.node
           /\ Top.i \in Nat /\ Top.static \in Nat /\ Top.real \in Nat /\ Top.ran \in BOOLEAN
           /\ Top.node \in Area(sh, Top.owner) /\ Top.node \in alive
           /\ Len(Kids[Top.node]) \in Nat /\ Top.i \in 1..Len(Kids[Top.node]) + 1
           /\ AtChild => Top.i \in DOMAIN Kids[Top.node] /\ Child = Kids[Top.node][Top.i]
           /\ Rank(Top) = Height[Top.node]
<1>1. Typed /\ ShownOK(sh) /\ TreeOK(sh) /\ FramesOK(sh)
  BY GoodIs
<1>2. stack # <<>> /\ Top \in Frames /\ IsResolve(Top)
  BY <1>1, TopIs DEF Resolving, IsResolve
<1>3. FrameOK(sh, Top)
  BY <1>1, <1>2, TopIs DEF FramesOK
<1>4. ResolveOK(sh, Top)
  BY <1>2, <1>3 DEF FrameOK
<1>5. /\ Top \in ResolveFrame /\ Top.node \in Ordinary /\ Top.owner \in Owners
      /\ Top.i \in Nat /\ Top.static \in Nat /\ Top.real \in Nat /\ Top.ran \in BOOLEAN
  BY <1>2, FrameIs
<1>6. Top.at = Top.node /\ Top.node \in Area(sh, Top.owner) /\ Top.i \in 1..Len(Kids[Top.node]) + 1
  BY <1>4 DEF ResolveOK
<1>7. Len(Kids[Top.node]) \in Nat /\ DOMAIN Kids[Top.node] = 1..Len(Kids[Top.node])
  BY <1>5, Shape
<1>8. AtChild => Top.i \in DOMAIN Kids[Top.node] /\ Child = Kids[Top.node][Top.i]
  BY <1>6, <1>7 DEF AtChild, Child
<1>9. Top.owner \in slots \union {Host}
  BY <1>1, <1>5, <1>6, AreaFacts
<1>10. Top.node \in alive
  BY <1>1, <1>6, <1>9 DEF TreeOK
<1>11. Rank(Top) = Height[Top.node]
  BY <1>2 DEF Rank
<1>12. QED
  BY <1>2, <1>4, <1>5, <1>6, <1>7, <1>8, <1>10, <1>11

\* One component further.
LEMMA NextIs ==
    ASSUME NEW sh \in Shows, NEW n \in Ordinary, NEW i \in DOMAIN Kids[n]
    PROVE  /\ i \in Nat /\ i + 1 \in Nat /\ i + 1 \in 1..Len(Kids[n]) + 1 /\ (i + 1) - 1 = i /\ i \in 1..Len(Kids[n])
           /\ Len(Upto(sh, n)[i]) = Len(Upto(sh, n)[i - 1]) + Len(Part(sh, Kids[n][i]))
           /\ Len(Upto(sh, n)[i - 1]) \in Nat
<1> PICK u, a : u = Upto(sh, n) /\ a = Len(Kids[n])
  OBVIOUS
<1>1. a \in Nat /\ i \in 1..a
  BY Shape
<1>2. i - 1 \in 0..a
  BY <1>1
<1>3. /\ \A j \in 0..Len(Kids[n]) : Len(u[j]) \in Nat
      /\ \A j \in 1..Len(Kids[n]) : Len(u[j]) = Len(u[j - 1]) + Len(Part(sh, Kids[n][j]))
  BY ONLY UptoFacts, u = Upto(sh, n), sh \in Shows, n \in Ordinary
<1>4. i \in Nat /\ i + 1 \in Nat /\ i + 1 \in 1..a + 1 /\ (i + 1) - 1 = i
  BY <1>1
<1>5. QED
  BY <1>1, <1>2, <1>3, <1>4

LEMMA LowerOK ==
    ASSUME NEW sh, Good(sh), stack # <<>>, NEW st, st = stack, NEW m, m = Len(stack)
    PROVE  /\ m \in Nat /\ m # 0 /\ st[m] = Top /\ IsStack(st, m) /\ m \in DOMAIN stack
           /\ \A d \in 1..m : d \in DOMAIN stack /\ st[d] \in Frames
           /\ \A d \in 1..m : FrameOK(sh, st[d])
           /\ FirstOK(sh, st[1])
           /\ \A d \in 1..m : d > 1 => CallOK(sh, st[d - 1], st[d])
<1>1. m \in Nat /\ m # 0 /\ st[m] = Top /\ IsStack(st, m) /\ m \in DOMAIN stack
  BY GoodIs, TopIs
<1>2. DOMAIN stack = 1..m /\ \A d \in 1..m : d \in DOMAIN stack /\ st[d] \in Frames
  BY <1>1 DEF IsStack
<1>3. FramesOK(sh) /\ CallsOK(sh)
  BY GoodIs
<1>4. QED
  BY <1>1, <1>2, <1>3 DEF FramesOK, CallsOK

LEMMA SkipNoneGood ==
    ASSUME NEW sh, Good(sh), SkipNone
    PROVE  Good(sh)'
<1>1. /\ Typed /\ ShownOK(sh) /\ SettledOK(sh) /\ TreeOK(sh) /\ GroupsOK /\ OwnersOK(sh)
      /\ FramesOK(sh) /\ CallsOK(sh) /\ Nested(stack) /\ sh \in Shows
  BY GoodIs
<1> PICK f, n, i, g, st, q, m : /\ f = Top /\ n = f.node /\ i = f.i /\ g = [f EXCEPT !.i = i + 1]
                                /\ st = stack /\ q = stack' /\ m = Len(stack)
  OBVIOUS
<1>2. AtChild /\ Resolving /\ Child = None /\ Goto(g) /\ UNCHANGED <<tree, slots, slot, state, nested>>
  BY DEF SkipNone, AtChild
<1>3. /\ stack # <<>> /\ f \in ResolveFrame /\ f \in Frames /\ IsResolve(f) /\ ResolveOK(sh, f) /\ n \in Ordinary
      /\ i \in DOMAIN Kids[n] /\ Kids[n][i] = None /\ i \in Nat
  BY <1>2, ResolveTop
<1>4. /\ i + 1 \in Nat /\ i + 1 \in 1..Len(Kids[n]) + 1 /\ (i + 1) - 1 = i
      /\ Len(Upto(sh, n)[i]) = Len(Upto(sh, n)[i - 1]) + Len(Part(sh, Kids[n][i]))
      /\ Len(Upto(sh, n)[i - 1]) \in Nat
  BY <1>1, <1>3, NextIs, ZenonT(60)
<1>5. None \notin Ordinary /\ None \notin Slot /\ None \notin slots
  BY <1>1, TreeAssumption DEF Typed
<1>6. f.ran = FALSE
  BY <1>3, <1>5 DEF ResolveOK, ResolveFrame
<1>7. /\ g \in Frames /\ IsResolve(g) /\ g.node = n /\ g.i = i + 1 /\ g.ran = FALSE /\ g.owner = f.owner
      /\ g.at = f.at /\ g.static = f.static /\ g.real = f.real
  BY <1>3, <1>4, <1>6 DEF Frames, ResolveFrame, IsResolve
<1>8. GoesOn(f, g)
  BY <1>3, <1>7 DEF GoesOn, Alike, IsResolve, FoundRun, IsRun
<1>9. After(st, q, m, m) /\ q \in Seq(Frames) /\ q[m] = g
  BY <1>1, <1>2, <1>3, <1>7, <1>8, GotoAfter
<1>10. m \in Nat /\ m # m - 1 /\ m # m + 1 /\ st[m] = f
  BY <1>3, LowerOK
<1>11. ShownOK(sh)' /\ TreeOK(sh)' /\ GroupsOK'
  BY <1>2, Unmoved
<1>12. FramesOK(sh)'
  <2>1. \A d \in 1..m : FrameOK(sh, st[d])'
    BY <1>2, <1>3, LowerOK, Unmoved
  <2>2. Part(sh, None) = <<>>
    BY <1>5 DEF Part
  <2>3. Len(Upto(sh, n)[i]) = f.real
    <3>1. Len(Part(sh, Kids[n][i])) = 0
      BY <1>3, <2>2
    <3>2. Len(Upto(sh, n)[i]) = Len(Upto(sh, n)[i - 1])
      BY <1>4, <3>1
    <3>3. QED
      BY <1>3, <3>2 DEF ResolveOK
  <2>4. Among(n, Ordinary)[i] = f.static
    BY <1>3, <1>5, AmongNext DEF ResolveOK
  <2>5. Among(n, Slot)[i] = Len(group[n])
    BY <1>3, <1>5, <1>6, AmongNext DEF ResolveOK
  <2>6. \A j \in DOMAIN Kids[n] : j > i => j > i - 1
    BY <1>3, Shape
  <2>7. ResolveOK(sh, g)
    BY <1>3, <1>4, <1>6, <1>7, <2>3, <2>4, <2>5, <2>6 DEF ResolveOK
  <2>8. FrameOK(sh, g)
    BY <1>7, <2>7 DEF FrameOK, IsResolve, IsRun, IsDestroy
  <2>9. FrameOK(sh, g)'
    BY <1>2, <2>8, Unmoved
  <2>10. QED
    BY <1>9, <1>10, <2>1, <2>9, FramesAfter
<1>13. CallsOK(sh)'
  <2>1. nested' = nested
    BY <1>2
  <2>2. FirstOK(sh, st[1])' /\ \A d \in 1..m : d > 1 => CallOK(sh, st[d - 1], st[d])'
    BY <1>2, <1>3, <2>1, LowerOK, Unmoved
  <2>3. QED
    BY <1>9, <1>10, <2>2, CallsAfter
<1>14. SettledOK(sh)'
  <2>1. slots' = slots /\ count' = count /\ previous' = previous
    BY <1>2 DEF state
  <2>2. ~FoundRun(q[m])
    BY <1>7, <1>9 DEF FoundRun, IsRun, IsResolve
  <2>3. slots' \subseteq Slot
    BY <1>1, <2>1 DEF Typed
  <2>4. QED
    BY <1>1, <1>9, <1>10, <2>1, <2>2, <2>3, SettledAfter
<1>15. Nested(stack)'
  BY <1>1, <1>9, <1>10, NestedAfter
<1>16. OwnersOK(sh)'
  <2>1. NoTaker(f) /\ NoTaker(g)
    BY <1>3, <1>6, <1>7 DEF NoTaker, IsResolve, IsDestroy
  <2>2. \A o, t : Claimed(o, t)' <=> Claimed(o, t)
    BY <1>9, <1>10, <2>1, ClaimedAfter
  <2>3. UNCHANGED <<slots, parent, nested>>
    BY <1>2 DEF slot
  <2>4. QED
    BY <1>1, <2>2, <2>3, OwnersAfter
<1>17. Typed'
  BY <1>1, <1>2, <1>9 DEF Typed, tree, slot, state
<1>18. QED
  BY <1>11, <1>12, <1>13, <1>14, <1>15, <1>16, <1>17 DEF Good

LEMMA ResolvedGood ==
    ASSUME NEW sh, Good(sh), Resolved
    PROVE  Good(sh)'
<1>1. /\ Typed /\ ShownOK(sh) /\ SettledOK(sh) /\ TreeOK(sh) /\ GroupsOK /\ OwnersOK(sh)
      /\ FramesOK(sh) /\ CallsOK(sh) /\ Nested(stack) /\ sh \in Shows
  BY GoodIs
<1> PICK f, st, q, m, k : f = Top /\ st = stack /\ q = stack' /\ m = Len(stack) /\ k = m - 1
  OBVIOUS
<1>2. Resolving /\ f.i > Len(Kids[f.node]) /\ stack' = Under /\ UNCHANGED <<tree, slots, slot, state, nested>>
  BY DEF Resolved
<1>3. /\ stack # <<>> /\ f \in Frames /\ IsResolve(f) /\ ResolveOK(sh, f) /\ f.i \in Nat /\ Len(Kids[f.node]) \in Nat
      /\ f.ran \in BOOLEAN
  BY <1>2, ResolveTop
<1>4. ~f.ran
  BY <1>2, <1>3 DEF ResolveOK
<1>5. After(st, q, m, k) /\ q \in Seq(Frames)
  BY <1>1, <1>2, <1>3, PopAfter
<1>6. m \in Nat /\ k # m /\ k # m + 1 /\ st[m] = f
  BY <1>3, LowerOK
<1>7. ShownOK(sh)' /\ TreeOK(sh)' /\ GroupsOK'
  BY <1>2, Unmoved
<1>8. FramesOK(sh)'
  <2>1. \A d \in 1..m : FrameOK(sh, st[d])'
    BY <1>2, <1>3, LowerOK, Unmoved
  <2>2. \A d \in 1..(m - 1) : d \in 1..m
    BY <1>6
  <2>3. QED
    BY <1>5, <1>6, <2>1, <2>2, FramesAfter
<1>9. CallsOK(sh)'
  <2>1. nested' = nested
    BY <1>2
  <2>2. FirstOK(sh, st[1])' /\ \A d \in 1..m : d > 1 => CallOK(sh, st[d - 1], st[d])'
    BY <1>2, <1>3, <2>1, LowerOK, Unmoved
  <2>3. QED
    BY <1>5, <1>6, <2>2, CallsAfter
<1>10. SettledOK(sh)'
  <2>1. slots' = slots /\ count' = count /\ previous' = previous
    BY <1>2 DEF state
  <2>2. ~FoundRun(f)
    BY <1>3, FrameIs
  <2>3. slots' \subseteq Slot
    BY <1>1, <2>1 DEF Typed
  <2>4. QED
    BY <1>1, <1>5, <1>6, <2>1, <2>2, <2>3, SettledAfter
<1>11. Nested(stack)'
  BY <1>1, <1>5, <1>6, NestedAfter
<1>12. OwnersOK(sh)'
  <2>1. NoTaker(f)
    BY <1>3, <1>4 DEF NoTaker, IsResolve, IsDestroy
  <2>2. \A o, t : Claimed(o, t)' <=> Claimed(o, t)
    BY <1>5, <1>6, <2>1, ClaimedAfter
  <2>3. UNCHANGED <<slots, parent, nested>>
    BY <1>2 DEF slot
  <2>4. QED
    BY <1>1, <2>2, <2>3, OwnersAfter
<1>13. Typed'
  BY <1>1, <1>2, <1>5 DEF Typed, tree, slot, state
<1>14. QED
  BY <1>7, <1>8, <1>9, <1>10, <1>11, <1>12, <1>13 DEF Good

\* A stack of one call.
LEMMA OneIs ==
    ASSUME NEW h \in Frames
    PROVE  /\ <<h>> \in Seq(Frames) /\ DOMAIN <<h>> = {1} /\ <<h>>[1] = h /\ Len(<<h>>) = 1
           /\ Nested(<<h>>) <=> (IsResolve(h) => h.owner = Host)
<1>1. <<h>> \in Seq(Frames) /\ DOMAIN <<h>> = {1} /\ <<h>>[1] = h /\ Len(<<h>>) = 1
  OBVIOUS
<1>2. Nested(<<h>>) <=> (IsResolve(h) => h.owner = Host)
  BY <1>1 DEF Nested
<1>3. QED
  BY <1>1, <1>2

LEMMA EmptyIs ==
    ASSUME Typed, stack = <<>>
    PROVE  DOMAIN stack = {} /\ \A o, t : ~Claimed(o, t)
<1>1. DOMAIN stack = {}
  BY EmptySeq
<1>2. QED
  BY <1>1 DEF Claimed

LEMMA FlushGood ==
    ASSUME NEW sh, Good(sh), Flush
    PROVE  Good(sh)'
<1>1. /\ Typed /\ ShownOK(sh) /\ SettledOK(sh) /\ TreeOK(sh) /\ GroupsOK /\ OwnersOK(sh)
      /\ FramesOK(sh) /\ CallsOK(sh) /\ Nested(stack) /\ sh \in Shows
  BY GoodIs
<1>2. stack = <<>> /\ UNCHANGED <<tree, slots, slot, state, nested>>
  BY DEF Flush
<1>3. PICK s \in slots : stack' = <<Run(s)>>
  BY DEF Flush
<1> PICK h, q : h = Run(s) /\ q = stack'
  OBVIOUS
<1>4. s \in Slot
  BY <1>1 DEF Typed
<1>5. h \in Frames /\ IsRun(h) /\ h.slot = s /\ ~h.found /\ h.i = 1
  <2>1. <<>> \in Seq(Ordinary)
    BY EmptySeq
  <2>2. QED
    BY <1>4, <2>1 DEF Run, Frames, RunFrame, IsRun
<1>6. ~IsResolve(h) /\ ~IsDestroy(h) /\ ~FoundRun(h) /\ Clears(h)
  BY <1>5 DEF IsResolve, IsRun, IsDestroy, FoundRun, Clears
<1>7. q \in Seq(Frames) /\ DOMAIN q = {1} /\ q[1] = h /\ q # <<>> /\ Nested(q)
  <2>1. q = <<h>>
    BY <1>3
  <2>2. QED
    BY <1>5, <1>6, <2>1, OneIs
<1>8. ShownOK(sh)' /\ TreeOK(sh)' /\ GroupsOK'
  BY <1>2, Unmoved
<1>9. FramesOK(sh)'
  <2>1. FrameOK(sh, h)
    BY <1>5, <1>6 DEF FrameOK, RunOK
  <2>2. FrameOK(sh, h)'
    BY <1>2, <2>1, Unmoved
  <2>3. \A d \in DOMAIN q : FrameOK(sh, q[d])'
    BY <1>7, <2>2
  <2>4. QED
    BY <2>3 DEF FramesOK
<1>10. CallsOK(sh)'
  <2>1. FirstOK(sh, q[1])'
    BY <1>6, <1>7 DEF FirstOK
  <2>2. \A d \in DOMAIN q : ~(d > 1)
    BY <1>7
  <2>3. QED
    BY <2>1, <2>2 DEF CallsOK
<1>11. SettledOK(sh)'
  <2>1. slots' = slots /\ count' = count /\ previous' = previous
    BY <1>2 DEF state
  <2>2. \A t \in slots : sh[t] = previous[t] /\ count[t] = Len(previous[t])
    BY <1>1, <1>2, EmptyIs DEF SettledOK
  <2>3. \A d \in DOMAIN q : ~FoundRun(q[d]) /\ q[d].slot \in slots
    BY <1>5, <1>6, <1>7
  <2>4. QED
    BY <2>1, <2>2, <2>3 DEF SettledOK
<1>12. OwnersOK(sh)'
  <2>1. \A o, t : ~Claimed(o, t)
    BY <1>1, <1>2, EmptyIs
  <2>2. \A o, t : ~Claimed(o, t)'
    BY <1>6, <1>7 DEF Claimed, Taken
  <2>3. UNCHANGED <<slots, parent, nested>>
    BY <1>2 DEF slot
  <2>4. QED
    BY <1>1, <2>1, <2>2, <2>3, OwnersAfter
<1>13. Typed'
  BY <1>1, <1>2, <1>7 DEF Typed, tree, slot, state
<1>14. QED
  BY <1>7, <1>8, <1>9, <1>10, <1>11, <1>12, <1>13 DEF Good

\* Dropping t from the list of o: what the lists are after, and that t is in none.
Dropped(o, t) == nested' = [nested EXCEPT ![o] = nested'[o]] /\ \E i : Without(nested'[o], nested[o], i) /\ t = nested[o][i]

LEMMA DroppedIs ==
    ASSUME NEW sh, Good(sh), NEW o \in Owners, NEW t, Dropped(o, t), UNCHANGED <<slots, parent>>
    PROVE  /\ nested' \in [Owners -> Seq(Slot)]
           /\ t \in Slot /\ t \in slots /\ parent[t] \in Area(sh, o) /\ t \in Range(nested[o])
           /\ \A p \in Owners : /\ IsInjective(nested'[p]) /\ Range(nested'[p]) \subseteq Range(nested[p])
                                /\ t \notin Range(nested'[p])
                                /\ \A x \in Range(nested[p]) : x # t => x \in Range(nested'[p])
           /\ \A p \in Owners : p # o => nested'[p] = nested[p]
           /\ \A s \in Slot \ slots : nested'[s] = <<>>
<1>1. Typed /\ ShownOK(sh) /\ OwnersOK(sh)
  BY GoodIs
<1>2. Distinctly(nested[o])
  BY <1>1 DEF OwnersOK, Typed, Distinctly
<1>3. PICK i : Without(nested'[o], nested[o], i) /\ t = nested[o][i]
  BY DEF Dropped
<1>4. /\ Distinctly(nested'[o]) /\ Range(nested'[o]) = Range(nested[o]) \ {t}
      /\ t \in Range(nested[o]) /\ t \in Slot
  BY <1>2, <1>3, WithoutIs
<1>5. \A p \in Owners : p # o => nested'[p] = nested[p]
  BY <1>1 DEF Dropped, Typed
<1>6. nested' \in [Owners -> Seq(Slot)]
  BY <1>1, <1>4 DEF Dropped, Typed, Distinctly
<1>7. t \in slots /\ parent[t] \in Area(sh, o)
  BY <1>1, <1>4 DEF OwnersOK
<1>8. ASSUME NEW p \in Owners, p # o PROVE t \notin Range(nested[p])
  <2>1. t \in Range(nested[p]) => parent[t] \in Area(sh, p)
    BY <1>1 DEF OwnersOK
  <2>2. QED
    BY <1>1, <1>7, <1>8, <2>1, AreasApart
<1>9. ASSUME NEW p \in Owners
      PROVE  /\ IsInjective(nested'[p]) /\ Range(nested'[p]) \subseteq Range(nested[p])
             /\ t \notin Range(nested'[p])
             /\ \A x \in Range(nested[p]) : x # t => x \in Range(nested'[p])
  <2>1. CASE p = o
    BY <1>4, <2>1 DEF Distinctly
  <2>2. CASE p # o
    BY <1>1, <1>5, <1>8, <2>2 DEF OwnersOK
  <2>3. QED
    BY <2>1, <2>2
<1>10. \A s \in Slot \ slots : nested'[s] = <<>>
  <2>1. o \notin Slot \ slots
    <3>1. o # Host => o \in slots
      BY <1>1, <1>7, AreaFacts
    <3>2. QED
      BY <3>1, TreeAssumption
  <2>2. \A s \in Slot \ slots : s # o /\ s \in Owners /\ nested[s] = <<>>
    BY <1>1, <2>1 DEF OwnersOK, Owners
  <2>3. QED
    BY <1>5, <2>2
<1>11. QED
  BY <1>4, <1>5, <1>6, <1>7, <1>9, <1>10

\* The lists are right when the call for t takes it.
LEMMA DroppedOwners ==
    ASSUME NEW sh, Good(sh), NEW o \in Owners, NEW t, Dropped(o, t), UNCHANGED <<slots, parent>>,
           Claimed(o, t)',
           \A p, x : Claimed(p, x)' => Claimed(p, x) \/ x = t,
           \A p, x : Claimed(p, x) => Claimed(p, x)'
    PROVE  OwnersOK(sh)'
<1>1. Typed /\ ShownOK(sh) /\ OwnersOK(sh)
  BY GoodIs
<1>2. /\ t \in Slot /\ t \in slots /\ parent[t] \in Area(sh, o)
      /\ \A p \in Owners : /\ IsInjective(nested'[p]) /\ Range(nested'[p]) \subseteq Range(nested[p])
                           /\ t \notin Range(nested'[p])
                           /\ \A x \in Range(nested[p]) : x # t => x \in Range(nested'[p])
      /\ \A s \in Slot \ slots : nested'[s] = <<>>
  BY DroppedIs
<1>3. slots' = slots /\ parent' = parent
  OBVIOUS
<1>4. \A p \in Owners : /\ IsInjective(nested'[p])
                        /\ \A x \in Range(nested'[p]) : x \in slots' /\ parent'[x] \in Area(sh, p)
  BY <1>1, <1>2, <1>3 DEF OwnersOK
<1>5. ASSUME NEW x \in slots'
      PROVE  \E p \in Owners : /\ parent'[x] \in Area(sh, p)
                               /\ x \in Range(nested'[p]) \/ Claimed(p, x)'
  <2>1. CASE x = t
    BY <1>2, <1>3, <2>1
  <2>2. CASE x # t
    <3>1. PICK p \in Owners : parent[x] \in Area(sh, p) /\ (x \in Range(nested[p]) \/ Claimed(p, x))
      BY <1>1, <1>3 DEF OwnersOK, Claimed
    <3>2. x \in Range(nested'[p]) \/ Claimed(p, x)'
      BY <1>2, <2>2, <3>1
    <3>3. QED
      BY <1>3, <3>1, <3>2
  <2>3. QED
    BY <2>1, <2>2
<1>6. ASSUME NEW p \in Owners, NEW r \in Owners, NEW x \in Slot, Claimed(p, x)'
      PROVE  x \notin Range(nested'[r])
  <2>1. CASE x = t
    BY <1>2, <2>1
  <2>2. CASE x # t
    <3>1. Claimed(p, x)
      BY <1>6, <2>2
    <3>2. x \notin Range(nested[r])
      BY <1>1, <3>1 DEF OwnersOK, Claimed
    <3>3. QED
      BY <1>2, <3>2
  <2>3. QED
    BY <2>1, <2>2
<1>7. \A p, x : \A d \in DOMAIN stack' : Taken(p, x, d)' => Claimed(p, x)'
  BY DEF Claimed
<1>8. ASSUME NEW x \in slots' PROVE \E p \in Owners :
          /\ parent'[x] \in Area(sh, p)
          /\ x \in Range(nested'[p]) \/ \E d \in DOMAIN stack' : Taken(p, x, d)'
  BY <1>5 DEF Claimed
<1>9. \A d \in DOMAIN stack', p \in Owners, r \in Owners, x \in Slot : Taken(p, x, d)' => x \notin Range(nested'[r])
  BY <1>6, <1>7
<1>10. \A s \in Slot \ slots' : nested'[s] = <<>>
  BY <1>2, <1>3
<1>11. QED
  BY <1>4, <1>8, <1>9, <1>10 DEF OwnersOK

LEMMA HostDropsGood ==
    ASSUME NEW sh, Good(sh), HostDrops
    PROVE  Good(sh)'
<1>1. /\ Typed /\ ShownOK(sh) /\ SettledOK(sh) /\ TreeOK(sh) /\ GroupsOK /\ OwnersOK(sh)
      /\ FramesOK(sh) /\ CallsOK(sh) /\ Nested(stack) /\ sh \in Shows
  BY GoodIs
<1>2. stack = <<>> /\ UNCHANGED <<tree, slots, slot, state>>
  BY DEF HostDrops
<1>3. PICK i \in DOMAIN nested[Host] : /\ stack' = <<Destroy(nested[Host][i])>>
                                       /\ nested' = [nested EXCEPT ![Host] = RemoveAt(nested[Host], i)]
  BY DEF HostDrops
<1> PICK t, h, q : t = nested[Host][i] /\ h = Destroy(t) /\ q = stack'
  OBVIOUS
<1>4. Host \in Owners
  BY DEF Owners
<1>5. nested'[Host] = RemoveAt(nested[Host], i) /\ nested[Host] \in Seq(Slot)
  BY <1>1, <1>3, <1>4 DEF Typed
<1>6. Without(nested'[Host], nested[Host], i)
  BY <1>5, RemovedWithout
<1>7. Dropped(Host, t)
  BY <1>3, <1>5, <1>6 DEF Dropped
<1>8. slots' = slots /\ parent' = parent
  BY <1>2 DEF slot
<1>9. t \in Slot /\ t \in slots /\ parent[t] \in Area(sh, Host) /\ nested' \in [Owners -> Seq(Slot)]
  BY <1>4, <1>7, <1>8, DroppedIs
<1>10. h \in Frames /\ IsDestroy(h) /\ h.slot = t
  BY <1>9 DEF Destroy, Frames, DestroyFrame, IsDestroy
<1>11. ~IsResolve(h) /\ ~IsRun(h) /\ ~FoundRun(h)
  BY <1>10 DEF IsResolve, IsRun, IsDestroy, FoundRun
<1>12. q \in Seq(Frames) /\ DOMAIN q = {1} /\ q[1] = h /\ q # <<>> /\ Nested(q)
  <2>1. q = <<h>>
    BY <1>3
  <2>2. QED
    BY <1>10, <1>11, <2>1, OneIs
<1>13. ShownOK(sh)' /\ TreeOK(sh)' /\ GroupsOK'
  BY <1>2, Unmoved
<1>14. FramesOK(sh)'
  <2>1. FrameOK(sh, h)'
    BY <1>8, <1>9, <1>10, <1>11 DEF FrameOK
  <2>2. \A d \in DOMAIN q : FrameOK(sh, q[d])'
    BY <1>12, <2>1
  <2>3. QED
    BY <2>2 DEF FramesOK
<1>15. CallsOK(sh)'
  <2>1. FirstOK(sh, h)'
    BY <1>8, <1>9, <1>10, <1>11 DEF FirstOK
  <2>2. \A d \in DOMAIN q : ~(d > 1)
    BY <1>12
  <2>3. QED
    BY <1>12, <2>1, <2>2 DEF CallsOK
<1>16. SettledOK(sh)'
  <2>1. slots' = slots /\ count' = count /\ previous' = previous
    BY <1>2 DEF state
  <2>2. \A x \in slots : sh[x] = previous[x] /\ count[x] = Len(previous[x])
    BY <1>1, <1>2, EmptyIs DEF SettledOK
  <2>3. \A d \in DOMAIN q : ~FoundRun(q[d]) /\ q[d].slot \in slots
    BY <1>9, <1>10, <1>11, <1>12
  <2>4. QED
    BY <2>1, <2>2, <2>3 DEF SettledOK
<1>17. OwnersOK(sh)'
  <2>1. \A o, x : ~Claimed(o, x)
    BY <1>1, <1>2, EmptyIs
  <2>2. \A o, x : Claimed(o, x)' <=> (x = t /\ o = Host)
    BY <1>10, <1>11, <1>12 DEF Claimed, Taken
  <2>3. QED
    BY <1>4, <1>7, <1>8, <2>1, <2>2, DroppedOwners
<1>18. Typed'
  BY <1>1, <1>2, <1>9, <1>12 DEF Typed, tree, slot, state
<1>19. QED
  BY <1>12, <1>13, <1>14, <1>15, <1>16, <1>17, <1>18 DEF Good

LEMMA ClearNestedGood ==
    ASSUME NEW sh, Good(sh), ClearNested
    PROVE  Good(sh)'
<1>1. /\ Typed /\ ShownOK(sh) /\ SettledOK(sh) /\ TreeOK(sh) /\ GroupsOK /\ OwnersOK(sh)
      /\ FramesOK(sh) /\ CallsOK(sh) /\ Nested(stack) /\ sh \in Shows
  BY GoodIs
<1> PICK f, s, t, h, st, q, m : /\ f = Top /\ s = f.slot /\ t = Head(nested[s]) /\ h = Destroy(t)
                                /\ st = stack /\ q = stack' /\ m = Len(stack)
  OBVIOUS
<1>2. /\ Clearing /\ stack # <<>> /\ nested[s] # <<>> /\ stack' = Append(stack, h)
      /\ nested' = [nested EXCEPT ![s] = Tail(nested[s])] /\ UNCHANGED <<tree, slots, slot, state>>
  BY DEF ClearNested, Clearing
<1>3. Clears(f)
  BY <1>2 DEF Clearing, Clears, IsDestroy, IsRun
<1>4. s \in slots /\ s \in Slot /\ s \in Owners /\ ~FoundRun(f) /\ ~IsResolve(f) /\ s # Host
  BY <1>2, <1>3, ClearingIs, TreeAssumption DEF Owners
<1>5. nested'[s] = Tail(nested[s]) /\ nested[s] \in Seq(Slot)
  BY <1>1, <1>2, <1>4 DEF Typed
<1>6. Dropped(s, t)
  <2>1. Without(nested'[s], nested[s], 1) /\ t = nested[s][1]
    BY <1>2, <1>5, TailWithout
  <2>2. QED
    BY <1>2, <1>5, <2>1 DEF Dropped
<1>7. slots' = slots /\ parent' = parent
  BY <1>2 DEF slot
<1>8. /\ t \in Slot /\ t \in slots /\ parent[t] \in Area(sh, s) /\ nested' \in [Owners -> Seq(Slot)]
      /\ \A p \in Owners : p # s => nested'[p] = nested[p]
  BY <1>4, <1>6, <1>7, DroppedIs
<1>9. h \in Frames /\ IsDestroy(h) /\ h.slot = t
  BY <1>8 DEF Destroy, Frames, DestroyFrame, IsDestroy
<1>10. ~IsResolve(h) /\ ~IsRun(h) /\ ~FoundRun(h)
  BY <1>9 DEF IsResolve, IsRun, IsDestroy, FoundRun
<1>11. After(st, q, m, m + 1) /\ q \in Seq(Frames) /\ q[m] = f /\ q[m + 1] = h
  BY <1>1, <1>2, <1>9, PushAfter
<1>12. m \in Nat /\ m # 0 /\ m + 1 # m - 1 /\ m # m + 1 /\ st[m] = f
  BY <1>2, LowerOK
<1>13. ShownOK(sh)' /\ TreeOK(sh)' /\ GroupsOK'
  BY <1>2, Unmoved
<1>14. FramesOK(sh)'
  <2>1. \A d \in 1..m : FrameOK(sh, st[d])'
    BY <1>2, LowerOK, Unmoved
  <2>2. m \in 1..m /\ \A d \in 1..(m - 1) : d \in 1..m
    BY <1>12
  <2>3. FrameOK(sh, h)'
    BY <1>7, <1>8, <1>9, <1>10 DEF FrameOK
  <2>4. FrameOK(sh, q[m])' /\ \A d \in 1..(m - 1) : FrameOK(sh, st[d])'
    BY <1>11, <1>12, <2>1, <2>2
  <2>5. QED
    BY <1>11, <2>3, <2>4, FramesAfter
<1>15. \A d \in 1..m : d > 1 => CallOK(sh, st[d - 1], st[d])'
  <2> SUFFICES ASSUME NEW d \in 1..m, d > 1 PROVE CallOK(sh, st[d - 1], st[d])'
    OBVIOUS
  <2>1. CallOK(sh, st[d - 1], st[d]) /\ st[d] \in Frames
    BY <1>2, LowerOK
  <2>2. ASSUME IsRun(st[d]), ~st[d].found PROVE nested'[st[d].slot] = nested[st[d].slot]
    <3>1. ~IsResolve(st[d]) /\ ~IsDestroy(st[d]) /\ st[d].slot \in Slot
      BY <2>1, <2>2, FrameIs
    <3>2. nested[st[d].slot] = <<>>
      BY <2>1, <2>2, <3>1 DEF CallOK
    <3>3. st[d].slot # s /\ st[d].slot \in Owners
      BY <1>2, <3>1, <3>2 DEF Owners
    <3>4. QED
      BY <1>8, <3>3
  <2>3. QED
    BY <1>7, <2>1, <2>2 DEF CallOK
<1>16. CallsOK(sh)'
  <2>1. FirstOK(sh, st[1])'
    BY <1>2, LowerOK, Unmoved
  <2>2. CallOK(sh, f, h)'
    BY <1>3, <1>7, <1>8, <1>9 DEF CallOK
  <2>3. QED
    BY <1>11, <1>12, <1>15, <2>1, <2>2, CallsAfter
<1>17. Height[t] < Height[s] /\ Height[t] \in Nat /\ Height[s] \in Nat
  <2>1. parent[t] \in Ordinary /\ t \in Range(Kids[parent[t]])
    BY <1>1, <1>8 DEF TreeOK, Typed
  <2>2. Height[t] < Height[parent[t]]
    BY <1>8, <2>1, Shape
  <2>3. Height[parent[t]] < Height[s]
    BY <1>1, <1>4, <1>8, AreaFacts
  <2>4. Height[t] \in Nat /\ Height[s] \in Nat /\ Height[parent[t]] \in Nat
    BY <1>4, <1>8, <2>1, Shape
  <2>5. QED
    BY <2>2, <2>3, <2>4
<1>18. Rank(f) = Height[s] /\ Rank(h) = Height[t]
  BY <1>4, <1>9, <1>10 DEF Rank
<1>19. SettledOK(sh)'
  <2>1. slots' = slots /\ count' = count /\ previous' = previous
    BY <1>2 DEF state
  <2>2. slots' \subseteq Slot
    BY <1>1, <2>1 DEF Typed
  <2>3. \A d \in DOMAIN stack : FoundRun(stack[d]) => stack[d].slot # t
    <3> SUFFICES ASSUME NEW d \in DOMAIN stack, FoundRun(stack[d]) PROVE stack[d].slot # t
      OBVIOUS
    <3>1. ~IsResolve(stack[d])
      BY DEF FoundRun, IsRun, IsResolve
    <3>2. QED
      BY <1>1, <1>2, <1>8, <1>17, <1>18, <3>1, NoCallFor
  <2>4. sh[t] = previous[t]
    BY <1>1, <1>8, <2>3, Settled
  <2>5. ~FoundRun(q[m])
    BY <1>4, <1>11
  <2>6. QED
    BY <1>1, <1>9, <1>10, <1>11, <1>12, <2>1, <2>2, <2>4, <2>5, SettledAfter
<1>20. Nested(stack)'
  <2>1. ASSUME m > 1 PROVE IsDestroy(f)
    <3>1. CallOK(sh, st[m - 1], st[m]) /\ st[m] \in Frames
      BY <1>2, <1>12, <2>1, LowerOK
    <3>2. CASE IsRun(f)
      <4>1. ~f.found /\ ~IsDestroy(f) /\ ~IsResolve(f)
        BY <1>12, <3>1, <3>2, <1>4, FrameIs DEF FoundRun
      <4>2. nested[f.slot] = <<>>
        BY <1>12, <3>1, <4>1 DEF CallOK
      <4>3. QED
        BY <1>2, <4>2
    <3>3. QED
      BY <1>3, <3>2 DEF Clears
  <2>2. Fits(q, m, h)
    BY <1>10, <1>11, <1>17, <1>18, <2>1 DEF Fits
  <2>3. QED
    BY <1>1, <1>11, <1>12, <2>2, NestedAfter
<1>21. OwnersOK(sh)'
  <2>1. /\ DOMAIN st = 1..m /\ DOMAIN q = 1..(m + 1) /\ \A d \in 1..m : d \in 1..(m + 1)
        /\ \A d \in 1..(m + 1) : d \in 1..m \/ d = m + 1
    BY <1>11, <1>12, AfterIs
  <2>2. \A d \in 1..m : q[d] = st[d]
    <3>1. \A d \in 1..m : d = m \/ d \in 1..(m - 1)
      BY <1>12
    <3>2. \A d \in 1..(m - 1) : q[d] = st[d]
      BY <1>11, AfterIs, SMTT(40)
    <3>3. QED
      BY <1>11, <1>12, <3>1, <3>2
  <2>3. \A p, x : \A d \in 1..m : Taken(p, x, d)' <=> Taken(p, x, d)
    BY <1>12, <2>2, TakenAfter
  <2>4. \A p, x : Taken(p, x, m + 1)' <=> (x = t /\ p = s)
    <3>1. m + 1 # 1 /\ (m + 1) - 1 = m
      BY <1>12
    <3>2. QED
      BY <1>9, <1>10, <1>11, <3>1 DEF Taken
  <2>5. m + 1 \in 1..(m + 1)
    BY <1>12
  <2>6. Claimed(s, t)'
    BY <2>1, <2>4, <2>5 DEF Claimed
  <2>7. \A p, x : Claimed(p, x) => Claimed(p, x)'
    BY <2>1, <2>3 DEF Claimed
  <2>8. \A p, x : Claimed(p, x)' => Claimed(p, x) \/ x = t
    BY <2>1, <2>3, <2>4 DEF Claimed
  <2>9. QED
    BY <1>4, <1>6, <1>7, <2>6, <2>7, <2>8, DroppedOwners
<1>22. Typed'
  BY <1>1, <1>2, <1>8, <1>11 DEF Typed, tree, slot, state
<1>23. QED
  BY <1>13, <1>14, <1>16, <1>19, <1>20, <1>21, <1>22 DEF Good

LEMMA SettledBelow ==
    ASSUME NEW sh, Good(sh), stack # <<>>, NEW c \in slots, Height[c] < Rank(Top)
    PROVE  sh[c] = previous[c] /\ count[c] = Len(sh[c])
<1>1. Typed /\ SettledOK(sh) /\ Nested(stack)
  BY GoodIs
<1>2. c \in Slot
  BY <1>1 DEF Typed
<1>3. \A d \in DOMAIN stack : FoundRun(stack[d]) => stack[d].slot # c
  <2> SUFFICES ASSUME NEW d \in DOMAIN stack, FoundRun(stack[d]) PROVE stack[d].slot # c
    OBVIOUS
  <2>1. ~IsResolve(stack[d])
    BY DEF FoundRun, IsRun, IsResolve
  <2>2. QED
    BY <1>1, <1>2, <2>1, NoCallFor
<1>4. QED
  BY <1>1, <1>3, Settled

LEMMA LeaveSlotGood ==
    ASSUME NEW sh, Good(sh), LeaveSlot
    PROVE  Good(sh)'
<1>1. /\ Typed /\ ShownOK(sh) /\ SettledOK(sh) /\ TreeOK(sh) /\ GroupsOK /\ OwnersOK(sh)
      /\ FramesOK(sh) /\ CallsOK(sh) /\ Nested(stack) /\ sh \in Shows
  BY GoodIs
<1> PICK f, n, i, c, o, g, st, q, m :
        /\ f = Top /\ n = f.node /\ i = f.i /\ c = Child /\ o = f.owner
        /\ g = [f EXCEPT !.i = i + 1, !.ran = FALSE, !.real = f.real + count[c]]
        /\ st = stack /\ q = stack' /\ m = Len(stack)
  OBVIOUS
<1>2. /\ AtChild /\ Resolving /\ c \in Slot /\ f.ran /\ Goto(g)
      /\ nested' = [nested EXCEPT ![o] = Append(nested[o], c)] /\ UNCHANGED <<tree, slots, slot, state>>
  BY DEF LeaveSlot, AtChild
<1>3. /\ stack # <<>> /\ f \in ResolveFrame /\ f \in Frames /\ IsResolve(f) /\ ResolveOK(sh, f) /\ n \in Ordinary
      /\ i \in DOMAIN Kids[n] /\ Kids[n][i] = c /\ i \in Nat /\ o \in Owners /\ n \in Area(sh, o)
      /\ f.real \in Nat /\ Rank(f) = Height[n]
  BY <1>2, ResolveTop
<1>4. /\ i + 1 \in Nat /\ i + 1 \in 1..Len(Kids[n]) + 1 /\ (i + 1) - 1 = i
      /\ Len(Upto(sh, n)[i]) = Len(Upto(sh, n)[i - 1]) + Len(Part(sh, Kids[n][i]))
      /\ Len(Upto(sh, n)[i - 1]) \in Nat
  BY <1>1, <1>3, NextIs, ZenonT(60)
<1>5. c \notin Ordinary /\ c \in slots /\ c \in Range(Kids[n])
  <2>1. c \in Range(Kids[n])
    BY <1>3 DEF Range
  <2>2. QED
    BY <1>2, <1>3, <2>1, TreeAssumption DEF ResolveOK
<1>6. count[c] \in Nat /\ count[c] = Len(sh[c])
  <2>1. Height[c] < Height[n]
    BY <1>2, <1>3, <1>5, Shape
  <2>2. QED
    BY <1>1, <1>2, <1>3, <1>5, <2>1, SettledBelow DEF Typed
<1>7. /\ g \in Frames /\ IsResolve(g) /\ g.node = n /\ g.i = i + 1 /\ g.ran = FALSE /\ g.owner = o
      /\ g.at = f.at /\ g.static = f.static /\ g.real = f.real + count[c]
  <2>1. PICK a : a = f.real + count[c]
    OBVIOUS
  <2>2. a \in Nat /\ g = [f EXCEPT !.i = i + 1, !.ran = FALSE, !.real = a]
    BY <1>3, <1>6, <2>1
  <2>3. /\ g \in ResolveFrame /\ g.op = f.op /\ g.node = f.node /\ g.i = i + 1 /\ g.ran = FALSE
        /\ g.owner = f.owner /\ g.at = f.at /\ g.static = f.static /\ g.real = a
    BY ONLY <1>3, <1>4, <2>2 DEF ResolveFrame
  <2>4. QED
    BY <1>3, <2>1, <2>3 DEF Frames, IsResolve
<1>8. GoesOn(f, g)
  BY <1>3, <1>7 DEF GoesOn, Alike, IsResolve, FoundRun, IsRun
<1>9. After(st, q, m, m) /\ q \in Seq(Frames) /\ q[m] = g
  BY <1>1, <1>2, <1>3, <1>7, <1>8, GotoAfter
<1>10. m \in Nat /\ m # m - 1 /\ m # m + 1 /\ st[m] = f
  BY <1>3, LowerOK
<1>11. ShownOK(sh)' /\ TreeOK(sh)' /\ GroupsOK'
  BY <1>2, Unmoved
<1>12. FramesOK(sh)'
  <2>1. \A d \in 1..m : FrameOK(sh, st[d])'
    BY <1>2, <1>3, LowerOK, Unmoved
  <2>2. Len(Upto(sh, n)[i]) = g.real
    <3>1. Part(sh, Kids[n][i]) = sh[c]
      BY <1>2, <1>3, <1>5 DEF Part
    <3>2. QED
      BY <1>3, <1>4, <1>6, <1>7, <3>1 DEF ResolveOK
  <2>3. Among(n, Ordinary)[i] = f.static
    BY <1>3, <1>5, AmongNext DEF ResolveOK
  <2>4. ResolveOK(sh, g)
    BY <1>2, <1>3, <1>4, <1>7, <2>2, <2>3 DEF ResolveOK
  <2>5. FrameOK(sh, g)
    BY <1>7, <2>4 DEF FrameOK, IsResolve, IsRun, IsDestroy
  <2>6. FrameOK(sh, g)'
    BY <1>2, <2>5, Unmoved
  <2>7. QED
    BY <1>9, <1>10, <2>1, <2>6, FramesAfter
<1>13. \A p \in Owners : p # o => nested'[p] = nested[p]
  BY <1>1, <1>2 DEF Typed
<1>14. CallsOK(sh)'
  <2>1. ASSUME NEW d \in 1..m, d > 1 PROVE CallOK(sh, st[d - 1], st[d])'
    <3>1. CallOK(sh, st[d - 1], st[d]) /\ st[d] \in Frames /\ d \in DOMAIN stack
      BY <1>3, <2>1, LowerOK
    <3>2. CASE IsRun(st[d]) /\ ~st[d].found
      <4>1. st[d].slot \in Slot /\ ~FoundRun(st[d]) /\ ~IsResolve(st[d])
        BY <3>1, <3>2, FrameIs DEF FoundRun
      <4>2. ASSUME st[d].slot = o PROVE FALSE
        <5>1. o # Host /\ IsResolve(stack[m]) /\ m \in DOMAIN stack
          BY <1>3, <1>10, <4>1, <4>2, LowerOK, TreeAssumption
        <5>2. PICK e \in DOMAIN stack : FoundRun(stack[e]) /\ stack[e].slot = o
          BY <1>1, <1>3, <1>10, <5>1, OwnerCalls
        <5>3. e # d /\ ~IsResolve(stack[e])
          BY <4>1, <5>2 DEF FoundRun, IsRun, IsResolve
        <5>4. Rank(stack[e]) = Rank(stack[d])
          BY <4>1, <4>2, <5>2, <5>3 DEF Rank
        <5>5. e \in Nat /\ d \in Nat /\ Rank(stack[d]) \in Nat
          <6>1. DOMAIN stack = 1..m
            BY <1>3, LowerOK DEF IsStack
          <6>2. QED
            BY <3>1, <6>1, FrameIs
        <5>6. e < d \/ d < e
          BY <5>3, <5>5
        <5>7. QED
          BY <1>1, <3>1, <5>4, <5>5, <5>6 DEF Nested
      <4>3. nested'[st[d].slot] = nested[st[d].slot]
        BY <1>13, <4>1, <4>2 DEF Owners
      <4>4. QED
        BY <1>2, <3>1, <4>3, Unmoved
    <3>3. CASE ~(IsRun(st[d]) /\ ~st[d].found)
      <4>1. parent' = parent
        BY <1>2 DEF slot
      <4>2. QED
        BY <3>1, <3>3, <4>1 DEF CallOK
    <3>4. QED
      BY <3>2, <3>3
  <2>2. FirstOK(sh, st[1])'
    BY <1>2, <1>3, LowerOK, Unmoved
  <2>3. QED
    BY <1>9, <1>10, <2>1, <2>2, CallsAfter
<1>15. slots' = slots /\ count' = count /\ previous' = previous /\ parent' = parent
  BY <1>2 DEF state, slot
<1>16. SettledOK(sh)'
  <2>1. ~FoundRun(q[m])
    BY <1>7, <1>9 DEF FoundRun, IsRun, IsResolve
  <2>2. slots' \subseteq Slot
    BY <1>1, <1>15 DEF Typed
  <2>3. QED
    BY <1>1, <1>9, <1>10, <1>15, <2>1, <2>2, SettledAfter
<1>17. Nested(stack)'
  BY <1>1, <1>9, <1>10, NestedAfter
<1>18. Taken(o, c, m) /\ m \in DOMAIN stack
  <2>1. m \in DOMAIN stack
    BY <1>3, LowerOK
  <2>2. QED
    BY <1>2, <1>3, <1>10, <2>1 DEF Taken
<1>19. \A p \in Owners : c \notin Range(nested[p])
  BY <1>1, <1>2, <1>3, <1>18 DEF OwnersOK
<1>20. Distinctly(nested'[o]) /\ Range(nested'[o]) = Range(nested[o]) \union {c}
  <2>1. Distinctly(nested[o])
    BY <1>1, <1>3 DEF OwnersOK, Typed, Distinctly
  <2>2. nested'[o] = Append(nested[o], c)
    BY <1>1, <1>2, <1>3 DEF Typed
  <2>3. c \notin Range(nested[o])
    BY <1>3, <1>19
  <2>4. QED
    BY <1>2, <2>1, <2>2, <2>3, AppendedIs
<1>21. parent[c] = n
  <2>1. parent[c] \in Ordinary /\ c \in Range(Kids[parent[c]])
    BY <1>1, <1>5 DEF TreeOK, Typed
  <2>2. QED
    BY <1>2, <1>3, <1>5, <2>1, OneParentOf
<1>22. /\ \A d \in DOMAIN st : d = m \/ d \in 1..(m - 1)
       /\ \A d \in DOMAIN q : d = m \/ d \in 1..(m - 1)
       /\ \A d \in 1..(m - 1) : d \in DOMAIN q /\ d \in DOMAIN st /\ q[d] = st[d]
       /\ m - 1 \in Nat
  BY <1>9, <1>10, AfterIs
<1>23. \A p, t : \A d \in 1..(m - 1) : Taken(p, t, d)' <=> Taken(p, t, d)
  BY <1>22, TakenAfter
<1>24. \A p, t : ~Taken(p, t, m)'
  BY <1>7, <1>9 DEF Taken, IsResolve, IsDestroy
<1>25. ASSUME NEW d \in 1..(m - 1), NEW p, Taken(p, c, d) PROVE FALSE
  <2>1. d \in DOMAIN stack /\ d # m
    BY <1>10, <1>22
  <2>2. Rank(Top) < Rank(stack[d]) /\ stack[d] \in Frames /\ Rank(stack[d]) \in Nat /\ Rank(Top) \in Nat
    BY <1>1, <1>3, <2>1, TopLowest
  <2>3. CASE IsDestroy(stack[d]) /\ stack[d].slot = c
    <3>1. ~IsResolve(stack[d])
      BY <2>2, <2>3, FrameIs
    <3>2. Height[c] < Height[n]
      BY <1>2, <1>3, <1>5, Shape
    <3>3. QED
      BY <1>1, <1>2, <1>3, <2>1, <2>3, <3>1, <3>2, NoCallFor
  <2>4. CASE IsResolve(stack[d]) /\ stack[d].ran /\ Kids[stack[d].node][stack[d].i] = c
    <3>1. ResolveOK(sh, stack[d]) /\ stack[d].node \in Ordinary /\ stack[d].i \in Nat
      BY <1>1, <2>1, <2>2, <2>4, FrameIs DEF FramesOK, FrameOK
    <3>2. stack[d].i \in DOMAIN Kids[stack[d].node]
      <4>1. stack[d].i \in 1..Len(Kids[stack[d].node]) + 1 /\ stack[d].i <= Len(Kids[stack[d].node])
        BY <2>4, <3>1 DEF ResolveOK
      <4>2. QED
        BY <3>1, <4>1, Shape
    <3>3. c \in Range(Kids[stack[d].node])
      BY <2>4, <3>2 DEF Range
    <3>4. stack[d].node = n
      BY <1>2, <1>3, <1>5, <3>1, <3>3, OneParentOf
    <3>5. Rank(stack[d]) = Rank(Top)
      BY <1>3, <2>4, <3>4 DEF Rank
    <3>6. QED
      BY <2>2, <3>5
  <2>5. QED
    BY <1>25, <2>3, <2>4 DEF Taken
<1>26. OwnersOK(sh)'
  <2>1. ASSUME NEW p \in Owners
        PROVE  /\ IsInjective(nested'[p])
               /\ \A t \in Range(nested'[p]) : t \in slots' /\ parent'[t] \in Area(sh, p)
    <3>1. IsInjective(nested[p]) /\ \A t \in Range(nested[p]) : t \in slots /\ parent[t] \in Area(sh, p)
      BY <1>1 DEF OwnersOK
    <3>2. CASE p # o
      BY <1>13, <1>15, <3>1, <3>2
    <3>3. CASE p = o
      BY <1>3, <1>5, <1>15, <1>20, <1>21, <3>1, <3>3 DEF Distinctly
    <3>4. QED
      BY <3>2, <3>3
  <2>2. ASSUME NEW s \in Slot \ slots' PROVE nested'[s] = <<>>
    <3>1. s # o
      <4>1. o # Host => o \in slots
        BY <1>1, <1>3, AreaFacts
      <4>2. QED
        BY <1>15, <4>1, TreeAssumption
    <3>2. QED
      BY <1>1, <1>13, <1>15, <2>2, <3>1 DEF OwnersOK, Owners
  <2>3. ASSUME NEW t \in slots'
        PROVE  \E p \in Owners : /\ parent'[t] \in Area(sh, p)
                                 /\ t \in Range(nested'[p]) \/ \E d \in DOMAIN stack' : Taken(p, t, d)'
    <3>1. PICK p \in Owners : /\ parent[t] \in Area(sh, p)
                              /\ t \in Range(nested[p]) \/ \E d \in DOMAIN stack : Taken(p, t, d)
      BY <1>1, <1>15 DEF OwnersOK
    <3>2. CASE t \in Range(nested[p])
      <4>1. t \in Range(nested'[p])
        BY <1>13, <1>20, <3>2
      <4>2. QED
        BY <1>15, <3>1, <4>1
    <3>3. CASE \E d \in DOMAIN stack : Taken(p, t, d)
      <4>1. PICK d \in DOMAIN stack : Taken(p, t, d)
        BY <3>3
      <4>2. CASE d = m
        <5>1. p = o /\ t = c
          BY <1>3, <1>10, <4>1, <4>2, FrameIs DEF Taken
        <5>2. QED
          BY <1>3, <1>15, <1>20, <1>21, <5>1
      <4>3. CASE d # m
        <5>1. d \in DOMAIN q /\ Taken(p, t, d)'
          BY <1>22, <1>23, <4>1, <4>3
        <5>2. QED
          BY <1>15, <3>1, <5>1
      <4>4. QED
        BY <4>2, <4>3
    <3>4. QED
      BY <3>1, <3>2, <3>3
  <2>4. ASSUME NEW d \in DOMAIN stack', NEW p \in Owners, NEW r \in Owners, NEW t \in Slot, Taken(p, t, d)'
        PROVE  t \notin Range(nested'[r])
    <3>1. d \in 1..(m - 1) /\ d \in DOMAIN st
      BY <1>22, <1>24, <2>4
    <3>2. Taken(p, t, d)
      BY <1>23, <2>4, <3>1
    <3>3. t # c
      BY <1>25, <3>1, <3>2
    <3>4. t \notin Range(nested[r])
      BY <1>1, <3>1, <3>2 DEF OwnersOK
    <3>5. QED
      BY <1>13, <1>20, <3>3, <3>4
  <2>5. QED
    BY <2>1, <2>2, <2>3, <2>4 DEF OwnersOK
<1>27. Typed'
  <2>1. nested' \in [Owners -> Seq(Slot)]
    BY <1>1, <1>2, <1>3, <1>20 DEF Typed, Distinctly
  <2>2. QED
    BY <1>1, <1>2, <1>9, <2>1 DEF Typed, tree, slot, state
<1>28. QED
  BY <1>11, <1>12, <1>14, <1>16, <1>17, <1>26, <1>27 DEF Good

-----------------------------------------------------------------------------
(* Where a walk begins: its group is empty, and no slot is below.          *)

LEMMA BeginsIs ==
    ASSUME NEW sh, Good(sh), NEW k \in Ordinary, Bare(k), Begins(k), UNCHANGED <<tree, slots, parent, place>>
    PROVE  /\ ShownOK(sh)' /\ TreeOK(sh)' /\ GroupsOK' /\ group' \in [Ordinary -> Seq(Entries)]
           /\ \A f \in Frames : FrameOK(sh, f) /\ (IsResolve(f) => f.node # k) => FrameOK(sh, f)'
           /\ \A f, g : CallOK(sh, f, g) /\ nested' = nested => CallOK(sh, f, g)'
           /\ \A f : FirstOK(sh, f) => FirstOK(sh, f)'
           /\ \A o \in Owners : LET h == Resolve(k, k, o)
                                IN  /\ h \in Frames /\ IsResolve(h) /\ ~IsRun(h) /\ ~IsDestroy(h)
                                    /\ h.node = k /\ h.owner = o /\ ~h.ran /\ Rank(h) = Height[k]
                                    /\ k \in Area(sh, o) => FrameOK(sh, h)'
<1>1. Typed /\ ShownOK(sh) /\ TreeOK(sh) /\ GroupsOK /\ sh \in Shows
  BY GoodIs
<1>2. alive' = alive /\ children' = children /\ slots' = slots /\ parent' = parent /\ place' = place
  BY DEF tree
<1>3. <<>> \in Seq(Entries) /\ Len(<<>>) = 0
  BY EmptySeq
<1>4. /\ group' \in [Ordinary -> Seq(Entries)] /\ group'[k] = <<>>
      /\ \A n \in Ordinary : n # k => group'[n] = group[n]
  BY <1>1, <1>3 DEF Begins, Typed
<1>5. ShownOK(sh)' /\ TreeOK(sh)'
  BY <1>1, <1>2 DEF ShownOK, TreeOK
<1>6. k \in Static[k]
  BY StaticFacts
<1>7. ASSUME NEW j \in DOMAIN Kids[k] PROVE Kids[k][j] \notin slots
  <2> SUFFICES ASSUME Kids[k][j] \in slots PROVE FALSE
    OBVIOUS
  <2> PICK c : c = Kids[k][j]
    OBVIOUS
  <2>1. c \in Slot /\ c \in Range(Kids[k])
    BY <1>1 DEF Typed, Range
  <2>2. parent[c] \in Ordinary /\ c \in Range(Kids[parent[c]])
    BY <1>1, <2>1 DEF Typed, TreeOK
  <2>3. parent[c] = k
    BY <2>1, <2>2, OneParentOf
  <2>4. QED
    BY <1>6, <2>3 DEF Bare
<1>8. GroupsOK'
  <2> SUFFICES ASSUME NEW w \in Ordinary, NEW i \in DOMAIN Kids[w], Kids[w][i] \in Slot PROVE EntryOK(w, i)'
    BY DEF GroupsOK
  <2>1. CASE w # k
    <3>1. EntryOK(w, i)
      BY <1>1 DEF GroupsOK
    <3>2. QED
      BY <1>2, <1>4, <2>1, <3>1 DEF EntryOK
  <2>2. CASE w = k
    <3>1. Kids[w][i] \notin slots'
      BY <1>2, <1>7, <2>2
    <3>2. ~(Among(w, Slot)[i] <= 0)
      BY AmongNext
    <3>3. QED
      BY <1>3, <1>4, <2>2, <3>1, <3>2 DEF EntryOK
  <2>3. QED
    BY <2>1, <2>2
<1>9. ASSUME NEW f \in Frames, FrameOK(sh, f), IsResolve(f) => f.node # k PROVE FrameOK(sh, f)'
  <2>1. CASE IsResolve(f)
    <3>1. ResolveOK(sh, f) /\ f.node # k
      BY <1>9, <2>1 DEF FrameOK
    <3>2. f.node \in Ordinary
      BY <2>1, FrameIs
    <3>3. group'[f.node] = group[f.node]
      BY <1>4, <3>1, <3>2
    <3>4. ResolveOK(sh, f)'
      BY <1>2, <3>1, <3>3 DEF ResolveOK, Bare
    <3>5. QED
      BY <2>1, <3>4 DEF FrameOK, IsResolve, IsRun, IsDestroy
  <2>2. CASE ~IsResolve(f)
    <3>1. RunOK(sh, f) => RunOK(sh, f)'
      BY <1>2 DEF RunOK, Bare
    <3>2. QED
      BY <1>2, <1>9, <2>2, <3>1 DEF FrameOK
  <2>3. QED
    BY <2>1, <2>2
<1>10. \A f, g : CallOK(sh, f, g) /\ nested' = nested => CallOK(sh, f, g)'
  BY <1>2 DEF CallOK
<1>11. \A f : FirstOK(sh, f) => FirstOK(sh, f)'
  BY <1>2 DEF FirstOK
<1>12. ASSUME NEW o \in Owners, NEW h, h = Resolve(k, k, o)
       PROVE  /\ h \in Frames /\ IsResolve(h) /\ ~IsRun(h) /\ ~IsDestroy(h)
              /\ h.node = k /\ h.owner = o /\ ~h.ran /\ Rank(h) = Height[k]
              /\ k \in Area(sh, o) => FrameOK(sh, h)'
  <2>1. /\ h \in Frames /\ IsResolve(h) /\ ~IsRun(h) /\ ~IsDestroy(h) /\ h.at = k
        /\ h.node = k /\ h.owner = o /\ h.ran = FALSE /\ h.i = 1 /\ h.static = 0 /\ h.real = 0
    BY <1>12 DEF Resolve, Frames, ResolveFrame, IsResolve, IsRun, IsDestroy, Owners
  <2>2. Rank(h) = Height[k]
    BY <2>1 DEF Rank
  <2>3. ASSUME k \in Area(sh, o) PROVE ResolveOK(sh, h)'
    <3>1. Among(k, Ordinary)[0] = 0 /\ Among(k, Slot)[0] = 0
      BY AmongIs DEF IsAmong
    <3>2. Upto(sh, k)[0] = <<>>
      BY ONLY UptoFacts, <1>1, k \in Ordinary
    <3>3. 1 \in 1..Len(Kids[k]) + 1 /\ 1 - 1 = 0
      BY Shape
    <3>4. ASSUME NEW j \in DOMAIN Kids[k], Kids[k][j] \in Ordinary PROVE Bare(Kids[k][j])'
      <4>1. Kids[k][j] \in OrdinaryKids(k)
        BY <3>4 DEF OrdinaryKids, Range
      <4>2. Kids[k][j] \in Static[k]
        BY <1>6, <4>1, StaticFacts
      <4>3. Static[Kids[k][j]] \subseteq Static[k]
        BY <4>2, StaticFacts
      <4>4. QED
        BY <1>2, <4>3 DEF Bare
    <3>5. QED
      BY <1>2, <1>3, <1>4, <1>7, <2>1, <2>3, <3>1, <3>2, <3>3, <3>4 DEF ResolveOK
  <2>4. k \in Area(sh, o) => FrameOK(sh, h)'
    BY <2>1, <2>3 DEF FrameOK
  <2>5. QED
    BY <2>1, <2>2, <2>4
<1>13. QED
  BY <1>4, <1>5, <1>8, <1>9, <1>10, <1>11, <1>12

LEMMA HostResolvesGood ==
    ASSUME NEW sh, Good(sh), HostResolves
    PROVE  Good(sh)'
<1>1. /\ Typed /\ ShownOK(sh) /\ SettledOK(sh) /\ TreeOK(sh) /\ GroupsOK /\ OwnersOK(sh)
      /\ FramesOK(sh) /\ CallsOK(sh) /\ Nested(stack) /\ sh \in Shows
  BY GoodIs
<1> PICK h, q : h = Resolve(Root, Root, Host) /\ q = stack'
  OBVIOUS
<1>2. /\ stack = <<>> /\ nested[Host] = <<>> /\ stack' = <<h>> /\ Begins(Root)
      /\ UNCHANGED <<tree, slots, parent, place, state, nested>>
  BY DEF HostResolves
<1>3. Root \in Ordinary /\ Host \in Owners /\ Root \in Area(sh, Host) /\ Area(sh, Host) = Static[Root]
  BY TreeAssumption, StaticFacts DEF Owners, Area
<1>4. Bare(Root)
  <2> SUFFICES ASSUME NEW t \in slots, parent[t] \in Area(sh, Host) PROVE FALSE
    BY <1>3 DEF Bare
  <2>1. PICK o \in Owners : parent[t] \in Area(sh, o) /\ (t \in Range(nested[o]) \/ Claimed(o, t))
    BY <1>1 DEF OwnersOK, Claimed
  <2>2. ~Claimed(o, t)
    BY <1>1, <1>2, EmptyIs
  <2>3. o = Host
    BY <1>1, <1>3, <2>1, AreasApart
  <2>4. QED
    BY <1>2, <2>1, <2>2, <2>3 DEF Range
<1>5. /\ ShownOK(sh)' /\ TreeOK(sh)' /\ GroupsOK' /\ group' \in [Ordinary -> Seq(Entries)]
      /\ h \in Frames /\ IsResolve(h) /\ ~IsRun(h) /\ ~IsDestroy(h) /\ h.node = Root /\ h.owner = Host /\ ~h.ran
      /\ FrameOK(sh, h)'
  BY <1>2, <1>3, <1>4, BeginsIs
<1>6. q \in Seq(Frames) /\ DOMAIN q = {1} /\ q[1] = h /\ q # <<>> /\ Nested(q)
  <2>1. q = <<h>>
    BY <1>2
  <2>2. QED
    BY <1>5, <2>1, OneIs
<1>7. FramesOK(sh)'
  <2>1. \A d \in DOMAIN q : FrameOK(sh, q[d])'
    BY <1>5, <1>6
  <2>2. QED
    BY <2>1 DEF FramesOK
<1>8. CallsOK(sh)'
  <2>1. FirstOK(sh, h)'
    BY <1>5 DEF FirstOK
  <2>2. \A d \in DOMAIN q : ~(d > 1)
    BY <1>6
  <2>3. QED
    BY <1>6, <2>1, <2>2 DEF CallsOK
<1>9. SettledOK(sh)'
  <2>1. slots' = slots /\ count' = count /\ previous' = previous
    BY <1>2 DEF state
  <2>2. \A x \in slots : sh[x] = previous[x] /\ count[x] = Len(previous[x])
    BY <1>1, <1>2, EmptyIs DEF SettledOK
  <2>3. \A d \in DOMAIN q : ~FoundRun(q[d]) /\ ~Clears(q[d])
    BY <1>5, <1>6 DEF FoundRun, Clears
  <2>4. QED
    BY <2>1, <2>2, <2>3 DEF SettledOK
<1>10. OwnersOK(sh)'
  <2>1. \A o, t : ~Claimed(o, t)
    BY <1>1, <1>2, EmptyIs
  <2>2. \A o, t : ~Claimed(o, t)'
    BY <1>5, <1>6 DEF Claimed, Taken
  <2>3. UNCHANGED <<slots, parent, nested>>
    BY <1>2
  <2>4. QED
    BY <1>1, <2>1, <2>2, <2>3, OwnersAfter
<1>11. Typed'
  BY <1>1, <1>2, <1>5, <1>6 DEF Typed, tree, state
<1>12. QED
  BY <1>5, <1>6, <1>7, <1>8, <1>9, <1>10, <1>11 DEF Good

LEMMA DescendGood ==
    ASSUME NEW sh, Good(sh), Descend
    PROVE  Good(sh)'
<1>1. /\ Typed /\ ShownOK(sh) /\ SettledOK(sh) /\ TreeOK(sh) /\ GroupsOK /\ OwnersOK(sh)
      /\ FramesOK(sh) /\ CallsOK(sh) /\ Nested(stack) /\ sh \in Shows
  BY GoodIs
<1> PICK f, n, i, c, o, g, h, st, q, m :
        /\ f = Top /\ n = f.node /\ i = f.i /\ c = Child /\ o = f.owner
        /\ g = [f EXCEPT !.i = i + 1, !.real = f.real + 1, !.static = f.static + 1]
        /\ h = Resolve(c, c, o) /\ st = stack /\ q = stack' /\ m = Len(stack)
  OBVIOUS
<1>2. AtChild /\ Resolving /\ c \in Ordinary
  BY DEF Descend, AtChild
<1>3. children[f.at][f.real + 1] = c
  BY <1>2, InStep
<1>4. Begins(c) /\ Call(g, h) /\ UNCHANGED <<tree, slots, parent, place, state, nested>>
  BY <1>3 DEF Descend
<1>5. /\ stack # <<>> /\ f \in ResolveFrame /\ f \in Frames /\ IsResolve(f) /\ ResolveOK(sh, f) /\ n \in Ordinary
      /\ i \in DOMAIN Kids[n] /\ Kids[n][i] = c /\ i \in Nat /\ o \in Owners /\ n \in Area(sh, o)
      /\ f.real \in Nat /\ f.static \in Nat /\ f.ran \in BOOLEAN /\ Rank(f) = Height[n]
  BY <1>2, ResolveTop
<1>6. /\ i + 1 \in Nat /\ i + 1 \in 1..Len(Kids[n]) + 1 /\ (i + 1) - 1 = i
      /\ Len(Upto(sh, n)[i]) = Len(Upto(sh, n)[i - 1]) + Len(Part(sh, Kids[n][i]))
      /\ Len(Upto(sh, n)[i - 1]) \in Nat
  BY <1>1, <1>5, NextIs
<1>7. c \notin Slot /\ c \notin slots /\ c \in OrdinaryKids(n)
  <2>1. c \in Range(Kids[n])
    BY <1>5 DEF Range
  <2>2. QED
    BY <1>1, <1>2, <2>1, TreeAssumption DEF OrdinaryKids, Typed
<1>8. f.ran = FALSE
  BY <1>5, <1>7 DEF ResolveOK
<1>9. Bare(c)
  <2>1. i > i - 1
    BY <1>5
  <2>2. QED
    BY <1>2, <1>5, <1>8, <2>1 DEF ResolveOK
<1>10. c \in Area(sh, o) /\ c \in Static[n]
  <2>1. n \in Static[n]
    BY <1>5, StaticFacts
  <2>2. c \in Static[n]
    BY <1>5, <1>7, <2>1, StaticFacts
  <2>3. Static[n] \subseteq Area(sh, o)
    BY <1>1, <1>5, AreaFacts
  <2>4. QED
    BY <2>2, <2>3
<1>11. Height[c] < Height[n] /\ Height[c] \in Nat /\ Height[n] \in Nat
  BY <1>2, <1>5, <1>7, Shape
<1>12. /\ ShownOK(sh)' /\ TreeOK(sh)' /\ GroupsOK' /\ group' \in [Ordinary -> Seq(Entries)]
       /\ \A x \in Frames : FrameOK(sh, x) /\ (IsResolve(x) => x.node # c) => FrameOK(sh, x)'
       /\ \A x, y : CallOK(sh, x, y) /\ nested' = nested => CallOK(sh, x, y)'
       /\ \A x : FirstOK(sh, x) => FirstOK(sh, x)'
       /\ h \in Frames /\ IsResolve(h) /\ ~IsRun(h) /\ ~IsDestroy(h) /\ h.node = c /\ h.owner = o /\ ~h.ran
       /\ Rank(h) = Height[c] /\ FrameOK(sh, h)'
  BY <1>2, <1>4, <1>5, <1>9, <1>10, BeginsIs
<1>13. /\ g \in Frames /\ IsResolve(g) /\ g.node = n /\ g.i = i + 1 /\ g.ran = FALSE /\ g.owner = o
       /\ g.at = f.at /\ g.static = f.static + 1 /\ g.real = f.real + 1
  <2>1. PICK a, b : a = f.real + 1 /\ b = f.static + 1
    OBVIOUS
  <2>2. a \in Nat /\ b \in Nat /\ g = [f EXCEPT !.i = i + 1, !.real = a, !.static = b]
    BY <1>5, <2>1
  <2>3. /\ g \in ResolveFrame /\ g.op = f.op /\ g.node = f.node /\ g.i = i + 1 /\ g.ran = f.ran
        /\ g.owner = f.owner /\ g.at = f.at /\ g.static = b /\ g.real = a
    BY ONLY <1>5, <1>6, <2>2 DEF ResolveFrame
  <2>4. QED
    BY <1>5, <1>8, <2>1, <2>3 DEF Frames, IsResolve
<1>14. GoesOn(f, g)
  BY <1>5, <1>13 DEF GoesOn, Alike, IsResolve, FoundRun, IsRun
<1>15. After(st, q, m, m + 1) /\ q \in Seq(Frames) /\ q[m] = g /\ q[m + 1] = h
  BY <1>1, <1>4, <1>5, <1>12, <1>13, <1>14, CallAfter
<1>16. m \in Nat /\ m # 0 /\ m + 1 # m - 1 /\ m # m + 1 /\ st[m] = f
  BY <1>5, LowerOK
<1>17. FramesOK(sh)'
  <2>1. ASSUME NEW d \in 1..(m - 1) PROVE FrameOK(sh, st[d])'
    <3>1. d \in 1..m /\ d # m
      BY <1>16
    <3>2. FrameOK(sh, st[d]) /\ d \in DOMAIN stack /\ st[d] \in Frames
      BY <1>5, <3>1, LowerOK
    <3>3. Rank(Top) < Rank(stack[d])
      BY <1>1, <1>5, <3>1, <3>2, TopLowest
    <3>4. IsResolve(st[d]) => st[d].node # c
      BY <1>5, <1>11, <3>3 DEF Rank
    <3>5. QED
      BY <1>12, <3>2, <3>4
  <2>2. Len(Upto(sh, n)[i]) = g.real
    <3>1. Part(sh, Kids[n][i]) = <<c>>
      BY <1>2, <1>5 DEF Part
    <3>2. Len(<<c>>) = 1
      OBVIOUS
    <3>3. QED
      BY <1>5, <1>6, <1>13, <3>1, <3>2 DEF ResolveOK
  <2>3. Among(n, Ordinary)[i] = g.static
    BY <1>2, <1>5, <1>13, AmongNext DEF ResolveOK
  <2>4. Among(n, Slot)[i] = Len(group[n])
    BY <1>5, <1>7, <1>8, AmongNext DEF ResolveOK
  <2>5. \A j \in DOMAIN Kids[n] : j > i => j > i - 1
    BY <1>5, Shape
  <2>6. ResolveOK(sh, g)
    BY <1>5, <1>6, <1>8, <1>13, <2>2, <2>3, <2>4, <2>5 DEF ResolveOK
  <2>7. FrameOK(sh, g)
    BY <1>13, <2>6 DEF FrameOK, IsResolve, IsRun, IsDestroy
  <2>8. g.node # c
    BY <1>11, <1>13
  <2>9. FrameOK(sh, q[m])'
    BY <1>12, <1>13, <1>15, <2>7, <2>8
  <2>10. FrameOK(sh, q[m + 1])'
    BY <1>12, <1>15
  <2>11. QED
    BY <1>15, <1>16, <2>1, <2>9, <2>10, FramesAfter
<1>18. CallsOK(sh)'
  <2>1. nested' = nested
    BY <1>4
  <2>2. FirstOK(sh, st[1])' /\ \A d \in 1..m : d > 1 => CallOK(sh, st[d - 1], st[d])'
    BY <1>5, <1>12, <2>1, LowerOK
  <2>3. CallOK(sh, g, h)'
    <3>1. g.i > 1 /\ Kids[g.node][g.i - 1] = c
      <4>1. i + 1 > 1
        BY <1>5, Shape
      <4>2. QED
        BY <1>5, <1>6, <1>13, <4>1
    <3>2. QED
      BY <1>12, <1>13, <3>1 DEF CallOK
  <2>4. QED
    BY <1>15, <1>16, <2>2, <2>3, CallsAfter
<1>19. SettledOK(sh)'
  <2>1. slots' = slots /\ count' = count /\ previous' = previous
    BY <1>4 DEF state
  <2>2. ~FoundRun(q[m]) /\ ~FoundRun(q[m + 1]) /\ ~Clears(q[m + 1])
    BY <1>12, <1>13, <1>15 DEF FoundRun, IsRun, IsResolve, Clears
  <2>3. slots' \subseteq Slot
    BY <1>1, <2>1 DEF Typed
  <2>4. QED
    BY <1>1, <1>15, <1>16, <2>1, <2>2, <2>3, SettledAfter
<1>20. Nested(stack)'
  <2>1. m \in DOMAIN stack /\ m \in 1..m /\ stack[m] = f
    BY <1>5, <1>16, LowerOK
  <2>2. \A e \in 1..(m - 1) : q[e] = st[e] /\ e \in 1..m /\ e \in DOMAIN st
    <3>1. \A e \in 1..(m - 1) : e \in 1..m
      BY <1>16
    <3>2. QED
      BY <1>15, <3>1, AfterIs
  <2>3. ASSUME o # Host PROVE \E e \in 1..m : FoundRun(q[e]) /\ q[e].slot = o
    <3>1. PICK e \in DOMAIN stack : e < m /\ FoundRun(stack[e]) /\ stack[e].slot = o
      BY <1>1, <1>5, <2>1, <2>3 DEF Nested
    <3>2. e \in 1..(m - 1)
      <4>1. DOMAIN stack = 1..m
        BY <1>5, LowerOK DEF IsStack
      <4>2. QED
        BY <1>16, <3>1, <4>1
    <3>3. QED
      BY <2>2, <3>1, <3>2
  <2>4. ASSUME NEW d \in 1..m PROVE OwnerOf(q[d]) # o \/ Inside(q[d], c)
    <3>1. CASE d = m
      <4>1. g.i > 1 /\ Kids[g.node][g.i - 1] = c
        <5>1. i + 1 > 1
          BY <1>5, Shape
        <5>2. QED
          BY <1>5, <1>6, <1>13, <5>1
      <4>2. c \in Static[c]
        BY <1>2, StaticFacts
      <4>3. QED
        BY <1>2, <1>13, <1>15, <3>1, <4>1, <4>2 DEF Inside
    <3>2. CASE d # m
      <4>1. d \in 1..(m - 1) /\ d < m
        BY <1>16, <3>2
      <4>2. q[d] = st[d] /\ d \in DOMAIN stack
        BY <2>2, <4>1
      <4>3. OwnerOf(st[d]) # o \/ Inside(st[d], n)
        BY <1>1, <1>5, <2>1, <4>1, <4>2 DEF Nested
      <4>4. ASSUME Inside(st[d], n) PROVE Inside(st[d], c)
        <5>1. CASE IsResolve(st[d])
          BY <1>7, <4>4, <5>1, StaticFacts DEF Inside, FoundRun, IsRun, IsResolve
        <5>2. CASE FoundRun(st[d])
          <6>1. st[d] \in Frames /\ FrameOK(sh, st[d])
            BY <1>5, LowerOK
          <6>2. /\ st[d].out \in Seq(Ordinary) /\ st[d].i \in Nat /\ st[d].i \in 1..Len(st[d].out) + 1
                /\ Len(st[d].out) \in Nat
            <7>1. st[d].out \in Seq(Ordinary) /\ st[d].i \in Nat
              BY <5>2, <6>1, FrameIs DEF FoundRun
            <7>2. st[d].i \in 1..Len(st[d].out) + 1
              BY <5>2, <6>1 DEF FoundRun, FrameOK, RunOK
            <7>3. Len(st[d].out) \in Nat
              BY <7>1, LenProperties
            <7>4. QED
              BY <7>1, <7>2, <7>3
          <6>3. st[d].i > 1 /\ n \in Static[st[d].out[st[d].i - 1]]
            BY <4>4, <5>2 DEF Inside, FoundRun, IsRun, IsResolve
          <6>4. st[d].i - 1 \in 1..Len(st[d].out)
            BY <6>2, <6>3
          <6>5. st[d].out[st[d].i - 1] \in Ordinary
            BY <6>2, <6>4, ElementOfSeq
          <6>6. c \in Static[st[d].out[st[d].i - 1]]
            BY <1>7, <6>3, <6>5, StaticFacts
          <6>7. QED
            BY <5>2, <6>3, <6>6 DEF Inside
        <5>3. QED
          BY <4>4, <5>1, <5>2 DEF Inside
      <4>5. QED
        BY <4>2, <4>3, <4>4
    <3>3. QED
      BY <3>1, <3>2
  <2>5. Rank(g) = Height[n]
    BY <1>13 DEF Rank
  <2>6. Fits(q, m, h)
    BY <1>11, <1>12, <1>15, <2>3, <2>4, <2>5 DEF Fits
  <2>7. QED
    BY <1>1, <1>15, <1>16, <2>6, NestedAfter
<1>21. OwnersOK(sh)'
  <2>1. NoTaker(f) /\ NoTaker(g) /\ NoTaker(h)
    BY <1>5, <1>8, <1>12, <1>13 DEF NoTaker, IsResolve, IsDestroy
  <2>2. \A p, t : Claimed(p, t)' <=> Claimed(p, t)
    BY <1>15, <1>16, <2>1, ClaimedAfter
  <2>3. UNCHANGED <<slots, parent, nested>>
    BY <1>4
  <2>4. QED
    BY <1>1, <2>2, <2>3, OwnersAfter
<1>22. Typed'
  BY <1>1, <1>4, <1>12, <1>15 DEF Typed, tree, state
<1>23. QED
  BY <1>12, <1>17, <1>18, <1>19, <1>20, <1>21, <1>22 DEF Good

LEMMA RunTop ==
    ASSUME NEW sh, Good(sh), Running, Top.found
    PROVE  /\ stack # <<>> /\ Top \in RunFrame /\ Top \in Frames /\ IsRun(Top) /\ FoundRun(Top) /\ RunOK(sh, Top)
           /\ ~IsResolve(Top) /\ ~IsDestroy(Top) /\ ~Clears(Top)
           /\ Top.slot \in Slot /\ Top.slot \in slots /\ Top.slot \in Owners /\ Top.slot # Host
           /\ Top.i \in Nat /\ Top.base \in Nat
           /\ Top.out \in Seq(Ordinary) /\ Len(Top.out) \in Nat /\ DOMAIN Top.out = 1..Len(Top.out)
           /\ Top.i \in 1..Len(Top.out) + 1 /\ sh[Top.slot] = Top.out
           /\ Rank(Top) = Height[Top.slot]
<1>1. Typed /\ FramesOK(sh) /\ SettledOK(sh)
  BY GoodIs
<1>2. stack # <<>> /\ Top \in Frames /\ IsRun(Top) /\ Len(stack) \in DOMAIN stack /\ Top = stack[Len(stack)]
  BY <1>1, TopIs DEF Running, IsRun
<1>3. FoundRun(Top)
  BY <1>2 DEF FoundRun
<1>4. FrameOK(sh, Top)
  BY <1>1, <1>2 DEF FramesOK
<1>5. RunOK(sh, Top) /\ ~IsResolve(Top) /\ ~IsDestroy(Top) /\ ~Clears(Top) /\ Top \in RunFrame
      /\ Top.slot \in Slot /\ Top.i \in Nat /\ Top.base \in Nat /\ Top.out \in Seq(Ordinary)
  BY <1>2, <1>3, <1>4, FrameIs DEF FrameOK
<1>6. Len(Top.out) \in Nat /\ DOMAIN Top.out = 1..Len(Top.out)
  BY <1>5, LenProperties
<1>7. Top.i \in 1..Len(Top.out) + 1 /\ Top.slot \in slots
  BY <1>5 DEF RunOK
<1>8. sh[Top.slot] = Top.out
  BY <1>1, <1>2, <1>3 DEF SettledOK
<1>9. Rank(Top) = Height[Top.slot] /\ Top.slot \in Owners /\ Top.slot # Host
  BY <1>5, TreeAssumption DEF Rank, Owners
<1>10. QED
  BY <1>2, <1>3, <1>5, <1>6, <1>7, <1>8, <1>9

\* A slot meets each entry of its output at the widget built from it.
LEMMA EntryThere ==
    ASSUME NEW sh, Good(sh), Running, Top.found, NEW j \in DOMAIN Top.out
    PROVE  children[parent[Top.slot]][Top.base + j] = Top.out[j]
<1>1. Typed /\ TreeOK(sh) /\ sh \in Shows
  BY GoodIs
<1> PICK s, w, out : s = Top.slot /\ w = parent[s] /\ out = Top.out
  OBVIOUS
<1>2. /\ s \in Slot /\ s \in slots /\ RunOK(sh, Top) /\ sh[s] = out /\ Top.found
      /\ DOMAIN out = 1..Len(out)
  BY RunTop
<1>3. w \in Ordinary /\ w \in alive /\ s \in Range(Kids[w]) /\ children[w] = Spread(Kids[w], sh)
  BY <1>1, <1>2 DEF TreeOK, Typed
<1>4. PICK p \in DOMAIN Kids[w] : Kids[w][p] = s
  BY <1>3 DEF Range
<1>5. Top.base = Len(Upto(sh, w)[p - 1])
  BY <1>2, <1>4 DEF RunOK
<1>6. IsPart(Spread(Kids[w], sh), Len(Upto(sh, w)[p - 1]), Part(sh, Kids[w][p]))
  BY <1>1, <1>3, PartAt
<1>7. Part(sh, Kids[w][p]) = out
  BY <1>2, <1>4, TreeAssumption DEF Part
<1>8. \A x \in 1..Len(out) : children[w][Top.base + x] = out[x]
  BY <1>3, <1>5, <1>6, <1>7 DEF IsPart
<1>9. QED
  BY <1>2, <1>8

LEMMA DiscoverGood ==
    ASSUME NEW sh, Good(sh), Discover
    PROVE  Good(sh)'
<1>1. /\ Typed /\ ShownOK(sh) /\ SettledOK(sh) /\ TreeOK(sh) /\ GroupsOK /\ OwnersOK(sh)
      /\ FramesOK(sh) /\ CallsOK(sh) /\ Nested(stack) /\ sh \in Shows
  BY GoodIs
<1> PICK f, s, i, k, g, h, st, q, m :
        /\ f = Top /\ s = f.slot /\ i = f.i /\ k = f.out[i] /\ g = [f EXCEPT !.i = i + 1]
        /\ h = Resolve(k, k, s) /\ st = stack /\ q = stack' /\ m = Len(stack)
  OBVIOUS
<1>2. Running /\ f.found /\ i <= Len(f.out)
  BY DEF Discover
<1>3. /\ stack # <<>> /\ f \in RunFrame /\ f \in Frames /\ IsRun(f) /\ FoundRun(f) /\ RunOK(sh, f)
      /\ ~IsResolve(f) /\ ~IsDestroy(f) /\ s \in Slot /\ s \in slots /\ s \in Owners /\ s # Host /\ i \in Nat
      /\ f.out \in Seq(Ordinary) /\ Len(f.out) \in Nat /\ DOMAIN f.out = 1..Len(f.out)
      /\ i \in 1..Len(f.out) + 1 /\ sh[s] = f.out /\ Rank(f) = Height[s]
  BY <1>2, RunTop
<1>4. i \in DOMAIN f.out /\ i + 1 \in Nat /\ i + 1 \in 1..Len(f.out) + 1 /\ i + 1 > 1 /\ (i + 1) - 1 = i
  <2>1. PICK a : a = Len(f.out)
    OBVIOUS
  <2>2. a \in Nat /\ i \in 1..a + 1 /\ i <= a /\ i \in Nat /\ DOMAIN f.out = 1..a
    BY <1>2, <1>3, <2>1
  <2>3. i \in 1..a /\ i + 1 \in Nat /\ i + 1 \in 1..a + 1 /\ i + 1 > 1 /\ (i + 1) - 1 = i
    BY ONLY <2>2
  <2>4. QED
    BY <2>1, <2>2, <2>3
<1>5. children[parent[s]][f.base + i] = k
  BY <1>2, <1>4, EntryThere
<1>6. Begins(k) /\ Call(g, h) /\ UNCHANGED <<tree, slots, parent, place, state, nested>>
  BY <1>5 DEF Discover
<1>7. k \in Ordinary /\ k \in Range(sh[s])
  BY <1>3, <1>4, ElementOfSeq DEF Range
<1>8. Bare(k)
  <2>1. i >= i
    BY <1>3
  <2>2. QED
    BY <1>2, <1>3, <1>4, <2>1 DEF RunOK
<1>9. k \in Static[k]
  BY <1>7, StaticFacts
<1>10. k \in Area(sh, s)
  BY <1>3, <1>7, <1>9 DEF Area, StaticOf
<1>11. Height[k] < Height[s] /\ Height[k] \in Nat /\ Height[s] \in Nat
  <2>1. Height[k] < Height[s]
    BY <1>1, <1>3, <1>10, AreaFacts
  <2>2. QED
    BY <1>3, <1>7, <2>1, Shape
<1>12. /\ ShownOK(sh)' /\ TreeOK(sh)' /\ GroupsOK' /\ group' \in [Ordinary -> Seq(Entries)]
       /\ \A x \in Frames : FrameOK(sh, x) /\ (IsResolve(x) => x.node # k) => FrameOK(sh, x)'
       /\ \A x, y : CallOK(sh, x, y) /\ nested' = nested => CallOK(sh, x, y)'
       /\ \A x : FirstOK(sh, x) => FirstOK(sh, x)'
       /\ h \in Frames /\ IsResolve(h) /\ ~IsRun(h) /\ ~IsDestroy(h) /\ h.node = k /\ h.owner = s /\ ~h.ran
       /\ Rank(h) = Height[k] /\ FrameOK(sh, h)'
  BY <1>3, <1>6, <1>7, <1>8, <1>10, BeginsIs
<1>13. /\ g \in Frames /\ IsRun(g) /\ ~IsResolve(g) /\ ~IsDestroy(g) /\ FoundRun(g) /\ g.slot = s /\ g.i = i + 1
       /\ g.found = f.found /\ g.out = f.out /\ g.base = f.base
  BY <1>3, <1>4 DEF Frames, RunFrame, IsRun, IsResolve, IsDestroy, FoundRun
<1>14. GoesOn(f, g)
  BY <1>3, <1>13 DEF GoesOn, Alike, IsRun
<1>15. After(st, q, m, m + 1) /\ q \in Seq(Frames) /\ q[m] = g /\ q[m + 1] = h
  BY <1>1, <1>3, <1>6, <1>12, <1>13, <1>14, CallAfter
<1>16. m \in Nat /\ m # 0 /\ m + 1 # m - 1 /\ m # m + 1 /\ st[m] = f
  BY <1>3, LowerOK
<1>17. FramesOK(sh)'
  <2>1. ASSUME NEW d \in 1..(m - 1) PROVE FrameOK(sh, st[d])'
    <3>1. d \in 1..m /\ d # m
      BY <1>16
    <3>2. FrameOK(sh, st[d]) /\ d \in DOMAIN stack /\ st[d] \in Frames
      BY <1>3, <3>1, LowerOK
    <3>3. Rank(Top) < Rank(stack[d])
      BY <1>1, <1>3, <3>1, <3>2, TopLowest
    <3>4. IsResolve(st[d]) => st[d].node # k
      <4> SUFFICES ASSUME IsResolve(st[d]), st[d].node = k PROVE FALSE
        OBVIOUS
      <4>1. Rank(stack[d]) = Height[k]
        BY DEF Rank
      <4>2. Height[s] < Height[k]
        BY <1>3, <3>3, <4>1
      <4>3. QED
        BY <1>11, <4>2
    <3>5. QED
      BY <1>12, <3>2, <3>4
  <2>2. \A j : j >= i + 1 /\ j \in DOMAIN f.out => j >= i
    BY <1>3
  <2>3. RunOK(sh, g)
    <3>1. g.found /\ g.i \in 1..Len(g.out) + 1 /\ g.slot \in slots
      BY <1>2, <1>3, <1>4, <1>13
    <3>2. \A p \in DOMAIN Kids[parent[s]] : Kids[parent[s]][p] = s => g.base = Len(Upto(sh, parent[s])[p - 1])
      BY <1>2, <1>3, <1>13 DEF RunOK
    <3>3. \A j \in DOMAIN g.out : j >= g.i => Bare(g.out[j])
      BY <1>2, <1>3, <1>13, <2>2 DEF RunOK
    <3>4. QED
      BY <1>13, <3>1, <3>2, <3>3 DEF RunOK
  <2>4. FrameOK(sh, g)
    BY <1>13, <2>3 DEF FrameOK
  <2>5. FrameOK(sh, q[m])'
    BY <1>12, <1>13, <1>15, <2>4
  <2>6. FrameOK(sh, q[m + 1])'
    BY <1>12, <1>15
  <2>7. QED
    BY <1>15, <1>16, <2>1, <2>5, <2>6, FramesAfter
<1>18. CallsOK(sh)'
  <2>1. nested' = nested
    BY <1>6
  <2>2. FirstOK(sh, st[1])' /\ \A d \in 1..m : d > 1 => CallOK(sh, st[d - 1], st[d])'
    BY <1>3, <1>12, <2>1, LowerOK
  <2>3. CallOK(sh, g, h)'
    BY <1>4, <1>12, <1>13 DEF CallOK
  <2>4. QED
    BY <1>15, <1>16, <2>2, <2>3, CallsAfter
<1>19. SettledOK(sh)'
  <2>1. slots' = slots /\ count' = count /\ previous' = previous
    BY <1>6 DEF state
  <2>2. FoundRun(st[m]) /\ ~FoundRun(q[m + 1]) /\ ~Clears(q[m + 1])
    BY <1>3, <1>12, <1>15, <1>16 DEF FoundRun, Clears
  <2>3. slots' \subseteq Slot
    BY <1>1, <2>1 DEF Typed
  <2>4. QED
    BY <1>1, <1>15, <1>16, <2>1, <2>2, <2>3, SettledAfter
<1>20. Nested(stack)'
  <2>1. m \in 1..m /\ FoundRun(q[m]) /\ q[m].slot = s
    BY <1>13, <1>15, <1>16
  <2>2. ASSUME NEW d \in 1..m PROVE OwnerOf(q[d]) # s \/ Inside(q[d], k)
    <3>1. CASE d = m
      <4>1. g.i > 1 /\ g.out[g.i - 1] = k
        BY <1>4, <1>13
      <4>2. Inside(g, k)
        BY <1>9, <1>13, <4>1 DEF Inside
      <4>3. QED
        BY <1>15, <3>1, <4>2
    <3>2. CASE d # m
      <4>1. d \in 1..(m - 1)
        BY <1>16, <3>2
      <4>2. q[d] = st[d] /\ d \in DOMAIN stack
        BY <1>15, <4>1, AfterIs
      <4>3. CASE IsResolve(st[d])
        <5>1. st[d].owner # s
          BY <1>1, <1>3, <4>2, <4>3, OwnerCalls
        <5>2. QED
          BY <4>2, <4>3, <5>1 DEF OwnerOf
      <4>4. CASE ~IsResolve(st[d])
        <5>1. st[d].slot # s
          BY <1>1, <1>3, <3>2, <4>2, <4>4, OneCall
        <5>2. QED
          BY <4>2, <4>4, <5>1 DEF OwnerOf
      <4>5. QED
        BY <4>3, <4>4
    <3>3. QED
      BY <3>1, <3>2
  <2>3. Rank(g) = Height[s]
    BY <1>13 DEF Rank
  <2>4. Fits(q, m, h)
    BY <1>11, <1>12, <1>15, <2>1, <2>2, <2>3 DEF Fits
  <2>5. QED
    BY <1>1, <1>15, <1>16, <2>4, NestedAfter
<1>21. OwnersOK(sh)'
  <2>1. NoTaker(f) /\ NoTaker(g) /\ NoTaker(h)
    BY <1>3, <1>12, <1>13 DEF NoTaker
  <2>2. \A p, t : Claimed(p, t)' <=> Claimed(p, t)
    BY <1>15, <1>16, <2>1, ClaimedAfter
  <2>3. UNCHANGED <<slots, parent, nested>>
    BY <1>6
  <2>4. QED
    BY <1>1, <2>2, <2>3, OwnersAfter
<1>22. Typed'
  BY <1>1, <1>6, <1>12, <1>15 DEF Typed, tree, state
<1>23. QED
  BY <1>12, <1>17, <1>18, <1>19, <1>20, <1>21, <1>22 DEF Good

LEMMA RenderedGood ==
    ASSUME NEW sh, Good(sh), Rendered
    PROVE  Good(sh)'
<1>1. /\ Typed /\ ShownOK(sh) /\ SettledOK(sh) /\ TreeOK(sh) /\ GroupsOK /\ OwnersOK(sh)
      /\ FramesOK(sh) /\ CallsOK(sh) /\ Nested(stack) /\ sh \in Shows
  BY GoodIs
<1> PICK f, s, st, q, m, k : f = Top /\ s = f.slot /\ st = stack /\ q = stack' /\ m = Len(stack) /\ k = m - 1
  OBVIOUS
<1>2. /\ Running /\ f.found /\ stack' = Under /\ UNCHANGED <<tree, slots, slot, nested>>
      /\ count' = [count EXCEPT ![s] = Len(f.out)] /\ previous' = [previous EXCEPT ![s] = f.out]
  BY DEF Rendered
<1>3. /\ stack # <<>> /\ ~IsResolve(f) /\ ~IsDestroy(f) /\ s \in Slot /\ sh[s] = f.out
      /\ f.out \in Seq(Ordinary) /\ Len(f.out) \in Nat
  BY <1>2, RunTop
<1>4. After(st, q, m, k) /\ q \in Seq(Frames)
  BY <1>1, <1>2, <1>3, PopAfter
<1>5. m \in Nat /\ k # m /\ k # m + 1 /\ st[m] = f
  BY <1>3, LowerOK
<1>6. ShownOK(sh)' /\ TreeOK(sh)' /\ GroupsOK'
  BY <1>2, Unmoved
<1>7. FramesOK(sh)'
  <2>1. \A d \in 1..m : FrameOK(sh, st[d])'
    BY <1>2, <1>3, LowerOK, Unmoved
  <2>2. \A d \in 1..(m - 1) : d \in 1..m
    BY <1>5
  <2>3. QED
    BY <1>4, <1>5, <2>1, <2>2, FramesAfter
<1>8. CallsOK(sh)'
  <2>1. nested' = nested
    BY <1>2
  <2>2. FirstOK(sh, st[1])' /\ \A d \in 1..m : d > 1 => CallOK(sh, st[d - 1], st[d])'
    BY <1>2, <1>3, <2>1, LowerOK, Unmoved
  <2>3. QED
    BY <1>4, <1>5, <2>2, CallsAfter
<1>9. /\ slots' = slots /\ slots' \subseteq Slot /\ count'[s] = Len(previous'[s]) /\ sh[s] = previous'[s]
      /\ \A x \in Slot : x # s => count'[x] = count[x] /\ previous'[x] = previous[x]
      /\ count' \in [Slot -> Nat] /\ previous' \in [Slot -> Seq(Ordinary)]
  BY <1>1, <1>2, <1>3 DEF Typed
<1>10. SettledOK(sh)'
  <2>1. k = m - 1 /\ FoundRun(st[m]) => sh[st[m].slot] = previous'[st[m].slot]
    BY <1>5, <1>9
  <2>2. \A x \in Slot : \/ (x \in slots' => x \in slots) /\ count'[x] = count[x] /\ previous'[x] = previous[x]
                        \/ count'[x] = Len(previous'[x]) /\ sh[x] = previous'[x]
    BY <1>9
  <2>3. QED
    BY <1>1, <1>4, <1>5, <1>9, <2>1, <2>2, SettledAfter
<1>11. Nested(stack)'
  BY <1>1, <1>4, <1>5, NestedAfter
<1>12. OwnersOK(sh)'
  <2>1. NoTaker(f)
    BY <1>3 DEF NoTaker
  <2>2. \A o, t : Claimed(o, t)' <=> Claimed(o, t)
    BY <1>4, <1>5, <2>1, ClaimedAfter
  <2>3. UNCHANGED <<slots, parent, nested>>
    BY <1>2 DEF slot
  <2>4. QED
    BY <1>1, <2>2, <2>3, OwnersAfter
<1>13. Typed'
  BY <1>1, <1>2, <1>4, <1>9 DEF Typed, tree, slot
<1>14. QED
  BY <1>6, <1>7, <1>8, <1>10, <1>11, <1>12, <1>13 DEF Good

\* A walk is not below what the calls around it have yet to reach.
LEMMA NotYet ==
    ASSUME NEW sh, Good(sh), Resolving, NEW d \in DOMAIN stack, d # Len(stack)
    PROVE  /\ IsResolve(stack[d]) =>
                 /\ stack[d].node # Top.node
                 /\ \A j \in DOMAIN Kids[stack[d].node] :
                       j > (IF stack[d].ran THEN stack[d].i ELSE stack[d].i - 1) /\ Kids[stack[d].node][j] \in Ordinary
                          => Top.node \notin Static[Kids[stack[d].node][j]]
           /\ FoundRun(stack[d]) =>
                 \A j \in DOMAIN stack[d].out : j >= stack[d].i => Top.node \notin Static[stack[d].out[j]]
<1>1. /\ Typed /\ ShownOK(sh) /\ SettledOK(sh) /\ FramesOK(sh) /\ Nested(stack) /\ sh \in Shows
  BY GoodIs
<1> PICK x, n, o, m : x = stack[d] /\ n = Top.node /\ o = Top.owner /\ m = Len(stack)
  OBVIOUS
<1>2. /\ stack # <<>> /\ IsResolve(Top) /\ n \in Ordinary /\ o \in Owners /\ n \in Area(sh, o) /\ Rank(Top) = Height[n]
  BY ResolveTop
<1>3. m \in Nat /\ m # 0 /\ m \in DOMAIN stack /\ stack[m] = Top
  BY <1>2, LowerOK
<1>4. d < m /\ x \in Frames /\ Rank(Top) < Rank(x) /\ Rank(Top) \in Nat /\ Rank(x) \in Nat
  BY <1>1, <1>2, TopLowest
<1>5. OwnerOf(x) # o \/ Inside(x, n)
  BY <1>1, <1>2, <1>3, <1>4 DEF Nested
<1>6. FrameOK(sh, x)
  BY <1>1 DEF FramesOK
<1>7. ASSUME IsResolve(x) PROVE x.node # n
  <2> SUFFICES ASSUME x.node = n PROVE FALSE
    OBVIOUS
  <2>1. Rank(x) = Height[n]
    BY <1>7 DEF Rank
  <2>2. QED
    BY <1>2, <1>4, <2>1
<1>8. ASSUME IsResolve(x), NEW j \in DOMAIN Kids[x.node],
             j > (IF x.ran THEN x.i ELSE x.i - 1), Kids[x.node][j] \in Ordinary, n \in Static[Kids[x.node][j]]
      PROVE  FALSE
  <2> PICK y, k, i : y = x.node /\ k = Kids[y][j] /\ i = x.i
    OBVIOUS
  <2>1. /\ y \in Ordinary /\ x.owner \in Owners /\ y \in Area(sh, x.owner) /\ i \in Nat /\ i \in 1..Len(Kids[y]) + 1
    BY <1>4, <1>6, <1>8, FrameIs DEF FrameOK, ResolveOK
  <2>2. k \in OrdinaryKids(y)
    BY <1>8 DEF OrdinaryKids, Range
  <2>3. k \in Static[y]
    BY <2>1, <2>2, StaticFacts
  <2>4. n \in Static[y]
    BY <1>8, <2>1, <2>3, StaticFacts
  <2>5. n \in Area(sh, x.owner)
    BY <1>1, <2>1, <2>4, AreaFacts
  <2>6. x.owner = o
    BY <1>1, <1>2, <2>1, <2>5, AreasApart
  <2>7. Inside(x, n)
    BY <1>5, <1>8, <2>6 DEF OwnerOf
  <2>8. ~FoundRun(x)
    BY <1>4, <1>8, FrameIs
  <2>9. ~x.ran /\ i > 1 /\ Kids[y][i - 1] \in Ordinary /\ n \in Static[Kids[y][i - 1]]
    BY <2>7, <2>8 DEF Inside
  <2>10. i - 1 \in DOMAIN Kids[y] /\ j # i - 1
    <3>1. DOMAIN Kids[y] = 1..Len(Kids[y]) /\ Len(Kids[y]) \in Nat
      BY <2>1, Shape
    <3>2. i - 1 \in DOMAIN Kids[y]
      BY <2>1, <2>9, <3>1
    <3>3. j > i - 1 /\ j \in Nat
      BY <1>8, <2>9, <3>1
    <3>4. QED
      BY <2>1, <3>2, <3>3
  <2>11. Kids[y][i - 1] \in OrdinaryKids(y)
    BY <2>9, <2>10 DEF OrdinaryKids, Range
  <2>12. Kids[y][i - 1] # k
    <3>1. k # None
      BY <1>8, TreeAssumption
    <3>2. QED
      BY <2>1, <2>10, <3>1, OneParent
  <2>13. Static[Kids[y][i - 1]] \intersect Static[k] = {}
    BY <2>1, <2>2, <2>11, <2>12, KidsApart
  <2>14. QED
    BY <1>8, <2>9, <2>13
<1>9. ASSUME FoundRun(x), NEW j \in DOMAIN x.out, j >= x.i, n \in Static[x.out[j]]
      PROVE  FALSE
  <2> PICK s, l, i : s = x.slot /\ l = x.out /\ i = x.i
    OBVIOUS
  <2>1. IsRun(x) /\ ~IsResolve(x)
    BY <1>9 DEF FoundRun, IsRun, IsResolve
  <2>2. s \in Slot /\ s \in Owners /\ l \in Seq(Ordinary) /\ i \in Nat /\ sh[s] = l
    BY <1>1, <1>4, <1>9, <2>1, FrameIs DEF SettledOK, Owners
  <2>3. i \in 1..Len(l) + 1 /\ Len(l) \in Nat /\ DOMAIN l = 1..Len(l)
    BY <1>6, <1>9, <2>1, <2>2, LenProperties DEF FrameOK, RunOK, FoundRun
  <2>4. s # Host
    BY <2>2, TreeAssumption
  <2>5. n \in Area(sh, s)
    BY <1>9, <2>2, <2>4 DEF Area, StaticOf, Range
  <2>6. s = o
    BY <1>1, <1>2, <2>2, <2>5, AreasApart
  <2>7. Inside(x, n)
    BY <1>5, <2>1, <2>6 DEF OwnerOf
  <2>8. i > 1 /\ n \in Static[l[i - 1]]
    BY <2>1, <2>7 DEF Inside
  <2>9. i - 1 \in DOMAIN l /\ j # i - 1
    BY <1>9, <2>2, <2>3, <2>8
  <2>10. l \in Outputs[s]
    <3>1. l # <<>>
      BY <2>9, <2>3
    <3>2. QED
      BY <1>1, <2>2, <3>1 DEF ShownOK
  <2>11. Static[l[i - 1]] \intersect Static[l[j]] = {}
    BY <1>9, <2>2, <2>9, <2>10, EntriesApart
  <2>12. QED
    BY <1>9, <2>8, <2>11
<1>10. QED
  BY <1>7, <1>8, <1>9

\* The group with one more entry.
Joins(n, i, c, e) ==
    /\ n \in Ordinary /\ i \in DOMAIN Kids[n] /\ c \in Slot /\ Kids[n][i] = c /\ c \notin slots
    /\ e \in Entries /\ e.static = Among(n, Ordinary)[i - 1] /\ e.slot = c /\ e.live = TRUE
    /\ Len(group[n]) = Among(n, Slot)[i - 1] /\ \A j \in DOMAIN Kids[n] : j > i => Kids[n][j] \notin slots
    /\ slots' = slots \union {c} /\ parent' = [parent EXCEPT ![c] = n]
    /\ group' = [group EXCEPT ![n] = Append(group[n], e)] /\ place' = [place EXCEPT ![c] = Len(group[n]) + 1]
LEMMA JoinedGroup ==
    ASSUME Typed, GroupsOK, NEW n, NEW i, NEW c, NEW e, Joins(n, i, c, e)
    PROVE  /\ GroupsOK' /\ Len(group'[n]) = Among(n, Slot)[i] /\ \A w \in Ordinary : w # n => group'[w] = group[w]
           /\ group' \in [Ordinary -> Seq(Entries)] /\ place' \in [Slot -> Nat] /\ parent' \in [Slot -> Ordinary]
<1> PICK l, b : l = Append(group[n], e) /\ b = Len(group[n])
  OBVIOUS
<1> USE DEF Joins
<1>1. group[n] \in Seq(Entries) /\ b \in Nat
  BY LenProperties DEF Typed
<1>2. l \in Seq(Entries) /\ Len(l) = b + 1 /\ l[b + 1] = e /\ \A k \in 1..b : l[k] = group[n][k]
  BY <1>1, AppendProperties
<1>3. /\ group' \in [Ordinary -> Seq(Entries)] /\ group'[n] = l
      /\ \A w \in Ordinary : w # n => group'[w] = group[w]
  BY <1>2 DEF Typed
<1>4. /\ place' \in [Slot -> Nat] /\ place'[c] = b + 1 /\ \A t \in Slot : t # c => place'[t] = place[t]
  BY <1>1 DEF Typed
<1>5. /\ parent' \in [Slot -> Ordinary] /\ parent'[c] = n /\ \A t \in Slot : t # c => parent'[t] = parent[t]
  BY DEF Typed
<1>6. Among(n, Slot)[i] = b + 1
  BY AmongNext
<1>7. ASSUME NEW w \in Ordinary, NEW j \in DOMAIN Kids[w], Kids[w][j] \in Slot PROVE EntryOK(w, j)'
  <2> PICK t, k : t = Kids[w][j] /\ k = Among(w, Slot)[j]
    OBVIOUS
  <2>1. EntryOK(w, j)
    BY <1>7 DEF GroupsOK
  <2>2. /\ t \in slots => parent[t] = w /\ place[t] = k /\ k <= Len(group[w])
                          /\ group[w][k].static = Among(w, Ordinary)[j - 1]
        /\ k <= Len(group[w]) => group[w][k].slot = t /\ (group[w][k].live <=> t \in slots)
    BY <2>1 DEF EntryOK
  <2>3. t # None
    BY <1>7, TreeAssumption
  <2>4. SUFFICES /\ t \in slots' => parent'[t] = w /\ place'[t] = k /\ k <= Len(group'[w])
                                    /\ group'[w][k].static = Among(w, Ordinary)[j - 1]
                 /\ k <= Len(group'[w]) => group'[w][k].slot = t /\ (group'[w][k].live <=> t \in slots')
    BY DEF EntryOK
  <2>5. CASE w # n
    <3>1. t # c
      BY <2>3, <2>5, OneParent
    <3>2. (t \in slots' <=> t \in slots) /\ parent'[t] = parent[t] /\ place'[t] = place[t] /\ group'[w] = group[w]
      BY <1>3, <1>4, <1>5, <1>7, <2>5, <3>1
    <3>3. QED
      BY <2>2, <3>2
  <2>6. CASE w = n /\ j = i
    <3>1. t = c /\ k = b + 1
      BY <1>6, <2>6
    <3>2. QED
      BY <1>1, <1>2, <1>3, <1>4, <1>5, <2>6, <3>1
  <2>7. CASE w = n /\ j # i
    <3>1. t # c
      BY <2>3, <2>7, OneParent
    <3>2. (t \in slots' <=> t \in slots) /\ parent'[t] = parent[t] /\ place'[t] = place[t]
      BY <1>4, <1>5, <1>7, <3>1
    <3>3. j \in 1..Len(Kids[n]) /\ i \in 1..Len(Kids[n]) /\ Len(Kids[n]) \in Nat /\ DOMAIN Kids[n] = 1..Len(Kids[n])
      BY <1>7, <2>7, Shape
    <3>4. k \in Nat /\ k # 0
      <4>1. Among(n, Slot)[j] = Among(n, Slot)[j - 1] + 1 /\ Among(n, Slot)[j - 1] \in Nat
        BY <1>7, <2>7, AmongNext
      <4>2. QED
        BY <2>7, <4>1
    <3>5. CASE j < i
      <4>1. j \in 0..Len(Kids[n]) /\ i - 1 \in 0..Len(Kids[n]) /\ j <= i - 1
        <5>1. PICK a : a = Len(Kids[n])
          OBVIOUS
        <5>2. j \in 1..a /\ i \in 1..a /\ a \in Nat
          BY <3>3, <5>1
        <5>3. j \in 0..a /\ i - 1 \in 0..a /\ j <= i - 1
          BY ONLY <3>5, <5>2
        <5>4. QED
          BY <5>1, <5>3
      <4>2. Among(n, Slot)[j] <= Among(n, Slot)[i - 1]
        BY <4>1, AmongGrows
      <4>3. k \in 1..b
        BY <1>1, <2>7, <3>4, <4>2
      <4>4. group'[n][k] = group[n][k] /\ k <= Len(group'[n]) /\ k <= Len(group[n])
        BY <1>1, <1>2, <1>3, <4>3
      <4>5. t \in slots => group'[n][k].static = Among(n, Ordinary)[j - 1]
        <5>1. t \in slots => group[n][k].static = Among(n, Ordinary)[j - 1]
          BY <2>2, <2>7
        <5>2. QED
          BY <4>4, <5>1
      <4>6. group'[w] = group'[n] /\ Among(w, Ordinary)[j - 1] = Among(n, Ordinary)[j - 1] /\ Len(group[w]) = Len(group[n])
        BY <2>7
      <4>7. t \in slots' => /\ parent'[t] = w /\ place'[t] = k /\ k <= Len(group'[w])
                            /\ group'[w][k].static = Among(w, Ordinary)[j - 1]
        BY ONLY <2>2, <3>2, <4>4, <4>5, <4>6
      <4>8. group[w][k].slot = t /\ (group[w][k].live <=> t \in slots) /\ group'[w][k] = group[w][k]
        BY <2>2, <2>7, <4>4
      <4>9. QED
        BY ONLY <3>2, <4>7, <4>8
    <3>6. CASE j > i
      <4>1. t \notin slots'
        BY <2>7, <3>2, <3>3, <3>6
      <4>2. j \in 0..Len(Kids[n]) /\ i \in 0..Len(Kids[n]) /\ i <= j /\ i < j
        BY <3>3, <3>6
      <4>3. Among(n, Slot)[i] < Among(n, Slot)[j]
        BY <1>7, <2>7, <4>2, AmongGrows
      <4>4. ~(k <= Len(group'[n]))
        BY <1>1, <1>2, <1>3, <1>6, <2>7, <3>4, <4>3
      <4>5. QED
        BY <2>7, <4>1, <4>4
    <3>7. j < i \/ j > i
      BY <2>7, <3>3
    <3>8. QED
      BY <3>5, <3>6, <3>7
  <2>8. QED
    BY <2>5, <2>6, <2>7
<1>8. GroupsOK'
  BY <1>7 DEF GroupsOK
<1>9. QED
  BY <1>2, <1>3, <1>4, <1>5, <1>6, <1>8

LEMMA MeetSlotGood ==
    ASSUME NEW sh, Good(sh), MeetSlot
    PROVE  Good(sh)'
<1>1. /\ Typed /\ ShownOK(sh) /\ SettledOK(sh) /\ TreeOK(sh) /\ GroupsOK /\ OwnersOK(sh)
      /\ FramesOK(sh) /\ CallsOK(sh) /\ Nested(stack) /\ sh \in Shows
  BY GoodIs
<1> PICK f, n, i, c, o, g, h, e, st, q, m :
        /\ f = Top /\ n = f.node /\ i = f.i /\ c = Child /\ o = f.owner
        /\ g = [f EXCEPT !.ran = TRUE] /\ h = Run(c)
        /\ e = [static |-> f.static, slot |-> c, live |-> TRUE]
        /\ st = stack /\ q = stack' /\ m = Len(stack)
  OBVIOUS
<1>2. AtChild /\ Resolving /\ c \in Slot /\ f.ran = FALSE /\ Call(g, h)
  <2>1. AtChild /\ Resolving /\ c \in Slot /\ ~f.ran /\ Call(g, h)
    BY DEF MeetSlot, AtChild
  <2>2. f.ran \in BOOLEAN
    BY <2>1, ResolveTop
  <2>3. QED
    BY <2>1, <2>2
<1>3. /\ stack # <<>> /\ f \in ResolveFrame /\ f \in Frames /\ IsResolve(f) /\ ResolveOK(sh, f) /\ n \in Ordinary
      /\ i \in DOMAIN Kids[n] /\ Kids[n][i] = c /\ i \in Nat /\ o \in Owners /\ n \in Area(sh, o) /\ f.at = n
      /\ n \in alive /\ f.static \in Nat /\ Rank(f) = Height[n]
  BY <1>2, ResolveTop
<1>4. /\ slots' = slots \union {c} /\ parent' = [parent EXCEPT ![c] = n]
      /\ group' = [group EXCEPT ![n] = Append(group[n], e)] /\ place' = [place EXCEPT ![c] = Len(group[n]) + 1]
      /\ count' = [count EXCEPT ![c] = 0] /\ previous' = [previous EXCEPT ![c] = <<>>]
      /\ alive' = alive /\ children' = children /\ nested' = nested
  <2>1. group' = [group EXCEPT ![n] = Append(@, e)]
    BY <1>3 DEF MeetSlot
  <2>2. QED
    BY <1>3, <2>1 DEF MeetSlot, tree
<1>5. c \in Range(Kids[n]) /\ c # None /\ c \notin Ordinary
  BY <1>2, <1>3, TreeAssumption DEF Range
<1>6. \A j \in DOMAIN Kids[n] : j > i - 1 => Kids[n][j] \notin slots /\ (Kids[n][j] \in Ordinary => Bare(Kids[n][j]))
  BY <1>2, <1>3 DEF ResolveOK
<1>7. c \notin slots
  <2>1. i > i - 1
    BY <1>3
  <2>2. QED
    BY <1>3, <1>6, <2>1
<1>8. sh[c] = <<>> /\ nested[c] = <<>>
  BY <1>1, <1>2, <1>7 DEF ShownOK, OwnersOK
<1>9. \A j \in DOMAIN Kids[n] : j > i => j > i - 1 /\ Kids[n][j] # c
  <2>1. \A j \in DOMAIN Kids[n] : j > i => j > i - 1 /\ j # i
    BY <1>3, Shape
  <2>2. QED
    BY <1>3, <1>5, <2>1, OneParent
<1>10. f.static = Among(n, Ordinary)[i - 1] /\ Len(group[n]) = Among(n, Slot)[i - 1]
  BY <1>2, <1>3 DEF ResolveOK
<1>11. e \in Entries /\ e.slot = c /\ e.live = TRUE /\ e.static = Among(n, Ordinary)[i - 1]
  BY <1>2, <1>3, <1>10 DEF Entries
<1>12. /\ GroupsOK' /\ Len(group'[n]) = Among(n, Slot)[i] /\ \A w \in Ordinary : w # n => group'[w] = group[w]
       /\ group' \in [Ordinary -> Seq(Entries)] /\ place' \in [Slot -> Nat] /\ parent' \in [Slot -> Ordinary]
  <2>1. \A j \in DOMAIN Kids[n] : j > i => Kids[n][j] \notin slots
    BY <1>6, <1>9
  <2>2. QED
    <3>1. Joins(n, i, c, e)
      BY <1>2, <1>3, <1>4, <1>7, <1>10, <1>11, <2>1 DEF Joins
    <3>2. QED
      BY <1>1, <3>1, JoinedGroup
<1>13. parent'[c] = n /\ \A t \in slots : t # c /\ t \in Slot /\ t \in slots' /\ parent'[t] = parent[t]
  BY <1>1, <1>2, <1>4, <1>7 DEF Typed
<1>14. ShownOK(sh)'
  BY <1>1, <1>4 DEF ShownOK
<1>15. TreeOK(sh)'
  <2>1. Area(sh, c) = {}
    <3>1. c # Host
      BY <1>2, TreeAssumption
    <3>2. Range(sh[c]) = {}
      BY <1>8 DEF Range
    <3>3. QED
      BY <3>1, <3>2 DEF Area, StaticOf
  <2>2. UNION {Area(sh, p) : p \in slots' \union {Host}} = UNION {Area(sh, p) : p \in slots \union {Host}}
    BY <1>4, <2>1
  <2>3. \A t \in slots' : parent'[t] \in alive /\ t \in Range(Kids[parent'[t]])
    BY <1>1, <1>3, <1>4, <1>5, <1>13 DEF TreeOK
  <2>4. QED
    BY <1>1, <1>4, <2>2, <2>3 DEF TreeOK
<1>16. ASSUME NEW k \in Ordinary, Bare(k), n \notin Static[k] PROVE Bare(k)'
  <2> SUFFICES ASSUME NEW t \in slots' PROVE parent'[t] \notin Static[k]
    BY DEF Bare
  <2>1. QED
    BY <1>4, <1>13, <1>16 DEF Bare
<1>17. /\ g \in Frames /\ IsResolve(g) /\ g.node = n /\ g.i = i /\ g.ran = TRUE /\ g.owner = o
       /\ g.at = f.at /\ g.static = f.static /\ g.real = f.real
  <2>1. /\ g \in ResolveFrame /\ g.op = f.op /\ g.node = f.node /\ g.i = f.i /\ g.ran = TRUE
        /\ g.owner = f.owner /\ g.at = f.at /\ g.static = f.static /\ g.real = f.real
    BY <1>3 DEF ResolveFrame
  <2>2. QED
    BY <1>3, <2>1 DEF Frames, IsResolve
<1>18. h \in Frames /\ IsRun(h) /\ ~IsResolve(h) /\ ~IsDestroy(h) /\ h.slot = c /\ h.found = FALSE /\ h.i = 1
  BY <1>2 DEF Run, Frames, RunFrame, IsRun, IsResolve, IsDestroy
<1>19. GoesOn(f, g)
  BY <1>3, <1>17 DEF GoesOn, Alike, IsResolve, FoundRun, IsRun
<1>20. After(st, q, m, m + 1) /\ q \in Seq(Frames) /\ q[m] = g /\ q[m + 1] = h
  BY <1>1, <1>2, <1>3, <1>17, <1>18, <1>19, CallAfter
<1>21. m \in Nat /\ m # 0 /\ m + 1 # m - 1 /\ m # m + 1 /\ st[m] = f /\ m \in DOMAIN stack
  BY <1>3, LowerOK
<1>22. ASSUME NEW d \in 1..(m - 1) PROVE FrameOK(sh, st[d])'
  <2> PICK x : x = stack[d]
    OBVIOUS
  <2>1. d \in 1..m /\ d # m
    BY <1>21
  <2>2. FrameOK(sh, x) /\ d \in DOMAIN stack /\ x \in Frames
    BY <1>3, <2>1, LowerOK
  <2>3. CASE IsResolve(x)
    <3> PICK y, a : y = x.node /\ a = (IF x.ran THEN x.i ELSE x.i - 1)
      OBVIOUS
    <3>1. ResolveOK(sh, x) /\ y \in Ordinary
      BY <2>2, <2>3, FrameIs DEF FrameOK
    <3>2. y # n
      BY <1>2, <2>1, <2>2, <2>3, NotYet
    <3>3. \A j \in DOMAIN Kids[y] : j > a /\ Kids[y][j] \in Ordinary => n \notin Static[Kids[y][j]]
      BY <1>2, <2>1, <2>2, <2>3, NotYet
    <3>4. ASSUME NEW j \in DOMAIN Kids[y], j > a
          PROVE  Kids[y][j] \notin slots' /\ (Kids[y][j] \in Ordinary => Bare(Kids[y][j])')
      <4>1. Kids[y][j] \notin slots /\ (Kids[y][j] \in Ordinary => Bare(Kids[y][j]))
        BY <3>1, <3>4 DEF ResolveOK
      <4>2. Kids[y][j] # c
        BY <1>3, <1>5, <3>1, <3>2, OneParent
      <4>3. ASSUME Kids[y][j] \in Ordinary PROVE Bare(Kids[y][j])'
        BY <1>16, <3>3, <3>4, <4>1, <4>3
      <4>4. QED
        BY <1>4, <4>1, <4>2, <4>3
    <3>5. group'[y] = group[y]
      BY <1>12, <3>1, <3>2, SMTT(40)
    <3>6. ResolveOK(sh, x)'
      BY <1>4, <3>1, <3>4, <3>5 DEF ResolveOK
    <3>7. QED
      BY <2>2, <2>3, <3>6, FrameIs DEF FrameOK
  <2>4. CASE IsRun(x)
    <3>1. RunOK(sh, x) /\ x.slot \in slots
      BY <2>2, <2>4 DEF FrameOK, RunOK
    <3>2. parent'[x.slot] = parent[x.slot] /\ x.slot \in slots'
      BY <1>13, <3>1
    <3>3. ASSUME x.found, NEW j \in DOMAIN x.out, j >= x.i PROVE Bare(x.out[j])'
      <4>1. FoundRun(x) /\ x.out \in Seq(Ordinary)
        BY <2>2, <2>4, <3>3, FrameIs DEF FoundRun
      <4>2. n \notin Static[x.out[j]]
        BY <1>2, <2>1, <2>2, <3>3, <4>1, NotYet
      <4>3. Bare(x.out[j]) /\ x.out[j] \in Ordinary
        <5>1. x.out[j] \in Ordinary
          BY <3>3, <4>1, ElementOfSeq
        <5>2. QED
          BY <3>1, <3>3, <5>1 DEF RunOK
      <4>4. QED
        BY <1>16, <4>2, <4>3
    <3>4. RunOK(sh, x)'
      BY <3>1, <3>2, <3>3 DEF RunOK
    <3>5. QED
      BY <2>2, <2>4, <3>4, FrameIs DEF FrameOK
  <2>5. CASE IsDestroy(x)
    BY <1>13, <2>2, <2>5, FrameIs DEF FrameOK
  <2>6. QED
    BY <2>2, <2>3, <2>4, <2>5, FrameIs
<1>23. FrameOK(sh, g)'
  <2>1. ASSUME NEW j \in DOMAIN Kids[n], j > i
        PROVE  Kids[n][j] \notin slots' /\ (Kids[n][j] \in Ordinary => Bare(Kids[n][j])')
    <3>1. Kids[n][j] \notin slots /\ (Kids[n][j] \in Ordinary => Bare(Kids[n][j])) /\ Kids[n][j] # c
      BY <1>6, <1>9, <2>1
    <3>2. ASSUME Kids[n][j] \in Ordinary PROVE Bare(Kids[n][j])'
      <4>1. Kids[n][j] \in OrdinaryKids(n)
        BY <2>1, <3>2 DEF OrdinaryKids, Range
      <4>2. Height[Kids[n][j]] < Height[n] /\ Height[Kids[n][j]] \in Nat /\ Height[n] \in Nat
        BY <1>3, <3>2, <4>1, Shape
      <4>3. n \notin Static[Kids[n][j]]
        <5>1. n \in Static[Kids[n][j]] => Height[n] <= Height[Kids[n][j]]
          BY <3>2, StaticFacts
        <5>2. QED
          BY <4>2, <5>1
      <4>4. QED
        BY <1>16, <3>1, <3>2, <4>3
    <3>3. QED
      BY <1>4, <3>1, <3>2
  <2>2. i <= Len(Kids[n])
    BY <1>3, Shape
  <2>3. ResolveOK(sh, g)'
    BY <1>3, <1>4, <1>12, <1>17, <2>1, <2>2 DEF ResolveOK
  <2>4. QED
    BY <1>17, <2>3, FrameIs DEF FrameOK
<1>24. FrameOK(sh, h)'
  BY <1>4, <1>18 DEF FrameOK, RunOK
<1>25. FramesOK(sh)'
  BY <1>20, <1>21, <1>22, <1>23, <1>24, FramesAfter
<1>26. CallsOK(sh)'
  <2>1. ASSUME NEW d \in 1..m, d > 1 PROVE CallOK(sh, st[d - 1], st[d])'
    <3>1. CallOK(sh, st[d - 1], st[d]) /\ st[d] \in Frames /\ FrameOK(sh, st[d])
      BY <1>3, <2>1, LowerOK
    <3>2. IsDestroy(st[d]) => parent'[st[d].slot] = parent[st[d].slot]
      BY <1>13, <3>1 DEF FrameOK
    <3>3. QED
      BY <1>4, <3>1, <3>2 DEF CallOK
  <2>2. FirstOK(sh, st[1])'
    <3>1. 1 \in 1..m
      BY <1>21
    <3>2. FirstOK(sh, st[1]) /\ FrameOK(sh, st[1])
      BY <1>3, <3>1, LowerOK
    <3>3. IsDestroy(st[1]) => parent'[st[1].slot] = parent[st[1].slot]
      BY <1>13, <3>2 DEF FrameOK
    <3>4. QED
      BY <3>2, <3>3 DEF FirstOK
  <2>3. CallOK(sh, g, h)'
    BY <1>3, <1>4, <1>8, <1>17, <1>18 DEF CallOK
  <2>4. QED
    BY <1>20, <1>21, <2>1, <2>2, <2>3, CallsAfter
<1>27. SettledOK(sh)'
  <2>1. ~FoundRun(q[m]) /\ ~FoundRun(q[m + 1])
    BY <1>17, <1>18, <1>20 DEF FoundRun, IsRun, IsResolve
  <2>2. slots' \subseteq Slot
    BY <1>1, <1>2, <1>4 DEF Typed
  <2>3. count'[c] = Len(previous'[c]) /\ sh[c] = previous'[c]
    BY <1>1, <1>2, <1>4, <1>8 DEF Typed
  <2>4. \A s \in Slot : s # c => (s \in slots' => s \in slots) /\ count'[s] = count[s] /\ previous'[s] = previous[s]
    BY <1>1, <1>4 DEF Typed
  <2>5. \A s \in Slot : \/ (s \in slots' => s \in slots) /\ count'[s] = count[s] /\ previous'[s] = previous[s]
                        \/ count'[s] = Len(previous'[s]) /\ sh[s] = previous'[s]
    BY <2>3, <2>4
  <2>6. sh[q[m + 1].slot] = previous'[q[m + 1].slot]
    BY <1>18, <1>20, <2>3
  <2>7. QED
    BY <1>1, <1>20, <1>21, <2>1, <2>2, <2>5, <2>6, SettledAfter
<1>28. Nested(stack)'
  <2>1. Rank(h) < Rank(g)
    BY <1>2, <1>3, <1>5, <1>17, <1>18, Shape DEF Rank
  <2>2. Fits(q, m, h)
    BY <1>18, <1>20, <2>1 DEF Fits
  <2>3. QED
    BY <1>1, <1>20, <1>21, <2>2, NestedAfter
<1>29. /\ \A d \in DOMAIN st : d = m \/ d \in 1..(m - 1)
       /\ \A d \in DOMAIN q : d = m \/ d = m + 1 \/ d \in 1..(m - 1)
       /\ \A d \in 1..(m - 1) : d \in DOMAIN q /\ d \in DOMAIN st /\ q[d] = st[d]
       /\ m - 1 \in Nat /\ m \in DOMAIN q
  <2>1. \A d \in DOMAIN st : d = m \/ d \in 1..(m - 1)
    BY <1>20, <1>21, AfterIs
  <2>2. QED
    BY <1>20, <1>21, <2>1, AfterIs
<1>30. \A p, t : \A d \in 1..(m - 1) : Taken(p, t, d)' <=> Taken(p, t, d)
  BY <1>29, TakenAfter
<1>31. OwnersOK(sh)'
  <2>1. ASSUME NEW p \in Owners
        PROVE  /\ IsInjective(nested'[p])
               /\ \A t \in Range(nested'[p]) : t \in slots' /\ parent'[t] \in Area(sh, p)
    BY <1>1, <1>4, <1>13, <2>1 DEF OwnersOK
  <2>2. ASSUME NEW s \in Slot \ slots' PROVE nested'[s] = <<>>
    BY <1>1, <1>4, <2>2 DEF OwnersOK
  <2>3. ASSUME NEW t \in slots'
        PROVE  \E p \in Owners : /\ parent'[t] \in Area(sh, p)
                                 /\ t \in Range(nested'[p]) \/ \E d \in DOMAIN stack' : Taken(p, t, d)'
    <3>1. CASE t = c
      <4>1. Taken(o, c, m)'
        BY <1>3, <1>17, <1>20 DEF Taken
      <4>2. QED
        BY <1>3, <1>13, <1>29, <3>1, <4>1
    <3>2. CASE t # c
      <4>1. t \in slots /\ parent'[t] = parent[t]
        BY <1>4, <1>13, <2>3, <3>2
      <4>2. PICK p \in Owners : /\ parent[t] \in Area(sh, p)
                                /\ t \in Range(nested[p]) \/ \E d \in DOMAIN stack : Taken(p, t, d)
        BY <1>1, <4>1 DEF OwnersOK
      <4>3. CASE t \in Range(nested[p])
        BY <1>4, <4>1, <4>2, <4>3
      <4>4. CASE \E d \in DOMAIN stack : Taken(p, t, d)
        <5>1. PICK d \in DOMAIN stack : Taken(p, t, d)
          BY <4>4
        <5>2. d # m
          BY <1>2, <1>3, <1>21, <5>1, FrameIs DEF Taken
        <5>3. d \in DOMAIN q /\ Taken(p, t, d)'
          BY <1>29, <1>30, <5>1, <5>2
        <5>4. QED
          BY <4>1, <4>2, <5>3
      <4>5. QED
        BY <4>2, <4>3, <4>4
    <3>3. QED
      BY <3>1, <3>2
  <2>4. ASSUME NEW d \in DOMAIN stack', NEW p \in Owners, NEW r \in Owners, NEW t \in Slot, Taken(p, t, d)'
        PROVE  t \notin Range(nested'[r])
    <3>1. CASE d \in 1..(m - 1)
      <4>1. Taken(p, t, d) /\ d \in DOMAIN stack
        BY <1>29, <1>30, <2>4, <3>1
      <4>2. QED
        BY <1>1, <1>4, <4>1 DEF OwnersOK
    <3>2. CASE d = m
      <4>1. t = c
        <5>1. ~IsDestroy(q[m]) /\ Kids[q[m].node][q[m].i] = c
          BY <1>3, <1>17, <1>20, FrameIs
        <5>2. QED
          BY <2>4, <3>2, <5>1 DEF Taken
      <4>2. QED
        BY <1>1, <1>4, <1>7, <4>1 DEF OwnersOK
    <3>3. CASE d = m + 1
      BY <1>18, <1>20, <2>4, <3>3 DEF Taken
    <3>4. QED
      BY <1>29, <2>4, <3>1, <3>2, <3>3
  <2>5. QED
    BY <2>1, <2>2, <2>3, <2>4 DEF OwnersOK
<1>32. Typed'
  <2>1. slots' \subseteq Slot /\ count' \in [Slot -> Nat] /\ previous' \in [Slot -> Seq(Ordinary)]
    BY <1>1, <1>2, <1>4 DEF Typed
  <2>2. QED
    BY <1>1, <1>4, <1>12, <1>20, <2>1 DEF Typed
<1>33. QED
  BY <1>12, <1>14, <1>15, <1>25, <1>26, <1>27, <1>28, <1>31, <1>32 DEF Good

\* The calls around one that clears: none is for its slot, and only the caller is
\* at its <Slot>.
LEMMA AroundClearing ==
    ASSUME NEW sh, Good(sh), stack # <<>>, Clears(Top), NEW d \in DOMAIN stack, d # Len(stack),
           NEW x, x = stack[d], NEW s, s = Top.slot
    PROVE  /\ ~IsResolve(x) => x.slot # s
           /\ IsResolve(x) => x.owner # s
           /\ IsRun(x) => s \notin Range(Kids[parent[x.slot]])
           /\ IsRun(Top) /\ IsResolve(x) => \A j \in DOMAIN Kids[x.node] : Kids[x.node][j] = s => x.i = j
<1>1. /\ Typed /\ ShownOK(sh) /\ SettledOK(sh) /\ TreeOK(sh) /\ FramesOK(sh) /\ CallsOK(sh) /\ Nested(stack) /\ sh \in Shows
  BY GoodIs
<1>2. s \in slots /\ s \in Slot /\ parent[s] \in Ordinary /\ ~IsResolve(Top) /\ s \in Range(Kids[parent[s]])
  BY <1>1, ClearingIs DEF TreeOK
<1>3. x \in Frames /\ FrameOK(sh, x)
  <2>1. FrameOK(sh, x)
    BY <1>1 DEF FramesOK
  <2>2. QED
    BY <1>1, <2>1, TopLowest
<1>4. ~IsResolve(x) => x.slot # s
  BY <1>1, <1>2, OneCall
<1>5. IsResolve(x) => x.owner # s
  <2> SUFFICES ASSUME IsResolve(x), x.owner = s PROVE FALSE
    OBVIOUS
  <2>1. x.owner # Host
    BY <1>2, TreeAssumption
  <2>2. QED
    BY <1>1, <1>2, <2>1, OwnerCalls
<1>6. IsRun(x) => s \notin Range(Kids[parent[x.slot]])
  <2> SUFFICES ASSUME IsRun(x), s \in Range(Kids[parent[x.slot]]) PROVE FALSE
    OBVIOUS
  <2> PICK t : t = x.slot
    OBVIOUS
  <2>1. t \in Slot /\ t \in slots /\ ~IsResolve(x)
    BY <1>3, FrameIs DEF FrameOK, RunOK
  <2>2. parent[t] \in Ordinary /\ t \in Range(Kids[parent[t]])
    BY <1>1, <2>1 DEF Typed, TreeOK
  <2>3. parent[t] = parent[s]
    BY <1>2, <2>2, OneParentOf
  <2>4. t \in Range(Kids[parent[s]])
    BY <2>2, <2>3
  <2>5. QED
    BY <1>2, <2>1, <2>4, NoSiblingCall
<1>7. ASSUME IsRun(Top), IsResolve(x), NEW j \in DOMAIN Kids[x.node], Kids[x.node][j] = s PROVE x.i = j
  <2> PICK y, m, e : y = x.node /\ m = Len(stack) /\ e = stack[m - 1]
    OBVIOUS
  <2>1. y \in Ordinary /\ Rank(x) = Height[y]
    BY <1>3, <1>7, FrameIs DEF Rank
  <2>2. /\ d \in 1..(m - 1) /\ m \in Nat /\ m \in DOMAIN stack /\ stack[m] = Top /\ DOMAIN stack = 1..m
    <3>1. m \in Nat /\ m \in DOMAIN stack /\ stack[m] = Top
      BY LowerOK
    <3>2. DOMAIN stack = 1..m
      BY <1>1, TopIs DEF IsStack
    <3>3. QED
      BY <3>1, <3>2
  <2>3. m > 1 /\ m - 1 \in DOMAIN stack
    BY <2>2
  <2>4. CallOK(sh, e, Top) /\ e \in Frames /\ FrameOK(sh, e)
    <3>1. CallOK(sh, e, Top) /\ FrameOK(sh, e)
      BY <1>1, <2>2, <2>3 DEF CallsOK, FramesOK
    <3>2. m - 1 # Len(stack)
      BY <2>2
    <3>3. QED
      BY <1>1, <2>3, <3>1, <3>2, TopLowest
  <2>5. IsResolve(e) /\ e.ran /\ Kids[e.node][e.i] = s
    BY <1>7, <2>4 DEF CallOK, IsRun, IsDestroy, IsResolve
  <2>6. e.node \in Ordinary /\ e.i \in DOMAIN Kids[e.node]
    <3>1. e.node \in Ordinary /\ e.i \in Nat /\ ResolveOK(sh, e)
      BY <2>4, <2>5, FrameIs DEF FrameOK
    <3>2. e.i \in 1..Len(Kids[e.node]) + 1 /\ e.i <= Len(Kids[e.node])
      BY <2>5, <3>1 DEF ResolveOK
    <3>3. QED
      BY <3>1, <3>2, Shape
  <2>7. e.node = y /\ e.i = j
    <3>1. s # None
      BY <1>2, TreeAssumption
    <3>2. QED
      BY <1>7, <2>1, <2>5, <2>6, <3>1, OneParent
  <2>8. Rank(e) = Rank(x) /\ Rank(x) \in Nat
    <3>1. Rank(e) = Height[y]
      BY <2>5, <2>7 DEF Rank
    <3>2. QED
      BY <1>3, <2>1, <3>1, FrameIs
  <2>9. ~(d < m - 1)
    <3>1. d < m - 1 => Rank(e) < Rank(x)
      BY <1>1, <2>3 DEF Nested
    <3>2. QED
      BY <2>8, <3>1
  <2>10. d = m - 1
    BY <2>2, <2>9
  <2>11. QED
    BY <2>7, <2>10
<1>8. QED
  BY <1>4, <1>5, <1>6, <1>7

\* The frames and calls around a slot whose output changes.
LEMMA AroundSplice ==
    ASSUME NEW sh, Good(sh), stack # <<>>, Clears(Top), IsRun(Top), NEW s, s = Top.slot,
           NEW l \in Seq(Ordinary), NEW to, to = [sh EXCEPT ![s] = l],
           UNCHANGED <<slots, slot, nested>>, NEW d \in DOMAIN stack, d # Len(stack), NEW x, x = stack[d]
    PROVE  FrameOK(to, x)'
<1>1. /\ Typed /\ ShownOK(sh) /\ FramesOK(sh) /\ Nested(stack) /\ sh \in Shows
  BY GoodIs
<1>2. s \in slots /\ s \in Slot /\ s # None /\ s # Host
  BY <1>1, ClearingIs, TreeAssumption
<1>3. /\ to \in Shows /\ to[s] = l /\ \A t \in Slot : t # s => to[t] = sh[t]
      /\ \A o : (o = Host \/ o \in Slot) /\ o # s => Area(to, o) = Area(sh, o)
  <2>1. to \in Shows /\ to[s] = l /\ \A t \in Slot : t # s => to[t] = sh[t]
    BY <1>1, <1>2 DEF Shows
  <2>2. QED
    BY <2>1 DEF Area
<1>4. x \in Frames /\ FrameOK(sh, x)
  <2>1. FrameOK(sh, x)
    BY <1>1 DEF FramesOK
  <2>2. QED
    BY <1>1, <2>1, TopLowest
<1>5. /\ ~IsResolve(x) => x.slot # s
      /\ IsResolve(x) => x.owner # s
      /\ IsRun(x) => s \notin Range(Kids[parent[x.slot]])
      /\ IsResolve(x) => \A j \in DOMAIN Kids[x.node] : Kids[x.node][j] = s => x.i = j
  BY AroundClearing
<1>6. slots' = slots /\ parent' = parent /\ group' = group /\ \A k : Bare(k)' <=> Bare(k)
  BY DEF slot, Bare
<1>7. CASE IsResolve(x)
  <2> PICK y, i : y = x.node /\ i = x.i
    OBVIOUS
  <2>1. ResolveOK(sh, x) /\ y \in Ordinary /\ x.owner \in Owners /\ i \in Nat /\ i \in 1..Len(Kids[y]) + 1
    BY <1>4, <1>7, FrameIs DEF FrameOK, ResolveOK
  <2>2. DOMAIN Kids[y] = 1..Len(Kids[y]) /\ Len(Kids[y]) \in Nat
    BY <2>1, Shape
  <2>3. \A j \in 1..(i - 1) : j \in DOMAIN Kids[y] /\ j # i
    BY <2>1, <2>2
  <2>4. i - 1 \in 0..Len(Kids[y])
    BY <2>1, <2>2
  <2>5. \A j \in 1..(i - 1) : Kids[y][j] \in Slot => sh[Kids[y][j]] = to[Kids[y][j]]
    BY <1>3, <1>5, <1>7, <2>3
  <2>6. Upto(sh, y)[i - 1] = Upto(to, y)[i - 1]
    <3> PICK b : b = i - 1
      OBVIOUS
    <3>1. b \in 0..Len(Kids[y]) /\ \A j \in 1..b : Kids[y][j] \in Slot => sh[Kids[y][j]] = to[Kids[y][j]]
      BY <2>4, <2>5
    <3>2. Upto(sh, y)[b] = Upto(to, y)[b]
      BY ONLY <1>1, <1>3, <2>1, <3>1, UptoSame
    <3>3. QED
      BY <3>2
  <2>7. Area(to, x.owner) = Area(sh, x.owner)
    BY <1>3, <1>5, <1>7, <2>1 DEF Owners
  <2>8. ResolveOK(to, x)'
    BY <1>6, <2>1, <2>6, <2>7 DEF ResolveOK
  <2>9. QED
    BY <1>4, <1>7, <2>8, FrameIs DEF FrameOK
<1>8. CASE IsRun(x)
  <2> PICK t, y : t = x.slot /\ y = parent[t]
    OBVIOUS
  <2>1. RunOK(sh, x) /\ t \in Slot /\ y \in Ordinary
    BY <1>1, <1>4, <1>8, FrameIs DEF FrameOK, Typed
  <2>2. ASSUME NEW r \in DOMAIN Kids[y] PROVE Upto(sh, y)[r - 1] = Upto(to, y)[r - 1]
    <3>1. r - 1 \in 0..Len(Kids[y]) /\ \A j \in 1..(r - 1) : j \in DOMAIN Kids[y]
      BY <2>1, Shape
    <3>2. \A j \in 1..(r - 1) : Kids[y][j] # s
      BY <1>5, <1>8, <3>1 DEF Range
    <3>3. \A j \in 1..(r - 1) : Kids[y][j] \in Slot => sh[Kids[y][j]] = to[Kids[y][j]]
      BY <1>3, <3>2
    <3> PICK b : b = r - 1
      OBVIOUS
    <3>4. b \in 0..Len(Kids[y]) /\ \A j \in 1..b : Kids[y][j] \in Slot => sh[Kids[y][j]] = to[Kids[y][j]]
      BY <3>1, <3>3
    <3>5. Upto(sh, y)[b] = Upto(to, y)[b]
      BY ONLY <1>1, <1>3, <2>1, <3>4, UptoSame
    <3>6. QED
      BY <3>5
  <2>3. parent'[t] = y /\ parent[t] = y /\ t = x.slot
    BY <1>6
  <2>4. t \in slots' /\ (~x.found => x.i = 1) /\ (x.found => x.i \in 1..Len(x.out) + 1)
    BY <1>6, <2>1, <2>3 DEF RunOK
  <2>5. ASSUME x.found, NEW r \in DOMAIN Kids[y], Kids[y][r] = t PROVE x.base = Len(Upto(to, y)[r - 1])
    <3>1. x.base = Len(Upto(sh, y)[r - 1])
      BY <2>1, <2>3, <2>5 DEF RunOK
    <3>2. Upto(sh, y)[r - 1] = Upto(to, y)[r - 1]
      BY <2>2
    <3>3. QED
      BY <3>1, <3>2
  <2>5a. ASSUME x.found, NEW j \in DOMAIN x.out, j >= x.i PROVE Bare(x.out[j])'
    BY <1>6, <2>1, <2>5a DEF RunOK
  <2>6. RunOK(to, x)'
    <3>1. parent'[x.slot] = y /\ x.slot \in slots' /\ x.found \in BOOLEAN
      BY <1>4, <1>8, <2>3, <2>4, FrameIs
    <3>2. CASE x.found = TRUE
      <4>1. \A r \in DOMAIN Kids[y] : Kids[y][r] = x.slot => x.base = Len(Upto(to, y)[r - 1])
        BY <2>3, <2>5, <3>2
      <4>2. x.i \in 1..Len(x.out) + 1 /\ \A j \in DOMAIN x.out : j >= x.i => Bare(x.out[j])'
        BY <2>4, <2>5a, <3>2
      <4>3. QED
        BY <3>1, <3>2, <4>1, <4>2 DEF RunOK
    <3>3. CASE x.found = FALSE
      BY <2>4, <3>1, <3>3 DEF RunOK
    <3>4. QED
      BY <3>1, <3>2, <3>3
  <2>7. QED
    BY <1>4, <1>8, <2>6, FrameIs DEF FrameOK
<1>9. CASE IsDestroy(x)
  BY <1>4, <1>6, <1>9, FrameIs DEF FrameOK
<1>10. QED
  BY <1>4, <1>7, <1>8, <1>9, FrameIs

LEMMA SpliceGood ==
    ASSUME NEW sh, Good(sh), Splice
    PROVE  \E to \in Shows : Good(to)'
<1>1. /\ Typed /\ ShownOK(sh) /\ SettledOK(sh) /\ TreeOK(sh) /\ GroupsOK /\ OwnersOK(sh)
      /\ FramesOK(sh) /\ CallsOK(sh) /\ Nested(stack) /\ sh \in Shows
  BY GoodIs
<1> PICK f, s, w, old, base, st, q, m :
        /\ f = Top /\ s = f.slot /\ w = parent[s] /\ old = previous[s] /\ base = AbsoluteIndexOf(s)
        /\ st = stack /\ q = stack' /\ m = Len(stack)
  OBVIOUS
<1>2. PICK l \in Outputs[s] :
        /\ Rebuilt(w, Spliced(w, base, Len(old), l), BelowOf(Range(old) \ Range(l)), StaticOf(Range(l) \ Range(old)))
        /\ Goto([f EXCEPT !.found = TRUE, !.base = base, !.out = l])
  <2>1. PICK l \in Outputs[Top.slot] :
           /\ Rebuilt(parent[Top.slot],
                      Spliced(parent[Top.slot], AbsoluteIndexOf(Top.slot), Len(previous[Top.slot]), l),
                      BelowOf(Range(previous[Top.slot]) \ Range(l)), StaticOf(Range(l) \ Range(previous[Top.slot])))
           /\ Goto([Top EXCEPT !.found = TRUE, !.base = AbsoluteIndexOf(Top.slot), !.out = l])
    BY Zenon DEF Splice
  <2>2. l \in Outputs[s]
    OBVIOUS
  <2>3. Rebuilt(w, Spliced(w, base, Len(old), l), BelowOf(Range(old) \ Range(l)), StaticOf(Range(l) \ Range(old)))
    BY <2>1, Zenon
  <2>4. Goto([f EXCEPT !.found = TRUE, !.base = base, !.out = l])
    BY <2>1
  <2>5. QED
    BY <2>2, <2>3, <2>4, Zenon
<1> PICK g, to : g = [f EXCEPT !.found = TRUE, !.base = base, !.out = l] /\ to = [sh EXCEPT ![s] = l]
  OBVIOUS
<1>3. /\ stack # <<>> /\ IsRun(f) /\ ~f.found /\ Clears(f) /\ nested[s] = <<>> /\ Goto(g)
      /\ UNCHANGED <<slots, slot, state, nested>>
  BY <1>2 DEF Splice, Running, IsRun, Clears
<1>4. /\ s \in slots /\ s \in Slot /\ w \in Ordinary /\ ~FoundRun(f) /\ ~IsResolve(f)
      /\ sh[s] = old /\ count[s] = Len(sh[s])
      /\ \E r \in DOMAIN Kids[w] : Kids[w][r] = s /\ base = Len(Upto(sh, w)[r - 1])
  BY <1>3, ClearingIs
<1>5. PICK r \in DOMAIN Kids[w] : Kids[w][r] = s /\ base = Len(Upto(sh, w)[r - 1])
  BY <1>4
<1>6. l \in Seq(Ordinary) /\ f \in Frames /\ f \in RunFrame /\ s # Host /\ s # None /\ f.i = 1
  <2>1. l \in Seq(Ordinary)
    BY <1>2, <1>4, TreeAssumption
  <2>2. f \in Frames
    BY <1>1, <1>3, TopIs
  <2>3. f \in RunFrame
    BY <1>3, <2>2, FrameIs
  <2>4. FrameOK(sh, f)
    BY <1>3, LowerOK
  <2>5. QED
    BY <1>3, <1>4, <2>1, <2>2, <2>3, <2>4, TreeAssumption DEF FrameOK, RunOK
<1>7. /\ to \in Shows /\ to[s] = l /\ \A t \in Slot : t # s => to[t] = sh[t]
      /\ \A o : (o = Host \/ o \in Slot) /\ o # s => Area(to, o) = Area(sh, o)
  <2>1. to \in Shows /\ to[s] = l /\ \A t \in Slot : t # s => to[t] = sh[t]
    BY <1>1, <1>4, <1>6 DEF Shows
  <2>2. QED
    BY <2>1 DEF Area
<1>8. /\ children' \in [Ordinary -> Seq(Ordinary)]
      /\ alive' = UNION {Area(to, o) : o \in slots \union {Host}}
      /\ \A n \in alive' : children'[n] = Spread(Kids[n], to)
      /\ \A t \in slots : parent[t] \in alive'
      /\ \A x \in Range(l) : Bare(x)
  <2>1. Rebuilt(w, Spliced(w, AbsoluteIndexOf(s), Len(old), l), BelowOf(Range(old) \ Range(l)),
                StaticOf(Range(l) \ Range(old)))
    BY <1>2
  <2>2. l \in Outputs[s] \union {<<>>} /\ nested[Top.slot] = <<>> /\ Clears(Top)
    BY <1>3
  <2>3. QED
    <3>1. Replaces(sh, s, w, old, l, to)
      BY <1>3, <1>6, <2>1, <2>2 DEF Replaces
    <3>2. QED
      BY ONLY Good(sh), <3>1, Rebuilds
<1>9. /\ slots' = slots /\ parent' = parent /\ group' = group /\ place' = place /\ count' = count
      /\ previous' = previous /\ nested' = nested
  BY <1>3 DEF slot, state
<1>10. base \in Nat /\ r - 1 \in 0..Len(Kids[w])
  <2>1. r - 1 \in 0..Len(Kids[w])
    BY <1>4, <1>5, Shape
  <2>2. QED
    BY <1>1, <1>4, <1>5, <2>1, UptoFacts
<1>11. /\ g \in Frames /\ IsRun(g) /\ ~IsResolve(g) /\ ~IsDestroy(g) /\ FoundRun(g) /\ ~Clears(g)
       /\ g.slot = s /\ g.found = TRUE /\ g.base = base /\ g.out = l /\ g.i = 1
  <2>1. /\ g \in RunFrame /\ g.op = f.op /\ g.slot = f.slot /\ g.found = TRUE /\ g.base = base /\ g.out = l /\ g.i = f.i
    BY ONLY <1>6, <1>10, g = [f EXCEPT !.found = TRUE, !.base = base, !.out = l] DEF RunFrame
  <2>2. QED
    BY <1>3, <1>6, <2>1 DEF Frames, IsRun, IsResolve, IsDestroy, FoundRun, Clears
<1>12. GoesOn(f, g)
  BY <1>3, <1>4, <1>11 DEF GoesOn, Alike, IsResolve, IsRun
<1>13. After(st, q, m, m) /\ q \in Seq(Frames) /\ q[m] = g
  BY <1>1, <1>3, <1>6, <1>11, <1>12, GotoAfter
<1>14. m \in Nat /\ m # 0 /\ m # m - 1 /\ m # m + 1 /\ st[m] = f
  BY <1>3, LowerOK
<1>15. /\ \A d \in DOMAIN q : d = m \/ d \in 1..(m - 1)
       /\ \A d \in DOMAIN st : d = m \/ d \in 1..(m - 1)
       /\ \A d \in 1..(m - 1) : d \in DOMAIN q /\ d \in DOMAIN st /\ q[d] = st[d] /\ d # m
       /\ m \in DOMAIN q
  BY <1>13, <1>14, AfterIs
<1>16. \A d \in 1..(m - 1) : ~IsResolve(st[d]) => st[d].slot # s
  BY <1>3, <1>15, AroundClearing
<1>17. ShownOK(to)'
  BY <1>1, <1>2, <1>4, <1>7, <1>9 DEF ShownOK
<1>18. TreeOK(to)'
  <2>1. \A t \in slots : t \in Range(Kids[parent[t]])
    BY <1>1 DEF TreeOK
  <2>2. QED
    BY <1>8, <1>9, <2>1 DEF TreeOK
<1>19. GroupsOK'
  BY <1>1, <1>9 DEF GroupsOK, EntryOK
<1>20. SettledOK(to)'
  <2>1. \A x \in slots' : count'[x] = Len(previous'[x])
    BY <1>1, <1>9 DEF SettledOK
  <2>2. ASSUME NEW x \in slots'
        PROVE  to[x] = previous'[x] \/ \E d \in DOMAIN stack' : FoundRun(stack'[d]) /\ stack'[d].slot = x
    <3>1. CASE x = s
      <4>1. m \in DOMAIN stack' /\ stack'[m] = g
        BY <1>13, <1>15
      <4>2. FoundRun(stack'[m]) /\ stack'[m].slot = x
        BY <1>11, <3>1, <4>1
      <4>3. QED
        BY <4>1, <4>2
    <3>2. CASE x # s
      <4>1. x \in slots /\ x \in Slot
        BY <1>1, <1>9 DEF Typed
      <4>2. to[x] = sh[x]
        BY <1>7, <3>2, <4>1
      <4>3. sh[x] = previous[x] \/ \E d \in DOMAIN stack : FoundRun(stack[d]) /\ stack[d].slot = x
        BY <1>1, <4>1 DEF SettledOK
      <4>4. ASSUME NEW d \in DOMAIN stack, FoundRun(stack[d]), stack[d].slot = x
            PROVE  \E e \in DOMAIN stack' : FoundRun(stack'[e]) /\ stack'[e].slot = x
        <5>1. d # m
          BY <1>4, <1>14, <4>4
        <5>2. d \in DOMAIN q /\ q[d] = st[d]
          BY <1>15, <5>1
        <5>3. QED
          BY <4>4, <5>2
      <4>5. QED
        BY <1>9, <4>2, <4>3, <4>4
    <3>3. QED
      BY <3>1, <3>2
  <2>3. ASSUME NEW d \in DOMAIN stack'
        PROVE  /\ FoundRun(stack'[d]) => to[stack'[d].slot] = stack'[d].out
               /\ Clears(stack'[d]) => to[stack'[d].slot] = previous'[stack'[d].slot]
    <3>1. CASE d = m
      <4>1. stack'[d] = g
        BY <1>13, <3>1
      <4>2. QED
        BY <1>7, <1>11, <4>1
    <3>2. CASE d # m
      <4>1. d \in 1..(m - 1) /\ q[d] = st[d] /\ d \in DOMAIN stack
        BY <1>15, <3>2
      <4>2. /\ FoundRun(st[d]) => sh[st[d].slot] = st[d].out
            /\ Clears(st[d]) => sh[st[d].slot] = previous[st[d].slot]
        BY <1>1, <4>1 DEF SettledOK
      <4>3. FoundRun(st[d]) \/ Clears(st[d]) => to[st[d].slot] = sh[st[d].slot]
        <5>1. st[d] \in Frames
          BY <1>3, <1>14, <4>1, LowerOK
        <5>2. FoundRun(st[d]) \/ Clears(st[d]) => IsRun(st[d]) \/ IsDestroy(st[d])
          BY DEF FoundRun, Clears
        <5>3. IsRun(st[d]) \/ IsDestroy(st[d]) => ~IsResolve(st[d]) /\ st[d].slot \in Slot
          BY <5>1, FrameIs
        <5>4. QED
          BY <1>7, <1>16, <4>1, <5>2, <5>3
      <4>4. QED
        BY <1>9, <4>1, <4>2, <4>3
    <3>3. QED
      BY <3>1, <3>2
  <2>4. QED
    BY <2>1, <2>2, <2>3 DEF SettledOK
<1>21. FramesOK(to)'
  <2>1. \A d \in 1..(m - 1) : FrameOK(to, st[d])'
    <3> SUFFICES ASSUME NEW d \in 1..(m - 1) PROVE FrameOK(to, st[d])'
      OBVIOUS
    <3> PICK x : x = st[d]
      OBVIOUS
    <3>1. d \in DOMAIN stack /\ d # Len(stack) /\ x = stack[d]
      BY <1>15
    <3>2. FrameOK(to, x)'
      BY <1>3, <1>6, <3>1, AroundSplice
    <3>3. QED
      BY <3>2
  <2>2. \A j \in 1..(r - 1) : Kids[w][j] # s
    <3>1. \A j \in 1..(r - 1) : j \in DOMAIN Kids[w] /\ j # r
      BY <1>4, <1>5, Shape
    <3>2. QED
      BY <1>4, <1>5, <1>6, <3>1, OneParent
  <2>3. Upto(sh, w)[r - 1] = Upto(to, w)[r - 1]
    <3> PICK b : b = r - 1
      OBVIOUS
    <3>1. b \in 0..Len(Kids[w]) /\ \A j \in 1..b : Kids[w][j] \in Slot => sh[Kids[w][j]] = to[Kids[w][j]]
      BY <1>7, <1>10, <2>2
    <3>2. Upto(sh, w)[b] = Upto(to, w)[b]
      BY ONLY <1>1, <1>4, <1>7, <3>1, UptoSame
    <3>3. QED
      BY <3>2
  <2>4. \A a \in DOMAIN Kids[w] : Kids[w][a] = s => g.base = Len(Upto(to, w)[a - 1])
    <3>1. \A a \in DOMAIN Kids[w] : Kids[w][a] = s => a = r
      BY <1>4, <1>5, <1>6, OneParent
    <3>2. QED
      BY <1>5, <1>11, <2>3, <3>1
  <2>5. \A j \in DOMAIN g.out : j >= g.i => Bare(g.out[j])'
    <3>1. \A j \in DOMAIN l : Bare(l[j])
      BY <1>8 DEF Range
    <3>2. QED
      BY <1>9, <1>11, <3>1 DEF Bare
  <2>6. g.i \in 1..Len(g.out) + 1
    <3>1. Len(l) \in Nat
      BY <1>6, LenProperties
    <3>2. QED
      BY <1>11, <3>1
  <2>7. g.slot \in slots' /\ parent'[g.slot] = w
    BY <1>4, <1>9, <1>11
  <2>8. RunOK(to, g)'
    <3>1. parent'[g.slot] = w /\ parent[g.slot] = w /\ g.slot = s
      BY <1>9, <1>11, <2>7
    <3>2. g.slot \in slots' /\ g.found = TRUE
      BY <1>11, <2>7
    <3>3. QED
      BY <2>4, <2>5, <2>6, <3>1, <3>2, ZenonT(60) DEF RunOK
  <2>9. FrameOK(to, g)'
    BY <1>11, <2>8 DEF FrameOK
  <2>10. QED
    BY <1>13, <1>14, <2>1, <2>9, FramesAfter
<1>22. CallsOK(to)'
  <2>1. ASSUME NEW d \in 1..m, d > 1 PROVE CallOK(to, st[d - 1], st[d])'
    <3>1. CallOK(sh, st[d - 1], st[d])
      BY <1>3, <2>1, LowerOK
    <3>2. d - 1 \in 1..(m - 1) /\ d - 1 \in 1..m
      BY <1>14, <2>1
    <3>3. st[d - 1] \in Frames
      BY <1>3, <3>2, LowerOK
    <3>4. Clears(st[d - 1]) => Area(to, st[d - 1].slot) = Area(sh, st[d - 1].slot)
      <4>1. Clears(st[d - 1]) => ~IsResolve(st[d - 1]) /\ st[d - 1].slot \in Slot
        BY <3>3, FrameIs DEF Clears
      <4>2. QED
        BY <1>7, <1>16, <3>2, <4>1
    <3>5. QED
      BY <1>9, <3>1, <3>4 DEF CallOK
  <2>2. FirstOK(to, st[1])'
    <3>1. FirstOK(sh, st[1])
      BY <1>3, LowerOK
    <3>2. Area(to, Host) = Area(sh, Host)
      BY <1>6, <1>7
    <3>3. QED
      BY <1>9, <3>1, <3>2 DEF FirstOK
  <2>3. QED
    BY <1>13, <1>14, <2>1, <2>2, CallsAfter
<1>23. Nested(stack)'
  BY <1>1, <1>13, <1>14, NestedAfter
<1>24. OwnersOK(to)'
  <2>1. \A t \in slots : parent[t] \notin Area(sh, s)
    BY <1>3, AreaBare
  <2>2. \A o \in Owners : o # s => Area(to, o) = Area(sh, o)
    BY <1>7 DEF Owners
  <2>3. \A o, t : Claimed(o, t)' <=> Claimed(o, t)
    <3>1. NoTaker(f) /\ NoTaker(g)
      BY <1>3, <1>11 DEF NoTaker, IsRun, IsResolve, IsDestroy
    <3>2. QED
      BY <1>13, <1>14, <3>1, ClaimedAfter
  <2>4. ASSUME NEW o \in Owners
        PROVE  /\ IsInjective(nested'[o])
               /\ \A t \in Range(nested'[o]) : t \in slots' /\ parent'[t] \in Area(to, o)
    <3>1. IsInjective(nested[o]) /\ \A t \in Range(nested[o]) : t \in slots /\ parent[t] \in Area(sh, o)
      BY <1>1 DEF OwnersOK
    <3>2. \A t \in Range(nested[o]) : o # s
      BY <2>1, <3>1
    <3>3. QED
      BY <1>9, <2>2, <3>1, <3>2
  <2>5. \A x \in Slot \ slots' : nested'[x] = <<>>
    BY <1>1, <1>9 DEF OwnersOK
  <2>6. ASSUME NEW t \in slots'
        PROVE  \E o \in Owners : /\ parent'[t] \in Area(to, o)
                                 /\ t \in Range(nested'[o]) \/ \E d \in DOMAIN stack' : Taken(o, t, d)'
    <3>1. PICK o \in Owners : /\ parent[t] \in Area(sh, o)
                              /\ t \in Range(nested[o]) \/ \E d \in DOMAIN stack : Taken(o, t, d)
      BY <1>1, <1>9 DEF OwnersOK
    <3>2. o # s
      BY <1>9, <2>1, <3>1
    <3>3. t \in Range(nested[o]) \/ \E d \in DOMAIN stack' : Taken(o, t, d)'
      BY <2>3, <3>1 DEF Claimed
    <3>4. QED
      BY <1>9, <2>2, <3>1, <3>2, <3>3
  <2>7. ASSUME NEW d \in DOMAIN stack', NEW o \in Owners, NEW p \in Owners, NEW t \in Slot, Taken(o, t, d)'
        PROVE  t \notin Range(nested'[p])
    <3>1. Claimed(o, t)'
      BY <2>7 DEF Claimed
    <3>2. Claimed(o, t)
      BY <2>3, <3>1
    <3>3. QED
      BY <1>1, <1>9, <3>2 DEF Claimed, OwnersOK
  <2>8. QED
    BY <2>4, <2>5, <2>6, <2>7 DEF OwnersOK
<1>25. Typed'
  BY <1>1, <1>8, <1>9, <1>13 DEF Typed
<1>26. Good(to)'
  BY <1>17, <1>18, <1>19, <1>20, <1>21, <1>22, <1>23, <1>24, <1>25 DEF Good
<1>27. QED
  BY <1>7, <1>26

\* Whatever waits for a slot to be destroyed clears its own nested slots.
LEMMA AroundDestroy ==
    ASSUME NEW sh, Good(sh), stack # <<>>, IsDestroy(Top), NEW d \in DOMAIN stack
    PROVE  Clears(stack[d])
<1>1. Typed /\ CallsOK(sh) /\ Nested(stack)
  BY GoodIs
<1> PICK st, m : st = stack /\ m = Len(stack)
  OBVIOUS
<1>2. m \in Nat /\ m # 0 /\ st[m] = Top /\ DOMAIN st = 1..m
  <2>1. m \in Nat /\ m # 0 /\ st[m] = Top
    BY LowerOK
  <2>2. DOMAIN st = 1..m
    BY <1>1, TopIs DEF IsStack
  <2>3. QED
    BY <2>1, <2>2
<1> DEFINE H == {i \in Nat : i < m => Clears(st[m - i]) /\ (m - i > 1 => IsDestroy(st[m - i]))}
<1>3. 0 \in H
  <2>1. m - 0 = m
    BY <1>2
  <2>2. QED
    BY <1>2, <2>1 DEF Clears
<1>4. ASSUME NEW i \in 1..(m - 1), i - 1 \in H PROVE i \in H
  <2> PICK a : a = m - i
    OBVIOUS
  <2>1. a \in 1..m /\ a + 1 \in 1..m /\ a + 1 > 1 /\ (a + 1) - 1 = a /\ a \in Nat
        /\ m - (i - 1) = a + 1 /\ i - 1 < m /\ i \in Nat
    BY <1>2
  <2>2. IsDestroy(st[a + 1])
    BY <1>4, <2>1
  <2>3. CallOK(sh, st[a], st[a + 1])
    BY <1>1, <1>2, <2>1 DEF CallsOK
  <2>4. Clears(st[a])
    BY <2>2, <2>3 DEF CallOK, IsDestroy, IsRun, IsResolve
  <2>5. a > 1 => IsDestroy(st[a])
    <3>1. a > 1 => a + 1 > 2
      BY <2>1
    <3>2. QED
      BY <1>1, <1>2, <2>1, <2>2, <3>1 DEF Nested
  <2>6. QED
    BY <2>1, <2>4, <2>5
<1>5. m - 1 \in Nat /\ H \in SUBSET Nat
  BY <1>2
<1> HIDE DEF H
<1>6. 0..(m - 1) \subseteq H
  BY <1>3, <1>4, <1>5, UpTo
<1>7. m - d \in 0..(m - 1) /\ m - (m - d) = d /\ m - d < m
  BY <1>2
<1>8. QED
  BY <1>6, <1>7 DEF H

\* The group with one entry marked dead.
Leaves(w, r, s) ==
    /\ w \in Ordinary /\ r \in DOMAIN Kids[w] /\ s \in slots /\ Kids[w][r] = s
    /\ slots' = slots \ {s} /\ parent' = parent /\ place' = place
    /\ group' = [group EXCEPT ![w][place[s]].live = FALSE]
LEMMA LeftGroup ==
    ASSUME Typed, GroupsOK, NEW w, NEW r, NEW s, Leaves(w, r, s)
    PROVE  GroupsOK' /\ group' \in [Ordinary -> Seq(Entries)]
<1> USE DEF Leaves
<1> PICK G, p, e, X : /\ G = group[w] /\ p = place[s] /\ e = [G[p] EXCEPT !.live = FALSE] /\ X = [G EXCEPT ![p] = e]
  OBVIOUS
<1>1. s \in Slot /\ s # None
  BY TreeAssumption DEF Typed
<1>2. p = Among(w, Slot)[r] /\ p <= Len(G) /\ G[p].slot = s
  BY <1>1 DEF GroupsOK, EntryOK
<1>3. G \in Seq(Entries) /\ Len(G) \in Nat /\ DOMAIN G = 1..Len(G)
  BY LenProperties DEF Typed
<1>4. p \in Nat /\ p # 0
  <2>1. Among(w, Slot)[r] = Among(w, Slot)[r - 1] + 1 /\ Among(w, Slot)[r - 1] \in Nat
    BY <1>1, AmongNext
  <2>2. QED
    BY <1>2, <2>1
<1>5. p \in DOMAIN G
  BY <1>2, <1>3, <1>4
<1>6. e \in Entries /\ e.slot = s /\ e.live = FALSE
  <2>1. G[p] \in Entries
    BY <1>3, <1>5, ElementOfSeq
  <2>2. QED
    BY <1>2, <2>1 DEF Entries
<1>7. X \in Seq(Entries) /\ Len(X) = Len(G) /\ X[p] = e /\ \A k \in DOMAIN G : k # p => X[k] = G[k]
  BY <1>3, <1>5, <1>6
<1>8. group' \in [Ordinary -> Seq(Entries)] /\ group'[w] = X /\ \A v \in Ordinary : v # w => group'[v] = group[v]
  <2>1. group' = [group EXCEPT ![w] = X]
    OBVIOUS
  <2>2. QED
    BY <1>7, <2>1 DEF Typed
<1>9. ASSUME NEW v \in Ordinary, NEW j \in DOMAIN Kids[v], Kids[v][j] \in Slot PROVE EntryOK(v, j)'
  <2> PICK t, k : t = Kids[v][j] /\ k = Among(v, Slot)[j]
    OBVIOUS
  <2>1. EntryOK(v, j)
    BY <1>9 DEF GroupsOK
  <2>2. /\ t \in slots => parent[t] = v /\ place[t] = k /\ k <= Len(group[v])
                          /\ group[v][k].static = Among(v, Ordinary)[j - 1]
        /\ k <= Len(group[v]) => group[v][k].slot = t /\ (group[v][k].live <=> t \in slots)
    BY <2>1 DEF EntryOK
  <2>3. SUFFICES /\ t \in slots' => parent[t] = v /\ place[t] = k /\ k <= Len(group'[v])
                                    /\ group'[v][k].static = Among(v, Ordinary)[j - 1]
                 /\ k <= Len(group'[v]) => group'[v][k].slot = t /\ (group'[v][k].live <=> t \in slots')
    BY DEF EntryOK
  <2>4. CASE t = s
    <3>1. v = w /\ j = r
      <4>1. Kids[v][j] = Kids[w][r] /\ Kids[v][j] # None
        BY <1>1, <2>4
      <4>2. QED
        BY <4>1, OneParent
    <3>2. k = p /\ group'[v] = X
      BY <1>2, <1>8, <3>1
    <3>3. group'[v][k].slot = t /\ group'[v][k].live = FALSE
      BY <1>6, <1>7, <2>4, <3>2
    <3>4. QED
      BY <2>4, <3>3
  <2>5. CASE t # s /\ v # w
    <3>1. group'[v] = group[v] /\ (t \in slots' <=> t \in slots)
      BY <1>8, <2>5
    <3>2. QED
      BY ONLY <2>2, <3>1
  <2>6. CASE t # s /\ v = w
    <3>1. t \in slots' <=> t \in slots
      BY <2>6
    <3>2. k # p /\ k \in Nat /\ k # 0
      <4>1. j # r /\ j \in 1..Len(Kids[w]) /\ r \in 1..Len(Kids[w]) /\ Len(Kids[w]) \in Nat
        BY <2>6, Shape
      <4>2. Among(w, Slot)[j] = Among(w, Slot)[j - 1] + 1 /\ Among(w, Slot)[j - 1] \in Nat
        BY <1>9, <2>6, AmongNext
      <4>3. CASE j < r
        <5>1. j \in 0..Len(Kids[w]) /\ r \in 0..Len(Kids[w]) /\ j <= r
          BY <4>1, <4>3
        <5>2. Among(w, Slot)[j] < Among(w, Slot)[r]
          BY <1>1, <4>3, <5>1, AmongGrows
        <5>3. QED
          BY <1>2, <1>4, <2>6, <4>2, <5>2
      <4>4. CASE r < j
        <5>1. j \in 0..Len(Kids[w]) /\ r \in 0..Len(Kids[w]) /\ r <= j
          BY <4>1, <4>4
        <5>2. Among(w, Slot)[r] < Among(w, Slot)[j]
          BY <1>9, <2>6, <4>4, <5>1, AmongGrows
        <5>3. QED
          BY <1>2, <1>4, <2>6, <4>2, <5>2
      <4>5. QED
        BY <4>1, <4>3, <4>4
    <3>3. Len(group'[v]) = Len(group[v]) /\ (k <= Len(group[v]) => group'[v][k] = group[v][k])
      <4>1. group'[v] = X /\ group[v] = G
        BY <1>8, <2>6
      <4>2. k <= Len(G) => k \in DOMAIN G
        BY <1>3, <3>2
      <4>3. QED
        BY <1>7, <3>2, <4>1, <4>2
    <3>4. QED
      BY ONLY <2>2, <3>1, <3>3
  <2>7. QED
    BY <2>4, <2>5, <2>6
<1>10. GroupsOK'
  BY <1>9 DEF GroupsOK
<1>11. QED
  BY <1>8, <1>10

LEMMA RemoveOwnGood ==
    ASSUME NEW sh, Good(sh), RemoveOwn
    PROVE  \E to \in Shows : Good(to)'
<1>1. /\ Typed /\ ShownOK(sh) /\ SettledOK(sh) /\ TreeOK(sh) /\ GroupsOK /\ OwnersOK(sh)
      /\ FramesOK(sh) /\ CallsOK(sh) /\ Nested(stack) /\ sh \in Shows
  BY GoodIs
<1> PICK f, s, w, old, to, st, q, m :
        /\ f = Top /\ s = f.slot /\ w = parent[s] /\ old = previous[s] /\ to = [sh EXCEPT ![s] = <<>>]
        /\ st = stack /\ q = stack' /\ m = Len(stack)
  OBVIOUS
<1>2. stack # <<>> /\ IsDestroy(f) /\ Clears(f) /\ nested[s] = <<>> /\ stack' = Under
  BY DEF RemoveOwn, IsDestroy, Clears
<1>3. /\ slots' = slots \ {s} /\ parent' = parent /\ place' = place /\ count' = count
      /\ previous' = previous /\ nested' = nested /\ group' = [group EXCEPT ![w][place[s]].live = FALSE]
  BY DEF RemoveOwn, state
<1>4. Rebuilt(w, Spliced(w, AbsoluteIndexOf(s), count[s], <<>>), BelowOf(Range(old)), {})
  BY DEF RemoveOwn
<1>5. /\ s \in slots /\ s \in Slot /\ w \in Ordinary /\ ~FoundRun(f) /\ ~IsResolve(f)
      /\ sh[s] = old /\ count[s] = Len(sh[s]) /\ \E r \in DOMAIN Kids[w] : Kids[w][r] = s
  BY <1>2, ClearingIs
<1>6. PICK r \in DOMAIN Kids[w] : Kids[w][r] = s
  BY <1>5
<1>7. f \in Frames /\ s # Host /\ s # None
  BY <1>1, <1>2, <1>5, TopIs, TreeAssumption
<1>8. /\ to \in Shows /\ to[s] = <<>> /\ \A t \in Slot : t # s => to[t] = sh[t]
      /\ \A o : (o = Host \/ o \in Slot) /\ o # s => Area(to, o) = Area(sh, o)
  <2>1. to \in Shows /\ to[s] = <<>> /\ \A t \in Slot : t # s => to[t] = sh[t]
    BY <1>1, <1>5 DEF Shows
  <2>2. QED
    BY <2>1 DEF Area
<1>9. Replaces(sh, s, w, old, <<>>, to)
  <2> PICK l : l = <<>>
    OBVIOUS
  <2>1. Range(l) = {}
    BY DEF Range
  <2>2. Range(old) \ Range(l) = Range(old) /\ StaticOf(Range(l) \ Range(old)) = {}
    BY <2>1 DEF StaticOf
  <2>3. count[s] = Len(old)
    BY <1>5
  <2>4. Rebuilt(w, Spliced(w, AbsoluteIndexOf(s), Len(old), l), BelowOf(Range(old) \ Range(l)),
                StaticOf(Range(l) \ Range(old)))
    BY <1>4, <2>2, <2>3
  <2>5. l \in Seq(Ordinary) /\ l \in Outputs[s] \union {<<>>}
    OBVIOUS
  <2>6. Replaces(sh, s, w, old, l, to)
    BY <1>2, <2>4, <2>5 DEF Replaces
  <2>7. QED
    BY <2>6
<1>10. /\ children' \in [Ordinary -> Seq(Ordinary)]
       /\ alive' = UNION {Area(to, o) : o \in slots \union {Host}}
       /\ \A n \in alive' : children'[n] = Spread(Kids[n], to)
       /\ \A t \in slots : parent[t] \in alive'
  BY ONLY Good(sh), <1>9, Rebuilds
<1>11. GroupsOK' /\ group' \in [Ordinary -> Seq(Entries)]
  <2>1. Leaves(w, r, s)
    BY <1>3, <1>5, <1>6 DEF Leaves
  <2>2. QED
    BY <1>1, <2>1, LeftGroup
<1>12. After(st, q, m, m - 1) /\ q \in Seq(Frames)
  BY <1>1, <1>2, PopAfter
<1>13. m \in Nat /\ m # 0 /\ m - 1 # m + 1 /\ st[m] = f /\ m - 1 \in Nat /\ m \in DOMAIN stack
  BY <1>2, LowerOK
<1>14. /\ \A d \in DOMAIN q : d \in 1..(m - 1)
       /\ \A d \in DOMAIN st : d = m \/ d \in 1..(m - 1)
       /\ \A d \in 1..(m - 1) : d \in DOMAIN q /\ d \in DOMAIN st /\ q[d] = st[d] /\ d # m
  <2>1. \A d \in DOMAIN q : d \in 1..(m - 1)
    <3>1. \A d \in DOMAIN q : d # m /\ d # m + 1
      BY <1>12, <1>13, AfterIs
    <3>2. QED
      BY <1>12, <3>1, AfterIs
  <2>2. \A d \in DOMAIN st : d = m \/ d \in 1..(m - 1)
    <3>1. DOMAIN st = 1..m
      BY <1>12, AfterIs
    <3>2. QED
      BY <1>13, <3>1
  <2>3. QED
    BY <1>12, <2>1, <2>2, AfterIs
<1>15. \A d \in 1..(m - 1) : /\ Clears(st[d]) /\ ~IsResolve(st[d]) /\ ~FoundRun(st[d]) /\ st[d].slot # s
                             /\ st[d].slot \in Slot /\ st[d] \in Frames
  <2> SUFFICES ASSUME NEW d \in 1..(m - 1)
               PROVE  /\ Clears(st[d]) /\ ~IsResolve(st[d]) /\ ~FoundRun(st[d]) /\ st[d].slot # s
                      /\ st[d].slot \in Slot /\ st[d] \in Frames
    OBVIOUS
  <2>1. Clears(st[d]) /\ d \in DOMAIN stack /\ d # m
    BY <1>2, <1>14, AroundDestroy
  <2>2. st[d] \in Frames
    BY <1>1, <1>2, <2>1, TopLowest
  <2>3. ~IsResolve(st[d]) /\ ~FoundRun(st[d]) /\ st[d].slot \in Slot
    BY <2>1, <2>2, FrameIs DEF Clears, FoundRun
  <2>4. st[d].slot # s
    BY <1>1, <1>2, <1>5, <2>1, <2>3, OneCall
  <2>5. QED
    BY <2>1, <2>2, <2>3, <2>4
<1>16. ShownOK(to)'
  BY <1>1, <1>3, <1>8 DEF ShownOK
<1>17. TreeOK(to)'
  <2>1. Area(to, s) = {}
    <3>1. Range(to[s]) = {}
      BY <1>8 DEF Range
    <3>2. QED
      BY <1>7, <3>1 DEF Area, StaticOf
  <2>2. UNION {Area(to, o) : o \in slots \union {Host}} = UNION {Area(to, o) : o \in slots' \union {Host}}
    <3>1. \A o \in slots \union {Host} : o \in slots' \union {Host} \/ Area(to, o) = {}
      BY <1>3, <2>1
    <3>2. slots' \union {Host} \subseteq slots \union {Host}
      BY <1>3
    <3>3. \A x : (\E o \in slots \union {Host} : x \in Area(to, o)) <=> (\E o \in slots' \union {Host} : x \in Area(to, o))
      BY ONLY <3>1, <3>2
    <3>4. QED
      BY ONLY <3>3
  <2>3. \A t \in slots : t \in Range(Kids[parent[t]])
    BY <1>1 DEF TreeOK
  <2>4. QED
    BY <1>3, <1>10, <2>2, <2>3 DEF TreeOK
<1>18. SettledOK(to)'
  <2>1. \A x \in slots' : count'[x] = Len(previous'[x])
    BY <1>1, <1>3 DEF SettledOK
  <2>2. ASSUME NEW x \in slots'
        PROVE  to[x] = previous'[x] \/ \E d \in DOMAIN stack' : FoundRun(stack'[d]) /\ stack'[d].slot = x
    <3>1. x \in slots /\ x \in Slot /\ x # s
      BY <1>1, <1>3 DEF Typed
    <3>2. to[x] = sh[x]
      BY <1>8, <3>1
    <3>3. \A d \in DOMAIN stack : ~FoundRun(stack[d])
      BY <1>5, <1>13, <1>14, <1>15
    <3>4. sh[x] = previous[x]
      BY <1>1, <3>1, <3>3 DEF SettledOK
    <3>5. QED
      BY <1>3, <3>2, <3>4
  <2>3. ASSUME NEW d \in DOMAIN stack'
        PROVE  /\ FoundRun(stack'[d]) => to[stack'[d].slot] = stack'[d].out
               /\ Clears(stack'[d]) => to[stack'[d].slot] = previous'[stack'[d].slot]
    <3>1. d \in 1..(m - 1) /\ q[d] = st[d] /\ d \in DOMAIN stack
      BY <1>14
    <3>2. Clears(st[d]) /\ ~FoundRun(st[d]) /\ to[st[d].slot] = sh[st[d].slot]
      BY <1>8, <1>15, <3>1
    <3>3. sh[st[d].slot] = previous[st[d].slot]
      BY <1>1, <3>1, <3>2 DEF SettledOK
    <3>4. QED
      BY <1>3, <3>1, <3>2, <3>3
  <2>4. QED
    BY <2>1, <2>2, <2>3 DEF SettledOK
<1>19. FramesOK(to)'
  <2>1. ASSUME NEW d \in 1..(m - 1) PROVE FrameOK(to, st[d])'
    <3>1. Clears(st[d]) /\ ~IsResolve(st[d]) /\ st[d].slot # s /\ st[d] \in Frames
      BY <1>15
    <3>2. FrameOK(sh, st[d])
      BY <1>1, <1>14 DEF FramesOK
    <3>3. CASE IsDestroy(st[d])
      <4>1. st[d].slot \in slots' /\ ~IsRun(st[d])
        BY <1>3, <3>1, <3>2, <3>3, FrameIs DEF FrameOK
      <4>2. QED
        BY <3>1, <4>1 DEF FrameOK
    <3>4. CASE IsRun(st[d]) /\ ~st[d].found
      <4>1. st[d].slot \in slots' /\ st[d].i = 1 /\ ~IsDestroy(st[d])
        BY <1>3, <3>1, <3>2, <3>4, FrameIs DEF FrameOK, RunOK
      <4>2. RunOK(to, st[d])'
        BY <3>4, <4>1, SMTT(40) DEF RunOK
      <4>3. QED
        BY <3>1, <4>1, <4>2 DEF FrameOK
    <3>5. QED
      BY <3>1, <3>3, <3>4 DEF Clears
  <2>2. QED
    BY <1>12, <1>13, <2>1, FramesAfter
<1>20. CallsOK(to)'
  <2>1. ASSUME NEW d \in 1..m, d > 1 PROVE CallOK(to, st[d - 1], st[d])'
    <3>1. CallOK(sh, st[d - 1], st[d])
      BY <1>2, <2>1, LowerOK
    <3>2. d - 1 \in 1..(m - 1)
      BY <1>13, <2>1
    <3>3. Area(to, st[d - 1].slot) = Area(sh, st[d - 1].slot)
      BY <1>8, <1>15, <3>2
    <3>4. QED
      BY <1>3, <3>1, <3>3 DEF CallOK
  <2>2. FirstOK(to, st[1])'
    <3>1. FirstOK(sh, st[1])
      BY <1>2, LowerOK
    <3>2. Area(to, Host) = Area(sh, Host)
      BY <1>7, <1>8
    <3>3. QED
      BY <1>3, <3>1, <3>2 DEF FirstOK
  <2>3. QED
    BY <1>12, <1>13, <2>1, <2>2, CallsAfter
<1>21. Nested(stack)'
  BY <1>1, <1>12, <1>13, NestedAfter
<1>22. \A o, t : \A d \in 1..(m - 1) : Taken(o, t, d)' <=> Taken(o, t, d)
  <2>1. m - 1 \in Nat /\ \A d \in 1..(m - 1) : q[d] = st[d]
    BY <1>13, <1>14
  <2>2. QED
    BY <2>1, TakenAfter
<1>23. \A p \in Owners : s \notin Range(nested[p])
  <2> PICK o : o = (IF m = 1 THEN Host ELSE stack[m - 1].slot)
    OBVIOUS
  <2>1. o \in Owners
    <3>1. CASE m = 1
      BY <3>1 DEF Owners
    <3>2. CASE m # 1
      <4>1. m - 1 \in 1..(m - 1)
        BY <1>13, <3>2
      <4>2. QED
        BY <1>15, <3>2, <4>1 DEF Owners
    <3>3. QED
      BY <3>1, <3>2
  <2>2. Taken(o, s, m)
    BY <1>2, <1>13 DEF Taken
  <2>3. QED
    BY <1>1, <1>5, <1>13, <2>1, <2>2 DEF OwnersOK
<1>24. OwnersOK(to)'
  <2>1. \A t \in slots : parent[t] \notin Area(sh, s)
    BY <1>2, AreaBare
  <2>2. \A o \in Owners : o # s => Area(to, o) = Area(sh, o)
    BY <1>8 DEF Owners
  <2>3. ASSUME NEW o \in Owners
        PROVE  /\ IsInjective(nested'[o])
               /\ \A t \in Range(nested'[o]) : t \in slots' /\ parent'[t] \in Area(to, o)
    <3>1. IsInjective(nested[o]) /\ \A t \in Range(nested[o]) : t \in slots /\ parent[t] \in Area(sh, o)
      BY <1>1 DEF OwnersOK
    <3>2. \A t \in Range(nested[o]) : o # s /\ t # s
      BY <1>23, <2>1, <3>1
    <3>3. QED
      BY <1>3, <2>2, <3>1, <3>2
  <2>4. \A x \in Slot \ slots' : nested'[x] = <<>>
    BY <1>1, <1>2, <1>3 DEF OwnersOK
  <2>5. ASSUME NEW t \in slots'
        PROVE  \E o \in Owners : /\ parent'[t] \in Area(to, o)
                                 /\ t \in Range(nested'[o]) \/ \E d \in DOMAIN stack' : Taken(o, t, d)'
    <3>1. t \in slots /\ t # s
      BY <1>3
    <3>2. PICK o \in Owners : /\ parent[t] \in Area(sh, o)
                              /\ t \in Range(nested[o]) \/ \E d \in DOMAIN stack : Taken(o, t, d)
      BY <1>1, <3>1 DEF OwnersOK
    <3>3. o # s
      BY <2>1, <3>1, <3>2
    <3>4. ASSUME NEW d \in DOMAIN stack, Taken(o, t, d) PROVE \E e \in DOMAIN stack' : Taken(o, t, e)'
      <4>1. d # m
        BY <1>2, <1>5, <1>13, <3>1, <3>4 DEF Taken
      <4>2. d \in DOMAIN q /\ Taken(o, t, d)'
        BY <1>14, <1>22, <3>4, <4>1
      <4>3. QED
        BY <4>2
    <3>5. QED
      BY <1>3, <2>2, <3>2, <3>3, <3>4
  <2>6. ASSUME NEW d \in DOMAIN stack', NEW o \in Owners, NEW p \in Owners, NEW t \in Slot, Taken(o, t, d)'
        PROVE  t \notin Range(nested'[p])
    <3>1. d \in DOMAIN stack /\ Taken(o, t, d)
      BY <1>14, <1>22, <2>6, SMTT(40)
    <3>2. QED
      BY <1>1, <1>3, <3>1, SMTT(40) DEF OwnersOK
  <2>7. QED
    BY <2>3, <2>4, <2>5, <2>6 DEF OwnersOK
<1>25. Typed'
  <2>1. slots' \subseteq Slot
    BY <1>1, <1>3 DEF Typed
  <2>2. QED
    BY <1>1, <1>3, <1>10, <1>11, <1>12, <2>1 DEF Typed
<1>26. Good(to)'
  BY <1>11, <1>16, <1>17, <1>18, <1>19, <1>20, <1>21, <1>24, <1>25 DEF Good
<1>27. QED
  BY <1>8, <1>26

-----------------------------------------------------------------------------
(* The invariant holds.                                                    *)

LEMMA InitGood ==
    ASSUME Init
    PROVE  \E sh \in Shows : Good(sh)
<1> PICK sh : sh = [s \in Slot |-> <<>>]
  OBVIOUS
<1>1. sh \in Shows /\ \A s \in Slot : sh[s] = <<>>
  BY DEF Shows
<1>2. /\ alive = Static[Root] /\ slots = {} /\ stack = <<>> /\ parent = [s \in Slot |-> Root]
      /\ group = [n \in Ordinary |-> <<>>] /\ place = [s \in Slot |-> 0] /\ count = [s \in Slot |-> 0]
      /\ previous = [s \in Slot |-> <<>>] /\ nested = [o \in Owners |-> <<>>]
  BY DEF Init, Owners
<1>3. children = [n \in Ordinary |-> IF n \in alive THEN Spread(Kids[n], sh) ELSE <<>>]
  BY DEF Init, Widgets
<1>4. Static[Root] \subseteq Ordinary /\ Root \in Ordinary
  BY TreeAssumption, StaticFacts
<1>5. DOMAIN stack = {}
  BY <1>2
<1>6. Typed
  <2>1. \A n \in Ordinary : Spread(Kids[n], sh) \in Seq(Ordinary)
    BY <1>1, SpreadSeq
  <2>2. children \in [Ordinary -> Seq(Ordinary)]
    BY <1>3, <2>1
  <2>3. stack \in Seq(Frames) /\ group \in [Ordinary -> Seq(Entries)] /\ previous \in [Slot -> Seq(Ordinary)]
        /\ nested \in [Owners -> Seq(Slot)]
    BY <1>2
  <2>4. slots \subseteq Slot /\ parent \in [Slot -> Ordinary] /\ place \in [Slot -> Nat] /\ count \in [Slot -> Nat]
    BY <1>2, <1>4
  <2>5. QED
    BY <2>2, <2>3, <2>4 DEF Typed
<1>7. ShownOK(sh)
  BY <1>1 DEF ShownOK
<1>8. SettledOK(sh)
  BY <1>2, <1>5 DEF SettledOK
<1>9. TreeOK(sh)
  <2>1. {Area(sh, o) : o \in slots \union {Host}} = {Static[Root]}
    BY <1>2 DEF Area
  <2>2. alive = UNION {Area(sh, o) : o \in slots \union {Host}}
    BY <1>2, <2>1
  <2>3. \A w \in alive : children[w] = Spread(Kids[w], sh)
    BY <1>2, <1>3, <1>4
  <2>4. QED
    BY <1>2, <2>2, <2>3 DEF TreeOK
<1>10. GroupsOK
  <2> SUFFICES ASSUME NEW w \in Ordinary, NEW i \in DOMAIN Kids[w], Kids[w][i] \in Slot PROVE EntryOK(w, i)
    BY DEF GroupsOK
  <2>1. Among(w, Slot)[i] = Among(w, Slot)[i - 1] + 1 /\ Among(w, Slot)[i - 1] \in Nat
    BY AmongNext
  <2>2. Len(group[w]) = 0
    BY <1>2
  <2>3. ~(Among(w, Slot)[i] <= Len(group[w]))
    BY <2>1, <2>2
  <2>4. QED
    BY <1>2, <2>3 DEF EntryOK
<1>11. OwnersOK(sh)
  <2>1. \A o \in Owners : nested[o] = <<>> /\ IsInjective(nested[o]) /\ Range(nested[o]) = {}
    BY <1>2 DEF IsInjective, Range
  <2>2. \A s \in Slot : s \in Owners
    BY DEF Owners
  <2>3. QED
    BY <1>2, <1>5, <2>1, <2>2 DEF OwnersOK
<1>12. FramesOK(sh) /\ CallsOK(sh) /\ Nested(stack)
  BY <1>2, <1>5 DEF FramesOK, CallsOK, Nested
<1>13. QED
  BY <1>1, <1>6, <1>7, <1>8, <1>9, <1>10, <1>11, <1>12 DEF Good

LEMMA StutterGood ==
    ASSUME NEW sh, Good(sh), UNCHANGED vars
    PROVE  Good(sh)'
<1>1. /\ alive' = alive /\ children' = children /\ slots' = slots /\ parent' = parent /\ group' = group
      /\ place' = place /\ count' = count /\ previous' = previous /\ nested' = nested /\ stack' = stack
  BY DEF vars, tree, slot, state
<1>3. Typed' /\ ShownOK(sh)' /\ SettledOK(sh)' /\ TreeOK(sh)'
  BY <1>1, GoodIs DEF Typed, ShownOK, SettledOK, TreeOK
<1>4. GroupsOK'
  BY <1>1, GoodIs DEF GroupsOK, EntryOK
<1>5. OwnersOK(sh)'
  BY <1>1, GoodIs DEF OwnersOK, Taken
<1>6. FramesOK(sh)'
  BY <1>1, GoodIs DEF FramesOK, FrameOK, ResolveOK, RunOK, Bare
<1>7. CallsOK(sh)'
  BY <1>1, GoodIs DEF CallsOK, CallOK, FirstOK
<1>8. Nested(stack)'
  BY <1>1, GoodIs
<1>9. QED
  BY <1>3, <1>4, <1>5, <1>6, <1>7, <1>8 DEF Good

\* Every step keeps the tree, the groups, the lists of slots and the calls as
\* described, for what the slots show after it.
LEMMA NextGood ==
    ASSUME Inv, [Next]_vars
    PROVE  Inv'
<1>1. PICK sh \in Shows : Good(sh)
  BY DEF Inv
<1>2. SUFFICES \E to \in Shows : Good(to)'
  BY DEF Inv
<1>3. CASE HostResolves
  BY <1>1, <1>3, HostResolvesGood
<1>4. CASE Flush
  BY <1>1, <1>4, FlushGood
<1>5. CASE HostDrops
  BY <1>1, <1>5, HostDropsGood
<1>6. CASE SkipNone
  BY <1>1, <1>6, SkipNoneGood
<1>7. CASE MeetSlot
  BY <1>1, <1>7, MeetSlotGood
<1>8. CASE LeaveSlot
  BY <1>1, <1>8, LeaveSlotGood
<1>9. CASE Descend
  BY <1>1, <1>9, DescendGood
<1>10. CASE Resolved
  BY <1>1, <1>10, ResolvedGood
<1>11. CASE ClearNested
  BY <1>1, <1>11, ClearNestedGood
<1>12. CASE Splice
  BY <1>1, <1>12, SpliceGood
<1>13. CASE Discover
  BY <1>1, <1>13, DiscoverGood
<1>14. CASE Rendered
  BY <1>1, <1>14, RenderedGood
<1>15. CASE RemoveOwn
  BY <1>1, <1>15, RemoveOwnGood
<1>16. CASE UNCHANGED vars
  BY <1>1, <1>16, StutterGood
<1>17. QED
  BY <1>3, <1>4, <1>5, <1>6, <1>7, <1>8, <1>9, <1>10, <1>11, <1>12, <1>13, <1>14, <1>15, <1>16 DEF Next

\* At every step of every call the widgets are those of the components and of
\* what the slots show, each group numbers the slots of its widget in order, each
\* slot has one owner, and the calls under way are inside each other.
THEOREM TreeInvariant == Spec => []Inv
<1>1. Init => Inv
  BY InitGood DEF Inv
<1>2. Inv /\ [Next]_vars => Inv'
  BY NextGood
<1>3. QED
  BY <1>1, <1>2, PTL DEF Spec

-----------------------------------------------------------------------------
(* What it gives.                                                          *)

\* Between calls ResolveSlotsRecursive and the Reconciles have left under every
\* widget the children of its component, each <Slot> replaced by its last
\* output where it stands.
THEOREM ChildrenStayInOrder == Spec => []ChildrenInOrder
<1>1. Inv => ChildrenInOrder
  <2> SUFFICES ASSUME NEW sh \in Shows, Good(sh), stack = <<>>, NEW w \in alive
               PROVE  children[w] = Expected(w)
    BY DEF Inv, ChildrenInOrder
  <2>1. Typed /\ ShownOK(sh) /\ SettledOK(sh) /\ TreeOK(sh)
    BY GoodIs
  <2> PICK e : e = [s \in Slot |-> IF s \in slots THEN previous[s] ELSE <<>>]
    OBVIOUS
  <2>2. \A s \in Slot : sh[s] = e[s]
    <3> SUFFICES ASSUME NEW s \in Slot PROVE sh[s] = e[s]
      OBVIOUS
    <3>1. CASE s \in slots
      <4>1. DOMAIN stack = {}
        OBVIOUS
      <4>2. sh[s] = previous[s]
        BY <2>1, <3>1, <4>1 DEF SettledOK
      <4>3. QED
        BY <3>1, <4>2
    <3>2. CASE s \notin slots
      BY <2>1, <3>2 DEF ShownOK
    <3>3. QED
      BY <3>1, <3>2
  <2>3. sh = e
    BY <2>2 DEF Shows
  <2>4. children[w] = Spread(Kids[w], sh)
    BY <2>1 DEF TreeOK
  <2>5. QED
    BY <2>3, <2>4 DEF Expected
<1>2. QED
  BY <1>1, TreeInvariant, PTL

\* AttachedParentWatch_.AssertAlive never fires: the widget a SlotState is
\* attached to outlives it.
THEOREM ParentsStayAlive == Spec => []ParentAlive
<1>1. Inv => ParentAlive
  BY GoodIs DEF Inv, TreeOK, ParentAlive
<1>2. QED
  BY <1>1, TreeInvariant, PTL

\* AbsoluteIndexOf and AttachedCount_ delimit exactly what a slot spliced in,
\* whenever it is about to splice again or to remove it.
THEOREM OutputIsFound == Spec => []FindsOwn
<1>1. Inv => FindsOwn
  <2> SUFFICES ASSUME NEW sh \in Shows, Good(sh), Clearing PROVE FindsOwn
    BY DEF Inv, FindsOwn
  <2> PICK s, w, base : s = Top.slot /\ w = parent[s] /\ base = AbsoluteIndexOf(s)
    OBVIOUS
  <2>1. stack # <<>> /\ Clears(Top)
    BY DEF Clearing, Clears, IsDestroy, IsRun
  <2>2. /\ s \in slots /\ s \in Slot /\ w \in Ordinary /\ children[w] = Spread(Kids[w], sh)
        /\ sh[s] = previous[s] /\ count[s] = Len(sh[s])
        /\ \E r \in DOMAIN Kids[w] : Kids[w][r] = s /\ base = Len(Upto(sh, w)[r - 1])
    BY <2>1, ClearingIs
  <2>3. PICK r \in DOMAIN Kids[w] : Kids[w][r] = s /\ base = Len(Upto(sh, w)[r - 1])
    BY <2>2
  <2>4. Part(sh, Kids[w][r]) = previous[s]
    BY <2>2, <2>3, TreeAssumption DEF Part
  <2>5. IsPart(children[w], base, previous[s])
    BY <2>2, <2>3, <2>4, PartAt
  <2>6. base + count[s] <= Len(children[w]) /\ SubSeq(children[w], base + 1, base + count[s]) = previous[s]
    BY <2>2, <2>5 DEF IsPart
  <2>7. QED
    BY <2>6 DEF FindsOwn
<1>2. QED
  BY <1>1, TreeInvariant, PTL

\* ResolveSlotsRecursive reaches each ordinary child at the widget built from
\* it, whatever the slots before it rendered.
THEOREM WalkIsInStep == Spec => []LockStep
<1>1. Inv => LockStep
  BY InStep DEF Inv, LockStep
<1>2. QED
  BY <1>1, TreeInvariant, PTL

\* When Reconcile has diffed an output, nothing a nested slot spliced in is left
\* below it.
THEOREM OutputIsBare == Spec => []BareWhenDiffed
<1>1. Inv => BareWhenDiffed
  <2> SUFFICES ASSUME NEW sh \in Shows, Good(sh), Running, Top.found, Top.i = 1, NEW x \in StaticOf(Range(Top.out))
               PROVE  children[x] = Widgets(Kids[x])
    BY DEF Inv, BareWhenDiffed
  <2>1. Typed /\ ShownOK(sh) /\ TreeOK(sh)
    BY GoodIs
  <2> PICK s, l : s = Top.slot /\ l = Top.out
    OBVIOUS
  <2>2. /\ s \in slots /\ s \in Slot /\ s \in Owners /\ s # Host /\ l \in Seq(Ordinary) /\ DOMAIN l = 1..Len(l)
        /\ sh[s] = l /\ RunOK(sh, Top)
    BY RunTop
  <2>3. x \in Area(sh, s)
    BY <2>2 DEF Area
  <2>4. x \in Ordinary /\ x \in alive
    BY <2>1, <2>2, <2>3, AreaFacts DEF TreeOK
  <2>5. PICK j \in DOMAIN l : x \in Static[l[j]]
    BY InStatic DEF Range
  <2>6. Bare(l[j])
    <3>1. j >= 1
      BY <2>2
    <3>2. QED
      BY <2>2, <3>1 DEF RunOK
  <2> PICK e : e = [t \in Slot |-> <<>>]
    OBVIOUS
  <2>7. ASSUME NEW t \in Slot, t \in Range(Kids[x]) PROVE sh[t] = e[t]
    <3> SUFFICES ASSUME sh[t] # <<>> PROVE FALSE
      OBVIOUS
    <3>1. t \in slots
      BY <2>1 DEF ShownOK
    <3>2. parent[t] \in Ordinary /\ t \in Range(Kids[parent[t]])
      BY <2>1, <3>1 DEF Typed, TreeOK
    <3>3. parent[t] = x
      BY <2>4, <2>7, <3>2, OneParentOf
    <3>4. QED
      BY <2>5, <2>6, <3>1, <3>3 DEF Bare
  <2>8. e \in Shows
    BY DEF Shows
  <2>9. Spread(Kids[x], sh) = Spread(Kids[x], e)
    BY <2>4, <2>7, <2>8, SpreadSame
  <2>10. children[x] = Spread(Kids[x], sh)
    BY <2>1, <2>4 DEF TreeOK
  <2>11. QED
    BY <2>9, <2>10 DEF Widgets
<1>2. QED
  BY <1>1, TreeInvariant, PTL

=============================================================================
