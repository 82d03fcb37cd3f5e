--------------------------- MODULE NyxPlacesProofs ---------------------------
(***************************************************************************)
(* Proofs about the places of a NyxDriver tree: which instances the nodes   *)
(* of the tree and of the renders in progress refer to (Refs), what is      *)
(* destroyed when nothing holds it any more (ReachFacts), that a reload     *)
(* finds the instance of the same place again (Positions), and that no      *)
(* instance is in two places (HeldOnce).                                    *)
(***************************************************************************)
EXTENDS NyxDriverProofs, FiniteSetTheorems, WellFoundedInduction

-----------------------------------------------------------------------------
(* What an instance keeps alive *)

\* A set of natural numbers that is not empty has a least one.
LEMMA LeastNumber ==
    ASSUME NEW S \in SUBSET Nat, S # {}
    PROVE  \E x \in S : \A y \in S : x <= y
<1> DEFINE R == OpToRel(<, Nat)
<1>1. IsWellFoundedOn(R, Nat)
  BY NatLessThanWellFounded
<1>2. \A x, y \in Nat : x < y => <<x, y>> \in R
  BY Zenon DEF OpToRel
<1> HIDE DEF R
<1>3. PICK x \in S : \A y \in S : ~(<<y, x>> \in R)
  BY <1>1, WFMin
<1>4. \A y \in S : ~(y < x)
  BY <1>2, <1>3
<1>5. QED
  BY <1>4

\* The instances of S and those they hold.
Grown(is, S) == S \cup UNION {Held(is, i) : i \in S}
Growth(is, from, n, g) ==
    /\ g \in [0..n -> SUBSET Insts] /\ g[0] = from
    /\ \A k \in 1..n : g[k] = Grown(is, g[k - 1])

\* The sets that Reach builds, as far as one likes.
LEMMA GrowthExists ==
    ASSUME NEW is, \A i \in Insts : Held(is, i) \subseteq Insts, NEW from \in SUBSET Insts, NEW n \in Nat
    PROVE  \E g : Growth(is, from, n, g)
<1> DEFINE S == {k \in Nat : ~\E g : Growth(is, from, k, g)}
<1> SUFFICES ASSUME S # {} PROVE FALSE
  OBVIOUS
<1>1. PICK k \in S : \A j \in S : k <= j
  <2>1. S \in SUBSET Nat
    OBVIOUS
  <2> HIDE DEF S
  <2>2. QED
    BY <2>1, LeastNumber
<1>2. k \in Nat /\ ~\E g : Growth(is, from, k, g)
  BY <1>1
<1>3. k # 0
  <2> DEFINE g == [j \in 0..0 |-> from]
  <2>1. Growth(is, from, 0, g)
    BY DEF Growth
  <2>2. QED
    BY <1>2, <2>1
<1>4. k - 1 \in Nat /\ ~(k <= k - 1)
  BY <1>2, <1>3
<1>5. k - 1 \notin S
  BY <1>1, <1>4
<1>6. PICK g : Growth(is, from, k - 1, g)
  BY <1>4, <1>5
<1> DEFINE h == [j \in 0..k |-> IF j = k THEN Grown(is, g[k - 1]) ELSE g[j]]
<1>7. /\ g \in [0..(k - 1) -> SUBSET Insts] /\ g[0] = from
      /\ \A j \in 1..(k - 1) : g[j] = Grown(is, g[j - 1])
  BY <1>6 DEF Growth
<1>8. \A j \in 0..(k - 1) : h[j] = g[j] /\ g[j] \in SUBSET Insts /\ j \in 0..k
  BY <1>2, <1>7
<1>9. h[k] = Grown(is, g[k - 1]) /\ k - 1 \in 0..(k - 1) /\ 0 \in 0..(k - 1)
  BY <1>2, <1>3
<1>10. Grown(is, g[k - 1]) \in SUBSET Insts
  <2>1. g[k - 1] \in SUBSET Insts
    BY <1>8, <1>9
  <2>2. QED
    BY <2>1 DEF Grown
<1>11. h \in [0..k -> SUBSET Insts]
  <2>1. \A j \in 0..k : j \in 0..(k - 1) \/ j = k
    BY <1>2
  <2>2. \A j \in 0..k : h[j] \in SUBSET Insts
    BY <1>8, <1>9, <1>10, <2>1
  <2>3. QED
    BY <2>2
<1>12. \A j \in 1..k : j - 1 \in 0..(k - 1) /\ (j \in 1..(k - 1) \/ j = k) /\ (j \in 1..(k - 1) => j \in 0..(k - 1))
  BY <1>2
<1> HIDE DEF h
<1>13. \A j \in 1..k : h[j] = Grown(is, h[j - 1])
  BY <1>7, <1>8, <1>9, <1>12
<1>14. Growth(is, from, k, h)
  BY <1>7, <1>8, <1>9, <1>11, <1>13 DEF Growth
<1>15. QED
  BY <1>2, <1>14

\* Reach is the last of them.
LEMMA ReachGrowth ==
    ASSUME NEW is, \A i \in Insts : Held(is, i) \subseteq Insts, NEW from \in SUBSET Insts
    PROVE  \E g : Growth(is, from, MaxInstances, g) /\ Reach(is, from) = g[MaxInstances]
<1> DEFINE P(g) == g = [n \in 0..MaxInstances |->
                          IF n = 0 THEN from
                          ELSE g[n - 1] \cup UNION {Held(is, i) : i \in g[n - 1]}]
           G == CHOOSE g : P(g)
<1>1. Reach(is, from) = G[MaxInstances]
  BY DEF Reach
<1>2. MaxInstances \in Nat
  BY DriverAssumption
<1>3. PICK h : Growth(is, from, MaxInstances, h)
  BY <1>2, GrowthExists
<1>4. P(h)
  <2>1. h \in [0..MaxInstances -> SUBSET Insts] /\ h[0] = from
        /\ \A k \in 1..MaxInstances : h[k] = Grown(is, h[k - 1])
    BY <1>3 DEF Growth
  <2>2. ASSUME NEW n \in 0..MaxInstances
        PROVE  h[n] = IF n = 0 THEN from ELSE h[n - 1] \cup UNION {Held(is, i) : i \in h[n - 1]}
    <3>1. n = 0 \/ n \in 1..MaxInstances
      BY <1>2
    <3>2. n # 0 => h[n] = Grown(is, h[n - 1])
      BY <2>1, <3>1
    <3>3. QED
      BY <2>1, <3>2 DEF Grown
  <2>3. QED
    BY <2>1, <2>2
<1>5. P(G)
  BY <1>4
<1> HIDE DEF G
<1>6. Growth(is, from, MaxInstances, G)
  <2>1. DOMAIN G = 0..MaxInstances
    BY <1>5
  <2>2. ASSUME NEW n \in 0..MaxInstances
        PROVE  (n = 0 => G[n] = from) /\ (n # 0 => G[n] = Grown(is, G[n - 1]))
    <3> DEFINE F == [k \in 0..MaxInstances |->
                       IF k = 0 THEN from ELSE G[k - 1] \cup UNION {Held(is, i) : i \in G[k - 1]}]
    <3>1. G = F
      BY <1>5
    <3>2. (n = 0 => F[n] = from) /\ (n # 0 => F[n] = Grown(is, G[n - 1]))
      BY DEF Grown
    <3> HIDE DEF F
    <3>3. G[n] = F[n]
      BY <3>1
    <3>4. QED
      BY <3>2, <3>3
  <2>3. G[0] = from
    BY <1>2, <2>2
  <2>4. \A k \in 1..MaxInstances : G[k] = Grown(is, G[k - 1])
    <3> TAKE k \in 1..MaxInstances
    <3>1. k \in 0..MaxInstances /\ k # 0
      BY <1>2
    <3>2. QED
      BY <2>2, <3>1
  <2>5. \A n \in 0..MaxInstances : G[n] \in SUBSET Insts
    <3> DEFINE S == {n \in Nat : n \in 0..MaxInstances /\ G[n] \notin SUBSET Insts}
    <3> SUFFICES ASSUME S # {} PROVE FALSE
      BY <1>2
    <3>1. PICK k \in S : \A j \in S : k <= j
      <4>1. S \in SUBSET Nat
        OBVIOUS
      <4> HIDE DEF S
      <4>2. QED
        BY <4>1, LeastNumber
    <3>2. k # 0
      BY <2>3, <3>1
    <3>3. k - 1 \in 0..MaxInstances /\ k \in 1..MaxInstances /\ k - 1 \in Nat /\ ~(k <= k - 1)
      BY <1>2, <3>1, <3>2
    <3>4. G[k - 1] \in SUBSET Insts
      BY <3>1, <3>3
    <3>5. Grown(is, G[k - 1]) \in SUBSET Insts
      BY <3>4 DEF Grown
    <3>6. QED
      BY <2>4, <3>1, <3>3, <3>5
  <2>6. G = [n \in 0..MaxInstances |-> G[n]]
    BY <1>5
  <2>7. QED
    BY <2>3, <2>4, <2>5, <2>6 DEF Growth
<1>7. QED
  BY <1>1, <1>6

Closed(is, S) == \A i \in S : Held(is, i) \subseteq S

\* What is reached from some instances is closed, and is what every closed set
\* with those instances has: as many rounds as there are instances are enough,
\* for a round that is not the last adds one.
LEMMA ReachFacts ==
    ASSUME NEW is, \A i \in Insts : Held(is, i) \subseteq Insts, NEW from \in SUBSET Insts
    PROVE  /\ from \subseteq Reach(is, from) /\ Reach(is, from) \subseteq Insts
           /\ Closed(is, Reach(is, from))
           /\ \A S : from \subseteq S /\ Closed(is, S) => Reach(is, from) \subseteq S
<1>1. PICK g : Growth(is, from, MaxInstances, g) /\ Reach(is, from) = g[MaxInstances]
  BY ReachGrowth
<1>2. /\ g \in [0..MaxInstances -> SUBSET Insts] /\ g[0] = from
      /\ \A k \in 1..MaxInstances : g[k] = Grown(is, g[k - 1])
  BY <1>1 DEF Growth
<1>3. MaxInstances \in Nat /\ IsFiniteSet(Insts) /\ Cardinality(Insts) = MaxInstances
  <2>1. MaxInstances \in Nat
    BY DriverAssumption
  <2>2. IsFiniteSet(1..MaxInstances) /\ Cardinality(1..MaxInstances) =
            IF 1 > MaxInstances THEN 0 ELSE MaxInstances - 1 + 1
    BY <2>1, FS_Interval
  <2>3. QED
    BY <2>1, <2>2 DEF Insts
<1>4. \A n \in 0..MaxInstances : g[n] \in SUBSET Insts /\ IsFiniteSet(g[n]) /\ Cardinality(g[n]) \in Nat
  <2> TAKE n \in 0..MaxInstances
  <2>1. g[n] \in SUBSET Insts
    BY <1>2
  <2>2. IsFiniteSet(g[n])
    BY <1>3, <2>1, FS_Subset
  <2>3. QED
    BY <2>1, <2>2, FS_CardinalityType
<1>5. \A n \in 0..MaxInstances :
        /\ from \subseteq g[n]
        /\ \A S : from \subseteq S /\ Closed(is, S) => g[n] \subseteq S
        /\ Closed(is, g[n]) \/ Cardinality(g[n]) >= n
  <2> DEFINE Q(n) ==
        /\ from \subseteq g[n]
        /\ \A S : from \subseteq S /\ Closed(is, S) => g[n] \subseteq S
        /\ Closed(is, g[n]) \/ Cardinality(g[n]) >= n
      W == {n \in Nat : n \in 0..MaxInstances /\ ~Q(n)}
  <2> SUFFICES ASSUME W # {} PROVE FALSE
    BY <1>3
  <2>1. PICK k \in W : \A j \in W : k <= j
    <3>1. W \in SUBSET Nat
      OBVIOUS
    <3> HIDE DEF W
    <3>2. QED
      BY <3>1, LeastNumber
  <2>2. k # 0
    <3>1. 0 \in 0..MaxInstances
      BY <1>3
    <3>2. Cardinality(g[0]) >= 0
      BY <1>4, <3>1
    <3>3. Q(0)
      BY <1>2, <3>2
    <3>4. QED
      BY <2>1, <3>3
  <2>3. k - 1 \in 0..MaxInstances /\ k \in 1..MaxInstances /\ k - 1 \in Nat /\ ~(k <= k - 1)
        /\ k \in 0..MaxInstances
    BY <1>3, <2>1, <2>2
  <2> HIDE DEF Q
  <2>4. Q(k - 1) /\ ~Q(k)
    BY <2>1, <2>3
  <2> USE DEF Q
  <2>5. g[k] = Grown(is, g[k - 1])
    BY <1>2, <2>3
  <2>6. from \subseteq g[k]
    BY <2>4, <2>5 DEF Grown
  <2>7. \A S : from \subseteq S /\ Closed(is, S) => g[k] \subseteq S
    BY <2>4, <2>5 DEF Grown, Closed
  <2>8. Closed(is, g[k]) \/ Cardinality(g[k]) >= k
    <3>1. CASE Closed(is, g[k - 1])
      <4>1. g[k] = g[k - 1]
        BY <2>5, <3>1 DEF Grown, Closed
      <4>2. QED
        BY <3>1, <4>1
    <3>2. CASE ~Closed(is, g[k - 1])
      <4>1. g[k - 1] \in SUBSET g[k] /\ g[k - 1] # g[k]
        BY <2>5, <3>2 DEF Grown, Closed
      <4>2. /\ Cardinality(g[k - 1]) <= Cardinality(g[k])
            /\ Cardinality(g[k]) = Cardinality(g[k - 1]) => g[k] = g[k - 1]
        BY <1>4, <2>3, <4>1, FS_Subset
      <4>3. Cardinality(g[k - 1]) >= k - 1
        BY <2>4, <3>2
      <4>4. Cardinality(g[k - 1]) \in Nat /\ Cardinality(g[k]) \in Nat
        BY <1>4, <2>3
      <4>5. \A a, b \in Nat : a <= b /\ b # a /\ a >= k - 1 => b >= k
        BY <2>3
      <4>6. QED
        BY <4>1, <4>2, <4>3, <4>4, <4>5
    <3>3. QED
      BY <3>1, <3>2
  <2>9. QED
    BY <2>4, <2>6, <2>7, <2>8
<1>6. MaxInstances \in 0..MaxInstances
  BY <1>3
<1>7. Closed(is, g[MaxInstances])
  <2>1. CASE Cardinality(g[MaxInstances]) >= MaxInstances
    <3>1. Cardinality(g[MaxInstances]) = Cardinality(Insts)
      <4>1. Cardinality(g[MaxInstances]) <= Cardinality(Insts)
        BY <1>3, <1>4, <1>6, FS_Subset
      <4>2. QED
        BY <1>3, <1>4, <1>6, <2>1, <4>1
    <3>2. g[MaxInstances] = Insts
      BY <1>3, <1>4, <1>6, <3>1, FS_Subset
    <3>3. QED
      BY <3>2 DEF Closed
  <2>2. QED
    BY <1>5, <1>6, <2>1
<1>8. QED
  BY <1>1, <1>4, <1>5, <1>6, <1>7

\* What an instance holds are instances, and every node of it is held.
LEMMA HeldFacts ==
    ASSUME NEW is \in [Insts -> Instances], NEW i \in Insts
    PROVE  /\ Held(is, i) \subseteq Insts
           /\ \A k \in DOMAIN is[i].kids : is[i].kids[k].inst # NoInst => is[i].kids[k].inst \in Held(is, i)
           /\ \A k \in DOMAIN is[i].left : is[i].left[k].inst # NoInst => is[i].left[k].inst \in Held(is, i)
           /\ is[i].slot.inst # NoInst => is[i].slot.inst \in Held(is, i)
           /\ is[i].inner # NoInst => is[i].inner \in Held(is, i)
<1> DEFINE nodes == Range(is[i].kids) \cup Range(is[i].left) \cup {is[i].slot}
<1>1. Held(is, i) = ({n.inst : n \in nodes} \cup {is[i].inner}) \ {NoInst}
  BY DEF Held
<1>2. /\ is[i].kids \in Seq(Nodes) /\ is[i].left \in Seq(Nodes) /\ is[i].slot \in Nodes
      /\ is[i].inner \in {NoInst} \cup Insts
  BY DEF Instances
<1>3. /\ \A k \in DOMAIN is[i].kids : is[i].kids[k] \in Nodes
      /\ \A k \in DOMAIN is[i].left : is[i].left[k] \in Nodes
  BY <1>2, LenProperties
<1>4. nodes \subseteq Nodes
  BY <1>2, <1>3 DEF Range
<1>5. \A n \in nodes : n.inst \in {NoInst} \cup Insts
  BY <1>4 DEF Nodes
<1>6. Held(is, i) \subseteq Insts
  <2> HIDE DEF nodes
  <2> QED BY <1>1, <1>2, <1>5
<1>7. /\ \A k \in DOMAIN is[i].kids : is[i].kids[k] \in nodes
      /\ \A k \in DOMAIN is[i].left : is[i].left[k] \in nodes
      /\ is[i].slot \in nodes
  BY DEF Range
<1> HIDE DEF nodes
<1>8. QED
  BY <1>1, <1>6, <1>7

\* What a release leaves: what is held from the root, and nothing of it changed.
LEMMA ReleaseFacts ==
    ASSUME NEW is \in [Insts -> Instances], NEW r \in Nodes
    PROVE  \E R \in SUBSET Insts :
             /\ r.inst # NoInst => r.inst \in R
             /\ Closed(is, R)
             /\ \A S : (r.inst # NoInst => r.inst \in S) /\ Closed(is, S) => R \subseteq S
             /\ \A i \in Insts : Release(is, r)[i] = IF i \in R THEN is[i] ELSE Free
             /\ Release(is, r) \in [Insts -> Instances]
             /\ R = Reach(is, {r.inst} \ {NoInst})
<1> DEFINE from == {r.inst} \ {NoInst}
           R == Reach(is, from)
<1>1. from \in SUBSET Insts
  BY DEF Nodes
<1>2. \A i \in Insts : Held(is, i) \subseteq Insts
  BY HeldFacts
<1>3. /\ from \subseteq R /\ R \subseteq Insts /\ Closed(is, R)
      /\ \A S : from \subseteq S /\ Closed(is, S) => R \subseteq S
  <2> HIDE DEF from
  <2> QED BY <1>1, <1>2, ReachFacts
<1>4. Release(is, r) = [i \in Insts |-> IF i \in R THEN is[i] ELSE Free]
  BY DEF Release
<1>5. Free \in Instances
  BY FreshTyped DEF Free
<1>6. \A S : (r.inst # NoInst => r.inst \in S) => from \subseteq S
  OBVIOUS
<1>7. r.inst # NoInst => r.inst \in from
  OBVIOUS
<1> HIDE DEF R
<1>8. Release(is, r) \in [Insts -> Instances] /\ \A i \in Insts : Release(is, r)[i] = IF i \in R THEN is[i] ELSE Free
  BY <1>4, <1>5
<1>9. R = Reach(is, {r.inst} \ {NoInst})
  BY DEF R
<1> HIDE DEF from
<1>10. QED
  BY <1>3, <1>6, <1>7, <1>8, <1>9

-----------------------------------------------------------------------------
(* What the nodes of a tree and of its renders refer to *)

\* The instance of a node is one of its component: one that is mounted, or the
\* one a failed first run left behind.
Ref(n, is) ==
    n.inst # NoInst =>
        /\ n.tag \in Files /\ is[n.inst].file = n.tag
        /\ is[n.inst].mounted \/ is[n.inst].body = NoText
Refer(s, is) == \A k \in DOMAIN s : Ref(s[k], is)
InstRefs(m, is) == Refer(m.kids, is) /\ Refer(m.left, is) /\ Ref(m.slot, is)
FrameRefs(f, is) ==
    Refer(f.kids, is) /\ Refer(f.left, is) /\ (f.prev # NoInst => is[f.prev].file = f.file)
Refs == /\ \A i \in Insts : InstRefs(inst[i], inst)
        /\ \A d \in DOMAIN stack : FrameRefs(stack[d], inst)
        /\ Ref(root, inst)

\* Instances that are there, and done with their first run, stay so.
Grows(a, b) ==
    \A i \in Insts : a[i].file \in Files =>
        /\ b[i].file = a[i].file
        /\ a[i].mounted \/ a[i].body = NoText => b[i].mounted \/ b[i].body = NoText

LEMMA RefGrows ==
    ASSUME NEW a, NEW b, Grows(a, b), NEW n \in Nodes, Ref(n, a)
    PROVE  Ref(n, b)
BY DEF Ref, Grows, Nodes

LEMMA ReferGrows ==
    ASSUME NEW a, NEW b, Grows(a, b), NEW s \in Seq(Nodes), Refer(s, a)
    PROVE  Refer(s, b)
<1>1. \A k \in DOMAIN s : s[k] \in Nodes
  BY LenProperties
<1>2. QED
  BY <1>1, RefGrows DEF Refer

LEMMA InstRefsGrow ==
    ASSUME NEW a, NEW b, Grows(a, b), NEW m \in Instances, InstRefs(m, a)
    PROVE  InstRefs(m, b)
<1>1. m.kids \in Seq(Nodes) /\ m.left \in Seq(Nodes) /\ m.slot \in Nodes
  BY DEF Instances
<1>2. Refer(m.kids, a) /\ Refer(m.left, a) /\ Ref(m.slot, a)
  BY DEF InstRefs
<1>3. Refer(m.kids, b) /\ Refer(m.left, b) /\ Ref(m.slot, b)
  BY <1>1, <1>2, ReferGrows, RefGrows
<1>4. QED
  BY <1>3 DEF InstRefs

LEMMA FrameRefsGrow ==
    ASSUME NEW a, NEW b, Grows(a, b), NEW f \in Frames, FrameRefs(f, a)
    PROVE  FrameRefs(f, b)
<1>1. f.kids \in Seq(Nodes) /\ f.left \in Seq(Nodes) /\ f.prev \in {NoInst} \cup Insts /\ f.file \in Files
  BY DEF Frames
<1>2. Refer(f.kids, a) /\ Refer(f.left, a) /\ (f.prev # NoInst => a[f.prev].file = f.file)
  BY DEF FrameRefs
<1>3. Refer(f.kids, b) /\ Refer(f.left, b)
  BY <1>1, <1>2, ReferGrows
<1>4. f.prev # NoInst => b[f.prev].file = f.file
  BY <1>1, <1>2 DEF Grows
<1>5. QED
  BY <1>3, <1>4 DEF FrameRefs

LEMMA FreeFacts ==
    /\ Free \in Instances /\ Free.mounted = FALSE /\ Free.file = NoFile /\ Free.file \notin Files
    /\ Free.kids = <<>> /\ Free.left = <<>> /\ Free.slot = NoNode /\ Free.inner = NoInst
    /\ NoNode.inst = NoInst /\ NoNode.tag = NoFile /\ NoNode \in Nodes
<1>1. Free \in Instances
  BY FreshTyped DEF Free
<1>2. NoNode \in Nodes /\ NoNode.inst = NoInst /\ NoNode.tag = NoFile
  BY NodeTyped DEF NoNode
<1>3. QED
  BY <1>1, <1>2, DriverAssumption DEF Free, Fresh

\* A tree with nothing below it refers to nothing.
LEMMA NoRefs ==
    ASSUME NEW m, NEW is, m.kids = <<>>, m.left = <<>>, m.slot = NoNode
    PROVE  InstRefs(m, is)
BY FreeFacts DEF InstRefs, Refer, Ref

\* Nothing that is left refers to what a release destroys.
LEMMA RefsRelease ==
    ASSUME NEW is \in [Insts -> Instances], NEW r \in Nodes, \A i \in Insts : InstRefs(is[i], is), Ref(r, is)
    PROVE  /\ \A i \in Insts : InstRefs(Release(is, r)[i], Release(is, r))
           /\ Ref(r, Release(is, r))
<1>1. PICK R \in SUBSET Insts :
             /\ r.inst # NoInst => r.inst \in R
             /\ Closed(is, R)
             /\ \A i \in Insts : Release(is, r)[i] = IF i \in R THEN is[i] ELSE Free
  BY ReleaseFacts
<1>2. PICK to : to = Release(is, r)
  OBVIOUS
<1>3. \A i \in R : to[i] = is[i] /\ Held(is, i) \subseteq R
  BY <1>1, <1>2 DEF Closed
<1>4. ASSUME NEW n, Ref(n, is), n.inst # NoInst => n.inst \in R
      PROVE  Ref(n, to)
  BY <1>3, <1>4 DEF Ref
<1>5. ASSUME NEW i \in Insts PROVE InstRefs(to[i], to)
  <2>1. CASE i \in R
    <3>1. to[i] = is[i] /\ Held(is, i) \subseteq R
      BY <1>3, <2>1
    <3>2. /\ \A k \in DOMAIN is[i].kids : is[i].kids[k].inst # NoInst => is[i].kids[k].inst \in R
          /\ \A k \in DOMAIN is[i].left : is[i].left[k].inst # NoInst => is[i].left[k].inst \in R
          /\ is[i].slot.inst # NoInst => is[i].slot.inst \in R
      BY <3>1, HeldFacts
    <3>3. /\ \A k \in DOMAIN is[i].kids : Ref(is[i].kids[k], is)
          /\ \A k \in DOMAIN is[i].left : Ref(is[i].left[k], is)
          /\ Ref(is[i].slot, is)
      BY DEF InstRefs, Refer
    <3>4. /\ \A k \in DOMAIN is[i].kids : Ref(is[i].kids[k], to)
          /\ \A k \in DOMAIN is[i].left : Ref(is[i].left[k], to)
          /\ Ref(is[i].slot, to)
      BY <1>4, <3>2, <3>3
    <3>5. QED
      BY <3>1, <3>4 DEF InstRefs, Refer
  <2>2. CASE i \notin R
    <3>1. to[i] = Free
      BY <1>1, <1>2, <2>2
    <3>2. QED
      BY <3>1, FreeFacts, NoRefs
  <2>3. QED
    BY <2>1, <2>2
<1>6. Ref(r, to)
  BY <1>1, <1>4
<1>7. QED
  BY <1>2, <1>5, <1>6

\* The slot of an instance shows something else.
LEMMA SlotTyped ==
    ASSUME NEW is \in [Insts -> Instances], NEW c \in Insts, NEW n \in Nodes
    PROVE  /\ [is EXCEPT ![c].slot = n] \in [Insts -> Instances]
           /\ \A i \in Insts : SameButSlot([is EXCEPT ![c].slot = n][i], is[i])
           /\ \A i \in Insts : i # c => [is EXCEPT ![c].slot = n][i] = is[i]
           /\ [is EXCEPT ![c].slot = n][c].slot = n
<1>1. PICK m : m = [is[c] EXCEPT !.slot = n]
  OBVIOUS
<1>2. [is EXCEPT ![c].slot = n] = [is EXCEPT ![c] = m]
  BY <1>1
<1>3. is[c] \in Instances
  OBVIOUS
<1>4. m \in Instances
  BY <1>1, <1>3 DEF Instances
<1>5. m.slot = n /\ SameButSlot(m, is[c])
  BY <1>1, <1>3 DEF Instances, SameButSlot
<1>6. \A i \in Insts : SameButSlot(is[i], is[i])
  BY DEF SameButSlot
<1>7. QED
  BY <1>2, <1>4, <1>5, <1>6

LEMMA SlotRefs ==
    ASSUME NEW is \in [Insts -> Instances], NEW c \in Insts, NEW n \in Nodes,
           \A i \in Insts : InstRefs(is[i], is), Ref(n, is)
    PROVE  /\ \A i \in Insts : InstRefs([is EXCEPT ![c].slot = n][i], [is EXCEPT ![c].slot = n])
           /\ \A k \in Nodes : Ref(k, is) => Ref(k, [is EXCEPT ![c].slot = n])
<1>1. PICK to : to = [is EXCEPT ![c].slot = n]
  OBVIOUS
<1>2. /\ to \in [Insts -> Instances] /\ \A i \in Insts : SameButSlot(to[i], is[i])
      /\ \A i \in Insts : i # c => to[i] = is[i]
      /\ to[c].slot = n
  BY <1>1, SlotTyped
<1>3. Grows(is, to)
  BY <1>2 DEF Grows, SameButSlot
<1>4. \A k \in Nodes : Ref(k, is) => Ref(k, to)
  BY <1>3, RefGrows
<1>5. ASSUME NEW i \in Insts PROVE InstRefs(to[i], to)
  <2>1. InstRefs(is[i], to)
    BY <1>3, InstRefsGrow
  <2>2. to[i].kids = is[i].kids /\ to[i].left = is[i].left
    BY <1>2 DEF SameButSlot
  <2>3. Ref(to[i].slot, to)
    BY <1>2, <1>4, <2>1 DEF InstRefs
  <2>4. QED
    BY <2>1, <2>2, <2>3 DEF InstRefs
<1>6. QED
  BY <1>1, <1>4, <1>5


\* The outermost call of the host's is that of the entry component, and so is the
\* root the host holds.
Entry == /\ Idle => call = NoInst
         /\ ~Idle /\ call = NoInst => stack[1].file = RootFile
         /\ root.inst # NoInst => root.tag = RootFile

LEMMA ReferAppend ==
    ASSUME NEW is, NEW s \in Seq(Nodes), NEW n \in Nodes, Refer(s, is), Ref(n, is)
    PROVE  Refer(Append(s, n), is)
<1>1. /\ Append(s, n) \in Seq(Nodes) /\ Len(Append(s, n)) = Len(s) + 1
      /\ Append(s, n)[Len(s) + 1] = n /\ \A k \in 1..Len(s) : Append(s, n)[k] = s[k]
  BY PushedTop
<1>2. DOMAIN Append(s, n) = 1..(Len(s) + 1) /\ DOMAIN s = 1..Len(s) /\ Len(s) \in Nat
  BY <1>1, LenProperties
<1>3. \A k \in 1..(Len(s) + 1) : k \in 1..Len(s) \/ k = Len(s) + 1
  BY <1>2, Depths
<1>4. QED
  BY <1>1, <1>2, <1>3 DEF Refer

\* The end of a call whose instances are is and whose answer is n.
LEMMA RefsDeliver ==
    ASSUME Sound, Refs, ~Idle, NEW is \in [Insts -> Instances], NEW n \in Nodes, Deliver(is, n),
           Grows(inst, is), \A i \in Insts : InstRefs(is[i], is), Ref(n, is)
    PROVE  Refs'
<1>1. Basic /\ root \in Nodes /\ call \in {NoInst} \cup Insts /\ stack \in Seq(Frames)
  BY DEF Sound, Basic, Typed
<1>2. Ref(root, is)
  BY <1>1, RefGrows DEF Refs
<1>3. Len(stack) = 1 \/ Len(stack) > 1
  BY <1>1, TopFacts, OneOrMore
<1>4. CASE Len(stack) > 1
  <2>1. inst' = is /\ root' = root
    BY <1>1, <1>4, DeliverInner
  <2>2. ASSUME NEW d \in DOMAIN stack' PROVE FrameRefs(stack'[d], is)
    <3>1. /\ d \in DOMAIN stack /\ stack[d] \in Frames /\ SameCall(stack'[d], stack[d])
          /\ stack'[d].left = stack[d].left
          /\ stack'[d].kids = stack[d].kids \/ stack'[d].kids = Append(stack[d].kids, n)
      BY <1>1, DeliverFrames
    <3>2. FrameRefs(stack[d], is)
      BY <3>1, FrameRefsGrow DEF Refs
    <3>3. stack[d].kids \in Seq(Nodes)
      BY <3>1 DEF Frames
    <3>4. Refer(stack'[d].kids, is)
      BY <3>1, <3>2, <3>3, ReferAppend DEF FrameRefs
    <3>5. QED
      BY <3>1, <3>2, <3>4 DEF FrameRefs, SameCall
  <2>3. QED
    BY <1>2, <2>1, <2>2 DEF Refs
<1>5. CASE Len(stack) = 1
  <2>1. /\ stack' = <<>> /\ root' \in Nodes
        /\ call = NoInst => root' \in {n, root} /\ inst' = Release(is, root')
        /\ call # NoInst => root' = root /\ inst' = Release([is EXCEPT ![call].slot = n], root')
    BY <1>1, <1>5, DeliverOuter
  <2>2. DOMAIN stack' = {}
    BY <2>1, EmptyMap
  <2>3. CASE call = NoInst
    <3>1. Ref(root', is)
      BY <1>2, <2>1, <2>3
    <3>2. PICK r \in Nodes : r = root'
      BY <2>1
    <3>3. /\ \A i \in Insts : InstRefs(Release(is, r)[i], Release(is, r))
          /\ Ref(r, Release(is, r))
      BY <3>1, <3>2, RefsRelease
    <3>4. inst' = Release(is, r)
      BY <2>1, <2>3, <3>2
    <3>5. QED
      BY <2>2, <3>2, <3>3, <3>4 DEF Refs
  <2>4. CASE call # NoInst
    <3>1. call \in Insts
      BY <1>1, <2>4
    <3>2. PICK to : to = [is EXCEPT ![call].slot = n]
      OBVIOUS
    <3>3. to \in [Insts -> Instances]
      BY <3>1, <3>2, SlotTyped
    <3>4. (\A i \in Insts : InstRefs(to[i], to)) /\ Ref(root, to)
      BY <1>1, <1>2, <3>1, <3>2, SlotRefs
    <3>5. /\ \A i \in Insts : InstRefs(Release(to, root)[i], Release(to, root))
          /\ Ref(root, Release(to, root))
      BY <1>1, <3>3, <3>4, RefsRelease
    <3>6. inst' = Release(to, root) /\ root' = root
      BY <2>1, <2>4, <3>2
    <3>7. QED
      BY <2>2, <3>5, <3>6 DEF Refs
  <2>5. QED
    BY <2>3, <2>4
<1>6. QED
  BY <1>3, <1>4, <1>5

\* The innermost frame moves on to f.
LEMMA RefsReplace ==
    ASSUME Sound, Refs, ~Idle, NEW f, Replaced(f), root' = root,
           Grows(inst, inst'), \A i \in Insts : InstRefs(inst'[i], inst'), FrameRefs(f, inst')
    PROVE  Refs'
<1>1. Basic /\ root \in Nodes
  BY DEF Sound, Basic, Typed
<1>2. Ref(root, inst')
  BY <1>1, RefGrows DEF Refs
<1>3. ASSUME NEW d \in DOMAIN stack' PROVE FrameRefs(stack'[d], inst')
  <2>1. /\ d \in DOMAIN stack
        /\ IF d = Len(stack) THEN stack'[d] = f ELSE stack'[d] = stack[d]
    BY <1>1, ReplacedCalls
  <2>2. stack[d] \in Frames
    BY <1>1, <2>1, TopFacts
  <2>3. FrameRefs(stack[d], inst')
    BY <2>1, <2>2, FrameRefsGrow DEF Refs
  <2>4. QED
    BY <2>1, <2>3
<1>4. QED
  BY <1>1, <1>2, <1>3 DEF Refs

LEMMA Same == \A is : Grows(is, is)
BY DEF Grows

\* A call ends early.
LEMMA RefsFail ==
    ASSUME Sound, Refs, ~Idle, Deliver(inst, Node(Top.file, NoInst))
    PROVE  Refs'
<1>1. Basic /\ inst \in [Insts -> Instances]
  BY DEF Sound, Basic, Typed
<1>2. Node(Top.file, NoInst) \in Nodes /\ Node(Top.file, NoInst).inst = NoInst
  BY <1>1, TopFacts, NodeTyped DEF Frames
<1>3. Ref(Node(Top.file, NoInst), inst)
  BY <1>2 DEF Ref
<1>4. QED
  BY <1>1, <1>2, <1>3, Same, RefsDeliver DEF Refs

LEMMA TopRefs ==
    ASSUME Sound, Refs, ~Idle
    PROVE  /\ Top \in Frames /\ FrameRefs(Top, inst) /\ FrameInst(Top, inst) /\ Top = stack[Len(stack)]
           /\ FrameOK(stack, scopes, Len(stack)) /\ Len(stack) \in DOMAIN stack /\ Len(stack) \in Nat
           /\ DOMAIN stack = 1..Len(stack) /\ Len(stack) >= 1
<1>1. Basic
  BY DEF Sound
<1>2. /\ Top \in Frames /\ Top = stack[Len(stack)] /\ Len(stack) \in DOMAIN stack
      /\ FrameOK(stack, scopes, Len(stack)) /\ Len(stack) \in Nat /\ DOMAIN stack = 1..Len(stack)
      /\ Len(stack) >= 1
  BY <1>1, TopFacts
<1>3. QED
  BY <1>1, <1>2 DEF Refs, Basic, Mounted

LEMMA RefsImport ==
    ASSUME Sound, Refs, ImportChild
    PROVE  Refs'
<1>1. Basic /\ inst \in [Insts -> Instances]
  BY DEF Sound, Basic, Typed
<1>2. ~Idle
  BY DEF ImportChild
<1>3. CASE Deliver(inst, Node(Top.file, NoInst))
  BY <1>2, <1>3, RefsFail
<1>4. CASE Replaced([Top EXCEPT !.at = "load"]) /\ inst' = inst /\ root' = root
  <2>1. PICK f : f = [Top EXCEPT !.at = "load"]
    OBVIOUS
  <2>2. f.kids = Top.kids /\ f.left = Top.left /\ f.prev = Top.prev /\ f.file = Top.file
    BY <1>2, <2>1, TopRefs DEF Frames
  <2>3. FrameRefs(f, inst)
    BY <1>2, <2>2, TopRefs DEF FrameRefs
  <2>4. Replaced(f)
    BY <1>4, <2>1
  <2>5. QED
    BY <1>2, <1>4, <2>3, <2>4, Same, RefsReplace DEF Refs
<1>5. QED
  BY <1>1, <1>3, <1>4, ImportShape

LEMMA RefsLoad ==
    ASSUME Sound, Refs, Load
    PROVE  Refs'
<1>1. Basic /\ inst \in [Insts -> Instances]
  BY DEF Sound, Basic, Typed
<1>2. ~Idle
  BY DEF Load
<1>3. CASE Deliver(inst, Node(Top.file, NoInst))
  BY <1>2, <1>3, RefsFail
<1>4. ASSUME Replaced([Top EXCEPT !.at = "body", !.text = documents'[Top.file],
                                  !.todo = Text[documents'[Top.file]].children,
                                  !.left = CollectNestedInvocations(Top.prev)]),
             inst' = inst, root' = root
      PROVE  Refs'
  <2>1. PICK f : f = [Top EXCEPT !.at = "body", !.text = documents'[Top.file],
                                  !.todo = Text[documents'[Top.file]].children,
                                  !.left = CollectNestedInvocations(Top.prev)]
    OBVIOUS
  <2>2. /\ f.kids = Top.kids /\ f.left = CollectNestedInvocations(Top.prev)
        /\ f.prev = Top.prev /\ f.file = Top.file
    BY <1>2, <2>1, TopRefs DEF Frames
  <2>3. Refer(f.left, inst)
    <3>1. CASE Top.prev = NoInst
      <4>1. DOMAIN f.left = {}
        BY <2>2, <3>1, EmptyMap DEF CollectNestedInvocations
      <4>2. QED
        BY <4>1 DEF Refer
    <3>2. CASE Top.prev # NoInst
      <4>1. f.left = inst[Top.prev].kids /\ Top.prev \in Insts
        BY <1>2, <2>2, <3>2, TopRefs DEF CollectNestedInvocations, Frames
      <4>2. QED
        BY <4>1 DEF Refs, InstRefs
    <3>3. QED
      BY <3>1, <3>2
  <2>4. FrameRefs(f, inst)
    BY <1>2, <2>2, <2>3, TopRefs DEF FrameRefs
  <2>5. Replaced(f)
    BY <1>4, <2>1
  <2>6. QED
    BY <1>2, <1>4, <2>4, <2>5, Same, RefsReplace DEF Refs
<1>5. QED
  BY <1>1, <1>3, <1>4, LoadShape


LEMMA RefsMount ==
    ASSUME Sound, Refs, MountBody
    PROVE  Refs'
<1>1. Basic /\ inst \in [Insts -> Instances]
  BY DEF Sound, Basic, Typed
<1>2. ~Idle
  BY DEF MountBody
<1>3. PICK i \in Insts, m \in Instances :
         /\ inst[i] = Free /\ Mounting(m, Top.file, i)
         /\ \/ /\ m.body = scopes[Top.file] /\ inst' = [inst EXCEPT ![i] = m]
               /\ Replaced([Top EXCEPT !.at = "convert", !.inst = i])
               /\ root' = root /\ call' = call /\ failed' = failed
            \/ /\ m.body = NoText /\ failed' = failed \cup {Top.file}
               /\ Deliver([inst EXCEPT ![i] = m], Node(Top.file, i))
  BY <1>1, MountShape
<1>4. PICK is : is = [inst EXCEPT ![i] = m]
  OBVIOUS
<1>5. is \in [Insts -> Instances] /\ is[i] = m /\ \A j \in Insts : j # i => is[j] = inst[j]
  BY <1>1, <1>4, InstanceTyped
<1>6. Grows(inst, is)
  BY <1>3, <1>5, FreeFacts DEF Grows
<1>7. \A j \in Insts : InstRefs(is[j], is)
  <2>1. InstRefs(m, is)
    BY <1>3, NoRefs DEF Mounting
  <2>2. \A j \in Insts : InstRefs(inst[j], is)
    BY <1>1, <1>6, InstRefsGrow DEF Refs
  <2>3. QED
    BY <1>5, <2>1, <2>2
<1>8. Top \in Frames /\ FrameRefs(Top, inst) /\ Top.file \in Files
  BY <1>2, TopRefs DEF Frames
<1>9. CASE /\ m.body = NoText /\ Deliver([inst EXCEPT ![i] = m], Node(Top.file, i))
  <2>1. Node(Top.file, i) \in Nodes /\ Node(Top.file, i).inst = i /\ Node(Top.file, i).tag = Top.file
    BY <1>8, NodeTyped
  <2>2. Ref(Node(Top.file, i), is)
    BY <1>3, <1>5, <1>8, <1>9, <2>1 DEF Ref, Mounting
  <2>3. Deliver(is, Node(Top.file, i))
    BY <1>4, <1>9
  <2>4. QED
    BY <1>2, <1>5, <1>6, <1>7, <2>1, <2>2, <2>3, RefsDeliver
<1>10. CASE /\ inst' = [inst EXCEPT ![i] = m] /\ root' = root
            /\ Replaced([Top EXCEPT !.at = "convert", !.inst = i])
  <2>1. PICK f : f = [Top EXCEPT !.at = "convert", !.inst = i]
    OBVIOUS
  <2>2. f.kids = Top.kids /\ f.left = Top.left /\ f.prev = Top.prev /\ f.file = Top.file
    BY <1>8, <2>1 DEF Frames
  <2>3. inst' = is /\ Replaced(f)
    BY <1>4, <1>10, <2>1
  <2>4. FrameRefs(Top, is)
    BY <1>6, <1>8, FrameRefsGrow
  <2>5. FrameRefs(f, is)
    BY <2>2, <2>4 DEF FrameRefs
  <2>6. QED
    BY <1>2, <1>6, <1>7, <1>10, <2>3, <2>5, RefsReplace
<1>11. QED
  BY <1>3, <1>9, <1>10

LEMMA RefsReload ==
    ASSUME Sound, Refs, ReloadFunction \/ ReloadClass
    PROVE  Refs'
<1>1. Basic /\ OwnSignals /\ inst \in [Insts -> Instances]
  BY DEF Sound, Basic, Typed
<1>2. ~Idle /\ Top.at = "body"
  BY DEF ReloadFunction, ReloadClass
<1>3. PICK i : i = Top.prev
  OBVIOUS
<1>4. i \in Insts /\ \/ Deliver(inst, Node(Top.file, NoInst))
                     \/ /\ root' = root
                        /\ \E m \in SignalMaps, tier \in {"Unchanged", "SignalLayoutChanged"} :
                             /\ inst' = Rerun(i, Top.text, m)
                             /\ Replaced([Top EXCEPT !.at = "convert", !.inst = i, !.tier = tier])
  BY <1>1, <1>3, ReloadShape
<1>5. CASE Deliver(inst, Node(Top.file, NoInst))
  BY <1>2, <1>5, RefsFail
<1>6. ASSUME root' = root, NEW m \in SignalMaps, NEW tier \in {"Unchanged", "SignalLayoutChanged"},
             inst' = Rerun(i, Top.text, m),
             Replaced([Top EXCEPT !.at = "convert", !.inst = i, !.tier = tier])
      PROVE  Refs'
  <2>1. /\ Top \in Frames /\ FrameRefs(Top, inst) /\ Top.file \in Files /\ Top.text \in Versions
        /\ inst[i].mounted
    <3>1. Top \in Frames /\ FrameRefs(Top, inst) /\ FrameInst(Top, inst) /\ FrameOK(stack, scopes, Len(stack))
          /\ Top = stack[Len(stack)]
      BY <1>2, TopRefs
    <3>2. i # NoInst
      BY <1>4, InstNumbers
    <3>3. QED
      BY <1>2, <1>3, <3>1, <3>2 DEF FrameInst, FrameOK, Frames, Versions
  <2>2. /\ inst' \in [Insts -> Instances] /\ \A j \in Insts : j # i => inst'[j] = inst[j]
        /\ inst'[i].file = inst[i].file /\ inst'[i].mounted = inst[i].mounted
        /\ inst'[i].kids = inst[i].kids /\ inst'[i].left = inst[i].left /\ inst'[i].slot = inst[i].slot
    <3>1. PICK v \in Versions : v = Top.text
      BY <2>1
    <3>2. /\ Rerun(i, v, m) \in [Insts -> Instances] /\ \A j \in Insts : j # i => Rerun(i, v, m)[j] = inst[j]
          /\ Rerun(i, v, m)[i].file = inst[i].file /\ Rerun(i, v, m)[i].mounted = inst[i].mounted
          /\ Rerun(i, v, m)[i].kids = inst[i].kids /\ Rerun(i, v, m)[i].left = inst[i].left
          /\ Rerun(i, v, m)[i].slot = inst[i].slot
      BY <1>1, <1>4, <1>6, RerunFacts
    <3>3. QED
      BY <1>6, <3>1, <3>2
  <2>3. Grows(inst, inst')
    BY <2>1, <2>2 DEF Grows
  <2>4. \A j \in Insts : InstRefs(inst'[j], inst')
    <3>1. \A j \in Insts : InstRefs(inst[j], inst')
      BY <1>1, <2>3, InstRefsGrow DEF Refs
    <3>2. \A j \in Insts : inst'[j].kids = inst[j].kids /\ inst'[j].left = inst[j].left /\ inst'[j].slot = inst[j].slot
      BY <2>2
    <3>3. QED
      BY <3>1, <3>2 DEF InstRefs
  <2>5. PICK f : f = [Top EXCEPT !.at = "convert", !.inst = i, !.tier = tier]
    OBVIOUS
  <2>6. f.kids = Top.kids /\ f.left = Top.left /\ f.prev = Top.prev /\ f.file = Top.file
    BY <2>1, <2>5 DEF Frames
  <2>7. Replaced(f)
    BY <1>6, <2>5
  <2>8. FrameRefs(Top, inst')
    BY <2>1, <2>3, FrameRefsGrow
  <2>9. FrameRefs(f, inst')
    BY <2>6, <2>8 DEF FrameRefs
  <2>10. QED
    BY <1>2, <1>6, <2>3, <2>4, <2>7, <2>9, RefsReplace
<1>7. QED
  BY <1>4, <1>5, <1>6

\* What the cursor matches is an instance of the tag.
LEMMA MatchedRef ==
    ASSUME Basic, NEW left \in Seq(Nodes), Refer(left, inst), NEW tag \in Files
    PROVE  /\ Matched(left, tag) # NoInst => inst[Matched(left, tag)].file = tag
           /\ Refer(Past(left), inst) /\ Past(left) \in Seq(Nodes)
           /\ DOMAIN Past(left) = 1..Len(Past(left)) /\ Len(Past(left)) \in Nat
           /\ \A k \in DOMAIN Past(left) : k + 1 \in DOMAIN left /\ Past(left)[k] = left[k + 1]
           /\ \A k \in DOMAIN left : k > 1 => k - 1 \in DOMAIN Past(left)
<1>1. inst \in [Insts -> Instances]
  BY DEF Basic, Typed
<1>2. Matched(left, tag) # NoInst => inst[Matched(left, tag)].file = tag
  <2> HAVE Matched(left, tag) # NoInst
  <2>1. left # <<>> /\ left[1].tag = tag /\ left[1].inst = Matched(left, tag)
    BY <1>1, MatchedFacts
  <2>2. 1 \in DOMAIN left
    BY <2>1, LastOf, OneOrMore
  <2>3. QED
    BY <2>1, <2>2 DEF Refer, Ref
<1>3. CASE left = <<>>
  <2>1. Past(left) = left /\ DOMAIN left = {}
    BY <1>3, EmptyMap DEF Past
  <2>2. QED
    BY <1>2, <2>1, LenProperties
<1>4. CASE left # <<>>
  <2>1. Past(left) = Tail(left)
    BY <1>4 DEF Past
  <2>2. /\ Tail(left) \in Seq(Nodes) /\ Len(Tail(left)) = Len(left) - 1
        /\ \A k \in 1..Len(Tail(left)) : Tail(left)[k] = left[k + 1]
    BY <1>4, HeadTailProperties
  <2>3. /\ Len(left) \in Nat /\ DOMAIN left = 1..Len(left)
        /\ DOMAIN Tail(left) = 1..Len(Tail(left)) /\ Len(Tail(left)) \in Nat
    BY <2>2, LenProperties
  <2>4. \A a, b \in Nat : b = a - 1 => /\ \A k \in 1..b : k + 1 \in 1..a
                                       /\ \A k \in 1..a : k > 1 => k - 1 \in 1..b
    OBVIOUS
  <2>5. /\ \A k \in DOMAIN Tail(left) : k + 1 \in DOMAIN left /\ Tail(left)[k] = left[k + 1]
        /\ \A k \in DOMAIN left : k > 1 => k - 1 \in DOMAIN Tail(left)
    BY <2>2, <2>3, <2>4
  <2>6. Refer(Tail(left), inst)
    BY <2>5 DEF Refer
  <2>7. QED
    BY <1>2, <2>1, <2>2, <2>3, <2>5, <2>6
<1>5. QED
  BY <1>3, <1>4

LEMMA RefsConvert ==
    ASSUME Sound, Refs, ConvertChild
    PROVE  Refs'
<1>1. Basic
  BY DEF Sound
<1> DEFINE f == [Top EXCEPT !.todo = Tail(@), !.left = Past(@)]
<1>2. PICK g : g = Frame(Top.file, Head(Top.todo), Matched(Top.left, Head(Top.todo)))
  OBVIOUS
<1>3. /\ ~Idle /\ inst' = inst /\ root' = root /\ g \in Frames /\ g.file = Top.todo[1] /\ g.kids = <<>>
      /\ g.prev = Matched(Top.left, Top.todo[1]) /\ Pushed(f, g)
  BY <1>1, <1>2, ConvertShape
<1>4. /\ Top \in Frames /\ FrameRefs(Top, inst) /\ Len(stack) \in Nat /\ DOMAIN stack = 1..Len(stack)
  BY <1>3, TopRefs
<1>5. f.file = Top.file /\ f.kids = Top.kids /\ f.prev = Top.prev /\ f.left = Past(Top.left)
  BY <1>4 DEF Frames
<1> HIDE DEF f
<1>6. Top.left \in Seq(Nodes) /\ Refer(Top.left, inst)
  BY <1>4 DEF FrameRefs, Frames
<1>7. FrameRefs(f, inst)
  <2>1. Refer(Past(Top.left), inst)
    BY <1>1, <1>3, <1>6, MatchedRef DEF Frames
  <2>2. QED
    BY <1>4, <1>5, <2>1 DEF FrameRefs
<1>8. FrameRefs(g, inst)
  <2>1. g.prev # NoInst => inst[g.prev].file = g.file
    <3>1. PICK tag \in Files : tag = Top.todo[1]
      BY <1>3 DEF Frames
    <3>2. Matched(Top.left, tag) # NoInst => inst[Matched(Top.left, tag)].file = tag
      BY <1>1, <1>6, MatchedRef
    <3>3. QED
      BY <1>3, <3>1, <3>2
  <2>2. DOMAIN g.kids = {} /\ DOMAIN g.left = {}
    BY <1>2, <1>3, EmptyMap DEF Frame
  <2>3. QED
    BY <2>1, <2>2 DEF FrameRefs, Refer
<1>9. \A d \in DOMAIN stack' : FrameRefs(stack'[d], inst)
  <2>1. /\ DOMAIN stack' = 1..(Len(stack) + 1) /\ stack'[Len(stack)] = f /\ stack'[Len(stack) + 1] = g
        /\ \A d \in 1..(Len(stack) - 1) : stack'[d] = stack[d]
    BY <1>3, LenProperties DEF Pushed
  <2>2. \A d \in 1..(Len(stack) - 1) : FrameRefs(stack'[d], inst)
    BY <1>4, <2>1, Depths DEF Refs
  <2>3. QED
    BY <1>4, <1>7, <1>8, <2>1, <2>2, Depths
<1>10. QED
  BY <1>3, <1>9 DEF Refs

LEMMA RefsReturn ==
    ASSUME Sound, Refs, Return
    PROVE  Refs'
<1>1. Basic /\ inst \in [Insts -> Instances]
  BY DEF Sound, Basic, Typed
<1>2. PICK i : i = Top.inst
  OBVIOUS
<1>3. ~Idle /\ Top.at = "convert" /\ i \in Insts
  BY <1>1, <1>2, ReturnShape
<1>4. PICK m \in Instances : /\ Done(Len(stack), m)
                             /\ Deliver([inst EXCEPT ![i] = m], Node(Top.file, i))
  BY <1>1, <1>2, ReturnShape
<1>5. /\ Top \in Frames /\ Top = stack[Len(stack)] /\ FrameInst(Top, inst) /\ FrameRefs(Top, inst)
      /\ Top.file \in Files
  BY <1>3, TopRefs DEF Frames
<1>6. PICK is : is = [inst EXCEPT ![i] = m]
  OBVIOUS
<1>7. is \in [Insts -> Instances] /\ is[i] = m /\ \A j \in Insts : j # i => is[j] = inst[j]
  BY <1>1, <1>3, <1>6, InstanceTyped
<1>8. m.mounted /\ m.file = inst[i].file
  BY <1>2, <1>4, <1>5 DEF Done
<1>9. Grows(inst, is)
  BY <1>7, <1>8 DEF Grows
<1>10. inst[i].file = Top.file
  <2>1. CASE Top.prev = NoInst
    BY <1>2, <1>3, <1>5, <2>1 DEF FrameInst
  <2>2. CASE Top.prev # NoInst
    BY <1>2, <1>3, <1>5, <2>2 DEF FrameInst, FrameRefs
  <2>3. QED
    BY <2>1, <2>2
<1>11. InstRefs(m, inst)
  <2>1. Refer(m.left, inst)
    <3>1. m.left = <<>> \/ m.left = Top.left
      BY <1>4, <1>5 DEF Done
    <3>2. QED
      BY <1>5, <3>1, EmptyMap DEF FrameRefs, Refer
  <2>2. Ref(m.slot, inst)
    BY <1>4, FreeFacts DEF Done, Ref
  <2>3. Refer(m.kids, inst)
    <3>1. CASE Text[Top.text].bare
      <4>1. m.kids = CollectNestedInvocations(m.inner) /\ m.inner \in {NoInst} \cup Insts
        BY <1>4, <1>5, <3>1 DEF Done, Instances
      <4>2. m.kids = <<>> \/ (m.inner \in Insts /\ m.kids = inst[m.inner].kids)
        BY <4>1 DEF CollectNestedInvocations
      <4>3. QED
        BY <4>2, EmptyMap DEF Refs, InstRefs, Refer
    <3>2. CASE ~Text[Top.text].bare
      <4>1. m.kids = Top.kids
        BY <1>4, <1>5, <3>2 DEF Done
      <4>2. QED
        BY <1>5, <4>1 DEF FrameRefs
    <3>3. QED
      BY <3>1, <3>2
  <2>4. QED
    BY <2>1, <2>2, <2>3 DEF InstRefs
<1>12. \A j \in Insts : InstRefs(is[j], is)
  <2>1. InstRefs(m, is)
    BY <1>9, <1>11, InstRefsGrow
  <2>2. \A j \in Insts : InstRefs(inst[j], is)
    BY <1>1, <1>9, InstRefsGrow DEF Refs
  <2>3. QED
    BY <1>7, <2>1, <2>2
<1>13. Node(Top.file, i) \in Nodes /\ Node(Top.file, i).inst = i /\ Node(Top.file, i).tag = Top.file
  BY <1>3, <1>5, NodeTyped
<1>14. Ref(Node(Top.file, i), is)
  BY <1>5, <1>7, <1>8, <1>10, <1>13 DEF Ref
<1>15. Deliver(is, Node(Top.file, i))
  BY <1>4, <1>6
<1>16. QED
  BY <1>3, <1>7, <1>9, <1>12, <1>13, <1>14, <1>15, RefsDeliver


\* A frame before its load holds no nodes.
LEMMA FrameFields ==
    ASSUME NEW caller, NEW f, NEW p, NEW is, p # NoInst => is[p].file = f
    PROVE  /\ FrameRefs(Frame(caller, f, p), is)
           /\ Frame(caller, f, p).file = f /\ Frame(caller, f, p).prev = p /\ Frame(caller, f, p).kids = <<>>
           /\ Frame(caller, f, p).at # "body" /\ Frame(caller, f, p).at # "convert"
<1>1. /\ Frame(caller, f, p).file = f /\ Frame(caller, f, p).prev = p
      /\ Frame(caller, f, p).kids = <<>> /\ Frame(caller, f, p).left = <<>>
      /\ Frame(caller, f, p).at \in {"load", "import"}
  BY DEF Frame
<1>2. QED
  BY <1>1, EmptyMap DEF FrameRefs, Refer

LEMMA RefsStart ==
    ASSUME Sound, Refs, Entry, MountRoot \/ ReloadRoot \/ \E i \in Insts : RunSlot(i)
    PROVE  Refs' /\ Entry'
<1>1. /\ Basic /\ inst \in [Insts -> Instances] /\ root \in Nodes /\ stack = <<>> /\ RootFile \in Files
  BY DriverAssumption DEF Sound, Basic, Typed, Idle, MountRoot, ReloadRoot, RunSlot
<1>2. root' = root
  BY DEF MountRoot, ReloadRoot, RunSlot
<1>3. ASSUME NEW g, FrameRefs(g, inst'), stack' = <<g>>, call' = NoInst => g.file = RootFile,
             Grows(inst, inst'), \A i \in Insts : InstRefs(inst'[i], inst')
      PROVE  Refs' /\ Entry'
  <2>1. stack'[1] = g /\ DOMAIN stack' = {1}
    BY <1>3
  <2>2. Ref(root', inst')
    BY <1>1, <1>2, <1>3, RefGrows DEF Refs
  <2>3. Refs'
    BY <1>3, <2>1, <2>2 DEF Refs
  <2>4. stack' # <<>>
    BY <2>1, EmptyMap
  <2>5. Entry'
    BY <1>2, <1>3, <2>1, <2>4 DEF Entry, Idle
  <2>6. QED
    BY <2>3, <2>5
<1>4. CASE MountRoot
  <2>1. stack' = <<Frame(NoFile, RootFile, NoInst)>> /\ inst' = inst
    BY <1>4 DEF MountRoot
  <2>2. /\ FrameRefs(Frame(NoFile, RootFile, NoInst), inst)
        /\ Frame(NoFile, RootFile, NoInst).file = RootFile
    BY FrameFields
  <2>3. QED
    BY <1>3, <2>1, <2>2, Same DEF Refs
<1>5. CASE ReloadRoot
  <2>1. stack' = <<Frame(NoFile, RootFile, PriorOf(root.inst))>> /\ inst' = inst
    BY <1>5 DEF ReloadRoot
  <2>2. PICK p : p = PriorOf(root.inst)
    OBVIOUS
  <2>3. p # NoInst => inst[p].file = RootFile
    BY <2>2 DEF PriorOf, Refs, Ref, Entry
  <2>4. FrameRefs(Frame(NoFile, RootFile, p), inst) /\ Frame(NoFile, RootFile, p).file = RootFile
    BY <2>3, FrameFields
  <2>5. QED
    BY <1>3, <2>1, <2>2, <2>4, Same DEF Refs
<1>6. ASSUME NEW i \in Insts, RunSlot(i) PROVE Refs' /\ Entry'
  <2>1. /\ \E tag \in Text[inst[i].block].slot :
              stack' = <<Frame(inst[i].file, tag, Matched(inst[i].left, tag))>>
        /\ inst' = [inst EXCEPT ![i].left = Past(@)]
        /\ call' = i /\ inst[i].mounted /\ inst[i] \in Instances
    BY <1>1, <1>6 DEF RunSlot
  <2>2. inst[i].block \in Versions
    BY <1>1, <2>1 DEF Basic, Mounted, Instances
  <2>3. PICK tag \in Text[inst[i].block].slot :
              stack' = <<Frame(inst[i].file, tag, Matched(inst[i].left, tag))>>
    BY <2>1
  <2>4. tag \in Files
    BY <2>2, DriverAssumption
  <2>5. inst[i].left \in Seq(Nodes) /\ Refer(inst[i].left, inst)
    BY <2>1 DEF Instances, Refs, InstRefs
  <2>6. PICK p : p = Matched(inst[i].left, tag)
    OBVIOUS
  <2>7. /\ p # NoInst => inst[p].file = tag
        /\ Refer(Past(inst[i].left), inst) /\ Past(inst[i].left) \in Seq(Nodes) /\ p \in {NoInst} \cup Insts
    BY <1>1, <2>4, <2>5, <2>6, MatchedRef, MatchedFacts
  <2>8. PICK m : m = [inst[i] EXCEPT !.left = Past(@)]
    OBVIOUS
  <2>9. m \in Instances /\ m.left = Past(inst[i].left)
    BY <2>1, <2>7, <2>8 DEF Instances
  <2>10. m.file = inst[i].file /\ m.mounted = inst[i].mounted /\ m.body = inst[i].body
         /\ m.kids = inst[i].kids /\ m.slot = inst[i].slot
    BY <2>1, <2>8 DEF Instances
  <2>11. inst' \in [Insts -> Instances] /\ inst'[i] = m /\ \A j \in Insts : j # i => inst'[j] = inst[j]
    <3>1. inst' = [inst EXCEPT ![i] = m]
      BY <2>1, <2>8
    <3>2. QED
      BY <1>1, <2>9, <3>1, InstanceTyped
  <2>12. Grows(inst, inst')
    BY <2>10, <2>11 DEF Grows
  <2>13. \A j \in Insts : InstRefs(inst'[j], inst')
    <3>1. InstRefs(m, inst)
      BY <2>7, <2>9, <2>10 DEF Refs, InstRefs
    <3>2. InstRefs(m, inst')
      BY <2>9, <2>12, <3>1, InstRefsGrow
    <3>3. \A j \in Insts : InstRefs(inst[j], inst')
      BY <1>1, <2>12, InstRefsGrow DEF Refs
    <3>4. QED
      BY <2>11, <3>2, <3>3
  <2>14. p # NoInst => inst'[p].file = tag
    BY <2>4, <2>7, <2>12 DEF Grows
  <2>15. FrameRefs(Frame(inst[i].file, tag, p), inst')
    BY <2>14, FrameFields
  <2>16. call' # NoInst
    BY <2>1, InstNumbers
  <2>17. stack' = <<Frame(inst[i].file, tag, p)>>
    BY <2>3, <2>6
  <2>18. QED
    BY <1>3, <2>12, <2>13, <2>15, <2>16, <2>17
<1>7. QED
  BY <1>4, <1>5, <1>6

LEMMA RefsEmpty ==
    ASSUME Sound, Refs, NEW i \in Insts, EmptySlot(i)
    PROVE  Refs'
<1>1. Basic /\ inst \in [Insts -> Instances] /\ root \in Nodes
  BY DEF Sound, Basic, Typed
<1>2. /\ inst' = Release([inst EXCEPT ![i].slot = NoNode], root) /\ stack' = stack /\ root' = root
      /\ stack = <<>>
  BY DEF EmptySlot, Idle
<1>3. PICK to : to = [inst EXCEPT ![i].slot = NoNode]
  OBVIOUS
<1>4. NoNode \in Nodes /\ Ref(NoNode, inst)
  BY FreeFacts DEF Ref
<1>5. to \in [Insts -> Instances] /\ (\A j \in Insts : InstRefs(to[j], to)) /\ Ref(root, to)
  <2>1. \A j \in Insts : InstRefs(inst[j], inst)
    BY DEF Refs
  <2>2. Ref(root, inst)
    BY DEF Refs
  <2>3. QED
    BY <1>1, <1>3, <1>4, <2>1, <2>2, SlotTyped, SlotRefs
<1>6. /\ \A j \in Insts : InstRefs(Release(to, root)[j], Release(to, root))
      /\ Ref(root, Release(to, root))
  BY <1>1, <1>5, RefsRelease
<1>7. DOMAIN stack' = {}
  BY <1>2, EmptyMap
<1>8. QED
  BY <1>2, <1>3, <1>6, <1>7 DEF Refs

LEMMA RefsDrop ==
    ASSUME Sound, Refs, DropPrevious
    PROVE  Refs'
<1>1. Basic /\ inst \in [Insts -> Instances] /\ root \in Nodes
  BY DEF Sound, Basic, Typed
<1>2. stack' = stack /\ root' = root /\ stack = <<>>
  BY DEF DropPrevious, Idle
<1>3. PICK to \in [Insts -> Instances] :
             /\ inst' = Release(to, root)
             /\ \A j \in Insts : \E l \in Seq(Nodes) :
                    to[j] = [inst[j] EXCEPT !.left = l] /\ \A k \in DOMAIN l : l[k] = NoNode
  BY <1>1, DropTo
<1>4. ASSUME NEW j \in Insts
      PROVE  /\ to[j].file = inst[j].file /\ to[j].mounted = inst[j].mounted /\ to[j].body = inst[j].body
             /\ to[j].kids = inst[j].kids /\ to[j].slot = inst[j].slot
             /\ \A k \in DOMAIN to[j].left : to[j].left[k] = NoNode
  <2>1. PICK l \in Seq(Nodes) :
             to[j] = [inst[j] EXCEPT !.left = l] /\ \A k \in DOMAIN l : l[k] = NoNode
    BY <1>3
  <2>2. inst[j] \in Instances
    BY <1>1
  <2>3. QED
    BY <2>1, <2>2 DEF Instances
<1>5. Grows(inst, to)
  BY <1>4 DEF Grows
<1>6. ASSUME NEW j \in Insts PROVE InstRefs(to[j], to)
  <2>1. InstRefs(inst[j], to)
    BY <1>1, <1>5, InstRefsGrow DEF Refs
  <2>2. Refer(to[j].left, to)
    BY <1>4, FreeFacts DEF Refer, Ref
  <2>3. QED
    BY <1>4, <2>1, <2>2 DEF InstRefs
<1>7. Ref(root, to)
  BY <1>1, <1>5, RefGrows DEF Refs
<1>8. /\ \A j \in Insts : InstRefs(Release(to, root)[j], Release(to, root))
      /\ Ref(root, Release(to, root))
  BY <1>1, <1>6, <1>7, RefsRelease
<1>9. DOMAIN stack' = {}
  BY <1>2, EmptyMap
<1>10. QED
  BY <1>2, <1>3, <1>8, <1>9 DEF Refs

LEMMA RefsWrite ==
    ASSUME Sound, Refs, NEW i \in Insts, InvokeInstanceCallable(i)
    PROVE  Refs'
<1>1. Basic /\ inst \in [Insts -> Instances] /\ root \in Nodes
  BY DEF Sound, Basic, Typed
<1>2. root' = root /\ stack' = stack /\ stack = <<>>
  BY DEF InvokeInstanceCallable, Idle
<1>3. inst' \in [Insts -> Instances] /\ \A j \in Insts : j # i => inst'[j] = inst[j]
  BY <1>1, WriteShape
<1>4. PICK s \in SignalMaps : inst'[i] = [inst[i] EXCEPT !.signals = s]
  BY <1>1, WriteShape
<1>5. inst'[i].file = inst[i].file /\ inst'[i].mounted = inst[i].mounted /\ inst'[i].body = inst[i].body
      /\ inst'[i].kids = inst[i].kids /\ inst'[i].slot = inst[i].slot /\ inst'[i].left = inst[i].left
  <2>1. inst[i] \in Instances
    BY <1>1
  <2>2. QED
    BY <1>4, <2>1 DEF Instances
<1>6. Grows(inst, inst')
  BY <1>3, <1>5 DEF Grows
<1>7. \A j \in Insts : InstRefs(inst'[j], inst')
  <2>1. \A j \in Insts : InstRefs(inst[j], inst')
    BY <1>1, <1>6, InstRefsGrow DEF Refs
  <2>2. \A j \in Insts : inst'[j].kids = inst[j].kids /\ inst'[j].slot = inst[j].slot /\ inst'[j].left = inst[j].left
    BY <1>3, <1>5
  <2>3. QED
    BY <2>1, <2>2 DEF InstRefs
<1>8. Ref(root', inst')
  BY <1>1, <1>2, <1>6, RefGrows DEF Refs
<1>9. DOMAIN stack' = {}
  BY <1>2, EmptyMap
<1>10. QED
  BY <1>7, <1>8, <1>9 DEF Refs

\* Every call the driver ends is answered with a node of its own component.
LEMMA EntryDeliver ==
    ASSUME Sound, Entry, ~Idle, NEW is \in [Insts -> Instances], NEW n \in Nodes, Deliver(is, n),
           n.tag = Top.file
    PROVE  Entry'
<1>1. Basic /\ call \in {NoInst} \cup Insts
  BY DEF Sound, Basic, Typed
<1>2. /\ Len(stack) \in Nat /\ (Len(stack) = 1 \/ Len(stack) > 1) /\ Top = stack[Len(stack)]
      /\ DOMAIN stack = 1..Len(stack)
  BY <1>1, TopFacts, OneOrMore
<1>3. CASE Len(stack) > 1
  <2>1. Popped(n) /\ root' = root /\ call' = call
    BY <1>1, <1>3, DeliverInner
  <2>2. Len(stack') = Len(stack) - 1 /\ stack' \in Seq(Frames) /\ 1 \in DOMAIN stack'
    <3>1. Len(stack') = Len(stack) - 1 /\ DOMAIN stack' = 1..Len(stack') /\ stack' \in Seq(Frames)
      BY <2>1, LenProperties DEF Popped
    <3>2. 1 \in 1..(Len(stack) - 1)
      BY <1>2, <1>3
    <3>3. QED
      BY <3>1, <3>2
  <2>3. SameCall(stack'[1], stack[1])
    BY <1>1, <2>2, DeliverFrames
  <2>4. QED
    BY <2>1, <2>2, <2>3, EmptyMap DEF Entry, SameCall, Idle
<1>4. CASE Len(stack) = 1
  <2>1. /\ stack' = <<>> /\ call' = NoInst
        /\ call = NoInst => root' \in {n, root}
        /\ call # NoInst => root' = root
    BY <1>1, <1>4, DeliverOuter
  <2>2. call = NoInst => n.tag = RootFile
    BY <1>2, <1>4 DEF Entry
  <2>3. QED
    BY <2>1, <2>2 DEF Entry, Idle
<1>5. QED
  BY <1>2, <1>3, <1>4

LEMMA EntryBusy ==
    ASSUME Sound, Entry, ~Idle, root' = root, call' = call, stack' # <<>>, 1 \in DOMAIN stack',
           stack'[1].file = stack[1].file
    PROVE  Entry'
BY DEF Entry, Idle

\* The innermost frame moves on, or makes a call.
LEMMA EntryReplaced ==
    ASSUME Sound, Entry, ~Idle, root' = root, call' = call, NEW f, f.file = Top.file,
           Replaced(f) \/ \E g : Pushed(f, g)
    PROVE  Entry'
<1>1. Basic
  BY DEF Sound
<1>2. /\ Len(stack) \in Nat /\ (Len(stack) = 1 \/ Len(stack) > 1) /\ Top = stack[Len(stack)]
      /\ DOMAIN stack = 1..Len(stack)
  BY <1>1, TopFacts, OneOrMore
<1>3. /\ stack' \in Seq(Frames) /\ stack'[Len(stack)] = f
      /\ \A d \in 1..(Len(stack) - 1) : stack'[d] = stack[d]
      /\ Len(stack') = Len(stack) \/ Len(stack') = Len(stack) + 1
  BY DEF Replaced, Pushed
<1>4. stack'[1].file = stack[1].file
  <2>1. CASE Len(stack) = 1
    BY <1>2, <1>3, <2>1
  <2>2. CASE Len(stack) > 1
    <3>1. 1 \in 1..(Len(stack) - 1)
      BY <1>2, <2>2
    <3>2. QED
      BY <1>3, <3>1
  <2>3. QED
    BY <1>2, <2>1, <2>2
<1>5. 1 \in DOMAIN stack'
  <2>1. DOMAIN stack' = 1..Len(stack') /\ 1 \in 1..Len(stack) /\ 1 \in 1..(Len(stack) + 1)
    BY <1>2, <1>3, LenProperties
  <2>2. QED
    BY <1>3, <2>1
<1>6. stack' # <<>>
  BY <1>5, EmptyMap
<1>7. QED
  BY <1>4, <1>5, <1>6, EntryBusy

LEMMA EntryDriver ==
    ASSUME Sound, Entry, Driver
    PROVE  Entry'
<1>1. Basic /\ OwnSignals /\ inst \in [Insts -> Instances]
  BY DEF Sound, Basic, Typed
<1>2. ~Idle
  BY DEF Driver, ImportChild, Load, MountBody, ReloadFunction, ReloadClass, ConvertChild, Return
<1>3. Top \in Frames /\ Top.file \in Files
  BY <1>1, <1>2, TopFacts DEF Frames
<1>4. ASSUME NEW is \in [Insts -> Instances], NEW i \in {NoInst} \cup Insts, Deliver(is, Node(Top.file, i))
      PROVE  Entry'
  BY <1>2, <1>3, <1>4, NodeTyped, EntryDeliver
<1>5. ASSUME NEW f, f.file = Top.file, Replaced(f) \/ \E g : Pushed(f, g), root' = root, call' = call
      PROVE  Entry'
  BY <1>2, <1>5, EntryReplaced
<1>6. CASE ImportChild
  <2>1. CASE Deliver(inst, Node(Top.file, NoInst))
    BY <1>1, <1>4, <2>1
  <2>2. CASE Replaced([Top EXCEPT !.at = "load"]) /\ root' = root /\ call' = call
    <3>1. PICK f : f = [Top EXCEPT !.at = "load"]
      OBVIOUS
    <3>2. f.file = Top.file
      BY <1>3, <3>1 DEF Frames
    <3>3. QED
      BY <1>5, <2>2, <3>1, <3>2
  <2>3. QED
    BY <1>1, <1>6, <2>1, <2>2, ImportShape
<1>7. CASE Load
  <2>1. PICK f : f = [Top EXCEPT !.at = "body", !.text = documents'[Top.file],
                                 !.todo = Text[documents'[Top.file]].children,
                                 !.left = CollectNestedInvocations(Top.prev)]
    OBVIOUS
  <2>2. f.file = Top.file
    BY <1>3, <2>1 DEF Frames
  <2>3. \/ Replaced(f) /\ root' = root /\ call' = call
        \/ Deliver(inst, Node(Top.file, NoInst))
    BY <1>1, <1>7, <2>1, LoadShape
  <2>4. QED
    BY <1>1, <1>4, <1>5, <2>2, <2>3
<1>8. CASE MountBody
  <2>1. PICK i \in Insts, m \in Instances :
              \/ /\ Replaced([Top EXCEPT !.at = "convert", !.inst = i])
                 /\ root' = root /\ call' = call
              \/ Deliver([inst EXCEPT ![i] = m], Node(Top.file, i))
    BY <1>1, <1>8, MountShape
  <2>2. [inst EXCEPT ![i] = m] \in [Insts -> Instances]
    BY <1>1, InstanceTyped
  <2>3. PICK f : f = [Top EXCEPT !.at = "convert", !.inst = i]
    OBVIOUS
  <2>4. f.file = Top.file
    BY <1>3, <2>3 DEF Frames
  <2>5. QED
    BY <1>4, <1>5, <2>1, <2>2, <2>3, <2>4
<1>9. CASE ReloadFunction \/ ReloadClass
  <2>1. PICK i : i = Top.prev
    OBVIOUS
  <2>2. \/ Deliver(inst, Node(Top.file, NoInst))
        \/ /\ root' = root /\ call' = call
           /\ \E tier \in {"Unchanged", "SignalLayoutChanged"} :
                 Replaced([Top EXCEPT !.at = "convert", !.inst = i, !.tier = tier])
    BY <1>1, <1>9, <2>1, ReloadShape
  <2>3. ASSUME NEW tier, Replaced([Top EXCEPT !.at = "convert", !.inst = i, !.tier = tier]),
               root' = root, call' = call
        PROVE  Entry'
    <3>1. PICK f : f = [Top EXCEPT !.at = "convert", !.inst = i, !.tier = tier]
      OBVIOUS
    <3>2. f.file = Top.file
      BY <1>3, <3>1 DEF Frames
    <3>3. QED
      BY <1>5, <2>3, <3>1, <3>2
  <2>4. QED
    BY <1>1, <1>4, <2>2, <2>3
<1>10. CASE ConvertChild
  <2>1. PICK g : g = Frame(Top.file, Head(Top.todo), Matched(Top.left, Head(Top.todo)))
    OBVIOUS
  <2>2. PICK f : f = [Top EXCEPT !.todo = Tail(@), !.left = Past(@)]
    OBVIOUS
  <2>3. f.file = Top.file
    BY <1>3, <2>2 DEF Frames
  <2>4. Pushed(f, g) /\ root' = root /\ call' = call
    BY <1>1, <1>10, <2>1, <2>2, ConvertShape
  <2>5. QED
    BY <1>5, <2>3, <2>4
<1>11. CASE Return
  <2>1. PICK i : i = Top.inst
    OBVIOUS
  <2>2. i \in Insts /\ \E m \in Instances : Deliver([inst EXCEPT ![i] = m], Node(Top.file, i))
    BY <1>1, <1>11, <2>1, ReturnShape
  <2>3. QED
    BY <1>1, <1>4, <2>2, InstanceTyped
<1>12. QED
  BY <1>6, <1>7, <1>8, <1>9, <1>10, <1>11 DEF Driver

Referring == Sound /\ Refs /\ Entry

LEMMA NextReferring ==
    ASSUME Referring, [Next]_vars
    PROVE  Referring'
<1>1. Sound /\ Refs /\ Entry /\ Sound'
  BY NextSound DEF Referring
<1>2. CASE Driver
  <2>1. Refs'
    BY <1>1, <1>2, RefsImport, RefsLoad, RefsMount, RefsReload, RefsConvert, RefsReturn DEF Driver
  <2>2. Entry'
    BY <1>1, <1>2, EntryDriver
  <2>3. QED
    BY <1>1, <2>1, <2>2 DEF Referring
<1>3. ASSUME NEW f \in Files, Edit(f) PROVE Referring'
  BY <1>1, <1>3 DEF Edit, Referring, Refs, Entry, Idle
<1>4. ASSUME MountRoot \/ ReloadRoot \/ \E i \in Insts : RunSlot(i) PROVE Referring'
  BY <1>1, <1>4, RefsStart DEF Referring
<1>5. ASSUME NEW i \in Insts, EmptySlot(i) PROVE Referring'
  <2>1. Entry'
    BY <1>1, <1>5 DEF EmptySlot, Entry, Idle
  <2>2. QED
    BY <1>1, <1>5, <2>1, RefsEmpty DEF Referring
<1>6. ASSUME NEW i \in Insts, InvokeInstanceCallable(i) PROVE Referring'
  <2>1. Entry'
    BY <1>1, <1>6 DEF InvokeInstanceCallable, Entry, Idle
  <2>2. QED
    BY <1>1, <1>6, <2>1, RefsWrite DEF Referring
<1>7. CASE DropPrevious
  <2>1. Entry'
    BY <1>1, <1>7 DEF DropPrevious, Entry, Idle
  <2>2. QED
    BY <1>1, <1>7, <2>1, RefsDrop DEF Referring
<1>8. CASE UNCHANGED world
  BY <1>1, <1>8 DEF world, Referring, Refs, Entry, Idle
<1>9. QED
  BY <1>2, <1>3, <1>4, <1>5, <1>6, <1>7, <1>8, Steps

LEMMA InitReferring == Init => Referring
<1> SUFFICES ASSUME Init PROVE Referring
  OBVIOUS
<1>1. Sound
  BY InitSound
<1>2. /\ inst = [i \in Insts |-> Free] /\ root = NoNode /\ stack = <<>> /\ call = NoInst
  BY DEF Init
<1>3. \A i \in Insts : InstRefs(inst[i], inst)
  BY <1>2, FreeFacts, NoRefs
<1>4. Refs /\ Entry
  BY <1>2, <1>3, FreeFacts, EmptyMap DEF Refs, Entry, Ref, Idle
<1>5. QED
  BY <1>1, <1>4 DEF Referring


-----------------------------------------------------------------------------
(* Positions *)

\* What a place k of the last render, of the tag, holds is what i is.
Stays(is, olds, k, tag, i) ==
    k \in DOMAIN olds /\ olds[k].tag = tag /\ olds[k].inst # NoInst /\ is[olds[k].inst].mounted =>
        i = olds[k].inst

\* The invocations of the last render that a frame has not come to, when it has
\* come to c, and those it has.
Following(f, c, olds) ==
    f.at \in {"body", "convert"} =>
        \A k \in DOMAIN olds : k > c => k - c \in DOMAIN f.left /\ f.left[k - c] = olds[k]
Answered(f, olds, is) ==
    \A k \in DOMAIN f.kids :
        f.kids[k].inst # NoInst => Stays(is, olds, k, f.kids[k].tag, f.kids[k].inst)

CursorOK(st, is, d) ==
    LET f == st[d]
        olds == is[f.prev].kids
        c == Len(f.kids) + Pending(st, d)
    IN  f.prev # NoInst =>
          /\ Following(f, c, olds)
          /\ d < Len(st) => Stays(is, olds, c, st[d + 1].file, st[d + 1].prev)
          /\ Answered(f, olds, is)
Positions == \A d \in DOMAIN stack : CursorOK(stack, inst, d)

\* The last render's invocations are still what they were, or nothing.
SameOlds(olds, now, is, to) ==
    \/ now = <<>>
    \/ /\ now = olds
       /\ \A k \in DOMAIN olds :
            olds[k].inst # NoInst /\ to[olds[k].inst].mounted => is[olds[k].inst].mounted

LEMMA StaysOn ==
    ASSUME NEW olds, NEW now, NEW is, NEW to, SameOlds(olds, now, is, to)
    PROVE  /\ \A k, t, i : Stays(is, olds, k, t, i) => Stays(to, now, k, t, i)
           /\ \A f, c : Following(f, c, olds) => Following(f, c, now)
           /\ \A f : Answered(f, olds, is) => Answered(f, now, to)
<1>1. CASE now = <<>>
  <2>1. DOMAIN now = {}
    BY <1>1, EmptyMap
  <2>2. QED
    BY <2>1 DEF Stays, Following, Answered
<1>2. CASE now = olds /\ \A k \in DOMAIN olds :
              olds[k].inst # NoInst /\ to[olds[k].inst].mounted => is[olds[k].inst].mounted
  <2>1. \A k, t, i : Stays(is, olds, k, t, i) => Stays(to, now, k, t, i)
    BY <1>2 DEF Stays
  <2>2. \A f, c : Following(f, c, olds) => Following(f, c, now)
    BY <1>2
  <2>3. \A f : Answered(f, olds, is) => Answered(f, now, to)
    BY <2>1 DEF Answered
  <2>4. QED
    BY <2>1, <2>2, <2>3
<1>3. QED
  BY <1>1, <1>2 DEF SameOlds

\* The render of a frame that goes on does not change what its last one left: only
\* the render's own return does, and no two renders are of one instance.
LEMMA OldsStay ==
    ASSUME Referring, [Next]_vars, NEW d \in DOMAIN stack, d \in DOMAIN stack',
           NEW p, p = stack[d].prev, p # NoInst
    PROVE  SameOlds(inst[p].kids, inst'[p].kids, inst, inst')
<1>1. Sound /\ Refs /\ Basic /\ OwnSignals /\ stack # <<>>
  BY EmptyMap DEF Referring, Sound
<1>2. ~Idle
  BY <1>1 DEF Idle
<1>3. /\ Top = stack[Len(stack)] /\ Len(stack) \in DOMAIN stack /\ FrameInst(Top, inst)
      /\ Top \in Frames /\ DOMAIN stack = 1..Len(stack)
  BY <1>1, <1>2, TopRefs
<1>4. /\ stack[d] \in Frames /\ FrameInst(stack[d], inst) /\ FrameRefs(stack[d], inst)
  BY <1>1, <1>2, <1>3, TopFacts DEF Basic, Mounted, Refs
<1>5. p \in Insts /\ inst[p].mounted /\ inst[p].file = stack[d].file
  BY <1>4 DEF FrameInst, FrameRefs, Frames
<1>6. ASSUME Return PROVE d # Len(stack)
  <2>1. PICK i : i = Top.inst
    OBVIOUS
  <2>2. PICK m \in Instances : Deliver([inst EXCEPT ![i] = m], Node(Top.file, i))
    BY <1>1, <1>6, <2>1, ReturnShape
  <2>3. i \in Insts /\ inst \in [Insts -> Instances] /\ Top.file \in Files
    BY <1>1, <1>3, <1>6, <2>1, ReturnShape DEF Basic, Typed, Frames
  <2>4. [inst EXCEPT ![i] = m] \in [Insts -> Instances] /\ Node(Top.file, i) \in Nodes
    BY <2>3, InstanceTyped, NodeTyped
  <2>5. d < Len(stack)
    BY <1>1, <1>2, <2>2, <2>4, DeliverFrames
  <2>6. Len(stack) \in Nat
    BY <1>1, <1>2, TopFacts
  <2>7. QED
    BY <2>5, <2>6
<1>7. inst'[p].kids = inst[p].kids \/ inst'[p].kids = <<>>
  <2>1. ~Mounts(p)
    BY <1>1, <1>5, MountedNotFree DEF Mounts
  <2>2. ~Returns(p)
    <3> SUFFICES ASSUME Returns(p) PROVE FALSE
      OBVIOUS
    <3>1. Return /\ p = Top.inst
      BY DEF Returns
    <3>2. Top.at = "convert"
      BY <3>1 DEF Return
    <3>3. Top.prev = p
      BY <1>3, <1>5, <3>1, <3>2 DEF FrameInst
    <3>4. inst[p].file = Top.file
      BY <1>1, <1>2, <1>5, <3>3, TopRefs, InstNumbers DEF FrameRefs
    <3>5. QED
      BY <1>1, <1>3, <1>5, <1>6, <3>1, <3>4, FilesOnce
  <2>3. inst'[p] = Free => inst'[p].kids = <<>>
    BY FreeFacts
  <2>4. QED
    BY <1>1, <1>5, <2>1, <2>2, <2>3, EachInstance DEF Untouched, Reruns, Writes
<1>8. ASSUME NEW k \in DOMAIN inst[p].kids, inst[p].kids[k].inst # NoInst,
             inst'[inst[p].kids[k].inst].mounted, ~inst[inst[p].kids[k].inst].mounted
      PROVE  FALSE
  <2>1. PICK q : q = inst[p].kids[k].inst
    OBVIOUS
  <2>2. q \in Insts
    <3>1. inst[p].kids \in Seq(Nodes)
      BY <1>1, <1>5 DEF Basic, Typed, Instances
    <3>2. inst[p].kids[k] \in Nodes
      BY <3>1, LenProperties
    <3>3. QED
      BY <1>8, <2>1, <3>2 DEF Nodes
  <2>3. inst[q].body = NoText
    BY <1>1, <1>5, <1>8, <2>1 DEF Refs, InstRefs, Refer, Ref
  <2>4. ~Untouched(q) /\ inst'[q] # Free /\ ~Mounts(q) /\ ~Reruns(q) /\ ~Writes(q)
    BY <1>8, <2>1, FreeFacts DEF Untouched, Mounts, Reruns, Writes
  <2>5. Returns(q)
    BY <1>1, <2>2, <2>4, EachInstance
  <2>6. q = Top.inst /\ Top.at = "convert"
    BY <2>5 DEF Returns, Return
  <2>7. QED
    BY <1>3, <1>8, <2>1, <2>3, <2>6 DEF FrameInst
<1>9. QED
  BY <1>7, <1>8 DEF SameOlds

\* A render that waits and goes on waiting.
LEMMA CursorWaits ==
    ASSUME Referring, [Next]_vars, Positions, NEW d \in DOMAIN stack, d \in DOMAIN stack',
           d < Len(stack), d < Len(stack'), SameCall(stack'[d], stack[d]),
           stack'[d].kids = stack[d].kids, stack'[d].left = stack[d].left,
           stack'[d + 1].file = stack[d + 1].file, stack'[d + 1].prev = stack[d + 1].prev
    PROVE  CursorOK(stack', inst', d)
<1>1. PICK p : p = stack[d].prev
  OBVIOUS
<1>2. stack'[d].prev = p /\ stack'[d].at = stack[d].at
  BY <1>1 DEF SameCall
<1> SUFFICES ASSUME p # NoInst PROVE CursorOK(stack', inst', d)
  BY <1>2 DEF CursorOK
<1>3. SameOlds(inst[p].kids, inst'[p].kids, inst, inst')
  BY <1>1, OldsStay
<1>4. Pending(stack, d) = 1 /\ Pending(stack', d) = 1
  BY DEF Pending
<1>5. PICK c : c = Len(stack[d].kids) + 1
  OBVIOUS
<1>6. /\ Following(stack[d], c, inst[p].kids)
      /\ Stays(inst, inst[p].kids, c, stack[d + 1].file, stack[d + 1].prev)
      /\ Answered(stack[d], inst[p].kids, inst)
  BY <1>1, <1>4, <1>5 DEF Positions, CursorOK
<1>7. /\ Following(stack[d], c, inst'[p].kids)
      /\ Stays(inst', inst'[p].kids, c, stack[d + 1].file, stack[d + 1].prev)
      /\ Answered(stack[d], inst'[p].kids, inst')
  BY <1>3, <1>6, StaysOn
<1>8. Following(stack'[d], c, inst'[p].kids) /\ Answered(stack'[d], inst'[p].kids, inst')
  BY <1>2, <1>7 DEF Following, Answered
<1>9. QED
  BY <1>2, <1>4, <1>5, <1>7, <1>8 DEF CursorOK

\* A call that has not come to its render.
LEMMA CursorFresh ==
    ASSUME NEW st, NEW is, NEW d, d = Len(st), Len(st) \in Nat, st[d].kids = <<>>, st[d].at \notin {"body", "convert"}
    PROVE  CursorOK(st, is, d)
<1>1. ~(d < Len(st)) /\ DOMAIN st[d].kids = {}
  BY EmptyMap
<1>2. QED
  BY <1>1 DEF CursorOK, Following, Answered


\* Counting places.
LEMMA PlaceNumbers ==
    ASSUME NEW n \in Nat
    PROVE  /\ n + 1 \in Nat /\ n + 0 = n /\ n + 1 + 0 = n + 1
           /\ \A k \in 1..(n + 1) : k \in 1..n \/ k = n + 1
           /\ \A k \in Nat : k > n + 1 => k > n /\ k - n > 1 /\ k - n - 1 = k - (n + 1)
           /\ n + 1 > n /\ n + 1 - n = 1
OBVIOUS

LEMMA PositionsDeliver ==
    ASSUME Referring, [Next]_vars, Positions, ~Idle, NEW is \in [Insts -> Instances], NEW n \in Nodes,
           Deliver(is, n), n.tag = Top.file, n.inst # NoInst /\ Top.prev # NoInst => n.inst = Top.prev
    PROVE  Positions'
<1>1. Basic
  BY DEF Referring, Sound
<1>2. ASSUME NEW d \in DOMAIN stack' PROVE CursorOK(stack', inst', d)
  <2>1. /\ d \in DOMAIN stack /\ d < Len(stack) /\ Len(stack) > 1 /\ stack[d] \in Frames
        /\ inst' = is
        /\ stack[d].at = "convert" /\ SameCall(stack'[d], stack[d])
        /\ stack'[d].left = stack[d].left
        /\ stack'[d].kids = IF d = Len(stack) - 1 THEN Append(stack[d].kids, n) ELSE stack[d].kids
    BY <1>1, DeliverFrames
  <2>2. /\ Len(stack') = Len(stack) - 1 /\ Len(stack) \in Nat /\ Len(stack') \in Nat
        /\ DOMAIN stack' = 1..Len(stack') /\ Top = stack[Len(stack)]
    <3>1. Popped(n)
      BY <1>1, <2>1, DeliverInner
    <3>2. Len(stack) \in Nat /\ Top = stack[Len(stack)]
      BY <1>1, TopFacts
    <3>3. QED
      BY <3>1, <3>2, LenProperties DEF Popped
  <2>3. CASE d < Len(stack')
    <3>1. \A m \in Nat : \A e \in 1..m : e < m => e + 1 \in 1..m /\ e # m
      OBVIOUS
    <3>2. d + 1 \in DOMAIN stack' /\ d # Len(stack) - 1
      BY <2>2, <2>3, <3>1
    <3>3. SameCall(stack'[d + 1], stack[d + 1])
      BY <1>1, <3>2, DeliverFrames
    <3>4. QED
      BY <2>1, <2>3, <3>2, <3>3, CursorWaits DEF SameCall
  <2>4. CASE ~(d < Len(stack'))
    <3>1. d = Len(stack') /\ d = Len(stack) - 1 /\ d + 1 = Len(stack)
      <4>1. \A m, k \in Nat : \A e \in 1..m : ~(e < m) /\ m = k - 1 => e = m /\ e = k - 1 /\ e + 1 = k
        OBVIOUS
      <4>2. QED
        BY <2>2, <2>4, <4>1
    <3>2. Pending(stack, d) = 1 /\ Pending(stack', d) = 0
      BY <2>1, <2>4 DEF Pending
    <3>3. PICK p : p = stack[d].prev
      OBVIOUS
    <3> SUFFICES ASSUME p # NoInst PROVE CursorOK(stack', inst', d)
      BY <2>1, <3>3 DEF CursorOK, SameCall
    <3>4. PICK s \in Seq(Nodes) : s = stack[d].kids
      BY <2>1 DEF Frames
    <3>5. /\ Append(s, n) \in Seq(Nodes) /\ Len(Append(s, n)) = Len(s) + 1
          /\ Append(s, n)[Len(s) + 1] = n /\ \A k \in 1..Len(s) : Append(s, n)[k] = s[k]
          /\ DOMAIN s = 1..Len(s) /\ Len(s) \in Nat /\ DOMAIN Append(s, n) = 1..(Len(s) + 1)
      BY PushedTop, LenProperties
    <3>6. stack'[d].kids = Append(s, n)
      BY <2>1, <3>1, <3>4
    <3>7. PICK c \in Nat : c = Len(s) + 1
      BY <3>5
    <3>8. /\ Following(stack[d], c, inst[p].kids)
          /\ Stays(inst, inst[p].kids, c, Top.file, Top.prev)
          /\ Answered(stack[d], inst[p].kids, inst)
      BY <2>1, <2>2, <3>1, <3>2, <3>3, <3>4, <3>7 DEF Positions, CursorOK
    <3>9. SameOlds(inst[p].kids, is[p].kids, inst, is)
      BY <2>1, <3>3, OldsStay
    <3>10. /\ Following(stack[d], c, is[p].kids)
           /\ Stays(is, is[p].kids, c, Top.file, Top.prev)
           /\ Answered(stack[d], is[p].kids, is)
      BY <3>8, <3>9, StaysOn
    <3>11. Following(stack'[d], c, is[p].kids)
      BY <2>1, <3>10 DEF Following, SameCall
    <3>12. n.inst # NoInst => Stays(is, is[p].kids, c, n.tag, n.inst)
      BY <3>10 DEF Stays
    <3>13. Answered(stack'[d], is[p].kids, is)
      <4>1. \A k \in 1..Len(s) : s[k].inst # NoInst => Stays(is, is[p].kids, k, s[k].tag, s[k].inst)
        BY <3>4, <3>5, <3>10 DEF Answered
      <4>2. \A k \in 1..(Len(s) + 1) : Append(s, n)[k].inst # NoInst =>
               Stays(is, is[p].kids, k, Append(s, n)[k].tag, Append(s, n)[k].inst)
        BY <3>5, <3>7, <3>12, <4>1, PlaceNumbers
      <4>3. QED
        BY <3>5, <3>6, <4>2 DEF Answered
    <3>14. Len(stack'[d].kids) + Pending(stack', d) = c
      BY <3>2, <3>5, <3>6, <3>7, PlaceNumbers
    <3>15. stack'[d].prev = p
      BY <2>1, <3>3 DEF SameCall
    <3>16. QED
      BY <2>1, <2>4, <3>11, <3>13, <3>14, <3>15 DEF CursorOK
  <2>5. QED
    BY <2>3, <2>4
<1>3. QED
  BY <1>2 DEF Positions

\* The innermost call moves on.
LEMMA PositionsReplace ==
    ASSUME Referring, [Next]_vars, Positions, ~Idle, NEW f, Replaced(f), f.file = Top.file,
           f.prev = Top.prev, CursorOK(stack', inst', Len(stack))
    PROVE  Positions'
<1>1. Basic
  BY DEF Referring, Sound
<1>2. Top = stack[Len(stack)] /\ Len(stack) \in Nat /\ DOMAIN stack = 1..Len(stack)
  BY <1>1, TopFacts
<1>3. ASSUME NEW d \in DOMAIN stack', d # Len(stack) PROVE CursorOK(stack', inst', d)
  <2>1. d \in DOMAIN stack /\ DOMAIN stack' = DOMAIN stack /\ d < Len(stack) /\ stack'[d] = stack[d]
    BY <1>1, <1>3, ReplacedCalls
  <2>2. d + 1 \in DOMAIN stack'
    BY <1>2, <2>1
  <2>3. stack'[d + 1].file = stack[d + 1].file /\ stack'[d + 1].prev = stack[d + 1].prev
    BY <1>1, <1>2, <2>2, ReplacedCalls
  <2>4. Len(stack') = Len(stack)
    BY DEF Replaced
  <2>5. QED
    BY <2>1, <2>3, <2>4, CursorWaits DEF SameCall
<1>4. QED
  BY <1>3 DEF Positions

\* The cursor moves past one invocation, which the new call is matched with.
LEMMA PositionsConvert ==
    ASSUME Referring, [Next]_vars, Positions, ConvertChild
    PROVE  Positions'
<1>1. Basic /\ Sound /\ Refs
  BY DEF Referring, Sound
<1> DEFINE f == [Top EXCEPT !.todo = Tail(@), !.left = Past(@)]
<1>2. PICK g : g = Frame(Top.file, Head(Top.todo), Matched(Top.left, Head(Top.todo)))
  OBVIOUS
<1>3. /\ ~Idle /\ inst' = inst /\ g \in Frames /\ g.file = Top.todo[1] /\ g.kids = <<>>
      /\ g.at = "import" /\ g.prev = Matched(Top.left, Top.todo[1]) /\ Pushed(f, g)
      /\ Top.at = "convert"
  BY <1>1, <1>2, ConvertShape
<1>4. /\ Top \in Frames /\ FrameRefs(Top, inst) /\ Len(stack) \in Nat /\ DOMAIN stack = 1..Len(stack)
      /\ Top = stack[Len(stack)] /\ FrameInst(Top, inst) /\ Len(stack) \in DOMAIN stack
  BY <1>1, <1>3, TopRefs
<1>5. f.file = Top.file /\ f.kids = Top.kids /\ f.prev = Top.prev /\ f.left = Past(Top.left) /\ f.at = Top.at
  BY <1>4 DEF Frames
<1> HIDE DEF f
<1>6. /\ DOMAIN stack' = 1..(Len(stack) + 1) /\ stack'[Len(stack)] = f /\ stack'[Len(stack) + 1] = g
      /\ \A d \in 1..(Len(stack) - 1) : stack'[d] = stack[d]
      /\ Len(stack') = Len(stack) + 1
  BY <1>3, LenProperties DEF Pushed
<1>7. ASSUME NEW d \in 1..(Len(stack) - 1) PROVE CursorOK(stack', inst', d)
  <2>1. d \in DOMAIN stack /\ d \in DOMAIN stack' /\ d < Len(stack) /\ d < Len(stack')
    BY <1>4, <1>6
  <2>2. d + 1 \in 1..(Len(stack) - 1) \/ d + 1 = Len(stack)
    BY <1>4, <2>1, Depths
  <2>3. stack'[d + 1].file = stack[d + 1].file /\ stack'[d + 1].prev = stack[d + 1].prev
    BY <1>4, <1>5, <1>6, <2>2
  <2>4. stack'[d] = stack[d]
    BY <1>6
  <2>5. QED
    BY <2>1, <2>3, <2>4, CursorWaits DEF SameCall
<1>8. CursorOK(stack', inst', Len(stack) + 1)
  <2>1. Len(stack') \in Nat /\ g.at \notin {"body", "convert"}
    BY <1>3, <1>4, <1>6
  <2>2. QED
    BY <1>3, <1>6, <2>1, CursorFresh
<1>9. CursorOK(stack', inst', Len(stack))
  <2>1. PICK p : p = Top.prev
    OBVIOUS
  <2> SUFFICES ASSUME p # NoInst PROVE CursorOK(stack', inst', Len(stack))
    BY <1>5, <1>6, <2>1 DEF CursorOK
  <2>2. Pending(stack, Len(stack)) = 0 /\ Pending(stack', Len(stack)) = 1 /\ Len(stack) < Len(stack')
    BY <1>4, <1>6 DEF Pending
  <2>3. Top.left \in Seq(Nodes) /\ Refer(Top.left, inst) /\ Top.kids \in Seq(Nodes) /\ p \in Insts
        /\ Top.todo \in Seq(Files) /\ g.file \in Files
    BY <1>3, <1>4, <2>1 DEF FrameRefs, Frames
  <2>4. PICK c \in Nat : c = Len(Top.kids)
    BY <2>3, LenProperties
  <2>5. PICK olds \in Seq(Nodes) : olds = inst[p].kids
    BY <1>1, <2>3 DEF Basic, Typed, Instances
  <2>6. DOMAIN olds \subseteq Nat
    BY <2>5, LenProperties
  <2>7. Following(Top, c, olds) /\ Answered(Top, olds, inst)
    BY <1>4, <2>1, <2>2, <2>4, <2>5, PlaceNumbers DEF Positions, CursorOK
  <2>8. PICK left \in Seq(Nodes) : left = Top.left
    BY <2>3
  <2>9. \A k \in DOMAIN olds : k > c => k - c \in DOMAIN left /\ left[k - c] = olds[k]
    BY <1>3, <2>7, <2>8 DEF Following
  <2>10. /\ \A k \in DOMAIN Past(left) : k + 1 \in DOMAIN left /\ Past(left)[k] = left[k + 1]
         /\ \A k \in DOMAIN left : k > 1 => k - 1 \in DOMAIN Past(left)
    BY <1>1, <2>3, <2>8, MatchedRef
  <2>11. ASSUME NEW k \in DOMAIN olds, k > c + 1
         PROVE  k - (c + 1) \in DOMAIN Past(left) /\ Past(left)[k - (c + 1)] = olds[k]
    <3>1. k \in Nat /\ k > c /\ k - c > 1 /\ k - c - 1 = k - (c + 1) /\ k - c - 1 + 1 = k - c
      BY <2>6, <2>11, PlaceNumbers
    <3>2. k - c \in DOMAIN left /\ left[k - c] = olds[k]
      BY <2>9, <3>1
    <3>3. k - c - 1 \in DOMAIN Past(left)
      BY <2>10, <3>1, <3>2
    <3>4. QED
      BY <2>10, <3>1, <3>2, <3>3
  <2>12. Following(f, c + 1, olds)
    BY <1>5, <2>8, <2>11 DEF Following
  <2>13. Stays(inst, olds, c + 1, g.file, g.prev)
    <3> SUFFICES ASSUME c + 1 \in DOMAIN olds, olds[c + 1].tag = g.file, olds[c + 1].inst # NoInst,
                        inst[olds[c + 1].inst].mounted
                 PROVE  g.prev = olds[c + 1].inst
      BY DEF Stays
    <3>1. 1 \in DOMAIN left /\ left[1] = olds[c + 1]
      BY <2>9, PlaceNumbers
    <3>2. left # <<>>
      BY <3>1, EmptyMap
    <3>3. left[1].tag = g.file => Matched(left, g.file) = PriorOf(left[1].inst)
      BY <1>1, <3>2, MatchedFacts DEF Basic, Typed
    <3>4. g.prev = Matched(left, g.file)
      BY <1>3, <2>8
    <3>5. QED
      BY <3>1, <3>3, <3>4 DEF PriorOf
  <2>14. Answered(f, olds, inst)
    BY <1>5, <2>7 DEF Answered
  <2>15. Len(f.kids) + Pending(stack', Len(stack)) = c + 1
    BY <1>5, <2>2, <2>4
  <2>16. QED
    BY <1>3, <1>5, <1>6, <2>1, <2>5, <2>12, <2>13, <2>14, <2>15 DEF CursorOK
<1>10. QED
  <2>1. \A d \in 1..(Len(stack) + 1) : d \in 1..(Len(stack) - 1) \/ d = Len(stack) \/ d = Len(stack) + 1
    BY <1>4, Depths
  <2>2. QED
    BY <1>6, <1>7, <1>8, <1>9, <2>1 DEF Positions


\* A call ends early, or before its render.
LEMMA PositionsFail ==
    ASSUME Referring, [Next]_vars, Positions, ~Idle, Deliver(inst, Node(Top.file, NoInst))
    PROVE  Positions'
<1>1. inst \in [Insts -> Instances] /\ Top.file \in Files
  BY TopRefs DEF Referring, Sound, Basic, Typed, Frames
<1>2. /\ Node(Top.file, NoInst) \in Nodes /\ Node(Top.file, NoInst).tag = Top.file
      /\ Node(Top.file, NoInst).inst = NoInst
  BY <1>1, NodeTyped
<1>3. QED
  BY <1>1, <1>2, PositionsDeliver

LEMMA PositionsDriver ==
    ASSUME Referring, [Next]_vars, Positions, Driver
    PROVE  Positions'
<1>1. Basic /\ Sound /\ Refs /\ OwnSignals /\ inst \in [Insts -> Instances]
  BY DEF Referring, Sound, Basic, Typed
<1>2. ~Idle
  BY DEF Driver, ImportChild, Load, MountBody, ReloadFunction, ReloadClass, ConvertChild, Return
<1>3. /\ Top \in Frames /\ Top.file \in Files /\ Len(stack) \in Nat /\ Top = stack[Len(stack)]
      /\ FrameInst(Top, inst) /\ FrameOK(stack, scopes, Len(stack)) /\ Len(stack) \in DOMAIN stack
  BY <1>1, <1>2, TopRefs DEF Frames
<1>4. Pending(stack, Len(stack)) = 0 /\ ~(Len(stack) < Len(stack))
  BY <1>3 DEF Pending
<1>5. ASSUME NEW f, Replaced(f)
      PROVE  /\ Len(stack') = Len(stack) /\ stack'[Len(stack)] = f /\ Pending(stack', Len(stack)) = 0
             /\ ~(Len(stack) < Len(stack'))
  BY <1>3, <1>5 DEF Replaced, Pending
<1>6. CASE Deliver(inst, Node(Top.file, NoInst))
  BY <1>2, <1>6, PositionsFail
<1>7. CASE ImportChild
  <2>1. CASE Replaced([Top EXCEPT !.at = "load"])
    <3>1. PICK f : f = [Top EXCEPT !.at = "load"]
      OBVIOUS
    <3>2. f.file = Top.file /\ f.prev = Top.prev /\ f.at = "load" /\ f.kids = Top.kids
      BY <1>3, <3>1 DEF Frames
    <3>3. f.kids = <<>>
      BY <1>3, <1>7, <3>2 DEF FrameOK, ImportChild
    <3>4. Replaced(f)
      BY <2>1, <3>1
    <3>5. CursorOK(stack', inst', Len(stack))
      BY <1>3, <1>5, <3>2, <3>3, <3>4, CursorFresh
    <3>6. QED
      BY <1>2, <3>2, <3>4, <3>5, PositionsReplace
  <2>2. QED
    BY <1>1, <1>6, <1>7, <2>1, ImportShape
<1>8. CASE Load
  <2>1. PICK f : f = [Top EXCEPT !.at = "body", !.text = documents'[Top.file],
                                 !.todo = Text[documents'[Top.file]].children,
                                 !.left = CollectNestedInvocations(Top.prev)]
    OBVIOUS
  <2>2. f.file = Top.file /\ f.prev = Top.prev /\ f.kids = Top.kids /\ f.left = CollectNestedInvocations(Top.prev)
    BY <1>3, <2>1 DEF Frames
  <2>3. CASE Replaced(f) /\ inst' = inst
    <3>1. f.kids = <<>>
      BY <1>3, <1>8, <2>2 DEF FrameOK, Load
    <3>2. ASSUME f.prev # NoInst PROVE CursorOK(stack', inst, Len(stack))
      <4>1. f.left = inst[f.prev].kids /\ f.prev \in Insts
        BY <1>3, <2>2, <3>2 DEF CollectNestedInvocations, Frames
      <4>2. DOMAIN inst[f.prev].kids \subseteq Nat
        BY <1>1, <4>1, LenProperties DEF Instances
      <4>3. \A k \in Nat : k - 0 = k
        OBVIOUS
      <4>4. Following(f, 0, inst[f.prev].kids)
        BY <4>1, <4>2, <4>3 DEF Following
      <4>5. Answered(f, inst[f.prev].kids, inst)
        BY <3>1, EmptyMap DEF Answered
      <4>6. Len(f.kids) + Pending(stack', Len(stack)) = 0
        <5>1. Len(f.kids) = 0
          BY <3>1
        <5>2. QED
          BY <1>5, <2>3, <5>1
      <4>7. stack'[Len(stack)] = f /\ ~(Len(stack) < Len(stack'))
        BY <1>5, <2>3
      <4>8. QED
        BY <4>4, <4>5, <4>6, <4>7 DEF CursorOK
    <3>3. CursorOK(stack', inst', Len(stack))
      BY <1>5, <2>3, <3>2 DEF CursorOK
    <3>4. QED
      BY <1>2, <2>2, <2>3, <3>3, PositionsReplace
  <2>4. QED
    BY <1>1, <1>6, <1>8, <2>1, <2>3, LoadShape
<1>9. CASE MountBody
  <2>1. Top.prev = NoInst
    BY <1>9 DEF MountBody
  <2>2. PICK i \in Insts, m \in Instances :
              \/ /\ Replaced([Top EXCEPT !.at = "convert", !.inst = i])
                 /\ root' = root /\ call' = call
              \/ Deliver([inst EXCEPT ![i] = m], Node(Top.file, i))
    BY <1>1, <1>9, MountShape
  <2>3. CASE Replaced([Top EXCEPT !.at = "convert", !.inst = i])
    <3>1. PICK f : f = [Top EXCEPT !.at = "convert", !.inst = i]
      OBVIOUS
    <3>2. f.file = Top.file /\ f.prev = NoInst /\ f.prev = Top.prev /\ Replaced(f)
      BY <1>3, <2>1, <2>3, <3>1 DEF Frames
    <3>3. CursorOK(stack', inst', Len(stack))
      BY <1>5, <3>2 DEF CursorOK
    <3>4. QED
      BY <1>2, <3>2, <3>3, PositionsReplace
  <2>4. CASE Deliver([inst EXCEPT ![i] = m], Node(Top.file, i))
    <3>1. [inst EXCEPT ![i] = m] \in [Insts -> Instances]
      BY <1>1, InstanceTyped
    <3>2. Node(Top.file, i) \in Nodes /\ Node(Top.file, i).tag = Top.file
      BY <1>3, NodeTyped
    <3>3. QED
      BY <1>2, <2>1, <2>4, <3>1, <3>2, PositionsDeliver
  <2>5. QED
    BY <2>2, <2>3, <2>4
<1>10. CASE ReloadFunction \/ ReloadClass
  <2>1. PICK i : i = Top.prev
    OBVIOUS
  <2>2. i \in Insts /\ Top.at = "body" /\ i # NoInst
    BY <1>1, <1>10, <2>1, ReloadShape, InstNumbers
  <2>3. ASSUME NEW tier, Replaced([Top EXCEPT !.at = "convert", !.inst = i, !.tier = tier])
        PROVE  Positions'
    <3>1. PICK f : f = [Top EXCEPT !.at = "convert", !.inst = i, !.tier = tier]
      OBVIOUS
    <3>2. /\ f.file = Top.file /\ f.prev = Top.prev /\ f.kids = Top.kids /\ f.left = Top.left
          /\ f.at = "convert"
      BY <1>3, <3>1 DEF Frames
    <3>3. Replaced(f)
      BY <2>3, <3>1
    <3>4. PICK c : c = Len(Top.kids) + 0
      OBVIOUS
    <3>5. Following(Top, c, inst[i].kids) /\ Answered(Top, inst[i].kids, inst)
      BY <1>3, <1>4, <2>1, <2>2, <3>4 DEF Positions, CursorOK
    <3>6. Len(stack) \in DOMAIN stack'
      <4>1. DOMAIN stack' = 1..Len(stack) /\ DOMAIN stack = 1..Len(stack)
        BY <1>1, <1>2, <3>3, TopFacts, LenProperties DEF Replaced
      <4>2. QED
        BY <1>3, <4>1
    <3>7. SameOlds(inst[i].kids, inst'[i].kids, inst, inst')
      BY <1>3, <2>1, <2>2, <3>6, OldsStay
    <3>8. Following(Top, c, inst'[i].kids) /\ Answered(Top, inst'[i].kids, inst')
      BY <3>5, <3>7, StaysOn
    <3>9. Following(f, c, inst'[i].kids) /\ Answered(f, inst'[i].kids, inst')
      BY <2>2, <3>2, <3>8 DEF Following, Answered
    <3>10. CursorOK(stack', inst', Len(stack))
      BY <1>5, <2>1, <3>2, <3>3, <3>4, <3>9 DEF CursorOK
    <3>11. QED
      BY <1>2, <3>2, <3>3, <3>10, PositionsReplace
  <2>4. QED
    BY <1>1, <1>6, <1>10, <2>1, <2>3, ReloadShape
<1>11. CASE ConvertChild
  BY <1>11, PositionsConvert
<1>12. CASE Return
  <2>1. PICK i : i = Top.inst
    OBVIOUS
  <2>2. PICK m \in Instances : Deliver([inst EXCEPT ![i] = m], Node(Top.file, i))
    BY <1>1, <1>12, <2>1, ReturnShape
  <2>3. i \in Insts /\ Top.at = "convert"
    BY <1>1, <1>12, <2>1, ReturnShape
  <2>4. /\ [inst EXCEPT ![i] = m] \in [Insts -> Instances] /\ Node(Top.file, i) \in Nodes
        /\ Node(Top.file, i).tag = Top.file /\ Node(Top.file, i).inst = i
    BY <1>1, <1>3, <2>3, InstanceTyped, NodeTyped
  <2>5. Top.prev # NoInst => i = Top.prev
    BY <1>3, <2>1, <2>3 DEF FrameInst
  <2>6. QED
    BY <1>2, <2>2, <2>4, <2>5, PositionsDeliver
<1>13. QED
  BY <1>7, <1>8, <1>9, <1>10, <1>11, <1>12 DEF Driver

\* The positions are about the stack and the instances alone.
LEMMA PositionsStay ==
    ASSUME Positions, stack' = stack, inst' = inst
    PROVE  Positions'
<1>1. ASSUME NEW d \in DOMAIN stack' PROVE CursorOK(stack', inst', d)
  <2>1. CursorOK(stack, inst, d)
    BY <1>1 DEF Positions
  <2>2. QED
    BY <2>1
<1>2. QED
  BY <1>1 DEF Positions

LEMMA NextPositions ==
    ASSUME Referring, [Next]_vars, Positions
    PROVE  Positions'
<1>1. Basic
  BY DEF Referring, Sound
<1>2. CASE Driver
  BY <1>2, PositionsDriver
<1>3. ASSUME MountRoot \/ ReloadRoot \/ \E i \in Insts : RunSlot(i) PROVE Positions'
  <2>1. PICK g \in Frames : /\ stack' = <<g>> /\ g.kids = <<>>
                            /\ g.at = "load" \/ (g.at = "import" /\ g.caller \in Files)
    BY <1>1, <1>3, StartShape
  <2>2. stack'[1] = g /\ DOMAIN stack' = {1} /\ Len(stack') = 1
    BY <2>1
  <2>3. 1 = Len(stack') /\ Len(stack') \in Nat /\ stack'[1].kids = <<>> /\ stack'[1].at \notin {"body", "convert"}
    BY <2>1, <2>2
  <2>4. CursorOK(stack', inst', 1)
    BY <2>3, CursorFresh
  <2>5. QED
    BY <2>2, <2>4 DEF Positions
<1>4. ASSUME NEW f \in Files, Edit(f) PROVE Positions'
  <2>1. stack' = stack /\ inst' = inst
    BY <1>4 DEF Edit
  <2>2. QED
    BY <2>1, PositionsStay
<1>5. ASSUME DropPrevious \/ \E i \in Insts : EmptySlot(i) \/ InvokeInstanceCallable(i) PROVE Positions'
  <2>1. stack' = <<>>
    BY <1>5 DEF DropPrevious, EmptySlot, InvokeInstanceCallable, Idle
  <2>2. DOMAIN stack' = {}
    BY <2>1, EmptyMap
  <2>3. QED
    BY <2>2 DEF Positions
<1>6. CASE UNCHANGED world
  <2>1. stack' = stack /\ inst' = inst
    BY <1>6 DEF world
  <2>2. QED
    BY <2>1, PositionsStay
<1>7. QED
  BY <1>2, <1>3, <1>4, <1>5, <1>6, Steps

LEMMA AlwaysPositions == Spec => [](Referring /\ Positions)
<1>1. Init => Referring /\ Positions
  <2> SUFFICES ASSUME Init PROVE Referring /\ Positions
    OBVIOUS
  <2>1. DOMAIN stack = {}
    BY EmptyMap DEF Init
  <2>2. QED
    BY <2>1, InitReferring DEF Positions
<1>2. Referring /\ Positions /\ [Next]_vars => (Referring /\ Positions)'
  BY NextReferring, NextPositions
<1>3. QED
  BY <1>1, <1>2, PTL DEF Spec

\* A reload keeps the instance of every nested component whose tag is still at the
\* same position, unless the component's own reload fails: the cursor over the
\* previous render's invocations is never off by a place, whatever the components
\* below did meanwhile (IrisNyxDriver.cpp: InvokeComponent's ChildInvoker, CollectNestedInvocations).
THEOREM PlacesAreKept == Spec => []PositionsKept
<1>1. Referring /\ Positions => PositionsKept
  <2> SUFFICES ASSUME Referring, Positions, NEW d \in DOMAIN stack,
                      NEW p, p = stack[d].prev, p # NoInst,
                      NEW k \in DOMAIN stack[d].kids, k \in DOMAIN inst[p].kids,
                      stack[d].kids[k].tag = inst[p].kids[k].tag,
                      PriorOf(inst[p].kids[k].inst) # NoInst, stack[d].kids[k].inst # NoInst
               PROVE  stack[d].kids[k].inst = inst[p].kids[k].inst
    <3>1. DOMAIN <<>> = {}
      BY EmptyMap
    <3>2. QED
      BY <3>1 DEF PositionsKept
  <2>1. Answered(stack[d], inst[p].kids, inst)
    BY DEF Positions, CursorOK
  <2>2. QED
    BY <2>1 DEF Answered, Stays, PriorOf
<1>2. QED
  BY <1>1, AlwaysPositions, PTL

-----------------------------------------------------------------------------
(* Who holds an instance.  own says it, for every instance: the kids of a   *)
(* component (of all the components whose output is that component's, for   *)
(* a bare invocation hands its result up), what is left of one's previous   *)
(* render, its slot, a bare invocation (inner), or nobody (top).  cls is    *)
(* the component at the end of the chain of bare invocations.               *)

Token(kind, i) == [kind |-> kind, of |-> i]
TopToken == Token("top", NoInst)
InToken == Token("in", NoInst)

LEMMA Tokens ==
    /\ \A i, j : /\ Token("kids", i) = Token("kids", j) => i = j
                 /\ Token("left", i) = Token("left", j) => i = j
                 /\ Token("slot", i) = Token("slot", j) => i = j
                 /\ Token("kids", i) # Token("left", j) /\ Token("kids", i) # Token("slot", j)
                 /\ Token("left", i) # Token("slot", j)
    /\ \A i : /\ Token("kids", i) # TopToken /\ Token("left", i) # TopToken /\ Token("slot", i) # TopToken
              /\ Token("kids", i) # InToken /\ Token("left", i) # InToken /\ Token("slot", i) # InToken
    /\ TopToken # InToken
<1>1. \A a, b, i, j : Token(a, i) = Token(b, j) => a = b /\ i = j
  <2> TAKE a, b, i, j
  <2>1. Token(a, i).kind = a /\ Token(a, i).of = i /\ Token(b, j).kind = b /\ Token(b, j).of = j
    BY DEF Token
  <2>2. QED
    BY <2>1
<1>2. "kids" # "left" /\ "kids" # "slot" /\ "left" # "slot" /\ "kids" # "top" /\ "left" # "top"
      /\ "slot" # "top" /\ "kids" # "in" /\ "left" # "in" /\ "slot" # "in" /\ "top" # "in"
  OBVIOUS
<1>3. QED
  BY <1>1, <1>2 DEF TopToken, InToken

\* The instances of a list are there once each, of the set S, and held under tok.
Listed(s, tok, own, S) ==
    /\ \A k, l \in DOMAIN s : s[k].inst # NoInst /\ s[k].inst = s[l].inst => k = l
    /\ \A k \in DOMAIN s : s[k].inst # NoInst => own[s[k].inst] = tok /\ s[k].inst \in S

\* What an instance holds is in S, under its name.
Claims(is, own, cls, i, S) ==
    /\ is[i].file \in Files
    /\ Listed(is[i].kids, Token("kids", cls[i]), own, S)
    /\ Listed(is[i].left, Token("left", i), own, S)
    /\ is[i].slot.inst # NoInst => own[is[i].slot.inst] = Token("slot", i) /\ is[i].slot.inst \in S
    /\ is[i].inner = NoInst => cls[i] = i
    /\ is[i].inner # NoInst =>
          own[is[i].inner] = InToken /\ is[i].inner \in S /\ cls[is[i].inner] = cls[i]
    /\ cls[i] \in S /\ is[cls[i]].inner = NoInst

\* Every instance of S is held once: the chains of bare invocations do not meet,
\* and end.
OneHead(own, cls, S) ==
    \A i, j \in S : cls[i] = cls[j] /\ own[i] # InToken /\ own[j] # InToken => i = j
ChainsEnd(is, S) == \A U \in SUBSET S : U # {} => \E i \in U : is[i].inner \notin U
Forest(is, own, cls, S) ==
    /\ S \subseteq Insts
    /\ \A i \in S : Claims(is, own, cls, i, S)
    /\ OneHead(own, cls, S)
    /\ ChainsEnd(is, S)

\* What an instance holds, case by case.
LEMMA HeldCases ==
    ASSUME NEW is \in [Insts -> Instances], NEW i \in Insts, NEW x \in Held(is, i)
    PROVE  /\ x \in Insts /\ x # NoInst
           /\ \/ \E k \in DOMAIN is[i].kids : is[i].kids[k].inst = x
              \/ \E k \in DOMAIN is[i].left : is[i].left[k].inst = x
              \/ is[i].slot.inst = x
              \/ is[i].inner = x
<1>1. x \in Insts /\ x # NoInst
  BY HeldFacts, InstNumbers
<1>2. /\ \A n \in Range(is[i].kids) : \E k \in DOMAIN is[i].kids : is[i].kids[k] = n
      /\ \A n \in Range(is[i].left) : \E k \in DOMAIN is[i].left : is[i].left[k] = n
  BY DEF Range
<1>3. x = is[i].inner \/ \E n \in Range(is[i].kids) \cup Range(is[i].left) \cup {is[i].slot} : x = n.inst
  BY DEF Held
<1>4. QED
  BY <1>1, <1>2, <1>3

LEMMA ForestHeld ==
    ASSUME NEW is \in [Insts -> Instances], NEW own, NEW cls, NEW S, Forest(is, own, cls, S),
           NEW i \in S, NEW x \in Held(is, i)
    PROVE  /\ x \in S /\ i \in Insts /\ x \in Insts
           /\ \/ own[x] = Token("kids", cls[i])
              \/ own[x] = Token("left", i)
              \/ own[x] = Token("slot", i)
              \/ own[x] = InToken /\ cls[x] = cls[i] /\ is[i].inner = x
           /\ own[x] # TopToken
<1>1. i \in Insts /\ Claims(is, own, cls, i, S)
  BY DEF Forest
<1>2. /\ x \in Insts /\ x # NoInst
      /\ \/ \E k \in DOMAIN is[i].kids : is[i].kids[k].inst = x
         \/ \E k \in DOMAIN is[i].left : is[i].left[k].inst = x
         \/ is[i].slot.inst = x
         \/ is[i].inner = x
  BY <1>1, HeldCases
<1>3. CASE \E k \in DOMAIN is[i].kids : is[i].kids[k].inst = x
  <2>1. own[x] = Token("kids", cls[i]) /\ x \in S
    BY <1>1, <1>2, <1>3 DEF Claims, Listed
  <2>2. QED
    BY <1>1, <1>2, <2>1, Tokens
<1>4. CASE \E k \in DOMAIN is[i].left : is[i].left[k].inst = x
  <2>1. own[x] = Token("left", i) /\ x \in S
    BY <1>1, <1>2, <1>4 DEF Claims, Listed
  <2>2. QED
    BY <1>1, <1>2, <2>1, Tokens
<1>5. CASE is[i].slot.inst = x
  <2>1. own[x] = Token("slot", i) /\ x \in S
    BY <1>1, <1>2, <1>5 DEF Claims
  <2>2. QED
    BY <1>1, <1>2, <2>1, Tokens
<1>6. CASE is[i].inner = x
  <2>1. own[x] = InToken /\ x \in S /\ cls[x] = cls[i]
    BY <1>1, <1>2, <1>6 DEF Claims
  <2>2. QED
    BY <1>1, <1>2, <1>6, <2>1, Tokens
<1>7. QED
  BY <1>2, <1>3, <1>4, <1>5, <1>6

LEMMA ForestClosed ==
    ASSUME NEW is \in [Insts -> Instances], NEW own, NEW cls, NEW S, Forest(is, own, cls, S)
    PROVE  Closed(is, S)
BY ForestHeld DEF Closed

\* An instance that two hold.
LEMMA SameHolder ==
    ASSUME NEW is \in [Insts -> Instances], NEW own, NEW cls, NEW S, Forest(is, own, cls, S),
           NEW i \in S, NEW j \in S, NEW x \in Held(is, i), x \in Held(is, j), i # j
    PROVE  cls[i] = cls[j]
<1>1. /\ \/ own[x] = Token("kids", cls[i]) \/ own[x] = Token("left", i) \/ own[x] = Token("slot", i)
         \/ own[x] = InToken /\ cls[x] = cls[i]
  BY ForestHeld
<1>2. /\ \/ own[x] = Token("kids", cls[j]) \/ own[x] = Token("left", j) \/ own[x] = Token("slot", j)
         \/ own[x] = InToken /\ cls[x] = cls[j]
  BY ForestHeld
<1>3. QED
  BY <1>1, <1>2, Tokens

\* A set with all that its instances hold has the ends of their chains.
LEMMA ChainInside ==
    ASSUME NEW is \in [Insts -> Instances], NEW own, NEW cls, NEW S, Forest(is, own, cls, S),
           NEW R \in SUBSET S, Closed(is, R)
    PROVE  \A i \in R : cls[i] \in R
<1> DEFINE U == {i \in R : cls[i] \notin R}
<1> SUFFICES ASSUME U # {} PROVE FALSE
  OBVIOUS
<1>1. U \in SUBSET S
  OBVIOUS
<1>2. PICK i \in U : is[i].inner \notin U
  BY <1>1 DEF Forest, ChainsEnd
<1>3. i \in R /\ cls[i] \notin R /\ i \in S /\ i \in Insts
  BY <1>2 DEF Forest
<1>4. Claims(is, own, cls, i, S)
  BY <1>3 DEF Forest
<1>5. is[i].inner # NoInst
  BY <1>3, <1>4 DEF Claims
<1>6. is[i].inner \in R
  <2>1. is[i].inner \in Held(is, i)
    BY <1>3, <1>5, HeldFacts
  <2>2. QED
    BY <1>3, <2>1 DEF Closed
<1>7. cls[is[i].inner] = cls[i]
  BY <1>4, <1>5 DEF Claims
<1>8. QED
  BY <1>2, <1>3, <1>6, <1>7

\* A part of a forest that is closed is one, also when the others' tokens change.
SameShape(a, b) ==
    a.file = b.file /\ a.kids = b.kids /\ a.left = b.left /\ a.slot = b.slot /\ a.inner = b.inner

LEMMA ListedKept ==
    ASSUME NEW s, NEW tok, NEW own, NEW S, Listed(s, tok, own, S), NEW to, NEW R,
           \A k \in DOMAIN s : s[k].inst # NoInst => s[k].inst \in R /\ to[s[k].inst] = own[s[k].inst]
    PROVE  Listed(s, tok, to, R)
BY DEF Listed

LEMMA ForestKept ==
    ASSUME NEW is \in [Insts -> Instances], NEW own, NEW cls, NEW S, Forest(is, own, cls, S),
           NEW R \in SUBSET S, Closed(is, R), NEW new, NEW to, NEW cls2,
           \A i \in R : SameShape(new[i], is[i]) /\ cls2[i] = cls[i],
           \A i \in R : \A x \in Held(is, i) : to[x] = own[x],
           \A i \in R : own[i] = InToken => to[i] = InToken
    PROVE  Forest(new, to, cls2, R)
<1>1. R \subseteq Insts
  BY DEF Forest
<1>2. ASSUME NEW i \in R PROVE Claims(new, to, cls2, i, R)
  <2>1. Claims(is, own, cls, i, S) /\ i \in Insts
    BY <1>1 DEF Forest
  <2>2. cls[i] \in R
    BY ChainInside
  <2>3. SameShape(new[i], is[i]) /\ SameShape(new[cls[i]], is[cls[i]]) /\ cls2[i] = cls[i]
    BY <2>2
  <2>4. \A x \in Held(is, i) : to[x] = own[x] /\ x \in R
    BY DEF Closed
  <2>5. Listed(is[i].kids, Token("kids", cls[i]), to, R)
    <3>1. \A k \in DOMAIN is[i].kids : is[i].kids[k].inst # NoInst => is[i].kids[k].inst \in Held(is, i)
      BY <2>1, HeldFacts
    <3>2. QED
      BY <2>1, <2>4, <3>1, ListedKept DEF Claims
  <2>6. Listed(is[i].left, Token("left", i), to, R)
    <3>1. \A k \in DOMAIN is[i].left : is[i].left[k].inst # NoInst => is[i].left[k].inst \in Held(is, i)
      BY <2>1, HeldFacts
    <3>2. QED
      BY <2>1, <2>4, <3>1, ListedKept DEF Claims
  <2>7. is[i].slot.inst # NoInst => to[is[i].slot.inst] = Token("slot", i) /\ is[i].slot.inst \in R
    BY <2>1, <2>4, HeldFacts DEF Claims
  <2>8. is[i].inner # NoInst =>
          to[is[i].inner] = InToken /\ is[i].inner \in R /\ cls2[is[i].inner] = cls[i]
    BY <2>1, <2>4, HeldFacts DEF Claims
  <2>9. is[i].file \in Files /\ is[cls[i]].inner = NoInst /\ (is[i].inner = NoInst => cls[i] = i)
    BY <2>1 DEF Claims
  <2>10. QED
    BY <2>2, <2>3, <2>5, <2>6, <2>7, <2>8, <2>9 DEF Claims, SameShape
<1>3. OneHead(to, cls2, R)
  BY DEF Forest, OneHead
<1>4. ChainsEnd(new, R)
  BY DEF Forest, ChainsEnd, SameShape
<1>5. QED
  BY <1>1, <1>2, <1>3, <1>4 DEF Forest


LEMMA ClaimsGrow ==
    ASSUME NEW is, NEW own, NEW cls, NEW i, NEW S, Claims(is, own, cls, i, S), NEW R, S \subseteq R
    PROVE  Claims(is, own, cls, i, R)
<1>1. \A s, tok : Listed(s, tok, own, S) => Listed(s, tok, own, R)
  BY DEF Listed
<1>2. QED
  BY <1>1 DEF Claims

\* Two forests side by side.
LEMMA ForestsJoin ==
    ASSUME NEW is, NEW own, NEW cls, NEW V, NEW W, Forest(is, own, cls, V), Forest(is, own, cls, W),
           V \cap W = {}
    PROVE  Forest(is, own, cls, V \cup W)
<1>1. V \cup W \subseteq Insts
  BY DEF Forest
<1>2. ASSUME NEW i \in V \cup W PROVE Claims(is, own, cls, i, V \cup W)
  BY ClaimsGrow DEF Forest
<1>3. (\A i \in V : cls[i] \in V) /\ (\A i \in W : cls[i] \in W)
  BY DEF Forest, Claims
<1>4. OneHead(own, cls, V \cup W)
  BY <1>3 DEF Forest, OneHead
<1>5. ASSUME NEW U \in SUBSET (V \cup W), \A i \in U : is[i].inner \in U
      PROVE  U = {}
  <2>1. \A i \in U : is[i].inner # NoInst
    BY <1>1, <1>5, InstNumbers
  <2>2. \A i \in U \cap V : is[i].inner \in U \cap V
    BY <1>5, <2>1 DEF Forest, Claims
  <2>3. \A i \in U \cap W : is[i].inner \in U \cap W
    BY <1>5, <2>1 DEF Forest, Claims
  <2>4. U \cap V = {} /\ U \cap W = {}
    BY <2>2, <2>3 DEF Forest, ChainsEnd
  <2>5. QED
    BY <2>4
<1>6. ChainsEnd(is, V \cup W)
  BY <1>5 DEF ChainsEnd
<1>7. QED
  BY <1>1, <1>2, <1>4, <1>6 DEF Forest

\* One instance more.
LEMMA ForestMore ==
    ASSUME NEW is, NEW own, NEW cls, NEW S, Forest(is, own, cls, S), NEW i \in Insts, i \notin S,
           Claims(is, own, cls, i, S \cup {i}), is[i].inner # i,
           \A j \in S : cls[j] = cls[i] => own[j] = InToken
    PROVE  Forest(is, own, cls, S \cup {i})
<1>1. S \cup {i} \subseteq Insts
  BY DEF Forest
<1>2. ASSUME NEW j \in S \cup {i} PROVE Claims(is, own, cls, j, S \cup {i})
  BY ClaimsGrow DEF Forest
<1>3. OneHead(own, cls, S \cup {i})
  BY DEF Forest, OneHead
<1>4. ASSUME NEW U \in SUBSET (S \cup {i}), \A j \in U : is[j].inner \in U
      PROVE  U = {}
  <2>1. \A j \in U : is[j].inner # NoInst
    BY <1>1, <1>4, InstNumbers
  <2>2. \A j \in U \cap S : is[j].inner \in U \cap S
    BY <1>4, <2>1 DEF Forest, Claims
  <2>3. U \cap S = {}
    BY <2>2 DEF Forest, ChainsEnd
  <2>4. i \notin U
    BY <1>4, <2>3
  <2>5. QED
    BY <2>3, <2>4
<1>5. ChainsEnd(is, S \cup {i})
  BY <1>4 DEF ChainsEnd
<1>6. QED
  BY <1>1, <1>2, <1>3, <1>5 DEF Forest

\* Slots and what is left of previous renders change.
SlotClaim(n, i, own, S) == n.inst # NoInst => own[n.inst] = Token("slot", i) /\ n.inst \in S

LEMMA ForestChanged ==
    ASSUME NEW is, NEW own, NEW cls, NEW S, Forest(is, own, cls, S), NEW new,
           \A j \in S : /\ new[j].file = is[j].file /\ new[j].kids = is[j].kids /\ new[j].inner = is[j].inner
                        /\ Listed(new[j].left, Token("left", j), own, S)
                        /\ SlotClaim(new[j].slot, j, own, S)
    PROVE  Forest(new, own, cls, S)
<1>1. ASSUME NEW j \in S PROVE Claims(new, own, cls, j, S)
  <2>1. Claims(is, own, cls, j, S) /\ new[cls[j]].inner = is[cls[j]].inner
    BY DEF Forest, Claims
  <2>2. QED
    BY <2>1 DEF Claims, SlotClaim
<1>2. ChainsEnd(new, S)
  BY DEF Forest, ChainsEnd
<1>3. QED
  BY <1>1, <1>2 DEF Forest

LEMMA PastFacts ==
    ASSUME NEW s \in Seq(Nodes)
    PROVE  /\ Past(s) \in Seq(Nodes)
           /\ \A k \in DOMAIN Past(s) : k + 1 \in DOMAIN s /\ Past(s)[k] = s[k + 1] /\ k \in Nat /\ k # 0
<1>1. CASE s = <<>>
  BY <1>1, EmptyMap DEF Past
<1>2. CASE s # <<>>
  <2>1. /\ Tail(s) \in Seq(Nodes) /\ Len(Tail(s)) = Len(s) - 1 /\ Len(s) \in Nat
        /\ \A k \in 1..Len(Tail(s)) : Tail(s)[k] = s[k + 1]
    BY <1>2, HeadTailProperties, LenProperties
  <2>2. DOMAIN Tail(s) = 1..(Len(s) - 1) /\ DOMAIN s = 1..Len(s)
    BY <2>1, LenProperties
  <2>3. \A k \in 1..(Len(s) - 1) : k + 1 \in 1..Len(s) /\ k \in Nat /\ k # 0
    BY <2>1
  <2>4. QED
    BY <1>2, <2>1, <2>2, <2>3 DEF Past
<1>3. QED
  BY <1>1, <1>2

\* What is left of a render, after one of its invocations, does not hold it.
LEMMA ListedPast ==
    ASSUME NEW s \in Seq(Nodes), NEW tok, NEW own, NEW S, Listed(s, tok, own, S)
    PROVE  /\ Listed(Past(s), tok, own, S)
           /\ s # <<>> /\ s[1].inst # NoInst => \A k \in DOMAIN Past(s) : Past(s)[k].inst # s[1].inst
<1>1. \A k \in DOMAIN Past(s) : k + 1 \in DOMAIN s /\ Past(s)[k] = s[k + 1] /\ k \in Nat /\ k # 0
  BY PastFacts
<1>2. \A k, l \in DOMAIN Past(s) : k + 1 = l + 1 => k = l
  BY <1>1
<1>3. Listed(Past(s), tok, own, S)
  BY <1>1, <1>2 DEF Listed
<1>4. s # <<>> => 1 \in DOMAIN s
  BY LenProperties, EmptySeq
<1>5. \A k \in DOMAIN Past(s) : k + 1 # 1
  BY <1>1
<1>6. QED
  BY <1>1, <1>3, <1>4, <1>5 DEF Listed

\* The set of what is held from a node.
Rooted(is, r, V) ==
    /\ r.inst # NoInst => r.inst \in V
    /\ Closed(is, V)
    /\ \A S : (r.inst # NoInst => r.inst \in S) /\ Closed(is, S) => V \subseteq S

\* When an instance drops invocations of its previous render, what the root does
\* not reach any more is closed, too: whoever holds an instance the root still
\* reaches is in the chain of one that the root reaches, and so is reached.
LEMMA SplitClosed ==
    ASSUME NEW is \in [Insts -> Instances], NEW new \in [Insts -> Instances], NEW own, NEW cls, NEW V, NEW R,
           NEW r, Forest(is, own, cls, V), Forest(new, own, cls, V), \A j \in V : new[j].inner = is[j].inner,
           Rooted(is, r, V), Rooted(new, r, R), r.inst # NoInst => own[r.inst] = TopToken
    PROVE  R \subseteq V /\ Closed(new, V \ R)
<1>1. R \subseteq V
  <2>1. Closed(new, V)
    BY ForestClosed
  <2>2. r.inst # NoInst => r.inst \in V
    BY DEF Rooted
  <2>3. QED
    BY <2>1, <2>2 DEF Rooted
<1>2. ASSUME NEW x \in V \ R, NEW y \in Held(new, x), y \in R PROVE FALSE
  <2>1. own[y] # TopToken /\ y \in V
    BY <1>2, ForestHeld
  <2>2. PICK g \in R : y \in Held(new, g)
    <3> SUFFICES ASSUME \A g \in R : y \notin Held(new, g) PROVE FALSE
      OBVIOUS
    <3>1. Closed(new, R \ {y})
      BY DEF Rooted, Closed
    <3>2. r.inst # NoInst => r.inst \in R \ {y}
      BY <2>1 DEF Rooted
    <3>3. R \subseteq R \ {y}
      BY <3>1, <3>2 DEF Rooted
    <3>4. QED
      BY <1>2, <3>3
  <2>3. cls[g] = cls[x]
    BY <1>1, <1>2, <2>2, SameHolder
  <2> DEFINE U == {u \in V : cls[u] = cls[x]}
  <2>4. \A z \in V : \A u \in Held(is, z) \cap U : own[u] = InToken => z \in U /\ is[z].inner = u
    BY ForestHeld, Tokens
  <2>5. \A z \in V : \A u \in Held(new, z) \cap U : own[u] = InToken => z \in U /\ new[z].inner = u
    BY ForestHeld, Tokens
  <2>6. \A h, u \in U : own[h] # InToken /\ own[u] # InToken => h = u
    BY DEF Forest, OneHead
  <2>7. x \in U /\ g \in U
    BY <1>1, <2>2, <2>3
  <2> HIDE DEF U
  <2>8. CASE \E h \in U \cap R : own[h] # InToken
    <3>1. PICK h \in U \cap R : own[h] # InToken
      BY <2>8
    <3> DEFINE Z == V \ (U \ R)
    <3>2. ASSUME NEW z \in Z, NEW u \in Held(is, z) PROVE u \in Z
      <4>1. z \in V /\ u \in V /\ z \in Insts
        BY ForestHeld
      <4>2. SUFFICES ASSUME u \in U, u \notin R PROVE FALSE
        BY <4>1
      <4>3. own[u] = InToken
        BY <2>6, <3>1, <4>2
      <4>4. z \in U /\ is[z].inner = u
        BY <2>4, <4>1, <4>2, <4>3
      <4>5. z \in R /\ new[z].inner = u
        BY <4>1, <4>4
      <4>6. u \in Held(new, z)
        <5>1. u # NoInst
          BY <4>1, InstNumbers DEF Forest
        <5>2. QED
          BY <4>1, <4>5, <5>1, HeldFacts
      <4>7. QED
        BY <4>2, <4>5, <4>6 DEF Rooted, Closed
    <3>3. Closed(is, Z)
      BY <3>2 DEF Closed
    <3>4. r.inst # NoInst => r.inst \in Z
      BY <1>1 DEF Rooted
    <3>5. V \subseteq Z
      BY <3>3, <3>4 DEF Rooted
    <3>6. QED
      BY <1>2, <2>7, <3>5
  <2>9. CASE \A h \in U \cap R : own[h] = InToken
    <3> DEFINE Z == R \ U
    <3>1. ASSUME NEW z \in Z, NEW u \in Held(new, z) PROVE u \in Z
      <4>1. z \in V /\ u \in R
        BY <1>1 DEF Rooted, Closed
      <4>2. SUFFICES ASSUME u \in U PROVE FALSE
        BY <4>1
      <4>3. own[u] = InToken
        BY <2>9, <4>1, <4>2
      <4>4. QED
        BY <2>5, <4>1, <4>2, <4>3
    <3>2. Closed(new, Z)
      BY <3>1 DEF Closed
    <3>3. r.inst # NoInst => r.inst \in Z
      BY <2>9, Tokens DEF Rooted
    <3>4. R \subseteq Z
      BY <3>2, <3>3 DEF Rooted
    <3>5. QED
      BY <2>2, <2>7, <3>4
  <2>10. QED
    BY <2>8, <2>9
<1>3. QED
  BY <1>1, <1>2, ForestHeld DEF Closed

-----------------------------------------------------------------------------
(* The instances the driver works with: V, the tree that the host holds     *)
(* while a slot runs, and W, what the call in progress has to work with.    *)

Collected(is, p) == IF p = NoInst THEN <<>> ELSE is[p].kids
Tended(f, own, is, V, W) ==
    /\ f.at # "convert" /\ f.prev # NoInst => f.prev \in W /\ own[f.prev] = TopToken
    /\ f.at \in {"import", "load"} => f.left = <<>>
    /\ f.at = "body" => f.left = Collected(is, f.prev)
    /\ f.at = "convert" =>
         /\ f.inst \notin V \cup W /\ own[f.inst] = TopToken
         /\ Listed(f.kids, Token("kids", f.inst), own, W)
         /\ Listed(f.left, Token("left", f.inst), own, W)

HostHas(own, V, W) ==
    /\ root.inst # NoInst => own[root.inst] = TopToken
    /\ Idle => /\ W = {} /\ Rooted(inst, root, V)
               /\ \A i \in Insts : inst[i].file \in Files => i \in V
    /\ ~Idle /\ call = NoInst =>
         /\ V = {}
         /\ root.inst # NoInst =>
               root.inst = stack[1].prev \/ (root.inst \in W /\ ~inst[root.inst].mounted)
    /\ ~Idle /\ call # NoInst => call \in V /\ (root.inst # NoInst => root.inst \in V)

Holders(own, cls, V, W) ==
    /\ Forest(inst, own, cls, V) /\ Forest(inst, own, cls, W) /\ V \cap W = {}
    /\ \A d \in DOMAIN stack : Tended(stack[d], own, inst, V, W)
    /\ HostHas(own, V, W)
HeldOnce == \E own, cls, V, W : Holders(own, cls, V, W)

\* A render that waits, when nothing of what it works with changes hands.
LEMMA TendedKept ==
    ASSUME NEW f, NEW own, NEW is, NEW V, NEW W, Tended(f, own, is, V, W), f.at = "convert",
           NEW to, NEW new, NEW V2, NEW W2, f.inst \notin V2 \cup W2, to[f.inst] = TopToken,
           \A x \in W : own[x] = Token("kids", f.inst) \/ own[x] = Token("left", f.inst) =>
                           to[x] = own[x] /\ x \in W2
    PROVE  Tended(f, to, new, V2, W2)
<1>1. Listed(f.kids, Token("kids", f.inst), own, W) /\ Listed(f.left, Token("left", f.inst), own, W)
  BY DEF Tended
<1>2. Listed(f.kids, Token("kids", f.inst), to, W2)
  BY <1>1 DEF Listed
<1>3. Listed(f.left, Token("left", f.inst), to, W2)
  BY <1>1 DEF Listed
<1>4. QED
  BY <1>2, <1>3 DEF Tended

LEMMA ForestEmpty == \A is, own, cls : Forest(is, own, cls, {})
BY DEF Forest, OneHead, ChainsEnd

\* What a call has done, when it is about to answer n.
Settled(is, own, cls, V, W, n) ==
    /\ Forest(is, own, cls, V) /\ Forest(is, own, cls, W) /\ V \cap W = {}
    /\ n.inst # NoInst => n.inst \in W /\ own[n.inst] = TopToken
    /\ \A d \in 1..(Len(stack) - 1) : Tended(stack[d], own, is, V, W)
    /\ root.inst # NoInst => own[root.inst] = TopToken
    /\ call # NoInst => call \in V /\ (root.inst # NoInst => root.inst \in V)
    /\ call = NoInst =>
         /\ V = {}
         /\ root.inst # NoInst =>
               root.inst = stack[1].prev \/ (root.inst \in W /\ ~is[root.inst].mounted)
    /\ call = NoInst /\ Len(stack) = 1 /\ root.inst # NoInst
         /\ (n.inst = NoInst \/ ~is[n.inst].mounted) => root.inst \in W
    /\ Len(stack) > 1 /\ n.inst # NoInst => n.inst # root.inst

\* An instance nobody held gets a holder.
Given(own, x, tok) == [y \in Insts |-> IF y = x THEN tok ELSE own[y]]

LEMMA ForestGiven ==
    ASSUME NEW is \in [Insts -> Instances], NEW own, NEW cls, NEW S, Forest(is, own, cls, S),
           NEW x, x # NoInst => own[x] = TopToken, NEW tok
    PROVE  Forest(is, Given(own, x, tok), cls, S)
<1> DEFINE to == Given(own, x, tok)
<1>1. Closed(is, S) /\ S \subseteq Insts
  BY ForestClosed DEF Forest
<1>2. \A j \in S : \A y \in Held(is, j) : to[y] = own[y]
  <2> TAKE j \in S
  <2> TAKE y \in Held(is, j)
  <2>1. y \in Insts /\ own[y] # TopToken
    BY ForestHeld
  <2>2. y # x
    BY <2>1, InstNumbers
  <2>3. QED
    BY <2>1, <2>2 DEF Given
<1>3. \A j \in S : own[j] = InToken => to[j] = InToken
  <2> TAKE j \in S
  <2>1. j \in Insts
    BY <1>1
  <2>2. own[j] = InToken => j # x
    BY <2>1, Tokens, InstNumbers
  <2>3. QED
    BY <2>1, <2>2 DEF Given
<1> HIDE DEF to
<1>4. Forest(is, to, cls, S)
  BY <1>1, <1>2, <1>3, ForestKept DEF SameShape
<1>5. QED
  BY <1>4 DEF to

LEMMA ListedAppend ==
    ASSUME NEW s \in Seq(Nodes), NEW n \in Nodes, NEW tok, NEW own, NEW S, Listed(s, tok, own, S), NEW to,
           n.inst # NoInst => n.inst \in S /\ own[n.inst] # tok /\ to[n.inst] = tok,
           \A x \in S : own[x] = tok => to[x] = tok
    PROVE  Listed(Append(s, n), tok, to, S)
<1>1. /\ Append(s, n) \in Seq(Nodes) /\ Len(Append(s, n)) = Len(s) + 1
      /\ Append(s, n)[Len(s) + 1] = n /\ \A k \in 1..Len(s) : Append(s, n)[k] = s[k]
  BY PushedTop
<1>2. DOMAIN Append(s, n) = 1..(Len(s) + 1) /\ DOMAIN s = 1..Len(s) /\ Len(s) \in Nat
  BY <1>1, LenProperties
<1>3. \A k \in 1..(Len(s) + 1) : k \in 1..Len(s) \/ k = Len(s) + 1
  BY <1>2, Depths
<1>4. \A k \in DOMAIN s : s[k].inst # NoInst => own[s[k].inst] = tok /\ s[k].inst \in S
  BY DEF Listed
<1>5. \A k, l \in DOMAIN s : s[k].inst # NoInst /\ s[k].inst = s[l].inst => k = l
  BY DEF Listed
<1>6. \A k \in DOMAIN s : n.inst # NoInst => s[k].inst # n.inst
  BY <1>4
<1> HIDE DEF Listed
<1>7. \A k, l \in DOMAIN Append(s, n) : Append(s, n)[k].inst # NoInst /\ Append(s, n)[k].inst = Append(s, n)[l].inst => k = l
  BY <1>1, <1>2, <1>3, <1>5, <1>6
<1>8. \A k \in DOMAIN Append(s, n) : Append(s, n)[k].inst # NoInst => to[Append(s, n)[k].inst] = tok /\ Append(s, n)[k].inst \in S
  BY <1>1, <1>2, <1>3, <1>4
<1>9. QED
  BY <1>7, <1>8 DEF Listed

\* The answer goes to the caller's render.
LEMMA HeldInner ==
    ASSUME Sound, NEW is \in [Insts -> Instances], NEW n \in Nodes, Deliver(is, n), Len(stack) > 1,
           NEW own, NEW cls, NEW V, NEW W, Settled(is, own, cls, V, W, n), ~Idle
    PROVE  HeldOnce'
<1>1. Basic /\ Popped(n) /\ inst' = is /\ root' = root /\ call' = call /\ root \in Nodes
  BY DeliverInner DEF Sound, Basic, Typed
<1>2. PICK c : c = stack[Len(stack) - 1].inst
  OBVIOUS
<1>3. PICK to : to = Given(own, n.inst, Token("kids", c))
  OBVIOUS
<1>4. Forest(is, to, cls, V) /\ Forest(is, to, cls, W) /\ V \cap W = {}
  BY <1>3, ForestGiven DEF Settled
<1>5. \A x \in Insts : x # n.inst => to[x] = own[x]
  BY <1>3 DEF Given
<1>6. n.inst # NoInst => n.inst \in Insts /\ to[n.inst] = Token("kids", c)
  BY <1>3 DEF Given, Forest, Settled
<1>7. ASSUME NEW d \in DOMAIN stack' PROVE Tended(stack'[d], to, is, V, W)
  <2>1. /\ d \in DOMAIN stack /\ d < Len(stack) /\ stack[d] \in Frames
        /\ stack[d].at = "convert" /\ SameCall(stack'[d], stack[d])
        /\ stack'[d].left = stack[d].left
        /\ stack'[d].kids = IF d = Len(stack) - 1 THEN Append(stack[d].kids, n) ELSE stack[d].kids
    BY <1>1, DeliverFrames
  <2>2. d \in 1..(Len(stack) - 1)
    <3>1. Len(stack) \in Nat /\ DOMAIN stack = 1..Len(stack)
      BY <1>1, TopFacts
    <3>2. QED
      BY <2>1, <3>1
  <2>3. Tended(stack[d], own, is, V, W)
    BY <2>2 DEF Settled
  <2>4. stack[d].inst \in Insts
    <3>1. FrameOK(stack, scopes, d)
      BY <1>1, <2>1, TopFacts
    <3>2. QED
      BY <2>1, <3>1 DEF FrameOK
  <2>5. stack[d].inst \notin V \cup W /\ to[stack[d].inst] = TopToken
    <3>1. stack[d].inst \notin V \cup W /\ own[stack[d].inst] = TopToken
      BY <2>1, <2>3 DEF Tended
    <3>2. n.inst # stack[d].inst
      BY <2>4, <3>1, InstNumbers DEF Settled
    <3>3. QED
      BY <1>5, <2>4, <3>1, <3>2
  <2>6. \A x \in W : own[x] # TopToken => to[x] = own[x]
    BY <1>4, <1>5, InstNumbers DEF Settled, Forest
  <2>7. Tended(stack[d], to, is, V, W)
    BY <2>1, <2>3, <2>5, <2>6, Tokens, TendedKept
  <2>8. CASE d = Len(stack) - 1
    <3>1. stack[d].inst = c /\ stack'[d].kids = Append(stack[d].kids, n)
      BY <1>2, <2>1, <2>8
    <3>2. Listed(stack[d].kids, Token("kids", c), own, W)
      BY <2>1, <2>3, <3>1 DEF Tended
    <3>3. stack[d].kids \in Seq(Nodes)
      BY <2>1 DEF Frames
    <3>4. n.inst # NoInst => n.inst \in W /\ own[n.inst] # Token("kids", c) /\ to[n.inst] = Token("kids", c)
      BY <1>6, Tokens DEF Settled
    <3>5. \A x \in W : own[x] = Token("kids", c) => to[x] = Token("kids", c)
      BY <2>6, Tokens
    <3>6. Listed(stack'[d].kids, Token("kids", c), to, W)
      BY <3>1, <3>2, <3>3, <3>4, <3>5, ListedAppend
    <3>7. QED
      BY <2>1, <2>7, <3>1, <3>6 DEF Tended, SameCall
  <2>9. CASE d # Len(stack) - 1
    BY <2>1, <2>7, <2>9 DEF Tended, SameCall
  <2>10. QED
    BY <2>8, <2>9
<1>8. stack' # <<>> /\ stack'[1].prev = stack[1].prev
  <2>1. Len(stack') = Len(stack) - 1 /\ stack' \in Seq(Frames) /\ Len(stack) \in Nat
    BY <1>1, TopFacts DEF Popped
  <2>2. 1 \in DOMAIN stack'
    BY <2>1, LenProperties
  <2>3. SameCall(stack'[1], stack[1])
    BY <1>1, <2>2, DeliverFrames
  <2>4. QED
    BY <2>2, <2>3, EmptyMap DEF SameCall
<1>9. root.inst # NoInst => to[root.inst] = TopToken
  <2>1. root.inst # NoInst => root.inst \in Insts
    BY <1>1 DEF Nodes
  <2>2. root.inst # NoInst => root.inst # n.inst
    BY DEF Settled
  <2>3. QED
    BY <1>5, <2>1, <2>2 DEF Settled
<1>10. HostHas(to, V, W)'
  <2>1. ~Idle'
    BY <1>8 DEF Idle
  <2>2. call = NoInst => V = {} /\ (root.inst # NoInst =>
               root.inst = stack[1].prev \/ (root.inst \in W /\ ~is[root.inst].mounted))
    BY DEF Settled
  <2>3. call # NoInst => call \in V /\ (root.inst # NoInst => root.inst \in V)
    BY DEF Settled
  <2>4. QED
    BY <1>1, <1>8, <1>9, <2>1, <2>2, <2>3 DEF HostHas
<1>11. Holders(to, cls, V, W)'
  BY <1>1, <1>4, <1>7, <1>10 DEF Holders
<1>12. QED
  BY <1>11 DEF HeldOnce

\* A release leaves what the root reaches.
LEMMA RootedRelease ==
    ASSUME NEW is \in [Insts -> Instances], NEW r \in Nodes, NEW own, NEW cls, NEW S, Forest(is, own, cls, S),
           r.inst # NoInst => r.inst \in S, NEW new, new = Release(is, r)
    PROVE  \E R \in SUBSET S : /\ Forest(new, own, cls, R) /\ Rooted(new, r, R)
                               /\ \A i \in Insts : new[i].file \in Files => i \in R
<1>1. PICK R \in SUBSET Insts :
             /\ r.inst # NoInst => r.inst \in R
             /\ Closed(is, R)
             /\ \A T : (r.inst # NoInst => r.inst \in T) /\ Closed(is, T) => R \subseteq T
             /\ \A i \in Insts : Release(is, r)[i] = IF i \in R THEN is[i] ELSE Free
  BY ReleaseFacts
<1>2. R \subseteq S
  BY <1>1, ForestClosed
<1>3. \A i \in R : new[i] = is[i]
  BY <1>1
<1>4. Forest(new, own, cls, R)
  BY <1>1, <1>2, <1>3, ForestKept DEF SameShape
<1>5. \A i \in R : Held(new, i) = Held(is, i)
  BY <1>3 DEF Held
<1>6. Closed(new, R)
  BY <1>1, <1>5 DEF Closed
<1>7. ASSUME NEW T, r.inst # NoInst => r.inst \in T, Closed(new, T) PROVE R \subseteq T
  <2>1. Closed(is, R \cap T)
    BY <1>1, <1>5, <1>7 DEF Closed
  <2>2. r.inst # NoInst => r.inst \in R \cap T
    BY <1>1, <1>7
  <2>3. QED
    BY <1>1, <2>1, <2>2
<1>8. Rooted(new, r, R)
  BY <1>1, <1>6, <1>7 DEF Rooted
<1>9. \A i \in Insts : new[i].file \in Files => i \in R
  BY <1>1, FreeFacts
<1>10. QED
  BY <1>2, <1>4, <1>8, <1>9

\* The host is idle, holding what its root reaches.
LEMMA HostIdle ==
    ASSUME stack' = <<>>, NEW own, NEW cls, NEW R, Forest(inst', own, cls, R), Rooted(inst', root', R),
           \A i \in Insts : inst'[i].file \in Files => i \in R,
           root'.inst # NoInst => own[root'.inst] = TopToken
    PROVE  HeldOnce'
<1>1. DOMAIN stack' = {} /\ Idle'
  BY EmptyMap DEF Idle
<1>2. HostHas(own, R, {})'
  BY <1>1 DEF HostHas
<1>3. Forest(inst', own, cls, {})
  BY ForestEmpty
<1>4. Holders(own, cls, R, {})'
  BY <1>1, <1>2, <1>3 DEF Holders
<1>5. QED
  BY <1>4 DEF HeldOnce

\* The answer goes to the host, or to the slot that ran.
LEMMA HeldOuter ==
    ASSUME Sound, NEW is \in [Insts -> Instances], NEW n \in Nodes, Deliver(is, n), Len(stack) = 1,
           NEW own, NEW cls, NEW V, NEW W, Settled(is, own, cls, V, W, n), ~Idle
    PROVE  HeldOnce'
<1>1. /\ stack' = <<>> /\ root' \in Nodes /\ root \in Nodes
      /\ call = NoInst => inst' = Release(is, root')
      /\ call # NoInst => root' = root /\ inst' = Release([is EXCEPT ![call].slot = n], root')
  BY DeliverOuter DEF Sound, Basic, Typed
<1>2. CASE call = NoInst
  <2>1. root' = n \/ (root' = root /\ (n.inst = NoInst \/ ~is[n.inst].mounted))
    BY <1>2 DEF Deliver
  <2>2. root'.inst # NoInst => root'.inst \in W /\ own[root'.inst] = TopToken
    BY <1>2, <2>1 DEF Settled
  <2>3. PICK r \in Nodes : r = root'
    BY <1>1
  <2>4. Forest(is, own, cls, W)
    BY DEF Settled
  <2>5. PICK R \in SUBSET W : /\ Forest(inst', own, cls, R) /\ Rooted(inst', r, R)
                              /\ \A i \in Insts : inst'[i].file \in Files => i \in R
    BY <1>1, <1>2, <2>2, <2>3, <2>4, RootedRelease
  <2>6. QED
    BY <1>1, <2>2, <2>3, <2>5, HostIdle
<1>3. CASE call # NoInst
  <2>1. PICK to : to = Given(own, n.inst, Token("slot", call))
    OBVIOUS
  <2>2. Forest(is, to, cls, V) /\ Forest(is, to, cls, W) /\ V \cap W = {}
    BY <2>1, ForestGiven DEF Settled
  <2>3. Forest(is, to, cls, V \cup W)
    BY <2>2, ForestsJoin
  <2>4. PICK new : new = [is EXCEPT ![call].slot = n]
    OBVIOUS
  <2>5. call \in V /\ call \in Insts
    BY <1>3, <2>2 DEF Settled, Forest
  <2>6. /\ new \in [Insts -> Instances]
        /\ \A j \in Insts : SameButSlot(new[j], is[j]) /\ (j # call => new[j] = is[j])
        /\ new[call].slot = n
    BY <2>4, <2>5, SlotTyped
  <2>7. SlotClaim(n, call, to, V \cup W)
    BY <2>1, <2>2 DEF SlotClaim, Settled, Given, Forest
  <2>8. ASSUME NEW j \in V \cup W
        PROVE  /\ new[j].file = is[j].file /\ new[j].kids = is[j].kids /\ new[j].inner = is[j].inner
               /\ Listed(new[j].left, Token("left", j), to, V \cup W)
               /\ SlotClaim(new[j].slot, j, to, V \cup W)
    <3>1. Claims(is, to, cls, j, V \cup W) /\ j \in Insts
      BY <2>3 DEF Forest
    <3>2. SameButSlot(new[j], is[j])
      BY <2>6, <3>1
    <3>3. SlotClaim(new[j].slot, j, to, V \cup W)
      BY <2>6, <2>7, <3>1 DEF SlotClaim, Claims
    <3>4. QED
      BY <3>1, <3>2, <3>3 DEF Claims, SameButSlot
  <2>9. Forest(new, to, cls, V \cup W)
    BY <2>3, <2>8, ForestChanged
  <2>10. root.inst # NoInst => root.inst \in V \cup W /\ to[root.inst] = TopToken
    <3>1. root.inst # NoInst => root.inst \in V /\ own[root.inst] = TopToken /\ root.inst \in Insts
      BY <1>1, <1>3 DEF Settled, Nodes
    <3>2. root.inst # NoInst => root.inst # n.inst
      BY <2>2, <3>1 DEF Settled
    <3>3. QED
      BY <2>1, <3>1, <3>2 DEF Given
  <2>11. inst' = Release(new, root) /\ root' = root
    BY <1>1, <1>3, <2>4
  <2>12. PICK R \in SUBSET (V \cup W) : /\ Forest(inst', to, cls, R) /\ Rooted(inst', root, R)
                                        /\ \A i \in Insts : inst'[i].file \in Files => i \in R
    <3>1. PICK S : S = V \cup W
      OBVIOUS
    <3>2. /\ Forest(new, to, cls, S)
          /\ root.inst # NoInst => root.inst \in S
          /\ new \in [Insts -> Instances] /\ root \in Nodes /\ inst' = Release(new, root)
      BY <1>1, <2>6, <2>9, <2>10, <2>11, <3>1
    <3>3. \E R \in SUBSET S : /\ Forest(inst', to, cls, R) /\ Rooted(inst', root, R)
                               /\ \A i \in Insts : inst'[i].file \in Files => i \in R
      BY <3>2, RootedRelease
    <3>4. QED
      BY <3>1, <3>3
  <2>13. QED
    BY <1>1, <2>10, <2>11, <2>12, HostIdle
<1>4. QED
  BY <1>2, <1>3

LEMMA HeldDeliver ==
    ASSUME Sound, NEW is \in [Insts -> Instances], NEW n \in Nodes, Deliver(is, n), ~Idle,
           NEW own, NEW cls, NEW V, NEW W, Settled(is, own, cls, V, W, n)
    PROVE  HeldOnce'
<1>1. Len(stack) = 1 \/ Len(stack) > 1
  BY TopFacts, OneOrMore DEF Sound
<1>2. QED
  BY <1>1, HeldInner, HeldOuter

\* The instance a render is of is one of its file.
LEMMA FrameFile ==
    ASSUME Sound, Refs, NEW d \in DOMAIN stack, stack[d].at = "convert"
    PROVE  inst[stack[d].inst].file = stack[d].file /\ stack[d].inst \in Insts
           /\ (stack[d].prev # NoInst => stack[d].inst = stack[d].prev /\ inst[stack[d].prev].mounted)
<1>1. FrameInst(stack[d], inst) /\ FrameRefs(stack[d], inst) /\ FrameOK(stack, scopes, d)
  BY DEF Sound, Basic, Mounted, Frames_OK, Refs
<1>2. QED
  BY <1>1 DEF FrameInst, FrameRefs, FrameOK

\* The renders that wait are of other instances than the one that runs.
LEMMA OtherFrames ==
    ASSUME Sound, Refs, ~Idle, NEW d \in 1..(Len(stack) - 1)
    PROVE  /\ d \in DOMAIN stack /\ stack[d].at = "convert" /\ stack[d].inst \in Insts
           /\ inst[stack[d].inst].file \in Files
           /\ Top.at = "convert" => stack[d].inst # Top.inst
<1>1. /\ Len(stack) \in Nat /\ DOMAIN stack = 1..Len(stack) /\ Top = stack[Len(stack)] /\ Basic
      /\ Len(stack) \in DOMAIN stack /\ Len(stack) >= 1
  BY TopRefs DEF Sound
<1>2. d \in DOMAIN stack /\ d < Len(stack) /\ d # Len(stack)
  <2>1. d \in 1..Len(stack) /\ d < Len(stack) /\ d # Len(stack)
    BY <1>1, Depths
  <2>2. QED
    BY <1>1, <2>1
<1>3. stack[d].at = "convert" /\ stack[d] \in Frames
  BY <1>1, <1>2, TopFacts DEF FrameOK
<1>4. inst[stack[d].inst].file = stack[d].file /\ stack[d].inst \in Insts /\ stack[d].file \in Files
  BY <1>2, <1>3, FrameFile DEF Frames
<1>5. ASSUME Top.at = "convert", stack[d].inst = Top.inst PROVE FALSE
  <2>1. inst[Top.inst].file = Top.file
    BY <1>1, <1>5, FrameFile
  <2>2. stack[d].file = stack[Len(stack)].file
    BY <1>1, <1>4, <1>5, <2>1
  <2>3. QED
    BY <1>1, <1>2, <2>2, FilesOnce
<1>6. QED
  BY <1>2, <1>3, <1>4, <1>5

\* The call under way goes on: what the host keeps.
LEMMA HostBusy ==
    ASSUME ~Idle, NEW own, NEW V, NEW W, HostHas(own, V, W), NEW to, NEW W2,
           root' = root, call' = call, stack' # <<>>, stack'[1].prev = stack[1].prev,
           root.inst # NoInst => to[root.inst] = TopToken,
           root.inst # NoInst /\ root.inst \in W /\ ~inst[root.inst].mounted =>
               root.inst \in W2 /\ ~inst'[root.inst].mounted
    PROVE  HostHas(to, V, W2)'
BY DEF HostHas, Idle

\* The innermost call moves on to f.
LEMMA HeldReplace ==
    ASSUME Sound, Refs, ~Idle, NEW own, NEW cls, NEW V, NEW W, Holders(own, cls, V, W),
           NEW f, Replaced(f), f.prev = Top.prev, root' = root, call' = call,
           NEW to, NEW cls2, NEW W2,
           Forest(inst', to, cls2, V), Forest(inst', to, cls2, W2), V \cap W2 = {},
           Tended(f, to, inst', V, W2),
           \A d \in 1..(Len(stack) - 1) : Tended(stack[d], to, inst', V, W2),
           root.inst # NoInst => to[root.inst] = TopToken,
           root.inst # NoInst /\ root.inst \in W /\ ~inst[root.inst].mounted =>
               root.inst \in W2 /\ ~inst'[root.inst].mounted
    PROVE  HeldOnce'
<1>1. /\ Len(stack) \in Nat /\ DOMAIN stack = 1..Len(stack) /\ Top = stack[Len(stack)] /\ Len(stack) >= 1
  BY TopRefs
<1>2. /\ stack' \in Seq(Frames) /\ Len(stack') = Len(stack) /\ stack'[Len(stack)] = f
      /\ \A d \in 1..(Len(stack) - 1) : stack'[d] = stack[d]
  BY DEF Replaced
<1>3. DOMAIN stack' = 1..Len(stack)
  BY <1>2, LenProperties
<1>4. \A d \in DOMAIN stack' : Tended(stack'[d], to, inst', V, W2)
  BY <1>1, <1>2, <1>3, Depths
<1>5. stack'[1].prev = stack[1].prev
  <2>1. Len(stack) = 1 \/ 1 \in 1..(Len(stack) - 1)
    BY <1>1
  <2>2. QED
    BY <1>1, <1>2, <2>1
<1>6. stack' # <<>>
  <2>1. 1 \in DOMAIN stack'
    BY <1>1, <1>3
  <2>2. QED
    BY <2>1, EmptyMap
<1>7. HostHas(to, V, W2)'
  BY <1>5, <1>6, HostBusy DEF Holders
<1>8. Holders(to, cls2, V, W2)'
  BY <1>4, <1>7 DEF Holders
<1>9. QED
  BY <1>8 DEF HeldOnce

LEMMA WaitTended ==
    ASSUME Sound, Refs, ~Idle, NEW own, NEW cls, NEW V, NEW W, Holders(own, cls, V, W)
    PROVE  /\ \A d \in 1..(Len(stack) - 1) : Tended(stack[d], own, inst, V, W)
           /\ Tended(Top, own, inst, V, W)
<1>1. \A d \in 1..(Len(stack) - 1) : d \in DOMAIN stack
  BY OtherFrames
<1>2. Top = stack[Len(stack)] /\ Len(stack) \in DOMAIN stack
  BY TopRefs
<1>3. QED
  BY <1>1, <1>2 DEF Holders

\* A call ends early.
LEMMA HeldFail ==
    ASSUME Sound, Refs, HeldOnce, ~Idle, Top.at # "convert", Deliver(inst, Node(Top.file, NoInst))
    PROVE  HeldOnce'
<1>1. PICK own, cls, V, W : Holders(own, cls, V, W)
  BY DEF HeldOnce
<1>2. PICK n : n = Node(Top.file, NoInst)
  OBVIOUS
<1>3. n \in Nodes /\ n.inst = NoInst /\ inst \in [Insts -> Instances]
  <2>1. Top.file \in Files
    BY TopRefs DEF Frames
  <2>2. QED
    BY <1>2, <2>1, NodeTyped DEF Sound, Basic, Typed
<1>4. \A d \in 1..(Len(stack) - 1) : Tended(stack[d], own, inst, V, W)
  BY <1>1, WaitTended
<1>5. Len(stack) = 1 /\ call = NoInst /\ root.inst # NoInst => root.inst \in W
  <2>1. Tended(Top, own, inst, V, W)
    BY <1>1, WaitTended
  <2>2. SUFFICES ASSUME Len(stack) = 1, call = NoInst, root.inst # NoInst, root.inst = stack[1].prev
                 PROVE  root.inst \in W
    BY <1>1 DEF Holders, HostHas
  <2>3. Top = stack[1]
    BY <2>2, TopRefs
  <2>4. QED
    BY <2>1, <2>2, <2>3 DEF Tended
<1>6. Settled(inst, own, cls, V, W, n)
  BY <1>1, <1>3, <1>4, <1>5 DEF Settled, Holders, HostHas
<1>7. QED
  BY <1>2, <1>3, <1>6, HeldDeliver

LEMMA HeldImport ==
    ASSUME Sound, Refs, HeldOnce, ImportChild
    PROVE  HeldOnce'
<1>1. Basic /\ ~Idle /\ Top.at = "import"
  BY DEF Sound, ImportChild
<1>2. CASE Deliver(inst, Node(Top.file, NoInst))
  BY <1>1, <1>2, HeldFail
<1>3. CASE Replaced([Top EXCEPT !.at = "load"]) /\ inst' = inst /\ root' = root /\ call' = call
  <2>1. PICK own, cls, V, W : Holders(own, cls, V, W)
    BY DEF HeldOnce
  <2>2. PICK f : f = [Top EXCEPT !.at = "load"]
    OBVIOUS
  <2>3. f.at = "load" /\ f.prev = Top.prev /\ f.left = Top.left /\ Replaced(f)
    BY <1>1, <1>3, <2>2, TopRefs DEF Frames
  <2>4. Tended(f, own, inst, V, W)
    <3>1. Tended(Top, own, inst, V, W)
      BY <1>1, <2>1, WaitTended
    <3>2. QED
      BY <1>1, <2>3, <3>1 DEF Tended
  <2>5. QED
    BY <1>1, <1>3, <2>1, <2>3, <2>4, WaitTended, HeldReplace DEF Holders, HostHas
<1>4. QED
  BY <1>1, <1>2, <1>3, ImportShape

LEMMA HeldLoad ==
    ASSUME Sound, Refs, HeldOnce, Load
    PROVE  HeldOnce'
<1>1. Basic /\ ~Idle /\ Top.at = "load"
  BY DEF Sound, Load
<1>2. CASE Deliver(inst, Node(Top.file, NoInst))
  BY <1>1, <1>2, HeldFail
<1>3. CASE /\ Replaced([Top EXCEPT !.at = "body", !.text = documents'[Top.file],
                                  !.todo = Text[documents'[Top.file]].children,
                                  !.left = CollectNestedInvocations(Top.prev)])
           /\ inst' = inst /\ root' = root /\ call' = call
  <2>1. PICK own, cls, V, W : Holders(own, cls, V, W)
    BY DEF HeldOnce
  <2>2. PICK f : f = [Top EXCEPT !.at = "body", !.text = documents'[Top.file],
                                  !.todo = Text[documents'[Top.file]].children,
                                  !.left = CollectNestedInvocations(Top.prev)]
    OBVIOUS
  <2>3. f.at = "body" /\ f.prev = Top.prev /\ f.left = CollectNestedInvocations(Top.prev) /\ Replaced(f)
    BY <1>1, <1>3, <2>2, TopRefs DEF Frames
  <2>4. Tended(f, own, inst, V, W)
    <3>1. Tended(Top, own, inst, V, W)
      BY <1>1, <2>1, WaitTended
    <3>2. QED
      BY <1>1, <2>3, <3>1 DEF Tended, Collected, CollectNestedInvocations
  <2>5. QED
    BY <1>1, <1>3, <2>1, <2>3, <2>4, WaitTended, HeldReplace DEF Holders, HostHas
<1>4. QED
  BY <1>1, <1>2, <1>3, LoadShape

\* An instance that no forest has, whatever becomes of it.
LEMMA ForestAside ==
    ASSUME NEW is \in [Insts -> Instances], NEW own, NEW cls, NEW S, Forest(is, own, cls, S),
           NEW i \in Insts, i \notin S, NEW new, \A j \in Insts : j # i => new[j] = is[j],
           NEW c
    PROVE  Forest(new, Given(own, i, TopToken), Given(cls, i, c), S)
           /\ Forest(new, own, Given(cls, i, c), S)
<1> DEFINE to == Given(own, i, TopToken)
           cls2 == Given(cls, i, c)
<1>1. Closed(is, S) /\ S \subseteq Insts
  BY ForestClosed DEF Forest
<1>2. \A j \in S : to[j] = own[j] /\ cls2[j] = cls[j] /\ new[j] = is[j]
  BY <1>1 DEF Given
<1>3. \A j \in S : \A x \in Held(is, j) : to[x] = own[x]
  BY <1>1, <1>2 DEF Closed
<1> HIDE DEF to, cls2
<1>4. Forest(new, to, cls2, S)
  BY <1>1, <1>2, <1>3, ForestKept DEF SameShape
<1>5. Forest(new, own, cls2, S)
  BY <1>1, <1>2, ForestKept DEF SameShape
<1>6. QED
  BY <1>4, <1>5 DEF to, cls2

LEMMA FreeOutside ==
    ASSUME NEW is, NEW own, NEW cls, NEW S, Forest(is, own, cls, S), NEW i, is[i] = Free
    PROVE  i \notin S
BY FreeFacts DEF Forest, Claims

LEMMA HeldMount ==
    ASSUME Sound, Refs, HeldOnce, MountBody
    PROVE  HeldOnce'
<1>1. Basic /\ inst \in [Insts -> Instances] /\ root \in Nodes
  BY DEF Sound, Basic, Typed
<1>2. ~Idle /\ Top.at = "body" /\ Top.prev = NoInst
  BY DEF MountBody
<1>3. PICK i \in Insts, m \in Instances :
         /\ inst[i] = Free /\ Mounting(m, Top.file, i)
         /\ \/ /\ m.body = scopes[Top.file] /\ inst' = [inst EXCEPT ![i] = m]
               /\ Replaced([Top EXCEPT !.at = "convert", !.inst = i])
               /\ root' = root /\ call' = call /\ failed' = failed
            \/ /\ m.body = NoText /\ failed' = failed \cup {Top.file}
               /\ Deliver([inst EXCEPT ![i] = m], Node(Top.file, i))
  BY <1>1, MountShape
<1>4. PICK own, cls, V, W : Holders(own, cls, V, W)
  BY DEF HeldOnce
<1>5. i \notin V /\ i \notin W
  BY <1>3, <1>4, FreeOutside DEF Holders
<1>6. PICK is : is = [inst EXCEPT ![i] = m]
  OBVIOUS
<1>7. is \in [Insts -> Instances] /\ is[i] = m /\ \A j \in Insts : j # i => is[j] = inst[j]
  BY <1>1, <1>3, <1>6, InstanceTyped
<1>8. PICK to, cls2 : to = Given(own, i, TopToken) /\ cls2 = Given(cls, i, i)
  OBVIOUS
<1>9. Forest(is, to, cls2, V) /\ Forest(is, to, cls2, W)
  BY <1>1, <1>4, <1>5, <1>7, <1>8, ForestAside DEF Holders
<1>10. to[i] = TopToken /\ cls2[i] = i /\ \A x \in Insts : x # i => to[x] = own[x] /\ cls2[x] = cls[x]
  BY <1>8 DEF Given
<1>11. root.inst # NoInst => to[root.inst] = TopToken /\ root.inst \in Insts
  BY <1>1, <1>4, <1>10 DEF Holders, HostHas, Nodes
<1>12. ASSUME NEW d \in 1..(Len(stack) - 1)
       PROVE  /\ stack[d].inst # i /\ Tended(stack[d], to, is, V, W) /\ Tended(stack[d], to, is, V, W \cup {i})
  <2>1. /\ stack[d].at = "convert" /\ stack[d].inst \in Insts /\ inst[stack[d].inst].file \in Files
    BY <1>2, OtherFrames
  <2>2. stack[d].inst # i
    BY <1>3, <2>1, FreeFacts
  <2>3. Tended(stack[d], own, inst, V, W)
    BY <1>2, <1>4, WaitTended
  <2>4. stack[d].inst \notin V \cup W /\ to[stack[d].inst] = TopToken
    BY <1>10, <2>1, <2>2, <2>3 DEF Tended
  <2>5. \A x \in W : to[x] = own[x]
    BY <1>5, <1>9, <1>10 DEF Forest
  <2>6. Tended(stack[d], to, is, V, W)
    BY <2>1, <2>3, <2>4, <2>5, TendedKept
  <2>7. Tended(stack[d], to, is, V, W \cup {i})
    BY <2>1, <2>2, <2>3, <2>4, <2>5, TendedKept
  <2>8. QED
    BY <2>2, <2>6, <2>7
<1>13. CASE /\ inst' = [inst EXCEPT ![i] = m]
            /\ Replaced([Top EXCEPT !.at = "convert", !.inst = i])
            /\ root' = root /\ call' = call
  <2>1. PICK f : f = [Top EXCEPT !.at = "convert", !.inst = i]
    OBVIOUS
  <2>2. /\ f.at = "convert" /\ f.inst = i /\ f.prev = Top.prev /\ f.kids = Top.kids /\ f.left = Top.left
        /\ Replaced(f)
    BY <1>2, <1>13, <2>1, TopRefs DEF Frames
  <2>3. Top.kids = <<>>
    BY <1>2, TopRefs DEF FrameOK
  <2>4. Top.left = <<>>
    <3>1. Tended(Top, own, inst, V, W)
      BY <1>2, <1>4, WaitTended
    <3>2. QED
      BY <1>2, <3>1 DEF Tended, Collected
  <2>5. \A tok, S : Listed(<<>>, tok, to, S)
    BY EmptyMap DEF Listed
  <2>6. Tended(f, to, is, V, W)
    BY <1>5, <1>10, <2>2, <2>3, <2>4, <2>5 DEF Tended
  <2>7. inst' = is
    BY <1>6, <1>13
  <2>8. root.inst # NoInst /\ root.inst \in W /\ ~inst[root.inst].mounted =>
               root.inst \in W /\ ~inst'[root.inst].mounted
    BY <1>5, <1>7, <1>11, <2>7
  <2>9. V \cap W = {}
    BY <1>4 DEF Holders
  <2>10. \A d \in 1..(Len(stack) - 1) : Tended(stack[d], to, is, V, W)
    BY <1>12
  <2>11. /\ Forest(inst', to, cls2, V) /\ Forest(inst', to, cls2, W) /\ Tended(f, to, inst', V, W)
         /\ \A d \in 1..(Len(stack) - 1) : Tended(stack[d], to, inst', V, W)
    BY <1>9, <2>6, <2>7, <2>10
  <2>12. root' = root /\ call' = call /\ Replaced(f) /\ f.prev = Top.prev
    BY <1>13, <2>2
  <2>13. root.inst # NoInst => to[root.inst] = TopToken
    BY <1>11
  <2>14. QED
    BY <1>2, <1>4, <2>8, <2>9, <2>11, <2>12, <2>13, HeldReplace
<1>14. CASE Deliver([inst EXCEPT ![i] = m], Node(Top.file, i))
  <2>1. PICK n : n = Node(Top.file, i)
    OBVIOUS
  <2>2. n \in Nodes /\ n.inst = i /\ i # NoInst /\ Top.file \in Files
    <3>1. Top.file \in Files
      BY <1>2, TopRefs DEF Frames
    <3>2. QED
      BY <2>1, <3>1, NodeTyped, InstNumbers
  <2>3. Claims(is, to, cls2, i, W \cup {i}) /\ is[i].inner # i
    <3>1. \A tok, S : Listed(<<>>, tok, to, S)
      BY EmptyMap DEF Listed
    <3>2. /\ is[i].file = Top.file /\ is[i].kids = <<>> /\ is[i].left = <<>> /\ is[i].slot = NoNode
          /\ is[i].inner = NoInst
      BY <1>3, <1>7 DEF Mounting
    <3>3. is[i].slot.inst = NoInst
      BY <3>2, FreeFacts
    <3>4. QED
      BY <1>10, <2>2, <3>1, <3>2, <3>3 DEF Claims
  <2>4. \A j \in W : cls2[j] = cls2[i] => to[j] = InToken
    BY <1>5, <1>9, <1>10 DEF Forest, Claims
  <2>5. Forest(is, to, cls2, W \cup {i})
    BY <1>5, <1>9, <2>3, <2>4, ForestMore
  <2>6. V \cap (W \cup {i}) = {}
    BY <1>4, <1>5 DEF Holders
  <2>7. /\ call # NoInst => call \in V /\ (root.inst # NoInst => root.inst \in V)
        /\ call = NoInst =>
             /\ V = {}
             /\ root.inst # NoInst =>
                   root.inst = stack[1].prev \/ (root.inst \in W /\ ~inst[root.inst].mounted)
    BY <1>2, <1>4 DEF Holders, HostHas
  <2>8. root.inst # NoInst /\ root.inst \in W => root.inst # i /\ is[root.inst] = inst[root.inst]
    BY <1>5, <1>7, <1>11
  <2>9. Len(stack) = 1 => stack[1].prev = NoInst
    BY <1>2, TopRefs
  <2>10. Len(stack) > 1 => stack[1].prev # i
    <3>1. SUFFICES ASSUME Len(stack) > 1 PROVE stack[1].prev # i
      OBVIOUS
    <3>2. Len(stack) \in Nat
      BY <1>2, TopRefs
    <3>3. 1 \in 1..(Len(stack) - 1)
      BY <3>1, <3>2
    <3>4. 1 \in DOMAIN stack
      BY <1>2, <3>3, OtherFrames
    <3>5. stack[1].prev # NoInst => inst[stack[1].prev].mounted
      BY <1>1, <3>4 DEF Basic, Mounted, FrameInst
    <3>6. QED
      BY <1>3, <2>2, <3>5, FreeFacts
  <2>11. root.inst # NoInst /\ Len(stack) > 1 => i # root.inst
    BY <1>5, <2>7, <2>8, <2>10
  <2>12. Settled(is, to, cls2, V, W \cup {i}, n)
    <3>1. /\ Forest(is, to, cls2, V) /\ Forest(is, to, cls2, W \cup {i}) /\ V \cap (W \cup {i}) = {}
          /\ n.inst # NoInst => n.inst \in W \cup {i} /\ to[n.inst] = TopToken
          /\ \A d \in 1..(Len(stack) - 1) : Tended(stack[d], to, is, V, W \cup {i})
          /\ root.inst # NoInst => to[root.inst] = TopToken
      BY <1>9, <1>10, <1>11, <1>12, <2>2, <2>5, <2>6
    <3>2. /\ call # NoInst => call \in V /\ (root.inst # NoInst => root.inst \in V)
          /\ call = NoInst =>
               /\ V = {}
               /\ root.inst # NoInst =>
                   root.inst = stack[1].prev \/ (root.inst \in W \cup {i} /\ ~is[root.inst].mounted)
      BY <2>7, <2>8
    <3>3. call = NoInst /\ Len(stack) = 1 /\ root.inst # NoInst => root.inst \in W \cup {i}
      BY <2>7, <2>9
    <3>4. QED
      BY <2>2, <2>11, <3>1, <3>2, <3>3 DEF Settled
  <2>13. QED
    BY <1>2, <1>6, <1>7, <1>14, <2>1, <2>2, <2>12, HeldDeliver
<1>15. QED
  BY <1>3, <1>13, <1>14

\* The result of a bare invocation goes inside the component that made it.
LEMMA ForestInside ==
    ASSUME NEW is \in [Insts -> Instances], NEW own, NEW cls, NEW S, Forest(is, own, cls, S),
           NEW i \in Insts, i \notin S, NEW q, q # NoInst => own[q] = Token("kids", i)
    PROVE  Forest(is, Given(own, q, InToken), cls, S)
<1> DEFINE to == Given(own, q, InToken)
<1>1. Closed(is, S) /\ S \subseteq Insts
  BY ForestClosed DEF Forest
<1>2. \A j \in S : cls[j] # i
  BY DEF Forest, Claims
<1>3. \A j \in S : \A x \in Held(is, j) : to[x] = own[x]
  <2> TAKE j \in S
  <2> TAKE x \in Held(is, j)
  <2>1. x \in Insts /\ (own[x] = Token("kids", cls[j]) \/ own[x] = Token("left", j)
                        \/ own[x] = Token("slot", j) \/ own[x] = InToken)
    BY ForestHeld
  <2>2. own[x] # Token("kids", i)
    BY <1>2, <2>1, Tokens
  <2>3. x # q
    BY <2>1, <2>2, InstNumbers
  <2>4. QED
    BY <2>1, <2>3 DEF Given
<1>4. \A j \in S : own[j] = InToken => to[j] = InToken
  BY <1>1 DEF Given
<1> HIDE DEF to
<1>5. Forest(is, to, cls, S)
  BY <1>1, <1>3, <1>4, ForestKept DEF SameShape
<1>6. QED
  BY <1>5 DEF to

\* What the component that a render was of holds when the render is done.
LEMMA ReturnClaims ==
    ASSUME NEW is \in [Insts -> Instances], NEW own, NEW to, NEW cls, NEW cls2, NEW W,
           NEW i \in Insts, i \notin W, NEW q \in {NoInst} \cup Insts, NEW kids, NEW left,
           Forest(is, to, cls2, W), to = Given(own, q, InToken),
           is[i].file \in Files, is[i].inner = q, is[i].slot = NoNode,
           is[i].left = <<>> \/ is[i].left = left,
           cls2[i] = IF q = NoInst THEN i ELSE cls2[q],
           Listed(kids, Token("kids", i), own, W), Listed(left, Token("left", i), own, W),
           q # NoInst => q \in W /\ own[q] = Token("kids", i) /\ is[i].kids = is[q].kids,
           q = NoInst => is[i].kids = <<>> \/ is[i].kids = kids
    PROVE  Claims(is, to, cls2, i, W \cup {i}) /\ is[i].inner # i
<1>1. \A tok, S : Listed(<<>>, tok, to, S)
  BY EmptyMap DEF Listed
<1>2. \A x \in W : x # q => to[x] = own[x]
  BY DEF Given, Forest
<1>3. Listed(is[i].left, Token("left", i), to, W \cup {i})
  <2>1. \A k \in DOMAIN left : left[k].inst # NoInst => left[k].inst \in W /\ left[k].inst # q
    BY Tokens DEF Listed
  <2>2. Listed(left, Token("left", i), to, W \cup {i})
    BY <1>2, <2>1, ListedKept
  <2>3. QED
    BY <1>1, <2>2
<1>4. NoNode.inst = NoInst /\ i # NoInst
  BY FreeFacts, InstNumbers
<1>5. CASE q = NoInst
  <2>1. \A k \in DOMAIN kids : kids[k].inst # NoInst => kids[k].inst \in W /\ kids[k].inst # q
    BY <1>5 DEF Listed
  <2>2. Listed(kids, Token("kids", i), to, W \cup {i})
    BY <1>2, <2>1, ListedKept
  <2>3. Listed(is[i].kids, Token("kids", i), to, W \cup {i})
    BY <1>1, <1>5, <2>2
  <2>4. QED
    BY <1>3, <1>4, <1>5, <2>3 DEF Claims
<1>6. CASE q # NoInst
  <2>1. q \in W /\ q \in Insts /\ q # i
    BY <1>6
  <2>2. Claims(is, to, cls2, q, W)
    BY <2>1 DEF Forest
  <2>3. Claims(is, to, cls2, q, W \cup {i})
    BY <2>2, ClaimsGrow
  <2>4. to[q] = InToken
    BY <2>1 DEF Given
  <2>5. QED
    BY <1>3, <1>4, <1>6, <2>1, <2>3, <2>4 DEF Claims
<1>7. QED
  BY <1>5, <1>6

LEMMA HeldReturn ==
    ASSUME Sound, Refs, HeldOnce, Return
    PROVE  HeldOnce'
<1>1. Basic /\ inst \in [Insts -> Instances] /\ root \in Nodes
  BY DEF Sound, Basic, Typed
<1>2. PICK i : i = Top.inst
  OBVIOUS
<1>3. ~Idle /\ Top.at = "convert" /\ i \in Insts
  BY <1>1, <1>2, ReturnShape
<1>4. PICK m \in Instances : /\ Done(Len(stack), m)
                             /\ Deliver([inst EXCEPT ![i] = m], Node(Top.file, i))
  BY <1>1, <1>2, ReturnShape
<1>5. PICK own, cls, V, W : Holders(own, cls, V, W)
  BY DEF HeldOnce
<1>6. Top \in Frames /\ Top = stack[Len(stack)] /\ Top.file \in Files /\ Len(stack) \in DOMAIN stack
  BY <1>3, TopRefs DEF Frames
<1>7. /\ i \notin V \cup W /\ own[i] = TopToken
      /\ Listed(Top.kids, Token("kids", i), own, W) /\ Listed(Top.left, Token("left", i), own, W)
  BY <1>2, <1>3, <1>5, WaitTended DEF Tended
<1>8. PICK is : is = [inst EXCEPT ![i] = m]
  OBVIOUS
<1>9. is \in [Insts -> Instances] /\ is[i] = m /\ \A j \in Insts : j # i => is[j] = inst[j]
  BY <1>1, <1>3, <1>8, InstanceTyped
<1>10. PICK q : q = m.inner
  OBVIOUS
<1>11. /\ m.mounted /\ m.file = inst[i].file /\ m.slot = NoNode /\ m.left \in {<<>>, Top.left}
       /\ IF Text[Top.text].bare
          THEN Len(Top.kids) = 1 /\ q = Top.kids[1].inst /\ m.kids = CollectNestedInvocations(q)
          ELSE q = NoInst /\ m.kids = Top.kids
  BY <1>2, <1>4, <1>6, <1>10 DEF Done
<1>12. q \in {NoInst} \cup Insts
  BY <1>10 DEF Instances
<1>13. q # NoInst => q \in W /\ own[q] = Token("kids", i) /\ m.kids = inst[q].kids /\ q # i
  <2>1. SUFFICES ASSUME q # NoInst PROVE q \in W /\ own[q] = Token("kids", i) /\ m.kids = inst[q].kids
    BY <1>7
  <2>2. Len(Top.kids) = 1 /\ q = Top.kids[1].inst /\ m.kids = CollectNestedInvocations(q)
    BY <1>11, <2>1
  <2>3. 1 \in DOMAIN Top.kids
    <3>1. Top.kids \in Seq(Nodes)
      BY <1>6 DEF Frames
    <3>2. QED
      BY <2>2, <3>1, LenProperties
  <2>4. QED
    BY <1>7, <2>1, <2>2, <2>3 DEF Listed, CollectNestedInvocations
<1>14. PICK to : to = Given(own, q, InToken)
  OBVIOUS
<1>15. PICK cls2 : cls2 = Given(cls, i, IF q = NoInst THEN i ELSE cls[q])
  OBVIOUS
<1>16. \A x \in Insts : (x # q => to[x] = own[x]) /\ (x = q => to[x] = InToken) /\ (x # i => cls2[x] = cls[x])
  BY <1>14, <1>15 DEF Given
<1>17. /\ Forest(is, to, cls2, V) /\ Forest(is, to, cls2, W)
  <2>1. Forest(inst, to, cls, V) /\ Forest(inst, to, cls, W)
    BY <1>1, <1>3, <1>5, <1>7, <1>13, <1>14, ForestInside DEF Holders
  <2>2. QED
    BY <1>1, <1>3, <1>7, <1>9, <1>15, <2>1, ForestAside
<1>18. cls2[i] = (IF q = NoInst THEN i ELSE cls2[q]) /\ (q # NoInst => cls2[q] = cls[q])
  <2>1. cls2[i] = IF q = NoInst THEN i ELSE cls[q]
    BY <1>3, <1>15 DEF Given
  <2>2. q # NoInst => cls2[q] = cls[q]
    BY <1>12, <1>13, <1>16
  <2>3. QED
    BY <2>1, <2>2
<1>19. inst[i].file = Top.file
  BY <1>2, <1>3, <1>6, FrameFile
<1>20. Claims(is, to, cls2, i, W \cup {i}) /\ is[i].inner # i
  <2>1. is[i].file \in Files /\ is[i].inner = q /\ is[i].slot = NoNode
        /\ (is[i].left = <<>> \/ is[i].left = Top.left)
    BY <1>6, <1>9, <1>10, <1>11, <1>19
  <2>2. q # NoInst => q \in W /\ own[q] = Token("kids", i) /\ is[i].kids = is[q].kids
    BY <1>9, <1>12, <1>13
  <2>3. q = NoInst => is[i].kids = <<>> \/ is[i].kids = Top.kids
    BY <1>9, <1>11 DEF CollectNestedInvocations
  <2>4. i \notin W
    BY <1>7
  <2>5. QED
    BY <1>3, <1>7, <1>9, <1>12, <1>14, <1>17, <1>18, <2>1, <2>2, <2>3, <2>4, ReturnClaims
<1>21. ASSUME NEW j \in W, cls2[j] = cls2[i] PROVE to[j] = InToken
  <2>1. j \in Insts /\ j # i /\ cls2[j] = cls[j] /\ cls2[j] \in W
    BY <1>7, <1>16, <1>17 DEF Forest, Claims
  <2>2. q # NoInst /\ cls[j] = cls[q] /\ q \in W
    BY <1>7, <1>13, <1>18, <1>21, <2>1
  <2>3. own[j] = InToken \/ j = q
    <3>1. OneHead(own, cls, W)
      BY <1>5 DEF Holders, Forest
    <3>2. own[q] # InToken
      BY <1>13, <2>2, Tokens
    <3>3. QED
      BY <2>2, <3>1, <3>2 DEF OneHead
  <2>4. QED
    BY <1>16, <2>1, <2>3
<1>22. Forest(is, to, cls2, W \cup {i})
  BY <1>3, <1>7, <1>17, <1>20, <1>21, ForestMore
<1>23. PICK n : n = Node(Top.file, i)
  OBVIOUS
<1>24. n \in Nodes /\ n.inst = i /\ i # NoInst /\ is[n.inst].mounted
  <2>1. n \in Nodes /\ n.inst = i
    BY <1>3, <1>6, <1>23, NodeTyped
  <2>2. QED
    BY <1>3, <1>9, <1>11, <2>1, InstNumbers
<1>25. to[i] = TopToken
  BY <1>3, <1>7, <1>13, <1>16, <1>24
<1>26. ASSUME NEW d \in 1..(Len(stack) - 1)
       PROVE  stack[d].inst # i /\ Tended(stack[d], to, is, V, W \cup {i})
  <2>1. stack[d].at = "convert" /\ stack[d].inst \in Insts /\ stack[d].inst # i
    BY <1>2, <1>3, OtherFrames
  <2>2. Tended(stack[d], own, inst, V, W)
    BY <1>3, <1>5, WaitTended
  <2>3. stack[d].inst \notin V \cup W /\ own[stack[d].inst] = TopToken
    BY <2>1, <2>2 DEF Tended
  <2>4. to[stack[d].inst] = TopToken
    <3>1. stack[d].inst # q
      BY <1>13, <2>1, <2>3, InstNumbers
    <3>2. QED
      BY <1>16, <2>1, <2>3, <3>1
  <2>5. \A x \in W : own[x] = Token("kids", stack[d].inst) \/ own[x] = Token("left", stack[d].inst) =>
                         to[x] = own[x]
    <3> TAKE x \in W
    <3>1. x \in Insts
      BY <1>17 DEF Forest
    <3>2. x = q => own[x] = Token("kids", i)
      BY <1>13, <3>1, InstNumbers
    <3>3. QED
      BY <1>16, <2>1, <3>1, <3>2, Tokens
  <2>6. QED
    BY <2>1, <2>2, <2>3, <2>4, <2>5, TendedKept
<1>27. root.inst # NoInst => to[root.inst] = TopToken /\ root.inst \in Insts
  <2>1. root.inst # NoInst => root.inst \in Insts /\ own[root.inst] = TopToken
    BY <1>1, <1>5 DEF Nodes, Holders, HostHas
  <2>2. root.inst # NoInst => root.inst # q
    BY <1>13, <2>1, Tokens
  <2>3. QED
    BY <1>16, <2>1, <2>2
<1>28. /\ call # NoInst => call \in V /\ (root.inst # NoInst => root.inst \in V)
       /\ call = NoInst =>
            /\ V = {}
            /\ root.inst # NoInst =>
                 root.inst = stack[1].prev \/ (root.inst \in W /\ ~inst[root.inst].mounted)
  BY <1>3, <1>5 DEF Holders, HostHas
<1>29. root.inst # NoInst /\ root.inst \in V \cup W => root.inst # i /\ is[root.inst] = inst[root.inst]
  BY <1>7, <1>9, <1>27
<1>30. Len(stack) > 1 /\ root.inst # NoInst => i # root.inst
  <2>1. SUFFICES ASSUME Len(stack) > 1, root.inst # NoInst, root.inst = stack[1].prev PROVE i # root.inst
    BY <1>28, <1>29
  <2>2. Len(stack) \in Nat
    BY <1>3, TopRefs
  <2>3. 1 \in 1..(Len(stack) - 1)
    BY <2>1, <2>2
  <2>4. stack[1].at = "convert" /\ 1 \in DOMAIN stack
    BY <1>3, <2>3, OtherFrames
  <2>5. stack[1].inst = stack[1].prev
    BY <2>1, <2>4, FrameFile
  <2>6. QED
    BY <1>26, <2>1, <2>3, <2>5
<1>31. Settled(is, to, cls2, V, W \cup {i}, n)
  <2>1. /\ Forest(is, to, cls2, V) /\ Forest(is, to, cls2, W \cup {i}) /\ V \cap (W \cup {i}) = {}
        /\ n.inst # NoInst => n.inst \in W \cup {i} /\ to[n.inst] = TopToken
        /\ \A d \in 1..(Len(stack) - 1) : Tended(stack[d], to, is, V, W \cup {i})
        /\ root.inst # NoInst => to[root.inst] = TopToken
    BY <1>5, <1>7, <1>17, <1>22, <1>24, <1>25, <1>26, <1>27 DEF Holders
  <2>2. /\ call # NoInst => call \in V /\ (root.inst # NoInst => root.inst \in V)
        /\ call = NoInst =>
             /\ V = {}
             /\ root.inst # NoInst =>
                 root.inst = stack[1].prev \/ (root.inst \in W \cup {i} /\ ~is[root.inst].mounted)
    BY <1>28, <1>29
  <2>3. QED
    BY <1>24, <1>30, <2>1, <2>2 DEF Settled
<1>32. Deliver(is, n)
  BY <1>4, <1>8, <1>23
<1>33. QED
  BY <1>3, <1>9, <1>24, <1>31, <1>32, HeldDeliver

Relabelled(own, from, to) == [x \in Insts |-> IF own[x] = from THEN to ELSE own[x]]

\* A reload takes the component, with those whose output is its, out of the forest:
\* the invocations of its previous render are its own to match now.
LEMMA ForestTaken ==
    ASSUME NEW is \in [Insts -> Instances], NEW own, NEW cls, NEW W, Forest(is, own, cls, W),
           NEW i \in W, own[i] = TopToken, NEW to, to = Relabelled(own, Token("kids", cls[i]), Token("left", i)),
           NEW W2, W2 = {x \in W : cls[x] # cls[i]}, NEW new, \A j \in W : SameShape(new[j], is[j])
    PROVE  /\ Forest(new, to, cls, W2) /\ i \notin W2
           /\ Listed(is[i].kids, Token("left", i), to, W2)
           /\ \A x \in W : own[x] # InToken /\ x # i => x \in W2
<1>0. \A x \in Insts : to[x] = IF own[x] = Token("kids", cls[i]) THEN Token("left", i) ELSE own[x]
  BY DEF Relabelled
<1>1. W \subseteq Insts /\ OneHead(own, cls, W) /\ own[i] # InToken
  BY Tokens DEF Forest
<1>2. \A x \in W : own[x] # InToken /\ x # i => x \in W2
  BY <1>1 DEF OneHead
<1>3. ASSUME NEW x \in W2, NEW y \in Held(is, x) PROVE y \in W2 /\ to[y] = own[y]
  <2>1. x \in W /\ cls[x] # cls[i]
    BY <1>3
  <2>2. /\ y \in W /\ y \in Insts /\ own[y] # TopToken
        /\ \/ own[y] = Token("kids", cls[x]) \/ own[y] = Token("left", x) \/ own[y] = Token("slot", x)
           \/ own[y] = InToken /\ cls[y] = cls[x]
    BY <1>3, <2>1, ForestHeld
  <2>3. y \in W2
    <3>1. CASE own[y] = InToken
      BY <2>1, <2>2, <3>1, Tokens
    <3>2. CASE own[y] # InToken
      BY <1>2, <2>2, <3>2
    <3>3. QED
      BY <3>1, <3>2
  <2>4. own[y] # Token("kids", cls[i])
    BY <2>1, <2>2, Tokens
  <2>5. QED
    BY <1>0, <2>2, <2>3, <2>4
<1>4. Closed(is, W2) /\ W2 \in SUBSET W
  BY <1>3 DEF Closed
<1>5. \A j \in W2 : own[j] = InToken => to[j] = InToken
  BY <1>0, <1>1, Tokens
<1>6. \A x \in W2 : \A y \in Held(is, x) : to[y] = own[y]
  BY <1>3
<1>7. \A j \in W2 : SameShape(new[j], is[j]) /\ cls[j] = cls[j]
  BY <1>4
<1>8. Forest(new, to, cls, W2)
  BY <1>4, <1>5, <1>6, <1>7, ForestKept
<1>9. Listed(is[i].kids, Token("left", i), to, W2)
  <2>1. Listed(is[i].kids, Token("kids", cls[i]), own, W)
    BY DEF Forest, Claims
  <2>2. ASSUME NEW k \in DOMAIN is[i].kids, is[i].kids[k].inst # NoInst
        PROVE  to[is[i].kids[k].inst] = Token("left", i) /\ is[i].kids[k].inst \in W2
    <3>1. own[is[i].kids[k].inst] = Token("kids", cls[i]) /\ is[i].kids[k].inst \in W
      BY <2>1, <2>2 DEF Listed
    <3>2. is[i].kids[k].inst \in W2
      BY <1>2, <3>1, Tokens
    <3>3. is[i].kids[k].inst \in Insts
      BY <1>1, <3>1
    <3>4. QED
      BY <1>0, <3>1, <3>2, <3>3
  <2>3. QED
    BY <2>1, <2>2 DEF Listed
<1>10. QED
  BY <1>2, <1>8, <1>9

LEMMA HeldReload ==
    ASSUME Sound, Refs, HeldOnce, ReloadFunction \/ ReloadClass
    PROVE  HeldOnce'
<1>1. Basic /\ inst \in [Insts -> Instances] /\ root \in Nodes /\ OwnSignals
  BY DEF Sound, Basic, Typed
<1>2. PICK i : i = Top.prev
  OBVIOUS
<1>3. ~Idle /\ Top.at = "body" /\ i \in Insts /\ Top \in Frames /\ Top.text \in Versions
  <2>1. ~Idle /\ Top.at = "body" /\ i \in Insts
    BY <1>1, <1>2, ReloadShape
  <2>2. Top \in Frames /\ FrameOK(stack, scopes, Len(stack)) /\ Top = stack[Len(stack)]
    BY <2>1, TopRefs
  <2>3. Top.text \in VersionsOf[Top.file] /\ Top.file \in Files
    BY <2>1, <2>2 DEF FrameOK, Frames
  <2>4. QED
    BY <2>1, <2>2, <2>3 DEF Versions
<1>4. CASE Deliver(inst, Node(Top.file, NoInst))
  BY <1>3, <1>4, HeldFail
<1>5. ASSUME root' = root, call' = call, NEW s \in SignalMaps, NEW tier, inst' = Rerun(i, Top.text, s),
             Replaced([Top EXCEPT !.at = "convert", !.inst = i, !.tier = tier])
      PROVE  HeldOnce'
  <2>1. PICK own, cls, V, W : Holders(own, cls, V, W)
    BY DEF HeldOnce
  <2>2. Tended(Top, own, inst, V, W) /\ i # NoInst
    BY <1>3, <2>1, WaitTended, InstNumbers
  <2>3. i \in W /\ own[i] = TopToken /\ Top.left = inst[i].kids
    BY <1>2, <1>3, <2>2 DEF Tended, Collected
  <2>4. Top.kids = <<>>
    BY <1>3, TopRefs DEF FrameOK
  <2>5. PICK to : to = Relabelled(own, Token("kids", cls[i]), Token("left", i))
    OBVIOUS
  <2>22. \A x \in Insts : to[x] = IF own[x] = Token("kids", cls[i]) THEN Token("left", i) ELSE own[x]
    BY <2>5 DEF Relabelled
  <2>6. PICK W2 : W2 = {x \in W : cls[x] # cls[i]}
    OBVIOUS
  <2>7. \A j \in Insts : SameShape(inst'[j], inst[j]) /\ inst'[j].mounted = inst[j].mounted
    BY <1>1, <1>3, <1>5, RerunFacts DEF SameShape
  <2>8. Forest(inst, own, cls, W) /\ Forest(inst, own, cls, V) /\ V \cap W = {} /\ W \subseteq Insts
        /\ V \subseteq Insts
    BY <2>1 DEF Holders, Forest
  <2>9. /\ Forest(inst', to, cls, W2) /\ i \notin W2
        /\ Listed(inst[i].kids, Token("left", i), to, W2)
        /\ \A x \in W : own[x] # InToken /\ x # i => x \in W2
    <3>1. PICK new : new = inst'
      OBVIOUS
    <3>2. \A j \in W : SameShape(new[j], inst[j])
      BY <2>7, <2>8, <3>1
    <3>3. /\ Forest(new, to, cls, W2) /\ i \notin W2
          /\ Listed(inst[i].kids, Token("left", i), to, W2)
          /\ \A x \in W : own[x] # InToken /\ x # i => x \in W2
      BY <1>1, <2>3, <2>5, <2>6, <2>8, <3>2, ForestTaken
    <3>4. QED
      BY <3>1, <3>3
  <2>10. cls[i] \in W /\ W2 \subseteq W
    BY <2>3, <2>6, <2>8 DEF Forest, Claims
  <2>11. Forest(inst', to, cls, V)
    <3>1. \A x \in V : cls[x] # cls[i]
      BY <2>8, <2>10 DEF Forest, Claims
    <3>2. \A x \in V : \A y \in Held(inst, x) : to[y] = own[y]
      <4> TAKE x \in V
      <4> TAKE y \in Held(inst, x)
      <4>1. y \in Insts /\ own[y] # Token("kids", cls[i])
        <5>1. y \in Insts /\ (own[y] = Token("kids", cls[x]) \/ own[y] = Token("left", x)
                        \/ own[y] = Token("slot", x) \/ own[y] = InToken)
          BY <1>1, <2>8, ForestHeld
        <5>2. QED
          BY <3>1, <5>1, Tokens
      <4>2. QED
        BY <2>22, <4>1
    <3>3. \A x \in V : own[x] = InToken => to[x] = InToken
      BY <2>22, <2>8, Tokens
    <3>4. Closed(inst, V) /\ V \in SUBSET V
      BY <1>1, <2>8, ForestClosed
    <3>5. \A j \in V : SameShape(inst'[j], inst[j]) /\ cls[j] = cls[j]
      BY <2>7, <2>8
    <3>6. QED
      BY <1>1, <2>8, <3>2, <3>3, <3>4, <3>5, ForestKept
  <2>12. \A x \in Insts : own[x] = TopToken => to[x] = TopToken
    BY <2>22, Tokens
  <2>13. PICK f : f = [Top EXCEPT !.at = "convert", !.inst = i, !.tier = tier]
    OBVIOUS
  <2>14. /\ f.at = "convert" /\ f.inst = i /\ f.prev = Top.prev /\ f.kids = Top.kids /\ f.left = Top.left
         /\ Replaced(f)
    BY <1>3, <1>5, <2>13 DEF Frames
  <2>15. Tended(f, to, inst', V, W2)
    <3>1. Listed(<<>>, Token("kids", i), to, W2)
      BY EmptyMap DEF Listed
    <3>2. i \notin V \cup W2 /\ to[i] = TopToken
      BY <1>3, <2>3, <2>8, <2>9, <2>12
    <3>3. QED
      BY <2>3, <2>4, <2>9, <2>14, <3>1, <3>2 DEF Tended
  <2>16. ASSUME NEW d \in 1..(Len(stack) - 1) PROVE Tended(stack[d], to, inst', V, W2)
    <3>1. /\ stack[d].at = "convert" /\ stack[d].inst \in Insts
      BY <1>3, OtherFrames
    <3>2. Tended(stack[d], own, inst, V, W)
      BY <1>3, <2>1, WaitTended
    <3>3. stack[d].inst \notin V \cup W /\ own[stack[d].inst] = TopToken
      BY <3>1, <3>2 DEF Tended
    <3>4. stack[d].inst \notin V \cup W2 /\ to[stack[d].inst] = TopToken /\ stack[d].inst # cls[i]
      BY <2>10, <2>12, <3>1, <3>3
    <3>5. \A x \in W : own[x] = Token("kids", stack[d].inst) \/ own[x] = Token("left", stack[d].inst) =>
                          to[x] = own[x] /\ x \in W2
      <4> TAKE x \in W
      <4>1. x \in Insts
        BY <2>8
      <4>2. SUFFICES ASSUME own[x] = Token("kids", stack[d].inst) \/ own[x] = Token("left", stack[d].inst)
                     PROVE  to[x] = own[x] /\ x \in W2
        OBVIOUS
      <4>3. own[x] # Token("kids", cls[i]) /\ own[x] # InToken /\ x # i
        BY <2>3, <3>4, <4>2, Tokens
      <4>4. QED
        BY <2>22, <2>9, <4>1, <4>3
    <3>6. QED
      BY <3>1, <3>2, <3>4, <3>5, TendedKept
  <2>17. root.inst # NoInst => to[root.inst] = TopToken /\ root.inst \in Insts /\ own[root.inst] = TopToken
    BY <1>1, <2>1, <2>12 DEF Nodes, Holders, HostHas
  <2>18. root.inst # NoInst /\ root.inst \in W /\ ~inst[root.inst].mounted =>
               root.inst \in W2 /\ ~inst'[root.inst].mounted
    <3>1. inst[i].mounted
      BY <1>2, <2>2, <1>3, TopRefs DEF FrameInst
    <3>2. QED
      BY <2>7, <2>9, <2>17, <3>1, Tokens
  <2>19. V \cap W2 = {}
    BY <2>8, <2>10
  <2>20. root.inst # NoInst => to[root.inst] = TopToken
    BY <2>17
  <2>21. QED
    BY <1>3, <1>5, <2>1, <2>9, <2>11, <2>14, <2>15, <2>16, <2>18, <2>19, <2>20, HeldReplace
<1>6. QED
  BY <1>1, <1>2, <1>4, <1>5, ReloadShape

LEMMA HeldConvert ==
    ASSUME Sound, Refs, HeldOnce, ConvertChild
    PROVE  HeldOnce'
<1>1. Basic /\ inst \in [Insts -> Instances] /\ root \in Nodes
  BY DEF Sound, Basic, Typed
<1>2. PICK g, f : /\ g = Frame(Top.file, Head(Top.todo), Matched(Top.left, Head(Top.todo)))
                  /\ f = [Top EXCEPT !.todo = Tail(@), !.left = Past(@)]
  OBVIOUS
<1>3. /\ ~Idle /\ Top.at = "convert" /\ inst' = inst /\ root' = root /\ call' = call
      /\ g.at = "import" /\ g.prev = Matched(Top.left, Top.todo[1]) /\ Pushed(f, g)
  BY <1>1, <1>2, ConvertShape
<1>4. g.left = <<>> /\ g.at = "import"
  BY <1>2, <1>3 DEF Frame
<1>5. Top \in Frames /\ Top = stack[Len(stack)] /\ Len(stack) \in Nat /\ DOMAIN stack = 1..Len(stack)
      /\ Len(stack) >= 1 /\ FrameOK(stack, scopes, Len(stack))
  BY <1>3, TopRefs
<1>6. PICK i, q : i = Top.inst /\ q = g.prev
  OBVIOUS
<1>7. /\ f.at = "convert" /\ f.inst = i /\ f.prev = Top.prev /\ f.kids = Top.kids /\ f.left = Past(Top.left)
      /\ Top.left \in Seq(Nodes) /\ i \in Insts
  BY <1>2, <1>3, <1>5, <1>6 DEF Frames, FrameOK
<1>8. PICK own, cls, V, W : Holders(own, cls, V, W)
  BY DEF HeldOnce
<1>9. /\ i \notin V \cup W /\ own[i] = TopToken
      /\ Listed(Top.kids, Token("kids", i), own, W) /\ Listed(Top.left, Token("left", i), own, W)
  BY <1>3, <1>6, <1>8, WaitTended DEF Tended
<1>10. q # NoInst => Top.left # <<>> /\ Top.left[1].inst = q /\ q \in Insts /\ 1 \in DOMAIN Top.left
  <2>1. q # NoInst => Top.left # <<>> /\ Top.left[1].inst = q /\ q \in Insts
    BY <1>1, <1>3, <1>6, <1>7, MatchedFacts
  <2>2. QED
    BY <1>7, <2>1, LenProperties, EmptySeq
<1>11. q # NoInst => q \in W /\ own[q] = Token("left", i)
  BY <1>9, <1>10 DEF Listed
<1>12. PICK to : to = Given(own, q, TopToken)
  OBVIOUS
<1>13. \A x \in Insts : (x # q => to[x] = own[x]) /\ (x = q => to[x] = TopToken)
  BY <1>12 DEF Given
<1>14. Forest(inst, own, cls, V) /\ Forest(inst, own, cls, W) /\ V \cap W = {} /\ V \subseteq Insts /\ W \subseteq Insts
  BY <1>8 DEF Holders, Forest
<1>15. ASSUME NEW S, S = V \/ S = W PROVE Forest(inst, to, cls, S)
  <2>1. Forest(inst, own, cls, S) /\ S \subseteq Insts /\ i \notin S
    BY <1>9, <1>14, <1>15
  <2>2. \A x \in S : \A y \in Held(inst, x) : to[y] = own[y]
    <3> TAKE x \in S
    <3> TAKE y \in Held(inst, x)
    <3>1. y \in Insts /\ (own[y] = Token("kids", cls[x]) \/ own[y] = Token("left", x)
                        \/ own[y] = Token("slot", x) \/ own[y] = InToken)
      BY <1>1, <2>1, ForestHeld
    <3>2. x # i
      BY <2>1
    <3>3. y # q
      BY <1>11, <3>1, <3>2, Tokens, InstNumbers
    <3>4. QED
      BY <1>13, <3>1, <3>3
  <2>3. \A x \in S : own[x] = InToken => to[x] = InToken
    BY <1>11, <1>13, <2>1, Tokens, InstNumbers
  <2>4. Closed(inst, S) /\ S \in SUBSET S
    BY <1>1, <2>1, ForestClosed
  <2>5. \A j \in S : SameShape(inst[j], inst[j]) /\ cls[j] = cls[j]
    BY DEF SameShape
  <2>6. QED
    BY <1>1, <2>1, <2>2, <2>3, <2>4, <2>5, ForestKept
<1>16. \A x \in Insts : own[x] = TopToken => to[x] = TopToken
  BY <1>13
<1>17. \A x \in W : own[x] # Token("left", i) => to[x] = own[x]
  BY <1>11, <1>13, <1>14, InstNumbers
<1>18. Tended(f, to, inst, V, W)
  <2>1. Listed(f.kids, Token("kids", i), to, W)
    <3>1. \A k \in DOMAIN Top.kids : Top.kids[k].inst # NoInst =>
              Top.kids[k].inst \in W /\ own[Top.kids[k].inst] = Token("kids", i)
      BY <1>9 DEF Listed
    <3>2. \A k \in DOMAIN Top.kids : Top.kids[k].inst # NoInst =>
              Top.kids[k].inst \in W /\ to[Top.kids[k].inst] = own[Top.kids[k].inst]
      BY <1>17, <3>1, Tokens
    <3>3. QED
      BY <1>7, <1>9, <3>2, ListedKept
  <2>2. Listed(f.left, Token("left", i), to, W)
    <3>1. /\ Listed(Past(Top.left), Token("left", i), own, W)
          /\ Top.left # <<>> /\ Top.left[1].inst # NoInst =>
                \A k \in DOMAIN Past(Top.left) : Past(Top.left)[k].inst # Top.left[1].inst
      BY <1>7, <1>9, ListedPast
    <3>2. q # NoInst => \A k \in DOMAIN Past(Top.left) : Past(Top.left)[k].inst # q
      BY <1>10, <3>1
    <3>3. \A k \in DOMAIN Past(Top.left) : Past(Top.left)[k].inst # NoInst =>
              Past(Top.left)[k].inst \in W /\ Past(Top.left)[k].inst # q
      BY <3>1, <3>2 DEF Listed
    <3>4. \A k \in DOMAIN Past(Top.left) : Past(Top.left)[k].inst # NoInst =>
              Past(Top.left)[k].inst \in W /\ to[Past(Top.left)[k].inst] = own[Past(Top.left)[k].inst]
      BY <1>13, <1>14, <3>3
    <3>5. QED
      BY <1>7, <3>1, <3>4, ListedKept
  <2>3. QED
    BY <1>7, <1>9, <1>16, <2>1, <2>2 DEF Tended
<1>19. Tended(g, to, inst, V, W)
  BY <1>4, <1>6, <1>10, <1>11, <1>13 DEF Tended
<1>20. ASSUME NEW d \in 1..(Len(stack) - 1) PROVE Tended(stack[d], to, inst, V, W)
  <2>1. stack[d].at = "convert" /\ stack[d].inst \in Insts /\ stack[d].inst # i
    BY <1>3, <1>6, OtherFrames
  <2>2. Tended(stack[d], own, inst, V, W)
    BY <1>3, <1>8, WaitTended
  <2>3. stack[d].inst \notin V \cup W /\ to[stack[d].inst] = TopToken
    BY <1>16, <2>1, <2>2 DEF Tended
  <2>4. \A x \in W : own[x] = Token("kids", stack[d].inst) \/ own[x] = Token("left", stack[d].inst) =>
                        to[x] = own[x]
    BY <1>17, <2>1, Tokens
  <2>5. QED
    BY <2>1, <2>2, <2>3, <2>4, TendedKept
<1>21. /\ stack' \in Seq(Frames) /\ Len(stack') = Len(stack) + 1
       /\ stack'[Len(stack)] = f /\ stack'[Len(stack) + 1] = g
       /\ \A d \in 1..(Len(stack) - 1) : stack'[d] = stack[d]
  BY <1>3 DEF Pushed
<1>22. DOMAIN stack' = 1..(Len(stack) + 1)
  BY <1>21, LenProperties
<1>23. \A d \in DOMAIN stack' : Tended(stack'[d], to, inst, V, W)
  <2> TAKE d \in DOMAIN stack'
  <2>1. d \in 1..(Len(stack) - 1) \/ d = Len(stack) \/ d = Len(stack) + 1
    BY <1>5, <1>22
  <2>2. QED
    BY <1>18, <1>19, <1>20, <1>21, <2>1
<1>24. stack'[1].prev = stack[1].prev /\ stack' # <<>>
  <2>1. Len(stack) = 1 \/ 1 \in 1..(Len(stack) - 1)
    BY <1>5
  <2>2. 1 \in DOMAIN stack'
    BY <1>5, <1>22
  <2>3. QED
    BY <1>5, <1>7, <1>21, <2>1, <2>2, EmptyMap
<1>25. root.inst # NoInst => to[root.inst] = TopToken
  BY <1>1, <1>8, <1>16 DEF Nodes, Holders, HostHas
<1>26. HostHas(to, V, W)'
  <2>1. HostHas(own, V, W)
    BY <1>8 DEF Holders
  <2>2. QED
    BY <1>3, <1>24, <1>25, <2>1, HostBusy
<1>27. Holders(to, cls, V, W)'
  BY <1>3, <1>14, <1>15, <1>23, <1>26 DEF Holders
<1>28. QED
  BY <1>27 DEF HeldOnce

\* A call begins.
LEMMA HeldStart ==
    ASSUME NEW g, stack' = <<g>>, NEW own, NEW cls, NEW V, NEW W,
           Forest(inst', own, cls, V), Forest(inst', own, cls, W), V \cap W = {},
           Tended(g, own, inst', V, W), root'.inst # NoInst => own[root'.inst] = TopToken,
           call' = NoInst =>
             /\ V = {}
             /\ root'.inst # NoInst => root'.inst = g.prev \/ (root'.inst \in W /\ ~inst'[root'.inst].mounted),
           call' # NoInst => call' \in V /\ (root'.inst # NoInst => root'.inst \in V)
    PROVE  HeldOnce'
<1>1. stack'[1] = g /\ DOMAIN stack' = {1}
  OBVIOUS
<1>2. ~Idle'
  <2>1. stack' # <<>>
    BY <1>1, EmptyMap
  <2>2. QED
    BY <2>1 DEF Idle
<1>3. HostHas(own, V, W)'
  BY <1>1, <1>2 DEF HostHas
<1>4. Holders(own, cls, V, W)'
  BY <1>1, <1>3 DEF Holders
<1>5. QED
  BY <1>4 DEF HeldOnce

\* A frame before its load.
LEMMA FrameTended ==
    ASSUME NEW caller, NEW f, NEW p, NEW own, NEW is, NEW V, NEW W,
           p # NoInst => p \in W /\ own[p] = TopToken
    PROVE  Tended(Frame(caller, f, p), own, is, V, W) /\ Frame(caller, f, p).prev = p
<1>1. /\ Frame(caller, f, p).prev = p /\ Frame(caller, f, p).left = <<>>
      /\ Frame(caller, f, p).at \in {"load", "import"}
  BY DEF Frame
<1>2. QED
  BY <1>1 DEF Tended

LEMMA HeldHost ==
    ASSUME Sound, Entry, HeldOnce, MountRoot \/ ReloadRoot
    PROVE  HeldOnce'
<1>1. /\ inst \in [Insts -> Instances] /\ root \in Nodes /\ Idle /\ call = NoInst
      /\ inst' = inst /\ root' = root /\ call' = call
  BY DEF Sound, Basic, Typed, MountRoot, ReloadRoot, Entry
<1>2. PICK own, cls, V, W : Holders(own, cls, V, W)
  BY DEF HeldOnce
<1>3. /\ Forest(inst, own, cls, V) /\ Rooted(inst, root, V)
      /\ root.inst # NoInst => own[root.inst] = TopToken
  BY <1>1, <1>2 DEF Holders, HostHas
<1>4. Forest(inst, own, cls, {})
  BY ForestEmpty
<1>5. CASE MountRoot
  <2>1. stack' = <<Frame(NoFile, RootFile, NoInst)>> /\ root = NoNode
    BY <1>5 DEF MountRoot
  <2>2. root.inst = NoInst
    BY <2>1, FreeFacts
  <2>3. Tended(Frame(NoFile, RootFile, NoInst), own, inst, {}, {})
    BY FrameTended
  <2>4. QED
    BY <1>1, <1>4, <2>1, <2>2, <2>3, HeldStart
<1>6. CASE ReloadRoot
  <2>1. PICK p : p = PriorOf(root.inst)
    OBVIOUS
  <2>2. stack' = <<Frame(NoFile, RootFile, p)>>
    BY <1>6, <2>1 DEF ReloadRoot
  <2>3. /\ p # NoInst => p = root.inst
        /\ root.inst # NoInst => root.inst = p \/ ~inst[root.inst].mounted
    BY <2>1 DEF PriorOf
  <2>4. root.inst # NoInst => root.inst \in V
    BY <1>3 DEF Rooted
  <2>5. Tended(Frame(NoFile, RootFile, p), own, inst, {}, V) /\ Frame(NoFile, RootFile, p).prev = p
    BY <1>3, <2>3, <2>4, FrameTended
  <2>6. QED
    BY <1>1, <1>3, <1>4, <2>2, <2>3, <2>4, <2>5, HeldStart
<1>7. QED
  BY <1>5, <1>6

LEMMA HeldRun ==
    ASSUME Sound, HeldOnce, NEW i \in Insts, RunSlot(i)
    PROVE  HeldOnce'
<1>1. /\ inst \in [Insts -> Instances] /\ root \in Nodes /\ Idle /\ call' = i /\ root' = root
      /\ inst[i].mounted /\ inst[i].file \in Files /\ inst' = [inst EXCEPT ![i].left = Past(@)]
  BY DEF Sound, Basic, Typed, Mounted, RunSlot
<1>2. PICK tag : stack' = <<Frame(inst[i].file, tag, Matched(inst[i].left, tag))>>
  BY DEF RunSlot
<1>3. PICK q : q = Matched(inst[i].left, tag)
  OBVIOUS
<1>4. PICK own, cls, V, W : Holders(own, cls, V, W)
  BY DEF HeldOnce
<1>5. /\ Forest(inst, own, cls, V) /\ Rooted(inst, root, V) /\ i \in V
      /\ root.inst # NoInst => own[root.inst] = TopToken
  BY <1>1, <1>4 DEF Holders, HostHas
<1>6. inst[i].left \in Seq(Nodes) /\ inst[i] \in Instances
  BY <1>1 DEF Instances
<1>7. PICK m : m = [inst[i] EXCEPT !.left = Past(@)]
  OBVIOUS
<1>8. m \in Instances /\ m.left = Past(inst[i].left)
  BY <1>6, <1>7, PastFacts DEF Instances
<1>9. m.file = inst[i].file /\ m.kids = inst[i].kids /\ m.slot = inst[i].slot /\ m.inner = inst[i].inner
  BY <1>6, <1>7 DEF Instances
<1>10. PICK new : new = inst'
  OBVIOUS
<1>11. new \in [Insts -> Instances] /\ new[i] = m /\ \A j \in Insts : j # i => new[j] = inst[j]
  <2>1. new = [inst EXCEPT ![i] = m]
    BY <1>1, <1>7, <1>10
  <2>2. QED
    BY <1>1, <1>8, <2>1, InstanceTyped
<1>12. Claims(inst, own, cls, i, V) /\ V \subseteq Insts
  BY <1>5 DEF Forest
<1>13. q # NoInst => /\ q \in Insts /\ q \in V /\ own[q] = Token("left", i)
                     /\ \A k \in DOMAIN m.left : m.left[k].inst # q
  <2>1. q # NoInst => inst[i].left # <<>> /\ inst[i].left[1].inst = q /\ q \in Insts
    BY <1>1, <1>3, <1>6, MatchedFacts
  <2>2. q # NoInst => 1 \in DOMAIN inst[i].left
    BY <1>6, <2>1, LenProperties, EmptySeq
  <2>3. Listed(inst[i].left, Token("left", i), own, V)
    BY <1>12 DEF Claims
  <2>4. inst[i].left # <<>> /\ inst[i].left[1].inst # NoInst =>
            \A k \in DOMAIN Past(inst[i].left) : Past(inst[i].left)[k].inst # inst[i].left[1].inst
    BY <1>6, <2>3, ListedPast
  <2>5. QED
    BY <1>8, <2>1, <2>2, <2>3, <2>4 DEF Listed
<1>14. Forest(new, own, cls, V)
  <2>1. ASSUME NEW j \in V
        PROVE  /\ new[j].file = inst[j].file /\ new[j].kids = inst[j].kids /\ new[j].inner = inst[j].inner
               /\ Listed(new[j].left, Token("left", j), own, V)
               /\ SlotClaim(new[j].slot, j, own, V)
    <3>1. Claims(inst, own, cls, j, V) /\ j \in Insts
      BY <1>5 DEF Forest
    <3>2. SlotClaim(inst[j].slot, j, own, V) /\ Listed(inst[j].left, Token("left", j), own, V)
      BY <3>1 DEF Claims, SlotClaim
    <3>3. CASE j = i
      <4>1. Listed(m.left, Token("left", i), own, V)
        BY <1>6, <1>8, <3>2, <3>3, ListedPast
      <4>2. QED
        BY <1>9, <1>11, <3>2, <3>3, <4>1
    <3>4. CASE j # i
      BY <1>11, <3>1, <3>2, <3>4
    <3>5. QED
      BY <3>3, <3>4
  <2>2. QED
    BY <1>5, <2>1, ForestChanged
<1>15. PICK R : Rooted(new, root, R)
  <2>1. \E R \in SUBSET Insts :
             /\ root.inst # NoInst => root.inst \in R
             /\ Closed(new, R)
             /\ \A S : (root.inst # NoInst => root.inst \in S) /\ Closed(new, S) => R \subseteq S
    BY <1>1, <1>11, ReleaseFacts
  <2>2. QED
    BY <2>1 DEF Rooted
<1>16. R \subseteq V /\ Closed(new, V \ R)
  <2>1. \A j \in V : new[j].inner = inst[j].inner
    BY <1>9, <1>11, <1>12
  <2>2. QED
    BY <1>1, <1>5, <1>11, <1>14, <1>15, <2>1, SplitClosed
<1>17. i \in R
  <2>1. SUFFICES ASSUME i \notin R PROVE FALSE
    OBVIOUS
  <2>2. \A x \in R : Held(inst, x) = Held(new, x)
    BY <1>11, <1>12, <1>16, <2>1 DEF Held
  <2>3. Closed(inst, R)
    BY <1>15, <2>2 DEF Rooted, Closed
  <2>4. V \subseteq R
    BY <1>5, <1>15, <2>3 DEF Rooted
  <2>5. QED
    BY <1>5, <2>1, <2>4
<1>18. ASSUME NEW x \in V, q # NoInst, q \in Held(new, x) PROVE FALSE
  <2>1. own[q] = Token("left", x) /\ x = i
    BY <1>11, <1>13, <1>14, <1>18, ForestHeld, Tokens
  <2>2. Claims(new, own, cls, i, V) /\ new[i] = m
    BY <1>5, <1>11, <1>14 DEF Forest
  <2>3. \/ \E k \in DOMAIN m.kids : m.kids[k].inst = q
        \/ \E k \in DOMAIN m.left : m.left[k].inst = q
        \/ m.slot.inst = q
        \/ m.inner = q
    BY <1>11, <1>18, <2>1, <2>2, HeldCases
  <2>4. ~\E k \in DOMAIN m.kids : m.kids[k].inst = q
    BY <1>13, <1>18, <2>2, Tokens DEF Claims, Listed
  <2>5. m.slot.inst # q /\ m.inner # q
    BY <1>13, <1>18, <2>2, Tokens DEF Claims
  <2>6. QED
    BY <1>13, <1>18, <2>3, <2>4, <2>5
<1>19. q # NoInst => q \notin R
  <2>1. SUFFICES ASSUME q # NoInst, q \in R PROVE FALSE
    OBVIOUS
  <2>2. Closed(new, R \ {q})
    BY <1>15, <1>16, <1>18, <2>1 DEF Rooted, Closed
  <2>3. root.inst # NoInst => root.inst \in R \ {q}
    BY <1>5, <1>13, <1>15, <2>1, Tokens DEF Rooted
  <2>4. R \subseteq R \ {q}
    BY <1>15, <2>2, <2>3 DEF Rooted
  <2>5. QED
    BY <2>1, <2>4
<1>20. PICK to : to = Given(own, q, TopToken)
  OBVIOUS
<1>21. \A x \in Insts : (x # q => to[x] = own[x]) /\ (x = q => to[x] = TopToken)
  BY <1>20 DEF Given
<1>22. ASSUME NEW S \in SUBSET V, Closed(new, S) PROVE Forest(new, to, cls, S)
  <2>1. \A x \in S : \A y \in Held(new, x) : to[y] = own[y]
    BY <1>11, <1>12, <1>18, <1>21, <1>22, HeldFacts, InstNumbers, ZenonT(60)
  <2>2. \A x \in S : own[x] = InToken => to[x] = InToken
    BY <1>12, <1>13, <1>21, Tokens, InstNumbers
  <2>3. \A j \in S : SameShape(new[j], new[j]) /\ cls[j] = cls[j]
    BY DEF SameShape
  <2>4. QED
    BY <1>11, <1>14, <1>22, <2>1, <2>2, <2>3, ForestKept
<1>23. Forest(new, to, cls, R) /\ Forest(new, to, cls, V \ R)
  <2>1. Closed(new, R)
    BY <1>15 DEF Rooted
  <2>2. QED
    BY <1>16, <1>22, <2>1
<1>24. Tended(Frame(inst[i].file, tag, q), to, new, R, V \ R)
  BY <1>13, <1>19, <1>21, FrameTended
<1>25. root.inst # NoInst => to[root.inst] = TopToken /\ root.inst \in R
  BY <1>1, <1>5, <1>15, <1>21 DEF Nodes, Rooted
<1>26. i # NoInst /\ R \cap (V \ R) = {}
  BY InstNumbers
<1>27. stack' = <<Frame(inst[i].file, tag, q)>>
  BY <1>2, <1>3
<1>28. PICK g : g = Frame(inst[i].file, tag, q)
  OBVIOUS
<1>29. /\ stack' = <<g>> /\ Forest(inst', to, cls, R) /\ Forest(inst', to, cls, V \ R)
       /\ Tended(g, to, inst', R, V \ R)
  BY <1>10, <1>23, <1>24, <1>27, <1>28
<1>30. /\ root'.inst # NoInst => to[root'.inst] = TopToken
       /\ call' # NoInst /\ call' \in R /\ (root'.inst # NoInst => root'.inst \in R)
  BY <1>1, <1>17, <1>25, <1>26
<1>31. QED
  BY <1>26, <1>29, <1>30, HeldStart

LEMMA HeldEmpty ==
    ASSUME Sound, HeldOnce, NEW i \in Insts, EmptySlot(i)
    PROVE  HeldOnce'
<1>1. /\ inst \in [Insts -> Instances] /\ root \in Nodes /\ Idle /\ root' = root /\ stack' = <<>>
      /\ inst' = Release([inst EXCEPT ![i].slot = NoNode], root)
  BY DEF Sound, Basic, Typed, EmptySlot, Idle
<1>2. PICK own, cls, V, W : Holders(own, cls, V, W)
  BY DEF HeldOnce
<1>3. /\ Forest(inst, own, cls, V) /\ Rooted(inst, root, V)
      /\ root.inst # NoInst => own[root.inst] = TopToken
  BY <1>1, <1>2 DEF Holders, HostHas
<1>4. PICK new : new = [inst EXCEPT ![i].slot = NoNode]
  OBVIOUS
<1>5. /\ new \in [Insts -> Instances]
      /\ \A j \in Insts : SameButSlot(new[j], inst[j]) /\ (j # i => new[j] = inst[j])
      /\ new[i].slot = NoNode /\ NoNode.inst = NoInst
  BY <1>1, <1>4, FreeFacts, SlotTyped
<1>6. ASSUME NEW j \in V
      PROVE  /\ new[j].file = inst[j].file /\ new[j].kids = inst[j].kids /\ new[j].inner = inst[j].inner
             /\ Listed(new[j].left, Token("left", j), own, V)
             /\ SlotClaim(new[j].slot, j, own, V)
  <2>1. Claims(inst, own, cls, j, V) /\ j \in Insts
    BY <1>3 DEF Forest
  <2>2. SameButSlot(new[j], inst[j])
    BY <1>5, <2>1
  <2>3. SlotClaim(new[j].slot, j, own, V)
    BY <1>5, <2>1 DEF SlotClaim, Claims
  <2>4. QED
    BY <2>1, <2>2, <2>3 DEF Claims, SameButSlot
<1>7. Forest(new, own, cls, V)
  BY <1>3, <1>6, ForestChanged
<1>8. root.inst # NoInst => root.inst \in V
  BY <1>3 DEF Rooted
<1>9. inst' = Release(new, root)
  BY <1>1, <1>4
<1>10. PICK R \in SUBSET V : /\ Forest(inst', own, cls, R) /\ Rooted(inst', root, R)
                             /\ \A j \in Insts : inst'[j].file \in Files => j \in R
  <2>1. PICK S : S = V
    OBVIOUS
  <2>2. /\ Forest(new, own, cls, S)
        /\ root.inst # NoInst => root.inst \in S
        /\ new \in [Insts -> Instances] /\ root \in Nodes /\ inst' = Release(new, root)
    BY <1>1, <1>5, <1>7, <1>8, <1>9, <2>1
  <2>3. \E R \in SUBSET S : /\ Forest(inst', own, cls, R) /\ Rooted(inst', root, R)
                             /\ \A j \in Insts : inst'[j].file \in Files => j \in R
    BY <2>2, RootedRelease
  <2>4. QED
    BY <2>1, <2>3
<1>11. QED
  BY <1>1, <1>3, <1>10, HostIdle

\* The host drops the tree before: fewer instances are held, by the same holders.
LEMMA HeldDrop ==
    ASSUME Sound, HeldOnce, DropPrevious
    PROVE  HeldOnce'
<1>1. /\ inst \in [Insts -> Instances] /\ root \in Nodes /\ Idle /\ root' = root /\ stack' = <<>> /\ Basic
  BY DEF Sound, Basic, Typed, DropPrevious, Idle
<1>2. PICK own, cls, V, W : Holders(own, cls, V, W)
  BY DEF HeldOnce
<1>3. /\ Forest(inst, own, cls, V) /\ Rooted(inst, root, V)
      /\ root.inst # NoInst => own[root.inst] = TopToken
  BY <1>1, <1>2 DEF Holders, HostHas
<1>4. PICK new \in [Insts -> Instances] :
             /\ inst' = Release(new, root)
             /\ \A j \in Insts : \E l \in Seq(Nodes) :
                    new[j] = [inst[j] EXCEPT !.left = l] /\ \A k \in DOMAIN l : l[k] = NoNode
  BY <1>1, DropTo
<1>5. ASSUME NEW j \in V
      PROVE  /\ new[j].file = inst[j].file /\ new[j].kids = inst[j].kids /\ new[j].inner = inst[j].inner
             /\ Listed(new[j].left, Token("left", j), own, V)
             /\ SlotClaim(new[j].slot, j, own, V)
  <2>1. Claims(inst, own, cls, j, V) /\ j \in Insts
    BY <1>3 DEF Forest
  <2>2. PICK l \in Seq(Nodes) :
             new[j] = [inst[j] EXCEPT !.left = l] /\ \A k \in DOMAIN l : l[k] = NoNode
    BY <1>4, <2>1
  <2>3. inst[j] \in Instances
    BY <1>1, <2>1
  <2>4. /\ new[j].file = inst[j].file /\ new[j].kids = inst[j].kids /\ new[j].inner = inst[j].inner
        /\ new[j].slot = inst[j].slot /\ new[j].left = l
    BY <2>2, <2>3 DEF Instances
  <2>5. Listed(l, Token("left", j), own, V)
    BY <2>2, FreeFacts DEF Listed
  <2>6. QED
    BY <2>1, <2>4, <2>5 DEF Claims, SlotClaim
<1>6. Forest(new, own, cls, V)
  BY <1>3, <1>5, ForestChanged
<1>7. root.inst # NoInst => root.inst \in V
  BY <1>3 DEF Rooted
<1>8. PICK R : /\ Forest(inst', own, cls, R) /\ Rooted(inst', root, R)
               /\ \A j \in Insts : inst'[j].file \in Files => j \in R
  <2>1. PICK S : S = V
    OBVIOUS
  <2>2. /\ Forest(new, own, cls, S)
        /\ root.inst # NoInst => root.inst \in S
        /\ new \in [Insts -> Instances] /\ root \in Nodes /\ inst' = Release(new, root)
    BY <1>1, <1>4, <1>6, <1>7, <2>1
  <2>3. \E R \in SUBSET S : /\ Forest(inst', own, cls, R) /\ Rooted(inst', root, R)
                             /\ \A j \in Insts : inst'[j].file \in Files => j \in R
    BY <2>2, RootedRelease
  <2>4. QED
    BY <2>3
<1>9. QED
  BY <1>1, <1>3, <1>8, HostIdle

LEMMA HeldWrite ==
    ASSUME Sound, HeldOnce, NEW i \in Insts, InvokeInstanceCallable(i)
    PROVE  HeldOnce'
<1>1. /\ inst \in [Insts -> Instances] /\ Idle /\ root' = root /\ stack' = <<>> /\ Basic
  BY DEF Sound, Basic, Typed, InvokeInstanceCallable, Idle
<1>2. PICK own, cls, V, W : Holders(own, cls, V, W)
  BY DEF HeldOnce
<1>3. /\ Forest(inst, own, cls, V) /\ Rooted(inst, root, V)
      /\ root.inst # NoInst => own[root.inst] = TopToken
      /\ \A j \in Insts : inst[j].file \in Files => j \in V
  BY <1>1, <1>2 DEF Holders, HostHas
<1>4. \A j \in Insts : j # i => inst'[j] = inst[j]
  BY <1>1, WriteShape
<1>5. PICK s \in SignalMaps : inst'[i] = [inst[i] EXCEPT !.signals = s]
  BY <1>1, WriteShape
<1>6. \A j \in Insts : SameShape(inst'[j], inst[j])
  <2>1. SameShape(inst'[i], inst[i])
    <3>1. inst[i] \in Instances
      BY <1>1
    <3>2. QED
      BY <1>5, <3>1 DEF Instances, SameShape
  <2>2. \A j \in Insts : j # i => SameShape(inst'[j], inst[j])
    BY <1>4 DEF SameShape
  <2>3. QED
    BY <2>1, <2>2
<1>7. V \subseteq Insts /\ Closed(inst, V)
  BY <1>3 DEF Forest, Rooted
<1>8. \A j \in Insts : Held(inst', j) = Held(inst, j)
  BY <1>6 DEF Held, SameShape
<1>9. Forest(inst', own, cls, V)
  <2>1. \A x \in V : \A y \in Held(inst, x) : own[y] = own[y]
    OBVIOUS
  <2>2. \A j \in V : SameShape(inst'[j], inst[j]) /\ cls[j] = cls[j]
    BY <1>6, <1>7
  <2>3. QED
    BY <1>1, <1>3, <1>7, <2>1, <2>2, ForestKept
<1>10. Rooted(inst', root, V)
  <2>1. Closed(inst', V)
    BY <1>7, <1>8 DEF Closed
  <2>2. ASSUME NEW S, root.inst # NoInst => root.inst \in S, Closed(inst', S) PROVE V \subseteq S
    <3>1. Closed(inst, S \cap V)
      BY <1>7, <1>8, <2>2 DEF Closed
    <3>2. root.inst # NoInst => root.inst \in S \cap V
      BY <1>3, <2>2 DEF Rooted
    <3>3. V \subseteq S \cap V
      BY <1>3, <3>1, <3>2 DEF Rooted
    <3>4. QED
      BY <3>3
  <2>3. QED
    BY <1>3, <2>1, <2>2 DEF Rooted
<1>11. \A j \in Insts : inst'[j].file \in Files => j \in V
  BY <1>3, <1>6 DEF SameShape
<1>12. QED
  BY <1>1, <1>3, <1>9, <1>10, <1>11, HostIdle

LEMMA HeldSame ==
    ASSUME HeldOnce, inst' = inst, stack' = stack, root' = root, call' = call
    PROVE  HeldOnce'
<1>1. PICK own, cls, V, W : Holders(own, cls, V, W)
  BY DEF HeldOnce
<1>2. Holders(own, cls, V, W)'
  BY <1>1 DEF Holders, HostHas, Idle
<1>3. QED
  BY <1>2 DEF HeldOnce

LEMMA NextHeld ==
    ASSUME Referring, HeldOnce, [Next]_vars
    PROVE  HeldOnce'
<1>1. Sound /\ Refs /\ Entry
  BY DEF Referring
<1>2. CASE Driver
  BY <1>1, <1>2, HeldImport, HeldLoad, HeldMount, HeldReload, HeldConvert, HeldReturn DEF Driver
<1>3. ASSUME NEW f \in Files, Edit(f) PROVE HeldOnce'
  <2>1. inst' = inst /\ stack' = stack /\ root' = root /\ call' = call
    BY <1>3 DEF Edit
  <2>2. QED
    BY <2>1, HeldSame
<1>4. CASE MountRoot \/ ReloadRoot
  BY <1>1, <1>4, HeldHost
<1>5. ASSUME NEW i \in Insts, RunSlot(i) \/ EmptySlot(i) \/ InvokeInstanceCallable(i) PROVE HeldOnce'
  BY <1>1, <1>5, HeldRun, HeldEmpty, HeldWrite
<1>6. CASE DropPrevious
  BY <1>1, <1>6, HeldDrop
<1>7. CASE UNCHANGED world
  BY <1>7, HeldSame DEF world
<1>8. QED
  BY <1>2, <1>3, <1>4, <1>5, <1>6, <1>7, Steps

LEMMA InitHeld == Init => HeldOnce
<1> SUFFICES ASSUME Init PROVE HeldOnce
  OBVIOUS
<1>1. stack = <<>> /\ DOMAIN stack = {} /\ root.inst = NoInst /\ inst = [i \in Insts |-> Free]
  BY EmptyMap, FreeFacts DEF Init
<1>2. \A i \in Insts : inst[i].file \notin Files
  BY <1>1, FreeFacts
<1>3. Rooted(inst, root, {})
  BY <1>1 DEF Rooted, Closed
<1>4. HostHas(<<>>, {}, {})
  BY <1>1, <1>2, <1>3 DEF HostHas, Idle
<1>5. Holders(<<>>, <<>>, {}, {})
  BY <1>1, <1>4, ForestEmpty DEF Holders
<1>6. QED
  BY <1>5 DEF HeldOnce

\* While the driver is idle no instance is in two places of the tree, not even in
\* two of one component: every instance is in the list it was put in last, until a
\* reload takes it out of it to match it, or a slot's run does while the host
\* still keeps the tree before.  It holds up to the first run that reads a freed
\* invocation, at which a behaviour stops (IrisNyxDriver.cpp: InvokeComponent's
\* cursor over the previous invocations, EvaluateSlot; ReloadTarget.cpp: Reconcile).
THEOREM PlacesAreDistinct == Spec => []OneHolder
<1>1. Spec => [](Referring /\ HeldOnce)
  <2>1. Init => Referring /\ HeldOnce
    BY InitReferring, InitHeld
  <2>2. Referring /\ HeldOnce /\ [Next]_vars => Referring' /\ HeldOnce'
    BY NextReferring, NextHeld
  <2>3. QED
    BY <2>1, <2>2, PTL DEF Spec
<1>2. Referring /\ HeldOnce => OneHolder
  <2> SUFFICES ASSUME Referring, HeldOnce, Idle,
                      NEW i \in Insts, inst[i].mounted, Own(i), NEW j \in Insts, inst[j].mounted, Own(j),
                      NEW k \in DOMAIN Places(i), NEW l \in DOMAIN Places(j),
                      Places(i)[k] # NoInst, Places(i)[k] = Places(j)[l]
               PROVE  i = j /\ k = l
    BY DEF OneHolder
  <2>1. PICK own, cls, V, W : Holders(own, cls, V, W)
    BY DEF HeldOnce
  <2>2. inst \in [Insts -> Instances] /\ \A h \in Insts : inst[h].mounted => inst[h].file \in Files
    BY DEF Referring, Sound, Basic, Typed, Mounted
  <2>3. ASSUME NEW h \in Insts, inst[h].mounted, Own(h), NEW p \in DOMAIN Places(h), Places(h)[p] # NoInst
        PROVE  \/ p \in DOMAIN inst[h].kids /\ Places(h)[p] = inst[h].kids[p].inst
                  /\ own[Places(h)[p]] = Token("kids", h)
               \/ p = Len(inst[h].kids) + 1 /\ own[Places(h)[p]] = Token("slot", h)
    <3>1. h \in V
      BY <2>1, <2>2, <2>3 DEF Holders, HostHas
    <3>2. Claims(inst, own, cls, h, V) /\ cls[h] = h
      BY <2>1, <2>3, <3>1 DEF Holders, Forest, Claims, Own
    <3>3. inst[h].kids \in Seq(Nodes)
      BY <2>2 DEF Instances
    <3>4. PICK s, z : s = [n \in DOMAIN inst[h].kids |-> inst[h].kids[n].inst] /\ z = inst[h].slot.inst
      OBVIOUS
    <3>5. /\ Len(inst[h].kids) \in Nat /\ DOMAIN inst[h].kids = 1..Len(inst[h].kids)
      BY <3>3, LenProperties
    <3>6. s \in Seq(Nat) /\ Len(s) = Len(inst[h].kids) /\ z \in Nat
      <4>1. \A m \in Nodes : m.inst \in Nat
        <5>1. {NoInst} \cup Insts \subseteq Nat
          BY InstNumbers DEF NoInst
        <5>2. \A m \in Nodes : m.inst \in {NoInst} \cup Insts
          BY DEF Nodes
        <5>3. QED
          BY <5>1, <5>2
      <4>2. inst[h].slot \in Nodes
        BY <2>2 DEF Instances
      <4>3. \A n \in 1..Len(inst[h].kids) : inst[h].kids[n] \in Nodes
        BY <3>3, ElementOfSeq
      <4>4. s = [n \in 1..Len(inst[h].kids) |-> inst[h].kids[n].inst]
        BY <3>4, <3>5
      <4>5. \A n \in 1..Len(inst[h].kids) : inst[h].kids[n].inst \in Nat
        BY <4>1, <4>3
      <4>6. s \in [1..Len(inst[h].kids) -> Nat]
        BY <4>4, <4>5, Zenon
      <4>7. QED
        BY <3>4, <3>5, <4>1, <4>2, <4>6
    <3>7. Places(h) = s \o <<z>>
      BY <3>4 DEF Places
    <3>8. /\ DOMAIN (s \o <<z>>) = 1..(Len(s) + 1) /\ (s \o <<z>>)[Len(s) + 1] = z
          /\ \A n \in 1..Len(s) : (s \o <<z>>)[n] = s[n]
      <4>1. s \o <<z>> = Append(s, z)
        BY <3>6, AppendIsConcat
      <4>2. PICK t : t = Append(s, z)
        OBVIOUS
      <4>3. /\ t \in Seq(Nat) /\ Len(t) = Len(s) + 1 /\ t[Len(s) + 1] = z
            /\ \A n \in 1..Len(s) : t[n] = s[n]
        BY <3>6, <4>2, AppendProperties
      <4>4. DOMAIN t = 1..(Len(s) + 1)
        BY <4>3, LenProperties
      <4>5. QED
        BY <4>1, <4>2, <4>3, <4>4
    <3>9. p \in 1..Len(s) \/ p = Len(s) + 1
      BY <2>3, <3>6, <3>7, <3>8
    <3>10. CASE p \in 1..Len(s)
      <4>1. Places(h)[p] = inst[h].kids[p].inst /\ p \in DOMAIN inst[h].kids
        BY <3>4, <3>5, <3>6, <3>7, <3>8, <3>10
      <4>2. QED
        BY <2>3, <3>2, <4>1 DEF Claims, Listed
    <3>11. CASE p = Len(s) + 1
      <4>1. Places(h)[p] = inst[h].slot.inst
        BY <3>4, <3>7, <3>8, <3>11
      <4>2. QED
        BY <2>3, <3>2, <3>6, <3>11, <4>1 DEF Claims
    <3>12. QED
      BY <3>9, <3>10, <3>11
  <2>4. \/ k \in DOMAIN inst[i].kids /\ Places(i)[k] = inst[i].kids[k].inst
           /\ own[Places(i)[k]] = Token("kids", i)
        \/ k = Len(inst[i].kids) + 1 /\ own[Places(i)[k]] = Token("slot", i)
    BY <2>3
  <2>5. \/ l \in DOMAIN inst[j].kids /\ Places(j)[l] = inst[j].kids[l].inst
           /\ own[Places(j)[l]] = Token("kids", j)
        \/ l = Len(inst[j].kids) + 1 /\ own[Places(j)[l]] = Token("slot", j)
    BY <2>3
  <2>6. i = j
    BY <2>4, <2>5, Tokens
  <2>7. Claims(inst, own, cls, i, V)
    BY <2>1, <2>2 DEF Holders, HostHas, Forest
  <2>8. k = l
    BY <2>4, <2>5, <2>6, <2>7, Tokens DEF Claims, Listed
  <2>9. QED
    BY <2>6, <2>8
<1>3. QED
  BY <1>1, <1>2, PTL
=============================================================================
