---------------------------- MODULE ReconcilerProofs ----------------------------
(***************************************************************************)
(* Proofs about Reconciler: however two lists match, the loops end with    *)
(* the children of the new list, in order, and every matched widget alive. *)
(***************************************************************************)
EXTENDS Reconciler, FiniteSetTheorems, SequenceTheorems, TLAPS

-----------------------------------------------------------------------------
(* The inductive invariant: where every widget is, loop by loop. It holds  *)
(* of lists without None entries.                                          *)

NoneFree == \A f \in Forms : \A l \in Lists[f] : ~HasNone(l)

WidgetOf(o) == start[Base + o]

\* How many kept entries there are, by old and by new position.
KeptBetween(a, b) == Cardinality(KeptOld \intersect (a..b))
StayBetween(a, b) == Cardinality(keep \intersect (a..b))

\* Before and After are where they belong in c.
Framed(c) ==
    /\ c \in Seq(Widget)
    /\ IsInjective(c)
    /\ Base + Len(After) <= Len(c)
    /\ \A i \in 1..Base : c[i] = Before[i]
    /\ \A i \in 1..Len(After) : c[Len(c) - Len(After) + i] = After[i]

ValueOK ==
    /\ form \in Forms /\ pc \in Loops
    /\ old \in Lists[form] \union {<<>>} /\ new \in Lists[form] \union {<<>>}
    /\ n \in Nat /\ cursor \in Nat
    /\ shows \in [Widget -> Component]

IdleOK ==
    pc = "idle" =>
        /\ Framed(children) /\ Aligned(old)
        /\ new = <<>> /\ start = <<>> /\ moved = <<>> /\ result = <<>> /\ unmounted = {}

StartOK ==
    pc # "idle" => Framed(start) /\ Len(start) = Base + Len(old) + Len(After)

CountOK ==
    /\ pc \in {"keys", "order", "tails", "insert", "rebuild"} => n \in 1..Len(new) + 1
    /\ pc = "remove" => n \in 0..Len(old)
    /\ pc = "order" => cursor \in 1..Len(old) + 1

\* The match pairs entries of one identity, each at most once.
MatchOK ==
    /\ newToOld \in [DOMAIN new -> 0..Len(old)]
    /\ \A j, k \in DOMAIN new : newToOld[j] = newToOld[k] => j = k \/ newToOld[j] = 0
    /\ \A k \in DOMAIN new : newToOld[k] # 0 => SameIdentity(old[newToOld[k]], new[k])
    /\ pc = "keys" => \A k \in DOMAIN new : k >= n => newToOld[k] = 0

\* A predecessor comes earlier in both lists, and so does what is still to be
\* kept on the walk.
KeepOK ==
    /\ pc \in {"idle", "keys", "order"} => tails = <<>> /\ pred = <<>>
    /\ pc \in {"tails", "walk"} => DOMAIN pred = DOMAIN new
    /\ \A k \in DOMAIN pred :
          /\ k \in DOMAIN new /\ pred[k] \in 0..k - 1
          /\ pred[k] # 0 => newToOld[pred[k]] \in 1..newToOld[k] - 1
    /\ tails \in Seq(DOMAIN new)
    /\ \A p \in DOMAIN tails : newToOld[tails[p]] # 0
    /\ pc = "tails" => \A p \in DOMAIN tails : tails[p] < n
    /\ pc = "walk" /\ cursor # 0 =>
          /\ cursor \in DOMAIN new /\ newToOld[cursor] # 0
          /\ \A k \in keep : cursor < k /\ newToOld[cursor] < newToOld[k]
    /\ pc \in {"idle", "keys", "order", "tails", "rebuild"} => keep = {}
    /\ \A k \in keep : k \in DOMAIN new /\ newToOld[k] # 0
    /\ Increasing(keep)

\* Until the loops touch it, the parent is as it was.
UntouchedOK ==
    pc \in {"keys", "order", "tails", "walk"} =>
        /\ children = start /\ result = <<>> /\ unmounted = {}
        /\ moved = [o \in DOMAIN old |-> NoWidget]

\* The remove loop: the old entries up to n are untouched, the kept ones after
\* n are next to each other, then comes After.
Removed ==
    /\ children \in Seq(Widget)
    /\ Len(children) = Base + n + KeptBetween(n + 1, Len(old)) + Len(After)
    /\ \A i \in 1..Base + n : children[i] = start[i]
    /\ \A o \in KeptOld : o > n => children[Base + n + KeptBetween(n + 1, o)] = WidgetOf(o)
    /\ \A i \in 1..Len(After) : children[Len(children) - Len(After) + i] = After[i]

RemoveOK ==
    pc = "remove" =>
        /\ Removed
        /\ moved = [o \in DOMAIN old |->
              IF o > n /\ o \in Matched \ KeptOld THEN WidgetOf(o) ELSE NoWidget]
        /\ unmounted = {WidgetOf(o) : o \in {p \in DOMAIN old : p > n /\ p \notin Matched}}
        /\ result = <<>>

\* The insert loop: the new entries before n are in place, the kept ones from
\* n on are next to each other, then comes After.
Inserted ==
    /\ children \in Seq(Widget)
    /\ Len(children) = Base + n - 1 + StayBetween(n, Len(new)) + Len(After)
    /\ \A i \in 1..Base : children[i] = start[i]
    /\ \A k \in keep : k >= n => children[Base + n - 1 + StayBetween(n, k)] = WidgetOf(newToOld[k])
    /\ \A i \in 1..Len(After) : children[Len(children) - Len(After) + i] = After[i]

InsertOK ==
    pc = "insert" =>
        /\ Inserted
        /\ moved = [o \in DOMAIN old |->
              IF \E k \in DOMAIN new \ keep : k >= n /\ newToOld[k] = o THEN WidgetOf(o) ELSE NoWidget]
        /\ result = <<>>

RebuildOK ==
    pc = "rebuild" =>
        /\ form = "list"
        /\ result \in Seq(Widget) /\ Len(result) = n - 1
        /\ children = [o \in DOMAIN old |->
              IF \E k \in 1..n - 1 : newToOld[k] = o THEN NoWidget ELSE WidgetOf(o)]
        /\ moved = [o \in DOMAIN old |-> NoWidget] /\ unmounted = {}

\* What stands for new entry k so far.
Built(k) == IF pc = "rebuild" THEN result[k] ELSE children[Base + k]

BuiltUpTo(m) ==
    /\ \A k \in 1..m : Displays(Built(k), new[k])
    /\ \A k \in 1..m :
          IF newToOld[k] # 0 THEN Built(k) = WidgetOf(newToOld[k])
          ELSE Built(k) \notin Range(start)
    /\ \A j, k \in 1..m : Built(j) = Built(k) => j = k

BuiltOK ==
    /\ pc \in {"insert", "rebuild"} => BuiltUpTo(n - 1)
    /\ pc = "done" => BuiltUpTo(Len(new))

\* The widgets of old entries still show those, until they are matched anew.
ShownOK ==
    /\ pc \in {"keys", "order", "tails", "walk", "remove"} =>
          \A o \in DOMAIN old : Displays(WidgetOf(o), old[o])
    /\ pc \in {"insert", "rebuild"} =>
          \A k \in DOMAIN new : k >= n /\ newToOld[k] # 0 =>
              Displays(WidgetOf(newToOld[k]), old[newToOld[k]])

DoneOK ==
    pc = "done" =>
        /\ Framed(children) /\ Aligned(new)
        /\ moved \in Seq({NoWidget}) /\ result = <<>>

DroppedOK ==
    pc \in {"insert", "done"} =>
        unmounted = {WidgetOf(o) : o \in DOMAIN old \ Matched}

IInv ==
    /\ ValueOK /\ IdleOK /\ StartOK /\ CountOK /\ MatchOK /\ KeepOK /\ UntouchedOK
    /\ RemoveOK /\ InsertOK /\ RebuildOK /\ BuiltOK /\ ShownOK /\ DoneOK /\ DroppedOK

-----------------------------------------------------------------------------
(* Lists with an element taken out or put in.                              *)

LEMMA RemoveAtFacts ==
    ASSUME NEW S, NEW s \in Seq(S), NEW i \in 1..Len(s)
    PROVE  /\ RemoveAt(s, i) \in Seq(S)
           /\ Len(RemoveAt(s, i)) = Len(s) - 1
           /\ \A j \in 1..Len(s) - 1 : RemoveAt(s, i)[j] = IF j < i THEN s[j] ELSE s[j + 1]
<1> DEFINE a == SubSeq(s, 1, i - 1)
           b == SubSeq(s, i + 1, Len(s))
<1>1. a \in Seq(S) /\ Len(a) = i - 1 /\ \A j \in 1..i - 1 : a[j] = s[j]
  BY SubSeqProperties, ElementOfSeq
<1>2. b \in Seq(S) /\ Len(b) = Len(s) - i /\ \A j \in 1..Len(s) - i : b[j] = s[i + j]
  BY SubSeqProperties, ElementOfSeq
<1> HIDE DEF a, b
<1>3. /\ a \o b \in Seq(S)
      /\ Len(a \o b) = Len(a) + Len(b)
      /\ \A j \in 1..Len(a) + Len(b) : (a \o b)[j] = IF j <= Len(a) THEN a[j] ELSE b[j - Len(a)]
  BY <1>1, <1>2, ConcatProperties
<1>4. RemoveAt(s, i) = a \o b
  BY DEF RemoveAt, a, b
<1>5. Len(s) \in Nat /\ i \in Nat
  BY LenProperties
<1>6. ASSUME NEW j \in 1..Len(s) - 1
      PROVE  (a \o b)[j] = IF j < i THEN s[j] ELSE s[j + 1]
  <2>1. CASE j < i
    BY <1>1, <1>2, <1>3, <1>5, <2>1
  <2>2. CASE j >= i
    <3>1. j \in 1..Len(a) + Len(b) /\ ~(j <= Len(a)) /\ j - Len(a) \in 1..Len(s) - i
      BY <1>1, <1>2, <1>5, <2>2
    <3>2. (a \o b)[j] = b[j - Len(a)]
      BY <1>3, <3>1
    <3>3. b[j - Len(a)] = s[i + (j - Len(a))] /\ i + (j - Len(a)) = j + 1
      BY <1>1, <1>2, <1>5, <3>1
    <3> QED  BY <1>5, <2>2, <3>2, <3>3
  <2>3. j < i \/ j >= i
    BY <1>5
  <2> QED  BY <2>1, <2>2, <2>3
<1>7. Len(a \o b) = Len(s) - 1
  BY <1>1, <1>2, <1>3, <1>5
<1> QED  BY <1>3, <1>4, <1>6, <1>7

LEMMA InsertAtFacts ==
    ASSUME NEW S, NEW s \in Seq(S), NEW e \in S, NEW i \in 1..Len(s) + 1,
           NEW t, t = InsertAt(s, i, e)
    PROVE  /\ t \in Seq(S)
           /\ Len(t) = Len(s) + 1
           /\ \A j \in 1..Len(s) + 1 :
                 t[j] = IF j < i THEN s[j] ELSE IF j = i THEN e ELSE s[j - 1]
<1> DEFINE a == SubSeq(s, 1, i - 1)
           b == SubSeq(s, i, Len(s))
           c == Append(a, e)
<1>1. a \in Seq(S) /\ Len(a) = i - 1 /\ \A j \in 1..i - 1 : a[j] = s[j]
  BY SubSeqProperties, ElementOfSeq
<1>2. b \in Seq(S) /\ Len(b) = Len(s) - i + 1 /\ \A j \in 1..Len(s) - i + 1 : b[j] = s[i + j - 1]
  BY SubSeqProperties, ElementOfSeq
<1> HIDE DEF a, b
<1>3. c \in Seq(S) /\ Len(c) = i /\ c[i] = e /\ \A j \in 1..i - 1 : c[j] = s[j]
  BY <1>1, AppendProperties
<1>4. a \o <<e>> = c
  BY <1>1, AppendIsConcat
<1> HIDE DEF c
<1>5. /\ c \o b \in Seq(S)
      /\ Len(c \o b) = Len(c) + Len(b)
      /\ \A j \in 1..Len(c) + Len(b) : (c \o b)[j] = IF j <= Len(c) THEN c[j] ELSE b[j - Len(c)]
  BY <1>2, <1>3, ConcatProperties
<1>6. t = c \o b
  BY <1>4 DEF InsertAt, a, b
<1>7. Len(s) \in Nat /\ i \in Nat
  BY LenProperties
<1>8. ASSUME NEW j \in 1..Len(s) + 1
      PROVE  (c \o b)[j] = IF j < i THEN s[j] ELSE IF j = i THEN e ELSE s[j - 1]
  <2>1. CASE j <= i
    BY <1>2, <1>3, <1>5, <1>7, <2>1
  <2>2. CASE j > i
    <3>1. j \in 1..Len(c) + Len(b) /\ ~(j <= Len(c)) /\ j - Len(c) \in 1..Len(s) - i + 1
      BY <1>2, <1>3, <1>7, <2>2
    <3>2. (c \o b)[j] = b[j - Len(c)]
      BY <1>5, <3>1
    <3>3. b[j - Len(c)] = s[i + (j - Len(c)) - 1] /\ i + (j - Len(c)) - 1 = j - 1
      BY <1>2, <1>3, <1>7, <3>1
    <3> QED  BY <1>7, <2>2, <3>2, <3>3
  <2>3. j <= i \/ j > i
    BY <1>7
  <2> QED  BY <2>1, <2>2, <2>3
<1> QED  BY <1>2, <1>3, <1>5, <1>6, <1>7, <1>8

LEMMA PushFacts ==
    ASSUME NEW S, NEW s \in Seq(S), NEW e \in S, NEW t, t = Append(s, e)
    PROVE  /\ t \in Seq(S)
           /\ \A q \in DOMAIN t : t[q] = e \/ (q \in DOMAIN s /\ t[q] = s[q])
<1>1. /\ t \in Seq(S) /\ Len(t) = Len(s) + 1
      /\ \A q \in 1..Len(s) : t[q] = s[q]
      /\ t[Len(s) + 1] = e
  BY AppendProperties
<1>2. DOMAIN t = 1..Len(s) + 1 /\ DOMAIN s = 1..Len(s) /\ Len(s) \in Nat
  BY <1>1, LenProperties
<1> QED  BY <1>1, <1>2

LEMMA ReplaceFacts ==
    ASSUME NEW S, NEW s \in Seq(S), NEW e \in S, NEW p \in 1..Len(s), NEW t, t = [s EXCEPT ![p] = e]
    PROVE  /\ t \in Seq(S)
           /\ \A q \in DOMAIN t : t[q] = e \/ (q \in DOMAIN s /\ t[q] = s[q])
<1>1. t \in Seq(S)
  BY ExceptSeq
<1>2. DOMAIN t = DOMAIN s /\ \A q \in DOMAIN s : t[q] = IF q = p THEN e ELSE s[q]
  OBVIOUS
<1> QED  BY <1>1, <1>2

LEMMA LastFacts ==
    ASSUME NEW S, NEW s \in Seq(S), s # <<>>
    PROVE  \E q \in DOMAIN s : Last(s) = s[q]
<1>1. Len(s) \in DOMAIN s
  BY EmptySeq, LenProperties
<1> QED  BY <1>1 DEF Last

-----------------------------------------------------------------------------
(* Counting the kept entries of a range.                                   *)

LEMMA RangeFinite ==
    ASSUME NEW S, NEW a \in Nat, NEW b \in Nat
    PROVE  /\ IsFiniteSet(S \intersect (a..b))
           /\ Cardinality(S \intersect (a..b)) \in Nat
<1>1. IsFiniteSet(a..b)
  BY FS_Interval
<1>2. S \intersect (a..b) \in SUBSET (a..b)
  OBVIOUS
<1>3. IsFiniteSet(S \intersect (a..b))
  BY <1>1, <1>2, FS_Subset
<1> QED  BY <1>3, FS_CardinalityType

LEMMA CountFirst ==
    ASSUME NEW S, NEW a \in Nat, NEW b \in Nat, a <= b
    PROVE  /\ Cardinality(S \intersect (a + 1..b)) \in Nat
           /\ Cardinality(S \intersect (a..b)) =
                 IF a \in S THEN 1 + Cardinality(S \intersect (a + 1..b))
                 ELSE Cardinality(S \intersect (a + 1..b))
<1> DEFINE T == S \intersect (a + 1..b)
<1>1. IsFiniteSet(T) /\ Cardinality(T) \in Nat
  <2>1. a + 1 \in Nat
    OBVIOUS
  <2> QED  BY <2>1, RangeFinite
<1>2. a \notin T
  OBVIOUS
<1>3. S \intersect (a..b) = IF a \in S THEN T \union {a} ELSE T
  OBVIOUS
<1> HIDE DEF T
<1>4. Cardinality(T \union {a}) = Cardinality(T) + 1
  BY <1>1, <1>2, FS_AddElement
<1> QED  BY <1>1, <1>3, <1>4 DEF T

LEMMA CountNone ==
    ASSUME NEW S, NEW a \in Nat, NEW b \in Nat, b < a
    PROVE  Cardinality(S \intersect (a..b)) = 0
<1>1. S \intersect (a..b) = {}
  OBVIOUS
<1> QED  BY <1>1, FS_EmptySet

\* A larger range holds at least as many, and more if its last one counts.
LEMMA CountGrows ==
    ASSUME NEW S, NEW a \in Nat, NEW b \in Nat, NEW c \in Nat, b <= c
    PROVE  Cardinality(S \intersect (a..b)) <= Cardinality(S \intersect (a..c))
<1>1. IsFiniteSet(S \intersect (a..c))
  BY RangeFinite
<1>2. S \intersect (a..b) \in SUBSET (S \intersect (a..c))
  OBVIOUS
<1> QED  BY <1>1, <1>2, FS_Subset

LEMMA CountSome ==
    ASSUME NEW S, NEW a \in Nat, NEW b \in Nat, NEW o \in S, o \in a..b
    PROVE  Cardinality(S \intersect (a..b)) >= 1
<1>1. {o} \in SUBSET (S \intersect (a..b))
  OBVIOUS
<1>2. IsFiniteSet(S \intersect (a..b)) /\ Cardinality(S \intersect (a..b)) \in Nat
  BY RangeFinite
<1>3. Cardinality({o}) <= Cardinality(S \intersect (a..b))
  BY <1>1, <1>2, FS_Subset
<1>4. Cardinality({o}) = 1
  BY FS_Singleton
<1> QED  BY <1>2, <1>3, <1>4

LEMMA CountOne ==
    ASSUME NEW S, NEW a \in Nat, a \in S
    PROVE  Cardinality(S \intersect (a..a)) = 1
<1>1. Cardinality(S \intersect (a + 1..a)) = 0
  BY CountNone, a + 1 \in Nat
<1> QED  BY <1>1, CountFirst

-----------------------------------------------------------------------------
(* Lists and what widgets show.                                            *)

LEMMA SidesFacts ==
    /\ Before \in Seq(Widget) /\ After \in Seq(Widget) /\ IsInjective(Before \o After)
    /\ Base = Len(Before) /\ Base \in Nat /\ Len(After) \in Nat
<1>1. <<>> \in Seq(Widget) /\ <<>> \o <<>> = <<>>
  BY EmptySeq
<1>2. IsInjective(<<>>)
  BY DEF IsInjective
<1>3. Before \in Seq(Widget) /\ After \in Seq(Widget) /\ IsInjective(Before \o After)
  BY <1>1, <1>2, WidgetAssumption DEF Before, After
<1> QED  BY <1>3, LenProperties DEF Base

LEMMA SidesStay ==
    ASSUME form' = form
    PROVE  Before' = Before /\ After' = After /\ Base' = Base
BY DEF Before, After, Base

LEMMA NoSides ==
    ASSUME form # "slot"
    PROVE  Before = <<>> /\ After = <<>> /\ Base = 0 /\ Len(After) = 0
BY EmptySeq DEF Before, After, Base

LEMMA ListFacts ==
    ASSUME ValueOK
    PROVE  /\ old \in Seq(Component) /\ new \in Seq(Component)
           /\ Len(old) \in Nat /\ DOMAIN old = 1..Len(old)
           /\ Len(new) \in Nat /\ DOMAIN new = 1..Len(new)
           /\ Base \in Nat /\ Len(After) \in Nat
           /\ Before \in Seq(Widget) /\ After \in Seq(Widget)
<1>1. old \in Seq(Component) /\ new \in Seq(Component)
  <2>1. <<>> \in Seq(Component)
    BY EmptySeq
  <2> QED  BY <2>1, ListAssumption DEF ValueOK
<1> QED  BY <1>1, SidesFacts, LenProperties

\* ApplyPropDiff turns the widget of an entry into that of its match, and
\* touches no other.
LEMMA AppliedFacts ==
    ASSUME shows \in [Widget -> Component], NEW w \in Widget,
           NEW o \in Component, NEW e \in Component,
           Displays(w, o), SameIdentity(o, e), shows' = Applied(w, o, e)
    PROVE  /\ shows' \in [Widget -> Component]
           /\ Displays(w, e)'
           /\ \A v, f : v # w /\ Displays(v, f) => Displays(v, f)'
BY DEF Displays, SameIdentity, KeysEqual, Applied, Component

\* A fresh widget shows what it was mounted as; the others are as they were.
LEMMA FreshFacts ==
    ASSUME shows \in [Widget -> Component], Unused # {}, NEW e \in Component,
           shows' = MountedAs(Fresh, e)
    PROVE  /\ Fresh \in Widget
           /\ Fresh \notin Range(start) /\ Fresh \notin Range(children) /\ Fresh \notin Range(result)
           /\ shows' \in [Widget -> Component]
           /\ shows'[Fresh] = e
           /\ \A v, f : v # Fresh /\ Displays(v, f) => Displays(v, f)'
<1>1. Fresh \in Unused
  BY DEF Fresh
<1> HIDE DEF Fresh
<1> QED  BY <1>1 DEF Unused, MountedAs, Displays

-----------------------------------------------------------------------------
(* MatchLists keeps the invariant.                                         *)

LEMMA BeginStep == IInv /\ Begin => IInv'
<1> SUFFICES ASSUME IInv, Begin PROVE IInv'
  OBVIOUS
<1>0. Before' = Before /\ After' = After /\ Base' = Base
  BY SidesStay DEF Begin, lists
<1> USE <1>0
<1> USE DEF Begin
<1>1. /\ pc' = "keys" /\ n' = 1 /\ new' \in Lists[form] /\ old' = old /\ form' = form
      /\ Framed(children) /\ Aligned(old) /\ result = <<>> /\ unmounted = {}
  BY DEF IInv, IdleOK
<1>2. ValueOK'
  BY <1>1 DEF IInv, ValueOK, Loops, lis, match
<1>3. StartOK'
  BY <1>1 DEF StartOK, Framed, Aligned
<1>4. CountOK' /\ MatchOK'
  BY <1>1, <1>2, ListFacts, ListAssumption, LenProperties DEF IInv, CountOK, MatchOK, ValueOK
<1>5. KeepOK'
  BY <1>1, EmptySeq DEF IInv, KeepOK, Increasing, lis
<1>6. UntouchedOK'
  BY <1>1 DEF UntouchedOK
<1>7. ShownOK'
  BY <1>1 DEF ShownOK, Aligned, WidgetOf, Displays
<1>8. IdleOK' /\ RemoveOK' /\ InsertOK' /\ RebuildOK' /\ BuiltOK' /\ DoneOK' /\ DroppedOK'
  BY <1>1 DEF IdleOK, RemoveOK, InsertOK, RebuildOK, BuiltOK, DoneOK, DroppedOK
<1> QED  BY <1>2, <1>3, <1>4, <1>5, <1>6, <1>7, <1>8 DEF IInv

\* A new pair keeps the match one to one.
LEMMA PairStep ==
    ASSUME IInv, NEW k \in DOMAIN new, NEW o \in DOMAIN old,
           newToOld[k] = 0, o \notin Matched, SameIdentity(old[o], new[k]),
           newToOld' = [newToOld EXCEPT ![k] = o]
    PROVE  /\ newToOld' \in [DOMAIN new -> 0..Len(old)]
           /\ \A i, j \in DOMAIN new : newToOld'[i] = newToOld'[j] => i = j \/ newToOld'[i] = 0
           /\ \A j \in DOMAIN new : newToOld'[j] # 0 => SameIdentity(old[newToOld'[j]], new[j])
<1>1. o \in 1..Len(old) /\ newToOld \in [DOMAIN new -> 0..Len(old)]
  BY ListFacts DEF IInv, MatchOK
<1>2. \A j \in DOMAIN new : newToOld[j] # o
  BY <1>1 DEF Matched
<1> QED  BY <1>1, <1>2 DEF IInv, MatchOK

LEMMA MatchByKeyStep == IInv /\ MatchByKey => IInv'
<1> SUFFICES ASSUME IInv, MatchByKey PROVE IInv'
  OBVIOUS
<1>0. Before' = Before /\ After' = After /\ Base' = Base
  BY SidesStay DEF MatchByKey, lists
<1> USE <1>0
<1> USE DEF MatchByKey
<1>1. /\ pc = "keys" /\ pc' = "keys" /\ n' = n + 1 /\ n \in DOMAIN new /\ n \in Nat
      /\ UNCHANGED <<lists, cursor, lis, tree, start>>
  BY ListFacts DEF IInv, ValueOK, CountOK
<1>2. ValueOK'
  BY <1>1 DEF IInv, ValueOK, lists, tree
<1>3. StartOK' /\ UntouchedOK' /\ ShownOK'
  BY <1>1 DEF IInv, StartOK, UntouchedOK, ShownOK, Framed, WidgetOf, Displays, lists, tree
<1>4. CountOK'
  BY <1>1, ListFacts DEF IInv, CountOK, lists
<1>5. MatchOK'
  <2>1. CASE newToOld' = newToOld
    BY <1>1, <2>1 DEF IInv, MatchOK, ValueOK, lists
  <2>2. CASE \E o \in Least(SameKey(n)) : newToOld' = [newToOld EXCEPT ![n] = o]
    <3>1. PICK o \in SameKey(n) : newToOld' = [newToOld EXCEPT ![n] = o]
      BY <2>2 DEF Least
    <3>2. o \in DOMAIN old /\ o \notin Matched /\ SameIdentity(old[o], new[n])
      BY <3>1 DEF SameKey, SameIdentity
    <3>3. newToOld \in [DOMAIN new -> 0..Len(old)] /\ \A k \in DOMAIN new : k >= n => newToOld[k] = 0
      BY <1>1 DEF IInv, MatchOK
    <3>4. newToOld[n] = 0
      BY <1>1, <3>3
    <3>6. \A k \in DOMAIN new : k >= n + 1 => newToOld'[k] = 0
      BY <1>1, <3>1, <3>3, ListFacts DEF IInv
    <3>5. /\ newToOld' \in [DOMAIN new -> 0..Len(old)]
          /\ \A i, j \in DOMAIN new : newToOld'[i] = newToOld'[j] => i = j \/ newToOld'[i] = 0
          /\ \A j \in DOMAIN new : newToOld'[j] # 0 => SameIdentity(old[newToOld'[j]], new[j])
      BY <1>1, <3>1, <3>2, <3>4, PairStep
    <3> QED  BY <1>1, <3>5, <3>6 DEF MatchOK, lists
  <2> QED  BY <2>1, <2>2
<1>6. KeepOK'
  BY <1>1 DEF IInv, KeepOK, Increasing, lists, lis
<1>7. IdleOK' /\ RemoveOK' /\ InsertOK' /\ RebuildOK' /\ BuiltOK' /\ DoneOK' /\ DroppedOK'
  BY <1>1 DEF IdleOK, RemoveOK, InsertOK, RebuildOK, BuiltOK, DoneOK, DroppedOK
<1> QED  BY <1>2, <1>3, <1>4, <1>5, <1>6, <1>7 DEF IInv

LEMMA EndKeysStep == IInv /\ EndKeys => IInv'
<1> SUFFICES ASSUME IInv, EndKeys PROVE IInv'
  OBVIOUS
<1>0. Before' = Before /\ After' = After /\ Base' = Base
  BY SidesStay DEF EndKeys, lists
<1> USE <1>0
<1>1. /\ pc = "keys" /\ pc' = "order" /\ n' = 1 /\ cursor' = 1
      /\ UNCHANGED <<lists, newToOld, lis, tree, start>>
  BY DEF EndKeys
<1>2. ValueOK' /\ CountOK'
  BY <1>1, ListFacts DEF IInv, ValueOK, CountOK, Loops, lists, tree
<1>3. StartOK' /\ UntouchedOK' /\ ShownOK'
  BY <1>1 DEF IInv, StartOK, UntouchedOK, ShownOK, Framed, WidgetOf, Displays, lists, tree
<1>4. MatchOK' /\ KeepOK'
  BY <1>1 DEF IInv, MatchOK, KeepOK, Increasing, lists, lis
<1>5. IdleOK' /\ RemoveOK' /\ InsertOK' /\ RebuildOK' /\ BuiltOK' /\ DoneOK' /\ DroppedOK'
  BY <1>1 DEF IdleOK, RemoveOK, InsertOK, RebuildOK, BuiltOK, DoneOK, DroppedOK
<1> QED  BY <1>2, <1>3, <1>4, <1>5 DEF IInv

LEMMA MatchByOrderStep == IInv /\ MatchByOrder => IInv'
<1> SUFFICES ASSUME IInv, MatchByOrder PROVE IInv'
  OBVIOUS
<1>0. Before' = Before /\ After' = After /\ Base' = Base
  BY SidesStay DEF MatchByOrder, lists
<1> USE <1>0
<1> USE DEF MatchByOrder
<1>1. /\ pc = "order" /\ pc' = "order" /\ n' = n + 1 /\ n \in DOMAIN new /\ n \in Nat
      /\ newToOld[n] = 0 /\ new[n].key = NoKey
      /\ UNCHANGED <<lists, lis, tree, start>>
  BY ListFacts DEF IInv, ValueOK, CountOK, Keyed
<1>2. PICK o \in NextUnkeyed :
        \/ /\ o <= Len(old) /\ old[o].tag = new[n].tag
           /\ newToOld' = [newToOld EXCEPT ![n] = o] /\ cursor' = o + 1
        \/ /\ ~(o <= Len(old) /\ old[o].tag = new[n].tag)
           /\ newToOld' = newToOld /\ cursor' = o
  OBVIOUS
<1>3. /\ o \in 1..Len(old) + 1
      /\ o <= Len(old) => o \in DOMAIN old /\ o \notin Matched /\ old[o].key = NoKey
  BY <1>1, ListFacts DEF IInv, CountOK, NextUnkeyed, Least
<1>4. ValueOK' /\ CountOK'
  <2>1. ValueOK
    BY DEF IInv
  <2>2. cursor' \in 1..Len(old) + 1 /\ cursor' \in Nat
    BY <1>2, <1>3, <2>1, ListFacts
  <2>3. n' \in 1..Len(new) + 1 /\ n' \in Nat
    BY <1>1, <2>1, ListFacts
  <2>4. ValueOK'
    BY <1>1, <2>1, <2>2, <2>3 DEF ValueOK, lists, tree
  <2>5. CountOK'
    BY <1>1, <2>2, <2>3 DEF CountOK, lists
  <2> QED  BY <2>4, <2>5
<1>5. StartOK' /\ UntouchedOK' /\ ShownOK'
  BY <1>1 DEF IInv, StartOK, UntouchedOK, ShownOK, Framed, WidgetOf, Displays, lists, tree
<1>6. MatchOK'
  <2>1. CASE newToOld' = newToOld
    BY <1>1, <2>1 DEF IInv, MatchOK, lists
  <2>2. CASE o <= Len(old) /\ old[o].tag = new[n].tag /\ newToOld' = [newToOld EXCEPT ![n] = o]
    <3>1. SameIdentity(old[o], new[n])
      BY <1>1, <1>3, <2>2, WidgetAssumption DEF SameIdentity, KeysEqual
    <3>2. /\ newToOld' \in [DOMAIN new -> 0..Len(old)]
          /\ \A i, j \in DOMAIN new : newToOld'[i] = newToOld'[j] => i = j \/ newToOld'[i] = 0
          /\ \A j \in DOMAIN new : newToOld'[j] # 0 => SameIdentity(old[newToOld'[j]], new[j])
      BY <1>1, <1>3, <2>2, <3>1, PairStep
    <3> QED  BY <1>1, <3>2 DEF MatchOK, lists
  <2> QED  BY <1>2, <2>1, <2>2
<1>7. KeepOK'
  BY <1>1 DEF IInv, KeepOK, Increasing, lists, lis
<1>8. IdleOK' /\ RemoveOK' /\ InsertOK' /\ RebuildOK' /\ BuiltOK' /\ DoneOK' /\ DroppedOK'
  BY <1>1 DEF IdleOK, RemoveOK, InsertOK, RebuildOK, BuiltOK, DoneOK, DroppedOK
<1> QED  BY <1>4, <1>5, <1>6, <1>7, <1>8 DEF IInv

LEMMA SkipKeyedStep == IInv /\ SkipKeyed => IInv'
<1> SUFFICES ASSUME IInv, SkipKeyed PROVE IInv'
  OBVIOUS
<1>0. Before' = Before /\ After' = After /\ Base' = Base
  BY SidesStay DEF SkipKeyed, lists
<1> USE <1>0
<1>1. /\ pc = "order" /\ pc' = "order" /\ n' = n + 1 /\ n <= Len(new)
      /\ UNCHANGED <<lists, match, lis, tree, start>>
  BY DEF SkipKeyed
<1>2. ValueOK' /\ CountOK'
  BY <1>1, ListFacts DEF IInv, ValueOK, CountOK, lists, match, tree
<1>3. StartOK' /\ UntouchedOK' /\ ShownOK'
  BY <1>1 DEF IInv, StartOK, UntouchedOK, ShownOK, Framed, WidgetOf, Displays, lists, tree
<1>4. MatchOK' /\ KeepOK'
  BY <1>1 DEF IInv, MatchOK, KeepOK, Increasing, lists, lis, match
<1>5. IdleOK' /\ RemoveOK' /\ InsertOK' /\ RebuildOK' /\ BuiltOK' /\ DoneOK' /\ DroppedOK'
  BY <1>1 DEF IdleOK, RemoveOK, InsertOK, RebuildOK, BuiltOK, DoneOK, DroppedOK
<1> QED  BY <1>2, <1>3, <1>4, <1>5 DEF IInv

LEMMA EndOrderStep == IInv /\ EndOrder => IInv'
<1> SUFFICES ASSUME IInv, EndOrder PROVE IInv'
  OBVIOUS
<1>0. Before' = Before /\ After' = After /\ Base' = Base
  BY SidesStay DEF EndOrder, lists
<1> USE <1>0
<1>1. /\ pc = "order" /\ n' = 1 /\ pred' = [k \in DOMAIN new |-> 0]
      /\ pc' \in {"tails", "rebuild"} /\ (pc' = "rebuild" => form = "list")
      /\ UNCHANGED <<lists, match, tails, keep, tree, start>>
  BY DEF EndOrder
<1>2. ValueOK' /\ CountOK'
  BY <1>1, ListFacts DEF IInv, ValueOK, CountOK, Loops, lists, match, tree
<1>3. StartOK' /\ UntouchedOK' /\ ShownOK'
  <2>1. \A k \in DOMAIN new : newToOld[k] # 0 => newToOld[k] \in DOMAIN old
    BY ListFacts DEF IInv, MatchOK
  <2> QED  BY <1>1, <2>1 DEF IInv, StartOK, UntouchedOK, ShownOK, Framed, WidgetOf, Displays, lists, tree, match
<1>4. MatchOK'
  BY <1>1 DEF IInv, MatchOK, lists, match
<1>5. KeepOK'
  BY <1>1, EmptySeq, ListFacts DEF IInv, KeepOK, Increasing, lists, match
<1>6. RebuildOK'
  <2> SUFFICES ASSUME pc' = "rebuild" PROVE RebuildOK'
    BY DEF RebuildOK
  <2>1. form = "list" /\ Base = 0 /\ After = <<>>
    <3>1. form = "list" /\ form \in Forms
      BY <1>1 DEF IInv, ValueOK
    <3> QED  BY <3>1, NoSides, "list" # "slot"
  <2>2. start \in Seq(Widget) /\ Len(start) = Len(old) /\ children = start /\ result = <<>>
    BY <1>1, <2>1, ListFacts DEF IInv, StartOK, UntouchedOK, Framed
  <2>3. start = [o \in DOMAIN old |-> WidgetOf(o)]
    BY <2>1, <2>2, ListFacts, LenProperties DEF WidgetOf
  <2> QED  BY <1>1, <2>1, <2>2, <2>3, EmptySeq DEF IInv, UntouchedOK, RebuildOK, lists, tree, WidgetOf
<1>7. BuiltOK'
  BY <1>1 DEF BuiltOK, BuiltUpTo
<1>8. IdleOK' /\ RemoveOK' /\ InsertOK' /\ DoneOK' /\ DroppedOK'
  BY <1>1 DEF IdleOK, RemoveOK, InsertOK, DoneOK, DroppedOK
<1> QED  BY <1>2, <1>3, <1>4, <1>5, <1>6, <1>7, <1>8 DEF IInv

-----------------------------------------------------------------------------
(* ComputeKeepInPlace keeps the invariant.                                 *)

LEMMA PlaceTailStep == IInv /\ PlaceTail => IInv'
<1> SUFFICES ASSUME IInv, PlaceTail PROVE IInv'
  OBVIOUS
<1>0. Before' = Before /\ After' = After /\ Base' = Base
  BY SidesStay DEF PlaceTail, lists
<1> USE <1>0
<1> USE DEF PlaceTail
<1>1. /\ pc = "tails" /\ pc' = "tails" /\ n' = n + 1 /\ n \in DOMAIN new /\ n \in Nat
      /\ newToOld[n] # 0
      /\ UNCHANGED <<lists, match, keep, tree, start>>
  BY ListFacts DEF IInv, ValueOK, CountOK
<1>2. PICK p \in Pile(newToOld[n]) :
        /\ pred' = [pred EXCEPT ![n] = IF p > 1 THEN tails[p - 1] ELSE 0]
        /\ tails' = IF p > Len(tails) THEN Append(tails, n) ELSE [tails EXCEPT ![p] = n]
  OBVIOUS
<1>3. ValueOK' /\ CountOK' /\ MatchOK'
  BY <1>1, ListFacts DEF IInv, ValueOK, CountOK, MatchOK, lists, match, tree
<1>4. StartOK' /\ UntouchedOK' /\ ShownOK'
  BY <1>1 DEF IInv, StartOK, UntouchedOK, ShownOK, Framed, WidgetOf, Displays, lists, tree
<1>5. KeepOK'
  <2>1. /\ tails \in Seq(DOMAIN new) /\ DOMAIN pred = DOMAIN new
        /\ newToOld \in [DOMAIN new -> 0..Len(old)]
        /\ \A q \in DOMAIN tails : newToOld[tails[q]] # 0 /\ tails[q] < n
        /\ keep = {}
    BY <1>1 DEF IInv, KeepOK, MatchOK
  <2>2. /\ DOMAIN new = 1..Len(new) /\ Len(new) \in Nat /\ Len(old) \in Nat
        /\ DOMAIN tails = 1..Len(tails) /\ Len(tails) \in Nat
        /\ \A q \in DOMAIN tails : tails[q] \in DOMAIN new
    BY <2>1, ListFacts, LenProperties DEF IInv
  <2>3. /\ p \in 1..Len(tails) + 1
        /\ \A q \in DOMAIN tails : q < p => newToOld[tails[q]] < newToOld[n]
    <3>1. /\ p \in {q \in DOMAIN tails : newToOld[tails[q]] >= newToOld[n]} \union {Len(tails) + 1}
          /\ \A q \in DOMAIN tails : newToOld[tails[q]] >= newToOld[n] => p <= q
      BY <1>2 DEF Pile, Least
    <3>2. \A q \in DOMAIN tails : newToOld[tails[q]] \in Nat
      BY <2>1, <2>2
    <3>3. p \in 1..Len(tails) + 1 /\ newToOld[n] \in Nat
      BY <1>1, <2>1, <2>2, <3>1
    <3> QED  BY <2>2, <3>1, <3>2, <3>3
  <2>4. /\ tails' \in Seq(DOMAIN new)
        /\ \A q \in DOMAIN tails' : tails'[q] = n \/ (q \in DOMAIN tails /\ tails'[q] = tails[q])
    <3>1. CASE p > Len(tails)
      <4>1. tails' = Append(tails, n)
        BY <1>2, <3>1
      <4>2. tails \in Seq(DOMAIN new) /\ n \in DOMAIN new
        BY <1>1, <2>1
      <4> DEFINE T == tails'
      <4>3. T = Append(tails, n)
        BY <4>1
      <4> HIDE DEF T
      <4>4. /\ T \in Seq(DOMAIN new)
            /\ \A q \in DOMAIN T : T[q] = n \/ (q \in DOMAIN tails /\ T[q] = tails[q])
        BY <4>2, <4>3, PushFacts
      <4> QED  BY <4>4 DEF T
    <3>2. CASE p <= Len(tails)
      <4>1. p \in 1..Len(tails) /\ ~(p > Len(tails))
        BY <2>2, <2>3, <3>2
      <4>2. tails' = [tails EXCEPT ![p] = n]
        BY <1>2, <4>1
      <4>3. tails \in Seq(DOMAIN new) /\ n \in DOMAIN new
        BY <1>1, <2>1
      <4> QED  BY <4>1, <4>2, <4>3, ReplaceFacts
    <3> QED  BY <2>2, <2>3, <3>1, <3>2
  <2>5. pred'[n] \in 0..n - 1 /\ (pred'[n] # 0 => newToOld[pred'[n]] \in 1..newToOld[n] - 1)
    <3>1. CASE p > 1
      <4>1. p - 1 \in DOMAIN tails /\ p - 1 < p
        BY <2>2, <2>3, <3>1
      <4>2. pred'[n] = tails[p - 1]
        BY <1>1, <1>2, <2>1, <3>1
      <4>3. tails[p - 1] \in DOMAIN new /\ tails[p - 1] < n
        BY <2>1, <2>2, <4>1
      <4>4. newToOld[tails[p - 1]] # 0 /\ newToOld[tails[p - 1]] < newToOld[n]
        BY <2>1, <2>3, <4>1
      <4> QED  BY <1>1, <2>1, <2>2, <4>2, <4>3, <4>4
    <3>2. CASE ~(p > 1)
      BY <1>1, <1>2, <2>1, <3>2
    <3> QED  BY <3>1, <3>2
  <2>6. /\ DOMAIN pred' = DOMAIN new'
        /\ \A k \in DOMAIN pred' :
              /\ k \in DOMAIN new' /\ pred'[k] \in 0..k - 1
              /\ pred'[k] # 0 => newToOld'[pred'[k]] \in 1..newToOld'[k] - 1
    <3>1. \A k \in DOMAIN pred :
            /\ pred[k] \in 0..k - 1
            /\ pred[k] # 0 => newToOld[pred[k]] \in 1..newToOld[k] - 1
      BY DEF IInv, KeepOK
    <3> QED  BY <1>1, <1>2, <2>1, <2>5, <3>1 DEF lists, match
  <2>7. \A q \in DOMAIN tails' : newToOld'[tails'[q]] # 0 /\ tails'[q] < n'
    BY <1>1, <2>1, <2>2, <2>4 DEF match
  <2> QED  BY <1>1, <2>1, <2>4, <2>6, <2>7 DEF KeepOK, Increasing, lists
<1>6. IdleOK' /\ RemoveOK' /\ InsertOK' /\ RebuildOK' /\ BuiltOK' /\ DoneOK' /\ DroppedOK'
  BY <1>1 DEF IdleOK, RemoveOK, InsertOK, RebuildOK, BuiltOK, DoneOK, DroppedOK
<1> QED  BY <1>3, <1>4, <1>5, <1>6 DEF IInv

LEMMA SkipUnmatchedStep == IInv /\ SkipUnmatched => IInv'
<1> SUFFICES ASSUME IInv, SkipUnmatched PROVE IInv'
  OBVIOUS
<1>0. Before' = Before /\ After' = After /\ Base' = Base
  BY SidesStay DEF SkipUnmatched, lists
<1> USE <1>0
<1> USE DEF SkipUnmatched
<1>1. /\ pc = "tails" /\ pc' = "tails" /\ n' = n + 1 /\ n <= Len(new) /\ n \in Nat
      /\ UNCHANGED <<lists, match, lis, tree, start>>
  BY DEF IInv, ValueOK
<1>2. ValueOK' /\ CountOK' /\ MatchOK'
  BY <1>1, ListFacts DEF IInv, ValueOK, CountOK, MatchOK, lists, match, tree
<1>3. StartOK' /\ UntouchedOK' /\ ShownOK'
  BY <1>1 DEF IInv, StartOK, UntouchedOK, ShownOK, Framed, WidgetOf, Displays, lists, tree
<1>4. KeepOK'
  <2>1. tails \in Seq(DOMAIN new) /\ \A p \in DOMAIN tails : tails[p] \in Nat
    BY ListFacts, ElementOfSeq, LenProperties DEF IInv, KeepOK
  <2> QED  BY <1>1, <2>1 DEF IInv, KeepOK, Increasing, lists, lis, match
<1>5. IdleOK' /\ RemoveOK' /\ InsertOK' /\ RebuildOK' /\ BuiltOK' /\ DoneOK' /\ DroppedOK'
  BY <1>1 DEF IdleOK, RemoveOK, InsertOK, RebuildOK, BuiltOK, DoneOK, DroppedOK
<1> QED  BY <1>2, <1>3, <1>4, <1>5 DEF IInv

LEMMA EndTailsStep == IInv /\ EndTails => IInv'
<1> SUFFICES ASSUME IInv, EndTails PROVE IInv'
  OBVIOUS
<1>0. Before' = Before /\ After' = After /\ Base' = Base
  BY SidesStay DEF EndTails, lists
<1> USE <1>0
<1>1. /\ pc = "tails" /\ pc' = "walk"
      /\ cursor' = IF tails = <<>> THEN 0 ELSE Last(tails)
      /\ UNCHANGED <<lists, n, newToOld, lis, tree, start>>
  BY DEF EndTails
<1>2. /\ tails \in Seq(DOMAIN new) /\ keep = {} /\ DOMAIN pred = DOMAIN new
      /\ \A p \in DOMAIN tails : newToOld[tails[p]] # 0
  BY <1>1 DEF IInv, KeepOK
<1>3. cursor' # 0 => cursor' \in DOMAIN new /\ newToOld[cursor'] # 0
  <2>1. CASE tails # <<>>
    <3>1. PICK q \in DOMAIN tails : Last(tails) = tails[q]
      BY <1>2, <2>1, LastFacts
    <3>2. tails[q] \in DOMAIN new
      BY <1>2, ElementOfSeq, LenProperties
    <3>3. cursor' = tails[q]
      BY <1>1, <2>1, <3>1
    <3> QED  BY <1>2, <3>1, <3>2, <3>3, Zenon
  <2>2. CASE tails = <<>>
    BY <1>1, <2>2
  <2> QED  BY <2>1, <2>2
<1>4. ValueOK' /\ CountOK' /\ MatchOK'
  BY <1>1, <1>3, ListFacts DEF IInv, ValueOK, CountOK, MatchOK, Loops, lists, tree
<1>5. StartOK' /\ UntouchedOK' /\ ShownOK'
  BY <1>1 DEF IInv, StartOK, UntouchedOK, ShownOK, Framed, WidgetOf, Displays, lists, tree
<1>6. KeepOK'
  BY <1>1, <1>2, <1>3 DEF IInv, KeepOK, Increasing, lists, lis
<1>7. IdleOK' /\ RemoveOK' /\ InsertOK' /\ RebuildOK' /\ BuiltOK' /\ DoneOK' /\ DroppedOK'
  BY <1>1 DEF IdleOK, RemoveOK, InsertOK, RebuildOK, BuiltOK, DoneOK, DroppedOK
<1> QED  BY <1>4, <1>5, <1>6, <1>7 DEF IInv

LEMMA WalkBackStep == IInv /\ WalkBack => IInv'
<1> SUFFICES ASSUME IInv, WalkBack PROVE IInv'
  OBVIOUS
<1>0. Before' = Before /\ After' = After /\ Base' = Base
  BY SidesStay DEF WalkBack, lists
<1> USE <1>0
<1>1. /\ pc = "walk" /\ pc' = "walk" /\ cursor # 0
      /\ keep' = keep \union {cursor} /\ cursor' = pred[cursor]
      /\ UNCHANGED <<lists, n, newToOld, tails, pred, tree, start>>
  BY DEF WalkBack
<1>2. /\ cursor \in DOMAIN new /\ newToOld[cursor] # 0 /\ DOMAIN pred = DOMAIN new
      /\ newToOld \in [DOMAIN new -> 0..Len(old)]
      /\ \A k \in keep : k \in DOMAIN new /\ newToOld[k] # 0
      /\ \A k \in keep : cursor < k /\ newToOld[cursor] < newToOld[k]
  BY <1>1 DEF IInv, KeepOK, MatchOK
<1>3. /\ pred[cursor] \in 0..cursor - 1
      /\ pred[cursor] # 0 => newToOld[pred[cursor]] \in 1..newToOld[cursor] - 1
  BY <1>2 DEF IInv, KeepOK
<1>4. DOMAIN new = 1..Len(new) /\ Len(new) \in Nat /\ Len(old) \in Nat
  BY ListFacts DEF IInv
<1>5. ValueOK' /\ CountOK' /\ MatchOK'
  BY <1>1, <1>2, <1>3, <1>4 DEF IInv, ValueOK, CountOK, MatchOK, lists, tree
<1>6. StartOK' /\ UntouchedOK' /\ ShownOK'
  BY <1>1 DEF IInv, StartOK, UntouchedOK, ShownOK, Framed, WidgetOf, Displays, lists, tree
<1>7. Increasing(keep')
  BY <1>1, <1>2, <1>4 DEF IInv, KeepOK, Increasing
<1>8. cursor' # 0 =>
        /\ cursor' \in DOMAIN new /\ newToOld[cursor'] # 0
        /\ \A k \in keep' : cursor' < k /\ newToOld[cursor'] < newToOld[k]
  <2> SUFFICES ASSUME cursor' # 0
               PROVE  /\ cursor' \in DOMAIN new /\ newToOld[cursor'] # 0
                      /\ \A k \in keep' : cursor' < k /\ newToOld[cursor'] < newToOld[k]
    OBVIOUS
  <2>1. cursor' \in DOMAIN new /\ cursor' < cursor
    BY <1>1, <1>2, <1>3, <1>4
  <2>2. newToOld[cursor'] \in 1..newToOld[cursor] - 1
    BY <1>1, <1>3
  <2> QED  BY <1>1, <1>2, <1>4, <2>1, <2>2
<1>9. KeepOK'
  BY <1>1, <1>2, <1>7, <1>8 DEF IInv, KeepOK, Increasing, lists
<1>10. IdleOK' /\ RemoveOK' /\ InsertOK' /\ RebuildOK' /\ BuiltOK' /\ DoneOK' /\ DroppedOK'
  BY <1>1 DEF IdleOK, RemoveOK, InsertOK, RebuildOK, BuiltOK, DoneOK, DroppedOK
<1> QED  BY <1>5, <1>6, <1>9, <1>10 DEF IInv

LEMMA EndWalkStep == IInv /\ EndWalk => IInv'
<1> SUFFICES ASSUME IInv, EndWalk PROVE IInv'
  OBVIOUS
<1>0. Before' = Before /\ After' = After /\ Base' = Base
  BY SidesStay DEF EndWalk, lists
<1> USE <1>0
<1>1. /\ pc = "walk" /\ pc' = "remove" /\ n' = Len(old)
      /\ UNCHANGED <<lists, match, lis, tree, start>>
  BY DEF EndWalk
<1>2. ValueOK' /\ CountOK' /\ MatchOK'
  BY <1>1, ListFacts DEF IInv, ValueOK, CountOK, MatchOK, Loops, lists, match, tree
<1>3. StartOK' /\ ShownOK'
  BY <1>1 DEF IInv, StartOK, ShownOK, Framed, WidgetOf, Displays, lists, tree
<1>4. KeepOK'
  BY <1>1 DEF IInv, KeepOK, Increasing, lists, lis, match
<1>5. RemoveOK'
  <2>1. /\ children = start /\ result = <<>> /\ unmounted = {}
        /\ moved = [o \in DOMAIN old |-> NoWidget]
        /\ Framed(start) /\ Len(start) = Base + Len(old) + Len(After)
        /\ DOMAIN old = 1..Len(old) /\ Len(old) \in Nat /\ Base \in Nat /\ Len(After) \in Nat
    BY <1>1, ListFacts DEF IInv, UntouchedOK, StartOK
  <2>2. KeptBetween(Len(old) + 1, Len(old)) = 0
    <3>1. Len(old) + 1 \in Nat /\ Len(old) \in Nat /\ Len(old) < Len(old) + 1
      BY <2>1
    <3> QED  BY <3>1, CountNone DEF KeptBetween
  <2>3. \A o \in KeptOld : ~(o > Len(old))
    <3>1. \A k \in keep : newToOld[k] \in 0..Len(old)
      BY DEF IInv, KeepOK, MatchOK
    <3> QED  BY <2>1, <3>1 DEF KeptOld
  <2>4. moved = [o \in DOMAIN old |->
              IF o > Len(old) /\ o \in Matched \ KeptOld THEN WidgetOf(o) ELSE NoWidget]
    BY <2>1
  <2>5. {WidgetOf(o) : o \in {p \in DOMAIN old : p > Len(old) /\ p \notin Matched}} = {}
    BY <2>1
  <2>6. /\ children' = start /\ start' = start /\ result' = <<>> /\ unmounted' = {} /\ moved' = moved
        /\ old' = old /\ KeptOld' = KeptOld /\ Matched' = Matched
        /\ \A o : WidgetOf(o)' = WidgetOf(o)
        /\ \A a, b : KeptBetween(a, b)' = KeptBetween(a, b)
    BY <1>1, <2>1 DEF KeptBetween, lists, match, lis, tree, KeptOld, Matched, WidgetOf
  <2>7. /\ children' \in Seq(Widget)
        /\ Len(children') = Base + Len(old) + 0 + Len(After)
        /\ \A i \in 1..Base + Len(old) : children'[i] = start[i]
        /\ \A i \in 1..Len(After) : children'[Len(children') - Len(After) + i] = After[i]
    <3>1. start \in Seq(Widget) /\ \A i \in 1..Len(After) : start[Len(start) - Len(After) + i] = After[i]
      BY <2>1 DEF Framed
    <3>2. /\ Len(start) = Base + Len(old) + 0 + Len(After)
          /\ \A i \in 1..Base + Len(old) : start[i] = start[i]
      BY <2>1
    <3>3. children' = start
      BY <2>6
    <3> QED  BY <3>1, <3>2, <3>3, Zenon
  <2> QED  BY <1>1, <2>1, <2>2, <2>3, <2>4, <2>5, <2>6, <2>7 DEF RemoveOK, Removed
<1>6. IdleOK' /\ UntouchedOK' /\ InsertOK' /\ RebuildOK' /\ BuiltOK' /\ DoneOK' /\ DroppedOK'
  BY <1>1 DEF IdleOK, UntouchedOK, InsertOK, RebuildOK, BuiltOK, DoneOK, DroppedOK
<1> QED  BY <1>2, <1>3, <1>4, <1>5, <1>6 DEF IInv

-----------------------------------------------------------------------------
(* The remove loop keeps the invariant.                                    *)

LEMMA KeptFacts ==
    ASSUME NEW a \in Nat, NEW b \in Nat
    PROVE  /\ KeptBetween(a, b) \in Nat
           /\ b < a => KeptBetween(a, b) = 0
           /\ a <= b => KeptBetween(a, b) =
                 IF a \in KeptOld THEN 1 + KeptBetween(a + 1, b) ELSE KeptBetween(a + 1, b)
           /\ \A c \in Nat : b <= c => KeptBetween(a, b) <= KeptBetween(a, c)
           /\ a <= b /\ b \in KeptOld => KeptBetween(a, b) >= 1
<1>1. KeptBetween(a, b) \in Nat
  BY RangeFinite DEF KeptBetween
<1>2. b < a => KeptBetween(a, b) = 0
  BY CountNone DEF KeptBetween
<1>3. a <= b => KeptBetween(a, b) =
         IF a \in KeptOld THEN 1 + KeptBetween(a + 1, b) ELSE KeptBetween(a + 1, b)
  BY CountFirst DEF KeptBetween
<1>4. \A c \in Nat : b <= c => KeptBetween(a, b) <= KeptBetween(a, c)
  BY CountGrows DEF KeptBetween
<1>5. a <= b /\ b \in KeptOld => KeptBetween(a, b) >= 1
  BY CountSome, a <= b => b \in a..b DEF KeptBetween
<1> QED  BY <1>1, <1>2, <1>3, <1>4, <1>5

\* What all three branches know of the loop.
LEMMA RemoveFacts ==
    ASSUME IInv, pc = "remove"
    PROVE  /\ n \in Nat /\ n <= Len(old) /\ n + 1 \in Nat
           /\ DOMAIN old = 1..Len(old) /\ Len(old) \in Nat /\ Base \in Nat /\ Len(After) \in Nat
           /\ KeptOld \subseteq Matched /\ KeptOld \subseteq DOMAIN old
           /\ children \in Seq(Widget) /\ Len(children) \in Nat
           /\ Len(children) = Base + n + KeptBetween(n + 1, Len(old)) + Len(After)
           /\ KeptBetween(n + 1, Len(old)) \in Nat
<1>1. n \in Nat /\ n \in 0..Len(old)
  BY DEF IInv, ValueOK, CountOK
<1>2. KeptOld \subseteq Matched
  BY DEF IInv, KeepOK, KeptOld, Matched, MatchOK
<1>3. Matched \subseteq DOMAIN old
  BY ListFacts DEF IInv, MatchOK, Matched
<1>4. n + 1 \in Nat /\ n <= Len(old)
  BY <1>1, ListFacts DEF IInv
<1>5. KeptBetween(n + 1, Len(old)) \in Nat
  BY <1>4, ListFacts, KeptFacts DEF IInv
<1>6. children \in Seq(Widget) /\ Len(children) = Base + n + KeptBetween(n + 1, Len(old)) + Len(After)
  BY DEF IInv, RemoveOK, Removed
<1>7. Len(children) \in Nat
  BY <1>6, LenProperties
<1> QED  BY <1>1, <1>2, <1>3, <1>4, <1>5, <1>6, <1>7, ListFacts DEF IInv

LEMMA StayStep == IInv /\ Stay => IInv'
<1> SUFFICES ASSUME IInv, Stay PROVE IInv'
  OBVIOUS
<1>0. Before' = Before /\ After' = After /\ Base' = Base
  BY SidesStay DEF Stay, lists
<1> USE <1>0
<1>1. /\ pc = "remove" /\ pc' = "remove" /\ n > 0 /\ n \in KeptOld /\ n' = n - 1
      /\ UNCHANGED <<lists, match, lis, tree, start>>
  BY DEF Stay
<1>2. ValueOK' /\ CountOK' /\ MatchOK'
  BY <1>1, RemoveFacts DEF IInv, ValueOK, CountOK, MatchOK, lists, match, tree
<1>3. StartOK' /\ ShownOK'
  BY <1>1 DEF IInv, StartOK, ShownOK, Framed, WidgetOf, Displays, lists, tree
<1>4. KeepOK'
  BY <1>1 DEF IInv, KeepOK, Increasing, lists, lis, match
<1>5. RemoveOK'
  <2>1. /\ n \in Nat /\ n <= Len(old) /\ Len(old) \in Nat /\ DOMAIN old = 1..Len(old)
        /\ Base \in Nat /\ Len(After) \in Nat
    BY <1>1, RemoveFacts
  <2>2. /\ \A i \in 1..Base + n : children[i] = start[i]
        /\ \A o \in KeptOld : o > n => children[Base + n + KeptBetween(n + 1, o)] = WidgetOf(o)
        /\ moved = [o \in DOMAIN old |->
              IF o > n /\ o \in Matched \ KeptOld THEN WidgetOf(o) ELSE NoWidget]
        /\ unmounted = {WidgetOf(o) : o \in {p \in DOMAIN old : p > n /\ p \notin Matched}}
    BY <1>1 DEF IInv, RemoveOK, Removed
  <2>3. Len(children) = Base + (n - 1) + KeptBetween(n, Len(old)) + Len(After)
    <3>1. KeptBetween(n, Len(old)) = 1 + KeptBetween(n + 1, Len(old))
      BY <1>1, <2>1, KeptFacts
    <3> QED  BY <1>1, <2>1, <3>1, RemoveFacts
  <2>4. \A i \in 1..Base + (n - 1) : children[i] = start[i]
    BY <2>1, <2>2
  <2>5. ASSUME NEW o \in KeptOld, o > n - 1
        PROVE  children[Base + (n - 1) + KeptBetween(n, o)] = WidgetOf(o)
    <3>1. o \in Nat
      BY <1>1, <2>1, RemoveFacts
    <3>2. CASE o = n
      <4>1. KeptBetween(n, n) = 1
        BY <1>1, <2>1, CountOne DEF KeptBetween
      <4> QED  BY <1>1, <2>1, <2>2, <3>2, <4>1 DEF WidgetOf
    <3>3. CASE o > n
      <4>1. KeptBetween(n, o) = 1 + KeptBetween(n + 1, o) /\ KeptBetween(n + 1, o) \in Nat
        BY <1>1, <2>1, <3>1, <3>3, KeptFacts, n + 1 \in Nat
      <4>2. Base + (n - 1) + KeptBetween(n, o) = Base + n + KeptBetween(n + 1, o)
        BY <2>1, <4>1
      <4> QED  BY <2>2, <3>3, <4>2
    <3> QED  BY <2>1, <2>5, <3>1, <3>2, <3>3
  <2>6. \A o \in DOMAIN old : o # n => (o > n <=> o > n - 1)
    BY <2>1
  <2>7. moved = [o \in DOMAIN old |->
              IF o > n - 1 /\ o \in Matched \ KeptOld THEN WidgetOf(o) ELSE NoWidget]
    BY <1>1, <2>2, <2>6
  <2>8. unmounted = {WidgetOf(o) : o \in {p \in DOMAIN old : p > n - 1 /\ p \notin Matched}}
    <3>1. n \in Matched
      BY <1>1, RemoveFacts
    <3>2. {p \in DOMAIN old : p > n - 1 /\ p \notin Matched} = {p \in DOMAIN old : p > n /\ p \notin Matched}
      BY <2>6, <3>1
    <3> QED  BY <2>2, <3>2
  <2>9. /\ children \in Seq(Widget) /\ n - 1 + 1 = n
        /\ \A i \in 1..Len(After) : children[Len(children) - Len(After) + i] = After[i]
    BY <1>1, <2>1 DEF IInv, RemoveOK, Removed
  <2>10. /\ children' = children /\ start' = start /\ result' = <<>> /\ unmounted' = unmounted /\ moved' = moved
        /\ old' = old /\ KeptOld' = KeptOld /\ Matched' = Matched
        /\ \A o : WidgetOf(o)' = WidgetOf(o)
        /\ \A a, b : KeptBetween(a, b)' = KeptBetween(a, b)
    BY <1>1 DEF IInv, RemoveOK, Removed, lists, match, lis, tree, KeptOld, Matched, KeptBetween, WidgetOf
  <2>11. n' = n - 1 /\ n' + 1 = n
    BY <1>1, <2>1
  <2>12. \A o \in KeptOld : o > n' => children[Base + n' + KeptBetween(n' + 1, o)] = WidgetOf(o)
    BY <2>5, <2>11
  <2>13. (\A o \in KeptOld : o > n => children[Base + n + KeptBetween(n + 1, o)] = WidgetOf(o))'
    BY <2>10, <2>12
  <2>14. (Len(children) = Base + n + KeptBetween(n + 1, Len(old)) + Len(After))'
    BY <2>3, <2>10, <2>11
  <2> QED  BY <1>1, <2>4, <2>7, <2>8, <2>9, <2>10, <2>11, <2>13, <2>14 DEF RemoveOK, Removed
<1>6. IdleOK' /\ UntouchedOK' /\ InsertOK' /\ RebuildOK' /\ BuiltOK' /\ DoneOK' /\ DroppedOK'
  BY <1>1 DEF IdleOK, UntouchedOK, InsertOK, RebuildOK, BuiltOK, DoneOK, DroppedOK
<1> QED  BY <1>2, <1>3, <1>4, <1>5, <1>6 DEF IInv

\* Taking the child of old entry n out.
LEMMA RemoveSplice ==
    ASSUME IInv, pc = "remove", n > 0, n \notin KeptOld, n' = n - 1,
           children' = RemoveAt(children, Base + n), UNCHANGED <<lists, newToOld, keep, start>>
    PROVE  /\ Removed'
           /\ children[Base + n] = WidgetOf(n) /\ WidgetOf(n) \in Widget
<1>0. Before' = Before /\ After' = After /\ Base' = Base
  BY SidesStay DEF lists
<1> USE <1>0
<1> DEFINE c == RemoveAt(children, Base + n)
<1>1. /\ n \in Nat /\ n <= Len(old) /\ Len(old) \in Nat /\ DOMAIN old = 1..Len(old)
      /\ Base \in Nat /\ Len(After) \in Nat /\ Len(children) \in Nat
      /\ children \in Seq(Widget)
      /\ Len(children) = Base + n + KeptBetween(n + 1, Len(old)) + Len(After)
      /\ KeptBetween(n + 1, Len(old)) \in Nat
  BY RemoveFacts
<1>2. Base + n \in 1..Len(children)
  BY <1>1
<1>3. /\ c \in Seq(Widget) /\ Len(c) = Len(children) - 1
      /\ \A j \in 1..Len(children) - 1 : c[j] = IF j < Base + n THEN children[j] ELSE children[j + 1]
  BY <1>1, <1>2, RemoveAtFacts
<1> HIDE DEF c
<1>4. /\ \A i \in 1..Base + n : children[i] = start[i]
      /\ \A o \in KeptOld : o > n => children[Base + n + KeptBetween(n + 1, o)] = WidgetOf(o)
      /\ \A i \in 1..Len(After) : children[Len(children) - Len(After) + i] = After[i]
  BY DEF IInv, RemoveOK, Removed
<1>5. /\ old' = old /\ KeptOld' = KeptOld /\ start' = start /\ children' = c
      /\ \A o : WidgetOf(o)' = WidgetOf(o)
      /\ \A a, b : KeptBetween(a, b)' = KeptBetween(a, b)
  BY DEF lists, KeptOld, KeptBetween, WidgetOf, c
<1>6. n' = n - 1 /\ n' + 1 = n /\ n' \in Nat
  BY <1>1
<1>7. \A b \in Nat : n <= b => KeptBetween(n, b) = KeptBetween(n + 1, b)
  BY <1>1, KeptFacts
<1>8. (Len(children) = Base + n + KeptBetween(n + 1, Len(old)) + Len(After))'
  BY <1>1, <1>3, <1>5, <1>6, <1>7
<1>9. \A i \in 1..Base + n' : c[i] = start[i]
  <2> SUFFICES ASSUME NEW i \in 1..Base + n' PROVE c[i] = start[i]
    OBVIOUS
  <2>1. i < Base + n /\ i \in 1..Len(children) - 1 /\ i \in 1..Base + n
    BY <1>1, <1>6
  <2> QED  BY <1>3, <1>4, <2>1
<1>10. ASSUME NEW o \in KeptOld, o > n'
       PROVE  c[Base + n' + KeptBetween(n' + 1, o)] = WidgetOf(o)
  <2>1. o \in Nat /\ o <= Len(old) /\ o > n
    <3>1. o \in DOMAIN old
      BY RemoveFacts
    <3> QED  BY <1>1, <1>6, <1>10, <3>1
  <2>2. /\ KeptBetween(n + 1, o) \in Nat /\ KeptBetween(n + 1, o) >= 1
        /\ KeptBetween(n + 1, o) <= KeptBetween(n + 1, Len(old))
    BY <1>1, <2>1, KeptFacts, n + 1 \in Nat
  <2>3. KeptBetween(n' + 1, o) = KeptBetween(n + 1, o)
    BY <1>1, <1>6, <1>7, <2>1
  <2> DEFINE j == Base + n' + KeptBetween(n' + 1, o)
  <2>4. j \in 1..Len(children) - 1 /\ ~(j < Base + n) /\ j + 1 = Base + n + KeptBetween(n + 1, o)
    BY <1>1, <1>6, <2>2, <2>3
  <2>5. c[j] = children[j + 1]
    BY <1>3, <2>4
  <2> QED  BY <1>4, <2>1, <2>4, <2>5
<1>11. (\A o \in KeptOld : o > n => children[Base + n + KeptBetween(n + 1, o)] = WidgetOf(o))'
  BY <1>5, <1>10
<1>12. ASSUME NEW i \in 1..Len(After)
       PROVE  c[Len(c) - Len(After) + i] = After[i]
  <2> DEFINE j == Base + n - 1 + KeptBetween(n + 1, Len(old)) + i
  <2>6. Len(c) = Base + n - 1 + KeptBetween(n + 1, Len(old)) + Len(After)
    <3>1. Len(c) = Len(children) - 1
      BY <1>3
    <3> QED  BY <1>1, <3>1
  <2>1. j = Len(c) - Len(After) + i
    BY <1>1, <2>6
  <2>5. j + 1 = Len(children) - Len(After) + i
    BY <1>1
  <2>2. j \in Nat /\ j >= Base + n /\ j <= Len(children) - 1
    BY <1>1
  <2>3. j \in 1..Len(children) - 1 /\ ~(j < Base + n)
    BY <1>1, <2>2
  <2>4. c[j] = children[j + 1]
    BY <1>3, <2>3
  <2> QED  BY <1>4, <2>1, <2>4, <2>5
<1>13. children[Base + n] = WidgetOf(n) /\ WidgetOf(n) \in Widget
  BY <1>1, <1>2, <1>4, ElementOfSeq DEF WidgetOf
<1> QED  BY <1>3, <1>5, <1>8, <1>9, <1>11, <1>12, <1>13 DEF Removed

LEMMA TakeOutStep == IInv /\ TakeOut => IInv'
<1> SUFFICES ASSUME IInv, TakeOut PROVE IInv'
  OBVIOUS
<1>0. Before' = Before /\ After' = After /\ Base' = Base
  BY SidesStay DEF TakeOut, lists
<1> USE <1>0
<1>1. /\ pc = "remove" /\ pc' = "remove" /\ n > 0 /\ n \in Matched \ KeptOld /\ n' = n - 1
      /\ children' = RemoveAt(children, Base + n)
      /\ moved' = [moved EXCEPT ![n] = children[Base + n]]
      /\ UNCHANGED <<lists, match, lis, result, shows, unmounted, start>>
  BY DEF TakeOut
<1>2. ValueOK' /\ CountOK' /\ MatchOK'
  BY <1>1, RemoveFacts DEF IInv, ValueOK, CountOK, MatchOK, lists, match
<1>3. StartOK' /\ ShownOK'
  BY <1>1 DEF IInv, StartOK, ShownOK, Framed, WidgetOf, Displays, lists
<1>4. KeepOK'
  BY <1>1 DEF IInv, KeepOK, Increasing, lists, lis, match
<1>5. RemoveOK'
  <2>1. Removed' /\ children[Base + n] = WidgetOf(n)
    BY <1>1, RemoveSplice DEF match, lis
  <2>2. /\ n \in Nat /\ n <= Len(old) /\ DOMAIN old = 1..Len(old) /\ Len(old) \in Nat
        /\ moved = [o \in DOMAIN old |->
              IF o > n /\ o \in Matched \ KeptOld THEN WidgetOf(o) ELSE NoWidget]
        /\ unmounted = {WidgetOf(o) : o \in {p \in DOMAIN old : p > n /\ p \notin Matched}}
        /\ result = <<>>
    BY <1>1, RemoveFacts DEF IInv, RemoveOK
  <2>3. \A o \in DOMAIN old : o # n => (o > n <=> o > n - 1)
    BY <2>2
  <2>4. n > n - 1 /\ n \in DOMAIN old
    BY <1>1, <2>2
  <2>5. moved' = [o \in DOMAIN old |->
              IF o > n - 1 /\ o \in Matched \ KeptOld THEN WidgetOf(o) ELSE NoWidget]
    BY <1>1, <2>1, <2>2, <2>3, <2>4
  <2>6. {p \in DOMAIN old : p > n - 1 /\ p \notin Matched} = {p \in DOMAIN old : p > n /\ p \notin Matched}
    BY <1>1, <2>3
  <2>7. /\ old' = old /\ KeptOld' = KeptOld /\ Matched' = Matched /\ result' = result /\ unmounted' = unmounted
        /\ \A o : WidgetOf(o)' = WidgetOf(o)
    BY <1>1 DEF lists, match, lis, KeptOld, Matched, WidgetOf
  <2> QED  BY <1>1, <2>1, <2>2, <2>5, <2>6, <2>7 DEF RemoveOK
<1>6. IdleOK' /\ UntouchedOK' /\ InsertOK' /\ RebuildOK' /\ BuiltOK' /\ DoneOK' /\ DroppedOK'
  BY <1>1 DEF IdleOK, UntouchedOK, InsertOK, RebuildOK, BuiltOK, DoneOK, DroppedOK
<1> QED  BY <1>2, <1>3, <1>4, <1>5, <1>6 DEF IInv

LEMMA DropStep == IInv /\ Drop => IInv'
<1> SUFFICES ASSUME IInv, Drop PROVE IInv'
  OBVIOUS
<1>0. Before' = Before /\ After' = After /\ Base' = Base
  BY SidesStay DEF Drop, lists
<1> USE <1>0
<1>1. /\ pc = "remove" /\ pc' = "remove" /\ n > 0 /\ n \notin Matched /\ n' = n - 1
      /\ children' = RemoveAt(children, Base + n)
      /\ unmounted' = unmounted \union {children[Base + n]}
      /\ UNCHANGED <<lists, match, lis, moved, result, shows, start>>
  BY DEF Drop
<1>2. ValueOK' /\ CountOK' /\ MatchOK'
  BY <1>1, RemoveFacts DEF IInv, ValueOK, CountOK, MatchOK, lists, match
<1>3. StartOK' /\ ShownOK'
  BY <1>1 DEF IInv, StartOK, ShownOK, Framed, WidgetOf, Displays, lists
<1>4. KeepOK'
  BY <1>1 DEF IInv, KeepOK, Increasing, lists, lis, match
<1>5. RemoveOK'
  <2>1. Removed' /\ children[Base + n] = WidgetOf(n)
    BY <1>1, RemoveSplice, RemoveFacts DEF match, lis
  <2>2. /\ n \in Nat /\ n <= Len(old) /\ DOMAIN old = 1..Len(old) /\ Len(old) \in Nat
        /\ moved = [o \in DOMAIN old |->
              IF o > n /\ o \in Matched \ KeptOld THEN WidgetOf(o) ELSE NoWidget]
        /\ unmounted = {WidgetOf(o) : o \in {p \in DOMAIN old : p > n /\ p \notin Matched}}
        /\ result = <<>>
    BY <1>1, RemoveFacts DEF IInv, RemoveOK
  <2>3. \A o \in DOMAIN old : o # n => (o > n <=> o > n - 1)
    BY <2>2
  <2>4. n > n - 1 /\ n \in DOMAIN old
    BY <1>1, <2>2
  <2>5. moved = [o \in DOMAIN old |->
              IF o > n - 1 /\ o \in Matched \ KeptOld THEN WidgetOf(o) ELSE NoWidget]
    BY <1>1, <2>2, <2>3
  <2>6. {p \in DOMAIN old : p > n - 1 /\ p \notin Matched} = {p \in DOMAIN old : p > n /\ p \notin Matched} \union {n}
    BY <1>1, <2>3, <2>4
  <2>7. unmounted' = {WidgetOf(o) : o \in {p \in DOMAIN old : p > n - 1 /\ p \notin Matched}}
    BY <1>1, <2>1, <2>2, <2>6
  <2>8. /\ old' = old /\ KeptOld' = KeptOld /\ Matched' = Matched /\ result' = result /\ moved' = moved
        /\ \A o : WidgetOf(o)' = WidgetOf(o)
    BY <1>1 DEF lists, match, lis, KeptOld, Matched, WidgetOf
  <2> QED  BY <1>1, <2>1, <2>2, <2>5, <2>7, <2>8 DEF RemoveOK
<1>6. IdleOK' /\ UntouchedOK' /\ InsertOK' /\ RebuildOK' /\ BuiltOK' /\ DoneOK' /\ DroppedOK'
  BY <1>1 DEF IdleOK, UntouchedOK, InsertOK, RebuildOK, BuiltOK, DoneOK, DroppedOK
<1> QED  BY <1>2, <1>3, <1>4, <1>5, <1>6 DEF IInv

-----------------------------------------------------------------------------
(* Between the loops: the kept widgets counted by old and by new position. *)

\* The match sends the kept entries up to m to the kept ones up to b.
LEMMA KeptAsStay ==
    ASSUME IInv, NEW m \in Nat, NEW b \in Nat,
           \A k \in keep : k <= m <=> newToOld[k] <= b
    PROVE  KeptBetween(1, b) = StayBetween(1, m)
<1> DEFINE S == keep \intersect (1..m)
           T == KeptOld \intersect (1..b)
           f == [k \in S |-> newToOld[k]]
<1>1. /\ keep \subseteq DOMAIN new /\ DOMAIN new = 1..Len(new) /\ Len(new) \in Nat
      /\ \A k \in keep : newToOld[k] \in 1..Len(old)
      /\ Len(old) \in Nat
      /\ \A j, k \in keep : newToOld[j] = newToOld[k] => j = k
  BY ListFacts DEF IInv, KeepOK, MatchOK
<1>2. f \in [S -> T]
  BY <1>1 DEF KeptOld
<1>3. IsInjective(f)
  BY <1>1 DEF IsInjective
<1>4. \A o \in T : \E k \in S : f[k] = o
  <2> SUFFICES ASSUME NEW o \in T PROVE \E k \in S : f[k] = o
    OBVIOUS
  <2>1. PICK k \in keep : newToOld[k] = o
    BY DEF KeptOld
  <2>2. k <= m /\ k \in 1..m
    BY <1>1, <2>1
  <2> QED  BY <2>1, <2>2
<1>5. f \in Bijection(S, T)
  BY <1>2, <1>3, <1>4 DEF Bijection, Injection, Surjection
<1>6. IsFiniteSet(S)
  BY RangeFinite
<1> HIDE DEF f
<1>7. ExistsBijection(S, T)
  BY <1>5 DEF ExistsBijection
<1>8. Cardinality(T) = Cardinality(S)
  BY <1>6, <1>7, FS_Bijection
<1> QED  BY <1>8 DEF KeptBetween, StayBetween

LEMMA EndRemoveStep == IInv /\ EndRemove => IInv'
<1> SUFFICES ASSUME IInv, EndRemove PROVE IInv'
  OBVIOUS
<1>0. Before' = Before /\ After' = After /\ Base' = Base
  BY SidesStay DEF EndRemove, lists
<1> USE <1>0
<1>1. /\ pc = "remove" /\ pc' = "insert" /\ n = 0 /\ n' = 1
      /\ UNCHANGED <<lists, match, lis, tree, start>>
  BY DEF EndRemove
<1>2. ValueOK' /\ CountOK' /\ MatchOK'
  BY <1>1, ListFacts DEF IInv, ValueOK, CountOK, MatchOK, Loops, lists, match, tree
<1>3. StartOK' /\ ShownOK'
  <2>1. \A k \in DOMAIN new : newToOld[k] # 0 => newToOld[k] \in DOMAIN old
    BY ListFacts DEF IInv, MatchOK
  <2> QED  BY <1>1, <2>1 DEF IInv, StartOK, ShownOK, Framed, WidgetOf, Displays, lists, tree, match
<1>4. KeepOK'
  BY <1>1 DEF IInv, KeepOK, Increasing, lists, lis, match
<1>5. /\ Len(new) \in Nat /\ Len(old) \in Nat /\ DOMAIN new = 1..Len(new) /\ DOMAIN old = 1..Len(old)
      /\ Base \in Nat /\ Len(After) \in Nat
      /\ \A k \in keep : k \in DOMAIN new /\ newToOld[k] \in 1..Len(old)
      /\ \A j, k \in keep : j < k => newToOld[j] < newToOld[k]
  BY ListFacts DEF IInv, KeepOK, MatchOK, Increasing
<1>6. /\ children \in Seq(Widget)
      /\ Len(children) = Base + 0 + KeptBetween(0 + 1, Len(old)) + Len(After)
      /\ \A i \in 1..Base + 0 : children[i] = start[i]
      /\ \A o \in KeptOld : o > 0 => children[Base + 0 + KeptBetween(0 + 1, o)] = WidgetOf(o)
      /\ \A i \in 1..Len(After) : children[Len(children) - Len(After) + i] = After[i]
  BY <1>1 DEF IInv, RemoveOK, Removed
<1>7. /\ moved = [o \in DOMAIN old |->
              IF o > 0 /\ o \in Matched \ KeptOld THEN WidgetOf(o) ELSE NoWidget]
      /\ unmounted = {WidgetOf(o) : o \in {p \in DOMAIN old : p > 0 /\ p \notin Matched}}
      /\ result = <<>>
  BY <1>1 DEF IInv, RemoveOK
<1>8. /\ children' = children /\ start' = start /\ result' = result /\ moved' = moved /\ unmounted' = unmounted
      /\ old' = old /\ new' = new /\ newToOld' = newToOld /\ keep' = keep /\ Matched' = Matched
      /\ \A o : WidgetOf(o)' = WidgetOf(o)
      /\ \A a, b : StayBetween(a, b)' = StayBetween(a, b)
  BY <1>1 DEF lists, match, lis, tree, Matched, StayBetween, WidgetOf
<1>9. InsertOK'
  <2>1. Len(children) = Base + 1 - 1 + StayBetween(1, Len(new)) + Len(After)
    <3>1. KeptBetween(1, Len(old)) = StayBetween(1, Len(new))
      <4>1. \A k \in keep : k <= Len(new) <=> newToOld[k] <= Len(old)
        BY <1>5
      <4> QED  BY <1>5, <4>1, KeptAsStay
    <3> QED  BY <1>5, <1>6, <3>1
  <2>2. ASSUME NEW k \in keep
        PROVE  children[Base + 1 - 1 + StayBetween(1, k)] = WidgetOf(newToOld[k])
    <3>1. KeptBetween(1, newToOld[k]) = StayBetween(1, k)
      <4>1. \A j \in keep : j <= k <=> newToOld[j] <= newToOld[k]
        <5> TAKE j \in keep
        <5>1. j \in Nat /\ k \in Nat /\ newToOld[j] \in Nat /\ newToOld[k] \in Nat
          BY <1>5
        <5>2. j < k => newToOld[j] < newToOld[k]
          BY <1>5
        <5>3. k < j => newToOld[k] < newToOld[j]
          BY <1>5
        <5> QED  BY <5>1, <5>2, <5>3
      <4>2. k \in Nat /\ newToOld[k] \in Nat
        BY <1>5
      <4> QED  BY <4>1, <4>2, KeptAsStay
    <3>2. newToOld[k] \in KeptOld /\ newToOld[k] > 0
      BY <1>5 DEF KeptOld
    <3>3. children[Base + 0 + KeptBetween(0 + 1, newToOld[k])] = WidgetOf(newToOld[k])
      BY <1>6, <3>2
    <3>4. Base + 0 = Base /\ Base + 1 - 1 = Base
      BY <1>5
    <3> QED  BY <3>1, <3>3, <3>4
  <2>3. moved = [o \in DOMAIN old |->
              IF \E k \in DOMAIN new \ keep : k >= 1 /\ newToOld[k] = o THEN WidgetOf(o) ELSE NoWidget]
    <3>1. ASSUME NEW o \in DOMAIN old
          PROVE  (o > 0 /\ o \in Matched \ KeptOld) <=>
                 (\E k \in DOMAIN new \ keep : k >= 1 /\ newToOld[k] = o)
      <4>1. o > 0 /\ o # 0 /\ DOMAIN newToOld = DOMAIN new
        BY <1>5 DEF IInv, MatchOK
      <4>2. \A j, k \in DOMAIN new : newToOld[j] = o /\ newToOld[k] = o => j = k
        BY <4>1 DEF IInv, MatchOK
      <4> QED  BY <1>5, <4>1, <4>2 DEF Matched, KeptOld
    <3> QED  BY <1>7, <3>1
  <2>4. \A i \in 1..Base : children[i] = start[i]
    BY <1>5, <1>6
  <2>5. Inserted'
    BY <1>1, <1>6, <1>8, <2>1, <2>2, <2>4 DEF Inserted
  <2> QED  BY <1>1, <1>7, <1>8, <2>3, <2>5 DEF InsertOK
<1>10. DroppedOK'
  <2>1. {p \in DOMAIN old : p > 0 /\ p \notin Matched} = DOMAIN old \ Matched
    BY <1>5
  <2> QED  BY <1>7, <1>8, <2>1 DEF DroppedOK
<1>11. BuiltOK'
  BY <1>1 DEF BuiltOK, BuiltUpTo
<1>12. IdleOK' /\ UntouchedOK' /\ RemoveOK' /\ RebuildOK' /\ DoneOK'
  BY <1>1 DEF IdleOK, UntouchedOK, RemoveOK, RebuildOK, DoneOK
<1> QED  BY <1>2, <1>3, <1>4, <1>9, <1>10, <1>11, <1>12 DEF IInv

-----------------------------------------------------------------------------
(* The insert loop keeps the invariant.                                    *)

LEMMA StayFacts ==
    ASSUME NEW a \in Nat, NEW b \in Nat
    PROVE  /\ StayBetween(a, b) \in Nat
           /\ b < a => StayBetween(a, b) = 0
           /\ a <= b => StayBetween(a, b) =
                 IF a \in keep THEN 1 + StayBetween(a + 1, b) ELSE StayBetween(a + 1, b)
           /\ \A c \in Nat : b <= c => StayBetween(a, b) <= StayBetween(a, c)
           /\ a <= b /\ b \in keep => StayBetween(a, b) >= 1
<1>1. StayBetween(a, b) \in Nat
  BY RangeFinite DEF StayBetween
<1>2. b < a => StayBetween(a, b) = 0
  BY CountNone DEF StayBetween
<1>3. a <= b => StayBetween(a, b) =
         IF a \in keep THEN 1 + StayBetween(a + 1, b) ELSE StayBetween(a + 1, b)
  BY CountFirst DEF StayBetween
<1>4. \A c \in Nat : b <= c => StayBetween(a, b) <= StayBetween(a, c)
  BY CountGrows DEF StayBetween
<1>5. a <= b /\ b \in keep => StayBetween(a, b) >= 1
  BY CountSome, a <= b => b \in a..b DEF StayBetween
<1> QED  BY <1>1, <1>2, <1>3, <1>4, <1>5

\* The widgets of different old entries differ.
LEMMA WidgetFacts ==
    ASSUME IInv, pc # "idle"
    PROVE  /\ \A o \in DOMAIN old : WidgetOf(o) \in Widget /\ WidgetOf(o) \in Range(start)
           /\ \A o, p \in DOMAIN old : WidgetOf(o) = WidgetOf(p) => o = p
           /\ \A k \in DOMAIN new : newToOld[k] # 0 => newToOld[k] \in DOMAIN old
           /\ \A j, k \in DOMAIN new : newToOld[j] # 0 /\ newToOld[j] = newToOld[k] => j = k
<1>1. /\ start \in Seq(Widget) /\ IsInjective(start) /\ Len(start) = Base + Len(old) + Len(After)
      /\ DOMAIN old = 1..Len(old) /\ Len(old) \in Nat /\ Base \in Nat /\ Len(After) \in Nat
  BY ListFacts DEF IInv, StartOK, Framed
<1>2. DOMAIN start = 1..Len(start)
  BY <1>1, LenProperties
<1>3. \A o \in DOMAIN old : Base + o \in DOMAIN start
  BY <1>1, <1>2
<1>4. \A o \in DOMAIN old : WidgetOf(o) \in Widget /\ WidgetOf(o) \in Range(start)
  BY <1>1, <1>2, <1>3, ElementOfSeq DEF WidgetOf, Range
<1>5. \A o, p \in DOMAIN old : WidgetOf(o) = WidgetOf(p) => o = p
  <2> TAKE o, p \in DOMAIN old
  <2>1. WidgetOf(o) = WidgetOf(p) => Base + o = Base + p
    BY <1>1, <1>3 DEF WidgetOf, IsInjective
  <2> QED  BY <1>1, <2>1
<1>6. \A k \in DOMAIN new : newToOld[k] # 0 => newToOld[k] \in DOMAIN old
  BY ListFacts DEF IInv, MatchOK
<1>7. \A j, k \in DOMAIN new : newToOld[j] # 0 /\ newToOld[j] = newToOld[k] => j = k
  BY DEF IInv, MatchOK
<1> QED  BY <1>4, <1>5, <1>6, <1>7

\* One more new entry has its widget, whether it is found or mounted.
LEMMA BuiltGrows ==
    ASSUME IInv, pc \in {"insert", "rebuild"}, NEW m \in DOMAIN new, m = n, n' = m + 1, pc' = pc,
           UNCHANGED <<lists, newToOld, start>>,
           NEW w \in Widget,
           \A k \in 1..m - 1 : Built(k)' = Built(k),
           Built(m)' = w, Displays(w, new[m])',
           \A v, f : v # w /\ Displays(v, f) => Displays(v, f)',
           IF newToOld[m] # 0 THEN w = WidgetOf(newToOld[m])
           ELSE w \notin Range(start) /\ \A k \in 1..m - 1 : Built(k) # w
    PROVE  BuiltOK' /\ ShownOK'
<1>0. Before' = Before /\ After' = After /\ Base' = Base
  BY SidesStay DEF lists
<1> USE <1>0
<1>1. /\ \A k \in 1..m - 1 : Displays(Built(k), new[k])
      /\ \A k \in 1..m - 1 :
            IF newToOld[k] # 0 THEN Built(k) = WidgetOf(newToOld[k]) ELSE Built(k) \notin Range(start)
      /\ \A j, k \in 1..m - 1 : Built(j) = Built(k) => j = k
  BY DEF IInv, BuiltOK, BuiltUpTo
<1>2. /\ \A o \in DOMAIN old : WidgetOf(o) \in Widget /\ WidgetOf(o) \in Range(start)
      /\ \A o, p \in DOMAIN old : WidgetOf(o) = WidgetOf(p) => o = p
      /\ \A k \in DOMAIN new : newToOld[k] # 0 => newToOld[k] \in DOMAIN old
      /\ \A j, k \in DOMAIN new : newToOld[j] # 0 /\ newToOld[j] = newToOld[k] => j = k
  BY WidgetFacts
<1>3. /\ DOMAIN new = 1..Len(new) /\ Len(new) \in Nat /\ m \in Nat
      /\ \A k \in 1..m - 1 : k \in DOMAIN new /\ k # m
      /\ \A k \in 1..m : k \in 1..m - 1 \/ k = m
  BY ListFacts DEF IInv
<1>4. \A k \in DOMAIN new : k # m /\ newToOld[k] # 0 => WidgetOf(newToOld[k]) # w
  BY <1>2
<1>5. \A k \in 1..m - 1 : Built(k) # w
  BY <1>1, <1>2, <1>3, <1>4
<1>6. /\ new' = new /\ newToOld' = newToOld /\ start' = start /\ old' = old
      /\ \A o : WidgetOf(o)' = WidgetOf(o)
  BY DEF lists, WidgetOf
<1>7. (\A k \in 1..m : Displays(Built(k), new[k]))'
  <2> SUFFICES ASSUME NEW k \in 1..m PROVE Displays(Built(k), new[k])'
    OBVIOUS
  <2>1. CASE k = m
    BY <2>1 DEF Displays
  <2>2. CASE k \in 1..m - 1
    <3>1. Built(k)' = Built(k) /\ Displays(Built(k), new[k]) /\ Built(k) # w
      BY <1>1, <1>5, <2>2
    <3>2. PICK v, e : v = Built(k) /\ e = new[k]
      OBVIOUS
    <3>3. Displays(v, e)'
      BY <3>1, <3>2
    <3>4. Built(k)' = v /\ new'[k] = e
      BY <1>6, <3>1, <3>2
    <3> QED  BY <3>3, <3>4 DEF Displays
  <2> QED  BY <1>3, <2>1, <2>2
<1>8. (\A k \in 1..m :
         IF newToOld[k] # 0 THEN Built(k) = WidgetOf(newToOld[k]) ELSE Built(k) \notin Range(start))'
  <2> SUFFICES ASSUME NEW k \in 1..m
               PROVE  IF newToOld[k] # 0 THEN Built(k)' = WidgetOf(newToOld[k]) ELSE Built(k)' \notin Range(start)
    BY <1>6
  <2> QED  BY <1>1, <1>3
<1>9. (\A j, k \in 1..m : Built(j) = Built(k) => j = k)'
  <2> SUFFICES ASSUME NEW j \in 1..m, NEW k \in 1..m, Built(j)' = Built(k)' PROVE j = k
    OBVIOUS
  <2> QED  BY <1>1, <1>3, <1>5
<1>10. BuiltOK'
  <2>1. BuiltUpTo(m)'
    BY <1>7, <1>8, <1>9 DEF BuiltUpTo
  <2>2. n' - 1 = m /\ pc' # "done"
    BY <1>3
  <2> QED  BY <2>1, <2>2 DEF BuiltOK, BuiltUpTo
<1>11. ShownOK'
  <2>1. ASSUME NEW k \in DOMAIN new, k >= m + 1, newToOld[k] # 0
        PROVE  Displays(WidgetOf(newToOld[k]), old[newToOld[k]])'
    <3>1. k # m /\ k >= n
      BY <1>3, <2>1
    <3>2. PICK v, e : v = WidgetOf(newToOld[k]) /\ e = old[newToOld[k]]
      OBVIOUS
    <3>3. Displays(v, e) /\ v # w
      BY <1>4, <2>1, <3>1, <3>2 DEF IInv, ShownOK
    <3>4. Displays(v, e)'
      BY <3>3
    <3>5. WidgetOf(newToOld[k])' = v /\ old'[newToOld'[k]] = e
      BY <1>6, <3>2
    <3> QED  BY <3>4, <3>5 DEF Displays
  <2> QED  BY <1>6, <2>1 DEF ShownOK
<1> QED  BY <1>10, <1>11

\* What all three branches know of the loop.
LEMMA InsertFacts ==
    ASSUME IInv, pc = "insert", n <= Len(new)
    PROVE  /\ n \in Nat /\ n \in DOMAIN new /\ n + 1 \in Nat
           /\ DOMAIN new = 1..Len(new) /\ Len(new) \in Nat /\ Base \in Nat /\ Len(After) \in Nat
           /\ old \in Seq(Component) /\ new \in Seq(Component)
           /\ keep \subseteq DOMAIN new
           /\ children \in Seq(Widget) /\ Len(children) \in Nat
           /\ Len(children) = Base + n - 1 + StayBetween(n, Len(new)) + Len(After)
           /\ StayBetween(n, Len(new)) \in Nat
<1>1. n \in Nat /\ n \in 1..Len(new) + 1 /\ keep \subseteq DOMAIN new
  BY DEF IInv, ValueOK, CountOK, KeepOK
<1>2. n \in DOMAIN new /\ n + 1 \in Nat
  BY <1>1, ListFacts DEF IInv
<1>3. StayBetween(n, Len(new)) \in Nat
  BY <1>1, ListFacts, StayFacts DEF IInv
<1>4. children \in Seq(Widget) /\ Len(children) = Base + n - 1 + StayBetween(n, Len(new)) + Len(After)
  BY DEF IInv, InsertOK, Inserted
<1>5. Len(children) \in Nat
  BY <1>4, LenProperties
<1> QED  BY <1>1, <1>2, <1>3, <1>4, <1>5, ListFacts DEF IInv

\* ReconcileMatchedInPlace is told of the entry whose widget it gets.
LEMMA MatchedFacts ==
    ASSUME IInv, pc \in {"insert", "rebuild"}, NEW m \in DOMAIN new, m = n, newToOld[m] # 0,
           NEW w, w = WidgetOf(newToOld[m]),
           shows' = Applied(w, old[newToOld[m]], new[m]), UNCHANGED lists
    PROVE  /\ w \in Widget
           /\ shows' \in [Widget -> Component]
           /\ Displays(w, new[m])'
           /\ \A v, f : v # w /\ Displays(v, f) => Displays(v, f)'
<1>1. newToOld[m] \in DOMAIN old /\ w \in Widget
  BY WidgetFacts
<1>2. PICK o, e : o = old[newToOld[m]] /\ e = new[m]
  OBVIOUS
<1>3. o \in Component /\ e \in Component
  BY <1>1, <1>2, ListFacts, ElementOfSeq DEF IInv
<1>4. Displays(w, o)
  <2>1. m >= n
    BY ListFacts DEF IInv
  <2> QED  BY <1>2, <2>1 DEF IInv, ShownOK
<1>5. SameIdentity(o, e)
  BY <1>2 DEF IInv, MatchOK
<1>6. shows \in [Widget -> Component]
  BY DEF IInv, ValueOK
<1>7. shows' = Applied(w, o, e)
  BY <1>2
<1>8. /\ shows' \in [Widget -> Component]
      /\ Displays(w, e)'
      /\ \A v, f : v # w /\ Displays(v, f) => Displays(v, f)'
  BY <1>1, <1>3, <1>4, <1>5, <1>6, <1>7, AppliedFacts
<1>9. new'[m] = e
  BY <1>2 DEF lists
<1> QED  BY <1>1, <1>8, <1>9 DEF Displays

LEMMA UpdateInPlaceStep == IInv /\ UpdateInPlace => IInv'
<1> SUFFICES ASSUME IInv, UpdateInPlace PROVE IInv'
  OBVIOUS
<1>0. Before' = Before /\ After' = After /\ Base' = Base
  BY SidesStay DEF UpdateInPlace, lists
<1> USE <1>0
<1>1. /\ pc = "insert" /\ pc' = "insert" /\ n <= Len(new) /\ n \in keep /\ n' = n + 1
      /\ shows' = Applied(children[Base + n], old[newToOld[n]], new[n])
      /\ UNCHANGED <<lists, match, lis, children, moved, result, unmounted, start>>
  BY DEF UpdateInPlace
<1>2. /\ n \in Nat /\ n \in DOMAIN new /\ n + 1 \in Nat
      /\ DOMAIN new = 1..Len(new) /\ Len(new) \in Nat /\ Base \in Nat /\ Len(After) \in Nat
      /\ keep \subseteq DOMAIN new /\ newToOld[n] # 0
  BY <1>1, InsertFacts DEF IInv, KeepOK
<1>3. /\ children \in Seq(Widget)
      /\ Len(children) = Base + n - 1 + StayBetween(n, Len(new)) + Len(After)
      /\ \A i \in 1..Base : children[i] = start[i]
      /\ \A k \in keep : k >= n => children[Base + n - 1 + StayBetween(n, k)] = WidgetOf(newToOld[k])
      /\ \A i \in 1..Len(After) : children[Len(children) - Len(After) + i] = After[i]
  BY <1>1 DEF IInv, InsertOK, Inserted
<1>4. PICK w, m : w = children[Base + n] /\ m = n
  OBVIOUS
<1>5. w = WidgetOf(newToOld[m])
  <2>1. StayBetween(n, n) = 1
    BY <1>1, <1>2, CountOne DEF StayBetween
  <2>2. n >= n /\ Base + n - 1 + 1 = Base + n
    BY <1>2
  <2> QED  BY <1>1, <1>3, <1>4, <2>1, <2>2
<1>6. /\ w \in Widget
      /\ shows' \in [Widget -> Component]
      /\ Displays(w, new[m])'
      /\ \A v, f : v # w /\ Displays(v, f) => Displays(v, f)'
  BY <1>1, <1>2, <1>4, <1>5, MatchedFacts
<1>7. BuiltOK' /\ ShownOK'
  <2>1. /\ \A k \in 1..m - 1 : Built(k)' = Built(k)
        /\ Built(m)' = w
    BY <1>1, <1>4 DEF Built
  <2>2. m \in DOMAIN new /\ n' = m + 1 /\ newToOld[m] # 0 /\ UNCHANGED <<lists, newToOld, start>>
    BY <1>1, <1>2, <1>4 DEF match
  <2> QED  BY <1>1, <1>4, <1>5, <1>6, <2>1, <2>2, BuiltGrows
<1>8. ValueOK' /\ CountOK' /\ MatchOK'
  BY <1>1, <1>2, <1>6 DEF IInv, ValueOK, CountOK, MatchOK, lists, match
<1>9. StartOK' /\ KeepOK' /\ DroppedOK'
  BY <1>1 DEF IInv, StartOK, Framed, KeepOK, Increasing, DroppedOK, WidgetOf, Matched, lists, lis, match
<1>10. InsertOK'
  <2>1. /\ children' = children /\ start' = start /\ result' = result /\ moved' = moved
        /\ old' = old /\ new' = new /\ newToOld' = newToOld /\ keep' = keep
        /\ \A o : WidgetOf(o)' = WidgetOf(o)
        /\ \A a, b : StayBetween(a, b)' = StayBetween(a, b)
    BY <1>1 DEF lists, match, lis, StayBetween, WidgetOf
  <2>2. \A b \in Nat : n <= b =>
          /\ StayBetween(n, b) = 1 + StayBetween(n + 1, b)
          /\ StayBetween(n + 1, b) \in Nat
    <3> SUFFICES ASSUME NEW b \in Nat, n <= b
                 PROVE  /\ StayBetween(n, b) = 1 + StayBetween(n + 1, b)
                        /\ StayBetween(n + 1, b) \in Nat
      OBVIOUS
    <3>1. n \in Nat /\ n + 1 \in Nat /\ n \in keep /\ b \in Nat
      BY <1>1, <1>2
    <3>2. StayBetween(n + 1, b) \in Nat
      BY <3>1, StayFacts
    <3>3. StayBetween(n, b) = IF n \in keep THEN 1 + StayBetween(n + 1, b) ELSE StayBetween(n + 1, b)
      BY <3>1, StayFacts
    <3> QED  BY <3>1, <3>2, <3>3
  <2>3. Len(children) = Base + (n + 1) - 1 + StayBetween(n + 1, Len(new)) + Len(After)
    BY <1>1, <1>2, <1>3, <2>2
  <2>4. ASSUME NEW k \in keep, k >= n + 1
        PROVE  children[Base + (n + 1) - 1 + StayBetween(n + 1, k)] = WidgetOf(newToOld[k])
    <3>1. k \in Nat /\ n <= k /\ k >= n
      BY <1>2, <2>4
    <3>2. Base + (n + 1) - 1 + StayBetween(n + 1, k) = Base + n - 1 + StayBetween(n, k)
      BY <1>2, <2>2, <3>1
    <3> QED  BY <1>3, <3>1, <3>2
  <2>5. Inserted'
    BY <1>1, <1>3, <2>1, <2>3, <2>4 DEF Inserted
  <2>6. moved = [o \in DOMAIN old |->
              IF \E k \in DOMAIN new \ keep : k >= n + 1 /\ newToOld[k] = o THEN WidgetOf(o) ELSE NoWidget]
    <3>1. \A k \in DOMAIN new \ keep : k >= n <=> k >= n + 1
      BY <1>1, <1>2
    <3> QED  BY <1>1, <3>1 DEF IInv, InsertOK
  <2>7. result = <<>>
    BY <1>1 DEF IInv, InsertOK
  <2> QED  BY <1>1, <2>1, <2>5, <2>6, <2>7 DEF InsertOK
<1>11. IdleOK' /\ UntouchedOK' /\ RemoveOK' /\ RebuildOK' /\ DoneOK'
  BY <1>1 DEF IdleOK, UntouchedOK, RemoveOK, RebuildOK, DoneOK
<1> QED  BY <1>7, <1>8, <1>9, <1>10, <1>11 DEF IInv

\* Putting a widget in at the place of new entry n.
LEMMA InsertSplice ==
    ASSUME IInv, pc = "insert", n <= Len(new), n \notin keep, n' = n + 1, NEW w \in Widget,
           children' = InsertAt(children, Base + n, w), UNCHANGED <<lists, newToOld, keep, start>>
    PROVE  /\ Inserted'
           /\ children'[Base + n] = w
           /\ \A i \in 1..Base + n - 1 : i \in DOMAIN children /\ children'[i] = children[i]
<1>0. Before' = Before /\ After' = After /\ Base' = Base
  BY SidesStay DEF lists
<1> USE <1>0
<1> DEFINE c == InsertAt(children, Base + n, w)
<1>1. /\ n \in Nat /\ n \in DOMAIN new /\ n + 1 \in Nat
      /\ DOMAIN new = 1..Len(new) /\ Len(new) \in Nat /\ Base \in Nat /\ Len(After) \in Nat
      /\ keep \subseteq DOMAIN new
      /\ children \in Seq(Widget) /\ Len(children) \in Nat
      /\ Len(children) = Base + n - 1 + StayBetween(n, Len(new)) + Len(After)
      /\ StayBetween(n, Len(new)) \in Nat
  BY InsertFacts
<1>2. Base + n \in 1..Len(children) + 1
  BY <1>1
<1>3. /\ c \in Seq(Widget) /\ Len(c) = Len(children) + 1
      /\ \A j \in 1..Len(children) + 1 :
            c[j] = IF j < Base + n THEN children[j] ELSE IF j = Base + n THEN w ELSE children[j - 1]
  <2>1. PICK s, i : s = children /\ i = Base + n
    OBVIOUS
  <2>2. s \in Seq(Widget) /\ i \in 1..Len(s) + 1
    BY <1>1, <1>2, <2>1
  <2>3. PICK d : d = InsertAt(s, i, w)
    OBVIOUS
  <2>4. /\ d \in Seq(Widget) /\ Len(d) = Len(s) + 1
        /\ \A j \in 1..Len(s) + 1 :
              d[j] = IF j < i THEN s[j] ELSE IF j = i THEN w ELSE s[j - 1]
    BY <2>2, <2>3, InsertAtFacts, SMTT(30)
  <2>5. d = c
    BY <2>1, <2>3
  <2> QED
    <3> HIDE DEF c
    <3> QED  BY <2>1, <2>4, <2>5
<1> HIDE DEF c
<1>4. /\ \A i \in 1..Base : children[i] = start[i]
      /\ \A k \in keep : k >= n => children[Base + n - 1 + StayBetween(n, k)] = WidgetOf(newToOld[k])
      /\ \A i \in 1..Len(After) : children[Len(children) - Len(After) + i] = After[i]
  BY DEF IInv, InsertOK, Inserted
<1>5. /\ new' = new /\ newToOld' = newToOld /\ keep' = keep /\ start' = start /\ children' = c
      /\ \A o : WidgetOf(o)' = WidgetOf(o)
      /\ \A a, b : StayBetween(a, b)' = StayBetween(a, b)
  BY DEF lists, StayBetween, WidgetOf, c
<1>6. \A b \in Nat : n <= b => StayBetween(n, b) = StayBetween(n + 1, b)
  BY <1>1, StayFacts
<1>7. (Len(children) = Base + n - 1 + StayBetween(n, Len(new)) + Len(After))'
  <2>1. Len(c) = Base + (n + 1) - 1 + StayBetween(n + 1, Len(new)) + Len(After)
    <3>1. StayBetween(n, Len(new)) = StayBetween(n + 1, Len(new))
      BY <1>1, <1>6
    <3>2. Len(c) = Len(children) + 1
      BY <1>3
    <3> QED  BY <1>1, <3>1, <3>2
  <2> QED  BY <1>5, <2>1
<1>8. ASSUME NEW i \in 1..Base + n - 1
      PROVE  i \in DOMAIN children /\ c[i] = children[i]
  <2>1. i < Base + n /\ i \in 1..Len(children) /\ i \in 1..Len(children) + 1
    BY <1>1
  <2>2. DOMAIN children = 1..Len(children)
    BY <1>1, LenProperties
  <2> QED  BY <1>3, <2>1, <2>2
<1>9. c[Base + n] = w
  BY <1>1, <1>2, <1>3
<1>10. \A i \in 1..Base : c[i] = start[i]
  <2> TAKE i \in 1..Base
  <2>1. i \in 1..Base + n - 1
    BY <1>1
  <2> QED  BY <1>4, <1>8, <2>1
<1>11. ASSUME NEW k \in keep, k >= n + 1
       PROVE  c[Base + (n + 1) - 1 + StayBetween(n + 1, k)] = WidgetOf(newToOld[k])
  <2>1. k \in Nat /\ k <= Len(new) /\ k >= n /\ n <= k
    BY <1>1, <1>11
  <2>2. /\ StayBetween(n, k) \in Nat /\ StayBetween(n, k) >= 1
        /\ StayBetween(n, k) <= StayBetween(n, Len(new))
        /\ StayBetween(n + 1, k) = StayBetween(n, k)
    BY <1>1, <1>6, <2>1, StayFacts
  <2> DEFINE j == Base + n + StayBetween(n, k)
  <2>3. j \in 1..Len(children) + 1 /\ ~(j < Base + n) /\ j # Base + n /\ j - 1 = Base + n - 1 + StayBetween(n, k)
    BY <1>1, <2>2
  <2>4. c[j] = children[j - 1]
    BY <1>3, <2>3
  <2>5. Base + (n + 1) - 1 + StayBetween(n + 1, k) = j
    BY <1>1, <2>2
  <2>6. children[Base + n - 1 + StayBetween(n, k)] = WidgetOf(newToOld[k])
    BY <1>4, <2>1
  <2> QED  BY <2>3, <2>4, <2>5, <2>6
<1>12. ASSUME NEW i \in 1..Len(After)
       PROVE  c[Len(c) - Len(After) + i] = After[i]
  <2> DEFINE j == Base + n + StayBetween(n, Len(new)) + i
  <2>1. Len(c) = Base + n + StayBetween(n, Len(new)) + Len(After)
    <3>1. Len(c) = Len(children) + 1
      BY <1>3
    <3> QED  BY <1>1, <3>1, SMTT(30)
  <2>2. j = Len(c) - Len(After) + i
    BY <1>1, <2>1
  <2>3. j - 1 = Len(children) - Len(After) + i
    BY <1>1
  <2>4. j \in Nat /\ j > Base + n /\ j <= Len(children) + 1
    BY <1>1
  <2>5. j \in 1..Len(children) + 1 /\ ~(j < Base + n) /\ j # Base + n
    BY <1>1, <2>4
  <2>6. c[j] = children[j - 1]
    BY <1>3, <2>5
  <2> QED  BY <1>4, <2>2, <2>3, <2>6
<1> QED  BY <1>3, <1>5, <1>7, <1>8, <1>9, <1>10, <1>11, <1>12 DEF Inserted

LEMMA PutBackStep == IInv /\ PutBack => IInv'
<1> SUFFICES ASSUME IInv, PutBack PROVE IInv'
  OBVIOUS
<1>0. Before' = Before /\ After' = After /\ Base' = Base
  BY SidesStay DEF PutBack, lists
<1> USE <1>0
<1>1. /\ pc = "insert" /\ pc' = "insert" /\ n <= Len(new) /\ n \notin keep /\ newToOld[n] # 0 /\ n' = n + 1
      /\ shows' = Applied(moved[newToOld[n]], old[newToOld[n]], new[n])
      /\ children' = InsertAt(children, Base + n, moved[newToOld[n]])
      /\ moved' = [moved EXCEPT ![newToOld[n]] = NoWidget]
      /\ UNCHANGED <<lists, match, lis, result, unmounted, start>>
  BY DEF PutBack
<1>2. /\ n \in Nat /\ n \in DOMAIN new /\ n >= n /\ Base \in Nat
      /\ DOMAIN new = 1..Len(new) /\ Len(new) \in Nat
  BY <1>1, InsertFacts
<1>3. /\ \A k \in DOMAIN new : newToOld[k] # 0 => newToOld[k] \in DOMAIN old
      /\ \A j, k \in DOMAIN new : newToOld[j] # 0 /\ newToOld[j] = newToOld[k] => j = k
  BY <1>1, WidgetFacts
<1>4. moved = [o \in DOMAIN old |->
        IF \E k \in DOMAIN new \ keep : k >= n /\ newToOld[k] = o THEN WidgetOf(o) ELSE NoWidget]
  BY <1>1 DEF IInv, InsertOK
<1>5. PICK w, m : w = moved[newToOld[n]] /\ m = n
  OBVIOUS
<1>6. w = WidgetOf(newToOld[m])
  BY <1>1, <1>2, <1>3, <1>4, <1>5
<1>7. /\ w \in Widget
      /\ shows' \in [Widget -> Component]
      /\ Displays(w, new[m])'
      /\ \A v, f : v # w /\ Displays(v, f) => Displays(v, f)'
  BY <1>1, <1>2, <1>5, <1>6, MatchedFacts
<1>8. /\ Inserted'
      /\ children'[Base + m] = w
      /\ \A i \in 1..Base + m - 1 : i \in DOMAIN children /\ children'[i] = children[i]
  BY <1>1, <1>5, <1>7, InsertSplice DEF match, lis
<1>9. BuiltOK' /\ ShownOK'
  <2>1. \A k \in 1..m - 1 : Base + k \in 1..Base + m - 1
    BY <1>2, <1>5
  <2>2. /\ \A k \in 1..m - 1 : Built(k)' = Built(k)
        /\ Built(m)' = w
    BY <1>1, <1>8, <2>1 DEF Built
  <2>3. m \in DOMAIN new /\ n' = m + 1 /\ newToOld[m] # 0 /\ UNCHANGED <<lists, newToOld, start>>
    BY <1>1, <1>2, <1>5 DEF match
  <2> QED  BY <1>1, <1>5, <1>6, <1>7, <2>2, <2>3, BuiltGrows
<1>10. ValueOK' /\ CountOK' /\ MatchOK'
  BY <1>1, <1>2, <1>7 DEF IInv, ValueOK, CountOK, MatchOK, lists, match
<1>11. StartOK' /\ KeepOK' /\ DroppedOK'
  BY <1>1 DEF IInv, StartOK, Framed, KeepOK, Increasing, DroppedOK, WidgetOf, Matched, lists, lis, match
<1>12. InsertOK'
  <2>1. moved' = [o \in DOMAIN old |->
          IF \E k \in DOMAIN new \ keep : k >= n + 1 /\ newToOld[k] = o THEN WidgetOf(o) ELSE NoWidget]
    <3>1. ASSUME NEW o \in DOMAIN old, o # newToOld[n]
          PROVE  (\E k \in DOMAIN new \ keep : k >= n /\ newToOld[k] = o) <=>
                 (\E k \in DOMAIN new \ keep : k >= n + 1 /\ newToOld[k] = o)
      BY <1>2, <3>1
    <3>2. ~(\E k \in DOMAIN new \ keep : k >= n + 1 /\ newToOld[k] = newToOld[n])
      BY <1>1, <1>2, <1>3
    <3> QED  BY <1>1, <1>4, <3>1, <3>2
  <2>2. result' = <<>> /\ old' = old /\ new' = new /\ newToOld' = newToOld /\ keep' = keep
        /\ \A o : WidgetOf(o)' = WidgetOf(o)
    BY <1>1 DEF IInv, InsertOK, lists, match, lis, WidgetOf
  <2>3. pc' = "insert" /\ n' = n + 1
    BY <1>1
  <2>4. \A o : (\E k \in DOMAIN new \ keep : k >= n + 1 /\ newToOld[k] = o) <=>
                (\E k \in DOMAIN new \ keep : k >= n /\ newToOld[k] = o)'
    BY <2>2, <2>3
  <2>5. moved' = [o \in DOMAIN old |->
          IF (\E k \in DOMAIN new \ keep : k >= n /\ newToOld[k] = o)' THEN WidgetOf(o) ELSE NoWidget]
    BY <2>1, <2>4
  <2> QED  BY <1>8, <2>2, <2>3, <2>5 DEF InsertOK
<1>13. IdleOK' /\ UntouchedOK' /\ RemoveOK' /\ RebuildOK' /\ DoneOK'
  BY <1>1 DEF IdleOK, UntouchedOK, RemoveOK, RebuildOK, DoneOK
<1> QED  BY <1>9, <1>10, <1>11, <1>12, <1>13 DEF IInv

\* Without None entries, whatever is mounted is a widget.
LEMMA NoNone ==
    ASSUME NoneFree, ValueOK
    PROVE  \A k \in DOMAIN new : new[k].tag # None
BY DEF NoneFree, HasNone, ValueOK

LEMMA InsertFreshStep == NoneFree /\ IInv /\ InsertFresh => IInv'
<1> SUFFICES ASSUME NoneFree, IInv, InsertFresh PROVE IInv'
  OBVIOUS
<1>0. Before' = Before /\ After' = After /\ Base' = Base
  BY SidesStay DEF InsertFresh, lists
<1> USE <1>0
<1> USE DEF InsertFresh
<1>1. /\ n \in Nat /\ n \in DOMAIN new /\ n >= n /\ Base \in Nat
      /\ DOMAIN new = 1..Len(new) /\ Len(new) \in Nat /\ new[n] \in Component
  BY InsertFacts, ElementOfSeq
<1>2. /\ pc = "insert" /\ pc' = "insert" /\ n <= Len(new) /\ n \notin keep /\ newToOld[n] = 0 /\ n' = n + 1
      /\ Unused # {}
      /\ shows' = MountedAs(Fresh, new[n])
      /\ children' = InsertAt(children, Base + n, Fresh)
      /\ UNCHANGED <<lists, match, lis, moved, result, unmounted, start>>
  BY <1>1, NoNone DEF IInv
<1>3. PICK w, m, e : w = Fresh /\ m = n /\ e = new[m]
  OBVIOUS
<1>4. /\ w \in Widget /\ w \notin Range(start) /\ w \notin Range(children)
      /\ shows' \in [Widget -> Component] /\ shows'[w] = e
      /\ \A v, f : v # w /\ Displays(v, f) => Displays(v, f)'
  BY <1>1, <1>2, <1>3, FreshFacts DEF IInv, ValueOK
<1>5. Displays(w, new[m])'
  BY <1>2, <1>3, <1>4 DEF Displays, lists
<1>6. /\ Inserted'
      /\ children'[Base + m] = w
      /\ \A i \in 1..Base + m - 1 : i \in DOMAIN children /\ children'[i] = children[i]
  BY <1>2, <1>3, <1>4, InsertSplice DEF match, lis
<1>7. BuiltOK' /\ ShownOK'
  <2>1. \A k \in 1..m - 1 : Base + k \in 1..Base + m - 1
    BY <1>1, <1>3
  <2>2. /\ \A k \in 1..m - 1 : Built(k)' = Built(k)
        /\ Built(m)' = w
    BY <1>2, <1>6, <2>1 DEF Built
  <2>3. \A k \in 1..m - 1 : Built(k) # w
    BY <1>2, <1>4, <1>6, <2>1 DEF Built, Range
  <2>4. m \in DOMAIN new /\ n' = m + 1 /\ newToOld[m] = 0 /\ UNCHANGED <<lists, newToOld, start>>
    BY <1>1, <1>2, <1>3 DEF match
  <2> QED  BY <1>2, <1>3, <1>4, <1>5, <2>2, <2>3, <2>4, BuiltGrows
<1>8. ValueOK' /\ CountOK' /\ MatchOK'
  BY <1>1, <1>2, <1>4 DEF IInv, ValueOK, CountOK, MatchOK, lists, match
<1>9. StartOK' /\ KeepOK' /\ DroppedOK'
  BY <1>2 DEF IInv, StartOK, Framed, KeepOK, Increasing, DroppedOK, WidgetOf, Matched, lists, lis, match
<1>10. InsertOK'
  <2>1. moved = [o \in DOMAIN old |->
          IF \E k \in DOMAIN new \ keep : k >= n /\ newToOld[k] = o THEN WidgetOf(o) ELSE NoWidget]
    BY <1>2 DEF IInv, InsertOK
  <2>2. \A o \in DOMAIN old :
          (\E k \in DOMAIN new \ keep : k >= n /\ newToOld[k] = o) <=>
          (\E k \in DOMAIN new \ keep : k >= n + 1 /\ newToOld[k] = o)
    <3>1. \A o \in DOMAIN old : newToOld[n] # o
      BY <1>2, ListFacts DEF IInv
    <3> QED  BY <1>1, <3>1
  <2>3. result' = <<>> /\ old' = old /\ new' = new /\ newToOld' = newToOld /\ keep' = keep /\ moved' = moved
        /\ \A o : WidgetOf(o)' = WidgetOf(o)
    BY <1>2 DEF IInv, InsertOK, lists, match, lis, WidgetOf
  <2> QED  BY <1>2, <1>6, <2>1, <2>2, <2>3 DEF InsertOK
<1>11. IdleOK' /\ UntouchedOK' /\ RemoveOK' /\ RebuildOK' /\ DoneOK'
  BY <1>2 DEF IdleOK, UntouchedOK, RemoveOK, RebuildOK, DoneOK
<1> QED  BY <1>7, <1>8, <1>9, <1>10, <1>11 DEF IInv

\* All of the children are accounted for, each once.
LEMMA EndInsertFramed ==
    ASSUME IInv, pc = "insert", n > Len(new)
    PROVE  Framed(children) /\ Aligned(new) /\ BuiltUpTo(Len(new))
<1>1. /\ n = Len(new) + 1 /\ Len(new) \in Nat /\ DOMAIN new = 1..Len(new)
      /\ Len(old) \in Nat /\ DOMAIN old = 1..Len(old)
      /\ Base \in Nat /\ Len(After) \in Nat /\ n \in Nat
  BY ListFacts DEF IInv, CountOK
<1>2. /\ children \in Seq(Widget)
      /\ Len(children) = Base + Len(new) + Len(After)
      /\ \A i \in 1..Base : children[i] = start[i]
      /\ \A i \in 1..Len(After) : children[Len(children) - Len(After) + i] = After[i]
  <2>1. StayBetween(n, Len(new)) = 0
    BY <1>1, StayFacts
  <2>2. Inserted
    BY DEF IInv, InsertOK
  <2>3. Base + n - 1 + 0 + Len(After) = Base + Len(new) + Len(After)
    BY <1>1
  <2> QED  BY <2>1, <2>2, <2>3 DEF Inserted
<1>3. BuiltUpTo(Len(new))
  BY <1>1 DEF IInv, BuiltOK
<1>4. Aligned(new)
  BY <1>1, <1>2, <1>3 DEF Aligned, BuiltUpTo, Built
<1>5. /\ start \in Seq(Widget) /\ IsInjective(start) /\ Len(start) = Base + Len(old) + Len(After)
      /\ \A i \in 1..Base : start[i] = Before[i]
      /\ \A i \in 1..Len(After) : start[Len(start) - Len(After) + i] = After[i]
      /\ DOMAIN start = 1..Len(start) /\ DOMAIN children = 1..Len(children)
  BY <1>2, LenProperties DEF IInv, StartOK, Framed
\* Where a child outside the slot was when the call began.
<1> DEFINE From(i) == IF i <= Base THEN i ELSE (i - Len(new)) + Len(old)
           Outer == {i \in DOMAIN children : i <= Base \/ i > Base + Len(new)}
<1>6. ASSUME NEW i \in Outer
      PROVE  From(i) \in DOMAIN start /\ children[i] = start[From(i)] /\ ~(From(i) \in Base + 1..Base + Len(old))
  <2>1. CASE i <= Base
    BY <1>1, <1>2, <1>5, <2>1
  <2>2. CASE i > Base
    <3> DEFINE j == i - Base - Len(new)
    <3>1. i > Base + Len(new) /\ i <= Base + Len(new) + Len(After) /\ i \in Nat
      BY <1>1, <1>2, <1>5, <2>2
    <3>2. j \in 1..Len(After)
      BY <1>1, <3>1
    <3>3. children[Len(children) - Len(After) + j] = After[j] /\ start[Len(start) - Len(After) + j] = After[j]
      BY <1>2, <1>5, <3>2
    <3>4. Len(children) - Len(After) + j = i
      BY <1>1, <1>2, <3>1
    <3>5. From(i) = (i - Len(new)) + Len(old)
      BY <1>1, <2>2, <3>1
    <3>6. Len(start) = Base + Len(old) + Len(After)
      BY <1>5
    <3>7. /\ Base \in Nat /\ Len(After) \in Nat /\ Len(old) \in Nat /\ Len(new) \in Nat
      BY <1>1
    <3>8. Len(start) - Len(After) + j = From(i)
      BY <3>1, <3>5, <3>6, <3>7
    <3>9. From(i) \in 1..Len(start) /\ ~(From(i) \in Base + 1..Base + Len(old))
      BY <3>1, <3>5, <3>6, <3>7
    <3> QED  BY <1>5, <3>3, <3>4, <3>8, <3>9
  <2> QED  BY <1>1, <1>2, <1>5, <2>1, <2>2
<1>7. \A i, j \in Outer : children[i] = children[j] => i = j
  <2> TAKE i, j \in Outer
  <2>1. children[i] = children[j] => From(i) = From(j)
    BY <1>5, <1>6 DEF IsInjective
  <2>2. i \in Nat /\ j \in Nat /\ (i <= Base \/ i > Base + Len(new)) /\ (j <= Base \/ j > Base + Len(new))
    BY <1>2, <1>5, LenProperties
  <2>3. From(i) = From(j) => i = j
    <3>1. CASE i <= Base /\ j <= Base
      BY <3>1
    <3>2. CASE i <= Base /\ ~(j <= Base)
      BY <1>1, <2>2, <3>2
    <3>3. CASE ~(i <= Base) /\ j <= Base
      BY <1>1, <2>2, <3>3
    <3>4. CASE ~(i <= Base) /\ ~(j <= Base)
      BY <1>1, <2>2, <3>4
    <3> QED  BY <3>1, <3>2, <3>3, <3>4
  <2> QED  BY <2>1, <2>3
<1> HIDE DEF From
<1>8. /\ \A k \in 1..Len(new) :
            IF newToOld[k] # 0 THEN children[Base + k] = WidgetOf(newToOld[k])
            ELSE children[Base + k] \notin Range(start)
      /\ \A j, k \in 1..Len(new) : children[Base + j] = children[Base + k] => j = k
  BY <1>3 DEF BuiltUpTo, Built
<1>9. ASSUME NEW k \in 1..Len(new), NEW i \in Outer
      PROVE  children[Base + k] # children[i]
  <2>1. children[i] = start[From(i)] /\ From(i) \in DOMAIN start /\ ~(From(i) \in Base + 1..Base + Len(old))
    BY <1>6
  <2>2. CASE newToOld[k] = 0
    BY <1>8, <2>1, <2>2 DEF Range
  <2>3. CASE newToOld[k] # 0
    <3>1. newToOld[k] \in 1..Len(old)
      BY <1>1, <2>3, WidgetFacts
    <3>2. \A o \in 1..Len(old) : Base + o \in DOMAIN start /\ Base + o \in Base + 1..Base + Len(old)
      BY <1>1, <1>5
    <3>3. children[Base + k] = start[Base + newToOld[k]]
      BY <1>8, <2>3 DEF WidgetOf
    <3> QED  BY <1>5, <2>1, <3>1, <3>2, <3>3 DEF IsInjective
  <2> QED  BY <2>2, <2>3
<1>10. IsInjective(children)
  <2> SUFFICES ASSUME NEW i \in DOMAIN children, NEW j \in DOMAIN children, children[i] = children[j]
               PROVE  i = j
    BY DEF IsInjective
  <2>1. \A x \in DOMAIN children : x \in Outer \/ \E k \in 1..Len(new) : x = Base + k
    <3> TAKE x \in DOMAIN children
    <3>1. x \in Nat
      BY <1>2, <1>5
    <3>2. CASE x > Base /\ x <= Base + Len(new)
      <4>1. x - Base \in 1..Len(new) /\ x = Base + (x - Base)
        BY <1>1, <3>1, <3>2
      <4> QED  BY <4>1
    <3> QED  BY <1>1, <3>1, <3>2
  <2>2. CASE i \in Outer /\ j \in Outer
    BY <1>7, <2>2
  <2>3. CASE i \notin Outer /\ j \notin Outer
    BY <1>8, <2>1, <2>3
  <2>4. ~(i \notin Outer /\ j \in Outer) /\ ~(i \in Outer /\ j \notin Outer)
    BY <1>9, <2>1
  <2> QED  BY <2>2, <2>3, <2>4
<1>11. Framed(children)
  BY <1>1, <1>2, <1>5, <1>10 DEF Framed
<1> QED  BY <1>3, <1>4, <1>11

LEMMA EndInsertStep == IInv /\ EndInsert => IInv'
<1> SUFFICES ASSUME IInv, EndInsert PROVE IInv'
  OBVIOUS
<1>0. Before' = Before /\ After' = After /\ Base' = Base
  BY SidesStay DEF EndInsert, lists
<1> USE <1>0
<1>1. /\ pc = "insert" /\ pc' = "done" /\ n > Len(new)
      /\ UNCHANGED <<lists, n, match, lis, tree, start>>
  BY DEF EndInsert
<1>2. Framed(children) /\ Aligned(new) /\ BuiltUpTo(Len(new))
  BY <1>1, EndInsertFramed
<1>3. ValueOK' /\ CountOK' /\ MatchOK'
  BY <1>1 DEF IInv, ValueOK, CountOK, MatchOK, Loops, lists, match, tree
<1>4. StartOK' /\ KeepOK' /\ DroppedOK'
  BY <1>1 DEF IInv, StartOK, Framed, KeepOK, Increasing, DroppedOK, WidgetOf, Matched, lists, lis, match, tree
<1>5. DoneOK'
  <2>1. \A k \in DOMAIN new : ~(k >= n)
    BY <1>1, ListFacts DEF IInv, ValueOK
  <2>2. moved = [o \in DOMAIN old |-> NoWidget] /\ result = <<>>
    BY <1>1, <2>1 DEF IInv, InsertOK
  <2>3. moved \in Seq({NoWidget})
    BY <2>2, ListFacts, IsASeq DEF IInv
  <2> QED  BY <1>1, <1>2, <2>2, <2>3 DEF DoneOK, Framed, Aligned, Displays, lists, tree
<1>6. BuiltOK'
  BY <1>1, <1>2 DEF BuiltOK, BuiltUpTo, Built, Displays, WidgetOf, lists, match, tree
<1>7. IdleOK' /\ UntouchedOK' /\ RemoveOK' /\ InsertOK' /\ RebuildOK' /\ ShownOK'
  BY <1>1 DEF IdleOK, UntouchedOK, RemoveOK, InsertOK, RebuildOK, ShownOK
<1> QED  BY <1>3, <1>4, <1>5, <1>6, <1>7 DEF IInv

-----------------------------------------------------------------------------
(* ReconcileList keeps the invariant.                                      *)

\* What all branches know of the loop.
LEMMA RebuildFacts ==
    ASSUME IInv, pc = "rebuild"
    PROVE  /\ Base = 0 /\ After = <<>> /\ Len(After) = 0
           /\ n \in Nat /\ n \in 1..Len(new) + 1 /\ Len(new) \in Nat /\ DOMAIN new = 1..Len(new)
           /\ Len(old) \in Nat /\ DOMAIN old = 1..Len(old)
           /\ result \in Seq(Widget) /\ Len(result) = n - 1
           /\ children = [o \in DOMAIN old |->
                 IF \E k \in 1..n - 1 : newToOld[k] = o THEN NoWidget ELSE WidgetOf(o)]
           /\ moved = [o \in DOMAIN old |-> NoWidget] /\ unmounted = {}
<1>1. Base = 0 /\ After = <<>> /\ Len(After) = 0
  <2>1. form = "list" /\ form \in Forms
    BY DEF IInv, RebuildOK, ValueOK
  <2> QED  BY <2>1, NoSides, "list" # "slot"
<1> QED  BY <1>1, ListFacts DEF IInv, ValueOK, CountOK, RebuildOK

LEMMA ReuseStep == IInv /\ Reuse => IInv'
<1> SUFFICES ASSUME IInv, Reuse PROVE IInv'
  OBVIOUS
<1>0. Before' = Before /\ After' = After /\ Base' = Base
  BY SidesStay DEF Reuse, lists
<1> USE <1>0
<1>1. /\ pc = "rebuild" /\ pc' = "rebuild" /\ n <= Len(new) /\ newToOld[n] # 0 /\ n' = n + 1
      /\ shows' = Applied(children[newToOld[n]], old[newToOld[n]], new[n])
      /\ result' = Append(result, children[newToOld[n]])
      /\ children' = [children EXCEPT ![newToOld[n]] = NoWidget]
      /\ UNCHANGED <<lists, match, lis, moved, unmounted, start>>
  BY DEF Reuse
<1>2. /\ n \in Nat /\ n \in DOMAIN new /\ Len(new) \in Nat /\ DOMAIN new = 1..Len(new)
      /\ result \in Seq(Widget) /\ Len(result) = n - 1
      /\ children = [o \in DOMAIN old |->
            IF \E k \in 1..n - 1 : newToOld[k] = o THEN NoWidget ELSE WidgetOf(o)]
      /\ moved = [o \in DOMAIN old |-> NoWidget] /\ unmounted = {}
  BY <1>1, RebuildFacts
<1>3. /\ \A k \in DOMAIN new : newToOld[k] # 0 => newToOld[k] \in DOMAIN old
      /\ \A j, k \in DOMAIN new : newToOld[j] # 0 /\ newToOld[j] = newToOld[k] => j = k
  BY <1>1, WidgetFacts
<1>4. PICK w, m, o : w = children[newToOld[n]] /\ m = n /\ o = newToOld[n]
  OBVIOUS
<1>5. o \in DOMAIN old /\ w = WidgetOf(newToOld[m])
  <2>1. ~(\E k \in 1..n - 1 : newToOld[k] = newToOld[n])
    <3>1. \A k \in 1..n - 1 : k \in DOMAIN new /\ k # n
      BY <1>2
    <3> QED  BY <1>1, <1>2, <1>3, <3>1
  <2> QED  BY <1>1, <1>2, <1>3, <1>4, <2>1
<1>6. /\ w \in Widget
      /\ shows' \in [Widget -> Component]
      /\ Displays(w, new[m])'
      /\ \A v, f : v # w /\ Displays(v, f) => Displays(v, f)'
  BY <1>1, <1>2, <1>4, <1>5, MatchedFacts
<1>7. /\ result' \in Seq(Widget) /\ Len(result') = m
      /\ \A k \in 1..m - 1 : result'[k] = result[k]
      /\ result'[m] = w
  BY <1>1, <1>2, <1>4, <1>6, AppendProperties
<1>8. BuiltOK' /\ ShownOK'
  <2>1. /\ \A k \in 1..m - 1 : Built(k)' = Built(k)
        /\ Built(m)' = w
    BY <1>1, <1>7 DEF Built
  <2>2. m \in DOMAIN new /\ n' = m + 1 /\ newToOld[m] # 0 /\ UNCHANGED <<lists, newToOld, start>>
    BY <1>1, <1>2, <1>4 DEF match
  <2> QED  BY <1>1, <1>4, <1>5, <1>6, <2>1, <2>2, BuiltGrows
<1>9. ValueOK' /\ CountOK' /\ MatchOK'
  <2>1. /\ pc' = "rebuild" /\ n' = n + 1 /\ form' = form /\ new' = new /\ old' = old
        /\ newToOld' = newToOld /\ cursor' = cursor
    BY <1>1 DEF lists, match
  <2>2. ValueOK'
    BY <1>1, <1>2, <1>6, <2>1 DEF IInv, ValueOK
  <2>3. CountOK'
    BY <1>2, <2>1 DEF CountOK
  <2>4. MatchOK'
    BY <2>1 DEF IInv, MatchOK
  <2> QED  BY <2>2, <2>3, <2>4
<1>10. StartOK' /\ KeepOK'
  BY <1>1 DEF IInv, StartOK, Framed, KeepOK, Increasing, lists, lis, match
<1>11. RebuildOK'
  <2>1. children' = [p \in DOMAIN old |->
          IF \E k \in 1..m : newToOld[k] = p THEN NoWidget ELSE WidgetOf(p)]
    <3>1. \A k \in 1..m : k \in 1..m - 1 \/ k = m
      BY <1>2, <1>4
    <3>2. \A k \in 1..m - 1 : k \in 1..m
      BY <1>2, <1>4
    <3>3. m \in 1..m
      BY <1>2, <1>4
    <3>4. \A p \in DOMAIN old : p # o =>
            ((\E k \in 1..m - 1 : newToOld[k] = p) <=> (\E k \in 1..m : newToOld[k] = p))
      BY <1>4, <3>1, <3>2
    <3>5. \E k \in 1..m : newToOld[k] = o
      BY <1>4, <3>3
    <3>6. children' = [p \in DOMAIN old |-> IF p = o THEN NoWidget ELSE children[p]]
      BY <1>1, <1>2, <1>4
    <3>7. ASSUME NEW p \in DOMAIN old
          PROVE  (IF p = o THEN NoWidget ELSE children[p]) =
                 (IF \E k \in 1..m : newToOld[k] = p THEN NoWidget ELSE WidgetOf(p))
      <4>1. CASE p = o
        BY <3>5, <4>1
      <4>2. CASE p # o
        BY <1>2, <1>4, <3>4, <4>2
      <4> QED  BY <4>1, <4>2
    <3> QED  BY <3>6, <3>7
  <2>2. n' - 1 = m
    BY <1>1, <1>2, <1>4
  <2>3. /\ form' = "list" /\ new' = new /\ old' = old /\ newToOld' = newToOld /\ moved' = moved /\ unmounted' = unmounted
        /\ \A p : WidgetOf(p)' = WidgetOf(p)
    BY <1>1 DEF IInv, RebuildOK, lists, match, WidgetOf
  <2>4. children' = [p \in DOMAIN old |->
          IF (\E k \in 1..n - 1 : newToOld[k] = p)' THEN NoWidget ELSE WidgetOf(p)]
    BY <2>1, <2>2, <2>3
  <2> QED  BY <1>2, <1>7, <2>2, <2>3, <2>4 DEF RebuildOK
<1>12. IdleOK' /\ UntouchedOK' /\ RemoveOK' /\ InsertOK' /\ DoneOK' /\ DroppedOK'
  BY <1>1 DEF IdleOK, UntouchedOK, RemoveOK, InsertOK, DoneOK, DroppedOK
<1> QED  BY <1>8, <1>9, <1>10, <1>11, <1>12 DEF IInv

LEMMA AppendFreshStep == IInv /\ AppendFresh => IInv'
<1> SUFFICES ASSUME IInv, AppendFresh PROVE IInv'
  OBVIOUS
<1>0. Before' = Before /\ After' = After /\ Base' = Base
  BY SidesStay DEF AppendFresh, lists
<1> USE <1>0
<1>1. /\ pc = "rebuild" /\ pc' = "rebuild" /\ n <= Len(new) /\ newToOld[n] = 0 /\ n' = n + 1
      /\ Unused # {}
      /\ shows' = MountedAs(Fresh, new[n])
      /\ result' = Append(result, Fresh)
      /\ UNCHANGED <<lists, match, lis, children, moved, unmounted, start>>
  BY DEF AppendFresh
<1>2. /\ n \in Nat /\ n \in DOMAIN new /\ Len(new) \in Nat /\ DOMAIN new = 1..Len(new)
      /\ DOMAIN old = 1..Len(old)
      /\ result \in Seq(Widget) /\ Len(result) = n - 1
      /\ children = [o \in DOMAIN old |->
            IF \E k \in 1..n - 1 : newToOld[k] = o THEN NoWidget ELSE WidgetOf(o)]
      /\ moved = [o \in DOMAIN old |-> NoWidget] /\ unmounted = {}
  BY <1>1, RebuildFacts
<1>3. PICK w, m, e : w = Fresh /\ m = n /\ e = new[m]
  OBVIOUS
<1>4. e \in Component
  BY <1>2, <1>3, ListFacts, ElementOfSeq DEF IInv
<1>5. /\ w \in Widget /\ w \notin Range(start) /\ w \notin Range(result)
      /\ shows' \in [Widget -> Component] /\ shows'[w] = e
      /\ \A v, f : v # w /\ Displays(v, f) => Displays(v, f)'
  BY <1>1, <1>3, <1>4, FreshFacts DEF IInv, ValueOK
<1>6. Displays(w, new[m])'
  BY <1>1, <1>3, <1>5 DEF Displays, lists
<1>7. /\ result' \in Seq(Widget) /\ Len(result') = m
      /\ \A k \in 1..m - 1 : result'[k] = result[k]
      /\ result'[m] = w
  BY <1>1, <1>2, <1>3, <1>5, AppendProperties
<1>8. BuiltOK' /\ ShownOK'
  <2>1. /\ \A k \in 1..m - 1 : Built(k)' = Built(k)
        /\ Built(m)' = w
    BY <1>1, <1>7 DEF Built
  <2>2. \A k \in 1..m - 1 : Built(k) # w
    <3>1. DOMAIN result = 1..m - 1
      BY <1>2, <1>3, LenProperties
    <3> QED  BY <1>1, <1>5, <3>1 DEF Built, Range
  <2>3. m \in DOMAIN new /\ n' = m + 1 /\ newToOld[m] = 0 /\ UNCHANGED <<lists, newToOld, start>>
    BY <1>1, <1>2, <1>3 DEF match
  <2> QED  BY <1>1, <1>3, <1>5, <1>6, <2>1, <2>2, <2>3, BuiltGrows
<1>9. ValueOK' /\ CountOK' /\ MatchOK'
  BY <1>1, <1>2, <1>5 DEF IInv, ValueOK, CountOK, MatchOK, lists, match
<1>10. StartOK' /\ KeepOK'
  BY <1>1 DEF IInv, StartOK, Framed, KeepOK, Increasing, lists, lis, match
<1>11. RebuildOK'
  <2>1. \A p \in DOMAIN old :
          ((\E k \in 1..m - 1 : newToOld[k] = p) <=> (\E k \in 1..m : newToOld[k] = p))
    <3>1. \A k \in 1..m : k \in 1..m - 1 \/ k = m
      BY <1>2, <1>3
    <3>2. \A k \in 1..m - 1 : k \in 1..m
      BY <1>2, <1>3
    <3>3. \A p \in DOMAIN old : newToOld[m] # p
      BY <1>1, <1>2, <1>3
    <3> QED  BY <3>1, <3>2, <3>3
  <2>2. n' - 1 = m
    BY <1>1, <1>2, <1>3
  <2>3. /\ form' = "list" /\ new' = new /\ old' = old /\ newToOld' = newToOld /\ children' = children
        /\ moved' = moved /\ unmounted' = unmounted
        /\ \A p : WidgetOf(p)' = WidgetOf(p)
    BY <1>1 DEF IInv, RebuildOK, lists, match, WidgetOf
  <2>4. children' = [p \in DOMAIN old |->
          IF (\E k \in 1..n - 1 : newToOld[k] = p)' THEN NoWidget ELSE WidgetOf(p)]
    BY <1>2, <1>3, <2>1, <2>2, <2>3
  <2> QED  BY <1>2, <1>7, <2>2, <2>3, <2>4 DEF RebuildOK
<1>12. IdleOK' /\ UntouchedOK' /\ RemoveOK' /\ InsertOK' /\ DoneOK' /\ DroppedOK'
  BY <1>1 DEF IdleOK, UntouchedOK, RemoveOK, InsertOK, DoneOK, DroppedOK
<1> QED  BY <1>8, <1>9, <1>10, <1>11, <1>12 DEF IInv

LEMMA ReturnResultStep == IInv /\ ReturnResult => IInv'
<1> SUFFICES ASSUME IInv, ReturnResult PROVE IInv'
  OBVIOUS
<1>0. Before' = Before /\ After' = After /\ Base' = Base
  BY SidesStay DEF ReturnResult, lists
<1> USE <1>0
<1>1. /\ pc = "rebuild" /\ pc' = "done" /\ n > Len(new)
      /\ unmounted' = {children[o] : o \in DOMAIN old \ Matched}
      /\ children' = result /\ result' = <<>>
      /\ UNCHANGED <<lists, n, match, lis, moved, shows, start>>
  BY DEF ReturnResult
<1>2. /\ Base = 0 /\ After = <<>> /\ Len(After) = 0
      /\ n \in Nat /\ n = Len(new) + 1 /\ n - 1 = Len(new) /\ Len(new) \in Nat /\ DOMAIN new = 1..Len(new)
      /\ Len(old) \in Nat /\ DOMAIN old = 1..Len(old)
      /\ result \in Seq(Widget) /\ Len(result) = Len(new)
      /\ children = [o \in DOMAIN old |->
            IF \E k \in 1..Len(new) : newToOld[k] = o THEN NoWidget ELSE WidgetOf(o)]
      /\ moved = [o \in DOMAIN old |-> NoWidget]
  BY <1>1, RebuildFacts
<1>3. /\ \A k \in 1..Len(new) : Displays(result[k], new[k])
      /\ \A k \in 1..Len(new) :
            IF newToOld[k] # 0 THEN result[k] = WidgetOf(newToOld[k]) ELSE result[k] \notin Range(start)
      /\ \A j, k \in 1..Len(new) : result[j] = result[k] => j = k
  BY <1>1, <1>2 DEF IInv, BuiltOK, BuiltUpTo, Built
<1>4. ValueOK' /\ CountOK' /\ MatchOK'
  BY <1>1 DEF IInv, ValueOK, CountOK, MatchOK, Loops, lists, match
<1>5. StartOK' /\ KeepOK'
  BY <1>1 DEF IInv, StartOK, Framed, KeepOK, Increasing, lists, lis, match
<1>6. BuiltOK'
  <2>1. \A k \in 1..Len(new) : Built(k)' = result[k]
    BY <1>1, <1>2 DEF Built, Base
  <2>2. new' = new /\ newToOld' = newToOld /\ start' = start /\ shows' = shows /\ \A o : WidgetOf(o)' = WidgetOf(o)
    BY <1>1 DEF lists, match, WidgetOf
  <2> QED  BY <1>1, <1>3, <2>1, <2>2 DEF BuiltOK, BuiltUpTo, Displays
<1>7. DoneOK'
  <2>1. DOMAIN result = 1..Len(new)
    BY <1>2, LenProperties
  <2>2. IsInjective(result)
    BY <1>3, <2>1 DEF IsInjective
  <2>3. Framed(result)
    BY <1>2, <2>2 DEF Framed
  <2>4. Aligned(new)'
    <3>1. \A k \in 1..Len(new) : children'[Base + k] = result[k] /\ Base + k = k
      BY <1>1, <1>2
    <3>2. new' = new /\ shows' = shows /\ Len(children') = Base + Len(new) + Len(After)
      BY <1>1, <1>2 DEF lists
    <3> QED  BY <1>2, <1>3, <3>1, <3>2 DEF Aligned, Displays
  <2>5. moved' \in Seq({NoWidget})
    BY <1>1, <1>2, IsASeq
  <2> QED  BY <1>1, <2>3, <2>4, <2>5 DEF DoneOK, Framed
<1>8. DroppedOK'
  <2>1. \A o \in DOMAIN old \ Matched : children[o] = WidgetOf(o)
    <3>1. DOMAIN newToOld = DOMAIN new
      BY DEF IInv, MatchOK
    <3>2. ASSUME NEW o \in DOMAIN old \ Matched
          PROVE  ~(\E k \in 1..Len(new) : newToOld[k] = o)
      <4>1. o # 0
        BY <1>2
      <4> QED  BY <1>2, <3>1, <4>1 DEF Matched
    <3> QED  BY <1>2, <3>2
  <2>2. unmounted' = {WidgetOf(o) : o \in DOMAIN old \ Matched}
    BY <1>1, <2>1
  <2>3. old' = old /\ Matched' = Matched /\ \A o : WidgetOf(o)' = WidgetOf(o)
    BY <1>1 DEF lists, match, Matched, WidgetOf
  <2> QED  BY <2>2, <2>3 DEF DroppedOK
<1>9. IdleOK' /\ UntouchedOK' /\ RemoveOK' /\ InsertOK' /\ RebuildOK' /\ ShownOK'
  BY <1>1 DEF IdleOK, UntouchedOK, RemoveOK, InsertOK, RebuildOK, ShownOK
<1> QED  BY <1>4, <1>5, <1>6, <1>7, <1>8, <1>9 DEF IInv

-----------------------------------------------------------------------------
(* ReconcileWidget, and the next call, keep the invariant.                 *)

LEMMA ReconcileWidgetStep == IInv /\ ReconcileWidget => IInv'
<1> SUFFICES ASSUME IInv, ReconcileWidget PROVE IInv'
  OBVIOUS
<1>0. Before' = Before /\ After' = After /\ Base' = Base
  BY SidesStay DEF ReconcileWidget, lists
<1> USE <1>0
<1> USE DEF ReconcileWidget
<1>1. /\ pc = "idle" /\ pc' = "done" /\ form = "single" /\ start' = children
      /\ UNCHANGED <<form, old, n, cursor, lis, moved, result>>
  OBVIOUS
<1>2. PICK l \in Lists[form] :
        /\ new' = l
        /\ newToOld' = [k \in DOMAIN l |-> IF Keeps(l) THEN 1 ELSE 0]
        /\ \/ /\ Keeps(l)
              /\ shows' = Applied(children[1], old[1], l[1])
              /\ UNCHANGED <<children, unmounted>>
           \/ /\ ~Keeps(l) /\ l # <<>> /\ Unused # {}
              /\ shows' = MountedAs(Fresh, l[1])
              /\ children' = <<Fresh>>
              /\ unmounted' = Range(children)
           \/ /\ l = <<>>
              /\ children' = <<>>
              /\ unmounted' = Range(children)
              /\ shows' = shows
  OBVIOUS
<1>3. /\ Base = 0 /\ After = <<>> /\ Len(After) = 0
      /\ Len(<<>>) = 0
  <2>1. form = "single" /\ form \in Forms
    BY <1>1 DEF IInv, ValueOK
  <2> QED  BY <2>1, NoSides, "single" # "slot"
<1>4. /\ children \in Seq(Widget) /\ IsInjective(children) /\ Len(children) = Len(old)
      /\ \A i \in DOMAIN old : Displays(children[i], old[i])
      /\ moved = <<>> /\ result = <<>> /\ unmounted = {}
      /\ shows \in [Widget -> Component]
  <2>1. /\ Framed(children) /\ Aligned(old)
        /\ moved = <<>> /\ result = <<>> /\ unmounted = {}
        /\ shows \in [Widget -> Component]
    BY <1>1 DEF IInv, IdleOK, ValueOK
  <2>2. Len(old) \in Nat /\ DOMAIN old = 1..Len(old)
    BY ListFacts DEF IInv
  <2>3. \A i \in DOMAIN old : Base + i = i
    BY <1>3, <2>2
  <2> QED  BY <1>3, <2>1, <2>2, <2>3 DEF Framed, Aligned
<1>5. /\ old \in Seq(Component) /\ Len(old) \in {0, 1} /\ DOMAIN old = 1..Len(old)
      /\ l \in Seq(Component) /\ Len(l) \in {0, 1} /\ DOMAIN l = 1..Len(l)
      /\ DOMAIN children = 1..Len(children)
  <2>1. \A k \in Lists[form] : k \in Seq(Component) /\ Len(k) <= 1
    BY <1>1, ListAssumption DEF IInv, ValueOK
  <2>2. Len(old) <= 1
    BY <1>3, <2>1 DEF IInv, ValueOK
  <2>3. /\ old \in Seq(Component) /\ Len(old) \in Nat /\ DOMAIN old = 1..Len(old)
    BY ListFacts DEF IInv
  <2>4. l \in Seq(Component) /\ Len(l) \in Nat /\ DOMAIN l = 1..Len(l) /\ Len(l) <= 1
    BY <2>1, LenProperties
  <2> QED  BY <1>4, <2>2, <2>3, <2>4, LenProperties
<1>6. Keeps(l) => /\ Len(old) = 1 /\ Len(l) = 1 /\ SameIdentity(old[1], l[1])
  BY <1>5, EmptySeq DEF Keeps
\* The one component of l is shown by the one child, if there is one.
<1>7. /\ shows' \in [Widget -> Component]
      /\ children' \in Seq(Widget) /\ Len(children') = Len(l) /\ IsInjective(children')
      /\ \A k \in 1..Len(l) :
            /\ Displays(children[k], l[k])'
            /\ IF Keeps(l) THEN children'[k] = children[1] ELSE children'[k] \notin Range(children)
      /\ unmounted' = IF Keeps(l) THEN {} ELSE Range(children)
  <2>1. CASE Keeps(l) /\ shows' = Applied(children[1], old[1], l[1]) /\ UNCHANGED <<children, unmounted>>
    <3>1. PICK w, o, e : w = children[1] /\ o = old[1] /\ e = l[1]
      OBVIOUS
    <3>2. w \in Widget /\ Displays(w, o) /\ o \in Component /\ e \in Component
      <4>1. Len(old) = 1 /\ Len(l) = 1
        BY <1>6, <2>1
      <4>2. 1 \in 1..Len(old) /\ 1 \in 1..Len(l) /\ 1 \in 1..Len(children)
        BY <1>4, <4>1
      <4>3. children[1] \in Widget /\ old[1] \in Component /\ l[1] \in Component
        BY <1>4, <1>5, <4>2, ElementOfSeq
      <4>4. Displays(children[1], old[1])
        BY <1>4, <1>5, <4>2
      <4> QED  BY <3>1, <4>3, <4>4
    <3>6. shows' = Applied(w, o, e) /\ SameIdentity(o, e)
      BY <1>6, <2>1, <3>1
    <3>3. shows' \in [Widget -> Component] /\ Displays(w, e)'
      BY <1>4, <3>2, <3>6, AppliedFacts
    <3>7. Len(l) = 1
      BY <1>6, <2>1
    <3>4. \A k \in 1..Len(l) : k = 1
      BY <3>7
    <3>5. children' = children /\ unmounted' = {}
      BY <1>4, <2>1
    <3> QED  BY <1>4, <1>6, <2>1, <3>1, <3>3, <3>4, <3>5 DEF Displays
  <2>2. CASE /\ ~Keeps(l) /\ l # <<>> /\ Unused # {} /\ shows' = MountedAs(Fresh, l[1])
             /\ children' = <<Fresh>> /\ unmounted' = Range(children)
    <3>1. PICK w, e : w = Fresh /\ e = l[1]
      OBVIOUS
    <3>2. Len(l) = 1 /\ e \in Component
      BY <1>5, <2>2, <3>1, EmptySeq, ElementOfSeq
    <3>3. /\ w \in Widget /\ w \notin Range(children)
          /\ shows' \in [Widget -> Component] /\ shows'[w] = e
      BY <1>4, <2>2, <3>1, <3>2, FreshFacts
    <3>4. /\ children' = <<w>> /\ \A k \in 1..Len(l) : k = 1
      BY <2>2, <3>1, <3>2
    <3>5. children' \in Seq(Widget) /\ Len(children') = 1 /\ children'[1] = w /\ IsInjective(children')
      BY <3>3, <3>4 DEF IsInjective
    <3> QED  BY <2>2, <3>1, <3>2, <3>3, <3>4, <3>5 DEF Displays
  <2>3. CASE l = <<>> /\ children' = <<>> /\ unmounted' = Range(children) /\ shows' = shows
    <3>1. ~Keeps(l) /\ Len(l) = 0
      BY <1>3, <2>3 DEF Keeps
    <3>2. children' \in Seq(Widget) /\ Len(children') = 0 /\ IsInjective(children')
      BY <2>3, EmptySeq DEF IsInjective
    <3> QED  BY <1>4, <2>3, <3>1, <3>2
  <2> QED  BY <1>2, <2>1, <2>2, <2>3
<1>8. ValueOK' /\ CountOK'
  BY <1>1, <1>2, <1>7 DEF IInv, ValueOK, CountOK, Loops
<1>9. StartOK'
  BY <1>1, <1>3, <1>4 DEF IInv, IdleOK, StartOK, Framed
<1>10. MatchOK'
  <2>1. \A k \in DOMAIN l : k = 1
    BY <1>5
  <2>2. newToOld' \in [DOMAIN l -> 0..Len(old)]
    BY <1>2, <1>5, <1>6
  <2> QED  BY <1>1, <1>2, <1>6, <2>1, <2>2 DEF MatchOK
<1>11. KeepOK'
  BY <1>1, EmptySeq DEF IInv, KeepOK, Increasing, lis
<1>12. /\ \A k \in 1..Len(l) : Built(k)' = children'[k]
       /\ \A o : WidgetOf(o)' = start'[Base + o]
  <2>1. \A k \in 1..Len(l) : Base + k = k
    BY <1>3, <1>5
  <2>2. \A k : Built(k)' = children'[Base + k]
    BY <1>1 DEF Built
  <2> QED  BY <2>1, <2>2 DEF WidgetOf
<1>13. BuiltOK'
  <2>1. WidgetOf(1)' = children[1]
    BY <1>1, <1>3, <1>12
  <2>2. \A k \in 1..Len(l) : newToOld'[k] = IF Keeps(l) THEN 1 ELSE 0
    BY <1>2, <1>5
  <2>3. \A j, k \in 1..Len(l) : j = k
    BY <1>5
  <2> QED  BY <1>1, <1>2, <1>7, <1>12, <2>1, <2>2, <2>3 DEF BuiltOK, BuiltUpTo, Displays
<1>14. DoneOK'
  <2>1. Framed(children')
    BY <1>3, <1>7 DEF Framed
  <2>2. Aligned(new)'
    <3>1. \A k \in 1..Len(l) : Base + k = k
      BY <1>3, <1>5
    <3> QED  BY <1>2, <1>3, <1>5, <1>7, <3>1 DEF Aligned, Displays
  <2> QED  BY <1>1, <1>4, <2>1, <2>2, EmptySeq DEF DoneOK, Framed
<1>15. DroppedOK'
  <2>1. \A o \in DOMAIN old : WidgetOf(o)' = children[o]
    <3>1. \A o \in DOMAIN old : Base + o = o
      BY <1>3, <1>5
    <3> QED  BY <1>1, <1>12, <3>1
  <2>2. CASE Keeps(l)
    <3>4. Len(l) = 1 /\ Len(old) = 1
      BY <1>6, <2>2
    <3>2. DOMAIN l = {1} /\ DOMAIN old = {1}
      BY <1>5, <3>4
    <3>3. newToOld' = [k \in {1} |-> 1]
      BY <1>2, <2>2, <3>2
    <3>1. Matched' = {1} /\ DOMAIN old = {1}
      BY <3>2, <3>3 DEF Matched
    <3> QED  BY <1>1, <1>7, <2>2, <3>1 DEF DroppedOK
  <2>3. CASE ~Keeps(l)
    <3>1. Matched' = {}
      BY <1>2, <2>3 DEF Matched
    <3>2. unmounted' = {children[o] : o \in DOMAIN old}
      BY <1>4, <1>5, <1>7, <2>3 DEF Range
    <3> QED  BY <1>1, <2>1, <3>1, <3>2 DEF DroppedOK
  <2> QED  BY <2>2, <2>3
<1>16. IdleOK' /\ UntouchedOK' /\ RemoveOK' /\ InsertOK' /\ RebuildOK' /\ ShownOK'
  BY <1>1 DEF IdleOK, UntouchedOK, RemoveOK, InsertOK, RebuildOK, ShownOK
<1> QED  BY <1>8, <1>9, <1>10, <1>11, <1>13, <1>14, <1>15, <1>16 DEF IInv

LEMMA RetainStep == IInv /\ Retain => IInv'
<1> SUFFICES ASSUME IInv, Retain PROVE IInv'
  OBVIOUS
<1>0. Before' = Before /\ After' = After /\ Base' = Base
  BY SidesStay DEF Retain, lists
<1> USE <1>0
<1> USE DEF Retain
<1>1. /\ pc = "done" /\ pc' = "idle" /\ n' = 0 /\ old' = new /\ new' = <<>> /\ newToOld' = <<>>
      /\ cursor' = 0 /\ tails' = <<>> /\ pred' = <<>> /\ keep' = {}
      /\ moved' = <<>> /\ result' = <<>> /\ unmounted' = {} /\ start' = <<>>
      /\ shows' = [w \in Widget |-> IF w \in unmounted THEN Blank ELSE shows[w]]
      /\ children' = children
  OBVIOUS
<1>2. /\ Framed(children) /\ Aligned(new) /\ unmounted = {WidgetOf(o) : o \in DOMAIN old \ Matched}
      /\ BuiltUpTo(Len(new))
      /\ DOMAIN new = 1..Len(new) /\ Len(new) \in Nat
  BY <1>1, ListFacts DEF IInv, DoneOK, DroppedOK, BuiltOK
<1>3. \A k \in DOMAIN new : children[Base + k] \notin unmounted
  <2> SUFFICES ASSUME NEW k \in DOMAIN new, NEW o \in DOMAIN old \ Matched
               PROVE  children[Base + k] # WidgetOf(o)
    BY <1>2
  <2>1. IF newToOld[k] # 0 THEN children[Base + k] = WidgetOf(newToOld[k])
        ELSE children[Base + k] \notin Range(start)
    BY <1>1, <1>2 DEF BuiltUpTo, Built
  <2>2. newToOld[k] # 0 => newToOld[k] \in Matched /\ newToOld[k] \in DOMAIN old
    <3>1. DOMAIN newToOld = DOMAIN new
      BY DEF IInv, MatchOK
    <3> QED  BY <1>1, <3>1, WidgetFacts DEF Matched
  <2> QED  BY <1>1, <2>1, <2>2, WidgetFacts
<1>4. ValueOK'
  <2>1. Blank \in Component
    BY DEF Blank, Component
  <2> QED  BY <1>1, <2>1 DEF IInv, ValueOK, Loops
<1>5. IdleOK'
  BY <1>1, <1>2, <1>3 DEF IdleOK, Framed, Aligned, Displays
<1>6. MatchOK' /\ KeepOK'
  BY <1>1, EmptySeq DEF MatchOK, KeepOK, Increasing
<1>7. /\ StartOK' /\ CountOK' /\ UntouchedOK' /\ RemoveOK' /\ InsertOK' /\ RebuildOK'
      /\ BuiltOK' /\ ShownOK' /\ DoneOK' /\ DroppedOK'
  BY <1>1 DEF StartOK, CountOK, UntouchedOK, RemoveOK, InsertOK, RebuildOK, BuiltOK, ShownOK, DoneOK, DroppedOK
<1> QED  BY <1>4, <1>5, <1>6, <1>7 DEF IInv

-----------------------------------------------------------------------------
(* The first call finds what the components' own mount left.               *)

LEMMA RenderedFacts ==
    ASSUME NEW l \in Seq(Component), ~HasNone(l)
    PROVE  /\ Rendered(l) = 1..Len(l) /\ Cardinality(Rendered(l)) = Len(l)
           /\ \A i \in 1..Len(l) : Place(l, i) = i
<1>1. Len(l) \in Nat /\ DOMAIN l = 1..Len(l)
  BY LenProperties
<1>2. Rendered(l) = 1..Len(l)
  BY <1>1 DEF Rendered, HasNone
<1>3. \A i \in Nat : Cardinality(1..i) = i
  BY FS_Interval
<1>4. ASSUME NEW i \in 1..Len(l)
      PROVE  Place(l, i) = i
  <2>1. {j \in Rendered(l) : j <= i} = 1..i
    BY <1>1, <1>2
  <2>2. i \in Nat
    BY <1>1
  <2> QED  BY <1>3, <2>1, <2>2 DEF Place
<1> QED  BY <1>1, <1>2, <1>3, <1>4

LEMMA InitFramed ==
    ASSUME NEW k \in Nat, NEW kids \in [1..k -> Widget \ Range(Before \o After)], IsInjective(kids)
    PROVE  /\ Framed(Before \o kids \o After)
           /\ Len(Before \o kids \o After) = Base + k + Len(After)
           /\ \A i \in 1..k : (Before \o kids \o After)[Base + i] = kids[i]
<1> DEFINE a == Before \o kids
           c == a \o After
           f == Before \o After
<1>1. Before \in Seq(Widget) /\ After \in Seq(Widget) /\ Base = Len(Before) /\ Base \in Nat /\ Len(After) \in Nat
  BY SidesFacts
<1>2. kids \in Seq(Widget) /\ Len(kids) = k
  <2>1. \A i \in 1..k : kids[i] \in Widget
    OBVIOUS
  <2>2. kids = [i \in 1..k |-> kids[i]]
    OBVIOUS
  <2>3. kids \in Seq(Widget)
    BY <2>1, <2>2, IsASeq
  <2>4. DOMAIN kids = 1..Len(kids) /\ Len(kids) \in Nat
    BY <2>3, LenProperties
  <2> QED  BY <2>3, <2>4
<1>3. /\ a \in Seq(Widget) /\ Len(a) = Base + k
      /\ \A i \in 1..Base + k : a[i] = IF i <= Base THEN Before[i] ELSE kids[i - Base]
  BY <1>1, <1>2, ConcatProperties
<1> HIDE DEF a
<1>4. /\ c \in Seq(Widget) /\ Len(c) = Base + k + Len(After)
      /\ \A i \in 1..Base + k + Len(After) : c[i] = IF i <= Base + k THEN a[i] ELSE After[i - (Base + k)]
  <2>1. /\ c \in Seq(Widget) /\ Len(c) = Len(a) + Len(After)
        /\ \A i \in 1..Len(a) + Len(After) : c[i] = IF i <= Len(a) THEN a[i] ELSE After[i - Len(a)]
    BY <1>1, <1>3, ConcatProperties
  <2> HIDE DEF c
  <2> QED  BY <1>3, <2>1
<1>5. /\ f \in Seq(Widget) /\ Len(f) = Base + Len(After)
      /\ \A i \in 1..Base + Len(After) : f[i] = IF i <= Base THEN Before[i] ELSE After[i - Base]
      /\ DOMAIN f = 1..Base + Len(After)
  BY <1>1, ConcatProperties, LenProperties
<1>6. DOMAIN c = 1..Base + k + Len(After)
  BY <1>4, LenProperties
<1> HIDE DEF c, f
<1>7. \A i \in 1..Base : c[i] = Before[i] /\ c[i] = f[i]
  <2> TAKE i \in 1..Base
  <2>1. i \in 1..Base + k /\ i \in 1..Base + k + Len(After) /\ i <= Base + k /\ i <= Base /\ i \in 1..Base + Len(After)
    BY <1>1
  <2> QED  BY <1>3, <1>4, <1>5, <2>1
<1>8. \A i \in 1..k : c[Base + i] = kids[i]
  <2> TAKE i \in 1..k
  <2>1. PICK j : j = Base + i
    OBVIOUS
  <2>2. j \in 1..Base + k /\ j \in 1..Base + k + Len(After) /\ j <= Base + k /\ ~(j <= Base) /\ j - Base = i
    BY <1>1, <2>1
  <2>3. c[j] = a[j]
    BY <1>4, <2>2
  <2>4. a[j] = kids[j - Base]
    BY <1>3, <2>2
  <2> QED  BY <2>1, <2>2, <2>3, <2>4
<1>9. \A i \in 1..Len(After) : c[Base + k + i] = After[i] /\ c[Base + k + i] = f[Base + i]
  <2> TAKE i \in 1..Len(After)
  <2>1. PICK j, x : j = Base + k + i /\ x = Base + i
    OBVIOUS
  <2>2. j \in 1..Base + k + Len(After) /\ ~(j <= Base + k) /\ j - (Base + k) = i
    BY <1>1, <2>1
  <2>3. x \in 1..Base + Len(After) /\ ~(x <= Base) /\ x - Base = i
    BY <1>1, <2>1
  <2>4. c[j] = After[j - (Base + k)]
    BY <1>4, <2>2
  <2>5. f[x] = After[x - Base]
    BY <1>5, <2>3
  <2> QED  BY <2>1, <2>2, <2>3, <2>4, <2>5
\* Where a child that is not in the slot comes from.
<1> DEFINE From(i) == IF i <= Base THEN i ELSE i - k
           Outer == {i \in DOMAIN c : i <= Base \/ i > Base + k}
<1>10. \A i \in Outer : From(i) \in DOMAIN f /\ c[i] = f[From(i)]
  <2> TAKE i \in Outer
  <2>1. CASE i <= Base
    <3>1. i \in 1..Base /\ i \in DOMAIN f
      BY <1>1, <1>5, <1>6, <2>1
    <3> QED  BY <1>7, <2>1, <3>1
  <2>2. CASE ~(i <= Base)
    <3>1. i \in Nat /\ i > Base + k /\ i <= Base + k + Len(After)
      BY <1>1, <1>6, <2>2
    <3> DEFINE j == i - (Base + k)
    <3>2. j \in 1..Len(After) /\ Base + k + j = i /\ Base + j = i - k /\ i - k \in 1..Base + Len(After)
      BY <1>1, <3>1
    <3> HIDE DEF j
    <3>3. c[Base + k + j] = f[Base + j]
      BY <1>9, <3>2
    <3> QED  BY <1>5, <2>2, <3>2, <3>3
  <2> QED  BY <2>1, <2>2
<1>11. IsInjective(c)
  <2> SUFFICES ASSUME NEW i \in DOMAIN c, NEW j \in DOMAIN c, c[i] = c[j]
               PROVE  i = j
    BY DEF IsInjective
  <2>1. \A x \in DOMAIN c : x \in Outer \/ \E y \in 1..k : x = Base + y
    <3> TAKE x \in DOMAIN c
    <3>1. x \in Nat
      BY <1>1, <1>6
    <3>2. CASE x > Base /\ x <= Base + k
      <4>1. x - Base \in 1..k /\ x = Base + (x - Base)
        BY <1>1, <3>1, <3>2
      <4> QED  BY <4>1
    <3> QED  BY <1>1, <3>1, <3>2
  <2>2. CASE i \in Outer /\ j \in Outer
    <3>1. From(i) = From(j)
      BY <1>10, <2>2, SidesFacts DEF IsInjective, f
    <3>2. i \in Nat /\ j \in Nat /\ (i <= Base \/ i > Base + k) /\ (j <= Base \/ j > Base + k)
      BY <1>1, <1>6, <2>2
    <3>3. CASE i <= Base /\ j <= Base
      BY <3>1, <3>3
    <3>4. CASE i <= Base /\ ~(j <= Base)
      BY <1>1, <3>1, <3>2, <3>4
    <3>5. CASE ~(i <= Base) /\ j <= Base
      BY <1>1, <3>1, <3>2, <3>5
    <3>6. CASE ~(i <= Base) /\ ~(j <= Base)
      BY <1>1, <3>1, <3>2, <3>6
    <3> QED  BY <3>3, <3>4, <3>5, <3>6
  <2>3. CASE i \notin Outer /\ j \notin Outer
    <3>1. PICK x, y \in 1..k : i = Base + x /\ j = Base + y
      BY <2>1, <2>3
    <3>2. kids[x] = kids[y]
      BY <1>8, <3>1
    <3> QED  BY <3>1, <3>2 DEF IsInjective
  <2>4. \A x \in Outer, y \in 1..k : c[x] # c[Base + y]
    <3> TAKE x \in Outer, y \in 1..k
    <3>1. c[x] \in Range(f)
      BY <1>10 DEF Range
    <3>2. kids[y] \notin Range(f)
      BY DEF f
    <3> QED  BY <1>8, <3>1, <3>2
  <2> QED  BY <2>1, <2>2, <2>3, <2>4
<1>12. Framed(c)
  <2>1. \A i \in 1..Len(After) : c[Len(c) - Len(After) + i] = After[i]
    <3>1. Len(c) - Len(After) = Base + k
      BY <1>1, <1>4
    <3> QED  BY <1>9, <3>1
  <2>2. Base + Len(After) <= Len(c)
    BY <1>1, <1>4
  <2> QED  BY <1>4, <1>7, <1>11, <2>1, <2>2 DEF Framed
<1>13. c = Before \o kids \o After
  BY DEF c, a
<1> QED  BY <1>4, <1>8, <1>12, <1>13

LEMMA InitInv == NoneFree /\ Init => IInv
<1> SUFFICES ASSUME NoneFree, Init PROVE IInv
  OBVIOUS
<1>1. /\ form \in Forms /\ pc = "idle" /\ n = 0 /\ new = <<>> /\ newToOld = <<>> /\ cursor = 0
      /\ tails = <<>> /\ pred = <<>> /\ keep = {}
      /\ moved = <<>> /\ result = <<>> /\ unmounted = {} /\ start = <<>>
      /\ old \in Lists[form] \union {<<>>}
  BY DEF Init
<1>2. old \in Seq(Component) /\ ~HasNone(old)
  <2>1. CASE old = <<>>
    BY <2>1, EmptySeq DEF HasNone
  <2>2. CASE old \in Lists[form]
    BY <1>1, <2>2, ListAssumption DEF NoneFree
  <2> QED  BY <1>1, <2>1, <2>2
<1>3. /\ Rendered(old) = 1..Len(old) /\ Cardinality(Rendered(old)) = Len(old)
      /\ \A i \in 1..Len(old) : Place(old, i) = i
      /\ Len(old) \in Nat /\ DOMAIN old = 1..Len(old)
  BY <1>2, RenderedFacts, LenProperties
<1>4. PICK kids \in [1..Cardinality(Rendered(old)) -> Widget \ Range(Before \o After)] :
        /\ IsInjective(kids)
        /\ children = Before \o kids \o After
        /\ shows = [w \in Widget |->
               IF \E i \in Rendered(old) : kids[Place(old, i)] = w
               THEN old[CHOOSE i \in Rendered(old) : kids[Place(old, i)] = w]
               ELSE Blank]
  BY DEF Init
<1>12. kids \in [1..Len(old) -> Widget \ Range(Before \o After)]
  BY <1>3
<1>5. /\ Framed(children)
      /\ Len(children) = Base + Len(old) + Len(After)
      /\ \A i \in 1..Len(old) : children[Base + i] = kids[i]
  BY <1>3, <1>4, <1>12, InitFramed
<1>6. \A w \in Widget, i \in 1..Len(old) : kids[i] = w => shows[w] = old[i]
  <2> TAKE w \in Widget, i \in 1..Len(old)
  <2> HAVE kids[i] = w
  <2> DEFINE j == CHOOSE x \in Rendered(old) : kids[Place(old, x)] = w
  <2>1. i \in Rendered(old) /\ kids[Place(old, i)] = w
    BY <1>3
  <2>2. j \in Rendered(old) /\ kids[Place(old, j)] = w
    BY <2>1
  <2>3. shows[w] = old[j]
    BY <1>4, <2>1
  <2> HIDE DEF j
  <2>4. j = i
    BY <1>3, <1>4, <2>2 DEF IsInjective
  <2> QED  BY <2>3, <2>4
<1>7. shows \in [Widget -> Component]
  <2>1. Blank \in Component
    BY DEF Blank, Component
  <2> SUFFICES ASSUME NEW w \in Widget PROVE shows[w] \in Component
    BY <1>4
  <2>2. CASE \E i \in 1..Len(old) : kids[i] = w
    BY <1>2, <1>6, <2>2, ElementOfSeq
  <2>3. CASE ~(\E i \in 1..Len(old) : kids[i] = w)
    BY <1>3, <1>4, <2>1, <2>3
  <2> QED  BY <2>2, <2>3
<1>8. Aligned(old)
  <2> SUFFICES ASSUME NEW i \in 1..Len(old) PROVE Displays(children[Base + i], old[i])
    BY <1>3, <1>5 DEF Aligned
  <2>1. children[Base + i] = kids[i] /\ kids[i] \in Widget
    BY <1>4, <1>5, <1>12
  <2>2. shows[kids[i]] = old[i]
    BY <1>6, <2>1
  <2> QED  BY <2>1, <2>2 DEF Displays
<1>9. ValueOK /\ IdleOK
  BY <1>1, <1>5, <1>7, <1>8 DEF ValueOK, IdleOK, Loops
<1>10. MatchOK /\ KeepOK
  BY <1>1, EmptySeq DEF MatchOK, KeepOK, Increasing
<1>11. /\ StartOK /\ CountOK /\ UntouchedOK /\ RemoveOK /\ InsertOK /\ RebuildOK
       /\ BuiltOK /\ ShownOK /\ DoneOK /\ DroppedOK
  BY <1>1 DEF StartOK, CountOK, UntouchedOK, RemoveOK, InsertOK, RebuildOK, BuiltOK, ShownOK, DoneOK, DroppedOK
<1> QED  BY <1>9, <1>10, <1>11 DEF IInv

-----------------------------------------------------------------------------
(* The theorems.                                                           *)

LEMMA NextInv == NoneFree /\ IInv /\ [Next]_vars => IInv'
<1> SUFFICES ASSUME NoneFree, IInv, [Next]_vars PROVE IInv'
  OBVIOUS
<1>1. CASE Begin
  BY <1>1, BeginStep
<1>2. CASE MatchStep
  BY <1>2, MatchByKeyStep, EndKeysStep, MatchByOrderStep, SkipKeyedStep, EndOrderStep DEF MatchStep
<1>3. CASE KeepStep
  BY <1>3, PlaceTailStep, SkipUnmatchedStep, EndTailsStep, WalkBackStep, EndWalkStep DEF KeepStep
<1>4. CASE SpliceStep
  BY <1>4, StayStep, TakeOutStep, DropStep, EndRemoveStep, UpdateInPlaceStep, PutBackStep,
     InsertFreshStep, EndInsertStep DEF SpliceStep
<1>5. CASE ListStep
  BY <1>5, ReuseStep, AppendFreshStep, ReturnResultStep DEF ListStep
<1>6. CASE ReconcileWidget
  BY <1>6, ReconcileWidgetStep
<1>7. CASE Retain
  BY <1>7, RetainStep
<1>8. CASE UNCHANGED vars
  <2>1. /\ form' = form /\ pc' = pc /\ old' = old /\ new' = new /\ n' = n /\ cursor' = cursor /\ newToOld' = newToOld
        /\ tails' = tails /\ pred' = pred /\ keep' = keep /\ children' = children /\ moved' = moved
        /\ result' = result /\ shows' = shows /\ unmounted' = unmounted /\ start' = start
    BY <1>8 DEF vars, lists, match, lis, tree
  <2>7. Before' = Before /\ After' = After /\ Base' = Base
    BY <2>1, SidesStay
  <2> USE <2>7
  <2>2. /\ KeptOld' = KeptOld /\ Matched' = Matched
        /\ \A o : WidgetOf(o)' = WidgetOf(o)
        /\ \A a, b : KeptBetween(a, b)' = KeptBetween(a, b)
        /\ \A a, b : StayBetween(a, b)' = StayBetween(a, b)
        /\ \A k : Built(k)' = Built(k)
        /\ \A w, e : Displays(w, e)' = Displays(w, e)
    BY <2>1 DEF KeptOld, Matched, WidgetOf, KeptBetween, StayBetween, Built, Displays
  <2>3. ValueOK' /\ StartOK' /\ CountOK' /\ MatchOK' /\ KeepOK' /\ UntouchedOK'
    BY <2>1 DEF IInv, ValueOK, StartOK, CountOK, MatchOK, KeepOK, UntouchedOK, Framed, Increasing
  <2>4. IdleOK' /\ DoneOK'
    BY <2>1 DEF IInv, IdleOK, DoneOK, Framed, Aligned, Displays
  <2>5. RemoveOK' /\ InsertOK' /\ RebuildOK' /\ DroppedOK'
    BY <2>1, <2>2 DEF IInv, RemoveOK, Removed, InsertOK, Inserted, RebuildOK, DroppedOK
  <2>6. BuiltOK' /\ ShownOK'
    BY <2>1, <2>2 DEF IInv, BuiltOK, BuiltUpTo, ShownOK, Displays
  <2> QED  BY <2>3, <2>4, <2>5, <2>6 DEF IInv
<1> QED  BY <1>1, <1>2, <1>3, <1>4, <1>5, <1>6, <1>7, <1>8 DEF Next

\* The invariant holds of every call, when no list has a None entry.
THEOREM Inductive ==
    ASSUME NoneFree
    PROVE  Spec => []IInv
<1>1. Init => IInv
  BY InitInv
<1>2. IInv /\ [Next]_vars => IInv'
  BY NextInv
<1> QED  BY <1>1, <1>2, PTL DEF Spec

\* Where everything is when a call returns: outside the slot what was there,
\* inside it the widget of each new entry.
LEMMA DoneFacts ==
    ASSUME IInv, pc = "done"
    PROVE  /\ Framed(children) /\ Aligned(new) /\ Framed(start)
           /\ Len(start) = Base + Len(old) + Len(After)
           /\ Len(children) = Base + Len(new) + Len(After)
           /\ \A k \in DOMAIN new :
                 IF newToOld[k] # 0 THEN children[Base + k] = WidgetOf(newToOld[k])
                 ELSE children[Base + k] \notin Range(start)
           /\ unmounted = {WidgetOf(o) : o \in DOMAIN old \ Matched}
           /\ Len(old) \in Nat /\ DOMAIN old = 1..Len(old) /\ Len(new) \in Nat /\ DOMAIN new = 1..Len(new)
           /\ Base \in Nat /\ Len(After) \in Nat
           /\ DOMAIN start = 1..Len(start) /\ DOMAIN children = 1..Len(children)
<1>1. /\ Framed(children) /\ Aligned(new) /\ Framed(start)
      /\ Len(start) = Base + Len(old) + Len(After)
      /\ BuiltUpTo(Len(new))
      /\ unmounted = {WidgetOf(o) : o \in DOMAIN old \ Matched}
  BY DEF IInv, DoneOK, StartOK, BuiltOK, DroppedOK
<1>2. /\ Len(old) \in Nat /\ DOMAIN old = 1..Len(old) /\ Len(new) \in Nat /\ DOMAIN new = 1..Len(new)
      /\ Base \in Nat /\ Len(After) \in Nat
  BY ListFacts DEF IInv
<1>3. DOMAIN start = 1..Len(start) /\ DOMAIN children = 1..Len(children)
  BY <1>1, LenProperties DEF Framed
<1>4. \A k \in DOMAIN new :
         IF newToOld[k] # 0 THEN children[Base + k] = WidgetOf(newToOld[k])
         ELSE children[Base + k] \notin Range(start)
  BY <1>1, <1>2 DEF BuiltUpTo, Built
<1>5. Len(children) = Base + Len(new) + Len(After)
  BY <1>1 DEF Aligned
<1> QED  BY <1>1, <1>2, <1>3, <1>4, <1>5

\* The parent's other children are where they were.
LEMMA FrameShown ==
    ASSUME NEW c, Framed(c), NEW m \in Nat, Len(c) = Base + m + Len(After)
    PROVE  SubSeq(c, 1, Base) = Before /\ SubSeq(c, Base + m + 1, Len(c)) = After
<1>1. /\ c \in Seq(Widget) /\ Before \in Seq(Widget) /\ After \in Seq(Widget)
      /\ \A i \in 1..Base : c[i] = Before[i]
      /\ \A i \in 1..Len(After) : c[Len(c) - Len(After) + i] = After[i]
      /\ Base = Len(Before) /\ Base \in Nat /\ Len(After) \in Nat /\ Len(c) \in Nat
  BY SidesFacts, LenProperties DEF Framed
<1>2. PICK a, b : a = SubSeq(c, 1, Base) /\ b = SubSeq(c, Base + m + 1, Len(c))
  OBVIOUS
<1>3. a = Before
  <2>1. 1 \in 1..Len(c) + 1 /\ Base \in 0..Len(c)
    BY <1>1
  <2>2. a \in Seq(Widget) /\ Len(a) = Base /\ \A i \in 1..Base : a[i] = c[i]
    BY <1>1, <1>2, <2>1, SubSeqProperties, ElementOfSeq
  <2> QED  BY <1>1, <2>2, SeqEqual
<1>4. b = After
  <2>1. PICK x : x = Base + m + 1
    OBVIOUS
  <2>2. x \in 1..Len(c) + 1 /\ Len(c) \in x - 1..Len(c) /\ Len(c) - x + 1 = Len(After) /\ x \in Nat
    BY <1>1, <2>1
  <2>3. PICK y : y = Len(c)
    OBVIOUS
  <2>4. x \in 1..Len(c) + 1 /\ y \in x - 1..Len(c) /\ b = SubSeq(c, x, y)
    BY <1>2, <2>1, <2>2, <2>3
  <2>5. b \in Seq(Widget) /\ Len(b) = y - x + 1 /\ \A i \in 1..y - x + 1 : b[i] = c[x + i - 1]
    BY <1>1, <2>4, SubSeqProperties
  <2>6. \A i \in 1..Len(After) : b[i] = After[i]
    <3> TAKE i \in 1..Len(After)
    <3>1. x + i - 1 = Len(c) - Len(After) + i
      BY <1>1, <2>1
    <3> QED  BY <1>1, <2>2, <2>3, <2>5, <3>1
  <2> QED  BY <1>1, <2>2, <2>3, <2>5, <2>6, SeqEqual
<1> QED  BY <1>2, <1>3, <1>4

\* Whatever two lists a call is given, its children are those of the new one
\* in order when it returns, and the parent's other children did not move.
THEOREM ListsShown ==
    ASSUME NoneFree
    PROVE  Spec => []NewListShown
<1>1. IInv => NewListShown
  <2> SUFFICES ASSUME IInv, pc = "done"
               PROVE  /\ Aligned(new)
                      /\ SubSeq(children, 1, Base) = Before
                      /\ SubSeq(children, Base + Len(new) + 1, Len(children)) = After
    BY DEF NewListShown
  <2> QED  BY DoneFacts, FrameShown
<1> QED  BY <1>1, Inductive, PTL

\* No matched widget is lost, swapped or mounted again, and no entry takes
\* over a widget that is not its own.
THEOREM MatchedSurvive ==
    ASSUME NoneFree
    PROVE  Spec => []WidgetsSurvive
<1>1. IInv => WidgetsSurvive
  BY DoneFacts DEF WidgetsSurvive, WidgetOf
<1> QED  BY <1>1, Inductive, PTL

\* The insert loop finds every kept entry's widget at its index.
THEOREM KeptAreInPlace ==
    ASSUME NoneFree
    PROVE  Spec => []KeptInPlace
<1>1. IInv => KeptInPlace
  <2> SUFFICES ASSUME IInv, pc = "insert", n \in keep
               PROVE  children[Base + n] = start[Base + newToOld[n]]
    BY DEF KeptInPlace
  <2>1. n \in Nat /\ Base \in Nat
    BY ListFacts DEF IInv, ValueOK
  <2>2. StayBetween(n, n) = 1
    BY <2>1, CountOne DEF StayBetween
  <2>3. children[Base + n - 1 + StayBetween(n, n)] = WidgetOf(newToOld[n])
    <3>1. n >= n
      BY <2>1
    <3> QED  BY <3>1 DEF IInv, InsertOK, Inserted
  <2>4. Base + n - 1 + 1 = Base + n
    BY <2>1
  <2> QED  BY <2>2, <2>3, <2>4 DEF WidgetOf
<1> QED  BY <1>1, Inductive, PTL

\* PrepareForUnmount reaches the widgets that go, and none that stay.
THEOREM UnmountedGo ==
    ASSUME NoneFree
    PROVE  Spec => []UnmountedIsGone
<1>1. IInv => UnmountedIsGone
  <2> SUFFICES ASSUME IInv, pc = "done" PROVE unmounted = Range(start) \ Range(children)
    BY DEF UnmountedIsGone
  <2>1. /\ Framed(children) /\ Framed(start)
        /\ Len(start) = Base + Len(old) + Len(After)
        /\ Len(children) = Base + Len(new) + Len(After)
        /\ \A k \in DOMAIN new :
              IF newToOld[k] # 0 THEN children[Base + k] = WidgetOf(newToOld[k])
              ELSE children[Base + k] \notin Range(start)
        /\ unmounted = {WidgetOf(o) : o \in DOMAIN old \ Matched}
        /\ Len(old) \in Nat /\ DOMAIN old = 1..Len(old) /\ Len(new) \in Nat /\ DOMAIN new = 1..Len(new)
        /\ Base \in Nat /\ Len(After) \in Nat
        /\ DOMAIN start = 1..Len(start) /\ DOMAIN children = 1..Len(children)
    BY DoneFacts
  <2>2. /\ IsInjective(start)
        /\ \A i \in 1..Base : start[i] = Before[i] /\ children[i] = Before[i]
        /\ \A i \in 1..Len(After) : /\ start[Len(start) - Len(After) + i] = After[i]
                                    /\ children[Len(children) - Len(After) + i] = After[i]
    BY <2>1 DEF Framed
  <2>3. /\ \A k \in DOMAIN new : newToOld[k] # 0 => newToOld[k] \in DOMAIN old /\ newToOld[k] \in Matched
        /\ \A o \in Matched : \E k \in DOMAIN new : newToOld[k] = o /\ o # 0
    <3>1. DOMAIN newToOld = DOMAIN new
      BY DEF IInv, MatchOK
    <3> QED  BY <3>1, WidgetFacts DEF Matched
  \* A child is outside the slot or is that of a new entry; the same of start.
  <2>4. ASSUME NEW i \in DOMAIN children
        PROVE  \/ \E k \in DOMAIN new : i = Base + k
               \/ \E j \in DOMAIN start : children[i] = start[j] /\ ~(j \in Base + 1..Base + Len(old))
    <3>1. CASE i <= Base
      <4>1. i \in 1..Base /\ i \in DOMAIN start /\ ~(i \in Base + 1..Base + Len(old))
        BY <2>1, <3>1
      <4> QED  BY <2>2, <4>1
    <3>2. CASE i > Base + Len(new)
      <4>1. PICK j, x : j = i - (Base + Len(new)) /\ x = Base + Len(old) + j
        OBVIOUS
      <4>2. /\ Base \in Nat /\ Len(After) \in Nat /\ Len(old) \in Nat /\ Len(new) \in Nat
            /\ i \in 1..Len(children) /\ Len(children) = Base + Len(new) + Len(After)
            /\ Len(start) = Base + Len(old) + Len(After) /\ DOMAIN start = 1..Len(start)
        BY <2>1
      <4>3. j \in 1..Len(After)
        BY <3>2, <4>1, <4>2
      <4>4. Len(children) - Len(After) + j = i
        BY <4>1, <4>2
      <4>5. Len(start) - Len(After) + j = x
        BY <4>1, <4>2, <4>3
      <4>6. x \in DOMAIN start /\ ~(x \in Base + 1..Base + Len(old))
        BY <4>1, <4>2, <4>3
      <4>7. children[i] = start[x]
        BY <2>2, <4>3, <4>4, <4>5
      <4> QED  BY <4>6, <4>7
    <3>3. CASE i > Base /\ i <= Base + Len(new)
      <4>1. i - Base \in DOMAIN new /\ i = Base + (i - Base)
        BY <2>1, <3>3
      <4> QED  BY <4>1
    <3> QED  BY <2>1, <3>1, <3>2, <3>3
  <2>5. ASSUME NEW j \in DOMAIN start
        PROVE  \/ \E o \in DOMAIN old : j = Base + o
               \/ start[j] \in Range(children)
    <3>1. CASE j <= Base
      <4>1. j \in 1..Base /\ j \in DOMAIN children
        BY <2>1, <3>1
      <4> QED  BY <2>2, <4>1 DEF Range
    <3>2. CASE j > Base + Len(old)
      <4>1. PICK i, x : i = j - (Base + Len(old)) /\ x = Base + Len(new) + i
        OBVIOUS
      <4>2. /\ Base \in Nat /\ Len(After) \in Nat /\ Len(old) \in Nat /\ Len(new) \in Nat
            /\ j \in 1..Len(start) /\ Len(start) = Base + Len(old) + Len(After)
            /\ Len(children) = Base + Len(new) + Len(After) /\ DOMAIN children = 1..Len(children)
        BY <2>1
      <4>3. i \in 1..Len(After)
        BY <3>2, <4>1, <4>2
      <4>4. Len(start) - Len(After) + i = j
        BY <4>1, <4>2
      <4>5. Len(children) - Len(After) + i = x
        BY <4>1, <4>2, <4>3
      <4>6. x \in DOMAIN children
        BY <4>1, <4>2, <4>3
      <4>7. start[j] = children[x]
        BY <2>2, <4>3, <4>4, <4>5
      <4> QED  BY <4>6, <4>7 DEF Range
    <3>3. CASE j > Base /\ j <= Base + Len(old)
      <4>1. j - Base \in DOMAIN old /\ j = Base + (j - Base)
        BY <2>1, <3>3
      <4> QED  BY <4>1
    <3> QED  BY <2>1, <3>1, <3>2, <3>3
  <2>6. ASSUME NEW o \in DOMAIN old \ Matched
        PROVE  WidgetOf(o) \in Range(start) \ Range(children)
    <3>1. Base + o \in DOMAIN start /\ Base + o \in Base + 1..Base + Len(old)
      BY <2>1
    <3>2. WidgetOf(o) \in Range(start)
      BY <3>1 DEF WidgetOf, Range
    <3>3. ASSUME NEW i \in DOMAIN children
          PROVE  children[i] # WidgetOf(o)
      <4>1. CASE \E k \in DOMAIN new : i = Base + k
        <5>1. PICK k \in DOMAIN new : i = Base + k
          BY <4>1
        <5>2. CASE newToOld[k] = 0
          BY <2>1, <3>2, <5>1, <5>2
        <5>3. CASE newToOld[k] # 0
          <6>1. newToOld[k] \in DOMAIN old /\ newToOld[k] \in Matched
            BY <2>3, <5>3
          <6>2. children[i] = WidgetOf(newToOld[k])
            BY <2>1, <5>1, <5>3
          <6>3. newToOld[k] # o
            BY <6>1
          <6>4. PICK x, y : x = Base + newToOld[k] /\ y = Base + o
            OBVIOUS
          <6>5. /\ Base \in Nat /\ Len(After) \in Nat /\ Len(old) \in Nat
                /\ newToOld[k] \in 1..Len(old) /\ o \in 1..Len(old)
                /\ Len(start) = Base + Len(old) + Len(After) /\ DOMAIN start = 1..Len(start)
            BY <2>1, <6>1
          <6>6. x \in DOMAIN start /\ y \in DOMAIN start /\ x # y
            BY <6>3, <6>4, <6>5
          <6>7. start[x] # start[y]
            BY <2>2, <6>6 DEF IsInjective
          <6> QED  BY <6>2, <6>4, <6>7 DEF WidgetOf
        <5> QED  BY <5>2, <5>3
      <4>2. CASE \E j \in DOMAIN start : children[i] = start[j] /\ ~(j \in Base + 1..Base + Len(old))
        BY <2>2, <3>1, <4>2 DEF WidgetOf, IsInjective
      <4> QED  BY <2>4, <4>1, <4>2
    <3> QED  BY <3>2, <3>3 DEF Range
  <2>7. ASSUME NEW v \in Range(start) \ Range(children)
        PROVE  \E o \in DOMAIN old \ Matched : v = WidgetOf(o)
    <3>1. PICK j \in DOMAIN start : v = start[j]
      BY DEF Range
    <3>2. PICK o \in DOMAIN old : j = Base + o
      BY <2>5, <3>1
    <3>3. v = WidgetOf(o)
      BY <3>1, <3>2 DEF WidgetOf
    <3>4. o \notin Matched
      <4>1. \A k \in DOMAIN new : children[Base + k] \in Range(children)
        <5>1. \A k \in DOMAIN new : Base + k \in DOMAIN children
          BY <2>1
        <5> QED  BY <5>1 DEF Range
      <4> QED  BY <2>1, <2>3, <3>3, <4>1
    <3> QED  BY <3>3, <3>4
  <2> QED  BY <2>1, <2>6, <2>7
<1> QED  BY <1>1, Inductive, PTL

\* No state holds a null child outside the vector form's loop, and nothing
\* but widgets is ever prepared for unmount.
THEOREM TypesHold ==
    ASSUME NoneFree
    PROVE  Spec => []TypeOK
<1>1. IInv => TypeOK
  <2> SUFFICES ASSUME IInv PROVE TypeOK
    OBVIOUS
  <2> DEFINE Maybe == Widget \union {NoWidget}
  <2>1. /\ form \in Forms /\ pc \in Loops
        /\ old \in Lists[form] \union {<<>>} /\ new \in Lists[form] \union {<<>>}
        /\ n \in Nat /\ cursor \in Nat /\ shows \in [Widget -> Component]
        /\ newToOld \in [DOMAIN new -> 0..Len(old)]
        /\ tails \in Seq(DOMAIN new) /\ keep \subseteq DOMAIN new
        /\ \A k \in DOMAIN pred : pred[k] \in 0..k - 1
    BY DEF IInv, ValueOK, MatchOK, KeepOK
  <2>2. <<>> \in Seq(Widget) /\ <<>> \in Seq(Maybe)
    BY EmptySeq
  <2>3. /\ pc # "idle" => start \in Seq(Widget)
        /\ pc = "idle" => start = <<>> /\ moved = <<>> /\ result = <<>> /\ unmounted = {}
    BY DEF IInv, IdleOK, StartOK, Framed
  <2>4. /\ Len(old) \in Nat /\ DOMAIN old = 1..Len(old)
        /\ pc # "idle" => \A o \in DOMAIN old : WidgetOf(o) \in Widget
    BY ListFacts, WidgetFacts DEF IInv
  <2>5. children \in Seq(IF pc = "rebuild" THEN Maybe ELSE Widget)
    <3>1. CASE pc = "rebuild"
      <4>1. children = [o \in DOMAIN old |->
                IF \E k \in 1..n - 1 : newToOld[k] = o THEN NoWidget ELSE WidgetOf(o)]
        BY <3>1 DEF IInv, RebuildOK
      <4>2. children \in [1..Len(old) -> Maybe]
        BY <2>4, <3>1, <4>1
      <4> QED  BY <2>4, <3>1, <4>2
    <3>2. CASE pc \in {"keys", "order", "tails", "walk"}
      BY <2>3, <3>2 DEF IInv, UntouchedOK
    <3>3. CASE pc \in {"idle", "remove", "insert", "done"}
      BY <3>3 DEF IInv, IdleOK, RemoveOK, Removed, InsertOK, Inserted, DoneOK, Framed
    <3> QED  BY <2>1, <3>1, <3>2, <3>3 DEF Loops
  <2>6. moved \in Seq(Maybe)
    <3>1. CASE pc = "idle"
      BY <2>2, <2>3, <3>1
    <3>2. CASE pc = "done"
      <4>1. moved \in Seq({NoWidget})
        BY <3>2 DEF IInv, DoneOK
      <4> QED  BY <4>1, LenProperties, ElementOfSeq
    <3>3. CASE pc \notin {"idle", "done"}
      <4>1. moved \in [1..Len(old) -> Maybe]
        <5>1. CASE pc \in {"keys", "order", "tails", "walk", "rebuild"}
          <6>1. moved = [o \in DOMAIN old |-> NoWidget]
            BY <5>1 DEF IInv, UntouchedOK, RebuildOK
          <6> QED  BY <2>4, <6>1
        <5>2. CASE pc = "remove"
          <6>1. moved = [o \in DOMAIN old |->
                    IF o > n /\ o \in Matched \ KeptOld THEN WidgetOf(o) ELSE NoWidget]
            BY <5>2 DEF IInv, RemoveOK
          <6> QED  BY <2>4, <5>2, <6>1
        <5>3. CASE pc = "insert"
          <6>1. moved = [o \in DOMAIN old |->
                    IF \E k \in DOMAIN new \ keep : k >= n /\ newToOld[k] = o THEN WidgetOf(o) ELSE NoWidget]
            BY <5>3 DEF IInv, InsertOK
          <6> QED  BY <2>4, <5>3, <6>1
        <5> QED  BY <2>1, <3>3, <5>1, <5>2, <5>3 DEF Loops
      <4> QED  BY <2>4, <4>1
    <3> QED  BY <3>1, <3>2, <3>3
  <2>7. result \in Seq(Widget)
    <3>1. pc = "rebuild" \/ result = <<>>
      BY <2>1, <2>3 DEF IInv, Loops, UntouchedOK, RemoveOK, InsertOK, DoneOK
    <3> QED  BY <2>2, <3>1 DEF IInv, RebuildOK
  <2>8. unmounted \subseteq Widget
    <3>1. CASE pc \in {"idle", "keys", "order", "tails", "walk", "rebuild"}
      BY <2>3, <3>1 DEF IInv, UntouchedOK, RebuildOK
    <3>2. CASE pc \in {"remove", "insert", "done"}
      <4>1. unmounted \subseteq {WidgetOf(o) : o \in DOMAIN old}
        BY <3>2 DEF IInv, RemoveOK, DroppedOK
      <4> QED  BY <2>4, <3>2, <4>1
    <3> QED  BY <2>1, <3>1, <3>2 DEF Loops
  <2>9. start \in Seq(Widget)
    BY <2>2, <2>3
  <2> QED  BY <2>1, <2>5, <2>6, <2>7, <2>8, <2>9 DEF TypeOK
<1> QED  BY <1>1, Inductive, PTL

=============================================================================
