---------------------------- MODULE MatchingProofs ----------------------------
(***************************************************************************)
(* Proofs about the algorithms of Reconciler: which entries MatchLists     *)
(* pairs, and that ComputeKeepInPlace keeps as many of them as can be kept.*)
(* Nothing here depends on widgets, so every list a caller hands over is   *)
(* covered, with None entries or without.                                  *)
(***************************************************************************)
EXTENDS Reconciler, FiniteSetTheorems, SequenceTheorems, TLAPS

-----------------------------------------------------------------------------
(* What both proofs know of the variables.                                 *)

Typed ==
    /\ form \in Forms
    /\ old \in Seq(Component) /\ new \in Seq(Component)
    /\ n \in Nat /\ cursor \in Nat
    /\ newToOld \in [DOMAIN new -> 0..Len(old)]
    /\ tails \in Seq(DOMAIN new) /\ keep \subseteq DOMAIN new
    /\ pc \in {"idle", "keys", "order"} => tails = <<>>
    /\ pc \in {"idle", "keys", "order", "tails"} => keep = {}
    /\ pc \in {"keys", "order", "tails"} => n > 0
    /\ pc = "order" => cursor > 0
    /\ pc \in {"tails", "walk"} => pred \in [DOMAIN new -> {0} \union DOMAIN new]
    /\ pc = "walk" => cursor \in {0} \union DOMAIN new
    /\ pc = "walk" => n > Len(new)

LEMMA ListFacts ==
    ASSUME Typed
    PROVE  /\ Len(old) \in Nat /\ DOMAIN old = 1..Len(old)
           /\ Len(new) \in Nat /\ DOMAIN new = 1..Len(new)
           /\ \A i \in DOMAIN old : old[i] \in Component
           /\ \A i \in DOMAIN new : new[i] \in Component
           /\ tails \in Seq(DOMAIN new) /\ Len(tails) \in Nat /\ DOMAIN tails = 1..Len(tails)
           /\ \A p \in DOMAIN tails : tails[p] \in DOMAIN new
BY LenProperties, ElementOfSeq DEF Typed

\* A pile gets a new top, or a new pile is started.
LEMMA PlaceFacts ==
    ASSUME NEW S, NEW s \in Seq(S), NEW p \in 1..Len(s) + 1, NEW k \in S,
           NEW t, t = IF p > Len(s) THEN Append(s, k) ELSE [s EXCEPT ![p] = k]
    PROVE  /\ t \in Seq(S) /\ Len(t) \in Nat /\ DOMAIN t = 1..Len(t)
           /\ Len(s) <= Len(t) /\ Len(t) <= Len(s) + 1
           /\ t[p] = k /\ p \in DOMAIN t
           /\ \A q \in DOMAIN t : q # p => q \in DOMAIN s /\ t[q] = s[q]
<1>1. Len(s) \in Nat /\ DOMAIN s = 1..Len(s)
  BY LenProperties
<1>2. CASE p > Len(s)
  <2>1. p = Len(s) + 1 /\ t = Append(s, k)
    BY <1>1, <1>2
  <2>2. /\ t \in Seq(S) /\ Len(t) = Len(s) + 1 /\ t[Len(s) + 1] = k
        /\ \A q \in 1..Len(s) : t[q] = s[q]
    <3>1. t = Append(s, k)
      BY <2>1
    <3>2. QED
      BY ONLY <3>1, s \in Seq(S), k \in S, AppendProperties
  <2>3. DOMAIN t = 1..Len(t)
    BY <2>2, LenProperties
  <2>4. QED
    BY <1>1, <1>2, <2>1, <2>2, <2>3
<1>3. CASE ~(p > Len(s))
  <2>1. p \in 1..Len(s) /\ t = [s EXCEPT ![p] = k]
    BY <1>1, <1>3
  <2>2. t \in Seq(S) /\ Len(t) = Len(s)
    BY ONLY <2>1, s \in Seq(S), k \in S, ExceptSeq
  <2>3. DOMAIN t = 1..Len(t) /\ \A q \in DOMAIN s : t[q] = IF q = p THEN k ELSE s[q]
    BY <2>1, <2>2, LenProperties
  <2>4. QED
    BY <1>1, <1>3, <2>1, <2>2, <2>3
<1>4. QED
  BY <1>2, <1>3

LEMMA PileFacts ==
    ASSUME Typed, NEW v \in Nat, NEW p \in Pile(v)
    PROVE  /\ p \in 1..Len(tails) + 1
           /\ \A q \in DOMAIN tails : q < p => newToOld[tails[q]] < v
           /\ p \in DOMAIN tails => newToOld[tails[p]] >= v
<1>1. /\ p \in {q \in DOMAIN tails : newToOld[tails[q]] >= v} \union {Len(tails) + 1}
      /\ \A q \in DOMAIN tails : newToOld[tails[q]] >= v => p <= q
  BY DEF Pile, Least
<1>2. \A q \in DOMAIN tails : newToOld[tails[q]] \in Nat
  BY ListFacts DEF Typed
<1>3. QED
  BY <1>1, <1>2, ListFacts

LEMMA InitTyped == Init => Typed
<1> SUFFICES ASSUME Init PROVE Typed
  OBVIOUS
<1>1. <<>> \in Seq(Component) /\ <<>> \in Seq(DOMAIN new) /\ DOMAIN new = {}
  BY EmptySeq DEF Init
<1>2. form \in Forms /\ old \in Seq(Component)
  BY <1>1, ListAssumption DEF Init
<1>3. QED
  BY <1>1, <1>2 DEF Init, Typed

LEMMA NextTyped == Typed /\ [Next]_vars => Typed'
<1> SUFFICES ASSUME Typed, [Next]_vars PROVE Typed'
  OBVIOUS
<1> USE DEF Typed
<1>0. <<>> \in Seq(Component) /\ \A S : <<>> \in Seq(S)
  BY EmptySeq
<1>1. CASE Begin
  <2>1. new' \in Seq(Component)
    BY <1>1, ListAssumption DEF Begin
  <2>2. newToOld' \in [DOMAIN new' -> 0..Len(old)]
    BY <1>1, ListFacts DEF Begin
  <2>3. QED
    BY <1>0, <1>1, <2>1, <2>2 DEF Begin, lis
<1>2. CASE MatchByKey
  <2>1. newToOld' \in [DOMAIN new -> 0..Len(old)]
    <3>1. \A o \in Least(SameKey(n)) : o \in 0..Len(old)
      BY ListFacts DEF Least, SameKey
    <3>2. QED
      BY <1>2, <3>1 DEF MatchByKey
  <2>2. QED
    BY <1>2, <2>1 DEF MatchByKey, lists, lis
<1>3. CASE EndKeys
  BY <1>3 DEF EndKeys, lists, lis
<1>4. CASE MatchByOrder
  <2>1. PICK o \in NextUnkeyed :
          \/ /\ o <= Len(old)
             /\ newToOld' = [newToOld EXCEPT ![n] = o] /\ cursor' = o + 1
          \/ newToOld' = newToOld /\ cursor' = o
    BY <1>4 DEF MatchByOrder
  <2>2. o \in Nat /\ o > 0
    <3>1. /\ o \in {i \in cursor..Len(old) : i \notin Matched /\ old[i].key = NoKey} \union {Len(old) + 1}
          /\ cursor > 0
      BY <1>4 DEF MatchByOrder, NextUnkeyed, Least
    <3>2. QED
      BY <3>1, ListFacts
  <2>3. cursor' \in Nat /\ cursor' > 0
    BY <2>1, <2>2
  <2>5. newToOld' \in [DOMAIN new -> 0..Len(old)]
    <3>1. newToOld \in [DOMAIN new -> 0..Len(old)] /\ (o <= Len(old) => o \in 0..Len(old))
      BY <2>2, ListFacts
    <3>2. QED
      BY <2>1, <3>1
  <2>4. QED
    BY <1>4, <2>3, <2>5 DEF MatchByOrder, lists, lis
<1>5. CASE SkipKeyed
  BY <1>5 DEF SkipKeyed, lists, match, lis
<1>6. CASE EndOrder
  BY <1>6 DEF EndOrder, lists, match
<1>7. CASE PlaceTail
  <2>1. n \in DOMAIN new /\ newToOld[n] \in Nat
    BY <1>7, ListFacts DEF PlaceTail
  <2>2. PICK p \in Pile(newToOld[n]) :
          /\ pred' = [pred EXCEPT ![n] = IF p > 1 THEN tails[p - 1] ELSE 0]
          /\ tails' = IF p > Len(tails) THEN Append(tails, n) ELSE [tails EXCEPT ![p] = n]
    BY <1>7 DEF PlaceTail
  <2>3. p \in 1..Len(tails) + 1
    BY <2>1, PileFacts
  <2>4. tails' \in Seq(DOMAIN new)
    BY <2>1, <2>2, <2>3, PlaceFacts, tails \in Seq(DOMAIN new)
  <2>5. p > 1 => tails[p - 1] \in DOMAIN new
    BY <2>3, ListFacts
  <2>6. pred' \in [DOMAIN new -> {0} \union DOMAIN new]
    BY <1>7, <2>2, <2>5 DEF PlaceTail
  <2>7. QED
    BY <1>7, <2>4, <2>6 DEF PlaceTail, lists, match
<1>8. CASE SkipUnmatched
  BY <1>8 DEF SkipUnmatched, lists, match, lis
<1>9. CASE EndTails
  <2>1. cursor' \in {0} \union DOMAIN new
    <3>1. tails # <<>> => Len(tails) \in DOMAIN tails
      BY ListFacts, EmptySeq, LenProperties
    <3>2. tails # <<>> => Last(tails) \in DOMAIN new
      BY <3>1, ListFacts DEF Last
    <3>3. QED
      BY <1>9, <3>2 DEF EndTails
  <2>2. QED
    BY <1>9, <2>1, ListFacts DEF EndTails, lists, lis
<1>10. CASE WalkBack
  <2>1. cursor' \in {0} \union DOMAIN new
    BY <1>10 DEF WalkBack
  <2>2. QED
    BY <1>10, <2>1, ListFacts DEF WalkBack, lists
<1>11. CASE EndWalk
  BY <1>11, ListFacts DEF EndWalk, lists, match, lis
<1>12. CASE SpliceStep
  <2>1. /\ UNCHANGED <<form, old, new, cursor, newToOld, tails, pred, keep>> /\ n' \in Nat
        /\ pc' \in {"remove", "insert", "done"}
    BY <1>12 DEF SpliceStep, Stay, TakeOut, Drop, EndRemove, UpdateInPlace, PutBack, InsertFresh,
                 EndInsert, lists, match, lis
  <2>2. QED
    BY <2>1
<1>13. CASE ListStep
  <2>1. /\ UNCHANGED <<form, old, new, cursor, newToOld, tails, pred, keep>> /\ n' \in Nat
        /\ pc' \in {"rebuild", "done"}
    BY <1>13 DEF ListStep, Reuse, AppendFresh, ReturnResult, lists, match, lis
  <2>2. QED
    BY <2>1
<1>14. CASE ReconcileWidget
  <2>1. PICK l \in Lists[form] : new' = l /\ newToOld' = [k \in DOMAIN l |-> IF Keeps(l) THEN 1 ELSE 0]
    BY <1>14 DEF ReconcileWidget
  <2>2. new' \in Seq(Component)
    BY <2>1, ListAssumption
  <2>3. Keeps(l) => 1 \in 0..Len(old)
    BY ListFacts, EmptySeq, LenProperties DEF Keeps
  <2>4. newToOld' \in [DOMAIN new' -> 0..Len(old)]
    BY <2>1, <2>3, ListFacts
  <2>5. UNCHANGED <<form, old, n, cursor, tails, pred, keep>> /\ pc = "idle" /\ pc' = "done"
    BY <1>14 DEF ReconcileWidget, lis
  <2>6. QED
    BY <1>0, <2>2, <2>4, <2>5
<1>15. CASE Retain
  BY <1>0, <1>15 DEF Retain
<1>16. CASE UNCHANGED vars
  BY <1>16 DEF vars, lists, match, lis
<1>17. QED
  BY <1>1, <1>2, <1>3, <1>4, <1>5, <1>6, <1>7, <1>8, <1>9, <1>10, <1>11, <1>12, <1>13, <1>14, <1>15, <1>16
     DEF Next, MatchStep, KeepStep
-----------------------------------------------------------------------------
(* ComputeKeepInPlace: patience sorting finds a longest chain.             *)

\* The positions of new before m that are matched.
Paired(m) == {k \in DOMAIN new : k < m /\ newToOld[k] # 0}

\* What stands behind the piles: every position before m was put on a pile g[k],
\* whose top can only have come down since, and later and larger ones went to
\* later piles; its predecessor is a smaller one on the pile before.
Sorted(g, m) ==
    /\ g \in [DOMAIN new -> Nat]
    /\ \A p, q \in DOMAIN tails : p < q => newToOld[tails[p]] < newToOld[tails[q]]
    /\ \A p \in DOMAIN tails : tails[p] \in Paired(m) /\ g[tails[p]] = p
    /\ \A k \in Paired(m) : g[k] \in DOMAIN tails /\ newToOld[tails[g[k]]] <= newToOld[k]
    /\ \A j, k \in Paired(m) : j < k /\ newToOld[j] < newToOld[k] => g[j] < g[k]
    /\ \A k \in Paired(m) :
          IF g[k] = 1 THEN pred[k] = 0
          ELSE /\ pred[k] \in Paired(m) /\ g[pred[k]] = g[k] - 1
               /\ pred[k] < k /\ newToOld[pred[k]] < newToOld[k]

\* The walk takes one position from each pile, from the last to the first.
Walked(g) ==
    /\ Cardinality(keep) + (IF cursor = 0 THEN 0 ELSE g[cursor]) = Len(tails)
    /\ cursor # 0 =>
          /\ cursor \in Paired(Len(new) + 1)
          /\ \A k \in keep : cursor < k /\ newToOld[cursor] < newToOld[k]

Chain == keep \subseteq Paired(Len(new) + 1) /\ Increasing(keep)

Longest ==
    \A S \in SUBSET Paired(Len(new) + 1) : Increasing(S) => Cardinality(S) <= Cardinality(keep)

KeepInv ==
    /\ Typed
    /\ pc = "tails" => \E g : Sorted(g, n)
    /\ pc = "walk" => Chain /\ \E g : Sorted(g, Len(new) + 1) /\ Walked(g)
    /\ pc \in {"remove", "insert"} => Chain /\ Longest

LEMMA PairedFacts ==
    ASSUME Typed, NEW m, NEW k \in Paired(m)
    PROVE  k \in DOMAIN new /\ k \in Nat /\ newToOld[k] \in Nat /\ newToOld[k] # 0 /\ k < m
BY ListFacts DEF Paired, Typed

LEMMA PlaceSorted ==
    ASSUME Typed, PlaceTail, NEW g, Sorted(g, n)
    PROVE  \E h : Sorted(h, n)'
<1>1. n \in DOMAIN new /\ newToOld[n] \in Nat /\ newToOld[n] # 0 /\ n \in Nat
  BY ListFacts DEF PlaceTail, Typed
<1>2. PICK p \in Pile(newToOld[n]) :
        /\ pred' = [pred EXCEPT ![n] = IF p > 1 THEN tails[p - 1] ELSE 0]
        /\ tails' = IF p > Len(tails) THEN Append(tails, n) ELSE [tails EXCEPT ![p] = n]
  BY DEF PlaceTail
<1>3. /\ p \in 1..Len(tails) + 1
      /\ \A q \in DOMAIN tails : q < p => newToOld[tails[q]] < newToOld[n]
      /\ p \in DOMAIN tails => newToOld[tails[p]] >= newToOld[n]
  BY <1>1, PileFacts
<1>4. /\ Len(tails') \in Nat /\ DOMAIN tails' = 1..Len(tails')
      /\ Len(tails) <= Len(tails') /\ Len(tails') <= Len(tails) + 1
      /\ tails'[p] = n /\ p \in DOMAIN tails'
      /\ \A q \in DOMAIN tails' : q # p => q \in DOMAIN tails /\ tails'[q] = tails[q]
  <2>1. tails \in Seq(DOMAIN new)
    BY DEF Typed
  <2>2. QED
    BY <1>1, <1>2, <1>3, <2>1, PlaceFacts
<1>5. /\ Len(tails) \in Nat /\ DOMAIN tails = 1..Len(tails)
      /\ \A q \in DOMAIN tails : tails[q] \in Paired(n) /\ newToOld[tails[q]] \in Nat
      /\ pred \in [DOMAIN new -> {0} \union DOMAIN new]
  <2>1. \A q \in DOMAIN tails : tails[q] \in Paired(n)
    BY DEF Sorted
  <2>2. QED
    BY <2>1, PairedFacts, ListFacts DEF PlaceTail, Typed
<1>6. UNCHANGED <<new, newToOld>> /\ n' = n + 1
  BY DEF PlaceTail, lists, match
<1>h. PICK h : h = [g EXCEPT ![n] = p]
  OBVIOUS
<1>7. /\ Paired(n)' = Paired(n) \union {n} /\ n \notin Paired(n)
      /\ \A k \in Paired(n) : h[k] = g[k] /\ k < n /\ newToOld[k] \in Nat /\ k \in DOMAIN new
      /\ h[n] = p /\ h \in [DOMAIN new -> Nat]
  <2>1. \A k \in Paired(n) : k < n /\ newToOld[k] \in Nat /\ k \in DOMAIN new /\ k \in Nat
    BY PairedFacts
  <2>2. Paired(n)' = Paired(n) \union {n}
    <3>1. Paired(n)' = {k \in DOMAIN new : k < n + 1 /\ newToOld[k] # 0}
      BY <1>6 DEF Paired
    <3>2. \A k \in DOMAIN new : k < n + 1 <=> k < n \/ k = n
      BY <1>1, ListFacts
    <3>3. QED
      BY <1>1, <3>1, <3>2 DEF Paired
  <2>3. g \in [DOMAIN new -> Nat] /\ p \in Nat
    BY <1>3, <1>5 DEF Sorted
  <2>4. QED
    BY <1>1, <1>h, <2>1, <2>2, <2>3
<1>8. \A q, r \in DOMAIN tails' : q < r => newToOld[tails'[q]] < newToOld[tails'[r]]
  <2> SUFFICES ASSUME NEW q \in DOMAIN tails', NEW r \in DOMAIN tails', q < r
               PROVE  newToOld[tails'[q]] < newToOld[tails'[r]]
    OBVIOUS
  <2>0. \A i, j \in DOMAIN tails : i < j => newToOld[tails[i]] < newToOld[tails[j]]
    BY DEF Sorted
  <2>1. CASE r = p
    BY <2>1, <1>3, <1>4
  <2>2. CASE q = p
    <3>1. r \in DOMAIN tails /\ tails'[r] = tails[r]
      BY <2>2, <1>4
    <3>2. p \in DOMAIN tails
      BY <3>1, <2>2, <1>3, <1>5
    <3>3. newToOld[tails[p]] < newToOld[tails[r]] /\ newToOld[tails[p]] >= newToOld[n]
      BY <3>1, <3>2, <2>0, <2>2, <1>3
    <3>4. QED
      BY <3>1, <3>2, <3>3, <2>2, <1>1, <1>4, <1>5
  <2>3. CASE q # p /\ r # p
    BY <2>0, <2>3, <1>4
  <2>4. QED
    BY <2>1, <2>2, <2>3
<1>9. \A q \in DOMAIN tails' : tails'[q] \in Paired(n)' /\ h[tails'[q]] = q
  <2>1. \A q \in DOMAIN tails : tails[q] \in Paired(n) /\ g[tails[q]] = q
    BY DEF Sorted
  <2>2. QED
    BY <2>1, <1>4, <1>7
<1>10. \A k \in Paired(n)' : h[k] \in DOMAIN tails' /\ newToOld[tails'[h[k]]] <= newToOld[k]
  <2>1. ASSUME NEW k \in Paired(n)
        PROVE  h[k] \in DOMAIN tails' /\ newToOld[tails'[h[k]]] <= newToOld[k]
    <3>1. g[k] \in DOMAIN tails /\ newToOld[tails[g[k]]] <= newToOld[k] /\ h[k] = g[k]
      BY <1>7 DEF Sorted
    <3>2. g[k] \in DOMAIN tails'
      BY <3>1, <1>4, <1>5
    <3>3. CASE g[k] = p
      BY <3>1, <3>2, <3>3, <1>1, <1>3, <1>4, <1>5, <1>7
    <3>4. CASE g[k] # p
      BY <3>1, <3>2, <3>4, <1>4
    <3>5. QED
      BY <3>3, <3>4
  <2>2. h[n] \in DOMAIN tails' /\ newToOld[tails'[h[n]]] <= newToOld[n]
    BY <1>1, <1>4, <1>7
  <2>3. QED
    BY <2>1, <2>2, <1>7
<1>11. \A j, k \in Paired(n)' : j < k /\ newToOld[j] < newToOld[k] => h[j] < h[k]
  <2>1. ASSUME NEW j \in Paired(n), newToOld[j] < newToOld[n] PROVE h[j] < h[n]
    <3>1. g[j] \in DOMAIN tails /\ newToOld[tails[g[j]]] <= newToOld[j] /\ h[j] = g[j]
      BY <1>7 DEF Sorted
    <3>2. newToOld[tails[g[j]]] < newToOld[n]
      BY <2>1, <3>1, <1>1, <1>5, <1>7
    <3> SUFFICES ASSUME g[j] >= p PROVE FALSE
      BY <3>1, <1>3, <1>5, <1>7
    <3>3. p \in DOMAIN tails
      BY <3>1, <1>3, <1>5
    <3>4. newToOld[tails[p]] <= newToOld[tails[g[j]]]
      <4>1. CASE g[j] = p
        BY <4>1, <3>3, <1>5
      <4>2. CASE g[j] > p
        BY <4>2, <3>1, <3>3, <1>5 DEF Sorted
      <4>3. QED
        BY <4>1, <4>2, <3>1, <1>3, <1>5
    <3>5. QED
      BY <3>1, <3>2, <3>3, <3>4, <1>1, <1>3, <1>5
  <2>2. ASSUME NEW j \in Paired(n), NEW k \in Paired(n), j < k, newToOld[j] < newToOld[k]
        PROVE  h[j] < h[k]
    BY <2>2, <1>7 DEF Sorted
  <2>3. \A k \in Paired(n) : ~(n < k)
    BY <1>1, <1>7, PairedFacts
  <2>4. QED
    BY <2>1, <2>2, <2>3, <1>1, <1>7
<1>12. \A k \in Paired(n)' :
          IF h[k] = 1 THEN pred'[k] = 0
          ELSE /\ pred'[k] \in Paired(n)' /\ h[pred'[k]] = h[k] - 1
               /\ pred'[k] < k /\ newToOld[pred'[k]] < newToOld[k]
  <2>1. ASSUME NEW k \in Paired(n)
        PROVE  IF h[k] = 1 THEN pred'[k] = 0
               ELSE /\ pred'[k] \in Paired(n) /\ h[pred'[k]] = h[k] - 1
                    /\ pred'[k] < k /\ newToOld[pred'[k]] < newToOld[k]
    <3>1. pred'[k] = pred[k] /\ h[k] = g[k]
      BY <1>2, <1>5, <1>7
    <3>2. QED
      BY <3>1, <1>7 DEF Sorted
  <2>2. CASE p = 1
    <3>1. pred'[n] = 0
      BY <2>2, <1>1, <1>2, <1>5
    <3>2. QED
      BY <2>1, <2>2, <3>1, <1>7
  <2>3. CASE p # 1
    <3>1. p - 1 \in DOMAIN tails /\ p > 1 /\ p - 1 < p
      BY <2>3, <1>3, <1>5
    <3>2. pred'[n] = tails[p - 1]
      BY <3>1, <1>1, <1>2, <1>5
    <3>3. /\ tails[p - 1] \in Paired(n) /\ g[tails[p - 1]] = p - 1
          /\ newToOld[tails[p - 1]] < newToOld[n]
      BY <3>1, <1>3 DEF Sorted
    <3>4. QED
      BY <2>1, <2>3, <3>2, <3>3, <1>7
  <2>4. QED
    BY <2>2, <2>3
<1>13. Sorted(h, n)'
  BY <1>6, <1>7, <1>8, <1>9, <1>10, <1>11, <1>12 DEF Sorted
<1>14. QED
  BY <1>13

LEMMA FirstNumbers ==
    ASSUME NEW m \in Nat
    PROVE  IsFiniteSet(1..m) /\ Cardinality(1..m) = m
<1>1. 1 \in Int /\ m \in Int
  OBVIOUS
<1>2. IsFiniteSet(1..m) /\ Cardinality(1..m) = IF 1 > m THEN 0 ELSE m - 1 + 1
  BY <1>1, FS_Interval
<1>3. QED
  BY <1>2

\* Every increasing set of matched positions meets each pile at most once.
LEMMA SortedBounds ==
    ASSUME Typed, NEW g, Sorted(g, Len(new) + 1),
           NEW S \in SUBSET Paired(Len(new) + 1), Increasing(S)
    PROVE  Cardinality(S) <= Len(tails)
<1> DEFINE f == [k \in S |-> g[k]]
<1>1. Len(tails) \in Nat /\ DOMAIN tails = 1..Len(tails)
  BY ListFacts
<1>2. f \in [S -> 1..Len(tails)]
  BY <1>1 DEF Sorted
<1>3. ASSUME NEW j \in S, NEW k \in S, j < k PROVE g[j] < g[k]
  BY <1>3 DEF Sorted, Increasing
<1>4. \A j, k \in S : f[j] = f[k] => j = k
  <2>1. \A k \in S : k \in Nat /\ g[k] \in Nat
    BY <1>1, <1>2, PairedFacts
  <2>2. QED
    BY <1>3, <2>1
<1>5. f \in Injection(S, 1..Len(tails))
  <2>1. DOMAIN f = S
    OBVIOUS
  <2> HIDE DEF f
  <2>2. IsInjective(f)
    BY <1>4, <2>1 DEF IsInjective
  <2>3. QED
    BY <1>2, <2>2 DEF Injection
<1>6. IsFiniteSet(1..Len(tails)) /\ Cardinality(1..Len(tails)) = Len(tails)
  BY <1>1, FirstNumbers
<1>7. QED
  BY <1>5, <1>6, FS_Injection

LEMMA WalkStep ==
    ASSUME Typed, WalkBack, Chain, NEW g, Sorted(g, Len(new) + 1), Walked(g)
    PROVE  Chain' /\ Sorted(g, Len(new) + 1)' /\ Walked(g)'
<1>1. /\ cursor # 0 /\ keep' = keep \union {cursor} /\ cursor' = pred[cursor]
      /\ UNCHANGED <<new, newToOld, tails, pred>>
  BY DEF WalkBack, lists
<1>2. cursor \in Paired(Len(new) + 1) /\ \A k \in keep : cursor < k /\ newToOld[cursor] < newToOld[k]
  BY <1>1 DEF Walked
<1>3. Sorted(g, Len(new) + 1)' /\ Paired(Len(new) + 1)' = Paired(Len(new) + 1)
  BY <1>1 DEF Sorted, Paired
<1>4. cursor \notin keep /\ cursor \in Nat /\ newToOld[cursor] \in Nat
  BY <1>2, PairedFacts
<1>5. \A k \in keep : k \in Nat /\ newToOld[k] \in Nat /\ k \in DOMAIN new
  BY ListFacts DEF Typed
<1>6. Chain'
  <2>1. keep' \subseteq Paired(Len(new) + 1)'
    BY <1>1, <1>2, <1>3 DEF Chain
  <2>2. Increasing(keep)'
    <3> SUFFICES ASSUME NEW i \in keep', NEW j \in keep', i < j PROVE newToOld[i] < newToOld[j]
      BY <1>1 DEF Increasing
    <3>1. CASE i \in keep /\ j \in keep
      BY <3>1 DEF Chain, Increasing
    <3>2. CASE i = cursor /\ j \in keep
      BY <3>2, <1>2
    <3>3. CASE j = cursor /\ i \in keep
      BY <3>3, <1>2, <1>4, <1>5
    <3>4. QED
      BY <3>1, <3>2, <3>3, <1>1, <1>4
  <2>3. QED
    BY <2>1, <2>2 DEF Chain, Increasing
<1>7. IsFiniteSet(keep) /\ Cardinality(keep) \in Nat
  <2>1. IsFiniteSet(DOMAIN new)
    BY ListFacts, FirstNumbers
  <2>2. keep \in SUBSET (DOMAIN new)
    BY DEF Typed
  <2>3. IsFiniteSet(keep)
    BY <2>1, <2>2, FS_Subset
  <2>4. QED
    BY <2>3, FS_CardinalityType
<1>8. Cardinality(keep') = Cardinality(keep) + 1
  BY <1>1, <1>4, <1>7, FS_AddElement
<1>9. /\ g[cursor] \in Nat
      /\ IF g[cursor] = 1 THEN cursor' = 0
         ELSE /\ cursor' \in Paired(Len(new) + 1) /\ g[cursor'] = g[cursor] - 1
              /\ cursor' < cursor /\ newToOld[cursor'] < newToOld[cursor]
  BY <1>1, <1>2, PairedFacts DEF Sorted
<1>10. Cardinality(keep') + (IF cursor' = 0 THEN 0 ELSE g[cursor']) = Len(tails')
  <2>1. Cardinality(keep) + g[cursor] = Len(tails)
    BY <1>1 DEF Walked
  <2>2. cursor' \in Paired(Len(new) + 1) => cursor' # 0
    BY PairedFacts, ListFacts
  <2>3. QED
    BY <1>1, <1>7, <1>8, <1>9, <2>1, <2>2
<1>11. cursor' # 0 =>
          /\ cursor' \in Paired(Len(new) + 1)'
          /\ \A k \in keep' : cursor' < k /\ newToOld[cursor'] < newToOld[k]
  <2> SUFFICES ASSUME cursor' # 0
               PROVE  /\ cursor' \in Paired(Len(new) + 1)
                      /\ \A k \in keep' : cursor' < k /\ newToOld[cursor'] < newToOld[k]
    BY <1>3
  <2>1. /\ cursor' \in Paired(Len(new) + 1)
        /\ cursor' < cursor /\ newToOld[cursor'] < newToOld[cursor]
    BY <1>9
  <2>2. cursor' \in Nat /\ newToOld[cursor'] \in Nat
    BY <2>1, PairedFacts
  <2>3. QED
    BY <2>1, <2>2, <1>1, <1>2, <1>4, <1>5
<1>12. Walked(g)'
  BY <1>1, <1>10, <1>11 DEF Walked
<1>13. QED
  BY <1>3, <1>6, <1>12

LEMMA NextKeep == KeepInv /\ [Next]_vars => KeepInv'
<1> SUFFICES ASSUME KeepInv, [Next]_vars PROVE KeepInv'
  OBVIOUS
<1>0. Typed /\ Typed'
  BY NextTyped DEF KeepInv
<1>1. CASE EndOrder
  <2>1. /\ pc' \in {"tails", "rebuild"} /\ n' = 1 /\ tails' = <<>> /\ new' = new
        /\ newToOld' = newToOld
    BY <1>0, <1>1 DEF EndOrder, Typed, lists, match
  <2>2. Paired(n)' = {} /\ DOMAIN tails' = {}
    BY <1>0, <2>1, ListFacts DEF Paired
  <2>3. PICK g : g = [k \in DOMAIN new |-> 0]
    OBVIOUS
  <2>4. g \in [DOMAIN new' -> Nat]
    BY <2>1, <2>3
  <2>5. Sorted(g, n)'
    BY <2>2, <2>4 DEF Sorted
  <2>6. QED
    BY <1>0, <2>1, <2>5 DEF KeepInv
<1>2. CASE PlaceTail
  <2>1. PICK g : Sorted(g, n)
    BY <1>2 DEF KeepInv, PlaceTail
  <2>2. \E h : Sorted(h, n)'
    BY <1>0, <1>2, <2>1, PlaceSorted
  <2>3. pc' = "tails"
    BY <1>2 DEF PlaceTail
  <2>4. QED
    BY <1>0, <2>2, <2>3 DEF KeepInv
<1>3. CASE SkipUnmatched
  <2>1. PICK g : Sorted(g, n)
    BY <1>3 DEF KeepInv, SkipUnmatched
  <2>2. /\ pc' = "tails" /\ n' = n + 1 /\ newToOld[n] = 0
        /\ UNCHANGED <<new, newToOld, tails, pred>>
    BY <1>3 DEF SkipUnmatched, lists, match, lis
  <2>3. Paired(n)' = Paired(n)
    <3>1. Paired(n)' = {k \in DOMAIN new : k < n + 1 /\ newToOld[k] # 0}
      BY <2>2 DEF Paired
    <3>2. n \in Nat /\ \A k \in DOMAIN new : k \in Nat
      BY <1>0, ListFacts DEF Typed
    <3>3. QED
      BY <2>2, <3>1, <3>2 DEF Paired
  <2>4. Sorted(g, n)'
    BY <2>1, <2>2, <2>3 DEF Sorted
  <2>5. QED
    BY <1>0, <2>2, <2>4 DEF KeepInv
<1>4. CASE EndTails
  <2>1. PICK g : Sorted(g, n)
    BY <1>4 DEF KeepInv, EndTails
  <2>2. /\ pc' = "walk" /\ n > Len(new) /\ keep' = {} /\ keep = {}
        /\ cursor' = IF tails = <<>> THEN 0 ELSE Last(tails)
        /\ UNCHANGED <<new, newToOld, tails, pred>>
    BY <1>0, <1>4 DEF EndTails, Typed, lists, lis
  <2>3. Paired(Len(new) + 1) = Paired(n)
    <3>1. n \in Nat /\ Len(new) \in Nat /\ DOMAIN new = 1..Len(new)
      BY <1>0, ListFacts DEF Typed
    <3>2. \A k \in DOMAIN new : k < n /\ k < Len(new) + 1
      BY <2>2, <3>1
    <3>3. QED
      BY <3>2 DEF Paired
  <2>4. Sorted(g, Len(new) + 1)
    BY <2>1, <2>3 DEF Sorted
  <2>5. Sorted(g, Len(new) + 1)'
    BY <2>2, <2>4 DEF Sorted, Paired
  <2>6. Chain'
    BY <2>2 DEF Chain, Increasing
  <2>7. Cardinality(keep') = 0
    BY <2>2, FS_EmptySet
  <2>8. Walked(g)'
    <3>1. CASE tails = <<>>
      BY <2>2, <2>7, <3>1, EmptySeq DEF Walked
    <3>2. CASE tails # <<>>
      <4>1. Len(tails) \in DOMAIN tails /\ Len(tails) \in Nat
        BY <1>0, <3>2, ListFacts, EmptySeq, LenProperties DEF Typed
      <4>2. cursor' = tails[Len(tails)]
        BY <2>2, <3>2 DEF Last
      <4>3. tails[Len(tails)] \in Paired(Len(new) + 1) /\ g[tails[Len(tails)]] = Len(tails)
        BY <2>4, <4>1 DEF Sorted
      <4>4. tails[Len(tails)] \in Paired(Len(new) + 1)'
        BY <2>2, <4>3 DEF Paired
      <4>5. cursor' # 0
        BY <1>0, <4>2, <4>3, PairedFacts, ListFacts
      <4>6. QED
        BY <2>2, <2>7, <4>1, <4>2, <4>3, <4>4, <4>5 DEF Walked
    <3>3. QED
      BY <3>1, <3>2
  <2>9. QED
    BY <1>0, <2>2, <2>5, <2>6, <2>8 DEF KeepInv
<1>5. CASE WalkBack
  <2>1. PICK g : Sorted(g, Len(new) + 1) /\ Walked(g)
    BY <1>5 DEF KeepInv, WalkBack
  <2>2. pc = "walk" /\ pc' = "walk"
    BY <1>5 DEF WalkBack
  <2>3. Chain' /\ Sorted(g, Len(new) + 1)' /\ Walked(g)'
    BY <1>0, <1>5, <2>1, <2>2, WalkStep DEF KeepInv
  <2>4. QED
    BY <1>0, <2>2, <2>3 DEF KeepInv
<1>6. CASE EndWalk
  <2>1. PICK g : Sorted(g, Len(new) + 1) /\ Walked(g)
    BY <1>6 DEF KeepInv, EndWalk
  <2>2. pc = "walk" /\ pc' = "remove" /\ cursor = 0 /\ UNCHANGED <<new, newToOld, keep>>
    BY <1>6 DEF EndWalk, lists, match, lis
  <2>3. Cardinality(keep) = Len(tails)
    <3>1. IsFiniteSet(DOMAIN new) /\ keep \in SUBSET (DOMAIN new)
      BY <1>0, ListFacts, FirstNumbers DEF Typed
    <3>2. IsFiniteSet(keep)
      BY <3>1, FS_Subset
    <3>3. Cardinality(keep) \in Nat
      BY <3>2, FS_CardinalityType
    <3>4. QED
      BY <2>1, <2>2, <3>3 DEF Walked
  <2>4. Longest
    BY <1>0, <2>1, <2>3, SortedBounds DEF Longest
  <2>5. Chain
    BY <2>2 DEF KeepInv
  <2>6. Chain' /\ Longest'
    BY <2>2, <2>4, <2>5 DEF Chain, Longest, Increasing, Paired
  <2>7. QED
    BY <1>0, <2>2, <2>6 DEF KeepInv
<1>7. CASE SpliceStep
  <2>1. /\ pc \in {"remove", "insert"} /\ pc' \in {"remove", "insert", "done"}
        /\ UNCHANGED <<new, newToOld, keep>>
    BY <1>7 DEF SpliceStep, Stay, TakeOut, Drop, EndRemove, UpdateInPlace, PutBack, InsertFresh,
                EndInsert, lists, match, lis
  <2>2. Chain' /\ Longest'
    BY <2>1 DEF KeepInv, Chain, Longest, Increasing, Paired
  <2>3. QED
    BY <1>0, <2>1, <2>2 DEF KeepInv
<1>8. CASE pc' \in {"idle", "keys", "order", "rebuild", "done"}
  BY <1>0, <1>8 DEF KeepInv
<1>9. CASE UNCHANGED vars
  <2>1. UNCHANGED <<pc, n, cursor, new, newToOld, tails, pred, keep>>
    BY <1>9 DEF vars, lists, match, lis
  <2>2. /\ \A g : Sorted(g, n) => Sorted(g, n)'
        /\ \A g : Sorted(g, Len(new) + 1) => Sorted(g, Len(new) + 1)'
        /\ \A g : Walked(g) => Walked(g)'
    BY <2>1 DEF Sorted, Walked, Paired
  <2>3. (Chain => Chain') /\ (Longest => Longest')
    BY <2>1 DEF Chain, Longest, Increasing, Paired
  <2>4. QED
    BY <1>0, <2>1, <2>2, <2>3 DEF KeepInv
<1>10. QED
  <2>1. Begin \/ MatchByKey \/ EndKeys \/ MatchByOrder \/ SkipKeyed \/ ListStep \/ ReconcileWidget \/ Retain
           => pc' \in {"idle", "keys", "order", "rebuild", "done"}
    BY DEF Begin, MatchByKey, EndKeys, MatchByOrder, SkipKeyed, ListStep, Reuse, AppendFresh,
           ReturnResult, ReconcileWidget, Retain
  <2>2. QED
    BY <2>1, <1>1, <1>2, <1>3, <1>4, <1>5, <1>6, <1>7, <1>8, <1>9 DEF Next, MatchStep, KeepStep

\* Whatever the match is, the entries ComputeKeepInPlace leaves where they are keep
\* their order, and no larger set of matched entries could: patience sorting with
\* std::lower_bound, its predecessors read before a pile changes, and the walk back
\* from the last tail yield a longest increasing subsequence (Reconciler.cpp).
THEOREM KeepsLongest == Spec => []KeepIsLongest
<1>1. Init => KeepInv
  BY InitTyped DEF Init, KeepInv
<1>2. KeepInv => KeepIsLongest
  <2> SUFFICES ASSUME KeepInv, pc \in {"remove", "insert"}
               PROVE  LET matched == {k \in DOMAIN new : newToOld[k] # 0}
                      IN  /\ keep \subseteq matched /\ Increasing(keep)
                          /\ \A S \in SUBSET matched : Increasing(S) => Cardinality(S) <= Cardinality(keep)
    BY DEF KeepIsLongest
  <2>1. Chain /\ Longest /\ Typed
    BY DEF KeepInv
  <2>2. Paired(Len(new) + 1) = {k \in DOMAIN new : newToOld[k] # 0}
    BY <2>1, ListFacts DEF Paired
  <2>3. QED
    BY <2>1, <2>2 DEF Chain, Longest
<1>3. QED
  BY <1>1, <1>2, NextKeep, PTL DEF Spec

-----------------------------------------------------------------------------
(* Counting the entries of one tag and key.                                *)

\* A set of naturals has a least element: induction without its own operator.
LEMMA LeastNatural ==
    ASSUME NEW S \in SUBSET Nat, S # {}
    PROVE  \E x \in S : \A y \in S : x <= y
<1> DEFINE R == OpToRel(<, Nat)
<1>1. IsWellFoundedOn(R, Nat)
  BY NatLessThanWellFounded
<1>2. \A x, y \in Nat : x < y => <<x, y>> \in R
  BY Zenon DEF OpToRel
<1> HIDE DEF R
<1>3. PICK x \in S : \A y \in S : ~(<<y, x>> \in R)
  BY <1>1, WFMin
<1>4. \A y \in S : ~(y < x)
  BY <1>2, <1>3
<1>5. QED
  BY <1>4

\* How many of S come up to i.
Rank(S, i) == Cardinality(S \intersect (1..i))

LEMMA RankNext ==
    ASSUME NEW S, NEW i \in Nat
    PROVE  /\ Rank(S, i) \in Nat /\ Rank(S, 0) = 0
           /\ Rank(S, i + 1) = IF i + 1 \in S THEN Rank(S, i) + 1 ELSE Rank(S, i)
<1> DEFINE T == S \intersect (1..i)
<1>1. IsFiniteSet(1..i) /\ T \in SUBSET (1..i)
  BY FirstNumbers
<1>2. IsFiniteSet(T)
  BY <1>1, FS_Subset
<1>3. Cardinality(T) \in Nat
  BY <1>2, FS_CardinalityType
<1>4. S \intersect (1..i + 1) = IF i + 1 \in S THEN T \union {i + 1} ELSE T
  OBVIOUS
<1>5. i + 1 \notin T
  OBVIOUS
<1>6. Rank(S, 0) = 0
  <2>1. S \intersect (1..0) = {}
    OBVIOUS
  <2>2. QED
    BY <2>1, FS_EmptySet DEF Rank
<1>7. Rank(S, i) = Cardinality(T)
  BY DEF Rank
<1> HIDE DEF T
<1>8. Cardinality(T \union {i + 1}) = Cardinality(T) + 1
  BY <1>2, <1>5, FS_AddElement
<1>9. QED
  BY <1>3, <1>4, <1>6, <1>7, <1>8 DEF Rank

\* A later element of S has a higher rank.
LEMMA RankGrows ==
    ASSUME NEW S, NEW i \in Nat, NEW j \in Nat, i < j, j \in S
    PROVE  Rank(S, i) < Rank(S, j)
<1>1. IsFiniteSet(1..j - 1) /\ IsFiniteSet(S \intersect (1..j - 1))
  <2>1. IsFiniteSet(1..j - 1) /\ S \intersect (1..j - 1) \in SUBSET (1..j - 1)
    BY FirstNumbers, j - 1 \in Nat
  <2>2. QED
    BY <2>1, FS_Subset
<1>2. S \intersect (1..i) \in SUBSET (S \intersect (1..j - 1))
  OBVIOUS
<1>3. Rank(S, i) <= Rank(S, j - 1)
  BY <1>1, <1>2, FS_Subset DEF Rank
<1>4. j - 1 \in Nat /\ (j - 1) + 1 = j
  OBVIOUS
<1>5. Rank(S, j) = Rank(S, j - 1) + 1 /\ Rank(S, j - 1) \in Nat /\ Rank(S, i) \in Nat
  BY <1>4, RankNext
<1>6. QED
  BY <1>3, <1>5

LEMMA RankUnique ==
    ASSUME NEW S \in SUBSET (Nat \ {0}), NEW i \in S, NEW j \in S, Rank(S, i) = Rank(S, j)
    PROVE  i = j
<1>1. Rank(S, i) \in Nat /\ Rank(S, j) \in Nat
  BY RankNext
<1>2. QED
  BY <1>1, RankGrows

\* Every rank up to that of i is the rank of some element up to i.
LEMMA RankAttained ==
    ASSUME NEW S \in SUBSET (Nat \ {0}), NEW i \in Nat, NEW v \in Nat, 0 < v, v <= Rank(S, i)
    PROVE  \E j \in S : j <= i /\ Rank(S, j) = v
<1> DEFINE T == {j \in Nat : v <= Rank(S, j)}
<1>1. T \in SUBSET Nat /\ i \in T
  OBVIOUS
<1>2. PICK j \in T : \A k \in T : j <= k
  BY <1>1, LeastNatural
<1>3. j \in Nat /\ v <= Rank(S, j) /\ j <= i /\ \A k \in Nat : k < j => ~(v <= Rank(S, k))
  BY <1>1, <1>2
<1> HIDE DEF T
<1>4. j # 0
  BY <1>3, RankNext
<1>5. j - 1 \in Nat /\ j - 1 < j /\ (j - 1) + 1 = j
  BY <1>3, <1>4
<1>6. ~(v <= Rank(S, j - 1))
  BY <1>3, <1>5
<1>7. Rank(S, j - 1) \in Nat /\ Rank(S, j) = IF j \in S THEN Rank(S, j - 1) + 1 ELSE Rank(S, j - 1)
  BY <1>5, RankNext
<1>8. j \in S /\ Rank(S, j) = v
  BY <1>3, <1>6, <1>7
<1>9. QED
  BY <1>3, <1>8

Class(l, e) == {i \in DOMAIN l : l[i].tag = e.tag /\ l[i].key = e.key}

LEMMA OccurrenceRank ==
    ASSUME NEW l \in Seq(Component), NEW e, NEW i \in Class(l, e)
    PROVE  /\ Class(l, e) \in SUBSET (Nat \ {0}) /\ i \in Nat
           /\ Occurrence(l, i) = Rank(Class(l, e), i)
           /\ Occurrence(l, i) \in Nat /\ 0 < Occurrence(l, i)
<1>1. DOMAIN l = 1..Len(l) /\ Len(l) \in Nat
  BY LenProperties
<1>2. Class(l, e) \in SUBSET (Nat \ {0}) /\ i \in 1..Len(l) /\ l[i].tag = e.tag /\ l[i].key = e.key
  BY <1>1 DEF Class
<1>3. {j \in 1..i : l[j].tag = l[i].tag /\ l[j].key = l[i].key} = Class(l, e) \intersect (1..i)
  BY <1>1, <1>2 DEF Class
<1>4. Occurrence(l, i) = Rank(Class(l, e), i)
  BY <1>3 DEF Occurrence, Rank
<1>5. Rank(Class(l, e), 0) < Rank(Class(l, e), i) /\ Rank(Class(l, e), 0) = 0
      /\ Rank(Class(l, e), i) \in Nat
  BY <1>2, RankNext, RankGrows
<1>6. QED
  BY <1>2, <1>4, <1>5

-----------------------------------------------------------------------------
(* MatchLists: the two passes pair the entries MatchIsCanonical names.     *)

\* The keyed new entries before m have their partners.
Settled(m) ==
    \A k \in DOMAIN new \ Unkeyed(new) :
        k < m => {newToOld[k]} = IF KeyedPartner(k) = {} THEN {0} ELSE KeyedPartner(k)

KeysOK ==
    /\ Settled(n)
    /\ \A k \in Unkeyed(new) : newToOld[k] = 0
    /\ \A k \in DOMAIN new : k >= n => newToOld[k] = 0

\* Pass 2 is a greedy embedding: the unkeyed old entries before the cursor are
\* those matched, in order, and whatever embeds a prefix of them sends the rest
\* to new entries still ahead.
OrderOK ==
    /\ Settled(Len(new) + 1)
    /\ cursor \in 1..Len(old) + 1
    /\ \A k \in Unkeyed(new) : k >= n => newToOld[k] = 0
    /\ \A k \in Unkeyed(new) : newToOld[k] # 0 =>
          /\ newToOld[k] \in Unkeyed(old) /\ newToOld[k] < cursor
          /\ old[newToOld[k]].tag = new[k].tag
    /\ \A j, k \in Unkeyed(new) : newToOld[j] # 0 /\ newToOld[k] # 0 /\ j < k => newToOld[j] < newToOld[k]
    /\ \A o \in Unkeyed(old) : o < cursor => \E k \in Unkeyed(new) : newToOld[k] = o
    /\ \A Q \in SUBSET Unkeyed(old) : \A f \in [Q -> Unkeyed(new)] :
          EmbedsPrefix(Q, f) => \A o \in Q : o >= cursor => f[o] >= n

Canonical ==
    /\ Settled(Len(new) + 1)
    /\ LET P == Matched \intersect Unkeyed(old)
           at == [o \in P |-> CHOOSE k \in DOMAIN new : newToOld[k] = o]
       IN  /\ EmbedsPrefix(P, at)
           /\ \A o \in P : at[o] \in Unkeyed(new)
           /\ \A Q \in SUBSET Unkeyed(old) : \A f \in [Q -> Unkeyed(new)] :
                 EmbedsPrefix(Q, f) => Q \subseteq P

MatchInv ==
    /\ Typed
    /\ pc = "keys" => KeysOK
    /\ pc = "order" => OrderOK
    /\ pc \in {"tails", "rebuild"} => Canonical

LEMMA UnkeyedFacts ==
    ASSUME Typed
    PROVE  /\ Unkeyed(new) \subseteq DOMAIN new /\ Unkeyed(old) \subseteq DOMAIN old
           /\ Unkeyed(new) \subseteq Nat \ {0} /\ Unkeyed(old) \subseteq Nat \ {0}
           /\ \A k \in Unkeyed(new) : k <= Len(new)
           /\ \A o \in Unkeyed(old) : o <= Len(old)
           /\ Matched \subseteq DOMAIN old /\ Matched \subseteq Nat \ {0}
           /\ \A k \in DOMAIN new : newToOld[k] # 0 => newToOld[k] \in Matched
           /\ \A o \in Matched : \E k \in DOMAIN new : newToOld[k] = o
<1>1. newToOld \in [DOMAIN new -> 0..Len(old)]
  BY DEF Typed
<1>2. /\ Matched \subseteq DOMAIN old /\ Matched \subseteq Nat \ {0}
      /\ \A k \in DOMAIN new : newToOld[k] # 0 => newToOld[k] \in Matched
      /\ \A o \in Matched : \E k \in DOMAIN new : newToOld[k] = o
  BY <1>1, ListFacts DEF Matched
<1>3. QED
  BY <1>2, ListFacts DEF Unkeyed

\* The partners of an entry with a comparable key are those of its class with
\* its rank; there is at most one.
LEMMA PartnerRank ==
    ASSUME Typed, NEW e, NEW k \in Class(new, e), e.key # NoKey, e.key \notin Incomparable
    PROVE  /\ KeyedPartner(k) = {o \in Class(old, e) :
                 Rank(Class(old, e), o) = Rank(Class(new, e), k)}
           /\ \A o, p \in KeyedPartner(k) : o = p
<1>1. old \in Seq(Component) /\ new \in Seq(Component)
  BY DEF Typed
<1>2. new[k].tag = e.tag /\ new[k].key = e.key
  BY DEF Class
<1>3. Occurrence(new, k) = Rank(Class(new, e), k)
  BY <1>1, OccurrenceRank
<1>4. ASSUME NEW o \in DOMAIN old
      PROVE  /\ SameIdentity(old[o], new[k]) <=> o \in Class(old, e)
             /\ o \in Class(old, e) => Occurrence(old, o) = Rank(Class(old, e), o)
  <2>1. SameIdentity(old[o], new[k]) <=> o \in Class(old, e)
    BY <1>2 DEF SameIdentity, KeysEqual, Class
  <2>2. o \in Class(old, e) => Occurrence(old, o) = Rank(Class(old, e), o)
    BY <1>1, OccurrenceRank
  <2>3. QED
    BY <2>1, <2>2
<1>5. Class(old, e) \subseteq DOMAIN old
  BY DEF Class
<1>6. KeyedPartner(k) = {o \in Class(old, e) : Rank(Class(old, e), o) = Rank(Class(new, e), k)}
  BY <1>3, <1>4, <1>5 DEF KeyedPartner
<1>7. ASSUME NEW o \in KeyedPartner(k), NEW p \in KeyedPartner(k) PROVE o = p
  <2>1. /\ o \in Class(old, e) /\ p \in Class(old, e)
        /\ Rank(Class(old, e), o) = Rank(Class(old, e), p)
    BY <1>6
  <2>2. Class(old, e) \in SUBSET (Nat \ {0})
    BY <1>1, <2>1, OccurrenceRank
  <2>3. QED
    BY <2>1, <2>2, RankUnique
<1>8. QED
  BY <1>6, <1>7

\* When pass 1 comes to entry n, the old entries of its class that are taken are
\* those of a lower rank.
LEMMA TakenByRank ==
    ASSUME Typed, KeysOK, n \in DOMAIN new, new[n].key # NoKey, new[n].key \notin Incomparable,
           NEW o \in Class(old, new[n])
    PROVE  o \in Matched <=> Rank(Class(old, new[n]), o) < Rank(Class(new, new[n]), n)
<1> DEFINE CO == Class(old, new[n])
           CN == Class(new, new[n])
<1>1. old \in Seq(Component) /\ new \in Seq(Component)
  BY DEF Typed
<1>2. n \in CN
  BY DEF Class
<1>3. /\ CN \in SUBSET (Nat \ {0}) /\ CO \in SUBSET (Nat \ {0}) /\ n \in Nat /\ o \in Nat
      /\ Rank(CO, o) \in Nat /\ 0 < Rank(CO, o) /\ Rank(CN, n) \in Nat /\ o \in CO
  BY <1>1, <1>2, OccurrenceRank
<1>4. \A k \in CN : KeyedPartner(k) = {p \in CO : Rank(CO, p) = Rank(CN, k)}
  BY PartnerRank
<1>5. \A k \in CN : k \in DOMAIN new \ Unkeyed(new)
  BY DEF Class, Unkeyed
<1>6. \A k \in CN : \A p, q \in KeyedPartner(k) : p = q
  BY PartnerRank
<1>7. ASSUME o \in Matched PROVE Rank(CO, o) < Rank(CN, n)
  <2>1. PICK k \in DOMAIN new : newToOld[k] = o
    BY <1>7, UnkeyedFacts
  <2>2. newToOld[k] # 0 /\ k \in Nat
    BY <2>1, <1>3, ListFacts
  <2>3. k < n /\ k \notin Unkeyed(new)
    BY <2>2, <1>3 DEF KeysOK
  <2>4. o \in KeyedPartner(k)
    BY <2>1, <2>2, <2>3 DEF KeysOK, Settled
  <2>5. old[o].tag = new[n].tag /\ old[o].key = new[n].key
    BY DEF Class
  <2>6. new[k].tag = old[o].tag /\ new[k].key = old[o].key
    BY <2>4 DEF KeyedPartner, SameIdentity, KeysEqual
  <2>7. k \in CN
    BY <2>5, <2>6 DEF Class
  <2>8. Rank(CO, o) = Rank(CN, k)
    BY <2>4, <2>7, <1>4
  <2>9. Rank(CN, k) < Rank(CN, n)
    BY <2>2, <2>3, <1>2, <1>3, RankGrows
  <2>10. QED
    BY <2>8, <2>9
<1>8. ASSUME Rank(CO, o) < Rank(CN, n) PROVE o \in Matched
  <2> HIDE DEF CN, CO
  <2>1. PICK k \in CN : k <= n /\ Rank(CN, k) = Rank(CO, o)
    BY <1>3, <1>8, RankAttained
  <2>2. k \in Nat /\ k # n
    BY <2>1, <1>3, <1>8
  <2>3. k < n
    BY <2>1, <2>2, <1>3
  <2>4. o \in KeyedPartner(k)
    BY <2>1, <1>3, <1>4
  <2>5. {newToOld[k]} = KeyedPartner(k)
    BY <2>1, <2>3, <2>4, <1>5 DEF KeysOK, Settled
  <2>6. newToOld[k] = o /\ o # 0 /\ k \in DOMAIN new
    BY <2>1, <2>4, <2>5, <1>3, <1>5
  <2>7. QED
    BY <2>6, UnkeyedFacts
<1>9. QED
  BY <1>7, <1>8

\* Pass 1 gives entry n its partner.
LEMMA KeyStep ==
    ASSUME Typed, KeysOK, pc = "keys", MatchByKey
    PROVE  KeysOK'
<1>1. /\ n \in DOMAIN new /\ n \in Nat /\ n' = n + 1 /\ newToOld[n] = 0
      /\ UNCHANGED <<old, new>>
      /\ newToOld \in [DOMAIN new -> 0..Len(old)]
  BY ListFacts DEF MatchByKey, lists, Typed, KeysOK
<1>2. /\ \A k : KeyedPartner(k)' = KeyedPartner(k)
      /\ Unkeyed(new)' = Unkeyed(new)
  BY <1>1 DEF KeyedPartner, Unkeyed, Occurrence
<1>3. \A k \in DOMAIN new : k \in Nat /\ (k < n + 1 <=> k < n \/ k = n) /\ (k >= n + 1 <=> k >= n /\ k # n)
  BY <1>1, ListFacts
<1>4. CASE new[n].key = NoKey
  <2>1. SameKey(n) = {}
    BY <1>4 DEF SameKey
  <2>2. newToOld' = newToOld
    BY <2>1 DEF MatchByKey, Least
  <2>3. n \in Unkeyed(new)
    BY <1>1, <1>4 DEF Unkeyed
  <2>4. Settled(n)'
    BY <1>1, <1>2, <1>3, <2>2, <2>3 DEF KeysOK, Settled
  <2>5. QED
    BY <1>1, <1>2, <1>3, <2>2, <2>4 DEF KeysOK
<1>5. CASE new[n].key # NoKey
  <2>1. n \notin Unkeyed(new)
    BY <1>5 DEF Unkeyed
  <2>2. PICK o \in 0..Len(old) :
          /\ newToOld' = [newToOld EXCEPT ![n] = o]
          /\ {o} = IF KeyedPartner(n) = {} THEN {0} ELSE KeyedPartner(n)
    <3>1. CASE new[n].key \in Incomparable
      <4>1. SameKey(n) = {} /\ KeyedPartner(n) = {}
        BY <3>1 DEF SameKey, KeyedPartner, SameIdentity, KeysEqual
      <4>2. newToOld' = newToOld
        BY <4>1 DEF MatchByKey, Least
      <4>3. newToOld' = [newToOld EXCEPT ![n] = 0] /\ 0 \in 0..Len(old)
        BY <1>1, <4>2, ListFacts
      <4>4. QED
        BY <4>1, <4>3
    <3>2. CASE new[n].key \notin Incomparable
      <4> DEFINE CO == Class(old, new[n])
                 r == Rank(Class(new, new[n]), n)
      <4>1. n \in Class(new, new[n]) /\ r \in Nat /\ 0 < r
        <5>1. n \in Class(new, new[n]) /\ new \in Seq(Component)
          BY <1>1 DEF Class, Typed
        <5>2. QED
          BY <5>1, OccurrenceRank
      <4>2. KeyedPartner(n) = {o \in CO : Rank(CO, o) = r} /\ \A o, p \in KeyedPartner(n) : o = p
        BY <3>2, <4>1, <1>5, PartnerRank
      <4>3. \A o \in CO : /\ o \in DOMAIN old /\ o \in Nat /\ o # 0 /\ Rank(CO, o) \in Nat
                          /\ o \in Matched <=> Rank(CO, o) < r
        <5>1. \A o \in CO : o \in DOMAIN old /\ o \in Nat /\ o # 0
          BY ListFacts DEF Class
        <5>2. \A o \in CO : Rank(CO, o) \in Nat
          BY <5>1, RankNext
        <5>3. \A o \in CO : o \in Matched <=> Rank(CO, o) < r
          BY <1>1, <1>5, <3>2, TakenByRank
        <5>4. QED
          BY <5>1, <5>2, <5>3
      <4>4. SameKey(n) = {o \in CO : ~(o \in Matched)}
        BY <1>5, <3>2 DEF SameKey, Class, KeysEqual
      <4>5. CO \in SUBSET (Nat \ {0})
        BY <4>3
      <4> HIDE DEF CO, r
      <4>6. SameKey(n) = {o \in CO : r <= Rank(CO, o)}
        BY <4>1, <4>3, <4>4
      <4>7. CASE SameKey(n) = {}
        <5>1. KeyedPartner(n) = {}
          BY <4>1, <4>2, <4>6, <4>7
        <5>2. newToOld' = newToOld
          BY <4>7 DEF MatchByKey, Least
        <5>3. newToOld' = [newToOld EXCEPT ![n] = 0] /\ 0 \in 0..Len(old)
          BY <1>1, <5>2, ListFacts
        <5>4. QED
          BY <5>1, <5>3
      <4>8. CASE SameKey(n) # {}
        <5>1. PICK o \in Least(SameKey(n)) : newToOld' = [newToOld EXCEPT ![n] = o]
          BY <4>8 DEF MatchByKey
        <5>2. o \in SameKey(n) /\ \A p \in SameKey(n) : o <= p
          BY <5>1 DEF Least
        <5>3. o \in CO /\ r <= Rank(CO, o) /\ o \in Nat
          BY <5>2, <4>3, <4>6
        <5>4. PICK j \in CO : j <= o /\ Rank(CO, j) = r
          BY <5>3, <4>1, <4>5, RankAttained
        <5>5. j \in SameKey(n) /\ j \in Nat
          BY <5>4, <4>1, <4>3, <4>6
        <5>6. j = o
          BY <5>2, <5>3, <5>4, <5>5
        <5>7. KeyedPartner(n) = {o}
          BY <5>4, <5>6, <4>2
        <5>8. o \in 0..Len(old)
          BY <5>3, <4>3, ListFacts
        <5>9. QED
          BY <5>1, <5>7, <5>8
      <4>9. QED
        BY <4>7, <4>8
    <3>3. QED
      BY <3>1, <3>2
  <2>3. newToOld'[n] = o /\ \A k \in DOMAIN new : k # n => newToOld'[k] = newToOld[k]
    BY <1>1, <2>2
  <2>4. Settled(n)'
    <3>1. ASSUME NEW k \in DOMAIN new \ Unkeyed(new), k < n + 1
          PROVE  {newToOld'[k]} = IF KeyedPartner(k) = {} THEN {0} ELSE KeyedPartner(k)
      <4>1. CASE k = n
        BY <2>2, <2>3, <4>1
      <4>2. CASE k # n
        <5>1. k < n
          BY <1>3, <3>1, <4>2
        <5>2. QED
          BY <2>3, <3>1, <4>2, <5>1 DEF KeysOK, Settled
      <4>3. QED
        BY <4>1, <4>2
    <3>2. QED
      BY <1>1, <1>2, <3>1 DEF Settled
  <2>5. \A k \in Unkeyed(new) : newToOld'[k] = 0
    BY <2>1, <2>3, UnkeyedFacts DEF KeysOK
  <2>6. \A k \in DOMAIN new : k >= n + 1 => newToOld'[k] = 0
    BY <1>3, <2>3 DEF KeysOK
  <2>7. QED
    BY <1>1, <1>2, <2>4, <2>5, <2>6 DEF KeysOK
<1>6. QED
  BY <1>4, <1>5

\* An unkeyed old entry is taken by an unkeyed new one, and lies before the cursor.
LEMMA TakenInOrder ==
    ASSUME Typed, OrderOK, NEW o \in Unkeyed(old)
    PROVE  /\ o \in Matched <=> o < cursor
           /\ \A k \in DOMAIN new : newToOld[k] = o => k \in Unkeyed(new)
<1>1. o \in Nat /\ o # 0 /\ old[o].key = NoKey
  BY UnkeyedFacts DEF Unkeyed
<1>2. ASSUME NEW k \in DOMAIN new, newToOld[k] = o PROVE k \in Unkeyed(new)
  <2> SUFFICES ASSUME k \notin Unkeyed(new) PROVE FALSE
    OBVIOUS
  <2>1. k < Len(new) + 1
    BY ListFacts
  <2>2. newToOld[k] \in KeyedPartner(k)
    BY <1>1, <1>2, <2>1 DEF OrderOK, Settled
  <2>3. new[k].key = old[o].key
    BY <1>2, <2>2 DEF KeyedPartner, SameIdentity, KeysEqual
  <2>4. QED
    BY <1>1, <2>3 DEF Unkeyed
<1>3. o \in Matched => o < cursor
  BY <1>1, <1>2, UnkeyedFacts DEF OrderOK
<1>4. o < cursor => o \in Matched
  BY <1>1, UnkeyedFacts DEF OrderOK
<1>5. QED
  BY <1>2, <1>3, <1>4

\* Pass 2 moves on: either entry n takes the next unkeyed old entry, or no
\* embedding could have used entry n for it.
LEMMA OrderStep ==
    ASSUME Typed, OrderOK, MatchByOrder
    PROVE  OrderOK'
<1>1. /\ n \in DOMAIN new /\ n \in Nat /\ n' = n + 1 /\ newToOld[n] = 0 /\ n \in Unkeyed(new)
      /\ UNCHANGED <<old, new>>
      /\ newToOld \in [DOMAIN new -> 0..Len(old)]
      /\ Len(old) \in Nat /\ Len(new) \in Nat /\ cursor \in 1..Len(old) + 1
  BY ListFacts DEF MatchByOrder, lists, Typed, Keyed, Unkeyed, OrderOK
<1>2. /\ \A k : KeyedPartner(k)' = KeyedPartner(k)
      /\ Unkeyed(new)' = Unkeyed(new) /\ Unkeyed(old)' = Unkeyed(old)
      /\ \A Q, f : EmbedsPrefix(Q, f)' = EmbedsPrefix(Q, f)
  BY <1>1 DEF KeyedPartner, Unkeyed, Occurrence, EmbedsPrefix
<1>3. PICK o \in NextUnkeyed :
        \/ /\ o <= Len(old) /\ old[o].tag = new[n].tag
           /\ newToOld' = [newToOld EXCEPT ![n] = o] /\ cursor' = o + 1
        \/ /\ ~(o <= Len(old) /\ old[o].tag = new[n].tag)
           /\ newToOld' = newToOld /\ cursor' = o
  BY DEF MatchByOrder
<1>4. /\ o \in Nat /\ cursor <= o /\ o <= Len(old) + 1 /\ o # 0
      /\ o <= Len(old) => o \in Unkeyed(old)
      /\ \A p \in Unkeyed(old) : p < o => p < cursor
  <2>1. /\ o \in {p \in cursor..Len(old) : p \notin Matched /\ old[p].key = NoKey} \union {Len(old) + 1}
        /\ \A p \in cursor..Len(old) : p \notin Matched /\ old[p].key = NoKey => o <= p
    BY <1>3 DEF NextUnkeyed, Least
  <2>2. o \in Nat /\ cursor <= o /\ o <= Len(old) + 1 /\ o # 0
    BY <1>1, <2>1
  <2>3. o <= Len(old) => o \in Unkeyed(old)
    BY <1>1, <2>1, <2>2, ListFacts DEF Unkeyed
  <2>4. ASSUME NEW p \in Unkeyed(old), p < o, ~(p < cursor) PROVE FALSE
    <3>1. p \notin Matched /\ old[p].key = NoKey /\ p \in cursor..Len(old)
      BY <1>1, <2>4, TakenInOrder, UnkeyedFacts DEF Unkeyed
    <3>2. QED
      BY <1>1, <2>1, <2>2, <2>4, <3>1
  <2>5. QED
    BY <2>2, <2>3, <2>4
<1>5. /\ Unkeyed(new) \subseteq DOMAIN new /\ Unkeyed(new) \subseteq Nat
      /\ Unkeyed(old) \subseteq Nat \ {0} /\ \A p \in Unkeyed(old) : p <= Len(old)
  BY UnkeyedFacts
<1>6. \A k \in DOMAIN new : k # n => newToOld'[k] = newToOld[k]
  BY <1>1, <1>3
<1>7. Settled(Len(new) + 1)'
  <2>1. \A k \in DOMAIN new \ Unkeyed(new) : newToOld'[k] = newToOld[k]
    BY <1>1, <1>6
  <2>2. QED
    BY <1>1, <1>2, <2>1 DEF OrderOK, Settled
<1>8. \A k \in Unkeyed(new) : k >= n + 1 => newToOld'[k] = 0
  <2>1. \A k \in Unkeyed(new) : k >= n + 1 => k >= n /\ k # n
    BY <1>1, <1>5
  <2>2. QED
    BY <1>5, <1>6, <2>1 DEF OrderOK
<1>9. \A Q \in SUBSET Unkeyed(old) : \A f \in [Q -> Unkeyed(new)] :
        EmbedsPrefix(Q, f) => \A p \in Q : p >= cursor => f[p] >= n
  BY DEF OrderOK
<1>10. CASE /\ o <= Len(old) /\ old[o].tag = new[n].tag
            /\ newToOld' = [newToOld EXCEPT ![n] = o] /\ cursor' = o + 1
  <2>1. o \in Unkeyed(old) /\ newToOld'[n] = o /\ cursor' \in 1..Len(old) + 1
    BY <1>1, <1>4, <1>10
  <2>2. ASSUME NEW k \in Unkeyed(new), newToOld'[k] # 0
        PROVE  /\ newToOld'[k] \in Unkeyed(old) /\ newToOld'[k] < cursor'
               /\ old[newToOld'[k]].tag = new[k].tag
               /\ k # n => newToOld'[k] < o /\ k < n
    <3>1. CASE k = n
      BY <1>4, <1>10, <2>1, <3>1
    <3>2. CASE k # n
      <4>1. newToOld'[k] = newToOld[k] /\ k \in Nat
        BY <1>5, <1>6, <3>2
      <4>2. /\ newToOld[k] \in Unkeyed(old) /\ newToOld[k] < cursor
            /\ old[newToOld[k]].tag = new[k].tag
        BY <2>2, <4>1 DEF OrderOK
      <4>3. ~(k >= n)
        BY <2>2, <4>1 DEF OrderOK
      <4>4. newToOld[k] < o /\ newToOld[k] < cursor'
        BY <1>1, <1>4, <1>5, <1>10, <4>2
      <4>5. QED
        BY <1>1, <4>1, <4>2, <4>3, <4>4
    <3>3. QED
      BY <3>1, <3>2
  <2>3. ASSUME NEW j \in Unkeyed(new), NEW k \in Unkeyed(new),
               newToOld'[j] # 0, newToOld'[k] # 0, j < k
        PROVE  newToOld'[j] < newToOld'[k]
    <3>1. j # n
      BY <1>1, <1>5, <2>2, <2>3
    <3>2. CASE k = n
      BY <2>1, <2>2, <2>3, <3>1, <3>2
    <3>3. CASE k # n
      BY <1>5, <1>6, <2>3, <3>1, <3>3 DEF OrderOK
    <3>4. QED
      BY <3>2, <3>3
  <2>4. ASSUME NEW p \in Unkeyed(old), p < cursor' PROVE \E k \in Unkeyed(new) : newToOld'[k] = p
    <3>1. CASE p = o
      BY <1>1, <2>1, <3>1
    <3>2. CASE p # o
      <4>1. p < cursor /\ p # 0
        BY <1>4, <1>5, <1>10, <2>4, <3>2
      <4>2. PICK k \in Unkeyed(new) : newToOld[k] = p
        BY <4>1 DEF OrderOK
      <4>3. k # n
        BY <1>1, <4>1, <4>2
      <4>4. QED
        BY <1>5, <1>6, <4>2, <4>3
    <3>3. QED
      BY <3>1, <3>2
  <2>5. ASSUME NEW Q \in SUBSET Unkeyed(old), NEW f \in [Q -> Unkeyed(new)], EmbedsPrefix(Q, f),
               NEW p \in Q, p >= cursor'
        PROVE  f[p] >= n + 1
    <3>1. p \in Nat /\ o < p /\ p \in Unkeyed(old)
      BY <1>4, <1>5, <1>10, <2>5
    <3>2. o \in Q /\ f[o] < f[p]
      BY <2>1, <2>5, <3>1 DEF EmbedsPrefix
    <3>3. f[o] >= n /\ f[o] \in Nat /\ f[p] \in Nat
      BY <1>4, <1>5, <1>9, <2>5, <3>2
    <3>4. QED
      BY <1>1, <3>2, <3>3
  <2>6. QED
    BY <1>1, <1>2, <1>7, <1>8, <2>1, <2>2, <2>3, <2>4, <2>5 DEF OrderOK
<1>11. CASE /\ ~(o <= Len(old) /\ old[o].tag = new[n].tag)
            /\ newToOld' = newToOld /\ cursor' = o
  <2>1. cursor' \in 1..Len(old) + 1
    BY <1>1, <1>4, <1>11
  <2>2. ASSUME NEW k \in Unkeyed(new), newToOld[k] # 0
        PROVE  /\ newToOld[k] \in Unkeyed(old) /\ newToOld[k] < cursor'
               /\ old[newToOld[k]].tag = new[k].tag
    <3>1. /\ newToOld[k] \in Unkeyed(old) /\ newToOld[k] < cursor
          /\ old[newToOld[k]].tag = new[k].tag
      BY <2>2 DEF OrderOK
    <3>2. QED
      BY <1>1, <1>4, <1>5, <1>11, <3>1
  <2>3. \A p \in Unkeyed(old) : p < cursor' => \E k \in Unkeyed(new) : newToOld[k] = p
    BY <1>4, <1>11 DEF OrderOK
  <2>4. ASSUME NEW Q \in SUBSET Unkeyed(old), NEW f \in [Q -> Unkeyed(new)], EmbedsPrefix(Q, f),
               NEW p \in Q, p >= cursor'
        PROVE  f[p] >= n + 1
    <3>1. p \in Nat /\ o <= p /\ p \in Unkeyed(old) /\ p <= Len(old) /\ o <= Len(old)
      BY <1>1, <1>4, <1>5, <1>11, <2>4
    <3>2. o \in Unkeyed(old) /\ old[o].tag # new[n].tag
      BY <1>4, <1>11, <3>1
    <3>3. o \in Q
      BY <2>4, <3>1, <3>2, <1>4 DEF EmbedsPrefix
    <3>4. f[o] >= n /\ f[o] \in Nat /\ f[p] \in Nat
      BY <1>4, <1>5, <1>9, <2>4, <3>3
    <3>5. f[o] # n
      BY <2>4, <3>2, <3>3 DEF EmbedsPrefix
    <3>6. f[o] <= f[p]
      <4>1. CASE o = p
        BY <3>4, <4>1
      <4>2. CASE o # p
        <5>1. o < p
          BY <1>4, <3>1, <4>2
        <5>2. f[o] < f[p]
          BY <2>4, <3>3, <5>1 DEF EmbedsPrefix
        <5>3. QED
          BY <3>4, <5>2
      <4>3. QED
        BY <4>1, <4>2
    <3>7. QED
      BY <1>1, <3>4, <3>5, <3>6
  <2>5. \A j, k \in Unkeyed(new) : newToOld[j] # 0 /\ newToOld[k] # 0 /\ j < k => newToOld[j] < newToOld[k]
    BY DEF OrderOK
  <2>6. newToOld' = newToOld
    BY <1>11
  <2>7. QED
    BY <1>1, <1>2, <1>7, <1>8, <2>1, <2>2, <2>3, <2>4, <2>5, <2>6 DEF OrderOK
<1>12. QED
  BY <1>3, <1>10, <1>11

LEMMA SkipStep ==
    ASSUME Typed, OrderOK, SkipKeyed
    PROVE  OrderOK'
<1>1. /\ n \in Nat /\ n' = n + 1 /\ (newToOld[n] # 0 \/ new[n].key # NoKey)
      /\ UNCHANGED <<old, new, newToOld, cursor>>
  BY DEF SkipKeyed, lists, match, Typed, Keyed
<1>2. /\ \A k : KeyedPartner(k)' = KeyedPartner(k)
      /\ Unkeyed(new)' = Unkeyed(new) /\ Unkeyed(old)' = Unkeyed(old)
      /\ \A Q, f : EmbedsPrefix(Q, f)' = EmbedsPrefix(Q, f)
  BY <1>1 DEF KeyedPartner, Unkeyed, Occurrence, EmbedsPrefix
<1>3. n \notin Unkeyed(new)
  <2>1. n \in Unkeyed(new) => newToOld[n] = 0
    BY <1>1 DEF OrderOK
  <2>2. QED
    BY <1>1, <2>1 DEF Unkeyed
<1>4. \A k \in Unkeyed(new) : k \in Nat /\ (k >= n => k >= n + 1) /\ (k >= n + 1 => k >= n)
  BY <1>1, <1>3, UnkeyedFacts
<1>5. \A k \in Unkeyed(new) : k >= n + 1 => newToOld[k] = 0
  BY <1>4 DEF OrderOK
<1>6. ASSUME NEW Q \in SUBSET Unkeyed(old), NEW f \in [Q -> Unkeyed(new)], EmbedsPrefix(Q, f),
             NEW p \in Q, p >= cursor
      PROVE  f[p] >= n + 1
  <2>1. f[p] >= n /\ f[p] \in Unkeyed(new)
    BY <1>6 DEF OrderOK
  <2>2. QED
    BY <1>4, <2>1
<1>7. Settled(Len(new) + 1)'
  BY <1>1, <1>2 DEF OrderOK, Settled
<1>8. QED
  BY <1>1, <1>2, <1>5, <1>6, <1>7 DEF OrderOK

\* At the end of the list, no embedding reaches further than the cursor.
LEMMA OrderEnds ==
    ASSUME Typed, OrderOK, n > Len(new)
    PROVE  Canonical
<1> DEFINE P == Matched \intersect Unkeyed(old)
           at == [o \in P |-> CHOOSE k \in DOMAIN new : newToOld[k] = o]
<1>1. \A o \in P : o \in Unkeyed(old) /\ o < cursor /\ o \in Nat /\ o # 0
  BY TakenInOrder, UnkeyedFacts
<1>2. \A o \in Unkeyed(old) : o < cursor => o \in P
  BY TakenInOrder
<1>3. ASSUME NEW o \in P
      PROVE  newToOld[at[o]] = o /\ at[o] \in Unkeyed(new) /\ at[o] \in Nat
  <2>1. \E k \in DOMAIN new : newToOld[k] = o
    BY UnkeyedFacts
  <2>2. at[o] \in DOMAIN new /\ newToOld[at[o]] = o
    BY <2>1
  <2> HIDE DEF at
  <2>3. at[o] \in Unkeyed(new)
    BY <1>1, <2>2, TakenInOrder
  <2>4. QED
    BY <2>2, <2>3, UnkeyedFacts
<1> HIDE DEF at
<1>4. \A i \in P, j \in Unkeyed(old) : j < i => j \in P
  <2> SUFFICES ASSUME NEW i \in P, NEW j \in Unkeyed(old), j < i PROVE j < cursor
    BY <1>2
  <2>1. j \in Nat /\ cursor \in Nat
    BY UnkeyedFacts DEF Typed
  <2>2. QED
    BY <1>1, <2>1
<1>5. ASSUME NEW i \in P, NEW j \in P, i < j PROVE at[i] < at[j]
  <2>1. /\ newToOld[at[i]] = i /\ at[i] \in Unkeyed(new) /\ at[i] \in Nat
        /\ newToOld[at[j]] = j /\ at[j] \in Unkeyed(new) /\ at[j] \in Nat
    BY <1>3
  <2>2. ~(at[j] < at[i])
    BY <1>1, <1>5, <2>1 DEF OrderOK
  <2>3. at[i] # at[j]
    BY <1>1, <1>5, <2>1
  <2>4. QED
    BY <2>1, <2>2, <2>3
<1>6. \A i \in P : old[i].tag = new[at[i]].tag
  BY <1>1, <1>3 DEF OrderOK
<1>7. ASSUME NEW Q \in SUBSET Unkeyed(old), NEW f \in [Q -> Unkeyed(new)], EmbedsPrefix(Q, f)
      PROVE  Q \subseteq P
  <2> SUFFICES ASSUME NEW o \in Q PROVE o < cursor
    BY <1>2
  <2>1. o \in Nat /\ cursor \in Nat /\ n \in Nat
    BY UnkeyedFacts DEF Typed
  <2>2. o >= cursor => f[o] >= n
    BY <1>7 DEF OrderOK
  <2>3. f[o] \in Unkeyed(new) /\ f[o] \in Nat /\ f[o] <= Len(new) /\ Len(new) \in Nat
    BY UnkeyedFacts, ListFacts
  <2>4. QED
    BY <2>1, <2>2, <2>3
<1>8. EmbedsPrefix(P, at)
  BY <1>4, <1>5, <1>6 DEF EmbedsPrefix
<1>9. Settled(Len(new) + 1)
  BY DEF OrderOK
<1>10. QED
  BY <1>3, <1>7, <1>8, <1>9 DEF Canonical, at

LEMMA NextMatch == MatchInv /\ [Next]_vars => MatchInv'
<1> SUFFICES ASSUME MatchInv, [Next]_vars PROVE MatchInv'
  OBVIOUS
<1>0. Typed /\ Typed'
  BY NextTyped DEF MatchInv
<1>1. CASE Begin
  <2>1. /\ pc' = "keys" /\ n' = 1 /\ \A k \in DOMAIN new' : newToOld'[k] = 0
    BY <1>1 DEF Begin
  <2>2. \A k \in DOMAIN new' : k \in Nat /\ ~(k < 1)
    BY <1>0, LenProperties DEF Typed
  <2>3. KeysOK'
    BY <2>1, <2>2 DEF KeysOK, Settled, Unkeyed
  <2>4. QED
    BY <1>0, <2>1, <2>3 DEF MatchInv
<1>2. CASE MatchByKey
  <2>1. pc = "keys" /\ pc' = "keys"
    BY <1>2 DEF MatchByKey
  <2>2. KeysOK'
    BY <1>0, <1>2, <2>1, KeyStep DEF MatchInv
  <2>3. QED
    BY <1>0, <2>1, <2>2 DEF MatchInv
<1>3. CASE EndKeys
  <2>1. /\ pc = "keys" /\ pc' = "order" /\ n' = 1 /\ cursor' = 1 /\ n > Len(new)
        /\ UNCHANGED <<old, new, newToOld>>
    BY <1>3 DEF EndKeys, lists
  <2>2. KeysOK
    BY <2>1 DEF MatchInv
  <2>3. /\ \A k : KeyedPartner(k)' = KeyedPartner(k)
        /\ Unkeyed(new)' = Unkeyed(new) /\ Unkeyed(old)' = Unkeyed(old)
    BY <2>1 DEF KeyedPartner, Unkeyed, Occurrence
  <2>4. Settled(Len(new) + 1)'
    <3>1. \A k \in DOMAIN new : k < n
      BY <1>0, <2>1, ListFacts DEF Typed
    <3>2. QED
      BY <2>1, <2>2, <2>3, <3>1 DEF KeysOK, Settled
  <2>5. /\ \A k \in Unkeyed(new) : newToOld[k] = 0 /\ k \in Nat /\ k >= 1
        /\ \A o \in Unkeyed(old) : ~(o < 1)
        /\ 1 \in 1..Len(old) + 1
    BY <1>0, <2>2, UnkeyedFacts, ListFacts DEF KeysOK
  <2>6. OrderOK'
    BY <2>1, <2>3, <2>4, <2>5 DEF OrderOK
  <2>7. QED
    BY <1>0, <2>1, <2>6 DEF MatchInv
<1>4. CASE MatchByOrder
  <2>1. pc = "order" /\ pc' = "order"
    BY <1>4 DEF MatchByOrder
  <2>2. OrderOK'
    BY <1>0, <1>4, <2>1, OrderStep DEF MatchInv
  <2>3. QED
    BY <1>0, <2>1, <2>2 DEF MatchInv
<1>5. CASE SkipKeyed
  <2>1. pc = "order" /\ pc' = "order"
    BY <1>5 DEF SkipKeyed
  <2>2. OrderOK'
    BY <1>0, <1>5, <2>1, SkipStep DEF MatchInv
  <2>3. QED
    BY <1>0, <2>1, <2>2 DEF MatchInv
<1>6. ASSUME UNCHANGED <<old, new, newToOld>>, Canonical PROVE Canonical'
  <2>1. /\ \A k : KeyedPartner(k)' = KeyedPartner(k)
        /\ Unkeyed(new)' = Unkeyed(new) /\ Unkeyed(old)' = Unkeyed(old) /\ Matched' = Matched
        /\ \A Q, f : EmbedsPrefix(Q, f)' = EmbedsPrefix(Q, f)
    BY <1>6 DEF KeyedPartner, Unkeyed, Occurrence, EmbedsPrefix, Matched
  <2>2. Settled(Len(new) + 1)'
    BY <1>6, <2>1 DEF Canonical, Settled
  <2>3. \A o : (CHOOSE k \in DOMAIN new : newToOld[k] = o)' = CHOOSE k \in DOMAIN new : newToOld[k] = o
    BY <1>6
  <2>4. [o \in Matched \intersect Unkeyed(old) |-> CHOOSE k \in DOMAIN new : newToOld[k] = o]'
          = [o \in Matched \intersect Unkeyed(old) |-> CHOOSE k \in DOMAIN new : newToOld[k] = o]
    BY <2>1, <2>3
  <2>5. PICK P, at : /\ P = Matched \intersect Unkeyed(old)
                     /\ at = [o \in P |-> CHOOSE k \in DOMAIN new : newToOld[k] = o]
    OBVIOUS
  <2>6. /\ EmbedsPrefix(P, at)
        /\ \A o \in P : at[o] \in Unkeyed(new)
        /\ \A Q \in SUBSET Unkeyed(old) : \A f \in [Q -> Unkeyed(new)] :
              EmbedsPrefix(Q, f) => Q \subseteq P
    BY <1>6, <2>5 DEF Canonical
  <2>7. /\ EmbedsPrefix(P, at)'
        /\ \A o \in P : at[o] \in Unkeyed(new)'
        /\ \A Q \in SUBSET Unkeyed(old)' : \A f \in [Q -> Unkeyed(new)'] :
              EmbedsPrefix(Q, f)' => Q \subseteq P
    BY <2>1, <2>6
  <2>8. /\ P = (Matched \intersect Unkeyed(old))'
        /\ at = [o \in Matched \intersect Unkeyed(old) |-> CHOOSE k \in DOMAIN new : newToOld[k] = o]'
    BY <2>1, <2>4, <2>5
  <2>9. QED
    BY <2>2, <2>7, <2>8 DEF Canonical
<1>7. CASE EndOrder
  <2>1. /\ pc = "order" /\ pc' \in {"tails", "rebuild"} /\ n > Len(new)
        /\ UNCHANGED <<old, new, newToOld>>
    BY <1>7 DEF EndOrder, lists, match
  <2>2. Canonical
    BY <1>0, <2>1, OrderEnds DEF MatchInv
  <2>3. QED
    BY <1>0, <1>6, <2>1, <2>2 DEF MatchInv
<1>8. CASE PlaceTail \/ SkipUnmatched \/ Reuse \/ AppendFresh
  <2>1. pc \in {"tails", "rebuild"} /\ pc' \in {"tails", "rebuild"} /\ UNCHANGED <<old, new, newToOld>>
    BY <1>8 DEF PlaceTail, SkipUnmatched, Reuse, AppendFresh, lists, match
  <2>2. QED
    BY <1>0, <1>6, <2>1 DEF MatchInv
<1>9. CASE pc' \notin {"keys", "order", "tails", "rebuild"}
  BY <1>0, <1>9 DEF MatchInv
<1>10. CASE UNCHANGED vars
  <2>1. UNCHANGED <<pc, n, cursor, old, new, newToOld>>
    BY <1>10 DEF vars, lists, match
  <2>2. /\ \A k : KeyedPartner(k)' = KeyedPartner(k)
        /\ Unkeyed(new)' = Unkeyed(new) /\ Unkeyed(old)' = Unkeyed(old)
        /\ \A Q, f : EmbedsPrefix(Q, f)' = EmbedsPrefix(Q, f)
    BY <2>1 DEF KeyedPartner, Unkeyed, Occurrence, EmbedsPrefix
  <2>3. (KeysOK => KeysOK') /\ (OrderOK => OrderOK')
    BY <2>1, <2>2 DEF KeysOK, OrderOK, Settled
  <2>4. QED
    BY <1>0, <1>6, <2>1, <2>3 DEF MatchInv
<1>11. QED
  <2>1. EndTails \/ WalkBack \/ EndWalk \/ SpliceStep \/ ReturnResult \/ ReconcileWidget \/ Retain
           => pc' \notin {"keys", "order", "tails", "rebuild"}
    BY DEF EndTails, WalkBack, EndWalk, SpliceStep, Stay, TakeOut, Drop, EndRemove, UpdateInPlace,
           PutBack, InsertFresh, EndInsert, ReturnResult, ReconcileWidget, Retain
  <2>2. QED
    BY <2>1, <1>1, <1>2, <1>3, <1>4, <1>5, <1>7, <1>8, <1>9, <1>10
       DEF Next, MatchStep, KeepStep, ListStep

\* The two passes of MatchLists, said without loops: among entries of one tag and
\* one comparable key the first new one takes the first old one, and so on; and the
\* unkeyed old entries taken are the longest prefix of all unkeyed old ones that
\* embeds, in order and tag by tag, in the unkeyed new ones: the cursor that waits
\* on a tag nobody asks for is the only loss (Reconciler.cpp: MatchLists).
THEOREM MatchesCanonically == Spec => []MatchIsCanonical
<1>1. Init => MatchInv
  BY InitTyped DEF Init, MatchInv
<1>2. MatchInv => MatchIsCanonical
  <2> SUFFICES ASSUME MatchInv, pc \in {"tails", "rebuild"} PROVE MatchIsCanonical
    BY DEF MatchIsCanonical
  <2>1. Typed /\ Canonical
    BY DEF MatchInv
  <2>2. \A k \in DOMAIN new : k < Len(new) + 1
    BY <2>1, ListFacts
  <2>3. \A k \in DOMAIN new \ Unkeyed(new) :
           {newToOld[k]} = IF KeyedPartner(k) = {} THEN {0} ELSE KeyedPartner(k)
    BY <2>1, <2>2 DEF Canonical, Settled
  <2>4. QED
    BY <2>1, <2>3 DEF Canonical, MatchIsCanonical
<1>3. QED
  BY <1>1, <1>2, NextMatch, PTL DEF Spec
=============================================================================
