-------------------------- MODULE SlotRuntimeProofs --------------------------
(***************************************************************************)
(* Proofs about SlotRuntime, for every set of signals, slots and addresses:*)
(* its invariants, and that it implements ReactiveView.                    *)
(***************************************************************************)
EXTENDS SlotRuntime, SequenceTheorems, TLAPS

(* What the two pointer-list helpers do, for sequences without repetition. *)

LEMMA AppendNewLemma ==
    ASSUME NEW S, NEW s \in Seq(S), NEW a \in S, Distinct(s)
    PROVE  /\ AppendNew(s, a) \in Seq(S)
           /\ Distinct(AppendNew(s, a))
           /\ \A x : Contains(AppendNew(s, a), x) <=> Contains(s, x) \/ x = a
<1>1. CASE Contains(s, a)
  BY <1>1 DEF AppendNew, Contains
<1>2. CASE ~Contains(s, a)
  <2> DEFINE t == Append(s, a)
  <2>1. /\ t \in Seq(S) /\ Len(t) = Len(s) + 1 /\ t[Len(s) + 1] = a
        /\ \A j \in 1..Len(s) : t[j] = s[j]
    OBVIOUS
  <2>2. AppendNew(s, a) = t
    BY <1>2 DEF AppendNew
  <2> HIDE DEF t
  <2>3. Distinct(t)
    BY <1>2, <2>1 DEF Distinct, Contains
  <2>4. ASSUME NEW x PROVE Contains(t, x) <=> Contains(s, x) \/ x = a
    <3>1. ASSUME NEW j \in 1..Len(t), t[j] = x PROVE Contains(s, x) \/ x = a
      BY <3>1, <2>1 DEF Contains
    <3>2. ASSUME NEW j \in 1..Len(s), s[j] = x PROVE Contains(t, x)
      BY <3>2, <2>1 DEF Contains
    <3>3. ASSUME x = a PROVE Contains(t, x)
      BY <3>3, <2>1 DEF Contains
    <3>4. QED
      BY <3>1, <3>2, <3>3 DEF Contains
  <2>5. QED
    BY <2>1, <2>2, <2>3, <2>4
<1>3. QED
  BY <1>1, <1>2

LEMMA RemoveAtLemma ==
    ASSUME NEW S, NEW s \in Seq(S), NEW i \in 1..Len(s)
    PROVE  /\ RemoveAt(s, i) \in Seq(S)
           /\ Len(RemoveAt(s, i)) = Len(s) - 1
           /\ \A j \in 1..(Len(s) - 1) :
                 RemoveAt(s, i)[j] = IF j < i THEN s[j] ELSE s[j + 1]
<1> DEFINE l == SubSeq(s, 1, i - 1)
           r == SubSeq(s, i + 1, Len(s))
<1>1. /\ l \in Seq(S) /\ Len(l) = i - 1
      /\ \A j \in 1..(i - 1) : l[j] = s[j]
  BY SubSeqProperties
<1>2. /\ r \in Seq(S) /\ Len(r) = Len(s) - i
      /\ \A j \in 1..(Len(s) - i) : r[j] = s[i + j]
  BY SubSeqProperties
<1>3. RemoveAt(s, i) = l \o r
  BY DEF RemoveAt
<1> HIDE DEF l, r
<1>4. /\ l \o r \in Seq(S) /\ Len(l \o r) = Len(l) + Len(r)
      /\ \A j \in 1..(Len(l) + Len(r)) : (l \o r)[j] = IF j <= Len(l) THEN l[j] ELSE r[j - Len(l)]
  BY <1>1, <1>2, ConcatProperties
<1>5. Len(l \o r) = Len(s) - 1
  BY <1>1, <1>2, <1>4
<1>6. ASSUME NEW j \in 1..(Len(s) - 1)
      PROVE  (l \o r)[j] = IF j < i THEN s[j] ELSE s[j + 1]
  <2>1. CASE j < i
    BY <2>1, <1>1, <1>2, <1>4
  <2>2. CASE ~(j < i)
    <3>1. (l \o r)[j] = r[j - (i - 1)] /\ j - (i - 1) \in 1..(Len(s) - i)
      BY <2>2, <1>1, <1>2, <1>4
    <3>2. r[j - (i - 1)] = s[i + (j - (i - 1))] /\ i + (j - (i - 1)) = j + 1
      BY <3>1, <1>2
    <3>3. QED
      BY <2>2, <3>1, <3>2
  <2>3. QED
    BY <2>1, <2>2
<1>7. QED
  BY <1>3, <1>4, <1>5, <1>6

LEMMA WithoutLemma ==
    ASSUME NEW S, NEW s \in Seq(S), NEW a, Distinct(s)
    PROVE  /\ Without(s, a) \in Seq(S)
           /\ Distinct(Without(s, a))
           /\ \A x : Contains(Without(s, a), x) <=> Contains(s, x) /\ x # a
<1>1. CASE ~Contains(s, a)
  BY <1>1 DEF Without, Contains
<1>2. CASE Contains(s, a)
  <2> DEFINE i == CHOOSE i \in DOMAIN s : s[i] = a
             w == RemoveAt(s, i)
  <2>1. i \in 1..Len(s) /\ s[i] = a
    BY <1>2 DEF Contains
  <2>2. Without(s, a) = w
    BY <1>2 DEF Without
  <2> HIDE DEF i
  <2>3. /\ w \in Seq(S) /\ Len(w) = Len(s) - 1
        /\ \A j \in 1..(Len(s) - 1) : w[j] = IF j < i THEN s[j] ELSE s[j + 1]
    BY <2>1, RemoveAtLemma
  <2> HIDE DEF w
  <2> DEFINE old(j) == IF j < i THEN j ELSE j + 1
  <2>0. \A j \in 1..Len(w) :
           /\ old(j) \in 1..Len(s) /\ old(j) # i /\ w[j] = s[old(j)]
           /\ \A k \in 1..Len(w) : old(j) = old(k) => j = k
    BY <2>1, <2>3
  <2>u. \A j, k \in 1..Len(s) : s[j] = s[k] => j = k
    BY DEF Distinct
  <2> HIDE DEF old
  <2>4. Distinct(w)
    BY <2>u, <2>0, <2>3 DEF Distinct
  <2>5. ASSUME NEW x PROVE Contains(w, x) <=> Contains(s, x) /\ x # a
    <3>1. ASSUME NEW j \in 1..Len(w), w[j] = x PROVE Contains(s, x) /\ x # a
      <4>1. s[old(j)] = x /\ old(j) \in 1..Len(s) /\ old(j) # i
        BY <3>1, <2>0
      <4>2. QED
        BY <4>1, <2>1, <2>u DEF Contains
    <3>2. ASSUME NEW j \in 1..Len(s), s[j] = x, x # a PROVE Contains(w, x)
      <4>1. CASE j < i
        <5>1. j \in 1..Len(w) /\ w[j] = x
          BY <4>1, <3>2, <2>1, <2>3
        <5>2. QED
          BY <5>1 DEF Contains
      <4>2. CASE j > i
        <5>1. (j - 1) \in 1..Len(w) /\ w[j - 1] = x
          BY <4>2, <3>2, <2>1, <2>3
        <5>2. QED
          BY <5>1 DEF Contains
      <4>3. QED
        BY <4>1, <4>2, <3>2, <2>1
    <3>3. QED
      BY <3>1, <3>2 DEF Contains
  <2>6. QED
    BY <2>2, <2>3, <2>4, <2>5
<1>3. QED
  BY <1>1, <1>2
-----------------------------------------------------------------------------
(* Type correctness.                                                       *)

LEMMA EnterFrameType == ASSUME NEW a \in Addr PROVE EnterFrame(a) \in Frame
BY NameAssumption DEF EnterFrame, Frame, Phase

\* The registry stays well formed when entries leave it or a read adds one.
LEMMA ClearSlotLemma ==
    ASSUME subs \in [Signal -> Seq(Addr)], RegistryDistinct, NEW a
    PROVE  /\ ClearSlot(a) \in [Signal -> Seq(Addr)]
           /\ \A s \in Signal : Distinct(ClearSlot(a)[s])
           /\ \A s \in Signal : \A b : Contains(ClearSlot(a)[s], b) <=> Contains(subs[s], b) /\ b # a
<1>1. \A s \in Signal : /\ Without(subs[s], a) \in Seq(Addr)
                        /\ Distinct(Without(subs[s], a))
                        /\ \A b : Contains(Without(subs[s], a), b) <=> Contains(subs[s], b) /\ b # a
  BY WithoutLemma DEF RegistryDistinct
<1>2. QED
  BY <1>1 DEF ClearSlot

LEMMA TrackReadLemma ==
    ASSUME subs \in [Signal -> Seq(Addr)], RegistryDistinct, NEW a \in Addr, NEW s \in Signal,
           active = <<a>>
    PROVE  /\ TrackRead(s) \in [Signal -> Seq(Addr)]
           /\ \A t \in Signal : Distinct(TrackRead(s)[t])
           /\ \A t \in Signal : \A b :
                 Contains(TrackRead(s)[t], b) <=> Contains(subs[t], b) \/ (t = s /\ b = a)
<1>1. TrackRead(s) = [subs EXCEPT ![s] = AppendNew(subs[s], a)]
  BY DEF TrackRead
<1>2. /\ AppendNew(subs[s], a) \in Seq(Addr)
      /\ Distinct(AppendNew(subs[s], a))
      /\ \A b : Contains(AppendNew(subs[s], a), b) <=> Contains(subs[s], b) \/ b = a
  BY AppendNewLemma DEF RegistryDistinct
<1>3. QED
  BY <1>1, <1>2 DEF RegistryDistinct

\* A sequence loses its head, or gains one.
LEMMA TailLemma ==
    ASSUME NEW S, NEW s \in Seq(S), s # <<>>
    PROVE  /\ Head(s) \in S /\ Head(s) = s[1] /\ Tail(s) \in Seq(S)
           /\ Len(s) \in Nat /\ Len(s) > 0
           /\ Len(Tail(s)) = Len(s) - 1
           /\ \A i \in 1..(Len(s) - 1) : Tail(s)[i] = s[i + 1]
           /\ Distinct(s) => Distinct(Tail(s))
           /\ \A x : Contains(s, x) <=> x = s[1] \/ Contains(Tail(s), x)
<1>1. /\ Head(s) \in S /\ Head(s) = s[1] /\ Tail(s) \in Seq(S)
      /\ Len(s) \in Nat /\ Len(s) > 0
      /\ Len(Tail(s)) = Len(s) - 1
      /\ \A i \in 1..(Len(s) - 1) : Tail(s)[i] = s[i + 1]
  BY HeadTailProperties
<1>2. Distinct(s) => Distinct(Tail(s))
  BY <1>1 DEF Distinct
<1>3. ASSUME NEW x, Contains(s, x) PROVE x = s[1] \/ Contains(Tail(s), x)
  <2>1. PICK i \in 1..Len(s) : s[i] = x
    BY <1>3 DEF Contains
  <2>2. CASE i = 1
    BY <2>1, <2>2
  <2>3. CASE i > 1
    <3>1. (i - 1) \in 1..Len(Tail(s)) /\ Tail(s)[i - 1] = x
      BY <2>1, <2>3, <1>1
    <3>2. QED
      BY <3>1 DEF Contains
  <2>4. QED
    BY <2>1, <2>2, <2>3
<1>4. ASSUME NEW x, x = s[1] \/ Contains(Tail(s), x) PROVE Contains(s, x)
  <2>1. CASE x = s[1]
    BY <2>1, <1>1 DEF Contains
  <2>2. CASE Contains(Tail(s), x)
    <3>1. PICK i \in 1..Len(Tail(s)) : Tail(s)[i] = x
      BY <2>2 DEF Contains
    <3>2. (i + 1) \in 1..Len(s) /\ s[i + 1] = x
      BY <3>1, <1>1
    <3>3. QED
      BY <3>2 DEF Contains
  <2>3. QED
    BY <1>4, <2>1, <2>2
<1>5. QED
  BY <1>1, <1>2, <1>3, <1>4

LEMMA PushLemma ==
    ASSUME NEW S, NEW s \in Seq(S), NEW x \in S
    PROVE  /\ <<x>> \o s \in Seq(S) /\ <<x>> \o s # <<>>
           /\ Len(<<x>> \o s) = Len(s) + 1
           /\ (<<x>> \o s)[1] = x
           /\ \A i \in 1..Len(s) : (<<x>> \o s)[i + 1] = s[i]
           /\ \A y : Contains(<<x>> \o s, y) <=> y = x \/ Contains(s, y)
<1> DEFINE t == <<x>> \o s
<1>1. /\ t \in Seq(S) /\ Len(t) = Len(s) + 1 /\ t[1] = x
      /\ \A i \in 1..Len(s) : t[i + 1] = s[i]
  BY ConcatProperties
<1> HIDE DEF t
<1>2. t # <<>>
  BY <1>1
<1>3. Tail(t) = s
  BY <1>1, <1>2, TailLemma, SeqEqual
<1>4. \A y : Contains(t, y) <=> y = x \/ Contains(s, y)
  BY <1>1, <1>2, <1>3, TailLemma
<1>5. QED
  BY <1>1, <1>2, <1>4 DEF t

LEMMA ReplaceTopLemma ==
    ASSUME chain \in Seq(Frame), chain # <<>>, NEW f \in Frame
    PROVE  /\ ReplaceTop(f) \in Seq(Frame) /\ ReplaceTop(f) # <<>>
           /\ Len(ReplaceTop(f)) = Len(chain)
           /\ ReplaceTop(f)[1] = f
           /\ DOMAIN ReplaceTop(f) = DOMAIN chain
           /\ \A i \in DOMAIN chain : i # 1 => ReplaceTop(f)[i] = chain[i]
<1>1. /\ Tail(chain) \in Seq(Frame) /\ Len(Tail(chain)) = Len(chain) - 1
      /\ Len(chain) \in Nat /\ Len(chain) > 0
      /\ \A i \in 1..(Len(chain) - 1) : Tail(chain)[i] = chain[i + 1]
  BY TailLemma
<1>2. /\ ReplaceTop(f) \in Seq(Frame) /\ ReplaceTop(f) # <<>>
      /\ Len(ReplaceTop(f)) = Len(Tail(chain)) + 1
      /\ ReplaceTop(f)[1] = f
      /\ \A i \in 1..Len(Tail(chain)) : ReplaceTop(f)[i + 1] = Tail(chain)[i]
  BY <1>1, PushLemma DEF ReplaceTop
<1>3. ASSUME NEW i \in 1..Len(chain), i # 1 PROVE ReplaceTop(f)[i] = chain[i]
  <2>1. (i - 1) \in 1..Len(Tail(chain)) /\ (i - 1) + 1 = i
    BY <1>1, <1>3
  <2>2. QED
    BY <2>1, <1>1, <1>2
<1>4. DOMAIN ReplaceTop(f) = 1..Len(chain) /\ DOMAIN chain = 1..Len(chain)
  BY <1>1, <1>2, LenProperties
<1>5. QED
  BY <1>1, <1>2, <1>3, <1>4

TypeInv == TypeOK /\ ControlOK /\ RegistryDistinct

\* What the innermost frame is, whenever a Reconcile is in progress.
LEMMA TopFrame ==
    ASSUME TypeOK, chain # <<>>
    PROVE  /\ Head(chain) = chain[1] /\ chain[1] \in Frame /\ chain[1].slot \in Addr
           /\ chain[1].pc \in Phase /\ chain[1].todo \subseteq Site
           /\ chain[1].writes \in 0..MaxWrites
           /\ 1 \in DOMAIN chain
           /\ Len(chain) \in Nat /\ Len(chain) > 0 /\ DOMAIN chain = 1..Len(chain)
<1>1. Head(chain) \in Frame /\ Head(chain) = chain[1] /\ Len(chain) \in Nat /\ Len(chain) > 0
  BY TailLemma DEF TypeOK
<1>2. QED
  BY <1>1 DEF Frame, TypeOK

LEMMA InitTypeInv == Init => TypeInv
<1> SUFFICES ASSUME Init PROVE TypeInv
  OBVIOUS
<1> USE DEF Init
<1>1. TypeOK
  <2>1. Distinct(queue) /\ Distinct(snapshot)
    BY DEF Distinct
  <2>2. site \in [Addr -> Site \union {NoSite}] /\ owner \in [Addr -> Addr \union {Host}]
    OBVIOUS
  <2>3. dirty \in [Addr -> BOOLEAN] /\ fault \in BOOLEAN
    OBVIOUS
  <2>4. subs \in [Signal -> Seq(Addr)]
    OBVIOUS
  <2>5. /\ queue \in Seq(Addr) /\ active \in Seq(Addr) /\ rest \in Seq(Addr)
        /\ dying \in Seq(Addr) /\ chain \in Seq(Frame) /\ snapshot \in Seq(Addr)
    OBVIOUS
  <2>6. batch \in 0..MaxDepth
    BY NameAssumption
  <2>7. reads \in [Addr -> SUBSET Signal] /\ behind \in [Addr -> SUBSET Signal]
    OBVIOUS
  <2>8. QED
    BY <2>1, <2>2, <2>3, <2>4, <2>5, <2>6, <2>7 DEF TypeOK
<1>2. ControlOK
  BY DEF ControlOK
<1>3. RegistryDistinct
  BY DEF RegistryDistinct, Distinct
<1>4. QED
  BY <1>1, <1>2, <1>3 DEF TypeInv

\* The steps of the host and of the pass, of destructors, and of Reconcile.
LEMMA NextTypeInv == TypeInv /\ [Next]_vars => TypeInv'
<1> SUFFICES ASSUME TypeInv, [Next]_vars PROVE TypeInv'
  OBVIOUS
<1> USE DEF TypeInv
<1>1. ASSUME NEW s \in RootSite, NEW a \in Addr, HostMount(s, a) PROVE TypeInv'
  <2>1. EnterFrame(a) \in Frame /\ EnterFrame(a).pc = "clear"
    BY EnterFrameType DEF EnterFrame
  <2>2. chain' \in Seq(Frame) /\ Len(chain') = 1 /\ chain'[1] = EnterFrame(a)
    BY <1>1, <2>1 DEF HostMount
  <2>3. TypeOK'
    BY <1>1, <2>2, SiteAssumption DEF HostMount, Construct, TypeOK
  <2>4. ControlOK'
    BY <1>1, <2>1, <2>2 DEF HostMount, Idle, ControlOK
  <2>5. RegistryDistinct'
    BY <1>1 DEF HostMount, RegistryDistinct
  <2>6. QED
    BY <2>3, <2>4, <2>5
<1>2. ASSUME NEW a \in Addr, HostReconcile(a) PROVE TypeInv'
  <2>1. EnterFrame(a) \in Frame /\ EnterFrame(a).pc = "clear"
    BY EnterFrameType DEF EnterFrame
  <2>2. chain' \in Seq(Frame) /\ Len(chain') = 1 /\ chain'[1] = EnterFrame(a)
    BY <1>2, <2>1 DEF HostReconcile
  <2>3. TypeOK'
    BY <1>2, <2>2 DEF HostReconcile, TypeOK, history
  <2>4. ControlOK'
    BY <1>2, <2>1, <2>2 DEF HostReconcile, Idle, ControlOK
  <2>5. RegistryDistinct'
    BY <1>2 DEF HostReconcile, RegistryDistinct
  <2>6. QED
    BY <2>3, <2>4, <2>5
<1>3. ASSUME NEW a \in Addr, HostUnmount(a) PROVE TypeInv'
  <2>1. TypeOK'
    BY <1>3 DEF HostUnmount, TypeOK, object, history
  <2>2. ControlOK' /\ RegistryDistinct'
    BY <1>3 DEF HostUnmount, Idle, ControlOK, RegistryDistinct
  <2>3. QED
    BY <2>1, <2>2
<1>4. ASSUME NEW s \in Signal, HostSet(s) PROVE TypeInv'
  <2>1. TypeOK'
    BY <1>4 DEF HostSet, Write, TypeOK, object
  <2>2. ControlOK' /\ RegistryDistinct'
    BY <1>4 DEF HostSet, Write, Idle, ControlOK, RegistryDistinct
  <2>3. QED
    BY <2>1, <2>2
<1>5. ASSUME NEW s \in Signal, HostGet(s) PROVE TypeInv'
  <2>1. subs' = subs
    BY <1>5 DEF HostGet, Idle, ControlOK, TrackRead
  <2>2. QED
    BY <1>5, <2>1 DEF HostGet, object, control, history, TypeOK, ControlOK, RegistryDistinct
<1>6. CASE BeginBatch
  <2>1. batch' \in 0..MaxDepth
    BY <1>6, NameAssumption DEF BeginBatch, TypeOK
  <2>2. QED
    BY <1>6, <2>1 DEF BeginBatch, object, control, history, TypeOK, ControlOK, RegistryDistinct
<1>7. CASE EndBatch
  <2>1. batch' \in 0..MaxDepth
    BY <1>7, NameAssumption DEF EndBatch, TypeOK
  <2>2. /\ queue' \in Seq(Addr) /\ Distinct(queue')
        /\ snapshot' \in Seq(Addr) /\ Distinct(snapshot')
    <3>1. CASE batch' = 0
      <4>1. snapshot' = queue /\ queue' = <<>>
        BY <1>7, <3>1 DEF EndBatch, StartPass
      <4>2. Distinct(queue) /\ queue \in Seq(Addr)
        BY DEF TypeOK
      <4>3. QED
        BY <4>1, <4>2 DEF Distinct
    <3>2. CASE batch' # 0
      BY <1>7, <3>2 DEF EndBatch, TypeOK
    <3>3. QED
      BY <3>1, <3>2
  <2>3. QED
    BY <1>7, <2>1, <2>2 DEF EndBatch, object, history, TypeOK, ControlOK, RegistryDistinct
<1>8. CASE Tick
  <2>1. /\ queue' \in Seq(Addr) /\ Distinct(queue')
        /\ snapshot' \in Seq(Addr) /\ Distinct(snapshot')
    BY <1>8 DEF Tick, StartPass, TypeOK, Distinct
  <2>2. QED
    BY <1>8, <2>1 DEF Tick, object, history, TypeOK, ControlOK, RegistryDistinct
<1>9. CASE MarkDirty
  <2>1. Head(rest) \in Addr /\ Tail(rest) \in Seq(Addr)
    BY <1>9, TailLemma DEF MarkDirty, TypeOK
  <2>2. queue' \in Seq(Addr) /\ Distinct(queue')
    BY <1>9, <2>1, AppendNewLemma DEF MarkDirty, TypeOK
  <2>3. TypeOK'
    BY <1>9, <2>1, <2>2 DEF MarkDirty, TypeOK, history
  <2>4. ControlOK' /\ RegistryDistinct'
    BY <1>9 DEF MarkDirty, ControlOK, RegistryDistinct
  <2>5. QED
    BY <2>3, <2>4
<1>10. CASE VisitDirty
  <2>1. /\ Head(snapshot) \in Addr
        /\ Tail(snapshot) \in Seq(Addr) /\ Distinct(Tail(snapshot))
    BY <1>10, TailLemma DEF VisitDirty, AtPass, TypeOK
  <2>2. EnterFrame(Head(snapshot)) \in Frame /\ EnterFrame(Head(snapshot)).pc = "clear"
    BY <2>1, EnterFrameType DEF EnterFrame
  <2>3. chain' \in Seq(Frame) /\ Len(chain') = 1 /\ chain'[1] = EnterFrame(Head(snapshot))
    BY <1>10, <2>2 DEF VisitDirty
  <2>4. TypeOK'
    BY <1>10, <2>1, <2>3 DEF VisitDirty, TypeOK, history
  <2>5. ControlOK'
    BY <1>10, <2>2, <2>3 DEF VisitDirty, AtPass, ControlOK
  <2>6. RegistryDistinct'
    BY <1>10 DEF VisitDirty, RegistryDistinct
  <2>7. QED
    BY <2>4, <2>5, <2>6
<1>11. CASE VisitClean
  <2>1. Tail(snapshot) \in Seq(Addr) /\ Distinct(Tail(snapshot))
    BY <1>11, TailLemma DEF VisitClean, AtPass, TypeOK
  <2>2. QED
    BY <1>11, <2>1 DEF VisitClean, object, history, TypeOK, ControlOK, RegistryDistinct
<1>12. CASE VisitFreed
  BY <1>12 DEF VisitFreed, object, control, history, TypeOK, ControlOK, RegistryDistinct
<1>13. ASSUME NEW c \in Addr, DestroyNested(c) PROVE TypeInv'
  <2>1. dying' \in Seq(Addr)
    BY <1>13, PushLemma DEF DestroyNested, TypeOK
  <2>2. TypeOK'
    BY <1>13, <2>1 DEF DestroyNested, TypeOK, object, history
  <2>3. ControlOK' /\ RegistryDistinct'
    BY <1>13 DEF DestroyNested, ControlOK, RegistryDistinct
  <2>4. QED
    BY <2>2, <2>3
<1>14. CASE Destroy
  <2> DEFINE d == Head(dying)
  <2>1. d \in Addr /\ Tail(dying) \in Seq(Addr)
    BY <1>14, TailLemma DEF Destroy, TypeOK
  <2>2. queue' \in Seq(Addr) /\ Distinct(queue')
    BY <1>14, WithoutLemma DEF Destroy, TypeOK
  <2>3. active = <<>> /\ active' = <<>>
    BY <1>14 DEF Destroy, ControlOK, Without, Contains
  <2>4. subs' \in [Signal -> Seq(Addr)] /\ RegistryDistinct'
    BY <1>14, ClearSlotLemma DEF Destroy, TypeOK, RegistryDistinct
  <2>5. /\ site' \in [Addr -> Site \union {NoSite}]
        /\ owner' \in [Addr -> Addr \union {Host}]
        /\ dirty' \in [Addr -> BOOLEAN]
        /\ reads' \in [Addr -> SUBSET Signal]
        /\ behind' \in [Addr -> SUBSET Signal]
    BY <1>14 DEF Destroy, TypeOK
  <2>6. TypeOK'
    BY <1>14, <2>1, <2>2, <2>3, <2>4, <2>5 DEF Destroy, TypeOK
  <2>7. ControlOK'
    BY <1>14, <2>3 DEF Destroy, ControlOK
  <2>8. QED
    BY <2>4, <2>6, <2>7
<1>15. ASSUME NEW c \in Addr, ClearNested(c) PROVE TypeInv'
  <2>1. ControlOK' /\ RegistryDistinct'
    BY <1>15, TopFrame DEF ClearNested, InFrame, ControlOK, RegistryDistinct
  <2>2. QED
    BY <1>15, <2>1 DEF ClearNested, TypeOK, object, history
<1>16. CASE Invoke
  <2> DEFINE f == [Head(chain) EXCEPT !.pc = "call"]
  <2>1. /\ f \in Frame /\ f.slot = chain[1].slot /\ f.pc = "call"
        /\ Head(chain) = chain[1] /\ chain[1].slot \in Addr /\ chain # <<>>
    BY <1>16, TopFrame DEF Invoke, InFrame, Frame, Phase
  <2>2. /\ chain' \in Seq(Frame) /\ chain' # <<>> /\ Len(chain') = Len(chain)
        /\ chain'[1] = f /\ DOMAIN chain' = DOMAIN chain
        /\ \A i \in DOMAIN chain : i # 1 => chain'[i] = chain[i]
    BY <1>16, <2>1, ReplaceTopLemma DEF Invoke, TypeOK
  <2>3. subs' \in [Signal -> Seq(Addr)] /\ RegistryDistinct'
    BY <1>16, ClearSlotLemma DEF Invoke, TypeOK, RegistryDistinct
  <2>4. active = <<>> /\ active' = <<chain[1].slot>>
    <3>1. active = <<>>
      BY <1>16, <2>1 DEF Invoke, InFrame, ControlOK
    <3>2. <<chain[1].slot>> \o <<>> = <<chain[1].slot>>
      BY <2>1, ConcatEmptySeq
    <3>3. QED
      BY <1>16, <2>1, <3>1, <3>2 DEF Invoke
  <2>5. TypeOK'
    BY <1>16, <2>1, <2>2, <2>3, <2>4 DEF Invoke, TypeOK, object
  <2>6. ControlOK'
    <3>1. \A i \in DOMAIN chain' : i # 1 => chain'[i].pc = "discover"
      BY <2>2 DEF ControlOK
    <3>2. active' = <<chain'[1].slot>> /\ chain' # <<>> /\ chain'[1].pc = "call"
      BY <2>1, <2>2, <2>4
    <3>3. rest' = <<>> /\ dying' = <<>>
      BY <1>16 DEF Invoke, InFrame
    <3>4. QED
      BY <3>1, <3>2, <3>3 DEF ControlOK
  <2>7. QED
    BY <2>3, <2>5, <2>6
<1>17. ASSUME NEW s \in Signal, CallableGet(s) PROVE TypeInv'
  <2>1. Head(chain) = chain[1] /\ chain[1].slot \in Addr /\ active = <<chain[1].slot>>
    BY <1>17, TopFrame DEF CallableGet, InFrame, ControlOK
  <2>2. subs' \in [Signal -> Seq(Addr)] /\ RegistryDistinct'
    BY <1>17, <2>1, TrackReadLemma DEF CallableGet, TypeOK, RegistryDistinct
  <2>3. reads' \in [Addr -> SUBSET Signal]
    BY <1>17, <2>1 DEF CallableGet, TypeOK
  <2>4. QED
    BY <1>17, <2>2, <2>3 DEF CallableGet, object, control, TypeOK, ControlOK
<1>18. ASSUME NEW s \in Signal, CallableSet(s) PROVE TypeInv'
  <2> DEFINE f == [Head(chain) EXCEPT !.writes = @ + 1]
  <2>1. /\ f \in Frame /\ f.slot = chain[1].slot /\ f.pc = chain[1].pc
        /\ chain[1].pc = "call" /\ chain # <<>>
    BY <1>18, TopFrame, NameAssumption DEF CallableSet, InFrame, Frame, Phase
  <2>2. /\ chain' \in Seq(Frame) /\ chain' # <<>> /\ Len(chain') = Len(chain)
        /\ chain'[1] = f /\ DOMAIN chain' = DOMAIN chain
        /\ \A i \in DOMAIN chain : i # 1 => chain'[i] = chain[i]
    BY <1>18, <2>1, ReplaceTopLemma DEF CallableSet, TypeOK
  <2>3. TypeOK'
    BY <1>18, <2>2 DEF CallableSet, Write, TypeOK, object
  <2>4. ControlOK'
    BY <1>18, <2>1, <2>2 DEF CallableSet, InFrame, ControlOK
  <2>5. RegistryDistinct'
    BY <1>18 DEF CallableSet, RegistryDistinct
  <2>6. QED
    BY <2>3, <2>4, <2>5
<1>19. ASSUME NEW todo \in SUBSET Site, CallableReturn(todo) PROVE TypeInv'
  <2> DEFINE f == [Head(chain) EXCEPT !.pc = "discover", !.todo = todo]
  <2>1. /\ f \in Frame /\ f.slot = chain[1].slot /\ f.pc = "discover"
        /\ chain[1].slot \in Addr /\ chain[1].pc = "call" /\ chain # <<>>
    BY <1>19, TopFrame DEF CallableReturn, InFrame, Frame, Phase
  <2>2. /\ chain' \in Seq(Frame) /\ chain' # <<>> /\ Len(chain') = Len(chain)
        /\ chain'[1] = f /\ DOMAIN chain' = DOMAIN chain
        /\ \A i \in DOMAIN chain : i # 1 => chain'[i] = chain[i]
    BY <1>19, <2>1, ReplaceTopLemma DEF CallableReturn, TypeOK
  <2>3. active' = <<>>
    BY <1>19, <2>1 DEF CallableReturn, ControlOK
  <2>4. TypeOK'
    <3>1. active' \in Seq(Addr)
      BY <2>3
    <3>2. QED
      BY <1>19, <2>2, <3>1 DEF CallableReturn, TypeOK, object, history
  <2>5. ControlOK'
    <3>1. rest' = <<>> /\ dying' = <<>> /\ chain'[1].pc = "discover"
      BY <1>19, <2>1, <2>2 DEF CallableReturn, InFrame
    <3>2. \A i \in DOMAIN chain' : i # 1 => chain'[i].pc = "discover"
      BY <2>2 DEF ControlOK
    <3>3. QED
      BY <2>2, <2>3, <3>1, <3>2 DEF ControlOK
  <2>6. RegistryDistinct'
    BY <1>19 DEF CallableReturn, RegistryDistinct
  <2>7. QED
    BY <2>4, <2>5, <2>6
<1>20. ASSUME NEW k \in Site, NEW c \in Addr, DiscoverNested(k, c) PROVE TypeInv'
  <2> DEFINE f == [Head(chain) EXCEPT !.todo = @ \ {k}]
             rt == ReplaceTop(f)
  <2>1. /\ f \in Frame /\ f.pc = "discover" /\ Head(chain) = chain[1]
        /\ chain[1].slot \in Addr /\ chain # <<>>
    BY <1>20, TopFrame DEF DiscoverNested, InFrame, Frame, Phase
  <2>2. /\ rt \in Seq(Frame) /\ Len(rt) = Len(chain) /\ rt[1] = f
        /\ DOMAIN chain = 1..Len(chain)
        /\ \A i \in DOMAIN chain : i # 1 => rt[i] = chain[i]
    BY <2>1, ReplaceTopLemma, TopFrame DEF TypeOK
  <2>3. \A i \in 1..Len(chain) : rt[i].pc = "discover"
    BY <2>1, <2>2 DEF ControlOK
  <2>4. EnterFrame(c) \in Frame /\ EnterFrame(c).pc = "clear"
    BY EnterFrameType DEF EnterFrame
  <2>5. chain' = <<EnterFrame(c)>> \o rt
    BY <1>20 DEF DiscoverNested
  <2> HIDE DEF f, rt
  <2>6. /\ chain' \in Seq(Frame) /\ chain' # <<>> /\ Len(chain') = Len(chain) + 1
        /\ chain'[1] = EnterFrame(c) /\ \A i \in 1..Len(chain) : chain'[i + 1] = rt[i]
    BY <2>2, <2>4, <2>5, PushLemma
  <2>7. \A i \in DOMAIN chain' : i # 1 => chain'[i].pc = "discover"
    <3> SUFFICES ASSUME NEW i \in DOMAIN chain', i # 1 PROVE chain'[i].pc = "discover"
      OBVIOUS
    <3>1. (i - 1) \in 1..Len(chain) /\ (i - 1) + 1 = i
      BY <2>6, TopFrame, <2>1
    <3>2. QED
      BY <3>1, <2>3, <2>6
  <2>8. TypeOK'
    BY <1>20, <2>1, <2>6 DEF DiscoverNested, Construct, TypeOK
  <2>9. ControlOK'
    BY <1>20, <2>1, <2>4, <2>6, <2>7 DEF DiscoverNested, InFrame, ControlOK
  <2>10. RegistryDistinct'
    BY <1>20 DEF DiscoverNested, RegistryDistinct
  <2>11. QED
    BY <2>8, <2>9, <2>10
<1>21. CASE Return
  <2>1. /\ chain' \in Seq(Frame) /\ chain # <<>> /\ Len(chain) \in Nat /\ Len(chain) > 0
        /\ Len(chain') = Len(chain) - 1
        /\ \A i \in 1..(Len(chain) - 1) : chain'[i] = chain[i + 1]
    BY <1>21, TailLemma DEF Return, InFrame, TypeOK
  <2>2. \A i \in DOMAIN chain' : chain'[i].pc = "discover"
    <3> SUFFICES ASSUME NEW i \in DOMAIN chain' PROVE chain'[i].pc = "discover"
      OBVIOUS
    <3>0. DOMAIN chain = 1..Len(chain) /\ DOMAIN chain' = 1..(Len(chain) - 1)
      BY <2>1, LenProperties DEF TypeOK
    <3>1. (i + 1) \in DOMAIN chain /\ i + 1 # 1 /\ chain'[i] = chain[i + 1]
      BY <2>1, <3>0
    <3>2. QED
      BY <3>1 DEF ControlOK
  <2>3. active = <<>>
    BY <1>21, TopFrame DEF Return, InFrame, ControlOK
  <2>4. chain' # <<>> => chain'[1].pc = "discover"
    BY <2>1, <2>2
  <2>5. TypeOK'
    BY <1>21, <2>1 DEF Return, TypeOK, object, history
  <2>6. ControlOK'
    BY <1>21, <2>2, <2>3, <2>4 DEF Return, InFrame, ControlOK
  <2>7. RegistryDistinct'
    BY <1>21 DEF Return, RegistryDistinct
  <2>8. QED
    BY <2>5, <2>6, <2>7
<1>22. CASE UNCHANGED vars
  BY <1>22 DEF vars, object, control, history, TypeOK, ControlOK, RegistryDistinct
<1>23. QED
  BY <1>1, <1>2, <1>3, <1>4, <1>5, <1>6, <1>7, <1>8, <1>9, <1>10, <1>11, <1>12, <1>13, <1>14,
     <1>15, <1>16, <1>17, <1>18, <1>19, <1>20, <1>21, <1>22 DEF Next, HostStep, RuntimeStep

\* Every variable keeps its type, the queue and the pass never hold a slot twice,
\* and only the innermost Reconcile runs component code.
THEOREM TypeCorrect == Spec => [](TypeOK /\ ControlOK /\ RegistryDistinct)
<1>1. Init => TypeInv
  BY InitTypeInv
<1>2. TypeInv /\ [Next]_vars => TypeInv'
  BY NextTypeInv
<1>3. QED
  BY <1>1, <1>2, PTL DEF Spec, TypeInv
-----------------------------------------------------------------------------
(* The inductive invariant. Each conjunct's step is a lemma of its own.    *)

LEMMA ContainsShort ==
    /\ \A x : ~Contains(<<>>, x)
    /\ \A a, x : Contains(<<a>>, x) <=> x = a
BY DEF Contains

\* How Reconcile's own steps change the stack of frames.
LEMMA TopStep ==
    ASSUME TypeOK, chain # <<>>, NEW f \in Frame, f.slot = chain[1].slot, chain' = ReplaceTop(f)
    PROVE  /\ chain' # <<>> /\ Len(chain') = Len(chain) /\ DOMAIN chain' = DOMAIN chain
           /\ chain'[1] = f
           /\ \A i \in DOMAIN chain : chain'[i].slot = chain[i].slot
           /\ \A i \in DOMAIN chain : i # 1 => chain'[i] = chain[i]
BY ReplaceTopLemma DEF TypeOK

LEMMA InvokeStep ==
    ASSUME TypeOK, Invoke
    PROVE  \E f \in Frame : /\ f = [chain[1] EXCEPT !.pc = "call"]
                           /\ f.slot = chain[1].slot /\ f.todo = chain[1].todo /\ f.pc = "call"
                           /\ chain' = ReplaceTop(f) /\ chain # <<>>
<1>1. chain # <<>> /\ Head(chain) = chain[1] /\ chain[1] \in Frame
  BY TopFrame DEF Invoke, InFrame
<1>2. QED
  BY <1>1 DEF Invoke, Frame, Phase

LEMMA SetStep ==
    ASSUME TypeOK, NEW s \in Signal, CallableSet(s)
    PROVE  \E f \in Frame : /\ f.slot = chain[1].slot /\ f.todo = chain[1].todo
                           /\ f.pc = "call" /\ chain[1].pc = "call"
                           /\ chain' = ReplaceTop(f) /\ chain # <<>>
<1>1. chain # <<>> /\ Head(chain) = chain[1] /\ chain[1] \in Frame /\ chain[1].pc = "call"
  BY TopFrame DEF CallableSet, InFrame
<1>2. chain[1].writes + 1 \in 0..MaxWrites
  BY <1>1, NameAssumption DEF CallableSet, Frame
<1> DEFINE f == [chain[1] EXCEPT !.writes = @ + 1]
<1>3. f \in Frame /\ f.slot = chain[1].slot /\ f.todo = chain[1].todo /\ f.pc = "call"
  BY <1>1, <1>2 DEF Frame
<1>4. chain' = ReplaceTop(f)
  BY <1>1 DEF CallableSet
<1>5. QED
  BY <1>1, <1>3, <1>4

LEMMA ReturnOutputStep ==
    ASSUME TypeOK, NEW todo \in SUBSET Site, CallableReturn(todo)
    PROVE  \E f \in Frame : /\ f.slot = chain[1].slot /\ f.todo = todo
                           /\ f.pc = "discover" /\ chain[1].pc = "call"
                           /\ chain' = ReplaceTop(f) /\ chain # <<>>
<1>1. chain # <<>> /\ Head(chain) = chain[1] /\ chain[1] \in Frame /\ chain[1].pc = "call"
  BY TopFrame DEF CallableReturn, InFrame
<1>2. QED
  BY <1>1 DEF CallableReturn, Frame, Phase

LEMMA DiscoverStep ==
    ASSUME TypeOK, NEW k \in Site, NEW c \in Addr, DiscoverNested(k, c)
    PROVE  /\ chain # <<>> /\ chain' # <<>> /\ k \in chain[1].todo /\ chain[1].pc = "discover"
           /\ Len(chain) \in Nat /\ Len(chain) > 0 /\ Len(chain') = Len(chain) + 1
           /\ DOMAIN chain = 1..Len(chain) /\ DOMAIN chain' = 1..(Len(chain) + 1)
           /\ chain'[1] = EnterFrame(c)
           /\ \A i \in 1..Len(chain) : /\ chain'[i + 1].slot = chain[i].slot
                                      /\ chain'[i + 1].pc = chain[i].pc
                                      /\ chain'[i + 1].todo \subseteq chain[i].todo
           /\ k \notin chain'[2].todo
<1> DEFINE f == [chain[1] EXCEPT !.todo = @ \ {k}]
           rt == ReplaceTop(f)
<1>1. /\ chain # <<>> /\ Head(chain) = chain[1] /\ chain[1] \in Frame
      /\ Len(chain) \in Nat /\ Len(chain) > 0 /\ DOMAIN chain = 1..Len(chain)
      /\ chain[1].pc = "discover" /\ k \in chain[1].todo
  BY TopFrame DEF DiscoverNested, InFrame
<1>2. /\ f \in Frame /\ f.slot = chain[1].slot /\ f.pc = chain[1].pc
      /\ f.todo \subseteq chain[1].todo /\ k \notin f.todo
  BY <1>1 DEF Frame
<1>3. chain' = <<EnterFrame(c)>> \o rt
  BY <1>1 DEF DiscoverNested
<1> HIDE DEF f
<1>4. /\ rt \in Seq(Frame) /\ Len(rt) = Len(chain) /\ rt[1] = f
      /\ \A i \in DOMAIN chain : i # 1 => rt[i] = chain[i]
  BY <1>1, <1>2, ReplaceTopLemma DEF TypeOK
<1> HIDE DEF rt
<1>5. /\ chain' \in Seq(Frame) /\ chain' # <<>> /\ Len(chain') = Len(chain) + 1
      /\ chain'[1] = EnterFrame(c) /\ \A i \in 1..Len(chain) : chain'[i + 1] = rt[i]
  BY <1>3, <1>4, EnterFrameType, PushLemma
<1>6. DOMAIN chain' = 1..(Len(chain) + 1)
  BY <1>5, LenProperties
<1>7. ASSUME NEW i \in 1..Len(chain)
      PROVE  /\ chain'[i + 1].slot = chain[i].slot /\ chain'[i + 1].pc = chain[i].pc
             /\ chain'[i + 1].todo \subseteq chain[i].todo
  <2>1. CASE i = 1
    BY <2>1, <1>1, <1>2, <1>4, <1>5
  <2>2. CASE i # 1
    BY <2>2, <1>1, <1>4, <1>5
  <2>3. QED
    BY <2>1, <2>2
<1>8. k \notin chain'[2].todo
  <2>1. chain'[1 + 1] = rt[1] /\ 1 \in 1..Len(chain)
    BY <1>1, <1>5
  <2>2. QED
    BY <2>1, <1>2, <1>4
<1>9. QED
  BY <1>1, <1>5, <1>6, <1>7, <1>8

LEMMA ReturnStep ==
    ASSUME TypeOK, Return
    PROVE  /\ chain # <<>> /\ Len(chain) \in Nat /\ Len(chain) > 0 /\ Len(chain') = Len(chain) - 1
           /\ chain[1].pc = "discover"
           /\ DOMAIN chain = 1..Len(chain) /\ DOMAIN chain' = 1..(Len(chain) - 1)
           /\ \A i \in DOMAIN chain' : (i + 1) \in DOMAIN chain /\ chain'[i] = chain[i + 1]
<1>1. /\ chain' \in Seq(Frame) /\ chain # <<>> /\ Len(chain) \in Nat /\ Len(chain) > 0
      /\ Len(chain') = Len(chain) - 1
      /\ \A i \in 1..(Len(chain) - 1) : chain'[i] = chain[i + 1]
  BY TailLemma DEF Return, InFrame, TypeOK
<1>2. DOMAIN chain = 1..Len(chain) /\ DOMAIN chain' = 1..(Len(chain) - 1)
  BY <1>1, LenProperties DEF TypeOK
<1>3. chain[1].pc = "discover"
  BY TopFrame DEF Return, InFrame
<1>4. QED
  BY <1>1, <1>2, <1>3

\* Steps that leave the registry and the history of reads alone keep them equal.
LEMMA NextSubscriptions == IInv /\ [Next]_vars => SubscriptionsExact'
<1> SUFFICES ASSUME IInv, [Next]_vars PROVE SubscriptionsExact'
  OBVIOUS
<1> USE DEF IInv
<1>a. TypeInv
  BY DEF TypeInv
<1>b. ASSUME NEW a \in Addr, NEW s \in Site, NEW o, Construct(a, s, o), UNCHANGED subs
      PROVE SubscriptionsExact'
  <2>1. \A t \in Signal : ~Contains(subs[t], a)
    BY <1>b DEF Construct, NoDangling
  <2>2. reads' = [reads EXCEPT ![a] = {}]
    BY <1>b DEF Construct
  <2>3. QED
    BY <1>b, <2>1, <2>2 DEF SubscriptionsExact, TypeOK
<1>c. ASSUME NEW a \in Addr, subs' = ClearSlot(a), reads' = [reads EXCEPT ![a] = {}]
      PROVE SubscriptionsExact'
  <2>1. \A t \in Signal : \A b : Contains(subs'[t], b) <=> Contains(subs[t], b) /\ b # a
    BY <1>c, ClearSlotLemma DEF TypeOK
  <2>2. QED
    BY <1>c, <2>1 DEF SubscriptionsExact, TypeOK
<1>1. ASSUME NEW s \in RootSite, NEW a \in Addr, HostMount(s, a) PROVE SubscriptionsExact'
  BY <1>1, <1>b, SiteAssumption DEF HostMount
<1>2. ASSUME NEW s \in Signal, HostGet(s) PROVE SubscriptionsExact'
  <2>1. subs' = subs /\ reads' = reads
    BY <1>2 DEF HostGet, Idle, ControlOK, TrackRead, history
  <2>2. QED
    BY <2>1 DEF SubscriptionsExact
<1>3. CASE Destroy
  <2>1. Head(dying) \in Addr
    BY <1>3, TailLemma DEF Destroy, TypeOK
  <2>2. QED
    BY <1>3, <2>1, <1>c DEF Destroy
<1>4. CASE Invoke
  <2>1. Head(chain).slot \in Addr
    BY <1>4, TopFrame DEF Invoke, InFrame
  <2>2. QED
    BY <1>4, <2>1, <1>c DEF Invoke
<1>5. ASSUME NEW s \in Signal, CallableGet(s) PROVE SubscriptionsExact'
  <2>1. Head(chain) = chain[1] /\ chain[1].slot \in Addr /\ active = <<chain[1].slot>>
    BY <1>5, TopFrame DEF CallableGet, InFrame, ControlOK
  <2>2. \A t \in Signal : \A b :
            Contains(subs'[t], b) <=> Contains(subs[t], b) \/ (t = s /\ b = chain[1].slot)
    <3>1. subs \in [Signal -> Seq(Addr)] /\ subs' = TrackRead(s)
      BY <1>5 DEF CallableGet, TypeOK
    <3>2. QED
      BY <2>1, <3>1, TrackReadLemma
  <2>3. reads' = [reads EXCEPT ![chain[1].slot] = @ \union {s}]
    BY <1>5, <2>1 DEF CallableGet
  <2>4. QED
    BY <2>1, <2>2, <2>3 DEF SubscriptionsExact, TypeOK
<1>6. ASSUME NEW k \in Site, NEW c \in Addr, DiscoverNested(k, c) PROVE SubscriptionsExact'
  BY <1>6, <1>b DEF DiscoverNested
<1>7. ASSUME UNCHANGED <<subs, reads>> PROVE SubscriptionsExact'
  BY <1>7 DEF SubscriptionsExact
<1>8. QED
  BY <1>1, <1>2, <1>3, <1>4, <1>5, <1>6, <1>7
     DEF Next, HostStep, RuntimeStep, vars, object, control, history,
         HostReconcile, HostUnmount, HostSet, BeginBatch, EndBatch, Tick, MarkDirty,
         VisitDirty, VisitClean, VisitFreed, DestroyNested, ClearNested,
         CallableSet, CallableReturn, Return

\* Ownership only changes when a slot is constructed or destroyed, and the
\* destructor stack only holds slots below the innermost Reconcile.
LEMMA NextOwnership == IInv /\ [Next]_vars => OwnershipOK'
<1> SUFFICES ASSUME IInv, [Next]_vars PROVE OwnershipOK'
  OBVIOUS
<1> USE DEF IInv
<1>a. ASSUME UNCHANGED <<site, owner, dying>>,
             chain' = <<>> \/ Len(chain') = 1,
             chain' # <<>> => dying = <<>>
      PROVE OwnershipOK'
  <2>1. ~(Len(chain') > 1)
    <3>1. CASE chain' = <<>>
      BY <3>1
    <3>2. CASE Len(chain') = 1
      BY <3>2
    <3>3. QED
      BY <1>a, <3>1, <3>2
  <2>2. \A b \in Addr : Live(b)' /\ owner'[b] # Host => site'[b] \in Kids[site'[owner'[b]]]
    BY <1>a DEF OwnershipOK, Live
  <2>3. \A i, j \in DOMAIN dying' : i < j => Level[site'[dying'[j]]] < Level[site'[dying'[i]]]
    BY <1>a DEF OwnershipOK, Depth
  <2>4. chain' # <<>> => dying' = <<>>
    BY <1>a
  <2>5. QED
    BY <2>1, <2>2, <2>3, <2>4 DEF OwnershipOK, Depth
<1>1. ASSUME NEW s \in RootSite, NEW a \in Addr, HostMount(s, a) PROVE OwnershipOK'
  <2>1. dying' = <<>> /\ Len(chain') = 1
    BY <1>1 DEF HostMount, Idle
  <2>2. \A b \in Addr : Live(b) /\ owner[b] # Host => owner[b] # a
    BY <1>1 DEF HostMount, Construct, NoDangling
  <2>3. \A b \in Addr : Live(b)' /\ owner'[b] # Host => site'[b] \in Kids[site'[owner'[b]]]
    BY <1>1, <2>2 DEF HostMount, Construct, OwnershipOK, Live, TypeOK
  <2>4. QED
    BY <2>1, <2>3 DEF OwnershipOK
<1>2. ASSUME NEW a \in Addr, HostReconcile(a) PROVE OwnershipOK'
  BY <1>2, <1>a DEF HostReconcile, Idle
<1>3. ASSUME NEW a \in Addr, HostUnmount(a) PROVE OwnershipOK'
  <2>1. UNCHANGED <<site, owner>> /\ chain' = <<>> /\ dying' = <<a>>
    BY <1>3 DEF HostUnmount, Idle, object
  <2>2. \A i, j \in DOMAIN dying' : ~(i < j)
    BY <2>1
  <2>3. ~(Len(chain') > 1)
    BY <2>1
  <2>4. \A b \in Addr : Live(b)' /\ owner'[b] # Host => site'[b] \in Kids[site'[owner'[b]]]
    BY <2>1 DEF OwnershipOK, Live
  <2>5. QED
    BY <2>1, <2>2, <2>3, <2>4 DEF OwnershipOK
<1>4. CASE VisitDirty
  BY <1>4, <1>a DEF VisitDirty, AtPass
<1>5. ASSUME NEW c \in Addr, DestroyNested(c) PROVE OwnershipOK'
  <2> DEFINE d == dying[1]
  <2>1. /\ d = Head(dying) /\ d \in Addr /\ dying # <<>> /\ DOMAIN dying = 1..Len(dying)
        /\ Len(dying) \in Nat /\ 1 \in DOMAIN dying /\ dying \in Seq(Addr)
    BY <1>5, TailLemma, LenProperties DEF DestroyNested, TypeOK
  <2>2. Live(c) /\ owner[c] = d /\ d # Host
    BY <1>5, <2>1, NameAssumption DEF DestroyNested, NestedIn
  <2>3. Live(d)
    BY <2>1 DEF NoDangling, Contains
  <2>4. Depth(d) < Depth(c) /\ Depth(c) \in Nat
    <3>1. site[c] \in Kids[site[d]] /\ site[d] \in Site /\ site[c] \in Site
      BY <2>1, <2>2, <2>3, <1>5 DEF OwnershipOK, TypeOK, Live
    <3>2. QED
      BY <3>1, SiteAssumption DEF Depth
  <2>5. /\ dying' \in Seq(Addr) /\ Len(dying') = Len(dying) + 1 /\ dying'[1] = c
        /\ DOMAIN dying' = 1..(Len(dying) + 1)
        /\ \A i \in 1..Len(dying) : dying'[i + 1] = dying[i]
    BY <1>5, <2>1, PushLemma, LenProperties DEF DestroyNested
  <2>6. UNCHANGED <<site, owner, chain>>
    BY <1>5 DEF DestroyNested, object
  <2>7. \A i \in DOMAIN dying : Depth(dying[i]) \in Nat
    <3> SUFFICES ASSUME NEW i \in DOMAIN dying PROVE Depth(dying[i]) \in Nat
      OBVIOUS
    <3>1. dying[i] \in Addr /\ Live(dying[i])
      BY <2>1 DEF NoDangling, Contains
    <3>2. QED
      BY <3>1, SiteAssumption DEF Live, Depth, TypeOK
  <2>8. \A i \in DOMAIN dying : Depth(dying[i]) <= Depth(d)
    BY <2>1, <2>7 DEF OwnershipOK
  <2>9. \A i, j \in DOMAIN dying' : i < j => Depth(dying'[j]) < Depth(dying'[i])
    <3> SUFFICES ASSUME NEW i \in DOMAIN dying', NEW j \in DOMAIN dying', i < j
                 PROVE  Depth(dying'[j]) < Depth(dying'[i])
      OBVIOUS
    <3>1. (j - 1) \in DOMAIN dying /\ dying'[j] = dying[j - 1]
      BY <2>1, <2>5
    <3>2. CASE i = 1
      BY <3>1, <3>2, <2>4, <2>5, <2>7, <2>8, <2>1
    <3>3. CASE i # 1
      <4>1. (i - 1) \in DOMAIN dying /\ dying'[i] = dying[i - 1] /\ i - 1 < j - 1
        BY <3>3, <2>1, <2>5
      <4>2. QED
        BY <3>1, <4>1 DEF OwnershipOK
    <3>4. QED
      BY <3>2, <3>3
  <2>10. chain # <<>> => \A i \in DOMAIN dying' : Depth(chain[1].slot) < Depth(dying'[i])
    <3> SUFFICES ASSUME chain # <<>>, NEW i \in DOMAIN dying'
                 PROVE  Depth(chain[1].slot) < Depth(dying'[i])
      OBVIOUS
    <3>0. Depth(chain[1].slot) \in Nat
      <4>1. chain[1].slot \in Addr /\ Live(chain[1].slot)
        BY TopFrame DEF NoDangling
      <4>2. QED
        BY <4>1, SiteAssumption DEF Live, Depth, TypeOK
    <3>1. CASE i = 1
      BY <3>0, <3>1, <2>1, <2>4, <2>5, <2>7 DEF OwnershipOK
    <3>2. CASE i # 1
      <4>1. (i - 1) \in DOMAIN dying /\ dying'[i] = dying[i - 1]
        BY <3>2, <2>1, <2>5
      <4>2. QED
        BY <4>1 DEF OwnershipOK
    <3>3. QED
      BY <3>1, <3>2
  <2>11. ~(Len(chain) > 1)
    BY <2>1 DEF OwnershipOK
  <2>12. \A a \in Addr : Live(a)' /\ owner'[a] # Host => site'[a] \in Kids[site'[owner'[a]]]
    BY <2>6 DEF OwnershipOK, Live
  <2>13. /\ \A i, j \in DOMAIN dying' : i < j => Level[site'[dying'[j]]] < Level[site'[dying'[i]]]
         /\ chain' # <<>> =>
               \A i \in DOMAIN dying' : Level[site'[chain'[1].slot]] < Level[site'[dying'[i]]]
    BY <2>6, <2>9, <2>10 DEF Depth
  <2>14. ~(Len(chain') > 1)
    BY <2>6, <2>11
  <2>15. QED
    BY <2>12, <2>13, <2>14 DEF OwnershipOK, Depth
<1>6. CASE Destroy
  <2> DEFINE d == dying[1]
  <2>1. /\ d = Head(dying) /\ d \in Addr /\ dying # <<>> /\ DOMAIN dying = 1..Len(dying)
        /\ Len(dying) \in Nat /\ 1 \in DOMAIN dying /\ dying \in Seq(Addr)
    BY <1>6, TailLemma, LenProperties DEF Destroy, TypeOK
  <2>2. /\ dying' \in Seq(Addr) /\ DOMAIN dying' = 1..(Len(dying) - 1)
        /\ \A i \in 1..(Len(dying) - 1) : dying'[i] = dying[i + 1]
    BY <1>6, <2>1, TailLemma, LenProperties DEF Destroy
  <2>3. /\ site' = [site EXCEPT ![d] = NoSite] /\ owner' = [owner EXCEPT ![d] = Host]
        /\ chain' = chain
    BY <1>6, <2>1 DEF Destroy
  <2>4. \A b \in Addr : Live(b) => owner[b] # d
    BY <1>6, <2>1 DEF Destroy, NestedIn
  <2>5. \A b \in Addr : Live(b)' /\ owner'[b] # Host => site'[b] \in Kids[site'[owner'[b]]]
    BY <2>1, <2>3, <2>4 DEF OwnershipOK, Live, TypeOK
  <2>6. \A b \in Addr : Live(b) => Depth(b) \in Nat
    BY SiteAssumption DEF Live, Depth, TypeOK
  <2>7. \A i \in DOMAIN dying : dying[i] \in Addr /\ Depth(dying[i]) \in Nat
    BY <2>1, <2>6 DEF NoDangling, Contains
  <2>8. \A i \in DOMAIN dying' : dying'[i] # d /\ Level[site'[dying'[i]]] = Depth(dying[i + 1])
    <3> SUFFICES ASSUME NEW i \in DOMAIN dying'
                 PROVE  dying'[i] # d /\ Level[site'[dying'[i]]] = Depth(dying[i + 1])
      OBVIOUS
    <3>1. i + 1 \in DOMAIN dying /\ 1 < i + 1 /\ dying'[i] = dying[i + 1]
      BY <2>1, <2>2
    <3>2. Depth(dying[i + 1]) < Depth(d)
      BY <2>1, <3>1 DEF OwnershipOK
    <3>3. dying[i + 1] # d
      BY <2>1, <2>7, <3>1, <3>2
    <3>4. QED
      BY <2>1, <2>3, <2>7, <3>1, <3>3 DEF Depth, TypeOK
  <2>9. \A i, j \in DOMAIN dying' : i < j => Level[site'[dying'[j]]] < Level[site'[dying'[i]]]
    BY <2>1, <2>2, <2>8 DEF OwnershipOK
  <2>10. chain # <<>> => \A i \in DOMAIN dying' :
                            Level[site'[chain[1].slot]] < Level[site'[dying'[i]]]
    <3> SUFFICES ASSUME chain # <<>>, NEW i \in DOMAIN dying'
                 PROVE  Level[site'[chain[1].slot]] < Level[site'[dying'[i]]]
      OBVIOUS
    <3>1. chain[1].slot \in Addr /\ Depth(chain[1].slot) \in Nat
      BY TopFrame, <2>6 DEF NoDangling
    <3>2. chain[1].slot # d
      BY <2>1, <2>7, <3>1 DEF OwnershipOK
    <3>3. i + 1 \in DOMAIN dying
      BY <2>1, <2>2
    <3>4. Level[site'[chain[1].slot]] = Depth(chain[1].slot)
      BY <2>3, <3>1, <3>2 DEF Depth, TypeOK
    <3>5. QED
      BY <2>8, <3>3, <3>4 DEF OwnershipOK
  <2>11. ~(Len(chain) > 1)
    BY <2>1 DEF OwnershipOK
  <2>12. QED
    BY <2>3, <2>5, <2>9, <2>10, <2>11 DEF OwnershipOK, Depth
<1>7. ASSUME NEW c \in Addr, ClearNested(c) PROVE OwnershipOK'
  <2>1. /\ Head(chain) = chain[1] /\ chain[1].slot \in Addr /\ chain # <<>>
        /\ Live(chain[1].slot) /\ chain[1].slot # Host
    BY <1>7, TopFrame, NameAssumption DEF ClearNested, InFrame, NoDangling
  <2>2. Live(c) /\ owner[c] = chain[1].slot
    BY <1>7, <2>1 DEF ClearNested, NestedIn
  <2>3. Depth(chain[1].slot) < Depth(c)
    <3>1. site[c] \in Kids[site[chain[1].slot]] /\ site[chain[1].slot] \in Site /\ site[c] \in Site
      BY <2>1, <2>2, <1>7 DEF OwnershipOK, TypeOK, Live
    <3>2. QED
      BY <3>1, SiteAssumption DEF Depth
  <2>4. ~(Len(chain) > 1)
    BY <1>7, <2>1, <2>2 DEF ClearNested, InFrame, OwnershipOK
  <2>5. UNCHANGED <<site, owner, chain>> /\ dying' = <<c>>
    BY <1>7 DEF ClearNested, object
  <2>6. \A b \in Addr : Live(b)' /\ owner'[b] # Host => site'[b] \in Kids[site'[owner'[b]]]
    BY <2>5 DEF OwnershipOK, Live
  <2>7. \A i \in DOMAIN dying' : i = 1 /\ dying'[i] = c
    BY <2>5
  <2>8. /\ \A i, j \in DOMAIN dying' : ~(i < j)
        /\ \A i \in DOMAIN dying' : Level[site'[chain'[1].slot]] < Level[site'[dying'[i]]]
    BY <2>3, <2>5, <2>7 DEF Depth
  <2>9. QED
    BY <2>4, <2>5, <2>6, <2>8 DEF OwnershipOK, Depth
\* The innermost Reconcile moves on to its callable and past it.
<1>b. ASSUME UNCHANGED <<site, owner, dying>>, dying = <<>>,
             chain' # <<>> => chain'[1].pc # "clear"
      PROVE OwnershipOK'
  <2>1. \A b \in Addr : Live(b)' /\ owner'[b] # Host => site'[b] \in Kids[site'[owner'[b]]]
    BY <1>b DEF OwnershipOK, Live
  <2>2. Len(chain') > 1 => chain' # <<>>
    OBVIOUS
  <2>3. QED
    BY <1>b, <2>1, <2>2 DEF OwnershipOK
<1>8. CASE Invoke
  <2>1. PICK f \in Frame : f.slot = chain[1].slot /\ f.pc = "call" /\ chain' = ReplaceTop(f)
                          /\ chain # <<>>
    BY <1>8, InvokeStep
  <2>2. chain'[1] = f
    BY <2>1, TopStep
  <2>3. QED
    BY <1>8, <2>1, <2>2, <1>b DEF Invoke, InFrame, object
<1>9. ASSUME NEW s \in Signal, CallableSet(s) PROVE OwnershipOK'
  <2>1. PICK f \in Frame : f.slot = chain[1].slot /\ f.pc = "call" /\ chain' = ReplaceTop(f)
                          /\ chain # <<>>
    BY <1>9, SetStep
  <2>2. chain'[1] = f
    BY <2>1, TopStep
  <2>3. QED
    BY <1>9, <2>1, <2>2, <1>b DEF CallableSet, InFrame, object
<1>10. ASSUME NEW todo \in SUBSET Site, CallableReturn(todo) PROVE OwnershipOK'
  <2>1. PICK f \in Frame : f.slot = chain[1].slot /\ f.pc = "discover" /\ chain' = ReplaceTop(f)
                          /\ chain # <<>>
    BY <1>10, ReturnOutputStep
  <2>2. chain'[1] = f
    BY <2>1, TopStep
  <2>3. QED
    BY <1>10, <2>1, <2>2, <1>b DEF CallableReturn, InFrame, object
<1>11. ASSUME NEW k \in Site, NEW c \in Addr, DiscoverNested(k, c) PROVE OwnershipOK'
  <2> DEFINE a == chain[1].slot
  <2>1. /\ a = Head(chain).slot /\ a \in Addr /\ Live(a) /\ k \in Kids[site[a]] /\ a # Host
        /\ chain' # <<>> /\ chain'[1].slot = c
    <3>1. chain # <<>> /\ k \in chain[1].todo /\ chain' # <<>> /\ chain'[1] = EnterFrame(c)
      BY <1>11, DiscoverStep
    <3>2. Head(chain) = chain[1] /\ 1 \in DOMAIN chain /\ a \in Addr /\ a # Host
      BY <3>1, TopFrame, NameAssumption
    <3>3. Live(a) /\ k \in Kids[site[a]]
      BY <3>1, <3>2 DEF OutputOK, NoDangling
    <3>4. QED
      BY <3>1, <3>2, <3>3 DEF EnterFrame
  <2>2. /\ ~Live(c) /\ site' = [site EXCEPT ![c] = k] /\ owner' = [owner EXCEPT ![c] = a]
        /\ dying' = <<>>
    BY <1>11, <2>1 DEF DiscoverNested, Construct, InFrame
  <2>3. a # c
    BY <2>1, <2>2
  <2>4. \A b \in Addr : Live(b) => owner[b] # c
    BY <2>2, NameAssumption DEF NoDangling
  <2>5. \A b \in Addr : Live(b)' /\ owner'[b] # Host => site'[b] \in Kids[site'[owner'[b]]]
    <3> SUFFICES ASSUME NEW b \in Addr, Live(b)', owner'[b] # Host
                 PROVE  site'[b] \in Kids[site'[owner'[b]]]
      OBVIOUS
    <3>1. CASE b = c
      BY <3>1, <2>1, <2>2, <2>3 DEF TypeOK
    <3>2. CASE b # c
      <4>1. site'[b] = site[b] /\ owner'[b] = owner[b] /\ Live(b) /\ owner[b] \in Addr
        BY <3>2, <2>2 DEF Live, TypeOK
      <4>2. site'[owner[b]] = site[owner[b]]
        BY <4>1, <2>2, <2>4 DEF TypeOK
      <4>3. QED
        BY <4>1, <4>2 DEF OwnershipOK
    <3>3. QED
      BY <3>1, <3>2
  <2>6. \A b \in Addr : ~(Live(b)' /\ owner'[b] = c)
    BY <2>2, <2>3, <2>4 DEF Live, TypeOK
  <2>7. NestedIn(c)' = {}
    BY <2>6 DEF NestedIn
  <2>8. NestedIn(chain[1].slot)' = {}
    BY <2>1, <2>7 DEF NestedIn
  <2>9. \A i \in DOMAIN dying' : FALSE
    BY <2>2
  <2>10. QED
    BY <2>2, <2>5, <2>8, <2>9 DEF OwnershipOK
<1>12. CASE Return
  <2>1. chain' # <<>> => chain'[1].pc # "clear"
    <3> SUFFICES ASSUME chain' # <<>> PROVE chain'[1].pc # "clear"
      OBVIOUS
    <3>1. 1 \in DOMAIN chain' /\ 2 \in DOMAIN chain /\ chain'[1] = chain[2]
      BY <1>12, ReturnStep, TailLemma DEF Return, InFrame, TypeOK
    <3>2. QED
      BY <3>1 DEF ControlOK
  <2>2. QED
    BY <1>12, <2>1, <1>b DEF Return, InFrame, object
<1>13. ASSUME UNCHANGED <<site, owner, dying, chain>> PROVE OwnershipOK'
  BY <1>13 DEF OwnershipOK, NestedIn, Live, Depth
<1>14. QED
  BY <1>1, <1>2, <1>3, <1>4, <1>5, <1>6, <1>7, <1>8, <1>9, <1>10, <1>11, <1>12, <1>13
     DEF Next, HostStep, RuntimeStep, vars, object, control,
         HostSet, HostGet, BeginBatch, EndBatch, Tick, MarkDirty, VisitClean, VisitFreed, CallableGet

\* Destroying a slot touches no Reconcile in progress and no other destructor.
LEMMA DestroySpares ==
    ASSUME IInv, Destroy
    PROVE  /\ dying[1] = Head(dying) /\ dying[1] \in Addr
           /\ \A i \in DOMAIN chain : chain[i].slot # dying[1]
           /\ ~Contains(Tail(dying), dying[1])
<1> USE DEF IInv
<1>1. /\ dying[1] = Head(dying) /\ dying[1] \in Addr /\ dying # <<>>
      /\ Len(dying) \in Nat /\ 1 \in DOMAIN dying /\ DOMAIN dying = 1..Len(dying)
      /\ Tail(dying) \in Seq(Addr) /\ Len(Tail(dying)) = Len(dying) - 1
      /\ \A i \in 1..(Len(dying) - 1) : Tail(dying)[i] = dying[i + 1]
  BY TailLemma, LenProperties DEF Destroy, TypeOK
<1>2. \A a \in Addr : Live(a) => Depth(a) \in Nat
  BY SiteAssumption DEF Live, Depth, TypeOK
<1>3. \A i \in DOMAIN dying : dying[i] \in Addr /\ Depth(dying[i]) \in Nat
  BY <1>1, <1>2 DEF NoDangling, Contains, TypeOK
<1>4. \A i \in DOMAIN chain : i = 1 /\ chain # <<>>
  BY <1>1, LenProperties DEF OwnershipOK, TypeOK
<1>5. ASSUME NEW i \in DOMAIN chain PROVE chain[i].slot # dying[1]
  <2>1. Depth(chain[1].slot) < Depth(dying[1])
    BY <1>1, <1>4, <1>5 DEF OwnershipOK
  <2>2. chain[1].slot \in Addr /\ Depth(chain[1].slot) \in Nat
    BY <1>2, <1>4, <1>5, TopFrame DEF NoDangling
  <2>3. QED
    BY <1>3, <1>1, <1>4, <1>5, <2>1, <2>2
<1>6. ASSUME NEW i \in 1..(Len(dying) - 1) PROVE Tail(dying)[i] # dying[1]
  <2>1. i + 1 \in DOMAIN dying /\ 1 < i + 1 /\ Tail(dying)[i] = dying[i + 1]
    BY <1>1
  <2>2. Depth(dying[i + 1]) < Depth(dying[1])
    BY <1>1, <2>1 DEF OwnershipOK
  <2>3. QED
    BY <1>1, <1>3, <2>1, <2>2
<1>7. QED
  BY <1>1, <1>5, <1>6 DEF Contains

LEMMA NextOutput == IInv /\ [Next]_vars => OutputOK'
<1> SUFFICES ASSUME IInv, [Next]_vars PROVE OutputOK'
  OBVIOUS
<1> USE DEF IInv
<1>a. ASSUME NEW a \in Addr, chain' = <<EnterFrame(a)>> PROVE OutputOK'
  <2>1. \A i \in DOMAIN chain' : chain'[i].todo = {}
    BY <1>a DEF EnterFrame
  <2>2. QED
    BY <2>1 DEF OutputOK
<1>1. ASSUME NEW s \in RootSite, NEW a \in Addr, HostMount(s, a) PROVE OutputOK'
  BY <1>1, <1>a DEF HostMount
<1>2. ASSUME NEW a \in Addr, HostReconcile(a) PROVE OutputOK'
  BY <1>2, <1>a DEF HostReconcile
<1>3. CASE VisitDirty
  <2>1. Head(snapshot) \in Addr
    BY <1>3, TailLemma DEF VisitDirty, AtPass, TypeOK
  <2>2. QED
    BY <1>3, <2>1, <1>a DEF VisitDirty
<1>4. CASE Destroy
  <2>1. \A i \in DOMAIN chain : site'[chain[i].slot] = site[chain[i].slot]
    <3>1. \A i \in DOMAIN chain : chain[i] \in Frame
      BY LenProperties DEF TypeOK
    <3>2. QED
      BY <1>4, <3>1, DestroySpares DEF Destroy, Frame, TypeOK
  <2>2. chain' = chain
    BY <1>4 DEF Destroy
  <2>3. QED
    BY <2>1, <2>2 DEF OutputOK
<1>5. CASE Invoke
  <2>1. PICK f \in Frame : /\ f.slot = chain[1].slot /\ f.todo = chain[1].todo
                           /\ chain' = ReplaceTop(f) /\ chain # <<>>
    BY <1>5, InvokeStep
  <2>2. /\ DOMAIN chain' = DOMAIN chain
        /\ \A i \in DOMAIN chain : chain'[i].slot = chain[i].slot /\ chain'[i].todo = chain[i].todo
    BY <2>1, TopStep
  <2>3. QED
    BY <1>5, <2>2 DEF Invoke, object, OutputOK
<1>6. ASSUME NEW s \in Signal, CallableSet(s) PROVE OutputOK'
  <2>1. PICK f \in Frame : /\ f.slot = chain[1].slot /\ f.todo = chain[1].todo
                           /\ chain' = ReplaceTop(f) /\ chain # <<>>
    BY <1>6, SetStep
  <2>2. /\ DOMAIN chain' = DOMAIN chain
        /\ \A i \in DOMAIN chain : chain'[i].slot = chain[i].slot /\ chain'[i].todo = chain[i].todo
    BY <2>1, TopStep
  <2>3. QED
    BY <1>6, <2>2 DEF CallableSet, object, OutputOK
<1>7. ASSUME NEW todo \in SUBSET Site, CallableReturn(todo) PROVE OutputOK'
  <2>1. PICK f \in Frame : /\ f.slot = chain[1].slot /\ f.todo = todo
                           /\ chain' = ReplaceTop(f) /\ chain # <<>>
    BY <1>7, ReturnOutputStep
  <2>2. todo \subseteq Kids[site[chain[1].slot]]
    BY <1>7, <2>1, TopFrame DEF CallableReturn
  <2>3. QED
    BY <1>7, <2>1, <2>2, TopStep DEF CallableReturn, object, OutputOK
<1>8. ASSUME NEW k \in Site, NEW c \in Addr, DiscoverNested(k, c) PROVE OutputOK'
  <2>1. \A i \in DOMAIN chain : chain[i].slot \in Addr /\ chain[i].slot # c
    <3>1. ~Live(c)
      BY <1>8 DEF DiscoverNested, Construct
    <3>2. \A i \in DOMAIN chain : chain[i] \in Frame
      BY LenProperties DEF TypeOK
    <3>3. QED
      BY <3>1, <3>2 DEF NoDangling, Frame
  <2>2. \A i \in DOMAIN chain : site'[chain[i].slot] = site[chain[i].slot]
    BY <1>8, <2>1 DEF DiscoverNested, Construct, TypeOK
  <2>3. ASSUME NEW i \in DOMAIN chain' PROVE chain'[i].todo \subseteq Kids[site'[chain'[i].slot]]
    <3>1. CASE i = 1
      BY <1>8, <3>1, DiscoverStep DEF EnterFrame
    <3>2. CASE i # 1
      <4>1. (i - 1) \in 1..Len(chain) /\ (i - 1) + 1 = i /\ DOMAIN chain = 1..Len(chain)
        BY <1>8, <3>2, <2>3, DiscoverStep
      <4>2. /\ chain'[i].slot = chain[i - 1].slot
            /\ chain'[i].todo \subseteq chain[i - 1].todo
        BY <1>8, <4>1, DiscoverStep
      <4>3. QED
        BY <4>1, <4>2, <2>2 DEF OutputOK
    <3>3. QED
      BY <3>1, <3>2
  <2>4. QED
    BY <2>3 DEF OutputOK
<1>9. CASE Return
  <2>1. site' = site
    BY <1>9 DEF Return, object
  <2>2. QED
    BY <1>9, <2>1, ReturnStep DEF OutputOK
<1>10. ASSUME UNCHANGED <<site, chain>> PROVE OutputOK'
  BY <1>10 DEF OutputOK
<1>11. QED
  BY <1>1, <1>2, <1>3, <1>4, <1>5, <1>6, <1>7, <1>8, <1>9, <1>10
     DEF Next, HostStep, RuntimeStep, vars, object, control, HostUnmount, HostSet, HostGet,
         BeginBatch, EndBatch, Tick, MarkDirty, VisitClean, VisitFreed, DestroyNested,
         ClearNested, CallableGet

\* A slot that is found, queued, subscribed, run or about to be destroyed is live,
\* and a destructor withdraws its slot from all of these.
LEMMA NextNoDangling == IInv /\ [Next]_vars => NoDangling'
<1> SUFFICES ASSUME IInv, [Next]_vars PROVE NoDangling'
  OBVIOUS
<1> USE DEF IInv
<1>f. \A i \in DOMAIN chain : chain[i] \in Frame /\ chain[i].slot \in Addr /\ Live(chain[i].slot)
  <2>1. \A i \in DOMAIN chain : chain[i] \in Frame
    BY LenProperties DEF TypeOK
  <2>2. QED
    BY <2>1 DEF Frame, NoDangling
<1>1. ASSUME NEW s \in RootSite, NEW a \in Addr, HostMount(s, a) PROVE NoDangling'
  <2>1. /\ \A b \in Addr : Live(b) => Live(b)' 
        /\ Live(a)' /\ site'[a] # NoSite
    BY <1>1, SiteAssumption, NameAssumption DEF HostMount, Construct, Live, TypeOK
  <2>2. \A b \in Addr : Live(b)' /\ owner'[b] # Host => site'[owner'[b]] # NoSite
    BY <1>1, <2>1 DEF HostMount, Construct, NoDangling, Live, TypeOK
  <2>3. \A i \in DOMAIN chain' : chain'[i].slot = a
    BY <1>1 DEF HostMount, EnterFrame
  <2>4. UNCHANGED <<queue, active, dying, rest, subs>>
    BY <1>1 DEF HostMount
  <2>5. \A i \in DOMAIN chain' : site'[chain'[i].slot] # NoSite
    BY <2>1, <2>3 DEF Live
  <2>6. QED
    BY <2>1, <2>2, <2>4, <2>5 DEF NoDangling, Live
<1>2. ASSUME NEW a \in Addr, Live(a), chain' = <<EnterFrame(a)>>,
             UNCHANGED <<site, owner, queue, active, dying, rest, subs>>
      PROVE NoDangling'
  <2>1. \A i \in DOMAIN chain' : chain'[i].slot = a
    BY <1>2 DEF EnterFrame
  <2>2. QED
    BY <1>2, <2>1 DEF NoDangling, Live
<1>3. ASSUME NEW a \in Addr, HostReconcile(a) PROVE NoDangling'
  BY <1>3, <1>2 DEF HostReconcile
<1>4. CASE VisitDirty
  <2>1. Head(snapshot) \in Addr
    BY <1>4, TailLemma DEF VisitDirty, AtPass, TypeOK
  <2>2. QED
    BY <1>4, <2>1, <1>2 DEF VisitDirty, AtPass
\* One more destructor is entered.
<1>5. ASSUME NEW c \in Addr, Live(c), dying' = <<c>> \/ dying' = <<c>> \o dying,
             UNCHANGED <<site, owner, queue, active, chain, rest, subs>>
      PROVE NoDangling'
  <2>1. \A b \in Addr : Contains(dying', b) => Live(b)
    <3>1. CASE dying' = <<c>>
      BY <1>5, <3>1, ContainsShort
    <3>2. CASE dying' = <<c>> \o dying
      BY <1>5, <3>2, PushLemma DEF NoDangling, TypeOK
    <3>3. QED
      BY <1>5, <3>1, <3>2
  <2>2. QED
    BY <1>5, <2>1 DEF NoDangling, Live
<1>6. ASSUME NEW a \in Addr, HostUnmount(a) PROVE NoDangling'
  BY <1>6, <1>5 DEF HostUnmount, object
<1>7. ASSUME NEW c \in Addr, DestroyNested(c) PROVE NoDangling'
  BY <1>7, <1>5 DEF DestroyNested, NestedIn, object
<1>8. ASSUME NEW c \in Addr, ClearNested(c) PROVE NoDangling'
  BY <1>8, <1>5 DEF ClearNested, NestedIn, object
\* Notify walks subscribers that are live.
<1>9. ASSUME NEW s \in Signal, HostSet(s) PROVE NoDangling'
  BY <1>9 DEF HostSet, Write, object, NoDangling, Live
<1>10. ASSUME NEW s \in Signal, CallableSet(s) PROVE NoDangling'
  <2>1. PICK f \in Frame : f.slot = chain[1].slot /\ chain' = ReplaceTop(f) /\ chain # <<>>
    BY <1>10, SetStep
  <2>2. \A i \in DOMAIN chain' : Live(chain'[i].slot)
    BY <2>1, <1>f, TopStep
  <2>3. QED
    BY <1>10, <2>2 DEF CallableSet, Write, object, NoDangling, Live
<1>11. CASE MarkDirty
  <2>1. /\ Head(rest) \in Addr
        /\ \A b : Contains(rest, b) <=> b = Head(rest) \/ Contains(Tail(rest), b)
    BY <1>11, TailLemma DEF MarkDirty, TypeOK
  <2>2. \A b : Contains(queue', b) <=> Contains(queue, b) \/ b = Head(rest)
    BY <1>11, <2>1, AppendNewLemma DEF MarkDirty, TypeOK
  <2>3. QED
    BY <1>11, <2>1, <2>2 DEF MarkDirty, NoDangling, Live
<1>12. ASSUME NEW s \in Signal, HostGet(s) PROVE NoDangling'
  <2>1. subs' = subs
    BY <1>12 DEF HostGet, Idle, ControlOK, TrackRead
  <2>2. QED
    BY <1>12, <2>1 DEF HostGet, object, control, NoDangling, Live
<1>13. ASSUME NEW s \in Signal, CallableGet(s) PROVE NoDangling'
  <2>1. Head(chain) = chain[1] /\ 1 \in DOMAIN chain /\ active = <<chain[1].slot>>
    BY <1>13, TopFrame DEF CallableGet, InFrame, ControlOK
  <2>2. \A t \in Signal : \A b :
            Contains(subs'[t], b) => Contains(subs[t], b) \/ b = chain[1].slot
    BY <1>13, <2>1, <1>f, TrackReadLemma DEF CallableGet, TypeOK
  <2>3. QED
    BY <1>13, <2>1, <2>2, <1>f DEF CallableGet, object, control, NoDangling, Live
\* The pass takes the queue over, and forgets what it has visited.
<1>14. ASSUME queue' = queue \/ queue' = <<>>,
              UNCHANGED <<site, owner, active, dying, chain, rest, subs>>
       PROVE NoDangling'
  BY <1>14, ContainsShort DEF NoDangling, Live
<1>15. CASE EndBatch
  BY <1>15, <1>14 DEF EndBatch, StartPass, object
<1>16. CASE Tick
  BY <1>16, <1>14 DEF Tick, StartPass, object
<1>17. CASE Destroy
  <2> DEFINE d == dying[1]
  <2>1. /\ d = Head(dying) /\ d \in Addr /\ \A i \in DOMAIN chain : chain[i].slot # d
        /\ ~Contains(Tail(dying), d)
    BY <1>17, DestroySpares
  <2>2. \A b \in Addr : b # d => (Live(b) <=> Live(b)') /\ owner'[b] = owner[b]
    BY <1>17, <2>1 DEF Destroy, Live, TypeOK
  <2>3. site'[d] = NoSite /\ \A b \in Addr : Live(b) => owner[b] # d
    BY <1>17, <2>1 DEF Destroy, NestedIn, Live, TypeOK
  <2>4. \A b : /\ Contains(queue', b) <=> Contains(queue, b) /\ b # d
               /\ \A s \in Signal : Contains(subs'[s], b) <=> Contains(subs[s], b) /\ b # d
    <3>1. queue' = Without(queue, d) /\ subs' = ClearSlot(d)
      BY <1>17, <2>1 DEF Destroy
    <3>2. \A b : Contains(queue', b) <=> Contains(queue, b) /\ b # d
      BY <3>1, WithoutLemma DEF TypeOK
    <3>3. \A b : \A s \in Signal : Contains(subs'[s], b) <=> Contains(subs[s], b) /\ b # d
      BY <3>1, ClearSlotLemma DEF TypeOK
    <3>4. QED
      BY <3>2, <3>3
  <2>5. active = <<>> /\ \A b : ~Contains(active', b)
    <3>1. active = <<>>
      BY <1>17 DEF Destroy, ControlOK
    <3>2. active' = <<>>
      BY <1>17, <3>1 DEF Destroy, Without, Contains
    <3>3. QED
      BY <3>1, <3>2, ContainsShort
  <2>6. \A b : Contains(dying', b) => Contains(dying, b) /\ b # d
    BY <1>17, <2>1, TailLemma DEF Destroy, TypeOK
  <2>7. rest' = <<>> /\ \A b : ~Contains(rest', b)
    BY <1>17, ContainsShort DEF Destroy
  <2>8. chain' = chain
    BY <1>17 DEF Destroy
  <2>9. \A b \in Addr : Live(b)' /\ owner'[b] # Host => site'[owner'[b]] # NoSite
    <3> SUFFICES ASSUME NEW b \in Addr, Live(b)', owner'[b] # Host PROVE site'[owner'[b]] # NoSite
      OBVIOUS
    <3>1. b # d /\ Live(b) /\ owner'[b] = owner[b]
      BY <2>2, <2>3 DEF Live
    <3>2. owner[b] \in Addr /\ Live(owner[b]) /\ owner[b] # d
      BY <3>1, <2>3 DEF NoDangling, TypeOK
    <3>3. site'[owner[b]] # NoSite
      BY <3>2, <2>2 DEF Live
    <3>4. QED
      BY <3>1, <3>3 DEF Live
  <2>10. \A i \in DOMAIN chain' : site'[chain'[i].slot] # NoSite
    BY <2>1, <2>2, <2>8, <1>f DEF Live
  <2>11. \A b \in Addr : Contains(queue, b) \/ Contains(dying, b) => Live(b)
    BY DEF NoDangling
  <2>12. \A b \in Addr, s \in Signal : Contains(subs[s], b) => Live(b)
    BY DEF NoDangling
  <2>13. \A b \in Addr : \/ Contains(queue', b) \/ Contains(active', b)
                         \/ Contains(dying', b) \/ Contains(rest', b)
                         => Live(b)'
    BY <2>2, <2>4, <2>5, <2>6, <2>7, <2>11
  <2>14. \A b \in Addr, s \in Signal : Contains(subs'[s], b) => Live(b)'
    BY <2>2, <2>4, <2>12
  <2>15. QED
    BY <2>9, <2>10, <2>13, <2>14 DEF NoDangling, Live
<1>18. CASE Invoke
  <2>1. PICK f \in Frame : f.slot = chain[1].slot /\ chain' = ReplaceTop(f) /\ chain # <<>>
    BY <1>18, InvokeStep
  <2>2. \A i \in DOMAIN chain' : Live(chain'[i].slot)
    BY <2>1, <1>f, TopStep
  <2>3. Head(chain) = chain[1] /\ 1 \in DOMAIN chain
    BY <2>1, TopFrame
  <2>4. \A b : Contains(active', b) => b = chain[1].slot
    <3>1. active = <<>>
      BY <1>18, <2>3 DEF Invoke, InFrame, ControlOK
    <3>2. active' = <<chain[1].slot>>
      BY <1>18, <2>3, <3>1, <1>f DEF Invoke
    <3>3. QED
      BY <3>2, ContainsShort
  <2>5. \A b : \A s \in Signal : Contains(subs'[s], b) => Contains(subs[s], b)
    BY <1>18, <2>3, ClearSlotLemma DEF Invoke, TypeOK
  <2>6. QED
    BY <1>18, <2>2, <2>3, <2>4, <2>5, <1>f DEF Invoke, object, NoDangling, Live
<1>19. ASSUME NEW todo \in SUBSET Site, CallableReturn(todo) PROVE NoDangling'
  <2>1. PICK f \in Frame : f.slot = chain[1].slot /\ chain' = ReplaceTop(f) /\ chain # <<>>
    BY <1>19, ReturnOutputStep
  <2>2. \A i \in DOMAIN chain' : Live(chain'[i].slot)
    BY <2>1, <1>f, TopStep
  <2>3. active' = <<>>
    BY <1>19, <2>1, TopFrame DEF CallableReturn, InFrame, ControlOK
  <2>4. UNCHANGED <<site, owner, subs, queue, rest, dying>>
    BY <1>19 DEF CallableReturn, object
  <2>5. \A b : ~Contains(active', b)
    BY <2>3, ContainsShort
  <2>6. QED
    BY <2>2, <2>4, <2>5 DEF NoDangling, Live
<1>20. ASSUME NEW k \in Site, NEW c \in Addr, DiscoverNested(k, c) PROVE NoDangling'
  <2> DEFINE a == chain[1].slot
  <2>1. chain # <<>> /\ Head(chain) = chain[1] /\ 1 \in DOMAIN chain /\ a \in Addr /\ Live(a)
    BY <1>20, <1>f, DiscoverStep, TopFrame
  <2>2. site' = [site EXCEPT ![c] = k] /\ owner' = [owner EXCEPT ![c] = a]
    BY <1>20, <2>1 DEF DiscoverNested, Construct
  <2>3. /\ \A b \in Addr : Live(b) => Live(b)'
        /\ Live(c)'
    BY <2>2, NameAssumption DEF Live, TypeOK
  <2>4. \A b \in Addr : Live(b)' /\ owner'[b] # Host => site'[owner'[b]] # NoSite
    <3> SUFFICES ASSUME NEW b \in Addr, Live(b)', owner'[b] # Host PROVE site'[owner'[b]] # NoSite
      OBVIOUS
    <3>1. CASE b = c
      BY <3>1, <2>1, <2>2, <2>3 DEF TypeOK, Live
    <3>2. CASE b # c
      <4>1. owner'[b] = owner[b] /\ Live(b) /\ owner[b] \in Addr
        BY <3>2, <2>2 DEF Live, TypeOK
      <4>2. Live(owner[b])
        BY <4>1 DEF NoDangling
      <4>3. QED
        BY <4>1, <4>2, <2>3 DEF Live
    <3>3. QED
      BY <3>1, <3>2
  <2>5. ASSUME NEW i \in DOMAIN chain' PROVE site'[chain'[i].slot] # NoSite
    <3>1. CASE i = 1
      BY <1>20, <3>1, <2>3, DiscoverStep DEF EnterFrame, Live
    <3>2. CASE i # 1
      <4>1. (i - 1) \in DOMAIN chain /\ chain'[i].slot = chain[i - 1].slot
        <5>1. (i - 1) \in 1..Len(chain) /\ (i - 1) + 1 = i /\ DOMAIN chain = 1..Len(chain)
          BY <1>20, <3>2, <2>5, DiscoverStep
        <5>2. QED
          BY <1>20, <5>1, DiscoverStep
      <4>2. QED
        BY <4>1, <2>3, <1>f DEF Live
    <3>3. QED
      BY <3>1, <3>2
  <2>6. UNCHANGED <<queue, active, dying, rest, subs>>
    BY <1>20 DEF DiscoverNested
  <2>7. QED
    BY <2>3, <2>4, <2>5, <2>6 DEF NoDangling, Live
<1>21. CASE Return
  <2>1. \A i \in DOMAIN chain' : Live(chain'[i].slot)
    BY <1>21, <1>f, ReturnStep
  <2>2. QED
    BY <1>21, <2>1 DEF Return, object, NoDangling, Live
<1>22. ASSUME UNCHANGED <<site, owner, queue, active, dying, chain, rest, subs>> PROVE NoDangling'
  BY <1>22 DEF NoDangling, Live
<1>23. QED
  BY <1>1, <1>3, <1>4, <1>6, <1>7, <1>8, <1>9, <1>10, <1>11, <1>12, <1>13, <1>15, <1>16, <1>17,
     <1>18, <1>19, <1>20, <1>21, <1>22
     DEF Next, HostStep, RuntimeStep, vars, object, control, BeginBatch, VisitClean, VisitFreed

\* A slot that is behind keeps waiting somewhere, until its callable runs again.
LEMMA NextNoLostUpdate == IInv /\ [Next]_vars => NoLostUpdate'
<1> SUFFICES ASSUME IInv, [Next]_vars PROVE NoLostUpdate'
  OBVIOUS
<1> USE DEF IInv
<1> DEFINE Waits(b) == dirty[b] /\ (Contains(queue, b) \/ Contains(snapshot, b))
           WaitsNext(b) == dirty'[b] /\ (Contains(queue', b) \/ Contains(snapshot', b))
\* Outside NestedSlots_.clear() and Notify's loop, only the queue and the pass remain.
<1>a. ASSUME rest = <<>>, chain = <<>> \/ chain[1].pc # "clear",
             NEW b \in Addr, Live(b), behind[b] # {}
      PROVE Waits(b)
  <2>1. ~Rerunning(b)
    BY <1>a DEF Rerunning, ControlOK
  <2>2. ~Contains(rest, b)
    BY <1>a, ContainsShort
  <2>3. QED
    BY <1>a, <2>1, <2>2 DEF NoLostUpdate
<1>b. ASSUME \A b \in Addr : Live(b)' /\ behind'[b] # {} =>
                Rerunning(b)' \/ Contains(rest', b) \/ WaitsNext(b)
      PROVE NoLostUpdate'
  BY <1>b DEF NoLostUpdate
<1>1. ASSUME NEW s \in RootSite, NEW a \in Addr, HostMount(s, a) PROVE NoLostUpdate'
  <2>1. Rerunning(a)'
    BY <1>1 DEF HostMount, EnterFrame, Rerunning
  <2>2. ASSUME NEW b \in Addr, Live(b)', behind'[b] # {}, b # a PROVE WaitsNext(b)
    <3>1. Live(b) /\ behind[b] # {} /\ dirty'[b] = dirty[b]
      BY <1>1, <2>2 DEF HostMount, Construct, Live, TypeOK
    <3>2. Waits(b)
      BY <1>1, <3>1, <1>a DEF HostMount, Idle
    <3>3. QED
      BY <1>1, <3>1, <3>2 DEF HostMount
  <2>3. QED
    BY <2>1, <2>2, <1>b
\* A dirty slot's Reconcile is entered, from the queue's owner or from the pass.
<1>2. ASSUME NEW a \in Addr, rest = <<>>, chain = <<>>, chain' = <<EnterFrame(a)>>,
             dirty' = [dirty EXCEPT ![a] = FALSE], UNCHANGED <<site, behind, queue, rest>>,
             \A b : b # a /\ Contains(snapshot, b) => Contains(snapshot', b)
      PROVE NoLostUpdate'
  <2>1. Rerunning(a)'
    BY <1>2 DEF EnterFrame, Rerunning
  <2>2. ASSUME NEW b \in Addr, Live(b)', behind'[b] # {}, b # a PROVE WaitsNext(b)
    <3>1. Live(b) /\ behind[b] # {} /\ dirty'[b] = dirty[b]
      BY <1>2, <2>2 DEF Live, TypeOK
    <3>2. QED
      BY <1>2, <2>2, <3>1, <1>a
  <2>3. QED
    BY <2>1, <2>2, <1>b
<1>3. ASSUME NEW a \in Addr, HostReconcile(a) PROVE NoLostUpdate'
  BY <1>3, <1>2 DEF HostReconcile, Idle, history
<1>4. CASE VisitDirty
  <2>1. /\ Head(snapshot) \in Addr
        /\ \A b : b # Head(snapshot) /\ Contains(snapshot, b) => Contains(Tail(snapshot), b)
    BY <1>4, TailLemma DEF VisitDirty, AtPass, TypeOK
  <2>2. QED
    BY <1>4, <2>1, <1>2 DEF VisitDirty, AtPass, history
<1>5. CASE VisitClean
  <2>1. /\ Head(snapshot) \in Addr /\ ~dirty[Head(snapshot)]
        /\ \A b : b # Head(snapshot) /\ Contains(snapshot, b) => Contains(snapshot', b)
    BY <1>5, TailLemma DEF VisitClean, AtPass, TypeOK
  <2>2. ASSUME NEW b \in Addr, Live(b)', behind'[b] # {} PROVE WaitsNext(b)
    <3>1. Live(b) /\ behind[b] # {} /\ Waits(b)
      BY <1>5, <2>2, <1>a DEF VisitClean, AtPass, object, history, Live
    <3>2. b # Head(snapshot)
      BY <2>1, <3>1
    <3>3. QED
      BY <1>5, <2>1, <3>1, <3>2 DEF VisitClean, object
  <2>3. QED
    BY <2>2, <1>b
<1>6. CASE MarkDirty
  <2>1. /\ Head(rest) \in Addr
        /\ \A b : Contains(rest, b) <=> b = Head(rest) \/ Contains(rest', b)
    BY <1>6, TailLemma DEF MarkDirty, TypeOK
  <2>2. \A b : Contains(queue', b) <=> Contains(queue, b) \/ b = Head(rest)
    <3>1. queue' = AppendNew(queue, Head(rest)) /\ queue \in Seq(Addr) /\ Distinct(queue)
      BY <1>6 DEF MarkDirty, TypeOK
    <3>2. QED
      BY <2>1, <3>1, AppendNewLemma
  <2>3. /\ UNCHANGED <<site, behind, snapshot, chain>>
        /\ dirty' = [dirty EXCEPT ![Head(rest)] = TRUE]
    BY <1>6 DEF MarkDirty, history
  <2>4. ASSUME NEW b \in Addr, Live(b)', behind'[b] # {}
        PROVE  Rerunning(b)' \/ Contains(rest', b) \/ WaitsNext(b)
    <3>1. Rerunning(b) \/ Contains(rest, b) \/ Waits(b)
      BY <2>3, <2>4 DEF NoLostUpdate, Live
    <3>2. Rerunning(b) => Rerunning(b)'
      BY <2>3 DEF Rerunning
    <3>3. QED
      BY <2>1, <2>2, <2>3, <3>1, <3>2 DEF TypeOK
  <2>5. QED
    BY <2>4, <1>b
\* A write makes exactly the subscribers of the signal fall behind.
<1>7. ASSUME NEW s \in Signal, Write(s), rest = <<>>, chain = <<>> \/ chain[1].pc # "clear",
             UNCHANGED <<site, dirty, queue, snapshot>>
      PROVE NoLostUpdate'
  <2>1. ASSUME NEW b \in Addr, Live(b)', behind'[b] # {} PROVE Contains(rest', b) \/ WaitsNext(b)
    <3>1. CASE s \in reads[b]
      BY <1>7, <3>1 DEF Write, SubscriptionsExact
    <3>2. CASE s \notin reads[b]
      BY <1>7, <2>1, <3>2, <1>a DEF Write, Live
    <3>3. QED
      BY <3>1, <3>2
  <2>2. QED
    BY <2>1, <1>b
<1>8. ASSUME NEW s \in Signal, HostSet(s) PROVE NoLostUpdate'
  BY <1>8, <1>7 DEF HostSet, Idle, object
<1>9. ASSUME NEW s \in Signal, CallableSet(s) PROVE NoLostUpdate'
  BY <1>9, <1>7, SetStep DEF CallableSet, InFrame, object
\* The pass takes the queue over.
<1>10. ASSUME Idle, StartPass, UNCHANGED <<site, behind, dirty>> PROVE NoLostUpdate'
  <2>1. ASSUME NEW b \in Addr, Live(b)', behind'[b] # {} PROVE WaitsNext(b)
    <3>1. Live(b) /\ Waits(b)
      BY <1>10, <2>1, <1>a DEF Idle, Live
    <3>2. ~Contains(snapshot, b)
      BY <1>10, ContainsShort DEF Idle
    <3>3. QED
      BY <1>10, <3>1, <3>2 DEF StartPass
  <2>2. QED
    BY <2>1, <1>b
<1>11. ASSUME UNCHANGED <<site, behind, dirty, queue, snapshot, rest, chain>> PROVE NoLostUpdate'
  BY <1>11 DEF NoLostUpdate, Live, Rerunning
<1>12. CASE EndBatch
  BY <1>12, <1>10, <1>11 DEF EndBatch, object, history
<1>13. CASE Tick
  BY <1>13, <1>10 DEF Tick, object, history
<1>14. CASE Destroy
  <2> DEFINE d == dying[1]
  <2>1. d = Head(dying) /\ d \in Addr
    BY <1>14, DestroySpares
  <2>2. /\ site' = [site EXCEPT ![d] = NoSite] /\ behind' = [behind EXCEPT ![d] = {}]
        /\ dirty' = [dirty EXCEPT ![d] = FALSE] /\ UNCHANGED <<rest, chain, snapshot>>
        /\ queue' = Without(queue, d)
    BY <1>14, <2>1 DEF Destroy
  <2>3. \A b : Contains(queue', b) <=> Contains(queue, b) /\ b # d
    BY <2>2, WithoutLemma DEF TypeOK
  <2>4. ASSUME NEW b \in Addr, Live(b)', behind'[b] # {}
        PROVE  Rerunning(b)' \/ Contains(rest', b) \/ WaitsNext(b)
    <3>1. b # d /\ Live(b) /\ behind[b] # {} /\ dirty'[b] = dirty[b]
      BY <2>1, <2>2, <2>4 DEF Live, TypeOK
    <3>2. Rerunning(b) \/ Contains(rest, b) \/ Waits(b)
      BY <3>1 DEF NoLostUpdate
    <3>3. Rerunning(b) => Rerunning(b)'
      BY <2>2 DEF Rerunning
    <3>4. QED
      BY <2>2, <2>3, <3>1, <3>2, <3>3
  <2>5. QED
    BY <2>4, <1>b
<1>15. CASE Invoke
  <2> DEFINE a == chain[1].slot
  <2>1. a = Head(chain).slot /\ a \in Addr /\ rest = <<>>
    BY <1>15, TopFrame DEF Invoke, InFrame
  <2>2. ASSUME NEW b \in Addr, Live(b)', behind'[b] # {} PROVE WaitsNext(b)
    <3>1. b # a /\ Live(b) /\ behind[b] # {}
      BY <1>15, <2>1, <2>2 DEF Invoke, object, Live, TypeOK
    <3>2. ~Rerunning(b)
      BY <3>1 DEF Rerunning, ControlOK
    <3>3. ~Contains(rest, b)
      BY <2>1, ContainsShort
    <3>4. Waits(b)
      BY <3>1, <3>2, <3>3 DEF NoLostUpdate
    <3>5. QED
      BY <1>15, <3>4 DEF Invoke, object
  <2>3. QED
    BY <2>2, <1>b
<1>16. ASSUME rest = <<>>, chain[1].pc # "clear",
              UNCHANGED <<site, behind, dirty, queue, snapshot>>
       PROVE NoLostUpdate'
  BY <1>16, <1>a, <1>b DEF Live
<1>17. ASSUME NEW todo \in SUBSET Site, CallableReturn(todo) PROVE NoLostUpdate'
  BY <1>17, <1>16, ReturnOutputStep DEF CallableReturn, InFrame, object, history
<1>18. ASSUME NEW k \in Site, NEW c \in Addr, DiscoverNested(k, c) PROVE NoLostUpdate'
  <2>1. rest = <<>> /\ chain[1].pc # "clear" /\ Rerunning(c)'
    <3>1. rest = <<>> /\ chain[1].pc # "clear"
      BY <1>18, DiscoverStep DEF DiscoverNested, InFrame
    <3>2. /\ chain'[1] = EnterFrame(c) /\ DOMAIN chain' = 1..(Len(chain) + 1)
          /\ Len(chain) \in Nat
      BY <1>18, DiscoverStep
    <3>3. 1 \in DOMAIN chain' /\ chain'[1].slot = c /\ chain'[1].pc = "clear"
      BY <3>2 DEF EnterFrame
    <3>4. QED
      BY <3>1, <3>3 DEF Rerunning
  <2>2. ASSUME NEW b \in Addr, Live(b)', behind'[b] # {}, b # c PROVE WaitsNext(b)
    <3>1. Live(b) /\ behind[b] # {} /\ dirty'[b] = dirty[b]
      BY <1>18, <2>2 DEF DiscoverNested, Construct, Live, TypeOK
    <3>2. Waits(b)
      BY <2>1, <3>1, <1>a
    <3>3. QED
      BY <1>18, <3>1, <3>2 DEF DiscoverNested
  <2>3. QED
    BY <2>1, <2>2, <1>b
<1>19. CASE Return
  BY <1>19, <1>16, ReturnStep DEF Return, InFrame, object, history
<1>20. QED
  BY <1>1, <1>3, <1>4, <1>5, <1>6, <1>8, <1>9, <1>11, <1>12, <1>13, <1>14, <1>15, <1>17, <1>18, <1>19
     DEF Next, HostStep, RuntimeStep, vars, object, control, history,
         HostUnmount, HostGet, BeginBatch, VisitFreed, DestroyNested, ClearNested, CallableGet
-----------------------------------------------------------------------------
LEMMA InitIInv == Init => IInv
<1> SUFFICES ASSUME Init PROVE IInv
  OBVIOUS
<1>1. TypeOK /\ ControlOK /\ RegistryDistinct
  BY InitTypeInv DEF TypeInv
<1>2. \A a \in Addr : ~Live(a)
  BY DEF Init, Live
<1>3. OwnershipOK /\ OutputOK
  BY <1>2 DEF Init, OwnershipOK, OutputOK
<1>4. NoDangling
  BY <1>2, ContainsShort DEF Init, NoDangling
<1>5. SubscriptionsExact
  BY ContainsShort DEF Init, SubscriptionsExact
<1>6. NoLostUpdate
  BY <1>2 DEF NoLostUpdate
<1>7. QED
  BY <1>1, <1>3, <1>4, <1>5, <1>6 DEF IInv

LEMMA NextIInv == IInv /\ [Next]_vars => IInv'
<1>1. IInv /\ [Next]_vars => TypeOK' /\ ControlOK' /\ RegistryDistinct'
  BY NextTypeInv DEF IInv, TypeInv
<1>2. QED
  BY <1>1, NextOwnership, NextOutput, NextNoDangling, NextSubscriptions, NextNoLostUpdate DEF IInv

\* The inductive invariant holds in every reachable state.
THEOREM Inductive == Spec => []IInv
BY InitIInv, NextIInv, PTL DEF Spec

\* However slots nest and wherever a SlotState is allocated again, no queue,
\* registry, stack, frame or owner of the runtime holds a destroyed SlotState.
THEOREM NothingDangles == Spec => []NoDangling
<1>1. IInv => NoDangling
  BY DEF IInv
<1>2. QED
  BY <1>1, Inductive, PTL

\* The registry is exactly what the last runs read, through every interleaving
\* of nested reconciles, writes and destructions.
THEOREM RegistryFaithful == Spec => []SubscriptionsExact
<1>1. IInv => SubscriptionsExact
  BY DEF IInv
<1>2. QED
  BY <1>1, Inductive, PTL

\* Every slot that has not seen a write to what it read is still waiting to run.
THEOREM NoWriteLost == Spec => []NoLostUpdate
<1>1. IInv => NoLostUpdate
  BY DEF IInv
<1>2. QED
  BY <1>1, Inductive, PTL

-----------------------------------------------------------------------------
(* No <Slot> is live twice: SitesOK, beside IInv.                          *)

\* The steps that build nothing and leave the frames' slots and findings alone.
LEMMA SitesKept ==
    ASSUME IInv, SitesOK, UNCHANGED <<site, owner>>,
           DOMAIN chain' \subseteq DOMAIN chain,
           \A i \in DOMAIN chain' :
              /\ chain'[i].slot = chain[i].slot
              /\ chain'[i].todo = chain[i].todo
              /\ chain'[i].pc = "call" => chain[i].pc = "call" \/ NestedIn(chain[i].slot) = {}
    PROVE  SitesOK'
<1>1. OneSlotPerSite' /\ \A a \in Addr : Live(a)' /\ owner'[a] = Host => site'[a] \in RootSite
  BY DEF SitesOK, OneSlotPerSite, Live
<1>2. \A i, j \in DOMAIN chain' : i < j => Depth(chain[j].slot)' < Depth(chain[i].slot)'
  BY DEF SitesOK, Depth
<1>3. \A i \in DOMAIN chain' : \A a \in Addr : site'[a] \notin chain'[i].todo
  BY DEF SitesOK
<1>4. \A i \in DOMAIN chain' : chain'[i].pc = "call" => NestedIn(chain[i].slot)' = {}
  BY DEF SitesOK, NestedIn, Live
<1>5. QED
  BY <1>1, <1>2, <1>3, <1>4 DEF SitesOK, Depth, NestedIn

LEMMA FrameAt ==
    ASSUME TypeOK, NEW i \in DOMAIN chain
    PROVE  chain[i].slot \in Addr /\ chain[i].todo \subseteq Site
<1>1. chain \in Seq(Frame)
  BY DEF TypeOK
<1>2. chain[i] \in Frame
  BY <1>1, LenProperties, ElementOfSeq
<1>3. QED
  BY <1>2 DEF Frame

\* A new stack of a single frame that has found nothing.
LEMMA SitesFresh ==
    ASSUME NEW a \in Addr, chain' = <<EnterFrame(a)>>, OneSlotPerSite',
           \A b \in Addr : Live(b)' /\ owner'[b] = Host => site'[b] \in RootSite
    PROVE  SitesOK'
<1>1. DOMAIN chain' = {1} /\ chain'[1] = EnterFrame(a)
  OBVIOUS
<1>2. chain'[1].todo = {} /\ chain'[1].pc = "clear"
  BY <1>1 DEF EnterFrame
<1>3. \A i \in DOMAIN chain' : i = 1
  BY <1>1
<1>4. QED
  BY <1>2, <1>3 DEF SitesOK

LEMMA NextSites == IInv /\ SitesOK /\ [Next]_vars => SitesOK'
<1> SUFFICES ASSUME IInv, SitesOK, [Next]_vars PROVE SitesOK'
  OBVIOUS
<1> USE DEF IInv
<1>1. ASSUME NEW s \in RootSite, NEW a \in Addr, HostMount(s, a) PROVE SitesOK'
  <2>1. /\ ~Live(a) /\ \A b \in Addr : site[b] # s
        /\ site' = [site EXCEPT ![a] = s] /\ owner' = [owner EXCEPT ![a] = Host]
        /\ chain' = <<EnterFrame(a)>>
    BY <1>1 DEF HostMount, Construct
  <2>2. OneSlotPerSite'
    BY <2>1 DEF SitesOK, OneSlotPerSite, Live, TypeOK
  <2>3. \A b \in Addr : Live(b)' /\ owner'[b] = Host => site'[b] \in RootSite
    BY <2>1 DEF SitesOK, Live, TypeOK
  <2>4. QED
    BY <2>1, <2>2, <2>3, SitesFresh
<1>2. ASSUME NEW a \in Addr, chain' = <<EnterFrame(a)>>, UNCHANGED <<site, owner>> PROVE SitesOK'
  <2>1. OneSlotPerSite' /\ \A b \in Addr : Live(b)' /\ owner'[b] = Host => site'[b] \in RootSite
    BY <1>2 DEF SitesOK, OneSlotPerSite, Live
  <2>2. QED
    BY <1>2, <2>1, SitesFresh
<1>3. ASSUME NEW a \in Addr, HostReconcile(a) PROVE SitesOK'
  BY <1>2, <1>3 DEF HostReconcile
<1>4. CASE VisitDirty
  <2>1. Head(snapshot) \in Addr
    BY <1>4, TailLemma DEF VisitDirty, AtPass, TypeOK
  <2>2. QED
    BY <1>2, <1>4, <2>1 DEF VisitDirty
<1>5. ASSUME UNCHANGED <<site, owner, chain>> PROVE SitesOK'
  BY <1>5, SitesKept
<1>6. CASE Destroy
  <2> DEFINE d == dying[1]
  <2>1. /\ d \in Addr /\ UNCHANGED chain /\ dying # <<>>
        /\ site' = [site EXCEPT ![d] = NoSite] /\ owner' = [owner EXCEPT ![d] = Host]
    BY <1>6, DestroySpares DEF Destroy
  <2>2. \A i \in DOMAIN chain : chain[i].slot # d /\ chain[i].slot \in Addr
    BY <1>6, DestroySpares, FrameAt
  <2> HIDE DEF d
  <2>3. \A a \in Addr : Live(a)' => Live(a) /\ site'[a] = site[a] /\ owner'[a] = owner[a]
    BY <2>1 DEF Live, TypeOK
  <2>4. OneSlotPerSite' /\ \A a \in Addr : Live(a)' /\ owner'[a] = Host => site'[a] \in RootSite
    BY <2>3 DEF SitesOK, OneSlotPerSite, Live
  <2>5. \A i, j \in DOMAIN chain' : i < j => Depth(chain[j].slot)' < Depth(chain[i].slot)'
    BY <2>1, <2>2 DEF SitesOK, Depth, TypeOK
  <2>6. ASSUME NEW i \in DOMAIN chain', NEW a \in Addr PROVE site'[a] \notin chain'[i].todo
    <3>1. chain[i].todo \subseteq Site
      BY <2>1, FrameAt
    <3>2. site'[a] = site[a] \/ site'[a] = NoSite
      BY <2>1 DEF TypeOK
    <3>3. QED
      BY <2>1, <2>6, <3>1, <3>2, NameAssumption DEF SitesOK
  <2>7. ASSUME NEW i \in DOMAIN chain', chain'[i].pc = "call" PROVE NestedIn(chain[i].slot)' = {}
    <3>1. NestedIn(chain[i].slot) = {}
      BY <2>1, <2>7 DEF SitesOK
    <3>2. QED
      BY <2>1, <2>3, <3>1 DEF NestedIn
  <2>8. QED
    BY <2>4, <2>5, <2>6, <2>7 DEF SitesOK
<1>7. CASE Invoke
  <2>1. PICK f \in Frame : /\ f.slot = chain[1].slot /\ f.todo = chain[1].todo
                           /\ chain' = ReplaceTop(f) /\ chain # <<>>
    BY <1>7, InvokeStep
  <2>2. /\ DOMAIN chain' = DOMAIN chain /\ chain'[1] = f
        /\ \A i \in DOMAIN chain : i # 1 => chain'[i] = chain[i]
    BY <2>1, TopStep
  <2>3. NestedIn(chain[1].slot) = {} /\ UNCHANGED <<site, owner>>
    BY <1>7, TopFrame, <2>1 DEF Invoke, object
  <2>4. QED
    BY <2>1, <2>2, <2>3, SitesKept
<1>8. ASSUME NEW s \in Signal, CallableSet(s) PROVE SitesOK'
  <2>1. PICK f \in Frame : /\ f.slot = chain[1].slot /\ f.todo = chain[1].todo
                           /\ chain[1].pc = "call"
                           /\ chain' = ReplaceTop(f) /\ chain # <<>>
    BY <1>8, SetStep
  <2>2. /\ DOMAIN chain' = DOMAIN chain /\ chain'[1] = f
        /\ \A i \in DOMAIN chain : i # 1 => chain'[i] = chain[i]
    BY <2>1, TopStep
  <2>3. UNCHANGED <<site, owner>>
    BY <1>8 DEF CallableSet, object
  <2>4. QED
    BY <2>1, <2>2, <2>3, SitesKept
<1>9. ASSUME NEW todo \in SUBSET Site, CallableReturn(todo) PROVE SitesOK'
  <2>1. PICK f \in Frame : /\ f.slot = chain[1].slot /\ f.todo = todo
                           /\ f.pc = "discover" /\ chain[1].pc = "call"
                           /\ chain' = ReplaceTop(f) /\ chain # <<>>
    BY <1>9, ReturnOutputStep
  <2>2. /\ DOMAIN chain' = DOMAIN chain /\ chain'[1] = f
        /\ \A i \in DOMAIN chain : chain'[i].slot = chain[i].slot
        /\ \A i \in DOMAIN chain : i # 1 => chain'[i] = chain[i]
    BY <2>1, TopStep
  <2>3. UNCHANGED <<site, owner>> /\ todo \subseteq Kids[site[chain[1].slot]]
    BY <1>9, TopFrame, <2>1 DEF CallableReturn, object
  <2>t. 1 \in DOMAIN chain /\ chain[1].slot \in Addr
    BY <2>1, TopFrame
  <2>4. ASSUME NEW a \in Addr PROVE site[a] \notin todo
    <3> SUFFICES ASSUME site[a] \in todo PROVE FALSE
      OBVIOUS
    <3>1. NestedIn(chain[1].slot) = {} /\ Live(chain[1].slot)
      BY <2>1, <2>t DEF SitesOK, NoDangling
    <3>2. site[chain[1].slot] \in Site /\ site[a] \in Kids[site[chain[1].slot]]
      BY <3>1, <2>t, <2>3 DEF Live, TypeOK
    <3>3. Live(a)
      BY NameAssumption DEF Live
    <3>4. CASE owner[a] = Host
      BY <3>2, <3>3, <3>4, OccurrenceAssumption DEF SitesOK
    <3>5. CASE owner[a] # Host
      <4>1. owner[a] \in Addr /\ Live(owner[a]) /\ site[a] \in Kids[site[owner[a]]]
        BY <3>3, <3>5 DEF NoDangling, OwnershipOK, TypeOK
      <4>2. site[owner[a]] \in Site
        BY <4>1 DEF Live, TypeOK
      <4>3. site[owner[a]] = site[chain[1].slot]
        BY <4>1, <4>2, <3>2, OccurrenceAssumption
      <4>4. owner[a] = chain[1].slot
        BY <4>1, <4>3, <2>t DEF SitesOK, OneSlotPerSite
      <4>5. QED
        BY <4>4, <3>1, <3>3 DEF NestedIn
    <3>6. QED
      BY <3>4, <3>5
  <2>5. OneSlotPerSite' /\ \A a \in Addr : Live(a)' /\ owner'[a] = Host => site'[a] \in RootSite
    BY <2>3 DEF SitesOK, OneSlotPerSite, Live
  <2>6. \A i, j \in DOMAIN chain' : i < j => Depth(chain[j].slot)' < Depth(chain[i].slot)'
    BY <2>2, <2>3 DEF SitesOK, Depth
  <2>7. \A i \in DOMAIN chain' : \A a \in Addr : site'[a] \notin chain'[i].todo
    BY <2>1, <2>2, <2>3, <2>4 DEF SitesOK
  <2>8. \A i \in DOMAIN chain' : chain'[i].pc = "call" => NestedIn(chain[i].slot)' = {}
    BY <2>1, <2>2, <2>3 DEF SitesOK, NestedIn, Live
  <2>9. QED
    BY <2>5, <2>6, <2>7, <2>8 DEF SitesOK
<1>10. ASSUME NEW k \in Site, NEW c \in Addr, DiscoverNested(k, c) PROVE SitesOK'
  <2> DEFINE top == chain[1].slot
             n == Len(chain)
  <2>1. /\ chain # <<>> /\ k \in chain[1].todo /\ chain[1].pc = "discover"
        /\ n \in Nat /\ n > 0
        /\ DOMAIN chain = 1..n /\ DOMAIN chain' = 1..(n + 1)
        /\ chain'[1] = EnterFrame(c)
        /\ \A i \in 1..n : /\ chain'[i + 1].slot = chain[i].slot
                           /\ chain'[i + 1].pc = chain[i].pc
                           /\ chain'[i + 1].todo \subseteq chain[i].todo
        /\ k \notin chain'[2].todo
    BY <1>10, DiscoverStep
  <2>2. top \in Addr /\ Live(top) /\ site[top] \in Site /\ k \in Kids[site[top]]
    <3>1. top \in Addr /\ Live(top) /\ 1 \in DOMAIN chain
      BY <2>1, TopFrame DEF NoDangling
    <3>2. QED
      BY <3>1, <2>1 DEF OutputOK, Live, TypeOK
  <2>3. /\ ~Live(c) /\ site' = [site EXCEPT ![c] = k] /\ owner' = [owner EXCEPT ![c] = top]
    BY <1>10, <2>1, TopFrame DEF DiscoverNested, Construct
  <2> HIDE DEF n, top
  <2>4. \A a \in Addr : site[a] # k
    BY <2>1 DEF SitesOK
  <2>5. OneSlotPerSite'
    BY <2>3, <2>4 DEF SitesOK, OneSlotPerSite, Live, TypeOK
  <2>6. \A a \in Addr : Live(a)' /\ owner'[a] = Host => site'[a] \in RootSite
    BY <2>2, <2>3, NameAssumption DEF SitesOK, Live, TypeOK
  <2>7. ASSUME NEW i \in 1..n
        PROVE  /\ chain[i].slot \in Addr /\ Live(chain[i].slot) /\ chain[i].slot # c
               /\ site'[chain[i].slot] = site[chain[i].slot] /\ site[chain[i].slot] \in Site
               /\ Level[site[chain[i].slot]] < Level[k]
               /\ i # 1 => k \notin chain[i].todo
    <3>1. chain[i].slot \in Addr /\ Live(chain[i].slot) /\ chain[i].slot # c
      BY <2>1, <2>3, FrameAt DEF NoDangling
    <3>2. site'[chain[i].slot] = site[chain[i].slot] /\ site[chain[i].slot] \in Site
      BY <3>1, <2>3 DEF Live, TypeOK
    <3>3. Level[site[top]] < Level[k] /\ Level[site[top]] \in Nat /\ Level[k] \in Nat
      BY <2>2, SiteAssumption
    <3>4. CASE i = 1
      BY <3>1, <3>2, <3>3, <3>4 DEF top
    <3>5. CASE i # 1
      <4>0. 1 \in DOMAIN chain /\ i \in DOMAIN chain /\ 1 < i
        BY <2>1, <3>5
      <4>1. Level[site[chain[i].slot]] < Level[site[top]]
        BY <4>0 DEF SitesOK, Depth, top
      <4>2. Level[site[chain[i].slot]] \in Nat
        BY <3>2, SiteAssumption
      <4>3. k \notin chain[i].todo
        <5> SUFFICES ASSUME k \in chain[i].todo PROVE FALSE
          OBVIOUS
        <5>1. k \in Kids[site[chain[i].slot]]
          BY <2>1 DEF OutputOK
        <5>2. site[chain[i].slot] = site[top]
          BY <5>1, <2>2, <3>2, OccurrenceAssumption
        <5>3. QED
          BY <5>2, <4>1, <3>3
      <4>4. QED
        BY <3>1, <3>2, <3>3, <4>1, <4>2, <4>3
    <3>6. QED
      BY <3>4, <3>5
  <2>8. \A i, j \in DOMAIN chain' : i < j => Depth(chain[j].slot)' < Depth(chain[i].slot)'
    <3> SUFFICES ASSUME NEW i \in 1..(n + 1), NEW j \in 1..(n + 1), i < j
                 PROVE  Level[site'[chain'[j].slot]] < Level[site'[chain'[i].slot]]
      BY <2>1 DEF Depth
    <3>1. j - 1 \in 1..n /\ (j - 1) + 1 = j
      BY <2>1
    <3>2. /\ chain'[j].slot = chain[j - 1].slot
          /\ site'[chain'[j].slot] = site[chain[j - 1].slot]
          /\ Level[site[chain[j - 1].slot]] < Level[k]
      BY <3>1, <2>1, <2>7
    <3>3. CASE i = 1
      <4>1. chain'[i].slot = c /\ site'[c] = k
        BY <3>3, <2>1, <2>3 DEF EnterFrame, TypeOK
      <4>2. QED
        BY <4>1, <3>2
    <3>4. CASE i # 1
      <4>1. i - 1 \in 1..n /\ (i - 1) + 1 = i /\ i - 1 < j - 1
        BY <3>4, <2>1
      <4>2. /\ chain'[i].slot = chain[i - 1].slot
            /\ site'[chain'[i].slot] = site[chain[i - 1].slot]
        BY <4>1, <2>1, <2>7
      <4>3. Level[site[chain[j - 1].slot]] < Level[site[chain[i - 1].slot]]
        BY <4>1, <3>1, <2>1 DEF SitesOK, Depth
      <4>4. QED
        BY <4>2, <4>3, <3>2
    <3>5. QED
      BY <3>3, <3>4
  <2>9. ASSUME NEW i \in DOMAIN chain', NEW a \in Addr PROVE site'[a] \notin chain'[i].todo
    <3>1. CASE i = 1
      BY <3>1, <2>1 DEF EnterFrame
    <3>2. CASE i # 1
      <4>1. i - 1 \in 1..n /\ (i - 1) + 1 = i
        BY <3>2, <2>1
      <4>2. chain'[i].todo \subseteq chain[i - 1].todo
        BY <4>1, <2>1
      <4>3. k \notin chain'[i].todo
        <5>1. CASE i = 2
          BY <5>1, <2>1
        <5>2. CASE i # 2
          BY <5>2, <4>1, <4>2, <2>7
        <5>3. QED
          BY <5>1, <5>2
      <4>4. site'[a] = site[a] \/ site'[a] = k
        BY <2>3 DEF TypeOK
      <4>5. site[a] \notin chain[i - 1].todo
        BY <4>1, <2>1 DEF SitesOK
      <4>6. QED
        BY <4>2, <4>3, <4>4, <4>5
    <3>3. QED
      BY <3>1, <3>2
  <2>10. ASSUME NEW i \in DOMAIN chain' PROVE chain'[i].pc # "call"
    <3>1. CASE i = 1
      BY <3>1, <2>1 DEF EnterFrame
    <3>2. CASE i # 1
      <4>1. i - 1 \in 1..n /\ (i - 1) + 1 = i
        BY <3>2, <2>1
      <4>2. chain[i - 1].pc = "discover"
        BY <4>1, <2>1 DEF ControlOK
      <4>3. QED
        BY <4>1, <4>2, <2>1
    <3>3. QED
      BY <3>1, <3>2
  <2>11. QED
    BY <2>5, <2>6, <2>8, <2>9, <2>10 DEF SitesOK
<1>11. CASE Return
  <2>1. /\ \A i \in DOMAIN chain' : (i + 1) \in DOMAIN chain /\ chain'[i] = chain[i + 1]
        /\ DOMAIN chain' \subseteq Nat
    BY <1>11, ReturnStep
  <2>2. UNCHANGED <<site, owner>>
    BY <1>11 DEF Return, object
  <2>3. OneSlotPerSite' /\ \A a \in Addr : Live(a)' /\ owner'[a] = Host => site'[a] \in RootSite
    BY <2>2 DEF SitesOK, OneSlotPerSite, Live
  <2>4. \A i, j \in DOMAIN chain' : i < j => Depth(chain[j].slot)' < Depth(chain[i].slot)'
    BY <2>1, <2>2 DEF SitesOK, Depth
  <2>5. \A i \in DOMAIN chain' : \A a \in Addr : site'[a] \notin chain'[i].todo
    BY <2>1, <2>2 DEF SitesOK
  <2>6. \A i \in DOMAIN chain' : chain'[i].pc = "call" => NestedIn(chain[i].slot)' = {}
    BY <2>1, <2>2 DEF SitesOK, NestedIn, Live
  <2>7. QED
    BY <2>3, <2>4, <2>5, <2>6 DEF SitesOK
<1>12. QED
  BY <1>1, <1>3, <1>4, <1>5, <1>6, <1>7, <1>8, <1>9, <1>10, <1>11
     DEF Next, HostStep, RuntimeStep, vars, object, control, history, HostUnmount, HostSet, HostGet,
         BeginBatch, EndBatch, Tick, MarkDirty, VisitClean, VisitFreed, DestroyNested, ClearNested,
         CallableGet

\* A run discards the nested slots of its previous output before it finds those of
\* the new one (SlotRuntime.cpp: NestedSlots_.clear() at the top of Reconcile), and
\* each occurrence is found in one output only: no <Slot> ever has two SlotStates.
THEOREM EverySlotOnce == Spec => []OneSlotPerSite
<1>1. Init => SitesOK
  <2> SUFFICES ASSUME Init PROVE SitesOK
    OBVIOUS
  <2>1. (\A a \in Addr : ~Live(a)) /\ DOMAIN chain = {}
    BY DEF Init, Live
  <2>2. QED
    BY <2>1 DEF SitesOK, OneSlotPerSite
<1>2. SitesOK => OneSlotPerSite
  BY DEF SitesOK
<1>3. QED
  BY <1>1, <1>2, InitIInv, NextIInv, NextSites, PTL DEF Spec
-----------------------------------------------------------------------------
(* The runtime implements ReactiveView, for every set of signals, slots    *)
(* and addresses: every step of SlotRuntime is a step of the view, or      *)
(* leaves the view alone.                                                  *)

\* While component code runs, or the pass, no nested slot is being cleared.
LEMMA NotRerunning ==
    ASSUME IInv, chain = <<>> \/ chain[1].pc # "clear"
    PROVE  \A b : ~Rerunning(b)
BY DEF IInv, Rerunning, ControlOK

\* Nothing is marked, queued or re-entered without a write to account for it.
LEMMA NextJustified == IInv /\ Justified /\ [Next]_vars => Justified'
<1> SUFFICES ASSUME IInv, Justified, [Next]_vars PROVE Justified'
  OBVIOUS
<1>t. TypeOK
  BY DEF IInv
\* A frame is entered for a slot that is behind and no longer dirty.
<1>a. ASSUME NEW a \in Addr, chain' = <<EnterFrame(a)>>, rest' = <<>>,
             behind'[a] # {}, dirty'[a] = FALSE,
             \A b \in Addr : b # a => dirty'[b] = dirty[b] /\ behind'[b] = behind[b]
      PROVE Justified'
  <2>1. \A b : Rerunning(b)' => b = a
    BY <1>a DEF Rerunning, EnterFrame
  <2>2. \A b : ~Contains(rest', b)
    BY <1>a, ContainsShort
  <2>3. QED
    BY <1>a, <2>1, <2>2 DEF Justified
\* Between two frames nothing is re-entered.
<1>b. ASSUME chain' = <<>> \/ (chain' # <<>> /\ chain'[1].pc # "clear"), IInv', rest' = <<>>,
             \A b \in Addr : dirty'[b] => behind'[b] # {}
      PROVE Justified'
  <2>1. \A b : ~Rerunning(b)'
    BY <1>b DEF IInv, Rerunning, ControlOK
  <2>2. \A b : ~Contains(rest', b)
    BY <1>b, ContainsShort
  <2>3. QED
    BY <1>b, <2>1, <2>2 DEF Justified
<1>n. IInv'
  BY NextIInv
<1>1. ASSUME NEW s \in RootSite, NEW a \in Addr, HostMount(s, a) PROVE Justified'
  BY <1>1, <1>a, <1>t, NameAssumption DEF HostMount, Construct, Idle, TypeOK
<1>2. ASSUME NEW a \in Addr, HostReconcile(a) PROVE Justified'
  BY <1>2, <1>a, <1>t DEF HostReconcile, Idle, history, Justified, TypeOK
<1>3. CASE VisitDirty
  <2>1. Head(snapshot) \in Addr
    BY <1>3, <1>t, TailLemma DEF VisitDirty, AtPass, TypeOK
  <2>2. QED
    BY <1>3, <2>1, <1>a, <1>t DEF VisitDirty, AtPass, history, Justified, TypeOK
<1>4. ASSUME NEW s \in Signal, Write(s), rest = <<>>, \A b : ~Rerunning(b) /\ ~Rerunning(b)',
             dirty' = dirty
      PROVE Justified'
  <2>1. \A b \in Addr : Contains(rest', b) => behind'[b] # {}
    BY <1>4 DEF Write, IInv, SubscriptionsExact
  <2>2. \A b \in Addr : dirty'[b] => behind'[b] # {}
    BY <1>4 DEF Write, Justified
  <2>3. QED
    BY <1>4, <2>1, <2>2 DEF Justified
<1>5. ASSUME NEW s \in Signal, HostSet(s) PROVE Justified'
  <2>1. chain' = <<>> /\ chain = <<>>
    BY <1>5 DEF HostSet, Idle
  <2>2. \A b : ~Rerunning(b) /\ ~Rerunning(b)'
    BY <2>1 DEF Rerunning
  <2>3. QED
    BY <1>5, <2>2, <1>4 DEF HostSet, Idle, object
<1>6. ASSUME NEW s \in Signal, CallableSet(s) PROVE Justified'
  <2>1. PICK f \in Frame : /\ f.slot = chain[1].slot /\ f.pc = "call" /\ chain[1].pc = "call"
                           /\ chain' = ReplaceTop(f) /\ chain # <<>>
    BY <1>6, <1>t, SetStep
  <2>2. chain'[1].pc = "call"
    BY <2>1, <1>t, TopStep
  <2>3. \A b : ~Rerunning(b) /\ ~Rerunning(b)'
    BY <2>1, <2>2, <1>n DEF IInv, Rerunning, ControlOK
  <2>4. QED
    BY <1>6, <2>3, <1>4 DEF CallableSet, InFrame, object
<1>7. CASE MarkDirty
  <2>1. /\ Head(rest) \in Addr
        /\ \A b : Contains(rest, b) <=> b = Head(rest) \/ Contains(rest', b)
    BY <1>7, <1>t, TailLemma DEF MarkDirty, TypeOK
  <2>2. \A b : ~Rerunning(b)
    BY <1>7, NotRerunning DEF MarkDirty, IInv, ControlOK
  <2>3. \A b : ~Rerunning(b)'
    BY <1>7, <2>2 DEF MarkDirty, Rerunning
  <2>4. dirty' = [dirty EXCEPT ![Head(rest)] = TRUE] /\ behind' = behind
    BY <1>7 DEF MarkDirty, history
  <2>5. QED
    BY <2>1, <2>3, <2>4, <1>t DEF Justified, TypeOK
<1>8. CASE Destroy
  <2> DEFINE d == dying[1]
  <2>1. d = Head(dying) /\ d \in Addr /\ \A i \in DOMAIN chain : chain[i].slot # d
    BY <1>8, DestroySpares
  <2>2. /\ behind' = [behind EXCEPT ![d] = {}] /\ dirty' = [dirty EXCEPT ![d] = FALSE]
        /\ UNCHANGED <<rest, chain>> /\ rest = <<>>
    BY <1>8, <2>1 DEF Destroy
  <2>3. ~Rerunning(d)
    BY <2>1 DEF Rerunning
  <2>4. \A b : Rerunning(b)' <=> Rerunning(b)
    BY <2>2 DEF Rerunning
  <2>5. \A b : ~Contains(rest', b)
    BY <2>2, ContainsShort
  <2>6. QED
    BY <2>1, <2>2, <2>3, <2>4, <2>5, <1>t DEF Justified, TypeOK
<1>9. CASE Invoke
  <2>1. PICK f \in Frame : /\ f.slot = chain[1].slot /\ f.pc = "call"
                           /\ chain' = ReplaceTop(f) /\ chain # <<>>
    BY <1>9, <1>t, InvokeStep
  <2>2. chain'[1].pc = "call" /\ chain' # <<>> /\ rest' = <<>>
    BY <1>9, <2>1, <1>t, TopStep DEF Invoke, InFrame
  <2>3. /\ Head(chain) = chain[1] /\ 1 \in DOMAIN chain /\ chain[1].slot \in Addr
        /\ chain[1].pc = "clear"
    BY <1>9, <2>1, <1>t, TopFrame DEF Invoke, InFrame
  <2>4. ~dirty[chain[1].slot]
    BY <2>3 DEF Justified, Rerunning
  <2>5. \A b \in Addr : dirty'[b] => behind'[b] # {}
    BY <1>9, <2>3, <2>4, <1>t DEF Invoke, object, Justified, TypeOK
  <2>6. QED
    BY <2>2, <2>5, <1>b, <1>n
<1>10. ASSUME NEW todo \in SUBSET Site, CallableReturn(todo) PROVE Justified'
  <2>1. PICK f \in Frame : /\ f.slot = chain[1].slot /\ f.pc = "discover"
                           /\ chain' = ReplaceTop(f) /\ chain # <<>>
    BY <1>10, <1>t, ReturnOutputStep
  <2>2. chain'[1].pc = "discover" /\ chain' # <<>> /\ rest' = <<>>
    BY <1>10, <2>1, <1>t, TopStep DEF CallableReturn, InFrame
  <2>3. QED
    BY <1>10, <2>2, <1>b, <1>n DEF CallableReturn, object, history, Justified
<1>11. ASSUME NEW k \in Site, NEW c \in Addr, DiscoverNested(k, c) PROVE Justified'
  <2>1. /\ rest' = <<>> /\ chain[1].pc # "clear" /\ chain'[1] = EnterFrame(c)
        /\ dirty' = [dirty EXCEPT ![c] = FALSE] /\ behind' = [behind EXCEPT ![c] = Signal]
    BY <1>11, <1>t, DiscoverStep DEF DiscoverNested, Construct, InFrame
  <2>2. \A b : Rerunning(b)' => b = c
    BY <2>1, <1>n DEF IInv, Rerunning, ControlOK, EnterFrame
  <2>3. \A b : ~Contains(rest', b)
    BY <2>1, ContainsShort
  <2>4. QED
    BY <2>1, <2>2, <2>3, <1>t, NameAssumption DEF Justified, TypeOK
<1>12. CASE Return
  <2>1. chain' = <<>> \/ (chain' # <<>> /\ chain'[1].pc # "clear")
    <3> SUFFICES ASSUME chain' # <<>> PROVE chain'[1].pc # "clear"
      OBVIOUS
    <3>1. 1 \in DOMAIN chain' /\ 2 \in DOMAIN chain /\ chain'[1] = chain[2]
      BY <1>12, <1>t, ReturnStep, TailLemma DEF Return, InFrame, TypeOK
    <3>2. QED
      BY <3>1 DEF IInv, ControlOK
  <2>2. QED
    BY <1>12, <2>1, <1>b, <1>n DEF Return, InFrame, object, history, Justified
<1>13. ASSUME UNCHANGED <<dirty, rest, chain, behind>> PROVE Justified'
  BY <1>13 DEF Justified, Rerunning
<1>14. QED
  BY <1>1, <1>2, <1>3, <1>5, <1>6, <1>7, <1>8, <1>9, <1>10, <1>11, <1>12, <1>13
     DEF Next, HostStep, RuntimeStep, vars, object, control, history, HostUnmount, HostGet,
         BeginBatch, EndBatch, Tick, VisitClean, VisitFreed, DestroyNested, ClearNested, CallableGet
-----------------------------------------------------------------------------
(* The refinement mapping, and each step under it.                         *)

onScreen == {a \in Addr : Live(a)}
busy     == {a \in Addr : Calling(a)}

\* Steps that leave the flags, frames and history alone do not show.
LEMMA NothingShows ==
    ASSUME UNCHANGED <<site, reads, behind>>, busy' = busy
    PROVE  UNCHANGED View!vars
<1>1. onScreen' = onScreen
  BY DEF onScreen, Live
<1>2. QED
  BY <1>1 DEF View!vars, onScreen, busy

\* Which slots run their callable: only the innermost frame can.
LEMMA BusyTop ==
    ASSUME IInv
    PROVE  \A b : Calling(b) <=> chain # <<>> /\ chain[1].pc = "call" /\ chain[1].slot = b
<1>1. ASSUME NEW b, Calling(b) PROVE chain # <<>> /\ chain[1].pc = "call" /\ chain[1].slot = b
  <2>1. PICK i \in DOMAIN chain : chain[i].slot = b /\ chain[i].pc = "call"
    BY <1>1 DEF Calling
  <2>2. i = 1
    BY <2>1 DEF IInv, ControlOK
  <2>3. QED
    BY <2>1, <2>2
<1>2. ASSUME chain # <<>>, chain[1].pc = "call" PROVE Calling(chain[1].slot)
  BY <1>2, TopFrame DEF Calling, IInv
<1>3. QED
  BY <1>1, <1>2

LEMMA NextImplements == IInv /\ Justified /\ [Next]_vars => [View!Next]_(View!vars)
<1> SUFFICES ASSUME IInv, Justified, [Next]_vars PROVE [View!Next]_(View!vars)
  OBVIOUS
<1>t. TypeOK /\ IInv' /\ TypeOK'
  BY NextIInv DEF IInv
<1>b. /\ \A b : Calling(b) <=> chain # <<>> /\ chain[1].pc = "call" /\ chain[1].slot = b
      /\ \A b : Calling(b)' <=> chain' # <<>> /\ chain'[1].pc = "call" /\ chain'[1].slot = b
  <2>1. \A b : Calling(b) <=> chain # <<>> /\ chain[1].pc = "call" /\ chain[1].slot = b
    BY BusyTop
  <2>2. \A b : Calling(b)' <=> chain' # <<>> /\ chain'[1].pc = "call" /\ chain'[1].slot = b
    <3>1. /\ chain' \in Seq(Frame)
          /\ \A i \in DOMAIN chain' : i # 1 => chain'[i].pc = "discover"
      BY <1>t DEF IInv, TypeOK, ControlOK
    <3>2. chain' # <<>> => 1 \in DOMAIN chain'
      BY <3>1, TailLemma, LenProperties
    <3>3. chain' = <<>> => DOMAIN chain' = {}
      OBVIOUS
    <3>4. QED
      BY <3>1, <3>2, <3>3 DEF Calling
  <2>3. QED
    BY <2>1, <2>2
\* A SlotState that is constructed appears.
<1>1. ASSUME NEW a \in Addr, NEW s \in Site, NEW o, Construct(a, s, o),
             chain = <<>> \/ chain[1].pc # "call", chain'[1].pc # "call"
      PROVE View!Next
  <2>1. onScreen' = onScreen \union {a} /\ a \notin onScreen
    <3>1. site' = [site EXCEPT ![a] = s] /\ site[a] = NoSite /\ s # NoSite
      BY <1>1, NameAssumption DEF Construct, Live
    <3>2. site'[a] # NoSite /\ \A b \in Addr : b # a => site'[b] = site[b]
      BY <3>1, <1>t DEF TypeOK
    <3>3. QED
      BY <3>1, <3>2 DEF onScreen, Live
  <2>2. busy' = busy
    BY <1>1, <1>b DEF busy
  <2>3. View!Appear(a)
    BY <1>1, <2>1, <2>2 DEF View!Appear, Construct, onScreen, busy
  <2>4. QED
    BY <2>3 DEF View!Next
<1>2. ASSUME NEW s \in RootSite, NEW a \in Addr, HostMount(s, a) PROVE View!Next
  <2>1. chain = <<>> /\ chain'[1].pc # "call"
    BY <1>2 DEF HostMount, Idle, EnterFrame
  <2>2. QED
    BY <1>2, <2>1, <1>1, SiteAssumption DEF HostMount
<1>3. ASSUME NEW k \in Site, NEW c \in Addr, DiscoverNested(k, c) PROVE View!Next
  <2>1. chain[1].pc # "call" /\ chain'[1].pc # "call"
    <3>1. chain[1].pc = "discover" /\ chain'[1] = EnterFrame(c)
      BY <1>3, <1>t, DiscoverStep
    <3>2. QED
      BY <3>1 DEF EnterFrame
  <2>2. QED
    BY <1>3, <2>1, <1>1 DEF DiscoverNested
<1>4. CASE Destroy
  <2> DEFINE d == dying[1]
  <2>1. d = Head(dying) /\ d \in Addr /\ \A i \in DOMAIN chain : chain[i].slot # d
    BY <1>4, DestroySpares
  <2>2. /\ site' = [site EXCEPT ![d] = NoSite] /\ chain' = chain
        /\ reads' = [reads EXCEPT ![d] = {}] /\ behind' = [behind EXCEPT ![d] = {}]
    BY <1>4, <2>1 DEF Destroy
  <2>3. Live(d)
    <3>1. dying # <<>> /\ dying \in Seq(Addr)
      BY <1>4, <1>t DEF Destroy, TypeOK
    <3>2. Contains(dying, d)
      BY <3>1, TailLemma
    <3>3. QED
      BY <2>1, <3>2 DEF IInv, NoDangling
  <2>4. d \notin busy
    BY <2>1 DEF busy, Calling
  <2>5. onScreen' = onScreen \ {d} /\ d \in onScreen
    BY <2>1, <2>2, <2>3, <1>t DEF onScreen, Live, TypeOK
  <2>6. busy' = busy
    BY <2>2 DEF busy, Calling
  <2> HIDE DEF d
  <2>7. View!Disappear(d)
    BY <2>2, <2>4, <2>5, <2>6 DEF View!Disappear, onScreen, busy
  <2>8. QED
    BY <2>1, <2>7 DEF View!Next
\* NestedSlots_.clear() done, the callable of a slot that is behind runs.
<1>5. CASE Invoke
  <2>1. PICK f \in Frame : /\ f.slot = chain[1].slot /\ f.pc = "call"
                           /\ chain' = ReplaceTop(f) /\ chain # <<>>
    BY <1>5, <1>t, InvokeStep
  <2>2. chain'[1] = f /\ chain' # <<>>
    BY <2>1, <1>t, TopStep
  <2> DEFINE a == f.slot
  <2>3. /\ a = Head(chain).slot /\ 1 \in DOMAIN chain /\ a \in Addr
        /\ chain[1].pc = "clear"
    BY <1>5, <2>1, <1>t, TopFrame DEF Invoke, InFrame
  <2>4. Live(a) /\ behind[a] # {}
    BY <2>1, <2>3 DEF IInv, NoDangling, Justified, Rerunning
  <2>5. busy = {} /\ busy' = {a}
    BY <2>1, <2>2, <2>3, <1>b DEF busy
  <2>6. onScreen' = onScreen /\ a \in onScreen
    BY <1>5, <2>3, <2>4 DEF Invoke, object, onScreen, Live
  <2>7. reads' = [reads EXCEPT ![a] = {}] /\ behind' = [behind EXCEPT ![a] = {}]
    BY <1>5, <2>3 DEF Invoke
  <2> HIDE DEF a
  <2>8. View!Run(a)
    BY <2>4, <2>5, <2>6, <2>7 DEF View!Run, onScreen, busy
  <2>9. QED
    BY <2>3, <2>8 DEF View!Next
<1>6. ASSUME NEW s \in Signal, CallableGet(s) PROVE View!Next
  <2>1. /\ chain # <<>> /\ chain[1].pc = "call" /\ Head(chain) = chain[1]
        /\ chain[1].slot \in Addr
    BY <1>6, <1>t, TopFrame DEF CallableGet, InFrame
  <2>2. PICK a \in Addr : a = chain[1].slot
    BY <2>1
  <2>3. a \in busy /\ busy' = busy /\ onScreen' = onScreen
    BY <1>6, <2>1, <2>2, <1>b DEF busy, onScreen, CallableGet, control, object, Live
  <2>4. View!Read(a, s)
    BY <1>6, <2>1, <2>2, <2>3 DEF View!Read, CallableGet, onScreen, busy
  <2>5. QED
    BY <2>4 DEF View!Next
<1>7. ASSUME NEW s \in Signal, Write(s), UNCHANGED <<site, reads>>, busy' = busy PROVE View!Next
  <2>1. View!Write(s)
    BY <1>7 DEF View!Write, Write, onScreen, busy, Live
  <2>2. QED
    BY <2>1 DEF View!Next
<1>8. ASSUME NEW s \in Signal, HostSet(s) PROVE View!Next
  <2>1. busy' = busy
    BY <1>8, <1>b DEF HostSet, Idle, busy
  <2>2. QED
    BY <1>8, <2>1, <1>7 DEF HostSet, object
<1>9. ASSUME NEW s \in Signal, CallableSet(s) PROVE View!Next
  <2>1. PICK f \in Frame : /\ f.slot = chain[1].slot /\ f.pc = "call" /\ chain[1].pc = "call"
                           /\ chain' = ReplaceTop(f) /\ chain # <<>>
    BY <1>9, <1>t, SetStep
  <2>2. chain'[1] = f /\ chain' # <<>>
    BY <2>1, <1>t, TopStep
  <2>3. busy' = busy
    BY <2>1, <2>2, <1>b DEF busy
  <2>4. QED
    BY <1>9, <2>3, <1>7 DEF CallableSet, object
<1>10. ASSUME NEW todo \in SUBSET Site, CallableReturn(todo) PROVE View!Next
  <2>1. PICK f \in Frame : /\ f.slot = chain[1].slot /\ f.pc = "discover" /\ chain[1].pc = "call"
                           /\ chain' = ReplaceTop(f) /\ chain # <<>>
    BY <1>10, <1>t, ReturnOutputStep
  <2>2. chain'[1] = f /\ chain' # <<>>
    BY <2>1, <1>t, TopStep
  <2>3. PICK a \in Addr : a = chain[1].slot
    BY <2>1, <1>t, TopFrame
  <2>4. busy = {a} /\ busy' = {}
    BY <2>1, <2>2, <2>3, <1>b DEF busy
  <2>5. onScreen' = onScreen
    BY <1>10 DEF CallableReturn, object, onScreen, Live
  <2>6. View!Stop(a)
    BY <1>10, <2>4, <2>5 DEF View!Stop, CallableReturn, history, onScreen, busy
  <2>7. QED
    BY <2>6 DEF View!Next
\* Everything else is the runtime's own business.
<1>11. ASSUME UNCHANGED <<site, reads, behind>>,
              chain = <<>> \/ chain[1].pc # "call", chain' = <<>> \/ chain'[1].pc # "call"
       PROVE UNCHANGED View!vars
  BY <1>11, <1>b, NothingShows DEF busy
<1>12. ASSUME UNCHANGED <<site, reads, behind, chain>> PROVE UNCHANGED View!vars
  BY <1>12, NothingShows DEF busy, Calling
<1>13. ASSUME NEW a \in Addr, HostReconcile(a) PROVE UNCHANGED View!vars
  <2>1. chain = <<>> /\ chain'[1].pc # "call"
    BY <1>13 DEF HostReconcile, Idle, EnterFrame
  <2>2. QED
    BY <1>13, <2>1, <1>11 DEF HostReconcile, history
<1>14. CASE VisitDirty
  <2>1. chain = <<>> /\ chain'[1].pc # "call"
    BY <1>14 DEF VisitDirty, AtPass, EnterFrame
  <2>2. QED
    BY <1>14, <2>1, <1>11 DEF VisitDirty, history
<1>15. CASE Return
  <2>1. chain' = <<>> \/ chain'[1].pc # "call"
    <3> SUFFICES ASSUME chain' # <<>> PROVE chain'[1].pc # "call"
      OBVIOUS
    <3>1. 1 \in DOMAIN chain' /\ 2 \in DOMAIN chain /\ chain'[1] = chain[2]
      BY <1>15, <1>t, ReturnStep, TailLemma DEF Return, InFrame, TypeOK
    <3>2. QED
      BY <3>1 DEF IInv, ControlOK
  <2>2. QED
    BY <1>15, <2>1, <1>11, <1>t, ReturnStep DEF Return, object, history
<1>16. QED
  BY <1>2, <1>3, <1>4, <1>5, <1>6, <1>8, <1>9, <1>10, <1>12, <1>13, <1>14, <1>15
     DEF Next, HostStep, RuntimeStep, vars, object, control, history, HostUnmount, HostGet,
         BeginBatch, EndBatch, Tick, MarkDirty, VisitClean, VisitFreed, DestroyNested, ClearNested

\* The whole machinery of queue, flags, registry, passes and nested destruction
\* implements ReactiveView: a callable runs exactly when its slot appears, or
\* after a write to a signal its last run read, and never within its own run.
THEOREM Implements == Spec => ImplementsView
<1>1. Init => IInv /\ Justified
  <2>1. Init => Justified
    BY ContainsShort DEF Init, Justified, Rerunning
  <2>2. QED
    BY <2>1, InitIInv
<1>2. Init => View!Init
  BY DEF Init, View!Init, Live, Calling
<1>3. IInv /\ Justified /\ [Next]_vars => IInv' /\ Justified'
  BY NextIInv, NextJustified
<1>4. QED
  BY <1>1, <1>2, <1>3, NextImplements, PTL DEF Spec, ImplementsView, View!Spec
=============================================================================
