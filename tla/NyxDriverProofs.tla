--------------------------- MODULE NyxDriverProofs ---------------------------
(***************************************************************************)
(* Proofs about NyxDriver: what a step of the driver may do to the caches, *)
(* the frames and the instances (Sound), and from it the properties of a    *)
(* reload: signals, hooks, documents, texts and positions.                  *)
(***************************************************************************)
EXTENDS NyxDriver, Integers, SequenceTheorems, TLAPS

-----------------------------------------------------------------------------
(* Types *)

Nodes == [tag : Files \cup {NoFile}, inst : {NoInst} \cup Insts]
Names == UNION {DOMAIN Text[v].signals : v \in Versions}
Kinds == UNION {{Text[v].signals[n] : n \in DOMAIN Text[v].signals} : v \in Versions}
Signals == [kind : Kinds, val : {0, 1}, at : {NoInst} \cup Insts]
SignalMaps == UNION {[N -> Signals] : N \in SUBSET Names}
Instances ==
    [file : Files \cup {NoFile}, born : {"none", "static", "slot"}, mounted : BOOLEAN,
     body : Versions \cup {NoText}, block : Versions \cup {NoText},
     hooks : Versions \cup {NoText}, signals : SignalMaps, kids : Seq(Nodes),
     left : Seq(Nodes), slot : Nodes, inner : {NoInst} \cup Insts]
Frames ==
    [at : {"import", "load", "body", "convert"}, caller : Files \cup {NoFile},
     file : Files, prev : {NoInst} \cup Insts, text : Versions \cup {NoText},
     inst : {NoInst} \cup Insts, todo : Seq(Files), kids : Seq(Nodes), left : Seq(Nodes),
     tier : {"none", "Unchanged", "SignalLayoutChanged"}]
Cache == {c \in [Files -> Versions \cup {NoText}] :
            \A f \in Files : c[f] \in VersionsOf[f] \cup {NoText}}

Typed ==
    /\ disk \in Cache /\ \A f \in Files : disk[f] # NoText
    /\ documents \in Cache /\ scopes \in Cache
    /\ inst \in [Insts -> Instances]
    /\ root \in Nodes
    /\ stack \in Seq(Frames)
    /\ ambient \in Seq(Insts)
    /\ call \in {NoInst} \cup Insts

\* A frame of depth d of a stack st.  Only the innermost one is not waiting, in
\* "convert", for the component it invoked, and the invocation under way is the
\* one before those still to do.
Pending(st, d) == IF d < Len(st) THEN 1 ELSE 0
FrameOK(st, scs, d) ==
    LET f == st[d] IN
    /\ d < Len(st) => f.at = "convert"
    /\ f.at = "import" => f.caller \in Files
    /\ f.at # "convert" => f.kids = <<>>
    /\ f.at \in {"body", "convert"} => f.text \in VersionsOf[f.file]
    /\ f.at = "body" => scs[f.file] # NoText /\ f.todo = Text[f.text].children
    /\ f.at = "convert" =>
        /\ f.inst \in Insts
        /\ Len(f.kids) + Pending(st, d) + Len(f.todo) = Len(Text[f.text].children)
        /\ \A k \in DOMAIN f.todo : f.todo[k] \in StaticChildren(f.file)
    /\ d < Len(st) => st[d + 1].file \in StaticChildren(f.file)

Frames_OK == \A d \in DOMAIN stack : FrameOK(stack, scopes, d)

\* The instance f renders: one that is mounted, or one that its first run made
\* and that is not mounted yet.
FrameInst(f, is) ==
    /\ f.prev # NoInst => is[f.prev].mounted
    /\ f.at = "convert" =>
        IF f.prev = NoInst
        THEN is[f.inst].file = f.file /\ ~is[f.inst].mounted /\ is[f.inst].body # NoText
        ELSE f.inst = f.prev

Mounted ==
    /\ \A i \in Insts : inst[i].mounted => inst[i].file \in Files /\ inst[i].block # NoText
    /\ \A d \in DOMAIN stack : FrameInst(stack[d], inst)

Basic == Typed /\ Frames_OK /\ Mounted

-----------------------------------------------------------------------------
(* Stacks *)

\* A depth is one or more than one.
LEMMA OneOrMore ==
    ASSUME NEW n \in Nat
    PROVE  /\ n >= 1 => n = 1 \/ n > 1
           /\ n > 1 => n # 1 /\ n # 0 /\ n >= 1
           /\ n >= 1 /\ n # 1 => /\ 1 \in 1..n /\ n - 1 \in 1..n /\ 1 <= n - 1 /\ n - 1 - 1 + 1 = n - 1
                      /\ \A d \in 1..(n - 1) : 1 + d - 1 = d
OBVIOUS

\* The depths of a stack, but one.
LEMMA Depths ==
    ASSUME NEW n \in Nat
    PROVE  /\ \A d \in 1..n : d \in 1..(n - 1) \/ d = n
           /\ \A d \in 1..(n + 1) : d \in 1..n \/ d = n + 1
           /\ \A d \in 1..(n - 1) : d \in 1..n /\ d # n /\ d < n /\ d + 1 \in 1..n
           /\ \A d \in 1..n : d # n + 1
OBVIOUS

\* The last element of a stack.
LEMMA LastOf ==
    ASSUME NEW F, NEW s \in Seq(F), s # <<>>
    PROVE  /\ Len(s) \in Nat /\ Len(s) >= 1 /\ Last(s) = s[Len(s)]
           /\ Last(s) \in F /\ Len(s) \in DOMAIN s /\ DOMAIN s = 1..Len(s)
           /\ \A d \in DOMAIN s : s[d] \in F
<1>1. Len(s) \in Nat /\ Len(s) # 0 /\ DOMAIN s = 1..Len(s) /\ \A d \in DOMAIN s : s[d] \in F
  BY EmptySeq, LenProperties
<1>2. QED
  BY <1>1 DEF Last

\* All but the last element of a stack.
LEMMA FrontOf ==
    ASSUME NEW F, NEW s \in Seq(F), s # <<>>
    PROVE  /\ Front(s) \in Seq(F) /\ Len(Front(s)) = Len(s) - 1
           /\ \A d \in 1..(Len(s) - 1) : Front(s)[d] = s[d]
<1>1. Len(s) \in Nat /\ Len(s) >= 1 /\ \A d \in 1..Len(s) : s[d] \in F
  BY LastOf
<1>2. CASE Len(s) = 1
  BY <1>1, <1>2, SubSeqEmpty, EmptySeq DEF Front
<1>3. CASE Len(s) # 1
  <2>1. 1 \in 1..Len(s) /\ Len(s) - 1 \in 1..Len(s)
    BY <1>1, <1>3, OneOrMore
  <2>2. /\ SubSeq(s, 1, Len(s) - 1) \in Seq(F)
        /\ Len(SubSeq(s, 1, Len(s) - 1)) = IF 1 <= Len(s) - 1 THEN Len(s) - 1 - 1 + 1 ELSE 0
        /\ \A i \in 1..(Len(s) - 1 - 1 + 1) : SubSeq(s, 1, Len(s) - 1)[i] = s[1 + i - 1]
    BY <2>1, SubSeqProperties
  <2>3. /\ 1 <= Len(s) - 1 /\ Len(s) - 1 - 1 + 1 = Len(s) - 1
        /\ \A d \in 1..(Len(s) - 1) : 1 + d - 1 = d
    BY <1>1, <1>3, OneOrMore
  <2>4. QED
    BY <2>2, <2>3 DEF Front
<1>4. QED
  BY <1>2, <1>3

\* A stack whose last element is replaced.
LEMMA ReplacedTop ==
    ASSUME NEW F, NEW s \in Seq(F), s # <<>>, NEW f \in F
    PROVE  /\ Append(Front(s), f) \in Seq(F) /\ Len(Append(Front(s), f)) = Len(s)
           /\ Append(Front(s), f)[Len(s)] = f
           /\ \A d \in 1..(Len(s) - 1) : Append(Front(s), f)[d] = s[d]
<1>1. Len(s) \in Nat /\ Len(s) >= 1
  BY LastOf
<1>2. /\ Front(s) \in Seq(F) /\ Len(Front(s)) = Len(s) - 1
      /\ \A d \in 1..(Len(s) - 1) : Front(s)[d] = s[d]
  BY FrontOf
<1>3. QED
  BY <1>1, <1>2, AppendProperties

\* A stack with one element more.
LEMMA PushedTop ==
    ASSUME NEW F, NEW s \in Seq(F), NEW f \in F
    PROVE  /\ Append(s, f) \in Seq(F) /\ Len(Append(s, f)) = Len(s) + 1
           /\ Append(s, f)[Len(s) + 1] = f
           /\ \A d \in 1..Len(s) : Append(s, f)[d] = s[d]
BY AppendProperties

-----------------------------------------------------------------------------
(* What a step does to the frames *)

\* The innermost frame f is changed, n is delivered to its caller, a frame is pushed.
Replaced(f) ==
    /\ stack' \in Seq(Frames) /\ Len(stack') = Len(stack) /\ stack'[Len(stack)] = f
    /\ \A d \in 1..(Len(stack) - 1) : stack'[d] = stack[d]
Popped(n) ==
    /\ stack' \in Seq(Frames) /\ Len(stack') = Len(stack) - 1
    /\ stack'[Len(stack) - 1] = [stack[Len(stack) - 1] EXCEPT !.kids = Append(@, n)]
    /\ \A d \in 1..(Len(stack) - 2) : stack'[d] = stack[d]
Pushed(f, g) ==
    /\ stack' \in Seq(Frames) /\ Len(stack') = Len(stack) + 1
    /\ stack'[Len(stack)] = f /\ stack'[Len(stack) + 1] = g
    /\ \A d \in 1..(Len(stack) - 1) : stack'[d] = stack[d]

LEMMA TopFacts ==
    ASSUME Basic, ~Idle
    PROVE  /\ Len(stack) \in Nat /\ Len(stack) >= 1 /\ DOMAIN stack = 1..Len(stack)
           /\ Top = stack[Len(stack)] /\ Top \in Frames
           /\ \A d \in 1..Len(stack) : stack[d] \in Frames /\ FrameOK(stack, scopes, d)
<1>1. stack \in Seq(Frames) /\ stack # <<>>
  BY DEF Basic, Typed, Idle
<1>2. QED
  BY <1>1, LastOf DEF Basic, Frames_OK, Top

LEMMA SetTopShape ==
    ASSUME Basic, ~Idle, NEW f \in Frames, SetTop(f)
    PROVE  Replaced(f)
<1>1. stack \in Seq(Frames) /\ stack # <<>>
  BY DEF Basic, Typed, Idle
<1>2. QED
  BY <1>1, ReplacedTop DEF SetTop, Replaced

\* The end of a call that has a caller: its frame gets one child more.
LEMMA DeliverInner ==
    ASSUME Basic, Len(stack) > 1, NEW is, NEW n \in Nodes, Deliver(is, n)
    PROVE  Popped(n) /\ inst' = is /\ root' = root /\ call' = call
<1>1. stack \in Seq(Frames) /\ stack # <<>> /\ Len(stack) \in Nat
  BY EmptySeq DEF Basic, Typed
<1> DEFINE s == Front(stack)
           g == [stack[Len(stack) - 1] EXCEPT !.kids = Append(@, n)]
<1>2. /\ s \in Seq(Frames) /\ Len(s) = Len(stack) - 1
      /\ \A d \in 1..(Len(stack) - 1) : s[d] = stack[d]
  BY <1>1, FrontOf
<1>3. s # <<>>
  BY <1>1, <1>2, EmptySeq
<1>4. g \in Frames
  <2>1. stack[Len(stack) - 1] \in Frames
    BY <1>1
  <2>2. stack[Len(stack) - 1].kids \in Seq(Nodes)
    BY <2>1 DEF Frames
  <2>3. Append(stack[Len(stack) - 1].kids, n) \in Seq(Nodes)
    BY <2>2, AppendProperties
  <2>4. QED
    BY <2>1, <2>3 DEF Frames
<1>5. stack' = Append(Front(s), g) /\ inst' = is /\ root' = root /\ call' = call
  <2>1. Len(stack) # 1
    BY <1>1, OneOrMore
  <2>2. stack' = Append(Front(s), g)
    BY <2>1 DEF Deliver
  <2>3. inst' = is /\ UNCHANGED <<root, call>>
    BY <2>1 DEF Deliver
  <2>4. QED
    BY <2>2, <2>3
<1> HIDE DEF g
<1>6. /\ Append(Front(s), g) \in Seq(Frames) /\ Len(Append(Front(s), g)) = Len(s)
      /\ Append(Front(s), g)[Len(s)] = g
      /\ \A d \in 1..(Len(s) - 1) : Append(Front(s), g)[d] = s[d]
  BY <1>2, <1>3, <1>4, ReplacedTop
<1> HIDE DEF s
<1>7. stack' \in Seq(Frames) /\ Len(stack') = Len(stack) - 1 /\ stack'[Len(stack) - 1] = g
  BY <1>2, <1>5, <1>6
<1>8. \A d \in 1..(Len(stack) - 2) : stack'[d] = stack[d]
  BY <1>1, <1>2, <1>5, <1>6
<1>9. QED
  BY <1>5, <1>7, <1>8 DEF Popped, g

\* The end of the outermost call: what it answers goes to the host or to the slot
\* that ran, and instances are destroyed.
LEMMA DeliverOuter ==
    ASSUME Basic, Len(stack) = 1, NEW is, NEW n \in Nodes, Deliver(is, n)
    PROVE  /\ stack' = <<>> /\ call' = NoInst /\ root' \in Nodes
           /\ call = NoInst => root' \in {n, root} /\ inst' = Release(is, root')
           /\ call # NoInst => root' = root /\ inst' = Release([is EXCEPT ![call].slot = n], root')
<1>1. stack' = <<>> /\ call' = NoInst /\ root \in Nodes
  BY DEF Deliver, Basic, Typed
<1>2. CASE call = NoInst
  <2>1. root' \in {n, root}
    BY <1>2 DEF Deliver
  <2>2. inst' = Release(is, root')
    BY <1>2 DEF Deliver
  <2>3. QED
    BY <1>1, <1>2, <2>1, <2>2
<1>3. CASE call # NoInst
  <2>1. root' = root
    BY <1>3 DEF Deliver
  <2>2. inst' = Release([is EXCEPT ![call].slot = n], root')
    BY <1>3 DEF Deliver
  <2>3. QED
    BY <1>1, <1>3, <2>1, <2>2
<1>4. QED
  BY <1>2, <1>3

\* Release destroys instances and changes none.
LEMMA ReleaseKeeps ==
    ASSUME NEW is, NEW r, NEW i \in Insts
    PROVE  Release(is, r)[i] \in {is[i], Free}
BY DEF Release

-----------------------------------------------------------------------------
(* The caches *)

\* Loading fills one empty entry, or nothing.
LEMMA LoadFacts ==
    ASSUME disk \in Cache, \A f \in Files : disk[f] # NoText, NEW docs \in Cache, NEW f \in Files
    PROVE  /\ LoadDocument(docs, f) \in Cache
           /\ \A g \in Files : g # f \/ docs[g] # NoText => LoadDocument(docs, f)[g] = docs[g]
BY DEF LoadDocument, Cache

LEMMA InvalidateFacts ==
    ASSUME NEW docs \in Cache, NEW f \in Files
    PROVE  /\ InvalidateDocument(docs, f) \in Cache
           /\ \A g \in Files : g # f => InvalidateDocument(docs, f)[g] = docs[g]
BY DEF InvalidateDocument, Cache

\* A scope is built once.
LEMMA ScopeFacts ==
    ASSUME NEW scs \in Cache, NEW f \in Files, NEW v \in VersionsOf[f]
    PROVE  /\ GetFileScope(scs, f, v) \in Cache
           /\ GetFileScope(scs, f, v)[f] = IF scs[f] = NoText THEN v ELSE scs[f]
           /\ GetFileScope(scs, f, v)[f] # NoText
           /\ \A g \in Files : g # f \/ scs[g] # NoText => GetFileScope(scs, f, v)[g] = scs[g]
<1>1. v \in Versions /\ v # NoText
  BY DriverAssumption DEF Versions
<1>2. QED
  BY <1>1 DEF GetFileScope, Cache

LEMMA PatchFacts ==
    ASSUME NEW scs \in Cache, NEW f \in Files, NEW v \in VersionsOf[f]
    PROVE  /\ [scs EXCEPT ![f] = v] \in Cache /\ [scs EXCEPT ![f] = v][f] = v /\ v # NoText
           /\ \A g \in Files : g # f => [scs EXCEPT ![f] = v][g] = scs[g]
<1>1. v \in Versions /\ v # NoText
  BY DriverAssumption DEF Versions
<1>2. QED
  BY <1>1 DEF Cache

-----------------------------------------------------------------------------
(* Signals and instances *)

LEMMA MapIntro ==
    ASSUME NEW N \in SUBSET Names, NEW m \in [N -> Signals]
    PROVE  m \in SignalMaps
BY DEF SignalMaps

LEMMA MapElim ==
    ASSUME NEW m \in SignalMaps
    PROVE  DOMAIN m \in SUBSET Names /\ m \in [DOMAIN m -> Signals]
BY DEF SignalMaps

LEMMA EmptyMap == <<>> \in SignalMaps /\ DOMAIN <<>> = {}
<1>1. <<>> \in Seq(Signals)
  BY EmptySeq
<1>2. <<>> \in [1..0 -> Signals] /\ 1..0 = {}
  BY <1>1, LenProperties, EmptySeq
<1>3. QED
  BY <1>2, MapIntro

LEMMA DeclareTyped ==
    ASSUME NEW v \in Versions, NEW at \in {NoInst} \cup Insts
    PROVE  /\ Declare(v, at) \in SignalMaps /\ DOMAIN Declare(v, at) = DOMAIN Text[v].signals
           /\ \A n \in DOMAIN Declare(v, at) : Declare(v, at)[n].at = at
<1> DEFINE N == DOMAIN Text[v].signals
<1>1. N \in SUBSET Names /\ \A n \in N : Text[v].signals[n] \in Kinds
  BY DEF Names, Kinds
<1>2. \A n \in N : [kind |-> Text[v].signals[n], val |-> 0, at |-> at] \in Signals
  BY <1>1 DEF Signals
<1>3. Declare(v, at) \in [N -> Signals] /\ \A n \in N : Declare(v, at)[n].at = at
  BY <1>2 DEF Declare
<1>4. QED
  BY <1>1, <1>3, MapIntro

\* What a reload of a function keeps: the new run's signals, with a value carried
\* over or not.
LEMMA CarryFacts ==
    ASSUME NEW old \in SignalMaps, NEW new \in SignalMaps
    PROVE  /\ CarryForward(old, new) \in SignalMaps
           /\ DOMAIN CarryForward(old, new) = DOMAIN new
           /\ \A n \in DOMAIN new :
                /\ CarryForward(old, new)[n].kind = new[n].kind
                /\ CarryForward(old, new)[n].at = new[n].at
                /\ CarryForward(old, new)[n].val = IF Carries(old, new, n) THEN old[n].val ELSE new[n].val
<1>1. DOMAIN new \in SUBSET Names /\ new \in [DOMAIN new -> Signals] /\ old \in [DOMAIN old -> Signals]
  BY MapElim
<1>2. ASSUME NEW n \in DOMAIN new
      PROVE  /\ CarryForward(old, new)[n] \in Signals
             /\ CarryForward(old, new)[n].kind = new[n].kind
             /\ CarryForward(old, new)[n].at = new[n].at
             /\ CarryForward(old, new)[n].val = IF Carries(old, new, n) THEN old[n].val ELSE new[n].val
  <2>1. new[n] \in Signals /\ CarryForward(old, new)[n] =
            IF Carries(old, new, n) THEN [new[n] EXCEPT !.val = old[n].val] ELSE new[n]
    BY <1>1, <1>2 DEF CarryForward
  <2>2. CASE Carries(old, new, n)
    <3>1. old[n] \in Signals
      BY <1>1, <2>2 DEF Carries
    <3>2. QED
      BY <2>1, <2>2, <3>1 DEF Signals
  <2>3. CASE ~Carries(old, new, n)
    BY <2>1, <2>3
  <2>4. QED
    BY <2>2, <2>3
<1>3. CarryForward(old, new) \in [DOMAIN new -> Signals]
  BY <1>2 DEF CarryForward
<1>4. QED
  BY <1>1, <1>2, <1>3, MapIntro

LEMMA FieldFacts ==
    ASSUME NEW old \in SignalMaps, NEW new \in SignalMaps
    PROVE  /\ ReconcileInstanceFields(old, new) \in SignalMaps
           /\ DOMAIN ReconcileInstanceFields(old, new) = DOMAIN new
           /\ \A n \in DOMAIN new : ReconcileInstanceFields(old, new)[n] =
                    IF n \in DOMAIN old /\ old[n].kind = new[n].kind THEN old[n] ELSE new[n]
<1>1. DOMAIN new \in SUBSET Names /\ new \in [DOMAIN new -> Signals] /\ old \in [DOMAIN old -> Signals]
  BY MapElim
<1>2. \A n \in DOMAIN new : ReconcileInstanceFields(old, new)[n] =
                    IF n \in DOMAIN old /\ old[n].kind = new[n].kind THEN old[n] ELSE new[n]
  BY DEF ReconcileInstanceFields
<1>3. ReconcileInstanceFields(old, new) \in [DOMAIN new -> Signals]
  BY <1>1, <1>2 DEF ReconcileInstanceFields
<1>4. QED
  BY <1>1, <1>2, <1>3, MapIntro

LEMMA NodeTyped ==
    ASSUME NEW tag \in Files \cup {NoFile}, NEW i \in {NoInst} \cup Insts
    PROVE  Node(tag, i) \in Nodes /\ Node(tag, i).tag = tag /\ Node(tag, i).inst = i
BY DEF Node, Nodes

LEMMA FreshTyped ==
    ASSUME NEW f \in Files \cup {NoFile}, NEW born \in {"none", "static", "slot"}
    PROVE  Fresh(f, born) \in Instances
<1>1. <<>> \in Seq(Nodes) /\ <<>> \in SignalMaps
  BY EmptySeq, EmptyMap
<1>2. NoNode \in Nodes
  BY NodeTyped DEF NoNode
<1>3. QED
  BY <1>1, <1>2 DEF Fresh, Instances

-----------------------------------------------------------------------------
(* What each step of the driver does *)

LEMMA InstNumbers == NoInst \notin Insts /\ Insts \subseteq Nat
BY DriverAssumption DEF NoInst, Insts

LEMMA ImportShape ==
    ASSUME Basic, ImportChild
    PROVE  /\ ~Idle /\ Top.at = "import" /\ disk' = disk /\ ambient' = ambient
           /\ documents' \in Cache /\ scopes' \in Cache
           /\ \A g \in Files : documents[g] # NoText => documents'[g] = documents[g]
           /\ \/ /\ Replaced([Top EXCEPT !.at = "load"])
                 /\ inst' = inst /\ root' = root /\ call' = call /\ failed' = failed
                 /\ documents'[Top.file] # NoText
                 /\ scopes' = GetFileScope(scopes, Top.file, documents'[Top.file])
              \/ /\ scopes' = scopes /\ failed' = failed \cup {Top.file}
                 /\ Deliver(inst, Node(Top.file, NoInst))
<1> DEFINE docs == LoadDocument(documents, Top.caller)
           more == LoadDocument(docs, Top.file)
           imported == docs[Top.caller] # NoText /\ Top.file \in Text[docs[Top.caller]].imports
<1>1. ~Idle /\ Top.at = "import" /\ disk' = disk /\ ambient' = ambient
  BY DEF ImportChild
<1>2. Top \in Frames /\ Top.caller \in Files /\ Top.file \in Files
  <2>1. Top \in Frames /\ FrameOK(stack, scopes, Len(stack)) /\ Top = stack[Len(stack)]
    BY <1>1, TopFacts
  <2>2. QED
    BY <1>1, <2>1 DEF FrameOK, Frames
<1>3. disk \in Cache /\ documents \in Cache /\ scopes \in Cache /\ \A f \in Files : disk[f] # NoText
  BY DEF Basic, Typed
<1>4. /\ docs \in Cache /\ \A g \in Files : documents[g] # NoText => docs[g] = documents[g]
      /\ more \in Cache /\ \A g \in Files : docs[g] # NoText => more[g] = docs[g]
  <2>1. docs \in Cache /\ \A g \in Files : documents[g] # NoText => docs[g] = documents[g]
    BY <1>2, <1>3, LoadFacts
  <2>2. more \in Cache /\ \A g \in Files : docs[g] # NoText => more[g] = docs[g]
    <3> HIDE DEF docs
    <3> QED BY <1>2, <1>3, <2>1, LoadFacts
  <2>3. QED
    BY <2>1, <2>2
<1>5. CASE imported /\ more[Top.file] # NoText
  <2>1. /\ documents' = more /\ scopes' = GetFileScope(scopes, Top.file, more[Top.file])
        /\ SetTop([Top EXCEPT !.at = "load"]) /\ UNCHANGED <<inst, root, call, failed>>
    BY <1>5 DEF ImportChild
  <2>2. [Top EXCEPT !.at = "load"] \in Frames
    BY <1>2 DEF Frames
  <2>3. Replaced([Top EXCEPT !.at = "load"])
    BY <1>1, <2>1, <2>2, SetTopShape
  <2> HIDE DEF docs, more, imported
  <2>4. more[Top.file] \in VersionsOf[Top.file]
    BY <1>2, <1>4, <1>5 DEF Cache
  <2>5. scopes' \in Cache
    BY <1>2, <1>3, <2>1, <2>4, ScopeFacts
  <2>6. \A g \in Files : documents[g] # NoText => documents'[g] = documents[g]
    BY <1>4, <2>1
  <2>7. QED
    BY <1>1, <1>4, <1>5, <2>1, <2>3, <2>5, <2>6
<1>6. CASE ~(imported /\ more[Top.file] # NoText)
  <2>1. documents' = (IF imported THEN more ELSE docs) /\ Fail /\ scopes' = scopes
    BY <1>6 DEF ImportChild
  <2>2. Deliver(inst, Node(Top.file, NoInst)) /\ failed' = failed \cup {Top.file}
    BY <2>1 DEF Fail
  <2> HIDE DEF docs, more, imported
  <2>3. documents' \in Cache /\ \A g \in Files : documents[g] # NoText => documents'[g] = documents[g]
    <3>1. CASE imported
      <4>1. documents' = more
        BY <2>1, <3>1
      <4>2. QED
        BY <1>4, <4>1
    <3>2. CASE ~imported
      <4>1. documents' = docs
        BY <2>1, <3>2
      <4>2. QED
        BY <1>4, <4>1
    <3>3. QED
      BY <3>1, <3>2
  <2>4. QED
    BY <1>1, <1>3, <2>1, <2>2, <2>3
<1>7. QED
  BY <1>5, <1>6

LEMMA LoadShape ==
    ASSUME Basic, Load
    PROVE  /\ ~Idle /\ Top.at = "load" /\ disk' = disk /\ ambient' = ambient
           /\ documents' \in Cache /\ scopes' \in Cache
           /\ \A g \in Files : g # Top.file => documents'[g] = documents[g]
           /\ Top.prev = NoInst /\ documents[Top.file] # NoText => documents' = documents
           /\ \/ /\ documents'[Top.file] # NoText
                 /\ Replaced([Top EXCEPT !.at = "body", !.text = documents'[Top.file],
                                         !.todo = Text[documents'[Top.file]].children,
                                         !.left = CollectNestedInvocations(Top.prev)])
                 /\ inst' = inst /\ root' = root /\ call' = call /\ failed' = failed
                 /\ scopes' = GetFileScope(scopes, Top.file, documents'[Top.file])
              \/ /\ \/ scopes' = scopes
                    \/ /\ documents'[Top.file] # NoText
                       /\ scopes' = GetFileScope(scopes, Top.file, documents'[Top.file])
                 /\ failed' = failed \cup {Top.file}
                 /\ Deliver(inst, Node(Top.file, NoInst))
<1> DEFINE before == IF Top.prev = NoInst THEN documents ELSE InvalidateDocument(documents, Top.file)
           docs == LoadDocument(before, Top.file)
           v == docs[Top.file]
<1>1. ~Idle /\ Top.at = "load" /\ disk' = disk /\ ambient' = ambient /\ documents' = docs
  BY DEF Load
<1>2. Top \in Frames /\ Top.file \in Files /\ Top.prev \in {NoInst} \cup Insts
  BY <1>1, TopFacts DEF Frames
<1>3. /\ disk \in Cache /\ documents \in Cache /\ scopes \in Cache /\ \A f \in Files : disk[f] # NoText
      /\ inst \in [Insts -> Instances]
  BY DEF Basic, Typed
<1>4. before \in Cache /\ \A g \in Files : g # Top.file => before[g] = documents[g]
  BY <1>2, <1>3, InvalidateFacts
<1>5. docs \in Cache /\ \A g \in Files : g # Top.file \/ before[g] # NoText => docs[g] = before[g]
  <2> HIDE DEF before
  <2> QED BY <1>2, <1>3, <1>4, LoadFacts
<1>6. \A g \in Files : g # Top.file => documents'[g] = documents[g]
  <2> HIDE DEF before, docs
  <2> QED BY <1>1, <1>4, <1>5
<1>7. Top.prev = NoInst /\ documents[Top.file] # NoText => documents' = documents
  BY <1>1, <1>2, <1>3 DEF LoadDocument
<1>8. CASE v # NoText /\ Text[v].block
  <2>1. scopes' = GetFileScope(scopes, Top.file, v)
    BY <1>8 DEF Load
  <2> DEFINE f == [Top EXCEPT !.at = "body", !.text = v, !.todo = Text[v].children,
                              !.left = CollectNestedInvocations(Top.prev)]
  <2>2. \/ SetTop(f) /\ UNCHANGED <<inst, root, call, failed>>
        \/ Fail
    BY <1>8 DEF Load
  <2> HIDE DEF before, docs
  <2>3. v \in VersionsOf[Top.file] /\ v \in Versions
    BY <1>2, <1>5, <1>8 DEF Cache, Versions
  <2>4. scopes' \in Cache
    BY <1>2, <1>3, <2>1, <2>3, ScopeFacts
  <2>5. CASE SetTop(f) /\ UNCHANGED <<inst, root, call, failed>>
    <3>1. Text[v].children \in Seq(Files)
      BY <2>3, DriverAssumption
    <3>2. CollectNestedInvocations(Top.prev) \in Seq(Nodes)
      <4>1. CASE Top.prev = NoInst
        BY <4>1, EmptySeq DEF CollectNestedInvocations
      <4>2. CASE Top.prev # NoInst
        BY <1>2, <1>3, <4>2 DEF CollectNestedInvocations, Instances
      <4>3. QED
        BY <4>1, <4>2
    <3>3. f \in Frames
      BY <1>2, <2>3, <3>1, <3>2 DEF Frames
    <3>4. Replaced(f)
      <4> HIDE DEF f
      <4> QED BY <1>1, <2>5, <3>3, SetTopShape
    <3>5. QED
      BY <1>1, <1>5, <1>6, <1>7, <1>8, <2>1, <2>4, <2>5, <3>4
  <2>6. CASE Fail
    <3>1. Deliver(inst, Node(Top.file, NoInst)) /\ failed' = failed \cup {Top.file}
      BY <2>6 DEF Fail
    <3>2. QED
      BY <1>1, <1>5, <1>6, <1>7, <1>8, <2>1, <2>4, <3>1
  <2>7. QED
    BY <2>2, <2>5, <2>6
<1>9. CASE ~(v # NoText /\ Text[v].block)
  <2>1. Fail /\ scopes' = scopes
    BY <1>9 DEF Load
  <2>2. Deliver(inst, Node(Top.file, NoInst)) /\ failed' = failed \cup {Top.file}
    BY <2>1 DEF Fail
  <2>3. QED
    BY <1>1, <1>3, <1>5, <1>6, <1>7, <2>1, <2>2
<1>10. QED
  BY <1>8, <1>9

\* What a reload of an instance whose signals are all its own makes of them.
Reloaded(i, old, new, tier) ==
    /\ \A n \in DOMAIN new : new[n].at = i
    /\ \A n \in DOMAIN old \cap DOMAIN new : old[n].kind = new[n].kind => new[n].val = old[n].val
    /\ tier = "Unchanged" => new = old

LEMMA SameMap ==
    ASSUME NEW old \in SignalMaps, NEW new \in SignalMaps, DOMAIN old = DOMAIN new,
           \A n \in DOMAIN old : /\ old[n].kind = new[n].kind /\ old[n].val = new[n].val
                                 /\ old[n].at = new[n].at
    PROVE  new = old
<1>1. new \in [DOMAIN new -> Signals] /\ old \in [DOMAIN old -> Signals]
  BY MapElim
<1>2. \A n \in DOMAIN old : new[n] = old[n]
  <2> TAKE n \in DOMAIN old
  <2>1. old[n] \in Signals /\ new[n] \in Signals
    BY <1>1
  <2>2. QED
    BY <2>1 DEF Signals
<1>3. QED
  BY <1>1, <1>2

LEMMA FunctionSignals ==
    ASSUME NEW i \in Insts, NEW old \in SignalMaps, \A n \in DOMAIN old : old[n].at = i,
           NEW v \in Versions
    PROVE  LET new == CarryForward(old, Declare(v, i))
           IN  Reloaded(i, old, new, CompareEnvironments(old, new))
<1> DEFINE declared == Declare(v, i)
           new == CarryForward(old, declared)
<1>1. declared \in SignalMaps /\ \A n \in DOMAIN declared : declared[n].at = i
  BY DeclareTyped
<1> HIDE DEF declared
<1>2. /\ new \in SignalMaps /\ DOMAIN new = DOMAIN declared
      /\ \A n \in DOMAIN declared :
           /\ new[n].kind = declared[n].kind /\ new[n].at = declared[n].at
           /\ new[n].val = IF Carries(old, declared, n) THEN old[n].val ELSE declared[n].val
  BY <1>1, CarryFacts
<1> HIDE DEF new
<1>3. i # NoInst
  BY InstNumbers
<1>4. \A n \in DOMAIN new : new[n].at = i
  BY <1>1, <1>2
<1>5. \A n \in DOMAIN old \cap DOMAIN new : old[n].kind = new[n].kind => new[n].val = old[n].val
  BY <1>1, <1>2, <1>3 DEF Carries
<1>6. ASSUME CompareEnvironments(old, new) = "Unchanged" PROVE new = old
  <2>1. /\ \A n \in DOMAIN old : n \in DOMAIN new /\ old[n].kind = new[n].kind
        /\ \A n \in DOMAIN new : n \in DOMAIN old
    <3>1. /\ \A n \in DOMAIN old : old[n].at # NoInst => Carries(old, new, n)
          /\ \A n \in DOMAIN new : new[n].at # NoInst => n \in DOMAIN old /\ old[n].at # NoInst
      BY <1>6 DEF CompareEnvironments
    <3>2. QED
      BY <1>3, <1>4, <3>1 DEF Carries
  <2>2. \A n \in DOMAIN old : old[n].kind = new[n].kind /\ old[n].val = new[n].val /\ old[n].at = new[n].at
    BY <1>4, <1>5, <2>1
  <2>3. QED
    BY <1>2, <2>1, <2>2, SameMap
<1>7. QED
  BY <1>4, <1>5, <1>6 DEF Reloaded, new, declared

LEMMA ClassSignals ==
    ASSUME NEW i \in Insts, NEW old \in SignalMaps, \A n \in DOMAIN old : old[n].at = i,
           NEW v \in Versions
    PROVE  LET new == ReconcileInstanceFields(old, Declare(v, i))
           IN  Reloaded(i, old, new, CompareShapes(old, new))
<1> DEFINE declared == Declare(v, i)
           new == ReconcileInstanceFields(old, declared)
<1>1. declared \in SignalMaps /\ \A n \in DOMAIN declared : declared[n].at = i
  BY DeclareTyped
<1> HIDE DEF declared
<1>2. /\ new \in SignalMaps /\ DOMAIN new = DOMAIN declared
      /\ \A n \in DOMAIN declared : new[n] =
            IF n \in DOMAIN old /\ old[n].kind = declared[n].kind THEN old[n] ELSE declared[n]
  BY <1>1, FieldFacts
<1> HIDE DEF new
<1>3. \A n \in DOMAIN new : new[n].at = i
  BY <1>1, <1>2
<1>4. \A n \in DOMAIN old \cap DOMAIN new : old[n].kind = new[n].kind => new[n] = old[n]
  BY <1>2
<1>5. ASSUME CompareShapes(old, new) = "Unchanged" PROVE new = old
  <2>1. FieldShape(old) = FieldShape(new)
    BY <1>5 DEF CompareShapes
  <2>2. DOMAIN old = DOMAIN new /\ \A n \in DOMAIN old : old[n].kind = new[n].kind
    <3>1. DOMAIN FieldShape(old) = DOMAIN old /\ DOMAIN FieldShape(new) = DOMAIN new
      BY DEF FieldShape
    <3>2. /\ \A n \in DOMAIN old : FieldShape(old)[n] = old[n].kind
          /\ \A n \in DOMAIN new : FieldShape(new)[n] = new[n].kind
      BY DEF FieldShape
    <3>3. QED
      BY <2>1, <3>1, <3>2
  <2>3. \A n \in DOMAIN old : old[n].kind = new[n].kind /\ old[n].val = new[n].val /\ old[n].at = new[n].at
    BY <1>4, <2>2
  <2>4. QED
    BY <1>2, <2>2, <2>3, SameMap
<1>6. QED
  BY <1>3, <1>4, <1>5 DEF Reloaded, new, declared

LEMMA RerunFacts ==
    ASSUME inst \in [Insts -> Instances], NEW i \in Insts, NEW v \in Versions, NEW m \in SignalMaps
    PROVE  /\ Rerun(i, v, m) \in [Insts -> Instances]
           /\ \A j \in Insts : j # i => Rerun(i, v, m)[j] = inst[j]
           /\ Rerun(i, v, m)[i].body = v /\ Rerun(i, v, m)[i].block = v
           /\ Rerun(i, v, m)[i].hooks \in {v, NoText} /\ Rerun(i, v, m)[i].signals = m
           /\ Rerun(i, v, m)[i].file = inst[i].file /\ Rerun(i, v, m)[i].mounted = inst[i].mounted
           /\ Rerun(i, v, m)[i].kids = inst[i].kids /\ Rerun(i, v, m)[i].left = inst[i].left
           /\ Rerun(i, v, m)[i].slot = inst[i].slot /\ Rerun(i, v, m)[i].inner = inst[i].inner
<1> DEFINE h == BuildLifecycleAdapter(v)
           r == [inst[i] EXCEPT !.body = v, !.block = v, !.hooks = h, !.signals = m]
<1>1. h \in {v, NoText}
  BY DEF BuildLifecycleAdapter
<1>2. Rerun(i, v, m) = [inst EXCEPT ![i] = r]
  BY DEF Rerun
<1> HIDE DEF h
<1>3. /\ r \in Instances /\ r.body = v /\ r.block = v /\ r.hooks = h /\ r.signals = m
      /\ r.file = inst[i].file /\ r.mounted = inst[i].mounted /\ r.kids = inst[i].kids
      /\ r.left = inst[i].left /\ r.slot = inst[i].slot /\ r.inner = inst[i].inner
  <2>1. inst[i] \in Instances
    OBVIOUS
  <2>2. r \in Instances
    BY <1>1, <2>1 DEF Instances
  <2>3. r.body = v /\ r.block = v /\ r.hooks = h /\ r.signals = m
    BY <2>1 DEF Instances
  <2>4. /\ r.file = inst[i].file /\ r.mounted = inst[i].mounted /\ r.kids = inst[i].kids
        /\ r.left = inst[i].left /\ r.slot = inst[i].slot /\ r.inner = inst[i].inner
    BY <2>1 DEF Instances
  <2>5. QED
    BY <2>2, <2>3, <2>4
<1> HIDE DEF r
<1>4. QED
  BY <1>1, <1>2, <1>3

LEMMA InstanceTyped ==
    ASSUME inst \in [Insts -> Instances], NEW i \in Insts, NEW m \in Instances
    PROVE  /\ [inst EXCEPT ![i] = m] \in [Insts -> Instances] /\ [inst EXCEPT ![i] = m][i] = m
           /\ \A j \in Insts : j # i => [inst EXCEPT ![i] = m][j] = inst[j]
OBVIOUS

\* An instance as its mount makes it: nothing below it, nothing stored.
Mounting(m, f, i) ==
    /\ m.file = f /\ m.mounted = FALSE /\ m.hooks = NoText /\ m.block = NoText
    /\ m.kids = <<>> /\ m.left = <<>> /\ m.slot = NoNode /\ m.inner = NoInst
    /\ \A n \in DOMAIN m.signals : m.signals[n].at = i

LEMMA MountShape ==
    ASSUME Basic, MountBody
    PROVE  /\ ~Idle /\ Top.at = "body" /\ Top.prev = NoInst /\ disk' = disk
           /\ documents' = documents /\ scopes' = scopes /\ ambient' \in Seq(Insts)
           /\ \E i \in Insts, m \in Instances :
                /\ inst[i] = Free /\ Mounting(m, Top.file, i)
                /\ \/ /\ m.body = scopes[Top.file] /\ inst' = [inst EXCEPT ![i] = m]
                      /\ Replaced([Top EXCEPT !.at = "convert", !.inst = i])
                      /\ root' = root /\ call' = call /\ failed' = failed
                   \/ /\ m.body = NoText /\ failed' = failed \cup {Top.file}
                      /\ Deliver([inst EXCEPT ![i] = m], Node(Top.file, i))
<1>1. /\ ~Idle /\ Top.at = "body" /\ Top.prev = NoInst /\ disk' = disk
      /\ documents' = documents /\ scopes' = scopes
  BY DEF MountBody
<1>2. Top \in Frames /\ Top.file \in Files /\ scopes[Top.file] # NoText
  <2>1. Top \in Frames /\ FrameOK(stack, scopes, Len(stack)) /\ Top = stack[Len(stack)]
    BY <1>1, TopFacts
  <2>2. QED
    BY <1>1, <2>1 DEF FrameOK, Frames
<1>3. /\ scopes[Top.file] \in Versions /\ inst \in [Insts -> Instances] /\ ambient \in Seq(Insts)
  BY <1>2 DEF Basic, Typed, Cache
<1>4. Born \in {"static", "slot"}
  BY DEF Born
<1>5. PICK i \in Insts : /\ inst[i] = Free
        /\ LET body == scopes[Top.file]
           IN  IF Text[body].runs \/ Top.file \in Classes
               THEN /\ ambient' = Guarded(i)
                    /\ inst' = [inst EXCEPT ![i] = [Fresh(Top.file, Born) EXCEPT
                                    !.body = body,
                                    !.signals = Declare(body, Ambient(ambient'))]]
                    /\ SetTop([Top EXCEPT !.at = "convert", !.inst = i])
                    /\ UNCHANGED <<root, call, failed>>
               ELSE /\ Deliver([inst EXCEPT ![i] = Fresh(Top.file, Born)], Node(Top.file, i))
                    /\ failed' = failed \cup {Top.file}
                    /\ UNCHANGED ambient
  BY DEF MountBody
<1>6. Fresh(Top.file, Born) \in Instances
  BY <1>2, <1>4, FreshTyped
<1>7. CASE Text[scopes[Top.file]].runs \/ Top.file \in Classes
  <2> DEFINE amb == Guarded(i)
             sig == Declare(scopes[Top.file], Ambient(amb))
             m == [Fresh(Top.file, Born) EXCEPT !.body = scopes[Top.file], !.signals = sig]
  <2>1. /\ ambient' = amb
        /\ inst' = [inst EXCEPT ![i] = [Fresh(Top.file, Born) EXCEPT
                                    !.body = scopes[Top.file],
                                    !.signals = Declare(scopes[Top.file], Ambient(ambient'))]]
        /\ SetTop([Top EXCEPT !.at = "convert", !.inst = i])
        /\ UNCHANGED <<root, call, failed>>
    BY <1>5, <1>7
  <2>2. amb \in Seq(Insts) /\ Ambient(amb) = i
    <3>1. Append(ambient, i) \in Seq(Insts) /\ Append(ambient, i) # <<>>
          /\ Len(Append(ambient, i)) = Len(ambient) + 1 /\ Append(ambient, i)[Len(ambient) + 1] = i
      BY <1>3, AppendProperties
    <3>2. QED
      BY <3>1 DEF Guarded, Ambient, Last
  <2>3. inst' = [inst EXCEPT ![i] = m]
    BY <2>1
  <2> HIDE DEF amb
  <2>4. sig \in SignalMaps /\ \A n \in DOMAIN sig : sig[n].at = i
    BY <1>3, <2>2, DeclareTyped
  <2> HIDE DEF sig
  <2>5. m \in Instances
    BY <1>3, <1>6, <2>4 DEF Instances
  <2>6. Mounting(m, Top.file, i) /\ m.body = scopes[Top.file]
    <3>1. m.signals = sig /\ m.body = scopes[Top.file]
      BY DEF Fresh
    <3>2. /\ m.file = Top.file /\ m.mounted = FALSE /\ m.hooks = NoText /\ m.block = NoText
          /\ m.kids = <<>> /\ m.left = <<>> /\ m.slot = NoNode /\ m.inner = NoInst
      BY DEF Fresh
    <3>3. QED
      BY <2>4, <3>1, <3>2 DEF Mounting
  <2> HIDE DEF m
  <2>7. [Top EXCEPT !.at = "convert", !.inst = i] \in Frames
    BY <1>2 DEF Frames
  <2>8. Replaced([Top EXCEPT !.at = "convert", !.inst = i])
    BY <1>1, <2>1, <2>7, SetTopShape
  <2>9. root' = root /\ call' = call /\ failed' = failed
    BY <2>1
  <2>10. QED
    BY <1>1, <1>5, <2>1, <2>2, <2>3, <2>5, <2>6, <2>8, <2>9
<1>8. CASE ~(Text[scopes[Top.file]].runs \/ Top.file \in Classes)
  <2>1. /\ Deliver([inst EXCEPT ![i] = Fresh(Top.file, Born)], Node(Top.file, i))
        /\ failed' = failed \cup {Top.file} /\ ambient' = ambient
    BY <1>5, <1>8
  <2>2. Mounting(Fresh(Top.file, Born), Top.file, i) /\ Fresh(Top.file, Born).body = NoText
    BY EmptyMap DEF Fresh, Mounting
  <2>3. QED
    BY <1>1, <1>3, <1>5, <1>6, <2>1, <2>2
<1>9. QED
  BY <1>7, <1>8

LEMMA ReloadShape ==
    ASSUME Basic, ReloadFunction \/ ReloadClass, NEW i, i = Top.prev, OwnSignals
    PROVE  /\ ~Idle /\ Top.at = "body" /\ i \in Insts /\ disk' = disk
           /\ documents' = documents /\ ambient' = ambient /\ scopes' \in Cache
           /\ \A g \in Files : g # Top.file => scopes'[g] = scopes[g]
           /\ \/ /\ scopes'[Top.file] = Top.text
                 /\ root' = root /\ call' = call /\ failed' = failed
                 /\ \E m \in SignalMaps, tier \in {"Unchanged", "SignalLayoutChanged"} :
                      /\ inst' = Rerun(i, Top.text, m) /\ Reloaded(i, inst[i].signals, m, tier)
                      /\ Replaced([Top EXCEPT !.at = "convert", !.inst = i, !.tier = tier])
              \/ /\ failed' = failed \cup {Top.file} /\ scopes'[Top.file] # NoText
                 /\ Deliver(inst, Node(Top.file, NoInst))
<1>1. /\ ~Idle /\ Top.at = "body" /\ Top.prev # NoInst /\ disk' = disk
      /\ documents' = documents /\ ambient' = ambient
  BY DEF ReloadFunction, ReloadClass
<1>2. /\ Top \in Frames /\ Top.file \in Files /\ scopes[Top.file] # NoText
      /\ Top.text \in VersionsOf[Top.file] /\ Top.text \in Versions /\ i \in Insts
  <2>1. Top \in Frames /\ FrameOK(stack, scopes, Len(stack)) /\ Top = stack[Len(stack)]
    BY <1>1, TopFacts
  <2>2. QED
    BY <1>1, <2>1 DEF FrameOK, Frames, Versions
<1>3. inst \in [Insts -> Instances] /\ ambient \in Seq(Insts) /\ scopes \in Cache
  BY DEF Basic, Typed
<1>4. /\ [scopes EXCEPT ![Top.file] = Top.text] \in Cache
      /\ [scopes EXCEPT ![Top.file] = Top.text][Top.file] = Top.text /\ Top.text # NoText
      /\ \A g \in Files : g # Top.file => [scopes EXCEPT ![Top.file] = Top.text][g] = scopes[g]
  <2>1. Top.file \in Files /\ Top.text \in VersionsOf[Top.file] /\ scopes \in Cache
    BY <1>2, <1>3
  <2>2. QED
    BY ONLY <2>1, PatchFacts
<1>5. Ambient(Guarded(i)) = i
  <2>1. Append(ambient, i) # <<>>
        /\ Len(Append(ambient, i)) = Len(ambient) + 1 /\ Append(ambient, i)[Len(ambient) + 1] = i
    BY <1>2, <1>3, AppendProperties
  <2>2. QED
    BY <2>1 DEF Guarded, Ambient, Last
<1>6. inst[i].signals \in SignalMaps /\ \A n \in DOMAIN inst[i].signals : inst[i].signals[n].at = i
  BY <1>2, <1>3 DEF Instances, OwnSignals
<1>7. Declare(Top.text, i) \in SignalMaps
  BY <1>2, DeclareTyped
<1>8. ASSUME NEW tier \in {"Unchanged", "SignalLayoutChanged"},
             SetTop([Top EXCEPT !.at = "convert", !.inst = i, !.tier = tier])
      PROVE  Replaced([Top EXCEPT !.at = "convert", !.inst = i, !.tier = tier])
  <2>1. [Top EXCEPT !.at = "convert", !.inst = i, !.tier = tier] \in Frames
    BY <1>2 DEF Frames
  <2>2. QED
    BY <1>1, <1>8, <2>1, SetTopShape
<1>9. CASE ReloadFunction
  <2> DEFINE new == CarryForward(inst[i].signals, Declare(Top.text, i))
             tier == CompareEnvironments(inst[i].signals, new)
  <2>1. new \in SignalMaps /\ Reloaded(i, inst[i].signals, new, tier)
    BY <1>2, <1>6, <1>7, CarryFacts, FunctionSignals
  <2>2. tier \in {"Unchanged", "SignalLayoutChanged"}
    BY DEF CompareEnvironments
  <2>3. IF Text[Top.text].runs
        THEN /\ scopes' = [scopes EXCEPT ![Top.file] = Top.text]
             /\ inst' = Rerun(i, Top.text, new)
             /\ SetTop([Top EXCEPT !.at = "convert", !.inst = i, !.tier = tier])
             /\ UNCHANGED <<root, call, failed>>
        ELSE /\ scopes' \in {scopes, [scopes EXCEPT ![Top.file] = Top.text]}
             /\ Fail
    BY <1>5, <1>9 DEF ReloadFunction
  <2> HIDE DEF new, tier
  <2>4. CASE Text[Top.text].runs
    <3>1. /\ scopes' = [scopes EXCEPT ![Top.file] = Top.text]
          /\ inst' = Rerun(i, Top.text, new) /\ root' = root /\ call' = call /\ failed' = failed
          /\ Replaced([Top EXCEPT !.at = "convert", !.inst = i, !.tier = tier])
      BY <1>8, <2>2, <2>3, <2>4
    <3>2. QED
      BY <1>1, <1>2, <1>4, <2>1, <2>2, <3>1
  <2>5. CASE ~Text[Top.text].runs
    <3>1. scopes' \in {scopes, [scopes EXCEPT ![Top.file] = Top.text]} /\ Fail
      BY <2>3, <2>5
    <3>2. QED
      BY <1>1, <1>2, <1>3, <1>4, <3>1 DEF Fail
  <2>6. QED
    BY <2>4, <2>5
<1>10. CASE ReloadClass
  <2> DEFINE new == ReconcileInstanceFields(inst[i].signals, Declare(Top.text, i))
             tier == CompareShapes(inst[i].signals, new)
  <2>1. new \in SignalMaps /\ Reloaded(i, inst[i].signals, new, tier)
    BY <1>2, <1>6, <1>7, FieldFacts, ClassSignals
  <2>2. tier \in {"Unchanged", "SignalLayoutChanged"}
    BY DEF CompareShapes
  <2>3. /\ scopes' = [scopes EXCEPT ![Top.file] = Top.text]
        /\ inst' = Rerun(i, Top.text, new)
        /\ SetTop([Top EXCEPT !.at = "convert", !.inst = i, !.tier = tier])
        /\ root' = root /\ call' = call /\ failed' = failed
    BY <1>5, <1>10 DEF ReloadClass
  <2> HIDE DEF new, tier
  <2>4. Replaced([Top EXCEPT !.at = "convert", !.inst = i, !.tier = tier])
    BY <1>8, <2>2, <2>3
  <2>5. QED
    BY <1>1, <1>2, <1>4, <2>1, <2>2, <2>3, <2>4
<1>11. QED
  BY <1>9, <1>10

\* The previous invocation the cursor stands at, if it has the tag and is mounted.
LEMMA MatchedFacts ==
    ASSUME inst \in [Insts -> Instances], NEW left \in Seq(Nodes), NEW tag
    PROVE  /\ Matched(left, tag) \in {NoInst} \cup Insts
           /\ Matched(left, tag) # NoInst =>
                /\ left # <<>> /\ left[1].tag = tag /\ left[1].inst = Matched(left, tag)
                /\ Matched(left, tag) \in Insts /\ inst[Matched(left, tag)].mounted
           /\ left # <<>> /\ left[1].tag = tag => Matched(left, tag) = PriorOf(left[1].inst)
<1>1. left # <<>> => Head(left) = left[1] /\ left[1] \in Nodes
  BY HeadTailProperties, LenProperties, EmptySeq
<1>2. left # <<>> => left[1].inst \in {NoInst} \cup Insts
  BY <1>1 DEF Nodes
<1>3. QED
  BY <1>1, <1>2 DEF Matched, PriorOf

LEMMA ConvertShape ==
    ASSUME Basic, ConvertChild,
           NEW g, g = Frame(Top.file, Head(Top.todo), Matched(Top.left, Head(Top.todo)))
    PROVE  /\ ~Idle /\ Top.at = "convert" /\ Top.todo # <<>>
           /\ disk' = disk /\ documents' = documents /\ scopes' = scopes /\ inst' = inst
           /\ root' = root /\ ambient' = ambient /\ call' = call /\ failed' = failed
           /\ g \in Frames /\ g.file = Top.todo[1] /\ g.file \in StaticChildren(Top.file)
           /\ g.at = "import" /\ g.caller \in Files /\ g.kids = <<>>
           /\ g.prev = Matched(Top.left, Top.todo[1])
           /\ Pushed([Top EXCEPT !.todo = Tail(@), !.left = Past(@)], g)
<1>1. /\ ~Idle /\ Top.at = "convert" /\ Top.todo # <<>>
      /\ disk' = disk /\ documents' = documents /\ scopes' = scopes /\ inst' = inst
      /\ root' = root /\ ambient' = ambient /\ call' = call /\ failed' = failed
      /\ stack' = Append(Append(Front(stack), [Top EXCEPT !.todo = Tail(@), !.left = Past(@)]), g)
  BY DEF ConvertChild
<1>2. Top \in Frames /\ FrameOK(stack, scopes, Len(stack)) /\ Top = stack[Len(stack)]
  BY <1>1, TopFacts
<1>3. /\ Top.todo \in Seq(Files) /\ Top.left \in Seq(Nodes) /\ Top.file \in Files
      /\ \A k \in DOMAIN Top.todo : Top.todo[k] \in StaticChildren(Top.file)
  BY <1>1, <1>2 DEF FrameOK, Frames
<1>4. /\ Head(Top.todo) = Top.todo[1] /\ Top.todo[1] \in Files /\ Tail(Top.todo) \in Seq(Files)
      /\ 1 \in DOMAIN Top.todo
  BY <1>1, <1>3, HeadTailProperties, LenProperties, EmptySeq
<1>5. Past(Top.left) \in Seq(Nodes)
  BY <1>3, HeadTailProperties DEF Past
<1>6. inst \in [Insts -> Instances] /\ stack \in Seq(Frames) /\ stack # <<>>
  BY <1>1 DEF Basic, Typed, Idle
<1>7. Matched(Top.left, Top.todo[1]) \in {NoInst} \cup Insts
  BY <1>3, <1>6, MatchedFacts
<1>8. Top.file # NoFile
  BY <1>3, DriverAssumption
<1>9. /\ g \in Frames /\ g.file = Top.todo[1] /\ g.at = "import" /\ g.caller = Top.file /\ g.kids = <<>>
      /\ g.prev = Matched(Top.left, Top.todo[1])
  <2>1. g = [at |-> "import", caller |-> Top.file,
             file |-> Top.todo[1], prev |-> Matched(Top.left, Top.todo[1]), text |-> NoText,
             inst |-> NoInst, todo |-> <<>>, kids |-> <<>>, left |-> <<>>, tier |-> "none"]
    BY <1>4, <1>8 DEF Frame
  <2>2. <<>> \in Seq(Files) /\ <<>> \in Seq(Nodes)
    BY EmptySeq
  <2>3. Top.file \in Files /\ Top.todo[1] \in Files /\ Matched(Top.left, Top.todo[1]) \in {NoInst} \cup Insts
    BY <1>3, <1>4, <1>7
  <2>4. g \in Frames
    BY ONLY <2>1, <2>2, <2>3 DEF Frames
  <2>5. QED
    BY ONLY <2>1, <2>4
<1>10. [Top EXCEPT !.todo = Tail(@), !.left = Past(@)] \in Frames
  BY <1>2, <1>4, <1>5 DEF Frames
<1> DEFINE f == [Top EXCEPT !.todo = Tail(@), !.left = Past(@)]
           s == Append(Front(stack), f)
<1> HIDE DEF f
<1>11. /\ s \in Seq(Frames) /\ Len(s) = Len(stack) /\ s[Len(stack)] = f
       /\ \A d \in 1..(Len(stack) - 1) : s[d] = stack[d]
  BY <1>6, <1>10, ReplacedTop DEF f
<1>12. stack' = Append(s, g)
  BY <1>1 DEF f
<1> HIDE DEF s
<1>13. /\ Append(s, g) \in Seq(Frames) /\ Len(Append(s, g)) = Len(s) + 1
       /\ Append(s, g)[Len(s) + 1] = g
       /\ \A d \in 1..Len(s) : Append(s, g)[d] = s[d]
  BY <1>9, <1>11, PushedTop
<1>14. Len(stack) \in Nat /\ Len(stack) >= 1
  BY <1>1, TopFacts
<1>15. Len(stack) \in 1..Len(stack) /\ \A d \in 1..(Len(stack) - 1) : d \in 1..Len(stack)
  BY <1>14
<1>16. Pushed(f, g)
  BY <1>11, <1>12, <1>13, <1>15 DEF Pushed
<1>17. QED
  BY <1>1, <1>3, <1>4, <1>9, <1>16 DEF f

\* What a component's render leaves on its instance.
Done(d, m) ==
    LET f == stack[d]
        i == f.inst
    IN  /\ m.mounted /\ m.file = inst[i].file /\ m.signals = inst[i].signals /\ m.body = inst[i].body
        /\ f.prev = NoInst => m.block = f.text /\ m.hooks \in {NoText, m.body}
        /\ f.prev # NoInst => m.block = inst[i].block /\ m.hooks = inst[i].hooks
        /\ m.slot = NoNode /\ m.left \in {<<>>, f.left}
        /\ IF Text[f.text].bare
           THEN /\ Len(f.kids) = 1 /\ m.inner = f.kids[1].inst
                /\ m.kids = CollectNestedInvocations(m.inner)
           ELSE m.inner = NoInst /\ m.kids = f.kids

LEMMA ReturnShape ==
    ASSUME Basic, Return
    PROVE  /\ ~Idle /\ Top.at = "convert" /\ Top.todo = <<>> /\ disk' = disk
           /\ documents' = documents /\ scopes' = scopes /\ failed' = failed
           /\ ambient' \in Seq(Insts) /\ Top.inst \in Insts
           /\ \E m \in Instances : /\ Done(Len(stack), m)
                                   /\ Deliver([inst EXCEPT ![Top.inst] = m], Node(Top.file, Top.inst))
<1> DEFINE i == Top.inst
           first == Top.prev = NoInst
           inner == IF Text[Top.text].bare THEN Top.kids[1].inst ELSE NoInst
           base == IF first THEN [inst[i] EXCEPT !.block = Top.text, !.hooks = BuildLifecycleAdapter(inst[i].body)]
                   ELSE inst[i]
           kids == IF Text[Top.text].bare THEN CollectNestedInvocations(inner) ELSE Top.kids
           left == IF Text[Top.text].slot = {} THEN <<>> ELSE Top.left
           done == [base EXCEPT !.mounted = TRUE, !.inner = inner, !.slot = NoNode,
                                !.kids = kids, !.left = left]
<1>1. /\ ~Idle /\ Top.at = "convert" /\ Top.todo = <<>> /\ disk' = disk
      /\ documents' = documents /\ scopes' = scopes /\ failed' = failed
      /\ Deliver([inst EXCEPT ![i] = done], Node(Top.file, i))
      /\ ambient' = IF first THEN Front(ambient) ELSE ambient
  BY DEF Return
<1>2. /\ Top \in Frames /\ FrameOK(stack, scopes, Len(stack)) /\ Top = stack[Len(stack)]
      /\ Len(stack) \in Nat
  BY <1>1, TopFacts
<1>3. /\ i \in Insts /\ Top.kids \in Seq(Nodes) /\ Top.left \in Seq(Nodes)
      /\ Top.text \in VersionsOf[Top.file] /\ Top.text \in Versions /\ Top.file \in Files
  BY <1>1, <1>2 DEF FrameOK, Frames, Versions
<1>4. Text[Top.text].bare => Len(Top.kids) = 1 /\ Top.kids[1].inst \in {NoInst} \cup Insts
  <2>1. Len(Top.kids) + Pending(stack, Len(stack)) + Len(Top.todo) = Len(Text[Top.text].children)
    BY <1>1, <1>2 DEF FrameOK
  <2>2. Pending(stack, Len(stack)) = 0 /\ Len(Top.todo) = 0 /\ Len(Top.kids) \in Nat
    BY <1>1, <1>2, <1>3, EmptySeq, LenProperties DEF Pending
  <2>3. Len(Top.kids) = Len(Text[Top.text].children)
    BY <2>1, <2>2
  <2>4. ASSUME Text[Top.text].bare
        PROVE  Len(Top.kids) = 1 /\ Top.kids[1].inst \in {NoInst} \cup Insts
    <3>1. Len(Top.kids) = 1
      BY <1>3, <2>3, <2>4, DriverAssumption
    <3>2. Top.kids[1] \in Nodes
      BY <1>3, <3>1, LenProperties
    <3>3. QED
      BY <3>1, <3>2 DEF Nodes
  <2>5. QED
    BY <2>4
<1>5. inner \in {NoInst} \cup Insts
  BY <1>4
<1>6. inst \in [Insts -> Instances] /\ ambient \in Seq(Insts)
  BY DEF Basic, Typed
<1>7. /\ inst[i] \in Instances /\ inst[i].body \in Versions \cup {NoText}
      /\ BuildLifecycleAdapter(inst[i].body) \in {NoText, inst[i].body}
  BY <1>3, <1>6 DEF Instances, BuildLifecycleAdapter
<1>8. /\ base \in Instances /\ base.file = inst[i].file /\ base.signals = inst[i].signals
      /\ base.body = inst[i].body
      /\ first => base.block = Top.text /\ base.hooks \in {NoText, base.body}
      /\ ~first => base.block = inst[i].block /\ base.hooks = inst[i].hooks
  <2>1. CASE first
    <3> DEFINE h == BuildLifecycleAdapter(inst[i].body)
    <3>1. base = [inst[i] EXCEPT !.block = Top.text, !.hooks = h]
      BY <2>1
    <3>2. h \in {NoText, inst[i].body} /\ h \in Versions \cup {NoText}
      BY <1>7
    <3> HIDE DEF h, base
    <3>3. base \in Instances
      BY <1>3, <1>7, <3>1, <3>2 DEF Instances
    <3>4. /\ base.file = inst[i].file /\ base.signals = inst[i].signals /\ base.body = inst[i].body
          /\ base.block = Top.text /\ base.hooks = h
      BY <1>7, <3>1 DEF Instances
    <3>5. QED
      BY <2>1, <3>2, <3>3, <3>4
  <2>2. CASE ~first
    BY <1>7, <2>2
  <2>3. QED
    BY <2>1, <2>2
<1>9. kids \in Seq(Nodes)
  BY <1>3, <1>5, <1>6, EmptySeq DEF CollectNestedInvocations, Instances
<1>10. left \in Seq(Nodes) /\ left \in {<<>>, Top.left}
  BY <1>3, EmptySeq
<1>11. NoNode \in Nodes
  BY NodeTyped DEF NoNode
<1> HIDE DEF base, left
<1>12. done \in Instances
  <2> HIDE DEF inner, kids
  <2> QED BY <1>5, <1>8, <1>9, <1>10, <1>11 DEF Instances
<1>13. /\ done.mounted /\ done.file = base.file /\ done.signals = base.signals
       /\ done.body = base.body /\ done.block = base.block /\ done.hooks = base.hooks
       /\ done.slot = NoNode /\ done.left = left /\ done.kids = kids /\ done.inner = inner
  <2> HIDE DEF inner, kids
  <2> QED BY <1>8 DEF Instances
<1> HIDE DEF done
<1>14. Done(Len(stack), done)
  BY <1>2, <1>4, <1>8, <1>10, <1>13 DEF Done
<1>15. ambient' \in Seq(Insts)
  <2>1. Front(ambient) \in Seq(Insts)
    <3>1. CASE ambient = <<>>
      BY <3>1, SubSeqEmpty, EmptySeq DEF Front
    <3>2. CASE ambient # <<>>
      BY <1>6, <3>2, FrontOf
    <3>3. QED
      BY <3>1, <3>2
  <2>2. QED
    BY <1>1, <1>6, <2>1
<1>16. QED
  BY <1>1, <1>3, <1>12, <1>14, <1>15

\* The frames a step leaves alone stay as they must be.
LEMMA BelowFrames ==
    ASSUME Basic, NEW e \in Nat, e < Len(stack), stack' \in Seq(Frames), e < Len(stack'),
           \A d \in 1..e : stack'[d] = stack[d], stack'[e + 1].file = stack[e + 1].file
    PROVE  \A d \in 1..e : FrameOK(stack', scopes', d)
<1> TAKE d \in 1..e
<1>1. d \in DOMAIN stack /\ d < Len(stack) /\ d < Len(stack') /\ d + 1 \in 1..(e + 1)
  BY LenProperties DEF Basic, Typed
<1>2. FrameOK(stack, scopes, d)
  BY <1>1 DEF Basic, Frames_OK
<1>3. stack'[d] = stack[d] /\ stack'[d + 1].file = stack[d + 1].file
  <2>1. CASE d = e
    BY <2>1
  <2>2. CASE d # e
    <3>1. d + 1 \in 1..e
      BY <2>2
    <3>2. QED
      BY <3>1
  <2>3. QED
    BY <2>1, <2>2
<1>4. stack[d].at = "convert" /\ Pending(stack, d) = 1 /\ Pending(stack', d) = 1
  BY <1>1, <1>2 DEF FrameOK, Pending
<1>5. QED
  BY <1>1, <1>2, <1>3, <1>4 DEF FrameOK

\* When the innermost call has returned.
LEMMA PoppedFrames ==
    ASSUME Basic, Len(stack) > 1, NEW n \in Nodes, Popped(n)
    PROVE  /\ stack' \in Seq(Frames) /\ \A d \in DOMAIN stack' : FrameOK(stack', scopes', d)
           /\ stack'[Len(stack')].at = "convert" /\ Len(stack') = Len(stack) - 1
           /\ Len(stack) - 1 \in DOMAIN stack /\ DOMAIN stack' = 1..(Len(stack) - 1)
           /\ stack[Len(stack) - 1] \in Frames
           /\ \A d \in DOMAIN stack' : stack'[d] = IF d = Len(stack) - 1
                THEN [stack[d] EXCEPT !.kids = Append(@, n)] ELSE stack[d]
<1> DEFINE e == Len(stack) - 2
           c == stack[Len(stack) - 1]
           f == [c EXCEPT !.kids = Append(@, n)]
<1>1. /\ Len(stack) \in Nat /\ e \in Nat /\ e < Len(stack) /\ e + 1 = Len(stack) - 1
      /\ Len(stack) - 1 \in 1..Len(stack) /\ DOMAIN stack = 1..Len(stack)
  BY LenProperties DEF Basic, Typed
<1>2. /\ stack' \in Seq(Frames) /\ Len(stack') = e + 1 /\ stack'[e + 1] = f
      /\ \A d \in 1..e : stack'[d] = stack[d]
  BY <1>1 DEF Popped
<1>3. c \in Frames /\ FrameOK(stack, scopes, Len(stack) - 1)
  BY <1>1 DEF Basic, Typed, Frames_OK
<1>4. c.kids \in Seq(Nodes)
  BY <1>3 DEF Frames
<1>5. /\ f.kids = Append(c.kids, n) /\ f.file = c.file /\ f.at = c.at /\ f.text = c.text
      /\ f.inst = c.inst /\ f.todo = c.todo /\ f.caller = c.caller
  BY <1>3 DEF Frames
<1>6. Len(f.kids) = Len(c.kids) + 1
  BY <1>4, <1>5, AppendProperties
<1> HIDE DEF f
<1>7. \A d \in 1..e : FrameOK(stack', scopes', d)
  <2>1. e < Len(stack') /\ stack'[e + 1].file = stack[e + 1].file
    BY <1>1, <1>2, <1>5
  <2> HIDE DEF e
  <2>2. QED
    BY <1>1, <1>2, <2>1, BelowFrames
<1>8. FrameOK(stack', scopes', e + 1)
  <2>1. /\ c.at = "convert" /\ Pending(stack, Len(stack) - 1) = 1 /\ Pending(stack', e + 1) = 0
        /\ Len(stack) - 1 < Len(stack)
    BY <1>1, <1>2, <1>3 DEF FrameOK, Pending
  <2>2. /\ c.inst \in Insts /\ c.text \in VersionsOf[c.file]
        /\ Len(c.kids) + 1 + Len(c.todo) = Len(Text[c.text].children)
        /\ \A k \in DOMAIN c.todo : c.todo[k] \in StaticChildren(c.file)
    BY <1>3, <2>1 DEF FrameOK
  <2>3. Len(f.kids) + 0 + Len(f.todo) = Len(Text[f.text].children)
    <3>1. Len(c.kids) \in Nat /\ Len(c.todo) \in Nat
      BY <1>3, <1>4, LenProperties DEF Frames
    <3>2. \A a, b \in Nat : a + 1 + b = a + 1 + 0 + b
      OBVIOUS
    <3>3. QED
      BY <1>5, <1>6, <2>2, <3>1, <3>2
  <2>4. ~(e + 1 < Len(stack'))
    BY <1>1, <1>2
  <2>5. QED
    BY <1>2, <1>5, <2>1, <2>2, <2>3, <2>4 DEF FrameOK
<1>9. DOMAIN stack' = 1..(e + 1)
  BY <1>2, LenProperties
<1>10. stack'[e + 1].at = "convert"
  BY <1>1, <1>2, <1>3, <1>5 DEF FrameOK
<1>11. /\ \A d \in 1..(e + 1) : d \in 1..e \/ d = e + 1
       /\ \A d \in 1..e : d # e + 1
  <2> HIDE DEF e
  <2> QED BY <1>1, Depths
<1>12. \A d \in DOMAIN stack' : FrameOK(stack', scopes', d)
  BY <1>7, <1>8, <1>9, <1>11
<1>13. QED
  BY <1>1, <1>2, <1>3, <1>9, <1>10, <1>11, <1>12 DEF f

\* When the innermost frame has changed.
LEMMA ReplacedFrames ==
    ASSUME Basic, ~Idle, NEW f \in Frames, Replaced(f), f.file = Top.file,
           FrameOK(stack', scopes', Len(stack))
    PROVE  \A d \in DOMAIN stack' : FrameOK(stack', scopes', d)
<1>1. /\ Len(stack) \in Nat /\ Len(stack) - 1 \in Nat /\ Len(stack) - 1 < Len(stack)
      /\ Len(stack) - 1 + 1 = Len(stack) /\ Top = stack[Len(stack)]
  BY TopFacts
<1>2. /\ stack' \in Seq(Frames) /\ Len(stack') = Len(stack) /\ stack'[Len(stack)] = f
      /\ \A d \in 1..(Len(stack) - 1) : stack'[d] = stack[d]
  BY DEF Replaced
<1>3. \A d \in 1..(Len(stack) - 1) : FrameOK(stack', scopes', d)
  BY <1>1, <1>2, BelowFrames
<1>4. DOMAIN stack' = 1..Len(stack)
  BY <1>2, LenProperties
<1>5. \A d \in 1..Len(stack) : d \in 1..(Len(stack) - 1) \/ d = Len(stack)
  BY <1>1, Depths
<1>6. QED
  BY <1>3, <1>4, <1>5

\* When the innermost call has made a call.
LEMMA PushedFrames ==
    ASSUME Basic, ~Idle, NEW f \in Frames, NEW g \in Frames, Pushed(f, g), f.file = Top.file,
           FrameOK(stack', scopes', Len(stack)), FrameOK(stack', scopes', Len(stack) + 1)
    PROVE  \A d \in DOMAIN stack' : FrameOK(stack', scopes', d)
<1>1. /\ Len(stack) \in Nat /\ Len(stack) - 1 \in Nat /\ Len(stack) - 1 < Len(stack)
      /\ Len(stack) - 1 + 1 = Len(stack) /\ Top = stack[Len(stack)]
      /\ Len(stack) - 1 < Len(stack) + 1
  BY TopFacts
<1>2. /\ stack' \in Seq(Frames) /\ Len(stack') = Len(stack) + 1 /\ stack'[Len(stack)] = f
      /\ \A d \in 1..(Len(stack) - 1) : stack'[d] = stack[d]
  BY DEF Pushed
<1>3. \A d \in 1..(Len(stack) - 1) : FrameOK(stack', scopes', d)
  BY <1>1, <1>2, BelowFrames
<1>4. DOMAIN stack' = 1..(Len(stack) + 1)
  BY <1>2, LenProperties
<1>5. \A d \in 1..(Len(stack) + 1) : d \in 1..(Len(stack) - 1) \/ d = Len(stack) \/ d = Len(stack) + 1
  BY <1>1, Depths
<1>6. QED
  BY <1>3, <1>4, <1>5

\* Two instances that may differ in what their slot shows.
SameButSlot(a, b) ==
    /\ a.file = b.file /\ a.mounted = b.mounted /\ a.body = b.body /\ a.block = b.block
    /\ a.hooks = b.hooks /\ a.signals = b.signals /\ a.kids = b.kids /\ a.left = b.left
    /\ a.inner = b.inner

\* The end of a call, for every invariant: nobody's state changes, but a slot's
\* content and what is destroyed.
LEMMA DeliverKeeps ==
    ASSUME Basic, ~Idle, NEW is \in [Insts -> Instances], NEW n \in Nodes, Deliver(is, n)
    PROVE  /\ inst' \in [Insts -> Instances] /\ root' \in Nodes /\ call' \in {NoInst} \cup Insts
           /\ stack' \in Seq(Frames) /\ \A d \in DOMAIN stack' : FrameOK(stack', scopes', d)
           /\ \A i \in Insts : inst'[i] = Free \/ SameButSlot(inst'[i], is[i])
           /\ stack' # <<>> => inst' = is
           /\ stack' # <<>> => stack'[Len(stack')].at = "convert"
<1>1. Len(stack) \in Nat /\ (Len(stack) = 1 \/ Len(stack) > 1) /\ call \in {NoInst} \cup Insts
  BY TopFacts, OneOrMore DEF Basic, Typed
<1>2. \A i \in Insts : SameButSlot(is[i], is[i])
  BY DEF SameButSlot
<1>3. CASE Len(stack) > 1
  <2>1. Popped(n) /\ inst' = is /\ root' = root /\ call' = call
    BY <1>3, DeliverInner
  <2>2. /\ stack' \in Seq(Frames) /\ \A d \in DOMAIN stack' : FrameOK(stack', scopes', d)
        /\ stack'[Len(stack')].at = "convert"
    BY <1>3, <2>1, PoppedFrames
  <2>3. root' \in Nodes /\ call' \in {NoInst} \cup Insts
    BY <2>1 DEF Basic, Typed
  <2>4. QED
    BY <1>2, <2>1, <2>2, <2>3
<1>4. CASE Len(stack) = 1
  <2>1. /\ stack' = <<>> /\ call' = NoInst /\ root' \in Nodes
        /\ call = NoInst => inst' = Release(is, root')
        /\ call # NoInst => inst' = Release([is EXCEPT ![call].slot = n], root')
    BY <1>4, DeliverOuter
  <2>2. stack' \in Seq(Frames) /\ DOMAIN stack' = {}
    BY <2>1, EmptySeq, LenProperties, EmptyMap
  <2> DEFINE is2 == IF call = NoInst THEN is ELSE [is EXCEPT ![call].slot = n]
  <2>3. is2 \in [Insts -> Instances] /\ \A i \in Insts : SameButSlot(is2[i], is[i])
    <3>1. CASE call = NoInst
      BY <1>2, <3>1
    <3>2. CASE call # NoInst
      <4> DEFINE m == [is[call] EXCEPT !.slot = n]
      <4>1. call \in Insts /\ is[call] \in Instances
        BY <1>1, <3>2
      <4>2. m \in Instances
        BY <4>1 DEF Instances
      <4>3. SameButSlot(m, is[call])
        BY <4>1 DEF Instances, SameButSlot
      <4>4. is2 = [is EXCEPT ![call] = m]
        BY <3>2
      <4> HIDE DEF m, is2
      <4>5. is2 \in [Insts -> Instances]
        BY <4>1, <4>2, <4>4
      <4>6. \A i \in Insts : is2[i] = IF i = call THEN m ELSE is[i]
        BY <4>1, <4>4
      <4>7. QED
        BY <1>2, <4>3, <4>5, <4>6
    <3>3. QED
      BY <3>1, <3>2
  <2>4. inst' = Release(is2, root')
    BY <2>1
  <2> HIDE DEF is2
  <2>5. Free \in Instances
    BY FreshTyped DEF Free
  <2>6. inst' \in [Insts -> Instances] /\ \A i \in Insts : inst'[i] \in {is2[i], Free}
    <3>1. \A i \in Insts : Release(is2, root')[i] \in {is2[i], Free}
      BY ReleaseKeeps
    <3>2. Release(is2, root') = [i \in Insts |-> Release(is2, root')[i]]
      BY DEF Release
    <3>3. QED
      BY <2>3, <2>4, <2>5, <3>1, <3>2
  <2>7. QED
    BY <2>1, <2>2, <2>3, <2>6
<1>5. QED
  BY <1>1, <1>3, <1>4

\* The host's calls: one frame, which has not been looked at yet.
LEMMA StartShape ==
    ASSUME Basic, MountRoot \/ ReloadRoot \/ \E i \in Insts : RunSlot(i)
    PROVE  /\ Idle /\ disk' = disk /\ documents' = documents /\ scopes' = scopes
           /\ root' = root /\ ambient' = ambient /\ failed' = failed
           /\ call' \in {NoInst} \cup Insts
           /\ \E g \in Frames :
                /\ stack' = <<g>> /\ g.kids = <<>>
                /\ g.at = "load" \/ (g.at = "import" /\ g.caller \in Files)
                /\ g.prev # NoInst => inst[g.prev].mounted
           /\ inst' \in [Insts -> Instances]
           /\ \A j \in Insts : inst'[j] = inst[j] \/ inst'[j] = [inst[j] EXCEPT !.left = Past(@)]
<1>1. /\ Idle /\ disk' = disk /\ documents' = documents /\ scopes' = scopes
      /\ root' = root /\ ambient' = ambient /\ failed' = failed
  BY DEF MountRoot, ReloadRoot, RunSlot
<1>2. /\ inst \in [Insts -> Instances] /\ root \in Nodes /\ call \in {NoInst} \cup Insts
  BY DEF Basic, Typed
<1>3. RootFile \in Files /\ NoFile \notin Files
  BY DriverAssumption
<1>4. <<>> \in Seq(Files) /\ <<>> \in Seq(Nodes)
  BY EmptySeq
<1>5. ASSUME NEW caller \in Files \cup {NoFile}, NEW f \in Files, NEW p \in {NoInst} \cup Insts
      PROVE  /\ Frame(caller, f, p) \in Frames /\ Frame(caller, f, p).kids = <<>>
             /\ Frame(caller, f, p).prev = p /\ Frame(caller, f, p).caller = caller
             /\ Frame(caller, f, p).at = IF caller = NoFile THEN "load" ELSE "import"
  BY <1>4, <1>5 DEF Frame, Frames
<1>6. CASE MountRoot
  <2>1. stack' = <<Frame(NoFile, RootFile, NoInst)>> /\ inst' = inst /\ call' = call
    BY <1>6 DEF MountRoot
  <2>2. QED
    BY <1>1, <1>2, <1>3, <1>5, <2>1
<1>7. CASE ReloadRoot
  <2>1. stack' = <<Frame(NoFile, RootFile, PriorOf(root.inst))>> /\ inst' = inst /\ call' = call
    BY <1>7 DEF ReloadRoot
  <2>2. /\ PriorOf(root.inst) \in {NoInst} \cup Insts
        /\ PriorOf(root.inst) # NoInst => inst[PriorOf(root.inst)].mounted
    BY <1>2 DEF PriorOf, Nodes
  <2>3. QED
    BY <1>1, <1>2, <1>3, <1>5, <2>1, <2>2
<1>8. ASSUME NEW i \in Insts, RunSlot(i)
      PROVE  /\ call' \in {NoInst} \cup Insts
             /\ \E g \in Frames :
                  /\ stack' = <<g>> /\ g.kids = <<>>
                  /\ g.at = "load" \/ (g.at = "import" /\ g.caller \in Files)
                  /\ g.prev # NoInst => inst[g.prev].mounted
             /\ inst' \in [Insts -> Instances]
             /\ \A j \in Insts : inst'[j] = inst[j] \/ inst'[j] = [inst[j] EXCEPT !.left = Past(@)]
  <2>1. /\ \E tag \in Text[inst[i].block].slot :
              stack' = <<Frame(inst[i].file, tag, Matched(inst[i].left, tag))>>
        /\ inst' = [inst EXCEPT ![i].left = Past(@)]
        /\ call' = i /\ inst[i].mounted /\ inst[i] \in Instances
    BY <1>2, <1>8 DEF RunSlot
  <2>2. inst[i].file \in Files /\ inst[i].block \in Versions
    BY <2>1 DEF Basic, Mounted, Instances
  <2>3. PICK tag \in Text[inst[i].block].slot :
              stack' = <<Frame(inst[i].file, tag, Matched(inst[i].left, tag))>>
    BY <2>1
  <2>4. tag \in Files /\ inst[i].file # NoFile
    BY <1>3, <2>2, DriverAssumption
  <2>5. inst[i].left \in Seq(Nodes)
    BY <2>1 DEF Instances
  <2>6. /\ Matched(inst[i].left, tag) \in {NoInst} \cup Insts
        /\ Matched(inst[i].left, tag) # NoInst => inst[Matched(inst[i].left, tag)].mounted
    BY <1>2, <2>5, MatchedFacts
  <2> DEFINE m == [inst[i] EXCEPT !.left = Past(@)]
             g == Frame(inst[i].file, tag, Matched(inst[i].left, tag))
  <2>7. /\ g \in Frames /\ g.kids = <<>> /\ g.at = "import" /\ g.caller \in Files
        /\ g.prev # NoInst => inst[g.prev].mounted
    BY <1>5, <2>2, <2>4, <2>6
  <2>8. Past(inst[i].left) \in Seq(Nodes)
    BY <2>5, HeadTailProperties DEF Past
  <2>9. m \in Instances
    BY <2>1, <2>8 DEF Instances
  <2>10. inst' = [inst EXCEPT ![i] = m]
    BY <2>1
  <2>11. inst' \in [Insts -> Instances] /\ \A j \in Insts : inst'[j] = IF j = i THEN m ELSE inst[j]
    <3> HIDE DEF m
    <3> QED BY <1>2, <2>9, <2>10
  <2>12. \A j \in Insts : inst'[j] = inst[j] \/ inst'[j] = [inst[j] EXCEPT !.left = Past(@)]
    BY <2>11
  <2> HIDE DEF g, m
  <2>13. stack' = <<g>>
    BY <2>3 DEF g
  <2>14. call' \in {NoInst} \cup Insts
    BY <2>1
  <2>15. QED
    BY <2>7, <2>11, <2>12, <2>13, <2>14
<1>9. QED
  BY <1>1, <1>6, <1>7, <1>8

\* No file is on the stack twice: the render of a component that invokes itself
\* would not end.
LEMMA FilesOnce ==
    ASSUME Basic, NEW d \in DOMAIN stack, NEW e \in DOMAIN stack, stack[d].file = stack[e].file
    PROVE  d = e
<1>1. DOMAIN stack = 1..Len(stack) /\ Len(stack) \in Nat /\ \A k \in DOMAIN stack : stack[k] \in Frames
  BY LenProperties DEF Basic, Typed
<1>2. ASSUME NEW a \in DOMAIN stack, NEW b \in DOMAIN stack, a < b, stack[a].file = stack[b].file
      PROVE  FALSE
  <2> DEFINE S == {stack[k].file : k \in a..(b - 1)}
  <2>1. \A k \in a..(b - 1) : /\ k \in DOMAIN stack /\ k < Len(stack) /\ k + 1 \in DOMAIN stack
                              /\ k + 1 \in a..(b - 1) \/ k + 1 = b
    BY <1>1, <1>2
  <2>2. S \in SUBSET Files
    <3>1. \A k \in DOMAIN stack : stack[k].file \in Files
      BY <1>1 DEF Frames
    <3>2. QED
      BY <2>1, <3>1
  <2>3. a \in a..(b - 1)
    BY <1>1, <1>2
  <2>4. ASSUME NEW k \in a..(b - 1) PROVE stack[k + 1].file \in StaticChildren(stack[k].file) \cap S
    <3>1. stack[k + 1].file \in StaticChildren(stack[k].file)
      BY <2>1 DEF Basic, Frames_OK, FrameOK
    <3>2. stack[k + 1].file \in S
      BY <1>2, <2>1, <2>3
    <3>3. QED
      BY <3>1, <3>2
  <2>5. \A f \in S : StaticChildren(f) \cap S # {}
    BY <2>4
  <2>6. S # {}
    BY <2>3
  <2> HIDE DEF S
  <2>7. QED
    BY <2>2, <2>5, <2>6, RendersEnd
<1>3. QED
  BY <1>1, <1>2

LEMMA MountedNotFree ==
    ASSUME Basic, NEW i \in Insts
    PROVE  /\ inst[i].mounted => inst[i] # Free
           /\ inst[i].file \in Files => inst[i] # Free
           /\ Free.mounted = FALSE /\ Free.file = NoFile /\ Free.body = NoText /\ Free.hooks = NoText
           /\ DOMAIN Free.signals = {} /\ Free.kids = <<>> /\ Free.left = <<>> /\ Free.slot = NoNode
           /\ Free.inner = NoInst
BY EmptyMap, DriverAssumption DEF Free, Fresh

-----------------------------------------------------------------------------
(* Every step keeps Sound *)

Sound == Basic /\ OwnSignals

\* A call ends whose instances are is: theirs are as they were, but that the
\* instance of the call itself may be new or done.
LEMMA SoundDeliver ==
    ASSUME Sound, ~Idle, disk' = disk, documents' \in Cache, scopes' \in Cache, ambient' \in Seq(Insts),
           NEW is \in [Insts -> Instances], NEW n \in Nodes, Deliver(is, n),
           \A j \in Insts : \A k \in DOMAIN is[j].signals : is[j].signals[k].at = j,
           \A j \in Insts : is[j].mounted => is[j].file \in Files /\ is[j].block # NoText,
           \A j \in Insts : inst[j].mounted => is[j].mounted,
           \A d \in 1..(Len(stack) - 1) :
              stack[d].prev = NoInst => is[stack[d].inst] = inst[stack[d].inst]
    PROVE  Sound'
<1>1. Basic
  BY DEF Sound
<1>2. /\ inst' \in [Insts -> Instances] /\ root' \in Nodes /\ call' \in {NoInst} \cup Insts
      /\ stack' \in Seq(Frames) /\ \A d \in DOMAIN stack' : FrameOK(stack', scopes', d)
      /\ \A i \in Insts : inst'[i] = Free \/ SameButSlot(inst'[i], is[i])
      /\ stack' # <<>> => inst' = is
  BY <1>1, DeliverKeeps
<1>3. Typed'
  BY <1>1, <1>2 DEF Basic, Typed
<1>4. Frames_OK'
  BY <1>2 DEF Frames_OK
<1>5. OwnSignals'
  <2>1. ASSUME NEW i \in Insts PROVE \A k \in DOMAIN inst'[i].signals : inst'[i].signals[k].at = i
    <3>1. CASE inst'[i] = Free
      BY <1>1, <3>1, MountedNotFree
    <3>2. CASE SameButSlot(inst'[i], is[i])
      <4>1. inst'[i].signals = is[i].signals
        BY <3>2 DEF SameButSlot
      <4>2. QED
        BY <4>1
    <3>3. QED
      BY <1>2, <3>1, <3>2
  <2>2. QED
    BY <2>1 DEF OwnSignals
<1>6. \A i \in Insts : inst'[i].mounted => inst'[i].file \in Files /\ inst'[i].block # NoText
  BY <1>1, <1>2, MountedNotFree DEF SameButSlot
<1>7. \A d \in DOMAIN stack' : FrameInst(stack'[d], inst')
  <2>1. CASE stack' = <<>>
    BY <2>1, EmptyMap
  <2>2. CASE stack' # <<>>
    <3>1. Len(stack) \in Nat /\ (Len(stack) = 1 \/ Len(stack) > 1)
      BY <1>1, TopFacts, OneOrMore
    <3>2. Len(stack) # 1
      BY <1>1, <2>2, DeliverOuter
    <3>3. Len(stack) > 1
      BY <3>1, <3>2
    <3>4. Popped(n)
      BY <1>1, <3>3, DeliverInner
    <3>5. /\ DOMAIN stack' = 1..(Len(stack) - 1) /\ stack[Len(stack) - 1] \in Frames
          /\ \A d \in DOMAIN stack' : stack'[d] = IF d = Len(stack) - 1
                THEN [stack[d] EXCEPT !.kids = Append(@, n)] ELSE stack[d]
      BY <1>1, <3>3, <3>4, PoppedFrames
    <3> TAKE d \in DOMAIN stack'
    <3>6. d \in DOMAIN stack /\ d < Len(stack)
      BY <1>1, <3>1, <3>5, TopFacts, Depths
    <3>7. /\ FrameInst(stack[d], inst) /\ stack[d] \in Frames /\ stack[d].at = "convert"
          /\ stack[d].inst \in Insts
      BY <1>1, <3>6, TopFacts DEF Basic, Mounted, FrameOK, Frames_OK
    <3>8. /\ stack'[d].prev = stack[d].prev /\ stack'[d].at = stack[d].at
          /\ stack'[d].inst = stack[d].inst /\ stack'[d].file = stack[d].file
      BY <3>5, <3>7 DEF Frames
    <3>9. inst' = is /\ stack[d].prev \in {NoInst} \cup Insts
      BY <1>2, <2>2, <3>7 DEF Frames
    <3>10. CASE stack[d].prev = NoInst
      <4>1. is[stack[d].inst] = inst[stack[d].inst]
        BY <3>5, <3>10
      <4>2. QED
        BY <3>7, <3>8, <3>9, <3>10, <4>1 DEF FrameInst
    <3>11. CASE stack[d].prev # NoInst
      BY <3>7, <3>8, <3>9, <3>11 DEF FrameInst
    <3>12. QED
      BY <3>10, <3>11
  <2>3. QED
    BY <2>1, <2>2
<1>8. QED
  BY <1>3, <1>4, <1>5, <1>6, <1>7 DEF Sound, Basic, Mounted

\* A call ends early.
LEMMA SoundFail ==
    ASSUME Sound, ~Idle, disk' = disk, documents' \in Cache, scopes' \in Cache, ambient' = ambient,
           Deliver(inst, Node(Top.file, NoInst))
    PROVE  Sound'
<1>1. inst \in [Insts -> Instances] /\ Top.file \in Files /\ ambient' \in Seq(Insts)
  BY TopFacts DEF Sound, Basic, Typed, Frames
<1>2. Node(Top.file, NoInst) \in Nodes
  BY <1>1, NodeTyped
<1>3. /\ \A j \in Insts : \A k \in DOMAIN inst[j].signals : inst[j].signals[k].at = j
      /\ \A j \in Insts : inst[j].mounted => inst[j].file \in Files /\ inst[j].block # NoText
  BY DEF Sound, OwnSignals, Basic, Mounted
<1>4. QED
  BY <1>1, <1>2, <1>3, SoundDeliver

\* The innermost frame moves on.
LEMMA SoundReplace ==
    ASSUME Sound, ~Idle, disk' = disk, documents' \in Cache, scopes' \in Cache, ambient' \in Seq(Insts),
           inst' \in [Insts -> Instances], root' = root, call' = call, OwnSignals',
           NEW f \in Frames, Replaced(f), f.file = Top.file, FrameOK(stack', scopes', Len(stack)),
           FrameInst(f, inst'),
           \A j \in Insts : inst'[j].mounted => inst'[j].file \in Files /\ inst'[j].block # NoText,
           \A j \in Insts : inst[j].mounted => inst'[j].mounted,
           \A d \in 1..(Len(stack) - 1) :
              stack[d].prev = NoInst => inst'[stack[d].inst] = inst[stack[d].inst]
    PROVE  Sound'
<1>1. Basic
  BY DEF Sound
<1>2. \A d \in DOMAIN stack' : FrameOK(stack', scopes', d)
  BY <1>1, ReplacedFrames
<1>3. /\ stack' \in Seq(Frames) /\ Len(stack') = Len(stack) /\ stack'[Len(stack)] = f
      /\ \A d \in 1..(Len(stack) - 1) : stack'[d] = stack[d]
  BY DEF Replaced
<1>4. Typed'
  BY <1>1, <1>3 DEF Basic, Typed
<1>5. \A d \in DOMAIN stack' : FrameInst(stack'[d], inst')
  <2>1. DOMAIN stack' = 1..Len(stack) /\ Len(stack) \in Nat /\ DOMAIN stack = 1..Len(stack)
    BY <1>1, <1>3, LenProperties, TopFacts
  <2>2. ASSUME NEW d \in 1..(Len(stack) - 1) PROVE FrameInst(stack'[d], inst')
    <3>1. d \in DOMAIN stack /\ d < Len(stack)
      BY <2>1, Depths
    <3>2. /\ FrameInst(stack[d], inst) /\ stack[d] \in Frames /\ stack[d].at = "convert"
          /\ stack[d].inst \in Insts /\ stack[d].prev \in {NoInst} \cup Insts
      BY <1>1, <3>1, TopFacts DEF Basic, Mounted, FrameOK, Frames_OK, Frames
    <3>3. CASE stack[d].prev = NoInst
      BY <1>3, <3>2, <3>3 DEF FrameInst
    <3>4. CASE stack[d].prev # NoInst
      BY <1>3, <3>2, <3>4 DEF FrameInst
    <3>5. QED
      BY <3>3, <3>4
  <2>3. QED
    BY <1>3, <2>1, <2>2, Depths
<1>6. QED
  BY <1>2, <1>4, <1>5 DEF Sound, Basic, Frames_OK, Mounted

LEMMA SoundImport ==
    ASSUME Sound, ImportChild
    PROVE  Sound'
<1>1. Basic /\ OwnSignals
  BY DEF Sound
<1>2. /\ ~Idle /\ Top.at = "import" /\ disk' = disk /\ ambient' = ambient
      /\ documents' \in Cache /\ scopes' \in Cache
      /\ \/ /\ Replaced([Top EXCEPT !.at = "load"])
            /\ inst' = inst /\ root' = root /\ call' = call
         \/ Deliver(inst, Node(Top.file, NoInst))
  BY <1>1, ImportShape
<1>3. CASE Deliver(inst, Node(Top.file, NoInst))
  BY <1>2, <1>3, SoundFail
<1>4. CASE Replaced([Top EXCEPT !.at = "load"]) /\ inst' = inst /\ root' = root /\ call' = call
  <2> DEFINE f == [Top EXCEPT !.at = "load"]
  <2>1. /\ Top \in Frames /\ FrameOK(stack, scopes, Len(stack)) /\ Top = stack[Len(stack)]
        /\ Len(stack) \in DOMAIN stack /\ FrameInst(Top, inst) /\ Len(stack) \in Nat
    BY <1>1, <1>2, TopFacts DEF Basic, Mounted
  <2>2. /\ f \in Frames /\ f.file = Top.file /\ f.at = "load" /\ f.kids = Top.kids
        /\ f.prev = Top.prev
    BY <2>1 DEF Frames
  <2> HIDE DEF f
  <2>3. stack'[Len(stack)] = f /\ Len(stack') = Len(stack)
    BY <1>4 DEF Replaced, f
  <2>4. FrameOK(stack', scopes', Len(stack))
    <3>1. Top.kids = <<>> /\ ~(Len(stack) < Len(stack))
      BY <1>2, <2>1 DEF FrameOK
    <3>2. QED
      BY <2>2, <2>3, <3>1 DEF FrameOK
  <2>5. FrameInst(f, inst')
    BY <1>4, <2>1, <2>2 DEF FrameInst
  <2>6. OwnSignals' /\ inst' \in [Insts -> Instances] /\ ambient' \in Seq(Insts)
    BY <1>1, <1>2, <1>4 DEF OwnSignals, Basic, Typed
  <2>7. \A j \in Insts : inst[j].mounted => inst[j].file \in Files /\ inst[j].block # NoText
    BY <1>1 DEF Basic, Mounted
  <2>8. Replaced(f)
    BY <1>4 DEF f
  <2>9. QED
    BY <1>2, <1>4, <2>2, <2>4, <2>5, <2>6, <2>7, <2>8, SoundReplace
<1>5. QED
  BY <1>2, <1>3, <1>4

LEMMA SoundLoad ==
    ASSUME Sound, Load
    PROVE  Sound'
<1>1. Basic /\ OwnSignals
  BY DEF Sound
<1> DEFINE v == documents'[Top.file]
           f == [Top EXCEPT !.at = "body", !.text = v, !.todo = Text[v].children,
                            !.left = CollectNestedInvocations(Top.prev)]
<1>2. /\ ~Idle /\ Top.at = "load" /\ disk' = disk /\ ambient' = ambient
      /\ documents' \in Cache /\ scopes' \in Cache
      /\ \/ /\ v # NoText /\ Replaced(f)
            /\ inst' = inst /\ root' = root /\ call' = call
            /\ scopes' = GetFileScope(scopes, Top.file, v)
         \/ Deliver(inst, Node(Top.file, NoInst))
  BY <1>1, LoadShape
<1>3. CASE Deliver(inst, Node(Top.file, NoInst))
  BY <1>2, <1>3, SoundFail
<1>4. CASE /\ v # NoText /\ Replaced(f)
           /\ inst' = inst /\ root' = root /\ call' = call
           /\ scopes' = GetFileScope(scopes, Top.file, v)
  <2>1. /\ Top \in Frames /\ FrameOK(stack, scopes, Len(stack)) /\ Top = stack[Len(stack)]
        /\ Len(stack) \in DOMAIN stack /\ FrameInst(Top, inst) /\ Len(stack) \in Nat
    BY <1>1, <1>2, TopFacts DEF Basic, Mounted
  <2>2. Top.file \in Files /\ v \in VersionsOf[Top.file] /\ scopes \in Cache
    BY <1>1, <1>2, <1>4, <2>1 DEF Cache, Frames, Basic, Typed
  <2>3. stack'[Len(stack)] = f /\ Len(stack') = Len(stack) /\ stack' \in Seq(Frames)
    BY <1>4 DEF Replaced
  <2>4. f \in Frames
    BY <1>1, <1>2, <2>1, <2>3, LenProperties
  <2>5. /\ f.file = Top.file /\ f.at = "body" /\ f.kids = Top.kids /\ f.text = v
        /\ f.prev = Top.prev /\ f.todo = Text[v].children
    BY <2>1 DEF Frames
  <2>6. scopes'[Top.file] # NoText
    BY <1>4, <2>2, ScopeFacts
  <2> HIDE DEF f, v
  <2>7. FrameOK(stack', scopes', Len(stack))
    <3>1. Top.kids = <<>> /\ ~(Len(stack) < Len(stack))
      BY <1>2, <2>1 DEF FrameOK
    <3>2. QED
      BY <2>2, <2>3, <2>5, <2>6, <3>1 DEF FrameOK
  <2>8. FrameInst(f, inst')
    BY <1>4, <2>1, <2>5 DEF FrameInst
  <2>9. OwnSignals' /\ inst' \in [Insts -> Instances] /\ ambient' \in Seq(Insts)
    BY <1>1, <1>2, <1>4 DEF OwnSignals, Basic, Typed
  <2>10. \A j \in Insts : inst[j].mounted => inst[j].file \in Files /\ inst[j].block # NoText
    BY <1>1 DEF Basic, Mounted
  <2>11. QED
    BY <1>2, <1>4, <2>4, <2>5, <2>7, <2>8, <2>9, <2>10, SoundReplace
<1>5. QED
  BY <1>2, <1>3, <1>4

\* The body has run: the frame goes on with the invocations of its render block.
LEMMA ToConvert ==
    ASSUME Basic, ~Idle, Top.at = "body", NEW f \in Frames, Replaced(f), f.at = "convert",
           f.file = Top.file, f.text = Top.text, f.todo = Top.todo, f.kids = Top.kids, f.inst \in Insts
    PROVE  FrameOK(stack', scopes', Len(stack))
<1>1. /\ Top \in Frames /\ FrameOK(stack, scopes, Len(stack)) /\ Top = stack[Len(stack)]
      /\ Len(stack) \in Nat
  BY TopFacts
<1>2. stack'[Len(stack)] = f /\ Len(stack') = Len(stack) /\ ~(Len(stack) < Len(stack))
  BY <1>1 DEF Replaced
<1>3. /\ Top.kids = <<>> /\ Top.text \in VersionsOf[Top.file] /\ Top.todo = Text[Top.text].children
      /\ Top.file \in Files
  BY <1>1 DEF FrameOK, Frames
<1>4. Top.text \in Versions
  BY <1>3 DEF Versions
<1>5. Text[Top.text].children \in Seq(Files)
  BY <1>4, DriverAssumption
<1>6. Len(<<>>) = 0 /\ Pending(stack', Len(stack)) = 0 /\ Len(f.todo) \in Nat
  BY <1>2, <1>3, <1>5, EmptySeq, LenProperties DEF Pending
<1>7. Len(f.kids) + Pending(stack', Len(stack)) + Len(f.todo) = Len(Text[f.text].children)
  <2>1. \A a \in Nat : 0 + 0 + a = a
    OBVIOUS
  <2>2. QED
    BY <1>3, <1>6, <2>1
<1>8. \A k \in DOMAIN f.todo : f.todo[k] \in StaticChildren(f.file)
  BY <1>3 DEF StaticChildren, Range
<1>9. QED
  BY <1>2, <1>3, <1>7, <1>8 DEF FrameOK

LEMMA SoundMount ==
    ASSUME Sound, MountBody
    PROVE  Sound'
<1>1. Basic /\ OwnSignals /\ inst \in [Insts -> Instances]
  BY DEF Sound, Basic, Typed
<1>2. /\ ~Idle /\ Top.at = "body" /\ Top.prev = NoInst /\ disk' = disk
      /\ documents' = documents /\ scopes' = scopes /\ ambient' \in Seq(Insts)
  BY <1>1, MountShape
<1>3. PICK i \in Insts, m \in Instances :
        /\ inst[i] = Free /\ Mounting(m, Top.file, i)
        /\ \/ /\ m.body = scopes[Top.file] /\ inst' = [inst EXCEPT ![i] = m]
              /\ Replaced([Top EXCEPT !.at = "convert", !.inst = i])
              /\ root' = root /\ call' = call /\ failed' = failed
           \/ Deliver([inst EXCEPT ![i] = m], Node(Top.file, i))
  BY <1>1, MountShape
<1>4. /\ Top \in Frames /\ FrameOK(stack, scopes, Len(stack)) /\ Top = stack[Len(stack)]
      /\ Len(stack) \in Nat /\ Top.file \in Files
  BY <1>1, <1>2, TopFacts DEF Frames
<1>5. documents \in Cache /\ scopes \in Cache /\ scopes[Top.file] # NoText
  BY <1>1, <1>2, <1>4 DEF Basic, Typed, FrameOK
<1> DEFINE is == [inst EXCEPT ![i] = m]
<1>6. is \in [Insts -> Instances] /\ is[i] = m /\ \A j \in Insts : j # i => is[j] = inst[j]
  BY <1>1, InstanceTyped
<1> HIDE DEF is
<1>7. \A j \in Insts : \A k \in DOMAIN is[j].signals : is[j].signals[k].at = j
  BY <1>1, <1>3, <1>6 DEF OwnSignals, Mounting
<1>8. \A j \in Insts : is[j].mounted => is[j].file \in Files /\ is[j].block # NoText
  BY <1>1, <1>3, <1>6 DEF Mounting, Basic, Mounted
<1>9. inst[i].mounted = FALSE /\ inst[i].file \notin Files
  BY <1>1, <1>3, MountedNotFree, DriverAssumption
<1>10. \A j \in Insts : inst[j].mounted => is[j].mounted
  BY <1>6, <1>9
<1>11. \A d \in 1..(Len(stack) - 1) : stack[d].prev = NoInst => is[stack[d].inst] = inst[stack[d].inst]
  <2> TAKE d \in 1..(Len(stack) - 1)
  <2> HAVE stack[d].prev = NoInst
  <2>1. d \in DOMAIN stack /\ d < Len(stack)
    BY <1>1, <1>2, <1>4, Depths, TopFacts
  <2>2. /\ FrameInst(stack[d], inst) /\ stack[d] \in Frames /\ stack[d].at = "convert"
        /\ stack[d].inst \in Insts /\ stack[d].file \in Files
    BY <1>1, <1>2, <2>1, TopFacts DEF Basic, Mounted, FrameOK, Frames_OK, Frames
  <2>3. inst[stack[d].inst].file \in Files
    BY <2>2 DEF FrameInst
  <2>4. QED
    BY <1>6, <1>9, <2>2, <2>3
<1>12. CASE Deliver([inst EXCEPT ![i] = m], Node(Top.file, i))
  <2>1. Node(Top.file, i) \in Nodes
    BY <1>4, NodeTyped
  <2>2. Deliver(is, Node(Top.file, i))
    BY <1>12 DEF is
  <2>3. documents' \in Cache /\ scopes' \in Cache
    BY <1>2, <1>5
  <2>4. QED
    BY <1>2, <1>6, <1>7, <1>8, <1>10, <1>11, <2>1, <2>2, <2>3, SoundDeliver
<1>13. CASE /\ m.body = scopes[Top.file] /\ inst' = [inst EXCEPT ![i] = m]
            /\ Replaced([Top EXCEPT !.at = "convert", !.inst = i])
            /\ root' = root /\ call' = call /\ failed' = failed
  <2> DEFINE f == [Top EXCEPT !.at = "convert", !.inst = i]
  <2>1. inst' = is
    BY <1>13 DEF is
  <2>2. /\ f \in Frames /\ f.file = Top.file /\ f.at = "convert" /\ f.kids = Top.kids
        /\ f.prev = Top.prev /\ f.todo = Top.todo /\ f.text = Top.text /\ f.inst = i
    BY <1>4 DEF Frames
  <2> HIDE DEF f
  <2>3. Replaced(f)
    BY <1>13 DEF f
  <2>4. FrameOK(stack', scopes', Len(stack))
    BY <1>1, <1>2, <2>2, <2>3, ToConvert
  <2>5. FrameInst(f, inst')
    BY <1>2, <1>3, <1>5, <1>6, <1>13, <2>1, <2>2 DEF FrameInst, Mounting
  <2>6. OwnSignals'
    BY <1>7, <2>1 DEF OwnSignals
  <2>7. documents' \in Cache /\ scopes' \in Cache
    BY <1>2, <1>5
  <2>8. /\ inst' \in [Insts -> Instances]
        /\ \A j \in Insts : inst'[j].mounted => inst'[j].file \in Files /\ inst'[j].block # NoText
        /\ \A j \in Insts : inst[j].mounted => inst'[j].mounted
        /\ \A d \in 1..(Len(stack) - 1) :
              stack[d].prev = NoInst => inst'[stack[d].inst] = inst[stack[d].inst]
    BY <1>6, <1>8, <1>10, <1>11, <2>1
  <2>9. QED
    BY <1>2, <1>13, <2>2, <2>3, <2>4, <2>5, <2>6, <2>7, <2>8, SoundReplace
<1>14. QED
  BY <1>3, <1>12, <1>13

LEMMA SoundReload ==
    ASSUME Sound, ReloadFunction \/ ReloadClass
    PROVE  Sound'
<1>1. Basic /\ OwnSignals /\ inst \in [Insts -> Instances] /\ documents \in Cache /\ ambient \in Seq(Insts)
  BY DEF Sound, Basic, Typed
<1>2. PICK i : i = Top.prev
  OBVIOUS
<1>3. /\ ~Idle /\ Top.at = "body" /\ i \in Insts /\ disk' = disk
      /\ documents' = documents /\ ambient' = ambient /\ scopes' \in Cache
      /\ \/ /\ root' = root /\ call' = call
            /\ \E m \in SignalMaps, tier \in {"Unchanged", "SignalLayoutChanged"} :
                  /\ inst' = Rerun(i, Top.text, m) /\ Reloaded(i, inst[i].signals, m, tier)
                  /\ Replaced([Top EXCEPT !.at = "convert", !.inst = i, !.tier = tier])
         \/ Deliver(inst, Node(Top.file, NoInst))
  BY <1>1, <1>2, ReloadShape
<1>4. CASE Deliver(inst, Node(Top.file, NoInst))
  BY <1>1, <1>3, <1>4, SoundFail
<1>5. ASSUME NEW m \in SignalMaps, NEW tier \in {"Unchanged", "SignalLayoutChanged"},
             root' = root, call' = call,
             inst' = Rerun(i, Top.text, m), Reloaded(i, inst[i].signals, m, tier),
             Replaced([Top EXCEPT !.at = "convert", !.inst = i, !.tier = tier])
      PROVE  Sound'
  <2>1. /\ Top \in Frames /\ FrameOK(stack, scopes, Len(stack)) /\ Top = stack[Len(stack)]
        /\ Len(stack) \in Nat /\ Len(stack) \in DOMAIN stack /\ FrameInst(Top, inst)
    BY <1>1, <1>3, TopFacts DEF Basic, Mounted
  <2>2. Top.text \in Versions /\ Top.text # NoText /\ i # NoInst /\ inst[i].mounted
    BY <1>2, <1>3, <2>1, DriverAssumption, InstNumbers DEF FrameOK, Versions, Frames, FrameInst
  <2>3. /\ inst' \in [Insts -> Instances] /\ \A j \in Insts : j # i => inst'[j] = inst[j]
        /\ inst'[i].block = Top.text /\ inst'[i].file = inst[i].file /\ inst'[i].signals = m
        /\ inst'[i].mounted = inst[i].mounted
    <3>1. inst \in [Insts -> Instances] /\ i \in Insts /\ Top.text \in Versions /\ m \in SignalMaps
      BY <1>1, <1>3, <2>2
    <3>2. /\ Rerun(i, Top.text, m) \in [Insts -> Instances]
          /\ \A j \in Insts : j # i => Rerun(i, Top.text, m)[j] = inst[j]
          /\ Rerun(i, Top.text, m)[i].block = Top.text /\ Rerun(i, Top.text, m)[i].file = inst[i].file
          /\ Rerun(i, Top.text, m)[i].signals = m
          /\ Rerun(i, Top.text, m)[i].mounted = inst[i].mounted
      BY ONLY <3>1, RerunFacts
    <3>3. QED
      BY ONLY <1>5, <3>2
  <2> DEFINE f == [Top EXCEPT !.at = "convert", !.inst = i, !.tier = tier]
  <2>4. /\ f \in Frames /\ f.file = Top.file /\ f.at = "convert" /\ f.kids = Top.kids
        /\ f.prev = Top.prev /\ f.todo = Top.todo /\ f.text = Top.text /\ f.inst = i
    BY <1>3, <2>1 DEF Frames
  <2> HIDE DEF f
  <2>5. Replaced(f)
    BY <1>5 DEF f
  <2>6. FrameOK(stack', scopes', Len(stack))
    BY <1>1, <1>3, <2>4, <2>5, ToConvert
  <2>7. FrameInst(f, inst')
    BY <1>2, <2>2, <2>3, <2>4 DEF FrameInst
  <2>8. OwnSignals'
    BY <1>1, <1>5, <2>3 DEF OwnSignals, Reloaded
  <2>9. \A j \in Insts : inst'[j].mounted => inst'[j].file \in Files /\ inst'[j].block # NoText
    BY <1>1, <2>2, <2>3 DEF Basic, Mounted
  <2>10. \A d \in 1..(Len(stack) - 1) : stack[d].prev = NoInst => inst'[stack[d].inst] = inst[stack[d].inst]
    <3> TAKE d \in 1..(Len(stack) - 1)
    <3> HAVE stack[d].prev = NoInst
    <3>1. d \in DOMAIN stack /\ d < Len(stack)
      BY <1>1, <1>3, <2>1, Depths, TopFacts
    <3>2. FrameInst(stack[d], inst) /\ stack[d].at = "convert" /\ stack[d].inst \in Insts
      BY <1>1, <3>1 DEF Basic, Mounted, FrameOK, Frames_OK
    <3>3. stack[d].inst # i
      BY <2>2, <3>2 DEF FrameInst
    <3>4. QED
      BY <2>3, <3>2, <3>3
  <2>11. documents' \in Cache /\ ambient' \in Seq(Insts) /\ \A j \in Insts : inst[j].mounted => inst'[j].mounted
    BY <1>1, <1>3, <2>3
  <2>12. QED
    BY <1>3, <1>5, <2>3, <2>4, <2>5, <2>6, <2>7, <2>8, <2>9, <2>10, <2>11, SoundReplace
<1>6. QED
  BY <1>3, <1>4, <1>5

LEMMA SoundConvert ==
    ASSUME Sound, ConvertChild
    PROVE  Sound'
<1>1. Basic /\ OwnSignals /\ inst \in [Insts -> Instances]
  BY DEF Sound, Basic, Typed
<1> DEFINE f == [Top EXCEPT !.todo = Tail(@), !.left = Past(@)]
<1>2. PICK g : g = Frame(Top.file, Head(Top.todo), Matched(Top.left, Head(Top.todo)))
  OBVIOUS
<1>3. /\ ~Idle /\ Top.at = "convert" /\ Top.todo # <<>>
      /\ disk' = disk /\ documents' = documents /\ scopes' = scopes /\ inst' = inst
      /\ root' = root /\ ambient' = ambient /\ call' = call
      /\ g \in Frames /\ g.file = Top.todo[1] /\ g.file \in StaticChildren(Top.file)
      /\ g.at = "import" /\ g.caller \in Files /\ g.kids = <<>>
      /\ g.prev = Matched(Top.left, Top.todo[1]) /\ Pushed(f, g)
  BY <1>1, <1>2, ConvertShape
<1>4. /\ Top \in Frames /\ FrameOK(stack, scopes, Len(stack)) /\ Top = stack[Len(stack)]
      /\ Len(stack) \in Nat /\ Len(stack) \in DOMAIN stack /\ FrameInst(Top, inst)
      /\ DOMAIN stack = 1..Len(stack)
  BY <1>1, <1>3, TopFacts DEF Basic, Mounted
<1>5. /\ stack' \in Seq(Frames) /\ Len(stack') = Len(stack) + 1
      /\ stack'[Len(stack)] = f /\ stack'[Len(stack) + 1] = g
      /\ \A d \in 1..(Len(stack) - 1) : stack'[d] = stack[d]
  BY <1>3 DEF Pushed
<1>6. f \in Frames
  <2>1. Len(stack) \in DOMAIN stack'
    <3>1. Len(stack) \in 1..(Len(stack) + 1)
      BY <1>4
    <3>2. QED
      BY <1>5, <3>1, LenProperties
  <2> HIDE DEF f
  <2>2. QED
    BY <1>5, <2>1, LenProperties
<1>7. /\ f.file = Top.file /\ f.at = Top.at /\ f.kids = Top.kids /\ f.text = Top.text
      /\ f.inst = Top.inst /\ f.prev = Top.prev /\ f.todo = Tail(Top.todo) /\ f.left = Past(Top.left)
  BY <1>4 DEF Frames
<1> HIDE DEF f
<1>8. /\ Top.todo \in Seq(Files) /\ Len(Top.todo) \in Nat /\ Len(Top.kids) \in Nat
      /\ Len(Top.todo) = Len(Tail(Top.todo)) + 1 /\ Len(Tail(Top.todo)) \in Nat
      /\ \A k \in DOMAIN Tail(Top.todo) : k + 1 \in DOMAIN Top.todo /\ Tail(Top.todo)[k] = Top.todo[k + 1]
  <2>1. Top.todo \in Seq(Files) /\ Top.kids \in Seq(Nodes)
    BY <1>4 DEF Frames
  <2>2. /\ Tail(Top.todo) \in Seq(Files) /\ Len(Tail(Top.todo)) = Len(Top.todo) - 1
        /\ \A k \in 1..Len(Tail(Top.todo)) : Tail(Top.todo)[k] = Top.todo[k + 1]
    BY <1>3, <2>1, HeadTailProperties
  <2>3. /\ Len(Top.todo) \in Nat /\ Len(Top.kids) \in Nat /\ Len(Tail(Top.todo)) \in Nat
        /\ DOMAIN Top.todo = 1..Len(Top.todo) /\ DOMAIN Tail(Top.todo) = 1..Len(Tail(Top.todo))
    BY <2>1, <2>2, LenProperties
  <2>4. \A a, b \in Nat : b = a - 1 => a = b + 1 /\ \A k \in 1..b : k + 1 \in 1..a
    OBVIOUS
  <2>5. QED
    BY <2>1, <2>2, <2>3, <2>4
<1>9. FrameOK(stack', scopes', Len(stack))
  <2>1. /\ Len(stack) < Len(stack') /\ Len(stack) + 1 = Len(stack') /\ ~(Len(stack) < Len(stack))
    BY <1>4, <1>5
  <2>2. Pending(stack, Len(stack)) = 0 /\ Pending(stack', Len(stack)) = 1
    BY <2>1 DEF Pending
  <2>3. /\ Top.text \in VersionsOf[Top.file] /\ Top.inst \in Insts
        /\ Len(Top.kids) + 0 + Len(Top.todo) = Len(Text[Top.text].children)
        /\ \A k \in DOMAIN Top.todo : Top.todo[k] \in StaticChildren(Top.file)
    BY <1>3, <1>4, <2>2 DEF FrameOK
  <2>4. Len(f.kids) + Pending(stack', Len(stack)) + Len(f.todo) = Len(Text[f.text].children)
    <3>1. \A a, b, c \in Nat : b = c + 1 => a + 1 + c = a + 0 + b
      OBVIOUS
    <3>2. Len(Top.kids) + 1 + Len(Tail(Top.todo)) = Len(Top.kids) + 0 + Len(Top.todo)
      BY <1>8, <3>1
    <3>3. QED
      BY <1>7, <2>2, <2>3, <3>2
  <2>5. \A k \in DOMAIN f.todo : f.todo[k] \in StaticChildren(f.file)
    BY <1>7, <1>8, <2>3
  <2>6. QED
    BY <1>3, <1>5, <1>7, <2>1, <2>3, <2>4, <2>5 DEF FrameOK
<1>10. FrameOK(stack', scopes', Len(stack) + 1)
  <2>1. ~(Len(stack) + 1 < Len(stack'))
    BY <1>4, <1>5
  <2>2. QED
    BY <1>3, <1>5, <2>1 DEF FrameOK
<1>11. \A d \in DOMAIN stack' : FrameOK(stack', scopes', d)
  BY <1>1, <1>3, <1>6, <1>7, <1>9, <1>10, PushedFrames
<1>12. FrameInst(f, inst') /\ FrameInst(g, inst')
  <2>1. FrameInst(f, inst')
    BY <1>3, <1>4, <1>7 DEF FrameInst
  <2>2. g.prev # NoInst => inst[g.prev].mounted
    <3>1. Top.left \in Seq(Nodes)
      BY <1>4 DEF Frames
    <3>2. QED
      BY <1>1, <1>3, <3>1, MatchedFacts
  <2>3. QED
    BY <1>3, <2>1, <2>2 DEF FrameInst
<1>13. \A d \in DOMAIN stack' : FrameInst(stack'[d], inst')
  <2>1. DOMAIN stack' = 1..(Len(stack) + 1)
    BY <1>5, LenProperties
  <2>2. \A d \in 1..(Len(stack) - 1) : FrameInst(stack'[d], inst')
    <3>1. \A d \in 1..(Len(stack) - 1) : d \in DOMAIN stack
      BY <1>4, Depths
    <3>2. QED
      BY <1>1, <1>3, <1>5, <3>1 DEF Basic, Mounted
  <2>3. QED
    BY <1>4, <1>5, <1>12, <2>1, <2>2, Depths
<1>14. Typed'
  BY <1>1, <1>3, <1>5 DEF Basic, Typed
<1>15. OwnSignals'
  BY <1>1, <1>3 DEF OwnSignals
<1>16. QED
  BY <1>1, <1>3, <1>11, <1>13, <1>14, <1>15 DEF Sound, Basic, Frames_OK, Mounted

LEMMA SoundReturn ==
    ASSUME Sound, Return
    PROVE  Sound'
<1>1. Basic /\ OwnSignals /\ inst \in [Insts -> Instances] /\ documents \in Cache /\ scopes \in Cache
  BY DEF Sound, Basic, Typed
<1>2. PICK i : i = Top.inst
  OBVIOUS
<1>3. /\ ~Idle /\ Top.at = "convert" /\ Top.todo = <<>> /\ disk' = disk
      /\ documents' = documents /\ scopes' = scopes /\ failed' = failed
      /\ ambient' \in Seq(Insts) /\ i \in Insts
  BY <1>1, <1>2, ReturnShape
<1>4. PICK m \in Instances : /\ Done(Len(stack), m)
                             /\ Deliver([inst EXCEPT ![i] = m], Node(Top.file, i))
  BY <1>1, <1>2, ReturnShape
<1>5. /\ Top \in Frames /\ FrameOK(stack, scopes, Len(stack)) /\ Top = stack[Len(stack)]
      /\ Len(stack) \in Nat /\ Len(stack) \in DOMAIN stack /\ FrameInst(Top, inst)
      /\ Top.file \in Files /\ Top.text \in VersionsOf[Top.file] /\ DOMAIN stack = 1..Len(stack)
  BY <1>1, <1>3, TopFacts DEF Basic, Mounted, FrameOK, Frames
<1> DEFINE is == [inst EXCEPT ![i] = m]
<1>6. is \in [Insts -> Instances] /\ is[i] = m /\ \A j \in Insts : j # i => is[j] = inst[j]
  BY <1>1, <1>3, InstanceTyped
<1>7. Deliver(is, Node(Top.file, i))
  BY <1>4
<1> HIDE DEF is
<1>8. m.signals = inst[i].signals /\ m.mounted /\ m.file = inst[i].file /\ m.body = inst[i].body
  BY <1>2, <1>4, <1>5 DEF Done
<1>9. \A j \in Insts : \A k \in DOMAIN is[j].signals : is[j].signals[k].at = j
  BY <1>1, <1>6, <1>8 DEF OwnSignals
<1>10. m.file \in Files /\ m.block # NoText
  <2>1. CASE Top.prev = NoInst
    <3>1. m.block = Top.text /\ inst[i].file = Top.file
      BY <1>2, <1>3, <1>4, <1>5, <2>1 DEF Done, FrameInst
    <3>2. Top.text # NoText
      BY <1>5, DriverAssumption DEF Versions
    <3>3. QED
      BY <1>5, <1>8, <3>1, <3>2
  <2>2. CASE Top.prev # NoInst
    <3>1. m.block = inst[i].block /\ inst[i].mounted
      BY <1>2, <1>3, <1>4, <1>5, <2>2 DEF Done, FrameInst
    <3>2. QED
      BY <1>1, <1>3, <1>8, <3>1 DEF Basic, Mounted
  <2>3. QED
    BY <2>1, <2>2
<1>11. /\ \A j \in Insts : is[j].mounted => is[j].file \in Files /\ is[j].block # NoText
       /\ \A j \in Insts : inst[j].mounted => is[j].mounted
  BY <1>1, <1>6, <1>8, <1>10 DEF Basic, Mounted
<1>12. \A d \in 1..(Len(stack) - 1) : stack[d].prev = NoInst => is[stack[d].inst] = inst[stack[d].inst]
  <2> TAKE d \in 1..(Len(stack) - 1)
  <2> HAVE stack[d].prev = NoInst
  <2>1. d \in DOMAIN stack /\ d < Len(stack) /\ d # Len(stack)
    BY <1>5, Depths
  <2>2. /\ FrameInst(stack[d], inst) /\ stack[d].at = "convert" /\ stack[d].inst \in Insts
    BY <1>1, <2>1 DEF Basic, Mounted, FrameOK, Frames_OK
  <2>3. inst[stack[d].inst].file = stack[d].file /\ ~inst[stack[d].inst].mounted
    BY <2>2 DEF FrameInst
  <2>4. stack[d].inst # i
    <3>1. CASE Top.prev = NoInst
      <4>1. inst[i].file = Top.file
        BY <1>2, <1>3, <1>5, <3>1 DEF FrameInst
      <4>2. stack[d].file # stack[Len(stack)].file
        BY <1>1, <1>5, <2>1, FilesOnce
      <4>3. QED
        BY <1>5, <2>3, <4>1, <4>2
    <3>2. CASE Top.prev # NoInst
      BY <1>2, <1>3, <1>5, <2>3, <3>2 DEF FrameInst
    <3>3. QED
      BY <3>1, <3>2
  <2>5. QED
    BY <1>6, <2>2, <2>4
<1>13. Node(Top.file, i) \in Nodes
  BY <1>3, <1>5, NodeTyped
<1>14. documents' \in Cache /\ scopes' \in Cache
  BY <1>1, <1>3
<1>15. QED
  BY <1>3, <1>6, <1>7, <1>9, <1>11, <1>12, <1>13, <1>14, SoundDeliver

\* A step of the host that leaves the frames alone.
LEMMA SoundHost ==
    ASSUME Sound, stack' = stack, documents' = documents, scopes' = scopes, ambient' = ambient,
           root' = root, call' = call, disk' \in Cache, \A f \in Files : disk'[f] # NoText,
           inst' \in [Insts -> Instances], OwnSignals',
           \A j \in Insts :
                \/ /\ inst'[j].mounted = inst[j].mounted /\ inst'[j].file = inst[j].file
                   /\ inst'[j].block = inst[j].block /\ inst'[j].body = inst[j].body
                \/ Idle /\ ~inst'[j].mounted
    PROVE  Sound'
<1>1. Basic
  BY DEF Sound
<1>2. Typed'
  BY <1>1 DEF Basic, Typed
<1>3. Frames_OK'
  BY <1>1 DEF Basic, Frames_OK, FrameOK, Pending
<1>4. \A i \in Insts : inst'[i].mounted => inst'[i].file \in Files /\ inst'[i].block # NoText
  BY <1>1 DEF Basic, Mounted
<1>5. \A d \in DOMAIN stack' : FrameInst(stack'[d], inst')
  <2>1. CASE Idle
    BY <2>1, EmptyMap DEF Idle
  <2>2. CASE ~Idle
    <3> TAKE d \in DOMAIN stack'
    <3>1. FrameInst(stack[d], inst) /\ FrameOK(stack, scopes, d) /\ stack[d] \in Frames
      BY <1>1, <2>2, TopFacts DEF Basic, Mounted, Frames_OK
    <3>2. stack[d].prev \in {NoInst} \cup Insts /\ (stack[d].at = "convert" => stack[d].inst \in Insts)
      BY <3>1 DEF FrameOK, Frames
    <3>3. QED
      BY <2>2, <3>1, <3>2 DEF FrameInst
  <2>3. QED
    BY <2>1, <2>2
<1>6. QED
  BY <1>2, <1>3, <1>4, <1>5 DEF Sound, Basic, Mounted

LEMMA SoundStart ==
    ASSUME Sound, MountRoot \/ ReloadRoot \/ \E i \in Insts : RunSlot(i)
    PROVE  Sound'
<1>1. Basic /\ OwnSignals /\ inst \in [Insts -> Instances]
  BY DEF Sound, Basic, Typed
<1>2. /\ Idle /\ disk' = disk /\ documents' = documents /\ scopes' = scopes
      /\ root' = root /\ ambient' = ambient /\ call' \in {NoInst} \cup Insts
      /\ inst' \in [Insts -> Instances]
      /\ \A j \in Insts : inst'[j] = inst[j] \/ inst'[j] = [inst[j] EXCEPT !.left = Past(@)]
  BY <1>1, StartShape
<1>3. PICK g \in Frames :
        /\ stack' = <<g>> /\ g.kids = <<>>
        /\ g.at = "load" \/ (g.at = "import" /\ g.caller \in Files)
        /\ g.prev # NoInst => inst[g.prev].mounted
  BY <1>1, StartShape
<1>4. stack' \in Seq(Frames) /\ DOMAIN stack' = {1} /\ Len(stack') = 1 /\ stack'[1] = g
  BY <1>3
<1>5. \A j \in Insts : /\ inst'[j].mounted = inst[j].mounted /\ inst'[j].file = inst[j].file
                       /\ inst'[j].block = inst[j].block /\ inst'[j].signals = inst[j].signals
  <2> TAKE j \in Insts
  <2>1. inst[j] \in Instances
    BY <1>1
  <2>2. QED
    BY <1>2, <2>1 DEF Instances
<1>6. Typed'
  BY <1>1, <1>2, <1>4 DEF Basic, Typed
<1>7. FrameOK(stack', scopes', 1)
  BY <1>3, <1>4 DEF FrameOK
<1>8. FrameInst(g, inst')
  BY <1>3, <1>5 DEF FrameInst, Frames
<1>9. \A j \in Insts : inst'[j].mounted => inst'[j].file \in Files /\ inst'[j].block # NoText
  BY <1>1, <1>5 DEF Basic, Mounted
<1>10. OwnSignals'
  BY <1>1, <1>5 DEF OwnSignals
<1>11. QED
  BY <1>4, <1>6, <1>7, <1>8, <1>9, <1>10 DEF Sound, Basic, Frames_OK, Mounted

\* EmptySlot, for every invariant.
LEMMA EmptyShape ==
    ASSUME Basic, NEW i \in Insts, EmptySlot(i)
    PROVE  /\ Idle /\ inst' \in [Insts -> Instances]
           /\ \A j \in Insts : inst'[j] = Free \/ SameButSlot(inst'[j], inst[j])
<1>1. inst \in [Insts -> Instances]
  BY DEF Basic, Typed
<1> DEFINE m == [inst[i] EXCEPT !.slot = NoNode]
           is == [inst EXCEPT ![i] = m]
<1>2. Idle /\ inst' = Release(is, root)
  BY DEF EmptySlot
<1>3. NoNode \in Nodes
  BY NodeTyped DEF NoNode
<1>4. m \in Instances /\ SameButSlot(m, inst[i])
  <2>1. inst[i] \in Instances
    BY <1>1
  <2>2. m \in Instances
    BY <1>3, <2>1 DEF Instances
  <2>3. SameButSlot(m, inst[i])
    BY <2>1 DEF Instances, SameButSlot
  <2>4. QED
    BY <2>2, <2>3
<1> HIDE DEF m
<1>5. is \in [Insts -> Instances] /\ \A j \in Insts : is[j] = IF j = i THEN m ELSE inst[j]
  BY <1>1, <1>4
<1> HIDE DEF is
<1>6. \A j \in Insts : SameButSlot(is[j], inst[j])
  BY <1>4, <1>5 DEF SameButSlot
<1>7. Free \in Instances
  BY FreshTyped DEF Free
<1>8. \A j \in Insts : Release(is, root)[j] \in {is[j], Free}
  BY ReleaseKeeps
<1>9. Release(is, root) = [j \in Insts |-> Release(is, root)[j]]
  BY DEF Release
<1>10. QED
  BY <1>2, <1>5, <1>6, <1>7, <1>8, <1>9

\* DropPrevious, for every invariant: what it releases from, and what is left.
LEMMA DropTo ==
    ASSUME Basic, DropPrevious
    PROVE  \E to \in [Insts -> Instances] :
             /\ inst' = Release(to, root)
             /\ \A j \in Insts : \E l \in Seq(Nodes) :
                    to[j] = [inst[j] EXCEPT !.left = l] /\ \A k \in DOMAIN l : l[k] = NoNode
<1>1. inst \in [Insts -> Instances]
  BY DEF Basic, Typed
<1> DEFINE gone(j) == [k \in DOMAIN inst[j].left |-> NoNode]
           to == [j \in Insts |-> [inst[j] EXCEPT !.left = [k \in DOMAIN @ |-> NoNode]]]
<1>2. inst' = Release(to, root)
  BY DEF DropPrevious
<1>3. ASSUME NEW j \in Insts
      PROVE  /\ gone(j) \in Seq(Nodes) /\ \A k \in DOMAIN gone(j) : gone(j)[k] = NoNode
             /\ to[j] = [inst[j] EXCEPT !.left = gone(j)] /\ to[j] \in Instances
  <2>1. inst[j] \in Instances /\ inst[j].left \in Seq(Nodes)
    BY <1>1 DEF Instances
  <2>2. NoNode \in Nodes
    BY NodeTyped DEF NoNode
  <2>3. DOMAIN inst[j].left = 1..Len(inst[j].left) /\ Len(inst[j].left) \in Nat
    BY <2>1, LenProperties
  <2>4. gone(j) \in [1..Len(inst[j].left) -> Nodes] /\ \A k \in DOMAIN gone(j) : gone(j)[k] = NoNode
    BY <2>2, <2>3
  <2>5. gone(j) \in Seq(Nodes)
    <3> HIDE DEF gone
    <3> QED BY <2>3, <2>4, SeqDef
  <2>6. to[j] = [inst[j] EXCEPT !.left = gone(j)]
    OBVIOUS
  <2> HIDE DEF gone, to
  <2>7. to[j] \in Instances
    BY <2>1, <2>5, <2>6 DEF Instances
  <2>8. QED
    BY <2>4, <2>5, <2>6, <2>7
<1>4. to \in [Insts -> Instances]
  <2>1. to = [j \in Insts |-> to[j]]
    OBVIOUS
  <2> HIDE DEF gone, to
  <2>2. QED
    BY <1>3, <2>1
<1>5. \A j \in Insts : \E l \in Seq(Nodes) :
                    to[j] = [inst[j] EXCEPT !.left = l] /\ \A k \in DOMAIN l : l[k] = NoNode
  <2> HIDE DEF gone, to
  <2> TAKE j \in Insts
  <2> gone(j) \in Seq(Nodes)
    BY <1>3
  <2> WITNESS gone(j) \in Seq(Nodes)
  <2> QED
    BY <1>3
<1> HIDE DEF gone, to
<1> to \in [Insts -> Instances]
  BY <1>4
<1> WITNESS to \in [Insts -> Instances]
<1>6. QED
  BY <1>2, <1>5

LEMMA DropShape ==
    ASSUME Basic, DropPrevious
    PROVE  /\ Idle /\ inst' \in [Insts -> Instances]
           /\ \A j \in Insts : \/ inst'[j] = Free
                              \/ \E l \in Seq(Nodes) : inst'[j] = [inst[j] EXCEPT !.left = l]
<1>1. PICK to \in [Insts -> Instances] :
             /\ inst' = Release(to, root)
             /\ \A j \in Insts : \E l \in Seq(Nodes) :
                    to[j] = [inst[j] EXCEPT !.left = l] /\ \A k \in DOMAIN l : l[k] = NoNode
  BY DropTo
<1>2. Idle
  BY DEF DropPrevious
<1>3. Free \in Instances
  BY FreshTyped DEF Free
<1>4. \A j \in Insts : Release(to, root)[j] \in {to[j], Free}
  BY ReleaseKeeps
<1>5. Release(to, root) = [j \in Insts |-> Release(to, root)[j]]
  BY DEF Release
<1>6. QED
  BY <1>1, <1>2, <1>3, <1>4, <1>5

\* InvokeInstanceCallable, for every invariant.
LEMMA WriteShape ==
    ASSUME Basic, NEW i \in Insts, InvokeInstanceCallable(i)
    PROVE  /\ Idle /\ inst' \in [Insts -> Instances] /\ \A j \in Insts : j # i => inst'[j] = inst[j]
           /\ \E s \in SignalMaps :
                /\ inst'[i] = [inst[i] EXCEPT !.signals = s]
                /\ DOMAIN s = DOMAIN inst[i].signals
                /\ \A n \in DOMAIN s : s[n].at = inst[i].signals[n].at
<1>1. inst \in [Insts -> Instances] /\ inst[i] \in Instances
  BY DEF Basic, Typed
<1>2. inst[i].signals \in SignalMaps
  BY <1>1 DEF Instances
<1> DEFINE old == inst[i].signals
<1>3. old \in [DOMAIN old -> Signals] /\ DOMAIN old \in SUBSET Names
  BY <1>2, MapElim
<1>4. PICK n \in DOMAIN old : inst' = [inst EXCEPT ![i].signals[n].val = 1]
  BY DEF InvokeInstanceCallable
<1> DEFINE w == [old[n] EXCEPT !.val = 1]
           s == [old EXCEPT ![n] = w]
<1>5. inst' = [inst EXCEPT ![i] = [@ EXCEPT !.signals = s]]
  BY <1>4
<1> HIDE DEF old
<1>6. w \in Signals /\ w.at = old[n].at
  BY <1>3 DEF Signals
<1> HIDE DEF w
<1>7. s \in [DOMAIN old -> Signals] /\ DOMAIN s = DOMAIN old /\ \A k \in DOMAIN s : s[k].at = old[k].at
  BY <1>3, <1>6
<1> HIDE DEF s
<1>8. s \in SignalMaps
  BY <1>3, <1>7, MapIntro
<1>9. [inst[i] EXCEPT !.signals = s] \in Instances
  BY <1>1, <1>8 DEF Instances
<1>10. Idle
  BY DEF InvokeInstanceCallable
<1>11. QED
  <2>1. inst'[i] = [inst[i] EXCEPT !.signals = s]
    BY <1>1, <1>5
  <2>2. inst' \in [Insts -> Instances] /\ \A j \in Insts : j # i => inst'[j] = inst[j]
    BY <1>1, <1>5, <1>9
  <2>3. DOMAIN s = DOMAIN inst[i].signals /\ \A k \in DOMAIN s : s[k].at = inst[i].signals[k].at
    BY <1>7 DEF old
  <2>4. QED
    BY <1>8, <1>10, <2>1, <2>2, <2>3

\* All but the record of a fault, which the driver does not read.
world == <<disk, documents, scopes, inst, root, stack, ambient, call, failed, edits>>

LEMMA Steps ==
    ASSUME [Next]_vars
    PROVE  \/ Driver \/ (\E f \in Files : Edit(f)) \/ MountRoot \/ ReloadRoot \/ DropPrevious
           \/ \E i \in Insts : RunSlot(i) \/ EmptySlot(i) \/ InvokeInstanceCallable(i)
           \/ UNCHANGED world
BY DEF Next, Running, RunSlotOnFreed, vars, world

LEMMA NextSound ==
    ASSUME Sound, [Next]_vars
    PROVE  Sound'
<1>1. Basic /\ OwnSignals /\ inst \in [Insts -> Instances] /\ disk \in Cache
      /\ \A f \in Files : disk[f] # NoText
  BY DEF Sound, Basic, Typed
<1>2. CASE Driver
  BY <1>2, SoundImport, SoundLoad, SoundMount, SoundReload, SoundConvert, SoundReturn DEF Driver
<1>3. ASSUME NEW f \in Files, Edit(f) PROVE Sound'
  <2>1. /\ documents' = documents /\ scopes' = scopes /\ inst' = inst /\ root' = root
        /\ stack' = stack /\ ambient' = ambient /\ call' = call
    BY <1>3 DEF Edit
  <2>2. PICK v \in VersionsOf[f] \ {disk[f]} : disk' = [disk EXCEPT ![f] = v]
    BY <1>3 DEF Edit
  <2>3. disk' \in Cache /\ \A g \in Files : disk'[g] # NoText
    <3>1. /\ [disk EXCEPT ![f] = v] \in Cache /\ [disk EXCEPT ![f] = v][f] = v /\ v # NoText
          /\ \A g \in Files : g # f => [disk EXCEPT ![f] = v][g] = disk[g]
      BY <1>1, PatchFacts
    <3>2. QED
      BY <1>1, <2>2, <3>1
  <2>4. OwnSignals'
    BY <1>1, <2>1 DEF OwnSignals
  <2>5. inst' \in [Insts -> Instances]
    BY <1>1, <2>1
  <2>6. QED
    BY <2>1, <2>3, <2>4, <2>5, SoundHost
<1>4. ASSUME MountRoot \/ ReloadRoot PROVE Sound'
  BY <1>4, SoundStart
<1>5. ASSUME NEW i \in Insts, RunSlot(i) PROVE Sound'
  BY <1>5, SoundStart
<1>6. ASSUME NEW i \in Insts, EmptySlot(i) PROVE Sound'
  <2>1. /\ documents' = documents /\ scopes' = scopes /\ root' = root /\ disk' = disk
        /\ stack' = stack /\ ambient' = ambient /\ call' = call
    BY <1>6 DEF EmptySlot
  <2>2. /\ Idle /\ inst' \in [Insts -> Instances]
        /\ \A j \in Insts : inst'[j] = Free \/ SameButSlot(inst'[j], inst[j])
    BY <1>1, <1>6, EmptyShape
  <2>3. /\ Free.mounted = FALSE /\ DOMAIN Free.signals = {}
    BY <1>1, <1>6, MountedNotFree
  <2>4. OwnSignals'
    BY <1>1, <2>2, <2>3 DEF OwnSignals, SameButSlot
  <2>5. \A j \in Insts :
          \/ /\ inst'[j].mounted = inst[j].mounted /\ inst'[j].file = inst[j].file
             /\ inst'[j].block = inst[j].block /\ inst'[j].body = inst[j].body
          \/ Idle /\ ~inst'[j].mounted
    BY <2>2, <2>3 DEF SameButSlot
  <2>6. disk' \in Cache /\ \A f \in Files : disk'[f] # NoText
    BY <1>1, <2>1
  <2>7. QED
    BY <2>1, <2>2, <2>4, <2>5, <2>6, SoundHost
<1>7. ASSUME NEW i \in Insts, InvokeInstanceCallable(i) PROVE Sound'
  <2>1. /\ documents' = documents /\ scopes' = scopes /\ root' = root /\ disk' = disk
        /\ stack' = stack /\ ambient' = ambient /\ call' = call
    BY <1>7 DEF InvokeInstanceCallable
  <2>2. Idle /\ inst' \in [Insts -> Instances] /\ \A j \in Insts : j # i => inst'[j] = inst[j]
    BY <1>1, <1>7, WriteShape
  <2>3. PICK s \in SignalMaps :
                /\ inst'[i] = [inst[i] EXCEPT !.signals = s]
                /\ DOMAIN s = DOMAIN inst[i].signals
                /\ \A n \in DOMAIN s : s[n].at = inst[i].signals[n].at
    BY <1>1, <1>7, WriteShape
  <2>4. /\ inst'[i].mounted = inst[i].mounted /\ inst'[i].file = inst[i].file
        /\ inst'[i].block = inst[i].block /\ inst'[i].body = inst[i].body
        /\ inst'[i].signals = s
    <3>1. inst[i] \in Instances
      BY <1>1
    <3>2. QED
      BY <2>3, <3>1 DEF Instances
  <2>5. OwnSignals'
    <3>1. \A n \in DOMAIN inst'[i].signals : inst'[i].signals[n].at = i
      BY <1>1, <2>3, <2>4 DEF OwnSignals
    <3>2. \A j \in Insts : j # i => \A n \in DOMAIN inst'[j].signals : inst'[j].signals[n].at = j
      BY <1>1, <2>2 DEF OwnSignals
    <3>3. QED
      BY <3>1, <3>2 DEF OwnSignals
  <2>6. disk' \in Cache /\ \A f \in Files : disk'[f] # NoText
    BY <1>1, <2>1
  <2>7. QED
    BY <2>1, <2>2, <2>4, <2>5, <2>6, SoundHost
<1>8. ASSUME DropPrevious PROVE Sound'
  <2>1. /\ documents' = documents /\ scopes' = scopes /\ root' = root /\ disk' = disk
        /\ stack' = stack /\ ambient' = ambient /\ call' = call
    BY <1>8 DEF DropPrevious
  <2>2. Idle /\ inst' \in [Insts -> Instances]
    BY <1>1, <1>8, DropShape
  <2>3. ASSUME NEW j \in Insts
        PROVE  \/ inst'[j] = Free
               \/ /\ inst'[j].mounted = inst[j].mounted /\ inst'[j].file = inst[j].file
                  /\ inst'[j].block = inst[j].block /\ inst'[j].body = inst[j].body
                  /\ inst'[j].signals = inst[j].signals
    <3>1. \/ inst'[j] = Free
          \/ \E l \in Seq(Nodes) : inst'[j] = [inst[j] EXCEPT !.left = l]
      BY <1>1, <1>8, DropShape
    <3>2. inst[j] \in Instances
      BY <1>1
    <3>3. QED
      BY <3>1, <3>2 DEF Instances
  <2>4. Free.mounted = FALSE /\ DOMAIN Free.signals = {}
    BY EmptyMap DEF Free, Fresh
  <2>5. OwnSignals'
    BY <1>1, <2>3, <2>4 DEF OwnSignals
  <2>6. \A j \in Insts :
          \/ /\ inst'[j].mounted = inst[j].mounted /\ inst'[j].file = inst[j].file
             /\ inst'[j].block = inst[j].block /\ inst'[j].body = inst[j].body
          \/ Idle /\ ~inst'[j].mounted
    BY <2>2, <2>3, <2>4
  <2>7. disk' \in Cache /\ \A f \in Files : disk'[f] # NoText
    BY <1>1, <2>1
  <2>8. QED
    BY <2>1, <2>2, <2>5, <2>6, <2>7, SoundHost
<1>9. CASE UNCHANGED world
  <2>1. OwnSignals'
    BY <1>1, <1>9 DEF OwnSignals, world
  <2>2. QED
    BY <1>1, <1>9, <2>1, SoundHost DEF world
<1>10. QED
  BY <1>2, <1>3, <1>4, <1>5, <1>6, <1>7, <1>8, <1>9, Steps

LEMMA InitSound == Init => Sound
<1> SUFFICES ASSUME Init PROVE Sound
  OBVIOUS
<1>1. Free \in Instances /\ Free.mounted = FALSE /\ DOMAIN Free.signals = {}
  BY FreshTyped, EmptyMap DEF Free, Fresh
<1>2. FirstDisk \in Cache /\ \A f \in Files : FirstDisk[f] # NoText
  BY DriverAssumption DEF Cache, Versions
<1>3. [f \in Files |-> NoText] \in Cache
  BY DEF Cache
<1>4. NoNode \in Nodes
  BY NodeTyped DEF NoNode
<1>5. stack = <<>> /\ <<>> \in Seq(Frames) /\ <<>> \in Seq(Insts) /\ DOMAIN <<>> = {}
  BY EmptySeq, EmptyMap DEF Init
<1>6. Typed
  BY <1>1, <1>2, <1>3, <1>4, <1>5 DEF Init, Typed
<1>7. OwnSignals /\ Frames_OK /\ Mounted
  BY <1>1, <1>5 DEF Init, OwnSignals, Frames_OK, Mounted
<1>8. QED
  BY <1>6, <1>7 DEF Sound, Basic

LEMMA AlwaysSound == Spec => []Sound
BY InitSound, NextSound, PTL DEF Spec

\* Every signal of a component notifies the component's own instance: the run
\* that declares it has that instance on top of the ambient stack, whatever ran
\* in between (IrisNyxDriver.cpp: InvokeComponent, ReInvokeComponent).
THEOREM SignalsAreOwn == Spec => []OwnSignals
BY AlwaysSound, PTL DEF Sound

-----------------------------------------------------------------------------
(* What a step may do to one instance *)

Untouched(i) ==
    /\ inst'[i].file = inst[i].file /\ inst'[i].mounted = inst[i].mounted
    /\ inst'[i].body = inst[i].body /\ inst'[i].block = inst[i].block
    /\ inst'[i].hooks = inst[i].hooks /\ inst'[i].signals = inst[i].signals
    /\ inst'[i].kids = inst[i].kids
Mounts(i) ==
    /\ MountBody /\ inst[i] = Free /\ ~inst'[i].mounted /\ inst'[i].hooks = NoText
Reruns(i) ==
    /\ ReloadFunction \/ ReloadClass
    /\ i = Top.prev /\ inst'[i].file = inst[i].file /\ inst'[i].mounted = inst[i].mounted
    /\ inst'[i].body = Top.text /\ inst'[i].block = Top.text /\ inst'[i].hooks \in {Top.text, NoText}
    /\ inst'[i].kids = inst[i].kids
    /\ stack' # <<>> /\ Reloaded(i, inst[i].signals, inst'[i].signals, Last(stack').tier)
Returns(i) ==
    /\ Return /\ i = Top.inst /\ inst'[i].mounted /\ inst'[i].file = inst[i].file
    /\ inst'[i].body = inst[i].body /\ inst'[i].signals = inst[i].signals
    /\ Top.prev = NoInst => inst'[i].block = Top.text /\ inst'[i].hooks \in {NoText, inst[i].body}
    /\ Top.prev # NoInst => inst'[i].block = inst[i].block /\ inst'[i].hooks = inst[i].hooks
Writes(i) ==
    /\ InvokeInstanceCallable(i)
    /\ inst'[i].file = inst[i].file /\ inst'[i].mounted = inst[i].mounted
    /\ inst'[i].body = inst[i].body /\ inst'[i].block = inst[i].block
    /\ inst'[i].hooks = inst[i].hooks /\ inst'[i].kids = inst[i].kids

LEMMA EachInstance ==
    ASSUME Sound, [Next]_vars, NEW i \in Insts
    PROVE  Untouched(i) \/ inst'[i] = Free \/ Mounts(i) \/ Reruns(i) \/ Returns(i) \/ Writes(i)
<1>1. Basic /\ OwnSignals /\ inst \in [Insts -> Instances]
  BY DEF Sound, Basic, Typed
<1>2. ASSUME inst' = inst PROVE Untouched(i)
  BY <1>2 DEF Untouched
<1>3. ASSUME ~Idle, Deliver(inst, Node(Top.file, NoInst)) PROVE Untouched(i) \/ inst'[i] = Free
  <2>1. Node(Top.file, NoInst) \in Nodes
    BY <1>1, <1>3, TopFacts, NodeTyped DEF Frames
  <2>2. inst'[i] = Free \/ SameButSlot(inst'[i], inst[i])
    BY <1>1, <1>3, <2>1, DeliverKeeps
  <2>3. QED
    BY <2>2 DEF Untouched, SameButSlot
<1>4. CASE ImportChild
  BY <1>1, <1>2, <1>3, <1>4, ImportShape
<1>5. CASE Load
  BY <1>1, <1>2, <1>3, <1>5, LoadShape
<1>6. CASE MountBody
  <2>1. ~Idle /\ Top.file \in Files
    BY <1>1, <1>6, MountShape, TopFacts DEF Frames
  <2>2. PICK j \in Insts, m \in Instances :
            /\ inst[j] = Free /\ Mounting(m, Top.file, j)
            /\ \/ inst' = [inst EXCEPT ![j] = m]
               \/ Deliver([inst EXCEPT ![j] = m], Node(Top.file, j))
    BY <1>1, <1>6, MountShape
  <2> DEFINE is == [inst EXCEPT ![j] = m]
  <2>3. is \in [Insts -> Instances] /\ is[j] = m /\ \A k \in Insts : k # j => is[k] = inst[k]
    BY <1>1, InstanceTyped
  <2>4. Node(Top.file, j) \in Nodes
    BY <2>1, NodeTyped
  <2>5. inst' = is \/ Deliver(is, Node(Top.file, j))
    BY <2>2
  <2> HIDE DEF is
  <2>6. inst'[i] = Free \/ SameButSlot(inst'[i], is[i])
    <3>1. CASE inst' = is
      BY <3>1 DEF SameButSlot
    <3>2. CASE Deliver(is, Node(Top.file, j))
      BY <1>1, <2>1, <2>3, <2>4, <3>2, DeliverKeeps
    <3>3. QED
      BY <2>5, <3>1, <3>2
  <2>7. CASE i = j
    BY <1>6, <2>2, <2>3, <2>6, <2>7 DEF Mounts, Mounting, SameButSlot
  <2>8. CASE i # j
    BY <2>3, <2>6, <2>8 DEF Untouched, SameButSlot
  <2>9. QED
    BY <2>7, <2>8
<1>7. CASE ReloadFunction \/ ReloadClass
  <2>1. PICK p : p = Top.prev
    OBVIOUS
  <2>2. /\ ~Idle /\ p \in Insts /\ Top.at = "body"
        /\ \/ \E m \in SignalMaps, tier \in {"Unchanged", "SignalLayoutChanged"} :
                /\ inst' = Rerun(p, Top.text, m) /\ Reloaded(p, inst[p].signals, m, tier)
                /\ Replaced([Top EXCEPT !.at = "convert", !.inst = p, !.tier = tier])
           \/ Deliver(inst, Node(Top.file, NoInst))
    BY <1>1, <1>7, <2>1, ReloadShape
  <2>3. ASSUME NEW m \in SignalMaps, NEW tier \in {"Unchanged", "SignalLayoutChanged"},
               inst' = Rerun(p, Top.text, m), Reloaded(p, inst[p].signals, m, tier),
               Replaced([Top EXCEPT !.at = "convert", !.inst = p, !.tier = tier])
        PROVE  Untouched(i) \/ Reruns(i)
    <3>1. Top \in Frames /\ FrameOK(stack, scopes, Len(stack)) /\ Top = stack[Len(stack)]
          /\ Len(stack) \in Nat /\ Len(stack) >= 1
      BY <1>1, <2>2, TopFacts
    <3>2. Top.text \in Versions
      BY <2>2, <3>1 DEF FrameOK, Versions, Frames
    <3>3. PICK r : r = Rerun(p, Top.text, m)
      OBVIOUS
    <3>4. /\ \A j \in Insts : j # p => r[j] = inst[j]
          /\ r[p].body = Top.text /\ r[p].block = Top.text
          /\ r[p].hooks \in {Top.text, NoText} /\ r[p].signals = m
          /\ r[p].file = inst[p].file /\ r[p].mounted = inst[p].mounted
          /\ r[p].kids = inst[p].kids
      BY <1>1, <2>2, <3>2, <3>3, RerunFacts
    <3>5. inst' = r
      BY <2>3, <3>3
    <3> DEFINE f == [Top EXCEPT !.at = "convert", !.inst = p, !.tier = tier]
    <3>6. f.tier = tier
      BY <3>1 DEF Frames
    <3> HIDE DEF f
    <3>7. Len(stack') = Len(stack) /\ stack'[Len(stack)] = f /\ stack' \in Seq(Frames)
      BY <2>3 DEF Replaced, f
    <3>8. stack' # <<>> /\ Last(stack').tier = tier
      BY <3>1, <3>6, <3>7, EmptySeq DEF Last
    <3>9. CASE i = p
      BY <1>7, <2>1, <2>3, <3>4, <3>5, <3>8, <3>9 DEF Reruns
    <3>10. CASE i # p
      BY <3>4, <3>5, <3>10 DEF Untouched
    <3>11. QED
      BY <3>9, <3>10
  <2>4. QED
    BY <1>3, <2>2, <2>3
<1>8. CASE ConvertChild
  BY <1>2, <1>8 DEF ConvertChild
<1>9. CASE Return
  <2>1. PICK j : j = Top.inst
    OBVIOUS
  <2>2. ~Idle /\ Top.at = "convert" /\ j \in Insts
    BY <1>1, <1>9, <2>1, ReturnShape
  <2>3. PICK m \in Instances : /\ Done(Len(stack), m)
                               /\ Deliver([inst EXCEPT ![j] = m], Node(Top.file, j))
    BY <1>1, <1>9, <2>1, ReturnShape
  <2>4. Top = stack[Len(stack)] /\ Top.file \in Files
    BY <1>1, <2>2, TopFacts DEF Frames
  <2> DEFINE is == [inst EXCEPT ![j] = m]
  <2>5. is \in [Insts -> Instances] /\ is[j] = m /\ \A k \in Insts : k # j => is[k] = inst[k]
    BY <1>1, <2>2, InstanceTyped
  <2>6. Node(Top.file, j) \in Nodes
    BY <2>2, <2>4, NodeTyped
  <2>7. Deliver(is, Node(Top.file, j))
    BY <2>3
  <2> HIDE DEF is
  <2>8. inst'[i] = Free \/ SameButSlot(inst'[i], is[i])
    BY <1>1, <2>2, <2>5, <2>6, <2>7, DeliverKeeps
  <2>9. CASE i = j
    BY <1>9, <2>1, <2>3, <2>4, <2>5, <2>8, <2>9 DEF Returns, Done, SameButSlot
  <2>10. CASE i # j
    BY <2>5, <2>8, <2>10 DEF Untouched, SameButSlot
  <2>11. QED
    BY <2>9, <2>10
<1>10. CASE (\E f \in Files : Edit(f)) \/ UNCHANGED world
  BY <1>2, <1>10 DEF Edit, world
<1>11. CASE MountRoot \/ ReloadRoot \/ \E j \in Insts : RunSlot(j)
  <2>1. inst'[i] = inst[i] \/ inst'[i] = [inst[i] EXCEPT !.left = Past(@)]
    BY <1>1, <1>11, StartShape
  <2>2. inst[i] \in Instances
    BY <1>1
  <2>3. QED
    BY <2>1, <2>2 DEF Untouched, Instances
<1>12. CASE \E j \in Insts : EmptySlot(j)
  BY <1>1, <1>12, EmptyShape DEF Untouched, SameButSlot
<1>13. ASSUME NEW j \in Insts, InvokeInstanceCallable(j) PROVE Untouched(i) \/ Writes(i)
  <2>1. PICK s \in SignalMaps : inst'[j] = [inst[j] EXCEPT !.signals = s]
    BY <1>1, <1>13, WriteShape
  <2>2. CASE i = j
    <3>1. inst[i] \in Instances
      BY <1>1
    <3>2. QED
      BY <1>13, <2>1, <2>2, <3>1 DEF Writes, Instances
  <2>3. CASE i # j
    BY <1>1, <1>13, <2>3, WriteShape DEF Untouched
  <2>4. QED
    BY <2>2, <2>3
<1>14. CASE DropPrevious
  <2>1. inst'[i] = Free \/ \E l \in Seq(Nodes) : inst'[i] = [inst[i] EXCEPT !.left = l]
    BY <1>1, <1>14, DropShape
  <2>2. inst[i] \in Instances
    BY <1>1
  <2>3. QED
    BY <2>1, <2>2 DEF Untouched, Instances
<1>15. QED
  BY <1>4, <1>5, <1>6, <1>7, <1>8, <1>9, <1>10, <1>11, <1>12, <1>13, <1>14, Steps DEF Driver

-----------------------------------------------------------------------------
(* Hooks and signals *)

HooksFollow == \A i \in Insts : inst[i].hooks # NoText => inst[i].hooks = inst[i].body

\* The lifecycle hooks an instance runs belong to the scope its last run made:
\* a reload replaces them with the body, and a first mount stores them last
\* (IrisNyxDriver.cpp: BuildFreeFunctionLifecycleAdapter).
THEOREM HooksStayCurrent == Spec => []HooksAreCurrent
<1>1. Init => HooksFollow
  BY DEF Init, HooksFollow, Free, Fresh
<1>2. ASSUME Sound, HooksFollow, [Next]_vars PROVE HooksFollow'
  <2> SUFFICES ASSUME NEW i \in Insts, inst'[i].hooks # NoText PROVE inst'[i].hooks = inst'[i].body
    BY DEF HooksFollow
  <2>1. inst'[i] # Free
    BY DEF Free, Fresh
  <2>2. QED
    BY <1>2, <2>1, EachInstance DEF HooksFollow, Untouched, Mounts, Reruns, Returns, Writes
<1>3. HooksFollow => HooksAreCurrent
  BY DEF HooksFollow, HooksAreCurrent
<1>4. QED
  BY <1>1, <1>2, <1>3, AlwaysSound, PTL DEF Spec

\* A signal a component keeps, with its kind, keeps its value in every step but a
\* write of the component's own: no reload of it or of another one resets it
\* (IrisNyxDriver.cpp: ReInvokeComponent, ReconcileInstanceFields).
THEOREM ValuesAreKept == Spec => ValuesSurvive
<1>1. ASSUME Sound, [Next]_vars, NEW i \in Insts,
             NEW n \in DOMAIN inst[i].signals \cap DOMAIN inst'[i].signals,
             inst[i].signals[n].kind = inst'[i].signals[n].kind
      PROVE  inst'[i].signals[n].val = inst[i].signals[n].val \/ InvokeInstanceCallable(i)
  <2>1. inst'[i] # Free /\ inst[i] # Free
    BY EmptyMap DEF Free, Fresh
  <2>2. QED
    BY <1>1, <2>1, EachInstance DEF Untouched, Mounts, Reruns, Returns, Writes, Reloaded
<1>2. Sound /\ [Next]_vars =>
        [\A i \in Insts : \A n \in DOMAIN inst[i].signals \cap DOMAIN inst'[i].signals :
           /\ inst[i].file = inst'[i].file /\ inst[i].signals[n].kind = inst'[i].signals[n].kind
           => \/ inst'[i].signals[n].val = inst[i].signals[n].val
              \/ InvokeInstanceCallable(i)]_vars
  BY <1>1
<1>3. QED
  BY <1>2, AlwaysSound, PTL DEF Spec, ValuesSurvive

\* The tier a reload reports is true: when it says Unchanged, the instance's
\* signals are what they were, every one of its kind and with its value
\* (IrisNyxDriver.cpp: ReInvokeComponent, CompareEnvironments, FieldShape).
THEOREM UnchangedIsTrue == Spec => UnchangedKeepsState
<1>1. ASSUME Sound, [Next]_vars, ~Idle, Top.at = "body", Top.prev # NoInst,
             stack' # <<>>, Last(stack').tier = "Unchanged", NEW i, i = Top.prev
      PROVE  inst'[i].signals = inst[i].signals
  <2>1. Basic /\ OwnSignals /\ inst \in [Insts -> Instances]
    BY <1>1 DEF Sound, Basic, Typed
  <2>2. /\ Top = stack[Len(stack)] /\ Top \in Frames /\ Len(stack) \in DOMAIN stack
        /\ FrameInst(Top, inst) /\ Top.text \in VersionsOf[Top.file] /\ Top.file \in Files
    BY <1>1, <2>1, TopFacts DEF Basic, Mounted, FrameOK, Frames
  <2>3. i \in Insts /\ inst[i].mounted /\ Top.text \in Versions
    BY <1>1, <2>2 DEF Frames, FrameInst, Versions
  <2>4. Untouched(i) \/ inst'[i] = Free \/ Mounts(i) \/ Reruns(i) \/ Returns(i) \/ Writes(i)
    BY <1>1, <2>3, EachInstance
  <2>5. ~Mounts(i) /\ ~Returns(i) /\ ~Writes(i)
    BY <1>1 DEF Mounts, Returns, Writes, MountBody, Return, InvokeInstanceCallable
  <2>6. CASE inst'[i] = Free
    <3>1. ReloadFunction \/ ReloadClass \/ inst' = inst
      BY <1>1, Steps DEF Driver, ImportChild, Load, MountBody, ConvertChild, Return, Edit, MountRoot,
                  ReloadRoot, DropPrevious, RunSlot, EmptySlot, InvokeInstanceCallable, world
    <3>2. CASE ReloadFunction \/ ReloadClass
      <4>1. \/ \E m \in SignalMaps : inst' = Rerun(i, Top.text, m)
            \/ Deliver(inst, Node(Top.file, NoInst))
        BY <1>1, <2>1, <3>2, ReloadShape
      <4>2. CASE \E m \in SignalMaps : inst' = Rerun(i, Top.text, m)
        <5>1. PICK m \in SignalMaps : inst' = Rerun(i, Top.text, m)
          BY <4>2
        <5>2. Rerun(i, Top.text, m)[i].mounted = inst[i].mounted
          BY <2>1, <2>3, RerunFacts
        <5>3. QED
          BY <2>1, <2>3, <2>6, <5>1, <5>2, MountedNotFree
      <4>3. CASE Deliver(inst, Node(Top.file, NoInst))
        <5>1. Node(Top.file, NoInst) \in Nodes
          BY <2>2, NodeTyped
        <5>2. inst' = inst
          BY <1>1, <2>1, <4>3, <5>1, DeliverKeeps
        <5>3. QED
          BY <5>2
      <4>4. QED
        BY <4>1, <4>2, <4>3
    <3>3. QED
      BY <3>1, <3>2
  <2>7. QED
    BY <1>1, <2>4, <2>5, <2>6 DEF Untouched, Reruns, Reloaded
<1>2. Sound /\ [Next]_vars =>
        [~Idle /\ Top.at = "body" /\ Top.prev # NoInst
         /\ stack' # <<>> /\ Last(stack').tier = "Unchanged" =>
             inst'[Top.prev].signals = inst[Top.prev].signals]_vars
  BY <1>1
<1>3. QED
  BY <1>2, AlwaysSound, PTL DEF Spec, UnchangedKeepsState

-----------------------------------------------------------------------------
(* What a step may do to one frame *)

\* The same call, at the same point of it.
SameCall(f, g) ==
    f.at = g.at /\ f.file = g.file /\ f.prev = g.prev /\ f.text = g.text /\ f.inst = g.inst
Loaded(f) ==
    /\ Load /\ f.at = "body" /\ f.file = Top.file /\ f.prev = Top.prev /\ f.text = documents'[f.file]
Ran(f) ==
    /\ MountBody \/ ReloadFunction \/ ReloadClass
    /\ f.at = "convert" /\ f.file = Top.file /\ f.prev = Top.prev /\ f.text = Top.text
    /\ f.prev = NoInst => MountBody /\ inst'[f.inst].body = scopes[f.file]

\* The end of a call leaves its callers' frames, one with a child more.
LEMMA DeliverFrames ==
    ASSUME Basic, ~Idle, NEW is \in [Insts -> Instances], NEW n \in Nodes, Deliver(is, n),
           NEW d \in DOMAIN stack'
    PROVE  /\ d \in DOMAIN stack /\ d < Len(stack) /\ Len(stack) > 1 /\ stack[d] \in Frames
           /\ inst' = is
           /\ stack[d].at = "convert" /\ SameCall(stack'[d], stack[d])
           /\ stack'[d].left = stack[d].left /\ stack'[d].todo = stack[d].todo
           /\ stack'[d].kids = IF d = Len(stack) - 1 THEN Append(stack[d].kids, n) ELSE stack[d].kids
<1>1. Len(stack) \in Nat /\ (Len(stack) = 1 \/ Len(stack) > 1)
  BY TopFacts, OneOrMore
<1>2. Len(stack) # 1
  <2>1. stack' # <<>>
    BY EmptyMap
  <2>2. QED
    BY <2>1, DeliverOuter
<1>3. Popped(n) /\ inst' = is
  BY <1>1, <1>2, DeliverInner
<1>4. /\ DOMAIN stack' = 1..(Len(stack) - 1) /\ stack[Len(stack) - 1] \in Frames
      /\ stack'[d] = IF d = Len(stack) - 1
            THEN [stack[d] EXCEPT !.kids = Append(@, n)] ELSE stack[d]
  BY <1>1, <1>2, <1>3, PoppedFrames
<1>5. d \in DOMAIN stack /\ d < Len(stack)
  BY <1>1, <1>4, TopFacts, Depths
<1>6. stack[d] \in Frames /\ stack[d].at = "convert"
  BY <1>5, TopFacts DEF Basic, Frames_OK, FrameOK
<1>7. QED
  BY <1>1, <1>2, <1>3, <1>4, <1>5, <1>6 DEF SameCall, Frames

\* A step that changes the innermost frame to f.
LEMMA ReplacedCalls ==
    ASSUME Basic, ~Idle, NEW f, Replaced(f), NEW d \in DOMAIN stack'
    PROVE  /\ d \in DOMAIN stack /\ DOMAIN stack' = DOMAIN stack
           /\ IF d = Len(stack) THEN stack'[d] = f ELSE d < Len(stack) /\ stack'[d] = stack[d]
<1>1. Len(stack) \in Nat /\ DOMAIN stack = 1..Len(stack)
  BY TopFacts
<1>2. /\ stack' \in Seq(Frames) /\ Len(stack') = Len(stack) /\ stack'[Len(stack)] = f
      /\ \A e \in 1..(Len(stack) - 1) : stack'[e] = stack[e]
  BY DEF Replaced
<1>3. DOMAIN stack' = 1..Len(stack)
  BY <1>2, LenProperties
<1>4. d \in 1..(Len(stack) - 1) \/ d = Len(stack)
  BY <1>1, <1>3, Depths
<1>5. d \in 1..(Len(stack) - 1) => d < Len(stack) /\ d # Len(stack)
  BY <1>1, Depths
<1>6. QED
  BY <1>1, <1>2, <1>3, <1>4, <1>5

LEMMA EachFrame ==
    ASSUME Sound, [Next]_vars, NEW d \in DOMAIN stack'
    PROVE  \/ d \in DOMAIN stack /\ SameCall(stack'[d], stack[d])
           \/ /\ stack'[d].at \in {"import", "load"}
              /\ d \in DOMAIN stack =>
                    stack'[d].file = stack[d].file /\ stack'[d].prev = stack[d].prev
           \/ d = Len(stack) /\ ~Idle /\ (Loaded(stack'[d]) \/ Ran(stack'[d]))
<1> DEFINE Same == d \in DOMAIN stack /\ SameCall(stack'[d], stack[d])
<1>1. Basic /\ OwnSignals /\ inst \in [Insts -> Instances]
  BY DEF Sound, Basic, Typed
<1>2. ASSUME stack' = stack PROVE Same
  BY <1>2 DEF SameCall
<1>3. ASSUME ~Idle, NEW is \in [Insts -> Instances], NEW n \in Nodes, Deliver(is, n) PROVE Same
  BY <1>1, <1>3, DeliverFrames
<1>4. ASSUME ~Idle, Deliver(inst, Node(Top.file, NoInst)) PROVE Same
  <2>1. Node(Top.file, NoInst) \in Nodes
    BY <1>1, <1>4, TopFacts, NodeTyped DEF Frames
  <2>2. QED
    BY <1>1, <1>3, <1>4, <2>1
<1>5. ASSUME ~Idle, NEW f, Replaced(f), d # Len(stack) PROVE Same
  BY <1>1, <1>5, ReplacedCalls DEF SameCall
<1>6. ASSUME ~Idle, NEW f, Replaced(f), d = Len(stack) PROVE stack'[d] = f
  BY <1>6 DEF Replaced
<1>7. ~Idle => Top \in Frames /\ Top = stack[Len(stack)]
  BY <1>1, TopFacts
<1> HIDE DEF Same
<1>8. CASE ImportChild
  <2>1. /\ ~Idle
        /\ \/ Replaced([Top EXCEPT !.at = "load"])
           \/ Deliver(inst, Node(Top.file, NoInst))
    BY <1>1, <1>8, ImportShape
  <2>2. CASE Replaced([Top EXCEPT !.at = "load"]) /\ d = Len(stack)
    <3>1. stack'[d] = [Top EXCEPT !.at = "load"]
      BY <1>6, <2>1, <2>2
    <3>2. stack'[d].at = "load" /\ stack'[d].file = Top.file /\ stack'[d].prev = Top.prev
      BY <1>7, <2>1, <3>1 DEF Frames
    <3>3. QED
      BY <1>7, <2>1, <2>2, <3>2
  <2>3. QED
    BY <1>4, <1>5, <2>1, <2>2 DEF Same
<1>9. CASE Load
  <2> DEFINE v == documents'[Top.file]
             f == [Top EXCEPT !.at = "body", !.text = v, !.todo = Text[v].children,
                              !.left = CollectNestedInvocations(Top.prev)]
  <2>1. /\ ~Idle
        /\ Replaced(f) \/ Deliver(inst, Node(Top.file, NoInst))
    BY <1>1, <1>9, LoadShape
  <2>2. CASE Replaced(f) /\ d = Len(stack)
    <3>1. stack'[d] = f
      BY <1>6, <2>1, <2>2
    <3>2. f.at = "body" /\ f.file = Top.file /\ f.prev = Top.prev /\ f.text = v
      BY <1>7, <2>1 DEF Frames
    <3>3. QED
      BY <1>9, <2>1, <2>2, <3>1, <3>2 DEF Loaded
  <2> HIDE DEF f
  <2>3. QED
    BY <1>4, <1>5, <2>1, <2>2 DEF Same
<1>10. CASE MountBody
  <2>1. ~Idle /\ Top.prev = NoInst /\ Top.file \in Files /\ Top \in Frames
    BY <1>1, <1>7, <1>10, MountShape DEF Frames
  <2>2. PICK j \in Insts, m \in Instances :
            \/ /\ m.body = scopes[Top.file] /\ inst' = [inst EXCEPT ![j] = m]
               /\ Replaced([Top EXCEPT !.at = "convert", !.inst = j])
            \/ Deliver([inst EXCEPT ![j] = m], Node(Top.file, j))
    BY <1>1, <1>10, MountShape
  <2> DEFINE is == [inst EXCEPT ![j] = m]
             f == [Top EXCEPT !.at = "convert", !.inst = j]
  <2>3. is \in [Insts -> Instances] /\ is[j] = m
    BY <1>1, InstanceTyped
  <2>4. Node(Top.file, j) \in Nodes
    BY <2>1, NodeTyped
  <2>5. /\ f.at = "convert" /\ f.file = Top.file /\ f.prev = Top.prev /\ f.text = Top.text /\ f.inst = j
    BY <2>1 DEF Frames
  <2>6. (m.body = scopes[Top.file] /\ inst' = is /\ Replaced(f)) \/ Deliver(is, Node(Top.file, j))
    BY <2>2
  <2> HIDE DEF is, f
  <2>7. CASE m.body = scopes[Top.file] /\ inst' = is /\ Replaced(f) /\ d = Len(stack)
    <3>1. stack'[d] = f
      BY <1>6, <2>1, <2>7
    <3>2. inst'[j].body = scopes[Top.file]
      BY <2>3, <2>7
    <3>3. QED
      BY <1>10, <2>1, <2>5, <2>7, <3>1, <3>2 DEF Ran
  <2>8. QED
    BY <1>3, <1>5, <2>1, <2>3, <2>4, <2>6, <2>7 DEF Same
<1>11. CASE ReloadFunction \/ ReloadClass
  <2>1. PICK i : i = Top.prev
    OBVIOUS
  <2>2. /\ ~Idle /\ i \in Insts
        /\ \/ \E tier : Replaced([Top EXCEPT !.at = "convert", !.inst = i, !.tier = tier])
           \/ Deliver(inst, Node(Top.file, NoInst))
    BY <1>1, <1>11, <2>1, ReloadShape
  <2>3. ASSUME NEW tier, Replaced([Top EXCEPT !.at = "convert", !.inst = i, !.tier = tier]),
               d = Len(stack)
        PROVE  Ran(stack'[d])
    <3> DEFINE f == [Top EXCEPT !.at = "convert", !.inst = i, !.tier = tier]
    <3>1. stack'[d] = f
      BY <1>6, <2>2, <2>3
    <3>2. /\ f.at = "convert" /\ f.file = Top.file /\ f.prev = Top.prev /\ f.text = Top.text
      BY <1>7, <2>2 DEF Frames
    <3>3. Top.prev # NoInst
      BY <2>1, <2>2, InstNumbers
    <3>4. QED
      BY <1>11, <3>1, <3>2, <3>3 DEF Ran
  <2>4. QED
    BY <1>4, <1>5, <2>2, <2>3 DEF Same
<1>12. CASE ConvertChild
  <2> DEFINE f == [Top EXCEPT !.todo = Tail(@), !.left = Past(@)]
  <2>1. PICK g : g = Frame(Top.file, Head(Top.todo), Matched(Top.left, Head(Top.todo)))
    OBVIOUS
  <2>2. ~Idle /\ g.at = "import" /\ Pushed(f, g)
    BY <1>1, <1>12, <2>1, ConvertShape
  <2>3. SameCall(f, Top)
    BY <1>7, <2>2 DEF Frames, SameCall
  <2> HIDE DEF f
  <2>4. /\ stack' \in Seq(Frames) /\ Len(stack') = Len(stack) + 1
        /\ stack'[Len(stack)] = f /\ stack'[Len(stack) + 1] = g
        /\ \A e \in 1..(Len(stack) - 1) : stack'[e] = stack[e]
    BY <2>2 DEF Pushed
  <2>5. /\ Len(stack) \in Nat /\ Len(stack) \in DOMAIN stack /\ DOMAIN stack = 1..Len(stack)
        /\ DOMAIN stack' = 1..(Len(stack) + 1)
    BY <1>1, <2>2, <2>4, TopFacts, LenProperties
  <2>6. d \in 1..Len(stack) \/ d = Len(stack) + 1
    BY <2>5, Depths
  <2>7. d \in 1..Len(stack) => d \in 1..(Len(stack) - 1) \/ d = Len(stack)
    BY <2>5, Depths
  <2>8. d = Len(stack) + 1 => d \notin DOMAIN stack
    BY <2>5
  <2>9. QED
    BY <1>7, <2>2, <2>3, <2>4, <2>5, <2>6, <2>7, <2>8 DEF SameCall, Same
<1>13. CASE Return
  <2>1. PICK j : j = Top.inst
    OBVIOUS
  <2>2. ~Idle /\ j \in Insts /\ Top.file \in Files
    BY <1>1, <1>7, <1>13, <2>1, ReturnShape DEF Frames
  <2>3. PICK m \in Instances : Deliver([inst EXCEPT ![j] = m], Node(Top.file, j))
    BY <1>1, <1>13, <2>1, ReturnShape
  <2>4. [inst EXCEPT ![j] = m] \in [Insts -> Instances] /\ Node(Top.file, j) \in Nodes
    BY <1>1, <2>2, InstanceTyped, NodeTyped
  <2>5. QED
    BY <1>3, <2>2, <2>3, <2>4 DEF Same
<1>14. CASE MountRoot \/ ReloadRoot \/ \E j \in Insts : RunSlot(j)
  <2>1. PICK g \in Frames : stack' = <<g>> /\ (g.at = "load" \/ g.at = "import")
    BY <1>1, <1>14, StartShape
  <2>2. stack'[d] = g
    BY <2>1
  <2>3. DOMAIN stack = {}
    BY <1>14, EmptyMap DEF MountRoot, ReloadRoot, RunSlot, Idle
  <2>4. QED
    BY <2>1, <2>2, <2>3
<1>15. CASE \/ \E f \in Files : Edit(f)
            \/ \E j \in Insts : EmptySlot(j) \/ InvokeInstanceCallable(j)
            \/ DropPrevious \/ UNCHANGED world
  BY <1>2, <1>15 DEF Edit, EmptySlot, InvokeInstanceCallable, DropPrevious, world, Same
<1>16. QED
  BY <1>8, <1>9, <1>10, <1>11, <1>12, <1>13, <1>14, <1>15, Steps DEF Driver

\* A step fills empty entries of the document cache, or replaces the entry of
\* the file being loaded.
LEMMA EachDocument ==
    ASSUME Sound, [Next]_vars, NEW f \in Files
    PROVE  documents'[f] = documents[f] \/ documents[f] = NoText
           \/ (~Idle /\ Load /\ Top.at = "load" /\ f = Top.file)
<1>1. Basic /\ OwnSignals
  BY DEF Sound
<1>2. CASE ImportChild
  BY <1>1, <1>2, ImportShape
<1>3. CASE Load
  BY <1>1, <1>3, LoadShape
<1>4. CASE ~ImportChild /\ ~Load
  <2>1. documents' = documents
    BY <1>4, Steps DEF Driver, MountBody, ReloadFunction, ReloadClass, ConvertChild, Return, Edit,
                  MountRoot, ReloadRoot, DropPrevious, RunSlot, EmptySlot, InvokeInstanceCallable, world
  <2>2. QED
    BY <2>1
<1>5. QED
  BY <1>2, <1>3, <1>4

\* A render block is converted from the document the cache holds: the components
\* below it invalidate documents of their own, never that of a render in progress
\* (IrisNyxDriver.cpp: InvokeComponent, LoadDocument, InvalidateDocument).
THEOREM DocumentsStay == Spec => []DocumentStays
<1>1. Init => DocumentStays
  BY EmptyMap DEF Init, DocumentStays
<1>2. ASSUME Sound, DocumentStays, [Next]_vars PROVE DocumentStays'
  <2> SUFFICES ASSUME NEW d \in DOMAIN stack', stack'[d].at \in {"body", "convert"}
               PROVE  documents'[stack'[d].file] = stack'[d].text
    BY DEF DocumentStays
  <2>1. Basic
    BY <1>2 DEF Sound
  <2>2. CASE d \in DOMAIN stack /\ SameCall(stack'[d], stack[d])
    <3>1. /\ stack[d].at \in {"body", "convert"} /\ stack'[d].file = stack[d].file
          /\ documents[stack[d].file] = stack[d].text /\ stack'[d].text = stack[d].text
      BY <1>2, <2>2 DEF SameCall, DocumentStays
    <3>2. ~Idle /\ stack[d].file \in Files /\ stack[d].text \in VersionsOf[stack[d].file]
      <4>1. ~Idle
        BY <2>2, EmptyMap DEF Idle
      <4>2. stack[d] \in Frames /\ FrameOK(stack, scopes, d)
        BY <2>1, <2>2, <4>1, TopFacts
      <4>3. QED
        BY <3>1, <4>1, <4>2 DEF FrameOK, Frames
    <3>3. stack[d].text # NoText
      BY <3>2, DriverAssumption DEF Versions
    <3>4. ~(Load /\ Top.at = "load" /\ stack[d].file = Top.file)
      <4>1. ASSUME Top.at = "load", stack[d].file = Top.file PROVE FALSE
        <5>1. Top = stack[Len(stack)] /\ Len(stack) \in DOMAIN stack
          BY <2>1, <3>2, TopFacts
        <5>2. d = Len(stack)
          BY <2>1, <2>2, <4>1, <5>1, FilesOnce
        <5>3. QED
          BY <3>1, <4>1, <5>1, <5>2
      <4>2. QED
        BY <4>1
    <3>5. QED
      BY <1>2, <3>1, <3>2, <3>3, <3>4, EachDocument
  <2>3. CASE Loaded(stack'[d])
    BY <2>3 DEF Loaded
  <2>4. CASE ~Idle /\ Ran(stack'[d])
    <3>1. documents' = documents /\ Top.at = "body"
      BY <2>4 DEF Ran, MountBody, ReloadFunction, ReloadClass
    <3>2. Top = stack[Len(stack)] /\ Len(stack) \in DOMAIN stack
      BY <2>1, <2>4, TopFacts
    <3>3. QED
      BY <1>2, <2>4, <3>1, <3>2 DEF DocumentStays, Ran
  <2>5. QED
    BY <1>2, <2>2, <2>3, <2>4, EachFrame
<1>3. QED
  BY <1>1, <1>2, AlwaysSound, PTL DEF Spec

LEMMA SoundDocuments == Spec => [](Sound /\ DocumentStays)
BY AlwaysSound, DocumentsStay, PTL

-----------------------------------------------------------------------------
(* Bodies and blocks *)

\* Between the load and the run of a reload the file's interpreter still holds
\* the previous text.
Reloading(f) == ~Idle /\ Top.at = "body" /\ Top.prev # NoInst /\ Top.file = f

ScopesFollow ==
    \A f \in Files \ failed : scopes[f] = NoText \/ scopes[f] = documents[f] \/ Reloading(f)
MountsFollow ==
    \A d \in DOMAIN stack :
        /\ stack[d].at = "convert" /\ stack[d].prev = NoInst /\ stack[d].file \notin failed
        => inst[stack[d].inst].body = stack[d].text
TextsFollow == ScopesFollow /\ MountsFollow /\ SameText

LEMMA FailedGrows ==
    ASSUME [Next]_vars
    PROVE  failed \subseteq failed'
BY Steps DEF Driver, ImportChild, Load, MountBody, ReloadFunction, ReloadClass, ConvertChild, Return,
       Fail, Edit, MountRoot, ReloadRoot, DropPrevious, RunSlot, EmptySlot, InvokeInstanceCallable, world

LEMMA ScopesStep ==
    ASSUME Sound, DocumentStays, ScopesFollow, [Next]_vars
    PROVE  ScopesFollow'
<1> SUFFICES ASSUME NEW f \in Files, f \notin failed'
             PROVE  scopes'[f] = NoText \/ scopes'[f] = documents'[f] \/ Reloading(f)'
  BY DEF ScopesFollow
<1>1. Basic /\ OwnSignals /\ scopes \in Cache /\ documents \in Cache
  BY DEF Sound, Basic, Typed
<1>2. f \notin failed /\ (scopes[f] = NoText \/ scopes[f] = documents[f] \/ Reloading(f))
  BY FailedGrows DEF ScopesFollow
<1>3. CASE ImportChild
  <2>1. /\ ~Idle /\ Top.at = "import" /\ documents' \in Cache
        /\ documents[f] # NoText => documents'[f] = documents[f]
        /\ \/ /\ documents'[Top.file] # NoText
              /\ scopes' = GetFileScope(scopes, Top.file, documents'[Top.file])
           \/ scopes' = scopes
    BY <1>1, <1>3, ImportShape
  <2>2. scopes[f] = NoText \/ scopes[f] = documents'[f]
    BY <1>2, <2>1 DEF Reloading
  <2>3. Top.file \in Files
    BY <1>1, <2>1, TopFacts DEF Frames
  <2>4. CASE documents'[Top.file] # NoText /\ scopes' = GetFileScope(scopes, Top.file, documents'[Top.file])
    <3>1. documents'[Top.file] \in VersionsOf[Top.file]
      BY <2>1, <2>3, <2>4 DEF Cache
    <3>2. /\ f # Top.file => scopes'[f] = scopes[f]
          /\ f = Top.file => scopes'[f] = IF scopes[f] = NoText THEN documents'[f] ELSE scopes[f]
      BY <1>1, <2>3, <2>4, <3>1, ScopeFacts
    <3>3. QED
      BY <2>2, <3>2
  <2>5. QED
    BY <2>1, <2>2, <2>4
<1>4. CASE Load
  <2>1. /\ ~Idle /\ Top.at = "load" /\ documents' \in Cache
        /\ f # Top.file => documents'[f] = documents[f]
        /\ Top.prev = NoInst /\ documents[Top.file] # NoText => documents' = documents
        /\ \/ /\ documents'[Top.file] # NoText
              /\ Replaced([Top EXCEPT !.at = "body", !.text = documents'[Top.file],
                                         !.todo = Text[documents'[Top.file]].children,
                                         !.left = CollectNestedInvocations(Top.prev)])
              /\ scopes' = GetFileScope(scopes, Top.file, documents'[Top.file])
           \/ /\ \/ scopes' = scopes
                 \/ /\ documents'[Top.file] # NoText
                    /\ scopes' = GetFileScope(scopes, Top.file, documents'[Top.file])
              /\ failed' = failed \cup {Top.file}
    BY <1>1, <1>4, LoadShape
  <2>2. scopes[f] = NoText \/ scopes[f] = documents[f]
    BY <1>2, <2>1 DEF Reloading
  <2>3. Top.file \in Files /\ Top \in Frames
    BY <1>1, <2>1, TopFacts DEF Frames
  <2>4. CASE failed' = failed \cup {Top.file}
    <3>1. f # Top.file
      BY <2>4
    <3>2. CASE scopes' = scopes
      BY <2>1, <2>2, <3>1, <3>2
    <3>3. CASE /\ documents'[Top.file] # NoText
               /\ scopes' = GetFileScope(scopes, Top.file, documents'[Top.file])
      <4>1. documents'[Top.file] \in VersionsOf[Top.file]
        BY <2>1, <2>3, <3>3 DEF Cache
      <4>2. scopes'[f] = scopes[f]
        BY <1>1, <2>3, <3>1, <3>3, <4>1, ScopeFacts
      <4>3. QED
        BY <2>1, <2>2, <3>1, <4>2
    <3>4. QED
      BY <2>1, <2>4, <3>2, <3>3
  <2>5. CASE /\ documents'[Top.file] # NoText
             /\ Replaced([Top EXCEPT !.at = "body", !.text = documents'[Top.file],
                                     !.todo = Text[documents'[Top.file]].children,
                                     !.left = CollectNestedInvocations(Top.prev)])
             /\ scopes' = GetFileScope(scopes, Top.file, documents'[Top.file])
    <3>1. documents'[Top.file] \in VersionsOf[Top.file]
      BY <2>1, <2>3, <2>5 DEF Cache
    <3>2. /\ f # Top.file => scopes'[f] = scopes[f]
          /\ f = Top.file => scopes'[f] = IF scopes[f] = NoText THEN documents'[f] ELSE scopes[f]
      BY <1>1, <2>3, <2>5, <3>1, ScopeFacts
    <3>3. CASE f # Top.file
      BY <2>1, <2>2, <3>2, <3>3
    <3>4. CASE f = Top.file /\ Top.prev = NoInst
      BY <2>1, <2>2, <3>2, <3>4
    <3>5. CASE f = Top.file /\ Top.prev # NoInst
      <4> DEFINE g == [Top EXCEPT !.at = "body", !.text = documents'[Top.file],
                                  !.todo = Text[documents'[Top.file]].children,
                                  !.left = CollectNestedInvocations(Top.prev)]
      <4>1. g.at = "body" /\ g.prev = Top.prev /\ g.file = Top.file
        BY <2>3 DEF Frames
      <4>2. Replaced(g)
        BY <2>5
      <4> HIDE DEF g
      <4>3. Len(stack') = Len(stack) /\ stack'[Len(stack)] = g /\ stack' \in Seq(Frames)
        BY <4>2 DEF Replaced
      <4>4. stack' # <<>> /\ Last(stack') = g
        <5>1. Len(stack) \in Nat /\ Len(stack) >= 1
          BY <1>1, <2>1, TopFacts
        <5>2. QED
          BY <4>3, <5>1, EmptySeq DEF Last
      <4>5. QED
        BY <3>5, <4>1, <4>4 DEF Reloading, Idle, Top
    <3>6. QED
      BY <3>3, <3>4, <3>5
  <2>6. QED
    BY <2>1, <2>4, <2>5
<1>5. CASE MountBody
  BY <1>2, <1>5 DEF MountBody, Reloading
<1>6. CASE ReloadFunction \/ ReloadClass
  <2>1. /\ ~Idle /\ Top.at = "body" /\ documents' = documents
        /\ f # Top.file => scopes'[f] = scopes[f]
        /\ scopes'[Top.file] = Top.text \/ failed' = failed \cup {Top.file}
    BY <1>1, <1>6, ReloadShape
  <2>2. Top = stack[Len(stack)] /\ Len(stack) \in DOMAIN stack
    BY <1>1, <2>1, TopFacts
  <2>3. documents[Top.file] = Top.text
    BY <2>1, <2>2 DEF DocumentStays
  <2>4. QED
    BY <1>2, <2>1, <2>3 DEF Reloading
<1>7. CASE ConvertChild \/ Return
  BY <1>2, <1>7 DEF ConvertChild, Return, Reloading
<1>8. CASE \/ \E g \in Files : Edit(g)
           \/ \E j \in Insts : EmptySlot(j) \/ InvokeInstanceCallable(j)
           \/ DropPrevious \/ UNCHANGED world
  BY <1>2, <1>8 DEF Edit, EmptySlot, InvokeInstanceCallable, DropPrevious, world, Reloading, Idle, Top
<1>9. CASE MountRoot \/ ReloadRoot \/ \E j \in Insts : RunSlot(j)
  BY <1>2, <1>9 DEF MountRoot, ReloadRoot, RunSlot, Reloading
<1>10. QED
  BY <1>3, <1>4, <1>5, <1>6, <1>7, <1>8, <1>9, Steps DEF Driver

\* The instance of a first run keeps its body while its block is converted.
LEMMA MountsStep ==
    ASSUME Sound, DocumentStays, TextsFollow, [Next]_vars, Sound'
    PROVE  MountsFollow'
<1> SUFFICES ASSUME NEW d \in DOMAIN stack', stack'[d].at = "convert", stack'[d].prev = NoInst,
                    stack'[d].file \notin failed'
             PROVE  inst'[stack'[d].inst].body = stack'[d].text
  BY DEF MountsFollow
<1>1. Basic /\ stack'[d].file \notin failed
  BY FailedGrows DEF Sound
<1>2. CASE d \in DOMAIN stack /\ SameCall(stack'[d], stack[d])
  <2>1. PICK i : i = stack[d].inst
    OBVIOUS
  <2>2. /\ stack[d].at = "convert" /\ stack[d].prev = NoInst /\ stack'[d].inst = i
        /\ inst[i].body = stack[d].text /\ stack[d].text = stack'[d].text
    BY <1>1, <1>2, <2>1 DEF SameCall, TextsFollow, MountsFollow
  <2>3. ~Idle
    BY <1>2, EmptyMap DEF Idle
  <2>4. FrameOK(stack, scopes, d) /\ FrameInst(stack[d], inst)
    BY <1>1, <1>2, <2>3, TopFacts DEF Basic, Mounted
  <2>5. i \in Insts /\ ~inst[i].mounted /\ inst[i].body # NoText
    BY <2>1, <2>2, <2>4 DEF FrameOK, FrameInst
  <2>6. inst'[i].body # NoText
    <3>1. FrameInst(stack'[d], inst')
      BY DEF Sound, Basic, Mounted
    <3>2. QED
      BY <2>2, <3>1 DEF FrameInst
  <2>7. inst[i] # Free /\ inst'[i] # Free
    BY <2>5, <2>6 DEF Free, Fresh
  <2>8. ~Reruns(i)
    <3>1. Top = stack[Len(stack)] /\ Len(stack) \in DOMAIN stack /\ FrameInst(Top, inst)
      BY <1>1, <2>3, TopFacts DEF Basic, Mounted
    <3>2. QED
      BY <2>5, <3>1 DEF Reruns, FrameInst, ReloadFunction, ReloadClass
  <2>9. inst'[i].body = inst[i].body
    BY <2>5, <2>7, <2>8, EachInstance DEF Untouched, Mounts, Returns, Writes
  <2>10. QED
    BY <2>2, <2>9
<1>3. CASE d = Len(stack) /\ ~Idle /\ Ran(stack'[d])
  <2>1. /\ MountBody /\ inst'[stack'[d].inst].body = scopes[Top.file] /\ stack'[d].file = Top.file
        /\ stack'[d].text = Top.text /\ Top.at = "body" /\ Top.prev = NoInst
    BY <1>3 DEF Ran, MountBody
  <2>2. /\ Top = stack[Len(stack)] /\ Len(stack) \in DOMAIN stack /\ Top \in Frames
        /\ FrameOK(stack, scopes, Len(stack))
    BY <1>1, <1>3, TopFacts
  <2>3. documents[Top.file] = Top.text /\ scopes[Top.file] # NoText /\ Top.file \in Files
    BY <2>1, <2>2 DEF DocumentStays, FrameOK, Frames
  <2>4. scopes[Top.file] = documents[Top.file]
    BY <1>1, <2>1, <2>3 DEF TextsFollow, ScopesFollow, Reloading
  <2>5. QED
    BY <2>1, <2>3, <2>4
<1>4. QED
  BY <1>2, <1>3, EachFrame DEF Loaded

LEMMA TextStep ==
    ASSUME Sound, TextsFollow, [Next]_vars
    PROVE  SameText'
<1> SUFFICES ASSUME NEW i \in Insts, inst'[i].mounted, inst'[i].file \notin failed'
             PROVE  inst'[i].body = inst'[i].block
  BY DEF SameText
<1>1. Basic /\ inst'[i].file \notin failed
  BY FailedGrows DEF Sound
<1>2. inst'[i] # Free
  BY DEF Free, Fresh
<1>3. ~Mounts(i)
  BY DEF Mounts
<1>4. CASE Untouched(i) \/ Writes(i)
  BY <1>1, <1>4 DEF Untouched, Writes, TextsFollow, SameText
<1>5. CASE Reruns(i)
  BY <1>5 DEF Reruns
<1>6. CASE Returns(i)
  <2>1. ~Idle /\ Top.at = "convert" /\ i = Top.inst
    BY <1>6 DEF Returns, Return
  <2>2. Top = stack[Len(stack)] /\ Len(stack) \in DOMAIN stack /\ FrameInst(Top, inst)
    BY <1>1, <2>1, TopFacts DEF Basic, Mounted
  <2>3. CASE Top.prev = NoInst
    <3>1. inst[i].file = Top.file /\ inst'[i].block = Top.text /\ inst'[i].body = inst[i].body
      BY <1>6, <2>1, <2>2, <2>3 DEF Returns, FrameInst
    <3>2. inst'[i].file = Top.file
      BY <1>6, <3>1 DEF Returns
    <3>3. inst[i].body = Top.text
      BY <1>1, <2>1, <2>2, <2>3, <3>2 DEF TextsFollow, MountsFollow
    <3>4. QED
      BY <3>1, <3>3
  <2>4. CASE Top.prev # NoInst
    <3>1. inst[i].mounted
      BY <2>1, <2>2, <2>4 DEF FrameInst
    <3>2. inst[i].body = inst[i].block
      BY <1>1, <1>6, <3>1 DEF TextsFollow, SameText, Returns
    <3>3. QED
      BY <1>6, <2>4, <3>2 DEF Returns
  <2>5. QED
    BY <2>3, <2>4
<1>7. QED
  BY <1>2, <1>3, <1>4, <1>5, <1>6, EachInstance

\* While no load or run of its file has failed, an instance's block and the body
\* it is evaluated in are of one text, although the document cache and the
\* interpreters are refreshed at different moments (IrisNyxDriver.cpp:
\* LoadDocument, GetFileScope, ReInvokeComponent).
THEOREM TextsAgree == Spec => []SameText
<1>1. Init => TextsFollow
  <2> SUFFICES ASSUME Init PROVE TextsFollow
    OBVIOUS
  <2>1. DOMAIN stack = {} /\ \A f \in Files : scopes[f] = NoText
    BY EmptyMap DEF Init
  <2>2. \A i \in Insts : inst[i].mounted = FALSE
    BY DEF Init, Free, Fresh
  <2>3. QED
    BY <2>1, <2>2 DEF TextsFollow, ScopesFollow, MountsFollow, SameText
<1>2. ASSUME Sound, DocumentStays, Sound', TextsFollow, [Next]_vars PROVE TextsFollow'
  <2>1. ScopesFollow'
    BY <1>2, ScopesStep DEF TextsFollow
  <2>2. MountsFollow'
    BY <1>2, MountsStep
  <2>3. SameText'
    BY <1>2, TextStep
  <2>4. QED
    BY <2>1, <2>2, <2>3 DEF TextsFollow
<1>3. TextsFollow => SameText
  BY DEF TextsFollow
<1>4. QED
  BY <1>1, <1>2, <1>3, SoundDocuments, PTL DEF Spec
=============================================================================
