------------------------------ MODULE NyxDriver ------------------------------
(***************************************************************************)
(* IrisNyxDriver: mounting, re-rendering and hot-reloading a tree of       *)
(* interpreted .irisx components, one component per file.  The recursion   *)
(* InvokeComponent -> ConvertIrElement -> InvokeChildComponent ->          *)
(* InvokeComponent is an explicit stack of frames, so the files on disk    *)
(* may be edited between any two steps of it.                              *)
(*                                                                         *)
(* A file's contents are one of a few texts; of a text the model keeps     *)
(* what the driver looks at: does it compile, has it a render block, does  *)
(* it declare its component (declares), can that be invoked (runs), which  *)
(* components its render block invokes in order (children) and through its *)
(* <Slot> (slot), what it imports, the @signal variables (or class fields) *)
(* it declares, with their kinds, and whether it declares a lifecycle hook *)
(* (ticks).                                                                *)
(* bare says the invocation is the root of the block itself.  The Nyx      *)
(* interpreter is external: its actions are what the driver relies on.     *)
(***************************************************************************)
EXTENDS Naturals, FiniteSets, Sequences, SequencesExt

CONSTANTS
    Files,        \* resolved paths, which are also the tags: one component each
    RootFile,     \* the entry component
    Classes,      \* the files that declare their component as a class
    VersionsOf,   \* per file, the texts the disk may hold
    Text,         \* what the driver sees in a text
    FirstDisk,    \* what the disk holds when the program starts
    MaxInstances, \* bound: component instances alive at once
    MaxEdits      \* bound: saves of a file in one behaviour

NoText == "none"
NoFile == "none"
NoInst == 0
Versions == UNION {VersionsOf[f] : f \in Files}
Insts == 1..MaxInstances

ASSUME DriverAssumption ==
    /\ RootFile \in Files /\ Classes \subseteq Files /\ NoFile \notin Files
    /\ MaxInstances \in Nat /\ MaxEdits \in Nat
    /\ NoText \notin Versions
    /\ FirstDisk \in [Files -> Versions] /\ \A f \in Files : FirstDisk[f] \in VersionsOf[f]
    /\ \A v \in Versions : /\ Text[v].children \in Seq(Files) /\ Text[v].slot \subseteq Files
                           /\ Text[v].bare => Len(Text[v].children) = 1

\* The components a file's texts invoke outside a slot.
StaticChildren(f) == UNION {Range(Text[v].children) : v \in VersionsOf[f]}

\* No component invokes itself, through others, outside a slot: its render
\* would not end.  The driver does not look for such a circle.
ASSUME RendersEnd ==
    \A S \in SUBSET Files : S # {} => \E f \in S : StaticChildren(f) \cap S = {}

VARIABLES
    disk,       \* the text every file has now
    documents,  \* Documents_: the compiled text the driver caches per file
    scopes,     \* FileScopes_: the text whose declarations the file's interpreter holds
    inst,       \* the component instances (and their NyxDriverState)
    root,       \* the Component the host holds: its last accepted root
    stack,      \* the calls of InvokeComponent in progress, innermost last
    ambient,    \* IrisRuntime's stack of component instances
    call,       \* whom the outermost call answers: the host, or a slot's instance
    failed,     \* history: files for which a load or an invocation has failed
    edits,      \* the number of saves so far
    fault       \* history: a slot run has read a Component that was freed

vars == <<disk, documents, scopes, inst, root, stack, ambient, call, failed, edits, fault>>

-----------------------------------------------------------------------------
(* Components and instances *)

Node(tag, i) == [tag |-> tag, inst |-> i]
NoNode == Node(NoFile, NoInst)

\* A previous invocation in a tree the host no longer holds: the pointer is left.
Freed(left) == left # <<>> /\ Head(left) = NoNode

Fresh(f, born) ==
    [file |-> f, born |-> born, mounted |-> FALSE, body |-> NoText,
     block |-> NoText, hooks |-> NoText, signals |-> <<>>,
     kids |-> <<>>, left |-> <<>>, slot |-> NoNode, inner |-> NoInst]
Free == Fresh(NoFile, "none")

\* GetDriverState: the instance, when this driver mounted something on it.
PriorOf(i) == IF i # NoInst /\ inst[i].mounted THEN i ELSE NoInst

\* Mutant: collected from the last to the first.
CollectFromLast(i) == IF i = NoInst THEN <<>> ELSE Reverse(inst[i].kids)

\* CollectNestedInvocations: the invocations of a component's own last output.
CollectNestedInvocations(i) == IF i = NoInst THEN <<>> ELSE inst[i].kids

\* What keeps an instance: the tree the host holds, a slot's output, and, for
\* the invocations its render's cursor has not reached yet (left), the tree the
\* host held before, as long as it keeps it: the cursor only points into it.
Held(is, i) ==
    LET nodes == Range(is[i].kids) \cup Range(is[i].left) \cup {is[i].slot}
    IN  ({n.inst : n \in nodes} \cup {is[i].inner}) \ {NoInst}
Reach(is, from) ==
    LET grow[n \in 0..MaxInstances] ==
            IF n = 0 THEN from
            ELSE grow[n - 1] \cup UNION {Held(is, i) : i \in grow[n - 1]}
    IN  grow[MaxInstances]
Release(is, r) ==
    LET live == Reach(is, {r.inst} \ {NoInst})
    IN  [i \in Insts |-> IF i \in live THEN is[i] ELSE Free]

-----------------------------------------------------------------------------
(* The two caches *)

\* LoadDocument: the cached document, or the file compiled; a failure is not cached.
LoadDocument(docs, f) ==
    IF docs[f] = NoText /\ Text[disk[f]].compiles
    THEN [docs EXCEPT ![f] = disk[f]] ELSE docs

\* Mutant: the whole cache is cleared.
InvalidateAll(docs, f) == [g \in Files |-> NoText]

InvalidateDocument(docs, f) == [docs EXCEPT ![f] = NoText]

\* GetFileScope: built once from the document at hand, then kept.
GetFileScope(scs, f, v) == IF scs[f] = NoText THEN [scs EXCEPT ![f] = v] ELSE scs

-----------------------------------------------------------------------------
(* Signals.  at is the instance the @signal decorator registered with,     *)
(* NoInst when there was no ambient instance: then nothing observes writes. *)

\* Mutant: a reload runs without making its instance ambient.
Unguarded(i) == ambient

\* ScopedComponentInstance around a run.
Guarded(i) == Append(ambient, i)

Ambient(amb) == IF amb = <<>> THEN NoInst ELSE Last(amb)

Declare(v, at) ==
    [n \in DOMAIN Text[v].signals |-> [kind |-> Text[v].signals[n], val |-> 0, at |-> at]]

\* ReInvokeComponent carries over what both runs declare, observed and of one kind.
Carries(old, new, n) ==
    /\ n \in DOMAIN old /\ n \in DOMAIN new
    /\ old[n].kind = new[n].kind /\ old[n].at # NoInst /\ new[n].at # NoInst
\* Mutant: the new run starts over.
StartOver(old, new) == new

CarryForward(old, new) ==
    [n \in DOMAIN new |->
        IF Carries(old, new, n) THEN [new[n] EXCEPT !.val = old[n].val] ELSE new[n]]

\* Mutant: a newly declared signal goes unnoticed.
CompareOld(old, new) ==
    IF \A n \in DOMAIN old : old[n].at # NoInst => Carries(old, new, n)
    THEN "Unchanged" ELSE "SignalLayoutChanged"

\* CompareEnvironments: the tier of a function's reload.
CompareEnvironments(old, new) ==
    IF /\ \A n \in DOMAIN old : old[n].at # NoInst => Carries(old, new, n)
       /\ \A n \in DOMAIN new : new[n].at # NoInst => n \in DOMAIN old /\ old[n].at # NoInst
    THEN "Unchanged" ELSE "SignalLayoutChanged"

\* FieldShape, before and after: the tier of a class's reload.
FieldShape(signals) == [n \in DOMAIN signals |-> signals[n].kind]
CompareShapes(old, new) ==
    IF FieldShape(old) = FieldShape(new) THEN "Unchanged" ELSE "SignalLayoutChanged"

\* ReconcileInstanceFields leaves a compatible field untouched and sets up the others.
ReconcileInstanceFields(old, new) ==
    [n \in DOMAIN new |->
        IF n \in DOMAIN old /\ old[n].kind = new[n].kind THEN old[n] ELSE new[n]]

-----------------------------------------------------------------------------
(* Frames *)

Frame(caller, f, prev) ==
    [at |-> IF caller = NoFile THEN "load" ELSE "import", caller |-> caller,
     file |-> f, prev |-> prev, text |-> NoText, inst |-> NoInst,
     todo |-> <<>>, kids |-> <<>>, left |-> <<>>, tier |-> "none"]

Top == Last(stack)
SetTop(f) == stack' = Append(Front(stack), f)
Idle == stack = <<>>

\* The result of the innermost call goes to its caller's children, to the
\* slot that ran, or to the host, which may keep its last root when the
\* reload produced nothing.  Instances nothing holds any more are destroyed.
Deliver(is, n) ==
    /\ stack' = IF Len(stack) = 1 THEN <<>>
                ELSE Append(Front(Front(stack)),
                            [stack[Len(stack) - 1] EXCEPT !.kids = Append(@, n)])
    /\ IF Len(stack) > 1 THEN /\ inst' = is
                              /\ UNCHANGED <<root, call>>
       ELSE /\ call' = NoInst
            /\ IF call = NoInst
               THEN root' \in {n} \cup (IF root # NoNode
                                           /\ (n.inst = NoInst \/ ~is[n.inst].mounted)
                                        THEN {root} ELSE {})
               ELSE UNCHANGED root
            /\ inst' = Release(IF call = NoInst THEN is
                               ELSE [is EXCEPT ![call].slot = n], root')

\* An early return of Component{nullptr}, which carries no instance.
Fail == /\ Deliver(inst, Node(Top.file, NoInst))
        /\ failed' = failed \cup {Top.file}

\* One component invocation of a render: the cursor moves past one previous
\* invocation, which is matched if it has the same tag.
Matched(left, tag) ==
    IF left # <<>> /\ Head(left).tag = tag THEN PriorOf(Head(left).inst) ELSE NoInst
\* Mutant: the cursor is not advanced.
Stuck(left) == left

Past(left) == IF left = <<>> THEN left ELSE Tail(left)

-----------------------------------------------------------------------------
(* Steps of the driver, on the innermost frame *)

\* InvokeChildComponent: the caller's imports say which file the tag names.
ImportChild ==
    /\ ~Idle /\ Top.at = "import"
    /\ LET docs == LoadDocument(documents, Top.caller)
           more == LoadDocument(docs, Top.file)
           imported == docs[Top.caller] # NoText /\ Top.file \in Text[docs[Top.caller]].imports
       IN  IF imported /\ more[Top.file] # NoText
           THEN /\ documents' = more
                /\ scopes' = GetFileScope(scopes, Top.file, more[Top.file])
                /\ SetTop([Top EXCEPT !.at = "load"])
                /\ UNCHANGED <<inst, root, call, failed>>
           ELSE /\ documents' = IF imported THEN more ELSE docs
                /\ Fail
                /\ UNCHANGED scopes
    /\ UNCHANGED <<disk, ambient, edits, fault>>

\* Mutant: a first mount reads the file again, too.
LoadAgain ==
    /\ ~Idle /\ Top.at = "load"
    /\ LET docs == LoadDocument(InvalidateDocument(documents, Top.file), Top.file)
           v == docs[Top.file]
           scope == IF v # NoText /\ Text[v].block
                    THEN GetFileScope(scopes, Top.file, v) ELSE scopes
       IN  /\ documents' = docs /\ scopes' = scope
           /\ IF v # NoText /\ Text[v].block /\ Text[scope[Top.file]].declares
              THEN /\ SetTop([Top EXCEPT !.at = "body", !.text = v,
                                         !.todo = Text[v].children,
                                         !.left = CollectNestedInvocations(Top.prev)])
                   /\ UNCHANGED <<inst, root, call, failed>>
              ELSE Fail
    /\ UNCHANGED <<disk, ambient, edits, fault>>

\* InvokeComponent up to the model split: a reload first forgets the cached
\* document; the file must compile and hold a render block, and the file's
\* interpreter must know the component, as a function or as a class that
\* extends Component.
Load ==
    /\ ~Idle /\ Top.at = "load"
    /\ LET before == IF Top.prev = NoInst THEN documents
                     ELSE InvalidateDocument(documents, Top.file)
           docs == LoadDocument(before, Top.file)
           v == docs[Top.file]
           scope == IF v # NoText /\ Text[v].block
                    THEN GetFileScope(scopes, Top.file, v) ELSE scopes
       IN  /\ documents' = docs /\ scopes' = scope
           /\ IF v # NoText /\ Text[v].block /\ Text[scope[Top.file]].declares
              THEN /\ SetTop([Top EXCEPT !.at = "body", !.text = v,
                                         !.todo = Text[v].children,
                                         !.left = CollectNestedInvocations(Top.prev)])
                   /\ UNCHANGED <<inst, root, call, failed>>
              ELSE Fail
    /\ UNCHANGED <<disk, ambient, edits, fault>>

Born == IF Len(stack) = 1 /\ call # NoInst THEN "slot" ELSE "static"

\* MountComponentInstance around a first run: the function or the class is
\* the one the file's interpreter holds.  A run that fails still leaves the
\* new instance on the empty Component it returns.  The instance is the first
\* free one (MaxInstances bounds how many there are).
MountBody ==
    /\ ~Idle /\ Top.at = "body" /\ Top.prev = NoInst
    /\ \E i \in Insts :
        /\ inst[i] = Free /\ \A k \in Insts : inst[k] = Free => i <= k
        /\ LET body == scopes[Top.file]
           IN  IF Text[body].runs \/ Top.file \in Classes
               THEN /\ ambient' = Guarded(i)
                    /\ inst' = [inst EXCEPT ![i] = [Fresh(Top.file, Born) EXCEPT
                                    !.body = body,
                                    !.signals = Declare(body, Ambient(ambient'))]]
                    /\ SetTop([Top EXCEPT !.at = "convert", !.inst = i])
                    /\ UNCHANGED <<root, call, failed>>
               ELSE /\ Deliver([inst EXCEPT ![i] = Fresh(Top.file, Born)], Node(Top.file, i))
                    /\ failed' = failed \cup {Top.file}
                    /\ UNCHANGED ambient
    /\ UNCHANGED <<disk, documents, scopes, edits, fault>>

\* BuildFreeFunctionLifecycleAdapter and BuildClassLifecycleAdapter: an adapter
\* over the scope of the run, when the text declares a hook.
BuildLifecycleAdapter(v) == IF Text[v].ticks THEN v ELSE NoText

\* Mutant: the lifecycle adapter of the previous run is kept.
KeepHooks(i, v, signals) ==
    [inst EXCEPT ![i].body = v, ![i].block = v, ![i].signals = signals]

\* The driver state and its lifecycle adapter are replaced by the new run's.
Rerun(i, v, signals) ==
    [inst EXCEPT ![i].body = v, ![i].block = v, ![i].hooks = BuildLifecycleAdapter(v), ![i].signals = signals]

\* ReInvokeComponent under the previous instance: the file's interpreter is
\* patched with the new text and the function runs again.  A run that fails
\* leaves the instance as it was; the patch may or may not have stuck.
ReloadFunction ==
    /\ ~Idle /\ Top.at = "body" /\ Top.prev # NoInst /\ Top.file \notin Classes
    /\ LET i == Top.prev
           declared == Declare(Top.text, Ambient(Guarded(i)))
           new == CarryForward(inst[i].signals, declared)
           patched == [scopes EXCEPT ![Top.file] = Top.text]
       IN  IF Text[Top.text].runs
           THEN /\ scopes' = patched
                /\ inst' = Rerun(i, Top.text, new)
                /\ SetTop([Top EXCEPT !.at = "convert", !.inst = i,
                                      !.tier = CompareEnvironments(inst[i].signals, new)])
                /\ UNCHANGED <<root, call, failed>>
           ELSE /\ scopes' \in {scopes, patched}
                /\ Fail
    /\ UNCHANGED <<disk, documents, ambient, edits, fault>>

\* PatchClass and ReconcileInstanceFields on the same live object.
ReloadClass ==
    /\ ~Idle /\ Top.at = "body" /\ Top.prev # NoInst /\ Top.file \in Classes
    /\ LET i == Top.prev
           declared == Declare(Top.text, Ambient(Guarded(i)))
           new == ReconcileInstanceFields(inst[i].signals, declared)
       IN  /\ scopes' = [scopes EXCEPT ![Top.file] = Top.text]
           /\ inst' = Rerun(i, Top.text, new)
           /\ SetTop([Top EXCEPT !.at = "convert", !.inst = i,
                                 !.tier = CompareShapes(inst[i].signals, new)])
    /\ UNCHANGED <<disk, documents, root, ambient, call, failed, edits, fault>>

\* ConvertComponentInvocation, through the frame's ChildInvoker.
ConvertChild ==
    /\ ~Idle /\ Top.at = "convert" /\ Top.todo # <<>>
    /\ stack' = Append(Append(Front(stack), [Top EXCEPT !.todo = Tail(@), !.left = Past(@)]),
                       Frame(Top.file, Head(Top.todo), Matched(Top.left, Head(Top.todo))))
    /\ UNCHANGED <<disk, documents, scopes, inst, root, ambient, call, failed, edits, fault>>

\* The block is converted: a first mount stores its driver state only now;
\* AdoptResultInstance gives the result to the instance.  When the block's
\* root is itself an invocation, the result is that component's output.
Return ==
    /\ ~Idle /\ Top.at = "convert" /\ Top.todo = <<>>
    /\ LET i == Top.inst
           first == Top.prev = NoInst
           inner == IF Text[Top.text].bare THEN Top.kids[1].inst ELSE NoInst
           done == [(IF first THEN [inst[i] EXCEPT !.block = Top.text, !.hooks = BuildLifecycleAdapter(inst[i].body)]
                     ELSE inst[i])
                    EXCEPT !.mounted = TRUE, !.inner = inner, !.slot = NoNode,
                           !.kids = IF Text[Top.text].bare
                                    THEN CollectNestedInvocations(inner) ELSE Top.kids,
                           !.left = IF Text[Top.text].slot = {} THEN <<>> ELSE Top.left]
       IN  /\ Deliver([inst EXCEPT ![i] = done], Node(Top.file, i))
           /\ ambient' = IF first THEN Front(ambient) ELSE ambient
    /\ UNCHANGED <<disk, documents, scopes, failed, edits, fault>>

-----------------------------------------------------------------------------
(* The host *)

\* An author saves a file.
Edit(f) ==
    /\ edits < MaxEdits /\ edits' = edits + 1
    /\ \E v \in VersionsOf[f] \ {disk[f]} : disk' = [disk EXCEPT ![f] = v]
    /\ UNCHANGED <<documents, scopes, inst, root, stack, ambient, call, failed, fault>>

MountRoot ==
    /\ Idle /\ root = NoNode
    /\ stack' = <<Frame(NoFile, RootFile, NoInst)>>
    /\ UNCHANGED <<disk, documents, scopes, inst, root, ambient, call, failed, edits, fault>>

ReloadRoot ==
    /\ Idle /\ root # NoNode
    /\ stack' = <<Frame(NoFile, RootFile, PriorOf(root.inst))>>
    /\ UNCHANGED <<disk, documents, scopes, inst, root, ambient, call, failed, edits, fault>>

\* ReloadTarget::Reconcile ends by replacing the tree it kept with the new
\* one.  The Components a render's cursor still points at are freed with it,
\* and the instances nothing else holds.
DropPrevious ==
    /\ Idle /\ \E i \in Insts : \E n \in Range(inst[i].left) : n # NoNode
    /\ inst' = Release([i \in Insts |-> [inst[i] EXCEPT !.left = [k \in DOMAIN @ |-> NoNode]]],
                       root)
    /\ UNCHANGED <<disk, documents, scopes, root, stack, ambient, call, failed, edits, fault>>

\* EvaluateSlot, when iris::Tick runs the slot of a mounted component: the
\* picked element goes through the ChildInvoker, and so the cursor, of the
\* render that made the slot.
RunSlot(i) ==
    /\ Idle /\ inst[i].mounted /\ ~Freed(inst[i].left)
    /\ \E tag \in Text[inst[i].block].slot :
           /\ stack' = <<Frame(inst[i].file, tag, Matched(inst[i].left, tag))>>
           /\ inst' = [inst EXCEPT ![i].left = Past(@)]
    /\ call' = i
    /\ UNCHANGED <<disk, documents, scopes, root, ambient, failed, edits, fault>>

\* The same run when the cursor stands at a freed Component, whose tag it
\* compares and whose instance it would take over: what follows is undefined,
\* and the model stops.
RunSlotOnFreed(i) ==
    /\ Idle /\ inst[i].mounted /\ Freed(inst[i].left)
    /\ Text[inst[i].block].slot # {}
    /\ fault' = TRUE
    /\ UNCHANGED <<disk, documents, scopes, inst, root, stack, ambient, call, failed, edits>>

\* EvaluateSlot when the escape hatch picks nothing.
EmptySlot(i) ==
    /\ Idle /\ inst[i].slot # NoNode
    /\ inst' = Release([inst EXCEPT ![i].slot = NoNode], root)
    /\ UNCHANGED <<disk, documents, scopes, root, stack, ambient, call, failed, edits, fault>>

\* A handler, or the host through InvokeInstanceCallable, writes a signal.
InvokeInstanceCallable(i) ==
    /\ Idle /\ inst[i].mounted
    /\ \E n \in DOMAIN inst[i].signals : inst' = [inst EXCEPT ![i].signals[n].val = 1]
    /\ UNCHANGED <<disk, documents, scopes, root, stack, ambient, call, failed, edits, fault>>

-----------------------------------------------------------------------------

Init ==
    /\ disk = FirstDisk
    /\ documents = [f \in Files |-> NoText]
    /\ scopes = [f \in Files |-> NoText]
    /\ inst = [i \in Insts |-> Free]
    /\ root = NoNode
    /\ stack = <<>> /\ ambient = <<>> /\ call = NoInst /\ failed = {}
    /\ edits = 0 /\ fault = FALSE

Driver == \/ ImportChild \/ Load \/ MountBody \/ ReloadFunction \/ ReloadClass
          \/ ConvertChild \/ Return

Running == \/ Driver
           \/ \E f \in Files : Edit(f)
           \/ MountRoot \/ ReloadRoot \/ DropPrevious
           \/ \E i \in Insts : \/ RunSlot(i) \/ RunSlotOnFreed(i)
                             \/ EmptySlot(i) \/ InvokeInstanceCallable(i)

Next == ~fault /\ Running

Spec == Init /\ [][Next]_vars

-----------------------------------------------------------------------------
(* Properties *)

\* InvokeComponent holds a pointer into a cached document while it converts
\* its render block, and the components below it invalidate documents of
\* their own: none of them is the one being rendered.
DocumentStays ==
    \A d \in DOMAIN stack : stack[d].at \in {"body", "convert"} =>
        documents[stack[d].file] = stack[d].text

\* Two places of the tree never share an instance: a render's cursor hands
\* every previous invocation out at most once, to a static child or, when
\* the new text has fewer of those, to a child its slot runs into while the
\* host still keeps the tree before.
Places(i) ==
    [k \in DOMAIN inst[i].kids |-> inst[i].kids[k].inst] \o <<inst[i].slot.inst>>
Own(i) == inst[i].inner = NoInst
OneHolder ==
    Idle => \A i, j \in {h \in Insts : inst[h].mounted /\ Own(h)} :
        \A k \in DOMAIN Places(i), l \in DOMAIN Places(j) :
            Places(i)[k] # NoInst /\ Places(i)[k] = Places(j)[l] => i = j /\ k = l

\* What a slot's closures captured is still something valid to reference when
\* Tick runs the slot again long after the render: no run reads a previous
\* invocation whose tree the host has replaced.
LeftoverIsAlive == ~fault

\* While no load or run of its file has failed, a component's render block
\* and the body it is evaluated in come from one text, although the document
\* cache and the interpreters are refreshed at different moments.
SameText ==
    \A i \in Insts : inst[i].mounted /\ inst[i].file \notin failed =>
        inst[i].body = inst[i].block

\* The lifecycle hooks an instance runs are those of its current scope, not
\* of the scope a reload has destroyed.
HooksAreCurrent ==
    \A i \in Insts : inst[i].mounted /\ inst[i].hooks # NoText => inst[i].hooks = inst[i].body

\* Every signal of a component notifies the component's own instance, also
\* after reloads, and although other components run in between.
OwnSignals ==
    \A i \in Insts : \A n \in DOMAIN inst[i].signals : inst[i].signals[n].at = i

\* A reload keeps the instance of a nested component whose tag is still at
\* the same position, unless its own reload fails.
PositionsKept ==
    \A d \in DOMAIN stack :
        LET f == stack[d]
            olds == IF f.prev = NoInst THEN <<>> ELSE inst[f.prev].kids
        IN  \A k \in DOMAIN f.kids \cap DOMAIN olds :
                f.kids[k].tag = olds[k].tag /\ PriorOf(olds[k].inst) # NoInst =>
                    f.kids[k].inst \in {olds[k].inst, NoInst}

\* A signal a component keeps, with its kind, keeps its value across every
\* step but a write: no reload of it or of another component resets it.
ValuesSurvive ==
    [][\A i \in Insts : \A n \in DOMAIN inst[i].signals \cap DOMAIN inst'[i].signals :
           /\ inst[i].file = inst'[i].file /\ inst[i].signals[n].kind = inst'[i].signals[n].kind
           => \/ inst'[i].signals[n].val = inst[i].signals[n].val
              \/ InvokeInstanceCallable(i)]_vars

\* The tier a reload reports is what the reconciler and the host trust: when
\* it says Unchanged, every signal is there, of its kind, with its value.
UnchangedKeepsState ==
    [][~Idle /\ Top.at = "body" /\ Top.prev # NoInst
       /\ stack' # <<>> /\ Last(stack').tier = "Unchanged" =>
           inst'[Top.prev].signals = inst[Top.prev].signals]_vars

\* What ReloadRoot's comment says: the entry file is read from disk again,
\* whatever the cache holds.  Between the host's call and the end of the
\* entry's load no text is rendered that the disk did not hold.
ReloadReadsDisk ==
    [][Load /\ Len(stack) = 1 /\ call = NoInst /\ root # NoNode /\ stack' # <<>> =>
           Last(stack').text = disk[RootFile]]_vars

=============================================================================
