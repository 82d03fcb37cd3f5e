----------------------------- MODULE SlotRuntime -----------------------------
(***************************************************************************)
(* The reactive core of the Iris runtime: signals, the registry of who     *)
(* reads them, the SlotState objects that re-run <Slot> callables, and the *)
(* IrisRuntime singleton that queues dirty slots and reconciles them.      *)
(* Source: src/Iris/SlotRuntime.cpp, include/Iris/SlotRuntime.h,           *)
(* include/Iris/Signal.h, src/Iris/SlotResolution.cpp.                     *)
(*                                                                         *)
(* Everything runs on the one main thread, but not atomically: a slot's    *)
(* Reconcile() calls component code in its middle, which reads and writes  *)
(* signals, and it destroys and recreates the slots nested in its output.  *)
(* The control stack of that thread is explicit here: rest (Notify's       *)
(* loop), dying (the ~SlotState recursion), chain (the Reconcile frames),  *)
(* snapshot (ReconcileDirtySlots' loop). The host acts when all are empty. *)
(*                                                                         *)
(* A SlotState is named by its address, since that is what the queue, the  *)
(* registry and the pass hold: an address is free, or holds the SlotState  *)
(* of one <Slot> site, and a freed address may be allocated again.         *)
(*                                                                         *)
(* Data left out: widgets and their positions, the Component trees, the    *)
(* values of signals. A run's output is only the set of <Slot>s found in   *)
(* it. What a slot has seen of a signal is only whether it is current.     *)
(***************************************************************************)
EXTENDS Naturals, Sequences, SequencesExt

CONSTANTS
    Signal,      \* the signals of the program
    Site,        \* the <Slot> occurrences of the component tree
    RootSite,    \* the sites the host resolves itself (ResolveSlots on a tree)
    Kids,        \* Kids[s]: the sites a run of s may find in its own output
    Level,       \* Level[s]: how deep s is nested
    Addr,        \* the addresses a SlotState may be allocated at
    NoSite,      \* "no SlotState at this address"
    Host,        \* the owner of the slots that no other slot owns
    MaxDepth,    \* bound: nesting of BeginBatch
    MaxWrites    \* bound: writes one run of a callable performs

\* A component tree is well founded: a slot is deeper than the slot it is in.
ASSUME SiteAssumption ==
    /\ RootSite \subseteq Site
    /\ Kids \in [Site -> SUBSET Site]
    /\ Level \in [Site -> Nat]
    /\ \A s \in Site : \A k \in Kids[s] : Level[s] < Level[k]

\* A <Slot> is written in one place: the output of one other slot may hold it,
\* or the tree the host resolves, never two of these.
ASSUME OccurrenceAssumption ==
    /\ \A s, t \in Site : Kids[s] \intersect Kids[t] # {} => s = t
    /\ \A s \in Site : Kids[s] \intersect RootSite = {}

ASSUME NameAssumption ==
    /\ NoSite \notin Site
    /\ Host \notin Addr
    /\ Signal # {}
    /\ MaxDepth \in Nat
    /\ MaxWrites \in Nat

VARIABLES
    site,      \* the site of the SlotState at an address, NoSite when free
    owner,     \* whose NestedSlots_ holds it, or Host
    dirty,     \* SlotState::Dirty_
    subs,      \* SignalRegistry::Subscribers_, without repeated entries
    queue,     \* IrisRuntime::DirtySlots_
    active,    \* IrisRuntime::ActiveSlotStack_, top first
    batch,     \* IrisRuntime::BatchDepth_
    rest,      \* SignalRegistry::Notify: the subscribers still to mark
    dying,     \* the ~SlotState calls in progress, innermost first
    chain,     \* the SlotState::Reconcile calls in progress, innermost first
    snapshot,  \* ReconcileDirtySlots: the part of Snapshot still to visit
    fault,     \* the pass has called Reconcile on a freed SlotState
    reads,     \* history: the signals the last run of a slot's callable read
    behind     \* history: the signals written since that run read them

object  == <<site, owner, dirty>>
control == <<rest, dying, chain, snapshot>>
history == <<reads, behind>>
vars    == <<object, subs, queue, active, batch, control, fault, history>>

Phase == {"clear", "call", "discover"}
Frame == [slot : Addr, pc : Phase, todo : SUBSET Site, writes : 0..MaxWrites]

Live(a)  == site[a] # NoSite
NestedIn(a) == {c \in Addr : Live(c) /\ owner[c] = a}
Distinct(s) == \A i, j \in DOMAIN s : s[i] = s[j] => i = j

\* Pointers are unique in the registry and in the queue, so erase-remove takes
\* out at most one entry.
Without(s, a) ==
    IF Contains(s, a) THEN RemoveAt(s, CHOOSE i \in DOMAIN s : s[i] = a) ELSE s

\* Mutant: RegisterDirtySlot without its search.
AppendTwice(s, a) == Append(s, a)

\* TrackRead appends the slot again on every read. Notify's MarkDirty and
\* ClearSlot's erase cannot tell a repeated entry from one, so it is left out.
AppendNew(s, a) == IF Contains(s, a) THEN s ELSE Append(s, a)

\* ClearSlot: the slot's subscriptions on any signal.
ClearSlot(a) == [s \in Signal |-> Without(subs[s], a)]

\* TrackSignalDependency: subscribe the active slot, if there is one.
TrackRead(s) ==
    IF active = <<>> THEN subs
    ELSE [subs EXCEPT ![s] = AppendNew(@, Head(active))]

\* The host runs when no runtime call is in progress.
Idle == rest = <<>> /\ dying = <<>> /\ chain = <<>> /\ snapshot = <<>> /\ ~fault

\* Component code or the runtime runs in the innermost Reconcile.
InFrame(pc) ==
    /\ rest = <<>> /\ dying = <<>> /\ chain # <<>>
    /\ Head(chain).pc = pc

\* SlotState::Reconcile up to the point where it discards its nested slots.
EnterFrame(a) == [slot |-> a, pc |-> "clear", todo |-> {}, writes |-> 0]

ReplaceTop(frame) == <<frame>> \o Tail(chain)

\* A SlotState that has not run yet is behind on every signal.
Construct(a, s, o) ==
    /\ ~Live(a)
    /\ site' = [site EXCEPT ![a] = s]
    /\ owner' = [owner EXCEPT ![a] = o]
    /\ dirty' = [dirty EXCEPT ![a] = FALSE]
    /\ behind' = [behind EXCEPT ![a] = Signal]
    /\ reads' = [reads EXCEPT ![a] = {}]

Init ==
    /\ site = [a \in Addr |-> NoSite]
    /\ owner = [a \in Addr |-> Host]
    /\ dirty = [a \in Addr |-> FALSE]
    /\ subs = [s \in Signal |-> <<>>]
    /\ queue = <<>>
    /\ active = <<>>
    /\ batch = 0
    /\ rest = <<>> /\ dying = <<>> /\ chain = <<>> /\ snapshot = <<>>
    /\ fault = FALSE
    /\ reads = [a \in Addr |-> {}]
    /\ behind = [a \in Addr |-> {}]

-----------------------------------------------------------------------------
(* Signal<T>::set: the value changes, then Notify walks the subscribers.   *)

Write(s) ==
    /\ behind' = [a \in Addr |-> IF s \in reads[a] THEN behind[a] \union {s} ELSE behind[a]]
    /\ rest' = subs[s]

\* Mutant: outside a batch the slot is only flagged.
MarkDirtyUnqueued ==
    /\ rest # <<>>
    /\ dirty' = [dirty EXCEPT ![Head(rest)] = TRUE]
    /\ queue' = IF batch > 0 THEN AppendNew(queue, Head(rest)) ELSE queue
    /\ rest' = Tail(rest)
    /\ UNCHANGED <<site, owner, subs, active, batch, dying, chain, snapshot, fault, history>>

MarkDirty ==
    /\ rest # <<>>
    /\ dirty' = [dirty EXCEPT ![Head(rest)] = TRUE]
    /\ queue' = AppendNew(queue, Head(rest))
    /\ rest' = Tail(rest)
    /\ UNCHANGED <<site, owner, subs, active, batch, dying, chain, snapshot, fault, history>>

-----------------------------------------------------------------------------
(* What the host does between runtime calls.                               *)

\* ResolveSlots (or a standalone owner) constructs a slot and reconciles it.
HostMount(s, a) ==
    /\ Idle
    /\ \A b \in Addr : site[b] # s
    /\ Construct(a, s, Host)
    /\ chain' = <<EnterFrame(a)>>
    /\ UNCHANGED <<subs, queue, active, batch, rest, dying, snapshot, fault>>

\* The owner calls Reconcile itself; a clean slot returns at once.
HostReconcile(a) ==
    /\ Idle
    /\ Live(a) /\ owner[a] = Host /\ dirty[a]
    /\ dirty' = [dirty EXCEPT ![a] = FALSE]
    /\ chain' = <<EnterFrame(a)>>
    /\ UNCHANGED <<site, owner, subs, queue, active, batch, rest, dying, snapshot, fault, history>>

HostUnmount(a) ==
    /\ Idle
    /\ Live(a) /\ owner[a] = Host
    /\ dying' = <<a>>
    /\ UNCHANGED <<object, subs, queue, active, batch, rest, chain, snapshot, fault, history>>

HostSet(s) ==
    /\ Idle
    /\ Write(s)
    /\ UNCHANGED <<object, subs, queue, active, batch, dying, chain, snapshot, fault, reads>>

\* An event handler reads a signal: no slot is active, nothing subscribes.
HostGet(s) ==
    /\ Idle
    /\ subs' = TrackRead(s)
    /\ UNCHANGED <<object, queue, active, batch, control, fault, history>>

BeginBatch ==
    /\ Idle /\ batch < MaxDepth
    /\ batch' = batch + 1
    /\ UNCHANGED <<object, subs, queue, active, control, fault, history>>

\* ReconcileDirtySlots swaps the queue into its Snapshot before it loops.
StartPass ==
    /\ snapshot' = queue
    /\ queue' = <<>>

EndBatch ==
    /\ Idle
    /\ batch' = IF batch > 0 THEN batch - 1 ELSE 0
    /\ IF batch' = 0 THEN StartPass ELSE UNCHANGED <<snapshot, queue>>
    /\ UNCHANGED <<object, subs, active, rest, dying, chain, fault, history>>

\* Mutant: Tick leaves an open batch alone.
TickOutsideBatch ==
    /\ Idle /\ batch = 0
    /\ StartPass
    /\ UNCHANGED <<object, subs, active, batch, rest, dying, chain, fault, history>>

Tick ==
    /\ Idle
    /\ StartPass
    /\ UNCHANGED <<object, subs, active, batch, rest, dying, chain, fault, history>>

-----------------------------------------------------------------------------
(* ReconcileDirtySlots: one iteration of the loop over Snapshot.           *)

AtPass == rest = <<>> /\ dying = <<>> /\ chain = <<>> /\ snapshot # <<>> /\ ~fault

\* Mutant: Reconcile without its early return for a clean slot.
VisitAny ==
    /\ AtPass /\ Live(Head(snapshot))
    /\ dirty' = [dirty EXCEPT ![Head(snapshot)] = FALSE]
    /\ chain' = <<EnterFrame(Head(snapshot))>>
    /\ snapshot' = Tail(snapshot)
    /\ UNCHANGED <<site, owner, subs, queue, active, batch, rest, dying, fault, history>>

VisitDirty ==
    /\ AtPass /\ Live(Head(snapshot)) /\ dirty[Head(snapshot)]
    /\ dirty' = [dirty EXCEPT ![Head(snapshot)] = FALSE]
    /\ chain' = <<EnterFrame(Head(snapshot))>>
    /\ snapshot' = Tail(snapshot)
    /\ UNCHANGED <<site, owner, subs, queue, active, batch, rest, dying, fault, history>>

VisitClean ==
    /\ AtPass /\ Live(Head(snapshot)) /\ ~dirty[Head(snapshot)]
    /\ snapshot' = Tail(snapshot)
    /\ UNCHANGED <<object, subs, queue, active, batch, rest, dying, chain, fault, history>>

\* Undefined behaviour: the model stops here.
VisitFreed ==
    /\ AtPass /\ ~Live(Head(snapshot))
    /\ fault' = TRUE
    /\ UNCHANGED <<object, subs, queue, active, batch, control, history>>

-----------------------------------------------------------------------------
(* ~SlotState: nested slots first, then the slot's own registrations.      *)

DestroyNested(c) ==
    /\ rest = <<>> /\ dying # <<>>
    /\ c \in NestedIn(Head(dying))
    /\ dying' = <<c>> \o dying
    /\ UNCHANGED <<object, subs, queue, active, batch, rest, chain, snapshot, fault, history>>

\* Mutant: the destructor does not unregister its slot from DirtySlots_.
DestroyQueued ==
    /\ rest = <<>> /\ dying # <<>>
    /\ NestedIn(Head(dying)) = {}
    /\ LET d == Head(dying) IN
        /\ subs' = ClearSlot(d)
        /\ active' = Without(active, d)
        /\ site' = [site EXCEPT ![d] = NoSite]
        /\ owner' = [owner EXCEPT ![d] = Host]
        /\ dirty' = [dirty EXCEPT ![d] = FALSE]
        /\ reads' = [reads EXCEPT ![d] = {}]
        /\ behind' = [behind EXCEPT ![d] = {}]
    /\ dying' = Tail(dying)
    /\ UNCHANGED <<queue, batch, rest, chain, snapshot, fault>>

Destroy ==
    /\ rest = <<>> /\ dying # <<>>
    /\ NestedIn(Head(dying)) = {}
    /\ LET d == Head(dying) IN
        /\ subs' = ClearSlot(d)
        /\ queue' = Without(queue, d)
        /\ active' = Without(active, d)
        /\ site' = [site EXCEPT ![d] = NoSite]
        /\ owner' = [owner EXCEPT ![d] = Host]
        /\ dirty' = [dirty EXCEPT ![d] = FALSE]
        /\ reads' = [reads EXCEPT ![d] = {}]
        /\ behind' = [behind EXCEPT ![d] = {}]
    /\ dying' = Tail(dying)
    /\ UNCHANGED <<batch, rest, chain, snapshot, fault>>

-----------------------------------------------------------------------------
(* SlotState::Reconcile, from NestedSlots_.clear() to its return.          *)

ClearNested(c) ==
    /\ InFrame("clear")
    /\ c \in NestedIn(Head(chain).slot)
    /\ dying' = <<c>>
    /\ UNCHANGED <<object, subs, queue, active, batch, rest, chain, snapshot, fault, history>>

\* Mutant: a re-run keeps the nested slots of the last one.
InvokeUncleared ==
    /\ InFrame("clear")
    /\ LET a == Head(chain).slot IN
        /\ subs' = ClearSlot(a)
        /\ active' = <<a>> \o active
        /\ reads' = [reads EXCEPT ![a] = {}]
        /\ behind' = [behind EXCEPT ![a] = {}]
    /\ chain' = ReplaceTop([Head(chain) EXCEPT !.pc = "call"])
    /\ UNCHANGED <<object, queue, batch, rest, dying, snapshot, fault>>

Invoke ==
    /\ InFrame("clear")
    /\ NestedIn(Head(chain).slot) = {}
    /\ LET a == Head(chain).slot IN
        /\ subs' = ClearSlot(a)
        /\ active' = <<a>> \o active
        /\ reads' = [reads EXCEPT ![a] = {}]
        /\ behind' = [behind EXCEPT ![a] = {}]
    /\ chain' = ReplaceTop([Head(chain) EXCEPT !.pc = "call"])
    /\ UNCHANGED <<object, queue, batch, rest, dying, snapshot, fault>>

CallableGet(s) ==
    /\ InFrame("call")
    /\ subs' = TrackRead(s)
    /\ reads' = [reads EXCEPT ![Head(chain).slot] = @ \union {s}]
    /\ UNCHANGED <<object, queue, active, batch, control, fault, behind>>

CallableSet(s) ==
    /\ InFrame("call")
    /\ Head(chain).writes < MaxWrites
    /\ Write(s)
    /\ chain' = ReplaceTop([Head(chain) EXCEPT !.writes = @ + 1])
    /\ UNCHANGED <<object, subs, queue, active, batch, dying, snapshot, fault, reads>>

\* Mutant: Dirty_ is reset after the callable instead of before it.
CallableReturnCleaned(todo) ==
    /\ InFrame("call")
    /\ todo \subseteq Kids[site[Head(chain).slot]]
    /\ active' = Tail(active)
    /\ dirty' = [dirty EXCEPT ![Head(chain).slot] = FALSE]
    /\ chain' = ReplaceTop([Head(chain) EXCEPT !.pc = "discover", !.todo = todo])
    /\ UNCHANGED <<site, owner, subs, queue, batch, rest, dying, snapshot, fault, history>>

\* Mutant: PopActiveSlot is forgotten.
CallableReturnActive(todo) ==
    /\ InFrame("call")
    /\ todo \subseteq Kids[site[Head(chain).slot]]
    /\ chain' = ReplaceTop([Head(chain) EXCEPT !.pc = "discover", !.todo = todo])
    /\ UNCHANGED <<object, subs, queue, active, batch, rest, dying, snapshot, fault, history>>

\* The callable's output, once applied to the widgets, holds the slots in todo.
CallableReturn(todo) ==
    /\ InFrame("call")
    /\ todo \subseteq Kids[site[Head(chain).slot]]
    /\ active' = Tail(active)
    /\ chain' = ReplaceTop([Head(chain) EXCEPT !.pc = "discover", !.todo = todo])
    /\ UNCHANGED <<object, subs, queue, batch, rest, dying, snapshot, fault, history>>

\* DiscoverNestedSlots: each <Slot> found gets a SlotState, reconciled at once.
DiscoverNested(k, c) ==
    /\ InFrame("discover")
    /\ k \in Head(chain).todo
    /\ Construct(c, k, Head(chain).slot)
    /\ chain' = <<EnterFrame(c)>> \o ReplaceTop([Head(chain) EXCEPT !.todo = @ \ {k}])
    /\ UNCHANGED <<subs, queue, active, batch, rest, dying, snapshot, fault>>

Return ==
    /\ InFrame("discover")
    /\ Head(chain).todo = {}
    /\ chain' = Tail(chain)
    /\ UNCHANGED <<object, subs, queue, active, batch, rest, dying, snapshot, fault, history>>

-----------------------------------------------------------------------------
HostStep ==
    \/ \E s \in RootSite, a \in Addr : HostMount(s, a)
    \/ \E a \in Addr : HostReconcile(a) \/ HostUnmount(a)
    \/ \E s \in Signal : HostSet(s) \/ HostGet(s)
    \/ BeginBatch
    \/ EndBatch

RuntimeStep ==
    \/ MarkDirty
    \/ VisitDirty \/ VisitClean \/ VisitFreed
    \/ Destroy
    \/ \E c \in Addr : DestroyNested(c) \/ ClearNested(c)
    \/ Invoke
    \/ \E s \in Signal : CallableGet(s) \/ CallableSet(s)
    \/ \E todo \in SUBSET Site : CallableReturn(todo)
    \/ \E k \in Site, c \in Addr : DiscoverNested(k, c)
    \/ Return

Next == HostStep \/ Tick \/ RuntimeStep

Spec == Init /\ [][Next]_vars

\* A runtime call that was entered runs on, a callable returns, and the frame
\* loop calls Tick every frame whatever events it dispatches in between.
Fairness == WF_vars(RuntimeStep) /\ SF_vars(Tick)

FairSpec == Spec /\ Fairness

-----------------------------------------------------------------------------
(* Properties.                                                             *)

Rerunning(a) == \E i \in DOMAIN chain : chain[i].slot = a /\ chain[i].pc = "clear"
Calling(a)   == \E i \in DOMAIN chain : chain[i].slot = a /\ chain[i].pc = "call"

\* Every variable has its type, and RegisterDirtySlot's search keeps the queue
\* and the pass free of repeated slots.
TypeOK ==
    /\ site \in [Addr -> Site \union {NoSite}]
    /\ owner \in [Addr -> Addr \union {Host}]
    /\ dirty \in [Addr -> BOOLEAN]
    /\ subs \in [Signal -> Seq(Addr)]
    /\ queue \in Seq(Addr) /\ Distinct(queue)
    /\ active \in Seq(Addr)
    /\ batch \in 0..MaxDepth
    /\ rest \in Seq(Addr) /\ dying \in Seq(Addr)
    /\ chain \in Seq(Frame)
    /\ snapshot \in Seq(Addr) /\ Distinct(snapshot)
    /\ fault \in BOOLEAN
    /\ reads \in [Addr -> SUBSET Signal]
    /\ behind \in [Addr -> SUBSET Signal]

\* No long-lived pointer names a destroyed slot: neither the dirty queue, nor
\* the registry (whose entries Notify dereferences), nor the active-slot stack,
\* nor a Reconcile or ~SlotState call in progress, nor a nested slot its owner.
\* Only the pass's own Snapshot, which UnregisterSlot cannot reach, is left out.
NoDangling ==
    /\ \A a \in Addr :
          Contains(queue, a) \/ Contains(active, a) \/ Contains(dying, a) \/ Contains(rest, a)
             => Live(a)
    /\ \A a \in Addr, s \in Signal : Contains(subs[s], a) => Live(a)
    /\ \A i \in DOMAIN chain : Live(chain[i].slot)
    /\ \A a \in Addr : Live(a) /\ owner[a] # Host => Live(owner[a])

\* The registry holds exactly the signals that the last run of each slot's
\* callable read: the ambient active-slot stack attributes every read to the
\* slot that runs, and none to it when component code outside a run reads.
SubscriptionsExact ==
    \A a \in Addr, s \in Signal : Contains(subs[s], a) <=> s \in reads[a]

\* A write is never lost: a slot that has not seen the newest value of a signal
\* it read is dirty and waits in the queue or in the pass, or Notify is about
\* to mark it, or Reconcile is already on its way to run it again.
NoLostUpdate ==
    \A a \in Addr :
        Live(a) /\ behind[a] # {} =>
            \/ Rerunning(a)
            \/ Contains(rest, a)
            \/ dirty[a] /\ (Contains(queue, a) \/ Contains(snapshot, a))

\* Reconcile discards the nested slots of the previous output before it finds
\* those of the new one: no <Slot> is ever live twice.
OneSlotPerSite ==
    \A a, b \in Addr : Live(a) /\ site[a] = site[b] => a = b

\* SlotRuntime.cpp:153-157 calls discarding the nested slots "always safe". The
\* pass never reconciles a SlotState that was destroyed while it waited.
DiscardIsSafe == ~fault

\* As long as the pass meets no freed slot, a slot that is behind eventually
\* runs again (or is destroyed): every frame's Tick catches what was marked.
EventuallyRendered ==
    [](~fault) => \A a \in Addr : (behind[a] # {} ~> behind[a] = {})

-----------------------------------------------------------------------------
(* The strengthening that makes the invariants above inductive.            *)

Depth(a) == Level[site[a]]

\* Only the innermost Reconcile runs component code or clears its nested slots;
\* a slot found by another's Reconcile is new, so it has none to clear.
ControlOK ==
    /\ \A i \in DOMAIN chain : i # 1 => chain[i].pc = "discover"
    /\ active = IF chain # <<>> /\ chain[1].pc = "call" THEN <<chain[1].slot>> ELSE <<>>
    /\ rest # <<>> => dying = <<>> /\ (chain # <<>> => chain[1].pc = "call")
    /\ dying # <<>> /\ chain # <<>> => chain[1].pc = "clear"

\* Nested slots are deeper than their owners, and destructors go downwards.
OwnershipOK ==
    /\ \A a \in Addr : Live(a) /\ owner[a] # Host => site[a] \in Kids[site[owner[a]]]
    /\ Len(chain) > 1 => dying = <<>>
    /\ Len(chain) > 1 /\ chain[1].pc = "clear" => NestedIn(chain[1].slot) = {}
    /\ \A i, j \in DOMAIN dying : i < j => Depth(dying[j]) < Depth(dying[i])
    /\ chain # <<>> => \A i \in DOMAIN dying : Depth(chain[1].slot) < Depth(dying[i])

\* A run only finds slots its site may hold.
OutputOK == \A i \in DOMAIN chain : chain[i].todo \subseteq Kids[site[chain[i].slot]]

RegistryDistinct == \A s \in Signal : Distinct(subs[s])

IInv ==
    /\ TypeOK /\ ControlOK /\ OwnershipOK /\ OutputOK /\ RegistryDistinct
    /\ NoDangling /\ SubscriptionsExact /\ NoLostUpdate

\* Why no <Slot> is live twice: the host's slots are root sites and the frames go
\* upwards; what a run has found and not yet built is not built anywhere, since
\* the slot it would be nested in has discarded its nested slots.
SitesOK ==
    /\ OneSlotPerSite
    /\ \A a \in Addr : Live(a) /\ owner[a] = Host => site[a] \in RootSite
    /\ \A i, j \in DOMAIN chain : i < j => Depth(chain[j].slot) < Depth(chain[i].slot)
    /\ \A i \in DOMAIN chain : \A a \in Addr : site[a] \notin chain[i].todo
    /\ \A i \in DOMAIN chain : chain[i].pc = "call" => NestedIn(chain[i].slot) = {}

\* Whatever is queued, about to be marked, or re-entered has something to catch
\* up with: what makes every run of a callable one that ReactiveView allows.
Justified ==
    \A a \in Addr :
        /\ dirty[a] \/ Contains(rest, a) \/ Rerunning(a) => behind[a] # {}
        /\ Rerunning(a) => ~dirty[a]

-----------------------------------------------------------------------------
(* Refinement: the runtime implements ReactiveView.                        *)

View == INSTANCE ReactiveView WITH
            Slot    <- Addr,
            live    <- {a \in Addr : Live(a)},
            running <- {a \in Addr : Calling(a)}

\* The machinery of queue, flags, registry and passes implements the promise:
\* in particular a callable runs only at mount or after a write to what its
\* last run read, and never while it is already running.
ImplementsView == View!Spec
=============================================================================
