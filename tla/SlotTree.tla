------------------------------- MODULE SlotTree -------------------------------
(***************************************************************************)
(* Where the output of each <Slot> lives among the widgets of its parent:  *)
(* ResolveSlotsRecursive, SlotSiblingGroup, and the attached half of       *)
(* SlotState: its destructor, DiscoverNestedSlots and Reconcile.           *)
(* Source: src/Iris/SlotResolution.cpp, src/Iris/SlotRuntime.cpp.          *)
(*                                                                         *)
(* The calls nest as deep as the tree does, so the call stack is explicit. *)
(* A node is a place in the component tree with its tag and key. Nodes are *)
(* not shared, so a node is also the identity of its widget. Which entries *)
(* match, and how a list becomes another, is Reconciler; when a slot runs  *)
(* is SlotRuntime. Bound: the ordinary children of a node never change.    *)
(***************************************************************************)
EXTENDS Naturals, Sequences, FiniteSets, FiniteSetsExt, SequencesExt

CONSTANTS
    Ordinary,  \* nodes with a widget
    Slot,      \* nodes that are <Slot>s
    None,      \* a child that renders nothing
    Kids,      \* Component::Children of an ordinary node
    Outputs,   \* what the callable of a slot may return, None entries dropped
    Root,      \* the node the host builds
    Host,      \* who owns the slots ResolveSlots returns
    Height     \* of a node above the ends of the tree

ASSUME TreeAssumption ==
    /\ Kids \in [Ordinary -> Seq(Ordinary \union Slot \union {None})]
    /\ \A s \in Slot : Outputs[s] \subseteq Seq(Ordinary) /\ \A l \in Outputs[s] : IsInjective(l)
    /\ Root \in Ordinary
    /\ Ordinary \intersect Slot = {} /\ None \notin Ordinary \union Slot /\ Host \notin Slot

\* What the callable of a slot may ever put below its parent.
MayShow(s) == UNION {Range(l) : l \in Outputs[s]}

\* Components are values: a node has one place, and no node is below itself.
ASSUME PlaceAssumption ==
    /\ \A m, n \in Ordinary : \A i \in DOMAIN Kids[m], j \in DOMAIN Kids[n] :
          Kids[m][i] = Kids[n][j] /\ Kids[m][i] # None => m = n /\ i = j
    /\ \A s, t \in Slot : MayShow(s) \intersect MayShow(t) # {} => s = t
    /\ \A s \in Slot, n \in Ordinary : MayShow(s) \intersect Range(Kids[n]) = {}
    /\ \A s \in Slot : Root \notin MayShow(s)
    /\ \A n \in Ordinary : Root \notin Range(Kids[n])

ASSUME HeightAssumption ==
    /\ Height \in [Ordinary \union Slot -> Nat]
    /\ \A n \in Ordinary : \A k \in Range(Kids[n]) \ {None} : Height[k] < Height[n]
    /\ \A s \in Slot : \A k \in MayShow(s) : Height[k] < Height[s]

VARIABLES
    alive,     \* nodes whose widget exists
    children,  \* the children of each widget
    slots,     \* constructed SlotStates
    parent,    \* AttachedParent_
    group,     \* AttachedGroup_ of the slots of a widget: its Entries_
    place,     \* AttachedGroupIndex_
    count,     \* AttachedCount_
    previous,  \* PreviousSingle_, PreviousList_
    nested,    \* NestedSlots_ of a slot, and the host's vector
    stack      \* the calls under way, innermost last

tree  == <<alive, children>>
slot  == <<parent, group, place>>
state == <<count, previous>>
vars  == <<tree, slots, slot, state, nested, stack>>

\* Components as the children of a widget: each <Slot> stands for what it shows,
\* and a None for nothing.
Spread(l, shows) ==
    FlattenSeq([i \in DOMAIN l |->
        IF l[i] \in Ordinary THEN <<l[i]>> ELSE IF l[i] \in Slot THEN shows[l[i]] ELSE <<>>])
Widgets(l) == Spread(l, [s \in Slot |-> <<>>])

\* The nodes that ordinary children reach from n, and those its slots may add.
OrdinaryKids(n) == Range(Kids[n]) \intersect Ordinary
Static[n \in Ordinary] == {n} \union UNION {Static[k] : k \in OrdinaryKids(n)}
AnyKids(n) == OrdinaryKids(n) \union UNION {MayShow(s) : s \in Range(Kids[n]) \intersect Slot}
Below[n \in Ordinary] == {n} \union UNION {Below[k] : k \in AnyKids(n)}

StaticOf(S) == UNION {Static[k] : k \in S}
BelowOf(S)  == UNION {Below[k] : k \in S}

Top   == Last(stack)
Under == Front(stack)
Goto(frame) == stack' = Append(Under, frame)
Call(frame, callee) == stack' = Append(Append(Under, frame), callee)

\* ResolveSlotsRecursive for a widget and the node it was built from.
Resolve(w, node, owner) ==
    [op |-> "resolve", at |-> w, node |-> node, owner |-> owner,
     i |-> 1, static |-> 0, real |-> 0, ran |-> FALSE]

\* SlotState::Reconcile and ~SlotState.
Run(s)     == [op |-> "run", slot |-> s, found |-> FALSE, base |-> 0, out |-> <<>>, i |-> 1]
Destroy(s) == [op |-> "destroy", slot |-> s]

Init ==
    /\ alive = Static[Root]
    /\ children = [n \in Ordinary |-> IF n \in alive THEN Widgets(Kids[n]) ELSE <<>>]
    /\ slots = {} /\ nested = [o \in Slot \union {Host} |-> <<>>]
    /\ parent = [s \in Slot |-> Root] /\ group = [n \in Ordinary |-> <<>>]
    /\ place = [s \in Slot |-> 0] /\ count = [s \in Slot |-> 0]
    /\ previous = [s \in Slot |-> <<>>]
    /\ stack = <<>>

-----------------------------------------------------------------------------
(* SlotSiblingGroup.                                                       *)

\* Mutant: only the static children before it count.
StaticIndexOf(s) == group[parent[s]][place[s]].static

\* Its static prefix, and what the live slots before it have spliced in.
AbsoluteIndexOf(s) ==
    LET g == group[parent[s]]
        index[k \in 1..place[s]] ==
            IF k = 1 THEN g[place[s]].static
            ELSE index[k - 1] + (IF g[k - 1].live THEN count[g[k - 1].slot] ELSE 0)
    IN  index[place[s]]

-----------------------------------------------------------------------------
(* The host: it resolves the tree, flushes dirty slots, and drops the      *)
(* slots it holds in any order.                                            *)

\* A call resets the group of the widget it is about.
Begins(w) == group' = [group EXCEPT ![w] = <<>>]

HostResolves ==
    /\ stack = <<>> /\ nested[Host] = <<>>
    /\ stack' = <<Resolve(Root, Root, Host)>>
    /\ Begins(Root)
    /\ UNCHANGED <<tree, slots, parent, place, state, nested>>

Flush ==
    /\ stack = <<>>
    /\ \E s \in slots : stack' = <<Run(s)>>
    /\ UNCHANGED <<tree, slots, slot, state, nested>>

HostDrops ==
    /\ stack = <<>>
    /\ \E i \in DOMAIN nested[Host] :
          /\ stack' = <<Destroy(nested[Host][i])>>
          /\ nested' = [nested EXCEPT ![Host] = RemoveAt(@, i)]
    /\ UNCHANGED <<tree, slots, slot, state>>

-----------------------------------------------------------------------------
(* ResolveSlotsRecursive: one child per step.                              *)

Resolving == stack # <<>> /\ Top.op = "resolve"
Child == Kids[Top.node][Top.i]
AtChild == Resolving /\ Top.i <= Len(Kids[Top.node])

SkipNone ==
    /\ AtChild /\ Child = None
    /\ Goto([Top EXCEPT !.i = @ + 1])
    /\ UNCHANGED <<tree, slots, slot, state, nested>>

\* AddEntry, AttachToGroup, and the first Reconcile.
MeetSlot ==
    /\ AtChild /\ Child \in Slot /\ ~Top.ran
    /\ slots' = slots \union {Child}
    /\ parent' = [parent EXCEPT ![Child] = Top.at]
    /\ group' = [group EXCEPT ![Top.at] =
           Append(@, [static |-> Top.static, slot |-> Child, live |-> TRUE])]
    /\ place' = [place EXCEPT ![Child] = Len(group[Top.at]) + 1]
    /\ count' = [count EXCEPT ![Child] = 0]
    /\ previous' = [previous EXCEPT ![Child] = <<>>]
    /\ Call([Top EXCEPT !.ran = TRUE], Run(Child))
    /\ UNCHANGED <<tree, nested>>

\* Mutant: both counters move past what the slot rendered.
LeaveSlotTwice ==
    /\ AtChild /\ Child \in Slot /\ Top.ran
    /\ nested' = [nested EXCEPT ![Top.owner] = Append(@, Child)]
    /\ Goto([Top EXCEPT !.i = @ + 1, !.ran = FALSE, !.real = @ + count[Child],
                        !.static = @ + count[Child]])
    /\ UNCHANGED <<tree, slots, slot, state>>

\* Mutant: neither does.
LeaveSlotInPlace ==
    /\ AtChild /\ Child \in Slot /\ Top.ran
    /\ nested' = [nested EXCEPT ![Top.owner] = Append(@, Child)]
    /\ Goto([Top EXCEPT !.i = @ + 1, !.ran = FALSE])
    /\ UNCHANGED <<tree, slots, slot, state>>

LeaveSlot ==
    /\ AtChild /\ Child \in Slot /\ Top.ran
    /\ nested' = [nested EXCEPT ![Top.owner] = Append(@, Child)]
    /\ Goto([Top EXCEPT !.i = @ + 1, !.ran = FALSE, !.real = @ + count[Child]])
    /\ UNCHANGED <<tree, slots, slot, state>>

Descend ==
    /\ AtChild /\ Child \in Ordinary
    /\ LET w == children[Top.at][Top.real + 1]
       IN  /\ Begins(w)
           /\ Call([Top EXCEPT !.i = @ + 1, !.real = @ + 1, !.static = @ + 1],
                   Resolve(w, Child, Top.owner))
    /\ UNCHANGED <<tree, slots, parent, place, state, nested>>

Resolved ==
    /\ Resolving /\ Top.i > Len(Kids[Top.node])
    /\ stack' = Under
    /\ UNCHANGED <<tree, slots, slot, state, nested>>

-----------------------------------------------------------------------------
(* NestedSlots_.clear(), which comes first in both.                        *)

Clearing == stack # <<>> /\ (Top.op = "destroy" \/ (Top.op = "run" /\ ~Top.found))

ClearNested ==
    /\ Clearing /\ nested[Top.slot] # <<>>
    /\ stack' = Append(stack, Destroy(Head(nested[Top.slot])))
    /\ nested' = [nested EXCEPT ![Top.slot] = Tail(@)]
    /\ UNCHANGED <<tree, slots, slot, state>>

\* The children of w with those at base + 1 .. base + n replaced.
Spliced(w, base, n, l) ==
    SubSeq(children[w], 1, Min({base, Len(children[w])})) \o l \o SubSeq(children[w], base + n + 1, Len(children[w]))

\* Widgets of gone go with all below them; those of fresh come with the
\* ordinary children below them.
Rebuilt(w, l, gone, fresh) ==
    /\ alive' = (alive \ gone) \union fresh
    /\ children' = [n \in Ordinary |->
           IF n = w THEN l
           ELSE IF n \in fresh THEN Widgets(Kids[n])
           ELSE IF n \in gone THEN <<>> ELSE children[n]]

-----------------------------------------------------------------------------
(* SlotState::Reconcile, attached.                                         *)

Running == stack # <<>> /\ Top.op = "run"

\* Mutant: the nested slots are still there.
SpliceBeforeClear ==
    /\ Running /\ ~Top.found
    /\ \E out \in Outputs[Top.slot] :
          LET base == AbsoluteIndexOf(Top.slot)
              old  == previous[Top.slot]
          IN  /\ Rebuilt(parent[Top.slot], Spliced(parent[Top.slot], base, Len(old), out),
                         BelowOf(Range(old) \ Range(out)), StaticOf(Range(out) \ Range(old)))
              /\ Goto([Top EXCEPT !.found = TRUE, !.base = base, !.out = out])
    /\ UNCHANGED <<slots, slot, state, nested>>

\* The callable, then ReconcileChildrenAt at the place the group gives now.
Splice ==
    /\ Running /\ ~Top.found /\ nested[Top.slot] = <<>>
    /\ \E out \in Outputs[Top.slot] :
          LET base == AbsoluteIndexOf(Top.slot)
              old  == previous[Top.slot]
          IN  /\ Rebuilt(parent[Top.slot], Spliced(parent[Top.slot], base, Len(old), out),
                         BelowOf(Range(old) \ Range(out)), StaticOf(Range(out) \ Range(old)))
              /\ Goto([Top EXCEPT !.found = TRUE, !.base = base, !.out = out])
    /\ UNCHANGED <<slots, slot, state, nested>>

\* DiscoverNestedSlots on each entry of the output.
Discover ==
    /\ Running /\ Top.found /\ Top.i <= Len(Top.out)
    /\ LET w == children[parent[Top.slot]][Top.base + Top.i]
       IN  /\ Begins(w)
           /\ Call([Top EXCEPT !.i = @ + 1], Resolve(w, Top.out[Top.i], Top.slot))
    /\ UNCHANGED <<tree, slots, parent, place, state, nested>>

Rendered ==
    /\ Running /\ Top.found /\ Top.i > Len(Top.out)
    /\ count' = [count EXCEPT ![Top.slot] = Len(Top.out)]
    /\ previous' = [previous EXCEPT ![Top.slot] = Top.out]
    /\ stack' = Under
    /\ UNCHANGED <<tree, slots, slot, nested>>

-----------------------------------------------------------------------------
(* ~SlotState: its widgets leave the parent, its group forgets it.         *)

\* Mutant: the nested slots go after the widgets they are attached to.
RemoveOwnFirst ==
    /\ stack # <<>> /\ Top.op = "destroy"
    /\ LET s == Top.slot
       IN  /\ Rebuilt(parent[s], Spliced(parent[s], AbsoluteIndexOf(s), count[s], <<>>),
                      BelowOf(Range(previous[s])), {})
           /\ group' = [group EXCEPT ![parent[s]][place[s]].live = FALSE]
           /\ slots' = slots \ {s}
           /\ nested' = [nested EXCEPT ![s] = <<>>]
           /\ stack' = Under \o [i \in DOMAIN nested[s] |-> Destroy(nested[s][i])]
    /\ UNCHANGED <<parent, place, state>>

RemoveOwn ==
    /\ stack # <<>> /\ Top.op = "destroy" /\ nested[Top.slot] = <<>>
    /\ LET s == Top.slot
       IN  /\ Rebuilt(parent[s], Spliced(parent[s], AbsoluteIndexOf(s), count[s], <<>>),
                      BelowOf(Range(previous[s])), {})
           /\ group' = [group EXCEPT ![parent[s]][place[s]].live = FALSE]
           /\ slots' = slots \ {s}
    /\ stack' = Under
    /\ UNCHANGED <<parent, place, state, nested>>

-----------------------------------------------------------------------------

Next ==
    \/ HostResolves \/ Flush \/ HostDrops
    \/ SkipNone \/ MeetSlot \/ LeaveSlot \/ Descend \/ Resolved
    \/ ClearNested \/ Splice \/ Discover \/ Rendered \/ RemoveOwn

Spec == Init /\ [][Next]_vars

-----------------------------------------------------------------------------
(* Properties.                                                             *)

\* What the static tree and the slots' last outputs say the children are.
Expected(w) == Spread(Kids[w], [s \in Slot |-> IF s \in slots THEN previous[s] ELSE <<>>])

\* Between calls every widget has exactly the children its component has, each
\* <Slot> replaced by its last output where it stands, whatever its siblings
\* rendered since and in whatever order they were dropped.
ChildrenInOrder == stack = <<>> => \A w \in alive : children[w] = Expected(w)

\* AttachedParentWatch_.AssertAlive: no SlotState outlives the widget it is
\* attached to, at any step.
ParentAlive == \A s \in slots : parent[s] \in alive

\* A slot about to splice or to remove finds its own output at the index the
\* group gives: AttachedCount_ "is authoritative for how many are ours".
FindsOwn ==
    Clearing =>
        LET s == Top.slot
            base == AbsoluteIndexOf(s)
            there == children[parent[s]]
        IN  /\ base + count[s] <= Len(there)
            /\ SubSeq(there, base + 1, base + count[s]) = previous[s]

\* The walk down the tree meets each ordinary child at the widget that was
\* built from it, though slots before it have spliced their own in.
LockStep == AtChild /\ Child \in Ordinary => children[Top.at][Top.real + 1] = Child

\* "Always safe": when a slot's output is reconciled, no widget of the output
\* before it still holds children of a nested slot, so the lists diffed are
\* those of the tree.
BareWhenDiffed ==
    Running /\ Top.found /\ Top.i = 1 =>
        \A w \in StaticOf(Range(Top.out)) : children[w] = Widgets(Kids[w])

=============================================================================
