------------------------------ MODULE Reconciler ------------------------------
(***************************************************************************)
(* How one list of child widgets becomes another: MatchLists, the longest  *)
(* increasing subsequence of ComputeKeepInPlace, the remove and insert     *)
(* loops of ReconcileChildrenAt, the vector form ReconcileList and the     *)
(* single-widget form ReconcileWidget. Source: src/Iris/Reconciler.cpp.    *)
(*                                                                         *)
(* One step is one iteration of one of the code's loops. Positions count   *)
(* from 1, and 0 stands for the code's -1.                                 *)
(*                                                                         *)
(* Data left out: of the props, everything but one, text, which stands for *)
(* each prop that is compared before it is applied; the children of the    *)
(* widgets themselves, whose reconciliation is this machine again, on      *)
(* another parent (form = "children"); portals but for their unmount.      *)
(***************************************************************************)
EXTENDS Naturals, Sequences, FiniteSets, FiniteSetsExt, SequencesExt

CONSTANTS
    Tag, Key, Text,
    None,          \* the tag of a component that renders nothing
    NoKey, NoText, \* "this component has no such prop"
    Incomparable,  \* keys whose type KeysEqual never compares equal
    Lists,         \* by form, the lists of components a caller may hand over
    Widget,        \* identities of widgets
    NoWidget,      \* a null pointer
    SlotBefore, SlotAfter, \* a slot's parent's other children, before Base and after
    Forms          \* who calls

Component == [tag : Tag \union {None}, key : Key \union {NoKey}, text : Text \union {NoText}]

\* Forms: "slot": a <Slot> attached below a parent (ReconcileChildrenAt at its Base);
\* "children": the children of a matched widget (the same, at 0);
\* "list", "single": a <Slot> without a parent, or a whole tree, by vector and
\* by widget. A caller stays what it is.
HasNone(l) == \E i \in DOMAIN l : l[i].tag = None

\* SlotState::Reconcile drops the None entries of a callable's output before
\* any of the three forms it calls; FilterOrdinary does not.
ASSUME ListAssumption ==
    /\ Forms \subseteq {"slot", "children", "list", "single"}
    /\ \A f \in Forms : Lists[f] \subseteq Seq(Component)
    /\ \A f \in Forms \ {"children"} : \A l \in Lists[f] : ~HasNone(l)
    /\ "single" \in Forms => \A l \in Lists["single"] : Len(l) <= 1

ASSUME WidgetAssumption ==
    /\ SlotBefore \in Seq(Widget) /\ SlotAfter \in Seq(Widget)
    /\ IsInjective(SlotBefore \o SlotAfter)
    /\ NoWidget \notin Widget
    /\ None \notin Tag /\ NoKey \notin Key \union Incomparable /\ NoText \notin Text

VARIABLES
    form,       \* who calls
    pc,         \* the loop that runs
    old, new,   \* OldList, NewList
    n,          \* the index of that loop
    cursor,     \* OldCursor of pass 2, later Cursor of the walk
    newToOld,   \* ListMatch::NewToOld
    tails,      \* TailAt, as positions of new
    pred,       \* Predecessor, by position of new
    keep,       \* Keep: the positions of new whose widget stays in place
    children,   \* the parent's children, or the vector of widgets
    moved,      \* MovedOld
    result,     \* ReconcileList's Result
    shows,      \* what a widget was mounted as, and its text since
    unmounted,  \* widgets prepared for unmount and dropped in this call
    start       \* history: children when the call began

lists  == <<form, old, new>>
match  == <<cursor, newToOld>>
lis    == <<tails, pred, keep>>
tree   == <<children, moved, result, shows, unmounted>>
vars   == <<pc, lists, n, match, lis, tree, start>>

\* The other forms are given all the widgets there are.
Before  == IF form = "slot" THEN SlotBefore ELSE <<>>
After   == IF form = "slot" THEN SlotAfter ELSE <<>>
Base    == Len(Before)
Matched == {newToOld[k] : k \in DOMAIN newToOld} \ {0}
KeptOld == {newToOld[k] : k \in keep}

Least(S) == {x \in S : \A y \in S : x <= y}

KeysEqual(a, b) == a = b /\ a \notin Incomparable

\* MountFn: a widget nobody holds. Its name is new even where the allocator
\* would give it the address of one dropped in this call.
\* Bound: a mount waits for Unused # {}; no instance has too few widgets.
Unused == Widget \ (Range(start) \union Range(children) \union Range(result))
Fresh  == CHOOSE w \in Unused : TRUE

\* Mutant: a prop that was there before counts as unchanged.
AppliedOnce(w, o, e) ==
    IF e.text = NoText \/ o.text # NoText THEN shows
    ELSE [shows EXCEPT ![w].text = e.text]

\* ApplyPropDiff of ComputePropDiff: a prop that New lacks, or has unchanged,
\* is left alone.
Applied(w, o, e) ==
    IF e.text = NoText \/ e.text = o.text THEN shows
    ELSE [shows EXCEPT ![w].text = e.text]
MountedAs(w, e) == [shows EXCEPT ![w] = e]

Blank == [tag |-> None, key |-> NoKey, text |-> NoText]

\* The first mount of a widget's children makes none for a None entry.
Rendered(l) == {i \in DOMAIN l : l[i].tag # None}
Place(l, i) == Cardinality({j \in Rendered(l) : j <= i})

Init ==
    /\ form \in Forms /\ pc = "idle" /\ n = 0
    /\ old \in (IF form = "children" THEN Lists[form] ELSE {<<>>})
    /\ new = <<>> /\ newToOld = <<>> /\ cursor = 0
    /\ tails = <<>> /\ pred = <<>> /\ keep = {}
    /\ moved = <<>> /\ result = <<>> /\ unmounted = {} /\ start = <<>>
    /\ \E kids \in [1..Cardinality(Rendered(old)) -> Widget \ Range(Before \o After)] :
          /\ IsInjective(kids)
          /\ children = Before \o kids \o After
          /\ shows = [w \in Widget |->
                 IF \E i \in Rendered(old) : kids[Place(old, i)] = w
                 THEN old[CHOOSE i \in Rendered(old) : kids[Place(old, i)] = w]
                 ELSE Blank]

-----------------------------------------------------------------------------
(* MatchLists.                                                             *)

\* A call with any list; NewToOld starts as all -1.
Begin ==
    /\ pc = "idle" /\ form # "single"
    /\ new' \in Lists[form]
    /\ pc' = "keys" /\ n' = 1
    /\ newToOld' = [k \in DOMAIN new' |-> 0]
    /\ moved' = [o \in DOMAIN old |-> NoWidget]
    /\ start' = children
    /\ UNCHANGED <<form, old, cursor, lis, children, result, shows, unmounted>>

\* Pass 1: the first old entry left with the same tag and key.
SameKey(k) ==
    {o \in DOMAIN old \ Matched :
        /\ new[k].key # NoKey /\ old[o].key # NoKey
        /\ old[o].tag = new[k].tag
        /\ KeysEqual(old[o].key, new[k].key)}

MatchByKey ==
    /\ pc = "keys" /\ n <= Len(new)
    /\ \/ SameKey(n) = {} /\ newToOld' = newToOld
       \/ \E o \in Least(SameKey(n)) : newToOld' = [newToOld EXCEPT ![n] = o]
    /\ n' = n + 1
    /\ UNCHANGED <<pc, lists, cursor, lis, tree, start>>

EndKeys ==
    /\ pc = "keys" /\ n > Len(new)
    /\ pc' = "order" /\ n' = 1 /\ cursor' = 1
    /\ UNCHANGED <<lists, newToOld, lis, tree, start>>

\* Pass 2: where OldCursor comes to rest, skipping matched and keyed entries.
NextUnkeyed ==
    Least({o \in cursor..Len(old) : o \notin Matched /\ old[o].key = NoKey} \union {Len(old) + 1})

Keyed(k) == newToOld[k] # 0 \/ new[k].key # NoKey

\* Mutant: OldCursor moves on although the tags differ.
MatchInStep ==
    /\ pc = "order" /\ n <= Len(new) /\ ~Keyed(n)
    /\ \E o \in NextUnkeyed :
          /\ newToOld' = IF o <= Len(old) /\ old[o].tag = new[n].tag
                         THEN [newToOld EXCEPT ![n] = o] ELSE newToOld
          /\ cursor' = o + 1
    /\ n' = n + 1
    /\ UNCHANGED <<pc, lists, lis, tree, start>>

MatchByOrder ==
    /\ pc = "order" /\ n <= Len(new) /\ ~Keyed(n)
    /\ \E o \in NextUnkeyed :
          \/ /\ o <= Len(old) /\ old[o].tag = new[n].tag
             /\ newToOld' = [newToOld EXCEPT ![n] = o] /\ cursor' = o + 1
          \/ /\ ~(o <= Len(old) /\ old[o].tag = new[n].tag)
             /\ newToOld' = newToOld /\ cursor' = o
    /\ n' = n + 1
    /\ UNCHANGED <<pc, lists, lis, tree, start>>

SkipKeyed ==
    /\ pc = "order" /\ n <= Len(new) /\ Keyed(n)
    /\ n' = n + 1
    /\ UNCHANGED <<pc, lists, match, lis, tree, start>>

\* Only ReconcileChildrenAt computes what stays in place.
EndOrder ==
    /\ pc = "order" /\ n > Len(new)
    /\ pc' = IF form = "list" THEN "rebuild" ELSE "tails"
    /\ n' = 1
    /\ pred' = [k \in DOMAIN new |-> 0]
    /\ UNCHANGED <<lists, match, tails, keep, tree, start>>

-----------------------------------------------------------------------------
(* ComputeKeepInPlace: patience sorting of the matched positions, then the *)
(* walk back from the last tail.                                           *)

\* Mutant: only the last tail is replaced.
LastPile(v) ==
    {IF tails # <<>> /\ newToOld[Last(tails)] >= v THEN Len(tails) ELSE Len(tails) + 1}

\* std::lower_bound over TailValues.
Pile(v) == Least({p \in DOMAIN tails : newToOld[tails[p]] >= v} \union {Len(tails) + 1})

\* Mutant: the predecessor is the position before, not the tail before.
PlaceAfterPrevious ==
    /\ pc = "tails" /\ n <= Len(new) /\ newToOld[n] # 0
    /\ \E p \in Pile(newToOld[n]) :
          /\ pred' = [pred EXCEPT ![n] = IF n > 1 /\ newToOld[n - 1] # 0 THEN n - 1 ELSE 0]
          /\ tails' = IF p > Len(tails) THEN Append(tails, n) ELSE [tails EXCEPT ![p] = n]
    /\ n' = n + 1
    /\ UNCHANGED <<pc, lists, match, keep, tree, start>>

\* Mutant: the predecessor is read after the pile was updated, at its index.
PlaceOnItself ==
    /\ pc = "tails" /\ n <= Len(new) /\ newToOld[n] # 0
    /\ \E p \in Pile(newToOld[n]) :
          tails' = IF p > Len(tails) THEN Append(tails, n) ELSE [tails EXCEPT ![p] = n]
    /\ pred' = [pred EXCEPT ![n] = n]
    /\ n' = n + 1
    /\ UNCHANGED <<pc, lists, match, keep, tree, start>>

PlaceTail ==
    /\ pc = "tails" /\ n <= Len(new) /\ newToOld[n] # 0
    /\ \E p \in Pile(newToOld[n]) :
          /\ pred' = [pred EXCEPT ![n] = IF p > 1 THEN tails[p - 1] ELSE 0]
          /\ tails' = IF p > Len(tails) THEN Append(tails, n) ELSE [tails EXCEPT ![p] = n]
    /\ n' = n + 1
    /\ UNCHANGED <<pc, lists, match, keep, tree, start>>

SkipUnmatched ==
    /\ pc = "tails" /\ n <= Len(new) /\ newToOld[n] = 0
    /\ n' = n + 1
    /\ UNCHANGED <<pc, lists, match, lis, tree, start>>

EndTails ==
    /\ pc = "tails" /\ n > Len(new)
    /\ pc' = "walk"
    /\ cursor' = IF tails = <<>> THEN 0 ELSE Last(tails)
    /\ UNCHANGED <<lists, n, newToOld, lis, tree, start>>

WalkBack ==
    /\ pc = "walk" /\ cursor # 0
    /\ keep' = keep \union {cursor}
    /\ cursor' = pred[cursor]
    /\ UNCHANGED <<pc, lists, n, newToOld, tails, pred, tree, start>>

EndWalk ==
    /\ pc = "walk" /\ cursor = 0
    /\ pc' = "remove" /\ n' = Len(old)
    /\ UNCHANGED <<lists, match, lis, tree, start>>

-----------------------------------------------------------------------------
(* ReconcileChildrenAt: remove from the highest old index down, then       *)
(* insert from the lowest new index up.                                    *)

Stay ==
    /\ pc = "remove" /\ n > 0 /\ n \in KeptOld
    /\ n' = n - 1
    /\ UNCHANGED <<pc, lists, match, lis, tree, start>>

\* Mutant: Base is forgotten.
TakeOutAtIndex ==
    /\ pc = "remove" /\ n > 0 /\ n \in Matched \ KeptOld
    /\ moved' = [moved EXCEPT ![n] = children[n]]
    /\ children' = RemoveAt(children, n)
    /\ n' = n - 1
    /\ UNCHANGED <<pc, lists, match, lis, result, shows, unmounted, start>>

TakeOut ==
    /\ pc = "remove" /\ n > 0 /\ n \in Matched \ KeptOld
    /\ moved' = [moved EXCEPT ![n] = children[Base + n]]
    /\ children' = RemoveAt(children, Base + n)
    /\ n' = n - 1
    /\ UNCHANGED <<pc, lists, match, lis, result, shows, unmounted, start>>

\* Mutant: a dropped widget is not prepared.
DropUnprepared ==
    /\ pc = "remove" /\ n > 0 /\ n \notin Matched
    /\ children' = RemoveAt(children, Base + n)
    /\ n' = n - 1
    /\ UNCHANGED <<pc, lists, match, lis, moved, result, shows, unmounted, start>>

Drop ==
    /\ pc = "remove" /\ n > 0 /\ n \notin Matched
    /\ unmounted' = unmounted \union {children[Base + n]}
    /\ children' = RemoveAt(children, Base + n)
    /\ n' = n - 1
    /\ UNCHANGED <<pc, lists, match, lis, moved, result, shows, start>>

EndRemove ==
    /\ pc = "remove" /\ n = 0
    /\ pc' = "insert" /\ n' = 1
    /\ UNCHANGED <<lists, match, lis, tree, start>>

\* ReconcileMatchedInPlace on the widget where it is.
UpdateInPlace ==
    /\ pc = "insert" /\ n <= Len(new) /\ n \in keep
    /\ shows' = Applied(children[Base + n], old[newToOld[n]], new[n])
    /\ n' = n + 1
    /\ UNCHANGED <<pc, lists, match, lis, children, moved, result, unmounted, start>>

\* Mutant: a moved entry is mounted again.
PutBackMounted ==
    /\ pc = "insert" /\ n <= Len(new) /\ n \notin keep /\ newToOld[n] # 0
    /\ shows' = MountedAs(Fresh, new[n])
    /\ children' = InsertAt(children, Base + n, Fresh)
    /\ n' = n + 1
    /\ UNCHANGED <<pc, lists, match, lis, moved, result, unmounted, start>>

PutBack ==
    /\ pc = "insert" /\ n <= Len(new) /\ n \notin keep /\ newToOld[n] # 0
    /\ LET w == moved[newToOld[n]]
       IN  /\ shows' = Applied(w, old[newToOld[n]], new[n])
           /\ children' = InsertAt(children, Base + n, w)
    /\ moved' = [moved EXCEPT ![newToOld[n]] = NoWidget]
    /\ n' = n + 1
    /\ UNCHANGED <<pc, lists, match, lis, result, unmounted, start>>

\* Mount gives no widget for None, and the null pointer is inserted as it is.
InsertFresh ==
    /\ pc = "insert" /\ n <= Len(new) /\ n \notin keep /\ newToOld[n] = 0
    /\ Unused # {}
    /\ LET none == new[n].tag = None
       IN  /\ shows' = IF none THEN shows ELSE MountedAs(Fresh, new[n])
           /\ children' = InsertAt(children, Base + n, IF none THEN NoWidget ELSE Fresh)
    /\ n' = n + 1
    /\ UNCHANGED <<pc, lists, match, lis, moved, result, unmounted, start>>

EndInsert ==
    /\ pc = "insert" /\ n > Len(new)
    /\ pc' = "done"
    /\ UNCHANGED <<lists, n, match, lis, tree, start>>

-----------------------------------------------------------------------------
(* ReconcileList: the new vector is built from the old one's widgets.      *)

Reuse ==
    /\ pc = "rebuild" /\ n <= Len(new) /\ newToOld[n] # 0
    /\ LET w == children[newToOld[n]]
       IN  /\ shows' = Applied(w, old[newToOld[n]], new[n])
           /\ result' = Append(result, w)
    /\ children' = [children EXCEPT ![newToOld[n]] = NoWidget]
    /\ n' = n + 1
    /\ UNCHANGED <<pc, lists, match, lis, moved, unmounted, start>>

AppendFresh ==
    /\ pc = "rebuild" /\ n <= Len(new) /\ newToOld[n] = 0
    /\ Unused # {}
    /\ shows' = MountedAs(Fresh, new[n])
    /\ result' = Append(result, Fresh)
    /\ n' = n + 1
    /\ UNCHANGED <<pc, lists, match, lis, children, moved, unmounted, start>>

\* The unmatched widgets were never moved from: prepared, then destroyed with
\* the old vector.
ReturnResult ==
    /\ pc = "rebuild" /\ n > Len(new)
    /\ unmounted' = {children[o] : o \in DOMAIN old \ Matched}
    /\ children' = result /\ result' = <<>>
    /\ pc' = "done"
    /\ UNCHANGED <<lists, n, match, lis, moved, shows, start>>

-----------------------------------------------------------------------------
(* ReconcileWidget: no component, the same identity, or another one.       *)

\* Mutant: the tag alone.
SameTag(o, e) == o.tag = e.tag

SameIdentity(o, e) ==
    o.tag = e.tag /\ KeysEqual(o.key, e.key)

Keeps(l) == old # <<>> /\ l # <<>> /\ SameIdentity(old[1], l[1])

ReconcileWidget ==
    /\ pc = "idle" /\ form = "single"
    /\ \E l \in Lists[form] :
          /\ new' = l
          /\ newToOld' = [k \in DOMAIN l |-> IF Keeps(l) THEN 1 ELSE 0]
          /\ \/ /\ Keeps(l)
                /\ shows' = Applied(children[1], old[1], l[1])
                /\ UNCHANGED <<children, unmounted>>
             \/ /\ ~Keeps(l) /\ l # <<>> /\ Unused # {}
                /\ shows' = MountedAs(Fresh, l[1])
                /\ children' = <<Fresh>>
                /\ unmounted' = Range(children)
             \/ /\ l = <<>>
                /\ children' = <<>>
                /\ unmounted' = Range(children)
                /\ shows' = shows
    /\ start' = children
    /\ pc' = "done"
    /\ UNCHANGED <<form, old, n, cursor, lis, moved, result>>

-----------------------------------------------------------------------------

\* The caller keeps the new list for its next call: PreviousList_ and
\* PreviousSingle_, ReloadTarget's PreviousTree_, the component's children.
Retain ==
    /\ pc = "done"
    /\ pc' = "idle" /\ n' = 0
    /\ old' = new /\ new' = <<>> /\ newToOld' = <<>> /\ cursor' = 0
    /\ tails' = <<>> /\ pred' = <<>> /\ keep' = {}
    /\ moved' = <<>> /\ result' = <<>> /\ unmounted' = {} /\ start' = <<>>
    /\ shows' = [w \in Widget |-> IF w \in unmounted THEN Blank ELSE shows[w]]
    /\ UNCHANGED <<form, children>>

MatchStep  == MatchByKey \/ EndKeys \/ MatchByOrder \/ SkipKeyed \/ EndOrder
KeepStep   == PlaceTail \/ SkipUnmatched \/ EndTails \/ WalkBack \/ EndWalk
SpliceStep == Stay \/ TakeOut \/ Drop \/ EndRemove \/ UpdateInPlace \/ PutBack \/ InsertFresh \/ EndInsert
ListStep   == Reuse \/ AppendFresh \/ ReturnResult

Next == Begin \/ MatchStep \/ KeepStep \/ SpliceStep \/ ListStep \/ ReconcileWidget \/ Retain

Spec == Init /\ [][Next]_vars

-----------------------------------------------------------------------------
(* Properties.                                                             *)

\* w is the widget of e, and shows what e says.
Displays(w, e) ==
    /\ w \in Widget
    /\ shows[w].tag = e.tag /\ shows[w].key = e.key
    /\ e.text \in {NoText, shows[w].text}

\* The children between Before and After are those of l, one by one.
Aligned(l) ==
    /\ Len(children) = Base + Len(l) + Len(After)
    /\ \A i \in DOMAIN l : Displays(children[Base + i], l[i])

Loops == {"idle", "keys", "order", "tails", "walk", "remove", "insert", "rebuild", "done"}

\* Types; Predecessor points back, and no null pointer becomes a child.
TypeOK ==
    /\ form \in Forms /\ pc \in Loops
    /\ old \in Lists[form] \union {<<>>} /\ new \in Lists[form] \union {<<>>}
    /\ n \in Nat /\ cursor \in Nat
    /\ newToOld \in [DOMAIN new -> 0..Len(old)]
    /\ tails \in Seq(DOMAIN new) /\ keep \subseteq DOMAIN new
    /\ \A k \in DOMAIN pred : pred[k] \in 0..k - 1
    /\ children \in Seq(IF pc = "rebuild" THEN Widget \union {NoWidget} ELSE Widget)
    /\ moved \in Seq(Widget \union {NoWidget})
    /\ result \in Seq(Widget) /\ start \in Seq(Widget)
    /\ shows \in [Widget -> Component]
    /\ unmounted \subseteq Widget

\* What ReconcileChildrenAt says of its parent (Reconciler.h:63): when it is
\* called, the children at Base correspond one to one to OldList.
CalledAligned == pc = "keys" => Aligned(old)

\* When a call returns, the children are those of the new list in its order,
\* each shows what its entry says, and the parent's other children are where
\* they were.
NewListShown ==
    pc = "done" =>
        /\ Aligned(new)
        /\ SubSeq(children, 1, Base) = Before
        /\ SubSeq(children, Base + Len(new) + 1, Len(children)) = After

\* A matched entry keeps its widget wherever it moved, and every other entry
\* has a widget that was not there before the call.
WidgetsSurvive ==
    pc = "done" =>
        \A k \in DOMAIN new :
            IF newToOld[k] # 0 THEN children[Base + k] = start[Base + newToOld[k]]
            ELSE children[Base + k] \notin Range(start)

\* The claim the insert loop rests on: a kept entry is already at its place
\* when the loop reaches it, so that ReconcileMatchedInPlace gets the widget
\* of the very entry it is told to diff against.
KeptInPlace ==
    pc = "insert" /\ n \in keep => children[Base + n] = start[Base + newToOld[n]]

\* Exactly the widgets that are gone were prepared for unmount, none of those
\* that were only moved.
UnmountedIsGone ==
    pc = "done" => unmounted = Range(start) \ Range(children)

Increasing(S) == \A i, j \in S : i < j => newToOld[i] < newToOld[j]

\* The kept entries are in the right order, and no larger set of matched
\* entries is: the loops move as few widgets as can be moved.
KeepIsLongest ==
    pc \in {"remove", "insert"} =>
        LET matched == {k \in DOMAIN new : newToOld[k] # 0}
        IN  /\ keep \subseteq matched /\ Increasing(keep)
            /\ \A S \in SUBSET matched : Increasing(S) => Cardinality(S) <= Cardinality(keep)

\* Which entries match, said without loops. Among the entries with one tag and
\* one comparable key the first new matches the first old, and so on. The
\* unkeyed old entries that match are the longest prefix of all unkeyed old
\* ones whose tags occur, in order, among the unkeyed new ones.
Occurrence(l, i) ==
    Cardinality({j \in 1..i : l[j].tag = l[i].tag /\ l[j].key = l[i].key})

KeyedPartner(k) ==
    {o \in DOMAIN old :
        /\ SameIdentity(old[o], new[k])
        /\ Occurrence(old, o) = Occurrence(new, k)}

Unkeyed(l) == {i \in DOMAIN l : l[i].key = NoKey}

\* f sends the first unkeyed old entries, in order, to new ones of their tag.
EmbedsPrefix(P, f) ==
    /\ \A i \in P, j \in Unkeyed(old) : j < i => j \in P
    /\ \A i, j \in P : i < j => f[i] < f[j]
    /\ \A i \in P : old[i].tag = new[f[i]].tag

MatchIsCanonical ==
    pc \in {"tails", "rebuild"} /\ n = 1 =>
        /\ \A k \in DOMAIN new \ Unkeyed(new) :
              {newToOld[k]} = IF KeyedPartner(k) = {} THEN {0} ELSE KeyedPartner(k)
        /\ LET P == Matched \intersect Unkeyed(old)
               at == [o \in P |-> CHOOSE k \in DOMAIN new : newToOld[k] = o]
           IN  /\ EmbedsPrefix(P, at)
               /\ \A o \in P : at[o] \in Unkeyed(new)
               /\ \A Q \in SUBSET Unkeyed(old) : \A f \in [Q -> Unkeyed(new)] :
                     EmbedsPrefix(Q, f) => Q \subseteq P

=============================================================================
