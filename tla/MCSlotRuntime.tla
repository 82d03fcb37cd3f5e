---------------------------- MODULE MCSlotRuntime ----------------------------
(* Instances of SlotRuntime: up to two signals and a tree of named <Slot> sites. *)
EXTENDS SlotRuntime, TLC

CONSTANTS outer, inner, leaf, plain, s1, s2, a1, a2, a3, a4

\* outer's output may contain inner; plain has no nested slot.
NestedKids  == (outer :> {inner}) @@ (inner :> {}) @@ (plain :> {})
NestedLevel == (outer :> 0) @@ (inner :> 1) @@ (plain :> 0)

\* Two roots, one of them the head of a chain of three: the destructor recurses.
TreeKids  == (outer :> {inner}) @@ (inner :> {leaf}) @@ (leaf :> {}) @@ (plain :> {})
TreeLevel == (outer :> 0) @@ (inner :> 1) @@ (leaf :> 2) @@ (plain :> 0)

Addresses == Permutations({a1, a2, a3, a4} \intersect Addr)
=============================================================================
