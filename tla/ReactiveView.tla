---------------------------- MODULE ReactiveView -----------------------------
(***************************************************************************)
(* What the reactive runtime promises a component author, without its      *)
(* queue, registry, passes or stacks: a <Slot> runs once when it appears,  *)
(* and again only when a signal its last run read has been written since.  *)
(***************************************************************************)
CONSTANTS Signal, Slot

VARIABLES
    live,      \* the slots on screen
    running,   \* the slots whose callable is running
    reads,     \* what the last run of each slot read
    behind     \* what was written since: a slot that never ran lacks everything

vars == <<live, running, reads, behind>>

Init ==
    /\ live = {} /\ running = {}
    /\ reads = [a \in Slot |-> {}]
    /\ behind = [a \in Slot |-> {}]

Appear(a) ==
    /\ a \notin live
    /\ live' = live \union {a}
    /\ reads' = [reads EXCEPT ![a] = {}]
    /\ behind' = [behind EXCEPT ![a] = Signal]
    /\ UNCHANGED running

Disappear(a) ==
    /\ a \in live \ running
    /\ live' = live \ {a}
    /\ reads' = [reads EXCEPT ![a] = {}]
    /\ behind' = [behind EXCEPT ![a] = {}]
    /\ UNCHANGED running

Run(a) ==
    /\ a \in live \ running
    /\ behind[a] # {}
    /\ running' = running \union {a}
    /\ reads' = [reads EXCEPT ![a] = {}]
    /\ behind' = [behind EXCEPT ![a] = {}]
    /\ UNCHANGED live

Read(a, s) ==
    /\ a \in running
    /\ reads' = [reads EXCEPT ![a] = @ \union {s}]
    /\ UNCHANGED <<live, running, behind>>

Write(s) ==
    /\ behind' = [a \in Slot |-> IF s \in reads[a] THEN behind[a] \union {s} ELSE behind[a]]
    /\ UNCHANGED <<live, running, reads>>

Stop(a) ==
    /\ a \in running
    /\ running' = running \ {a}
    /\ UNCHANGED <<live, reads, behind>>

Next ==
    \/ \E a \in Slot : Appear(a) \/ Disappear(a) \/ Run(a) \/ Stop(a)
    \/ \E a \in Slot, s \in Signal : Read(a, s)
    \/ \E s \in Signal : Write(s)

Spec == Init /\ [][Next]_vars
=============================================================================
