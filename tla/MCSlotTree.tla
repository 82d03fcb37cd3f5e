------------------------------ MODULE MCSlotTree ------------------------------
(* A tree for TLC: three <Slot>s among the children of the root, around a   *)
(* None and a panel with a <Slot> of its own, and two <Slot>s below an      *)
(* entry of the first one's output.                                         *)
EXTENDS SlotTree

TreeKids ==
    [n \in Ordinary |->
        CASE n = "root"  -> <<"first", "second", "panel", None, "third">>
          [] n = "panel" -> <<"inner", "badge">>
          [] n = "row1"  -> <<"cell", "deep", "deeper">>
          [] OTHER       -> <<>>]

TreeOutputs ==
    [s \in Slot |->
        CASE s = "first"  -> {<<>>, <<"row1">>, <<"row1", "row2">>, <<"row2", "row1">>}
          [] s = "second" -> {<<>>, <<"tip">>}
          [] s = "third"  -> {<<>>, <<"flag">>}
          [] s = "inner"  -> {<<>>, <<"note">>}
          [] s = "deep"   -> {<<>>, <<"x", "y">>}
          [] s = "deeper" -> {<<>>, <<"z">>}]

TreeHeight ==
    [k \in Ordinary \union Slot |->
        CASE k = "root" -> 5
          [] k \in {"first", "panel"} -> 4
          [] k = "row1" -> 3
          [] k \in Slot \ {"first"} -> 2
          [] OTHER -> 0]
=============================================================================
