----------------------------- MODULE MCReconciler -----------------------------
(* Instances of Reconciler for TLC.                                        *)
EXTENDS Reconciler

Entry(t, k, x) == [tag |-> t, key |-> k, text |-> x]
ListsOf(S, length) == UNION {[1..m -> S] : m \in 0..length}

Row(k) == Entry("row", k, NoText)

\* Every order of all the rows, and some lists with rows missing.
MoveLists ==
    {l \in [1..4 -> {Row(k) : k \in {"a", "b", "c", "d"}}] : IsInjective(l)}
        \union {<<>>, <<Row("b")>>, <<Row("d"), Row("a"), Row("c")>>}

\* A list: a key that may repeat, and two tags without keys. Children: texts
\* that appear, change, vanish and come back. At most one component: keys that
\* compare, and one that does not.
AllLists ==
    [slot |-> MoveLists,
     list |-> ListsOf({Row("a"), Row(NoKey), Entry("tile", NoKey, NoText)}, 3),
     children |-> ListsOf({Entry("row", k, x) : k \in {"a", NoKey}, x \in Text \union {NoText}}, 2),
     single |-> ListsOf({Entry(t, k, x) : t \in Tag, k \in {"a", "f", NoKey}, x \in Text \union {NoText}}, 1)]

\* Children of a component, one of which may render nothing.
NoneLists == [children |-> ListsOf({Row("a"), Row(NoKey), Entry(None, NoKey, NoText)}, 2)]

\* A matched widget's children may be any widgets; which makes no difference, so
\* runs start with one choice of them.
MCInit ==
    /\ Init
    /\ form = "children" => children = [i \in DOMAIN children |-> i]
MCSpec == MCInit /\ [][Next]_vars

Parent1 == <<101>>
Parent2 == <<102>>
Empty == <<>>
Ids == 1..8 \union {101, 102}
FewerIds == 1..4

=============================================================================
