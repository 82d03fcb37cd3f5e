CONSTANTS
    outer = outer  inner = inner  leaf = leaf  plain = plain
    s1 = s1  s2 = s2
    a1 = a1  a2 = a2  a3 = a3  a4 = a4
    Signal = {s1, s2}
    Site = {outer, inner, leaf, plain}
    RootSite = {outer, plain}
    Addr = {a1, a2, a3}
    NoSite = NoSite  Host = Host
    Kids <- TreeKids
    Level <- TreeLevel
    MaxDepth = 2
    MaxWrites = 1
SYMMETRY Addresses
SPECIFICATION Spec
INVARIANTS TypeOK NoDangling SubscriptionsExact NoLostUpdate OneSlotPerSite
PROPERTY ImplementsView
\* A pass that meets a freed slot is undefined behaviour, where the model stops.
CHECK_DEADLOCK FALSE
