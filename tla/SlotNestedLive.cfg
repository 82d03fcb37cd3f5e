CONSTANTS
    outer = outer  inner = inner  leaf = leaf  plain = plain
    s1 = s1  s2 = s2
    a1 = a1  a2 = a2  a3 = a3  a4 = a4
    Signal = {s1}
    Site = {outer, inner, plain}
    RootSite = {outer, plain}
    Addr = {a1, a2, a3}
    NoSite = NoSite  Host = Host
    Kids <- NestedKids
    Level <- NestedLevel
    MaxDepth = 1
    MaxWrites = 1
SPECIFICATION FairSpec
PROPERTY EventuallyRendered
\* A pass that meets a freed slot is undefined behaviour, where the model stops.
CHECK_DEADLOCK FALSE
