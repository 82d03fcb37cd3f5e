\* Six slots on three levels; every callable returns what it likes, each time.
SPECIFICATION Spec
CONSTANTS
    Ordinary = {"root", "panel", "badge", "row1", "row2", "cell", "tip", "flag", "note", "x", "y", "z"}
    Slot = {"first", "second", "third", "inner", "deep", "deeper"}
    None = "none"
    Kids <- TreeKids
    Outputs <- TreeOutputs
    Root = "root"
    Host = "host"
    Height <- TreeHeight
INVARIANTS
    ChildrenInOrder
    ParentAlive
    FindsOwn
    LockStep
    BareWhenDiffed
