SPECIFICATION MCSpec
CONSTANTS
    Tag = {"row", "tile"}
    Key = {"a", "b", "c", "d", "f"}
    Text = {"x", "y"}
    None = "none"
    NoKey = "nokey"
    NoText = "notext"
    Incomparable = {"f"}
    Lists <- AllLists
    Widget <- Ids
    NoWidget = 0
    SlotBefore <- Parent1
    SlotAfter <- Parent2
    Forms = {"slot", "list", "children", "single"}
INVARIANTS
    TypeOK
    NewListShown
    WidgetsSurvive
    KeptInPlace
    UnmountedIsGone
    KeepIsLongest
    MatchIsCanonical
