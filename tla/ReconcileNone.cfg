SPECIFICATION Spec
CONSTANTS
    Tag = {"row", "tile"}
    Key = {"a"}
    Text = {"x"}
    None = "none"
    NoKey = "nokey"
    NoText = "notext"
    Incomparable = {}
    Lists <- NoneLists
    Widget <- FewerIds
    NoWidget = 0
    SlotBefore <- Empty
    SlotAfter <- Empty
    Forms = {"children"}
INVARIANTS
    CalledAligned
