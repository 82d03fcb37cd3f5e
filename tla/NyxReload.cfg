SPECIFICATION Spec
CONSTANTS
    Files <- ThreeFiles
    RootFile = "App"
    Classes <- RowClass
    VersionsOf <- ReloadVersions
    Text <- AllTexts
    FirstDisk <- ReloadDisk
    MaxInstances = 8
    MaxEdits = 3
INVARIANTS DocumentStays OneHolder SameText HooksAreCurrent OwnSignals PositionsKept
PROPERTIES ValuesSurvive UnchangedKeepsState
CHECK_DEADLOCK FALSE
