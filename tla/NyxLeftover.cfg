SPECIFICATION Spec
CONSTANTS
    Files <- ThreeFiles
    RootFile = "App"
    Classes <- RowClass
    VersionsOf <- LeftVersions
    Text <- AllTexts
    FirstDisk <- LeftDisk
    MaxInstances = 8
    MaxEdits = 3
INVARIANT LeftoverIsAlive
CHECK_DEADLOCK FALSE
