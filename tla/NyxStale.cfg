SPECIFICATION Spec
CONSTANTS
    Files <- ThreeFiles
    RootFile = "App"
    Classes <- RowClass
    VersionsOf <- FailVersions
    Text <- AllTexts
    FirstDisk <- FailDisk
    MaxInstances = 8
    MaxEdits = 3
PROPERTY ReloadReadsDisk
