SPECIFICATION DisksSpec
CONSTANTS
    NotANumber = NotANumber
    Tables <- SomeTables
    Filesystems <- SomeFilesystems
INVARIANTS
    DisksTypeOK
    DisksAreTheOnesBelow
