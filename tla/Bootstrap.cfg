CONSTANTS
    Archives <- MCArchives
    PatchesOf <- MCPatchesOf
    FilesOf <- MCFilesOf
    Backups <- MCBackups
    Languages <- MCLanguages
    Jobs = {1, 2}
    Attempts = 2
    Faults = 4
    FaultKinds = {"crash", "network", "mirror", "poison", "arguments"}
    CrashPoints <- Everywhere
SPECIFICATION FairSpec
INVARIANTS
    TypeOK
    PassIsTrue
    StampsTrue
PROPERTY
    OnlyTrapsStop
CHECK_DEADLOCK FALSE
