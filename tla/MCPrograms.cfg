CONSTANTS
    Commands <- MCCommands
    Strtol <- MCStrtol
    Configs <- MCConfigs
    Lists <- MCLists
    Dirs <- MCDirs
    Site <- MCSite
    Disk0 <- MCDisk0
SPECIFICATION Spec
INVARIANTS
    
    OthersKept
    CleanExact
    SuccessMeansFiles
    
