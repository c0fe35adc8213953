CONSTANTS
    Units <- MCUnits
    Main = "main"
    Given <- MCGiven
    Disk <- MCDisk
    Loops = {"i", "k"}
    Matches <- MCMatches
    Calls <- MCCalls
    MaxIncludeDepth = 2
    MaxBlocks = 3
SPECIFICATION Spec
INVARIANTS
    OwnScope
    SameText
    OwnIncludes
PROPERTY
    SameBranches
CHECK_DEADLOCK FALSE
