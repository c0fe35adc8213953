CONSTANTS
    Units <- MCUnits
    Main = "main"
    Given <- MCGiven
    Disk <- MCDisk
    Loops = {"i"}
    Matches <- MCMatches
    Calls <- MCCalls
    MaxIncludeDepth = 2
    MaxBlocks = 3
SPECIFICATION Spec
INVARIANT
    NothingLeaks
CHECK_DEADLOCK FALSE
