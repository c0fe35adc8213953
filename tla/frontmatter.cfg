CONSTANTS
    Calls <- MCCalls
    Disks <- MCDisks
    Pascal <- MCPascal
    MaxEdits = 1
SPECIFICATION Spec
INVARIANTS
    ImportedAsCompiled
    PathsAsConstants
    DefaultsAsNamed
    NamesCanBeRead
CHECK_DEADLOCK FALSE
