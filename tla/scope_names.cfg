SPECIFICATION Spec
CONSTANTS
    main = main
    child = child
    note = note
    row = row
    x = x
    y = y
    K = K
    frag = frag
    a = a
    b = b
    NoName = NoName
    Names <- MCNames
    Values = {a, b}
    Literals = {b}
    Templates = {main, child, note, row}
    Files = {main, child}
    Owner <- MCOwner
    Params <- MCParams
    Defaults <- MCDefaults
    Options <- MCOptions
    Consts <- MCConsts
    Inlines <- MCInlines
    LoopNames = {y}
    IncludeNames = {x}
    Lists <- MCLists
    MaxIncludeDepth = 2
    MaxFrames = 4
INVARIANTS
    ScopeMatchesCalls
    OnlyCallersShadow
    IdxIsOwn
    InlineTemplatesAreOwnUncached
    OptionsAsNarrowed
