SPECIFICATION Spec
CONSTANTS
    agent = agent
    here = here
    main = main
    part = part
    foot = foot
    Nil = Nil
    Tasks = {t1, t2}
    Templates = {agent}
    Origins = {here}
    OriginOf <- OneOrigin
    Entry <- MCEntry
    Renders <- MCRenders
    Paths = {main, part, foot}
    Imports <- MCImports
    Hosted <- NoFoot
    Edited = {part}
    Broken <- BrokenOnce
    MaxRounds = 2
    MaxVersion = 3
    MaxClears = 1
INVARIANTS
    IncludesCurrent
    OnlyOwnFetches
    RoundsBounded
PROPERTIES
    Settles
