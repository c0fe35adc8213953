SPECIFICATION Spec
CONSTANTS
    p = p
    link = link
    f2 = f2
    f3 = f3
    staging = staging
    prod = prod
    NoEnv = NoEnv
    Nil = Nil
    Unlimited = Unlimited
    Epoch = 0
    Threads = {t1, t2}
    Clearers = {t1, t2}
    Paths = {p, link, f2, f3}
    Files = {p, f2, f3}
    Canonical <- LinkedAndOthers
    Contents = {hello, broken}
    Broken = {broken}
    Calls <- LoadsAndIncludes
    MaxEntries = 2
    Mtime <- DistinctTimes
    Deletable = {f2}
    Editable = {p}
    MaxVersion = 2
    MaxClock = 2
SYMMETRY Interchangeable
INVARIANTS
    TypeOK
    WithinLimit
    ErrorHasCause
    Fresh
    OwnContext
PROPERTIES
    EvictionIsOrderly
    Transparent
