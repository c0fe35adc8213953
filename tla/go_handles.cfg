SPECIFICATION Spec
CONSTANTS
    Goroutines = {g1, g2}
    Collector = gc
    Templates = {t1}
    Contexts = {c1}
    Caches = {k1}
INVARIANTS
    OwnershipKept
    NothingLeaks
PROPERTIES
    ClosesReturn
CHECK_DEADLOCK FALSE
