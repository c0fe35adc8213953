SPECIFICATION Spec
CONSTANTS
    a = a
    b = b
    k = k
    int = int
    none = none
    row = row
    hollow = hollow
    Gen = Gen
    Row = Row
    Threads = {g1, g2}
    Objects = {o1, o2}
    Names = {a, b, k}
    Kinds = {int, none, row, hollow}
    Consts = {k}
    Files <- MCFiles
    HostTypes = {Gen, Row, NotAStruct}
    NotAStruct = NotAStruct
    Contexts <- MCContexts
    Expected <- MCExpected
    Built <- MCBuilt
    Loose <- MCLoose
    NoDefault = NoDefault
    Nowhere = Nowhere
SYMMETRY Interchangeable
INVARIANTS
    SkipIsEarned
    UnvalidatedConform
    ValidatedIsComplete
