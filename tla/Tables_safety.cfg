SPECIFICATION TablesSpec
CONSTANTS
    Parts = {"filters", "retained", "routes", "locks"}
    Names = {"a", "b"}
    Metadata = {"$s"}
    Depth = 3
    Inserted <- SomeFilters
    Values = {"v"}
    MaxHeld = 3
    Empty = Empty
    Publishers = {p1, p2}
    PubTopics <- SomeTopics
    Payloads = {x, y}
    MaxRetained = 2
    Filters = {f1, f2}
    Clients = {c1, c2}
    Conns = {n1, n2}
    MaxCount = 2
    Threads = {t1, t2, t3}
    Mutexes = {m1, m2, m3}
    None = None
SYMMETRY Symmetry
INVARIANTS
    MatchesExactly
    RetainedExactly
    RoutesKept
PROPERTY
    LockPromise
CHECK_DEADLOCK FALSE
