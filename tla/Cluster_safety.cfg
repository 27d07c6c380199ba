SPECIFICATION ClusterSpec
CONSTANTS
    n1 = n1
    n2 = n2
    n3 = n3
    u1 = u1
    u2 = u2
    u3 = u3
    c1 = c1
    c2 = c2
    c3 = c3
    Nodes = {n1, n2}
    Leader = n1
    LockTimeout = 1
    Scenarios <- TheScenarios
    None = None
    Brokers = {n1, n2, n3}
    Clients = {u1, u2, u3}
    Gatherings <- TheGatherings
    Nobody = Nobody
INVARIANTS
    OneClusterSession
    TablesFollow
    ReplicasAgree
    ServedAsOne
CHECK_DEADLOCK FALSE
