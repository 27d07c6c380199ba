SPECIFICATION EdgesSpec
CONSTANTS
    p1 = p1
    p2 = p2
    HkPlugins = {p1, p2}
    HkPriority <- MCPriority
    HkTypes = {ta, tb}
    HkImmutable = {}
    HkUnstoppable = {p2}
    e1 = e1
    e2 = e2
    ta = ta
    tb = tb
    HkEvents = {e1, e2}
    HkEventTypes <- MCEventTypes
    HkCallers = {m1, m2}
    HkSlot <- MCSlot
    HkGrpc = tb
    HkWorkers <- MCWorkers
    HkOps = 2
    HkFails = 1
    HkBoots = {{p1}}
    a1 = a1
    a2 = a2
    a3 = a3
    AuClients = {a1, a2, a3}
    AuUnfit = {a3}
    AuTimeout = 1
    AuUser <- MCUser
    AuFiles <- MCFiles
    AuAnonymous = TRUE
    AuDenyIfError = TRUE
    AuDisconnect = TRUE
    AuCacheable = {100, 1, 101}
    AuScenes <- MCScenes
    AuChecks = 2
    h1 = h1
    h2 = h2
    h3 = h3
    WhEvents = {h1, h2, h3}
    WhEvent <- MCWhEvent
    WhConfigs <- MCWhConfigs
    WhHttp = {"web"}
    WhTries = 2
    WhFaults = 2
    WhReloads = 1
    CnTopics = {"ta", "tb"}
    CnPackets <- MCCnPackets
    CnListener <- MCCnListener
    CnMessages <- MCCnMessages
    CnU16 = 65535
    CnWidth = 16
    CnMilli = 4
    CnPlans <- MCCnPlans
    SbFilters = {"fa", "fb", "deep"}
    SbDeep = {"deep"}
    SbMax = 1
    SbSessions = 2
    SbPackets <- MCSbPackets
    SbCalls = 2
    ApNodes = {"n1", "n2", "n3"}
    ApMe = "n1"
    ApClients = {"c1", "c2", "c3", "c4"}
    ApAway = "away"
    ApPlans <- MCApPlans
INVARIANT AllClientsReturned
CHECK_DEADLOCK FALSE
