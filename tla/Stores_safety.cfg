SPECIFICATION StoresSpec
CONSTANTS
    t1 = t1
    t2 = t2
    c1 = c1
    c2 = c2
    MaxIds = 2
    Interval = 2
    Refresh = 1
    QueueLen = 1
    Filters = {f}
    Shapes <- TheShapes
    KeepTopics = {t1, t2}
    KeepTasks = {b1, b2}
    KeepBatch = 2
    KeepMax = 1
    KeepScripts <- TheScripts
    KeepFaults = 1
    StMsgs = {1, 2, 3}
    StClients = {c1, c2}
    StLoads = {"subscribe", "transfer"}
    StTasks = {b1, b2}
    StBatch = 2
    StCleanup = 1
    StCasts <- TheStCasts
INVARIANTS
    LastSetServed
    StoreTruthful
PROPERTIES
    RestoresSession
    NothingRaised
CHECK_DEADLOCK FALSE
