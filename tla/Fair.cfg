CONSTANTS
    plain = plain
    willful = willful
    leaver = leaver
    ephemeral = ephemeral
    fleeting = fleeting
    clean = clean
    hasty = hasty
    other = other
    Conns = {plain, willful, ephemeral, clean}
    Casts <- FairCasts
    CleanStarts = {clean}
    Ephemeral = {ephemeral}
    WillDelays = {willful}
    Subscribers = {}
    Unsubscribers = {}
    Polite = {willful}
    None = None
    Admin = Admin
    Unanswered = {}
    Refusable = {plain}
    BrPlans <- MCBrPlans
    BrMessages = {1}
    GmCalls = {"m1", "m2", "m3"}
    GmBatch = 2
    GmLimit = 1
    GmChannel = 2
    GmFaults = 1
    GmImpatient = {"m1"}
SPECIFICATION PartsSpec
INVARIANTS StoppedBridgeSilent RepliesPaired
PROPERTIES WillInTheEnd HandshakeEnds BridgeSubscribes CallsAnswered
CHECK_DEADLOCK FALSE
