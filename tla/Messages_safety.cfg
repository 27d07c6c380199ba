SPECIFICATION MessagesSpec
CONSTANTS
    f1 = f1
    f2 = f2
    a = a
    b = b
    c = c
    d = d
    m1 = m1
    m2 = m2
    g = g
    NoGroup = NoGroup
    NoMsg = NoMsg
    Msgs = {m1, m2}
    Clients = {a, b, c, d}
    Filters = {f1, f2}
    Subs <- TheSubs
    GroupOf <- TheGroups
    V5 = {b}
    NewOnly = {b}
    NoLocal <- TheNoLocal
    Publisher <- ThePublisher
    Retained = {m1, m2}
    Encode = TRUE
    CacheMaxCount = 1
    MaxLimit = 1
    MaxSubscribes <- TheSubscribes
    Mortal = {m1}
    Leavers = {c}
    Casts <- TheCasts
    MaxInflight = 2
    IdSpan = 8
    MaxMsgs = 3
    MaxTakeovers = 2
INVARIANTS
    Carried
    ResentHonestly
    RetainedReaches
    LiveReaches
    StoredNeverTwice
    StoreConsistent
CHECK_DEADLOCK FALSE
