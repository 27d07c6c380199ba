CONSTANTS
    plain = plain
    willful = willful
    leaver = leaver
    ephemeral = ephemeral
    fleeting = fleeting
    clean = clean
    hasty = hasty
    other = other
    Conns = {plain, willful, leaver, ephemeral, fleeting, clean, hasty, other}
    Casts <- SomeCasts
    CleanStarts = {clean}
    Ephemeral = {ephemeral, fleeting}
    WillDelays = {willful}
    Subscribers = {willful, other, leaver, fleeting}
    Unsubscribers = {leaver}
    Polite = {willful, fleeting, leaver, other}
    None = None
    Admin = Admin
    Unanswered = {hasty, Admin}
    Refusable = {plain}
SPECIFICATION Spec
INVARIANTS OneSessionFound OrphanWasReplaced SubscribedHasRoute WillAtMostOnce
CHECK_DEADLOCK FALSE
