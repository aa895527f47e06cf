SPECIFICATION Spec
CONSTANTS
    n1 = n1
    Keys = {k1, k2}
    Custom = {k2}
    Names = {n1}
    Statuses = {"working"}
    Gates = {"rights", "sync", "desk", "hold", "resync"}
    Faults = TRUE
    Strict = TRUE
    Typed <- TypedBare
    Hands = {"close", "reopen", "delete"}
    MaxThreads = 3
    MaxTries = 2
    MaxEvents = 2
    MaxNews = 1
    MaxEntries = 1
    MaxTrouble = 3
    None = None
INVARIANTS MirrorInv PassHeals
PROPERTY MuteKept
