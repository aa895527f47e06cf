SPECIFICATION FairSpec
CONSTANTS
    n1 = n1
    Keys = {k1}
    Custom = {}
    Names = {n1}
    Statuses = {"working", "idle"}
    Gates = {}
    Faults = FALSE
    Strict = FALSE
    Typed <- TypedBare
    Hands = {"close", "reopen"}
    MaxThreads = 2
    MaxTries = 1
    MaxEvents = 2
    MaxNews = 1
    MaxEntries = 1
    MaxTrouble = 5
    None = None
INVARIANT Settled
PROPERTY Settles
