SPECIFICATION FairSpec
CONSTANTS
    Questions = {q1, q2}
    Multi = {q2}
    Entry = {q2}
    Plain = {}
    Mode = "silent"
    Reannounce = TRUE
    Delays = {TRUE, FALSE}
    Pager = TRUE
    Faults = TRUE
    Acts = {"press", "text", "command", "desk", "quiet", "mute", "sync", "resync", "exit", "restart", "followup", "done"}
    MaxSeq = 3
    MaxStream = 1
    MaxJobs = 1
    MaxPosts = 2
    MaxActs = 2
    None = None
INVARIANT BridgeInv
CHECK_DEADLOCK FALSE
PROPERTY QuestionPosted
