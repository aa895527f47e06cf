\* Two questions, a desk and one button: the agent moves on before it is pressed.
SPECIFICATION Spec
CONSTANTS
    Questions = {q1, q2}
    Multi = {}
    Entry = {}
    Plain = {}
    Mode = "silent"
    Reannounce = TRUE
    Delays = {FALSE}
    Pager = TRUE
    Faults = FALSE
    Acts = {"press", "desk"}
    MaxSeq = 3
    MaxStream = 1
    MaxJobs = 1
    MaxPosts = 2
    MaxActs = 2
    None = None
INVARIANT AnswersItsQuestion
CHECK_DEADLOCK FALSE
