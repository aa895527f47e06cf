\* Two calls, two tries each, at most two attempts in four ticks; the channel
\* holds one call, so that callers also wait to enqueue.
CONSTANTS
    Callers = {c1, c2}
    QueueBuffer = 1
    MinGap = 1
    WindowLimit = 2
    Window = 4
    MaxTries = 2
    MaxWait = 2
    Second = 1
    RetryAfters = {2, 3}
    Horizon = 6
    None = None
SPECIFICATION FairSpec
INVARIANTS BucketInv RateLimit
PROPERTIES DoReturns AnsweredOnce
CHECK_DEADLOCK FALSE
