SPECIFICATION Spec
CONSTANTS
    Handlers = {h1, h2}
    Terminals = {t1, t2}
    Prompts = {p}
    Words = {"text", "close"}
    MaxMessages = 2
    MaxTaps = 1
    MaxEpoch = 1
    None = none
INVARIANTS RoutingInv AtMostOnce ReachesItsAgent AnswersTheQuestion
PROPERTIES ButtonsStayUsed
SYMMETRY Symmetry
