CONSTANTS
  Panes = {p1, p2}
  Start = {p1}
  Terminals = {t1, t2}
  OutCap = 1
  MaxDelay = 2
  MaxAttempt = 1
  MaxMoves = 2
  MaxBreaks = 2
SPECIFICATION StreamSpec
 
PROPERTIES FlappingClimbs Converges
