\* The acts are shared: crashes, faults, and what operators do with the panel.
CONSTANTS
  Pids = {1, 2}
  NStatuses = 3
  NPack = 4
  Edits = {1, 2, 3, 5}
  MaxTries = 2
  MaxEvents = 4
  MaxPanels = 4
  Actors = {a1, a2}
  Wishes = {"start", "stop", "restart", "resync"}
SYMMETRY ActorSymmetry
CONSTRAINT OneConcern
SPECIFICATION LifeSpec
CHECK_DEADLOCK FALSE
INVARIANTS SomeoneServes IconsTell OnePanel
