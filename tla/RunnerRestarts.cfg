\* Two requests at once, a shutdown or a crash, and another consumer.
SPECIFICATION Spec
CONSTANTS
  Requesters = {a1, a2}
  Main = main
  Tokens = {"t1", "t2"}
  AllModes <- ManagedOrIdle
  LoopIds = {1, 2}
  NoLoop = 0
  NoOne = none
  NoToken = "none"
  MaxRequests = 2
  MaxStarts = 1
  MaxConflicts = 1
INVARIANTS
  TypeOK
  OnePollLoop
  RunnerFollowsRow
PROPERTIES
  StopsTakeEffect
CHECK_DEADLOCK FALSE
