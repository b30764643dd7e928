\* Two overlapping callers, a fault, a restart with another job; fair scheduling.
SPECIFICATION FairSpec
CONSTANTS
  Workers = {w1, w2}
  Configs = {j1, j2}
  MaxFailures = 2
  MaxFaults = 1
  MaxConfigChanges = 1
INVARIANTS
  TypeOK
  TriggerOnce
  AnswersAreTrue
PROPERTIES
  ProgressIsKept
  KeepsPromise
  ExecutionEnds
CHECK_DEADLOCK FALSE
