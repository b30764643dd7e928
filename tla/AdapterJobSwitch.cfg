\* The job is changed and changed back around a crash.
SPECIFICATION FairSpec
CONSTANTS
  Workers = {w1}
  Configs = {j1, j2}
  MaxFailures = 2
  MaxFaults = 1
  MaxConfigChanges = 2
PROPERTIES
  ExecutionEnds
CHECK_DEADLOCK FALSE
