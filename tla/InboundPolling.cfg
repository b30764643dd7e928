\* Two updates polled in one batch or in two, over a route that may be unknown,
\* disabled, a backend or the adapter; two faults; fair scheduling.
SPECIFICATION FairSpec
CONSTANTS
  NumUpdates = 2
  CallbackOf <- NoCallbacks
  Routes = {"unknown", "disabled", "backend", "adapter"}
  Pollers = {p1}
  Hooks = {}
  Operators = {}
  AdapterOptional = TRUE
  BatchSize = 2
  MaxAttempts = 2
  MaxReplays = 0
  MaxFaults = 2
INVARIANTS
  TypeOK
  AcknowledgedIsKept
PROPERTIES
  UpdatesAreTaken
  TakenSettles
CHECK_DEADLOCK FALSE
