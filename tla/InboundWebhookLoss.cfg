\* What ProcessUpdate says of its result, in webhook mode.
SPECIFICATION Spec
CONSTANTS
  NumUpdates = 1
  CallbackOf <- NoCallbacks
  Routes = {"backend"}
  Pollers = {}
  Hooks = {h1}
  Operators = {}
  AdapterOptional = FALSE
  BatchSize = 2
  MaxAttempts = 1
  MaxReplays = 0
  MaxFaults = 1
INVARIANTS
  AcknowledgedIsKept
CHECK_DEADLOCK FALSE
