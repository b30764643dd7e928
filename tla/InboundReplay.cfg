\* Two webhook requests at a time over two updates of one callback query, which
\* is delivered, dies, is replayed twice or discarded; two faults.
SPECIFICATION Spec
CONSTANTS
  NumUpdates = 2
  CallbackOf <- SameCallback
  Routes = {"backend", "adapter"}
  Pollers = {}
  Hooks = {h1, h2}
  Operators = {o1}
  AdapterOptional = FALSE
  BatchSize = 2
  MaxAttempts = 2
  MaxReplays = 2
  MaxFaults = 2
SYMMETRY Symmetry
INVARIANTS
  IngestedOnce
  DeadLettersAgree
PROPERTIES
  ImplementsLifecycle

CHECK_DEADLOCK FALSE
