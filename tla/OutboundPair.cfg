\* A workload delivery, whose request may be abandoned half way, and a service
\* delivery share the worker, its batch and the bot's gate; fair scheduling.
SPECIFICATION FairSpec
CONSTANTS
  WorkloadDeliveries = {d1}
  ServiceDeliveries = {s1}
  Payloads = {h1}
  Workers = {w1}
  Producers = {p1}
  Operators = {}
  BatchSize = 2
  MaxAttempts = 2
  MaxReplays = 0
  MaxFaults = 1
INVARIANTS
  WorkerView
PROPERTIES
  RateLimitHolds
  AcceptedSettles
