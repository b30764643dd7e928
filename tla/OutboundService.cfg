\* One recipient of a service notification; two operators and the outbox loop
\* race over its replays, under fair scheduling.
SPECIFICATION FairSpec
CONSTANTS
  WorkloadDeliveries = {}
  ServiceDeliveries = {s1}
  Payloads = {h1}
  Workers = {w1}
  Producers = {}
  Operators = {o1, o2}
  BatchSize = 1
  MaxAttempts = 2
  MaxReplays = 2
  MaxFaults = 0
INVARIANTS
  DLQMatchesStatus
  InFlightHasEntry
PROPERTIES
  OutboxDrains
