\* One delivery requested twice at a time, with two payloads under its key;
\* crashes, a rate limit, replays and a discard.
SPECIFICATION Spec
CONSTANTS
  WorkloadDeliveries = {d1}
  ServiceDeliveries = {}
  Payloads = {h1, h2}
  Workers = {w1}
  Producers = {p1, p2}
  Operators = {o1}
  BatchSize = 2
  MaxAttempts = 2
  MaxReplays = 2
  MaxFaults = 2
SYMMETRY Symmetry
INVARIANTS
  TypeOK
  AtMostOneDelivery
  DeadLetterReachesRedis
  OneEntryPerGeneration
  PromiseKept
PROPERTIES
  ImplementsLifecycle
