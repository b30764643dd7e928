\* A discarded dead letter comes back: the Redis half of dead-lettering failed,
\* and the reclaimed entry dead-letters the delivery a second time.
SPECIFICATION Spec
CONSTANTS
  WorkloadDeliveries = {d1}
  ServiceDeliveries = {}
  Payloads = {h1}
  Workers = {w1}
  Producers = {p1}
  Operators = {}
  BatchSize = 1
  MaxAttempts = 1
  MaxReplays = 0
  MaxFaults = 1
PROPERTIES
  DiscardIsFinal
