SPECIFICATION Spec
CONSTANTS
  r1 = r1
  r2 = r2
  r3 = r3
  Requests = {r1, r2, r3}
  MaxConcurrent = 2
  MaxOrphans = 1
INVARIANTS
  TypeOK
  PermitsConserved
  WorkersBounded
  GaugeExact
PROPERTIES
  EveryRequestAnswered
