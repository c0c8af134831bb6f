CONSTANTS
  Workers = {w1}
  Partitions = {k1}
  Payments = {p1}
  Corrupt = Corrupt
  None = None
  MaxLog = 1
  Faults <- NoFaults
SPECIFICATION Spec
INVARIANTS
  RejectedIsDeadLettered
