CONSTANTS
  Workers = {w1, w2}
  Partitions = {k1, k2}
  Payments = {p1}
  Corrupt = Corrupt
  None = None
  MaxLog = 1
  Faults <- NoFaults
SPECIFICATION Spec
INVARIANTS
  ChargedOnce
