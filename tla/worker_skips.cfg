CONSTANTS
  Workers = {w1}
  Partitions = {k1}
  Payments = {p1, p2}
  Corrupt = Corrupt
  None = None
  MaxLog = 2
  Faults <- DbFaults
SPECIFICATION Spec
INVARIANTS
  NothingSkipped
