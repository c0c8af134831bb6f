CONSTANTS
  Workers = {w1, w2}
  Partitions = {k1}
  Payments = {p1}
  Corrupt = Corrupt
  None = None
  MaxLog = 2
  Faults <- GroupFaults
SPECIFICATION Spec
INVARIANTS
  WorkerInv
  ChargedOncePerWorker
  CommittedIsHandled
  ApprovedIsCharged
SYMMETRY Symmetry
