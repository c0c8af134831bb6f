CONSTANTS
  Workers = {w1}
  Partitions = {k1}
  Payments = {p1}
  Corrupt = Corrupt
  None = None
  MaxLog = 3
  Faults <- AllFaults
SPECIFICATION FairSpec
INVARIANTS
  TypeOK
  OutcomesMatchGateway
  CacheNeverAhead
PROPERTIES
  LifecycleSpec
  SettlesOrIsStranded
