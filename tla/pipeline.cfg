CONSTANTS
  NRequests = 2
  Asked <- GoodOnly
  Keys = {k1}
  None = None
  Apis = {a1}
  Limit <- OnePerPoll
  Workers = {w1}
  Partitions = {p1}
  Corrupt = Corrupt
  MaxLog = 2
  MaxStops = 1
  ServiceFaults <- ApiFaults
  RelayFaults <- SignalOnly
  WorkerFaults <- CrashOnly
SPECIFICATION Spec
INVARIANTS
  OneChargePerKey
  PublishedIsStored
  OnItsWay
PROPERTIES
  ServiceSpec
  LifecycleSpec
