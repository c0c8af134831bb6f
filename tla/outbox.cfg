CONSTANTS
  r1 = r1
  Relays = {r1, r2}
  NEvents = 2
  Limit <- OneOrTwo
  Faults <- AllFaults
  Watched = 2
SPECIFICATION HistoryFairSpec
INVARIANTS
  TypeOK
  ProcessedWasPublished
  GivenUpForCause
PROPERTIES
  SettledIsFinal
  SettlesForGood
