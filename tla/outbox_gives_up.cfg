CONSTANTS
  r1 = r1
  Relays = {r1}
  NEvents = 1
  Limit <- OneOrTwo
  Faults <- BrokerOnly
  Watched = 1
SPECIFICATION HistorySpec
INVARIANTS
  NeverLost
