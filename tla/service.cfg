CONSTANTS
  Requests = {r1, r2, r3}
  Keys = {k1}
  None = None
  Outcomes <- OneOutcome
  Faults <- AllFaults
SPECIFICATION Spec
INVARIANTS
  TypeOK
  StoredWithEvent
  OncePerKey
  AnswersAreStored
  RepeatsGetThePayment
  CreatedIsFound
  CacheNeverAhead
SYMMETRY Symmetry
CHECK_DEADLOCK FALSE
