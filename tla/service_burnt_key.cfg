CONSTANTS
  Requests = {r1, r2, r3}
  Keys = {k1}
  None = None
  Outcomes <- OneOutcome
  Faults <- NoFaults
SPECIFICATION Spec
INVARIANTS
  RepeatsGetTheAnswer
SYMMETRY Symmetry
CHECK_DEADLOCK FALSE
