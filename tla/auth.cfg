CONSTANTS
  Requests = {r1, r2, r3}
  Emails = {e1}
  p1 = p1
  p2 = p2
  short = short
  empty = empty
  long = long
  Passwords <- MCPasswords
  Empty = {empty}
  Short = {short, empty}
  Long = {long}
  First72 <- MCFirst72
  Apis = {a1, a2}
  None = None
  Lifetime = 2
  MaxSkew = 1
  MaxTime = 3
  Faults <- AllFaults
SPECIFICATION Spec
INVARIANTS
  TypeOK
  OneOwner
  RegisteredCanLogIn
  RepeatRegisters
PROPERTIES
  TokenWindow
SYMMETRY Symmetry
CHECK_DEADLOCK FALSE
