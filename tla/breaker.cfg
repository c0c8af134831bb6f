CONSTANTS
  MaxRetries = 3
  Threshold = 3
  MaxRequests = 3
  Interval <- FiveSeconds
  Timeout <- TenSeconds
  MaxUntried = 8
SPECIFICATION FairSpec
INVARIANTS
  TypeOK
  NeverTooMany
  AtMostSixUntried
PROPERTIES
  OpensForCause
  ClosesAgain
