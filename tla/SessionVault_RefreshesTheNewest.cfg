SPECIFICATION Spec
CONSTANTS
  Requests = {r1, r2}
  MaxWrites = 3
  MaxAging = 1
  MaxExpiries = 0
INVARIANT RefreshesTheNewest
CHECK_DEADLOCK FALSE
