SPECIFICATION Spec
CONSTANTS
  Searches = {s1, s2, s3}
  Collectors = {c1}
  BatchOf = 2
  Budget = 4
  Plan = 10
INVARIANT SearchesWithinBudget
CHECK_DEADLOCK FALSE
