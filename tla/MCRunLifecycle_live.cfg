\* One build, posted by two calls, that may be cancelled and outlive its limit.
SPECIFICATION FairSpec
CONSTANTS
  b1 = b1
  c1 = c1
  c2 = c2
  Messages = {}
  Confirms = {b1}
  Calls = {c1, c2}
  Canceled = {b1}
  Slow = {b1}
  DBFaults = FALSE
PROPERTIES
  RunsEnd
  EndsAreAnnounced
