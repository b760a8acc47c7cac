\* A screening and a build, two calls in flight, the build may be cancelled.
SPECIFICATION Spec
CONSTANTS
  m1 = m1
  b1 = b1
  c1 = c1
  c2 = c2
  Messages = {m1}
  Confirms = {b1}
  Calls = {c1, c2}
  Canceled = {b1}
  Slow = {}
  DBFaults = TRUE
SYMMETRY Symmetry
INVARIANTS
  PhaseAgreesWithRuns
PROPERTIES
  ImplementsContract
