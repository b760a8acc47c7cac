\* A required, an optional and an unprojected field; three build runs, so that
\* a retry may follow a confirmation newer than the one it goes back to.
SPECIFICATION Spec
CONSTANTS
  budget = budget
  game = game
  remark = remark
  t1 = t1
  e1 = e1
  p1 = p1
  Fields = {budget, game, remark}
  Projected = {budget, game}
  Required = {budget}
  Tabs = {t1}
  Edits = {e1}
  Posts = {p1}
  MaxRevision = 2
  MaxRuns = 3
INVARIANTS
  RetryFollowsConfirmation
  CurrentMatchesDraft
PROPERTIES
  StartedAsReviewed
  DeliveredIsCurrent
