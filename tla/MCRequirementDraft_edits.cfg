\* Two keys, each sent by up to two calls, against screening turns; no builds.
SPECIFICATION Spec
CONSTANTS
  budget = budget
  remark = remark
  t1 = t1
  e1 = e1
  e2 = e2
  p1 = p1
  p2 = p2
  Fields = {budget, remark}
  Projected = {budget}
  Required = {budget}
  Tabs = {t1}
  Edits = {e1, e2}
  Posts = {p1, p2}
  MaxRevision = 3
  MaxRuns = 0
SYMMETRY Symmetry
INVARIANTS
  RevisionNamesDraft
PROPERTIES
  AppliedOnce
