SPECIFICATION Spec
CONSTANTS
  budget = budget
  remark = remark
  t1 = t1
  e1 = e1
  p1 = p1
  Fields = {budget, remark}
  Projected = {budget}
  Required = {budget}
  Tabs = {t1}
  Edits = {e1}
  Posts = {p1}
  MaxRevision = 3
  MaxRuns = 0
PROPERTY NeverLosesAnUpdate
