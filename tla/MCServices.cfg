SPECIFICATION FairSpec
CONSTANTS
  Requests = {r1, r2, r3}
  MaxWrites = 3
  MaxAging = 1
  MaxExpiries = 1
  Calls = {c1, c2, c3}
  Bodies = {b1, b2}
  MaxFaults = 1
  Users = {u1, u2}
  Owners = {o1, o2}
  Logins = {l1, l2}
  Versions = {1}
  Keys = {k1, k2}
  Creates = {c1, c2}
  Readers = {r1}
  Values = {v1, v2}
  Saves = {s1, s2}
  Deletes = {d1}
  Confirms = {f1}
  MaxRows = 3
  MaxRevision = 2
  Clients = {w1}
  Limit = 3
  Batch = 2
  MaxLog = 5
  MaxDrops = 3
  MaxOutages = 2
  Agents = {a1, a2}
  Layers = {{"session"}, {"app", "user", "temp"}}
  MaxEvents = 2
  MaxBreaks = 2
  MaxCalls = 6
  MaxHarm = 1
  Searches = {s1, s2}
  Collectors = {c1}
  BatchOf = 2
  Budget = 4
  Plan = 6
  Pages <- MCPages
  MaxPageCalls = 2
  Configured <- ThreeNames
  Queries = {q1, q2}
  Order <- MCOrder
  Gold <- MCGold
  Script <- MCScript
  Gates <- MCGates
  Floors <- MCFloors
  Selftest <- MCSelftest
  Splits <- MCSplits
  Repeats <- MCRepeats
  Recordings <- MCRecordings
  Categories = {"cpu", "gpu"}
  PartDirs <- MCPartDirs
  PriceDirs <- MCPriceDirs
  PriceFiles <- MCPriceFiles
  Dates = {1, 2, 3}
  Before <- MCBefore
  Runs = {1, 2, 3}
  Recorded <- MCRecorded
  Indexes <- MCIndexes
INVARIANTS
  RunsOneAtATime
  CreatedOnceRevokedForGood
  SaveReportsTruth
  AcknowledgedSurvive
  PassIsEarned
  RowsStandForReleases
  CarriedWasRecorded
  ViewStands
  NothingFailedIsHidden
  ClearedByWholeRuns
  LedgerCoversUse
  OnlyShellsAreRendered
  LeftForGood
PROPERTIES
  ImplementsFeed
  FollowersAreLetGo
CHECK_DEADLOCK FALSE
