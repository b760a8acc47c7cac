\* Five turns, so that two loops through a gate leave one turn.  The view leaves out
\* two counters nothing depends on.
SPECIFICATION PlanningSpec
VIEW Watched
CONSTANTS
  Drafts <- MCDrafts
  Claims = {{}, {"overclaim"}}
  Inputs <- MCInputs
  Problems <- MCProblems
  Builds <- MCBuilds
  Absences <- MCAbsences
  MaxTurns = 5
  MaxTools = 2
  MaxSearches = 1
  MaxPages = 1
  MaxFacts = 1
  MaxBatch = 3
  Slots = {"cpu", "gpu", "motherboard", "memory", "ssd"}
  LaneLimit = 2
  SampleLimit = 2
  GroupLimit = 3
  MaxCandidates = 8
  MaxAttempts = 3
  Orders <- MCOrders
INVARIANTS
  ReadyIsVerified
  OverrunsArePressed
  FixIsSound
  MissingFieldsSuffice
  BoundIsSound
  BaseStaysBuildable
  DeliveredHolds
  VerifiedRepairDelivers
PROPERTIES
  VerdictsStand
CHECK_DEADLOCK FALSE
