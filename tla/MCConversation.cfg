SPECIFICATION ConversationSpec
CONSTANTS
  Categories <- MCCategories
  Capabilities <- MCCapabilities
  Established <- MCEstablished
  Updates <- MCUpdates
  Edits <- MCEdits
  Offers <- MCOffers
  Sayings <- MCSayings
  DefaultFlex = 10
  MaxRevision = 3
  MaxMessages = 4
  Turns = {t1, t2}
  Kinds = {cpu, gpu, ram}
  Budgets = {4}
  Deltas = {1}
  Flex = 0
  MaxRounds = 2
  MaxVersions = 2
  MaxTurns = 3
  MaxLegacy = 2
SYMMETRY TurnSymmetry
CHECK_DEADLOCK FALSE
INVARIANTS
  ReadyIsProjectable
  ExceptionsAreUndone
  GuardedBatchApplies
  AcceptedWasJustProposed
  VersionsFollowChanges
  StateNamesARow
