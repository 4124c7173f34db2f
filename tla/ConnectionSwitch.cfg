SPECIFICATION ManagementSpec
CONSTANTS
  u1 = u1
  u2 = u2
  w1 = w1
  Targets = {u1, u2}
  NoTarget = NoTarget
  Workflows = {w1}
  MaxAttempts = 3
  Listed = {w1, w2}
  Revisions = {v1, v2}
  MaxSelections = 2
  MaxDiscoveries = 2
  MaxPromotions = 2
  MaxReads = 1
  MaxSignals = 1
  MaxBeside = 1
INVARIANTS
  ManagementTypeOK GenerationOwned ActiveIsDurable NothingStale SelectionIsDurable
PROPERTIES
  LatestWins NoStaleFailure SelectionKept
SYMMETRY MCSymmetry
CHECK_DEADLOCK FALSE
