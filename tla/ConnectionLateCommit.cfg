SPECIFICATION Spec
CONSTANTS
  u1 = u1
  u2 = u2
  w1 = w1
  Targets = {u1, u2}
  NoTarget = NoTarget
  Workflows = {w1}
  MaxAttempts = 2
INVARIANTS
  SupersededNeverActive
CHECK_DEADLOCK FALSE
