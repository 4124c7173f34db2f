SPECIFICATION Spec
CONSTANTS
  t1 = t1
  t2 = t2
  t3 = t3
  Tasks = {t1, t2}
  Lanes = {"comfyui", "provider"}
  NoLane = NoLane
  NoTask = NoTask
  LaneOf <- MCOneLane
  LaneCap <- MCLaneCap
  MaxRunning = 2
  MaxEntries = 4
INVARIANTS
  TypeOK OneAttempt DurableBeforePublished RetryPromiseOwned
PROPERTIES
  NoJobAfterDispose PublishedResultStays ImplementsDurableTask
SYMMETRY MCSymmetry
CHECK_DEADLOCK FALSE
