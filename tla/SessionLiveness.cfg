SPECIFICATION FairSpec
CONSTANTS
  t1 = t1
  t2 = t2
  t3 = t3
  Tasks = {t1, t2}
  Lanes = {"comfyui", "provider"}
  NoLane = NoLane
  NoTask = NoTask
  LaneOf <- MCMixedLanes
  LaneCap <- MCLaneCap
  MaxRunning = 2
  MaxEntries = 3
PROPERTIES
  QueueMoves AttemptsSettle
CHECK_DEADLOCK FALSE
