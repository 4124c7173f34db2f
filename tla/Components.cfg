SPECIFICATION Spec
CONSTANTS
  j1 = j1  j2 = j2  t1 = t1  t2 = t2  t3 = t3  m1 = m1  r1 = r1  r2 = r2
  Jobs = {j1, j2}
  MaxPolls = 2
  MaxElapsed = 3
  MinPollDelay = 1
  MaxPollDelay = 2
  NoReading = NoReading
  MaxCalls = 4
  SelectionKeys = {s1}
  LayerKeys = {l1}
  PlainKeys = {p1}
  None = None
  Tasks = {t1, t2, t3}
  OldTasks <- MCOldTasks
  MaskOf <- MCMaskOf
  MaxTerminal = 1
  HighWatermark = 1
  LowWatermark = 1
  MaxRequests = 2
  Values = {v1, v2}
  Partial = Partial
  MaxOps = 2
  MaxCrashes = 1
  Rounds = {r1, r2, r3}
  OutputsOf <- MCOutputsOf
  MaxGenerations = 1
  MaxAttempts = 2
  MaxLoads = 2
INVARIANTS
  ComponentsTypeOK WithinBudget UsageWithinSubmit DraftMaskAccounted ReadyIsCurrent
  LastReferenceKept SlotsConserved NeverReplayed
PROPERTIES
  ExecutionEnds RunningAssetsKept SweepFollows CommitReplacesExpected ReceiptIsOwn AttemptEnds
CHECK_DEADLOCK FALSE
