SPECIFICATION Spec
CONSTANTS
  r1 = r1
  r2 = r2
  r3 = r3
  Requests = {r1, r2}
  IsEdit = {r1}
  EndpointCount = 2
  CodecCount = 2
  MaxRetries = 1
INVARIANTS
  NoReplayOfUnknown
CHECK_DEADLOCK FALSE
