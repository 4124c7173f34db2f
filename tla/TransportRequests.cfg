SPECIFICATION Spec
CONSTANTS
  r1 = r1
  r2 = r2
  r3 = r3
  Requests = {r1, r2, r3}
  IsEdit = {r1}
  EndpointCount = 2
  CodecCount = 2
  MaxRetries = 1
SYMMETRY MCSymmetry
INVARIANTS
  TypeOK NoReplay DispatchBudget
PROPERTIES
  AbortIsFinal CooldownRespected
CHECK_DEADLOCK FALSE
