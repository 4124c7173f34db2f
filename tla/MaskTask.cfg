SPECIFICATION Spec
CONSTANTS
  MaxCalls = 4
  SelectionKeys = {s1}
  LayerKeys = {l1}
  PlainKeys = {p1}
  None = None
INVARIANT TaskMaskKept
CHECK_DEADLOCK FALSE
