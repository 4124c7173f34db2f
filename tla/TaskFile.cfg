SPECIFICATION Spec
CONSTANTS
  Callers = {c1, c2}
  TaskIds = {t1, t2}
  Statuses = {running, completed}
  None = None
  Unreadable = FALSE
PROPERTY ImplementsTaskStore
CHECK_DEADLOCK FALSE
