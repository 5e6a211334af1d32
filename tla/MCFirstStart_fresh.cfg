SPECIFICATION Spec
CONSTANTS
  None = None
  Proc = {q1, q2}
  Release = {1, 2}
PROPERTY AccountsKept
CHECK_DEADLOCK FALSE
