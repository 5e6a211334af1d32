SPECIFICATION Spec
CONSTANTS
  None = None
  Proc = {q1, q2}
  Version = {1, 2, 3}
  Ops = {"install", "rollback", "repair", "exec"}
  MaxStarts = 3
SYMMETRY ProcSymmetry
PROPERTIES ActiveStays NoVersionStolen RollbackUndoes
CHECK_DEADLOCK FALSE
