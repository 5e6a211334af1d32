SPECIFICATION Spec
CONSTANTS
  None = None
  Proc = {q1, q2}
  Reason = {2}
  Keep = 1
  MaxTime = 1
  MaxEdits = 1
SYMMETRY ProcSymmetry
INVARIANTS SnapshotsWhole RestoreWhole UndoPossible
PROPERTIES KeepsNewest
CHECK_DEADLOCK FALSE
