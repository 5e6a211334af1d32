SPECIFICATION LockSpec
CONSTANTS
  Task = {t1, t2, t3, t4}
SYMMETRY TaskSymmetry
INVARIANTS HeldForLifetime ExclusiveAlone
