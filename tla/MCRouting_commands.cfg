SPECIFICATION Spec
CONSTANTS
  None = None
  a1 = a1
  a2 = a2
  p1 = p1
  p2 = p2
  Proc = {q1, q2}
  Account = {a1, a2}
  App = {p1, p2}
  Cli = {c1}
  AppOf <- MCTwoAppOf
  UserOf <- MCUserOf
  Managed = {a1}
  Ops = {"exec", "switch", "activate", "remove", "register"}
  GenMax = 2
  MaxStarts = 2
SYMMETRY ProcSymmetry
INVARIANTS CommandKeepsAccount ActiveKnown
PROPERTIES ImplementsRegister
CHECK_DEADLOCK FALSE
