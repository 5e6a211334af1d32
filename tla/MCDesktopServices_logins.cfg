SPECIFICATION Spec
CONSTANTS
  None = None
  Main = tm
  Thread = {tm, t2}
  Flow = {f1}
  Cli = {c1, c2}
  Ops = {"login", "complete", "cancel", "check", "watch", "account", "install"}
  MaxBundle = 3
  MaxCalls = 2
INVARIANT LoginsKept
CHECK_DEADLOCK FALSE
