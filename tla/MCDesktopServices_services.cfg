SPECIFICATION FairSpec
CONSTANTS
  None = None
  Main = tm
  Thread = {tm, t2}
  Flow = {f1}
  Cli = {c1, c2}
  Ops = {"login", "complete", "cancel", "create", "poll", "abort", "check", "watch", "account", "install"}
  MaxBundle = 5
  MaxCalls = 2
INVARIANTS AppFlowsKept ChangeOwned
PROPERTIES CallsReturn ImplementsCell
CHECK_DEADLOCK FALSE
