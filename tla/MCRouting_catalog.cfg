SPECIFICATION FairSpec
CONSTANTS
  None = None
  a1 = a1
  a2 = a2
  p1 = p1
  p2 = p2
  Proc = {q1, q2}
  Account = {a1, a2}
  App = {p1}
  Cli = {c1}
  AppOf <- MCAppOf
  UserOf <- MCUserOf
  Managed = {}
  Ops = {"exec", "remove", "register", "addApp", "removeApp", "edit", "health", "count"}
  GenMax = 0
  MaxStarts = 2
INVARIANTS CatalogBacked AppsPresent NoDuplicateUsers
PROPERTIES NoLostAccounts JobsEnd
CHECK_DEADLOCK FALSE
