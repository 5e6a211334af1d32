SPECIFICATION Spec
CONSTANTS
  Proc = {p1, p2}
  App = {a1, a2}
  Label = {a1, a2}
  Account = {c1, c2}
  Alias = {x}
  User = {u1, u2}
  NameOf <- MCNameOf
  Scope = {s1, s2}
  Core = {s1}
  MaxScopes = 2
  Lang = {l1, l2}
  Before <- MCBefore
  Jobs <- MCJobs
  MaxJobs = 3
  None = None
  a1 = a1
  a2 = a2
  u1 = u1
  u2 = u2
  x = x
  s1 = s1
  s2 = s2
  l1 = l1
  l2 = l2
SYMMETRY MCSymmetry
INVARIANTS ConfigsBacked ImportUndone LoginCanAsk NoDuplicates SelectorsResolve
PROPERTIES PolicyOnlyNarrows RecordsKept SharedLoginsKept
CHECK_DEADLOCK FALSE
