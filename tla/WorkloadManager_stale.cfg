SPECIFICATION Spec
CONSTANTS
  a = a
  b = b
  s1 = s1
  s2 = s2
  t1 = t1
  t2 = t2
  Workloads = {a, b}
  Specs = {s1, s2}
  SelfUpdating = {}
  Auths = {t1, t2}
  NoAuth = NoAuth
  None = None
  Torn = Torn
  MaxUpdates = 2
  Settings <- MCAutoUpdate
SYMMETRY MCSymmetry
INVARIANTS
  StaleRemoved
