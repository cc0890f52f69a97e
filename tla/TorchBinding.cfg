SPECIFICATION Spec
CONSTANTS
  rt1 = rt1
  rt2 = rt2
  m1 = m1
  m2 = m2
  s1 = s1
  s2 = s2
  None = None
  Runtimes = {rt1, rt2}
  Models = {m1, m2}
  Storages = {s1, s2}
INVARIANTS
  TypeOK
  UnsettledIsHeld
CHECK_DEADLOCK FALSE
