SPECIFICATION PolicyFairSpec
CONSTANTS
  None = None
  e1 = e1
  e2 = e2
  r1 = r1
  m1 = m1
  u1 = u1
  c1 = c1
  Executions = {e1, e2}
  Runs = {r1}
  Manifests = {m1}
  Case <- MCCase
  Prior = {e2}
  Uids = {}
  Conns = {c1}
  MaxActions = 1
  MaxFaults = 3
  MaxWrites = 2
INVARIANTS UnknownHolds
PROPERTIES NeverReopens WriterNotStuck
CHECK_DEADLOCK FALSE
