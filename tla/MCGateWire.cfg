SPECIFICATION WireSpec
CONSTANTS
  None = None
  e1 = e1
  r1 = r1
  m1 = m1
  u1 = u1
  c1 = c1
  c2 = c2
  Executions = {e1}
  Runs = {r1}
  Manifests = {m1}
  Case <- MCCase
  Prior = {}
  Uids = {u1}
  Conns = {c1, c2}
  MaxActions = 1
  MaxFaults = 1
  MaxWrites = 1
  Cap = 2
  AcceptsPerReady = 2
  DrainLimit = 1
SYMMETRY Symmetry
INVARIANTS PortsAgree
PROPERTIES DrainedBeforeFrame
CHECK_DEADLOCK FALSE
