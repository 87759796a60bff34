SPECIFICATION GateSpec
CONSTANTS
  None = None
  e1 = e1
  e2 = e2
  r1 = r1
  r2 = r2
  m1 = m1
  m2 = m2
  u1 = u1
  c1 = c1
  c2 = c2
  Executions = {e1, e2}
  Runs = {r1, r2}
  Manifests = {m1, m2}
  Case <- MCCase
  Prior = {}
  Uids = {u1}
  Conns = {c1, c2}
  MaxActions = 2
  MaxFaults = 0
  Processes = {p1, p2, p3}
  Nobody = Nobody
  Pids = {1}
  Ticks = {1, 2}
  BindPids = {0, 1}
  BindTicks <- MCBindTicks
  I32_MAX = 3
  U64_MAX = 3
  START_FIELD = 2
  LOG_ENTRIES = 1
  MaxBinds = 2
  FilesRead <- MCFiles
  Lengths <- MCLengths
  DigestOf <- MCDigest
  MaxPayload = 2
  MaxBlock = 12
SYMMETRY Symmetry
INVARIANTS ForwardingGuarded ObservedIsWorker ScanExact
PROPERTIES SealedFrozen
CHECK_DEADLOCK FALSE
