SPECIFICATION Spec
CONSTANTS
  MaxProcs = 2
  Pids = {x}
  MaxConns = 2
  MaxInbox = 1
  MaxBusy = 1
  None = None
INVARIANTS PeerIsOpener InStep
PROPERTIES ExitCloses
CHECK_DEADLOCK FALSE
