SPECIFICATION FairSpec
CONSTANTS
  None = None
  w = w
  s = s
  Others <- MCOthers
  Backends <- MCBackends
  Files <- MCFiles
  Order <- MCOrder
  Row <- MCRow
  Chunks = {1, 2}
  MaxInode = 3
  MaxChanges = 2
  MaxLate = 1
  MaxLeft = 3
  SetBudget = 4
  ScrapeToSet = 2
  WindowMs = 1
  MarginMs = 1
CHECK_DEADLOCK FALSE
PROPERTY PartialKept
