SPECIFICATION BrokerSpec
CONSTANTS
  Pids = {p1, p2, p3}
  MaxCrashes = 2
  Deadline = 5
  FreezeWait = 1
  Hold = 2
  Reserve = 3
  W6Bound = 2
  None = None
  Ids = {1}
  Asked = {"GENERATION_STATUS", "ARM_ACTION"}
  MAX_SEQUENCE = 5
  MaxGenerations = 2
  MaxChallenges = 2
  MaxReplays = 1
  Images <- MCImages
  MaxProcesses = 2
  MaxFrames = 2
  PeerPids = {1, 12}
  StartTicks = {1, 2, 12}
  START_FIELD = 2
  Patterns <- MCPatterns
  Texts <- MCTexts
  Code <- MCCode
  Digits10 <- MCDigitChars
  MAX_STATES = 14
  MAX_REPEAT = 2
  MAX_NESTING = 1
  Unbounded = 99
  CodePoint <- MCPoint
  Hex <- MCHex
  MAX_INT_DIGITS = 2
  MaxExponent = 2
  Documents <- MCDocuments
  Instances <- MCInstances
  Keyword <- MCKeyword
  TypeNames <- MCTypes
  RefTo <- MCRefTo
  MAX_SCHEMA_DEPTH = 4
  MAX_EVALUATION_DEPTH = 9
  Datagrams <- MCDatagrams
  Alphabet <- MCAlphabet
  FrameDocument <- MCDocument
  MAX_FRAME_BYTES = 14
  MAX_DEPTH = 2
  Table <- MCTable
  Claims <- MCClaims
  Decoded <- MCDecoded
  Plural <- MCPlural
  MAX_OBJECT_DEPTH = 2
INVARIANTS VerdictExact TextExact AgreementSettles InLockstep TokenIsOpener LeafContained
PROPERTIES BracketLeavesW6 RunEnds
CHECK_DEADLOCK FALSE
