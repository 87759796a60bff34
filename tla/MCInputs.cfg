SPECIFICATION InputsSpec
CONSTANTS
    Scrapes <- MCScrapes
    Givens <- MCGivens
    WELL_FORMED = {"h1", "h2"}
    DECIMALS = {"1", "10", "11"}
    ACCEPTED_KUBERNETES_VERSION = "v1.37.1"
    NO_WALL = 0
    MAX_WALL_SECONDS = 4
    EXPOSITION_LINE = 2
    SAMPLE_LIMIT = 3
    MaxPush = 4
    ScaleDigits = 3
    NANO = 1000
    MILLI = 100
    MAX_POWER = 5
    QuotaTexts <- MCTexts
    MAX_QUANTITY = 250
    MAX_MANTISSA = 230
    MAX_FIGURE = 300
    SUFFIXES <- MCSuffixes
    UNITS <- MCUnits
    QuotaSets <- MCQuotaSets
    ActionIds = {1, 2}
    Manifests = {m1, m2}
    CaseResources = {m1}
    Chunks <- MCChunks
    Cleanups = {k1}
    MaxSequence = 6
    MaxChunks = 2
    MaxChunkBytes = 2
    MaxReceiptBytes = 3
    MaxForged = 1
    None = None
    Streams <- MCStreams
    Heads <- MCHeads
    Digits <- MCDigits
    HEAD_LIMIT = 3
    INTERIM_LIMIT = 2
    CHUNK_SIZE_DIGITS = 2
    LINE_LIMIT = 1
    AnswerLimit = 3
    RAW_SLACK = 15
    ScrapeLimit = 20
    MaxRead = 20
    NoBound = NoBound
    Absent = Absent
    SECOND = 2
    GATE_BOUND = 2
    FRESHNESS_WINDOW_SECONDS = 2
    RECORD_EXPIRY_MARGIN_SECONDS = 1
    EXCHANGE_DEADLINE = 2
    MAX_INTEGER = 2
    MAX_UTC_SECONDS = 3
    ZERO_DIGEST <- MCZeroDigest
    Digest <- MCDigestOfAnswer
    Challenges = {c1, c2}
    BackendSlots = {"backend/NETWORK_POLICY_AGENT"}
    SignedSets <- MCSignedSets
    Snapshots <- MCSnapshots
    CaptureSets <- MCCaptureSets
    Envelopes <- MCEnvelopes
    MaxTime = 3
    MaxEvents = 3
    Namespace = "q"
    SpaceOrder <- MCSpaceOrder
    SystemNamespaces = {"kube-system"}
    ProtectedNamespaces = {"kube-system"}
    Unstripped = {" u"}
    POLICY_RESOURCES <- MCPolicyResources
    STATUS_RESOURCES <- MCStatusResources
    WORKLOAD_RESOURCES <- MCWorkloadResources
    SPECIAL_TARGETS <- MCSpecialTargets
    WRITE_VERBS = {"create"}
    WORKLOAD_VERBS = {"create"}
    ImpersonateModes = {"impersonate:arbitrary"}
    Entries <- MCEntries
    Accounts <- MCAccounts
    Bootstrap <- MCBootstrap
    OBSERVER_RULES <- MCObserverRules
    EXPANSION_CAP = 45
    Clusters <- MCClusters
    ApiRequests <- MCRequests
CHECK_DEADLOCK FALSE
INVARIANTS AcceptsExactlyLegal ReadAsSent AnswersVerify PassedIsConfined HeadroomFits
