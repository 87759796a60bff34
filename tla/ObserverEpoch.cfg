SPECIFICATION Spec
CONSTANTS
    None = None
    Resources = {a, b}
    Elsewhere = elsewhere
    IDLE_BOUND = 2
    OUTER_BOUND = 4
    I01_EXCHANGE_DEADLINE = 2
    LISTENER_BACKOFF = 2
    LISTENER_FAULT_LIMIT = 1
    OR07_BUDGET = 1
    SNAPSHOT_DEADLINE = 2
    RESTART_PAUSE = 1
    COALESCE = 1
    CYCLE = 1
    PROGRESS_BOUND = 1
    FRESHNESS_BOUND = 2
    REOPEN_LIMIT = 1
    REOPEN_WINDOW = 1
    REOPEN_PAUSE = 1
    STALE_LIMIT = 2
    DRAIN_POLLS = 2
    REQUEST_ROUND_SPACING = 1
    REQUEST_ROUND_DEADLINE = 2
    MaxTime = 3
    MaxRev = 1
    MaxPhase = 2
    Walls = {"BEFORE"}
SYMMETRY Symmetric
CHECK_DEADLOCK FALSE
INVARIANTS FreshMarkHolds
