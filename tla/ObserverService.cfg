SPECIFICATION Spec
CONSTANTS
    None = None
    Resources = {a}
    Elsewhere = elsewhere
    IDLE_BOUND = 1
    OUTER_BOUND = 2
    I01_EXCHANGE_DEADLINE = 1
    LISTENER_BACKOFF = 1
    LISTENER_FAULT_LIMIT = 2
    OR07_BUDGET = 1
    SNAPSHOT_DEADLINE = 2
    RESTART_PAUSE = 1
    COALESCE = 1
    CYCLE = 1
    PROGRESS_BOUND = 1
    FRESHNESS_BOUND = 2
    REOPEN_LIMIT = 1
    REOPEN_WINDOW = 1
    REOPEN_PAUSE = 1
    STALE_LIMIT = 1
    DRAIN_POLLS = 1
    REQUEST_ROUND_SPACING = 1
    REQUEST_ROUND_DEADLINE = 1
    MaxTime = 2
    MaxRev = 1
    MaxPhase = 1
    Walls = {"INSIDE", "AFTER"}
CHECK_DEADLOCK FALSE
INVARIANT AnswersAreCurrent
