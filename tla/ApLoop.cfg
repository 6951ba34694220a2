SPECIFICATION Spec
CONSTANTS
    Clock = 8
    AP_DBG_IDLE_TIMEOUT_MS = 3
    AP_DBG_LOCKED_POLL_MS = 2
    AP_DBG_RX_BUDGET_LOCKED = 1
    AP_DBG_RX_BUDGET_ACTIVE = 2
    AP_DBG_CMD_BUF_LEN = 3
    PORT = 1
    LAG = 2
INVARIANTS
    TypeOK
    TickIsKept
PROPERTIES
    SessionIsTimed
    SilenceEndsSession
    LockedPollIsPaced
