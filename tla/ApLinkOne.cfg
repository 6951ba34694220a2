SPECIFICATION FairSpec
CONSTANTS
    TypeAddr <- MCDevices
    SET_TIME_PAIRING = 2
    SET_TIME_PAIRD = 1
    SETUP_DISCONNECT_MAX = 2
    SETUP_REPAIR_MAX = 2
    SETUP_RECEVIELOSS_MAX = 2
    RETRY_MAX = 1
    DEL_WAIT = 1
    LOSS_WRAP = 4
    MAX_PEER = 1
    Serial <- MCZero
    Paged <- MCNoChannel
    Capacity = 2
    MS10 = 1
    SendResult <- MCSend
    AddResult <- MCAdd
INVARIANTS
    TypeOK
    MaskIsPairing
    PairedWithItsDevice
    EraseKeptTwice
    RepairKnowsItsPeer
    AnswerIsOwed
PROPERTIES
    OnlyDataForgivesLosses
    ImplementsPeerLink
    
