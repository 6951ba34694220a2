SPECIFICATION Spec
CONSTANTS
    TypeAddr <- MCDevice
    SET_TIME_PAIRING = 2
    SET_TIME_PAIRD = 1
    SETUP_DISCONNECT_MAX = 2
    SETUP_REPAIR_MAX = 1
    SETUP_RECEVIELOSS_MAX = 1
    RETRY_MAX = 0
    DEL_WAIT = 0
    LOSS_WRAP = 4
    MAX_PEER = 2
    Serial <- MCNoChannel
    Paged <- MCNoChannel
    Capacity = 2
    MS10 = 0
    SendResult <- MCSendOk
    AddResult <- MCAddOk
PROPERTY ErasedPeerIsTold
