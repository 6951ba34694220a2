SPECIFICATION FairSpec
CONSTANTS
    p1 = p1
    p2 = p2
    Channel <- MCChannel
    Depth = 2
    ServiceBudget = 1
    Request <- MCPairing
    Reply <- MCPairingOk
    Quality <- MCGoodOrShort
    MaxEpoch = 3
    MaxFrames = 2
PROPERTIES
    QueuedAnswerSettles
