SPECIFICATION LedFairSpec
CONSTANTS
    Caller <- MCCaller
    Peer <- MCPeer
    Hold = 2
    MaxDelay = 1
    InitResult <- MCResult
    WriteResult <- MCResult
INVARIANTS
    LedTypeOK
    OneHolder
    OnlyPeersAreLit
PROPERTIES
    KeepsHold
    BusyEnds
    SetupEnds
    LastingIsShown
