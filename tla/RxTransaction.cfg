SPECIFICATION Spec
CONSTANTS
    p1 = p1
    p2 = p2
    Channel <- MCChannel
    Depth = 2
    ServiceBudget = 2
    Request <- MCRequest
    Reply <- MCReply
    Quality <- MCQuality
    MaxEpoch = 3
    MaxFrames = 3
SYMMETRY Symmetry
INVARIANTS
    TypeOK
    AnswersItsOwnRequest
    FramesSound
    ConsumeNeverFails
    FramesCounted
PROPERTIES
    FullOnlyBehindSurplus
    ImplementsRequestReply
