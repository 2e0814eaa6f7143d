SPECIFICATION FairSpec
CONSTANTS
    MaxMsgs = 3
    MaxRequests = 3
    MaxDepth = 4
    MaxBuffer = 4
    MaxId = 2
CHECK_DEADLOCK FALSE
INVARIANTS
    BufferIsConsumed
    PendingIsAwaited
    AnswerIsForRequest
PROPERTIES
    CallsReturn
    MessagesArrive
