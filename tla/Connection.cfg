\* The peer sends two requests with headers of two bytes and bodies of none or
\* two; up to three buffers of one or two bytes are queued, with memory for two.
CONSTANTS
    HeaderSize = 2
    BodyLengths = {0, 2}
    MaxRequests = 2
    Buffers = {b1, b2}
    Lengths = {1, 2}
    MaxMessages = 3
    Null = Null
SPECIFICATION FairSpec
INVARIANTS DeliveredAsSent LeavesOnlyBody BuffersOwned StreamInOrder AnsweredOnce
PROPERTIES AllDelivered EndIsSeen EverythingSent
\* The agent is gone.
CHECK_DEADLOCK FALSE
