SPECIFICATION FairSpec
CONSTANTS
    AggregationSize = 3
    PacketSizes <- MCPacketSizes
    QueueDepth = 2
    TmFrameFixedSizes <- MCFrameSizes
    AggQueueSize = 4
    MaxTimeouts = 2
INVARIANTS TypeOK NoAssertFailure CreditConserved StatusAfterReturn DataInOnlyWhenStarted 
PROPERTIES ComProtocol FrameFlushed BacklogServed
