SPECIFICATION FairSpec
CONSTANTS
    AggregationSize = 3
    PacketSizes <- MCPacketSizes
    QueueDepth = 2
    TmFrameFixedSizes <- MCDeployedFrame
    AggQueueSize = 4
    MaxTimeouts = 2
PROPERTY FailureRestored
