SPECIFICATION FairSpec
CONSTANTS
    Behaviors <- MCDuringTx
    Callers <- MCSmokeLoop
    PayloadLength = 1
    PayloadSizes = {1}
    MaxSends = 2
PROPERTY PinEventuallyReleased
