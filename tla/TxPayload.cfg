SPECIFICATION Spec
CONSTANTS
    Behaviors <- MCDuringTx
    Callers <- MCCallers
    PayloadLength = 2
    PayloadSizes = {1, 2}
    MaxSends = 2
INVARIANT PayloadOnAir
