SPECIFICATION Spec
CONSTANTS
    Behaviors <- MCDuringTx
    Callers <- MCTwoSpaced
    PayloadLength = 1
    PayloadSizes = {1}
    MaxSends = 2
INVARIANT PinAssertedOnAir
