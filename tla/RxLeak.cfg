SPECIFICATION Spec
CONSTANTS
    Lengths <- MCAnyLength
    PoolSize = 2
    Pacings <- MCUnpaced
    MaxPackets = 2
INVARIANT BuffersReturned
