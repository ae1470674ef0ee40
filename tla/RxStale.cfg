SPECIFICATION Spec
CONSTANTS
    Lengths <- MCNonEmpty
    PoolSize = 2
    Pacings <- MCUnpaced
    MaxPackets = 3
INVARIANT DeliveredFaithfully
