SPECIFICATION FairSpec
CONSTANTS
    Lengths <- MCNonEmpty
    PoolSize = 2
    Pacings <- MCPacings
    MaxPackets = 3
INVARIANTS TypeOK BuffersReturned FaithfulWhenPaced
PROPERTY ForwardedUnlessWiped
