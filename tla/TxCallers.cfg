SPECIFICATION FairSpec
CONSTANTS
    Behaviors <- TxEnableBehavior
    Callers <- MCCallers
    PayloadLength = 2
    PayloadSizes = {1, 2, 3}
    MaxSends = 3
INVARIANTS TypeOK PinAssertedInLoop PinReleasedUnlessWiped WholeUnlessTorn
PROPERTY SendReturns
