SPECIFICATION FairSpec
CONSTANTS
    Behaviors <- MCBehaviors
    TypeSets <- MCTypeSets
    MaxEvents = 2
INVARIANTS TypeOK QuietWhileListening AmplifiedOnAir EndReported VerdictMatches RangingRole CodecExact
PROPERTY TransmissionReported
CHECK_DEADLOCK FALSE
