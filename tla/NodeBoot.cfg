SPECIFICATION FairSpec
CONSTANTS
    Files <- MCFiles
    Edits <- MCEdits
    MaxFds = 12
    MaxFaults = 2
INVARIANTS TypeOK LoadedAsWritten StartedComplete NeverUpAfterLineLeak StaleOnlyAfterFailure ListensAsWritten
PROPERTIES AttemptEnds ComesUp
CHECK_DEADLOCK FALSE
