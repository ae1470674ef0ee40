SPECIFICATION FairSpec
CONSTANTS
    Slots = 2
    Campaigns <- MCCampaigns
    MaxDrops = 1
INVARIANTS TypeOK StatusConserved InTurn AnswerOwed RecordsLast
PROPERTIES SequenceEnds
CHECK_DEADLOCK FALSE
