SPECIFICATION AnswerSpec
CONSTANTS
    MinerIds <- MCMinerIds
    Miners <- MCMiners
    Identity <- MCIdentity
    Required <- MCRequired
    Offered <- MCOffered
    Answers <- MCAnswers
    Replies <- MCReplies
    MaxSignals = 5
INVARIANTS
    ReleaseIsEarned
PROPERTIES
    OneWordPerMiner
    DecisionsNeverSoften
    ReleaseNeedsAStatedPass
    StatedFailureStopsRelease
CHECK_DEADLOCK FALSE
