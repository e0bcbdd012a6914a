\* Three intents with two attempts each, or three attempts at fraud detection for
\* two routes, or two payments of different runs; ledger appends and engine answers
\* may fail in every way.
SPECIFICATION EitherSpec
CONSTANTS
    MinerIds <- MCMinerIds
    Miners <- MCMiners
    Identity <- MCIdentity
    Intents <- MCIntents
    MaxAttemptsPerIntent = 2
    MaxAuthorizedUnits = 4
    Amounts = {1, 2}
    Answers <- MCAnswers
    LedgerFailures = TRUE
    FraudAttempts = 3
    FraudResults = 2
    FraudAmounts = {1, 2, 3}
    Routes = {m1, m2, m3}
    Payments = {p1, p2}
    Offers = {1, 2}
    MaxCost = 1
    Timeouts = {1, 2}
    Grace = 1
    Slack = 1
    Concurrent = TRUE
    MaxTime = 4
    None = None
INVARIANTS
    TypeOK
    SpendWithinCeiling
    CostIsNeverUnderstated
    TransfersAreOnRecord
    NoAnswerIsLost
    RecordsAreIndependent
    FraudSpendWithinCeiling
    FraudCostIsKnown
    FalseExpiryIsExplained
