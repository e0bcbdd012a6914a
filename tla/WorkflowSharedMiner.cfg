\* One miner answers two intents of a run.
SPECIFICATION FairWorkflowSpec
CONSTANTS
    Pacts = {p1}
    Parties = {alice, bob}
    Requester = alice
    Worker = bob
    FundingTxs = {p1}
    OnchainIds = {p1}
    SettlementTxs = {p1}
    SubmissionKeys = {s1, s2}
    ChangeKeys = {c1}
    Artifacts = {a1}
    Runs = {r1, r2}
    RunKeys <- MCRunKeys
    None = None
    Agreed = Agreed
    Other = Other
    MaxStarts = 2
    MaxSubmissions = 2
    OperatorScripts = {}
    SharedMiner = TRUE
    Nonces = {n1}
    Failures = FALSE
PROPERTY
    SharedMinerRunsAreRecorded
CHECK_DEADLOCK FALSE
