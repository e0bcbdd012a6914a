\* A signature is used again after its run said RETRY.
SPECIFICATION WorkflowSpec
CONSTANTS
    Pacts = {p1}
    Parties = {alice, bob}
    Requester = alice
    Worker = bob
    FundingTxs = {p1}
    OnchainIds = {p1}
    SettlementTxs = {p1}
    SubmissionKeys = {s1, s2}
    ChangeKeys = {c1}
    Artifacts = {a1}
    Runs = {r1, r2}
    RunKeys <- MCRunKeys
    None = None
    Agreed = Agreed
    Other = Other
    MaxStarts = 2
    MaxSubmissions = 2
    OperatorScripts = {}
    SharedMiner = FALSE
    Nonces = {n1}
    Failures = FALSE
INVARIANT
    OneSignatureOneRun
CHECK_DEADLOCK FALSE
