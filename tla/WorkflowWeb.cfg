\* The web application alone, with runs that may fail: one pact, a delivery and a
\* remediation, three verification runs.
SPECIFICATION WorkflowSpec
CONSTANTS
    Pacts = {p1}
    Parties = {alice, bob}
    Requester = alice
    Worker = bob
    FundingTxs = {p1}
    OnchainIds = {p1}
    SettlementTxs = {p1}
    SubmissionKeys = {s1, s2}
    ChangeKeys = {c1}
    Artifacts = {a1, a2}
    Runs = {r1, r2, r3}
    RunKeys <- MCRunKeys
    None = None
    Agreed = Agreed
    Other = Other
    MaxStarts = 3
    MaxSubmissions = 2
    OperatorScripts = {}
    SharedMiner = TRUE
    Nonces = {n1}
    Failures = TRUE
INVARIANTS
    WorkflowTypeOK
    VerdictsFollowLatestReceipt
    MoneyFollowsVerdict
    OneRunAtATime
    VerifiesWhatWasSigned
    ReleaseStaysConfirmable
PROPERTY
    TerminalVerdicts
CHECK_DEADLOCK FALSE
