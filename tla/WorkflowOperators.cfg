\* The application and both operator scripts at once.  Runs are begun by a script:
\* one begun with a signature goes on in the same way.
SPECIFICATION WorkflowSpec
CONSTANTS
    Pacts = {p1}
    Parties = {alice, bob}
    Requester = alice
    Worker = bob
    FundingTxs = {p1}
    OnchainIds = {p1}
    SettlementTxs = {p1}
    SubmissionKeys = {s1, s2}
    ChangeKeys = {c1}
    Artifacts = {a1, a2}
    Runs = {r1, r2}
    RunKeys <- MCRunKeys
    None = None
    Agreed = Agreed
    Other = Other
    MaxStarts = 2
    MaxSubmissions = 2
    OperatorScripts = {"execute", "recover"}
    SharedMiner = FALSE
    Nonces = {}
    Failures = TRUE
SYMMETRY Symmetry
INVARIANTS
    MoneyNeedsReleaseReceipt
    BooksMatchChain
CHECK_DEADLOCK FALSE
