\* Runs and compositions beside each other: one pact, two deliveries, four runs;
\* or two tabs on one pact, with lost answers and failing runs: two verifications
\* of one delivery.
SPECIFICATION ClientSpec
CONSTANTS
    Pacts = {p1}
    Parties = {alice, bob}
    FundingTxs = {t1}
    OnchainIds = {o1}
    SettlementTxs = {t1}
    SubmissionKeys = {s1, s2}
    ChangeKeys = {c1}
    Artifacts = {a1}
    Runs = {r1, r2, r3, r4}
    RunKeys <- MCRunKeys
    None = None
    MaxStarts = 4
    ann = ann
    bea = bea
    cid = cid
    MinerIds <- MCMinerIds
    Miners <- MCMinerIds
    Identity <- MCIdentity
    Intents <- MCIntents
    Outcomes <- MCOutcomes
    Failures = TRUE
    MaxSubmissions = 2
    Tabs = {tab1, tab2}
    TabRuns = {q1, q2}
    TabKeys = {s3}
    TabStarts = 3
    Shown = p1
SYMMETRY Symmetry
INVARIANTS
    ComposerRemembersFailures
    ComposedReleaseIsPaidFor
    TabStopsWithoutReceipt
    TabOutcomeIsNews
CHECK_DEADLOCK FALSE
