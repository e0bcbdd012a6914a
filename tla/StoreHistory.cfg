\* Two pacts compete for funding transactions, escrow ids, run ids and run keys.
SPECIFICATION Spec
CONSTANTS
    Pacts = {p1, p2}
    Parties = {alice}
    FundingTxs = {tx1, tx2}
    OnchainIds = {id1, id2}
    SubmissionKeys = {s1, s2}
    ChangeKeys = {c1}
    Artifacts = {a1}
    Runs = {r1, r2}
    RunKeys = {k1, k2}
    SettlementTxs = {stx1}
    None = None
    MaxStarts = 2
SYMMETRY Symmetry
INVARIANTS
    TypeOK
    FundingEvidenceComplete
    IdempotencyHolds
    StatusIsExplained
PROPERTIES
    HistoryIsImmutable
CHECK_DEADLOCK FALSE
