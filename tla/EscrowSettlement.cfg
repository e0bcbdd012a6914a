SPECIFICATION LiveSpec
CONSTANTS
    Accounts = {requester, worker, keyA, keyB}
    Escrow = escrow
    ZeroAddress = zeroAddress
    ZeroHash = zeroHash
    Requesters = {requester}
    Workers = {worker}
    Keys = {keyB}
    PactIds = {p1, p2}
    Terms = {t1}
    Receipts = {r1}
    Nonces = {n1}
    Amounts = {1}
    Tokens = {usdc, otherToken}
    TOKEN = usdc
    Fees = {0, 1}
    InitialOwner = keyA
    InitialAuthorizer = keyA
    MaxPactAmount = 1
    InitialBalance = 2
    MaxTime = 2
INVARIANTS TypeOK CallsConsistent NonceConsumedOnce PayoutMatchesStatus Solvent
PROPERTIES ImplementsLedger RewardNeverStuck
