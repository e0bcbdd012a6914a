----------------------- MODULE ProofPactEscrowProofs -----------------------
(***************************************************************************)
(* Theorems about the escrow for every value of its constants.             *)
(***************************************************************************)
EXTENDS ProofPactEscrow, SequenceTheorems, FiniteSetTheorems, TLAPS

Frame == FundFrame \cup PayoutFrame

\* Pushing a frame and popping one keep the stack a sequence of frames.
LEMMA StackShape ==
    ASSUME NEW stack \in Seq(Frame), NEW frame \in Frame
    PROVE  /\ <<frame>> \o stack \in Seq(Frame)
           /\ Len(<<frame>> \o stack) = Len(stack) + 1
           /\ stack # <<>> => /\ Head(stack) \in Frame
                              /\ Tail(stack) \in Seq(Frame)
                              /\ Len(Tail(stack)) = Len(stack) - 1
    OBVIOUS

\* Token movements keep balances integers.
LEMMA MovedType ==
    ASSUME balance \in [Holders -> Int],
           NEW from \in Holders, NEW to \in Holders, NEW amount \in Int, NEW fee \in Int
    PROVE  Moved(from, to, amount, fee) \in [Holders -> Int]
    BY DEF Moved

\* Closing a pact changes its status and nothing else.
LEMMA ClosedType ==
    ASSUME NEW pact \in Pact, NEW status \in PactStatus
    PROVE  /\ Closed(pact, status) \in Pact
           /\ Closed(pact, status).status = status
           /\ Closed(pact, status).requester = pact.requester
           /\ Closed(pact, status).worker = pact.worker
           /\ Closed(pact, status).amount = pact.amount
    BY DEF Pact, Closed

\* The state a reverting call would restore has the type of the state.
LEMMA StorageType ==
    ASSUME TypeOK
    PROVE  Storage \in [owner : Addresses, pendingOwner : Addresses, authorizer : Addresses,
                        pacts : [PactIds -> Pact], usedNonces : SUBSET (Addresses \X Nonces),
                        lockState : {1, 2}, payouts : SUBSET Payout, balance : [Holders -> Int]]
    BY DEF Storage, TypeOK

LEMMA InitType == Init => TypeOK
    BY EscrowAssumption DEF Init, TypeOK, NoPact, Pact, PactStatus, Holders, Addresses

-----------------------------------------------------------------------------
LEMMA FundPactType ==
    ASSUME TypeOK,
           NEW sender \in Requesters, NEW pactId \in PactIds, NEW worker \in Workers,
           NEW amount \in Amounts, NEW refundAfter \in 0..MaxTime, NEW termsHash \in Terms,
           NEW fee \in Fees,
           FundPact(sender, pactId, worker, amount, refundAfter, termsHash, fee)
    PROVE  TypeOK'
<1> DEFINE frame == [call |-> "fundPact", pactId |-> pactId,
                     pact |-> [requester |-> sender, worker |-> worker,
                               amount |-> amount, refundAfter |-> refundAfter,
                               termsHash |-> termsHash, status |-> "FUNDED"],
                     balanceBefore |-> balance[Escrow], saved |-> Storage]
<1>1. sender \in Holders /\ Escrow \in Holders /\ worker \in Addresses /\ sender \in Addresses
    BY EscrowAssumption DEF Holders, Addresses
<1>2. amount \in Int /\ fee \in Int /\ amount \in Nat /\ refundAfter \in Nat
    BY EscrowAssumption
<1>3. frame.pact \in Pact
    BY <1>1, <1>2 DEF Pact, PactStatus
<1>4. frame \in Frame
    BY <1>1, <1>3, StorageType DEF Frame, FundFrame, TypeOK
<1>5. frames' \in Seq(Frame)
    <2>1. frames \in Seq(Frame)
        BY DEF TypeOK, Frame
    <2>2. frames' = <<frame>> \o frames
        BY DEF FundPact
    <2> QED BY <2>1, <2>2, <1>4, StackShape
<1>6. balance' \in [Holders -> Int]
    BY <1>1, <1>2, MovedType DEF TypeOK, FundPact
<1> QED BY <1>5, <1>6 DEF FundPact, TypeOK, Frame

LEMMA FundPactReturnsType == TypeOK /\ FundPactReturns => TypeOK'
<1> SUFFICES ASSUME TypeOK, FundPactReturns PROVE TypeOK'
    OBVIOUS
<1>1. Head(frames) \in Frame /\ frames' \in Seq(Frame)
    BY StackShape DEF TypeOK, Frame, FundPactReturns
<1>2. Head(frames) \in FundFrame
    BY <1>1 DEF Frame, FundFrame, PayoutFrame, FundPactReturns
<1>3. pacts' \in [PactIds -> Pact]
    BY <1>2 DEF TypeOK, FundFrame, FundPactReturns
<1> QED BY <1>1, <1>3 DEF TypeOK, Frame, FundPactReturns

LEMMA FundPactRevertsType == TypeOK /\ FundPactReverts => TypeOK'
<1> SUFFICES ASSUME TypeOK, FundPactReverts PROVE TypeOK'
    OBVIOUS
<1>1. Head(frames) \in Frame /\ frames' \in Seq(Frame)
    BY StackShape DEF TypeOK, Frame, FundPactReverts
<1>2. Head(frames) \in FundFrame
    BY <1>1 DEF Frame, FundFrame, PayoutFrame, FundPactReverts
<1> QED BY <1>1, <1>2 DEF TypeOK, Frame, FundFrame, FundPactReverts

LEMMA SettleType ==
    ASSUME TypeOK, NEW permit \in SettlementPermit, NEW signer \in Accounts,
           Settle(permit, signer)
    PROVE  TypeOK'
<1> DEFINE pact == pacts[permit.pactId]
           recipient == ExpectedRecipient(pact, permit.action)
           log == [event |-> "PactSettled", pactId |-> permit.pactId,
                   receiptHash |-> permit.receiptHash,
                   action |-> permit.action, recipient |-> recipient,
                   amount |-> pact.amount, nonce |-> permit.nonce,
                   authorizer |-> authorizer]
           frame == [call |-> "settle", log |-> log]
<1>1. /\ permit.pactId \in PactIds /\ permit.nonce \in Nonces
      /\ permit.action \in SettlementAction /\ permit.receiptHash \in Receipts
    BY DEF SettlementPermit, Settle, SettleGuard, HasReceipt
<1>2. pact \in Pact
    BY <1>1 DEF TypeOK
<1>3. recipient \in Holders
    BY DEF Settle, SettleGuard, SettlementPermit
<1>4. log \in Payout
    BY <1>1, <1>2, <1>3 DEF Payout, PactSettled, Pact, Addresses, TypeOK
<1>5. frame \in Frame
    BY <1>4 DEF Frame, PayoutFrame
<1>6. frames' \in Seq(Frame)
    <2>1. frames \in Seq(Frame) /\ frames' = <<frame>> \o frames
        BY DEF TypeOK, Frame, Settle
    <2> QED BY <2>1, <1>5, StackShape
<1>7. pacts' \in [PactIds -> Pact]
    BY <1>1, <1>2, ClosedType DEF Settle, TypeOK, PactStatus
<1>8. balance' \in [Holders -> Int]
    <2>1. balance' = Moved(Escrow, recipient, pact.amount, 0) /\ pact.amount \in Int
        BY <1>2 DEF Settle, Pact
    <2>2. Escrow \in Holders /\ 0 \in Int
        BY DEF Holders
    <2> QED BY <2>1, <2>2, <1>3, MovedType DEF TypeOK
<1>9. usedNonces' \in SUBSET (Addresses \X Nonces)
    BY <1>1 DEF Settle, TypeOK
<1> QED BY <1>6, <1>7, <1>8, <1>9 DEF Settle, TypeOK, Frame

LEMMA RefundExpiredType ==
    ASSUME TypeOK, NEW sender \in Accounts, NEW pactId \in PactIds,
           RefundExpired(sender, pactId)
    PROVE  TypeOK'
<1> DEFINE pact == pacts[pactId]
           log == [event |-> "PactRefundedAfterExpiry", pactId |-> pactId,
                   recipient |-> pact.requester, amount |-> pact.amount]
           frame == [call |-> "refundExpired", log |-> log]
<1>1. pact \in Pact /\ pact.requester \in Holders
    BY DEF TypeOK, RefundExpired, Holders
<1>2. frame \in Frame
    BY <1>1 DEF Frame, PayoutFrame, Payout, PactRefundedAfterExpiry, Pact
<1>3. frames' \in Seq(Frame)
    <2>1. frames \in Seq(Frame) /\ frames' = <<frame>> \o frames
        BY DEF TypeOK, Frame, RefundExpired
    <2> QED BY <2>1, <1>2, StackShape
<1>4. pacts' \in [PactIds -> Pact]
    BY <1>1, ClosedType DEF RefundExpired, TypeOK, PactStatus
<1>5. balance' \in [Holders -> Int]
    <2>1. balance' = Moved(Escrow, pact.requester, pact.amount, 0) /\ pact.amount \in Int
        BY <1>1 DEF RefundExpired, Pact
    <2>2. Escrow \in Holders /\ 0 \in Int
        BY DEF Holders
    <2> QED BY <2>1, <2>2, <1>1, MovedType DEF TypeOK
<1> QED BY <1>3, <1>4, <1>5 DEF RefundExpired, TypeOK, Frame

LEMMA PayoutReturnsType == TypeOK /\ PayoutReturns => TypeOK'
<1> SUFFICES ASSUME TypeOK, PayoutReturns PROVE TypeOK'
    OBVIOUS
<1>1. Head(frames) \in Frame /\ frames' \in Seq(Frame)
    BY StackShape DEF TypeOK, Frame, PayoutReturns
<1>2. Head(frames).log \in Payout
    BY <1>1 DEF Frame, FundFrame, PayoutFrame, PayoutReturns
<1> QED BY <1>1, <1>2 DEF TypeOK, Frame, PayoutReturns

LEMMA AdministrationType ==
    ASSUME TypeOK,
           \/ \E sender \in Accounts, newAuthorizer \in Keys : SetAuthorizer(sender, newAuthorizer)
           \/ \E sender \in Accounts, newOwner \in Keys : TransferOwnership(sender, newOwner)
           \/ \E sender \in Accounts : AcceptOwnership(sender)
           \/ Tick
    PROVE  TypeOK'
<1>1. Accounts \subseteq Addresses /\ Keys \subseteq Addresses /\ ZeroAddress \in Addresses
    BY EscrowAssumption DEF Addresses, Holders
<1> QED BY <1>1 DEF TypeOK, SetAuthorizer, TransferOwnership, AcceptOwnership, Tick

LEMMA DonateType ==
    ASSUME TypeOK, NEW sender \in Requesters, NEW amount \in Amounts, Donate(sender, amount)
    PROVE  TypeOK'
<1>1. sender \in Holders /\ Escrow \in Holders /\ amount \in Int
    BY EscrowAssumption DEF Holders
<1>2. balance' \in [Holders -> Int]
    BY <1>1, MovedType DEF Donate, TypeOK
<1> QED BY <1>2 DEF Donate, TypeOK

LEMMA NextType == TypeOK /\ [Next]_vars => TypeOK'
<1> SUFFICES ASSUME TypeOK, [Next]_vars PROVE TypeOK'
    OBVIOUS
<1>1. CASE UNCHANGED vars
    BY <1>1 DEF vars, TypeOK
<1>2. CASE Next
    BY <1>2, FundPactType, FundPactReturnsType, FundPactRevertsType, SettleType,
       RefundExpiredType, PayoutReturnsType, AdministrationType, DonateType DEF Next
<1> QED BY <1>1, <1>2

\* Every variable keeps its type; in particular every PactSettled event
\* carries a receipt hash other than zero (settle 182).
THEOREM TypeCorrect == Spec => []TypeOK
    BY InitType, NextType, PTL DEF Spec

-----------------------------------------------------------------------------
(* The events of the calls on the stack.                                    *)

LEMMA LogsOfNone == LogsOf(<<>>) = {}
    BY DEF LogsOf

LEMMA LogsOfOne ==
    ASSUME NEW stack \in Seq(Frame), Len(stack) = 1
    PROVE  LogsOf(stack) = IF Head(stack).call = "fundPact" THEN {} ELSE {Head(stack).log}
<1>1. DOMAIN stack = {1} /\ Head(stack) = stack[1]
    OBVIOUS
<1> QED BY <1>1 DEF LogsOf

LEMMA PushOnEmpty ==
    ASSUME NEW frame \in Frame
    PROVE  /\ <<frame>> \o <<>> = <<frame>>
           /\ <<frame>> \in Seq(Frame) /\ Len(<<frame>>) = 1 /\ Head(<<frame>>) = frame
<1>1. <<frame>> \in Seq(Frame) /\ Len(<<frame>>) = 1 /\ Head(<<frame>>) = frame
    OBVIOUS
<1>2. <<frame>> \o <<>> = <<frame>>
    BY <1>1, ConcatEmptySeq
<1> QED BY <1>1, <1>2

LEMMA PopLast ==
    ASSUME NEW stack \in Seq(Frame), Len(stack) = 1
    PROVE  stack # <<>> /\ Tail(stack) = <<>> /\ Head(stack) \in Frame
<1>1. stack # <<>>
    OBVIOUS
<1>2. Head(stack) \in Frame /\ Tail(stack) \in Seq(Frame) /\ Len(Tail(stack)) = 0
    BY <1>1, HeadTailProperties
<1>3. Tail(stack) = <<>>
    BY <1>2, EmptySeq
<1> QED BY <1>1, <1>2, <1>3

\* Whoever enters finds an empty stack; whoever returns leaves one.
LEMMA EnteredAlone ==
    ASSUME TypeOK, CallsConsistent
    PROVE  /\ NotEntered => frames = <<>> /\ AllPayouts = payouts
           /\ frames # <<>> => /\ lockState = 2 /\ Len(frames) = 1 /\ frames \in Seq(Frame)
                               /\ Head(frames) \in Frame /\ Tail(frames) = <<>>
<1>1. frames \in Seq(Frame)
    BY DEF TypeOK, Frame
<1>2. NotEntered => frames = <<>> /\ AllPayouts = payouts
    <2> SUFFICES ASSUME NotEntered PROVE frames = <<>> /\ AllPayouts = payouts
        OBVIOUS
    <2>1. Len(frames) = 0
        BY DEF NotEntered, CallsConsistent
    <2>2. frames = <<>>
        BY <1>1, <2>1
    <2> QED BY <2>2, LogsOfNone DEF AllPayouts
<1>3. ASSUME frames # <<>> PROVE lockState = 2 /\ Len(frames) = 1
    BY <1>1, <1>3 DEF TypeOK, CallsConsistent
<1> QED BY <1>1, <1>2, <1>3, PopLast

-----------------------------------------------------------------------------
(* What every action does to the ledger, and that the calls stay consistent.*)

Consistent == TypeOK /\ CallsConsistent /\ PayoutMatchesStatus

LEMMA FundPactStep ==
    ASSUME Consistent,
           NEW sender \in Requesters, NEW pactId \in PactIds, NEW worker \in Workers,
           NEW amount \in Amounts, NEW refundAfter \in 0..MaxTime, NEW termsHash \in Terms,
           NEW fee \in Fees,
           FundPact(sender, pactId, worker, amount, refundAfter, termsHash, fee)
    PROVE  CallsConsistent' /\ UNCHANGED <<pacts, AllPayouts, usedNonces>>
<1> DEFINE frame == [call |-> "fundPact", pactId |-> pactId,
                     pact |-> [requester |-> sender, worker |-> worker,
                               amount |-> amount, refundAfter |-> refundAfter,
                               termsHash |-> termsHash, status |-> "FUNDED"],
                     balanceBefore |-> balance[Escrow], saved |-> Storage]
<1>1. frames = <<>> /\ AllPayouts = payouts /\ lockState = 1
    BY EnteredAlone DEF Consistent, FundPact, NotEntered
<1>2. TypeOK'
    BY FundPactType DEF Consistent
<1>3. frames' \in Seq(Frame) /\ frames' = <<frame>> \o <<>>
    BY <1>1, <1>2 DEF FundPact, TypeOK, Frame
<1>4. Len(frames') = 1 /\ frames' # <<>> /\ Head(frames') = frame
    <2>1. frames' = <<frame>>
        BY <1>3, ConcatEmptySeq
    <2> QED BY <2>1
<1>5. LogsOf(frames') = {}
    <2>1. Head(frames').call = "fundPact"
        BY <1>4
    <2> QED BY <1>3, <1>4, <2>1, LogsOfOne
<1>6. CallsConsistent'
    <2>1. /\ frame.saved.pacts = pacts /\ frame.saved.usedNonces = usedNonces
          /\ frame.saved.payouts = payouts /\ frame.saved.lockState = 1
        BY <1>1 DEF Storage
    <2>2. SlotEmpty(pactId) /\ sender # worker
        BY DEF FundPact, FundGuard
    <2> QED BY <1>4, <2>1, <2>2 DEF FundPact, CallsConsistent, SlotEmpty
<1> QED BY <1>1, <1>5, <1>6 DEF FundPact, AllPayouts

LEMMA FundPactReturnsStep ==
    ASSUME Consistent, FundPactReturns
    PROVE  /\ CallsConsistent' /\ UNCHANGED <<AllPayouts, usedNonces>>
           /\ \E p \in PactIds : Ledger!Fund(p, pacts'[p])
<1> DEFINE frame == Head(frames)
<1>1. /\ frames # <<>> /\ frame.call = "fundPact" /\ Len(frames) = 1 /\ frames \in Seq(Frame)
      /\ frame \in Frame /\ Tail(frames) = <<>>
    BY EnteredAlone DEF Consistent, FundPactReturns
<1>2. frame \in FundFrame
    BY <1>1 DEF Frame, FundFrame, PayoutFrame
<1>3. frames' = <<>> /\ lockState' = 1
    BY <1>1 DEF FundPactReturns
<1>4. CallsConsistent'
    BY <1>3 DEF CallsConsistent
<1>5. AllPayouts' = AllPayouts
    <2>1. LogsOf(frames) = {} /\ LogsOf(frames') = {}
        BY <1>1, <1>3, LogsOfOne, LogsOfNone
    <2> QED BY <2>1 DEF AllPayouts, FundPactReturns
<1>6. Ledger!Fund(frame.pactId, pacts'[frame.pactId]) /\ frame.pactId \in PactIds
    <2>1. /\ SlotEmpty(frame.pactId) /\ frame.pact.status = "FUNDED"
          /\ frame.pact.requester # frame.pact.worker
        BY <1>1 DEF CallsConsistent, Consistent
    <2>2. pacts' = [pacts EXCEPT ![frame.pactId] = frame.pact] /\ frame.pactId \in PactIds
        BY <1>2 DEF FundPactReturns, FundFrame
    <2>3. pacts'[frame.pactId] = frame.pact
        BY <2>2 DEF Consistent, TypeOK
    <2> QED BY <1>5, <2>1, <2>2, <2>3 DEF Ledger!Fund, SlotEmpty
<1> QED BY <1>4, <1>5, <1>6 DEF FundPactReturns

LEMMA FundPactRevertsStep ==
    ASSUME Consistent, FundPactReverts
    PROVE  CallsConsistent' /\ UNCHANGED <<pacts, AllPayouts, usedNonces>>
<1>1. /\ frames # <<>> /\ Head(frames).call = "fundPact" /\ Len(frames) = 1
      /\ frames \in Seq(Frame) /\ Tail(frames) = <<>>
    BY EnteredAlone DEF Consistent, FundPactReverts
<1>2. /\ frames' = <<>> /\ lockState' = 1
      /\ pacts' = pacts /\ usedNonces' = usedNonces /\ payouts' = payouts
    BY <1>1 DEF FundPactReverts, Consistent, CallsConsistent
<1>3. CallsConsistent'
    BY <1>2 DEF CallsConsistent
<1>4. LogsOf(frames) = {} /\ LogsOf(frames') = {}
    BY <1>1, <1>2, LogsOfOne, LogsOfNone
<1> QED BY <1>2, <1>3, <1>4 DEF AllPayouts

\* An open pact has no payout yet.
LEMMA OpenIsUnpaid ==
    ASSUME PayoutMatchesStatus, NEW pactId \in PactIds, IsFunded(pactId)
    PROVE  \A earlier \in AllPayouts : earlier.pactId # pactId
    BY DEF PayoutMatchesStatus, Ledger!PayoutMatchesStatus, IsFunded

LEMMA SettleStep ==
    ASSUME Consistent, NEW permit \in SettlementPermit, NEW signer \in Accounts,
           Settle(permit, signer)
    PROVE  /\ CallsConsistent'
           /\ \E log \in AllPayouts' :
                /\ Ledger!PayOut(permit.pactId, log)
                /\ log.event = "PactSettled"
                /\ <<log.authorizer, log.nonce>> \notin usedNonces
                /\ usedNonces' = usedNonces \cup {<<log.authorizer, log.nonce>>}
<1> DEFINE pact == pacts[permit.pactId]
           recipient == ExpectedRecipient(pact, permit.action)
           log == [event |-> "PactSettled", pactId |-> permit.pactId,
                   receiptHash |-> permit.receiptHash,
                   action |-> permit.action, recipient |-> recipient,
                   amount |-> pact.amount, nonce |-> permit.nonce,
                   authorizer |-> authorizer]
           frame == [call |-> "settle", log |-> log]
           status == IF permit.action = "RELEASE" THEN "RELEASED" ELSE "REFUNDED"
<1>1. frames = <<>> /\ AllPayouts = payouts /\ lockState = 1
    BY EnteredAlone DEF Consistent, Settle, NotEntered
<1>2. TypeOK'
    BY SettleType DEF Consistent
<1>3. frames' \in Seq(Frame) /\ frames' = <<frame>> \o <<>>
    BY <1>1, <1>2 DEF Settle, TypeOK, Frame
<1>4. Len(frames') = 1 /\ frames' # <<>> /\ Head(frames') = frame
    <2>1. frames' = <<frame>>
        BY <1>3, ConcatEmptySeq
    <2> QED BY <2>1
<1>5. LogsOf(frames') = {log}
    <2>1. Head(frames').call # "fundPact" /\ Head(frames').log = log
        BY <1>4
    <2> QED BY <1>3, <1>4, <2>1, LogsOfOne
<1>6. AllPayouts' = AllPayouts \cup {log}
    BY <1>1, <1>5 DEF AllPayouts, Settle
<1>7. CallsConsistent'
    <2>1. Head(frames').call # "fundPact"
        BY <1>4
    <2> QED BY <1>4, <2>1 DEF Settle, CallsConsistent
<1>8. permit.pactId \in PactIds /\ pact \in Pact /\ permit.action \in SettlementAction
    BY DEF SettlementPermit, Consistent, TypeOK
<1>9. Ledger!StatusAfter(log) = status
    BY <1>8 DEF Ledger!StatusAfter
<1>10. Ledger!PayOut(permit.pactId, log)
    <2>1. IsFunded(permit.pactId)
        BY DEF Settle, SettleGuard
    <2>2. \A earlier \in AllPayouts : earlier.pactId # permit.pactId
        BY <1>8, <2>1, OpenIsUnpaid DEF Consistent
    <2>3. log.recipient = IF status = "RELEASED" THEN pact.worker ELSE pact.requester
        BY DEF ExpectedRecipient
    <2>4. pacts' = [pacts EXCEPT ![permit.pactId] = Closed(pact, status)]
        BY DEF Settle
    <2> QED BY <1>6, <1>9, <2>1, <2>2, <2>3, <2>4 DEF Ledger!PayOut, IsFunded, Closed
<1>11. /\ <<log.authorizer, log.nonce>> \notin usedNonces
       /\ usedNonces' = usedNonces \cup {<<log.authorizer, log.nonce>>}
    BY DEF Settle, SettleGuard, NonceUnused
<1> QED BY <1>6, <1>7, <1>10, <1>11

LEMMA RefundExpiredStep ==
    ASSUME Consistent, NEW sender \in Accounts, NEW pactId \in PactIds,
           RefundExpired(sender, pactId)
    PROVE  /\ CallsConsistent' /\ UNCHANGED usedNonces
           /\ \E log \in AllPayouts' :
                Ledger!PayOut(pactId, log) /\ log.event = "PactRefundedAfterExpiry"
<1> DEFINE pact == pacts[pactId]
           log == [event |-> "PactRefundedAfterExpiry", pactId |-> pactId,
                   recipient |-> pact.requester, amount |-> pact.amount]
           frame == [call |-> "refundExpired", log |-> log]
<1>1. frames = <<>> /\ AllPayouts = payouts /\ lockState = 1
    BY EnteredAlone DEF Consistent, RefundExpired, NotEntered
<1>2. TypeOK'
    BY RefundExpiredType DEF Consistent
<1>3. frames' \in Seq(Frame) /\ frames' = <<frame>> \o <<>>
    BY <1>1, <1>2 DEF RefundExpired, TypeOK, Frame
<1>4. Len(frames') = 1 /\ frames' # <<>> /\ Head(frames') = frame
    <2>1. frames' = <<frame>>
        BY <1>3, ConcatEmptySeq
    <2> QED BY <2>1
<1>5. LogsOf(frames') = {log}
    <2>1. Head(frames').call # "fundPact" /\ Head(frames').log = log
        BY <1>4
    <2> QED BY <1>3, <1>4, <2>1, LogsOfOne
<1>6. AllPayouts' = AllPayouts \cup {log}
    BY <1>1, <1>5 DEF AllPayouts, RefundExpired
<1>7. CallsConsistent'
    <2>1. Head(frames').call # "fundPact"
        BY <1>4
    <2> QED BY <1>4, <2>1 DEF RefundExpired, CallsConsistent
<1>8. Ledger!PayOut(pactId, log)
    <2>1. IsFunded(pactId)
        BY DEF RefundExpired
    <2>2. \A earlier \in AllPayouts : earlier.pactId # pactId
        BY <2>1, OpenIsUnpaid DEF Consistent
    <2>3. Ledger!StatusAfter(log) = "REFUNDED"
        BY DEF Ledger!StatusAfter
    <2>4. pacts' = [pacts EXCEPT ![pactId] = Closed(pact, "REFUNDED")]
        BY DEF RefundExpired
    <2> QED BY <1>6, <2>1, <2>2, <2>3, <2>4 DEF Ledger!PayOut, IsFunded, Closed
<1> QED BY <1>6, <1>7, <1>8 DEF RefundExpired

LEMMA PayoutReturnsStep ==
    ASSUME Consistent, PayoutReturns
    PROVE  CallsConsistent' /\ UNCHANGED <<pacts, AllPayouts, usedNonces>>
<1>1. /\ frames # <<>> /\ Head(frames).call # "fundPact" /\ Len(frames) = 1
      /\ frames \in Seq(Frame) /\ Tail(frames) = <<>>
    BY EnteredAlone DEF Consistent, PayoutReturns
<1>2. frames' = <<>> /\ lockState' = 1 /\ payouts' = payouts \cup {Head(frames).log}
    BY <1>1 DEF PayoutReturns
<1>3. CallsConsistent'
    BY <1>2 DEF CallsConsistent
<1>4. LogsOf(frames) = {Head(frames).log} /\ LogsOf(frames') = {}
    BY <1>1, <1>2, LogsOfOne, LogsOfNone
<1>5. AllPayouts' = AllPayouts
    BY <1>2, <1>4 DEF AllPayouts
<1> QED BY <1>3, <1>5 DEF PayoutReturns

\* Administration, donations and time leave the calls and the ledger alone.
LEMMA OtherStep ==
    ASSUME Consistent,
           \/ \E sender \in Accounts, newAuthorizer \in Keys : SetAuthorizer(sender, newAuthorizer)
           \/ \E sender \in Accounts, newOwner \in Keys : TransferOwnership(sender, newOwner)
           \/ \E sender \in Accounts : AcceptOwnership(sender)
           \/ \E sender \in Requesters, amount \in Amounts : Donate(sender, amount)
           \/ Tick
           \/ UNCHANGED vars
    PROVE  CallsConsistent' /\ UNCHANGED <<pacts, AllPayouts, usedNonces>>
<1>1. UNCHANGED <<pacts, usedNonces, lockState, payouts, frames>>
    BY DEF SetAuthorizer, TransferOwnership, AcceptOwnership, Donate, Tick, vars
<1>2. CallsConsistent'
    BY <1>1 DEF Consistent, CallsConsistent, SlotEmpty
<1> QED BY <1>1, <1>2 DEF AllPayouts, LogsOf

-----------------------------------------------------------------------------
(* The ledger's own steps keep payouts and statuses in agreement.           *)

LEMMA FundKeepsPayouts ==
    ASSUME pacts \in [PactIds -> Pact], PayoutMatchesStatus, AllPayouts' = AllPayouts,
           NEW p \in PactIds, Ledger!Fund(p, pacts'[p])
    PROVE  PayoutMatchesStatus'
<1>1. \A q \in PactIds : q # p => pacts'[q] = pacts[q]
    BY DEF Ledger!Fund
<1>2. pacts[p].status = "NONE" /\ pacts'[p].status = "FUNDED"
    BY DEF Ledger!Fund
<1>3. \A log \in AllPayouts : log.pactId \in PactIds /\ log.pactId # p
    BY <1>2 DEF PayoutMatchesStatus, Ledger!PayoutMatchesStatus
<1>4. ASSUME NEW log \in AllPayouts'
      PROVE  /\ log.pactId \in PactIds
             /\ log.amount = pacts'[log.pactId].amount
             /\ pacts'[log.pactId].status = Ledger!StatusAfter(log)
             /\ log.recipient = IF Ledger!StatusAfter(log) = "RELEASED"
                                THEN pacts'[log.pactId].worker
                                ELSE pacts'[log.pactId].requester
    BY <1>1, <1>3 DEF PayoutMatchesStatus, Ledger!PayoutMatchesStatus
<1>5. ASSUME NEW q \in PactIds
      PROVE  (pacts'[q].status \in {"RELEASED", "REFUNDED"})
                <=> (\E log \in AllPayouts' : log.pactId = q)
    BY <1>1, <1>2, <1>3 DEF PayoutMatchesStatus, Ledger!PayoutMatchesStatus
<1> QED BY <1>4, <1>5 DEF PayoutMatchesStatus, Ledger!PayoutMatchesStatus

LEMMA PayOutKeepsPayouts ==
    ASSUME pacts \in [PactIds -> Pact], PayoutMatchesStatus,
           NEW p \in PactIds, NEW log, Ledger!PayOut(p, log)
    PROVE  PayoutMatchesStatus'
<1> DEFINE status == Ledger!StatusAfter(log)
<1>1. /\ AllPayouts' = AllPayouts \cup {log} /\ log.pactId = p
      /\ \A earlier \in AllPayouts : earlier.pactId # p
      /\ pacts' = [pacts EXCEPT ![p] = Closed(pacts[p], status)]
    BY DEF Ledger!PayOut, Closed
<1>2. status \in {"RELEASED", "REFUNDED"} /\ status \in PactStatus
    BY DEF Ledger!StatusAfter, PactStatus
<1>3. \A q \in PactIds : q # p => pacts'[q] = pacts[q]
    BY <1>1
<1>4. /\ pacts'[p].status = status /\ pacts'[p].amount = pacts[p].amount
      /\ pacts'[p].worker = pacts[p].worker /\ pacts'[p].requester = pacts[p].requester
    <2>1. pacts'[p] = Closed(pacts[p], status) /\ pacts[p] \in Pact
        BY <1>1
    <2> QED BY <2>1, <1>2, ClosedType
<1>5. /\ log.amount = pacts[p].amount
      /\ log.recipient = IF status = "RELEASED" THEN pacts[p].worker ELSE pacts[p].requester
    BY DEF Ledger!PayOut
<1>6. ASSUME NEW other \in AllPayouts'
      PROVE  /\ other.pactId \in PactIds
             /\ other.amount = pacts'[other.pactId].amount
             /\ pacts'[other.pactId].status = Ledger!StatusAfter(other)
             /\ other.recipient = IF Ledger!StatusAfter(other) = "RELEASED"
                                  THEN pacts'[other.pactId].worker
                                  ELSE pacts'[other.pactId].requester
    <2>1. CASE other = log
        BY <2>1, <1>1, <1>4, <1>5
    <2>2. CASE other \in AllPayouts
        <3>1. other.pactId \in PactIds /\ other.pactId # p
            BY <2>2, <1>1 DEF PayoutMatchesStatus, Ledger!PayoutMatchesStatus
        <3> QED BY <2>2, <3>1, <1>3 DEF PayoutMatchesStatus, Ledger!PayoutMatchesStatus
    <2> QED BY <2>1, <2>2, <1>1
<1>7. ASSUME NEW q \in PactIds
      PROVE  (pacts'[q].status \in {"RELEASED", "REFUNDED"})
                <=> (\E other \in AllPayouts' : other.pactId = q)
    <2>1. CASE q = p
        BY <2>1, <1>1, <1>2, <1>4
    <2>2. CASE q # p
        BY <2>2, <1>1, <1>3 DEF PayoutMatchesStatus, Ledger!PayoutMatchesStatus
    <2> QED BY <2>1, <2>2
<1>8. ASSUME NEW a \in AllPayouts', NEW b \in AllPayouts', a.pactId = b.pactId
      PROVE  a = b
    BY <1>8, <1>1 DEF PayoutMatchesStatus, Ledger!PayoutMatchesStatus
<1> QED BY <1>6, <1>7, <1>8 DEF PayoutMatchesStatus, Ledger!PayoutMatchesStatus

-----------------------------------------------------------------------------
(* The inductive invariant: types, what an open call may rely on, the       *)
(* agreement of events and statuses, and the nonces.                        *)

Safe == Consistent /\ NonceConsumedOnce

LEMMA InitSafe == Init => Safe
<1> SUFFICES ASSUME Init PROVE Safe
    OBVIOUS
<1>1. TypeOK
    BY InitType
<1>2. AllPayouts = {}
    BY LogsOfNone DEF Init, AllPayouts
<1>3. CallsConsistent
    BY DEF Init, CallsConsistent
<1>4. PayoutMatchesStatus
    BY <1>2 DEF Init, NoPact, PayoutMatchesStatus, Ledger!PayoutMatchesStatus
<1>5. NonceConsumedOnce
    BY <1>2 DEF NonceConsumedOnce
<1> QED BY <1>1, <1>3, <1>4, <1>5 DEF Safe, Consistent

\* Every step of the contract is a step of the ledger or leaves it alone,
\* and consumes exactly the nonce of the settlement it performs.
LEMMA StepOfLedger ==
    ASSUME Consistent, [Next]_vars
    PROVE  /\ CallsConsistent'
           /\ \/ UNCHANGED <<pacts, AllPayouts, usedNonces>>
              \/ /\ UNCHANGED <<AllPayouts, usedNonces>>
                 /\ \E p \in PactIds : Ledger!Fund(p, pacts'[p])
              \/ \E p \in PactIds, log \in AllPayouts' :
                    /\ Ledger!PayOut(p, log)
                    /\ log.event = "PactRefundedAfterExpiry" /\ UNCHANGED usedNonces
              \/ \E p \in PactIds, log \in AllPayouts' :
                    /\ Ledger!PayOut(p, log)
                    /\ log.event = "PactSettled"
                    /\ <<log.authorizer, log.nonce>> \notin usedNonces
                    /\ usedNonces' = usedNonces \cup {<<log.authorizer, log.nonce>>}
<1>1. ASSUME NEW permit \in SettlementPermit PROVE permit.pactId \in PactIds
    BY DEF SettlementPermit
<1> QED BY <1>1, FundPactStep, FundPactReturnsStep, FundPactRevertsStep, SettleStep,
           RefundExpiredStep, PayoutReturnsStep, OtherStep DEF Next

LEMMA NextSafe == Safe /\ [Next]_vars => Safe'
<1> SUFFICES ASSUME Safe, [Next]_vars PROVE Safe'
    OBVIOUS
<1>1. TypeOK' /\ CallsConsistent'
    BY NextType, StepOfLedger DEF Safe, Consistent
<1>2. CASE UNCHANGED <<pacts, AllPayouts, usedNonces>>
    BY <1>1, <1>2 DEF Safe, Consistent, NonceConsumedOnce, PayoutMatchesStatus,
                      Ledger!PayoutMatchesStatus
<1>3. CASE /\ UNCHANGED <<AllPayouts, usedNonces>>
           /\ \E p \in PactIds : Ledger!Fund(p, pacts'[p])
    <2>1. PayoutMatchesStatus'
        BY <1>3, FundKeepsPayouts DEF Safe, Consistent, TypeOK
    <2> QED BY <1>1, <1>3, <2>1 DEF Safe, Consistent, NonceConsumedOnce
<1>4. ASSUME NEW p \in PactIds, NEW log \in AllPayouts', Ledger!PayOut(p, log),
             \/ log.event = "PactRefundedAfterExpiry" /\ UNCHANGED usedNonces
             \/ /\ log.event = "PactSettled"
                /\ <<log.authorizer, log.nonce>> \notin usedNonces
                /\ usedNonces' = usedNonces \cup {<<log.authorizer, log.nonce>>}
      PROVE  Safe'
    <2>1. PayoutMatchesStatus'
        BY <1>4, PayOutKeepsPayouts DEF Safe, Consistent, TypeOK
    <2>2. AllPayouts' = AllPayouts \cup {log}
        BY <1>4 DEF Ledger!PayOut
    <2>3. NonceConsumedOnce'
        BY <1>4, <2>2 DEF Safe, NonceConsumedOnce
    <2> QED BY <1>1, <2>1, <2>3 DEF Safe, Consistent
<1> QED BY <1>2, <1>3, <1>4, StepOfLedger DEF Safe

LEMMA AlwaysSafe == Spec => []Safe
    BY InitSafe, NextSafe, PTL DEF Spec

\* A closed pact has exactly one payout event, in full, to the right party;
\* an open one has none: what confirmFunding and confirmRelease rely on.
THEOREM PayoutsAreRight == Spec => []PayoutMatchesStatus
<1>1. Safe => PayoutMatchesStatus
    BY DEF Safe, Consistent
<1> QED BY <1>1, AlwaysSafe, PTL

\* No (authorizer, nonce) pair ever settles twice, across all rotations.
THEOREM NoncesAreConsumedOnce == Spec => []NonceConsumedOnce
<1>1. Safe => NonceConsumedOnce
    BY DEF Safe
<1> QED BY <1>1, AlwaysSafe, PTL

\* The lock holds: a call that waits for the token is alone, and a reverting
\* fundPact undoes its own work only.
THEOREM CallsAreConsistent == Spec => []CallsConsistent
<1>1. Safe => CallsConsistent
    BY DEF Safe, Consistent
<1> QED BY <1>1, AlwaysSafe, PTL

\* The contract implements the ledger: one funding and one payout per pact,
\* terms that never change, for any number of pacts, keys, permits and
\* callbacks.
THEOREM EscrowImplementsLedger == Spec => ImplementsLedger
<1>1. Init => Ledger!Init
    <2> SUFFICES ASSUME Init PROVE Ledger!Init
        OBVIOUS
    <2>1. AllPayouts = {}
        BY LogsOfNone DEF Init, AllPayouts
    <2> QED BY <2>1 DEF Init, NoPact, Ledger!Init
<1>2. Safe /\ [Next]_vars => [Ledger!Next]_(Ledger!ledgerVars)
    <2> SUFFICES ASSUME Safe, [Next]_vars PROVE [Ledger!Next]_(Ledger!ledgerVars)
        OBVIOUS
    <2> QED BY StepOfLedger DEF Safe, Ledger!Next, Ledger!ledgerVars
<1> QED BY <1>1, <1>2, AlwaysSafe, PTL DEF Spec, ImplementsLedger, Ledger!Spec

-----------------------------------------------------------------------------
(* Sums over the open pacts.  Solvent adds the rewards up with FoldSet, a    *)
(* recursive function on subsets: it is well defined on finite sets, and     *)
(* the order in which it visits a set does not matter.                       *)

\* What is owed to the pacts S of a book of pacts; Solvent speaks of
\* Owed(pacts, Funded).
Owed(book, S) == FoldSet(LAMBDA p, sum : book[p].amount + sum, 0, S)

\* The pact FoldSet takes first.
First(s) == CHOOSE p \in s : TRUE

IsTally(book, S, g) ==
    g = [s \in SUBSET S |-> IF s = {} THEN 0
                            ELSE book[First(s)].amount + g[s \ {First(s)}]]
Tally(book, S) == CHOOSE g : IsTally(book, S, g)

\* FoldSet is a recursive function on the subsets of its set.
LEMMA OwedIsTally ==
    ASSUME NEW book, NEW S
    PROVE  Owed(book, S) = Tally(book, S)[S]
    BY DEF Owed, Tally, IsTally, First, FoldSet, MapThenFoldSet

\* What passes from the smaller subsets of a finite set to the larger ones
\* holds of all of them.
LEMMA SubsetInduction ==
    ASSUME NEW S, IsFiniteSet(S), NEW Good,
           \A s \in SUBSET S : (\A t \in SUBSET s : t # s => t \in Good) => s \in Good
    PROVE  SUBSET S \subseteq Good
<1> DEFINE Bad == {s \in SUBSET S : s \notin Good}
<1>1. IsWellFoundedOn(StrictSubsetOrdering(S), SUBSET S)
    BY FS_StrictSubsetOrderingWellFounded, FS_FiniteSubsetsOfFinite
<1>2. SUFFICES ASSUME Bad # {} PROVE FALSE
    OBVIOUS
<1>3. PICK least \in Bad : \A t \in Bad : <<t, least>> \notin StrictSubsetOrdering(S)
    <2> HIDE DEF Bad
    <2>1. Bad \subseteq SUBSET S
        BY DEF Bad
    <2> QED BY <1>1, <1>2, <2>1, WFMin
<1>4. \A t \in SUBSET least : t # least => t \in Good
    BY <1>3 DEF StrictSubsetOrdering
<1> QED BY <1>3, <1>4

LEMMA FirstIsIn == ASSUME NEW s, s # {} PROVE First(s) \in s
    BY DEF First

\* The recursion equation, on every subset.
LEMMA TallyStep ==
    ASSUME NEW book, NEW S, NEW g, IsTally(book, S, g), NEW s \in SUBSET S
    PROVE  g[s] = IF s = {} THEN 0 ELSE book[First(s)].amount + g[s \ {First(s)}]
<1> DEFINE Step(t) == IF t = {} THEN 0 ELSE book[First(t)].amount + g[t \ {First(t)}]
<1>1. g = [t \in SUBSET S |-> Step(t)]
    BY DEF IsTally
<1> HIDE DEF Step
<1>2. g[s] = Step(s)
    BY <1>1
<1> QED BY <1>2 DEF Step

\* Two tallies agree where both are defined.
LEMMA TallyUnique ==
    ASSUME NEW book, NEW S, IsFiniteSet(S), NEW g, IsTally(book, S, g),
           NEW T \in SUBSET S, NEW h, IsTally(book, T, h)
    PROVE  \A s \in SUBSET T : g[s] = h[s]
<1> DEFINE Good == {s \in SUBSET T : g[s] = h[s]}
<1>1. IsFiniteSet(T)
    BY FS_Subset
<1>2. ASSUME NEW s \in SUBSET T, \A t \in SUBSET s : t # s => t \in Good
      PROVE  s \in Good
    <2>1. s \in SUBSET S
        OBVIOUS
    <2>2. CASE s = {}
        BY <2>1, <2>2, TallyStep
    <2>3. CASE s # {}
        <3>1. s \ {First(s)} \in Good
            BY <2>3, <1>2, FirstIsIn
        <3>2. g[s] = book[First(s)].amount + g[s \ {First(s)}]
            BY <2>1, <2>3, TallyStep
        <3>3. h[s] = book[First(s)].amount + h[s \ {First(s)}]
            BY <2>3, TallyStep
        <3> QED BY <3>1, <3>2, <3>3
    <2> QED BY <2>2, <2>3
<1> HIDE DEF Good
<1>3. SUBSET T \subseteq Good
    BY <1>1, <1>2, SubsetInduction
<1> QED BY <1>3 DEF Good

\* The recursion defines a function: a smaller set's tally continues.
LEMMA TallyExists ==
    ASSUME NEW book, NEW S, IsFiniteSet(S)
    PROVE  IsTally(book, S, Tally(book, S))
<1> DEFINE Good == {s \in SUBSET S : IsTally(book, s, Tally(book, s))}
<1>1. ASSUME NEW s \in SUBSET S, \A t \in SUBSET s : t # s => t \in Good
      PROVE  s \in Good
    <2> DEFINE Below(t) == Tally(book, t)[t]
               Step(t) == IF t = {} THEN 0
                          ELSE book[First(t)].amount + Below(t \ {First(t)})
               g == [t \in SUBSET s |-> Step(t)]
    <2>1. ASSUME NEW t \in SUBSET s, t # s
          PROVE  g[t] = Below(t)
        <3>1. IsTally(book, t, Tally(book, t)) /\ IsFiniteSet(t)
            BY <1>1, <2>1, FS_Subset
        <3>2. CASE t = {}
            BY <3>1, <3>2, TallyStep
        <3>3. CASE t # {}
            <4> DEFINE u == t \ {First(t)}
            <4>1. u \in SUBSET t /\ u # s /\ u \in SUBSET s /\ u \in SUBSET u
                <5>1. u \in SUBSET t /\ u \in SUBSET s
                    OBVIOUS
                <5>2. t \subseteq s /\ t # s
                    BY <2>1
                <5> HIDE DEF u
                <5> QED BY <5>1, <5>2
            <4>2. IsTally(book, u, Tally(book, u))
                BY <1>1, <4>1
            <4>3. Tally(book, t)[u] = Tally(book, u)[u]
                <5> HIDE DEF u
                <5> QED BY <3>1, <4>1, <4>2, TallyUnique
            <4>4. Tally(book, t)[t] = book[First(t)].amount + Tally(book, t)[u]
                BY <3>1, <3>3, TallyStep
            <4> QED BY <3>3, <4>3, <4>4
        <3> QED BY <3>2, <3>3
    <2>2. ASSUME NEW t \in SUBSET s, t # {}
          PROVE  Below(t \ {First(t)}) = g[t \ {First(t)}]
        BY <2>1, <2>2, FirstIsIn
    <2>3. \A t \in SUBSET s :
            Step(t) = IF t = {} THEN 0 ELSE book[First(t)].amount + g[t \ {First(t)}]
        BY <2>2
    <2>4. IsTally(book, s, g)
        <3>1. g = [t \in SUBSET s |-> Step(t)]
            OBVIOUS
        <3> HIDE DEF Step, g
        <3> QED BY <2>3, <3>1 DEF IsTally
    <2> HIDE DEF g
    <2> QED BY <2>4 DEF Tally
<1> HIDE DEF Good
<1>2. SUBSET S \subseteq Good
    BY <1>1, SubsetInduction
<1> QED BY <1>2 DEF Good

\* One unfolding of the sum over a finite set.
LEMMA OwedUnfolds ==
    ASSUME NEW book, NEW S, IsFiniteSet(S)
    PROVE  Owed(book, S) = IF S = {} THEN 0
                           ELSE book[First(S)].amount + Owed(book, S \ {First(S)})
<1>1. IsTally(book, S, Tally(book, S))
    BY TallyExists
<1>2. CASE S = {}
    BY <1>1, <1>2, OwedIsTally, TallyStep
<1>3. CASE S # {}
    <2> DEFINE T == S \ {First(S)}
    <2>1. IsTally(book, T, Tally(book, T))
        BY FS_Subset, TallyExists
    <2>2. Tally(book, S)[T] = Tally(book, T)[T]
        BY <1>1, <2>1, TallyUnique
    <2>3. Tally(book, S)[S] = book[First(S)].amount + Tally(book, S)[T]
        BY <1>1, <1>3, TallyStep
    <2> QED BY <1>3, <2>2, <2>3, OwedIsTally
<1> QED BY <1>2, <1>3

\* Rewards are naturals, and so is every sum of them.
LEMMA OwedType ==
    ASSUME NEW book, NEW S, IsFiniteSet(S), \A p \in S : book[p].amount \in Nat
    PROVE  \A T \in SUBSET S : Owed(book, T) \in Nat
<1> DEFINE Good == {T \in SUBSET S : Owed(book, T) \in Nat}
<1>1. ASSUME NEW T \in SUBSET S, \A t \in SUBSET T : t # T => t \in Good
      PROVE  T \in Good
    <2>1. IsFiniteSet(T)
        BY FS_Subset
    <2>2. CASE T = {}
        <3>1. Owed(book, T) = 0
            BY <2>1, <2>2, OwedUnfolds
        <3> QED BY <3>1
    <2>3. CASE T # {}
        <3>1. First(T) \in T /\ T \ {First(T)} \in Good
            BY <1>1, <2>3, FirstIsIn
        <3>2. Owed(book, T) = book[First(T)].amount + Owed(book, T \ {First(T)})
            BY <2>1, <2>3, OwedUnfolds
        <3> QED BY <3>1, <3>2
    <2> QED BY <2>2, <2>3
<1> HIDE DEF Good
<1>2. SUBSET S \subseteq Good
    BY <1>1, SubsetInduction
<1> QED BY <1>2 DEF Good

\* Which pact FoldSet takes first does not matter: any one splits off.
LEMMA OwedSplits ==
    ASSUME NEW book, NEW S, IsFiniteSet(S), \A p \in S : book[p].amount \in Nat,
           NEW p \in S
    PROVE  Owed(book, S) = book[p].amount + Owed(book, S \ {p})
<1> DEFINE Good == {T \in SUBSET S :
                        \A q \in T : Owed(book, T) = book[q].amount + Owed(book, T \ {q})}
<1>1. ASSUME NEW T \in SUBSET S, \A t \in SUBSET T : t # T => t \in Good
      PROVE  T \in Good
    <2> SUFFICES ASSUME NEW q \in T
                 PROVE  Owed(book, T) = book[q].amount + Owed(book, T \ {q})
        OBVIOUS
    <2> DEFINE x == First(T)
    <2>1. IsFiniteSet(T) /\ IsFiniteSet(T \ {q}) /\ T # {} /\ x \in T
        BY FS_Subset, FirstIsIn
    <2>2. Owed(book, T) = book[x].amount + Owed(book, T \ {x})
        BY <2>1, OwedUnfolds
    <2> HIDE DEF x
    <2>3. CASE q = x
        BY <2>2, <2>3
    <2>4. CASE q # x
        <3>1. Owed(book, T \ {x}) = book[q].amount + Owed(book, (T \ {x}) \ {q})
            <4>1. T \ {x} \in Good /\ q \in T \ {x}
                BY <1>1, <2>1, <2>4
            <4> QED BY <4>1
        <3>2. Owed(book, T \ {q}) = book[x].amount + Owed(book, (T \ {q}) \ {x})
            <4>1. T \ {q} \in Good /\ x \in T \ {q}
                BY <1>1, <2>1, <2>4
            <4> QED BY <4>1
        <3>3. (T \ {x}) \ {q} = (T \ {q}) \ {x}
            OBVIOUS
        <3>4. /\ book[x].amount \in Nat /\ book[q].amount \in Nat
              /\ Owed(book, (T \ {q}) \ {x}) \in Nat
            BY <2>1, OwedType
        <3> DEFINE rest == Owed(book, (T \ {q}) \ {x})
        <3>5. Owed(book, T \ {x}) = book[q].amount + rest /\ rest \in Nat
            BY <3>1, <3>3, <3>4
        <3> HIDE DEF Good, rest
        <3>6. Owed(book, T \ {q}) = book[x].amount + rest
            BY <3>2 DEF rest
        <3> QED BY <2>2, <3>4, <3>5, <3>6
    <2> QED BY <2>3, <2>4
<1> HIDE DEF Good
<1>2. SUBSET S \subseteq Good
    BY <1>1, SubsetInduction
<1> QED BY <1>2 DEF Good

\* The sum depends on nothing but the rewards in it.
LEMMA OwedAgrees ==
    ASSUME NEW book, NEW other, NEW S, IsFiniteSet(S),
           \A p \in S : book[p].amount = other[p].amount
    PROVE  Owed(book, S) = Owed(other, S)
<1> DEFINE Good == {T \in SUBSET S : Owed(book, T) = Owed(other, T)}
<1>1. ASSUME NEW T \in SUBSET S, \A t \in SUBSET T : t # T => t \in Good
      PROVE  T \in Good
    <2>1. IsFiniteSet(T)
        BY FS_Subset
    <2>2. CASE T = {}
        BY <2>1, <2>2, OwedUnfolds
    <2>3. CASE T # {}
        <3>1. First(T) \in T /\ T \ {First(T)} \in Good
            BY <1>1, <2>3, FirstIsIn
        <3>2. /\ Owed(book, T) = book[First(T)].amount + Owed(book, T \ {First(T)})
              /\ Owed(other, T) = other[First(T)].amount + Owed(other, T \ {First(T)})
            BY <2>1, <2>3, OwedUnfolds
        <3> QED BY <3>1, <3>2
    <2> QED BY <2>2, <2>3
<1> HIDE DEF Good
<1>2. SUBSET S \subseteq Good
    BY <1>1, SubsetInduction
<1> QED BY <1>2 DEF Good

-----------------------------------------------------------------------------
(* Solvency.  Solvent alone is not inductive: while fundPact waits for the   *)
(* token, it is the balance read before the call that covers the open       *)
(* rewards, and the balance a revert would restore is that one.             *)

Backed ==
    /\ IsFiniteSet(Funded)
    /\ Owed(pacts, Funded) <= balance[Escrow]
    /\ frames # <<>> /\ Head(frames).call = "fundPact" =>
        LET frame == Head(frames)
        IN  /\ Owed(pacts, Funded) <= frame.balanceBefore
            /\ frame.saved.balance[Escrow] = frame.balanceBefore

LEMMA RewardsAreNaturals ==
    ASSUME TypeOK
    PROVE  \A p \in PactIds : pacts[p].amount \in Nat
    BY DEF TypeOK, Pact

\* Tokens that come in add up; a payment takes no more than its amount, also
\* when the contract pays itself.
LEMMA MovedIn ==
    ASSUME TypeOK, NEW from \in Accounts, NEW amount \in Nat, NEW fee \in Nat
    PROVE  Moved(from, Escrow, amount, fee)[Escrow] = balance[Escrow] + (amount - fee)
    BY EscrowAssumption DEF TypeOK, Moved, Holders

LEMMA MovedOut ==
    ASSUME TypeOK, NEW to \in Holders, NEW amount \in Nat
    PROVE  Moved(Escrow, to, amount, 0)[Escrow] >= balance[Escrow] - amount
<1>1. balance \in [Holders -> Int] /\ Escrow \in Holders
    BY DEF TypeOK, Holders
<1>2. CASE to = Escrow
    BY <1>1, <1>2 DEF Moved
<1>3. CASE to # Escrow
    BY <1>1, <1>3 DEF Moved
<1> QED BY <1>2, <1>3

\* A pact is funded: what is owed grows by its reward.
LEMMA RewardOpened ==
    ASSUME TypeOK, TypeOK', IsFiniteSet(Funded), NEW p \in PactIds, SlotEmpty(p),
           NEW pact \in Pact, pact.status = "FUNDED",
           pacts' = [pacts EXCEPT ![p] = pact]
    PROVE  /\ IsFiniteSet(Funded')
           /\ Owed(pacts', Funded') = Owed(pacts, Funded) + pact.amount
<1>1. pacts'[p] = pact /\ \A q \in PactIds : q # p => pacts'[q] = pacts[q]
    BY DEF TypeOK
<1>2. Funded' = Funded \cup {p} /\ p \notin Funded /\ p \in Funded'
    BY <1>1 DEF Funded, SlotEmpty
<1>3. IsFiniteSet(Funded')
    BY <1>2, FS_AddElement
<1>4. \A q \in Funded' : pacts'[q].amount \in Nat
    BY DEF Funded, TypeOK, Pact
<1>5. Owed(pacts', Funded') = pact.amount + Owed(pacts', Funded' \ {p})
    <2> DEFINE book == pacts'
               open == Funded'
    <2>1. IsFiniteSet(open) /\ p \in open /\ \A q \in open : book[q].amount \in Nat
        BY <1>2, <1>3, <1>4
    <2>2. book[p] = pact
        BY <1>1
    <2> HIDE DEF book, open
    <2>3. Owed(book, open) = book[p].amount + Owed(book, open \ {p})
        BY <2>1, OwedSplits
    <2> QED BY <2>2, <2>3 DEF book, open
<1>6. Funded' \ {p} = Funded
    BY <1>2
<1>7. Owed(pacts', Funded) = Owed(pacts, Funded)
    <2> DEFINE book == pacts'
    <2>1. \A q \in Funded : book[q].amount = pacts[q].amount
        BY <1>1, <1>2 DEF Funded
    <2> HIDE DEF book
    <2>2. Owed(book, Funded) = Owed(pacts, Funded)
        BY <2>1, OwedAgrees
    <2> QED BY <2>2 DEF book
<1>8. Owed(pacts, Funded) \in Nat /\ pact.amount \in Nat
    BY RewardsAreNaturals, OwedType DEF Funded, Pact
<1>9. Owed(pacts', Funded') = pact.amount + Owed(pacts, Funded)
    BY <1>5, <1>6, <1>7
<1> QED BY <1>3, <1>8, <1>9

\* A pact is paid out: what is owed shrinks by its reward.
LEMMA RewardClosed ==
    ASSUME TypeOK, IsFiniteSet(Funded), NEW p \in PactIds, IsFunded(p),
           NEW status \in {"RELEASED", "REFUNDED"},
           pacts' = [pacts EXCEPT ![p] = Closed(pacts[p], status)]
    PROVE  /\ IsFiniteSet(Funded')
           /\ Owed(pacts', Funded') = Owed(pacts, Funded) - pacts[p].amount
<1>1. /\ pacts'[p].status = status /\ pacts'[p].amount = pacts[p].amount
      /\ \A q \in PactIds : q # p => pacts'[q] = pacts[q]
    BY ClosedType DEF TypeOK, PactStatus
<1>2. Funded' = Funded \ {p} /\ p \in Funded
    BY <1>1 DEF Funded, IsFunded
<1>3. IsFiniteSet(Funded')
    BY <1>2, FS_RemoveElement
<1>4. \A q \in Funded : pacts[q].amount \in Nat
    BY RewardsAreNaturals DEF Funded
<1>5. Owed(pacts, Funded) = pacts[p].amount + Owed(pacts, Funded \ {p})
    BY <1>2, <1>4, OwedSplits
<1>6. Owed(pacts', Funded') = Owed(pacts, Funded')
    <2> DEFINE book == pacts'
               open == Funded'
    <2>1. IsFiniteSet(open) /\ \A q \in open : book[q].amount = pacts[q].amount
        BY <1>1, <1>2, <1>3 DEF Funded
    <2> HIDE DEF book, open
    <2>2. Owed(book, open) = Owed(pacts, open)
        BY <2>1, OwedAgrees
    <2> QED BY <2>2 DEF book, open
<1>7. Owed(pacts, Funded') \in Nat /\ pacts[p].amount \in Nat
    BY <1>2, <1>4, OwedType
<1>8. Owed(pacts, Funded) = pacts[p].amount + Owed(pacts, Funded')
    BY <1>2, <1>5
<1> QED BY <1>3, <1>6, <1>7, <1>8

LEMMA OwedInvariance ==
    ASSUME UNCHANGED pacts
    PROVE  Funded' = Funded /\ Owed(pacts', Funded') = Owed(pacts, Funded)
<1>1. Funded' = Funded /\ pacts' = pacts
    BY DEF Funded
<1> QED BY <1>1

LEMMA OwedIsNatural ==
    ASSUME TypeOK, IsFiniteSet(Funded)
    PROVE  Owed(pacts, Funded) \in Nat
    BY RewardsAreNaturals, OwedType DEF Funded

LEMMA InitBacked == Init => Backed
<1> SUFFICES ASSUME Init PROVE Backed
    OBVIOUS
<1>1. Funded = {}
    BY DEF Init, Funded, NoPact
<1>2. IsFiniteSet(Funded) /\ Owed(pacts, Funded) = 0
    BY <1>1, FS_EmptySet, OwedUnfolds
<1>3. balance[Escrow] = 0 /\ frames = <<>>
    BY DEF Init, Holders
<1> QED BY <1>2, <1>3 DEF Backed

LEMMA FundPactBacked ==
    ASSUME Safe, Backed,
           NEW sender \in Requesters, NEW pactId \in PactIds, NEW worker \in Workers,
           NEW amount \in Amounts, NEW refundAfter \in 0..MaxTime, NEW termsHash \in Terms,
           NEW fee \in Fees,
           FundPact(sender, pactId, worker, amount, refundAfter, termsHash, fee)
    PROVE  Backed'
<1> DEFINE frame == [call |-> "fundPact", pactId |-> pactId,
                     pact |-> [requester |-> sender, worker |-> worker,
                               amount |-> amount, refundAfter |-> refundAfter,
                               termsHash |-> termsHash, status |-> "FUNDED"],
                     balanceBefore |-> balance[Escrow], saved |-> Storage]
<1>1. TypeOK /\ frames = <<>> /\ Escrow \in Holders
    BY EnteredAlone DEF Safe, Consistent, FundPact, NotEntered, Holders
<1>2. Head(frames') = frame
    <2>1. TypeOK'
        BY FundPactType DEF Safe, Consistent
    <2>2. frames' \in Seq(Frame) /\ frames' = <<frame>> \o <<>>
        BY <1>1, <2>1 DEF FundPact, TypeOK, Frame
    <2>3. frames' = <<frame>>
        BY <2>2, ConcatEmptySeq
    <2> QED BY <2>3
<1>3. frame.balanceBefore = balance[Escrow] /\ frame.saved.balance = balance
    BY DEF Storage
<1>4. balance'[Escrow] = balance[Escrow] + (amount - fee) /\ amount - fee \in Nat
    <2>1. sender \in Accounts /\ amount \in Nat /\ fee \in Nat /\ fee <= amount
        BY EscrowAssumption DEF FundPact
    <2>2. balance' = Moved(sender, Escrow, amount, fee)
        BY DEF FundPact
    <2>3. Moved(sender, Escrow, amount, fee)[Escrow] = balance[Escrow] + (amount - fee)
        BY <1>1, <2>1, MovedIn
    <2> QED BY <2>1, <2>2, <2>3
<1>5. balance[Escrow] \in Int /\ Owed(pacts, Funded) \in Nat
    BY <1>1, OwedIsNatural DEF TypeOK, Backed
<1>6. Funded' = Funded /\ Owed(pacts', Funded') = Owed(pacts, Funded)
    BY OwedInvariance DEF FundPact
<1> HIDE DEF frame
<1> QED BY <1>2, <1>3, <1>4, <1>5, <1>6 DEF Backed

LEMMA FundPactReturnsBacked ==
    ASSUME Safe, Backed, FundPactReturns
    PROVE  Backed'
<1> DEFINE frame == Head(frames)
<1>1. /\ TypeOK /\ frames # <<>> /\ frame.call = "fundPact" /\ frame \in Frame
      /\ Tail(frames) = <<>>
    BY EnteredAlone DEF Safe, Consistent, FundPactReturns
<1>2. frame \in FundFrame
    BY <1>1 DEF Frame, FundFrame, PayoutFrame
<1>3. frame.pactId \in PactIds /\ frame.pact \in Pact /\ frame.balanceBefore \in Int
    BY <1>2 DEF FundFrame
<1>4. SlotEmpty(frame.pactId) /\ frame.pact.status = "FUNDED"
    BY <1>1 DEF Safe, Consistent, CallsConsistent
<1>5. TypeOK'
    BY <1>1, FundPactReturnsType
<1>6. pacts' = [pacts EXCEPT ![frame.pactId] = frame.pact] /\ frames' = <<>>
    BY <1>1 DEF FundPactReturns
<1>7. /\ IsFiniteSet(Funded')
      /\ Owed(pacts', Funded') = Owed(pacts, Funded) + frame.pact.amount
    <2> HIDE DEF frame
    <2> QED BY <1>1, <1>3, <1>4, <1>5, <1>6, RewardOpened DEF Backed
<1>8. balance' = balance /\ balance[Escrow] - frame.balanceBefore = frame.pact.amount
    BY DEF FundPactReturns, ReceivedExactly
<1>9. Owed(pacts, Funded) <= frame.balanceBefore
    BY <1>1 DEF Backed
<1>10. /\ balance[Escrow] \in Int /\ Owed(pacts, Funded) \in Nat
       /\ frame.pact.amount \in Nat
    BY <1>1, <1>3, OwedIsNatural DEF TypeOK, Backed, Holders, Pact
<1> HIDE DEF frame
<1>11. Owed(pacts', Funded') <= balance'[Escrow]
    BY <1>3, <1>7, <1>8, <1>9, <1>10
<1> QED BY <1>6, <1>7, <1>11 DEF Backed

LEMMA FundPactRevertsBacked ==
    ASSUME Safe, Backed, FundPactReverts
    PROVE  Backed'
<1>1. /\ TypeOK /\ frames # <<>> /\ Head(frames).call = "fundPact"
      /\ Tail(frames) = <<>>
    BY EnteredAlone DEF Safe, Consistent, FundPactReverts
<1>2. pacts' = pacts /\ frames' = <<>> /\ balance' = Head(frames).saved.balance
    BY <1>1 DEF FundPactReverts, Safe, Consistent, CallsConsistent
<1>3. Funded' = Funded /\ Owed(pacts', Funded') = Owed(pacts, Funded)
    BY <1>2, OwedInvariance
<1>4. balance'[Escrow] = Head(frames).balanceBefore
    BY <1>1, <1>2 DEF Backed
<1> QED BY <1>1, <1>2, <1>3, <1>4 DEF Backed

\* While settle or refundExpired waits for the token, no fundPact does.
LEMMA PayoutCallIsOnTop ==
    ASSUME Safe,
           \/ \E permit \in SettlementPermit, signer \in Accounts : Settle(permit, signer)
           \/ \E sender \in Accounts, pactId \in PactIds : RefundExpired(sender, pactId)
    PROVE  Head(frames').call # "fundPact"
<1>1. frames = <<>> /\ TypeOK'
    BY EnteredAlone, SettleType, RefundExpiredType
       DEF Safe, Consistent, Settle, RefundExpired, NotEntered
<1>2. PICK frame : frame.call # "fundPact" /\ frames' = <<frame>> \o frames
    <2>1. ASSUME NEW permit \in SettlementPermit, NEW signer \in Accounts,
                 Settle(permit, signer)
          PROVE  \E frame : frame.call # "fundPact" /\ frames' = <<frame>> \o frames
        <3> DEFINE pact == pacts[permit.pactId]
                   frame == [call |-> "settle",
                             log |-> [event |-> "PactSettled", pactId |-> permit.pactId,
                                      receiptHash |-> permit.receiptHash,
                                      action |-> permit.action,
                                      recipient |-> ExpectedRecipient(pact, permit.action),
                                      amount |-> pact.amount, nonce |-> permit.nonce,
                                      authorizer |-> authorizer]]
        <3>1. frame.call # "fundPact" /\ frames' = <<frame>> \o frames
            BY <2>1 DEF Settle
        <3> QED BY <3>1
    <2>2. ASSUME NEW sender \in Accounts, NEW pactId \in PactIds, RefundExpired(sender, pactId)
          PROVE  \E frame : frame.call # "fundPact" /\ frames' = <<frame>> \o frames
        <3> DEFINE pact == pacts[pactId]
                   frame == [call |-> "refundExpired",
                             log |-> [event |-> "PactRefundedAfterExpiry", pactId |-> pactId,
                                      recipient |-> pact.requester, amount |-> pact.amount]]
        <3>1. frame.call # "fundPact" /\ frames' = <<frame>> \o frames
            BY <2>2 DEF RefundExpired
        <3> QED BY <3>1
    <2> QED BY <2>1, <2>2
<1>3. <<frame>> \o <<>> = <<frame>> /\ Head(<<frame>>) = frame
    <2>1. <<frame>> \in Seq({frame})
        OBVIOUS
    <2> QED BY <2>1, ConcatEmptySeq
<1> QED BY <1>1, <1>2, <1>3

LEMMA SettleBacked ==
    ASSUME Safe, Backed, NEW permit \in SettlementPermit, NEW signer \in Accounts,
           Settle(permit, signer)
    PROVE  Backed'
<1> DEFINE pact == pacts[permit.pactId]
           status == IF permit.action = "RELEASE" THEN "RELEASED" ELSE "REFUNDED"
           recipient == ExpectedRecipient(pact, permit.action)
<1>1. TypeOK /\ permit.pactId \in PactIds /\ status \in {"RELEASED", "REFUNDED"}
    BY DEF Safe, Consistent, SettlementPermit
<1>2. /\ IsFunded(permit.pactId)
      /\ pacts' = [pacts EXCEPT ![permit.pactId] = Closed(pact, status)]
      /\ balance' = Moved(Escrow, recipient, pact.amount, 0)
    BY DEF Settle, SettleGuard
<1>3. /\ IsFiniteSet(Funded')
      /\ Owed(pacts', Funded') = Owed(pacts, Funded) - pact.amount
    <2> HIDE DEF status
    <2> QED BY <1>1, <1>2, RewardClosed DEF Backed
<1>4. recipient \in Holders /\ pact.amount \in Nat
    BY <1>1, RewardsAreNaturals DEF Settle, SettleGuard, SettlementPermit
<1>5. balance'[Escrow] >= balance[Escrow] - pact.amount
    <2> HIDE DEF recipient, pact
    <2> QED BY <1>1, <1>2, <1>4, MovedOut
<1>6. /\ balance[Escrow] \in Int /\ balance'[Escrow] \in Int
      /\ Owed(pacts, Funded) \in Nat
    <2>1. TypeOK'
        BY <1>1, SettleType
    <2> QED BY <1>1, <2>1, OwedIsNatural DEF TypeOK, Holders, Backed
<1>7. Head(frames').call # "fundPact"
    BY PayoutCallIsOnTop
<1> HIDE DEF pact
<1>8. Owed(pacts', Funded') <= balance'[Escrow]
    BY <1>3, <1>4, <1>5, <1>6 DEF Backed
<1> QED BY <1>3, <1>7, <1>8 DEF Backed

LEMMA RefundExpiredBacked ==
    ASSUME Safe, Backed, NEW sender \in Accounts, NEW pactId \in PactIds,
           RefundExpired(sender, pactId)
    PROVE  Backed'
<1> DEFINE pact == pacts[pactId]
<1>1. TypeOK
    BY DEF Safe, Consistent
<1>2. /\ IsFunded(pactId)
      /\ pacts' = [pacts EXCEPT ![pactId] = Closed(pact, "REFUNDED")]
      /\ balance' = Moved(Escrow, pact.requester, pact.amount, 0)
    BY DEF RefundExpired
<1>3. /\ IsFiniteSet(Funded')
      /\ Owed(pacts', Funded') = Owed(pacts, Funded) - pact.amount
    BY <1>1, <1>2, RewardClosed DEF Backed
<1>4. pact.requester \in Holders /\ pact.amount \in Nat
    BY <1>1, RewardsAreNaturals DEF RefundExpired, Holders
<1>5. balance'[Escrow] >= balance[Escrow] - pact.amount
    <2> HIDE DEF pact
    <2> QED BY <1>1, <1>2, <1>4, MovedOut
<1>6. /\ balance[Escrow] \in Int /\ balance'[Escrow] \in Int
      /\ Owed(pacts, Funded) \in Nat
    <2>1. TypeOK'
        BY <1>1, RefundExpiredType
    <2> QED BY <1>1, <2>1, OwedIsNatural DEF TypeOK, Holders, Backed
<1>7. Head(frames').call # "fundPact"
    BY PayoutCallIsOnTop
<1> HIDE DEF pact
<1>8. Owed(pacts', Funded') <= balance'[Escrow]
    BY <1>3, <1>4, <1>5, <1>6 DEF Backed
<1> QED BY <1>3, <1>7, <1>8 DEF Backed

LEMMA PayoutReturnsBacked ==
    ASSUME Safe, Backed, PayoutReturns
    PROVE  Backed'
<1>1. frames' = <<>> /\ UNCHANGED <<pacts, balance>>
    BY EnteredAlone DEF Safe, Consistent, PayoutReturns
<1> QED BY <1>1, OwedInvariance DEF Backed

LEMMA DonateBacked ==
    ASSUME Safe, Backed, NEW sender \in Requesters, NEW amount \in Amounts,
           Donate(sender, amount)
    PROVE  Backed'
<1>1. TypeOK /\ sender \in Accounts /\ amount \in Nat /\ 0 \in Nat
    BY EscrowAssumption DEF Safe, Consistent
<1>2. balance'[Escrow] = balance[Escrow] + (amount - 0)
    BY <1>1, MovedIn DEF Donate
<1>3. balance[Escrow] \in Int /\ Owed(pacts, Funded) \in Nat
    BY <1>1, OwedIsNatural DEF TypeOK, Holders, Backed
<1>4. /\ Funded' = Funded /\ Owed(pacts', Funded') = Owed(pacts, Funded)
      /\ frames' = frames
    BY OwedInvariance DEF Donate
<1> QED BY <1>1, <1>2, <1>3, <1>4 DEF Backed

\* Administration and time.
LEMMA OtherBacked ==
    ASSUME Backed,
           \/ \E sender \in Accounts, newAuthorizer \in Keys : SetAuthorizer(sender, newAuthorizer)
           \/ \E sender \in Accounts, newOwner \in Keys : TransferOwnership(sender, newOwner)
           \/ \E sender \in Accounts : AcceptOwnership(sender)
           \/ Tick
           \/ UNCHANGED vars
    PROVE  Backed'
<1>1. UNCHANGED <<pacts, balance, frames>>
    BY DEF SetAuthorizer, TransferOwnership, AcceptOwnership, Tick, vars
<1> QED BY <1>1, OwedInvariance DEF Backed

\* At every moment, also inside a token callback and whatever the token
\* withholds, the contract holds enough for every pact still funded.
THEOREM AlwaysSolvent == Spec => []Solvent
<1>1. Safe /\ Backed /\ [Next]_vars => Backed'
    BY FundPactBacked, FundPactReturnsBacked, FundPactRevertsBacked, SettleBacked,
       RefundExpiredBacked, PayoutReturnsBacked, DonateBacked, OtherBacked DEF Next
<1>2. Safe /\ Backed => Solvent
    <2> SUFFICES ASSUME Safe, Backed PROVE Solvent
        OBVIOUS
    <2>1. balance[Escrow] \in Int /\ Owed(pacts, Funded) \in Nat
        BY OwedIsNatural DEF Safe, Consistent, TypeOK, Holders, Backed
    <2>2. balance[Escrow] >= Owed(pacts, Funded)
        BY <2>1 DEF Backed
    <2> QED BY <2>2 DEF Solvent, Owed
<1> QED BY <1>1, <1>2, InitBacked, AlwaysSafe, PTL DEF Spec
=============================================================================
