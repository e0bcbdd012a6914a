-------------------------- MODULE ProofPactEscrow --------------------------
(***************************************************************************)
(* The Solidity escrow, contracts/src/ProofPactEscrow.sol.                 *)
(*                                                                         *)
(* One external call of the contract is one EVM transaction: it is atomic, *)
(* except that the token it calls may call back.  The functions that move  *)
(* money are therefore two actions: the part up to and including the token *)
(* call, which leaves a frame on `frames', and the part after it.  Between *)
(* the two any other entry point may be called.  A failed `require' or     *)
(* revert undoes everything the call did, so a call that reverts before    *)
(* its token call is no step at all, and one that reverts after it         *)
(* restores the state saved in its frame.                                  *)
(***************************************************************************)
EXTENDS Integers, Sequences, FiniteSets, FiniteSetsExt

CONSTANTS
    Accounts,           \* externally owned accounts and signing keys
    Escrow,             \* address(this)
    ZeroAddress,        \* address(0)
    PactIds,            \* the pact ids in use, without bytes32(0)
    ZeroHash,           \* bytes32(0)
    Terms,              \* terms hashes, without bytes32(0)
    Receipts,           \* receipt hashes, without bytes32(0)
    Nonces,             \* permit nonces
    Requesters,         \* the accounts that fund pacts
    Workers,            \* the addresses pacts are funded for
    Keys,               \* the accounts an owner may appoint
    Tokens, TOKEN,      \* token addresses, and the one this escrow holds
    Amounts,            \* reward amounts a requester may pass
    Fees,               \* what the token may withhold from one transferFrom
    InitialOwner, InitialAuthorizer,
    MaxPactAmount,      \* MAX_PACT_AMOUNT
    InitialBalance,     \* tokens of every account at the start
    MaxTime             \* bound of this model: the clock stops here

ASSUME EscrowAssumption ==
    /\ Escrow \notin Accounts /\ ZeroAddress \notin Accounts \cup {Escrow}
    /\ ZeroHash \notin PactIds \cup Terms \cup Receipts
    /\ Requesters \cup Keys \subseteq Accounts /\ Workers \subseteq Accounts \cup {Escrow}
    /\ InitialOwner \in Accounts /\ InitialAuthorizer \in Accounts
    /\ TOKEN \in Tokens
    /\ Amounts \subseteq Nat /\ Fees \subseteq Nat /\ 0 \in Fees
    /\ MaxPactAmount \in Nat \ {0} /\ InitialBalance \in Nat /\ MaxTime \in Nat

Holders   == Accounts \cup {Escrow}
Addresses == Holders \cup {ZeroAddress}

PactStatus == {"NONE", "FUNDED", "RELEASED", "REFUNDED"}
SettlementAction == {"RELEASE", "REFUND"}

Pact == [requester : Addresses, worker : Addresses, amount : Nat,
         refundAfter : Nat, termsHash : Terms \cup {ZeroHash}, status : PactStatus]

\* The zero value every slot of the mapping starts with.
NoPact == [requester |-> ZeroAddress, worker |-> ZeroAddress, amount |-> 0,
           refundAfter |-> 0, termsHash |-> ZeroHash, status |-> "NONE"]

SettlementPermit ==
    [pactId : PactIds, receiptHash : Receipts \cup {ZeroHash}, termsHash : Terms,
     action : SettlementAction, recipient : Holders, token : Tokens, amount : Amounts,
     nonce : Nonces, validAfter : 0..MaxTime, deadline : 0..MaxTime]

\* PactSettled and PactRefundedAfterExpiry; the latter has no receipt, nonce
\* or authorizer.
PactSettled ==
    [event : {"PactSettled"}, pactId : PactIds, receiptHash : Receipts,
     action : SettlementAction, recipient : Addresses, amount : Nat,
     nonce : Nonces, authorizer : Addresses]
PactRefundedAfterExpiry ==
    [event : {"PactRefundedAfterExpiry"}, pactId : PactIds,
     recipient : Addresses, amount : Nat]
Payout == PactSettled \cup PactRefundedAfterExpiry

VARIABLES
    owner, pendingOwner, authorizer,
    pacts,          \* mapping(bytes32 => Pact)
    usedNonces,     \* the pairs <<signer, nonce>> that are used
    lockState,      \* 1: not entered, 2: entered
    payouts,        \* settlement and refund events emitted so far
    balance,        \* TOKEN's balances
    frames,         \* calls waiting for their token call to return, top first
    now             \* block.timestamp

vars == <<owner, pendingOwner, authorizer, pacts, usedNonces, lockState,
          payouts, balance, frames, now>>

\* What a revert restores.
Storage == [owner |-> owner, pendingOwner |-> pendingOwner, authorizer |-> authorizer,
            pacts |-> pacts, usedNonces |-> usedNonces, lockState |-> lockState,
            payouts |-> payouts, balance |-> balance]

-----------------------------------------------------------------------------
(* External: the ERC-20 token.                                              *)

\* transferFrom takes amount from the sender and credits amount - fee.
Moved(from, to, amount, fee) ==
    LET debited == [balance EXCEPT ![from] = @ - amount]
    IN  [debited EXCEPT ![to] = @ + (amount - fee)]

\* Anyone may send tokens to the contract outside its functions, also while
\* one of its calls waits for the token.
Donate(sender, amount) ==
    /\ amount <= balance[sender]
    /\ balance' = Moved(sender, Escrow, amount, 0)
    /\ UNCHANGED <<owner, pendingOwner, authorizer, pacts, usedNonces, lockState,
                   payouts, frames, now>>

-----------------------------------------------------------------------------
Init ==
    /\ owner = InitialOwner
    /\ pendingOwner = ZeroAddress
    /\ authorizer = InitialAuthorizer
    /\ pacts = [p \in PactIds |-> NoPact]
    /\ usedNonces = {}
    /\ lockState = 1
    /\ payouts = {}
    /\ balance = [h \in Holders |-> IF h = Escrow THEN 0 ELSE InitialBalance]
    /\ frames = <<>>
    /\ now = 0

\* Variant: the nonReentrant modifier is missing.
UnlockedEntry == lockState \in {1, 2}

NotEntered == lockState = 1

\* Variants: an already used pact id, or an already closed pact, is accepted.
AnySlot(pactId) == pacts[pactId].status \in PactStatus
EverFunded(pactId) == pacts[pactId].status # "NONE"

SlotEmpty(pactId) == pacts[pactId].status = "NONE"
IsFunded(pactId)  == pacts[pactId].status = "FUNDED"

FundGuard(sender, pactId, worker, amount, refundAfter, termsHash) ==
    /\ pactId # ZeroHash
    /\ worker # ZeroAddress /\ worker # sender
    /\ amount # 0 /\ amount <= MaxPactAmount
    /\ refundAfter > now
    /\ termsHash # ZeroHash
    /\ SlotEmpty(pactId)

\* fundPact up to and including transferFrom.
FundPact(sender, pactId, worker, amount, refundAfter, termsHash, fee) ==
    /\ NotEntered
    /\ FundGuard(sender, pactId, worker, amount, refundAfter, termsHash)
    /\ amount <= balance[sender] /\ fee <= amount
    /\ lockState' = 2
    /\ balance' = Moved(sender, Escrow, amount, fee)
    /\ frames' = <<[call |-> "fundPact", pactId |-> pactId,
                    pact |-> [requester |-> sender, worker |-> worker,
                              amount |-> amount, refundAfter |-> refundAfter,
                              termsHash |-> termsHash, status |-> "FUNDED"],
                    balanceBefore |-> balance[Escrow], saved |-> Storage]>> \o frames
    /\ UNCHANGED <<owner, pendingOwner, authorizer, pacts, usedNonces, payouts, now>>

ReceivedExactly(frame) ==
    balance[Escrow] - frame.balanceBefore = frame.pact.amount

\* The rest of fundPact once the token has returned.
FundPactReturns ==
    /\ frames # <<>> /\ Head(frames).call = "fundPact"
    /\ LET frame == Head(frames)
       IN  /\ ReceivedExactly(frame)
           /\ pacts' = [pacts EXCEPT ![frame.pactId] = frame.pact]
    /\ lockState' = 1
    /\ frames' = Tail(frames)
    /\ UNCHANGED <<owner, pendingOwner, authorizer, usedNonces, payouts, balance, now>>

\* UnsupportedTokenBehavior: the whole transaction is undone.
FundPactReverts ==
    /\ frames # <<>> /\ Head(frames).call = "fundPact"
    /\ ~ReceivedExactly(Head(frames))
    /\ LET saved == Head(frames).saved
       IN  /\ owner' = saved.owner
           /\ pendingOwner' = saved.pendingOwner
           /\ authorizer' = saved.authorizer
           /\ pacts' = saved.pacts
           /\ usedNonces' = saved.usedNonces
           /\ lockState' = saved.lockState
           /\ payouts' = saved.payouts
           /\ balance' = saved.balance
    /\ frames' = Tail(frames)
    /\ UNCHANGED now

Closed(pact, status) == [pact EXCEPT !.status = status]

ExpectedRecipient(pact, action) ==
    IF action = "RELEASE" THEN pact.worker ELSE pact.requester

\* Variants: a permit without a receipt, or with a used nonce, is accepted.
AnyReceipt(permit) == permit \in SettlementPermit
AnyNonce(permit)   == permit.nonce \in Nonces

HasReceipt(permit)  == permit.receiptHash # ZeroHash
NonceUnused(permit) == <<authorizer, permit.nonce>> \notin usedNonces

SettleGuard(permit, signer) ==
    LET pact == pacts[permit.pactId]
    IN  /\ IsFunded(permit.pactId)
        /\ HasReceipt(permit)
        /\ permit.validAfter <= now /\ now <= permit.deadline
        /\ permit.termsHash = pact.termsHash
        /\ permit.recipient = ExpectedRecipient(pact, permit.action)
        /\ permit.token = TOKEN
        /\ permit.amount = pact.amount
        /\ NonceUnused(permit)
        /\ signer = authorizer

\* settle up to and including transfer.  `signer' is the address the
\* signature over exactly these fields recovers to; a malformed signature
\* recovers to none.
Settle(permit, signer) ==
    /\ NotEntered
    /\ SettleGuard(permit, signer)
    /\ LET pact == pacts[permit.pactId]
           recipient == ExpectedRecipient(pact, permit.action)
       IN  /\ pact.amount <= balance[Escrow]
           /\ pacts' = [pacts EXCEPT ![permit.pactId] = Closed(pact,
                            IF permit.action = "RELEASE" THEN "RELEASED" ELSE "REFUNDED")]
           /\ balance' = Moved(Escrow, recipient, pact.amount, 0)
           /\ frames' = <<[call |-> "settle",
                           log |-> [event |-> "PactSettled", pactId |-> permit.pactId,
                                    receiptHash |-> permit.receiptHash,
                                    action |-> permit.action, recipient |-> recipient,
                                    amount |-> pact.amount, nonce |-> permit.nonce,
                                    authorizer |-> authorizer]]>> \o frames
    /\ usedNonces' = usedNonces \cup {<<authorizer, permit.nonce>>}
    /\ lockState' = 2
    /\ UNCHANGED <<owner, pendingOwner, authorizer, payouts, now>>

\* refundExpired up to and including transfer.
RefundExpired(sender, pactId) ==
    /\ NotEntered
    /\ LET pact == pacts[pactId]
       IN  /\ IsFunded(pactId)
           /\ sender = pact.requester
           /\ now >= pact.refundAfter
           /\ pact.amount <= balance[Escrow]
           /\ pacts' = [pacts EXCEPT ![pactId] = Closed(pact, "REFUNDED")]
           /\ balance' = Moved(Escrow, pact.requester, pact.amount, 0)
           /\ frames' = <<[call |-> "refundExpired",
                           log |-> [event |-> "PactRefundedAfterExpiry", pactId |-> pactId,
                                    recipient |-> pact.requester,
                                    amount |-> pact.amount]]>> \o frames
    /\ lockState' = 2
    /\ UNCHANGED <<owner, pendingOwner, authorizer, usedNonces, payouts, now>>

\* Variant: the lock is not released.
PayoutReturnsLocked ==
    /\ frames # <<>> /\ Head(frames).call \in {"settle", "refundExpired"}
    /\ payouts' = payouts \cup {Head(frames).log}
    /\ frames' = Tail(frames)
    /\ UNCHANGED <<owner, pendingOwner, authorizer, pacts, usedNonces, lockState, balance, now>>

\* The rest of settle and refundExpired: the event, then the lock.
PayoutReturns ==
    /\ frames # <<>> /\ Head(frames).call \in {"settle", "refundExpired"}
    /\ payouts' = payouts \cup {Head(frames).log}
    /\ lockState' = 1
    /\ frames' = Tail(frames)
    /\ UNCHANGED <<owner, pendingOwner, authorizer, pacts, usedNonces, balance, now>>

\* The administrative functions do not take the lock.
SetAuthorizer(sender, newAuthorizer) ==
    /\ sender = owner
    /\ newAuthorizer # ZeroAddress
    /\ authorizer' = newAuthorizer
    /\ UNCHANGED <<owner, pendingOwner, pacts, usedNonces, lockState, payouts,
                   balance, frames, now>>

TransferOwnership(sender, newOwner) ==
    /\ sender = owner
    /\ newOwner # ZeroAddress
    /\ pendingOwner' = newOwner
    /\ UNCHANGED <<owner, authorizer, pacts, usedNonces, lockState, payouts,
                   balance, frames, now>>

AcceptOwnership(sender) ==
    /\ sender = pendingOwner
    /\ owner' = sender
    /\ pendingOwner' = ZeroAddress
    /\ UNCHANGED <<authorizer, pacts, usedNonces, lockState, payouts,
                   balance, frames, now>>

\* Every call of one transaction sees the same block.timestamp.
Tick ==
    /\ frames = <<>>
    /\ now < MaxTime
    /\ now' = now + 1
    /\ UNCHANGED <<owner, pendingOwner, authorizer, pacts, usedNonces, lockState,
                   payouts, balance, frames>>

-----------------------------------------------------------------------------
Next ==
    \/ \E sender \in Requesters, pactId \in PactIds, worker \in Workers,
          amount \in Amounts, refundAfter \in 0..MaxTime, termsHash \in Terms, fee \in Fees :
          FundPact(sender, pactId, worker, amount, refundAfter, termsHash, fee)
    \/ FundPactReturns
    \/ FundPactReverts
    \/ \E permit \in SettlementPermit, signer \in Accounts : Settle(permit, signer)
    \/ \E sender \in Accounts, pactId \in PactIds : RefundExpired(sender, pactId)
    \/ PayoutReturns
    \/ \E sender \in Accounts, newAuthorizer \in Keys : SetAuthorizer(sender, newAuthorizer)
    \/ \E sender \in Accounts, newOwner \in Keys : TransferOwnership(sender, newOwner)
    \/ \E sender \in Accounts : AcceptOwnership(sender)
    \/ \E sender \in Requesters, amount \in Amounts : Donate(sender, amount)
    \/ Tick

Spec == Init /\ [][Next]_vars

\* A transaction that was included runs to its end; blocks keep coming,
\* however many transactions each of them holds; a requester who wants the
\* reward back calls refundExpired, and the call is included in some block
\* after the time has come.  The contract cannot make anyone call it: the
\* last conjunct is the requester's interest.
LiveSpec ==
    /\ Spec
    /\ WF_vars(FundPactReturns \/ FundPactReverts \/ PayoutReturns)
    /\ SF_vars(Tick)
    /\ \A sender \in Accounts, pactId \in PactIds : SF_vars(RefundExpired(sender, pactId))

-----------------------------------------------------------------------------
FundFrame == [call : {"fundPact"}, pactId : PactIds, pact : Pact, balanceBefore : Int,
              saved : [owner : Addresses, pendingOwner : Addresses, authorizer : Addresses,
                       pacts : [PactIds -> Pact], usedNonces : SUBSET (Addresses \X Nonces),
                       lockState : {1, 2}, payouts : SUBSET Payout, balance : [Holders -> Int]]]
PayoutFrame == [call : {"settle", "refundExpired"}, log : Payout]

TypeOK ==
    /\ owner \in Addresses /\ pendingOwner \in Addresses /\ authorizer \in Addresses
    /\ pacts \in [PactIds -> Pact]
    /\ usedNonces \in SUBSET (Addresses \X Nonces)
    /\ lockState \in {1, 2}
    /\ payouts \in SUBSET Payout
    /\ balance \in [Holders -> Int]
    /\ frames \in Seq(FundFrame \cup PayoutFrame)
    /\ now \in Nat

\* What one call may rely on although the token calls back before it is
\* done: it holds the lock alone, and while fundPact waits nobody has touched
\* a pact, a nonce or an event, so that its revert undoes its own work only
\* (nonReentrant, 116-133).
CallsConsistent ==
    /\ Len(frames) = lockState - 1
    /\ frames # <<>> /\ Head(frames).call = "fundPact" =>
        LET frame == Head(frames)
        IN  /\ frame.saved.pacts = pacts
            /\ frame.saved.usedNonces = usedNonces
            /\ frame.saved.payouts = payouts
            /\ frame.saved.lockState = 1
            /\ SlotEmpty(frame.pactId)
            /\ frame.pact.status = "FUNDED"
            /\ frame.pact.requester # frame.pact.worker

Funded == {p \in PactIds : pacts[p].status = "FUNDED"}

\* At every moment, also inside a token callback, the contract holds enough
\* tokens for every pact that is still funded (fundPact 164-166, settle
\* 198-200, refundExpired 219-220).
Solvent == balance[Escrow] >= FoldSet(LAMBDA p, sum : pacts[p].amount + sum, 0, Funded)

\* Payouts whose event is not emitted yet.
LogsOf(stack) == {stack[i].log : i \in {j \in DOMAIN stack : stack[j].call # "fundPact"}}
AllPayouts == payouts \cup LogsOf(frames)

\* No two settlements ever consume the same nonce of the same authorizer,
\* whatever rotations of the authorizer lie between them, and every consumed
\* nonce is recorded (settle 192-198).
NonceConsumedOnce ==
    \A a \in AllPayouts : a.event = "PactSettled" =>
        /\ <<a.authorizer, a.nonce>> \in usedNonces
        /\ \A b \in AllPayouts :
            (/\ b.event = "PactSettled"
             /\ a.authorizer = b.authorizer /\ a.nonce = b.nonce) => a = b

Ledger == INSTANCE PactEscrowLedger WITH payouts <- AllPayouts

\* A closed pact has exactly one payout event, of its whole reward, to the
\* party its status names; an open one has none.
PayoutMatchesStatus == Ledger!PayoutMatchesStatus

\* The contract, with its lock, callbacks, reverts, permits and rotations,
\* implements the ledger everyone else relies on.
ImplementsLedger == Ledger!Spec

\* A reward never stays in the contract: as long as the requester uses the
\* right refundExpired gives (213-222), every funded pact is paid out,
\* whatever the owner and the authorizer do or fail to do.
RewardNeverStuck ==
    \A p \in PactIds :
        pacts[p].status = "FUNDED" ~> pacts[p].status \in {"RELEASED", "REFUNDED"}

=============================================================================
