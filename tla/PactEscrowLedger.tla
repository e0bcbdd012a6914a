------------------------- MODULE PactEscrowLedger --------------------------
(***************************************************************************)
(* What the escrow promises to everyone who relies on it, without its      *)
(* lock, clock, permits, nonces and token: a pact is funded at most once,  *)
(* under an agreement that never changes, and is paid out at most once, in *)
(* full, to the worker or back to the requester.                           *)
(* ProofPactEscrow implements this specification; PactWorkflow uses its    *)
(* operators as the chain.                                                 *)
(***************************************************************************)
CONSTANTS PactIds

VARIABLES
    pacts,      \* the agreement and the status of every pact
    payouts     \* the PactSettled and PactRefundedAfterExpiry events

ledgerVars == <<pacts, payouts>>

Init ==
    /\ \A p \in PactIds : pacts[p].status = "NONE"
    /\ payouts = {}

\* fundPact: the slot is empty; afterwards it holds the agreement.
Fund(p, pact) ==
    /\ pacts[p].status = "NONE"
    /\ pact.status = "FUNDED"
    /\ pact.requester # pact.worker
    /\ pacts' = [pacts EXCEPT ![p] = pact]
    /\ UNCHANGED payouts

StatusAfter(log) ==
    IF log.event = "PactSettled" /\ log.action = "RELEASE" THEN "RELEASED" ELSE "REFUNDED"

\* settle and refundExpired: the whole reward goes to the one party the
\* action names, and the pact is closed.
PayOut(p, log) ==
    /\ pacts[p].status = "FUNDED"
    /\ \A earlier \in payouts : earlier.pactId # p
    /\ log.pactId = p
    /\ log.amount = pacts[p].amount
    /\ log.recipient = IF StatusAfter(log) = "RELEASED" THEN pacts[p].worker
                                                        ELSE pacts[p].requester
    /\ pacts' = [pacts EXCEPT ![p] = [pacts[p] EXCEPT !.status = StatusAfter(log)]]
    /\ payouts' = payouts \cup {log}

Next ==
    \E p \in PactIds :
        \/ Fund(p, pacts'[p])
        \/ \E log \in payouts' : PayOut(p, log)

Spec == Init /\ [][Next]_ledgerVars

\* The events tell the truth that code outside the chain relies on: a closed
\* pact has exactly one payout, of its whole reward, to the party its status
\* names; an open one has none (ProofPactEscrow.sol 199-210, 219-221).
PayoutMatchesStatus ==
    /\ \A p \in PactIds :
        (pacts[p].status \in {"RELEASED", "REFUNDED"}) <=> (\E log \in payouts : log.pactId = p)
    /\ \A log \in payouts :
        /\ log.pactId \in PactIds
        /\ log.amount = pacts[log.pactId].amount
        /\ pacts[log.pactId].status = StatusAfter(log)
        /\ log.recipient = IF StatusAfter(log) = "RELEASED" THEN pacts[log.pactId].worker
                                                            ELSE pacts[log.pactId].requester
    /\ \A a, b \in payouts : a.pactId = b.pactId => a = b

=============================================================================
