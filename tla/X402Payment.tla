---------------------------- MODULE X402Payment ----------------------------
(***************************************************************************)
(* What becomes of the x402 authorizations of one payer: the challenge     *)
(* gate and the signature (authorized-fetch.ts, payment-policy.ts), the    *)
(* transfer on Base Sepolia, and the reconciliation of a payment whose     *)
(* answer was lost (reconcile-authorized-payment.ts).                      *)
(*                                                                         *)
(* The payments go to one recipient, as the engine's do, and are told      *)
(* apart by amount and time only.  Time is in seconds and common to the    *)
(* server and the chain; a block carries the second it was made in.  The   *)
(* x402 client is external: it puts its own request, whenever the ledger   *)
(* has answered, takes any offer of the challenge it gets and signs it for *)
(* that challenge's timeout from that moment.  An offer to another         *)
(* recipient is, to the reconciler, one of another amount.                 *)
(***************************************************************************)
EXTENDS Integers

CONSTANTS
    Payments,
    Offers,            \* amounts the engine's challenges may offer
    MaxCost,           \* the configured maximum of one payment
    Timeouts,          \* values of maxTimeoutSeconds
    Grace,             \* EXPIRY_GRACE_SECONDS
    Slack,             \* seconds before authorizedAt a transfer still counts
    Concurrent,        \* whether payments of different runs overlap
    MaxTime,           \* bound on the clock
    None

PaymentAssumption ==
    /\ Offers \subseteq Nat \ {0}
    /\ Timeouts \subseteq Nat \ {0}
    /\ MaxCost \in Nat /\ Grace \in Nat /\ Slack \in Nat
    /\ MaxTime \in Nat /\ Concurrent \in BOOLEAN
    /\ None \notin Int \cup {"ANSWERED", "LOST", "SETTLED", "EXPIRED_UNSETTLED"}

VARIABLES
    now,
    block,          \* timestamp of the latest block
    amount,         \* amountUsdc of the authorized payment
    timeout,        \* maxTimeoutSeconds of the authorized payment
    authorizedAt,
    signed,         \* the amount in the signature
    validBefore,    \* the second at which the signature expires
    settledAt,      \* timestamp of the block with the transfer
    outcome         \* what the run holds of the payment

\* What was authorized, and what was signed.
authority == <<amount, timeout, authorizedAt>>
signature == <<signed, validBefore>>
vars == <<now, block, authority, signature, settledAt, outcome>>

Init ==
    /\ now = 0 /\ block = 0
    /\ amount = [p \in Payments |-> None] /\ timeout = [p \in Payments |-> None]
    /\ authorizedAt = [p \in Payments |-> None]
    /\ signed = [p \in Payments |-> None] /\ validBefore = [p \in Payments |-> None]
    /\ settledAt = [p \in Payments |-> None] /\ outcome = [p \in Payments |-> None]

-----------------------------------------------------------------------------
\* A run works on one payment at a time.
NoneOpen == \A p \in Payments : authorizedAt[p] # None => outcome[p] \notin {None, "LOST"}

Cheapest(offers) == {offer \in offers : \A other \in offers : offer <= other}

\* selectBaseSepoliaPayment: the cheapest offer, if the maximum allows it.
Selected(offers) == {offer \in Cheapest(offers) : offer <= MaxCost}

\* The challenge is accepted and the run notes when.
Authorize(p, offers, seconds) ==
    /\ authorizedAt[p] = None
    /\ Concurrent \/ NoneOpen
    /\ \E offer \in Selected(offers) : amount' = [amount EXCEPT ![p] = offer]
    /\ timeout' = [timeout EXCEPT ![p] = seconds]
    /\ authorizedAt' = [authorizedAt EXCEPT ![p] = now]
    /\ UNCHANGED <<now, block, signature, settledAt, outcome>>

\* authorizePayment has returned, and paidFetch has repeated the request: it
\* signs what that challenge offers, however long the two have taken.
Sign(p, offer, seconds) ==
    /\ authorizedAt[p] # None /\ signed[p] = None /\ outcome[p] = None
    /\ signed' = [signed EXCEPT ![p] = offer]
    /\ validBefore' = [validBefore EXCEPT ![p] = now + seconds]
    /\ UNCHANGED <<now, block, authority, settledAt, outcome>>

\* The transfer is valid while the block's time is before validBefore.
Settle(p) ==
    /\ signed[p] # None /\ settledAt[p] = None
    /\ now < validBefore[p]
    /\ settledAt' = [settledAt EXCEPT ![p] = now]
    /\ block' = now
    /\ UNCHANGED <<now, authority, signature, outcome>>

Answer(p) ==
    /\ settledAt[p] # None /\ outcome[p] = None
    /\ outcome' = [outcome EXCEPT ![p] = "ANSWERED"]
    /\ UNCHANGED <<now, block, authority, signature, settledAt>>

\* The attempt ends in a way that leaves the payment open.
Lose(p) ==
    /\ authorizedAt[p] # None /\ outcome[p] = None
    /\ outcome' = [outcome EXCEPT ![p] = "LOST"]
    /\ UNCHANGED <<now, block, authority, signature, settledAt>>

-----------------------------------------------------------------------------
\* Leaves no room between authorizing and signing.
BareExpiry(p) == authorizedAt[p] + timeout[p]

Expiry(p) == authorizedAt[p] + timeout[p] + Grace

\* transferFallsWithinAuthorizationWindow, for transfers of the amount authorized.
Matches(p, q) ==
    /\ settledAt[q] # None
    /\ signed[q] = amount[p]
    /\ settledAt[q] >= authorizedAt[p] - Slack
    /\ settledAt[q] <= Expiry(p)

\* Once a block is past the expiry, the transfers of the payer are searched.
Reconcile(p) ==
    /\ outcome[p] = "LOST"
    /\ block > Expiry(p)
    /\ outcome' = [outcome EXCEPT ![p] =
                      IF \E q \in Payments : Matches(p, q)
                      THEN "SETTLED" ELSE "EXPIRED_UNSETTLED"]
    /\ UNCHANGED <<now, block, authority, signature, settledAt>>

Tick ==
    /\ now < MaxTime
    /\ now' = now + 1
    /\ UNCHANGED <<block, authority, signature, settledAt, outcome>>

NewBlock ==
    /\ block < now
    /\ block' = now
    /\ UNCHANGED <<now, authority, signature, settledAt, outcome>>

\* Time goes on beyond the bound, the model does not.
ClockAtBound == now = MaxTime /\ UNCHANGED vars

Next ==
    \/ \E p \in Payments, offers \in SUBSET Offers, seconds \in Timeouts :
        Authorize(p, offers, seconds)
    \/ \E p \in Payments, offer \in Offers, seconds \in Timeouts : Sign(p, offer, seconds)
    \/ \E p \in Payments : Settle(p)
    \/ \E p \in Payments : Answer(p)
    \/ \E p \in Payments : Lose(p)
    \/ \E p \in Payments : Reconcile(p)
    \/ Tick
    \/ NewBlock
    \/ ClockAtBound

Spec == Init /\ [][Next]_vars

-----------------------------------------------------------------------------
Outcomes == {None, "ANSWERED", "LOST", "SETTLED", "EXPIRED_UNSETTLED"}

\* Every variable has its type.
TypeOK ==
    /\ now \in Nat /\ block \in Nat
    /\ amount \in [Payments -> Offers \cup {None}]
    /\ timeout \in [Payments -> Timeouts \cup {None}]
    /\ authorizedAt \in [Payments -> Nat \cup {None}]
    /\ signed \in [Payments -> Offers \cup {None}]
    /\ validBefore \in [Payments -> Nat \cup {None}]
    /\ settledAt \in [Payments -> Nat \cup {None}]
    /\ outcome \in [Payments -> Outcomes]

\* Declaring a payment EXPIRED_UNSETTLED makes the run pay for the same question
\* again.  When that is wrong, since the transfer was made or still gets made,
\* either another amount was signed than authorized, or the signature outlives
\* the expiry the reconciler reckons with by more than the second a block takes
\* to pass it.  Nothing else makes it wrong: no delay of the ledger, of a block,
\* of the transfer or of the search, and no other payment, equal, overlapping or
\* itself signed late (reconcile-authorized-payment.ts 65-97).
FalseExpiryIsExplained ==
    \A p \in Payments :
        outcome[p] = "EXPIRED_UNSETTLED" /\ settledAt[p] # None =>
            \/ signed[p] # amount[p]
            \/ validBefore[p] > authorizedAt[p] + timeout[p] + Grace + 1

-----------------------------------------------------------------------------
(* What the documents say and the code does not keep *)

\* ARCHITECTURE.md:105: a payment found EXPIRED_UNSETTLED, after which the run may
\* pay for the same question again, has not been taken and never will be.
ExpiredIsUnsettled ==
    \A p \in Payments : outcome[p] = "EXPIRED_UNSETTLED" => settledAt[p] = None

\* docs/telegraph-integration.md:21: the per-request maximum is enforced before
\* anything is signed.
SignedWithinMaximum == \A p \in Payments : signed[p] # None => signed[p] <= MaxCost

=============================================================================
