---------------------------- MODULE PaidFraudRun ----------------------------
(***************************************************************************)
(* The paid fraud run (run-paid-fraud-verification.ts): one question asked *)
(* until enough different routes have answered it, each attempt paid for   *)
(* within one ceiling.                                                     *)
(*                                                                         *)
(* Unlike PaidVerificationRun it goes on after an authorized failure only  *)
(* on an error it knows to rule settlement out, treats a reconciliation    *)
(* that throws as UNKNOWN, and ends with the error unless it may retry.    *)
(* The engine reports as cost what was charged; the facilitator settles a  *)
(* signed authorization when it likes until it is known to be unsettled;   *)
(* an append to the ledger may fail with or without its event being kept.  *)
(***************************************************************************)
EXTENDS EngineClient, Naturals, Sequences, FiniteSets

CONSTANTS
    MaxAttempts,
    RequiredDistinctResults,
    MaxAuthorizedUnits,   \* the ceiling, in micro-USDC
    Amounts,              \* prices a challenge may ask
    Routes                \* miner id and name, as normalised

\* What the constants are.
FraudRunAssumption ==
    /\ MaxAttempts \in 1..3
    /\ RequiredDistinctResults \in 1..MaxAttempts
    /\ MaxAuthorizedUnits \in Nat
    /\ Amounts \subseteq Nat \ {0}

VARIABLES
    attemptNumber, phase,
    price,              \* authorizedPayment of this attempt, 0 when there is none
    authorizedUnits, settledUnits,
    seenIdentities,     \* one record each
    trail,              \* the ledger's events of this attempt
    charged,            \* chain: this attempt's authorization has settled
    spentUnits          \* chain: what the run's authorizations have cost

vars == <<attemptNumber, phase, price, authorizedUnits, settledUnits,
          seenIdentities, trail, charged, spentUnits>>

EventTypes == {"STARTED", "PAYMENT_AUTHORIZED", "SUCCEEDED", "DUPLICATE", "FAILED",
               "PAYMENT_RECONCILED"}

\* Every variable has its type.
TypeOK ==
    /\ attemptNumber \in 1..MaxAttempts
    /\ phase \in {"NEXT", "ASKING", "PAYING", "RECONCILING", "COMPLETE", "INCOMPLETE", "THROWN"}
    /\ price \in Nat /\ authorizedUnits \in Nat /\ settledUnits \in Nat /\ spentUnits \in Nat
    /\ seenIdentities \subseteq Routes
    /\ trail \in Seq(EventTypes)
    /\ charged \in BOOLEAN

Init ==
    /\ attemptNumber = 1 /\ phase = "NEXT"
    /\ price = 0 /\ authorizedUnits = 0 /\ settledUnits = 0
    /\ seenIdentities = {} /\ trail = <<>>
    /\ charged = FALSE /\ spentUnits = 0

-----------------------------------------------------------------------------
LastAttempt == attemptNumber = MaxAttempts

Advance ==
    IF LastAttempt
    THEN phase' = "INCOMPLETE" /\ UNCHANGED <<attemptNumber, price, charged>>
    ELSE /\ attemptNumber' = attemptNumber + 1
         /\ phase' = "NEXT" /\ price' = 0 /\ charged' = FALSE

Throw == phase' = "THROWN" /\ UNCHANGED <<attemptNumber, price, charged>>

\* The trails a failed append of event may leave.
FailedAppend(events, event) == {events, Append(events, event)}

StartAttempt ==
    /\ phase = "NEXT"
    /\ \/ trail' = <<"STARTED">> /\ phase' = "ASKING"
       \/ trail' \in FailedAppend(<<>>, "STARTED") /\ phase' = "THROWN"
    /\ UNCHANGED <<attemptNumber, price, authorizedUnits, settledUnits, seenIdentities,
                   charged, spentUnits>>

\* Looks at this payment alone.
FitsAlone(units) == units <= MaxAuthorizedUnits

WithinCeiling(units) == authorizedUnits + units <= MaxAuthorizedUnits

RecordedFirst == {Append(trail, "PAYMENT_AUTHORIZED")}

\* From here the client signs and the payment may settle.
Authorize(units) ==
    /\ phase = "ASKING"
    /\ WithinCeiling(units)
    /\ trail' \in RecordedFirst
    /\ price' = units
    /\ authorizedUnits' = authorizedUnits + units
    /\ phase' = "PAYING"
    /\ UNCHANGED <<attemptNumber, settledUnits, seenIdentities, charged, spentUnits>>

-----------------------------------------------------------------------------
Authorized == price > 0

\* Only an error of RETRYABLE_UNSETTLED_PAYMENT_ERRORS counts.
ExplicitlyUnsettled(error) == Authorized /\ error.unsettled /\ error.recognized

Retryable(error) ==
    IF Authorized THEN ExplicitlyUnsettled(error)
    ELSE error.code \in {"HTTP_ERROR", "TRANSPORT_ERROR"}

\* The catch block, once events are in the ledger.
Caught(error, events) ==
    \/ /\ trail' = Append(events, "FAILED")
       /\ IF Authorized /\ ~ExplicitlyUnsettled(error)
          THEN phase' = "RECONCILING" /\ UNCHANGED <<attemptNumber, price, charged>>
          ELSE IF Retryable(error) /\ ~(LastAttempt /\ seenIdentities' = {})
          THEN Advance
          ELSE Throw
    \/ /\ trail' \in FailedAppend(events, "FAILED")
       /\ Throw

\* The attempt fails before an answer: ask throws, also because the payment was
\* refused.  The engine denies the settlement of an authorization that has not
\* settled yet; what it denies without a recognised reason may settle later.
Fails(error) ==
    /\ phase \in {"ASKING", "PAYING"}
    /\ error.denied => ~charged
    /\ UNCHANGED seenIdentities
    /\ Caught(error, trail)
    /\ UNCHANGED <<authorizedUnits, settledUnits, spentUnits>>

\* The append inside authorizePayment throws: nothing is signed, and the client
\* reports a transport error.
AuthorizationNotRecorded(units) ==
    /\ phase = "ASKING"
    /\ WithinCeiling(units)
    /\ UNCHANGED seenIdentities
    /\ \E events \in FailedAppend(trail, "PAYMENT_AUTHORIZED") :
          Caught(Undiagnosed("TRANSPORT_ERROR"), events)
    /\ UNCHANGED <<authorizedUnits, settledUnits, spentUnits>>

-----------------------------------------------------------------------------
EnoughResults == Cardinality(seenIdentities') >= RequiredDistinctResults

\* The engine answers; a paid question is answered once it is paid.
Respond(route) ==
    LET type == IF route \in seenIdentities THEN "DUPLICATE" ELSE "SUCCEEDED"
    IN  /\ phase = "ASKING" \/ (phase = "PAYING" /\ charged)
        /\ settledUnits' = settledUnits + price
        /\ seenIdentities' = seenIdentities \cup {route}
        /\ \/ /\ trail' = Append(trail, type)
              /\ IF EnoughResults
                 THEN phase' = "COMPLETE" /\ UNCHANGED <<attemptNumber, price, charged>>
                 ELSE Advance
           \/ \E events \in FailedAppend(trail, type) :
                 Caught(Undiagnosed("UNCLASSIFIED"), events)
        /\ UNCHANGED <<authorizedUnits, spentUnits>>

\* An answer that names no miner is counted as settled before it is refused.
RespondAnonymously ==
    /\ phase = "ASKING" \/ (phase = "PAYING" /\ charged)
    /\ settledUnits' = settledUnits + price
    /\ UNCHANGED seenIdentities
    /\ Caught(Undiagnosed("UNCLASSIFIED"), trail)
    /\ UNCHANGED <<authorizedUnits, spentUnits>>

-----------------------------------------------------------------------------
\* Goes on unless the payment has been found settled.
NotSettled(state) == state # "SETTLED"

Expired(state) == state = "EXPIRED_UNSETTLED"

\* The reconciler says SETTLED or EXPIRED_UNSETTLED and is right; UNKNOWN
\* stands also for a reconciler that throws.
Reconciliation == IF charged THEN {"SETTLED", "UNKNOWN"} ELSE {"EXPIRED_UNSETTLED", "UNKNOWN"}

Reconcile(state) ==
    LET retryPermitted == Expired(state) /\ ~LastAttempt
    IN  /\ phase = "RECONCILING"
        /\ state \in Reconciliation
        /\ \/ /\ trail' = Append(trail, "PAYMENT_RECONCILED")
              /\ IF retryPermitted THEN Advance ELSE Throw
           \/ trail' \in FailedAppend(trail, "PAYMENT_RECONCILED") /\ Throw
        /\ UNCHANGED <<authorizedUnits, settledUnits, seenIdentities, spentUnits>>

\* The facilitator submits the signed authorization.
Settles ==
    /\ phase \in {"PAYING", "RECONCILING", "THROWN"}
    /\ Authorized /\ ~charged
    /\ charged' = TRUE
    /\ spentUnits' = spentUnits + price
    /\ UNCHANGED <<attemptNumber, phase, price, authorizedUnits, settledUnits,
                   seenIdentities, trail>>

Ended == phase \in {"COMPLETE", "INCOMPLETE", "THROWN"} /\ UNCHANGED vars

Next ==
    \/ StartAttempt
    \/ \E units \in Amounts : Authorize(units) \/ AuthorizationNotRecorded(units)
    \/ \E error \in AskErrors : Fails(error)
    \/ \E route \in Routes : Respond(route)
    \/ RespondAnonymously
    \/ \E state \in {"SETTLED", "EXPIRED_UNSETTLED", "UNKNOWN"} : Reconcile(state)
    \/ Settles
    \/ Ended

Spec == Init /\ [][Next]_vars

-----------------------------------------------------------------------------
\* What the facilitator has taken and still could take stays within the ceiling,
\* whatever fails (authorizePayment, 162).
SpendWithinCeiling ==
    spentUnits + (IF charged THEN 0 ELSE price) <= MaxAuthorizedUnits

\* The run asks again, or hands over its result, only when it knows what became
\* of every payment so far: the settled cost it reports is then what the chain
\* has charged, even when the ledger fails after an answer or an answer is
\* refused (185-213, 217-245, 259-266).
SettledCostIsKnown ==
    phase \in {"NEXT", "ASKING", "COMPLETE", "INCOMPLETE"} => settledUnits = spentUnits

=============================================================================
