------------------------ MODULE PaidVerificationRun ------------------------
(***************************************************************************)
(* One paid verification run (run-paid-secure-delivery.ts): for each       *)
(* required intent up to MaxAttemptsPerIntent questions are put to the     *)
(* Telegraph engine, each paid for through x402 within one ceiling, every  *)
(* step written to the attempt ledger.                                     *)
(*                                                                         *)
(* The engine, the payment facilitator and the ledger's database are       *)
(* external: the engine's response is any that EngineClient distinguishes, *)
(* with what was charged as its cost; a signed authorization may settle    *)
(* whenever it likes until it expires, at most once; an append may fail    *)
(* with or without its event being kept.                                   *)
(*                                                                         *)
(* A run stays at its intent and attempt from StartAttempt to Advance; the *)
(* phases are the awaits at which it can be found.                         *)
(***************************************************************************)
EXTENDS SettlementPolicy, EngineClient

CONSTANTS
    Intents,               \* the policy pack's intents, in order
    MaxAttemptsPerIntent,
    MaxAuthorizedUnits,    \* the ceiling, in micro-USDC
    Amounts,               \* prices a challenge may ask
    Answers,               \* the miners and verdicts an answer may have
    LedgerFailures         \* whether an append to the ledger may fail

ASSUME RunAssumption ==
    /\ Intents \in Seq(VerificationIntent)
    /\ Len(Intents) >= 1
    /\ \A i, j \in DOMAIN Intents : Intents[i] = Intents[j] => i = j
    /\ MaxAttemptsPerIntent \in Nat \ {0}
    /\ MaxAuthorizedUnits \in Nat
    /\ Amounts \subseteq Nat \ {0}
    /\ Answers \subseteq [minerId : MinerIds, verdict : Verdict, confident : BOOLEAN]
    /\ LedgerFailures \in BOOLEAN

VARIABLES
    intentIndex, attemptNumber,   \* where the two loops are
    phase,
    price,             \* authorizedPayment of this attempt, 0 when there is none
    authorizedUnits, settledUnits,
    records,
    haltedAfterAmbiguousPayment,
    trail,             \* the ledger's events of this attempt
    charged,           \* chain: this attempt's authorization has settled
    spentUnits,        \* chain: what the authorizations the run kept track of have cost
    looseUnits,        \* chain: abandoned authorizations, settled since or not
    heard              \* history: intents with a conclusive answer the ledger accepted

loops == <<intentIndex, attemptNumber, phase>>
chain == <<charged, spentUnits, looseUnits>>
vars == <<loops, price, authorizedUnits, settledUnits, records,
          haltedAfterAmbiguousPayment, trail, chain, heard>>

Intent == Intents[intentIndex]

\* Counts the attempts from zero.
OneTooMany == attemptNumber > MaxAttemptsPerIntent

LastAttempt == attemptNumber = MaxAttemptsPerIntent

Decision == EvaluateSettlement(records, {Intents[i] : i \in DOMAIN Intents})

Init ==
    /\ intentIndex = 1 /\ attemptNumber = 1 /\ phase = "NEXT"
    /\ price = 0 /\ authorizedUnits = 0 /\ settledUnits = 0
    /\ records = <<>> /\ haltedAfterAmbiguousPayment = FALSE /\ trail = <<>>
    /\ charged = FALSE /\ spentUnits = 0 /\ looseUnits = 0 /\ heard = {}

-----------------------------------------------------------------------------
\* The next attempt at the intent, or the next intent, or the end.
Advance(again) ==
    /\ price' = 0 /\ charged' = FALSE
    /\ IF again
       THEN /\ attemptNumber' = attemptNumber + 1
            /\ phase' = "NEXT"
            /\ UNCHANGED intentIndex
       ELSE IF intentIndex < Len(Intents)
       THEN /\ intentIndex' = intentIndex + 1 /\ attemptNumber' = 1
            /\ phase' = "NEXT"
       ELSE phase' = "DONE" /\ UNCHANGED <<intentIndex, attemptNumber>>

Throw == phase' = "THROWN" /\ UNCHANGED <<intentIndex, attemptNumber, price, charged>>

\* The trails a failed append of event may leave.
FailedAppend(events, event) == IF LedgerFailures THEN {events, Append(events, event)} ELSE {}

StartAttempt ==
    /\ phase = "NEXT"
    /\ \/ trail' = <<"STARTED">> /\ phase' = "ASKING"
       \/ trail' \in FailedAppend(<<>>, "STARTED") /\ phase' = "THROWN"
    /\ UNCHANGED <<intentIndex, attemptNumber, price, authorizedUnits, settledUnits,
                   records, haltedAfterAmbiguousPayment, chain, heard>>

\* Looks at this payment alone.
FitsAlone(units) == units <= MaxAuthorizedUnits

WithinCeiling(units) == authorizedUnits + units <= MaxAuthorizedUnits

\* Does not wait for the ledger.
RecordedEventually == IF LedgerFailures THEN {trail, Append(trail, "PAYMENT_AUTHORIZED")}
                                        ELSE {Append(trail, "PAYMENT_AUTHORIZED")}

RecordedFirst == {Append(trail, "PAYMENT_AUTHORIZED")}

\* authorize returns true and the client signs: from here the payment may settle.
Authorize(units) ==
    /\ phase = "ASKING"
    /\ WithinCeiling(units)
    /\ trail' \in RecordedFirst
    /\ price' = units
    /\ authorizedUnits' = authorizedUnits + units
    /\ phase' = "PAYING"
    /\ UNCHANGED <<intentIndex, attemptNumber, settledUnits, records,
                   haltedAfterAmbiguousPayment, chain, heard>>

-----------------------------------------------------------------------------
\* The catch block, once events are in the ledger.  A payment given up on an
\* error that does not rule settlement out is loose.
Failure(error, events) ==
    LET authorized == price > 0
        explicitlyUnsettled == authorized /\ error.unsettled
        retryable == IF authorized THEN explicitlyUnsettled
                     ELSE error.code \in {"HTTP_ERROR", "TRANSPORT_ERROR"}
    IN  \/ /\ trail' = Append(events, "FAILED")
           /\ IF authorized /\ ~explicitlyUnsettled
              THEN /\ phase' = "RECONCILING"
                   /\ UNCHANGED <<intentIndex, attemptNumber, price, charged, looseUnits>>
              ELSE /\ Advance(retryable /\ ~LastAttempt)
                   /\ looseUnits' = IF error.recognized THEN looseUnits ELSE looseUnits + price
        \/ /\ trail' \in FailedAppend(events, "FAILED")
           /\ Throw /\ UNCHANGED looseUnits

\* The attempt fails before an answer: ask throws, also because the payment was
\* refused or its authorization threw, or the answer's normalisation does.  The
\* engine denies the settlement of an authorization that has not settled yet.
Fail(error) ==
    /\ phase \in {"ASKING", "PAYING"}
    /\ error.denied => ~charged
    /\ Failure(error, trail)
    /\ UNCHANGED <<authorizedUnits, settledUnits, records, haltedAfterAmbiguousPayment,
                   spentUnits, heard>>

\* The append inside authorize throws: nothing is signed.
AuthorizationNotRecorded(units) ==
    /\ phase = "ASKING"
    /\ WithinCeiling(units)
    /\ \E events \in FailedAppend(trail, "PAYMENT_AUTHORIZED") :
          Failure(Undiagnosed("TRANSPORT_ERROR"), events)
    /\ UNCHANGED <<authorizedUnits, settledUnits, records, haltedAfterAmbiguousPayment,
                   spentUnits, heard>>

-----------------------------------------------------------------------------
\* Keeps whatever the miner said first.
KeepsFirst(prior, record) == prior

\* A miner's conclusive answer replaces its inconclusive one.
Refreshed(prior, record) ==
    IF IsConclusive(record) /\ ~IsConclusive(prior) THEN record ELSE prior

AsksAgain(record) == ~IsConclusive(record) /\ ~LastAttempt

\* A miner that has not spoken on this intent in this run.
NewMiner(record) ==
    /\ records' = Append(records, record)
    /\ \/ /\ trail' = Append(trail, "SUCCEEDED")
          /\ Advance(AsksAgain(record))
          /\ UNCHANGED looseUnits
       \/ \E events \in FailedAppend(trail, "SUCCEEDED") :
             Failure(Undiagnosed("UNCLASSIFIED"), events)

SeenMiner(i, record) ==
    \/ /\ trail' = Append(trail, "DUPLICATE")
       /\ records' = [records EXCEPT ![i] = Refreshed(records[i], record)]
       /\ Advance(records'[i] = records[i] /\ ~LastAttempt)
       /\ UNCHANGED looseUnits
    \/ /\ \E events \in FailedAppend(trail, "DUPLICATE") :
             Failure(Undiagnosed("UNCLASSIFIED"), events)
       /\ UNCHANGED records

\* No second terminal event follows the answer's.
Accepted(events) == events[Len(events)] \in {"SUCCEEDED", "DUPLICATE"}

\* The engine answers; a paid question is answered once it is paid.
Respond(answer) ==
    LET record == [intent |-> Intent, minerId |-> answer.minerId,
                   verdict |-> answer.verdict, confident |-> answer.confident]
    IN  /\ phase = "ASKING" \/ (phase = "PAYING" /\ charged)
        /\ settledUnits' = settledUnits + price
        /\ IF \E i \in DOMAIN records : SameVoice(records[i], record)
           THEN \E i \in DOMAIN records : SameVoice(records[i], record) /\ SeenMiner(i, record)
           ELSE NewMiner(record)
        /\ heard' = IF IsConclusive(record) /\ Accepted(trail')
                    THEN heard \cup {Intent} ELSE heard
        /\ UNCHANGED <<authorizedUnits, haltedAfterAmbiguousPayment, spentUnits>>

-----------------------------------------------------------------------------
\* A payment that turned out to be settled.
LostPayment == IF charged THEN settledUnits + price ELSE settledUnits

\* The reconciler looked at the chain after the authorization expired.
Reconcile ==
    LET retryPermitted == ~charged /\ ~LastAttempt
    IN  /\ phase = "RECONCILING"
        /\ \/ /\ trail' = Append(trail, "PAYMENT_RECONCILED")
              /\ IF retryPermitted
                 THEN Advance(TRUE) /\ UNCHANGED <<settledUnits, haltedAfterAmbiguousPayment>>
                 ELSE /\ settledUnits' = LostPayment
                      /\ haltedAfterAmbiguousPayment' = TRUE
                      /\ phase' = "DONE" /\ price' = 0 /\ charged' = FALSE
                      /\ UNCHANGED <<intentIndex, attemptNumber>>
           \/ /\ trail' \in FailedAppend(trail, "PAYMENT_RECONCILED")
              /\ Throw /\ UNCHANGED <<settledUnits, haltedAfterAmbiguousPayment>>
        /\ UNCHANGED <<authorizedUnits, records, spentUnits, looseUnits, heard>>

\* The RPC fails or the run's deadline passes while it waits for the expiry.
ReconcileThrows ==
    /\ phase = "RECONCILING"
    /\ Throw
    /\ UNCHANGED <<authorizedUnits, settledUnits, records, haltedAfterAmbiguousPayment,
                   trail, spentUnits, looseUnits, heard>>

-----------------------------------------------------------------------------
\* The facilitator submits the signed authorization.
Settles ==
    /\ phase \in {"PAYING", "RECONCILING", "THROWN"}
    /\ price > 0 /\ ~charged
    /\ charged' = TRUE
    /\ spentUnits' = spentUnits + price
    /\ UNCHANGED <<loops, price, authorizedUnits, settledUnits, records,
                   haltedAfterAmbiguousPayment, trail, looseUnits, heard>>

Ended == phase \in {"DONE", "THROWN"} /\ UNCHANGED vars

Next ==
    \/ StartAttempt
    \/ \E units \in Amounts : Authorize(units)
    \/ \E units \in Amounts : AuthorizationNotRecorded(units)
    \/ \E error \in AskErrors : Fail(error)
    \/ \E answer \in Answers : Respond(answer)
    \/ Reconcile
    \/ ReconcileThrows
    \/ Settles
    \/ Ended

Spec == Init /\ [][Next]_vars

-----------------------------------------------------------------------------
Phases == {"NEXT", "ASKING", "PAYING", "RECONCILING", "DONE", "THROWN"}

EventTypes == {"STARTED", "PAYMENT_AUTHORIZED", "SUCCEEDED", "DUPLICATE", "FAILED",
               "PAYMENT_RECONCILED"}

\* Every variable has its type, and the loops stay within their bounds.
TypeOK ==
    /\ intentIndex \in 1..Len(Intents)
    /\ attemptNumber \in 1..MaxAttemptsPerIntent
    /\ phase \in Phases
    /\ price \in Nat /\ authorizedUnits \in Nat /\ settledUnits \in Nat
    /\ records \in Seq(VerificationSignal)
    /\ haltedAfterAmbiguousPayment \in BOOLEAN
    /\ trail \in Seq(EventTypes)
    /\ charged \in BOOLEAN /\ spentUnits \in Nat /\ looseUnits \in Nat
    /\ heard \subseteq VerificationIntent

\* What the facilitator has taken, and everything it still could take, stays
\* within the ceiling the requester signed, whatever fails and however often the
\* run retries (authorize checks the cumulative amount before each signature).
SpendWithinCeiling ==
    spentUnits + looseUnits + (IF charged THEN 0 ELSE price) <= MaxAuthorizedUnits

\* Until it throws, the run never reports less than the chain has charged, the
\* payment it is just waiting on included, whichever append or answer fails; what
\* it gave up on an unrecognised error is in looseUnits (EXPLICITLY_UNSETTLED,
\* reconciliation, 94 and 151).
CostIsNeverUnderstated ==
    phase # "THROWN" => settledUnits + (IF charged THEN price ELSE 0) >= spentUnits

\* No transfer leaves the payer without its authority in the ledger first.
TransfersAreOnRecord ==
    charged => \E i \in DOMAIN trail : trail[i] = "PAYMENT_AUTHORIZED"

\* Until it throws, every conclusive answer whose SUCCEEDED or DUPLICATE event is
\* the last of its attempt is among the run's records, a miner's late conclusive answer replacing its earlier
\* doubtful one (102-126).
NoAnswerIsLost ==
    phase # "THROWN" =>
        heard \subseteq {records[i].intent : i \in {j \in DOMAIN records : IsConclusive(records[j])}}

\* A miner has one record per intent and an intent one conclusive record: the
\* policy's choice of the first fraud signal leaves nothing out.
RecordsAreIndependent ==
    \A i, j \in DOMAIN records :
        i # j /\ records[i].intent = records[j].intent =>
            /\ Identity[records[i].minerId] # Identity[records[j].minerId]
            /\ ~(IsConclusive(records[i]) /\ IsConclusive(records[j]))

-----------------------------------------------------------------------------
(* What the documents say and the code does not keep *)

\* docs/telegraph-integration.md: after authorization a run retries only on a
\* recognized, definitely unsettled error; so while the first intent is asked
\* again no earlier payment for it may still settle.
RetriesAreRecognized == intentIndex = 1 /\ attemptNumber > 1 => looseUnits = 0

=============================================================================
