--------------------- MODULE PaidVerificationRunProofs ---------------------
(***************************************************************************)
(* The paid run for every policy pack, bound on attempts, ceiling, set of  *)
(* prices and set of answers, with and without ledger failures and         *)
(* unrecognized payment errors.                                            *)
(*                                                                         *)
(* SpendWithinCeiling is not inductive: the ceiling bounds what was        *)
(* authorized, and the invariant must say that whatever the facilitator    *)
(* took or can still take was authorized before (Covered), and in which    *)
(* phases an authorization can be open (Phased).  That records are         *)
(* independent and complete rests on the loop asking about each intent     *)
(* once: no record is of an intent still ahead, and the one being asked    *)
(* about has no conclusive record yet.  What the records decide then       *)
(* stands, whenever the run ends, because a conclusive record is the only  *)
(* one for its intent and stays.                                           *)
(***************************************************************************)
EXTENDS PaidVerificationRun, SequenceTheorems, TLAPS

Open == IF charged THEN 0 ELSE price

Covered ==
    /\ spentUnits + looseUnits + Open <= authorizedUnits
    /\ authorizedUnits <= MaxAuthorizedUnits

Phased ==
    /\ phase \in {"NEXT", "ASKING", "DONE"} => price = 0
    /\ phase = "PAYING" => price > 0
    /\ charged => price > 0

Authorized == \E i \in DOMAIN trail : trail[i] = "PAYMENT_AUTHORIZED"

OnRecord == price > 0 => Authorized

IInv == TypeOK /\ Covered /\ Phased /\ OnRecord

-----------------------------------------------------------------------------
\* The errors the run makes up itself say nothing of the payment.
LEMMA LocalErrors ==
    ASSUME NEW code \in {"UNCLASSIFIED", "TRANSPORT_ERROR"}
    PROVE  Undiagnosed(code) \in EngineError /\ ~Undiagnosed(code).unsettled
BY DEF Undiagnosed, EngineError, ErrorCode, TelegraphEngineErrorCode

\* ask reports a payment as not settled only when the engine's header says so: no
\* loss, refusal or broken body is taken for it.
LEMMA AskErrorsAreHonest ==
    ASSUME NEW error \in AskErrors
    PROVE  error \in EngineError /\ (error.unsettled => error.denied)
<1>1. PICK response \in Response : error = ErrorOf(response)
  BY DEF AskErrors
<1>2. CodeOf(response) \in ErrorCode
  <2>1. response.status \in {"LOST", "PAYMENT_REQUIRED", "ERROR", "OK"}
    BY DEF Response
  <2> QED
    BY <2>1 DEF CodeOf, ErrorCode, TelegraphEngineErrorCode
<1>3. Denies(response) \in BOOLEAN
  BY DEF Denies
<1>4. /\ Diagnosis(response).fields.unsettled = Denies(response)
      /\ Diagnosis(response).fields.recognized \in BOOLEAN
  BY DEF Diagnosis, PaymentResponseFields
<1>5. CASE ~Diagnosed(response)
  BY <1>1, <1>2, <1>3, <1>5 DEF ErrorOf, Undiagnosed, EngineError
<1>6. CASE Diagnosed(response)
  <2> DEFINE unsettled == Diagnosis(response).fields.unsettled
             recognized == Diagnosis(response).fields.recognized
  <2>1. error = [code |-> CodeOf(response), unsettled |-> unsettled,
                 recognized |-> recognized, denied |-> Denies(response)]
    BY <1>1, <1>6 DEF ErrorOf, Undiagnosed
  <2> QED
    BY <1>2, <1>3, <1>4, <2>1 DEF EngineError
<1> QED
  BY <1>5, <1>6

-----------------------------------------------------------------------------
\* Appending keeps an authorization where it was.
LEMMA AppendKeepsAuthorized ==
    ASSUME NEW s \in Seq(EventTypes), NEW e \in EventTypes
    PROVE  /\ Append(s, e) \in Seq(EventTypes)
           /\ (\E i \in DOMAIN s : s[i] = "PAYMENT_AUTHORIZED") =>
                 \E i \in DOMAIN Append(s, e) : Append(s, e)[i] = "PAYMENT_AUTHORIZED"
           /\ e = "PAYMENT_AUTHORIZED" =>
                 \E i \in DOMAIN Append(s, e) : Append(s, e)[i] = "PAYMENT_AUTHORIZED"
<1> DEFINE t == Append(s, e)
           n == Len(s) + 1
<1>1. /\ t \in Seq(EventTypes)
      /\ Len(s) \in Nat
      /\ DOMAIN s = 1..Len(s)
      /\ DOMAIN t = 1..n
      /\ t[n] = e
      /\ \A i \in 1..Len(s) : t[i] = s[i]
  BY AppendProperties, LenProperties
<1> HIDE DEF t
<1>2. (\E i \in DOMAIN s : s[i] = "PAYMENT_AUTHORIZED") =>
        \E i \in DOMAIN t : t[i] = "PAYMENT_AUTHORIZED"
  BY <1>1
<1>3. e = "PAYMENT_AUTHORIZED" => \E i \in DOMAIN t : t[i] = "PAYMENT_AUTHORIZED"
  <2>1. n \in DOMAIN t
    BY <1>1
  <2> QED
    BY <1>1, <2>1
<1> QED
  BY <1>1, <1>2, <1>3 DEF t

\* A failed append leaves the trail as it was or with the event.
LEMMA FailedAppendProperties ==
    ASSUME NEW s \in Seq(EventTypes), NEW e \in EventTypes,
           NEW t \in FailedAppend(s, e)
    PROVE  /\ t \in Seq(EventTypes)
           /\ (\E i \in DOMAIN s : s[i] = "PAYMENT_AUTHORIZED") =>
                 \E i \in DOMAIN t : t[i] = "PAYMENT_AUTHORIZED"
<1>1. t = s \/ t = Append(s, e)
  BY DEF FailedAppend
<1>2. CASE t = s
  BY <1>2
<1>3. CASE t = Append(s, e)
  BY <1>3, AppendKeepsAuthorized
<1> QED
  BY <1>1, <1>2, <1>3

-----------------------------------------------------------------------------
\* Where Advance leads, and that it closes the attempt's authorization.
LEMMA AdvanceProperties ==
    ASSUME TypeOK, NEW again \in BOOLEAN, Advance(again), again => ~LastAttempt
    PROVE  /\ intentIndex' \in 1..Len(Intents)
           /\ attemptNumber' \in 1..MaxAttemptsPerIntent
           /\ phase' \in {"NEXT", "DONE"}
           /\ price' = 0 /\ charged' = FALSE
<1>1. Len(Intents) \in Nat
  BY RunAssumption, LenProperties
<1>2. /\ MaxAttemptsPerIntent \in Nat \ {0}
      /\ intentIndex \in 1..Len(Intents)
      /\ attemptNumber \in 1..MaxAttemptsPerIntent
  BY RunAssumption DEF TypeOK
<1>3. CASE again
  BY <1>1, <1>2, <1>3 DEF Advance, LastAttempt
<1>4. CASE ~again
  BY <1>1, <1>2, <1>4 DEF Advance
<1> QED
  BY <1>3, <1>4

\* What the catch block leaves of the attempt: it closes the authorization, adding
\* it to the loose ones at most, or leaves it open.
LEMMA FailureProperties ==
    ASSUME IInv, NEW error \in EngineError,
           NEW events \in Seq(EventTypes), Failure(error, events),
           phase \in {"ASKING", "PAYING"}, error.unsettled => ~charged,
           price > 0 => \E i \in DOMAIN events : events[i] = "PAYMENT_AUTHORIZED"
    PROVE  /\ intentIndex' \in 1..Len(Intents)
           /\ attemptNumber' \in 1..MaxAttemptsPerIntent
           /\ phase' \in Phases
           /\ trail' \in Seq(EventTypes)
           /\ OnRecord'
           /\ Phased'
           /\ price' \in Nat /\ charged' \in BOOLEAN
           /\ looseUnits' \in Nat
           /\ looseUnits' + Open' <= looseUnits + Open
<1>1. "FAILED" \in EventTypes
  BY DEF EventTypes
<1>2. /\ price \in Nat /\ looseUnits \in Nat /\ charged \in BOOLEAN
      /\ intentIndex \in 1..Len(Intents)
      /\ attemptNumber \in 1..MaxAttemptsPerIntent
      /\ (charged => price > 0)
  BY DEF IInv, TypeOK, Phased
<1> DEFINE authorized == price > 0
           explicitlyUnsettled == authorized /\ error.unsettled
           retryable == IF authorized THEN explicitlyUnsettled
                        ELSE error.code \in {"HTTP_ERROR", "TRANSPORT_ERROR"}
<1>3. CASE /\ trail' = Append(events, "FAILED")
           /\ authorized /\ ~explicitlyUnsettled
           /\ phase' = "RECONCILING"
           /\ UNCHANGED <<intentIndex, attemptNumber, price, charged, looseUnits>>
  <2>1. trail' \in Seq(EventTypes) /\ OnRecord'
    BY <1>1, <1>3, AppendKeepsAuthorized DEF OnRecord, Authorized
  <2>2. phase' \in Phases /\ Phased'
    BY <1>2, <1>3 DEF Phases, Phased
  <2>3. looseUnits' + Open' <= looseUnits + Open
    BY <1>2, <1>3 DEF Open
  <2> QED
    BY <1>2, <1>3, <2>1, <2>2, <2>3
<1>4. CASE /\ trail' = Append(events, "FAILED")
           /\ ~(authorized /\ ~explicitlyUnsettled)
           /\ Advance(retryable /\ ~LastAttempt)
           /\ looseUnits' = IF error.recognized THEN looseUnits ELSE looseUnits + price
  <2>1. /\ intentIndex' \in 1..Len(Intents)
        /\ attemptNumber' \in 1..MaxAttemptsPerIntent
        /\ phase' \in {"NEXT", "DONE"}
        /\ price' = 0 /\ charged' = FALSE
    BY <1>4, AdvanceProperties DEF IInv
  <2>2. trail' \in Seq(EventTypes)
    BY <1>1, <1>4, AppendKeepsAuthorized
  <2>3. OnRecord' /\ Phased' /\ phase' \in Phases
    BY <2>1 DEF OnRecord, Phased, Phases
  <2>4. ~charged
    BY <1>2, <1>4
  <2>5. looseUnits' \in Nat /\ looseUnits' + Open' <= looseUnits + Open
    BY <1>2, <1>4, <2>1, <2>4 DEF Open
  <2> QED
    BY <2>1, <2>2, <2>3, <2>5
<1>5. CASE /\ trail' \in FailedAppend(events, "FAILED")
           /\ Throw /\ UNCHANGED looseUnits
  <2>1. trail' \in Seq(EventTypes) /\ OnRecord'
    BY <1>1, <1>5, FailedAppendProperties DEF OnRecord, Authorized, Throw
  <2>2. phase' \in Phases /\ Phased'
    BY <1>2, <1>5 DEF Phases, Phased, Throw
  <2>3. looseUnits' + Open' <= looseUnits + Open
    BY <1>2, <1>5 DEF Open, Throw
  <2> QED
    BY <1>2, <1>5, <2>1, <2>2, <2>3 DEF Throw
<1> QED
  BY <1>3, <1>4, <1>5 DEF Failure

-----------------------------------------------------------------------------
\* The initial state.
LEMMA InitEstablishesIInv == Init => IInv
<1> SUFFICES ASSUME Init PROVE IInv
  OBVIOUS
<1>1. 1 \in 1..Len(Intents) /\ 1 \in 1..MaxAttemptsPerIntent
  BY RunAssumption, LenProperties
<1>2. TypeOK
  <2>1. <<>> \in Seq(VerificationSignal) /\ <<>> \in Seq(EventTypes)
    OBVIOUS
  <2> QED
    BY <1>1, <2>1 DEF Init, TypeOK, Phases
<1>3. Covered /\ Phased /\ OnRecord
  BY RunAssumption DEF Init, Covered, Open, Phased, OnRecord
<1> QED
  BY <1>2, <1>3 DEF IInv

\* Arithmetic of the ceiling.
LEMMA SumsShrink ==
    ASSUME NEW spent \in Nat, NEW loose \in Nat, NEW open \in Nat,
           NEW newLoose \in Nat, NEW newOpen \in Nat, NEW bound \in Nat,
           newLoose + newOpen <= loose + open,
           spent + loose + open <= bound
    PROVE  spent + newLoose + newOpen <= bound
OBVIOUS

\* An action that runs the catch block, when it charges and authorizes nothing.
LEMMA FailureStep ==
    ASSUME IInv, NEW error \in EngineError,
           NEW events \in Seq(EventTypes), Failure(error, events),
           phase \in {"ASKING", "PAYING"}, error.unsettled => ~charged,
           price > 0 => \E i \in DOMAIN events : events[i] = "PAYMENT_AUTHORIZED",
           UNCHANGED <<authorizedUnits, haltedAfterAmbiguousPayment, spentUnits>>,
           settledUnits' \in Nat, records' \in Seq(VerificationSignal),
           heard' \subseteq VerificationIntent
    PROVE  IInv'
<1>1. /\ intentIndex' \in 1..Len(Intents)
      /\ attemptNumber' \in 1..MaxAttemptsPerIntent
      /\ phase' \in Phases
      /\ trail' \in Seq(EventTypes)
      /\ OnRecord'
      /\ Phased'
      /\ price' \in Nat /\ charged' \in BOOLEAN
      /\ looseUnits' \in Nat
      /\ looseUnits' + Open' <= looseUnits + Open
  BY FailureProperties
<1>2. TypeOK'
  BY <1>1 DEF IInv, TypeOK
<1>3. /\ Open \in Nat /\ Open' \in Nat
      /\ spentUnits \in Nat /\ looseUnits \in Nat /\ authorizedUnits \in Nat
      /\ spentUnits' = spentUnits /\ authorizedUnits' = authorizedUnits
  BY <1>1 DEF IInv, TypeOK, Open
<1>4. Covered'
  <2>1. spentUnits' + looseUnits' + Open' <= authorizedUnits'
    <3>1. spentUnits + looseUnits + Open <= authorizedUnits
      BY DEF IInv, Covered
    <3>2. looseUnits' \in Nat /\ looseUnits' + Open' <= looseUnits + Open
      BY <1>1
    <3>3. spentUnits + looseUnits' + Open' <= authorizedUnits
      BY <1>3, <3>1, <3>2, SumsShrink
    <3> QED
      BY <1>3, <3>3
  <2>2. authorizedUnits' <= MaxAuthorizedUnits
    BY <1>3 DEF IInv, Covered
  <2> QED
    BY <2>1, <2>2 DEF Covered
<1> QED
  BY <1>1, <1>2, <1>4 DEF IInv

\* An answered question: the price was charged, or nothing was asked for.
LEMMA RespondStep ==
    ASSUME IInv, NEW answer \in Answers, Respond(answer)
    PROVE  IInv'
<1> DEFINE record == [intent |-> Intent, minerId |-> answer.minerId,
                      verdict |-> answer.verdict, confident |-> answer.confident]
<1>1. /\ phase \in {"ASKING", "PAYING"}
      /\ Open = 0
      /\ settledUnits' = settledUnits + price
      /\ heard' = IF IsConclusive(record) /\ Accepted(trail')
                  THEN heard \cup {Intent} ELSE heard
      /\ UNCHANGED <<authorizedUnits, haltedAfterAmbiguousPayment, spentUnits>>
  BY DEF Respond, IInv, Phased, Open
<1>2. Intent \in VerificationIntent
  BY RunAssumption, ElementOfSeq DEF IInv, TypeOK, Intent
<1>3. record \in VerificationSignal
  BY <1>2, RunAssumption DEF VerificationSignal
<1>4. /\ settledUnits' \in Nat
      /\ heard' \subseteq VerificationIntent
      /\ records \in Seq(VerificationSignal)
      /\ trail \in Seq(EventTypes)
      /\ price \in Nat /\ looseUnits \in Nat /\ spentUnits \in Nat
  BY <1>1, <1>2 DEF IInv, TypeOK
<1>5. {"SUCCEEDED", "DUPLICATE", "FAILED"} \subseteq EventTypes
  BY DEF EventTypes
<1>6. Undiagnosed("UNCLASSIFIED") \in EngineError /\ ~Undiagnosed("UNCLASSIFIED").unsettled
  BY LocalErrors
<1>7. price > 0 => Authorized
  BY DEF IInv, OnRecord
<1>8. ASSUME NEW event \in {"SUCCEEDED", "DUPLICATE"}, records' \in Seq(VerificationSignal),
             NEW again \in BOOLEAN, again => ~LastAttempt,
             trail' = Append(trail, event), Advance(again), UNCHANGED looseUnits
      PROVE  IInv'
  <2>1. /\ intentIndex' \in 1..Len(Intents)
        /\ attemptNumber' \in 1..MaxAttemptsPerIntent
        /\ phase' \in {"NEXT", "DONE"}
        /\ price' = 0 /\ charged' = FALSE
    BY <1>8, AdvanceProperties DEF IInv
  <2>2. trail' \in Seq(EventTypes)
    BY <1>4, <1>5, <1>8, AppendKeepsAuthorized
  <2>3. TypeOK'
    BY <1>1, <1>4, <1>8, <2>1, <2>2 DEF IInv, TypeOK, Phases
  <2>4. Covered'
    BY <1>1, <1>4, <1>8, <2>1 DEF IInv, Covered, Open
  <2>5. Phased' /\ OnRecord'
    BY <2>1 DEF Phased, OnRecord
  <2> QED
    BY <2>3, <2>4, <2>5 DEF IInv
<1>9. ASSUME NEW event \in {"SUCCEEDED", "DUPLICATE"}, records' \in Seq(VerificationSignal),
             NEW events \in FailedAppend(trail, event),
             Failure(Undiagnosed("UNCLASSIFIED"), events)
      PROVE  IInv'
  <2>1. /\ events \in Seq(EventTypes)
        /\ price > 0 => \E i \in DOMAIN events : events[i] = "PAYMENT_AUTHORIZED"
    BY <1>4, <1>5, <1>7, <1>9, FailedAppendProperties DEF Authorized
  <2> QED
    BY <1>1, <1>4, <1>6, <1>9, <2>1, FailureStep
<1>10. CASE NewMiner(record)
  <2>1. records' \in Seq(VerificationSignal)
    BY <1>3, <1>4, <1>10, AppendProperties DEF NewMiner
  <2>2. CASE /\ trail' = Append(trail, "SUCCEEDED")
             /\ Advance(AsksAgain(record))
             /\ UNCHANGED looseUnits
    BY <1>8, <2>1, <2>2 DEF AsksAgain
  <2>3. CASE \E events \in FailedAppend(trail, "SUCCEEDED") :
               Failure(Undiagnosed("UNCLASSIFIED"), events)
    BY <1>9, <2>1, <2>3
  <2> QED
    BY <1>10, <2>2, <2>3 DEF NewMiner
<1>11. ASSUME NEW i \in DOMAIN records, SeenMiner(i, record) PROVE IInv'
  <2>1. CASE /\ trail' = Append(trail, "DUPLICATE")
             /\ records' = [records EXCEPT ![i] = Refreshed(records[i], record)]
             /\ Advance(records'[i] = records[i] /\ ~LastAttempt)
             /\ UNCHANGED looseUnits
    <3>1. i \in 1..Len(records) /\ records[i] \in VerificationSignal
      BY <1>4, <1>11, LenProperties, ElementOfSeq
    <3>2. Refreshed(records[i], record) \in VerificationSignal
      BY <1>3, <3>1 DEF Refreshed
    <3>3. records' \in Seq(VerificationSignal)
      BY <1>4, <2>1, <3>1, <3>2, ExceptSeq
    <3> QED
      BY <1>8, <2>1, <3>3
  <2>2. CASE /\ \E events \in FailedAppend(trail, "DUPLICATE") :
                   Failure(Undiagnosed("UNCLASSIFIED"), events)
             /\ UNCHANGED records
    BY <1>4, <1>9, <2>2
  <2> QED
    BY <1>11, <2>1, <2>2 DEF SeenMiner
<1> QED
  BY <1>10, <1>11 DEF Respond

\* Every step preserves the invariant.
LEMMA NextKeepsIInv == IInv /\ [Next]_vars => IInv'
<1> SUFFICES ASSUME IInv, [Next]_vars PROVE IInv'
  OBVIOUS
<1>1. /\ TypeOK /\ Covered /\ Phased /\ OnRecord
      /\ trail \in Seq(EventTypes)
      /\ settledUnits \in Nat /\ records \in Seq(VerificationSignal)
      /\ heard \subseteq VerificationIntent
      /\ price \in Nat /\ spentUnits \in Nat /\ looseUnits \in Nat
      /\ authorizedUnits \in Nat /\ charged \in BOOLEAN
  BY DEF IInv, TypeOK
<1>2. EventTypes = {"STARTED", "PAYMENT_AUTHORIZED", "SUCCEEDED", "DUPLICATE", "FAILED",
                    "PAYMENT_RECONCILED"}
  BY DEF EventTypes
<1>3. CASE StartAttempt
  <2>1. <<>> \in Seq(EventTypes) /\ <<"STARTED">> \in Seq(EventTypes)
    BY <1>2
  <2>2. trail' \in Seq(EventTypes)
    BY <1>2, <1>3, <2>1, FailedAppendProperties DEF StartAttempt
  <2>3. /\ phase = "NEXT"
        /\ phase' \in {"ASKING", "THROWN"}
        /\ UNCHANGED <<intentIndex, attemptNumber, price, authorizedUnits, settledUnits,
                       records, haltedAfterAmbiguousPayment, charged, spentUnits,
                       looseUnits, heard>>
    BY <1>3 DEF StartAttempt, chain
  <2>4. TypeOK'
    BY <1>1, <2>2, <2>3 DEF TypeOK, Phases
  <2>5. Covered'
    BY <1>1, <2>3 DEF Covered, Open
  <2>6. Phased' /\ OnRecord'
    BY <1>1, <2>3 DEF Phased, OnRecord
  <2> QED
    BY <2>4, <2>5, <2>6 DEF IInv
<1>4. ASSUME NEW units \in Amounts, Authorize(units) PROVE IInv'
  <2>1. units \in Nat \ {0} /\ MaxAuthorizedUnits \in Nat
    BY RunAssumption
  <2>2. /\ phase = "ASKING" /\ phase' = "PAYING"
        /\ authorizedUnits + units <= MaxAuthorizedUnits
        /\ trail' = Append(trail, "PAYMENT_AUTHORIZED")
        /\ price' = units /\ authorizedUnits' = authorizedUnits + units
        /\ UNCHANGED <<intentIndex, attemptNumber, settledUnits, records,
                       haltedAfterAmbiguousPayment, charged, spentUnits, looseUnits, heard>>
    BY <1>4 DEF Authorize, WithinCeiling, RecordedFirst, chain
  <2>3. trail' \in Seq(EventTypes) /\ Authorized'
    BY <1>1, <1>2, <2>2, AppendKeepsAuthorized DEF Authorized
  <2>4. price = 0 /\ ~charged
    BY <1>1, <2>2 DEF Phased
  <2>5. TypeOK'
    BY <1>1, <2>1, <2>2, <2>3 DEF TypeOK, Phases
  <2>6. Covered'
    BY <1>1, <2>1, <2>2, <2>4 DEF Covered, Open
  <2>7. Phased' /\ OnRecord'
    BY <1>1, <2>1, <2>2, <2>3, <2>4 DEF Phased, OnRecord
  <2> QED
    BY <2>5, <2>6, <2>7 DEF IInv
<1>5. ASSUME NEW units \in Amounts, AuthorizationNotRecorded(units) PROVE IInv'
  <2>1. /\ phase = "ASKING"
        /\ UNCHANGED <<authorizedUnits, settledUnits, records,
                       haltedAfterAmbiguousPayment, spentUnits, heard>>
    BY <1>5 DEF AuthorizationNotRecorded
  <2>2. PICK events \in FailedAppend(trail, "PAYMENT_AUTHORIZED") :
          Failure(Undiagnosed("TRANSPORT_ERROR"), events)
    BY <1>5 DEF AuthorizationNotRecorded
  <2>3. events \in Seq(EventTypes)
    BY <1>1, <1>2, <2>2, FailedAppendProperties
  <2>4. price = 0
    BY <1>1, <2>1 DEF Phased
  <2>5. Undiagnosed("TRANSPORT_ERROR") \in EngineError /\ ~Undiagnosed("TRANSPORT_ERROR").unsettled
    BY LocalErrors
  <2>6. price > 0 => \E i \in DOMAIN events : events[i] = "PAYMENT_AUTHORIZED"
    BY <2>4
  <2>7. /\ phase \in {"ASKING", "PAYING"}
        /\ settledUnits' \in Nat /\ records' \in Seq(VerificationSignal)
        /\ heard' \subseteq VerificationIntent
        /\ FALSE \in BOOLEAN
    BY <1>1, <2>1
  <2> QED
    BY <1>1, <2>1, <2>2, <2>3, <2>5, <2>6, <2>7, FailureStep
<1>6. ASSUME NEW error \in AskErrors, Fail(error)
      PROVE  IInv'
  <2>1. /\ phase \in {"ASKING", "PAYING"}
        /\ error.denied => ~charged
        /\ Failure(error, trail)
        /\ UNCHANGED <<authorizedUnits, settledUnits, records,
                       haltedAfterAmbiguousPayment, spentUnits, heard>>
    BY <1>6 DEF Fail
  <2>2. price > 0 => \E i \in DOMAIN trail : trail[i] = "PAYMENT_AUTHORIZED"
    BY <1>1 DEF OnRecord, Authorized
  <2>3. error \in EngineError /\ (error.unsettled => ~charged)
    BY <1>6, <2>1, AskErrorsAreHonest
  <2> QED
    BY <1>1, <2>1, <2>2, <2>3, FailureStep
<1>7. ASSUME NEW answer \in Answers, Respond(answer) PROVE IInv'
  BY <1>7, RespondStep
<1>8. CASE Reconcile
  <2>1. /\ phase = "RECONCILING"
        /\ UNCHANGED <<authorizedUnits, records, spentUnits, looseUnits, heard>>
    BY <1>8 DEF Reconcile
  <2>2. CASE /\ trail' = Append(trail, "PAYMENT_RECONCILED")
             /\ ~charged /\ ~LastAttempt
             /\ Advance(TRUE)
             /\ UNCHANGED <<settledUnits, haltedAfterAmbiguousPayment>>
    <3>1. /\ intentIndex' \in 1..Len(Intents)
          /\ attemptNumber' \in 1..MaxAttemptsPerIntent
          /\ phase' \in {"NEXT", "DONE"}
          /\ price' = 0 /\ charged' = FALSE
      BY <1>1, <2>2, AdvanceProperties
    <3>2. trail' \in Seq(EventTypes)
      BY <1>1, <1>2, <2>2, AppendKeepsAuthorized
    <3>3. TypeOK'
      BY <1>1, <2>1, <2>2, <3>1, <3>2 DEF TypeOK, Phases
    <3>4. Covered'
      BY <1>1, <2>1, <3>1 DEF Covered, Open
    <3>5. Phased' /\ OnRecord'
      BY <3>1 DEF Phased, OnRecord
    <3> QED
      BY <3>3, <3>4, <3>5 DEF IInv
  <2>3. CASE /\ trail' = Append(trail, "PAYMENT_RECONCILED")
             /\ settledUnits' = LostPayment
             /\ haltedAfterAmbiguousPayment' = TRUE
             /\ phase' = "DONE" /\ price' = 0 /\ charged' = FALSE
             /\ UNCHANGED <<intentIndex, attemptNumber>>
    <3>1. trail' \in Seq(EventTypes) /\ settledUnits' \in Nat
      BY <1>1, <1>2, <2>3, AppendKeepsAuthorized DEF LostPayment
    <3>2. TypeOK'
      BY <1>1, <2>1, <2>3, <3>1 DEF TypeOK, Phases
    <3>3. Covered'
      BY <1>1, <2>1, <2>3 DEF Covered, Open
    <3>4. Phased' /\ OnRecord'
      BY <2>3 DEF Phased, OnRecord
    <3> QED
      BY <3>2, <3>3, <3>4 DEF IInv
  <2>4. CASE /\ trail' \in FailedAppend(trail, "PAYMENT_RECONCILED")
             /\ Throw /\ UNCHANGED <<settledUnits, haltedAfterAmbiguousPayment>>
    <3>1. trail' \in Seq(EventTypes) /\ (Authorized => Authorized')
      BY <1>1, <1>2, <2>4, FailedAppendProperties DEF Authorized
    <3>2. TypeOK'
      BY <1>1, <2>1, <2>4, <3>1 DEF TypeOK, Phases, Throw
    <3>3. Covered'
      BY <1>1, <2>1, <2>4 DEF Covered, Open, Throw
    <3>4. Phased' /\ OnRecord'
      BY <1>1, <2>4, <3>1 DEF Phased, OnRecord, Throw
    <3> QED
      BY <3>2, <3>3, <3>4 DEF IInv
  <2> QED
    BY <1>8, <2>2, <2>3, <2>4 DEF Reconcile
<1>9. CASE ReconcileThrows
  <2>1. /\ phase' = "THROWN"
        /\ UNCHANGED <<intentIndex, attemptNumber, price, authorizedUnits, settledUnits,
                       records, haltedAfterAmbiguousPayment, trail, charged, spentUnits,
                       looseUnits, heard>>
    BY <1>9 DEF ReconcileThrows, Throw
  <2>2. TypeOK'
    BY <1>1, <2>1 DEF TypeOK, Phases
  <2>3. Covered'
    BY <1>1, <2>1 DEF Covered, Open
  <2>4. Phased' /\ OnRecord'
    BY <1>1, <2>1 DEF Phased, OnRecord, Authorized
  <2> QED
    BY <2>2, <2>3, <2>4 DEF IInv
<1>10. CASE Settles
  <2>1. /\ price > 0 /\ ~charged /\ charged' = TRUE
        /\ spentUnits' = spentUnits + price
        /\ UNCHANGED <<intentIndex, attemptNumber, phase, price, authorizedUnits,
                       settledUnits, records, haltedAfterAmbiguousPayment, trail,
                       looseUnits, heard>>
    BY <1>10 DEF Settles, loops
  <2>2. TypeOK'
    BY <1>1, <2>1 DEF TypeOK
  <2>3. Covered'
    BY <1>1, <2>1 DEF Covered, Open
  <2>4. Phased' /\ OnRecord'
    BY <1>1, <2>1 DEF Phased, OnRecord, Authorized
  <2> QED
    BY <2>2, <2>3, <2>4 DEF IInv
<1>11. CASE UNCHANGED vars
  <2>1. UNCHANGED <<intentIndex, attemptNumber, phase, price, authorizedUnits,
                    settledUnits, records, haltedAfterAmbiguousPayment, trail,
                    charged, spentUnits, looseUnits, heard>>
    BY <1>11 DEF vars, loops, chain
  <2>2. TypeOK'
    BY <1>1, <2>1 DEF TypeOK
  <2>3. Covered'
    BY <1>1, <2>1 DEF Covered, Open
  <2>4. Phased' /\ OnRecord'
    BY <1>1, <2>1 DEF Phased, OnRecord, Authorized
  <2> QED
    BY <2>2, <2>3, <2>4 DEF IInv
<1> QED
  BY <1>3, <1>4, <1>5, <1>6, <1>7, <1>8, <1>9, <1>10, <1>11 DEF Next, Ended

\* The invariant holds in every state of a run.
THEOREM Invariance == Spec => []IInv
BY InitEstablishesIInv, NextKeepsIInv, PTL DEF Spec

\* Every variable has its type, and the loops stay within their bounds.
THEOREM TypeCorrect == Spec => []TypeOK
<1>1. IInv => TypeOK
  BY DEF IInv
<1> QED
  BY <1>1, Invariance, PTL

\* Nothing the facilitator took or can still take exceeds the signed ceiling.
THEOREM CeilingIsKept == Spec => []SpendWithinCeiling
<1>1. IInv => SpendWithinCeiling
  BY RunAssumption DEF IInv, TypeOK, Covered, Open, SpendWithinCeiling
<1> QED
  BY <1>1, Invariance, PTL

-----------------------------------------------------------------------------
(* The reported cost *)

\* The payment the run waits on and that has settled.
Waiting == IF charged THEN price ELSE 0

\* Arithmetic of the report.
LEMMA ReportGrows ==
    ASSUME NEW settled \in Nat, NEW newSettled \in Nat, NEW waiting \in Nat,
           NEW spent \in Nat, settled + waiting >= spent, newSettled >= settled
    PROVE  newSettled + waiting >= spent
OBVIOUS

\* The catch block leaves an open payment open or gives up one that has not settled.
LEMMA FailureKeepsCost ==
    ASSUME IInv, CostIsNeverUnderstated,
           NEW error \in EngineError, NEW events,
           Failure(error, events), error.unsettled => ~charged,
           phase # "THROWN", UNCHANGED spentUnits,
           settledUnits' \in Nat, settledUnits' >= settledUnits
    PROVE  CostIsNeverUnderstated'
<1>1. /\ price \in Nat /\ charged \in BOOLEAN /\ settledUnits \in Nat /\ spentUnits \in Nat
      /\ charged => price > 0
      /\ Waiting \in Nat /\ settledUnits + Waiting >= spentUnits
      /\ settledUnits' \in Nat /\ settledUnits' >= settledUnits /\ spentUnits' = spentUnits
  BY DEF IInv, TypeOK, Phased, CostIsNeverUnderstated, Waiting
<1>2. CASE phase' = "THROWN"
  BY <1>2 DEF CostIsNeverUnderstated
<1>3. CASE UNCHANGED <<price, charged>>
  <2>1. Waiting' = Waiting
    BY <1>3 DEF Waiting
  <2>2. settledUnits' + Waiting >= spentUnits
    BY <1>1, ReportGrows
  <2> QED
    BY <1>1, <2>1, <2>2 DEF CostIsNeverUnderstated, Waiting
<1>4. CASE Advance((IF price > 0 THEN price > 0 /\ error.unsettled
                   ELSE error.code \in {"HTTP_ERROR", "TRANSPORT_ERROR"}) /\ ~LastAttempt)
           /\ ~(price > 0 /\ ~(price > 0 /\ error.unsettled))
  <2>1. ~charged
    BY <1>1, <1>4
  <2>2. Waiting = 0 /\ Waiting' = 0
    BY <1>4, <2>1 DEF Advance, Waiting
  <2>3. settledUnits' + 0 >= spentUnits
    BY <1>1, <2>2, ReportGrows
  <2> QED
    BY <1>1, <2>2, <2>3 DEF CostIsNeverUnderstated, Waiting
<1> QED
  BY <1>2, <1>3, <1>4 DEF Failure, Throw

\* An answer moves its price from the open payment to the settled cost.
LEMMA RespondKeepsCost ==
    ASSUME IInv, CostIsNeverUnderstated, NEW answer \in Answers, Respond(answer)
    PROVE  CostIsNeverUnderstated'
<1>1. /\ price \in Nat /\ charged \in BOOLEAN /\ settledUnits \in Nat /\ spentUnits \in Nat
      /\ phase \in {"ASKING", "PAYING"}
      /\ charged => price > 0
      /\ settledUnits' = settledUnits + price
      /\ UNCHANGED spentUnits
      /\ settledUnits + (IF charged THEN price ELSE 0) >= spentUnits
  BY DEF IInv, TypeOK, Phased, CostIsNeverUnderstated, Respond
<1>2. settledUnits' \in Nat /\ settledUnits' >= settledUnits /\ settledUnits' >= spentUnits
  BY <1>1
<1>3. CASE \E again \in BOOLEAN : Advance(again)
  <2>1. price' = 0 /\ charged' = FALSE
    BY <1>3 DEF Advance
  <2> QED
    BY <1>1, <1>2, <2>1 DEF CostIsNeverUnderstated
<1>4. CASE \E events : Failure(Undiagnosed("UNCLASSIFIED"), events)
  <2>1. Undiagnosed("UNCLASSIFIED") \in EngineError /\ ~Undiagnosed("UNCLASSIFIED").unsettled
    BY LocalErrors
  <2> QED
    BY <1>1, <1>2, <1>4, <2>1, FailureKeepsCost
<1>5. \/ \E again \in BOOLEAN : Advance(again)
      \/ \E events : Failure(Undiagnosed("UNCLASSIFIED"), events)
  <2> DEFINE record == [intent |-> Intent, minerId |-> answer.minerId,
                        verdict |-> answer.verdict, confident |-> answer.confident]
  <2>1. NewMiner(record) \/ \E i \in DOMAIN records : SeenMiner(i, record)
    BY DEF Respond
  <2>2. AsksAgain(record) \in BOOLEAN
    BY DEF AsksAgain
  <2>3. CASE NewMiner(record)
    BY <2>2, <2>3 DEF NewMiner
  <2>4. CASE \E i \in DOMAIN records : SeenMiner(i, record)
    <3>1. PICK i \in DOMAIN records : SeenMiner(i, record)
      BY <2>4
    <3>2. (records'[i] = records[i] /\ ~LastAttempt) \in BOOLEAN
      OBVIOUS
    <3> QED
      BY <3>1, <3>2 DEF SeenMiner
  <2> QED
    BY <2>1, <2>3, <2>4
<1> QED
  BY <1>3, <1>4, <1>5

\* No step of the run, the ledger or the facilitator makes the report too low.
LEMMA NextKeepsCost ==
    ASSUME IInv, CostIsNeverUnderstated, [Next]_vars
    PROVE  CostIsNeverUnderstated'
<1>1. /\ price \in Nat /\ charged \in BOOLEAN /\ settledUnits \in Nat /\ spentUnits \in Nat
      /\ phase \in {"NEXT", "ASKING", "DONE"} => price = 0
      /\ charged => price > 0
      /\ phase # "THROWN" => settledUnits + (IF charged THEN price ELSE 0) >= spentUnits
  BY DEF IInv, TypeOK, Phased, CostIsNeverUnderstated
<1>2. CASE StartAttempt
  BY <1>1, <1>2 DEF StartAttempt, chain, CostIsNeverUnderstated
<1>3. ASSUME NEW units \in Amounts, Authorize(units) PROVE CostIsNeverUnderstated'
  <2>1. ~charged /\ phase = "ASKING" /\ UNCHANGED <<settledUnits, charged, spentUnits>>
    BY <1>1, <1>3 DEF Authorize, chain
  <2> QED
    BY <1>1, <2>1 DEF CostIsNeverUnderstated
<1>4. ASSUME NEW units \in Amounts, AuthorizationNotRecorded(units)
      PROVE  CostIsNeverUnderstated'
  <2>1. PICK events \in FailedAppend(trail, "PAYMENT_AUTHORIZED") :
          Failure(Undiagnosed("TRANSPORT_ERROR"), events)
    BY <1>4 DEF AuthorizationNotRecorded
  <2>2. phase = "ASKING" /\ UNCHANGED <<settledUnits, spentUnits>>
    BY <1>4 DEF AuthorizationNotRecorded
  <2>3. Undiagnosed("TRANSPORT_ERROR") \in EngineError /\ ~Undiagnosed("TRANSPORT_ERROR").unsettled
    BY LocalErrors
  <2>4. settledUnits' \in Nat /\ settledUnits' >= settledUnits
    BY <1>1, <2>2
  <2> QED
    BY <2>1, <2>2, <2>3, <2>4, FailureKeepsCost
<1>5. ASSUME NEW error \in AskErrors, Fail(error)
      PROVE  CostIsNeverUnderstated'
  <2>1. /\ Failure(error, trail) /\ phase # "THROWN"
        /\ error.denied => ~charged
        /\ UNCHANGED <<settledUnits, spentUnits>>
    BY <1>5 DEF Fail
  <2>2. error \in EngineError /\ (error.unsettled => ~charged)
    BY <1>5, <2>1, AskErrorsAreHonest
  <2> QED
    BY <1>1, <2>1, <2>2, FailureKeepsCost
<1>6. ASSUME NEW answer \in Answers, Respond(answer) PROVE CostIsNeverUnderstated'
  BY <1>6, RespondKeepsCost
<1>7. CASE Reconcile
  <2>1. /\ phase = "RECONCILING" /\ UNCHANGED spentUnits
        /\ \/ ~charged /\ Advance(TRUE) /\ UNCHANGED settledUnits
           \/ settledUnits' = LostPayment /\ price' = 0 /\ charged' = FALSE
           \/ phase' = "THROWN"
    BY <1>7 DEF Reconcile, Throw
  <2> QED
    BY <1>1, <2>1 DEF Advance, LostPayment, CostIsNeverUnderstated
<1>8. CASE ReconcileThrows
  BY <1>8 DEF ReconcileThrows, Throw, CostIsNeverUnderstated
<1>9. CASE Settles
  BY <1>1, <1>9 DEF Settles, loops, CostIsNeverUnderstated
<1>10. CASE UNCHANGED vars
  BY <1>1, <1>10 DEF vars, loops, chain, CostIsNeverUnderstated
<1> QED
  BY <1>2, <1>3, <1>4, <1>5, <1>6, <1>7, <1>8, <1>9, <1>10 DEF Next, Ended

\* The reported settled cost is never below what the chain has charged.
THEOREM CostIsReported == Spec => []CostIsNeverUnderstated
<1>1. Init => CostIsNeverUnderstated
  BY DEF Init, CostIsNeverUnderstated
<1>2. IInv /\ CostIsNeverUnderstated /\ [Next]_vars => CostIsNeverUnderstated'
  BY NextKeepsCost
<1> QED
  BY <1>1, <1>2, Invariance, PTL DEF Spec

\* No transfer leaves the payer without its authority in the ledger first.
THEOREM AuthorityComesFirst == Spec => []TransfersAreOnRecord
<1>1. IInv => TransfersAreOnRecord
  BY DEF IInv, Phased, OnRecord, Authorized, TransfersAreOnRecord
<1> QED
  BY <1>1, Invariance, PTL

-----------------------------------------------------------------------------
(* The records *)

OneRecordEach(list) == \A i, j \in DOMAIN list : i # j => ~SameVoice(list[i], list[j])

OneAnswerEach(list) ==
    \A i, j \in DOMAIN list :
        list[i].intent = list[j].intent /\ IsConclusive(list[i]) /\ IsConclusive(list[j])
            => i = j

\* The records are of the first n intents.
Visited(list, n) == \A i \in DOMAIN list : \E k \in 1..n : list[i].intent = Intents[k]

OpenFor(list, intent) == \A i \in DOMAIN list : list[i].intent = intent => ~IsConclusive(list[i])

\* While the run may still put its intent to a miner, nobody has answered it.
AsksWhatIsOpen ==
    phase \in {"NEXT", "ASKING", "PAYING"} \/ (phase = "RECONCILING" /\ ~charged)
        => OpenFor(records, Intent)

Recorded ==
    /\ OneRecordEach(records) /\ OneAnswerEach(records)
    /\ Visited(records, intentIndex)
    /\ AsksWhatIsOpen

RecordOf(answer) == [intent |-> Intent, minerId |-> answer.minerId,
                     verdict |-> answer.verdict, confident |-> answer.confident]

\* Asking again needs an open intent; a new intent is open, since the records are of
\* earlier ones.
LEMMA AdvanceAsksWhatIsOpen ==
    ASSUME TypeOK, NEW again \in BOOLEAN, Advance(again),
           records' \in Seq(VerificationSignal), Visited(records', intentIndex),
           again => OpenFor(records', Intent)
    PROVE  Visited(records', intentIndex') /\ AsksWhatIsOpen'
<1>1. /\ intentIndex \in 1..Len(Intents) /\ Len(Intents) \in Nat /\ DOMAIN Intents = 1..Len(Intents)
      /\ \A i, j \in DOMAIN Intents : Intents[i] = Intents[j] => i = j
  BY RunAssumption, LenProperties DEF TypeOK
<1>2. CASE again
  <2>1. intentIndex' = intentIndex
    BY <1>2 DEF Advance
  <2> QED
    BY <1>2, <2>1 DEF AsksWhatIsOpen, Intent
<1>3. CASE ~again /\ intentIndex < Len(Intents)
  <2>1. intentIndex' = intentIndex + 1
    BY <1>3 DEF Advance
  <2>2. Visited(records', intentIndex')
    BY <1>1, <2>1 DEF Visited
  <2>3. \A i \in DOMAIN records' : records'[i].intent # Intents[intentIndex + 1]
    <3> SUFFICES ASSUME NEW i \in DOMAIN records', records'[i].intent = Intents[intentIndex + 1]
                 PROVE  FALSE
      OBVIOUS
    <3>1. PICK k \in 1..intentIndex : records'[i].intent = Intents[k]
      BY DEF Visited
    <3>2. k \in DOMAIN Intents /\ intentIndex + 1 \in DOMAIN Intents /\ k # intentIndex + 1
      BY <1>1, <1>3
    <3> QED
      BY <1>1, <3>1, <3>2
  <2> QED
    BY <2>1, <2>2, <2>3 DEF AsksWhatIsOpen, OpenFor, Intent
<1>4. CASE ~again /\ ~(intentIndex < Len(Intents))
  BY <1>4 DEF Advance, AsksWhatIsOpen
<1> QED
  BY <1>2, <1>3, <1>4

\* The catch block asks the intent again only when it is open: after an answer it
\* stops, reconciles a payment that has settled, or goes on.
LEMMA FailureAsksWhatIsOpen ==
    ASSUME TypeOK, NEW error, NEW events, Failure(error, events),
           records' \in Seq(VerificationSignal), Visited(records', intentIndex),
           \/ OpenFor(records', Intent)
           \/ error = Undiagnosed("UNCLASSIFIED") /\ (price > 0 => charged)
    PROVE  Visited(records', intentIndex') /\ AsksWhatIsOpen'
<1> DEFINE authorized == price > 0
           explicitlyUnsettled == authorized /\ error.unsettled
           retryable == IF authorized THEN explicitlyUnsettled
                        ELSE error.code \in {"HTTP_ERROR", "TRANSPORT_ERROR"}
<1>1. CASE /\ authorized /\ ~explicitlyUnsettled
           /\ phase' = "RECONCILING"
           /\ UNCHANGED <<intentIndex, attemptNumber, price, charged, looseUnits>>
  BY <1>1 DEF AsksWhatIsOpen, Intent
<1>2. CASE /\ ~(authorized /\ ~explicitlyUnsettled)
           /\ Advance(retryable /\ ~LastAttempt)
  <2>1. (retryable /\ ~LastAttempt) => OpenFor(records', Intent)
    BY <1>2 DEF Undiagnosed
  <2> QED
    BY <1>2, <2>1, AdvanceAsksWhatIsOpen
<1>3. CASE Throw
  BY <1>3 DEF Throw, AsksWhatIsOpen
<1> QED
  BY <1>1, <1>2, <1>3 DEF Failure

\* A miner's first record on the intent, which nobody has answered.
LEMMA NewRecord ==
    ASSUME TypeOK, Recorded, NEW record \in VerificationSignal, record.intent = Intent,
           OpenFor(records, Intent),
           \A i \in DOMAIN records : ~SameVoice(records[i], record),
           records' = Append(records, record)
    PROVE  /\ records' \in Seq(VerificationSignal)
           /\ OneRecordEach(records') /\ OneAnswerEach(records')
           /\ Visited(records', intentIndex)
           /\ ~IsConclusive(record) => OpenFor(records', Intent)
<1> DEFINE n == Len(records) + 1
<1>1. /\ records \in Seq(VerificationSignal) /\ Len(records) \in Nat
      /\ DOMAIN records = 1..Len(records) /\ n \notin DOMAIN records
      /\ intentIndex \in Nat /\ intentIndex >= 1
  BY LenProperties DEF TypeOK
<1>2. /\ records' \in Seq(VerificationSignal)
      /\ DOMAIN records' = DOMAIN records \cup {n}
      /\ \A i \in DOMAIN records : records'[i] = records[i]
      /\ records'[n] = record
  BY <1>1, AppendProperties, LenProperties
<1>3. OneRecordEach(records')
  BY <1>1, <1>2 DEF OneRecordEach, Recorded, SameVoice
<1>4. \A i \in DOMAIN records : records[i].intent = Intent => ~IsConclusive(records[i])
  BY DEF OpenFor
<1>5. OneAnswerEach(records')
  BY <1>1, <1>2, <1>4 DEF OneAnswerEach, Recorded
<1>6. Visited(records', intentIndex)
  <2>1. intentIndex \in 1..intentIndex /\ record.intent = Intents[intentIndex]
    BY <1>1 DEF Intent
  <2> QED
    BY <1>2, <2>1 DEF Visited, Recorded
<1>7. ~IsConclusive(record) => OpenFor(records', Intent)
  BY <1>2, <1>4 DEF OpenFor
<1> QED
  BY <1>2, <1>3, <1>5, <1>6, <1>7

\* A miner's later record takes the place of its earlier one.
LEMMA RefreshedRecord ==
    ASSUME TypeOK, Recorded, NEW record \in VerificationSignal, record.intent = Intent,
           OpenFor(records, Intent), NEW i \in DOMAIN records, SameVoice(records[i], record),
           records' = [records EXCEPT ![i] = Refreshed(records[i], record)]
    PROVE  /\ records' \in Seq(VerificationSignal)
           /\ OneRecordEach(records') /\ OneAnswerEach(records')
           /\ Visited(records', intentIndex)
           /\ records'[i] = records[i] => OpenFor(records', Intent)
           /\ IsConclusive(record) => IsConclusive(records'[i])
<1>1. /\ records \in Seq(VerificationSignal) /\ DOMAIN records = 1..Len(records)
      /\ records[i] \in VerificationSignal
      /\ intentIndex \in Nat /\ intentIndex >= 1
  BY LenProperties, ElementOfSeq DEF TypeOK
<1>2. /\ Refreshed(records[i], record) \in VerificationSignal
      /\ SameVoice(Refreshed(records[i], record), record)
      /\ SameVoice(Refreshed(records[i], record), records[i])
      /\ Refreshed(records[i], record).intent = Intent
      /\ IsConclusive(record) => IsConclusive(Refreshed(records[i], record))
  BY <1>1 DEF Refreshed, SameVoice
<1>3. /\ records' \in Seq(VerificationSignal)
      /\ DOMAIN records' = DOMAIN records
      /\ \A j \in DOMAIN records : j # i => records'[j] = records[j]
      /\ records'[i] = Refreshed(records[i], record)
  BY <1>1, <1>2, ExceptSeq, LenProperties
<1>4. OneRecordEach(records')
  BY <1>2, <1>3 DEF OneRecordEach, Recorded, SameVoice
<1>5. \A j \in DOMAIN records : records[j].intent = Intent => ~IsConclusive(records[j])
  BY DEF OpenFor
<1>6. OneAnswerEach(records')
  BY <1>2, <1>3, <1>5 DEF OneAnswerEach, Recorded
<1>7. Visited(records', intentIndex)
  <2>1. intentIndex \in 1..intentIndex /\ Intent = Intents[intentIndex]
    BY <1>1 DEF Intent
  <2> QED
    BY <1>2, <1>3, <2>1 DEF Visited, Recorded
<1>8. records'[i] = records[i] => OpenFor(records', Intent)
  BY <1>3, <1>5 DEF OpenFor
<1> QED
  BY <1>2, <1>3, <1>4, <1>6, <1>7, <1>8

\* An append that fails is followed by FAILED, or by nothing.
LEMMA FailedAnswer ==
    ASSUME TypeOK, NEW event \in {"SUCCEEDED", "DUPLICATE"},
           NEW events \in FailedAppend(trail, event),
           Failure(Undiagnosed("UNCLASSIFIED"), events), phase' # "THROWN"
    PROVE  ~Accepted(trail')
<1>1. trail \in Seq(EventTypes) /\ {"SUCCEEDED", "DUPLICATE", "FAILED"} \subseteq EventTypes
  BY DEF TypeOK, EventTypes
<1>2. events \in Seq(EventTypes) /\ trail' = Append(events, "FAILED")
  BY <1>1, FailedAppendProperties DEF Failure, Throw
<1>3. Len(events) \in Nat /\ Len(trail') = Len(events) + 1 /\ trail'[Len(trail')] = "FAILED"
  BY <1>1, <1>2, AppendProperties, LenProperties
<1> QED
  BY <1>3 DEF Accepted

\* What an answer does to the records, and that one the ledger has accepted is
\* among them.
LEMMA RespondKeepsRecorded ==
    ASSUME IInv, Recorded, NEW answer \in Answers, Respond(answer)
    PROVE  /\ Recorded'
           /\ \A i \in DOMAIN records : IsConclusive(records[i]) =>
                i \in DOMAIN records' /\ records'[i] = records[i]
           /\ IsConclusive(RecordOf(answer)) /\ Accepted(trail') /\ phase' # "THROWN" =>
                \E j \in DOMAIN records' : /\ IsConclusive(records'[j])
                                           /\ records'[j].intent = Intent
<1> DEFINE record == RecordOf(answer)
           Kept == \A i \in DOMAIN records : IsConclusive(records[i]) =>
                     i \in DOMAIN records' /\ records'[i] = records[i]
           Heard == \E j \in DOMAIN records' : /\ IsConclusive(records'[j])
                                               /\ records'[j].intent = Intent
<1>1. /\ phase \in {"ASKING", "PAYING"}
      /\ price > 0 => charged
      /\ IF \E i \in DOMAIN records : SameVoice(records[i], record)
         THEN \E i \in DOMAIN records : SameVoice(records[i], record) /\ SeenMiner(i, record)
         ELSE NewMiner(record)
  BY DEF Respond, RecordOf, IInv, Phased
<1>2. Intent \in VerificationIntent
  BY RunAssumption, ElementOfSeq DEF IInv, TypeOK, Intent
<1>3. record \in VerificationSignal /\ record.intent = Intent
  BY <1>2, RunAssumption DEF VerificationSignal, RecordOf
<1> HIDE DEF record
<1>4. TypeOK /\ OpenFor(records, Intent) /\ records \in Seq(VerificationSignal)
  BY <1>1 DEF IInv, TypeOK, Recorded, AsksWhatIsOpen
<1>5. DOMAIN records = 1..Len(records) /\ Len(records) \in Nat
  BY LenProperties DEF IInv, TypeOK
<1>7. CASE NewMiner(record) /\ \A i \in DOMAIN records : ~SameVoice(records[i], record)
  <2>1. records' = Append(records, record)
    BY <1>7 DEF NewMiner
  <2>2. /\ records' \in Seq(VerificationSignal)
        /\ OneRecordEach(records') /\ OneAnswerEach(records')
        /\ Visited(records', intentIndex)
        /\ ~IsConclusive(record) => OpenFor(records', Intent)
    BY <1>3, <1>4, <1>7, <2>1, NewRecord
  <2>3. /\ Len(records) + 1 \in DOMAIN records' /\ records'[Len(records) + 1] = record
        /\ \A i \in DOMAIN records : i \in DOMAIN records' /\ records'[i] = records[i]
    BY <1>3, <1>4, <1>5, <2>1, AppendProperties, LenProperties
  <2>4. Visited(records', intentIndex') /\ AsksWhatIsOpen'
    <3>1. CASE Advance(AsksAgain(record))
      <4>1. AsksAgain(record) \in BOOLEAN /\ (AsksAgain(record) => OpenFor(records', Intent))
        BY <2>2 DEF AsksAgain
      <4> QED
        BY <1>4, <2>2, <3>1, <4>1, AdvanceAsksWhatIsOpen
    <3>2. CASE \E events : Failure(Undiagnosed("UNCLASSIFIED"), events)
      BY <1>1, <1>4, <2>2, <3>2, FailureAsksWhatIsOpen
    <3> QED
      BY <1>7, <3>1, <3>2 DEF NewMiner
  <2>5. Kept
    BY <2>3
  <2>6. IsConclusive(record) => Heard
    BY <1>3, <2>3
  <2> QED
    BY <2>2, <2>4, <2>5, <2>6 DEF Recorded, record
<1>8. ASSUME NEW i \in DOMAIN records, SameVoice(records[i], record), SeenMiner(i, record)
      PROVE  Recorded' /\ Kept /\ (IsConclusive(record) /\ Accepted(trail') /\ phase' # "THROWN" => Heard)
  <2>1. CASE /\ records' = [records EXCEPT ![i] = Refreshed(records[i], record)]
             /\ Advance(records'[i] = records[i] /\ ~LastAttempt)
    <3>1. /\ records' \in Seq(VerificationSignal)
          /\ OneRecordEach(records') /\ OneAnswerEach(records')
          /\ Visited(records', intentIndex)
          /\ records'[i] = records[i] => OpenFor(records', Intent)
          /\ IsConclusive(record) => IsConclusive(records'[i])
      BY <1>3, <1>4, <1>8, <2>1, RefreshedRecord
    <3>2. Visited(records', intentIndex') /\ AsksWhatIsOpen'
      <4>1. /\ (records'[i] = records[i] /\ ~LastAttempt) \in BOOLEAN
            /\ records'[i] = records[i] /\ ~LastAttempt => OpenFor(records', Intent)
        BY <3>1
      <4> QED
        BY <1>4, <2>1, <3>1, <4>1, AdvanceAsksWhatIsOpen
    <3>3. /\ DOMAIN records' = DOMAIN records
          /\ \A j \in DOMAIN records : j # i => records'[j] = records[j]
          /\ records'[i] = Refreshed(records[i], record)
      BY <1>4, <2>1
    <3>4. records[i].intent = Intent /\ records'[i].intent = Intent
      BY <1>3, <1>8, <3>3 DEF SameVoice, Refreshed
    <3>5. ~IsConclusive(records[i])
      BY <1>4, <3>4 DEF OpenFor
    <3>6. Kept
      BY <3>3, <3>5
    <3>7. IsConclusive(record) => Heard
      BY <3>1, <3>3, <3>4
    <3> QED
      BY <3>1, <3>2, <3>6, <3>7 DEF Recorded
  <2>2. CASE /\ \E events \in FailedAppend(trail, "DUPLICATE") :
                   Failure(Undiagnosed("UNCLASSIFIED"), events)
             /\ UNCHANGED records
    <3>1. Visited(records', intentIndex') /\ AsksWhatIsOpen'
      BY <1>4, <2>2, FailureAsksWhatIsOpen DEF Recorded
    <3>2. phase' # "THROWN" => ~Accepted(trail')
      BY <1>4, <2>2, FailedAnswer
    <3> QED
      BY <2>2, <3>1, <3>2 DEF Recorded
  <2> QED
    BY <1>8, <2>1, <2>2 DEF SeenMiner
<1> QED
  BY <1>1, <1>7, <1>8 DEF record

\* Steps that are no answer leave the records as they are.
LEMMA NextKeepsRecorded == IInv /\ Recorded /\ [Next]_vars => Recorded'
<1> SUFFICES ASSUME IInv, Recorded, [Next]_vars PROVE Recorded'
  OBVIOUS
<1>1. TypeOK /\ records \in Seq(VerificationSignal)
  BY DEF IInv, TypeOK
<1>2. ASSUME UNCHANGED <<records, intentIndex>>,
             \/ phase' \in {"DONE", "THROWN"}
             \/ phase' \in {"NEXT", "ASKING", "PAYING"} /\ phase \in {"NEXT", "ASKING", "PAYING"}
             \/ phase' = phase /\ (charged => charged')
      PROVE  Recorded'
  BY <1>2 DEF Recorded, AsksWhatIsOpen, Intent
<1>3. ASSUME UNCHANGED records, phase \in {"ASKING", "PAYING"}, NEW error, NEW events,
             Failure(error, events)
      PROVE  Recorded'
  <2>1. Visited(records', intentIndex) /\ OpenFor(records', Intent)
    BY <1>3 DEF Recorded, AsksWhatIsOpen
  <2> QED
    BY <1>1, <1>3, <2>1, FailureAsksWhatIsOpen DEF Recorded
<1>4. CASE StartAttempt
  BY <1>2, <1>4 DEF StartAttempt
<1>5. ASSUME NEW units \in Amounts, Authorize(units) PROVE Recorded'
  BY <1>2, <1>5 DEF Authorize
<1>6. ASSUME NEW units \in Amounts, AuthorizationNotRecorded(units) PROVE Recorded'
  BY <1>3, <1>6 DEF AuthorizationNotRecorded
<1>7. ASSUME NEW error \in AskErrors, Fail(error) PROVE Recorded'
  BY <1>3, <1>7 DEF Fail
<1>8. ASSUME NEW answer \in Answers, Respond(answer) PROVE Recorded'
  BY <1>8, RespondKeepsRecorded
<1>9. CASE Reconcile
  <2>1. UNCHANGED records /\ phase = "RECONCILING"
    BY <1>9 DEF Reconcile
  <2>2. CASE ~charged /\ Advance(TRUE)
    <3>1. Visited(records', intentIndex) /\ OpenFor(records', Intent)
      BY <2>1, <2>2 DEF Recorded, AsksWhatIsOpen
    <3> QED
      BY <1>1, <2>1, <2>2, <3>1, AdvanceAsksWhatIsOpen DEF Recorded
  <2>3. CASE phase' \in {"DONE", "THROWN"} /\ UNCHANGED intentIndex
    BY <1>2, <2>1, <2>3
  <2> QED
    BY <1>9, <2>2, <2>3 DEF Reconcile, Throw
<1>10. CASE ReconcileThrows
  BY <1>2, <1>10 DEF ReconcileThrows, Throw
<1>11. CASE Settles
  BY <1>2, <1>11 DEF Settles, loops
<1>12. CASE UNCHANGED vars
  BY <1>2, <1>12 DEF vars, loops, chain
<1> QED
  BY <1>4, <1>5, <1>6, <1>7, <1>8, <1>9, <1>10, <1>11, <1>12 DEF Next, Ended

LEMMA RecordedInvariance == Spec => []Recorded
<1>1. Init => Recorded
  BY DEF Init, Recorded, OneRecordEach, OneAnswerEach, Visited, AsksWhatIsOpen, OpenFor
<1> QED
  BY <1>1, NextKeepsRecorded, Invariance, PTL DEF Spec

\* A miner has one record per intent, an intent one conclusive record.
THEOREM IndependentRecords == Spec => []RecordsAreIndependent
<1>1. Recorded => RecordsAreIndependent
  BY DEF Recorded, OneRecordEach, OneAnswerEach, SameVoice, RecordsAreIndependent
<1> QED
  BY <1>1, RecordedInvariance, PTL

\* No step but an answer makes the ledger accept one, and none takes one away.
LEMMA NextKeepsAnswers ==
    IInv /\ Recorded /\ NoAnswerIsLost /\ [Next]_vars => NoAnswerIsLost'
<1> SUFFICES ASSUME IInv, Recorded, NoAnswerIsLost, [Next]_vars PROVE NoAnswerIsLost'
  OBVIOUS
<1>1. CASE UNCHANGED <<records, heard>> /\ (phase = "THROWN" => phase' = "THROWN")
  BY <1>1 DEF NoAnswerIsLost
<1>2. ASSUME NEW answer \in Answers, Respond(answer) PROVE NoAnswerIsLost'
  <2> DEFINE Known(list) == {list[i].intent : i \in {j \in DOMAIN list : IsConclusive(list[j])}}
  <2>1. /\ phase # "THROWN"
        /\ heard' = IF IsConclusive(RecordOf(answer)) /\ Accepted(trail')
                    THEN heard \cup {Intent} ELSE heard
    BY <1>2 DEF Respond, RecordOf
  <2>2. /\ Known(records) \subseteq Known(records')
        /\ IsConclusive(RecordOf(answer)) /\ Accepted(trail') /\ phase' # "THROWN" =>
             Intent \in Known(records')
    BY <1>2, RespondKeepsRecorded
  <2>3. heard \subseteq Known(records)
    BY <2>1 DEF NoAnswerIsLost
  <2>4. phase' # "THROWN" => heard' \subseteq Known(records')
    BY <2>1, <2>2, <2>3
  <2> QED
    BY <2>4 DEF NoAnswerIsLost
<1>3. \/ UNCHANGED <<records, heard>> /\ (phase = "THROWN" => phase' = "THROWN")
      \/ \E answer \in Answers : Respond(answer)
  BY DEF Next, StartAttempt, Authorize, AuthorizationNotRecorded, Fail, Reconcile,
         ReconcileThrows, Throw, Settles, Ended, vars, loops
<1> QED
  BY <1>1, <1>2, <1>3

\* Until the run throws, every conclusive answer the ledger has accepted is among
\* its records.
THEOREM AnswersAreKept == Spec => []NoAnswerIsLost
<1>1. Init => NoAnswerIsLost
  BY DEF Init, NoAnswerIsLost
<1> QED
  BY <1>1, NextKeepsAnswers, Invariance, RecordedInvariance, PTL DEF Spec

-----------------------------------------------------------------------------
(* What the run's decision rests on, and that it stands *)

\* While a payment is reconciled, and when the run halts over it, the ledger has
\* accepted no conclusive answer to the question that was paid for.
Halted ==
    /\ phase = "RECONCILING" => Intent \notin heard
    /\ haltedAfterAmbiguousPayment => phase = "DONE" /\ Intent \notin heard

\* What is open was not answered.
LEMMA OpenIsUnheard ==
    ASSUME Recorded, NoAnswerIsLost, phase \in {"ASKING", "PAYING"}
    PROVE  Intent \notin heard
BY DEF Recorded, AsksWhatIsOpen, OpenFor, NoAnswerIsLost

\* Whoever waits for a reconciliation waits at the same question.
LEMMA FailureWaits ==
    ASSUME NEW error, NEW events, Failure(error, events), phase' = "RECONCILING"
    PROVE  intentIndex' = intentIndex
BY DEF Failure, Advance, Throw

LEMMA RespondWaits ==
    ASSUME IInv, Recorded, NoAnswerIsLost, NEW answer \in Answers, Respond(answer),
           phase' = "RECONCILING"
    PROVE  Intent' = Intent /\ Intent \notin heard'
<1>1. phase \in {"ASKING", "PAYING"} /\ TypeOK
  BY DEF Respond, IInv
<1>2. PICK event \in {"SUCCEEDED", "DUPLICATE"} :
        \E events \in FailedAppend(trail, event) : Failure(Undiagnosed("UNCLASSIFIED"), events)
  BY DEF Respond, NewMiner, SeenMiner, Advance
<1>3. ~Accepted(trail') /\ intentIndex' = intentIndex
  BY <1>1, <1>2, FailedAnswer, FailureWaits
<1>4. heard' = heard
  BY <1>3 DEF Respond
<1> QED
  BY <1>1, <1>3, <1>4, OpenIsUnheard DEF Intent

LEMMA NextKeepsHalted ==
    IInv /\ Recorded /\ NoAnswerIsLost /\ Halted /\ [Next]_vars => Halted'
<1> SUFFICES ASSUME IInv, Recorded, NoAnswerIsLost, Halted, [Next]_vars PROVE Halted'
  OBVIOUS
<1>1. ASSUME phase \in {"NEXT", "ASKING", "PAYING"}, UNCHANGED haltedAfterAmbiguousPayment,
             phase' = "RECONCILING" => Intent' = Intent /\ Intent \notin heard'
      PROVE  Halted'
  BY <1>1 DEF Halted
<1>2. CASE StartAttempt
  BY <1>1, <1>2 DEF StartAttempt
<1>3. ASSUME NEW units \in Amounts, Authorize(units) PROVE Halted'
  BY <1>1, <1>3 DEF Authorize
<1>4. ASSUME NEW units \in Amounts, AuthorizationNotRecorded(units) PROVE Halted'
  BY <1>1, <1>4, FailureWaits, OpenIsUnheard DEF AuthorizationNotRecorded, Intent
<1>5. ASSUME NEW error \in AskErrors, Fail(error) PROVE Halted'
  BY <1>1, <1>5, FailureWaits, OpenIsUnheard DEF Fail, Intent
<1>6. ASSUME NEW answer \in Answers, Respond(answer) PROVE Halted'
  <2>1. phase \in {"ASKING", "PAYING"} /\ UNCHANGED haltedAfterAmbiguousPayment
    BY <1>6 DEF Respond
  <2> QED
    BY <1>1, <1>6, <2>1, RespondWaits
<1>7. CASE Reconcile
  <2>1. phase = "RECONCILING" /\ heard' = heard
    BY <1>7 DEF Reconcile
  <2>2. CASE Advance(TRUE) /\ UNCHANGED haltedAfterAmbiguousPayment
    BY <2>1, <2>2 DEF Halted, Advance
  <2>3. CASE phase' = "DONE" /\ UNCHANGED intentIndex
    BY <2>1, <2>3 DEF Halted, Intent
  <2>4. CASE Throw /\ UNCHANGED haltedAfterAmbiguousPayment
    BY <2>1, <2>4 DEF Halted, Throw
  <2> QED
    BY <1>7, <2>2, <2>3, <2>4 DEF Reconcile
<1>8. CASE ReconcileThrows
  BY <1>8 DEF ReconcileThrows, Throw, Halted
<1>9. CASE Settles
  BY <1>9 DEF Settles, loops, Halted, Intent
<1>10. CASE UNCHANGED vars
  BY <1>10 DEF vars, loops, Halted, Intent
<1> QED
  BY <1>2, <1>3, <1>4, <1>5, <1>6, <1>7, <1>8, <1>9, <1>10 DEF Next, Ended

\* A run that halts over a payment halts at a question for which the ledger has
\* accepted no conclusive answer (run-paid-secure-delivery.ts:153).
THEOREM HaltedRunsAreOpen ==
    Spec => [](haltedAfterAmbiguousPayment => phase = "DONE" /\ Intent \notin heard)
<1>1. Init => Halted
  BY DEF Init, Halted
<1>2. Halted => (haltedAfterAmbiguousPayment => phase = "DONE" /\ Intent \notin heard)
  BY DEF Halted
<1> QED
  BY <1>1, <1>2, NextKeepsHalted, Invariance, RecordedInvariance, AnswersAreKept, PTL DEF Spec

\* An answer is all that changes the records or what the ledger has heard.
LEMMA OnlyAnswersCount ==
    ASSUME [Next]_vars
    PROVE  \/ UNCHANGED <<records, heard>>
           \/ \E answer \in Answers : Respond(answer)
BY DEF Next, StartAttempt, Authorize, AuthorizationNotRecorded, Fail, Reconcile,
       ReconcileThrows, Throw, Settles, Ended, vars, loops

\* Where no append fails, the ledger has heard of every conclusive record.
AllHeard == \A i \in DOMAIN records : IsConclusive(records[i]) => records[i].intent \in heard

LEMMA RespondIsHeard ==
    ASSUME IInv, ~LedgerFailures, AllHeard, NEW answer \in Answers, Respond(answer)
    PROVE  AllHeard'
<1> DEFINE record == RecordOf(answer)
<1>1. record \in VerificationSignal /\ record.intent = Intent
  <2>1. Intent \in VerificationIntent
    BY RunAssumption, ElementOfSeq DEF IInv, TypeOK, Intent
  <2> QED
    BY <2>1, RunAssumption DEF VerificationSignal, RecordOf
<1>2. /\ records \in Seq(VerificationSignal) /\ DOMAIN records = 1..Len(records)
      /\ Len(records) \in Nat
      /\ trail \in Seq(EventTypes) /\ {"SUCCEEDED", "DUPLICATE"} \subseteq EventTypes
  BY LenProperties DEF IInv, TypeOK, EventTypes
<1>3. /\ IF \E i \in DOMAIN records : SameVoice(records[i], record)
         THEN \E i \in DOMAIN records : SameVoice(records[i], record) /\ SeenMiner(i, record)
         ELSE NewMiner(record)
      /\ heard' = IF IsConclusive(record) /\ Accepted(trail') THEN heard \cup {Intent} ELSE heard
  BY DEF Respond, RecordOf
<1> HIDE DEF record
<1>4. \A event : FailedAppend(trail, event) = {}
  BY DEF FailedAppend
<1>5. PICK event \in {"SUCCEEDED", "DUPLICATE"} : trail' = Append(trail, event)
  BY <1>3, <1>4 DEF NewMiner, SeenMiner
<1>6. Accepted(trail')
  <2>1. Len(trail') = Len(trail) + 1 /\ trail'[Len(trail')] = event /\ Len(trail) \in Nat
    BY <1>2, <1>5, AppendProperties, LenProperties
  <2> QED
    BY <2>1 DEF Accepted
<1>7. heard \subseteq heard' /\ (IsConclusive(record) => record.intent \in heard')
  BY <1>1, <1>3, <1>6
<1>8. CASE records' = Append(records, record)
  <2>1. /\ DOMAIN records' = 1..(Len(records) + 1)
        /\ \A i \in DOMAIN records : records'[i] = records[i]
        /\ records'[Len(records) + 1] = record
    BY <1>1, <1>2, <1>8, AppendProperties, LenProperties
  <2>2. ASSUME NEW i \in DOMAIN records'
        PROVE  records'[i] = record \/ (i \in DOMAIN records /\ records'[i] = records[i])
    <3>1. i \in 1..Len(records) \/ i = Len(records) + 1
      BY <1>2, <2>1
    <3> QED
      BY <1>2, <2>1, <3>1
  <2> QED
    BY <1>7, <2>2 DEF AllHeard
<1>9. ASSUME NEW i \in DOMAIN records, records' = [records EXCEPT ![i] = Refreshed(records[i], record)]
      PROVE  AllHeard'
  <2>1. DOMAIN records' = DOMAIN records
        /\ \A j \in DOMAIN records : records'[j] = records[j] \/ records'[j] = record
    BY <1>2, <1>9 DEF Refreshed
  <2> QED
    BY <1>7, <2>1 DEF AllHeard
<1> QED
  BY <1>3, <1>4, <1>8, <1>9 DEF NewMiner, SeenMiner

LEMMA AllHeardInvariance == ~LedgerFailures => (Spec => []AllHeard)
<1> SUFFICES ASSUME ~LedgerFailures PROVE Spec => []AllHeard
  OBVIOUS
<1>1. Init => AllHeard
  BY DEF Init, AllHeard
<1>2. IInv /\ AllHeard /\ [Next]_vars => AllHeard'
  BY OnlyAnswersCount, RespondIsHeard DEF AllHeard
<1> QED
  BY <1>1, <1>2, Invariance, PTL DEF Spec

\* A release has a conclusive record for each of the run's intents.
LEMMA ReleaseNeedsAll ==
    ASSUME Decision = "RELEASE", NEW k \in DOMAIN Intents
    PROVE  \E i \in DOMAIN records : IsConclusive(records[i]) /\ records[i].intent = Intents[k]
<1> DEFINE required == {Intents[i] : i \in DOMAIN Intents}
<1>1. MissingIntents(records, required) = {}
  BY DEF Decision, EvaluateSettlement
<1>2. Intents[k] \in required
  OBVIOUS
<1>3. \E i \in Conclusive(records) : records[i].intent = Intents[k]
  BY <1>1, <1>2 DEF MissingIntents
<1> QED
  BY <1>3 DEF Conclusive, UniqueMinerSignals

\* Where the ledger keeps what it is given, a run that halts over a payment does
\* not return the records of a release.
THEOREM HaltedRunsDoNotRelease ==
    ~LedgerFailures => (Spec => [](haltedAfterAmbiguousPayment => Decision # "RELEASE"))
<1> SUFFICES ASSUME ~LedgerFailures
             PROVE  Spec => [](haltedAfterAmbiguousPayment => Decision # "RELEASE")
  OBVIOUS
<1>1. IInv /\ AllHeard /\ (haltedAfterAmbiguousPayment => phase = "DONE" /\ Intent \notin heard)
        => (haltedAfterAmbiguousPayment => Decision # "RELEASE")
  <2> SUFFICES ASSUME IInv, AllHeard, Intent \notin heard, Decision = "RELEASE" PROVE FALSE
    OBVIOUS
  <2>1. intentIndex \in DOMAIN Intents
    BY RunAssumption, LenProperties DEF IInv, TypeOK
  <2> QED
    BY <2>1, ReleaseNeedsAll DEF AllHeard, Intent
<1> QED
  BY <1>1, Invariance, AllHeardInvariance, HaltedRunsAreOpen, PTL

\* A run has come to its last intent before its records say RELEASE: no run that
\* is cut short earlier, by a halt or a throw, has the records of one.
THEOREM ReleaseComesLast == Spec => [](Decision = "RELEASE" => intentIndex = Len(Intents))
<1>1. IInv /\ Recorded => (Decision = "RELEASE" => intentIndex = Len(Intents))
  <2> SUFFICES ASSUME IInv, Recorded, Decision = "RELEASE" PROVE intentIndex = Len(Intents)
    OBVIOUS
  <2>1. /\ Len(Intents) \in Nat /\ intentIndex \in Nat /\ intentIndex <= Len(Intents)
        /\ Len(Intents) \in DOMAIN Intents
        /\ \A k \in 1..intentIndex : k \in DOMAIN Intents /\ k \in Nat /\ k <= intentIndex
    BY RunAssumption, LenProperties DEF IInv, TypeOK
  <2>2. PICK i \in DOMAIN records : records[i].intent = Intents[Len(Intents)]
    BY <2>1, ReleaseNeedsAll
  <2>3. PICK k \in 1..intentIndex : records[i].intent = Intents[k]
    BY DEF Recorded, Visited
  <2>4. k = Len(Intents)
    BY <2>1, <2>2, <2>3, RunAssumption
  <2> QED
    BY <2>1, <2>3, <2>4
<1> QED
  BY <1>1, Invariance, RecordedInvariance, PTL

\* In a list with one record for each voice every conclusive record counts.
LEMMA AllConclusiveCount ==
    ASSUME NEW list \in Seq(VerificationSignal), OneRecordEach(list)
    PROVE  Conclusive(list) = {i \in DOMAIN list : IsConclusive(list[i])}
<1>1. DOMAIN list = 1..Len(list) /\ Len(list) \in Nat
  BY LenProperties
<1>2. \A i \in DOMAIN list : \A j \in 1..(i - 1) : j \in DOMAIN list /\ i # j
  BY <1>1
<1>3. UniqueMinerSignals(list) = DOMAIN list
  BY <1>2 DEF UniqueMinerSignals, OneRecordEach
<1> QED
  BY <1>3 DEF Conclusive

\* A decision a run has come to only ever becomes a REJECT.
Firm(before, after) ==
    /\ before = "REJECT" => after = "REJECT"
    /\ before = "HOLD" => after \in {"HOLD", "REJECT"}
    /\ before = "RELEASE" => after = "RELEASE"

LEMMA ConclusiveRecordsDecide ==
    ASSUME NEW list \in Seq(VerificationSignal), NEW longer \in Seq(VerificationSignal),
           OneRecordEach(list), OneRecordEach(longer), OneAnswerEach(longer),
           Visited(longer, Len(Intents)),
           \A i \in DOMAIN list : IsConclusive(list[i]) =>
                i \in DOMAIN longer /\ longer[i] = list[i],
           NEW required, required = {Intents[i] : i \in DOMAIN Intents}
    PROVE  Firm(EvaluateSettlement(list, required), EvaluateSettlement(longer, required))
<1> DEFINE C == Conclusive(list)
           D == Conclusive(longer)
<1>1. /\ C = {i \in DOMAIN list : IsConclusive(list[i])}
      /\ D = {i \in DOMAIN longer : IsConclusive(longer[i])}
  BY AllConclusiveCount
<1>2. C \subseteq D /\ \A i \in C : longer[i] = list[i]
  BY <1>1
<1>3. \A i, j \in D : longer[i].intent = longer[j].intent => i = j
  BY <1>1 DEF OneAnswerEach
<1>4. \A i \in D : longer[i].intent \in required
  <2>1. DOMAIN Intents = 1..Len(Intents)
    BY RunAssumption, LenProperties
  <2>2. \A i \in D : \E k \in 1..Len(Intents) : longer[i].intent = Intents[k]
    BY <1>1 DEF Visited
  <2> QED
    BY <2>1, <2>2
<1>5. FraudFails(list) => FraudFails(longer)
  <2> SUFFICES ASSUME NEW i \in C, list[i].intent = "FRAUD_DETECTION", list[i].verdict = "FAIL"
               PROVE  FraudFails(longer)
    BY DEF FraudFails
  <2>1. i \in D /\ longer[i] = list[i]
    BY <1>2
  <2>2. \A j \in D : j < i => longer[j].intent # "FRAUD_DETECTION"
    <3> SUFFICES ASSUME NEW j \in D, j < i, longer[j].intent = "FRAUD_DETECTION" PROVE FALSE
      OBVIOUS
    <3>1. j = i
      BY <1>3, <2>1
    <3>2. i \in Nat
      BY <1>1, LenProperties
    <3> QED
      BY <3>1, <3>2
  <2> QED
    BY <2>1, <2>2 DEF FraudFails
<1>6. SomeFails(list) => SomeFails(longer)
  BY <1>2 DEF SomeFails
<1>7. ASSUME MissingIntents(list, required) = {}, ~SomeFails(list), TwoMiners(list)
      PROVE  /\ MissingIntents(longer, required) = {} /\ ~SomeFails(longer)
             /\ TwoMiners(longer)
  <2>1. \A j \in D : j \in C
    <3> SUFFICES ASSUME NEW j \in D PROVE j \in C
      OBVIOUS
    <3>1. PICK i \in C : list[i].intent = longer[j].intent
      BY <1>4, <1>7 DEF MissingIntents
    <3> QED
      BY <1>2, <1>3, <3>1
  <2>2. D = C /\ \A i \in C : longer[i] = list[i]
    BY <1>2, <2>1
  <2>3. MissingIntents(longer, required) = MissingIntents(list, required)
    BY <2>2 DEF MissingIntents
  <2>4. SomeFails(longer) <=> SomeFails(list)
    BY <2>2 DEF SomeFails
  <2>5. TwoMiners(longer) <=> TwoMiners(list)
    BY <2>2 DEF TwoMiners
  <2> QED
    BY <1>7, <2>3, <2>4, <2>5
<1>8. FraudFails(longer) => SomeFails(longer)
  BY DEF FraudFails, SomeFails
<1> HIDE DEF C, D
<1> QED
  BY <1>5, <1>6, <1>7, <1>8 DEF Firm, EvaluateSettlement

\* Asking on never takes a decision back: a HOLD can become a REJECT, and apart
\* from that a run that has come to a decision other than RETRY keeps it.
THEOREM DecisionsStand == Spec => [][Firm(Decision, Decision')]_vars
<1>1. ASSUME IInv, Recorded, Recorded', IInv', [Next]_vars PROVE Firm(Decision, Decision')
  <2>1. CASE UNCHANGED records
    BY <2>1 DEF Firm, Decision
  <2>2. ASSUME NEW answer \in Answers, Respond(answer) PROVE Firm(Decision, Decision')
    <3>1. \A i \in DOMAIN records : IsConclusive(records[i]) =>
            i \in DOMAIN records' /\ records'[i] = records[i]
      BY <1>1, <2>2, RespondKeepsRecorded
    <3>2. /\ records \in Seq(VerificationSignal) /\ records' \in Seq(VerificationSignal)
          /\ intentIndex' \in 1..Len(Intents) /\ Len(Intents) \in Nat
      BY <1>1, RunAssumption, LenProperties DEF IInv, TypeOK
    <3>3. /\ OneRecordEach(records) /\ OneRecordEach(records') /\ OneAnswerEach(records')
          /\ Visited(records', intentIndex')
      BY <1>1 DEF Recorded
    <3>4. Visited(records', Len(Intents))
      BY <3>2, <3>3 DEF Visited
    <3> QED
      BY <3>1, <3>2, <3>3, <3>4, ConclusiveRecordsDecide DEF Decision
  <2> QED
    BY <1>1, <2>1, <2>2, OnlyAnswersCount
<1>2. IInv /\ Recorded /\ IInv' /\ Recorded' /\ [Next]_vars => [Firm(Decision, Decision')]_vars
  BY <1>1
<1> QED
  BY <1>2, Invariance, RecordedInvariance, PTL DEF Spec

=============================================================================
