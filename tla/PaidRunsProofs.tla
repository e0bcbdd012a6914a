--------------------------- MODULE PaidRunsProofs ---------------------------
(***************************************************************************)
(* The paid fraud run for every number of attempts and results, ceiling,   *)
(* set of prices and set of routes; every ledger append and every answer   *)
(* may fail.                                                               *)
(*                                                                         *)
(* Neither property is inductive.  The ceiling bounds what was authorized, *)
(* so the invariant says that what was taken or may still be taken was     *)
(* authorized before.  The reported cost lags behind the chain between a   *)
(* payment and its answer, so the invariant says by how much in every      *)
(* phase: by the charged price while the attempt pays, and while it        *)
(* reconciles by nothing unless the payment was charged.                   *)
(***************************************************************************)
EXTENDS PaidRuns, SequenceTheorems, TLAPS

FraudOpen == IF fraudCharged THEN 0 ELSE fraudPrice

FraudCovered ==
    /\ fraudSpent + FraudOpen <= fraudAuthorized
    /\ fraudAuthorized <= MaxAuthorizedUnits

FraudPhased ==
    /\ fraudPhase \in {"NEXT", "ASKING"} => fraudPrice = 0
    /\ fraudPhase \in {"PAYING", "RECONCILING"} => fraudPrice > 0
    /\ fraudCharged => fraudPrice > 0

FraudAccounted ==
    /\ fraudPhase \in {"NEXT", "ASKING", "COMPLETE", "INCOMPLETE"} => fraudSettled = fraudSpent
    /\ fraudPhase = "PAYING" =>
        fraudSettled + (IF fraudCharged THEN fraudPrice ELSE 0) = fraudSpent
    /\ fraudPhase = "RECONCILING" /\ ~fraudCharged => fraudSettled = fraudSpent

FraudInv == Fraud!TypeOK /\ FraudCovered /\ FraudPhased /\ FraudAccounted

LEMMA FraudInit == Fraud!Init => FraudInv
<1> SUFFICES ASSUME Fraud!Init PROVE FraudInv
    OBVIOUS
<1>1. 1 \in 1..FraudAttempts /\ 0 <= MaxAuthorizedUnits
    BY FraudConstants DEF Fraud!FraudRunAssumption
<1>2. fraudTrail \in Seq(Fraud!EventTypes)
    BY DEF Fraud!Init
<1>3. Fraud!TypeOK
    BY <1>1, <1>2 DEF Fraud!Init, Fraud!TypeOK
<1> QED BY <1>1, <1>3 DEF Fraud!Init, FraudInv, FraudCovered, FraudPhased, FraudAccounted,
                          FraudOpen

\* The engine denies what its diagnosis says is unsettled.
LEMMA UnsettledIsDenied ==
    ASSUME NEW error \in Fraud!AskErrors
    PROVE  error.unsettled => error.denied
<1>1. PICK response \in Fraud!Response : error = Fraud!ErrorOf(response)
    BY DEF Fraud!AskErrors
<1> QED BY <1>1 DEF Fraud!ErrorOf, Fraud!Undiagnosed, Fraud!Diagnosis, Fraud!PaymentResponseFields

\* What a failed append leaves is still a list of events.
LEMMA FailedAppendType ==
    ASSUME NEW events \in Seq(Fraud!EventTypes), NEW event \in Fraud!EventTypes
    PROVE  /\ Append(events, event) \in Seq(Fraud!EventTypes)
           /\ Fraud!FailedAppend(events, event) \subseteq Seq(Fraud!EventTypes)
    BY AppendProperties DEF Fraud!FailedAppend

\* Going on is safe when the books are right and nothing is charged that was
\* not counted.
LEMMA AdvanceKeeps ==
    ASSUME FraudInv, Fraud!Advance,
           fraudTrail' \in Seq(Fraud!EventTypes), fraudSeen' \subseteq Routes,
           fraudSettled' \in Nat, fraudSettled' = fraudSpent,
           UNCHANGED <<fraudAuthorized, fraudSpent>>
    PROVE  FraudInv'
<1> USE FraudConstants DEF Fraud!FraudRunAssumption, FraudInv, Fraud!TypeOK, Fraud!Advance,
                          Fraud!LastAttempt
<1>1. Fraud!TypeOK'
    <2>1. CASE fraudAttempt = FraudAttempts
        BY <2>1
    <2>2. CASE fraudAttempt # FraudAttempts
        <3>1. FraudAttempts \in Nat /\ fraudAttempt \in 1..FraudAttempts
            OBVIOUS
        <3>2. fraudAttempt + 1 \in 1..FraudAttempts
            BY <2>2, <3>1
        <3>3. /\ fraudAttempt' = fraudAttempt + 1 /\ fraudPhase' = "NEXT"
              /\ fraudPrice' = 0 /\ fraudCharged' = FALSE
            BY <2>2
        <3> QED BY <3>2, <3>3
    <2> QED BY <2>1, <2>2
<1>2. FraudCovered'
    <2>1. CASE fraudAttempt = FraudAttempts
        BY <2>1 DEF FraudCovered, FraudOpen
    <2>2. CASE fraudAttempt # FraudAttempts
        BY <2>2 DEF FraudCovered, FraudOpen
    <2> QED BY <2>1, <2>2
<1>3. FraudPhased' /\ FraudAccounted'
    BY DEF FraudPhased, FraudAccounted
<1> QED BY <1>1, <1>2, <1>3

\* A run that ends with an error claims nothing about its costs.
LEMMA ThrowKeeps ==
    ASSUME FraudInv, Fraud!Throw,
           fraudTrail' \in Seq(Fraud!EventTypes), fraudSeen' \subseteq Routes,
           fraudSettled' \in Nat,
           UNCHANGED <<fraudAuthorized, fraudSpent>>
    PROVE  FraudInv'
    BY DEF FraudInv, Fraud!TypeOK, Fraud!Throw, FraudCovered, FraudOpen, FraudPhased,
           FraudAccounted

\* The catch block: it advances only when the payment did not settle.
LEMMA CaughtKeeps ==
    ASSUME FraudInv, fraudPhase \in {"ASKING", "PAYING"},
           NEW error, NEW events \in Seq(Fraud!EventTypes), Fraud!Caught(error, events),
           error.unsettled => ~fraudCharged,
           fraudSeen' \subseteq Routes, fraudSettled' \in Nat,
           ~fraudCharged \/ error.unsettled => fraudSettled' = fraudSettled,
           fraudPrice = 0 => fraudSettled' = fraudSettled,
           UNCHANGED <<fraudAuthorized, fraudSpent>>
    PROVE  FraudInv'
<1>1. fraudTrail' \in Seq(Fraud!EventTypes)
    <2>1. "FAILED" \in Fraud!EventTypes
        BY DEF Fraud!EventTypes
    <2> QED BY <2>1, FailedAppendType DEF Fraud!Caught
<1>2. CASE Fraud!Throw
    BY <1>1, <1>2, ThrowKeeps
<1>3. CASE /\ Fraud!Authorized /\ ~Fraud!ExplicitlyUnsettled(error)
           /\ fraudPhase' = "RECONCILING" /\ UNCHANGED <<fraudAttempt, fraudPrice, fraudCharged>>
    <2>1. Fraud!TypeOK' /\ FraudCovered' /\ FraudPhased'
        BY <1>1, <1>3 DEF FraudInv, Fraud!TypeOK, FraudCovered, FraudOpen, FraudPhased,
                          Fraud!Authorized
    <2>2. FraudAccounted'
        BY <1>3 DEF FraudInv, FraudAccounted, FraudPhased, Fraud!Authorized, Fraud!TypeOK
    <2> QED BY <2>1, <2>2 DEF FraudInv
<1>4. CASE /\ Fraud!Authorized => Fraud!ExplicitlyUnsettled(error)
           /\ Fraud!Advance
    <2>1. fraudSettled' = fraudSpent
        BY <1>4 DEF FraudInv, FraudAccounted, FraudPhased, Fraud!Authorized, Fraud!TypeOK,
                    Fraud!ExplicitlyUnsettled
    <2> QED BY <1>1, <1>4, <2>1, AdvanceKeeps
<1> QED BY <1>2, <1>3, <1>4 DEF Fraud!Caught

-----------------------------------------------------------------------------
(* Every step *)

LEMMA StartAttemptKeeps == FraudInv /\ Fraud!StartAttempt => FraudInv'
<1> SUFFICES ASSUME FraudInv, Fraud!StartAttempt PROVE FraudInv'
    OBVIOUS
<1>1. fraudTrail' \in Seq(Fraud!EventTypes)
    <2>1. <<>> \in Seq(Fraud!EventTypes) /\ "STARTED" \in Fraud!EventTypes
        BY DEF Fraud!EventTypes
    <2>2. <<"STARTED">> \in Seq(Fraud!EventTypes)
        BY <2>1
    <2> QED BY <2>1, <2>2, FailedAppendType DEF Fraud!StartAttempt
<1> QED BY <1>1 DEF Fraud!StartAttempt, FraudInv, Fraud!TypeOK, FraudCovered, FraudOpen,
                    FraudPhased, FraudAccounted

LEMMA AuthorizeKeeps ==
    ASSUME FraudInv, NEW units \in FraudAmounts, Fraud!Authorize(units)
    PROVE  FraudInv'
<1>1. units \in Nat /\ units > 0
    BY FraudConstants DEF Fraud!FraudRunAssumption
<1>2. fraudTrail' \in Seq(Fraud!EventTypes)
    <2>1. "PAYMENT_AUTHORIZED" \in Fraud!EventTypes
        BY DEF Fraud!EventTypes
    <2> QED BY <2>1, FailedAppendType DEF Fraud!Authorize, Fraud!RecordedFirst, FraudInv,
                                          Fraud!TypeOK
<1>3. ~fraudCharged /\ fraudPrice = 0
    BY DEF Fraud!Authorize, FraudInv, FraudPhased
<1> QED BY <1>1, <1>2, <1>3, FraudConstants
           DEF Fraud!FraudRunAssumption, Fraud!Authorize, Fraud!WithinCeiling, FraudInv,
               Fraud!TypeOK, FraudCovered, FraudOpen, FraudPhased, FraudAccounted

LEMMA AuthorizationNotRecordedKeeps ==
    ASSUME FraudInv, NEW units \in FraudAmounts, Fraud!AuthorizationNotRecorded(units)
    PROVE  FraudInv'
<1>1. PICK events \in Fraud!FailedAppend(fraudTrail, "PAYMENT_AUTHORIZED") :
        Fraud!Caught(Fraud!Undiagnosed("TRANSPORT_ERROR"), events)
    BY DEF Fraud!AuthorizationNotRecorded
<1>2. events \in Seq(Fraud!EventTypes)
    <2>1. "PAYMENT_AUTHORIZED" \in Fraud!EventTypes
        BY DEF Fraud!EventTypes
    <2> QED BY <2>1, FailedAppendType DEF FraudInv, Fraud!TypeOK
<1>3. ~Fraud!Undiagnosed("TRANSPORT_ERROR").unsettled
    BY DEF Fraud!Undiagnosed
<1> QED BY <1>1, <1>2, <1>3, CaughtKeeps DEF Fraud!AuthorizationNotRecorded, FraudInv, Fraud!TypeOK

LEMMA FailsKeeps ==
    ASSUME FraudInv, NEW error \in Fraud!AskErrors, Fraud!Fails(error)
    PROVE  FraudInv'
<1>1. error.unsettled => ~fraudCharged
    BY UnsettledIsDenied DEF Fraud!Fails
<1> QED BY <1>1, CaughtKeeps DEF Fraud!Fails, FraudInv, Fraud!TypeOK

LEMMA RespondKeeps ==
    ASSUME FraudInv, NEW route \in Routes, Fraud!Respond(route)
    PROVE  FraudInv'
<1> DEFINE type == IF route \in fraudSeen THEN "DUPLICATE" ELSE "SUCCEEDED"
<1>1. type \in Fraud!EventTypes
    BY DEF Fraud!EventTypes
<1>2. /\ fraudPhase \in {"ASKING", "PAYING"} /\ fraudSettled' = fraudSettled + fraudPrice
      /\ fraudPhase = "PAYING" => fraudCharged
      /\ fraudSeen' \subseteq Routes /\ fraudSettled' \in Nat
      /\ UNCHANGED <<fraudAuthorized, fraudSpent>>
    BY DEF Fraud!Respond, FraudInv, Fraud!TypeOK
<1>3. fraudSettled' = fraudSpent
    BY <1>2 DEF FraudInv, FraudPhased, FraudAccounted, Fraud!TypeOK
<1>4. CASE fraudTrail' = Append(fraudTrail, type) /\ Fraud!Advance
    BY <1>1, <1>2, <1>3, <1>4, FailedAppendType, AdvanceKeeps DEF FraudInv, Fraud!TypeOK
<1>5. CASE /\ fraudTrail' = Append(fraudTrail, type) /\ fraudPhase' = "COMPLETE"
           /\ UNCHANGED <<fraudAttempt, fraudPrice, fraudCharged>>
    <2>1. fraudTrail' \in Seq(Fraud!EventTypes)
        BY <1>1, <1>5, FailedAppendType DEF FraudInv, Fraud!TypeOK
    <2> QED BY <1>2, <1>3, <1>5, <2>1 DEF FraudInv, Fraud!TypeOK, FraudCovered, FraudOpen,
                                          FraudPhased, FraudAccounted
<1>6. ASSUME NEW events \in Fraud!FailedAppend(fraudTrail, type),
             Fraud!Caught(Fraud!Undiagnosed("UNCLASSIFIED"), events)
      PROVE  FraudInv'
    <2>1. events \in Seq(Fraud!EventTypes)
        BY <1>1, <1>6, FailedAppendType DEF FraudInv, Fraud!TypeOK
    <2>2. ~Fraud!Undiagnosed("UNCLASSIFIED").unsettled
        BY DEF Fraud!Undiagnosed
    <2>3. /\ ~fraudCharged => fraudSettled' = fraudSettled
          /\ fraudPrice = 0 => fraudSettled' = fraudSettled
        BY <1>2 DEF FraudInv, FraudPhased, Fraud!TypeOK
    <2> QED BY <1>2, <1>6, <2>1, <2>2, <2>3, CaughtKeeps
<1> QED BY <1>4, <1>5, <1>6 DEF Fraud!Respond

LEMMA RespondAnonymouslyKeeps == FraudInv /\ Fraud!RespondAnonymously => FraudInv'
<1> SUFFICES ASSUME FraudInv, Fraud!RespondAnonymously PROVE FraudInv'
    OBVIOUS
<1>1. /\ fraudPhase \in {"ASKING", "PAYING"}
      /\ fraudPhase = "PAYING" => fraudCharged
      /\ fraudSettled' = fraudSettled + fraudPrice
      /\ fraudSeen' \subseteq Routes /\ fraudSettled' \in Nat
      /\ UNCHANGED <<fraudAuthorized, fraudSpent>>
      /\ fraudTrail \in Seq(Fraud!EventTypes)
    BY DEF Fraud!RespondAnonymously, FraudInv, Fraud!TypeOK
<1>2. Fraud!Caught(Fraud!Undiagnosed("UNCLASSIFIED"), fraudTrail) /\ ~Fraud!Undiagnosed("UNCLASSIFIED").unsettled
    BY DEF Fraud!RespondAnonymously, Fraud!Undiagnosed
<1>3. /\ ~fraudCharged => fraudSettled' = fraudSettled
      /\ fraudPrice = 0 => fraudSettled' = fraudSettled
    BY <1>1 DEF FraudInv, FraudPhased, Fraud!TypeOK
<1> QED BY <1>1, <1>2, <1>3, CaughtKeeps

LEMMA ReconcileKeeps ==
    ASSUME FraudInv, NEW state, Fraud!Reconcile(state)
    PROVE  FraudInv'
<1>1. fraudTrail' \in Seq(Fraud!EventTypes)
    <2>1. "PAYMENT_RECONCILED" \in Fraud!EventTypes
        BY DEF Fraud!EventTypes
    <2> QED BY <2>1, FailedAppendType DEF Fraud!Reconcile, FraudInv, Fraud!TypeOK
<1>2. CASE Fraud!Throw
    BY <1>1, <1>2, ThrowKeeps DEF Fraud!Reconcile, FraudInv, Fraud!TypeOK
<1>3. CASE state = "EXPIRED_UNSETTLED" /\ Fraud!Advance
    <2>1. ~fraudCharged
        BY <1>3 DEF Fraud!Reconcile, Fraud!Reconciliation
    <2>2. fraudSettled = fraudSpent
        BY <2>1 DEF Fraud!Reconcile, FraudInv, FraudAccounted
    <2> QED BY <1>1, <1>3, <2>2, AdvanceKeeps DEF Fraud!Reconcile, FraudInv, Fraud!TypeOK
<1> QED BY <1>2, <1>3 DEF Fraud!Reconcile, Fraud!Expired

LEMMA SettlesKeeps == FraudInv /\ Fraud!Settles => FraudInv'
    BY DEF Fraud!Settles, Fraud!Authorized, FraudInv, Fraud!TypeOK, FraudCovered, FraudOpen,
           FraudPhased, FraudAccounted

LEMMA FraudNext == FraudInv /\ [Fraud!Next]_fraudVars => FraudInv'
<1> SUFFICES ASSUME FraudInv, [Fraud!Next]_fraudVars PROVE FraudInv'
    OBVIOUS
<1>1. CASE UNCHANGED fraudVars
    BY <1>1 DEF fraudVars, FraudInv, Fraud!TypeOK, FraudCovered, FraudOpen, FraudPhased,
                FraudAccounted
<1>2. CASE Fraud!Next
    <2>1. Fraud!Ended => UNCHANGED fraudVars
        BY DEF Fraud!Ended, Fraud!vars, fraudVars
    <2> QED BY <1>1, <1>2, <2>1, StartAttemptKeeps, AuthorizeKeeps, AuthorizationNotRecordedKeeps,
               FailsKeeps, RespondKeeps, RespondAnonymouslyKeeps, ReconcileKeeps, SettlesKeeps
            DEF Fraud!Next
<1> QED BY <1>1, <1>2

LEMMA FraudInvariance == EitherSpec => []FraudInv
<1>1. EitherInit => FraudInv
    BY FraudInit DEF EitherInit
<1>2. FraudInv /\ [EitherNext]_<<program, vars, fraudVars, paymentVars>> => FraudInv'
    BY FraudNext DEF EitherNext
<1> QED BY <1>1, <1>2, PTL DEF EitherSpec

\* The fraud run never spends, and never allows to be spent, more than its
\* ceiling, whatever the ledger, the engine and the facilitator do.
THEOREM FraudCeilingIsKept == EitherSpec => []FraudSpendWithinCeiling
<1>1. FraudInv => FraudSpendWithinCeiling
    BY FraudConstants DEF Fraud!FraudRunAssumption, FraudInv, FraudCovered, FraudOpen,
                          Fraud!TypeOK, FraudSpendWithinCeiling, Fraud!SpendWithinCeiling
<1> QED BY <1>1, FraudInvariance, PTL

\* Whenever the fraud run asks again or hands over its result, the cost it has
\* counted is what the chain has charged.
THEOREM FraudCostIsExact == EitherSpec => []FraudCostIsKnown
<1>1. FraudInv => FraudCostIsKnown
    BY DEF FraudInv, FraudAccounted, FraudCostIsKnown, Fraud!SettledCostIsKnown
<1> QED BY <1>1, FraudInvariance, PTL

=============================================================================
