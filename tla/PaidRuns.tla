------------------------------ MODULE PaidRuns ------------------------------
(***************************************************************************)
(* The policy's paid run, the fraud run, or the payments behind both, the  *)
(* program chosen in the initial state.  The two runs share the engine     *)
(* client and nothing else, and see of a payment what its price, its       *)
(* transfer and the reconciler's verdict are; how a verdict comes about    *)
(* is the third program.  What is not chosen stays in its initial state.   *)
(***************************************************************************)
EXTENDS PaidVerificationRun

CONSTANTS FraudAttempts, FraudResults, FraudAmounts, Routes,
          Payments, Offers, MaxCost, Timeouts, Grace, Slack, Concurrent, MaxTime, None

VARIABLES program,
          fraudAttempt, fraudPhase, fraudPrice, fraudAuthorized, fraudSettled,
          fraudSeen, fraudTrail, fraudCharged, fraudSpent,
          now, block, amount, timeout, authorizedAt, signed, validBefore, settledAt, outcome

fraudVars == <<fraudAttempt, fraudPhase, fraudPrice, fraudAuthorized, fraudSettled,
               fraudSeen, fraudTrail, fraudCharged, fraudSpent>>

paymentVars == <<now, block, amount, timeout, authorizedAt, signed, validBefore,
                 settledAt, outcome>>

Fraud == INSTANCE PaidFraudRun
            WITH MaxAttempts <- FraudAttempts, RequiredDistinctResults <- FraudResults,
                 Amounts <- FraudAmounts, attemptNumber <- fraudAttempt,
                 phase <- fraudPhase, price <- fraudPrice,
                 authorizedUnits <- fraudAuthorized, settledUnits <- fraudSettled,
                 seenIdentities <- fraudSeen, trail <- fraudTrail,
                 charged <- fraudCharged, spentUnits <- fraudSpent

Payment == INSTANCE X402Payment

ASSUME FraudConstants == Fraud!FraudRunAssumption

ASSUME PaymentConstants == Payment!PaymentAssumption

EitherInit ==
    /\ program \in {"POLICY", "FRAUD", "PAYMENTS"}
    /\ Init /\ Fraud!Init /\ Payment!Init

EitherNext ==
    \/ program = "POLICY" /\ Next /\ UNCHANGED <<program, fraudVars, paymentVars>>
    \/ program = "FRAUD" /\ Fraud!Next /\ UNCHANGED <<program, vars, paymentVars>>
    \/ program = "PAYMENTS" /\ Payment!Next /\ UNCHANGED <<program, vars, fraudVars>>

EitherSpec == EitherInit /\ [][EitherNext]_<<program, vars, fraudVars, paymentVars>>

\* SpendWithinCeiling of the fraud run.
FraudSpendWithinCeiling == Fraud!SpendWithinCeiling

\* SettledCostIsKnown of the fraud run.
FraudCostIsKnown == Fraud!SettledCostIsKnown

\* FalseExpiryIsExplained of the payments.
FalseExpiryIsExplained == Payment!FalseExpiryIsExplained

=============================================================================
