------------------------- MODULE X402PaymentProofs -------------------------
(***************************************************************************)
(* What a wrong EXPIRED_UNSETTLED can come from, for every number of       *)
(* payments, set of prices and timeouts, grace and slack.                  *)
(*                                                                         *)
(* A transfer may follow the verdict, so the property is not inductive:    *)
(* the invariant says of every expired payment that the clock is past the  *)
(* expiry the reconciler reckoned with, and of its signature, transferred  *)
(* yet or not, how it can still be valid then (Explained).  A transfer     *)
(* made before the verdict lies between the authorization and the end of   *)
(* the signature (Timely), so the search would have found it.              *)
(***************************************************************************)
EXTENDS PaidRuns, TLAPS

Excused(p) ==
    \/ signed[p] # amount[p]
    \/ validBefore[p] > authorizedAt[p] + timeout[p] + Grace + 1

TimelyFor(p) ==
    /\ authorizedAt[p] # None =>
          authorizedAt[p] <= now /\ amount[p] # None /\ timeout[p] # None
    /\ signed[p] # None => authorizedAt[p] # None /\ validBefore[p] # None
    /\ settledAt[p] # None =>
          /\ signed[p] # None
          /\ authorizedAt[p] <= settledAt[p]
          /\ settledAt[p] < validBefore[p]
    /\ outcome[p] # None => authorizedAt[p] # None

ExplainedFor(p) ==
    outcome[p] = "EXPIRED_UNSETTLED" =>
        /\ now > Payment!Expiry(p)
        /\ settledAt[p] # None => Excused(p)

Timely == \A p \in Payments : TimelyFor(p)

Explained == \A p \in Payments : ExplainedFor(p)

PaymentInv == Payment!TypeOK /\ block <= now /\ Timely /\ Explained

\* The initial state.
LEMMA PaymentInit == Payment!Init => PaymentInv
<1> SUFFICES ASSUME Payment!Init PROVE PaymentInv
  OBVIOUS
<1>1. Payment!TypeOK
  BY DEF Payment!Init, Payment!TypeOK, Payment!Outcomes
<1>2. block <= now
  BY DEF Payment!Init
<1>3. Timely /\ Explained
  BY PaymentConstants
  DEF Payment!PaymentAssumption, Payment!Init, Timely, TimelyFor, Explained, ExplainedFor
<1> QED
  BY <1>1, <1>2, <1>3 DEF PaymentInv

\* What the fields of one payment hold.
LEMMA FieldTypes ==
    ASSUME Payment!TypeOK, NEW p \in Payments
    PROVE  /\ now \in Nat /\ block \in Nat
           /\ timeout[p] # None => timeout[p] \in Nat
           /\ authorizedAt[p] # None => authorizedAt[p] \in Nat
           /\ validBefore[p] # None => validBefore[p] \in Nat
           /\ settledAt[p] # None => settledAt[p] \in Nat
BY PaymentConstants DEF Payment!PaymentAssumption, Payment!TypeOK

\* The expiry of an authorized payment is a time.
LEMMA ExpiryType ==
    ASSUME Payment!TypeOK, NEW p \in Payments, TimelyFor(p), authorizedAt[p] # None
    PROVE  /\ authorizedAt[p] \in Nat /\ timeout[p] \in Nat
           /\ Payment!Expiry(p) = authorizedAt[p] + timeout[p] + Grace
           /\ Payment!Expiry(p) \in Nat
<1>1. authorizedAt[p] \in Nat /\ timeout[p] \in Nat
  BY FieldTypes DEF TimelyFor
<1>2. Payment!Expiry(p) = authorizedAt[p] + timeout[p] + Grace
  BY DEF Payment!Expiry
<1>3. Grace \in Nat
  BY PaymentConstants DEF Payment!PaymentAssumption
<1> QED
  BY <1>1, <1>2, <1>3

\* Time alone does not hurt a payment.
LEMMA Unaffected ==
    ASSUME Payment!TypeOK, NEW p \in Payments, TimelyFor(p), ExplainedFor(p),
           now' \in Nat, now <= now',
           amount'[p] = amount[p], timeout'[p] = timeout[p],
           authorizedAt'[p] = authorizedAt[p], signed'[p] = signed[p],
           validBefore'[p] = validBefore[p], settledAt'[p] = settledAt[p],
           outcome'[p] = outcome[p]
    PROVE  TimelyFor(p)' /\ ExplainedFor(p)'
<1>1. /\ now \in Nat
      /\ authorizedAt[p] # None => authorizedAt[p] \in Nat
  BY FieldTypes
<1>2. TimelyFor(p)'
  BY <1>1 DEF TimelyFor
<1>3. ExplainedFor(p)'
  <2> SUFFICES ASSUME outcome[p] = "EXPIRED_UNSETTLED"
               PROVE  now' > Payment!Expiry(p)' /\ (settledAt[p] # None => Excused(p)')
    BY DEF ExplainedFor
  <2>1. authorizedAt[p] # None
    BY PaymentConstants DEF Payment!PaymentAssumption, TimelyFor
  <2>2. Payment!Expiry(p) \in Nat /\ now > Payment!Expiry(p)
    BY <2>1, ExpiryType DEF ExplainedFor
  <2>3. Payment!Expiry(p)' = Payment!Expiry(p)
    BY DEF Payment!Expiry
  <2>4. Excused(p)' = Excused(p)
    BY DEF Excused
  <2> QED
    BY <1>1, <2>2, <2>3, <2>4 DEF ExplainedFor
<1> QED
  BY <1>2, <1>3

\* Every step preserves the types.
LEMMA PaymentStepType == Payment!TypeOK /\ [Payment!Next]_paymentVars => Payment!TypeOK'
<1> SUFFICES ASSUME Payment!TypeOK, [Payment!Next]_paymentVars PROVE Payment!TypeOK'
  OBVIOUS
<1> USE DEF Payment!TypeOK, Payment!authority, Payment!signature
<1>1. ASSUME NEW p \in Payments, NEW offers \in SUBSET Offers, NEW seconds \in Timeouts,
             Payment!Authorize(p, offers, seconds)
      PROVE  Payment!TypeOK'
  BY <1>1 DEF Payment!Authorize, Payment!Selected, Payment!Cheapest
<1>2. ASSUME NEW p \in Payments, NEW offer \in Offers, NEW seconds \in Timeouts,
             Payment!Sign(p, offer, seconds)
      PROVE  Payment!TypeOK'
  <2>1. now + seconds \in Nat
    BY PaymentConstants DEF Payment!PaymentAssumption
  <2> QED
    BY <1>2, <2>1 DEF Payment!Sign
<1>3. ASSUME NEW p \in Payments, Payment!Settle(p) PROVE Payment!TypeOK'
  BY <1>3 DEF Payment!Settle
<1>4. ASSUME NEW p \in Payments, Payment!Answer(p) PROVE Payment!TypeOK'
  BY <1>4 DEF Payment!Answer, Payment!Outcomes
<1>5. ASSUME NEW p \in Payments, Payment!Lose(p) PROVE Payment!TypeOK'
  BY <1>5 DEF Payment!Lose, Payment!Outcomes
<1>6. ASSUME NEW p \in Payments, Payment!Reconcile(p) PROVE Payment!TypeOK'
  BY <1>6 DEF Payment!Reconcile, Payment!Outcomes
<1>7. CASE Payment!Tick \/ Payment!NewBlock
  BY <1>7 DEF Payment!Tick, Payment!NewBlock
<1>8. CASE Payment!ClockAtBound \/ UNCHANGED paymentVars
  BY <1>8 DEF Payment!ClockAtBound, Payment!vars, paymentVars
<1> QED
  BY <1>1, <1>2, <1>3, <1>4, <1>5, <1>6, <1>7, <1>8 DEF Payment!Next

-----------------------------------------------------------------------------
(* The steps of one payment leave the others as they are *)

\* It is enough to look at the payment that changed.
LEMMA OthersKeep ==
    ASSUME PaymentInv, NEW p \in Payments, now' \in Nat, now <= now', block' <= now',
           \A q \in Payments \ {p} :
               /\ amount'[q] = amount[q] /\ timeout'[q] = timeout[q]
               /\ authorizedAt'[q] = authorizedAt[q] /\ signed'[q] = signed[q]
               /\ validBefore'[q] = validBefore[q] /\ settledAt'[q] = settledAt[q]
               /\ outcome'[q] = outcome[q],
           TimelyFor(p)', ExplainedFor(p)'
    PROVE  block' <= now' /\ Timely' /\ Explained'
<1>1. ASSUME NEW q \in Payments \ {p} PROVE TimelyFor(q)' /\ ExplainedFor(q)'
  <2>1. TimelyFor(q) /\ ExplainedFor(q)
    BY DEF PaymentInv, Timely, Explained
  <2> QED
    BY <2>1, Unaffected DEF PaymentInv
<1> QED
  BY <1>1 DEF Timely, Explained

LEMMA AuthorizeKeeps ==
    ASSUME PaymentInv, NEW p \in Payments, NEW offers \in SUBSET Offers,
           NEW seconds \in Timeouts, Payment!Authorize(p, offers, seconds)
    PROVE  block' <= now' /\ Timely' /\ Explained'
<1>1. PICK offer \in Payment!Selected(offers) : amount' = [amount EXCEPT ![p] = offer]
  BY DEF Payment!Authorize
<1>2. offer # None /\ seconds # None /\ now \in Nat
  <2>1. offer \in Offers
    BY DEF Payment!Selected, Payment!Cheapest
  <2> QED
    BY <2>1, PaymentConstants DEF Payment!PaymentAssumption, PaymentInv, Payment!TypeOK
<1>3. /\ authorizedAt[p] = None /\ authorizedAt'[p] = now
      /\ amount'[p] = offer /\ timeout'[p] = seconds
      /\ UNCHANGED <<now, block, signed, validBefore, settledAt, outcome>>
      /\ \A q \in Payments \ {p} :
            amount'[q] = amount[q] /\ timeout'[q] = timeout[q] /\ authorizedAt'[q] = authorizedAt[q]
  BY <1>1 DEF Payment!Authorize, Payment!signature, PaymentInv, Payment!TypeOK
<1>4. signed[p] = None /\ settledAt[p] = None /\ outcome[p] = None
  BY <1>3 DEF PaymentInv, Timely, TimelyFor
<1>5. TimelyFor(p)' /\ ExplainedFor(p)'
  BY <1>2, <1>3, <1>4, PaymentConstants DEF Payment!PaymentAssumption, TimelyFor, ExplainedFor
<1>6. now <= now' /\ block' <= now' /\ now' \in Nat
  BY <1>2, <1>3 DEF PaymentInv
<1> QED
  BY <1>3, <1>5, <1>6, OthersKeep

LEMMA SignKeeps ==
    ASSUME PaymentInv, NEW p \in Payments, NEW offer \in Offers,
           NEW seconds \in Timeouts, Payment!Sign(p, offer, seconds)
    PROVE  block' <= now' /\ Timely' /\ Explained'
<1>1. /\ authorizedAt[p] # None /\ signed[p] = None /\ outcome[p] = None
      /\ signed'[p] = offer /\ validBefore'[p] = now + seconds
      /\ UNCHANGED <<now, block, amount, timeout, authorizedAt, settledAt, outcome>>
      /\ \A q \in Payments \ {p} : signed'[q] = signed[q] /\ validBefore'[q] = validBefore[q]
  BY DEF Payment!Sign, Payment!authority, PaymentInv, Payment!TypeOK
<1>2. settledAt[p] = None
  BY <1>1 DEF PaymentInv, Timely, TimelyFor
<1>3. now \in Nat /\ now + seconds # None
  BY PaymentConstants DEF Payment!PaymentAssumption, PaymentInv, Payment!TypeOK
<1>4. TimelyFor(p)' /\ ExplainedFor(p)'
  BY <1>1, <1>2, <1>3, PaymentConstants
  DEF Payment!PaymentAssumption, TimelyFor, ExplainedFor, PaymentInv, Timely
<1>5. now <= now' /\ block' <= now' /\ now' \in Nat
  BY <1>1, <1>3 DEF PaymentInv
<1> QED
  BY <1>1, <1>4, <1>5, OthersKeep

\* A signature that still settles an expired payment outlives the expiry.
LEMMA SettleKeeps ==
    ASSUME PaymentInv, NEW p \in Payments, Payment!Settle(p)
    PROVE  block' <= now' /\ Timely' /\ Explained'
<1>1. /\ signed[p] # None /\ now < validBefore[p]
      /\ settledAt'[p] = now /\ block' = now
      /\ UNCHANGED <<now, amount, timeout, authorizedAt, signed, validBefore, outcome>>
      /\ \A q \in Payments \ {p} : settledAt'[q] = settledAt[q]
  BY DEF Payment!Settle, Payment!authority, Payment!signature, PaymentInv, Payment!TypeOK
<1>2. TimelyFor(p) /\ ExplainedFor(p) /\ now \in Nat
  BY DEF PaymentInv, Timely, Explained, Payment!TypeOK
<1>3. authorizedAt[p] # None /\ authorizedAt[p] <= now /\ validBefore[p] # None
  BY <1>1, <1>2 DEF TimelyFor
<1>4. validBefore[p] \in Nat
  BY <1>3, FieldTypes DEF PaymentInv
<1>5. TimelyFor(p)'
  BY <1>1, <1>2, <1>3 DEF TimelyFor
<1>6. ExplainedFor(p)'
  <2> SUFFICES ASSUME outcome[p] = "EXPIRED_UNSETTLED"
               PROVE  now > Payment!Expiry(p)' /\ Excused(p)'
    BY <1>1 DEF ExplainedFor
  <2>1. Payment!Expiry(p)' = Payment!Expiry(p) /\ Excused(p)' = Excused(p)
    BY <1>1 DEF Payment!Expiry, Excused
  <2>2. now > Payment!Expiry(p)
    BY <1>2 DEF ExplainedFor
  <2>3. Payment!Expiry(p) \in Nat /\ Payment!Expiry(p) = authorizedAt[p] + timeout[p] + Grace
    BY <1>2, <1>3, ExpiryType DEF PaymentInv
  <2>4. validBefore[p] > Payment!Expiry(p) + 1
    BY <1>1, <1>2, <1>4, <2>2, <2>3
  <2>5. Excused(p)
    BY <2>3, <2>4 DEF Excused
  <2> QED
    BY <2>1, <2>2, <2>5
<1>7. now <= now' /\ block' <= now' /\ now' \in Nat
  BY <1>1, <1>2
<1> QED
  BY <1>1, <1>5, <1>6, <1>7, OthersKeep

\* An outcome other than EXPIRED_UNSETTLED claims nothing.
LEMMA LabelKeeps ==
    ASSUME PaymentInv, NEW p \in Payments, NEW label \in {"ANSWERED", "LOST", "SETTLED"},
           authorizedAt[p] # None, outcome' = [outcome EXCEPT ![p] = label],
           UNCHANGED <<now, block, amount, timeout, authorizedAt, signed, validBefore, settledAt>>
    PROVE  block' <= now' /\ Timely' /\ Explained'
<1>1. /\ outcome'[p] = label
      /\ \A q \in Payments \ {p} : outcome'[q] = outcome[q]
  BY DEF PaymentInv, Payment!TypeOK
<1>2. TimelyFor(p)' /\ ExplainedFor(p)'
  BY <1>1 DEF TimelyFor, ExplainedFor, PaymentInv, Timely
<1>3. now <= now' /\ block' <= now' /\ now' \in Nat
  BY DEF PaymentInv, Payment!TypeOK
<1> QED
  BY <1>1, <1>2, <1>3, OthersKeep

\* A transfer the search does not find was not of the amount, or came after the
\* expiry, on a signature that outlives it.
LEMMA ReconcileKeeps ==
    ASSUME PaymentInv, NEW p \in Payments, Payment!Reconcile(p)
    PROVE  block' <= now' /\ Timely' /\ Explained'
<1>1. /\ outcome[p] = "LOST" /\ block > Payment!Expiry(p)
      /\ UNCHANGED <<now, block, amount, timeout, authorizedAt, signed, validBefore, settledAt>>
  BY DEF Payment!Reconcile, Payment!authority, Payment!signature
<1>2. TimelyFor(p) /\ now \in Nat /\ block \in Nat /\ block <= now
  BY DEF PaymentInv, Timely, Payment!TypeOK
<1>3. authorizedAt[p] # None
  BY <1>1, <1>2, PaymentConstants DEF Payment!PaymentAssumption, TimelyFor
<1>4. CASE \E q \in Payments : Payment!Matches(p, q)
  <2>1. outcome' = [outcome EXCEPT ![p] = "SETTLED"]
    BY <1>4 DEF Payment!Reconcile
  <2> QED
    BY <1>1, <1>3, <2>1, LabelKeeps
<1>5. CASE ~\E q \in Payments : Payment!Matches(p, q)
  <2>1. /\ outcome'[p] = "EXPIRED_UNSETTLED"
        /\ \A q \in Payments \ {p} : outcome'[q] = outcome[q]
    BY <1>5 DEF Payment!Reconcile, PaymentInv, Payment!TypeOK
  <2>2. /\ Payment!Expiry(p) \in Nat /\ authorizedAt[p] \in Nat
        /\ Payment!Expiry(p) = authorizedAt[p] + timeout[p] + Grace
    BY <1>2, <1>3, ExpiryType DEF PaymentInv
  <2>3. settledAt[p] # None => Excused(p)
    <3> SUFFICES ASSUME settledAt[p] # None, signed[p] = amount[p] PROVE Excused(p)
      BY DEF Excused
    <3>1. /\ signed[p] # None /\ validBefore[p] # None
          /\ authorizedAt[p] <= settledAt[p] /\ settledAt[p] < validBefore[p]
      BY <1>2 DEF TimelyFor
    <3>2. settledAt[p] \in Nat /\ validBefore[p] \in Nat
      BY <3>1, FieldTypes DEF PaymentInv
    <3>3. settledAt[p] >= authorizedAt[p] - Slack
      BY <2>2, <3>1, <3>2, PaymentConstants DEF Payment!PaymentAssumption
    <3>4. ~(settledAt[p] <= Payment!Expiry(p))
      BY <1>5, <3>3 DEF Payment!Matches
    <3>5. validBefore[p] > Payment!Expiry(p) + 1
      BY <2>2, <3>1, <3>2, <3>4
    <3> QED
      BY <2>2, <3>5 DEF Excused
  <2>4. now > Payment!Expiry(p)
    BY <1>1, <1>2, <2>2
  <2>5. Payment!Expiry(p)' = Payment!Expiry(p) /\ Excused(p)' = Excused(p)
    BY <1>1 DEF Payment!Expiry, Excused
  <2>6. TimelyFor(p)' /\ ExplainedFor(p)'
    BY <1>1, <1>2, <1>3, <2>3, <2>4, <2>5 DEF TimelyFor, ExplainedFor
  <2>7. now <= now' /\ block' <= now' /\ now' \in Nat
    BY <1>1, <1>2
  <2> QED
    BY <1>1, <2>1, <2>6, <2>7, OthersKeep
<1> QED
  BY <1>4, <1>5

-----------------------------------------------------------------------------
(* Every step *)

LEMMA PaymentStep == PaymentInv /\ [Payment!Next]_paymentVars => PaymentInv'
<1> SUFFICES ASSUME PaymentInv, [Payment!Next]_paymentVars PROVE PaymentInv'
  OBVIOUS
<1>1. Payment!TypeOK /\ Payment!TypeOK'
  BY PaymentStepType DEF PaymentInv
<1>2. ASSUME NEW p \in Payments, Payment!Answer(p) PROVE block' <= now' /\ Timely' /\ Explained'
  <2>1. authorizedAt[p] # None
    BY <1>2 DEF Payment!Answer, PaymentInv, Timely, TimelyFor
  <2> QED
    BY <1>2, <2>1, LabelKeeps DEF Payment!Answer, Payment!authority, Payment!signature
<1>3. ASSUME NEW p \in Payments, Payment!Lose(p) PROVE block' <= now' /\ Timely' /\ Explained'
  BY <1>3, LabelKeeps DEF Payment!Lose, Payment!authority, Payment!signature
<1>4. CASE \/ Payment!Tick \/ Payment!NewBlock \/ Payment!ClockAtBound
           \/ UNCHANGED paymentVars
  <2>1. /\ now' \in Nat /\ now <= now' /\ block' <= now'
        /\ UNCHANGED <<amount, timeout, authorizedAt, signed, validBefore, settledAt, outcome>>
    BY <1>1, <1>4 DEF PaymentInv, Payment!TypeOK, Payment!Tick, Payment!NewBlock,
       Payment!ClockAtBound, Payment!vars, paymentVars, Payment!authority, Payment!signature
  <2>2. ASSUME NEW q \in Payments PROVE TimelyFor(q)' /\ ExplainedFor(q)'
    <3>1. TimelyFor(q) /\ ExplainedFor(q)
      BY DEF PaymentInv, Timely, Explained
    <3> QED
      BY <1>1, <2>1, <3>1, Unaffected
  <2> QED
    BY <1>1, <2>1, <2>2 DEF PaymentInv, Timely, Explained
<1>5. block' <= now' /\ Timely' /\ Explained'
  BY <1>2, <1>3, <1>4, AuthorizeKeeps, SignKeeps, SettleKeeps, ReconcileKeeps
  DEF Payment!Next, PaymentInv
<1> QED
  BY <1>1, <1>5 DEF PaymentInv

LEMMA PaymentInvariance == EitherSpec => []PaymentInv
<1>1. EitherInit => PaymentInv
  BY PaymentInit DEF EitherInit
<1>2. PaymentInv /\ [EitherNext]_<<program, vars, fraudVars, paymentVars>> => PaymentInv'
  BY PaymentStep DEF EitherNext
<1> QED
  BY <1>1, <1>2, PTL DEF EitherSpec

\* When EXPIRED_UNSETTLED is wrong, another amount was signed than authorized or the
\* signature outlives the expiry by more than a second, and this for every number of
\* payments, timeout, grace and slack: no other delay and no other payment matters.
THEOREM FalseExpiriesAreExplained == EitherSpec => []FalseExpiryIsExplained
<1>1. PaymentInv => FalseExpiryIsExplained
  BY DEF PaymentInv, Explained, ExplainedFor, Excused, FalseExpiryIsExplained,
         Payment!FalseExpiryIsExplained
<1> QED
  BY <1>1, PaymentInvariance, PTL

=============================================================================
