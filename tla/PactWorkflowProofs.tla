------------------------- MODULE PactWorkflowProofs -------------------------
(***************************************************************************)
(* Theorems about the whole workflow, for any number of pacts, runs,       *)
(* deliveries, signatures and overlapping actions, with the operator       *)
(* scripts and every failure: each step of it is a step of the store or    *)
(* leaves the store alone, so what PactStoreProofs proves of the store     *)
(* holds here; and money needs a RELEASE receipt, and the books match the  *)
(* chain.  Without the operator scripts verdicts are final, runs are alone *)
(* and a lost confirmation stays acceptable.                               *)
(***************************************************************************)
EXTENDS PactWorkflow, PactStoreProofs

-----------------------------------------------------------------------------
(* What an action carries between its reads and its write is of the pact it
   acts on. *)

StoreInv == /\ TypeOK
            /\ StatusIsExplained
            /\ FundingEvidenceComplete
            /\ IdempotencyHolds

Requests ==
    /\ refundable \subseteq Pacts
    /\ permits \subseteq Pacts \X Runs
    /\ submitting \subseteq Pacts \X SubmissionKeys \X Artifacts
    /\ authorizations \subseteq Signature
    /\ attempts \subseteq Pacts \X Runs
    /\ preparing \subseteq Pacts \X Runs

\* The bound on deliveries, and what runs and recoveries know of them.
Bounded ==
    /\ \A p \in Pacts : Latest(p) <= MaxSubmissions
    /\ executors \subseteq Executor
    /\ \A e \in executors : e.submission <= MaxSubmissions
    /\ recovering \subseteq Pacts \X Nat \X Runs
    /\ \A request \in recovering : request[2] <= MaxSubmissions

ReleaseReceipt(p, run) ==
    \E r \in receipts : r.run = run /\ r.pact = p /\ r.decision = "RELEASE"

\* prepareReleaseAction has read a RELEASE receipt of the pact it prepares for.
Prepared == \A request \in preparing : ReleaseReceipt(request[1], request[2])

StoreStepInv == StoreInv /\ Requests /\ Bounded /\ Prepared

-----------------------------------------------------------------------------
(* Every step is a step of the store *)

\* Work was delivered to a pact that can be verified or sent back.
LEMMA DeliveredIsKnown ==
    ASSUME StoreInv, NEW p \in Pacts, pacts[p].status \notin {"NONE", "DRAFT", "FUNDED"}
    PROVE  Latest(p) \in DOMAIN submissions[p]
<1>1. submissions[p] \in Seq(Submission) /\ submissions[p] # <<>>
    BY DEF StoreInv, TypeOK, StatusIsExplained, Explained
<1> QED BY <1>1, EmptySeq DEF Latest

LEMMA BeginIsStoreStep ==
    ASSUME StoreInv, NEW p \in Pacts, BeginVerification(p, Latest(p))
    PROVE  Next
<1>1. Latest(p) \in DOMAIN submissions[p]
    BY DeliveredIsKnown DEF BeginVerification, Verifiable
<1> QED BY <1>1 DEF Next

LEMMA StartIsStoreStep ==
    ASSUME NEW p \in Pacts, NEW run \in Runs, NEW key \in RunKeys,
           NEW decision \in SettlementDecision, NEW sharedMiner \in BOOLEAN, NEW submission,
           StartCompletion(p, submission, run, key, decision, sharedMiner)
    PROVE  Next
<1>1. submission \in DOMAIN submissions[p]
    BY DEF StartCompletion
<1> QED BY <1>1 DEF Next

\* A delivery that exists is among the submissions a run key may name.
LEMMA KeyOfDelivery ==
    ASSUME StoreInv, Bounded, NEW p \in Pacts, NEW submission \in DOMAIN submissions[p],
           NEW kind \in {"service", "recovered"}, NEW run \in Runs \cup {None}
    PROVE  [kind |-> kind, submission |-> submission, run |-> run] \in RunKeys
<1>1. submissions[p] \in Seq(Submission) /\ Latest(p) <= MaxSubmissions
    BY DEF StoreInv, TypeOK, Bounded
<1>2. submission \in 1..MaxSubmissions
    BY <1>1, WorkflowAssumption DEF Latest
<1> QED BY <1>2, WorkflowAssumption

LEMMA StoreStep == StoreStepInv /\ [WorkflowNext]_workflowVars => [Next]_storeVars
<1> SUFFICES ASSUME StoreStepInv, [WorkflowNext]_workflowVars
             PROVE  [Next]_storeVars
    OBVIOUS
<1>0. StoreInv /\ Requests /\ Bounded /\ Prepared
    BY DEF StoreStepInv
<1>1. ASSUME NEW p \in Pacts, CreatePactAction(p) \/ CreatePactDraft(p) PROVE Next
    BY <1>1, WorkflowAssumption DEF CreatePactAction, CreatePactDraft, Next
<1>2. ASSUME NEW p \in Pacts, ConfirmFundingAction(p) PROVE Next
    <2>1. [tx |-> p, onchainId |-> p] \in FundingEvidence
        BY WorkflowAssumption DEF FundingEvidence
    <2> QED BY <1>2, <2>1 DEF ConfirmFundingAction, Next
<1>3. ASSUME NEW request \in submitting, SubmitEvidenceWrites(request) PROVE Next
    <2>1. /\ request[1] \in Pacts /\ request[2] \in SubmissionKeys /\ request[3] \in Artifacts
          /\ Worker \in Parties
        BY <1>0, WorkflowAssumption DEF Requests
    <2> QED BY <1>3, <2>1 DEF SubmitEvidenceWrites, Next
<1>4. ASSUME NEW p \in Pacts, NEW key \in ChangeKeys, RequestChangesAction(p, key) PROVE Next
    <2>1. CreateChangeRequest(p, Requester, Latest(p), key)
        BY <1>4 DEF RequestChangesAction
    <2>2. Latest(p) \in DOMAIN submissions[p]
        BY <1>0, <2>1, DeliveredIsKnown DEF CreateChangeRequest
    <2> QED BY <2>1, <2>2, WorkflowAssumption DEF Next
<1>5. ASSUME NEW signature \in authorizations, NEW run \in Runs,
             AuthorizeVerificationAction(signature, run)
      PROVE  Next
    <2>1. signature.pact \in Pacts
        BY <1>0 DEF Requests, Signature
    <2> QED BY <1>0, <1>5, <2>1, BeginIsStoreStep DEF AuthorizeVerificationAction
<1>6. ASSUME NEW p \in Pacts, NEW run \in Runs, ExecuteServiceBegins(p, run) PROVE Next
    BY <1>0, <1>6, BeginIsStoreStep DEF ExecuteServiceBegins
<1>7. ASSUME NEW e \in executors, NEW decision \in SettlementDecision,
             NEW sharedMiner \in BOOLEAN, ExecutorDecides(e, decision, sharedMiner)
      PROVE  Next
    <2>1. e.pact \in Pacts /\ e.run \in Runs
        BY <1>0 DEF Bounded, Executor
    <2>2. StartCompletion(e.pact, e.submission, e.run, ServiceKey(e), decision, sharedMiner)
        BY <1>7 DEF ExecutorDecides
    <2>3. ServiceKey(e) \in RunKeys
        BY <1>0, <2>1, <2>2, KeyOfDelivery DEF StartCompletion, ServiceKey
    <2> QED BY <2>1, <2>2, <2>3, StartIsStoreStep
<1>8. ASSUME NEW request \in recovering, RecoverWrites(request) PROVE Next
    <2> DEFINE key == [kind |-> "recovered", submission |-> request[2], run |-> None]
    <2>1. request[1] \in Pacts /\ request[3] \in Runs
        BY <1>0 DEF Bounded
    <2>2. StartCompletion(request[1], request[2], request[3], key, "RETRY", FALSE)
        BY <1>8 DEF RecoverWrites
    <2>3. key \in RunKeys
        BY <1>0, <2>1, <2>2, KeyOfDelivery DEF StartCompletion
    <2> HIDE DEF key
    <2> QED BY <2>1, <2>2, <2>3, StartIsStoreStep DEF SettlementDecision
<1>9. ASSUME NEW c \in completions, CompletionCommits(c) \/ CompletionAborts(c) PROVE Next
    BY <1>9 DEF CompletionCommits, CompletionAborts, Next
<1>10. ASSUME NEW request \in preparing, PrepareReleaseSigns(request) PROVE Next
    <2>1. PICK receipt \in receipts : /\ receipt.run = request[2]
                                      /\ AppendAuthorized(request[1], receipt)
        BY <1>10 DEF PrepareReleaseSigns
    <2>2. PICK r \in receipts : r.run = request[2] /\ r.pact = request[1]
        BY <1>0 DEF Prepared, ReleaseReceipt
    <2>3. r = receipt
        BY <1>0, <2>1, <2>2 DEF StoreInv, IdempotencyHolds
    <2> QED BY <2>1, <2>2, <2>3 DEF Next
<1>11. ASSUME NEW p \in Pacts, NEW receipt \in receipts, ConfirmReleaseAction(p, receipt)
       PROVE  Next
    BY <1>11, WorkflowAssumption DEF ConfirmReleaseAction, Next
<1>12. ASSUME NEW p \in Pacts,
              \/ \E terms \in {Agreed, Other} : FundOnchain(p, terms)
              \/ RefundWindowOpens(p)
              \/ RefundOnchain(p)
              \/ \E key \in SubmissionKeys, artifact \in Artifacts : SubmitEvidenceReads(p, key, artifact)
              \/ \E nonce \in Nonces : SignAuthorization(p, nonce)
              \/ \E run \in Runs : ExecuteServiceJoins(p, run) \/ RecoverReads(p, run)
              \/ \E receipt \in receipts : PrepareReleaseReads(p, receipt)
       PROVE  UNCHANGED storeVars
    BY <1>12 DEF FundOnchain, RefundWindowOpens, RefundOnchain, SubmitEvidenceReads,
                 SignAuthorization, ExecuteServiceJoins, RecoverReads, PrepareReleaseReads
<1>13. ASSUME NEW request, SubmitEvidenceEnds(request) PROVE UNCHANGED storeVars
    BY <1>13 DEF SubmitEvidenceEnds
<1>14. ASSUME NEW e, ExecutorReads(e) \/ ExecutorAttempts(e) \/ ExecutorEnds(e)
       PROVE  UNCHANGED storeVars
    BY <1>14 DEF ExecutorReads, ExecutorAttempts, ExecutorEnds
<1>15. ASSUME NEW permit, SettleOnchain(permit) \/ PermitExpires(permit)
       PROVE  UNCHANGED storeVars
    BY <1>15 DEF SettleOnchain, PermitExpires
<1>16. CASE UNCHANGED workflowVars
    BY <1>16 DEF workflowVars
<1> QED BY <1>1, <1>2, <1>3, <1>4, <1>5, <1>6, <1>7, <1>8, <1>9, <1>10, <1>11, <1>12, <1>13,
           <1>14, <1>15, <1>16 DEF WorkflowNext

-----------------------------------------------------------------------------
(* ... and what is carried stays of its pact *)

LEMMA StoreInvStep ==
    ASSUME StoreStepInv, [WorkflowNext]_workflowVars
    PROVE  StoreInv' /\ HistoryKept
<1>1. StoreInv /\ [Next]_storeVars
    BY StoreStep DEF StoreStepInv
<1> QED BY <1>1, StepType, ExplainedStep, FundingStep, IdempotencyStep, HistoryStep DEF StoreInv

LEMMA InitRequests == WorkflowInit => StoreStepInv
<1> SUFFICES ASSUME WorkflowInit PROVE StoreStepInv
    OBVIOUS
<1>1. StoreInv
    BY InitType, InitInvariants DEF WorkflowInit, StoreInv
<1>2. \A p \in Pacts : Latest(p) = 0
    BY DEF WorkflowInit, Init, Latest
<1> QED BY <1>1, <1>2, WorkflowAssumption
        DEF WorkflowInit, StoreStepInv, Requests, Bounded, Prepared

LEMMA RequestsStep ==
    ASSUME StoreStepInv, [WorkflowNext]_workflowVars
    PROVE  Requests'
<1>0. StoreInv /\ Requests /\ Bounded
    BY DEF StoreStepInv
<1>1. ASSUME NEW p \in Pacts, RefundWindowOpens(p) PROVE Requests'
    BY <1>0, <1>1 DEF RefundWindowOpens, Requests, runVars, signingVars, requestVars
<1>2. ASSUME NEW p \in Pacts, NEW key \in SubmissionKeys, NEW artifact \in Artifacts,
             SubmitEvidenceReads(p, key, artifact)
      PROVE  Requests'
    BY <1>0, <1>2 DEF SubmitEvidenceReads, Requests, runVars, chainVars
<1>3. ASSUME NEW request \in submitting,
             SubmitEvidenceWrites(request) \/ SubmitEvidenceEnds(request)
      PROVE  Requests'
    BY <1>0, <1>3 DEF SubmitEvidenceWrites, SubmitEvidenceEnds, Requests, runVars, chainVars
<1>4. ASSUME NEW p \in Pacts, NEW nonce \in Nonces, SignAuthorization(p, nonce)
      PROVE  Requests'
    <2> DEFINE signature == [pact |-> p, submission |-> Latest(p), nonce |-> nonce, uses |-> 0]
    <2>1. Latest(p) \in 1..MaxSubmissions
        BY <1>0, <1>4, WorkflowAssumption DEF SignAuthorization, Bounded, StoreInv, TypeOK, Latest
    <2>2. signature \in Signature
        BY <2>1 DEF Signature
    <2>3. authorizations' = authorizations \cup {signature}
          /\ UNCHANGED <<storeVars, chainVars, runVars, requestVars>>
        BY <1>4 DEF SignAuthorization
    <2> HIDE DEF signature
    <2> QED BY <1>0, <2>2, <2>3 DEF Requests, chainVars, runVars, requestVars
<1>5. ASSUME NEW signature \in authorizations, NEW run \in Runs,
             AuthorizeVerificationAction(signature, run)
      PROVE  Requests'
    <2>1. [signature EXCEPT !.uses = @ + 1] \in Signature
        BY <1>0 DEF Requests, Signature
    <2>2. authorizations' \subseteq Signature
        BY <1>0, <1>5, <2>1 DEF AuthorizeVerificationAction, Requests
    <2> QED BY <1>0, <1>5, <2>2 DEF AuthorizeVerificationAction, Requests, chainVars, requestVars
<1>6. ASSUME NEW e \in executors,
             \/ ExecutorReads(e) \/ ExecutorAttempts(e) \/ ExecutorEnds(e)
             \/ \E decision \in SettlementDecision, sharedMiner \in BOOLEAN :
                    ExecutorDecides(e, decision, sharedMiner)
      PROVE  Requests'
    <2>1. e.pact \in Pacts /\ e.run \in Runs
        BY <1>0 DEF Bounded, Executor
    <2> QED BY <1>0, <1>6, <2>1 DEF ExecutorReads, ExecutorAttempts, ExecutorEnds,
                ExecutorDecides, Requests, chainVars, signingVars, requestVars
<1>7. ASSUME NEW p \in Pacts, NEW receipt \in receipts, PrepareReleaseReads(p, receipt)
      PROVE  Requests'
    <2>1. receipt.run \in Runs
        BY <1>0 DEF StoreInv, TypeOK, Receipt
    <2> QED BY <1>0, <1>7, <2>1 DEF PrepareReleaseReads, Requests, chainVars, runVars
<1>8. ASSUME NEW request \in preparing, PrepareReleaseSigns(request)
      PROVE  Requests'
    BY <1>0, <1>8 DEF PrepareReleaseSigns, SignPermit, Requests, chainVars, runVars
<1>9. ASSUME NEW permit \in permits, SettleOnchain(permit) \/ PermitExpires(permit)
      PROVE  Requests'
    BY <1>0, <1>9 DEF SettleOnchain, PermitExpires, Requests, chainVars, runVars, signingVars,
                      requestVars
<1>10. ASSUME NEW p \in Pacts,
              \/ CreatePactAction(p) \/ CreatePactDraft(p)
              \/ ConfirmFundingAction(p)
              \/ \E key \in ChangeKeys : RequestChangesAction(p, key)
              \/ \E receipt \in receipts : ConfirmReleaseAction(p, receipt)
              \/ \E terms \in {Agreed, Other} : FundOnchain(p, terms)
              \/ RefundOnchain(p)
              \/ \E run \in Runs : \/ ExecuteServiceBegins(p, run)
                                   \/ ExecuteServiceJoins(p, run)
                                   \/ RecoverReads(p, run)
       PROVE  Requests'
    BY <1>0, <1>10 DEF CreatePactAction, CreatePactDraft, ConfirmFundingAction,
        RequestChangesAction, ConfirmReleaseAction, FundOnchain, RefundOnchain,
        ExecuteServiceBegins, ExecuteServiceJoins, RecoverReads,
        Requests, chainVars, runVars, signingVars, requestVars
<1>11. ASSUME NEW request \in recovering, RecoverWrites(request) PROVE Requests'
    BY <1>0, <1>11 DEF RecoverWrites, Requests, chainVars, signingVars, requestVars
<1>12. ASSUME NEW c \in completions, CompletionCommits(c) \/ CompletionAborts(c) PROVE Requests'
    BY <1>0, <1>12 DEF CompletionCommits, CompletionAborts, Requests, chainVars, runVars,
                       signingVars, requestVars
<1>13. CASE UNCHANGED workflowVars
    BY <1>0, <1>13 DEF workflowVars, Requests, chainVars, runVars, signingVars, requestVars
<1> QED BY <1>1, <1>2, <1>3, <1>4, <1>5, <1>6, <1>7, <1>8, <1>9, <1>10, <1>11, <1>12, <1>13
        DEF WorkflowNext

\* Only a delivery adds to the submissions of a pact.
LEMMA LatestStep ==
    ASSUME StoreStepInv, [WorkflowNext]_workflowVars,
           ~\E request \in submitting : SubmitEvidenceWrites(request)
    PROVE  UNCHANGED submissions
BY DEF WorkflowNext, workflowVars, storeVars,
       CreatePactAction, CreatePactDraft, CreatePact, ConfirmFundingAction, ConfirmFunding,
       SubmitEvidenceReads, SubmitEvidenceEnds, RequestChangesAction, CreateChangeRequest,
       SignAuthorization, AuthorizeVerificationAction, BeginVerification, ExecutorReads,
       ExecutorAttempts, ExecutorDecides, ExecutorEnds, StartCompletion,
       CompletionCommits, CommitCompletion, CompletionAborts, AbortCompletion,
       PrepareReleaseReads, PrepareReleaseSigns, AppendAuthorized, ConfirmReleaseAction,
       ConfirmSettlement, FundOnchain, RefundWindowOpens, RefundOnchain, SettleOnchain,
       PermitExpires, ExecuteServiceBegins, ExecuteServiceJoins, RecoverReads, RecoverWrites

LEMMA LatestIsBounded ==
    ASSUME StoreStepInv, [WorkflowNext]_workflowVars
    PROVE  \A p \in Pacts : Latest(p)' <= MaxSubmissions
<1>0. /\ submissions \in [Pacts -> Seq(Submission)]
      /\ \A p \in Pacts : Latest(p) \in Nat /\ Latest(p) <= MaxSubmissions
    BY DEF StoreStepInv, StoreInv, TypeOK, Bounded, Latest
<1>1. ASSUME NEW request \in submitting, SubmitEvidenceWrites(request)
      PROVE  \A p \in Pacts : Latest(p)' <= MaxSubmissions
    <2> DEFINE q == request[1]
               e == [key |-> request[2], artifact |-> request[3]]
    <2>1. /\ q \in Pacts
          /\ e \in Submission
        BY DEF StoreStepInv, Requests, Submission
    <2>2. /\ Latest(q) < MaxSubmissions
          /\ submissions' = [submissions EXCEPT ![q] = Append(submissions[q], e)]
        BY <1>1 DEF SubmitEvidenceWrites, CreateSubmission
    <2> HIDE DEF q, e
    <2>3. Len(submissions'[q]) = Latest(q) + 1
        BY <1>0, <2>1, <2>2 DEF Latest
    <2>4. \A p \in Pacts : p # q => submissions'[p] = submissions[p]
        BY <1>0, <2>2
    <2> QED BY <1>0, <2>1, <2>2, <2>3, <2>4, WorkflowAssumption DEF Latest
<1>2. CASE UNCHANGED submissions
    BY <1>0, <1>2 DEF Latest
<1> QED BY <1>1, <1>2, LatestStep

LEMMA BegunType ==
    ASSUME NEW p \in Pacts, NEW run \in Runs, NEW signed \in Nat
    PROVE  Begun(p, run, signed) \in Executor /\ Begun(p, run, signed).submission = 0
    BY DEF Begun, Executor

LEMMA BoundedStep ==
    ASSUME StoreStepInv, [WorkflowNext]_workflowVars
    PROVE  Bounded'
<1>0. /\ StoreInv /\ Requests /\ Bounded
      /\ MaxSubmissions \in Nat
      /\ \A p \in Pacts : Latest(p)' <= MaxSubmissions
      /\ \A p \in Pacts : Latest(p) \in Nat
    BY LatestIsBounded, WorkflowAssumption DEF StoreStepInv, StoreInv, TypeOK, Latest
<1>1. ASSUME NEW signature \in authorizations, NEW run \in Runs,
             AuthorizeVerificationAction(signature, run)
      PROVE  Bounded'
    <2>1. signature.pact \in Pacts /\ signature.submission \in Nat
        BY <1>0 DEF Requests, Signature
    <2> QED BY <1>0, <1>1, <2>1, BegunType DEF AuthorizeVerificationAction, Bounded
<1>2. ASSUME NEW p \in Pacts, NEW run \in Runs,
             ExecuteServiceBegins(p, run) \/ ExecuteServiceJoins(p, run)
      PROVE  Bounded'
    <2>1. executors' = executors \cup {Begun(p, run, 0)} /\ UNCHANGED recovering
        BY <1>2 DEF ExecuteServiceBegins, ExecuteServiceJoins
    <2> QED BY <1>0, <2>1, BegunType DEF Bounded
<1>3. ASSUME NEW e \in executors, ExecutorReads(e)
      PROVE  Bounded'
    <2> DEFINE f == [e EXCEPT !.phase = "READ", !.submission = Latest(e.pact)]
    <2>1. e.pact \in Pacts /\ Latest(e.pact) \in Nat
        BY <1>0 DEF Bounded, Executor
    <2>2. f \in Executor /\ f.submission = Latest(e.pact)
        BY <1>0, <2>1 DEF Bounded, Executor
    <2>3. executors' = (executors \ {e}) \cup {f} /\ UNCHANGED recovering
        BY <1>3 DEF ExecutorReads
    <2> HIDE DEF f
    <2> QED BY <1>0, <2>1, <2>2, <2>3 DEF Bounded
<1>4. ASSUME NEW e \in executors, ExecutorAttempts(e)
      PROVE  Bounded'
    <2> DEFINE f == [e EXCEPT !.phase = "PAYING"]
    <2>1. f \in Executor /\ f.submission = e.submission
        BY <1>0 DEF Bounded, Executor
    <2>2. executors' = (executors \ {e}) \cup {f} /\ UNCHANGED recovering
        BY <1>4 DEF ExecutorAttempts
    <2> HIDE DEF f
    <2> QED BY <1>0, <2>1, <2>2 DEF Bounded
<1>5. ASSUME NEW p \in Pacts, NEW run \in Runs, RecoverReads(p, run)
      PROVE  Bounded'
    BY <1>0, <1>5 DEF RecoverReads, Bounded
<1>6. ASSUME executors' \subseteq executors, recovering' \subseteq recovering
      PROVE  Bounded'
    BY <1>0, <1>6 DEF Bounded
<1>7. ASSUME NEW e \in executors,
             \/ ExecutorEnds(e)
             \/ \E decision \in SettlementDecision, sharedMiner \in BOOLEAN :
                    ExecutorDecides(e, decision, sharedMiner)
      PROVE  Bounded'
    BY <1>6, <1>7 DEF ExecutorEnds, ExecutorDecides
<1>8. ASSUME NEW request \in recovering, RecoverWrites(request) PROVE Bounded'
    BY <1>6, <1>8 DEF RecoverWrites
<1>9. ASSUME NEW p \in Pacts,
             \/ CreatePactAction(p) \/ CreatePactDraft(p)
             \/ ConfirmFundingAction(p)
             \/ \E key \in ChangeKeys : RequestChangesAction(p, key)
             \/ \E receipt \in receipts : ConfirmReleaseAction(p, receipt)
             \/ \E terms \in {Agreed, Other} : FundOnchain(p, terms)
             \/ RefundWindowOpens(p)
             \/ RefundOnchain(p)
             \/ \E key \in SubmissionKeys, artifact \in Artifacts : SubmitEvidenceReads(p, key, artifact)
             \/ \E nonce \in Nonces : SignAuthorization(p, nonce)
             \/ \E receipt \in receipts : PrepareReleaseReads(p, receipt)
      PROVE  Bounded'
    BY <1>6, <1>9 DEF CreatePactAction, CreatePactDraft, ConfirmFundingAction,
        RequestChangesAction, ConfirmReleaseAction, FundOnchain, RefundWindowOpens,
        RefundOnchain, SubmitEvidenceReads, SignAuthorization, PrepareReleaseReads, runVars
<1>10. ASSUME NEW request, \/ SubmitEvidenceWrites(request) \/ SubmitEvidenceEnds(request)
                           \/ PrepareReleaseSigns(request) \/ SettleOnchain(request)
                           \/ PermitExpires(request) \/ CompletionCommits(request)
                           \/ CompletionAborts(request)
       PROVE  Bounded'
    BY <1>6, <1>10 DEF SubmitEvidenceWrites, SubmitEvidenceEnds, PrepareReleaseSigns,
        SettleOnchain, PermitExpires, CompletionCommits, CompletionAborts, runVars
<1>11. CASE UNCHANGED workflowVars
    BY <1>6, <1>11 DEF workflowVars, runVars
<1> QED BY <1>1, <1>2, <1>3, <1>4, <1>5, <1>7, <1>8, <1>9, <1>10, <1>11 DEF WorkflowNext

LEMMA ReceiptsStay ==
    ASSUME HistoryKept, NEW p, NEW run, ReleaseReceipt(p, run)
    PROVE  ReleaseReceipt(p, run)'
    BY DEF HistoryKept, ReleaseReceipt

\* Only prepareReleaseAction's reads add to what is being prepared.
LEMMA PreparingStep ==
    ASSUME StoreStepInv, [WorkflowNext]_workflowVars
    PROVE  \/ preparing' \subseteq preparing
           \/ \E p \in Pacts : \E receipt \in receipts : PrepareReleaseReads(p, receipt)
<1>1. ASSUME NEW p \in Pacts,
             \/ CreatePactAction(p) \/ CreatePactDraft(p)
             \/ ConfirmFundingAction(p)
             \/ \E key \in ChangeKeys : RequestChangesAction(p, key)
             \/ \E receipt \in receipts : ConfirmReleaseAction(p, receipt)
             \/ \E terms \in {Agreed, Other} : FundOnchain(p, terms)
             \/ RefundWindowOpens(p)
             \/ RefundOnchain(p)
             \/ \E key \in SubmissionKeys, artifact \in Artifacts : SubmitEvidenceReads(p, key, artifact)
             \/ \E nonce \in Nonces : SignAuthorization(p, nonce)
             \/ \E run \in Runs : \/ ExecuteServiceBegins(p, run)
                                  \/ ExecuteServiceJoins(p, run)
                                  \/ RecoverReads(p, run)
      PROVE  preparing' \subseteq preparing
    BY <1>1 DEF CreatePactAction, CreatePactDraft, ConfirmFundingAction,
        RequestChangesAction, ConfirmReleaseAction, FundOnchain, RefundWindowOpens,
        RefundOnchain, SubmitEvidenceReads, SignAuthorization, ExecuteServiceBegins,
        ExecuteServiceJoins, RecoverReads, signingVars, requestVars
<1>2. ASSUME NEW request, \/ SubmitEvidenceWrites(request) \/ SubmitEvidenceEnds(request)
                          \/ PrepareReleaseSigns(request) \/ SettleOnchain(request)
                          \/ PermitExpires(request) \/ CompletionCommits(request)
                          \/ CompletionAborts(request) \/ RecoverWrites(request)
                          \/ ExecutorReads(request) \/ ExecutorAttempts(request)
                          \/ ExecutorEnds(request)
                          \/ \E decision \in SettlementDecision, sharedMiner \in BOOLEAN :
                                ExecutorDecides(request, decision, sharedMiner)
                          \/ \E run \in Runs : AuthorizeVerificationAction(request, run)
       PROVE  preparing' \subseteq preparing
    BY <1>2 DEF SubmitEvidenceWrites, SubmitEvidenceEnds, PrepareReleaseSigns,
        SettleOnchain, PermitExpires, CompletionCommits, CompletionAborts, RecoverWrites,
        ExecutorReads, ExecutorAttempts, ExecutorEnds, ExecutorDecides,
        AuthorizeVerificationAction, signingVars, requestVars
<1>3. CASE UNCHANGED workflowVars
    BY <1>3 DEF workflowVars, signingVars, requestVars
<1> QED BY <1>1, <1>2, <1>3 DEF WorkflowNext

LEMMA PreparedStep ==
    ASSUME StoreStepInv, [WorkflowNext]_workflowVars
    PROVE  Prepared'
<1>1. Prepared /\ HistoryKept
    BY StoreInvStep DEF StoreStepInv
<1>2. CASE preparing' \subseteq preparing
    BY <1>1, <1>2, ReceiptsStay DEF Prepared
<1>3. ASSUME NEW p \in Pacts, NEW receipt \in receipts, PrepareReleaseReads(p, receipt)
      PROVE  Prepared'
    <2>1. /\ preparing' = preparing \cup {<<p, receipt.run>>}
          /\ ReleaseReceipt(p, receipt.run)
        BY <1>3 DEF PrepareReleaseReads, Releasable, ReleaseReceipt
    <2> QED BY <1>1, <2>1, ReceiptsStay DEF Prepared
<1> QED BY <1>2, <1>3, PreparingStep

LEMMA StoreStepInvStep == StoreStepInv /\ [WorkflowNext]_workflowVars => StoreStepInv'
    BY StoreInvStep, RequestsStep, BoundedStep, PreparedStep DEF StoreStepInv

LEMMA StoreStepInvAlways == WorkflowSpec => []StoreStepInv
<1> QED BY InitRequests, StoreStepInvStep, PTL DEF WorkflowSpec

\* Server actions, scripts, wallets and the chain together do to the database
\* only what the store's operations do: whatever holds of the store alone
\* holds of the system.
THEOREM WorkflowUsesTheStore == WorkflowSpec => Spec
<1>1. WorkflowInit => Init
    BY DEF WorkflowInit
<1> QED BY <1>1, StoreStepInvAlways, StoreStep, PTL DEF WorkflowSpec, Spec

-----------------------------------------------------------------------------
(* The chain *)

\* A pact that is paid out keeps its agreement.
PaidOut(pact, status) == [pact EXCEPT !.status = status]

\* A settlement is the payout of a pact that is released and stays so.
ChainInv ==
    /\ chainPacts \in [Pacts -> ChainPact]
    /\ \A log \in chainPayouts :
        /\ log.pactId \in Pacts /\ log.receiptHash \in Runs \cup {None}
        /\ log.event = "PactSettled" => /\ log.receiptHash \in Runs
                                         /\ chainPacts[log.pactId].status = "RELEASED"

LEMMA ChainPactShape ==
    ASSUME NEW pact \in ChainPact, NEW status \in {"RELEASED", "REFUNDED"}, pact.status = "FUNDED"
    PROVE  /\ PaidOut(pact, status) \in ChainPact
           /\ PaidOut(pact, status).status = status
           /\ PaidOut(pact, status).terms = pact.terms
<1>1. PICK terms \in {Agreed, Other} : pact = [Agreement(terms) EXCEPT !.status = "FUNDED"]
    BY DEF ChainPact, NotFunded
<1>2. PaidOut(pact, status) = [Agreement(terms) EXCEPT !.status = status]
    BY <1>1 DEF PaidOut, Agreement
<1>3. PaidOut(pact, status) \in ChainPact
    BY <1>2 DEF ChainPact
<1> QED BY <1>1, <1>2, <1>3 DEF Agreement

LEMMA FundedShape ==
    ASSUME NEW terms \in {Agreed, Other}
    PROVE  /\ Agreement(terms) \in ChainPact
           /\ Agreement(terms).status = "FUNDED"
           /\ Agreement(terms).terms = terms
<1>1. Agreement(terms) = [Agreement(terms) EXCEPT !.status = "FUNDED"]
    BY DEF Agreement
<1>2. Agreement(terms) \in ChainPact
    BY <1>1 DEF ChainPact
<1> QED BY <1>2 DEF Agreement

\* Funding fills an empty slot; a payout closes a funded one.
LEMMA FundEffect ==
    ASSUME ChainInv, NEW p \in Pacts, NEW terms \in {Agreed, Other}, FundOnchain(p, terms)
    PROVE  /\ ChainInv'
           /\ chainPacts[p].status = "NONE"
           /\ \A q \in Pacts : q # p => chainPacts'[q] = chainPacts[q]
           /\ UNCHANGED chainPayouts
<1>1. /\ chainPacts[p].status = "NONE" /\ UNCHANGED chainPayouts
      /\ chainPacts' = [chainPacts EXCEPT ![p] = Agreement(terms)]
    BY DEF FundOnchain, Chain!Fund
<1>2. \A q \in Pacts : q # p => chainPacts'[q] = chainPacts[q]
    BY <1>1 DEF ChainInv
<1>3. \A log \in chainPayouts : log.event = "PactSettled" => log.pactId # p
    BY <1>1 DEF ChainInv
<1> QED BY <1>1, <1>2, <1>3, FundedShape DEF ChainInv

LEMMA PayOutEffect ==
    ASSUME ChainInv, NEW p \in Pacts, NEW log, Chain!PayOut(p, log),
           log.receiptHash \in Runs \cup {None},
           log.event = "PactSettled" => log.action = "RELEASE" /\ log.receiptHash \in Runs
    PROVE  /\ ChainInv'
           /\ chainPayouts' = chainPayouts \cup {log}
           /\ log.pactId = p
           /\ chainPacts[p].status = "FUNDED"
           /\ chainPacts'[p].status \in {"RELEASED", "REFUNDED"}
           /\ chainPacts'[p].terms = chainPacts[p].terms
           /\ \A q \in Pacts : q # p => chainPacts'[q] = chainPacts[q]
<1> DEFINE status == Chain!StatusAfter(log)
<1>1. /\ chainPacts[p].status = "FUNDED" /\ log.pactId = p
      /\ chainPacts' = [chainPacts EXCEPT ![p] = PaidOut(chainPacts[p], status)]
      /\ chainPayouts' = chainPayouts \cup {log}
    BY DEF Chain!PayOut, PaidOut
<1>2. status \in {"RELEASED", "REFUNDED"} /\ (log.event = "PactSettled" => status = "RELEASED")
    BY DEF Chain!StatusAfter
<1> HIDE DEF status
<1>3. /\ PaidOut(chainPacts[p], status) \in ChainPact
      /\ PaidOut(chainPacts[p], status).status = status
      /\ PaidOut(chainPacts[p], status).terms = chainPacts[p].terms
    BY <1>1, <1>2, ChainPactShape DEF ChainInv
<1>4. /\ chainPacts' \in [Pacts -> ChainPact]
      /\ chainPacts'[p] = PaidOut(chainPacts[p], status)
      /\ \A q \in Pacts : q # p => chainPacts'[q] = chainPacts[q]
    BY <1>1, <1>3 DEF ChainInv
<1>5. \A other \in chainPayouts : other.event = "PactSettled" => other.pactId # p
    BY <1>1 DEF ChainInv
<1> QED BY <1>1, <1>2, <1>3, <1>4, <1>5 DEF ChainInv

LEMMA RefundEffect ==
    ASSUME ChainInv, NEW p \in Pacts, RefundOnchain(p)
    PROVE  /\ ChainInv'
           /\ \E log : log.receiptHash = None /\ chainPayouts' = chainPayouts \cup {log}
           /\ chainPacts[p].status = "FUNDED"
           /\ chainPacts'[p].status \in {"RELEASED", "REFUNDED"}
           /\ chainPacts'[p].terms = chainPacts[p].terms
           /\ \A q \in Pacts : q # p => chainPacts'[q] = chainPacts[q]
<1> DEFINE log == Refund(p)
<1>1. Chain!PayOut(p, log)
    BY DEF RefundOnchain
<1>2. log.receiptHash = None /\ log.event # "PactSettled"
    BY DEF Refund
<1> HIDE DEF log
<1> QED BY <1>1, <1>2, PayOutEffect

LEMMA SettleEffect ==
    ASSUME ChainInv, NEW permit \in Pacts \X Runs, SettleOnchain(permit)
    PROVE  /\ ChainInv'
           /\ \E log : /\ log.receiptHash = permit[2] /\ log.pactId = permit[1]
                       /\ chainPayouts' = chainPayouts \cup {log}
           /\ chainPacts[permit[1]].status = "FUNDED"
           /\ chainPacts'[permit[1]].status \in {"RELEASED", "REFUNDED"}
           /\ chainPacts'[permit[1]].terms = chainPacts[permit[1]].terms
           /\ \A q \in Pacts : q # permit[1] => chainPacts'[q] = chainPacts[q]
<1> DEFINE log == Release(permit[1], permit[2])
<1>1. Chain!PayOut(permit[1], log) /\ permit[1] \in Pacts /\ permit[2] \in Runs
    BY DEF SettleOnchain
<1>2. log.receiptHash = permit[2] /\ log.pactId = permit[1] /\ log.action = "RELEASE"
    BY DEF Release
<1> HIDE DEF log
<1> QED BY <1>1, <1>2, PayOutEffect

\* Nothing else touches the chain.
LEMMA ChainSteps ==
    ASSUME [WorkflowNext]_workflowVars
    PROVE  \/ UNCHANGED <<chainPacts, chainPayouts>>
           \/ \E p \in Pacts, terms \in {Agreed, Other} : FundOnchain(p, terms)
           \/ \E p \in Pacts : RefundOnchain(p)
           \/ \E permit \in permits : SettleOnchain(permit)
<1>1. ASSUME NEW p \in Pacts,
             \/ CreatePactAction(p) \/ CreatePactDraft(p)
             \/ ConfirmFundingAction(p)
             \/ \E key \in ChangeKeys : RequestChangesAction(p, key)
             \/ \E receipt \in receipts : ConfirmReleaseAction(p, receipt)
             \/ \E receipt \in receipts : PrepareReleaseReads(p, receipt)
             \/ RefundWindowOpens(p)
             \/ \E key \in SubmissionKeys, artifact \in Artifacts : SubmitEvidenceReads(p, key, artifact)
             \/ \E nonce \in Nonces : SignAuthorization(p, nonce)
             \/ \E run \in Runs : \/ ExecuteServiceBegins(p, run)
                                  \/ ExecuteServiceJoins(p, run)
                                  \/ RecoverReads(p, run)
      PROVE  UNCHANGED <<chainPacts, chainPayouts>>
    BY <1>1 DEF CreatePactAction, CreatePactDraft, ConfirmFundingAction,
        RequestChangesAction, ConfirmReleaseAction, PrepareReleaseReads, RefundWindowOpens,
        SubmitEvidenceReads, SignAuthorization, ExecuteServiceBegins,
        ExecuteServiceJoins, RecoverReads, chainVars
<1>2. ASSUME NEW request, \/ SubmitEvidenceWrites(request) \/ SubmitEvidenceEnds(request)
                          \/ PrepareReleaseSigns(request)
                          \/ PermitExpires(request) \/ CompletionCommits(request)
                          \/ CompletionAborts(request) \/ RecoverWrites(request)
                          \/ ExecutorReads(request) \/ ExecutorAttempts(request)
                          \/ ExecutorEnds(request)
                          \/ \E decision \in SettlementDecision, sharedMiner \in BOOLEAN :
                                ExecutorDecides(request, decision, sharedMiner)
                          \/ \E run \in Runs : AuthorizeVerificationAction(request, run)
      PROVE  UNCHANGED <<chainPacts, chainPayouts>>
    BY <1>2 DEF SubmitEvidenceWrites, SubmitEvidenceEnds, PrepareReleaseSigns,
        PermitExpires, CompletionCommits, CompletionAborts, RecoverWrites,
        ExecutorReads, ExecutorAttempts, ExecutorEnds, ExecutorDecides,
        AuthorizeVerificationAction, chainVars
<1>3. CASE UNCHANGED workflowVars
    BY <1>3 DEF workflowVars, chainVars
<1> QED BY <1>1, <1>2, <1>3 DEF WorkflowNext

LEMMA ChainInvStep ==
    ASSUME StoreStepInv, ChainInv, [WorkflowNext]_workflowVars
    PROVE  ChainInv'
<1>1. permits \subseteq Pacts \X Runs
    BY DEF StoreStepInv, Requests
<1>2. CASE UNCHANGED <<chainPacts, chainPayouts>>
    BY <1>2 DEF ChainInv
<1> QED BY <1>1, <1>2, ChainSteps, FundEffect, RefundEffect, SettleEffect

LEMMA InitChain == WorkflowInit => ChainInv
    BY DEF WorkflowInit, ChainInv, ChainPact

-----------------------------------------------------------------------------
(* Types *)

LEMMA TypesFromParts == StoreStepInv /\ ChainInv => WorkflowTypeOK
    BY DEF StoreStepInv, StoreInv, Requests, Bounded, ChainInv, WorkflowTypeOK

LEMMA PartsAlways == WorkflowSpec => [](StoreStepInv /\ ChainInv)
<1>1. WorkflowInit => StoreStepInv /\ ChainInv
    BY InitRequests, InitChain
<1>2. StoreStepInv /\ ChainInv /\ [WorkflowNext]_workflowVars => (StoreStepInv /\ ChainInv)'
    BY StoreStepInvStep, ChainInvStep
<1> QED BY <1>1, <1>2, PTL DEF WorkflowSpec

\* Every part of the workflow keeps its type: what an action carries between its
\* reads and its write is always about pacts, runs and deliveries that exist.
THEOREM WorkflowIsWellTyped == WorkflowSpec => []WorkflowTypeOK
<1> QED BY PartsAlways, TypesFromParts, PTL

-----------------------------------------------------------------------------
(* Money needs a RELEASE receipt *)

\* A permit comes from a release that was prepared.
LEMMA PermitsStep ==
    ASSUME [WorkflowNext]_workflowVars
    PROVE  permits' \subseteq permits \cup preparing
<1>1. ASSUME NEW p \in Pacts,
             \/ CreatePactAction(p) \/ CreatePactDraft(p)
             \/ ConfirmFundingAction(p)
             \/ \E key \in ChangeKeys : RequestChangesAction(p, key)
             \/ \E receipt \in receipts : ConfirmReleaseAction(p, receipt)
             \/ \E receipt \in receipts : PrepareReleaseReads(p, receipt)
             \/ \E terms \in {Agreed, Other} : FundOnchain(p, terms)
             \/ RefundWindowOpens(p)
             \/ RefundOnchain(p)
             \/ \E key \in SubmissionKeys, artifact \in Artifacts : SubmitEvidenceReads(p, key, artifact)
             \/ \E nonce \in Nonces : SignAuthorization(p, nonce)
             \/ \E run \in Runs : \/ ExecuteServiceBegins(p, run)
                                  \/ ExecuteServiceJoins(p, run)
                                  \/ RecoverReads(p, run)
      PROVE  permits' = permits
    BY <1>1 DEF CreatePactAction, CreatePactDraft, ConfirmFundingAction,
        RequestChangesAction, ConfirmReleaseAction, PrepareReleaseReads, FundOnchain,
        RefundWindowOpens, RefundOnchain, SubmitEvidenceReads, SignAuthorization,
        ExecuteServiceBegins, ExecuteServiceJoins, RecoverReads, signingVars, requestVars
<1>2. ASSUME NEW request, \/ SubmitEvidenceWrites(request) \/ SubmitEvidenceEnds(request)
                          \/ SettleOnchain(request) \/ CompletionCommits(request)
                          \/ CompletionAborts(request) \/ RecoverWrites(request)
                          \/ ExecutorReads(request) \/ ExecutorAttempts(request)
                          \/ ExecutorEnds(request)
                          \/ \E decision \in SettlementDecision, sharedMiner \in BOOLEAN :
                                ExecutorDecides(request, decision, sharedMiner)
                          \/ \E run \in Runs : AuthorizeVerificationAction(request, run)
      PROVE  permits' = permits
    BY <1>2 DEF SubmitEvidenceWrites, SubmitEvidenceEnds, SettleOnchain, CompletionCommits,
        CompletionAborts, RecoverWrites, ExecutorReads, ExecutorAttempts, ExecutorEnds,
        ExecutorDecides, AuthorizeVerificationAction, signingVars, requestVars
<1>3. ASSUME NEW request \in preparing \cup permits,
             PermitExpires(request) \/ (request \in preparing /\ PrepareReleaseSigns(request))
      PROVE  permits' \subseteq permits \cup preparing
    BY <1>3 DEF PermitExpires, PrepareReleaseSigns, SignPermit
<1>4. CASE UNCHANGED workflowVars
    BY <1>4 DEF workflowVars, signingVars, requestVars
<1> QED BY <1>1, <1>2, <1>3, <1>4 DEF WorkflowNext

MoneyReceipts ==
    /\ \A permit \in permits : ReleaseReceipt(permit[1], permit[2])
    /\ \A log \in chainPayouts :
        log.receiptHash \in Runs => ReleaseReceipt(log.pactId, log.receiptHash)

LEMMA MoneyReceiptsMeans == ChainInv /\ MoneyReceipts => MoneyNeedsReleaseReceipt
    BY DEF MoneyReceipts, MoneyNeedsReleaseReceipt, ReleaseReceipt

LEMMA MoneyStep ==
    ASSUME StoreStepInv, ChainInv, MoneyReceipts, [WorkflowNext]_workflowVars
    PROVE  MoneyReceipts'
<1>0. Prepared /\ HistoryKept /\ permits \subseteq Pacts \X Runs
    BY StoreInvStep DEF StoreStepInv, Requests
<1>1. \A permit \in permits' : ReleaseReceipt(permit[1], permit[2])'
    BY <1>0, PermitsStep, ReceiptsStay DEF MoneyReceipts, Prepared
<1>2. \A log \in chainPayouts :
        log.receiptHash \in Runs => ReleaseReceipt(log.pactId, log.receiptHash)'
    BY <1>0, ReceiptsStay DEF MoneyReceipts
<1>3. ASSUME UNCHANGED chainPayouts PROVE MoneyReceipts'
    BY <1>1, <1>2, <1>3 DEF MoneyReceipts
<1>4. ASSUME NEW p \in Pacts, RefundOnchain(p) PROVE MoneyReceipts'
    <2>1. PICK log : log.receiptHash = None /\ chainPayouts' = chainPayouts \cup {log}
        BY <1>4, RefundEffect
    <2> QED BY <1>1, <1>2, <2>1, WorkflowAssumption DEF MoneyReceipts
<1>5. ASSUME NEW permit \in permits, SettleOnchain(permit) PROVE MoneyReceipts'
    <2>1. PICK log : /\ log.receiptHash = permit[2] /\ log.pactId = permit[1]
                     /\ chainPayouts' = chainPayouts \cup {log}
        BY <1>0, <1>5, SettleEffect
    <2>2. ReleaseReceipt(permit[1], permit[2])'
        BY <1>0, ReceiptsStay DEF MoneyReceipts
    <2> QED BY <1>1, <1>2, <2>1, <2>2 DEF MoneyReceipts
<1> QED BY <1>3, <1>4, <1>5, ChainSteps, FundEffect

LEMMA MoneyReceiptsAlways == WorkflowSpec => []MoneyReceipts
<1>1. WorkflowInit => MoneyReceipts
    BY DEF WorkflowInit, MoneyReceipts
<1>2. StoreStepInv /\ ChainInv /\ MoneyReceipts /\ [WorkflowNext]_workflowVars => MoneyReceipts'
    BY MoneyStep
<1> QED BY <1>1, <1>2, PartsAlways, PTL DEF WorkflowSpec

\* Whatever scripts and failures interfere, a permit is signed and a reward paid
\* only under a RELEASE receipt of that very pact.
THEOREM MoneyNeedsAReceipt == WorkflowSpec => []MoneyNeedsReleaseReceipt
<1> QED BY MoneyReceiptsAlways, PartsAlways, MoneyReceiptsMeans, PTL

-----------------------------------------------------------------------------
(* The books match the chain *)

\* The steps that write to the pact's row or confirm a settlement.
LEMMA RowSteps ==
    ASSUME StoreStepInv, [WorkflowNext]_workflowVars
    PROVE  \/ UNCHANGED <<pacts, confirmed>>
           \/ /\ UNCHANGED <<chainPacts, chainPayouts>>
              /\ \/ \E p \in Pacts : CreatePact(p, Requester, Worker)
                 \/ \E p \in Pacts : ConfirmFundingAction(p)
                 \/ \E p \in Pacts, key \in SubmissionKeys, artifact \in Artifacts :
                        CreateSubmission(p, Worker, key, artifact)
                 \/ \E p \in Pacts, key \in ChangeKeys :
                        CreateChangeRequest(p, Requester, Latest(p), key)
                 \/ \E p \in Pacts : BeginVerification(p, Latest(p))
                 \/ \E c \in completions : CommitCompletion(c)
                 \/ \E p \in Pacts : \E receipt \in receipts : ConfirmReleaseAction(p, receipt)
<1>0. Requests
    BY DEF StoreStepInv
<1>1. ASSUME NEW p \in Pacts,
             \/ \E receipt \in receipts : PrepareReleaseReads(p, receipt)
             \/ \E terms \in {Agreed, Other} : FundOnchain(p, terms)
             \/ RefundWindowOpens(p)
             \/ RefundOnchain(p)
             \/ \E key \in SubmissionKeys, artifact \in Artifacts : SubmitEvidenceReads(p, key, artifact)
             \/ \E nonce \in Nonces : SignAuthorization(p, nonce)
             \/ \E run \in Runs : ExecuteServiceJoins(p, run) \/ RecoverReads(p, run)
      PROVE  UNCHANGED <<pacts, confirmed>>
    BY <1>1 DEF PrepareReleaseReads, FundOnchain, RefundWindowOpens, RefundOnchain,
        SubmitEvidenceReads, SignAuthorization, ExecuteServiceJoins, RecoverReads, storeVars
<1>2. ASSUME NEW request, \/ SubmitEvidenceEnds(request) \/ PrepareReleaseSigns(request)
                          \/ SettleOnchain(request) \/ PermitExpires(request)
                          \/ CompletionAborts(request) \/ RecoverWrites(request)
                          \/ ExecutorReads(request) \/ ExecutorAttempts(request)
                          \/ ExecutorEnds(request)
                          \/ \E decision \in SettlementDecision, sharedMiner \in BOOLEAN :
                                ExecutorDecides(request, decision, sharedMiner)
      PROVE  UNCHANGED <<pacts, confirmed>>
    BY <1>2 DEF SubmitEvidenceEnds, PrepareReleaseSigns, AppendAuthorized, SettleOnchain,
        PermitExpires, CompletionAborts, AbortCompletion, RecoverWrites, ExecutorReads,
        ExecutorAttempts, ExecutorEnds, ExecutorDecides, StartCompletion, storeVars
<1>3. CASE UNCHANGED workflowVars
    BY <1>3 DEF workflowVars, storeVars
<1>4. ASSUME NEW p \in Pacts,
             \/ CreatePactAction(p) \/ CreatePactDraft(p)
             \/ ConfirmFundingAction(p)
             \/ \E key \in ChangeKeys : RequestChangesAction(p, key)
             \/ \E run \in Runs : ExecuteServiceBegins(p, run)
             \/ \E receipt \in receipts : ConfirmReleaseAction(p, receipt)
      PROVE  /\ UNCHANGED <<chainPacts, chainPayouts>>
             /\ \/ CreatePact(p, Requester, Worker)
                \/ ConfirmFundingAction(p)
                \/ \E key \in ChangeKeys : CreateChangeRequest(p, Requester, Latest(p), key)
                \/ BeginVerification(p, Latest(p))
                \/ \E receipt \in receipts : ConfirmReleaseAction(p, receipt)
    BY <1>4 DEF CreatePactAction, CreatePactDraft, ConfirmFundingAction, RequestChangesAction,
        ExecuteServiceBegins, ConfirmReleaseAction, chainVars
<1>5. ASSUME NEW signature \in authorizations, NEW run \in Runs,
             AuthorizeVerificationAction(signature, run)
      PROVE  /\ UNCHANGED <<chainPacts, chainPayouts>>
             /\ \E p \in Pacts : BeginVerification(p, Latest(p))
    <2>1. signature.pact \in Pacts
        BY <1>0 DEF Requests, Signature
    <2> QED BY <1>5, <2>1 DEF AuthorizeVerificationAction, chainVars
<1>6. ASSUME NEW request \in submitting, SubmitEvidenceWrites(request)
      PROVE  /\ UNCHANGED <<chainPacts, chainPayouts>>
             /\ \E p \in Pacts, key \in SubmissionKeys, artifact \in Artifacts :
                    CreateSubmission(p, Worker, key, artifact)
    <2>1. request[1] \in Pacts /\ request[2] \in SubmissionKeys /\ request[3] \in Artifacts
        BY <1>0 DEF Requests
    <2> QED BY <1>6, <2>1 DEF SubmitEvidenceWrites, chainVars
<1>7. ASSUME NEW c \in completions, CompletionCommits(c)
      PROVE  UNCHANGED <<chainPacts, chainPayouts>> /\ CommitCompletion(c)
    BY <1>7 DEF CompletionCommits, chainVars
<1> QED BY <1>1, <1>2, <1>3, <1>4, <1>5, <1>6, <1>7 DEF WorkflowNext

\* Takes no pact past DRAFT and releases none.
Quiet ==
    \A p \in Pacts :
        /\ pacts'[p].status \notin {"NONE", "DRAFT"} => pacts[p].status \notin {"NONE", "DRAFT"}
        /\ pacts'[p].status = "RELEASED" => /\ pacts[p].status = "RELEASED"
                                            /\ pacts'[p].worker = pacts[p].worker

LEMMA RowIsQuiet ==
    ASSUME TypeOK, NEW p \in Pacts, NEW status \in PactStatus \ {"RELEASED"},
           pacts[p].status \notin {"NONE", "DRAFT"},
           pacts' = [pacts EXCEPT ![p] = WithStatus(pacts[p], status)]
    PROVE  Quiet
<1>1. pacts[p] \in PactRow /\ status \in PactStatus \cup {"NONE"}
    BY DEF TypeOK
<1>2. /\ pacts'[p].status = status
      /\ \A q \in Pacts : q # p => pacts'[q] = pacts[q]
    BY <1>1, WithStatusRow DEF TypeOK
<1> QED BY <1>2 DEF Quiet

LEMMA BooksKept ==
    ASSUME BooksMatchChain, Quiet, UNCHANGED <<chainPacts, chainPayouts>>,
           confirmed \subseteq confirmed'
    PROVE  BooksMatchChain'
    BY DEF BooksMatchChain, Quiet

\* The chain moves on: what is there stays there.
LEMMA BooksFollowChain ==
    ASSUME ChainInv, BooksMatchChain, UNCHANGED <<pacts, confirmed>>,
           chainPayouts \subseteq chainPayouts', NEW p \in Pacts,
           \A q \in Pacts : q # p => chainPacts'[q] = chainPacts[q],
           \/ chainPacts[p].status = "NONE"
           \/ /\ chainPacts[p].status = "FUNDED"
              /\ chainPacts'[p].status # "NONE" /\ chainPacts'[p].terms = chainPacts[p].terms
    PROVE  BooksMatchChain'
<1> SUFFICES ASSUME NEW q \in Pacts
             PROVE  /\ pacts[q].status \notin {"NONE", "DRAFT"} =>
                        chainPacts'[q].status # "NONE" /\ chainPacts'[q].terms = Agreed
                    /\ pacts[q].status = "RELEASED" =>
                        /\ chainPacts'[q].status = "RELEASED"
                        /\ \E e \in confirmed, log \in chainPayouts' :
                            /\ e.pact = q /\ log.pactId = q
                            /\ log.receiptHash = e.receipt /\ log.recipient = pacts[q].worker
    BY DEF BooksMatchChain
<1>1. CASE q # p
    BY <1>1 DEF BooksMatchChain
<1>2. CASE q = p
    BY <1>2 DEF BooksMatchChain
<1> QED BY <1>1, <1>2

LEMMA FundingKeepsBooks ==
    ASSUME StoreStepInv, BooksMatchChain, NEW p \in Pacts, ConfirmFundingAction(p)
    PROVE  BooksMatchChain'
<1> DEFINE evidence == [tx |-> p, onchainId |-> p]
<1>1. /\ ConfirmFunding(p, evidence) /\ UNCHANGED <<chainPacts, chainPayouts>>
      /\ chainPacts[p].status # "NONE" /\ chainPacts[p].terms = Agreed
    BY DEF ConfirmFundingAction, EventMatchesRow, chainVars
<1>2. evidence \in FundingEvidence
    BY WorkflowAssumption DEF FundingEvidence
<1> HIDE DEF evidence
<1>3. /\ pacts'[p].status = "FUNDED"
      /\ \A q \in Pacts : q # p => pacts'[q] = pacts[q]
      /\ UNCHANGED confirmed
    BY <1>1, <1>2, FundedRow DEF ConfirmFunding, StoreStepInv, StoreInv, TypeOK
<1> QED BY <1>1, <1>3 DEF BooksMatchChain

LEMMA ReleaseKeepsBooks ==
    ASSUME StoreStepInv, ChainInv, BooksMatchChain, NEW p \in Pacts, NEW receipt \in receipts,
           ConfirmReleaseAction(p, receipt)
    PROVE  BooksMatchChain'
<1>1. /\ ConfirmSettlement(p, receipt, p) /\ UNCHANGED <<chainPacts, chainPayouts>>
      /\ SettlementMatches(p, receipt)
    BY DEF ConfirmReleaseAction, chainVars
<1>2. PICK log \in chainPayouts : /\ log.pactId = p /\ log.receiptHash = receipt.run
                                  /\ log.recipient = pacts[p].worker
                                  /\ log.event = "PactSettled"
    BY <1>1 DEF SettlementMatches
<1>3. chainPacts[p].status = "RELEASED"
    BY <1>2 DEF ChainInv
<1>4. /\ pacts \in [Pacts -> PactRow] /\ pacts[p] \in PactRow
      /\ StatusOnConfirmation(pacts[p].status) \in PactStatus \cup {"NONE"}
    BY StatusTypes DEF StoreStepInv, StoreInv, TypeOK, PactRow
<1>5. /\ pacts'[p].status = StatusOnConfirmation(pacts[p].status)
      /\ pacts'[p].worker = pacts[p].worker
      /\ \A q \in Pacts : q # p => pacts'[q] = pacts[q]
    BY <1>1, <1>4, WithStatusRow DEF ConfirmSettlement
<1> DEFINE e == [pact |-> p, receipt |-> receipt.run, tx |-> p]
<1>6. e \in confirmed' /\ confirmed \subseteq confirmed' /\ e.pact = p /\ e.receipt = receipt.run
    BY <1>1 DEF ConfirmSettlement
<1> HIDE DEF e
<1> SUFFICES ASSUME NEW q \in Pacts
             PROVE  /\ pacts'[q].status \notin {"NONE", "DRAFT"} =>
                        chainPacts[q].status # "NONE" /\ chainPacts[q].terms = Agreed
                    /\ pacts'[q].status = "RELEASED" =>
                        /\ chainPacts[q].status = "RELEASED"
                        /\ \E f \in confirmed', l \in chainPayouts :
                            /\ f.pact = q /\ l.pactId = q
                            /\ l.receiptHash = f.receipt /\ l.recipient = pacts'[q].worker
    BY <1>1 DEF BooksMatchChain
<1>7. CASE q # p
    BY <1>5, <1>6, <1>7 DEF BooksMatchChain
<1>8. CASE q = p
    <2>1. pacts'[p].status \notin {"NONE", "DRAFT"} => pacts[p].status \notin {"NONE", "DRAFT"}
        BY <1>5 DEF StatusOnConfirmation
    <2> QED BY <1>2, <1>3, <1>5, <1>6, <1>8, <2>1 DEF BooksMatchChain
<1> QED BY <1>7, <1>8

LEMMA BooksStep ==
    ASSUME StoreStepInv, ChainInv, BooksMatchChain, [WorkflowNext]_workflowVars
    PROVE  BooksMatchChain'
<1>0. /\ StoreInv /\ TypeOK /\ confirmed \subseteq confirmed' /\ permits \subseteq Pacts \X Runs
    BY StoreInvStep DEF StoreStepInv, StoreInv, HistoryKept, Requests
<1>1. CASE UNCHANGED <<pacts, confirmed>>
    <2>1. CASE UNCHANGED <<chainPacts, chainPayouts>>
        BY <1>1, <2>1 DEF BooksMatchChain
    <2>2. ASSUME NEW p \in Pacts, NEW terms \in {Agreed, Other}, FundOnchain(p, terms)
          PROVE  BooksMatchChain'
        BY <1>1, <2>2, FundEffect, BooksFollowChain
    <2>3. ASSUME NEW p \in Pacts, RefundOnchain(p) PROVE BooksMatchChain'
        <3>1. chainPayouts \subseteq chainPayouts' /\ chainPacts'[p].status # "NONE"
            BY <2>3, RefundEffect
        <3> QED BY <1>1, <2>3, <3>1, RefundEffect, BooksFollowChain
    <2>4. ASSUME NEW permit \in permits, SettleOnchain(permit) PROVE BooksMatchChain'
        <3>1. /\ permit \in Pacts \X Runs /\ permit[1] \in Pacts
              /\ chainPayouts \subseteq chainPayouts' /\ chainPacts'[permit[1]].status # "NONE"
            BY <1>0, <2>4, SettleEffect
        <3> QED BY <1>1, <2>4, <3>1, SettleEffect, BooksFollowChain
    <2> QED BY <2>1, <2>2, <2>3, <2>4, ChainSteps
<1>2. ASSUME UNCHANGED <<chainPacts, chainPayouts>>, Quiet PROVE BooksMatchChain'
    BY <1>0, <1>2, BooksKept
<1>3. ASSUME NEW p \in Pacts, CreatePact(p, Requester, Worker) PROVE Quiet
    BY <1>0, <1>3 DEF CreatePact, Quiet, TypeOK
<1>4. ASSUME NEW p \in Pacts, NEW key, NEW artifact, CreateSubmission(p, Worker, key, artifact)
      PROVE  Quiet
    BY <1>0, <1>4, RowIsQuiet DEF CreateSubmission, TakesEvidence, PactStatus
<1>5. ASSUME NEW p \in Pacts, NEW key, CreateChangeRequest(p, Requester, Latest(p), key)
      PROVE  Quiet
    BY <1>0, <1>5, RowIsQuiet DEF CreateChangeRequest, PactStatus
<1>6. ASSUME NEW p \in Pacts, BeginVerification(p, Latest(p)) PROVE Quiet
    BY <1>0, <1>6, RowIsQuiet DEF BeginVerification, Verifiable, PactStatus
<1>7. ASSUME NEW c \in completions, CommitCompletion(c) PROVE Quiet
    <2>1. /\ c.pact \in Pacts /\ c.decision \in SettlementDecision
          /\ c.submission \in DOMAIN submissions[c.pact]
        BY <1>0 DEF TypeOK, Receipt
    <2>2. StatusFor(c.decision) \in PactStatus \ {"RELEASED"}
        BY <2>1, StatusTypes DEF PactStatus
    <2>3. submissions[c.pact] # <<>>
        BY <1>0, <2>1, EmptySeq DEF TypeOK
    <2>4. pacts[c.pact].status \notin {"NONE", "DRAFT"}
        BY <1>0, <2>1, <2>3 DEF StoreInv, StatusIsExplained, Explained
    <2> QED BY <1>0, <1>7, <2>1, <2>2, <2>4, RowIsQuiet DEF CommitCompletion
<1> QED BY <1>1, <1>2, <1>3, <1>4, <1>5, <1>6, <1>7, RowSteps, FundingKeepsBooks,
           ReleaseKeepsBooks

\* A pact past DRAFT was funded under the terms of its row, and a RELEASED one
\* was paid to its worker under the receipt the store has confirmed, however the
\* chain, the scripts and the actions interleave.
THEOREM BooksAreRight == WorkflowSpec => []BooksMatchChain
<1>1. WorkflowInit => BooksMatchChain
    <2>1. WorkflowInit => Init
        BY DEF WorkflowInit
    <2>2. Init => \A p \in Pacts : pacts[p] = NoRow
        BY DEF Init
    <2>3. NoRow.status = "NONE"
        BY DEF NoRow
    <2> QED BY <2>1, <2>2, <2>3 DEF BooksMatchChain
<1>2. StoreStepInv /\ ChainInv /\ BooksMatchChain /\ [WorkflowNext]_workflowVars
        => BooksMatchChain'
    BY BooksStep
<1> QED BY <1>1, <1>2, PartsAlways, PTL DEF WorkflowSpec

-----------------------------------------------------------------------------
(* Without the operator scripts *)

Settled(status) == status \in {"VERIFYING", "APPROVED", "RELEASED", "REJECTED"}

\* At most one run of a pact is under way, and the pact is VERIFYING while it is.
OneActive ==
    /\ \A e, f \in executors : e.pact = f.pact => e = f
    /\ \A c, d \in completions : c.pact = d.pact => c = d
    /\ \A e \in executors, c \in completions : e.pact # c.pact
    /\ \A e \in executors : pacts[e.pact].status = "VERIFYING"
    /\ \A c \in completions : pacts[c.pact].status = "VERIFYING"
    /\ recovering = {}

\* A run is for the newest delivery, which is the one that was signed.
OnNewest ==
    /\ \A e \in executors : /\ e.phase # "BEGUN" => e.submission = Latest(e.pact)
                            /\ e.signed # 0 => e.signed = Latest(e.pact)
    /\ \A c \in completions : c.submission = Latest(c.pact)

\* Transactions began when they say, and the newest receipts came first.
InTime ==
    /\ \A r \in receipts \cup completions : r.startedAt <= now
    /\ \A c \in completions, r \in receipts : r.pact = c.pact => r.startedAt < c.startedAt

\* The newest receipt is the status; a RELEASE was the last word.
LastWord ==
    /\ VerdictsFollowLatestReceipt
    /\ \A r \in receipts : r.decision = "RELEASE" =>
        /\ pacts[r.pact].status \in {"APPROVED", "RELEASED"}
        /\ r.submission = Latest(r.pact)

WebInv == OneActive /\ OnNewest /\ InTime /\ LastWord

\* A step that starts, ends and decides no run, and finds or leaves a pact in one
\* of the settled statuses only by a payment or by leaving it alone.
Calm ==
    /\ UNCHANGED <<executors, completions, receipts, now, recovering>>
    /\ \A p \in Pacts :
        Settled(pacts[p].status) \/ Settled(pacts'[p].status) =>
            /\ submissions'[p] = submissions[p]
            /\ \/ pacts'[p].status = pacts[p].status
               \/ pacts[p].status = "APPROVED" /\ pacts'[p].status = "RELEASED"

LEMMA CalmStep ==
    ASSUME StoreStepInv, WebInv, Calm
    PROVE  WebInv'
<1>0. /\ \A r \in receipts \cup completions : r.pact \in Pacts
      /\ \A e \in executors : e.pact \in Pacts
    BY DEF StoreStepInv, StoreInv, TypeOK, Receipt, Bounded, Executor
<1>1. \A p \in Pacts : Settled(pacts[p].status) \/ Settled(pacts'[p].status) =>
                            Latest(p)' = Latest(p)
    BY DEF Calm, Latest
<1>2. OneActive'
    BY <1>0 DEF WebInv, OneActive, Calm, Settled
<1>3. OnNewest'
    BY <1>0, <1>1 DEF WebInv, OneActive, OnNewest, Calm, Settled
<1>4. InTime'
    BY DEF WebInv, InTime, Calm
<1>5. \A p \in Pacts : LatestReceipts(p)' = LatestReceipts(p)
    BY DEF Calm, LatestReceipts
<1>6. VerdictsFollowLatestReceipt'
    BY <1>1, <1>5 DEF WebInv, LastWord, VerdictsFollowLatestReceipt, Verdict, Calm, Settled
<1>7. LastWord'
    BY <1>0, <1>1, <1>6 DEF WebInv, LastWord, Calm, Settled
<1> QED BY <1>2, <1>3, <1>4, <1>7 DEF WebInv

\* A row whose status moves between unsettled statuses, and its submissions.
LEMMA RowIsCalm ==
    ASSUME StoreStepInv, NEW p \in Pacts, NEW status \in PactStatus,
           ~Settled(pacts[p].status), ~Settled(status),
           pacts' = [pacts EXCEPT ![p] = WithStatus(pacts[p], status)],
           \A q \in Pacts : q # p => submissions'[q] = submissions[q],
           UNCHANGED <<executors, completions, receipts, now, recovering>>
    PROVE  Calm
<1>1. pacts \in [Pacts -> PactRow] /\ pacts[p] \in PactRow /\ status \in PactStatus \cup {"NONE"}
    BY DEF StoreStepInv, StoreInv, TypeOK
<1>2. pacts'[p].status = status /\ \A q \in Pacts : q # p => pacts'[q] = pacts[q]
    BY <1>1, WithStatusRow
<1> QED BY <1>2 DEF Calm

LEMMA CalmSubmission ==
    ASSUME StoreStepInv, NEW request \in submitting, SubmitEvidenceWrites(request)
    PROVE  Calm
<1>1. request[1] \in Pacts /\ submissions \in [Pacts -> Seq(Submission)]
    BY DEF StoreStepInv, StoreInv, TypeOK, Requests
<1>2. /\ CreateSubmission(request[1], Worker, request[2], request[3])
      /\ UNCHANGED <<executors, recovering>>
    BY DEF SubmitEvidenceWrites, runVars
<1>3. \A q \in Pacts : q # request[1] => submissions'[q] = submissions[q]
    BY <1>1, <1>2 DEF CreateSubmission
<1> QED BY <1>1, <1>2, <1>3, RowIsCalm DEF CreateSubmission, TakesEvidence, Settled, PactStatus

LEMMA CalmSettlement ==
    ASSUME StoreStepInv, NEW p \in Pacts, NEW receipt \in receipts,
           ConfirmReleaseAction(p, receipt)
    PROVE  Calm
<1>1. /\ pacts \in [Pacts -> PactRow] /\ pacts[p] \in PactRow
      /\ StatusOnConfirmation(pacts[p].status) \in PactStatus \cup {"NONE"}
    BY StatusTypes DEF StoreStepInv, StoreInv, TypeOK, PactRow
<1>2. ConfirmSettlement(p, receipt, p) /\ UNCHANGED <<executors, recovering>>
    BY DEF ConfirmReleaseAction, runVars
<1>3. /\ pacts'[p].status = StatusOnConfirmation(pacts[p].status)
      /\ \A q \in Pacts : q # p => pacts'[q] = pacts[q]
    BY <1>1, <1>2, WithStatusRow DEF ConfirmSettlement
<1> QED BY <1>2, <1>3 DEF ConfirmSettlement, Calm, StatusOnConfirmation

LEMMA CalmSteps ==
    ASSUME StoreStepInv, OneActive, OperatorScripts = {}, [WorkflowNext]_workflowVars
    PROVE  \/ Calm
           \/ \E signature \in authorizations, run \in Runs :
                AuthorizeVerificationAction(signature, run)
           \/ \E e \in executors :
                \/ ExecutorReads(e) \/ ExecutorAttempts(e) \/ ExecutorEnds(e)
                \/ \E decision \in SettlementDecision, sharedMiner \in BOOLEAN :
                    ExecutorDecides(e, decision, sharedMiner)
           \/ \E c \in completions : CompletionCommits(c) \/ CompletionAborts(c)
<1>1. ASSUME NEW p \in Pacts, CreatePactAction(p) \/ CreatePactDraft(p) PROVE Calm
    BY <1>1 DEF CreatePactAction, CreatePactDraft, CreatePact, Calm, Settled, StoreStepInv,
                StoreInv, TypeOK, runVars
<1>2. ASSUME NEW p \in Pacts, ConfirmFundingAction(p) PROVE Calm
    <2> DEFINE evidence == [tx |-> p, onchainId |-> p]
    <2>1. evidence \in FundingEvidence
        BY WorkflowAssumption DEF FundingEvidence
    <2>2. ConfirmFunding(p, evidence) /\ UNCHANGED <<executors, recovering>>
        BY <1>2 DEF ConfirmFundingAction, runVars
    <2> HIDE DEF evidence
    <2>3. /\ pacts[p].status = "DRAFT" /\ pacts'[p].status = "FUNDED"
          /\ \A q \in Pacts : q # p => pacts'[q] = pacts[q]
        BY <2>1, <2>2, FundedRow DEF ConfirmFunding, Fundable, StoreStepInv, StoreInv, TypeOK
    <2> QED BY <2>2, <2>3 DEF ConfirmFunding, Calm, Settled
<1>3. ASSUME NEW p \in Pacts, NEW key \in ChangeKeys, RequestChangesAction(p, key) PROVE Calm
    BY <1>3, RowIsCalm DEF RequestChangesAction, CreateChangeRequest, Settled, PactStatus, runVars
<1>4. ASSUME NEW p \in Pacts,
             \/ \E receipt \in receipts : PrepareReleaseReads(p, receipt)
             \/ \E terms \in {Agreed, Other} : FundOnchain(p, terms)
             \/ RefundWindowOpens(p)
             \/ RefundOnchain(p)
             \/ \E key \in SubmissionKeys, artifact \in Artifacts : SubmitEvidenceReads(p, key, artifact)
             \/ \E nonce \in Nonces : SignAuthorization(p, nonce)
      PROVE  Calm
    <2>1. UNCHANGED <<storeVars, runVars>>
        BY <1>4 DEF PrepareReleaseReads, FundOnchain, RefundWindowOpens, RefundOnchain,
            SubmitEvidenceReads, SignAuthorization
    <2> QED BY <2>1 DEF storeVars, runVars, Calm
<1>5. ASSUME NEW request, \/ SubmitEvidenceEnds(request) \/ SettleOnchain(request)
                          \/ PermitExpires(request) \/ PrepareReleaseSigns(request)
      PROVE  Calm
    BY <1>5 DEF SubmitEvidenceEnds, SettleOnchain, PermitExpires, PrepareReleaseSigns,
        AppendAuthorized, storeVars, runVars, Calm
<1>6. CASE UNCHANGED workflowVars
    BY <1>6 DEF workflowVars, storeVars, runVars, Calm
<1>7. ASSUME NEW p \in Pacts, NEW run \in Runs,
             ExecuteServiceBegins(p, run) \/ ExecuteServiceJoins(p, run) \/ RecoverReads(p, run)
      PROVE  FALSE
    BY <1>7 DEF ExecuteServiceBegins, ExecuteServiceJoins, RecoverReads
<1>8. recovering = {}
    BY DEF OneActive
<1> QED BY <1>1, <1>2, <1>3, <1>4, <1>5, <1>6, <1>7, <1>8, CalmSubmission, CalmSettlement
        DEF WorkflowNext

\* The verdict of a pact depends on its receipts, its submissions and its status.
LEMMA LastWordKept ==
    ASSUME LastWord, UNCHANGED <<receipts, submissions>>,
           \A r \in receipts : r.pact \in Pacts,
           \A p \in Pacts : \/ pacts'[p].status = pacts[p].status
                            \/ ~Settled(pacts[p].status) /\ pacts'[p].status = "VERIFYING"
    PROVE  LastWord'
<1>1. \A p \in Pacts : Latest(p)' = Latest(p) /\ LatestReceipts(p)' = LatestReceipts(p)
    BY DEF Latest, LatestReceipts
<1>2. VerdictsFollowLatestReceipt'
    BY <1>1 DEF LastWord, VerdictsFollowLatestReceipt, Verdict, Settled
<1>3. \A r \in receipts' : r.decision = "RELEASE" =>
        pacts'[r.pact].status \in {"APPROVED", "RELEASED"} /\ r.submission = Latest(r.pact)'
    BY <1>1 DEF LastWord, Settled
<1> QED BY <1>2, <1>3 DEF LastWord

LEMMA BegunShape ==
    ASSUME NEW p, NEW run, NEW signed
    PROVE  /\ Begun(p, run, signed).pact = p
           /\ Begun(p, run, signed).signed = signed
           /\ Begun(p, run, signed).phase = "BEGUN"
    BY DEF Begun

LEMMA BeginStep ==
    ASSUME StoreStepInv, WebInv, NEW signature \in authorizations, NEW run \in Runs,
           AuthorizeVerificationAction(signature, run)
    PROVE  WebInv'
<1> DEFINE p == signature.pact
           b == Begun(p, run, signature.submission)
<1>0. /\ p \in Pacts /\ pacts \in [Pacts -> PactRow] /\ pacts[p] \in PactRow
      /\ \A r \in receipts \cup completions : r.pact \in Pacts
      /\ \A e \in executors : e.pact \in Pacts
    BY DEF StoreStepInv, StoreInv, TypeOK, Receipt, Bounded, Executor, Requests, Signature
<1>1. /\ BeginVerification(p, Latest(p)) /\ signature.submission = Latest(p)
      /\ executors' = executors \cup {b} /\ UNCHANGED recovering
    BY DEF AuthorizeVerificationAction, NamesTheDelivery
<1>2. b.pact = p /\ b.signed = Latest(p) /\ b.phase = "BEGUN"
    BY <1>1, BegunShape
<1> HIDE DEF b, p
<1>3. /\ ~Settled(pacts[p].status) /\ pacts'[p].status = "VERIFYING"
      /\ \A q \in Pacts : q # p => pacts'[q] = pacts[q]
      /\ UNCHANGED <<submissions, completions, receipts, now>>
    BY <1>0, <1>1, WithStatusRow DEF BeginVerification, Verifiable, Settled, PactStatus
<1>4. /\ \A e \in executors : e.pact # p
      /\ \A c \in completions : c.pact # p
    BY <1>3 DEF WebInv, OneActive, Settled
<1>5. OneActive'
    BY <1>0, <1>1, <1>2, <1>3, <1>4 DEF WebInv, OneActive
<1>6. \A q \in Pacts : Latest(q)' = Latest(q)
    BY <1>3 DEF Latest
<1>7. OnNewest'
    BY <1>0, <1>1, <1>2, <1>3, <1>6 DEF WebInv, OnNewest
<1>8. InTime'
    BY <1>3 DEF WebInv, InTime
<1>9. LastWord'
    <2>1. \A q \in Pacts : \/ pacts'[q].status = pacts[q].status
                           \/ ~Settled(pacts[q].status) /\ pacts'[q].status = "VERIFYING"
        BY <1>3
    <2> QED BY <1>0, <1>3, <2>1, LastWordKept DEF WebInv
<1> QED BY <1>5, <1>7, <1>8, <1>9 DEF WebInv

LEMMA ExecutorStep ==
    ASSUME StoreStepInv, WebInv, NEW e \in executors,
           \/ ExecutorReads(e) \/ ExecutorAttempts(e) \/ ExecutorEnds(e)
    PROVE  WebInv'
<1>0. /\ e \in Executor /\ \A f \in executors : f.pact \in Pacts
      /\ \A r \in receipts \cup completions : r.pact \in Pacts
    BY DEF StoreStepInv, StoreInv, TypeOK, Receipt, Bounded, Executor
<1>1. UNCHANGED <<storeVars, recovering>>
    BY DEF ExecutorReads, ExecutorAttempts, ExecutorEnds
<1>2. PICK f : /\ executors' \subseteq (executors \ {e}) \cup {f}
               /\ f.pact = e.pact /\ f.signed = e.signed
               /\ f.phase # "BEGUN" => f.submission = Latest(e.pact)
    <2>1. CASE ExecutorReads(e)
        <3> DEFINE g == [e EXCEPT !.phase = "READ", !.submission = Latest(e.pact)]
        <3>1. g.pact = e.pact /\ g.signed = e.signed /\ g.submission = Latest(e.pact)
            BY <1>0 DEF Executor
        <3>2. executors' = (executors \ {e}) \cup {g}
            BY <2>1 DEF ExecutorReads
        <3> HIDE DEF g
        <3> QED BY <3>1, <3>2
    <2>2. CASE ExecutorAttempts(e)
        <3> DEFINE g == [e EXCEPT !.phase = "PAYING"]
        <3>1. g.pact = e.pact /\ g.signed = e.signed /\ g.submission = e.submission
            BY <1>0 DEF Executor
        <3>2. executors' = (executors \ {e}) \cup {g} /\ e.submission = Latest(e.pact)
            BY <2>2 DEF ExecutorAttempts, WebInv, OnNewest
        <3> HIDE DEF g
        <3> QED BY <3>1, <3>2
    <2>3. CASE ExecutorEnds(e)
        BY <2>3 DEF ExecutorEnds, WebInv, OnNewest
    <2> QED BY <2>1, <2>2, <2>3
<1>3. UNCHANGED <<pacts, submissions, completions, receipts, now, recovering>>
    BY <1>1 DEF storeVars
<1>4. OneActive'
    BY <1>2, <1>3 DEF WebInv, OneActive
<1>5. \A p \in Pacts : Latest(p)' = Latest(p)
    BY <1>3 DEF Latest
<1>6. OnNewest'
    BY <1>0, <1>2, <1>3, <1>5 DEF WebInv, OnNewest
<1>7. InTime'
    BY <1>3 DEF WebInv, InTime
<1>8. LastWord'
    BY <1>0, <1>3, LastWordKept DEF WebInv
<1> QED BY <1>4, <1>6, <1>7, <1>8 DEF WebInv

LEMMA DecideStep ==
    ASSUME StoreStepInv, WebInv, NEW e \in executors, NEW decision \in SettlementDecision,
           NEW sharedMiner \in BOOLEAN, ExecutorDecides(e, decision, sharedMiner)
    PROVE  WebInv'
<1> DEFINE c == [pact |-> e.pact, submission |-> e.submission, run |-> e.run,
                 key |-> ServiceKey(e), decision |-> decision, sharedMiner |-> sharedMiner,
                 startedAt |-> now + 1]
<1>0. /\ e \in Executor /\ \A f \in executors : f.pact \in Pacts
      /\ \A r \in receipts \cup completions : r.pact \in Pacts /\ r.startedAt \in Nat
      /\ now \in Nat
    BY DEF StoreStepInv, StoreInv, TypeOK, Receipt, Bounded, Executor
<1>1. /\ completions' = completions \cup {c} /\ executors' = executors \ {e}
      /\ now' = now + 1 /\ UNCHANGED <<pacts, submissions, receipts, recovering>>
    BY DEF ExecutorDecides, StartCompletion
<1>2. c.pact = e.pact /\ c.startedAt = now + 1 /\ c.submission = Latest(e.pact)
    BY DEF ExecutorDecides, WebInv, OnNewest
<1> HIDE DEF c
<1>3. OneActive'
    BY <1>1, <1>2 DEF WebInv, OneActive
<1>4. \A p \in Pacts : Latest(p)' = Latest(p)
    BY <1>1 DEF Latest
<1>5. OnNewest'
    BY <1>0, <1>1, <1>2, <1>4 DEF WebInv, OnNewest
<1>6. InTime'
    BY <1>0, <1>1, <1>2 DEF WebInv, InTime
<1>7. LastWord'
    BY <1>0, <1>1, LastWordKept DEF WebInv
<1> QED BY <1>3, <1>5, <1>6, <1>7 DEF WebInv

LEMMA AbortStep ==
    ASSUME StoreStepInv, WebInv, NEW c \in completions, CompletionAborts(c)
    PROVE  WebInv'
<1>0. \A r \in receipts \cup completions : r.pact \in Pacts
    BY DEF StoreStepInv, StoreInv, TypeOK, Receipt
<1>1. /\ completions' = completions \ {c}
      /\ UNCHANGED <<executors, pacts, submissions, receipts, now, recovering>>
    BY DEF CompletionAborts, AbortCompletion, runVars
<1>2. OneActive'
    BY <1>1 DEF WebInv, OneActive
<1>3. OnNewest'
    BY <1>1 DEF WebInv, OnNewest, Latest
<1>4. InTime'
    BY <1>1 DEF WebInv, InTime
<1>5. LastWord'
    BY <1>0, <1>1, LastWordKept DEF WebInv
<1> QED BY <1>2, <1>3, <1>4, <1>5 DEF WebInv

\* What a completion does to the pact's row.
LEMMA CommitEffect ==
    ASSUME StoreStepInv, NEW c \in completions, CompletionCommits(c)
    PROVE  /\ c.pact \in Pacts /\ c.decision \in SettlementDecision
           /\ pacts'[c.pact].status = StatusFor(c.decision)
           /\ \A p \in Pacts : p # c.pact => pacts'[p] = pacts[p]
           /\ completions' = completions \ {c} /\ receipts' = receipts \cup {c}
           /\ UNCHANGED <<executors, submissions, now, recovering>>
<1>1. /\ pacts \in [Pacts -> PactRow] /\ c.pact \in Pacts /\ pacts[c.pact] \in PactRow
      /\ c.decision \in SettlementDecision /\ StatusFor(c.decision) \in PactStatus \cup {"NONE"}
    BY StatusTypes DEF StoreStepInv, StoreInv, TypeOK, Receipt, PactStatus
<1>2. CommitCompletion(c) /\ UNCHANGED <<executors, recovering>>
    BY DEF CompletionCommits, runVars
<1> QED BY <1>1, <1>2, WithStatusRow DEF CommitCompletion

LEMMA CommitStep ==
    ASSUME StoreStepInv, WebInv, NEW c \in completions, CompletionCommits(c)
    PROVE  WebInv'
<1> DEFINE p == c.pact
<1>0. /\ \A r \in receipts \cup completions : r.pact \in Pacts /\ r.startedAt \in Nat
      /\ \A e \in executors : e.pact \in Pacts
      /\ now \in Nat
    BY DEF StoreStepInv, StoreInv, TypeOK, Receipt, Bounded, Executor
<1>1. /\ p \in Pacts /\ pacts'[p].status = StatusFor(c.decision)
      /\ \A q \in Pacts : q # p => pacts'[q] = pacts[q]
      /\ completions' = completions \ {c} /\ receipts' = receipts \cup {c}
      /\ UNCHANGED <<executors, submissions, now, recovering>>
    BY CommitEffect
<1>2. /\ \A e \in executors : e.pact # p
      /\ \A d \in completions' : d.pact # p
      /\ pacts[p].status = "VERIFYING"
    BY <1>1 DEF WebInv, OneActive
<1>3. OneActive'
    BY <1>0, <1>1, <1>2 DEF WebInv, OneActive
<1>4. OnNewest'
    BY <1>1 DEF WebInv, OnNewest, Latest
<1>5. InTime'
    BY <1>1, <1>2 DEF WebInv, InTime
<1>6. \A q \in Pacts : Latest(q)' = Latest(q)
    BY <1>1 DEF Latest
<1>7. \A r \in receipts : r.pact = p => r.decision # "RELEASE"
    BY <1>2 DEF WebInv, LastWord
<1>8. c \in LatestReceipts(p)' /\ c.submission = Latest(p)'
    <2>1. \A r \in receipts' : r.pact = p => r.startedAt <= c.startedAt
        BY <1>0, <1>1 DEF WebInv, InTime
    <2> QED BY <1>1, <1>6, <2>1 DEF LatestReceipts, WebInv, OnNewest
<1>9. \A q \in Pacts : q # p => LatestReceipts(q)' = LatestReceipts(q)
    BY <1>1 DEF LatestReceipts
<1>10. VerdictsFollowLatestReceipt'
    <2> SUFFICES ASSUME NEW q \in Pacts
                 PROVE  /\ pacts'[q].status \in {"APPROVED", "RELEASED"} => Verdict(q, "RELEASE")'
                        /\ pacts'[q].status = "REJECTED" => Verdict(q, "REJECT")'
        BY DEF VerdictsFollowLatestReceipt
    <2>1. CASE q # p
        BY <1>1, <1>6, <1>9, <2>1 DEF WebInv, LastWord, VerdictsFollowLatestReceipt, Verdict
    <2>2. CASE q = p
        <3>1. /\ pacts'[p].status \in {"APPROVED", "RELEASED"} => c.decision = "RELEASE"
              /\ pacts'[p].status = "REJECTED" => c.decision = "REJECT"
            BY <1>1 DEF StatusFor
        <3> QED BY <1>8, <2>2, <3>1 DEF Verdict
    <2> QED BY <2>1, <2>2
<1>11. ASSUME NEW r \in receipts', r.decision = "RELEASE"
       PROVE  pacts'[r.pact].status \in {"APPROVED", "RELEASED"} /\ r.submission = Latest(r.pact)'
    <2>1. CASE r = c
        BY <1>1, <1>8, <1>11, <2>1 DEF StatusFor
    <2>2. CASE r \in receipts
        BY <1>0, <1>1, <1>6, <1>7, <1>11, <2>2 DEF WebInv, LastWord
    <2> QED BY <1>1, <2>1, <2>2
<1>12. LastWord'
    BY <1>10, <1>11 DEF LastWord
<1> QED BY <1>3, <1>4, <1>5, <1>12 DEF WebInv

LEMMA WebStep ==
    ASSUME OperatorScripts = {}
    PROVE  StoreStepInv /\ WebInv /\ [WorkflowNext]_workflowVars => WebInv'
BY CalmSteps, CalmStep, BeginStep, ExecutorStep, DecideStep, AbortStep, CommitStep DEF WebInv

LEMMA InitWeb == WorkflowInit => WebInv
<1> SUFFICES ASSUME WorkflowInit PROVE WebInv
    OBVIOUS
<1>1. executors = {} /\ recovering = {} /\ Init
    BY DEF WorkflowInit
<1>2. completions = {} /\ receipts = {} /\ \A p \in Pacts : pacts[p] = NoRow
    BY <1>1 DEF Init
<1>3. NoRow.status = "NONE"
    BY DEF NoRow
<1> QED BY <1>1, <1>2, <1>3 DEF WebInv, OneActive, OnNewest, InTime, LastWord,
                                 VerdictsFollowLatestReceipt

LEMMA WebAlways ==
    ASSUME OperatorScripts = {}
    PROVE  WorkflowSpec => []WebInv
<1>1. StoreStepInv /\ WebInv /\ [WorkflowNext]_workflowVars => WebInv'
    BY WebStep
<1> QED BY <1>1, InitWeb, StoreStepInvAlways, PTL DEF WorkflowSpec

\* The application alone: while a pact is approved, paid or rejected, that is what
\* its newest receipt says of its newest delivery.
THEOREM VerdictsAreTheLatest ==
    ASSUME OperatorScripts = {}
    PROVE  WorkflowSpec => []VerdictsFollowLatestReceipt
<1>1. WebInv => VerdictsFollowLatestReceipt
    BY DEF WebInv, LastWord
<1> QED BY <1>1, WebAlways, PTL

\* The application alone: a pact has one run at a time, and is VERIFYING until
\* that run has ended.
THEOREM RunsAreAlone ==
    ASSUME OperatorScripts = {}
    PROVE  WorkflowSpec => []OneRunAtATime
<1>1. WebInv => OneRunAtATime
    BY DEF WebInv, OneActive, OneRunAtATime
<1> QED BY <1>1, WebAlways, PTL

\* The application alone: a run pays for the delivery that was signed.
THEOREM SignedDeliveryIsVerified ==
    ASSUME OperatorScripts = {}
    PROVE  WorkflowSpec => []VerifiesWhatWasSigned
<1>1. WebInv => VerifiesWhatWasSigned
    BY DEF WebInv, OnNewest, VerifiesWhatWasSigned
<1> QED BY <1>1, WebAlways, PTL

\* The application alone: the reward leaves, or can leave under a permit, only for
\* a RELEASE of the newest delivery of a pact that is still approved.
THEOREM MoneyFollowsTheVerdict ==
    ASSUME OperatorScripts = {}
    PROVE  WorkflowSpec => []MoneyFollowsVerdict
<1>1. StoreStepInv /\ ChainInv /\ MoneyReceipts /\ WebInv => MoneyFollowsVerdict
    <2> SUFFICES ASSUME ChainInv, MoneyReceipts, LastWord
                 PROVE  MoneyFollowsVerdict
        BY DEF WebInv
    <2> DEFINE Backed(p, run) ==
                    /\ pacts[p].status \in {"APPROVED", "RELEASED"}
                    /\ \E r \in receipts :
                        /\ r.run = run /\ r.pact = p
                        /\ r.decision = "RELEASE" /\ r.submission = Latest(p)
    <2>1. ASSUME NEW p \in Pacts, NEW run, ReleaseReceipt(p, run)
          PROVE  Backed(p, run)
        BY <2>1 DEF LastWord, ReleaseReceipt
    <2>2. ASSUME NEW p \in Pacts, NEW run \in Runs, <<p, run>> \in permits
          PROVE  Backed(p, run)
        BY <2>1, <2>2 DEF MoneyReceipts
    <2>3. ASSUME NEW p \in Pacts, NEW log \in chainPayouts,
                 log.pactId = p, log.event = "PactSettled"
          PROVE  Backed(p, log.receiptHash)
        BY <2>1, <2>3 DEF ChainInv, MoneyReceipts
    <2> QED BY <2>2, <2>3 DEF MoneyFollowsVerdict
<1> QED BY <1>1, WebAlways, PartsAlways, MoneyReceiptsAlways, PTL

\* What a step may not do to a verdict.
VerdictsKept ==
    \A p \in Pacts :
        /\ pacts[p].status = "REJECTED" => pacts'[p].status = "REJECTED"
        /\ pacts[p].status = "RELEASED" => pacts'[p].status = "RELEASED"
        /\ pacts[p].status = "APPROVED" => pacts'[p].status \in {"APPROVED", "RELEASED"}

LEMMA VerdictsStep ==
    ASSUME OperatorScripts = {}
    PROVE  StoreStepInv /\ WebInv /\ [WorkflowNext]_workflowVars => VerdictsKept
<1> SUFFICES ASSUME StoreStepInv, WebInv, [WorkflowNext]_workflowVars
             PROVE  VerdictsKept
    OBVIOUS
<1>1. CASE Calm
    BY <1>1 DEF Calm, Settled, VerdictsKept
<1>2. ASSUME NEW signature \in authorizations, NEW run \in Runs,
             AuthorizeVerificationAction(signature, run)
      PROVE  VerdictsKept
    <2>1. signature.pact \in Pacts /\ BeginVerification(signature.pact, Latest(signature.pact))
        BY <1>2 DEF AuthorizeVerificationAction, StoreStepInv, Requests, Signature
    <2> QED BY <2>1 DEF BeginVerification, Verifiable, VerdictsKept, StoreStepInv, StoreInv, TypeOK
<1>3. ASSUME NEW e \in executors,
             \/ ExecutorReads(e) \/ ExecutorAttempts(e) \/ ExecutorEnds(e)
             \/ \E decision \in SettlementDecision, sharedMiner \in BOOLEAN :
                    ExecutorDecides(e, decision, sharedMiner)
      PROVE  VerdictsKept
    BY <1>3 DEF ExecutorReads, ExecutorAttempts, ExecutorEnds, ExecutorDecides,
                StartCompletion, storeVars, VerdictsKept
<1>4. ASSUME NEW c \in completions, CompletionCommits(c)
      PROVE  VerdictsKept
    <2>1. pacts[c.pact].status = "VERIFYING"
        BY DEF WebInv, OneActive
    <2> QED BY <1>4, <2>1, CommitEffect DEF VerdictsKept
<1>5. ASSUME NEW c \in completions, CompletionAborts(c)
      PROVE  VerdictsKept
    BY <1>5 DEF CompletionAborts, AbortCompletion, VerdictsKept
<1> QED BY <1>1, <1>2, <1>3, <1>4, <1>5, CalmSteps DEF WebInv

\* The application alone: a rejection and a payment are final, and an approval can
\* only be paid.
THEOREM VerdictsAreTerminal ==
    ASSUME OperatorScripts = {}
    PROVE  WorkflowSpec => TerminalVerdicts
<1>1. StoreStepInv /\ WebInv /\ [WorkflowNext]_workflowVars => [VerdictsKept]_workflowVars
    BY VerdictsStep
<1>2. TerminalVerdicts <=> [][VerdictsKept]_workflowVars
    BY DEF TerminalVerdicts, VerdictsKept
<1> QED BY <1>1, <1>2, WebAlways, StoreStepInvAlways, PTL DEF WorkflowSpec

-----------------------------------------------------------------------------
(* A lost confirmation *)

RewardPaid(p) ==
    \E log \in chainPayouts :
        /\ log.event = "PactSettled" /\ log.action = "RELEASE" /\ log.pactId = p
        /\ log.receiptHash \in Runs
        /\ log.recipient = Worker /\ log.amount = Reward

\* A released slot of the escrow has paid the reward to the row's worker, and the
\* store has confirmed no settlement but of pacts it has marked as paid.
PaymentsMeet ==
    /\ \A p \in Pacts : pacts[p].status # "NONE" => pacts[p].worker = Worker
    /\ \A p \in Pacts : chainPacts[p].status = "RELEASED" => RewardPaid(p)
    /\ \A e \in confirmed : pacts[e.pact].status = "RELEASED"

\* A step changes no row, creates one for the two parties, or changes one that is
\* there.
LEMMA OneRowStep ==
    ASSUME StoreStepInv, [WorkflowNext]_workflowVars
    PROVE  \/ UNCHANGED pacts
           \/ \E p \in Pacts : CreatePact(p, Requester, Worker)
           \/ \E p \in Pacts : /\ pacts[p].status # "NONE"
                               /\ \A q \in Pacts : q # p => pacts'[q] = pacts[q]
<1>0. StoreInv /\ TypeOK /\ pacts \in [Pacts -> PactRow]
    BY DEF StoreStepInv, StoreInv, TypeOK
<1>1. ASSUME NEW p \in Pacts, ConfirmFundingAction(p)
      PROVE  pacts[p].status # "NONE" /\ \A q \in Pacts : q # p => pacts'[q] = pacts[q]
    BY <1>0, <1>1 DEF ConfirmFundingAction, ConfirmFunding, Fundable
<1>2. ASSUME NEW p \in Pacts, NEW key, NEW artifact, CreateSubmission(p, Worker, key, artifact)
      PROVE  pacts[p].status # "NONE" /\ \A q \in Pacts : q # p => pacts'[q] = pacts[q]
    BY <1>0, <1>2 DEF CreateSubmission, TakesEvidence
<1>3. ASSUME NEW p \in Pacts, NEW key, CreateChangeRequest(p, Requester, Latest(p), key)
      PROVE  pacts[p].status # "NONE" /\ \A q \in Pacts : q # p => pacts'[q] = pacts[q]
    BY <1>0, <1>3 DEF CreateChangeRequest
<1>4. ASSUME NEW p \in Pacts, BeginVerification(p, Latest(p))
      PROVE  pacts[p].status # "NONE" /\ \A q \in Pacts : q # p => pacts'[q] = pacts[q]
    BY <1>0, <1>4 DEF BeginVerification, Verifiable
<1>5. ASSUME NEW c \in completions, CommitCompletion(c)
      PROVE  /\ c.pact \in Pacts /\ pacts[c.pact].status # "NONE"
             /\ \A q \in Pacts : q # c.pact => pacts'[q] = pacts[q]
    <2>1. c.pact \in Pacts /\ c.submission \in DOMAIN submissions[c.pact]
        BY <1>0 DEF TypeOK, Receipt
    <2>2. submissions[c.pact] # <<>>
        BY <1>0, <2>1, EmptySeq DEF TypeOK
    <2>3. pacts[c.pact].status # "NONE"
        BY <1>0, <2>1, <2>2 DEF StoreInv, StatusIsExplained, Explained
    <2> QED BY <1>0, <1>5, <2>1, <2>3 DEF CommitCompletion
<1>6. ASSUME NEW p \in Pacts, NEW receipt \in receipts, ConfirmReleaseAction(p, receipt)
      PROVE  pacts[p].status # "NONE" /\ \A q \in Pacts : q # p => pacts'[q] = pacts[q]
    BY <1>0, <1>6 DEF ConfirmReleaseAction, ConfirmSettlement, StoreInv, FundingEvidenceComplete
<1> QED BY <1>1, <1>2, <1>3, <1>4, <1>5, <1>6, RowSteps

LEMMA WorkerStep ==
    ASSUME StoreStepInv, PaymentsMeet, [WorkflowNext]_workflowVars, NEW p \in Pacts,
           pacts'[p].status # "NONE"
    PROVE  pacts'[p].worker = Worker
<1>0. HistoryKept /\ pacts \in [Pacts -> PactRow]
    BY StoreInvStep DEF StoreStepInv, StoreInv, TypeOK
<1>1. CASE pacts[p].status # "NONE"
    BY <1>0, <1>1 DEF HistoryKept, PaymentsMeet
<1>2. CASE pacts[p].status = "NONE"
    <2>1. PICK q \in Pacts : CreatePact(q, Requester, Worker)
        BY <1>2, OneRowStep
    <2> QED BY <1>0, <1>2, <2>1 DEF CreatePact
<1> QED BY <1>1, <1>2

\* What a slot of the escrow that is funded holds.
LEMMA FundedSlot ==
    ASSUME ChainInv, NEW p \in Pacts, chainPacts[p].status = "FUNDED"
    PROVE  chainPacts[p].worker = Worker /\ chainPacts[p].amount = Reward
<1>1. PICK terms \in {Agreed, Other}, status \in {"FUNDED", "RELEASED", "REFUNDED"} :
        chainPacts[p] = [Agreement(terms) EXCEPT !.status = status]
    BY DEF ChainInv, ChainPact, NotFunded
<1> QED BY <1>1 DEF Agreement

\* A slot is released by the settlement that pays the reward, and by nothing else.
LEMMA PaidStep ==
    ASSUME StoreStepInv, ChainInv, PaymentsMeet, [WorkflowNext]_workflowVars, NEW p \in Pacts,
           chainPacts'[p].status = "RELEASED"
    PROVE  RewardPaid(p)'
<1>0. permits \subseteq Pacts \X Runs
    BY DEF StoreStepInv, Requests
<1>1. ASSUME chainPayouts \subseteq chainPayouts', chainPacts'[p] = chainPacts[p]
      PROVE  RewardPaid(p)'
    BY <1>1 DEF PaymentsMeet, RewardPaid
<1>2. CASE UNCHANGED <<chainPacts, chainPayouts>>
    BY <1>1, <1>2
<1>3. ASSUME NEW q \in Pacts, NEW terms \in {Agreed, Other}, FundOnchain(q, terms)
      PROVE  RewardPaid(p)'
    <2>1. chainPacts'[q].status = "FUNDED"
        BY <1>3, FundedShape DEF FundOnchain, Chain!Fund, ChainInv
    <2> QED BY <1>1, <1>3, <2>1, FundEffect
<1>4. ASSUME NEW q \in Pacts, RefundOnchain(q) PROVE RewardPaid(p)'
    <2> DEFINE log == Refund(q)
    <2>1. Chain!PayOut(q, log) /\ log.event # "PactSettled"
        BY <1>4 DEF RefundOnchain, Refund
    <2> HIDE DEF log
    <2>2. Chain!StatusAfter(log) = "REFUNDED"
        BY <2>1 DEF Chain!StatusAfter
    <2>3. chainPacts' = [chainPacts EXCEPT ![q] = PaidOut(chainPacts[q], "REFUNDED")]
        BY <2>1, <2>2 DEF Chain!PayOut, PaidOut
    <2>4. chainPacts[q].status = "FUNDED" /\ chainPayouts \subseteq chainPayouts'
        BY <2>1 DEF Chain!PayOut
    <2>5. chainPacts'[q].status = "REFUNDED"
        BY <2>3, <2>4, ChainPactShape DEF ChainInv
    <2> QED BY <1>1, <1>4, <2>4, <2>5, RefundEffect
<1>5. ASSUME NEW permit \in permits, SettleOnchain(permit) PROVE RewardPaid(p)'
    <2>1. CASE p # permit[1]
        BY <1>0, <1>1, <1>5, <2>1, SettleEffect
    <2>2. CASE p = permit[1]
        <3> DEFINE log == Release(permit[1], permit[2])
        <3>1. Chain!PayOut(p, log) /\ chainPacts[p].status = "FUNDED"
            BY <1>5, <2>2 DEF SettleOnchain, Chain!PayOut
        <3>2. /\ log.event = "PactSettled" /\ log.action = "RELEASE" /\ log.pactId = p
              /\ log.receiptHash \in Runs
              /\ log.recipient = Worker /\ log.amount = Reward
            BY <1>0, <2>2, <3>1, FundedSlot DEF Release
        <3> HIDE DEF log
        <3>3. log \in chainPayouts'
            BY <3>1 DEF Chain!PayOut
        <3> QED BY <3>2, <3>3 DEF RewardPaid
    <2> QED BY <2>1, <2>2
<1> QED BY <1>2, <1>3, <1>4, <1>5, ChainSteps

\* A settlement that is confirmed is of a receipt that released, so it marks the
\* pact as paid; and no verdict takes that back.
LEMMA ConfirmedStep ==
    ASSUME OperatorScripts = {}
    PROVE  /\ StoreStepInv /\ ChainInv /\ MoneyReceipts /\ WebInv /\ PaymentsMeet
           /\ [WorkflowNext]_workflowVars
           => \A e \in confirmed' : pacts'[e.pact].status = "RELEASED"
<1> SUFFICES ASSUME StoreStepInv, ChainInv, MoneyReceipts, WebInv, PaymentsMeet,
                    [WorkflowNext]_workflowVars, NEW e \in confirmed'
             PROVE  pacts'[e.pact].status = "RELEASED"
    OBVIOUS
<1>1. CASE e \in confirmed
    <2>1. e.pact \in Pacts
        BY <1>1 DEF StoreStepInv, StoreInv, TypeOK, Confirmation
    <2>2. VerdictsKept
        BY VerdictsStep
    <2> QED BY <1>1, <2>1, <2>2 DEF VerdictsKept, PaymentsMeet
<1>2. CASE e \notin confirmed
    <2>1. PICK p \in Pacts : \E receipt \in receipts : ConfirmReleaseAction(p, receipt)
        BY <1>2, RowSteps DEF CreatePact, ConfirmFundingAction, ConfirmFunding, CreateSubmission,
            CreateChangeRequest, BeginVerification, CommitCompletion
    <2>2. PICK receipt \in receipts : ConfirmReleaseAction(p, receipt)
        BY <2>1
    <2>3. /\ receipt.run \in Runs /\ ConfirmSettlement(p, receipt, p)
          /\ SettlementMatches(p, receipt)
        BY <2>2 DEF ConfirmReleaseAction, StoreStepInv, StoreInv, TypeOK, Receipt
    <2>4. ReleaseReceipt(p, receipt.run)
        BY <2>3 DEF SettlementMatches, MoneyReceipts
    <2>5. pacts[p].status \in {"APPROVED", "RELEASED"}
        BY <2>4 DEF ReleaseReceipt, WebInv, LastWord
    <2>6. e.pact = p
        BY <1>2, <2>3 DEF ConfirmSettlement
    <2>7. /\ pacts \in [Pacts -> PactRow] /\ pacts[p] \in PactRow
          /\ StatusOnConfirmation(pacts[p].status) \in PactStatus \cup {"NONE"}
        BY StatusTypes DEF StoreStepInv, StoreInv, TypeOK, PactRow
    <2>8. pacts'[p].status = StatusOnConfirmation(pacts[p].status)
        BY <2>3, <2>7, WithStatusRow DEF ConfirmSettlement
    <2> QED BY <2>5, <2>6, <2>8 DEF StatusOnConfirmation
<1> QED BY <1>1, <1>2

LEMMA PaymentsMeetAlways ==
    ASSUME OperatorScripts = {}
    PROVE  WorkflowSpec => []PaymentsMeet
<1>1. WorkflowInit => PaymentsMeet
    <2> SUFFICES ASSUME WorkflowInit PROVE PaymentsMeet
        OBVIOUS
    <2>1. Init /\ \A p \in Pacts : chainPacts[p] = NotFunded
        BY DEF WorkflowInit
    <2>2. confirmed = {} /\ \A p \in Pacts : pacts[p] = NoRow
        BY <2>1 DEF Init
    <2>3. NoRow.status = "NONE" /\ NotFunded.status = "NONE"
        BY DEF NoRow, NotFunded
    <2> QED BY <2>1, <2>2, <2>3 DEF PaymentsMeet
<1>2. StoreStepInv /\ ChainInv /\ MoneyReceipts /\ WebInv /\ PaymentsMeet
        /\ [WorkflowNext]_workflowVars => PaymentsMeet'
    BY WorkerStep, PaidStep, ConfirmedStep DEF PaymentsMeet
<1> QED BY <1>1, <1>2, PartsAlways, MoneyReceiptsAlways, WebAlways, PTL DEF WorkflowSpec

\* The application alone: when the worker has been paid and the confirmation was
\* lost, confirmReleaseAction still takes it, whatever has happened since.
THEOREM LostConfirmationsAreAccepted ==
    ASSUME OperatorScripts = {}
    PROVE  WorkflowSpec => []ReleaseStaysConfirmable
<1>1. StoreStepInv /\ MoneyReceipts /\ WebInv /\ PaymentsMeet => ReleaseStaysConfirmable
    <2> SUFFICES ASSUME StoreStepInv, MoneyReceipts, WebInv, PaymentsMeet, NEW p \in Pacts,
                        chainPacts[p].status = "RELEASED", pacts[p].status # "RELEASED"
                 PROVE  Confirmable(p)
        BY DEF ReleaseStaysConfirmable
    <2>1. PICK log \in chainPayouts :
            /\ log.event = "PactSettled" /\ log.action = "RELEASE" /\ log.pactId = p
            /\ log.receiptHash \in Runs
            /\ log.recipient = Worker /\ log.amount = Reward
        BY DEF PaymentsMeet, RewardPaid
    <2>2. PICK receipt \in receipts :
            /\ receipt.run = log.receiptHash /\ receipt.pact = p
            /\ receipt.decision = "RELEASE"
        BY <2>1 DEF MoneyReceipts, ReleaseReceipt
    <2>3. pacts[p].status = "APPROVED"
        BY <2>2 DEF WebInv, LastWord
    <2>4. pacts[p].evidence # None /\ pacts[p].worker = Worker
        BY <2>3 DEF StoreStepInv, StoreInv, FundingEvidenceComplete, PaymentsMeet
    <2>5. SettlementMatches(p, receipt)
        BY <2>1, <2>2, <2>4 DEF SettlementMatches
    <2>6. Unconfirmed(receipt)
        <3> SUFFICES ASSUME NEW e \in confirmed, e.receipt = receipt.run PROVE FALSE
            BY DEF Unconfirmed
        <3>1. PICK r \in receipts : r.run = e.receipt /\ r.pact = e.pact
            BY DEF StoreStepInv, StoreInv, TypeOK
        <3>2. r = receipt
            BY <3>1 DEF StoreStepInv, StoreInv, IdempotencyHolds
        <3> QED BY <2>2, <3>1, <3>2 DEF PaymentsMeet
    <2> QED BY <2>2, <2>3, <2>4, <2>5, <2>6 DEF Confirmable, StatusOnConfirmation
<1> QED BY <1>1, StoreStepInvAlways, MoneyReceiptsAlways, WebAlways, PaymentsMeetAlways, PTL

=============================================================================
