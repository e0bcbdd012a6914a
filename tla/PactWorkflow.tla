---------------------------- MODULE PactWorkflow ----------------------------
(***************************************************************************)
(* A pact's life across the three places that know about it: the wallets   *)
(* and server actions that drive it (actions.ts), the store (PactStore),   *)
(* and the escrow on the chain (PactEscrowLedger).                         *)
(*                                                                         *)
(* A server action that reads, then works, then writes is one step per     *)
(* read and write; what it carries between them is kept in submitting,     *)
(* preparing, executors or recovering.  An action whose write checks again *)
(* everything its reads checked is one step.  Operator scripts can be      *)
(* switched on.                                                            *)
(***************************************************************************)
EXTENDS PactStore

CONSTANTS
    Requester, Worker,   \* the two wallets of every pact
    Agreed, Other,       \* terms of the pact row; any other terms and parties
    OperatorScripts,     \* subset of {"execute", "recover"}
    SharedMiner,         \* may one miner answer two intents of a run?
    Failures,            \* may a run throw, a process die or a connection drop?
    Nonces,              \* nonces of the requester's authorizations
    MaxSubmissions       \* bound: submissions of a pact

VARIABLES
    chainPacts,    \* the escrow's pacts, by the hash of the pact id
    chainPayouts,  \* the escrow's PactSettled and PactRefundedAfterExpiry events
    refundable,    \* pacts whose refundAfter has passed
    permits,       \* signed, unexpired release permits
    submitting,    \* submitWorkerEvidenceAction between its read and its write
    authorizations, \* the requester's signatures, with how often they were used
    executors,     \* verification runs before completeVerification
    attempts,      \* runs with rows in verification_attempt_events
    preparing,     \* prepareReleaseAction between its read and its signature
    recovering     \* recover-stalled-verification between its read and its write

chainVars == <<chainPacts, chainPayouts, refundable>>
runVars == <<executors, attempts, recovering>>
requestVars == <<permits, submitting, preparing>>
signingVars == <<requestVars, authorizations>>
workflowVars == <<storeVars, chainVars, runVars, signingVars>>

Chain == INSTANCE PactEscrowLedger
            WITH PactIds <- Pacts, pacts <- chainPacts, payouts <- chainPayouts

\* A pact is funded by one transaction and paid by one transaction, so its id
\* names its escrow slot and both transactions.
ASSUME WorkflowAssumption ==
    /\ Requester \in Parties /\ Worker \in Parties /\ Requester # Worker
    /\ Agreed # Other
    /\ FundingTxs = Pacts /\ OnchainIds = Pacts /\ SettlementTxs = Pacts
    /\ RunKeys = [kind : {"service", "recovered"}, submission : 1..MaxSubmissions,
                  run : Runs \cup {None}]
    /\ MaxSubmissions \in Nat /\ None \notin Runs
    /\ OperatorScripts \subseteq {"execute", "recover"}
    /\ SharedMiner \in BOOLEAN /\ Failures \in BOOLEAN

-----------------------------------------------------------------------------
(* Types *)

Reward == 1

NotFunded == [status |-> "NONE", requester |-> None, worker |-> None,
              amount |-> 0, terms |-> None]

\* fundPact by the requester under the row's terms, or by anyone under others.
Agreement(terms) == [status |-> "FUNDED", requester |-> Requester, worker |-> Worker,
                     amount |-> Reward, terms |-> terms]

ChainPact == {NotFunded} \cup
             {[Agreement(terms) EXCEPT !.status = status] :
                 terms \in {Agreed, Other}, status \in {"FUNDED", "RELEASED", "REFUNDED"}}

Release(p, run) == [event |-> "PactSettled", pactId |-> p, receiptHash |-> run,
                    action |-> "RELEASE", recipient |-> chainPacts[p].worker,
                    amount |-> chainPacts[p].amount]

Refund(p) == [event |-> "PactRefundedAfterExpiry", pactId |-> p, receiptHash |-> None,
              action |-> None, recipient |-> chainPacts[p].requester,
              amount |-> chainPacts[p].amount]

Executor == [pact : Pacts, run : Runs, submission : Nat, signed : Nat, phase : {"BEGUN", "READ", "PAYING"}]

Signature == [pact : Pacts, submission : 1..MaxSubmissions, nonce : Nonces, uses : Nat]

\* Every part of the workflow holds values of its type.
WorkflowTypeOK ==
    /\ TypeOK
    /\ chainPacts \in [Pacts -> ChainPact]
    /\ \A log \in chainPayouts : log.pactId \in Pacts /\ log.receiptHash \in Runs \cup {None}
    /\ refundable \subseteq Pacts
    /\ permits \subseteq Pacts \X Runs
    /\ submitting \subseteq Pacts \X SubmissionKeys \X Artifacts
    /\ authorizations \subseteq Signature
    /\ executors \subseteq Executor
    /\ attempts \subseteq Pacts \X Runs
    /\ preparing \subseteq Pacts \X Runs
    /\ recovering \subseteq Pacts \X Nat \X Runs

WorkflowInit ==
    /\ Init
    /\ chainPacts = [p \in Pacts |-> NotFunded]
    /\ chainPayouts = {}
    /\ refundable = {}
    /\ permits = {}
    /\ submitting = {}
    /\ authorizations = {}
    /\ executors = {}
    /\ attempts = {}
    /\ preparing = {}
    /\ recovering = {}

-----------------------------------------------------------------------------
(* The chain *)

\* The plan of funding-plan.ts, or anybody's fundPact with the same pact id.
FundOnchain(p, terms) ==
    /\ pacts[p].status # "NONE"
    /\ Chain!Fund(p, Agreement(terms))
    /\ UNCHANGED <<storeVars, refundable, runVars, signingVars>>

RefundWindowOpens(p) ==
    /\ chainPacts[p].status = "FUNDED"
    /\ refundable' = refundable \cup {p}
    /\ UNCHANGED <<storeVars, chainPacts, chainPayouts, runVars, signingVars>>

\* The store never hears of it.
RefundOnchain(p) ==
    /\ p \in refundable
    /\ Chain!PayOut(p, Refund(p))
    /\ UNCHANGED <<storeVars, refundable, runVars, signingVars>>

\* The requester sends the calldata prepareReleaseAction returned; the escrow
\* compares the terms.
SettleOnchain(permit) ==
    /\ chainPacts[permit[1]].terms = Agreed
    /\ Chain!PayOut(permit[1], Release(permit[1], permit[2]))
    /\ UNCHANGED <<storeVars, refundable, runVars, signingVars>>

\* Its deadline, fifteen minutes after it was signed.
PermitExpires(permit) ==
    /\ permits' = permits \ {permit}
    /\ UNCHANGED <<storeVars, chainVars, runVars, submitting, preparing, authorizations>>

-----------------------------------------------------------------------------
(* Drafting, funding, delivering, asking for changes *)

CreatePactAction(p) ==
    /\ CreatePact(p, Requester, Worker)
    /\ UNCHANGED <<chainVars, runVars, signingVars>>

\* The MCP server's way to the same row.
CreatePactDraft(p) ==
    /\ CreatePact(p, Requester, Worker)
    /\ UNCHANGED <<chainVars, runVars, signingVars>>

\* confirm-funding.ts compares the PactFunded event of the transaction with
\* the row; the event stays in the log whatever became of the pact since.
EventMatchesRow(p) ==
    /\ chainPacts[p].status # "NONE"
    /\ chainPacts[p].terms = Agreed

ConfirmFundingAction(p) ==
    /\ EventMatchesRow(p)
    /\ ConfirmFunding(p, [tx |-> p, onchainId |-> p])
    /\ UNCHANGED <<chainVars, runVars, signingVars>>

\* "Remediation evidence is unchanged": only a held pact is compared.
Unchanged(p, artifact) ==
    /\ pacts[p].status = "HELD"
    /\ Latest(p) > 0
    /\ submissions[p][Latest(p)].artifact = artifact

SubmitEvidenceReads(p, key, artifact) ==
    /\ TakesEvidence(pacts[p].status)
    /\ ~Unchanged(p, artifact)
    /\ submitting' = submitting \cup {<<p, key, artifact>>}
    /\ UNCHANGED <<storeVars, chainVars, runVars, permits, preparing, authorizations>>

SubmitEvidenceWrites(request) ==
    /\ Latest(request[1]) < MaxSubmissions
    /\ CreateSubmission(request[1], Worker, request[2], request[3])
    /\ submitting' = submitting \ {request}
    /\ UNCHANGED <<chainVars, runVars, permits, preparing, authorizations>>

\* The store refuses, returns the earlier submission, or is never reached.
SubmitEvidenceEnds(request) ==
    /\ submitting' = submitting \ {request}
    /\ UNCHANGED <<storeVars, chainVars, runVars, permits, preparing, authorizations>>

RequestChangesAction(p, key) ==
    /\ CreateChangeRequest(p, Requester, Latest(p), key)
    /\ UNCHANGED <<chainVars, runVars, signingVars>>

-----------------------------------------------------------------------------
(* Verification *)

\* randomUUID: no run has the id.
FreshRun(run) ==
    /\ \A r \in receipts \cup completions : r.run # run
    /\ \A e \in executors : e.run # run
    /\ \A a \in attempts : a[2] # run

\* signed is the submission the requester's signature names, 0 when there is none.
Begun(p, run, signed) ==
    [pact |-> p, run |-> run, submission |-> 0, signed |-> signed, phase |-> "BEGUN"]

\* The requester signs what the page or prepareVerificationAuthorization made of
\* the latest submission, whatever the pact's status.  A nonce is random: no
\* other signature for the submission has it.
SignAuthorization(p, nonce) ==
    LET signature == [pact |-> p, submission |-> Latest(p), nonce |-> nonce, uses |-> 0]
    IN  /\ Latest(p) > 0
        /\ \A s \in authorizations : [s EXCEPT !.uses = 0] # signature
        /\ authorizations' = authorizations \cup {signature}
        /\ UNCHANGED <<storeVars, chainVars, runVars, requestVars>>

\* Any signature of the requester for the pact will do.
NamesThePact(signature, p) == signature.pact = p

\* The signature is for the latest submission; whether it was used is not asked.
NamesTheDelivery(signature, p) ==
    /\ signature.pact = p
    /\ signature.submission = Latest(p)

AuthorizeVerificationAction(signature, run) ==
    LET p == signature.pact
    IN  /\ NamesTheDelivery(signature, p)
        /\ FreshRun(run)
        /\ BeginVerification(p, Latest(p))
        /\ executors' = executors \cup {Begun(p, run, signature.submission)}
        /\ authorizations' = (authorizations \ {signature})
                \cup {[signature EXCEPT !.uses = @ + 1]}
        /\ UNCHANGED <<chainVars, attempts, recovering, requestVars>>

\* executeSecureDeliveryVerification reads the pact and its latest submission.
ExecutorReads(e) ==
    /\ e.phase = "BEGUN"
    /\ pacts[e.pact].status \in {"VERIFYING", "SUBMITTED"}
    /\ executors' = (executors \ {e})
            \cup {[e EXCEPT !.phase = "READ", !.submission = Latest(e.pact)]}
    /\ UNCHANGED <<storeVars, chainVars, attempts, recovering, signingVars>>

\* The first STARTED event; from here on the run pays miners.
ExecutorAttempts(e) ==
    /\ e.phase = "READ"
    /\ executors' = (executors \ {e}) \cup {[e EXCEPT !.phase = "PAYING"]}
    /\ attempts' = attempts \cup {<<e.pact, e.run>>}
    /\ UNCHANGED <<storeVars, chainVars, recovering, signingVars>>

ServiceKey(e) == [kind |-> "service", submission |-> e.submission, run |-> e.run]

\* The run returns, evaluateSettlement decides, completeVerification begins.
ExecutorDecides(e, decision, sharedMiner) ==
    /\ e.phase = "PAYING"
    /\ sharedMiner => SharedMiner
    /\ StartCompletion(e.pact, e.submission, e.run, ServiceKey(e), decision, sharedMiner)
    /\ executors' = executors \ {e}
    /\ UNCHANGED <<chainVars, attempts, recovering, signingVars>>

\* Configuration, balance, provenance or reconciliation throws, the status is
\* not VERIFYING, or the process dies.  Nothing changes the pact back.
ExecutorEnds(e) ==
    /\ Failures \/ (e.phase = "BEGUN" /\ pacts[e.pact].status \notin {"VERIFYING", "SUBMITTED"})
    /\ executors' = executors \ {e}
    /\ UNCHANGED <<storeVars, chainVars, attempts, recovering, signingVars>>

CompletionCommits(c) ==
    /\ CommitCompletion(c)
    /\ UNCHANGED <<chainVars, runVars, signingVars>>

CompletionAborts(c) ==
    /\ Failures \/ ~RunUnused(c) \/ c.sharedMiner
    /\ AbortCompletion(c)
    /\ UNCHANGED <<chainVars, runVars, signingVars>>

-----------------------------------------------------------------------------
(* Release *)

\* Trusts the receipt and never looks at the pact's status.
ReceiptReleasable(p, receipt) ==
    /\ receipt.pact = p
    /\ receipt.decision \in {"RELEASE", "RETRY"}

\* prepareReleaseAction takes any receipt of the pact.
Releasable(p, receipt) ==
    /\ receipt.pact = p
    /\ receipt.decision = "RELEASE"
    /\ pacts[p].status = "APPROVED"

PrepareReleaseReads(p, receipt) ==
    /\ Releasable(p, receipt)
    /\ preparing' = preparing \cup {<<p, receipt.run>>}
    /\ UNCHANGED <<storeVars, chainVars, runVars, permits, submitting, authorizations>>

SignPermit(request) == permits' = permits \cup {request}

\* The permit is signed, then recorded as AUTHORIZED, then handed out.
PrepareReleaseSigns(request) ==
    /\ \E receipt \in receipts :
        /\ receipt.run = request[2]
        /\ AppendAuthorized(request[1], receipt)
    /\ SignPermit(request)
    /\ preparing' = preparing \ {request}
    /\ UNCHANGED <<chainVars, runVars, submitting, authorizations>>

\* Any payout of the pact counts as its release.
AnyPayoutMatches(p, receipt) == \E log \in chainPayouts : log.pactId = p

\* The one PactSettled event of the transaction names the pact, the receipt,
\* the release, the recorded worker and the reward.
SettlementMatches(p, receipt) ==
    \E log \in chainPayouts :
        /\ log.event = "PactSettled"
        /\ log.pactId = p
        /\ log.receiptHash = receipt.run
        /\ log.action = "RELEASE"
        /\ log.recipient = pacts[p].worker
        /\ log.amount = Reward

ConfirmReleaseAction(p, receipt) ==
    /\ receipt.pact = p
    /\ pacts[p].evidence # None
    /\ SettlementMatches(p, receipt)
    /\ ConfirmSettlement(p, receipt, p)
    /\ UNCHANGED <<chainVars, runVars, signingVars>>

-----------------------------------------------------------------------------
(* Operator scripts *)

\* execute-secure-delivery-service.ts begins a run, or joins one.
ExecuteServiceBegins(p, run) ==
    /\ "execute" \in OperatorScripts
    /\ FreshRun(run)
    /\ pacts[p].status \in {"SUBMITTED", "HELD"}
    /\ BeginVerification(p, Latest(p))
    /\ executors' = executors \cup {Begun(p, run, 0)}
    /\ UNCHANGED <<chainVars, attempts, recovering, signingVars>>

ExecuteServiceJoins(p, run) ==
    /\ "execute" \in OperatorScripts
    /\ FreshRun(run)
    /\ pacts[p].status = "VERIFYING"
    /\ executors' = executors \cup {Begun(p, run, 0)}
    /\ UNCHANGED <<storeVars, chainVars, attempts, recovering, signingVars>>

\* recover-stalled-verification.ts: ALREADY_RECOVERED when the latest receipt
\* is of the latest submission; needs attempt events of the named run.
RecoverReads(p, run) ==
    /\ "recover" \in OperatorScripts
    /\ pacts[p].status = "VERIFYING"
    /\ \A r \in LatestReceipts(p) : r.submission # Latest(p)
    /\ \E q \in Pacts : <<q, run>> \in attempts
    /\ recovering' = recovering \cup {<<p, Latest(p), run>>}
    /\ UNCHANGED <<storeVars, chainVars, executors, attempts, signingVars>>

RecoverWrites(request) ==
    /\ StartCompletion(request[1], request[2], request[3],
                       [kind |-> "recovered", submission |-> request[2], run |-> None],
                       "RETRY", FALSE)
    /\ recovering' = recovering \ {request}
    /\ UNCHANGED <<chainVars, executors, attempts, signingVars>>

-----------------------------------------------------------------------------

WorkflowNext ==
    \/ \E p \in Pacts :
        \/ CreatePactAction(p)
        \/ CreatePactDraft(p)
        \/ \E terms \in {Agreed, Other} : FundOnchain(p, terms)
        \/ RefundWindowOpens(p)
        \/ RefundOnchain(p)
        \/ ConfirmFundingAction(p)
        \/ \E key \in SubmissionKeys, artifact \in Artifacts : SubmitEvidenceReads(p, key, artifact)
        \/ \E key \in ChangeKeys : RequestChangesAction(p, key)
        \/ \E nonce \in Nonces : SignAuthorization(p, nonce)
        \/ \E run \in Runs : ExecuteServiceBegins(p, run)
        \/ \E run \in Runs : ExecuteServiceJoins(p, run)
        \/ \E run \in Runs : RecoverReads(p, run)
        \/ \E receipt \in receipts : PrepareReleaseReads(p, receipt)
        \/ \E receipt \in receipts : ConfirmReleaseAction(p, receipt)
    \/ \E request \in submitting : SubmitEvidenceWrites(request) \/ SubmitEvidenceEnds(request)
    \/ \E signature \in authorizations, run \in Runs : AuthorizeVerificationAction(signature, run)
    \/ \E e \in executors :
        \/ ExecutorReads(e)
        \/ ExecutorAttempts(e)
        \/ \E decision \in SettlementDecision, sharedMiner \in BOOLEAN :
            ExecutorDecides(e, decision, sharedMiner)
        \/ ExecutorEnds(e)
    \/ \E c \in completions : CompletionCommits(c) \/ CompletionAborts(c)
    \/ \E request \in preparing : PrepareReleaseSigns(request)
    \/ \E permit \in permits : SettleOnchain(permit) \/ PermitExpires(permit)
    \/ \E request \in recovering : RecoverWrites(request)

WorkflowSpec == WorkflowInit /\ [][WorkflowNext]_workflowVars

\* What the server awaits goes on while its process lives: a run reads, pays,
\* decides and commits unless it fails.  People, their tabs and wallets owe
\* nothing; a confirmation that was lost is not repeated by itself.
Fairness ==
    \A run \in Runs :
        /\ WF_workflowVars(\E e \in executors : e.run = run /\ ExecutorReads(e))
        /\ WF_workflowVars(\E e \in executors : e.run = run /\ ExecutorAttempts(e))
        /\ WF_workflowVars(\E e \in executors, decision \in SettlementDecision,
                               sharedMiner \in BOOLEAN :
                            e.run = run /\ ExecutorDecides(e, decision, sharedMiner))
        /\ WF_workflowVars(\E c \in completions : c.run = run /\ CompletionCommits(c))

FairWorkflowSpec == WorkflowSpec /\ Fairness

-----------------------------------------------------------------------------
(* Properties *)

\* The newest receipt of p says decision, of the newest submission.
Verdict(p, decision) ==
    \E r \in LatestReceipts(p) : r.decision = decision /\ r.submission = Latest(p)

\* The page and the release button read the newest receipt: while a pact is
\* APPROVED, RELEASED or REJECTED that is the receipt of this verdict, of the
\* newest delivery, although receipts are ordered by when their transaction
\* began and a completion overwrites any status (postgres-pact-store.ts
\* 311-362, 377-382).
VerdictsFollowLatestReceipt ==
    \A p \in Pacts :
        /\ pacts[p].status \in {"APPROVED", "RELEASED"} => Verdict(p, "RELEASE")
        /\ pacts[p].status = "REJECTED" => Verdict(p, "REJECT")

\* The reward leaves for the worker, or can leave under a signed permit, only
\* for a RELEASE receipt of the newest delivery of a pact that is still
\* approved: no later verdict overtakes the permit between the read that
\* approved it and the chain (actions.ts 73-109).
MoneyFollowsVerdict ==
    \A p \in Pacts :
        LET Backed(run) ==
                /\ pacts[p].status \in {"APPROVED", "RELEASED"}
                /\ \E r \in receipts :
                    /\ r.run = run /\ r.pact = p
                    /\ r.decision = "RELEASE" /\ r.submission = Latest(p)
        IN  /\ \A run \in Runs : <<p, run>> \in permits => Backed(run)
            /\ \A log \in chainPayouts :
                log.pactId = p /\ log.event = "PactSettled" => Backed(log.receiptHash)

\* Whatever scripts run beside the application, a permit is signed and a
\* reward paid only under a RELEASE receipt of that very pact: no recovered
\* run, no other pact's receipt and no hold can move money (actions.ts 81-84).
MoneyNeedsReleaseReceipt ==
    \A p \in Pacts, run \in Runs :
        \/ <<p, run>> \in permits
        \/ \E log \in chainPayouts : log.pactId = p /\ log.receiptHash = run
        => \E r \in receipts : r.run = run /\ r.pact = p /\ r.decision = "RELEASE"

\* A pact past DRAFT was funded on the chain under the terms of its row, and
\* a RELEASED one was paid there to its worker under the very receipt the
\* store has confirmed (confirm-funding.ts 43-78, actions.ts 111-148).
BooksMatchChain ==
    \A p \in Pacts :
        /\ pacts[p].status \notin {"NONE", "DRAFT"} =>
            chainPacts[p].status # "NONE" /\ chainPacts[p].terms = Agreed
        /\ pacts[p].status = "RELEASED" =>
            /\ chainPacts[p].status = "RELEASED"
            /\ \E e \in confirmed, log \in chainPayouts :
                /\ e.pact = p /\ log.pactId = p
                /\ log.receiptHash = e.receipt /\ log.recipient = pacts[p].worker

\* A pact has one run at a time: however often its signatures are used, a run
\* starts only when no other is under way, and the pact stays VERIFYING until
\* it has ended (beginVerification 277-309).
OneRunAtATime ==
    \A p \in Pacts :
        LET Active == {e.run : e \in {e \in executors : e.pact = p}}
                        \cup {c.run : c \in {c \in completions : c.pact = p}}
        IN  /\ \A r, s \in Active : r = s
            /\ Active # {} => pacts[p].status = "VERIFYING"

\* A run is started by a signature and pays for the delivery that signature
\* names: no later delivery slips in between the signature, the begin and the
\* executor's own reads (actions.ts 190-215, execute-secure-delivery 50-69).
VerifiesWhatWasSigned ==
    \A e \in executors : e.phase # "BEGUN" /\ e.signed # 0 => e.submission = e.signed

\* A rejection and a payment are final, and from approval the only way on is
\* the payment.
TerminalVerdicts ==
    [][ \A p \in Pacts :
            /\ pacts[p].status = "REJECTED" => pacts'[p].status = "REJECTED"
            /\ pacts[p].status = "RELEASED" => pacts'[p].status = "RELEASED"
            /\ pacts[p].status = "APPROVED" => pacts'[p].status \in {"APPROVED", "RELEASED"}
      ]_workflowVars

\* confirmReleaseAction accepts one of the pact's receipts and marks it paid.
Confirmable(p) ==
    \E receipt \in receipts :
        /\ receipt.pact = p
        /\ pacts[p].evidence # None
        /\ SettlementMatches(p, receipt)
        /\ Unconfirmed(receipt)
        /\ StatusOnConfirmation(pacts[p].status) = "RELEASED"

\* The page confirms a payment once, and a closed tab or an error loses that
\* call.  However long it stays lost, confirmReleaseAction would still take it:
\* no later verdict, delivery, permit or other confirmation leaves the worker
\* paid on the chain and the books unable to say so (release-pact.tsx 32,
\* actions.ts 111-148).
ReleaseStaysConfirmable ==
    \A p \in Pacts :
        chainPacts[p].status = "RELEASED" /\ pacts[p].status # "RELEASED" => Confirmable(p)

-----------------------------------------------------------------------------
(* What the documents say and the code does not keep *)

\* docs/telegraph-integration.md: the requester's authorization bounds the whole
\* operation; so one signature pays for one verification.
OneSignatureOneRun == \A s \in authorizations : s.uses <= 1

\* docs/decision-policy.md: one accepted signal per miner and intent, so a run
\* in which a miner answers two intents is recorded like any other.
SharedMinerRunsAreRecorded ==
    \A run \in Runs :
        (\E c \in completions : c.run = run /\ c.sharedMiner) ~> (\E r \in receipts : r.run = run)

=============================================================================
