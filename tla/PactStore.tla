----------------------------- MODULE PactStore -----------------------------
(***************************************************************************)
(* The Postgres side of ProofPact: one row per pact, and the append-only   *)
(* tables of submissions, verification runs with their receipts, change    *)
(* requests and settlement events (postgres-pact-store.ts,                 *)
(* postgres-settlement-event-store.ts, migrations 003 to 006).             *)
(*                                                                         *)
(* createSubmission, confirmFunding, beginVerification and                 *)
(* createChangeRequest lock the pact's row for their whole transaction;    *)
(* createPact is one INSERT whose conflicts the key decides; a settlement  *)
(* is confirmed by an insert that a unique index guards and an update that *)
(* names the status it replaces, in one transaction.  Each is one step.    *)
(* completeVerification locks nothing when it begins and looks for an      *)
(* earlier receipt, so it is a start and a commit; created_at is the time  *)
(* of the start.  A refused call, and an idempotent call that only returns *)
(* what is there, changes nothing and is no step.                          *)
(***************************************************************************)
EXTENDS Naturals, Sequences

CONSTANTS
    Pacts,            \* idempotency keys of createPact: one row each
    Parties,          \* wallet addresses
    FundingTxs,       \* funding transaction hashes
    OnchainIds,       \* pact ids in the escrow contract
    SubmissionKeys,   \* idempotency keys of createSubmission
    ChangeKeys,       \* idempotency keys of createChangeRequest
    Artifacts,        \* artifact hashes
    Runs,             \* run ids of verification runs; they also name receipts
    RunKeys,          \* idempotency keys of completeVerification
    SettlementTxs,    \* settlement transaction hashes
    None,             \* SQL NULL
    MaxStarts         \* bound: completion transactions ever begun

VARIABLES
    pacts,            \* table pacts
    submissions,      \* table pact_submissions: per pact, ordered by sequence
    completions,      \* completeVerification transactions in progress
    receipts,         \* verification_runs with their decision and receipt
    changeRequests,   \* table pact_change_requests
    authorized,       \* settlement_execution_events of type AUTHORIZED
    confirmed,        \* settlement_execution_events of type CONFIRMED
    now               \* the database clock, as far as it orders transactions

storeVars == <<pacts, submissions, completions, receipts, changeRequests,
               authorized, confirmed, now>>

-----------------------------------------------------------------------------
(* Types *)

PactStatus == {"DRAFT", "FUNDED", "SUBMITTED", "VERIFYING", "HELD",
               "APPROVED", "RELEASED", "REJECTED"}

SettlementDecision == {"RELEASE", "RETRY", "HOLD", "REJECT"}

FundingEvidence == [tx : FundingTxs, onchainId : OnchainIds]

ASSUME StoreAssumption ==
    /\ None \notin FundingEvidence
    /\ None \notin Parties
    /\ MaxStarts \in Nat

PactRow == [status : PactStatus \cup {"NONE"}, requester : Parties \cup {None},
            worker : Parties \cup {None}, evidence : FundingEvidence \cup {None}]

NoRow == [status |-> "NONE", requester |-> None, worker |-> None, evidence |-> None]

Submission == [key : SubmissionKeys, artifact : Artifacts]

\* A run as completeVerification is given it.  sharedMiner: two of its
\* signals come from one miner.
Receipt == [pact : Pacts, submission : Nat, run : Runs, key : RunKeys,
            decision : SettlementDecision, sharedMiner : BOOLEAN, startedAt : Nat]

ChangeRequest == [pact : Pacts, submission : Nat, key : ChangeKeys]

Authorization == [pact : Pacts, receipt : Runs]
Confirmation == [pact : Pacts, receipt : Runs, tx : SettlementTxs]

\* Tables and columns hold values of their types, and every row of a table
\* refers to rows that exist (the REFERENCES clauses of migrations 003-006).
TypeOK ==
    /\ pacts \in [Pacts -> PactRow]
    /\ submissions \in [Pacts -> Seq(Submission)]
    /\ completions \subseteq Receipt
    /\ receipts \subseteq Receipt
    /\ \A r \in completions \cup receipts : r.submission \in DOMAIN submissions[r.pact]
    /\ changeRequests \subseteq ChangeRequest
    /\ \A c \in changeRequests : c.submission \in DOMAIN submissions[c.pact]
    /\ authorized \subseteq Authorization
    /\ confirmed \subseteq Confirmation
    /\ \A e \in authorized \cup confirmed :
        \E r \in receipts : r.run = e.receipt /\ r.pact = e.pact
    /\ now \in Nat

Init ==
    /\ pacts = [p \in Pacts |-> NoRow]
    /\ submissions = [p \in Pacts |-> <<>>]
    /\ completions = {}
    /\ receipts = {}
    /\ changeRequests = {}
    /\ authorized = {}
    /\ confirmed = {}
    /\ now = 0

-----------------------------------------------------------------------------
(* Reads *)

Latest(p) == Len(submissions[p])

LatestReceipts(p) ==
    {r \in receipts : r.pact = p
                      /\ \A other \in receipts : other.pact = p => other.startedAt <= r.startedAt}

LatestDecisionIs(p, decision) ==
    \E r \in LatestReceipts(p) : r.decision = decision

WithStatus(row, status) == [row EXCEPT !.status = status]

Funded(row, evidence) == [row EXCEPT !.status = "FUNDED", !.evidence = evidence]

-----------------------------------------------------------------------------
(* Operations of the pact store *)

\* ON CONFLICT (idempotency_key) DO NOTHING: a second call returns the first row.
CreatePact(p, requester, worker) ==
    /\ pacts[p].status = "NONE"
    /\ pacts' = [pacts EXCEPT ![p] = [status |-> "DRAFT", requester |-> requester,
                                      worker |-> worker, evidence |-> None]]
    /\ UNCHANGED <<submissions, completions, receipts, changeRequests, authorized,
                   confirmed, now>>

\* Without the unique index on (chain_id, escrow_address, onchain_pact_id).
TxUnused(evidence) ==
    \A p \in Pacts : pacts[p].evidence # None => pacts[p].evidence.tx # evidence.tx

\* The unique indexes of migration 005.
EvidenceUnused(evidence) ==
    \A p \in Pacts :
        pacts[p].evidence # None =>
            /\ pacts[p].evidence.tx # evidence.tx
            /\ pacts[p].evidence.onchainId # evidence.onchainId

\* Overwrites the evidence of a funded pact instead of comparing it.
FundableAgain(status) == status \in {"DRAFT", "FUNDED"}

Fundable(status) == status = "DRAFT"

ConfirmFunding(p, evidence) ==
    /\ Fundable(pacts[p].status)
    /\ EvidenceUnused(evidence)
    /\ pacts' = [pacts EXCEPT ![p] = Funded(pacts[p], evidence)]
    /\ UNCHANGED <<submissions, completions, receipts, changeRequests, authorized,
                   confirmed, now>>

SubmissionKeyUnused(p, key) ==
    \A i \in DOMAIN submissions[p] : submissions[p][i].key # key

\* Takes revised evidence while the earlier evidence is being verified.
TakesEvidenceEarly(status) == status \in {"FUNDED", "SUBMITTED", "VERIFYING", "HELD"}

TakesEvidence(status) == status \in {"FUNDED", "HELD"}

CreateSubmission(p, by, key, artifact) ==
    /\ SubmissionKeyUnused(p, key)
    /\ TakesEvidence(pacts[p].status)
    /\ by = pacts[p].worker
    /\ submissions' = [submissions EXCEPT
                          ![p] = Append(submissions[p], [key |-> key, artifact |-> artifact])]
    /\ pacts' = [pacts EXCEPT ![p] = WithStatus(pacts[p], "SUBMITTED")]
    /\ UNCHANGED <<completions, receipts, changeRequests, authorized, confirmed, now>>

\* Begins a verification that has already begun.
VerifiableAgain(p) ==
    \/ pacts[p].status \in {"SUBMITTED", "VERIFYING"}
    \/ pacts[p].status = "HELD" /\ LatestDecisionIs(p, "RETRY")

\* Any held pact can be verified once more.
VerifiableWhenHeld(p) == pacts[p].status \in {"SUBMITTED", "HELD"}

\* SUBMITTED, or held by a receipt that asks for another verification.
Verifiable(p) ==
    \/ pacts[p].status = "SUBMITTED"
    \/ pacts[p].status = "HELD" /\ LatestDecisionIs(p, "RETRY")

BeginVerification(p, submission) ==
    /\ Verifiable(p)
    /\ submission = Latest(p)
    /\ pacts' = [pacts EXCEPT ![p] = WithStatus(pacts[p], "VERIFYING")]
    /\ UNCHANGED <<submissions, completions, receipts, changeRequests, authorized,
                   confirmed, now>>

ChangeKeyUnused(p, key) ==
    \A c \in changeRequests : c.pact = p => c.key # key

CreateChangeRequest(p, by, submission, key) ==
    /\ pacts[p].status = "SUBMITTED"
    /\ by = pacts[p].requester
    /\ submission = Latest(p)
    /\ ChangeKeyUnused(p, key)
    /\ changeRequests' = changeRequests
                            \cup {[pact |-> p, submission |-> submission, key |-> key]}
    /\ pacts' = [pacts EXCEPT ![p] = WithStatus(pacts[p], "HELD")]
    /\ UNCHANGED <<submissions, completions, receipts, authorized, confirmed, now>>

-----------------------------------------------------------------------------
(* completeVerification *)

\* BEGIN, and the lookup of an earlier receipt under the same key.
StartCompletion(p, submission, run, key, decision, sharedMiner) ==
    /\ submission \in DOMAIN submissions[p]
    /\ \A r \in receipts : ~(r.pact = p /\ r.key = key)
    /\ now < MaxStarts
    /\ now' = now + 1
    /\ completions' = completions
            \cup {[pact |-> p, submission |-> submission, run |-> run, key |-> key,
                   decision |-> decision, sharedMiner |-> sharedMiner,
                   startedAt |-> now + 1]}
    /\ UNCHANGED <<pacts, submissions, receipts, changeRequests, authorized, confirmed>>

\* Takes the decision for a status.
StatusIsDecision(decision) == decision

StatusFor(decision) ==
    CASE decision = "RELEASE" -> "APPROVED"
      [] decision = "REJECT" -> "REJECTED"
      [] OTHER -> "HELD"

\* Relies on the lookup at the start instead of the keys.
RunIdUnused(c) == \A r \in receipts : r.run # c.run

\* The keys of verification_runs: run_id, and (pact_id, idempotency_key).
RunUnused(c) ==
    \A r \in receipts : r.run # c.run /\ ~(r.pact = c.pact /\ r.key = c.key)

\* The inserts, the status update and COMMIT.  UNIQUE (run_id, miner_id) lets
\* no run with two signals of one miner through.  The update has no WHERE on
\* the status.
CommitCompletion(c) ==
    /\ RunUnused(c)
    /\ ~c.sharedMiner
    /\ completions' = completions \ {c}
    /\ receipts' = receipts \cup {c}
    /\ pacts' = [pacts EXCEPT ![c.pact] = WithStatus(pacts[c.pact], StatusFor(c.decision))]
    /\ UNCHANGED <<submissions, changeRequests, authorized, confirmed, now>>

\* A violated key or a lost connection rolls everything back.
AbortCompletion(c) ==
    /\ completions' = completions \ {c}
    /\ UNCHANGED <<pacts, submissions, receipts, changeRequests, authorized, confirmed, now>>

-----------------------------------------------------------------------------
(* Settlement events *)

AppendAuthorized(p, receipt) ==
    /\ authorized' = authorized \cup {[pact |-> p, receipt |-> receipt.run]}
    /\ UNCHANGED <<pacts, submissions, completions, receipts, changeRequests, confirmed, now>>

\* The unique index on the CONFIRMED events of a receipt.
Unconfirmed(receipt) == \A e \in confirmed : e.receipt # receipt.run

\* Without the WHERE.
StatusOnAnyConfirmation(status) == "RELEASED"

\* RELEASED only WHERE status = 'APPROVED'.
StatusOnConfirmation(status) == IF status = "APPROVED" THEN "RELEASED" ELSE status

ConfirmSettlement(p, receipt, tx) ==
    /\ Unconfirmed(receipt)
    /\ confirmed' = confirmed \cup {[pact |-> p, receipt |-> receipt.run, tx |-> tx]}
    /\ pacts' = [pacts EXCEPT ![p] = WithStatus(pacts[p], StatusOnConfirmation(pacts[p].status))]
    /\ UNCHANGED <<submissions, completions, receipts, changeRequests, authorized, now>>

-----------------------------------------------------------------------------

\* Everything the store accepts from any caller.
Next ==
    \/ \E p \in Pacts, requester, worker \in Parties : CreatePact(p, requester, worker)
    \/ \E p \in Pacts, evidence \in FundingEvidence : ConfirmFunding(p, evidence)
    \/ \E p \in Pacts, by \in Parties, key \in SubmissionKeys, artifact \in Artifacts :
        CreateSubmission(p, by, key, artifact)
    \/ \E p \in Pacts : \E submission \in DOMAIN submissions[p] :
        BeginVerification(p, submission)
    \/ \E p \in Pacts, by \in Parties, key \in ChangeKeys :
        \E submission \in DOMAIN submissions[p] :
            CreateChangeRequest(p, by, submission, key)
    \/ \E p \in Pacts, run \in Runs, key \in RunKeys, decision \in SettlementDecision,
          sharedMiner \in BOOLEAN :
        \E submission \in DOMAIN submissions[p] :
            StartCompletion(p, submission, run, key, decision, sharedMiner)
    \/ \E c \in completions : CommitCompletion(c)
    \/ \E c \in completions : AbortCompletion(c)
    \/ \E receipt \in receipts : AppendAuthorized(receipt.pact, receipt)
    \/ \E receipt \in receipts, tx \in SettlementTxs :
        ConfirmSettlement(receipt.pact, receipt, tx)

Spec == Init /\ [][Next]_storeVars

-----------------------------------------------------------------------------
(* Properties *)

\* The check of migration 005 never has to stop an operation: a pact past
\* DRAFT always carries its funding evidence and a draft never does; and no
\* funding is counted for two pacts (confirmFunding, 195-232).
FundingEvidenceComplete ==
    /\ \A p \in Pacts : (pacts[p].evidence # None) <=> (pacts[p].status \notin {"NONE", "DRAFT"})
    /\ \A p, q \in Pacts :
        p # q /\ pacts[p].evidence # None /\ pacts[q].evidence # None =>
            /\ pacts[p].evidence.tx # pacts[q].evidence.tx
            /\ pacts[p].evidence.onchainId # pacts[q].evidence.onchainId

Decided(p, decisions) == \E r \in receipts : r.pact = p /\ r.decision \in decisions

Explained(p) ==
    /\ submissions[p] # <<>> <=> pacts[p].status \notin {"NONE", "DRAFT", "FUNDED"}
    /\ pacts[p].status = "APPROVED" => Decided(p, {"RELEASE"})
    /\ pacts[p].status = "REJECTED" => Decided(p, {"REJECT"})
    /\ pacts[p].status = "HELD" =>
        Decided(p, {"RETRY", "HOLD"}) \/ \E c \in changeRequests : c.pact = p
    /\ pacts[p].status = "RELEASED" =>
        Decided(p, {"RELEASE"}) /\ \E e \in confirmed : e.pact = p

\* Each status past FUNDED has its reason on record: work was delivered, a
\* verdict has a receipt with that verdict, a hold has a receipt or a change
\* request behind it, and a release has a confirmed settlement of a receipt
\* of the pact, although completeVerification never looks at the status it
\* replaces and may finish long after it began (311-362, 384-410; event store 40-69).
StatusIsExplained == \A p \in Pacts : Explained(p)

\* Whatever two callers do at once, an idempotency key stands for one
\* submission, one run and one receipt, and a receipt is settled by at most
\* one transaction (the lookups at 241-244 and 314-319 and the keys behind them).
IdempotencyHolds ==
    /\ \A p \in Pacts : \A i, j \in DOMAIN submissions[p] :
        submissions[p][i].key = submissions[p][j].key => i = j
    /\ \A r, s \in receipts :
        r.run = s.run \/ (r.pact = s.pact /\ r.key = s.key) => r = s
    /\ \A e, f \in confirmed : e.receipt = f.receipt => e = f

\* What was once recorded stays: evidence, parties, submissions, receipts,
\* change requests and settlement events (the triggers of migrations 003-006
\* for the tables; confirmFunding's comparison for the row).
HistoryIsImmutable ==
    [][ /\ \A p \in Pacts : pacts[p].status # "NONE" =>
            /\ pacts'[p].requester = pacts[p].requester
            /\ pacts'[p].worker = pacts[p].worker
            /\ pacts[p].evidence # None => pacts'[p].evidence = pacts[p].evidence
        /\ \A p \in Pacts : \A i \in DOMAIN submissions[p] :
            i \in DOMAIN submissions'[p] /\ submissions'[p][i] = submissions[p][i]
        /\ receipts \subseteq receipts'
        /\ changeRequests \subseteq changeRequests'
        /\ authorized \subseteq authorized'
        /\ confirmed \subseteq confirmed' ]_storeVars

=============================================================================
