-------------------------- MODULE PactStoreProofs --------------------------
(***************************************************************************)
(* Theorems about the pact store for every value of its constants: any     *)
(* number of pacts, callers, keys and overlapping completions.             *)
(***************************************************************************)
EXTENDS PactStore, SequenceTheorems, TLAPS

\* A change of status changes nothing else in the row.
LEMMA WithStatusRow ==
    ASSUME NEW row \in PactRow, NEW status \in PactStatus \cup {"NONE"}
    PROVE  /\ WithStatus(row, status) \in PactRow
           /\ WithStatus(row, status).status = status
           /\ WithStatus(row, status).requester = row.requester
           /\ WithStatus(row, status).worker = row.worker
           /\ WithStatus(row, status).evidence = row.evidence
    BY DEF WithStatus, PactRow

LEMMA FundedRow ==
    ASSUME NEW row \in PactRow, NEW evidence \in FundingEvidence
    PROVE  /\ Funded(row, evidence) \in PactRow
           /\ Funded(row, evidence).status = "FUNDED"
           /\ Funded(row, evidence).requester = row.requester
           /\ Funded(row, evidence).worker = row.worker
           /\ Funded(row, evidence).evidence = evidence
    BY DEF Funded, PactRow, PactStatus

LEMMA StatusTypes ==
    /\ \A decision \in SettlementDecision : StatusFor(decision) \in {"APPROVED", "REJECTED", "HELD"}
    /\ \A status \in PactStatus \cup {"NONE"} :
        StatusOnConfirmation(status) \in PactStatus \cup {"NONE"}
    BY DEF SettlementDecision, StatusFor, StatusOnConfirmation, PactStatus

\* Appending a submission keeps the earlier ones at their sequence numbers.
LEMMA AppendKeeps ==
    ASSUME NEW s \in Seq(Submission), NEW e \in Submission
    PROVE  /\ Append(s, e) \in Seq(Submission)
           /\ Append(s, e) # <<>>
           /\ DOMAIN Append(s, e) = DOMAIN s \cup {Len(s) + 1}
           /\ \A i \in DOMAIN s : Append(s, e)[i] = s[i]
           /\ Append(s, e)[Len(s) + 1] = e
           /\ \A i \in DOMAIN s : i # Len(s) + 1
    OBVIOUS

-----------------------------------------------------------------------------
(* Type correctness *)

LEMMA InitType == Init => TypeOK
    BY StoreAssumption DEF Init, TypeOK, NoRow, PactRow

LEMMA CreateSubmissionType ==
    ASSUME TypeOK, NEW p \in Pacts, NEW by \in Parties, NEW key \in SubmissionKeys,
           NEW artifact \in Artifacts, CreateSubmission(p, by, key, artifact)
    PROVE  TypeOK'
<1> DEFINE e == [key |-> key, artifact |-> artifact]
<1>1. e \in Submission /\ submissions[p] \in Seq(Submission)
    BY DEF TypeOK, Submission
<1>2. submissions' = [submissions EXCEPT ![p] = Append(submissions[p], e)]
    BY DEF CreateSubmission
<1>3. submissions' \in [Pacts -> Seq(Submission)]
    BY <1>1, <1>2, AppendKeeps DEF TypeOK
<1>4. \A q \in Pacts : DOMAIN submissions[q] \subseteq DOMAIN submissions'[q]
    BY <1>1, <1>2, AppendKeeps DEF TypeOK
<1>5. pacts' \in [Pacts -> PactRow]
    BY WithStatusRow DEF CreateSubmission, TypeOK, PactStatus
<1>6. \A r \in completions' \cup receipts' : r.submission \in DOMAIN submissions'[r.pact]
    BY <1>4 DEF CreateSubmission, TypeOK, Receipt
<1>7. \A c \in changeRequests' : c.submission \in DOMAIN submissions'[c.pact]
    BY <1>4 DEF CreateSubmission, TypeOK, ChangeRequest
<1> QED BY <1>3, <1>5, <1>6, <1>7 DEF CreateSubmission, TypeOK

LEMMA StepType == TypeOK /\ [Next]_storeVars => TypeOK'
<1> SUFFICES ASSUME TypeOK, [Next]_storeVars PROVE TypeOK'
    OBVIOUS
<1>1. ASSUME NEW p \in Pacts, NEW requester \in Parties, NEW worker \in Parties,
             CreatePact(p, requester, worker)
      PROVE  TypeOK'
    BY <1>1 DEF CreatePact, TypeOK, PactRow, PactStatus
<1>2. ASSUME NEW p \in Pacts, NEW evidence \in FundingEvidence, ConfirmFunding(p, evidence)
      PROVE  TypeOK'
    <2>1. pacts' \in [Pacts -> PactRow]
        BY <1>2, FundedRow DEF ConfirmFunding, TypeOK
    <2> QED BY <1>2, <2>1 DEF ConfirmFunding, TypeOK
<1>3. ASSUME NEW p \in Pacts, NEW by \in Parties, NEW key \in SubmissionKeys,
             NEW artifact \in Artifacts, CreateSubmission(p, by, key, artifact)
      PROVE  TypeOK'
    BY <1>3, CreateSubmissionType
<1>4. ASSUME NEW p \in Pacts, NEW submission \in DOMAIN submissions[p],
             BeginVerification(p, submission)
      PROVE  TypeOK'
    <2>1. pacts' \in [Pacts -> PactRow]
        BY <1>4, WithStatusRow DEF BeginVerification, TypeOK, PactStatus
    <2> QED BY <1>4, <2>1 DEF BeginVerification, TypeOK
<1>5. ASSUME NEW p \in Pacts, NEW by \in Parties, NEW key \in ChangeKeys,
             NEW submission \in DOMAIN submissions[p],
             CreateChangeRequest(p, by, submission, key)
      PROVE  TypeOK'
    <2>1. pacts' \in [Pacts -> PactRow]
        BY <1>5, WithStatusRow DEF CreateChangeRequest, TypeOK, PactStatus
    <2>2. submission \in Nat
        BY DEF TypeOK
    <2> QED BY <1>5, <2>1, <2>2 DEF CreateChangeRequest, TypeOK, ChangeRequest
<1>6. ASSUME NEW p \in Pacts, NEW run \in Runs, NEW key \in RunKeys,
             NEW decision \in SettlementDecision, NEW sharedMiner \in BOOLEAN,
             NEW submission \in DOMAIN submissions[p],
             StartCompletion(p, submission, run, key, decision, sharedMiner)
      PROVE  TypeOK'
    <2> DEFINE c == [pact |-> p, submission |-> submission, run |-> run, key |-> key,
                     decision |-> decision, sharedMiner |-> sharedMiner,
                     startedAt |-> now + 1]
    <2>1. submission \in Nat /\ now + 1 \in Nat
        BY DEF TypeOK
    <2>2. c \in Receipt
        BY <2>1 DEF Receipt
    <2>3. c.pact = p /\ c.submission = submission
        OBVIOUS
    <2>4. /\ completions' = completions \cup {c}
          /\ now' = now + 1
          /\ UNCHANGED <<pacts, submissions, receipts, changeRequests, authorized, confirmed>>
        BY <1>6 DEF StartCompletion
    <2> HIDE DEF c
    <2>5. completions' \subseteq Receipt
        BY <2>2, <2>4 DEF TypeOK
    <2>6. \A r \in completions' \cup receipts' : r.submission \in DOMAIN submissions'[r.pact]
        BY <2>3, <2>4 DEF TypeOK
    <2> QED BY <2>1, <2>4, <2>5, <2>6 DEF TypeOK
<1>7. ASSUME NEW c \in completions, CommitCompletion(c)
      PROVE  TypeOK'
    <2>1. c.pact \in Pacts /\ StatusFor(c.decision) \in PactStatus
        BY StatusTypes DEF TypeOK, Receipt, PactStatus
    <2>2. pacts' \in [Pacts -> PactRow]
        BY <1>7, <2>1, WithStatusRow DEF CommitCompletion, TypeOK
    <2>3. receipts' \subseteq Receipt /\ completions' \subseteq Receipt
        BY <1>7 DEF CommitCompletion, TypeOK
    <2>4. completions' \cup receipts' \subseteq completions \cup receipts /\ receipts \subseteq receipts'
        BY <1>7 DEF CommitCompletion
    <2> HIDE DEF Receipt
    <2> QED BY <1>7, <2>2, <2>3, <2>4 DEF CommitCompletion, TypeOK
<1>8. ASSUME NEW c \in completions, AbortCompletion(c)
      PROVE  TypeOK'
    BY <1>8 DEF AbortCompletion, TypeOK
<1>9. ASSUME NEW receipt \in receipts, AppendAuthorized(receipt.pact, receipt)
      PROVE  TypeOK'
    <2> DEFINE e == [pact |-> receipt.pact, receipt |-> receipt.run]
    <2>1. e \in Authorization /\ e.pact = receipt.pact /\ e.receipt = receipt.run
        BY DEF TypeOK, Receipt, Authorization
    <2>2. /\ authorized' = authorized \cup {e}
          /\ UNCHANGED <<pacts, submissions, completions, receipts, changeRequests, confirmed, now>>
        BY <1>9 DEF AppendAuthorized
    <2> HIDE DEF e
    <2> QED BY <2>1, <2>2 DEF TypeOK
<1>10. ASSUME NEW receipt \in receipts, NEW tx \in SettlementTxs,
              ConfirmSettlement(receipt.pact, receipt, tx)
       PROVE  TypeOK'
    <2>1. receipt.pact \in Pacts /\ receipt.run \in Runs
        BY DEF TypeOK, Receipt
    <2>2. StatusOnConfirmation(pacts[receipt.pact].status) \in PactStatus \cup {"NONE"}
        BY <2>1, StatusTypes DEF TypeOK, PactRow
    <2>3. pacts' \in [Pacts -> PactRow]
        BY <1>10, <2>1, <2>2, WithStatusRow DEF ConfirmSettlement, TypeOK
    <2> DEFINE e == [pact |-> receipt.pact, receipt |-> receipt.run, tx |-> tx]
    <2>4. e \in Confirmation /\ e.pact = receipt.pact /\ e.receipt = receipt.run
        BY <2>1 DEF Confirmation
    <2>5. /\ confirmed' = confirmed \cup {e}
          /\ UNCHANGED <<submissions, completions, receipts, changeRequests, authorized, now>>
        BY <1>10 DEF ConfirmSettlement
    <2> HIDE DEF e
    <2> QED BY <2>3, <2>4, <2>5 DEF TypeOK
<1>11. CASE UNCHANGED storeVars
    BY <1>11 DEF TypeOK, storeVars
<1> QED BY <1>1, <1>2, <1>3, <1>4, <1>5, <1>6, <1>7, <1>8, <1>9, <1>10, <1>11 DEF Next

\* Every reachable state is well typed and every row it holds refers to rows
\* that exist.
THEOREM TypeCorrect == Spec => []TypeOK
<1> QED BY InitType, StepType, PTL DEF Spec

-----------------------------------------------------------------------------
(* Funding evidence *)

\* A step that moves a status between statuses that carry evidence, or leaves
\* it, keeps the evidence complete.
LEMMA EvidenceKept ==
    ASSUME FundingEvidenceComplete,
           \A q \in Pacts :
               /\ pacts'[q].evidence = pacts[q].evidence
               /\ (pacts'[q].status \in {"NONE", "DRAFT"}) <=> (pacts[q].status \in {"NONE", "DRAFT"})
    PROVE  FundingEvidenceComplete'
    BY DEF FundingEvidenceComplete

\* One row moves to a status past DRAFT.
LEMMA RowMoves ==
    ASSUME TypeOK, FundingEvidenceComplete,
           NEW p \in Pacts, NEW status \in PactStatus \ {"DRAFT"},
           pacts[p].status \notin {"NONE", "DRAFT"},
           pacts' = [pacts EXCEPT ![p] = WithStatus(pacts[p], status)]
    PROVE  FundingEvidenceComplete'
<1>1. pacts[p] \in PactRow /\ status \in PactStatus \cup {"NONE"} /\ status \notin {"NONE", "DRAFT"}
    BY DEF TypeOK, PactStatus
<1>2. /\ pacts'[p].evidence = pacts[p].evidence
      /\ pacts'[p].status = status
    BY <1>1, WithStatusRow DEF TypeOK
<1>3. \A q \in Pacts : q # p => pacts'[q] = pacts[q]
    BY DEF TypeOK
<1> QED BY <1>1, <1>2, <1>3, EvidenceKept

LEMMA FundingStep ==
    TypeOK /\ StatusIsExplained /\ FundingEvidenceComplete /\ [Next]_storeVars
        => FundingEvidenceComplete'
<1> SUFFICES ASSUME TypeOK, StatusIsExplained, FundingEvidenceComplete, [Next]_storeVars
             PROVE  FundingEvidenceComplete'
    OBVIOUS
<1>1. ASSUME NEW p \in Pacts, NEW requester \in Parties, NEW worker \in Parties,
             CreatePact(p, requester, worker)
      PROVE  FundingEvidenceComplete'
    <2>1. pacts[p].evidence = None /\ pacts'[p].evidence = None /\ pacts'[p].status = "DRAFT"
        BY <1>1 DEF CreatePact, TypeOK, FundingEvidenceComplete
    <2>2. \A q \in Pacts : q # p => pacts'[q] = pacts[q]
        BY <1>1 DEF CreatePact, TypeOK
    <2> QED BY <1>1, <2>1, <2>2, EvidenceKept DEF CreatePact
<1>2. ASSUME NEW p \in Pacts, NEW evidence \in FundingEvidence, ConfirmFunding(p, evidence)
      PROVE  FundingEvidenceComplete'
    <2>1. /\ pacts'[p].evidence = evidence /\ pacts'[p].status = "FUNDED"
          /\ \A q \in Pacts : q # p => pacts'[q] = pacts[q]
        BY <1>2, FundedRow DEF ConfirmFunding, TypeOK
    <2>2. evidence # None /\ EvidenceUnused(evidence)
        BY <1>2, StoreAssumption DEF ConfirmFunding
    <2> QED BY <2>1, <2>2 DEF EvidenceUnused, FundingEvidenceComplete
<1>3. ASSUME NEW p \in Pacts, NEW by \in Parties, NEW key \in SubmissionKeys,
             NEW artifact \in Artifacts, CreateSubmission(p, by, key, artifact)
      PROVE  FundingEvidenceComplete'
    BY <1>3, RowMoves DEF CreateSubmission, TakesEvidence, PactStatus
<1>4. ASSUME NEW p \in Pacts, NEW submission \in DOMAIN submissions[p],
             BeginVerification(p, submission)
      PROVE  FundingEvidenceComplete'
    BY <1>4, RowMoves DEF BeginVerification, Verifiable, PactStatus
<1>5. ASSUME NEW p \in Pacts, NEW by \in Parties, NEW key \in ChangeKeys,
             NEW submission \in DOMAIN submissions[p],
             CreateChangeRequest(p, by, submission, key)
      PROVE  FundingEvidenceComplete'
    BY <1>5, RowMoves DEF CreateChangeRequest, PactStatus
<1>6. ASSUME NEW c \in completions, CommitCompletion(c)
      PROVE  FundingEvidenceComplete'
    <2>1. /\ c.pact \in Pacts /\ c.decision \in SettlementDecision
          /\ c.submission \in DOMAIN submissions[c.pact]
        BY DEF TypeOK, Receipt
    <2>2. StatusFor(c.decision) \in PactStatus \ {"DRAFT"}
        BY <2>1, StatusTypes DEF PactStatus
    <2>3. submissions[c.pact] # <<>>
        BY <2>1, EmptySeq DEF TypeOK
    <2>4. pacts[c.pact].status \notin {"NONE", "DRAFT"}
        BY <2>1, <2>3 DEF StatusIsExplained, Explained
    <2> QED BY <1>6, <2>1, <2>2, <2>4, RowMoves DEF CommitCompletion
<1>7. ASSUME NEW receipt \in receipts, NEW tx \in SettlementTxs,
             ConfirmSettlement(receipt.pact, receipt, tx)
      PROVE  FundingEvidenceComplete'
    <2> DEFINE p == receipt.pact
    <2>1. p \in Pacts /\ pacts[p] \in PactRow
        BY DEF TypeOK, Receipt
    <2>2. StatusOnConfirmation(pacts[p].status) \in PactStatus \cup {"NONE"}
        BY <2>1, StatusTypes DEF PactRow
    <2>3. /\ pacts'[p].evidence = pacts[p].evidence
          /\ pacts'[p].status = StatusOnConfirmation(pacts[p].status)
          /\ \A q \in Pacts : q # p => pacts'[q] = pacts[q]
        BY <1>7, <2>1, <2>2, WithStatusRow DEF ConfirmSettlement, TypeOK
    <2> QED BY <2>3, EvidenceKept DEF StatusOnConfirmation
<1>8. CASE UNCHANGED pacts
    BY <1>8 DEF FundingEvidenceComplete
<1>9. \/ UNCHANGED pacts
      \/ ~(\E c \in completions : AbortCompletion(c))
         /\ ~(\E receipt \in receipts : AppendAuthorized(receipt.pact, receipt))
         /\ ~(UNCHANGED storeVars)
         /\ ~(\E p \in Pacts, run \in Runs, key \in RunKeys, decision \in SettlementDecision,
                 sharedMiner \in BOOLEAN : \E submission \in DOMAIN submissions[p] :
                    StartCompletion(p, submission, run, key, decision, sharedMiner))
    BY DEF AbortCompletion, AppendAuthorized, StartCompletion, storeVars
<1> QED BY <1>1, <1>2, <1>3, <1>4, <1>5, <1>6, <1>7, <1>8, <1>9 DEF Next

-----------------------------------------------------------------------------
(* Every status has its reason *)

\* What explains a row still explains it after a step that leaves the row
\* and its submissions alone and only adds to the tables.
LEMMA StaysExplained ==
    ASSUME NEW q \in Pacts, Explained(q),
           pacts'[q] = pacts[q], submissions'[q] = submissions[q],
           receipts \subseteq receipts', changeRequests \subseteq changeRequests',
           confirmed \subseteq confirmed'
    PROVE  Explained(q)'
    BY DEF Explained, Decided

LEMMA ExplainedStep == TypeOK /\ StatusIsExplained /\ [Next]_storeVars => StatusIsExplained'
<1> SUFFICES ASSUME TypeOK, StatusIsExplained, [Next]_storeVars,
                    NEW q \in Pacts
             PROVE  Explained(q)'
    BY DEF StatusIsExplained
<1>0. Explained(q) /\ pacts[q] \in PactRow /\ submissions[q] \in Seq(Submission)
    BY DEF StatusIsExplained, TypeOK
<1>1. ASSUME NEW p \in Pacts, NEW requester \in Parties, NEW worker \in Parties,
             CreatePact(p, requester, worker)
      PROVE  Explained(q)'
    <2>1. CASE q # p
        BY <1>0, <1>1, <2>1, StaysExplained DEF CreatePact, TypeOK
    <2>2. CASE q = p
        <3>1. pacts'[q].status = "DRAFT" /\ submissions'[q] = submissions[q]
            BY <1>1, <2>2 DEF CreatePact, TypeOK
        <3> QED BY <1>0, <1>1, <2>2, <3>1 DEF CreatePact, Explained
    <2> QED BY <2>1, <2>2
<1>2. ASSUME NEW p \in Pacts, NEW evidence \in FundingEvidence, ConfirmFunding(p, evidence)
      PROVE  Explained(q)'
    <2>1. CASE q # p
        BY <1>0, <1>2, <2>1, StaysExplained DEF ConfirmFunding, TypeOK
    <2>2. CASE q = p
        <3>1. pacts'[q].status = "FUNDED" /\ submissions'[q] = submissions[q]
            BY <1>0, <1>2, <2>2, FundedRow DEF ConfirmFunding, TypeOK
        <3> QED BY <1>0, <1>2, <2>2, <3>1 DEF ConfirmFunding, Fundable, Explained
    <2> QED BY <2>1, <2>2
<1>3. ASSUME NEW p \in Pacts, NEW by \in Parties, NEW key \in SubmissionKeys,
             NEW artifact \in Artifacts, CreateSubmission(p, by, key, artifact)
      PROVE  Explained(q)'
    <2>1. CASE q # p
        BY <1>0, <1>3, <2>1, StaysExplained DEF CreateSubmission, TypeOK
    <2>2. CASE q = p
        <3>1. pacts'[q].status = "SUBMITTED"
            BY <1>0, <1>3, <2>2, WithStatusRow DEF CreateSubmission, TypeOK, PactStatus
        <3>2. [key |-> key, artifact |-> artifact] \in Submission
            BY DEF Submission
        <3>3. submissions'[q] # <<>>
            BY <1>0, <1>3, <2>2, <3>2, AppendKeeps DEF CreateSubmission, TypeOK
        <3> QED BY <3>1, <3>3 DEF Explained
    <2> QED BY <2>1, <2>2
<1>4. ASSUME NEW p \in Pacts, NEW submission \in DOMAIN submissions[p],
             BeginVerification(p, submission)
      PROVE  Explained(q)'
    <2>1. CASE q # p
        BY <1>0, <1>4, <2>1, StaysExplained DEF BeginVerification, TypeOK
    <2>2. CASE q = p
        <3>1. pacts'[q].status = "VERIFYING" /\ submissions'[q] = submissions[q]
            BY <1>0, <1>4, <2>2, WithStatusRow DEF BeginVerification, TypeOK, PactStatus
        <3> QED BY <1>0, <1>4, <2>2, <3>1 DEF BeginVerification, Verifiable, Explained
    <2> QED BY <2>1, <2>2
<1>5. ASSUME NEW p \in Pacts, NEW by \in Parties, NEW key \in ChangeKeys,
             NEW submission \in DOMAIN submissions[p],
             CreateChangeRequest(p, by, submission, key)
      PROVE  Explained(q)'
    <2>1. CASE q # p
        BY <1>0, <1>5, <2>1, StaysExplained DEF CreateChangeRequest, TypeOK
    <2>2. CASE q = p
        <3>1. pacts'[q].status = "HELD" /\ submissions'[q] = submissions[q]
            BY <1>0, <1>5, <2>2, WithStatusRow DEF CreateChangeRequest, TypeOK, PactStatus
        <3>2. \E c \in changeRequests' : c.pact = q
            <4> DEFINE c == [pact |-> p, submission |-> submission, key |-> key]
            <4>1. c \in changeRequests'
                BY <1>5 DEF CreateChangeRequest
            <4>2. c.pact = q
                BY <2>2
            <4> QED BY <4>1, <4>2
        <3>3. submissions[q] # <<>>
            BY <1>0, <1>5, <2>2 DEF CreateChangeRequest, Explained
        <3> QED BY <3>1, <3>2, <3>3 DEF Explained
    <2> QED BY <2>1, <2>2
<1>6. ASSUME NEW c \in completions, CommitCompletion(c)
      PROVE  Explained(q)'
    <2>1. /\ c.pact \in Pacts /\ c.decision \in SettlementDecision
          /\ c.submission \in DOMAIN submissions[c.pact] /\ c \in receipts'
        BY <1>6 DEF TypeOK, Receipt, CommitCompletion
    <2>2. CASE q # c.pact
        BY <1>0, <1>6, <2>1, <2>2, StaysExplained DEF CommitCompletion, TypeOK
    <2>3. CASE q = c.pact
        <3>1. StatusFor(c.decision) \in PactStatus \cup {"NONE"}
            BY <2>1, StatusTypes DEF PactStatus
        <3>2. pacts'[q].status = StatusFor(c.decision) /\ submissions'[q] = submissions[q]
            BY <1>0, <1>6, <2>1, <2>3, <3>1, WithStatusRow DEF CommitCompletion, TypeOK
        <3>3. submissions[q] # <<>>
            BY <2>1, <2>3, EmptySeq
        <3>4. Decided(q, {c.decision})'
            BY <2>1, <2>3 DEF Decided
        <3> QED BY <2>1, <3>2, <3>3, <3>4 DEF StatusFor, SettlementDecision, Explained, Decided
    <2> QED BY <2>2, <2>3
<1>7. ASSUME NEW receipt \in receipts, NEW tx \in SettlementTxs,
             ConfirmSettlement(receipt.pact, receipt, tx)
      PROVE  Explained(q)'
    <2>1. receipt.pact \in Pacts
        BY DEF TypeOK, Receipt
    <2>2. CASE q # receipt.pact
        BY <1>0, <1>7, <2>1, <2>2, StaysExplained DEF ConfirmSettlement, TypeOK
    <2>3. CASE q = receipt.pact
        <3>1. StatusOnConfirmation(pacts[q].status) \in PactStatus \cup {"NONE"}
            BY <1>0, StatusTypes DEF PactRow
        <3>2. pacts'[q].status = StatusOnConfirmation(pacts[q].status)
            BY <1>0, <1>7, <2>3, <3>1, WithStatusRow DEF ConfirmSettlement, TypeOK
        <3>3. \E e \in confirmed' : e.pact = q
            <4> DEFINE e == [pact |-> receipt.pact, receipt |-> receipt.run, tx |-> tx]
            <4>1. e \in confirmed'
                BY <1>7 DEF ConfirmSettlement
            <4>2. e.pact = q
                BY <2>3
            <4> QED BY <4>1, <4>2
        <3>4. /\ submissions'[q] = submissions[q]
              /\ receipts' = receipts /\ changeRequests' = changeRequests
            BY <1>7 DEF ConfirmSettlement
        <3> QED BY <1>0, <3>2, <3>3, <3>4 DEF StatusOnConfirmation, Explained, Decided
    <2> QED BY <2>2, <2>3
<1>8. ASSUME UNCHANGED <<pacts, submissions, receipts, changeRequests, confirmed>>
      PROVE  Explained(q)'
    BY <1>0, <1>8 DEF Explained, Decided
<1>9. ASSUME NEW c \in completions, AbortCompletion(c)
      PROVE  Explained(q)'
    BY <1>8, <1>9 DEF AbortCompletion
<1>10. ASSUME NEW receipt \in receipts, AppendAuthorized(receipt.pact, receipt)
       PROVE  Explained(q)'
    BY <1>8, <1>10 DEF AppendAuthorized
<1>11. ASSUME NEW p \in Pacts, NEW run \in Runs, NEW key \in RunKeys,
              NEW decision \in SettlementDecision, NEW sharedMiner \in BOOLEAN,
              NEW submission \in DOMAIN submissions[p],
              StartCompletion(p, submission, run, key, decision, sharedMiner)
       PROVE  Explained(q)'
    BY <1>8, <1>11 DEF StartCompletion
<1>12. CASE UNCHANGED storeVars
    BY <1>8, <1>12 DEF storeVars
<1> QED BY <1>1, <1>2, <1>3, <1>4, <1>5, <1>6, <1>7, <1>9, <1>10, <1>11, <1>12 DEF Next

-----------------------------------------------------------------------------
(* Keys are unique *)

LEMMA IdempotencyStep == TypeOK /\ IdempotencyHolds /\ [Next]_storeVars => IdempotencyHolds'
<1> SUFFICES ASSUME TypeOK, IdempotencyHolds, [Next]_storeVars PROVE IdempotencyHolds'
    OBVIOUS
<1>1. ASSUME UNCHANGED <<submissions, receipts, confirmed>>
      PROVE  IdempotencyHolds'
    BY <1>1 DEF IdempotencyHolds
<1>2. ASSUME NEW p \in Pacts, NEW by \in Parties, NEW key \in SubmissionKeys,
             NEW artifact \in Artifacts, CreateSubmission(p, by, key, artifact)
      PROVE  IdempotencyHolds'
    <2> DEFINE e == [key |-> key, artifact |-> artifact]
    <2>1. e \in Submission /\ e.key = key /\ submissions[p] \in Seq(Submission)
        BY DEF TypeOK, Submission
    <2>2. /\ submissions'[p] = Append(submissions[p], e)
          /\ \A q \in Pacts : q # p => submissions'[q] = submissions[q]
          /\ receipts' = receipts /\ confirmed' = confirmed
        BY <1>2 DEF CreateSubmission, TypeOK
    <2>3. \A i \in DOMAIN submissions[p] : submissions[p][i].key # key
        BY <1>2 DEF CreateSubmission, SubmissionKeyUnused
    <2> HIDE DEF e
    <2>4. \A i, j \in DOMAIN submissions'[p] :
            submissions'[p][i].key = submissions'[p][j].key => i = j
        BY <2>1, <2>2, <2>3, AppendKeeps DEF IdempotencyHolds
    <2> QED BY <2>2, <2>4 DEF IdempotencyHolds
<1>3. ASSUME NEW c \in completions, CommitCompletion(c)
      PROVE  IdempotencyHolds'
    BY <1>3 DEF CommitCompletion, RunUnused, IdempotencyHolds
<1>4. ASSUME NEW receipt \in receipts, NEW tx \in SettlementTxs,
             ConfirmSettlement(receipt.pact, receipt, tx)
      PROVE  IdempotencyHolds'
    BY <1>4 DEF ConfirmSettlement, Unconfirmed, IdempotencyHolds
<1>5. \/ UNCHANGED <<submissions, receipts, confirmed>>
      \/ \E p \in Pacts, by \in Parties, key \in SubmissionKeys, artifact \in Artifacts :
            CreateSubmission(p, by, key, artifact)
      \/ \E c \in completions : CommitCompletion(c)
      \/ \E receipt \in receipts, tx \in SettlementTxs :
            ConfirmSettlement(receipt.pact, receipt, tx)
    BY DEF Next, CreatePact, ConfirmFunding, BeginVerification, CreateChangeRequest,
           StartCompletion, AbortCompletion, AppendAuthorized, storeVars
<1> QED BY <1>1, <1>2, <1>3, <1>4, <1>5

-----------------------------------------------------------------------------
(* History is immutable *)

\* What a step may not do to the history.
HistoryKept ==
    /\ \A p \in Pacts : pacts[p].status # "NONE" =>
        /\ pacts'[p].requester = pacts[p].requester
        /\ pacts'[p].worker = pacts[p].worker
        /\ pacts[p].evidence # None => pacts'[p].evidence = pacts[p].evidence
    /\ \A p \in Pacts : \A i \in DOMAIN submissions[p] :
        i \in DOMAIN submissions'[p] /\ submissions'[p][i] = submissions[p][i]
    /\ receipts \subseteq receipts'
    /\ changeRequests \subseteq changeRequests'
    /\ authorized \subseteq authorized'
    /\ confirmed \subseteq confirmed'

\* A step that only moves one status and only adds to the tables.
LEMMA StatusMoves ==
    ASSUME TypeOK, NEW p \in Pacts, NEW status \in PactStatus \cup {"NONE"},
           pacts' = [pacts EXCEPT ![p] = WithStatus(pacts[p], status)],
           submissions' = submissions, receipts \subseteq receipts',
           changeRequests \subseteq changeRequests', authorized \subseteq authorized',
           confirmed \subseteq confirmed'
    PROVE  HistoryKept
<1>1. pacts[p] \in PactRow
    BY DEF TypeOK
<1>2. /\ pacts'[p].requester = pacts[p].requester
      /\ pacts'[p].worker = pacts[p].worker
      /\ pacts'[p].evidence = pacts[p].evidence
      /\ \A q \in Pacts : q # p => pacts'[q] = pacts[q]
    BY <1>1, WithStatusRow DEF TypeOK
<1> QED BY <1>2 DEF HistoryKept

LEMMA HistoryStep == TypeOK /\ FundingEvidenceComplete /\ [Next]_storeVars => HistoryKept
<1> SUFFICES ASSUME TypeOK, FundingEvidenceComplete, [Next]_storeVars PROVE HistoryKept
    OBVIOUS
<1>1. ASSUME NEW p \in Pacts, NEW requester \in Parties, NEW worker \in Parties,
             CreatePact(p, requester, worker)
      PROVE  HistoryKept
    BY <1>1 DEF CreatePact, TypeOK, HistoryKept
<1>2. ASSUME NEW p \in Pacts, NEW evidence \in FundingEvidence, ConfirmFunding(p, evidence)
      PROVE  HistoryKept
    <2>1. /\ pacts'[p].requester = pacts[p].requester
          /\ pacts'[p].worker = pacts[p].worker
          /\ \A q \in Pacts : q # p => pacts'[q] = pacts[q]
        BY <1>2, FundedRow DEF ConfirmFunding, TypeOK
    <2>2. pacts[p].evidence = None
        BY <1>2 DEF ConfirmFunding, Fundable, FundingEvidenceComplete
    <2> QED BY <1>2, <2>1, <2>2 DEF ConfirmFunding, HistoryKept
<1>3. ASSUME NEW p \in Pacts, NEW by \in Parties, NEW key \in SubmissionKeys,
             NEW artifact \in Artifacts, CreateSubmission(p, by, key, artifact)
      PROVE  HistoryKept
    <2> DEFINE e == [key |-> key, artifact |-> artifact]
    <2>1. e \in Submission /\ submissions[p] \in Seq(Submission)
        BY DEF TypeOK, Submission
    <2>2. \A q \in Pacts : \A i \in DOMAIN submissions[q] :
            i \in DOMAIN submissions'[q] /\ submissions'[q][i] = submissions[q][i]
        BY <1>3, <2>1, AppendKeeps DEF CreateSubmission, TypeOK
    <2>3. /\ pacts'[p].requester = pacts[p].requester
          /\ pacts'[p].worker = pacts[p].worker
          /\ pacts'[p].evidence = pacts[p].evidence
          /\ \A q \in Pacts : q # p => pacts'[q] = pacts[q]
        BY <1>3, WithStatusRow DEF CreateSubmission, TypeOK, PactStatus
    <2> QED BY <1>3, <2>2, <2>3 DEF CreateSubmission, HistoryKept
<1>4. ASSUME NEW p \in Pacts, NEW submission \in DOMAIN submissions[p],
             BeginVerification(p, submission)
      PROVE  HistoryKept
    BY <1>4, StatusMoves DEF BeginVerification, PactStatus
<1>5. ASSUME NEW p \in Pacts, NEW by \in Parties, NEW key \in ChangeKeys,
             NEW submission \in DOMAIN submissions[p],
             CreateChangeRequest(p, by, submission, key)
      PROVE  HistoryKept
    BY <1>5, StatusMoves DEF CreateChangeRequest, PactStatus
<1>6. ASSUME NEW c \in completions, CommitCompletion(c)
      PROVE  HistoryKept
    <2>1. c.pact \in Pacts /\ StatusFor(c.decision) \in PactStatus \cup {"NONE"}
        BY StatusTypes DEF TypeOK, Receipt, PactStatus
    <2> QED BY <1>6, <2>1, StatusMoves DEF CommitCompletion
<1>7. ASSUME NEW receipt \in receipts, NEW tx \in SettlementTxs,
             ConfirmSettlement(receipt.pact, receipt, tx)
      PROVE  HistoryKept
    <2>1. receipt.pact \in Pacts
        BY DEF TypeOK, Receipt
    <2>2. StatusOnConfirmation(pacts[receipt.pact].status) \in PactStatus \cup {"NONE"}
        BY <2>1, StatusTypes DEF TypeOK, PactRow
    <2> QED BY <1>7, <2>1, <2>2, StatusMoves DEF ConfirmSettlement
<1>8. ASSUME UNCHANGED <<pacts, submissions, receipts, changeRequests, confirmed>>,
             authorized \subseteq authorized'
      PROVE  HistoryKept
    BY <1>8 DEF HistoryKept
<1>9. ASSUME NEW c \in completions, AbortCompletion(c)
      PROVE  HistoryKept
    BY <1>8, <1>9 DEF AbortCompletion
<1>10. ASSUME NEW receipt \in receipts, AppendAuthorized(receipt.pact, receipt)
       PROVE  HistoryKept
    BY <1>8, <1>10 DEF AppendAuthorized
<1>11. ASSUME NEW p \in Pacts, NEW run \in Runs, NEW key \in RunKeys,
              NEW decision \in SettlementDecision, NEW sharedMiner \in BOOLEAN,
              NEW submission \in DOMAIN submissions[p],
              StartCompletion(p, submission, run, key, decision, sharedMiner)
       PROVE  HistoryKept
    BY <1>8, <1>11 DEF StartCompletion
<1>12. CASE UNCHANGED storeVars
    BY <1>8, <1>12 DEF storeVars
<1> QED BY <1>1, <1>2, <1>3, <1>4, <1>5, <1>6, <1>7, <1>9, <1>10, <1>11, <1>12 DEF Next

-----------------------------------------------------------------------------
(* The theorems *)

LEMMA InitInvariants ==
    Init => FundingEvidenceComplete /\ StatusIsExplained /\ IdempotencyHolds
    BY DEF Init, NoRow, FundingEvidenceComplete, StatusIsExplained, Explained, IdempotencyHolds

\* Every status past FUNDED has a reason on record, however many completions
\* of one pact overlap.
THEOREM StatusesAreExplained == Spec => []StatusIsExplained
<1> QED BY InitType, InitInvariants, StepType, ExplainedStep, PTL DEF Spec

\* Funding evidence is complete exactly from FUNDED on, and never shared.
THEOREM FundingIsComplete == Spec => []FundingEvidenceComplete
<1> QED BY InitType, InitInvariants, StepType, ExplainedStep, FundingStep, PTL DEF Spec

\* One key, one submission; one key or run id, one receipt; one settlement
\* per receipt.
THEOREM KeysAreUnique == Spec => []IdempotencyHolds
<1> QED BY InitType, InitInvariants, StepType, IdempotencyStep, PTL DEF Spec

\* No step changes or removes what has been recorded.
THEOREM RecordsAreImmutable == Spec => HistoryIsImmutable
<1>1. TypeOK /\ FundingEvidenceComplete /\ [Next]_storeVars => [HistoryKept]_storeVars
    BY HistoryStep
<1>2. HistoryIsImmutable <=> [][HistoryKept]_storeVars
    BY DEF HistoryIsImmutable, HistoryKept
<1> QED BY <1>1, <1>2, TypeCorrect, FundingIsComplete, PTL DEF Spec

=============================================================================
