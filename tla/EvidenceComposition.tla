------------------------ MODULE EvidenceComposition ------------------------
(***************************************************************************)
(* Fresh-evidence composition (fresh-evidence-composer.ts,                 *)
(* compose-fresh-secure-delivery.ts) beside the verification runs of the   *)
(* application: an operator's script that puts together, for a held pact,  *)
(* the passing answers earlier runs have paid for, and has the store       *)
(* complete a verification with them.                                      *)
(*                                                                         *)
(* The script reads the store, works, begins the verification in one       *)
(* transaction and completes it in another; the application may do         *)
(* anything the store allows in between.  Runs are what PactWorkflow       *)
(* details; here a run begins and then decides on the signals it has got.  *)
(***************************************************************************)
EXTENDS PactStore

CONSTANTS
    MinerIds, Miners, Identity,   \* as in SettlementPolicy
    Intents,         \* the required intents of every pact, in order
    Outcomes,        \* the signals a verification run may return
    Failures,        \* may a run or a script die, or a connection drop?
    MaxSubmissions   \* bound: submissions of a pact

Policy == INSTANCE SettlementPolicy

Key(submission, signals) == [submission |-> submission, signals |-> signals]

ASSUME CompositionAssumption ==
    /\ Intents \in Seq(Policy!VerificationIntent)
    /\ Outcomes \subseteq Seq(Policy!VerificationSignal)
    /\ Failures \in BOOLEAN
    /\ MaxSubmissions \in Nat

VARIABLES
    evidence,     \* payload.records of the receipts, by run
    aged,         \* runs whose evidence is more than sixty minutes old
    verifying,    \* verification runs that have begun
    composing     \* the script from its reads to completeVerification

scriptVars == <<evidence, aged, verifying, composing>>
compositionVars == <<storeVars, scriptVars>>

CompositionInit ==
    /\ Init
    /\ evidence = [run \in Runs |-> <<>>]
    /\ aged = {}
    /\ verifying = {}
    /\ composing = {}

-----------------------------------------------------------------------------
(* The composer *)

Required == {Intents[i] : i \in DOMAIN Intents}

\* Takes a receipt of any delivery of the pact.
OfThePact(r, p, submission) == r.pact = p

OfTheSubmission(r, p, submission) == r.pact = p /\ r.submission = submission

IsPass(signal) == signal.verdict = "PASS" /\ signal.confident

\* The fresh passing answers of a submission to an intent, each with its receipt.
Candidates(p, submission, intent) ==
    {c \in receipts \X (1..Len(Intents)) :
        LET r == c[1]
            i == c[2]
        IN  /\ OfTheSubmission(r, p, submission)
            /\ r.run \notin aged
            /\ i \in DOMAIN evidence[r.run]
            /\ evidence[r.run][i].intent = intent
            /\ IsPass(evidence[r.run][i])}

\* Answers are as old as their receipts.
Freshest(candidates) ==
    CHOOSE c \in candidates : \A d \in candidates : d[1].startedAt <= c[1].startedAt

Composed(p, submission) ==
    [k \in DOMAIN Intents |->
        LET c == Freshest(Candidates(p, submission, Intents[k])) IN evidence[c[1].run][c[2]]]

SameMiner(signals, i, j) ==
    Identity[signals[i].minerId] = Identity[signals[j].minerId]

MinersDiffer(signals) == \E i, j \in DOMAIN signals : ~SameMiner(signals, i, j)

\* UNIQUE (run_id, miner_id) stops a run with such signals.
MinerTwice(signals) == \E i, j \in DOMAIN signals : i # j /\ SameMiner(signals, i, j)

Decision(signals) == Policy!EvaluateSettlement(signals, Required)

-----------------------------------------------------------------------------
(* The script *)

ComposeReads(p) ==
    /\ pacts[p].status = "HELD"
    /\ Latest(p) > 0
    /\ \A intent \in Required : Candidates(p, Latest(p), intent) # {}
    /\ LET signals == Composed(p, Latest(p))
       IN  /\ MinersDiffer(signals)
           /\ Decision(signals) = "RELEASE"
           /\ composing' = composing \cup
                {[pact |-> p, submission |-> Latest(p), phase |-> "READ", signals |-> signals]}
    /\ UNCHANGED <<storeVars, evidence, aged, verifying>>

\* Once GitHub has confirmed the commit.
ComposeBegins(c) ==
    /\ c.phase = "READ"
    /\ BeginVerification(c.pact, c.submission)
    /\ composing' = (composing \ {c}) \cup {[c EXCEPT !.phase = "BEGUN"]}
    /\ UNCHANGED <<evidence, aged, verifying>>

FreshRun(run) ==
    /\ \A r \in receipts \cup completions : r.run # run
    /\ \A v \in verifying : v.run # run

ComposeCompletes(c, run) ==
    /\ c.phase = "BEGUN"
    /\ FreshRun(run)
    /\ StartCompletion(c.pact, c.submission, run, Key(c.submission, c.signals),
                       "RELEASE", MinerTwice(c.signals))
    /\ evidence' = [evidence EXCEPT ![run] = c.signals]
    /\ composing' = composing \ {c}
    /\ UNCHANGED <<aged, verifying>>

\* GitHub refuses, beginVerification refuses, or the script dies.
ComposeEnds(c) ==
    /\ Failures \/ c.phase = "READ"
    /\ composing' = composing \ {c}
    /\ UNCHANGED <<storeVars, evidence, aged, verifying>>

-----------------------------------------------------------------------------
(* The application *)

Deliver(p, by, key, artifact) ==
    /\ Latest(p) < MaxSubmissions
    /\ CreateSubmission(p, by, key, artifact)
    /\ UNCHANGED scriptVars

RunBegins(p, run) ==
    /\ FreshRun(run)
    /\ BeginVerification(p, Latest(p))
    /\ verifying' = verifying \cup {[pact |-> p, run |-> run, submission |-> Latest(p)]}
    /\ UNCHANGED <<evidence, aged, composing>>

RunDecides(v, signals) ==
    /\ StartCompletion(v.pact, v.submission, v.run, v.run, Decision(signals), MinerTwice(signals))
    /\ evidence' = [evidence EXCEPT ![v.run] = signals]
    /\ verifying' = verifying \ {v}
    /\ UNCHANGED <<aged, composing>>

RunEnds(v) ==
    /\ Failures
    /\ verifying' = verifying \ {v}
    /\ UNCHANGED <<storeVars, evidence, aged, composing>>

CompletionCommits(c) == CommitCompletion(c) /\ UNCHANGED scriptVars

CompletionAborts(c) ==
    /\ Failures \/ ~RunUnused(c) \/ c.sharedMiner
    /\ AbortCompletion(c)
    /\ UNCHANGED scriptVars

Ages(r) ==
    /\ r.run \notin aged
    /\ aged' = aged \cup {r.run}
    /\ UNCHANGED <<storeVars, evidence, verifying, composing>>

-----------------------------------------------------------------------------

CompositionNext ==
    \/ \E p \in Pacts, requester, worker \in Parties :
        requester # worker /\ CreatePact(p, requester, worker) /\ UNCHANGED scriptVars
    \/ \E p \in Pacts, funding \in FundingEvidence :
        ConfirmFunding(p, funding) /\ UNCHANGED scriptVars
    \/ \E p \in Pacts, by \in Parties, key \in SubmissionKeys, artifact \in Artifacts :
        Deliver(p, by, key, artifact)
    \/ \E p \in Pacts, by \in Parties, key \in ChangeKeys :
        CreateChangeRequest(p, by, Latest(p), key) /\ UNCHANGED scriptVars
    \/ \E p \in Pacts, run \in Runs : RunBegins(p, run)
    \/ \E v \in verifying, signals \in Outcomes : RunDecides(v, signals)
    \/ \E v \in verifying : RunEnds(v)
    \/ \E p \in Pacts : ComposeReads(p)
    \/ \E c \in composing : ComposeBegins(c) \/ ComposeEnds(c)
    \/ \E c \in composing, run \in Runs : ComposeCompletes(c, run)
    \/ \E c \in completions : CompletionCommits(c) \/ CompletionAborts(c)
    \/ \E r \in receipts : Ages(r)

CompositionSpec == CompositionInit /\ [][CompositionNext]_compositionVars

-----------------------------------------------------------------------------
(* Properties *)

Fails(signal) == signal.verdict = "FAIL" /\ signal.confident

\* No release forgets a failure: when a delivery is released, by a run or by a
\* composition of whatever earlier runs have found, no run of that delivery has
\* ever recorded a conclusive FAIL, although the composer looks at passing
\* answers only (fresh-evidence-composer.ts 64; beginVerification 293-300).
FailuresAreRemembered ==
    \A r, s \in receipts :
        r.decision = "RELEASE" /\ s.pact = r.pact /\ s.submission = r.submission =>
            ~\E i \in DOMAIN evidence[s.run] : Fails(evidence[s.run][i])

\* A composition invents nothing: behind every receipt that says RELEASE,
\* whoever wrote it, each required intent was passed in a verification run,
\* paid for, of the very delivery that is released, and two miners took part
\* (fresh-evidence-composer.ts 53-64, 107).
ReleaseIsPaidFor ==
    \A r \in receipts :
        r.decision = "RELEASE" =>
            LET Heard == UNION {{evidence[s.run][i] : i \in DOMAIN evidence[s.run]} :
                                s \in {s \in receipts : /\ s.pact = r.pact
                                                        /\ s.submission = r.submission
                                                        /\ s.key \in Runs}}
            IN  /\ \A intent \in Required : \E h \in Heard : h.intent = intent /\ IsPass(h)
                /\ \E g, h \in Heard : Identity[g.minerId] # Identity[h.minerId]

=============================================================================
