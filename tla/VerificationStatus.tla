------------------------- MODULE VerificationStatus -------------------------
(***************************************************************************)
(* Browser tabs that wait for a verification (verify-delivery.tsx,         *)
(* verification-progress.tsx) by polling the status route                  *)
(* (verification-status/route.ts) beside the server action they may have   *)
(* called, over PactStore.                                                 *)
(*                                                                         *)
(* The page and the route read the pact, its latest submission and its     *)
(* latest receipt by three queries of one connection: each sees what is    *)
(* committed when its turn comes.  The answer is used when it arrives.     *)
(***************************************************************************)
EXTENDS PactStore

CONSTANTS
    Tabs,
    Pact,            \* the pact all tabs show
    Failures,        \* may a run fail, an answer be lost, a poll break off?
    MaxSubmissions   \* bound: submissions of the pact

VARIABLES
    tabs,        \* what each tab shows and waits for
    executing    \* authorizeVerificationAction calls on the server

statusVars == <<storeVars, tabs, executing>>

Blank == [status |-> "NONE", submission |-> 0, receipt |-> None]

Closed == [phase |-> "CLOSED", kind |-> "page", submission |-> 0, previous |-> None,
           run |-> None, snapshot |-> Blank, reads |-> 0, outcome |-> None]

StatusInit ==
    /\ Init
    /\ tabs = [t \in Tabs |-> Closed]
    /\ executing = {}

-----------------------------------------------------------------------------
(* Reading *)

LatestRun ==
    IF LatestReceipts(Pact) = {} THEN None
    ELSE (CHOOSE r \in LatestReceipts(Pact) : TRUE).run

Stored == [status |-> pacts[Pact].status, submission |-> Latest(Pact), receipt |-> LatestRun]

\* Asks for the receipt first.
ReceiptFirst == <<"receipt", "submission", "status">>

ReadOrder == <<"status", "submission", "receipt">>

Read(t) ==
    /\ tabs[t].phase \in {"RENDERING", "READING"}
    /\ tabs[t].reads < 3
    /\ LET field == ReadOrder[tabs[t].reads + 1]
       IN  tabs' = [tabs EXCEPT ![t].snapshot[field] = Stored[field], ![t].reads = @ + 1]
    /\ UNCHANGED <<storeVars, executing>>

ReceiptOf(run) == CHOOSE r \in receipts : r.run = run

\* The receipt, if it is one of the submission read with it.
CurrentReceipt(snapshot) ==
    IF snapshot.receipt # None /\ ReceiptOf(snapshot.receipt).submission = snapshot.submission
    THEN snapshot.receipt ELSE None

-----------------------------------------------------------------------------
(* The page *)

\* The user opens, reloads or comes back to the page.
Load(t) ==
    /\ pacts[Pact].status # "NONE"
    /\ tabs' = [tabs EXCEPT ![t] = [Closed EXCEPT !.phase = "RENDERING"]]
    /\ UNCHANGED <<storeVars, executing>>

\* PactRoleActions: a pact being verified is watched, one that awaits
\* verification can be verified by its requester.  The fourth query of the page,
\* for the latest change request, is taken with the rendering.
Rendered(t) ==
    /\ tabs[t].phase = "RENDERING" /\ tabs[t].reads = 3
    /\ LET snapshot == tabs[t].snapshot
           requested == \E c \in changeRequests :
                            c.pact = Pact /\ c.submission = snapshot.submission
           retry == /\ snapshot.status = "HELD" /\ ~requested
                    /\ snapshot.receipt # None
                    /\ ReceiptOf(snapshot.receipt).decision = "RETRY"
           watched == [Closed EXCEPT !.submission = snapshot.submission,
                                     !.previous = snapshot.receipt]
       IN  tabs' = [tabs EXCEPT ![t] =
               IF snapshot.submission = 0 THEN Closed
               ELSE IF snapshot.status = "VERIFYING"
                    THEN [watched EXCEPT !.phase = "WAITING", !.kind = "progress"]
               ELSE IF snapshot.status = "SUBMITTED" \/ retry
                    THEN [watched EXCEPT !.phase = "OFFERED", !.kind = "verify"]
               ELSE Closed]
    /\ UNCHANGED <<storeVars, executing>>

FreshRun(run) ==
    /\ \A r \in receipts \cup completions : r.run # run
    /\ \A q \in executing : q.run # run
    /\ \A t \in Tabs : tabs[t].run # run

\* The requester signs: the action is called and the polling starts.
Verify(t, run) ==
    /\ tabs[t].phase = "OFFERED"
    /\ FreshRun(run)
    /\ tabs' = [tabs EXCEPT ![t].phase = "WAITING", ![t].run = run]
    /\ executing' = executing
            \cup {[run |-> run, submission |-> tabs[t].submission, begun |-> FALSE]}
    /\ UNCHANGED storeVars

-----------------------------------------------------------------------------
(* Polling *)

Poll(t) ==
    /\ tabs[t].phase = "WAITING"
    /\ tabs' = [tabs EXCEPT ![t].phase = "READING", ![t].snapshot = Blank, ![t].reads = 0]
    /\ UNCHANGED <<storeVars, executing>>

\* Any receipt of the submission is the answer.
AnyReceipt(tab) == CurrentReceipt(tab.snapshot) # None

News(tab) == CurrentReceipt(tab.snapshot) \notin {None, tab.previous}

\* VerifyDelivery goes on while the status may still change by itself.
GoesOn(tab) ==
    IF tab.kind = "verify" THEN tab.snapshot.status \in {"HELD", "VERIFYING", "SUBMITTED"}
                           ELSE tab.snapshot.status = "VERIFYING"

\* VerifyDelivery reports "stopped without a receipt"; VerificationProgress
\* refreshes the page.
Stopped(tab) ==
    IF tab.kind = "verify" THEN [tab EXCEPT !.phase = "STOPPED"]
                           ELSE [Closed EXCEPT !.phase = "RENDERING"]

PollAnswered(t) ==
    /\ tabs[t].phase = "READING" /\ tabs[t].reads = 3
    /\ LET tab == tabs[t]
       IN  tabs' = [tabs EXCEPT ![t] =
               IF tab.snapshot.submission # tab.submission THEN [tab EXCEPT !.phase = "REPLACED"]
               ELSE IF News(tab)
                    THEN [tab EXCEPT !.phase = "OPENED", !.outcome = tab.snapshot.receipt]
               ELSE IF GoesOn(tab) THEN [tab EXCEPT !.phase = "WAITING"]
               ELSE Stopped(tab)]
    /\ UNCHANGED <<storeVars, executing>>

PollBreaks(t) ==
    /\ Failures
    /\ tabs[t].phase = "READING"
    /\ tabs' = [tabs EXCEPT ![t].phase = "WAITING"]
    /\ UNCHANGED <<storeVars, executing>>

Waits(t) == tabs[t].phase \in {"WAITING", "READING"}

\* Twelve minutes have passed.
TimesOut(t) ==
    /\ tabs[t].phase = "WAITING" /\ tabs[t].kind = "verify"
    /\ tabs' = [tabs EXCEPT ![t] = Closed]
    /\ UNCHANGED <<storeVars, executing>>

-----------------------------------------------------------------------------
(* The server action *)

ActionBegins(q) ==
    /\ ~q.begun
    /\ BeginVerification(Pact, q.submission)
    /\ executing' = (executing \ {q}) \cup {[q EXCEPT !.begun = TRUE]}
    /\ UNCHANGED tabs

\* The action's error ends the waiting of the tab that called it, unless lost.
ErrorShown(run) ==
    \/ tabs' = [t \in Tabs |-> IF tabs[t].run = run /\ Waits(t) THEN Closed ELSE tabs[t]]
    \/ Failures /\ UNCHANGED tabs

ActionRefused(q) ==
    /\ ~q.begun
    /\ ~(Verifiable(Pact) /\ q.submission = Latest(Pact))
    /\ executing' = executing \ {q}
    /\ ErrorShown(q.run)
    /\ UNCHANGED storeVars

ActionFails(q) ==
    /\ Failures
    /\ executing' = executing \ {q}
    /\ ErrorShown(q.run)
    /\ UNCHANGED storeVars

ActionDecides(q, decision) ==
    /\ q.begun
    /\ StartCompletion(Pact, q.submission, q.run, q.run, decision, FALSE)
    /\ executing' = executing \ {q}
    /\ UNCHANGED tabs

CompletionCommits(c) == CommitCompletion(c) /\ UNCHANGED <<tabs, executing>>

\* The answer of the action may be late, or lost.
ActionAnswered(t) ==
    /\ Waits(t)
    /\ \E r \in receipts : r.run = tabs[t].run
    /\ tabs' = [tabs EXCEPT ![t].phase = "OPENED", ![t].outcome = tabs[t].run]
    /\ UNCHANGED <<storeVars, executing>>

-----------------------------------------------------------------------------

StatusNext ==
    \/ \E requester, worker \in Parties :
        /\ requester # worker
        /\ CreatePact(Pact, requester, worker) /\ UNCHANGED <<tabs, executing>>
    \/ \E funding \in FundingEvidence :
        ConfirmFunding(Pact, funding) /\ UNCHANGED <<tabs, executing>>
    \/ \E by \in Parties, key \in SubmissionKeys, artifact \in Artifacts :
        /\ Latest(Pact) < MaxSubmissions
        /\ CreateSubmission(Pact, by, key, artifact) /\ UNCHANGED <<tabs, executing>>
    \/ \E by \in Parties, key \in ChangeKeys :
        /\ CreateChangeRequest(Pact, by, Latest(Pact), key) /\ UNCHANGED <<tabs, executing>>
    \/ \E t \in Tabs :
        \/ Load(t) \/ Read(t) \/ Rendered(t)
        \/ \E run \in Runs : Verify(t, run)
        \/ Poll(t) \/ PollAnswered(t) \/ PollBreaks(t) \/ TimesOut(t) \/ ActionAnswered(t)
    \/ \E q \in executing :
        \/ ActionBegins(q) \/ ActionRefused(q) \/ ActionFails(q)
        \/ \E decision \in SettlementDecision : ActionDecides(q, decision)
    \/ \E c \in completions : CompletionCommits(c)

StatusSpec == StatusInit /\ [][StatusNext]_statusVars

-----------------------------------------------------------------------------
(* Properties *)

\* Receipts of the watched submission that are newer than what the page knew.
NewReceipts(tab) ==
    {r \in receipts :
        /\ r.submission = tab.submission
        /\ tab.previous # None => r.startedAt > ReceiptOf(tab.previous).startedAt}

\* A tab that says the verification stopped without a receipt is right,
\* although status and receipt are read one after the other and the verdict may
\* be committed in between (route.ts 13-17, verify-delivery.tsx 34-41).
StoppedMeansNoReceipt ==
    \A t \in Tabs : tabs[t].phase = "STOPPED" => NewReceipts(tabs[t]) = {}

\* What a tab opens as the outcome is a receipt of the submission it showed, and
\* newer than the receipt it showed (verify-delivery.tsx 36, verification-progress.tsx 44).
OutcomeIsNews ==
    \A t \in Tabs : tabs[t].phase = "OPENED" =>
        \E r \in NewReceipts(tabs[t]) : r.run = tabs[t].outcome

=============================================================================
