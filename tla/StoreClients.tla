---------------------------- MODULE StoreClients ----------------------------
(***************************************************************************)
(* Two clients of the store that have nothing else in common, chosen in    *)
(* the initial state: compositions beside verification runs, or browser    *)
(* tabs beside the server action.  The client that is not chosen stays in  *)
(* its initial state.                                                      *)
(***************************************************************************)
EXTENDS EvidenceComposition

CONSTANTS Tabs, TabRuns, TabKeys, TabStarts, Shown

\* A run id is never SQL NULL (verification_runs.run_id is its key).
ASSUME TabAssumption ==
    /\ Shown \in Pacts
    /\ None \notin TabRuns

VARIABLES client, tabs, executing

Status == INSTANCE VerificationStatus
            WITH Runs <- TabRuns, RunKeys <- TabRuns, SubmissionKeys <- TabKeys,
                 MaxStarts <- TabStarts, Pact <- Shown

clientVars == <<client, tabs, executing, compositionVars>>

ClientInit ==
    /\ client \in {"COMPOSITION", "TABS"}
    /\ CompositionInit
    /\ Status!StatusInit

ClientNext ==
    \/ client = "COMPOSITION" /\ CompositionNext /\ UNCHANGED <<client, tabs, executing>>
    \/ client = "TABS" /\ Status!StatusNext /\ UNCHANGED <<client, scriptVars>>

ClientSpec == ClientInit /\ [][ClientNext]_clientVars

\* FailuresAreRemembered where compositions run.
ComposerRemembersFailures == client = "COMPOSITION" => FailuresAreRemembered

\* ReleaseIsPaidFor where compositions run.
ComposedReleaseIsPaidFor == client = "COMPOSITION" => ReleaseIsPaidFor

\* StoppedMeansNoReceipt of the tabs.
TabStopsWithoutReceipt == Status!StoppedMeansNoReceipt

\* OutcomeIsNews of the tabs.
TabOutcomeIsNews == Status!OutcomeIsNews

=============================================================================
