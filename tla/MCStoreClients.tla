--------------------------- MODULE MCStoreClients ---------------------------
(* Instances of StoreClients for TLC. *)
EXTENDS StoreClients, FiniteSets, TLC

CONSTANTS ann, bea, cid

MCMinerIds == {ann, bea, cid}
MCIdentity == [id \in MCMinerIds |-> id]

MCIntents == Policy!RequiredIntents.secureDelivery

Says(miner, intent, verdict) ==
    [intent |-> intent, minerId |-> miner, verdict |-> verdict, confident |-> TRUE]

\* Runs that find two or one of the three answers, or a failed requirement; no
\* miner answers twice in one run, but one may answer in two runs.
MCOutcomes ==
    {<<Says(ann, "FRAUD_DETECTION", "PASS"), Says(bea, "URL_SCAN", "PASS")>>,
     <<Says(ann, "SSL_VERIFICATION", "PASS")>>,
     <<Says(cid, "SSL_VERIFICATION", "PASS"), Says(bea, "URL_SCAN", "INCONCLUSIVE")>>,
     <<Says(ann, "FRAUD_DETECTION", "PASS"), Says(bea, "URL_SCAN", "FAIL")>>}

\* Keys of runs, and of compositions.
MCRunKeys ==
    Runs \cup {Key(s, <<f, u, v>>) : s \in 1..MaxSubmissions,
                f \in {Says(ann, "FRAUD_DETECTION", "PASS")},
                u \in {Says(bea, "URL_SCAN", "PASS")},
                v \in {Says(m, "SSL_VERIFICATION", "PASS") : m \in {ann, cid}}}

-----------------------------------------------------------------------------
TheOther(x, S) == CHOOSE y \in S : y # x

\* Permutations of Runs and of SubmissionKeys, and of the two Tabs and the two
\* TabRuns.  No state holds keys of both clients, so one client's keys may be
\* exchanged with the other's at no cost: the group stays small.
Symmetry ==
    {[x \in Runs \cup TabRuns |-> IF x \in TabRuns THEN TheOther(x, TabRuns)
                                 ELSE IF x \in pair THEN TheOther(x, pair) ELSE x] :
        pair \in {s \in SUBSET Runs : Cardinality(s) = 2}}
    \cup {[x \in SubmissionKeys \cup Tabs |->
                TheOther(x, IF x \in Tabs THEN Tabs ELSE SubmissionKeys)]}

=============================================================================
