----------------------------- MODULE MCPaidRuns -----------------------------
(* Instances of PaidRuns for TLC. *)
EXTENDS PaidRuns

MCIdentity == [id \in {"alpha", "ALPHA", "beta"} |-> IF id = "beta" THEN "b" ELSE "a"]
MCMiners == {"a", "b"}
MCMinerIds == {"alpha", "ALPHA", "beta"}

MCIntents == <<"FRAUD_DETECTION", "URL_SCAN", "SSL_VERIFICATION">>

Answer(id, verdict, confident) ==
    [minerId |-> id, verdict |-> verdict, confident |-> confident]

MCAnswers == {Answer("alpha", "PASS", TRUE), Answer("alpha", "INCONCLUSIVE", TRUE),
              Answer("ALPHA", "FAIL", TRUE),
              Answer("beta", "PASS", TRUE), Answer("beta", "PASS", FALSE)}

=============================================================================
