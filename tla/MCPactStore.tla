---------------------------- MODULE MCPactStore ----------------------------
EXTENDS PactStore, TLC

Symmetry == Permutations(Pacts) \cup Permutations(Runs) \cup Permutations(FundingTxs)
                \cup Permutations(OnchainIds) \cup Permutations(SubmissionKeys) \cup Permutations(RunKeys)

=============================================================================
