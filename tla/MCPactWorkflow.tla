--------------------------- MODULE MCPactWorkflow ---------------------------
EXTENDS PactWorkflow, TLC

MCRunKeys == [kind : {"service", "recovered"}, submission : 1..MaxSubmissions,
              run : Runs \cup {None}]

Symmetry == Permutations(Runs) \cup Permutations(SubmissionKeys) \cup Permutations(Artifacts)

=============================================================================
