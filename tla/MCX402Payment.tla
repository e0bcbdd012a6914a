--------------------------- MODULE MCX402Payment ---------------------------
EXTENDS X402Payment, TLC

Symmetry == Permutations(Payments)

=============================================================================
