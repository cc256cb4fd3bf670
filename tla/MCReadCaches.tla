---------------------------- MODULE MCReadCaches -----------------------------
EXTENDS ReadCaches, TLC

Symmetry == Permutations(Reader) \cup Permutations(Writer)

=============================================================================
