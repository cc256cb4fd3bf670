----------------------------- MODULE MCProfile -------------------------------
EXTENDS Profile, TLC

Symmetry == Permutations(Request) \cup Permutations(Key) \cup Permutations(Field)

=============================================================================
