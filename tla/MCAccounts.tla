----------------------------- MODULE MCAccounts ------------------------------
EXTENDS Accounts, TLC

Symmetry == Permutations(Request) \cup Permutations(Id) \cup Permutations(Email)
                \cup Permutations(Phone)

=============================================================================
