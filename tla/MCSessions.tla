----------------------------- MODULE MCSessions -----------------------------
(* Small instances of Sessions.  Pairs and requests are interchangeable.    *)
EXTENDS Sessions, TLC

Symmetry == Permutations(Client) \cup Permutations(Admin) \cup Permutations(Pair)
=============================================================================
