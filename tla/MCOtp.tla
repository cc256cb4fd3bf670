------------------------------- MODULE MCOtp --------------------------------
(* Small instances of Otp.                                                  *)
EXTENDS Otp, TLC

Symmetry == Permutations(Request) \cup Permutations(Row)
=============================================================================
