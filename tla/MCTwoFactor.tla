---------------------------- MODULE MCTwoFactor -----------------------------
(* Small instances of TwoFactor.                                            *)
EXTENDS TwoFactor, TLC

Symmetry == Permutations(Request) \cup Permutations(Challenge) \cup Permutations(Otp)

(***************************************************************************)
(* TLC tells states apart by this view of them.  What overtaken says of a  *)
(* request that is no userDisable2FA any more matters to no step and to no *)
(* property: the next one can start only after SetRequired(r, FALSE) has   *)
(* emptied the set.  Neither does it matter whether a mailed code that has *)
(* expired and is held by no request is deleted: nobody finds it again.    *)
(***************************************************************************)
Mailed == [o \in Otp |-> IF otp[o] = "expired" /\ o \notin LapsedCodes THEN "gone" ELSE otp[o]]
View == <<enabled, required, secret, challenge, code, Mailed, req, history,
          {r \in overtaken : req[r].op = "my_disable"}>>
=============
