------------------------------ MODULE OneTime -------------------------------
(****************************************************************************)
(* What a caller may rely on for anything this API hands out to be redeemed *)
(* once (a challenge token, a backup code, a mailed code): it is redeemed   *)
(* at most once, and one that was withdrawn not at all.  A ticket that      *)
(* expires while a request that has found it is under way is not withdrawn  *)
(* but lapsed: it may still be redeemed, until that request is done; a      *)
(* request that comes after the expiry never brings it back.                *)
(****************************************************************************)
EXTENDS Naturals

CONSTANT Ticket

VARIABLES live, lapsed, uses

OneTimeInit == live = {} /\ lapsed = {} /\ uses = [t \in Ticket |-> 0]

Issue(t) ==
    /\ t \notin live \cup lapsed /\ uses[t] = 0
    /\ live' = live \cup {t}
    /\ UNCHANGED <<lapsed, uses>>

Redeem(t) ==
    /\ t \in live \cup lapsed /\ uses[t] = 0
    /\ live' = live \ {t} /\ lapsed' = lapsed \ {t}
    /\ uses' = [uses EXCEPT ![t] = 1]

\* Live tickets expire, are superseded or deleted.  Those that expire under a
\* request that has found them lapse, until it gives them up.
Withdraw ==
    /\ live' \subseteq live
    /\ lapsed' \subseteq (live \cup lapsed) \ live'
    /\ UNCHANGED uses

OneTimeNext == (\E t \in Ticket : Issue(t) \/ Redeem(t)) \/ Withdraw

OneTimeSpec == OneTimeInit /\ [][OneTimeNext]_<<live, lapsed, uses>>
=============================================================================
