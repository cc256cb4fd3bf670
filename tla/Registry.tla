------------------------------ MODULE Registry -------------------------------
(***************************************************************************)
(* What account creation promises, without its awaits and retries: every   *)
(* request is decided in one step.  Either its account opens with an id,   *)
(* an address and a number that no open account has, or nothing changes.   *)
(* A request whose account opens is answered 201, at once or later, and    *)
(* one that finds an account in its way is refused; only a failure, which  *)
(* is on record, answers 500 without such an account, or though the        *)
(* request's own has opened.                                               *)
(***************************************************************************)
CONSTANTS Request, Id, Email, Phone, None

VARIABLES account, answer, failed

NoAccount  == [id |-> None, email |-> None, phone |-> None]
Undecided  == [status |-> 0, email |-> None, phone |-> None]

Opened == {r \in Request : account[r] # NoAccount}
Claimed(field, v) == v # None /\ \E r \in Opened : account[r][field] = v

\* status 0: the request is decided but not answered yet
Decide(r, status, e, p) ==
    /\ answer[r] = Undecided
    /\ answer' = [answer EXCEPT ![r] = [status |-> status, email |-> e, phone |-> p]]
Record(r, status) == failed' = IF status = 500 THEN failed \cup {r} ELSE failed

Open(r, id, e, p, status) ==
    /\ ~Claimed("id", id) /\ ~Claimed("email", e) /\ ~Claimed("phone", p)
    /\ account' = [account EXCEPT ![r] = [id |-> id, email |-> e, phone |-> p]]
    /\ Decide(r, status, e, p) /\ Record(r, status)

Answer(r, status) ==
    /\ answer[r] # Undecided /\ answer[r].status = 0
    /\ answer' = [answer EXCEPT ![r].status = status]
    /\ Record(r, status)
    /\ UNCHANGED account

\* 409: the address or the number is in use.  500: so is one of the three.
Refuse(r, status, e, p) ==
    /\ \/ Claimed("email", e) \/ Claimed("phone", p)
       \/ status = 500 /\ \E id \in Id : Claimed("id", id)
    /\ Decide(r, status, e, p)
    /\ UNCHANGED <<account, failed>>

\* with what was asked for, if it is known
Fail(r, e, p) == Decide(r, 500, e, p) /\ Record(r, 500) /\ UNCHANGED account

Close(r) ==
    /\ r \in Opened
    /\ account' = [account EXCEPT ![r] = NoAccount]
    /\ UNCHANGED <<answer, failed>>

RegistryInit ==
    /\ account = [r \in Request |-> NoAccount]
    /\ answer = [r \in Request |-> Undecided]
    /\ failed = {}

RegistryNext ==
    \E r \in Request :
      \/ \E e \in Email, p \in Phone \cup {None} :
           \/ \E id \in Id, status \in {0, 201, 500} : Open(r, id, e, p, status)
           \/ \E status \in {409, 500} : Refuse(r, status, e, p)
      \/ \E e \in Email \cup {None}, p \in Phone \cup {None} : Fail(r, e, p)
      \/ \E status \in {201, 500} : Answer(r, status)
      \/ Close(r)

RegistrySpec == RegistryInit /\ [][RegistryNext]_<<account, answer, failed>>
=============================================================================
