-------------------------------- MODULE Otp ---------------------------------
(***************************************************************************)
(* The one-time passwords that are mailed: password reset, change of       *)
(* e-mail and two-factor by e-mail share the table password_resets.  One   *)
(* account; rows of its addresses only.  A row's purpose is visible to the *)
(* code in two ways: the address of a change is prefixed change_email:     *)
(* with the user's id, and the id of a two-factor row with 2fa-email-.     *)
(***************************************************************************)
EXTENDS Naturals, Sequences, SequencesExt

CONSTANTS
    Request,     \* concurrent requests
    Row,         \* rows that can be created (bound)
    Email,       \* addresses in play
    Home,        \* the account's address at first
    Take,        \* `take: 5` of the candidate queries
    Op,          \* the operations that a run follows
    None

ASSUME RequestAssumption == IsFiniteSet(Request)
ASSUME HomeAssumption == Home \in Email
ASSUME TakeAssumption == Take \in Nat \ {0}
ASSUME NoRowAssumption == None \notin Row \cup Email

VARIABLES
    mail,        \* users.email of the account
    password,    \* users.password: the row whose reset wrote it, None at first
    taken,       \* addresses of other accounts
    row,         \* password_resets
    created,     \* its rows by createdAt, oldest first
    req,         \* requests in flight
    accepted     \* history: how often a row's code was accepted

vars == <<mail, password, taken, row, created, req, accepted>>

Purpose == {"reset", "change", "twofa"}
Blank   == [purpose |-> "none", email |-> None, state |-> "none"]
Idle    == [op |-> "none", pc |-> "idle", email |-> None, row |-> None]

Start(r, o, label, e, x) ==
    /\ o \in Op /\ req[r] = Idle
    /\ req' = [req EXCEPT ![r] = [op |-> o, pc |-> label, email |-> e, row |-> x]]
    /\ UNCHANGED <<mail, password, taken, row, created, accepted>>
Goto(r, label) == req' = [req EXCEPT ![r].pc = label]
End(r)         == req' = [req EXCEPT ![r] = Idle]

\* isUsed: false.  A row that expires keeps it; one that is deleted is gone.
Unmarked == {"unused", "expired"}

\* Mutant: rows that have been used are candidates too.
UnusedOrUsed(purposes, e) ==
    {x \in Row : row[x].purpose \in purposes /\ row[x].email = e
                  /\ row[x].state \in {"unused", "used"}}

\* Rows of an address for the given purposes that are unused, and those that a
\* new request for a code deletes; resetPassword and forgotPassword do not look
\* at the id, so they see the two-factor rows too.
Unused(purposes, e) ==
    {x \in Row : row[x].purpose \in purposes /\ row[x].email = e /\ row[x].state = "unused"}
Superseded(purposes, e) ==
    {x \in Row : row[x].purpose \in purposes /\ row[x].email = e /\ row[x].state \in Unmarked}
Sees(o) == CASE o \in {"forgot", "reset"}   -> {"reset", "twofa"}
             [] o \in {"ask", "change"}     -> {"change"}
             [] OTHER                       -> {"twofa"}

\* findMany ordered by createdAt desc with its `take`
Later(x)  == {created[j] : j \in {j \in DOMAIN created : \E i \in 1 .. j - 1 : created[i] = x}}
Newest(S) == {x \in S : Cardinality(Later(x) \cap S) < Take}
Candidates(o, e) == Newest(Unused(Sees(o), e))

(***************************************************************************)
(* forgotPassword, requestEmailChange, generateAndSendEmailOTP             *)
(***************************************************************************)
Forgot(r)         == Start(r, "forgot", "drop", mail, None)
RequestChange(r, e) == e # mail /\ e \notin taken /\ Start(r, "ask", "drop", e, None)
SendTwoFactor(r)  == Start(r, "send", "mint", mail, None)

Drop(r) ==
    /\ req[r].pc = "drop"
    /\ row' = [x \in Row |-> IF x \in Superseded(Sees(req[r].op), req[r].email)
                               THEN [row[x] EXCEPT !.state = "deleted"] ELSE row[x]]
    /\ Goto(r, "mint")
    /\ UNCHANGED <<mail, password, taken, created, accepted>>

Mint(r, x) ==
    /\ req[r].pc = "mint" /\ row[x].state = "none"
    /\ row' = [row EXCEPT ![x] =
         [purpose |-> CASE req[r].op = "forgot" -> "reset" [] req[r].op = "ask" -> "change"
                        [] OTHER -> "twofa",
          email |-> req[r].email, state |-> "unused"]]
    /\ created' = Append(created, x)
    /\ End(r)
    /\ UNCHANGED <<mail, password, taken, accepted>>

(***************************************************************************)
(* resetPassword, verifyEmailOTP, confirmEmailChange                       *)
(***************************************************************************)
Present(r, o, e, x, label) == x \in Candidates(o, e) /\ Start(r, o, label, e, x)
Reset(r, e, x)         == Present(r, "reset", e, x, "user")
VerifyTwoFactor(r, e, x) == Present(r, "verify", e, x, "mark")
ConfirmChange(r, e, x) == Present(r, "change", e, x, "taken")

\* the account the address belongs to now, this one or another
ReadUser(r) ==
    /\ req[r].pc = "user"
    /\ IF req[r].email \in taken \cup {mail} THEN Goto(r, "mark") ELSE End(r)
    /\ UNCHANGED <<mail, password, taken, row, created, accepted>>

\* Mutant: the row that matched is marked by its id alone.
MarkById(r) ==
    /\ req[r].pc = "mark"
    /\ row' = [row EXCEPT ![req[r].row].state = "used"]
    /\ accepted' = [accepted EXCEPT ![req[r].row] = @ + 1]
    /\ IF req[r].op = "reset" THEN Goto(r, "write") ELSE End(r)
    /\ UNCHANGED <<mail, password, taken, created>>

\* the conditional updateMany: by id and isUsed, whether or not the row has
\* expired since it was found
Mark(r) ==
    /\ req[r].pc = "mark"
    /\ IF row[req[r].row].state \in Unmarked
         THEN /\ row' = [row EXCEPT ![req[r].row].state = "used"]
              /\ accepted' = [accepted EXCEPT ![req[r].row] = @ + 1]
              /\ IF req[r].op = "reset" THEN Goto(r, "write") ELSE End(r)
         ELSE End(r) /\ UNCHANGED <<row, accepted>>
    /\ UNCHANGED <<mail, password, taken, created>>

\* The password is written by address: if the account has another one by now
\* its row is not reached, but perhaps that of another account, whose password
\* is not modelled.  The cutoff set next is in Sessions.
WritePassword(r) ==
    /\ req[r].pc = "write"
    /\ password' = IF mail = req[r].email THEN req[r].row ELSE password
    /\ End(r)
    /\ UNCHANGED <<mail, taken, row, created, accepted>>

CheckTaken(r) ==
    /\ req[r].pc = "taken"
    /\ IF req[r].email \in taken \cup {mail} THEN End(r) ELSE Goto(r, "swap")
    /\ UNCHANGED <<mail, password, taken, row, created, accepted>>

\* Mutant: the two statements of the transaction are independent.
SwapSeparately(r) ==
    /\ req[r].pc = "swap"
    /\ mail' = IF req[r].email \in taken THEN mail ELSE req[r].email
    /\ row' = [row EXCEPT ![req[r].row].state = "used"]
    /\ accepted' = [accepted EXCEPT ![req[r].row] = @ + 1]
    /\ End(r)
    /\ UNCHANGED <<password, taken, created>>

\* Mutant: users.email is not unique.
SwapUnconstrained(r) ==
    /\ req[r].pc = "swap"
    /\ mail' = req[r].email
    /\ row' = [row EXCEPT ![req[r].row].state = "used"]
    /\ accepted' = [accepted EXCEPT ![req[r].row] = @ + 1]
    /\ End(r)
    /\ UNCHANGED <<password, taken, created>>

\* $transaction: the update of users.email fails on its unique constraint, the
\* update of the row on a row that is gone; the row may be used already
Swap(r) ==
    /\ req[r].pc = "swap"
    /\ IF req[r].email \notin taken /\ row[req[r].row].state # "deleted"
         THEN /\ mail' = req[r].email
              /\ row' = [row EXCEPT ![req[r].row].state = "used"]
              /\ accepted' = [accepted EXCEPT ![req[r].row] = @ + 1]
         ELSE UNCHANGED <<mail, row, accepted>>
    /\ End(r)
    /\ UNCHANGED <<password, taken, created>>

(***************************************************************************)
(* Time, other accounts, a handler that stops                              *)
(***************************************************************************)
Expire(x) ==
    /\ row[x].state = "unused"
    /\ row' = [row EXCEPT ![x].state = "expired"]
    /\ UNCHANGED <<mail, password, taken, created, req, accepted>>

\* another account registers with the address or changes to it
OtherTakes(e) ==
    /\ "other" \in Op /\ e # mail /\ e \notin taken
    /\ taken' = taken \cup {e}
    /\ UNCHANGED <<mail, password, row, created, req, accepted>>

\* and is deleted, or moves on
OtherLeaves(e) ==
    /\ e \in taken
    /\ taken' = taken \ {e}
    /\ UNCHANGED <<mail, password, row, created, req, accepted>>

Stop(r) ==
    /\ req[r] # Idle /\ End(r)
    /\ UNCHANGED <<mail, password, taken, row, created, accepted>>

Init ==
    /\ mail = Home /\ password = None /\ taken = {}
    /\ row = [x \in Row |-> Blank] /\ created = <<>>
    /\ req = [r \in Request |-> Idle]
    /\ accepted = [x \in Row |-> 0]

Answer(r, x) ==
    \/ Mint(r, x)
    \/ \E e \in Email : Reset(r, e, x) \/ VerifyTwoFactor(r, e, x) \/ ConfirmChange(r, e, x)

Handle(r) ==
    \/ Forgot(r) \/ SendTwoFactor(r) \/ (\E e \in Email : RequestChange(r, e)) \/ Drop(r)
    \/ (\E x \in Row : Answer(r, x))
    \/ ReadUser(r) \/ Mark(r) \/ WritePassword(r) \/ CheckTaken(r) \/ Swap(r) \/ Stop(r)

Next ==
    \/ \E r \in Request : Handle(r)
    \/ (\E x \in Row : Expire(x)) \/ (\E e \in Email : OtherTakes(e) \/ OtherLeaves(e))

Spec == Init /\ [][Next]_vars

-----------------------------------------------------------------------------
(***************************************************************************)
(* Properties                                                              *)
(***************************************************************************)
\* Rows and requests keep their types, every row is in `created` once, a request
\* that checks a row presents one that has been created, and the password in
\* force was written with a code that was accepted exactly once.
TypeOK ==
    /\ mail \in Email /\ taken \subseteq Email
    /\ row \in [Row -> [purpose : Purpose \cup {"none"}, email : Email \cup {None},
                        state : {"none", "unused", "used", "expired", "deleted"}]]
    /\ req \in [Request -> [op : Op \cup {"none"},
                            pc : {"idle", "drop", "mint", "user", "mark", "write", "taken", "swap"},
                            email : Email \cup {None}, row : Row \cup {None}]]
    /\ accepted \in [Row -> Nat]
    /\ ToSet(created) = {x \in Row : row[x].state # "none"} /\ IsInjective(created)
    /\ password \in Row \cup {None}
    /\ password # None => accepted[password] = 1
    /\ \A r \in Request : req[r].pc \in {"user", "mark", "write", "taken", "swap"} =>
         req[r].row \in ToSet(created)

ForChange   == {x \in Row : row[x].purpose = "change"}
LiveRows    == {x \in Row : x \notin ForChange /\ row[x].state = "unused"}
LapsedRows  == {x \in Row : /\ x \notin ForChange /\ row[x].state = "expired"
                            /\ \E r \in Request : req[r].pc \in {"user", "mark"} /\ req[r].row = x}
Acceptances == [x \in Row |-> IF x \in ForChange THEN 0 ELSE accepted[x]]
Tickets == INSTANCE OneTime WITH
    Ticket <- Row, live <- LiveRows, lapsed <- LapsedRows, uses <- Acceptances

\* A code for a reset or a login is accepted once: two resets, two
\* verifications, or one of each, that match the same row are decided by the
\* conditional update, whatever forgotPassword deletes meanwhile.  The update
\* does not look at expiresAt, so a code may be accepted after its expiry; but
\* only for a request that had found it before.
CodesAreOneTime == Tickets!OneTimeSpec

\* The account never ends up with an address of another account, however the
\* look at users.email and the transaction are apart.
EmailStaysUnique == mail \notin taken

\* A code for a change of e-mail is used up only together with the change.
ChangeCodeBuysTheChange ==
    [][\A x \in ForChange : accepted'[x] # accepted[x]
         => mail' = row[x].email]_vars

\* A code for a change of e-mail may be accepted more than once, for its row is
\* marked whatever its state; but no more often than there are requests that
\* can overlap, however many present it one after the other.
RepeatsOverlap ==
    \A x \in ForChange : accepted[x] <= Cardinality(Request)
=============================================================================
