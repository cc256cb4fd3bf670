------------------------------ MODULE Accounts -------------------------------
(***************************************************************************)
(* Creation of accounts: register and the administrators' createUser look  *)
(* for the address and the number first, hash the password, and insert the *)
(* row with an id drawn at random, again if the id is taken.  The unique   *)
(* indexes of the table decide what the look could not see.                *)
(***************************************************************************)
EXTENDS Naturals

CONSTANTS
    Request,   \* registrations, each made once
    Id,        \* ids that can be drawn, 10^8 of a year in the code
    Email, Phone,
    Attempts,  \* 5
    None

ASSUME AttemptsAssumption == Attempts \in Nat \ {0}
ASSUME NoneAssumption == None \notin Id \cup Email \cup Phone

VARIABLES
    row,     \* users: id, e-mail and phone of the row that a request inserted
    req,     \* the requests
    removed, \* history: requests whose row was deleted later,
    failed   \* and those that a call rejected for a reason of its own

vars == <<row, req, removed, failed>>

NoRow == [id |-> None, email |-> None, phone |-> None]
Fresh == [pc |-> "new", email |-> None, phone |-> None, attempt |-> 0, answer |-> 0]
Rows  == {x \in Request : row[x] # NoRow}

Taken(field, v) == v # None /\ \E x \in Rows : row[x][field] = v

\* a request in the loop goes round again, leaves it, is answered, or fails
Retry(r)          == req' = [req EXCEPT ![r].attempt = @ + 1]
Leave(r, label)   == req' = [req EXCEPT ![r].pc = label, ![r].attempt = 0]
Finish(r, status) == req' = [req EXCEPT ![r].pc = "done", ![r].attempt = 0, ![r].answer = status]
Fail(r)           == Finish(r, 500) /\ failed' = failed \cup {r}

(***************************************************************************)
(* register asks for both, createUser, whose phone is optional, for the    *)
(* address only; the answers of register's two queries are one step.  A    *)
(* request that goes on is labelled by its handler.                        *)
(***************************************************************************)
Look(r, handler, e, p, conflict) ==
    /\ req[r] = Fresh
    /\ req' = [req EXCEPT ![r] = [pc |-> IF conflict THEN "done" ELSE handler, email |-> e,
                                  phone |-> p, attempt |-> 0, answer |-> IF conflict THEN 409 ELSE 0]]
    /\ UNCHANGED <<row, removed, failed>>

Register(r, e, p)   == Look(r, "register", e, p, Taken("email", e) \/ Taken("phone", p))
CreateUser(r, e, p) == Look(r, "create", e, p, Taken("email", e))

\* a query of the look rejects, whatever was asked for
LookRejects(r) ==
    /\ req[r] = Fresh
    /\ Fail(r)
    /\ UNCHANGED <<row, removed>>

(***************************************************************************)
(* createUserWithUniqueId, which both handlers await                       *)
(***************************************************************************)
Inserting(r) == req[r].pc \in {"register", "create"}
New(r, id)   == [id |-> id, email |-> req[r].email, phone |-> req[r].phone]

\* register answers now; createUser awaits invalidateListCaches before
Inserted(r) ==
    IF req[r].pc = "create" THEN Leave(r, "caches") ELSE Finish(r, 201)

\* Mutant: the columns are not unique.
InsertUnconstrained(r, id) ==
    /\ Inserting(r) /\ ~Taken("id", id)
    /\ row' = [row EXCEPT ![r] = New(r, id)]
    /\ Inserted(r)
    /\ UNCHANGED <<removed, failed>>

Free(r, id) == ~Taken("id", id) /\ ~Taken("email", req[r].email) /\ ~Taken("phone", req[r].phone)

Insert(r, id) ==
    /\ Inserting(r) /\ Free(r, id)
    /\ row' = [row EXCEPT ![r] = New(r, id)]
    /\ Inserted(r)
    /\ UNCHANGED <<removed, failed>>

\* the row is there, but the connection is lost before the reply
ReplyLost(r, id) ==
    /\ Inserting(r) /\ Free(r, id)
    /\ row' = [row EXCEPT ![r] = New(r, id)]
    /\ Fail(r)
    /\ UNCHANGED removed

\* Mutant: an id that is taken is written over.
IdConflictOverwrites(r, id) ==
    /\ Inserting(r) /\ Taken("id", id)
    /\ row' = [x \in Request |-> IF row[x].id = id THEN NoRow
                                 ELSE IF x = r THEN New(r, id) ELSE row[x]]
    /\ Inserted(r)
    /\ UNCHANGED <<removed, failed>>

\* Mutant: the attempts are not counted.
IdConflictForever(r, id) ==
    /\ Inserting(r) /\ Taken("id", id)
    /\ req' = [req EXCEPT ![r].attempt = 1 - @]
    /\ UNCHANGED <<row, removed, failed>>

\* Mutant: one attempt more than the loop has.
IdConflictOnceMore(r, id) ==
    /\ Inserting(r) /\ Taken("id", id)
    /\ IF req[r].attempt < Attempts THEN Retry(r) ELSE Finish(r, 500)
    /\ UNCHANGED <<row, removed, failed>>

\* P2002 on the primary key
IdConflict(r, id) ==
    /\ Inserting(r) /\ Taken("id", id)
    /\ IF req[r].attempt < Attempts - 1 THEN Retry(r) ELSE Finish(r, 500)
    /\ UNCHANGED <<row, removed, failed>>

\* Mutant: any P2002 is taken for a row that is there already.
OtherConflictSwallowed(r) ==
    /\ Inserting(r)
    /\ Taken("email", req[r].email) \/ Taken("phone", req[r].phone)
    /\ Finish(r, 201)
    /\ UNCHANGED <<row, removed, failed>>

\* P2002 on another index, which nobody translates
OtherConflict(r) ==
    /\ Inserting(r)
    /\ Taken("email", req[r].email) \/ Taken("phone", req[r].phone)
    /\ Finish(r, 500)
    /\ UNCHANGED <<row, removed, failed>>

\* invalidateListCaches, after createUser's insertion
DropCaches(r) ==
    /\ req[r].pc = "caches"
    /\ Finish(r, 201)
    /\ UNCHANGED <<row, removed, failed>>

\* any other error of the insertion, or of the caches, which nobody catches
CallRejects(r) ==
    /\ Inserting(r) \/ req[r].pc = "caches"
    /\ Fail(r)
    /\ UNCHANGED <<row, removed>>

\* deleteUser, rejectUser
Remove(x) ==
    /\ x \in Rows
    /\ row' = [row EXCEPT ![x] = NoRow]
    /\ removed' = removed \cup {x}
    /\ UNCHANGED <<req, failed>>

Init ==
    /\ row = [r \in Request |-> NoRow]
    /\ req = [r \in Request |-> Fresh]
    /\ removed = {} /\ failed = {}

Creating(r) ==
    \/ \E id \in Id : Insert(r, id) \/ ReplyLost(r, id) \/ IdConflict(r, id)
    \/ OtherConflict(r) \/ DropCaches(r) \/ CallRejects(r)

Next ==
    \E r \in Request :
      \/ \E e \in Email : \/ \E p \in Phone : Register(r, e, p)
                          \/ \E p \in Phone \cup {None} : CreateUser(r, e, p)
      \/ LookRejects(r) \/ Creating(r) \/ Remove(r)

Spec == Init /\ [][Next]_vars

\* A request that has been received is carried on: an awaited call answers or
\* rejects.
FairSpec == Spec /\ \A r \in Request : WF_vars(Creating(r))

-----------------------------------------------------------------------------
(***************************************************************************)
(* Properties                                                              *)
(***************************************************************************)
\* Rows and requests keep their types, and no request draws more ids than the
\* loop allows.
TypeOK ==
    /\ row \in [Request -> [id : Id \cup {None}, email : Email \cup {None},
                            phone : Phone \cup {None}]]
    /\ req \in [Request -> [pc : {"new", "register", "create", "caches", "done"},
                            email : Email \cup {None}, phone : Phone \cup {None},
                            attempt : 0 .. Attempts, answer : {0, 201, 409, 500}]]
    /\ removed \subseteq Request /\ failed \subseteq Request
    /\ \A r \in Request : req[r].attempt < Attempts

\* Two accounts differ in their id, their address and their number, though
\* every request has looked before the others insert.
IdentitiesAreDistinct ==
    \A x, y \in Rows : x # y =>
      /\ row[x].id # row[y].id /\ row[x].email # row[y].email
      /\ row[x].phone # None => row[x].phone # row[y].phone

\* A request that was answered 201 has an account, unless somebody deleted it:
\* an id drawn twice never costs another account its row.  One that was answered
\* otherwise has left none behind, however late it was turned down, except that
\* a call that rejects may leave the account that the request asked for.
AnswersMatchRows ==
    \A r \in Request :
      /\ req[r].answer = 201 => r \in Rows \cup removed
      /\ r \in Rows \cup removed => req[r].answer = 201 \/ req[r].pc = "caches" \/ r \in failed

\* Though a request looks first, hashes, and draws ids until one is free, it
\* takes effect at one instant: an account opens with what was asked, free of
\* every other account's; or nothing changes, and then an account was in its way
\* or a call rejected.
Registry == INSTANCE Registry WITH
    account <- row,
    answer <- [r \in Request |->
                 IF req[r].answer = 0 /\ req[r].pc # "caches"
                   THEN [status |-> 0, email |-> None, phone |-> None]
                   ELSE [status |-> req[r].answer, email |-> req[r].email, phone |-> req[r].phone]]
ImplementsRegistry == Registry!RegistrySpec

\* The retries come to an end: every request is answered.
EveryRequestIsAnswered ==
    \A r \in Request : req[r].pc # "new" ~> req[r].pc = "done"
=============================================================================
