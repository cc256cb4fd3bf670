--------------------------- MODULE Accounts_proofs ---------------------------
(***************************************************************************)
(* What holds of Accounts for any number of registrations, ids, addresses  *)
(* and attempts.  A request that has still to insert has no row and no     *)
(* answer; its address and number are compared with the rows in the very   *)
(* step that inserts.                                                      *)
(***************************************************************************)
EXTENDS Accounts, TLAPS

\* what a request's label tells of its answer, its address and its row
Underway(r) ==
    /\ req[r].pc # "done" => req[r].answer = 0 /\ r \notin failed
    /\ req[r].pc = "done" => req[r].answer # 0
    /\ req[r].pc \in {"register", "create", "caches"} => req[r].email \in Email
    /\ req[r].pc = "caches" => r \in Rows \cup removed

Matches(r) ==
    /\ req[r].answer = 201 => r \in Rows \cup removed
    /\ r \in Rows \cup removed => req[r].answer = 201 \/ req[r].pc = "caches" \/ r \in failed

Identified == \A r \in Rows : row[r].id \in Id /\ row[r].email \in Email

AccountsInv ==
    /\ TypeOK /\ IdentitiesAreDistinct /\ Identified
    /\ \A r \in Request : Underway(r) /\ Matches(r)

LEMMA InitAccounts == Init => AccountsInv
BY AttemptsAssumption
   DEF Init, AccountsInv, TypeOK, IdentitiesAreDistinct, Identified, Underway, Matches, Rows, NoRow, Fresh

RowRecord == [id : Id \cup {None}, email : Email \cup {None}, phone : Phone \cup {None}]
ReqRecord ==
    [pc : {"new", "register", "create", "caches", "done"}, email : Email \cup {None},
     phone : Phone \cup {None}, attempt : 0 .. Attempts, answer : {0, 201, 409, 500}]

LEMMA ReqType == AccountsInv => req \in [Request -> ReqRecord] /\ 0 \in 0 .. Attempts /\ 0 < Attempts
BY AttemptsAssumption DEF AccountsInv, TypeOK, ReqRecord

\* A request leaves the loop.
LEMMA Leaves ==
    ASSUME AccountsInv, NEW r \in Request,
           NEW label \in {"caches", "done"}, NEW status \in {0, 201, 409, 500},
           \/ label = "done" /\ Finish(r, status)
           \/ label = "caches" /\ status = req[r].answer /\ Leave(r, label)
    PROVE  /\ req' \in [Request -> ReqRecord] /\ \A q \in Request \ {r} : req'[q] = req[q]
           /\ req'[r].pc = label /\ req'[r].attempt = 0 /\ req'[r].answer = status
           /\ req'[r].email = req[r].email /\ req'[r].phone = req[r].phone
BY ReqType DEF Finish, Leave, ReqRecord

\* A step of one request that leaves the rows alone.
LEMMA RequestStep ==
    ASSUME AccountsInv, NEW r \in Request, UNCHANGED <<row, removed>>,
           failed' = failed \/ failed' = failed \cup {r},
           req' \in [Request -> ReqRecord], \A q \in Request \ {r} : req'[q] = req[q],
           req'[r].attempt < Attempts, Underway(r)', Matches(r)'
    PROVE  AccountsInv'
<1>1. Rows' = Rows
  BY DEF Rows
<1>2. TypeOK'
  <2>1. failed' \subseteq Request /\ \A q \in Request : req'[q].attempt < Attempts
    BY DEF AccountsInv, TypeOK
  <2> QED  BY <2>1 DEF AccountsInv, TypeOK, ReqRecord
<1>3. IdentitiesAreDistinct' /\ Identified'
  BY <1>1 DEF AccountsInv, IdentitiesAreDistinct, Identified
<1>4. ASSUME NEW q \in Request \ {r}  PROVE Underway(q)' /\ Matches(q)'
  BY <1>1, <1>4 DEF AccountsInv, Underway, Matches
<1> QED  BY <1>2, <1>3, <1>4 DEF AccountsInv

LEMMA LookPreserves ==
    ASSUME AccountsInv, NEW r \in Request, NEW handler \in {"register", "create"},
           NEW e \in Email, NEW p \in Phone \cup {None}, NEW conflict \in BOOLEAN,
           Look(r, handler, e, p, conflict)
    PROVE  AccountsInv'
<1> DEFINE new == [pc |-> IF conflict THEN "done" ELSE handler, email |-> e, phone |-> p,
                   attempt |-> 0, answer |-> IF conflict THEN 409 ELSE 0]
<1>1. req[r] = Fresh /\ req' = [req EXCEPT ![r] = new] /\ UNCHANGED <<row, removed, failed>>
  BY DEF Look
<1>2. new \in ReqRecord
  BY ReqType DEF ReqRecord
<1>3. req' \in [Request -> ReqRecord] /\ req'[r] = new /\ \A q \in Request \ {r} : req'[q] = req[q]
  BY <1>1, <1>2, ReqType
<1>4. r \notin Rows \cup removed /\ r \notin failed
  BY <1>1 DEF AccountsInv, Underway, Matches, Fresh
<1>5. Rows' = Rows
  BY <1>1 DEF Rows
<1>6. Underway(r)' /\ Matches(r)' /\ req'[r].attempt < Attempts
  BY <1>1, <1>3, <1>4, <1>5, ReqType DEF Underway, Matches
<1> QED  BY <1>1, <1>3, <1>6, RequestStep

\* A request that is answered, or fails, without a row of its own.
LEMMA FinishPreserves ==
    ASSUME AccountsInv, NEW r \in Request, NEW status \in {201, 409, 500}, Finish(r, status),
           UNCHANGED <<row, removed>>,
           \/ failed' = failed /\ status # 201 /\ r \notin Rows \cup removed
           \/ failed' = failed /\ status = 201 /\ r \in Rows \cup removed
           \/ failed' = failed \cup {r} /\ status = 500
    PROVE  AccountsInv'
<1>1. /\ req' \in [Request -> ReqRecord] /\ \A q \in Request \ {r} : req'[q] = req[q]
      /\ req'[r].pc = "done" /\ req'[r].attempt = 0 /\ req'[r].answer = status
  BY Leaves
<1>2. Rows' = Rows
  BY DEF Rows
<1>3. Underway(r)' /\ Matches(r)'
  BY <1>1, <1>2 DEF Underway, Matches
<1> QED  BY <1>1, <1>3, ReqType, RequestStep

LEMMA AnswersPreserve ==
    ASSUME AccountsInv, NEW r \in Request,
           LookRejects(r) \/ OtherConflict(r) \/ DropCaches(r) \/ CallRejects(r)
    PROVE  AccountsInv'
<1>1. Underway(r) /\ Matches(r)
  BY DEF AccountsInv
<1>2. CASE LookRejects(r) \/ CallRejects(r)
  BY <1>2, FinishPreserves DEF LookRejects, CallRejects, Fail
<1>3. CASE OtherConflict(r)
  BY <1>1, <1>3, FinishPreserves DEF OtherConflict, Inserting, Underway, Matches
<1>4. CASE DropCaches(r)
  BY <1>1, <1>4, FinishPreserves DEF DropCaches, Underway
<1> QED  BY <1>2, <1>3, <1>4

LEMMA IdConflictPreserves ==
    ASSUME AccountsInv, NEW r \in Request, NEW id \in Id, IdConflict(r, id)
    PROVE  AccountsInv'
<1>1. /\ Underway(r) /\ Matches(r) /\ req[r].pc \in {"register", "create"}
      /\ req[r].attempt < Attempts /\ Attempts \in Nat /\ req[r].attempt \in Nat
      /\ UNCHANGED <<row, removed, failed>>
  BY AttemptsAssumption DEF AccountsInv, TypeOK, IdConflict, Inserting
<1>2. r \notin Rows \cup removed
  BY <1>1 DEF Underway, Matches
<1>3. CASE Finish(r, 500)
  BY <1>1, <1>2, <1>3, FinishPreserves
<1>4. CASE req[r].attempt < Attempts - 1 /\ Retry(r)
  <2>1. /\ req' \in [Request -> ReqRecord] /\ \A q \in Request \ {r} : req'[q] = req[q]
        /\ req'[r].pc = req[r].pc /\ req'[r].answer = req[r].answer /\ req'[r].email = req[r].email
        /\ req'[r].attempt = req[r].attempt + 1
    BY <1>1, <1>4, ReqType DEF Retry, ReqRecord
  <2>2. Rows' = Rows
    BY <1>1 DEF Rows
  <2>3. Underway(r)' /\ Matches(r)'
    BY <1>1, <1>2, <2>1, <2>2 DEF Underway, Matches
  <2> QED  BY <1>1, <1>4, <2>1, <2>3, RequestStep
<1> QED  BY <1>3, <1>4 DEF IdConflict

\* What the two steps that insert have in common.
LEMMA Inserts ==
    ASSUME AccountsInv, NEW r \in Request, NEW id \in Id, Insert(r, id) \/ ReplyLost(r, id)
    PROVE  /\ Inserting(r) /\ Free(r, id) /\ row' = [row EXCEPT ![r] = New(r, id)] /\ removed' = removed
           /\ req' \in [Request -> ReqRecord] /\ \A q \in Request \ {r} : req'[q] = req[q]
           /\ req'[r].attempt = 0 /\ req'[r].email = req[r].email /\ req'[r].phone = req[r].phone
           /\ \/ failed' = failed /\ req'[r].pc = "caches" /\ req'[r].answer = 0
              \/ failed' = failed /\ req'[r].pc = "done" /\ req'[r].answer = 201
              \/ failed' = failed \cup {r} /\ req'[r].pc = "done" /\ req'[r].answer = 500
<1>1. Inserting(r) /\ Free(r, id) /\ row' = [row EXCEPT ![r] = New(r, id)] /\ removed' = removed
  BY DEF Insert, ReplyLost
<1>2. req[r].answer = 0
  BY <1>1 DEF AccountsInv, Underway, Inserting
<1>3. CASE Insert(r, id) /\ Leave(r, "caches")
  BY <1>1, <1>2, <1>3, Leaves DEF Insert
<1>4. CASE Insert(r, id) /\ Finish(r, 201)
  BY <1>1, <1>4, Leaves DEF Insert
<1>5. CASE ReplyLost(r, id)
  BY <1>1, <1>5, Leaves DEF ReplyLost, Fail
<1> QED  BY <1>3, <1>4, <1>5 DEF Insert, Inserted

LEMMA InsertPreserves ==
    ASSUME AccountsInv, NEW r \in Request, NEW id \in Id, Insert(r, id) \/ ReplyLost(r, id)
    PROVE  AccountsInv'
<1>1. /\ row' = [row EXCEPT ![r] = New(r, id)] /\ id # None
      /\ req[r].email \in Email /\ req[r].email # None /\ req[r].phone \in Phone \cup {None}
  BY Inserts, NoneAssumption DEF AccountsInv, Underway, TypeOK, Inserting
<1>2. /\ row' \in [Request -> RowRecord] /\ row'[r] = New(r, id)
      /\ \A x \in Request \ {r} : row'[x] = row[x]
  BY <1>1 DEF AccountsInv, TypeOK, New, RowRecord
<1>3. Rows' = Rows \cup {r}
  BY <1>1, <1>2 DEF Rows, NoRow, New
<1>4. r \notin Rows \cup removed
  BY Inserts DEF AccountsInv, Underway, Matches, Inserting
<1>5. TypeOK'
  <2>1. failed' \subseteq Request
    BY Inserts DEF AccountsInv, TypeOK
  <2>2. ASSUME NEW q \in Request  PROVE req'[q].attempt < Attempts
    <3>1. req[q].attempt < Attempts /\ 0 < Attempts
      BY ReqType DEF AccountsInv, TypeOK
    <3> QED  BY <3>1, Inserts
  <2> QED  BY <1>2, <2>1, <2>2, Inserts DEF AccountsInv, TypeOK, ReqRecord, RowRecord
<1>6. \A x \in Rows : /\ row[x].id # id /\ row[x].email # req[r].email
                      /\ req[r].phone # None => row[x].phone # req[r].phone
  BY <1>1, Inserts DEF Free, Taken
<1>7. IdentitiesAreDistinct'
  <2> SUFFICES ASSUME NEW x \in Rows', NEW y \in Rows', x # y
               PROVE  /\ row'[x].id # row'[y].id /\ row'[x].email # row'[y].email
                      /\ row'[x].phone # None => row'[x].phone # row'[y].phone
    BY DEF IdentitiesAreDistinct
  <2> USE DEF New
  <2>1. CASE x = r
    <3>1. y \in Rows /\ row'[y] = row[y] /\ y \in Request
      BY <1>2, <1>3, <2>1 DEF Rows
    <3> QED  BY <1>2, <1>6, <2>1, <3>1
  <2>2. CASE y = r
    <3>1. x \in Rows /\ row'[x] = row[x] /\ x \in Request
      BY <1>2, <1>3, <2>2 DEF Rows
    <3> QED  BY <1>2, <1>6, <2>2, <3>1
  <2>3. CASE x # r /\ y # r
    BY <1>2, <1>3, <2>3 DEF AccountsInv, IdentitiesAreDistinct, Rows
  <2> QED  BY <2>1, <2>2, <2>3
<1>8. Identified'
  BY <1>1, <1>2, <1>3 DEF AccountsInv, Identified, New, Rows
<1>9. Underway(r)' /\ Matches(r)'
  BY <1>1, <1>3, Inserts DEF Underway, Matches, AccountsInv, Inserting
<1>10. ASSUME NEW q \in Request \ {r}  PROVE Underway(q)' /\ Matches(q)'
  <2>1. /\ req'[q] = req[q] /\ removed' = removed
        /\ q \in Rows' <=> q \in Rows
        /\ q \in failed' <=> q \in failed
    BY <1>3, <1>10, Inserts
  <2> QED  BY <2>1 DEF AccountsInv, Underway, Matches
<1> QED  BY <1>5, <1>7, <1>8, <1>9, <1>10 DEF AccountsInv

LEMMA RemovePreserves ==
    ASSUME AccountsInv, NEW x \in Request, Remove(x)
    PROVE  AccountsInv'
<1>1. /\ Rows' = Rows \ {x} /\ x \in Rows /\ removed' = removed \cup {x}
      /\ \A y \in Rows' : row'[y] = row[y]
  BY DEF Remove, Rows, AccountsInv, TypeOK
<1>2. TypeOK'
  BY DEF Remove, AccountsInv, TypeOK, NoRow
<1>3. IdentitiesAreDistinct' /\ Identified'
  BY <1>1 DEF AccountsInv, IdentitiesAreDistinct, Identified
<1>4. \A q \in Request : Underway(q)' /\ Matches(q)'
  BY <1>1 DEF Remove, AccountsInv, Underway, Matches
<1> QED  BY <1>2, <1>3, <1>4 DEF AccountsInv

LEMMA NextAccounts == AccountsInv /\ [Next]_vars => AccountsInv'
<1> SUFFICES ASSUME AccountsInv, [Next]_vars PROVE AccountsInv'
  OBVIOUS
<1>1. ASSUME NEW r \in Request, NEW e \in Email,
             \/ \E p \in Phone : Register(r, e, p)
             \/ \E p \in Phone \cup {None} : CreateUser(r, e, p)
      PROVE  AccountsInv'
  <2>1. \A field, v : Taken(field, v) \in BOOLEAN
    BY DEF Taken
  <2> QED  BY <1>1, <2>1, LookPreserves DEF Register, CreateUser
<1>2. ASSUME NEW r \in Request, Creating(r)  PROVE AccountsInv'
  BY <1>2, InsertPreserves, IdConflictPreserves, AnswersPreserve DEF Creating
<1>3. ASSUME NEW r \in Request, LookRejects(r) \/ Remove(r)  PROVE AccountsInv'
  BY <1>3, RemovePreserves, AnswersPreserve
<1>4. CASE UNCHANGED vars
  BY <1>4 DEF vars, AccountsInv, TypeOK, IdentitiesAreDistinct, Identified, Underway, Matches, Rows
<1> QED  BY <1>1, <1>2, <1>3, <1>4 DEF Next

LEMMA AccountsInvariant == Spec => []AccountsInv
BY InitAccounts, NextAccounts, PTL DEF Spec

\* TypeOK of the accounts: no request draws more ids than the loop allows.
THEOREM AccountsTypeOK == Spec => []TypeOK
BY AccountsInvariant, PTL DEF AccountsInv

\* No two accounts share an id, an address or a number, however many requests
\* have looked before the first of them inserts.
THEOREM IdentitiesStayDistinct == Spec => []IdentitiesAreDistinct
BY AccountsInvariant, PTL DEF AccountsInv

\* Every request answered 201 has, or had, a row, though ids are drawn twice;
\* and one that was refused, or gave up, has none, unless a call rejected.
THEOREM AnswersStayTrue == Spec => []AnswersMatchRows
<1>1. AccountsInv => AnswersMatchRows
  BY DEF AccountsInv, Matches, AnswersMatchRows
<1> QED  BY <1>1, AccountsInvariant, PTL

-----------------------------------------------------------------------------
(***************************************************************************)
(* Accounts implements Registry.  A request is decided by Look when there  *)
(* is a conflict, by Insert or ReplyLost, by a last IdConflict or          *)
(* OtherConflict, or by a call that rejects before there is a row; the     *)
(* rows it is compared with are the accounts open at that instant.         *)
(***************************************************************************)
Answers ==
    [r \in Request |-> IF req[r].answer = 0 /\ req[r].pc # "caches" THEN Registry!Undecided
                       ELSE [status |-> req[r].answer, email |-> req[r].email,
                             phone |-> req[r].phone]]

Seen == <<row, Answers, failed>>

LEMMA SameRows ==
    /\ Rows = Registry!Opened /\ NoRow = Registry!NoAccount
    /\ \A field, v : Taken(field, v) <=> Registry!Claimed(field, v)
BY DEF Rows, NoRow, Taken, Registry!Opened, Registry!NoAccount, Registry!Claimed

\* Only the answer of the request that moves changes.
LEMMA AnswerOf ==
    ASSUME AccountsInv, NEW r \in Request, \A q \in Request \ {r} : req'[q] = req[q]
    PROVE  /\ Answers' = [Answers EXCEPT ![r] = Answers'[r]]
           /\ req'[r].answer = 0 /\ req'[r].pc # "caches" => Answers'[r] = Registry!Undecided
           /\ req'[r].answer # 0 \/ req'[r].pc = "caches" =>
                Answers'[r] = [status |-> req'[r].answer, email |-> req'[r].email,
                               phone |-> req'[r].phone]
<1>1. /\ Answers = [q \in Request |-> Answers[q]] /\ Answers' = [q \in Request |-> Answers'[q]]
      /\ \A q \in Request \ {r} : Answers'[q] = Answers[q]
  BY DEF Answers
<1>2. Answers' = [Answers EXCEPT ![r] = Answers'[r]]
  <2> HIDE DEF Answers
  <2> QED  BY <1>1
<1> QED  BY <1>2 DEF Answers

LEMMA UndecidedYet ==
    ASSUME AccountsInv, NEW r \in Request, req[r].pc \in {"new", "register", "create"}
    PROVE  Answers[r] = Registry!Undecided /\ req[r].answer = 0
BY DEF AccountsInv, Underway, Answers

\* A request that decides with these values.
LEMMA Decides ==
    ASSUME AccountsInv, NEW r \in Request, req[r].pc \in {"new", "register", "create"},
           \A q \in Request \ {r} : req'[q] = req[q], NEW status, NEW e, NEW p,
           req'[r].answer = status, req'[r].email = e, req'[r].phone = p,
           status # 0 \/ req'[r].pc = "caches"
    PROVE  Registry!Decide(r, status, e, p)
<1> DEFINE x == [status |-> status, email |-> e, phone |-> p]
<1>1. Answers[r] = Registry!Undecided
  BY UndecidedYet
<1>2. Answers' = [Answers EXCEPT ![r] = Answers'[r]] /\ Answers'[r] = x
  BY AnswerOf
<1> HIDE DEF Answers
<1>3. Answers' = [Answers EXCEPT ![r] = x]
  BY <1>2
<1> QED  BY <1>1, <1>3 DEF Registry!Decide, Registry!Undecided, Answers

\* The step of Registry that a refusal is.
LEMMA RefusalMaps ==
    ASSUME AccountsInv, NEW r \in Request, req[r].pc \in {"new", "register", "create"},
           NEW status \in {409, 500}, NEW e \in Email, NEW p \in Phone \cup {None},
           \A q \in Request \ {r} : req'[q] = req[q],
           req'[r].answer = status, req'[r].email = e, req'[r].phone = p,
           UNCHANGED <<row, failed>>,
           \/ Taken("email", e) \/ Taken("phone", p)
           \/ status = 500 /\ \E id \in Id : Taken("id", id)
    PROVE  Registry!RegistryNext
<1>1. Registry!Decide(r, status, e, p)
  BY Decides
<1>2. \/ Registry!Claimed("email", e) \/ Registry!Claimed("phone", p)
      \/ status = 500 /\ \E id \in Id : Registry!Claimed("id", id)
  BY SameRows
<1>3. Registry!Refuse(r, status, e, p)
  BY <1>1, <1>2 DEF Registry!Refuse
<1> QED  BY <1>3 DEF Registry!RegistryNext

LEMMA LookMaps ==
    ASSUME AccountsInv, NEW r \in Request, NEW handler \in {"register", "create"},
           NEW e \in Email, NEW p \in Phone \cup {None}, NEW conflict \in BOOLEAN,
           Look(r, handler, e, p, conflict), conflict => Taken("email", e) \/ Taken("phone", p)
    PROVE  Registry!RegistryNext \/ UNCHANGED Seen
<1> DEFINE new == [pc |-> IF conflict THEN "done" ELSE handler, email |-> e, phone |-> p,
                   attempt |-> 0, answer |-> IF conflict THEN 409 ELSE 0]
<1>1. req[r].pc = "new" /\ req' = [req EXCEPT ![r] = new] /\ UNCHANGED <<row, removed, failed>>
  BY DEF Look, Fresh
<1>2. req'[r] = new /\ \A q \in Request \ {r} : req'[q] = req[q]
  BY <1>1, ReqType
<1>3. CASE conflict
  BY <1>1, <1>2, <1>3, RefusalMaps
<1>4. CASE ~conflict
  <2>1. req'[r].answer = 0 /\ req'[r].pc # "caches"
    BY <1>2, <1>4
  <2>2. Answers' = [Answers EXCEPT ![r] = Answers[r]]
    BY <1>1, <1>2, <2>1, AnswerOf, UndecidedYet
  <2>3. Answers' = Answers
    BY <2>2 DEF Answers
  <2> QED  BY <1>1, <2>3 DEF Seen
<1> QED  BY <1>3, <1>4

LEMMA InsertMaps ==
    ASSUME AccountsInv, NEW r \in Request, NEW id \in Id, Insert(r, id) \/ ReplyLost(r, id)
    PROVE  Registry!RegistryNext
<1>1. /\ req[r].pc \in {"register", "create"}
      /\ req[r].email \in Email /\ req[r].phone \in Phone \cup {None}
  BY Inserts DEF AccountsInv, Underway, TypeOK, Inserting
<1> PICK e \in Email, p \in Phone \cup {None}, status \in {0, 201, 500} :
        /\ e = req[r].email /\ p = req[r].phone
        /\ req'[r].email = e /\ req'[r].phone = p /\ req'[r].answer = status
        /\ failed' = IF status = 500 THEN failed \cup {r} ELSE failed
  BY <1>1, Inserts
<1>2. Registry!Decide(r, status, e, p)
  <2>1. status # 0 \/ req'[r].pc = "caches"
    BY Inserts
  <2>2. \A q \in Request \ {r} : req'[q] = req[q]
    BY Inserts
  <2> QED  BY <1>1, <2>1, <2>2, Decides
<1>3. ~Registry!Claimed("id", id) /\ ~Registry!Claimed("email", e) /\ ~Registry!Claimed("phone", p)
  BY Inserts, SameRows DEF Free
<1>4. row' = [row EXCEPT ![r] = [id |-> id, email |-> e, phone |-> p]]
  BY Inserts DEF New
<1>5. Registry!Open(r, id, e, p, status)
  BY <1>1, <1>2, <1>3, <1>4 DEF Registry!Open, Registry!Record
<1>6. \E a \in Email, b \in Phone \cup {None} :
        \E i \in Id, s \in {0, 201, 500} : Registry!Open(r, i, a, b, s)
  BY <1>5
<1> QED  BY ONLY <1>6, r \in Request DEF Registry!RegistryNext

LEMMA ConflictMaps ==
    ASSUME AccountsInv, NEW r \in Request, (\E id \in Id : IdConflict(r, id)) \/ OtherConflict(r)
    PROVE  Registry!RegistryNext \/ UNCHANGED Seen
<1>1. /\ req[r].pc \in {"register", "create"} /\ UNCHANGED <<row, removed, failed>>
      /\ req[r].email \in Email /\ req[r].phone \in Phone \cup {None}
  BY DEF IdConflict, OtherConflict, Inserting, AccountsInv, Underway, TypeOK
<1>2. CASE Finish(r, 500)
  <2>1. /\ req'[r].answer = 500 /\ req'[r].email = req[r].email /\ req'[r].phone = req[r].phone
        /\ \A q \in Request \ {r} : req'[q] = req[q]
    BY <1>2, Leaves
  <2> QED  BY <1>1, <2>1, RefusalMaps DEF IdConflict, OtherConflict
<1>3. CASE Retry(r)
  <2>1. /\ req'[r].pc = req[r].pc /\ req'[r].answer = req[r].answer
        /\ \A q \in Request \ {r} : req'[q] = req[q]
    BY <1>3, ReqType DEF Retry, ReqRecord
  <2>2. Answers' = [Answers EXCEPT ![r] = Answers[r]]
    BY <1>1, <2>1, AnswerOf, UndecidedYet
  <2>3. Answers' = Answers
    BY <2>2 DEF Answers
  <2> QED  BY <1>1, <2>3 DEF Seen
<1> QED  BY <1>2, <1>3 DEF IdConflict, OtherConflict

\* A call that rejects before there is a row decides; one that comes after it
\* answers, as DropCaches does.
LEMMA FailureMaps ==
    ASSUME AccountsInv, NEW r \in Request, LookRejects(r) \/ CallRejects(r) \/ DropCaches(r)
    PROVE  Registry!RegistryNext
<1>1. PICK status \in {201, 500} :
        /\ Finish(r, status) /\ failed' = IF status = 500 THEN failed \cup {r} ELSE failed
        /\ req[r].pc # "caches" => status = 500
  BY DEF LookRejects, CallRejects, DropCaches, Fail, Inserting, Fresh
<1>2. /\ req[r].pc \in {"new", "register", "create", "caches"} /\ row' = row
      /\ req[r].email \in Email \cup {None} /\ req[r].phone \in Phone \cup {None}
  BY DEF LookRejects, CallRejects, DropCaches, Inserting, Fresh, AccountsInv, TypeOK
<1>3. /\ req'[r].answer = status /\ req'[r].email = req[r].email /\ req'[r].phone = req[r].phone
      /\ \A q \in Request \ {r} : req'[q] = req[q]
  BY <1>1, Leaves
<1>4. CASE req[r].pc # "caches"
  <2> PICK e \in Email \cup {None}, p \in Phone \cup {None} :
          req'[r].email = e /\ req'[r].phone = p
    BY <1>2, <1>3
  <2>1. status = 500
    BY <1>1, <1>4
  <2>2. Registry!Decide(r, status, e, p)
    BY <1>2, <1>3, <1>4, <2>1, Decides
  <2>3. Registry!Fail(r, e, p)
    BY <1>1, <1>2, <2>1, <2>2 DEF Registry!Fail, Registry!Record
  <2> QED  BY <2>3 DEF Registry!RegistryNext
<1>5. CASE req[r].pc = "caches"
  <2> DEFINE x == [status |-> 0, email |-> req[r].email, phone |-> req[r].phone]
  <2>1. /\ Answers[r] = x /\ req[r].email # None
    BY <1>5, NoneAssumption DEF AccountsInv, Underway, Answers
  <2>2. /\ Answers' = [Answers EXCEPT ![r] = Answers'[r]]
        /\ Answers'[r] = [status |-> status, email |-> req[r].email, phone |-> req[r].phone]
    BY <1>1, <1>3, AnswerOf
  <2> HIDE DEF Answers
  <2>3. [x EXCEPT !.status = status] = [status |-> status, email |-> req[r].email, phone |-> req[r].phone]
    OBVIOUS
  <2>4. Answers' = [Answers EXCEPT ![r].status = status]
    BY <2>1, <2>2, <2>3
  <2>5. Answers[r] # Registry!Undecided /\ Answers[r].status = 0
    BY <2>1 DEF Registry!Undecided
  <2>6. Registry!Answer(r, status)
    BY <1>1, <1>2, <2>4, <2>5 DEF Registry!Answer, Registry!Record, Answers, Registry!Undecided
  <2> QED  BY <1>1, <2>6 DEF Registry!RegistryNext
<1> QED  BY <1>4, <1>5

\* Every step of Accounts is one step of Registry or none: the look, the hash
\* and the draws of a request are seen by nobody, and a call that rejects is the
\* only thing that keeps a request from an answer that is true of its account.
THEOREM CreationIsAtomic == Spec => ImplementsRegistry
<1>1. Init => Registry!RegistryInit
  BY DEF Init, Fresh, NoRow, Registry!RegistryInit, Registry!NoAccount, Registry!Undecided
<1>2. AccountsInv /\ [Next]_vars => [Registry!RegistryNext]_Seen
  <2> SUFFICES ASSUME AccountsInv, [Next]_vars
               PROVE  Registry!RegistryNext \/ UNCHANGED Seen
    OBVIOUS
  <2>1. CASE UNCHANGED vars
    BY <2>1 DEF vars, Answers, Seen
  <2>2. ASSUME NEW r \in Request, NEW e \in Email,
               \/ \E p \in Phone : Register(r, e, p)
               \/ \E p \in Phone \cup {None} : CreateUser(r, e, p)
        PROVE  Registry!RegistryNext \/ UNCHANGED Seen
    <3>1. \A field, v : Taken(field, v) \in BOOLEAN
      BY DEF Taken
    <3> QED  BY <2>2, <3>1, LookMaps DEF Register, CreateUser
  <2>3. ASSUME NEW r \in Request, Remove(r)  PROVE Registry!RegistryNext
    <3>1. Answers' = Answers
      BY <2>3 DEF Remove, Answers
    <3>2. Registry!Close(r)
      BY <2>3, <3>1, SameRows DEF Remove, Registry!Close, Answers, Registry!Undecided
    <3> QED  BY <3>2 DEF Registry!RegistryNext
  <2>4. ASSUME NEW r \in Request, Creating(r)  PROVE Registry!RegistryNext \/ UNCHANGED Seen
    BY <2>4, InsertMaps, ConflictMaps, FailureMaps DEF Creating
  <2> QED  BY <2>1, <2>2, <2>3, <2>4, FailureMaps DEF Next
<1> QED
  BY <1>1, <1>2, AccountsInvariant, PTL
  DEF Spec, ImplementsRegistry, Registry!RegistrySpec, Answers, Seen, Registry!Undecided
=============================================================================
