----------------------------- MODULE Otp_proofs ------------------------------
(***************************************************************************)
(* What holds of Otp for any number of requests, rows and addresses, and   *)
(* any `take`.  A row keeps its purpose and its address from its creation  *)
(* on, so that the row a request found is still of the kind it looked for  *)
(* when it is marked; and a row that is no longer unused stays so, as one  *)
(* that is marked or deleted stays that.                                   *)
(***************************************************************************)
EXTENDS Otp, FiniteSetTheorems, TLAPS

USE DEF Unmarked

RowRecord == [purpose : Purpose \cup {"none"}, email : Email \cup {None},
              state : {"none", "unused", "used", "expired", "deleted"}]
Pc        == {"idle", "drop", "mint", "user", "mark", "write", "taken", "swap"}
ReqRecord == [op : Op \cup {"none"}, pc : Pc, email : Email \cup {None}, row : Row \cup {None}]

Created(x) == row[x].state # "none"

\* a row in such a state was never accepted
Unspent == {"none"} \cup Unmarked

USE DEF Unspent

\* what a request's label tells of the row it presents
Presented(r) ==
    /\ req[r].pc \in {"user", "mark", "write", "taken", "swap"} =>
         req[r].row \in Row /\ Created(req[r].row)
    /\ req[r].pc \in {"user", "mark", "write"} => row[req[r].row].purpose # "change"
    /\ req[r].pc \in {"taken", "swap"} =>
         /\ req[r].op = "change" /\ req[r].email \in Email
         /\ row[req[r].row].email = req[r].email /\ row[req[r].row].purpose = "change"
    /\ req[r].pc = "write" => row[req[r].row].state \notin Unspent
                              /\ accepted[req[r].row] = 1

Counted == \A x \in Row : row[x].state \in Unspent => accepted[x] = 0

InForce ==
    password # None =>
      /\ row[password].purpose # "change" /\ row[password].state \notin Unspent
      /\ accepted[password] = 1

Types ==
    /\ mail \in Email /\ taken \subseteq Email /\ password \in Row \cup {None}
    /\ row \in [Row -> RowRecord] /\ req \in [Request -> ReqRecord]
    /\ accepted \in [Row -> Nat]

Ordered ==
    /\ created \in Seq(Row) /\ IsInjective(created)
    /\ ToSet(created) = {x \in Row : Created(x)}

OtpInv == Types /\ Ordered /\ Counted /\ InForce /\ EmailStaysUnique
          /\ \A r \in Request : Presented(r)

LEMMA IdleRecord == Idle \in ReqRecord /\ Idle.pc = "idle"
BY DEF Idle, ReqRecord, Pc

LEMMA InitOtp == Init => OtpInv
<1> SUFFICES ASSUME Init PROVE OtpInv
  OBVIOUS
<1>1. Blank \in RowRecord /\ Blank.state = "none"
  BY DEF Blank, RowRecord
<1>2. row \in [Row -> RowRecord] /\ req \in [Request -> ReqRecord]
  BY <1>1, IdleRecord DEF Init
<1>3. Types
  BY <1>2, HomeAssumption DEF Init, Types
<1>4. Ordered
  BY <1>1 DEF Init, Ordered, Created, IsInjective, ToSet
<1>5. \A r \in Request : Presented(r)
  BY IdleRecord DEF Init, Presented
<1> QED  BY <1>3, <1>4, <1>5 DEF Init, OtpInv, Counted, InForce, EmailStaysUnique

LEMMA Moves ==
    ASSUME OtpInv, NEW r \in Request,
           End(r) \/ (\E l \in Pc : Goto(r, l)) \/ (\E x \in ReqRecord : req' = [req EXCEPT ![r] = x])
    PROVE  req' \in [Request -> ReqRecord] /\ \A q \in Request \ {r} : req'[q] = req[q]
<1>1. req \in [Request -> ReqRecord]
  BY DEF OtpInv, Types
<1>2. CASE \E l \in Pc : Goto(r, l)
  BY <1>1, <1>2 DEF Goto, ReqRecord
<1> QED  BY <1>1, <1>2, IdleRecord DEF End

LEMMA Ends ==
    ASSUME OtpInv, NEW r \in Request, End(r)
    PROVE  req'[r].pc = "idle"
BY IdleRecord DEF OtpInv, Types, End

LEMMA Goes ==
    ASSUME OtpInv, NEW r \in Request, NEW l \in Pc, Goto(r, l)
    PROVE  /\ req'[r].op = req[r].op /\ req'[r].pc = l /\ req'[r].email = req[r].email
           /\ req'[r].row = req[r].row
BY DEF OtpInv, Types, Goto, ReqRecord

\* Requests of which nothing changes in what they rely on.
LEMMA StepInMemory ==
    ASSUME OtpInv, NEW r \in Request, UNCHANGED <<mail, password, taken, row, created, accepted>>,
           req' \in [Request -> ReqRecord], \A q \in Request \ {r} : req'[q] = req[q],
           Presented(r)'
    PROVE  OtpInv'
<1>1. \A q \in Request : Presented(q)'
  BY DEF OtpInv, Presented, Created
<1> QED  BY <1>1 DEF OtpInv, Types, Ordered, Counted, InForce, EmailStaysUnique, Created

LEMMA AnsweredInMemory ==
    ASSUME OtpInv, NEW r \in Request, End(r),
           UNCHANGED <<mail, password, taken, row, created, accepted>>
    PROVE  OtpInv'
<1>1. Presented(r)'
  BY Ends DEF Presented
<1> QED  BY <1>1, Moves, StepInMemory

LEMMA StartsPreserve ==
    ASSUME OtpInv, NEW r \in Request,
           \/ Forgot(r) \/ SendTwoFactor(r) \/ (\E e \in Email : RequestChange(r, e))
           \/ \E x \in Row, e \in Email : Reset(r, e, x) \/ VerifyTwoFactor(r, e, x) \/ ConfirmChange(r, e, x)
    PROVE  OtpInv'
<1>1. ASSUME NEW o, NEW l \in Pc, NEW e \in Email, NEW x \in Row \cup {None}, Start(r, o, l, e, x),
             l \in {"user", "mark", "taken"} => x \in Row /\ Created(x),
             l \in {"user", "mark"} => row[x].purpose # "change",
             l = "taken" => o = "change" /\ row[x].email = e /\ row[x].purpose = "change",
             l \notin {"write", "swap"}
      PROVE  OtpInv'
  <2> DEFINE y == [op |-> o, pc |-> l, email |-> e, row |-> x]
  <2>1. y \in ReqRecord /\ req' = [req EXCEPT ![r] = y]
    BY <1>1 DEF Start, ReqRecord
  <2>2. req' \in [Request -> ReqRecord] /\ req'[r] = y /\ \A q \in Request \ {r} : req'[q] = req[q]
    BY <2>1, Moves DEF OtpInv, Types
  <2>3. UNCHANGED <<mail, password, taken, row, created, accepted>>
    BY <1>1 DEF Start
  <2>4. Presented(r)'
    BY <1>1, <2>2, <2>3 DEF Presented, Created
  <2> QED  BY <2>2, <2>3, <2>4, StepInMemory
<1>2. mail \in Email
  BY DEF OtpInv, Types
<1>3. CASE Forgot(r) \/ SendTwoFactor(r) \/ (\E e \in Email : RequestChange(r, e))
  BY <1>1, <1>2, <1>3 DEF Forgot, SendTwoFactor, RequestChange, Pc
<1>4. ASSUME NEW x \in Row, NEW e \in Email,
             Reset(r, e, x) \/ VerifyTwoFactor(r, e, x) \/ ConfirmChange(r, e, x)
      PROVE  OtpInv'
  <2>1. \A o : x \in Candidates(o, e) =>
          /\ Created(x) /\ row[x].email = e /\ row[x].purpose \in Sees(o)
    BY DEF Candidates, Newest, Unused, Created
  <2>2. CASE Reset(r, e, x)
    BY <1>1, <2>1, <2>2 DEF Reset, Present, Sees, Pc
  <2>3. CASE VerifyTwoFactor(r, e, x)
    BY <1>1, <2>1, <2>3 DEF VerifyTwoFactor, Present, Sees, Pc
  <2>4. CASE ConfirmChange(r, e, x)
    BY <1>1, <2>1, <2>4 DEF ConfirmChange, Present, Sees, Pc
  <2> QED  BY <1>4, <2>2, <2>3, <2>4
<1> QED  BY <1>3, <1>4

LEMMA ReadsPreserve ==
    ASSUME OtpInv, NEW r \in Request, ReadUser(r) \/ CheckTaken(r) \/ Stop(r)
    PROVE  OtpInv'
<1>1. CASE End(r) /\ UNCHANGED <<mail, password, taken, row, created, accepted>>
  BY <1>1, AnsweredInMemory
<1>2. ASSUME NEW l \in {"mark", "swap"}, Goto(r, l),
             UNCHANGED <<mail, password, taken, row, created, accepted>>,
             l = "mark" => req[r].pc = "user", l = "swap" => req[r].pc = "taken"
      PROVE  OtpInv'
  <2>1. l \in Pc
    BY DEF Pc
  <2>2. Presented(r)
    BY DEF OtpInv
  <2>3. Presented(r)'
    BY <1>2, <2>1, <2>2, Goes DEF Presented, Created
  <2> QED  BY <1>2, <2>1, <2>3, Moves, StepInMemory
<1> QED  BY <1>1, <1>2 DEF ReadUser, CheckTaken, Stop

-----------------------------------------------------------------------------
(* The steps that write.  A row ages: it keeps its purpose and address, is *)
(* never unused or unmarked again, and its code is accepted while it is    *)
(* unmarked, or, if it is for a change of address, even later.             *)
Ages(x) ==
    /\ row'[x].purpose = row[x].purpose /\ row'[x].email = row[x].email
    /\ row'[x].state = "none" <=> row[x].state = "none"
    /\ row'[x].state = "unused" => row[x].state = "unused"
    /\ row'[x].state \in Unmarked => row[x].state \in Unmarked
    /\ accepted'[x] # accepted[x] =>
         /\ row'[x].state \notin Unspent
         /\ row[x].purpose = "change" \/ row[x].state \in Unmarked

LEMMA AgingPreserves ==
    ASSUME OtpInv, UNCHANGED <<password, taken, created>>,
           mail' \in Email, mail' \notin taken,
           row' \in [Row -> RowRecord], accepted' \in [Row -> Nat],
           req' \in [Request -> ReqRecord], \A x \in Row : Ages(x),
           \A q \in Request : req'[q] = req[q] \/ Presented(q)'
    PROVE  OtpInv'
<1>1. Types' /\ EmailStaysUnique'
  BY DEF OtpInv, Types, EmailStaysUnique
<1>2. Ordered'
  BY DEF OtpInv, Ordered, Created, Ages
<1>3. Counted'
  BY DEF OtpInv, Counted, Ages
<1>4. InForce'
  BY DEF OtpInv, InForce, Types, Ages
<1>5. ASSUME NEW q \in Request, req'[q] = req[q]  PROVE Presented(q)'
  BY <1>5 DEF OtpInv, Presented, Created, Ages
<1> QED  BY <1>1, <1>2, <1>3, <1>4, <1>5 DEF OtpInv

LEMMA DropPreserves ==
    ASSUME OtpInv, NEW r \in Request, Drop(r)
    PROVE  OtpInv'
<1>1. Goto(r, "mint") /\ UNCHANGED <<mail, password, taken, created, accepted>>
  BY DEF Drop
<1>2. row \in [Row -> RowRecord]
  BY DEF OtpInv, Types
<1>3. /\ row' \in [Row -> RowRecord]
      /\ \A x \in Row : \/ row'[x] = row[x]
                        \/ /\ row[x].state \in Unmarked /\ row'[x].state = "deleted"
                           /\ row'[x].purpose = row[x].purpose /\ row'[x].email = row[x].email
  <2>1. ASSUME NEW x \in Row
        PROVE  /\ [row[x] EXCEPT !.state = "deleted"] \in RowRecord
               /\ [row[x] EXCEPT !.state = "deleted"].state = "deleted"
               /\ [row[x] EXCEPT !.state = "deleted"].purpose = row[x].purpose
               /\ [row[x] EXCEPT !.state = "deleted"].email = row[x].email
    BY <1>2 DEF RowRecord
  <2>2. \A x \in Row : row'[x] = IF x \in Superseded(Sees(req[r].op), req[r].email)
                                   THEN [row[x] EXCEPT !.state = "deleted"] ELSE row[x]
    BY DEF Drop
  <2>3. \A x \in Row : x \in Superseded(Sees(req[r].op), req[r].email) => row[x].state \in Unmarked
    BY DEF Superseded
  <2>4. row' \in [Row -> RowRecord]
    BY <1>2, <2>1 DEF Drop
  <2> QED  BY <2>1, <2>2, <2>3, <2>4
<1>4. \A x \in Row : Ages(x)
  BY <1>1, <1>3 DEF Ages
<1>5. "mint" \in Pc
  BY DEF Pc
<1>6. req' \in [Request -> ReqRecord] /\ (\A q \in Request \ {r} : req'[q] = req[q]) /\ req'[r].pc = "mint"
  BY <1>1, <1>5, Moves, Goes
<1>7. Presented(r)'
  BY <1>6 DEF Presented
<1> QED  BY <1>1, <1>3, <1>4, <1>6, <1>7, AgingPreserves DEF OtpInv, Types, EmailStaysUnique

LEMMA ExpirePreserves ==
    ASSUME OtpInv, NEW x \in Row, Expire(x)
    PROVE  OtpInv'
<1>1. row' \in [Row -> RowRecord]
  BY DEF OtpInv, Types, Expire, RowRecord
<1>2. \A y \in Row : Ages(y)
  BY DEF OtpInv, Types, Expire, RowRecord, Ages
<1> QED  BY <1>1, <1>2, AgingPreserves DEF Expire, OtpInv, Types, EmailStaysUnique

\* the row of a request becomes used
LEMMA UsePreserves ==
    ASSUME OtpInv, NEW r \in Request, NEW x \in Row, Created(x),
           row[x].state \in Unmarked \/ row[x].purpose = "change",
           row' = [row EXCEPT ![x].state = "used"],
           accepted' = [accepted EXCEPT ![x] = @ + 1],
           UNCHANGED <<password, taken, created>>,
           mail' \in Email, mail' \notin taken,
           req' \in [Request -> ReqRecord], \A q \in Request \ {r} : req'[q] = req[q],
           \/ req'[r].pc = "idle"
           \/ /\ req'[r].pc = "write" /\ req'[r].row = x
              /\ row[x].state \in Unmarked /\ row[x].purpose # "change"
    PROVE  OtpInv'
<1>1. row \in [Row -> RowRecord] /\ accepted \in [Row -> Nat]
  BY DEF OtpInv, Types
<1>2. row' \in [Row -> RowRecord] /\ accepted' \in [Row -> Nat]
  BY <1>1 DEF RowRecord
<1>3. /\ row'[x].state = "used" /\ row'[x].purpose = row[x].purpose /\ row'[x].email = row[x].email
      /\ \A y \in Row \ {x} : row'[y] = row[y] /\ accepted'[y] = accepted[y]
  BY <1>1 DEF RowRecord
<1>4. \A y \in Row : Ages(y)
  BY <1>3 DEF Ages, Created
<1>5. Presented(r)'
  <2>1. row[x].state \in Unmarked => accepted'[x] = 1
    BY <1>1 DEF OtpInv, Counted
  <2> QED  BY <1>3, <2>1 DEF Presented, Created
<1> QED  BY <1>2, <1>4, <1>5, AgingPreserves

LEMMA MarkPreserves ==
    ASSUME OtpInv, NEW r \in Request, Mark(r)
    PROVE  OtpInv'
<1> DEFINE x == req[r].row
<1>1. x \in Row /\ Created(x) /\ row[x].purpose # "change"
  BY DEF OtpInv, Presented, Mark
<1>2. CASE row[x].state \notin Unmarked
  BY <1>2, AnsweredInMemory DEF Mark
<1>3. CASE row[x].state \in Unmarked
  <2>1. /\ row' = [row EXCEPT ![x].state = "used"] /\ accepted' = [accepted EXCEPT ![x] = @ + 1]
        /\ UNCHANGED <<mail, password, taken, created>>
        /\ Goto(r, "write") \/ End(r)
    BY <1>3 DEF Mark
  <2>2. "write" \in Pc
    BY DEF Pc
  <2>3. /\ req' \in [Request -> ReqRecord] /\ \A q \in Request \ {r} : req'[q] = req[q]
        /\ req'[r].pc = "idle" \/ (req'[r].pc = "write" /\ req'[r].row = x)
    BY <2>1, <2>2, Moves, Ends, Goes
  <2>4. mail' \in Email /\ mail' \notin taken
    BY <2>1 DEF OtpInv, Types, EmailStaysUnique
  <2> QED  BY <1>1, <1>3, <2>1, <2>3, <2>4, UsePreserves
<1> QED  BY <1>2, <1>3

LEMMA SwapPreserves ==
    ASSUME OtpInv, NEW r \in Request, Swap(r)
    PROVE  OtpInv'
<1> DEFINE x == req[r].row
<1>1. /\ x \in Row /\ Created(x) /\ req[r].email \in Email
      /\ row[x].email = req[r].email /\ row[x].purpose = "change"
      /\ End(r) /\ UNCHANGED <<password, taken, created>>
  BY DEF OtpInv, Presented, Swap
<1>2. CASE UNCHANGED <<mail, row, accepted>>
  BY <1>1, <1>2, AnsweredInMemory
<1>3. CASE ~(UNCHANGED <<mail, row, accepted>>)
  <2>1. /\ req[r].email \notin taken /\ mail' = req[r].email
        /\ row' = [row EXCEPT ![x].state = "used"] /\ accepted' = [accepted EXCEPT ![x] = @ + 1]
    BY <1>3 DEF Swap
  <2> QED  BY <1>1, <2>1, Moves, Ends, UsePreserves
<1> QED  BY <1>2, <1>3

LEMMA WritePasswordPreserves ==
    ASSUME OtpInv, NEW r \in Request, WritePassword(r)
    PROVE  OtpInv'
<1>1. /\ password' = password \/ password' = req[r].row
      /\ End(r) /\ UNCHANGED <<mail, taken, row, created, accepted>>
  BY DEF WritePassword
<1>2. /\ req[r].row \in Row /\ row[req[r].row].purpose # "change"
      /\ row[req[r].row].state \notin Unspent /\ accepted[req[r].row] = 1
  BY DEF OtpInv, Presented, WritePassword
<1>3. InForce' /\ password' \in Row \cup {None}
  BY <1>1, <1>2 DEF OtpInv, InForce, Types
<1>4. /\ req' \in [Request -> ReqRecord] /\ req'[r].pc = "idle"
      /\ \A q \in Request \ {r} : req'[q] = req[q]
  BY <1>1, Moves, Ends
<1>5. \A q \in Request : Presented(q)'
  BY <1>1, <1>4 DEF OtpInv, Presented, Created
<1> QED  BY <1>1, <1>3, <1>4, <1>5 DEF OtpInv, Types, Ordered, Counted, EmailStaysUnique, Created

LEMMA MintPreserves ==
    ASSUME OtpInv, NEW r \in Request, NEW x \in Row, Mint(r, x)
    PROVE  OtpInv'
<1>1. /\ row[x].state = "none" /\ End(r) /\ created' = Append(created, x)
      /\ UNCHANGED <<mail, password, taken, accepted>>
  BY DEF Mint
<1>2. PICK y \in RowRecord : row' = [row EXCEPT ![x] = y] /\ y.state = "unused"
  <2> DEFINE p == CASE req[r].op = "forgot" -> "reset" [] req[r].op = "ask" -> "change"
                    [] OTHER -> "twofa"
  <2>1. p \in Purpose
    BY DEF Purpose
  <2>2. row' = [row EXCEPT ![x] = [purpose |-> p, email |-> req[r].email, state |-> "unused"]]
    BY DEF Mint
  <2> HIDE DEF p
  <2>3. [purpose |-> p, email |-> req[r].email, state |-> "unused"] \in RowRecord
    BY <2>1 DEF OtpInv, Types, ReqRecord, RowRecord
  <2> QED  BY <2>2, <2>3
<1>3. /\ row' \in [Row -> RowRecord] /\ row'[x].state = "unused"
      /\ \A z \in Row \ {x} : row'[z] = row[z]
  BY <1>2 DEF OtpInv, Types
<1>4. /\ req' \in [Request -> ReqRecord] /\ req'[r].pc = "idle"
      /\ \A q \in Request \ {r} : req'[q] = req[q]
  BY <1>1, Moves, Ends
<1>5. Types' /\ EmailStaysUnique'
  BY <1>1, <1>3, <1>4 DEF OtpInv, Types, EmailStaysUnique
<1>6. Ordered'
  <2>1. created \in Seq(Row) /\ x \notin ToSet(created) /\ IsInjective(created)
    BY <1>1 DEF OtpInv, Ordered, Created
  <2>2. created' \in Seq(Row) /\ DOMAIN created' = 1 .. Len(created) + 1 /\ Len(created) \in Nat
    BY <1>1, <2>1
  <2>3. created'[Len(created) + 1] = x /\ \A i \in 1 .. Len(created) : created'[i] = created[i]
    BY <1>1, <2>1
  <2>4. DOMAIN created = 1 .. Len(created)
    BY <2>1
  <2>5. \A i \in DOMAIN created : created[i] # x
    BY <2>1 DEF ToSet
  <2>6. IsInjective(created')
    BY <2>1, <2>2, <2>3, <2>4, <2>5 DEF IsInjective
  <2>7. ToSet(created') = ToSet(created) \cup {x}
    BY <2>2, <2>3, <2>4 DEF ToSet
  <2>8. ToSet(created') = {z \in Row : row'[z].state # "none"}
    BY <1>1, <1>3, <2>7 DEF OtpInv, Ordered, Created
  <2> QED  BY <2>2, <2>6, <2>8 DEF Ordered, Created
<1>7. Counted'
  BY <1>1, <1>3 DEF OtpInv, Counted
<1>8. InForce'
  BY <1>1, <1>3 DEF OtpInv, InForce, Types
<1>9. \A q \in Request : Presented(q)'
  BY <1>1, <1>3, <1>4 DEF OtpInv, Presented, Created
<1> QED  BY <1>5, <1>6, <1>7, <1>8, <1>9 DEF OtpInv

LEMMA OthersPreserve ==
    ASSUME OtpInv, NEW e \in Email, OtherTakes(e) \/ OtherLeaves(e)
    PROVE  OtpInv'
<1>1. /\ taken' \subseteq Email /\ mail \notin taken'
      /\ UNCHANGED <<mail, password, row, created, req, accepted>>
  BY DEF OtpInv, Types, EmailStaysUnique, OtherTakes, OtherLeaves
<1> QED  BY <1>1 DEF OtpInv, Types, Ordered, Counted, InForce, EmailStaysUnique, Presented, Created

LEMMA NextOtp == OtpInv /\ [Next]_vars => OtpInv'
<1> SUFFICES ASSUME OtpInv, [Next]_vars PROVE OtpInv'
  OBVIOUS
<1>1. ASSUME NEW r \in Request, Handle(r)  PROVE OtpInv'
  BY <1>1, StartsPreserve, ReadsPreserve, DropPreserves, MintPreserves, MarkPreserves,
     WritePasswordPreserves, SwapPreserves DEF Handle, Answer
<1>2. CASE UNCHANGED vars
  BY <1>2 DEF vars, OtpInv, Types, Ordered, Counted, InForce, EmailStaysUnique, Presented, Created
<1> QED  BY <1>1, <1>2, ExpirePreserves, OthersPreserve DEF Next

LEMMA OtpInvariant == Spec => []OtpInv
BY InitOtp, NextOtp, PTL DEF Spec

-----------------------------------------------------------------------------
\* TypeOK of Otp: the password in force was written with a code that was
\* accepted once.
THEOREM OtpTypeOK == Spec => []TypeOK
<1>1. OtpInv => TypeOK
  <2> SUFFICES ASSUME OtpInv PROVE TypeOK
    OBVIOUS
  <2>1. \A r \in Request : req[r].pc \in {"user", "mark", "write", "taken", "swap"} =>
          req[r].row \in ToSet(created)
    BY DEF OtpInv, Presented, Ordered
  <2> QED  BY <2>1 DEF OtpInv, Types, Ordered, InForce, TypeOK, RowRecord, ReqRecord, Pc, Created
<1> QED  BY <1>1, OtpInvariant, PTL

\* The account never has an address of another account.
THEOREM EmailUniqueAlways == Spec => []EmailStaysUnique
<1>1. OtpInv => EmailStaysUnique
  BY DEF OtpInv
<1> QED  BY <1>1, OtpInvariant, PTL

\* The steps that leave every count of acceptances alone, and the two that do not.
LEMMA Accepting ==
    ASSUME OtpInv, Next, NEW x \in Row, accepted'[x] # accepted[x]
    PROVE  \E r \in Request :
             /\ x = req[r].row /\ row' = [row EXCEPT ![x].state = "used"]
             /\ accepted' = [accepted EXCEPT ![x] = @ + 1]
             /\ \/ Mark(r) /\ row[x].state \in Unmarked /\ row[x].purpose # "change"
                \/ Swap(r) /\ req[r].op = "change" /\ mail' = row[x].email
<1>1. PICK r \in Request : (Mark(r) \/ Swap(r)) /\ accepted' # accepted
  BY DEF Next, Handle, Answer, Forgot, SendTwoFactor, RequestChange, Drop, Mint, Reset, Present,
         VerifyTwoFactor, ConfirmChange, ReadUser, WritePassword, CheckTaken, Stop, Start, Expire,
         OtherTakes, OtherLeaves
<1>2. Presented(r) /\ accepted \in [Row -> Nat]
  BY DEF OtpInv, Types
<1>3. CASE Mark(r)
  <2>1. /\ row[req[r].row].state \in Unmarked /\ row' = [row EXCEPT ![req[r].row].state = "used"]
        /\ accepted' = [accepted EXCEPT ![req[r].row] = @ + 1]
    BY <1>1, <1>3 DEF Mark
  <2>2. x = req[r].row /\ row[x].purpose # "change"
    BY <1>2, <1>3, <2>1 DEF Mark, Presented
  <2> QED  BY <1>3, <2>1, <2>2
<1>4. CASE Swap(r)
  <2>1. /\ mail' = req[r].email /\ row' = [row EXCEPT ![req[r].row].state = "used"]
        /\ accepted' = [accepted EXCEPT ![req[r].row] = @ + 1]
    BY <1>1, <1>4 DEF Swap
  <2>2. x = req[r].row /\ req[r].op = "change" /\ row[x].email = req[r].email
    BY <1>2, <1>4, <2>1 DEF Swap, Presented
  <2> QED  BY <1>4, <2>1, <2>2
<1> QED  BY <1>1, <1>3, <1>4

\* A code for a change of address is used up only by the change it was for.
THEOREM ChangeCodeAlwaysBuys == Spec => ChangeCodeBuysTheChange
<1>1. OtpInv /\ [Next]_vars =>
        [\A x \in ForChange : accepted'[x] # accepted[x]
           => mail' = row[x].email]_vars
  BY Accepting DEF ForChange
<1> QED  BY <1>1, OtpInvariant, PTL DEF Spec, ChangeCodeBuysTheChange

Holding(x) == {r \in Request : /\ req[r].pc \in {"user", "mark", "taken", "swap"}
                               /\ req[r].row = x}

\* A request takes hold of a row only while it is unused.
LEMMA HeldAnewIsUnused ==
    ASSUME OtpInv, [Next]_vars, NEW x \in Row, ~(Holding(x)' \subseteq Holding(x))
    PROVE  row[x].state = "unused" /\ accepted' = accepted
<1>1. PICK q \in Request : q \in Holding(x)' /\ q \notin Holding(x)
  BY DEF Holding
<1>2. Next /\ req' # req
  BY <1>1 DEF Holding, vars
<1>3. PICK r \in Request : Handle(r)
  BY <1>2 DEF Next, Expire, OtherTakes, OtherLeaves
<1>4. req \in [Request -> ReqRecord]
  BY DEF OtpInv, Types
<1>5. ASSUME NEW o, NEW l, NEW e, NEW y, Start(r, o, l, e, y), l \in {"user", "mark", "taken"} => row[y].state = "unused",
             l # "swap"
      PROVE  row[x].state = "unused" /\ accepted' = accepted
  <2>1. req'[r] = [op |-> o, pc |-> l, email |-> e, row |-> y] /\ \A p \in Request \ {r} : req'[p] = req[p]
    BY <1>4, <1>5 DEF Start
  <2>2. l \in {"user", "mark", "taken"} /\ y = x
    BY <1>1, <1>5, <2>1 DEF Holding
  <2> QED  BY <1>5, <2>2 DEF Start
<1>6. ~End(r)
  BY <1>1, <1>4, IdleRecord DEF End, Holding
<1>7. ASSUME NEW l \in {"mint", "mark", "write", "swap"}, Goto(r, l)
      PROVE  (l = "swap" /\ req[r].pc # "taken") \/ (l = "mark" /\ req[r].pc # "user")
  <2>1. /\ req'[r].pc = l /\ req'[r].row = req[r].row /\ \A p \in Request \ {r} : req'[p] = req[p]
    BY <1>4, <1>7 DEF Goto, ReqRecord
  <2> QED  BY <1>1, <2>1 DEF Holding
<1>8. CASE Forgot(r) \/ SendTwoFactor(r) \/ (\E e \in Email : RequestChange(r, e))
  BY <1>5, <1>8 DEF Forgot, SendTwoFactor, RequestChange
<1>9. ASSUME NEW y \in Row, NEW e \in Email,
             Reset(r, e, y) \/ VerifyTwoFactor(r, e, y) \/ ConfirmChange(r, e, y)
      PROVE  row[x].state = "unused" /\ accepted' = accepted
  <2>1. \A o : y \in Candidates(o, e) => row[y].state = "unused"
    BY DEF Candidates, Newest, Unused
  <2> QED  BY <1>5, <1>9, <2>1 DEF Reset, VerifyTwoFactor, ConfirmChange, Present
<1> QED  BY <1>3, <1>6, <1>7, <1>8, <1>9
     DEF Handle, Answer, Drop, Mint, ReadUser, Mark, WritePassword, CheckTaken, Swap, Stop

\* A step that redeems nothing: it leaves the purposes of the rows alone, and
\* those it lets lapse are held by a request that found them unused.
LEMMA Withdrawing ==
    ASSUME OtpInv, [Next]_vars, accepted' = accepted, \A x \in Row : Ages(x)
    PROVE  [Tickets!OneTimeNext]_<<LiveRows, LapsedRows, Acceptances>>
<1>1. Acceptances' = Acceptances /\ LiveRows' \subseteq LiveRows
  BY DEF Acceptances, LiveRows, ForChange, Ages
<1>2. ASSUME NEW x \in LapsedRows'  PROVE x \in (LiveRows \cup LapsedRows) \ LiveRows'
  <2>1. /\ x \in Row /\ x \notin ForChange /\ row'[x].state = "expired" /\ row[x].state \in Unmarked
        /\ x \notin LiveRows'
    BY <1>2 DEF LapsedRows, LiveRows, ForChange, Ages
  <2>2. PICK r \in Request : r \in Holding(x)'
    BY <1>2 DEF LapsedRows, Holding
  <2>3. CASE row[x].state = "unused"
    BY <2>1, <2>3 DEF LiveRows
  <2>4. CASE row[x].state = "expired"
    <3>1. r \in Holding(x) /\ Presented(r)
      BY <2>1, <2>2, <2>4, HeldAnewIsUnused DEF OtpInv
    <3>2. req[r].pc \in {"user", "mark"} /\ req[r].row = x
      BY <2>1, <3>1 DEF Holding, Presented, ForChange
    <3> QED  BY <2>1, <2>4, <3>2 DEF LapsedRows
  <2> QED  BY <2>1, <2>3, <2>4
<1> QED  BY <1>1, <1>2 DEF Tickets!Withdraw, Tickets!OneTimeNext

\* A new row is a ticket, unless it is for a change of address.
LEMMA MintIssues ==
    ASSUME OtpInv, NEW r \in Request, NEW x \in Row, Mint(r, x)
    PROVE  [Tickets!OneTimeNext]_<<LiveRows, LapsedRows, Acceptances>>
<1>1. row \in [Row -> RowRecord] /\ accepted \in [Row -> Nat]
  BY DEF OtpInv, Types
<1>2. row[x].state = "none" /\ accepted[x] = 0 /\ accepted' = accepted
  BY DEF Mint, OtpInv, Counted
<1>3. row'[x].state = "unused" /\ \A y \in Row \ {x} : row'[y] = row[y]
  BY <1>1 DEF Mint
<1>4. Acceptances' = Acceptances
  BY <1>2, <1>3 DEF Acceptances, ForChange
<1>5. LapsedRows' = LapsedRows
  <2>1. /\ req[r].pc = "mint" /\ req'[r].pc = "idle"
        /\ \A q \in Request \ {r} : req'[q] = req[q]
    BY Moves, Ends DEF Mint
  <2> QED  BY <1>2, <1>3, <2>1 DEF LapsedRows, ForChange
<1>6. CASE row'[x].purpose = "change"
  <2>1. LiveRows' = LiveRows
    BY <1>2, <1>3, <1>6 DEF LiveRows, ForChange
  <2> QED  BY <1>4, <1>5, <2>1
<1>7. CASE row'[x].purpose # "change"
  <2>1. x \notin LiveRows \cup LapsedRows /\ LiveRows' = LiveRows \cup {x} /\ Acceptances[x] = 0
    BY <1>2, <1>3, <1>7 DEF LiveRows, LapsedRows, ForChange, Acceptances
  <2>2. Tickets!Issue(x)
    BY <1>4, <1>5, <2>1 DEF Tickets!Issue
  <2> QED  BY <2>2 DEF Tickets!OneTimeNext
<1> QED  BY <1>6, <1>7

\* The conditional update, when it finds the row unmarked, redeems a ticket:
\* a live one, or one that has lapsed under this very request.
LEMMA MarkRedeems ==
    ASSUME OtpInv, NEW r \in Request, Mark(r), row[req[r].row].state \in Unmarked
    PROVE  Tickets!OneTimeNext
<1> DEFINE x == req[r].row
<1>1. row \in [Row -> RowRecord] /\ accepted \in [Row -> Nat] /\ x \in Row /\ x \notin ForChange
  BY DEF OtpInv, Types, Mark, Presented, ForChange
<1>2. /\ row' = [row EXCEPT ![x].state = "used"] /\ accepted' = [accepted EXCEPT ![x] = @ + 1]
      /\ accepted[x] = 0
  BY <1>1 DEF Mark, OtpInv, Counted
<1>3. row'[x].state = "used" /\ row'[x].purpose = row[x].purpose
      /\ \A y \in Row \ {x} : row'[y] = row[y]
  BY <1>1, <1>2 DEF RowRecord
<1>4. /\ req[r].pc = "mark" /\ req'[r].pc \in {"idle", "write"}
      /\ \A q \in Request \ {r} : req'[q] = req[q]
  <2>1. req[r].pc = "mark" /\ (Goto(r, "write") \/ End(r)) /\ "write" \in Pc
    BY DEF Mark, Pc
  <2> QED  BY <2>1, Moves, Ends, Goes
<1>5. x \in LiveRows \cup LapsedRows /\ LiveRows' = LiveRows \ {x}
  BY <1>1, <1>3, <1>4 DEF LiveRows, LapsedRows, ForChange
<1>6. LapsedRows' = LapsedRows \ {x}
  BY <1>1, <1>3, <1>4 DEF LapsedRows, ForChange
<1>7. Acceptances[x] = 0 /\ Acceptances' = [Acceptances EXCEPT ![x] = 1]
  BY <1>1, <1>2, <1>3 DEF Acceptances, ForChange
<1>8. Tickets!Redeem(x)
  BY <1>5, <1>6, <1>7 DEF Tickets!Redeem
<1> QED  BY <1>1, <1>8 DEF Tickets!OneTimeNext

\* A change of address touches the row of a change only.
LEMMA SwapIsElsewhere ==
    ASSUME OtpInv, NEW r \in Request, Swap(r)
    PROVE  UNCHANGED <<LiveRows, LapsedRows, Acceptances>>
<1> DEFINE x == req[r].row
<1>1. row \in [Row -> RowRecord] /\ accepted \in [Row -> Nat] /\ x \in Row /\ x \in ForChange
  BY DEF OtpInv, Types, Swap, Presented, ForChange
<1>2. /\ req[r].pc = "swap" /\ req'[r].pc = "idle"
      /\ \A q \in Request \ {r} : req'[q] = req[q]
  BY Moves, Ends DEF Swap
<1>3. CASE UNCHANGED <<row, accepted>>
  BY <1>2, <1>3 DEF LiveRows, LapsedRows, Acceptances, ForChange
<1>4. CASE /\ row' = [row EXCEPT ![x].state = "used"] /\ accepted' = [accepted EXCEPT ![x] = @ + 1]
  <2>1. row'[x].purpose = "change" /\ \A y \in Row \ {x} : row'[y] = row[y] /\ accepted'[y] = accepted[y]
    BY <1>1, <1>4 DEF RowRecord, ForChange
  <2>2. LiveRows' = LiveRows /\ Acceptances' = Acceptances
    BY <1>1, <2>1 DEF LiveRows, Acceptances, ForChange
  <2>3. LapsedRows' = LapsedRows
    BY <1>1, <1>2, <2>1 DEF LapsedRows, ForChange
  <2> QED  BY <2>2, <2>3
<1> QED  BY <1>3, <1>4 DEF Swap

LEMMA TicketSteps ==
    ASSUME OtpInv, [Next]_vars
    PROVE  [Tickets!OneTimeNext]_<<LiveRows, LapsedRows, Acceptances>>
<1>1. row \in [Row -> RowRecord]
  BY DEF OtpInv, Types
<1>2. CASE UNCHANGED <<row, accepted>>
  <2>1. \A x \in Row : Ages(x)
    BY <1>2 DEF Ages
  <2> QED  BY <1>2, <2>1, Withdrawing
<1>3. ASSUME (\E r \in Request : Drop(r)) \/ (\E x \in Row : Expire(x))
      PROVE  [Tickets!OneTimeNext]_<<LiveRows, LapsedRows, Acceptances>>
  <2>1. accepted' = accepted
    BY <1>3 DEF Drop, Expire
  <2>2. \A x \in Row : row'[x].purpose = row[x].purpose /\ row'[x].email = row[x].email
    BY <1>1, <1>3 DEF Drop, Expire, RowRecord
  <2>3. \A x \in Row :
          \/ row'[x].state = row[x].state
          \/ row[x].state \in Unmarked /\ row'[x].state \in {"expired", "deleted"}
    BY <1>1, <1>3 DEF Drop, Expire, RowRecord, Superseded
  <2>4. \A x \in Row : Ages(x)
    BY <2>1, <2>2, <2>3 DEF Ages
  <2> QED  BY <2>1, <2>4, Withdrawing
<1>4. ASSUME NEW r \in Request, Mark(r)
      PROVE  [Tickets!OneTimeNext]_<<LiveRows, LapsedRows, Acceptances>>
  BY <1>2, <1>4, MarkRedeems DEF Mark
<1>5. CASE Next
  <2>1. \/ \E r \in Request : Drop(r) \/ Mark(r) \/ Swap(r) \/ \E x \in Row : Mint(r, x)
        \/ \E x \in Row : Expire(x)
        \/ UNCHANGED <<row, accepted>>
    BY <1>5 DEF Next, Handle, Answer, Forgot, SendTwoFactor, RequestChange, Reset, Present,
       VerifyTwoFactor, ConfirmChange, ReadUser, WritePassword, CheckTaken, Stop, Start,
       OtherTakes, OtherLeaves
  <2> QED  BY <1>2, <1>3, <1>4, <2>1, MintIssues, SwapIsElsewhere
<1>6. CASE UNCHANGED vars
  BY <1>2, <1>6 DEF vars
<1> QED  BY <1>5, <1>6

\* Of any number of requests that present a code for a reset or a login, one is
\* accepted, whatever changes of address go on in the same table; and none that
\* has not found the code before it expired or was deleted.
THEOREM MailedCodesStayOneTime == Spec => CodesAreOneTime
<1>1. Init => Tickets!OneTimeInit
  BY DEF Init, Blank, Tickets!OneTimeInit, LiveRows, LapsedRows, Acceptances, ForChange
<1>2. OtpInv /\ [Next]_vars => [Tickets!OneTimeNext]_<<LiveRows, LapsedRows, Acceptances>>
  BY TicketSteps
<1> QED  BY <1>1, <1>2, OtpInvariant, PTL DEF Spec, CodesAreOneTime, Tickets!OneTimeSpec

-----------------------------------------------------------------------------
(* A code for a change of address, which may be accepted again, is so by   *)
(* requests only that hold its row; and nobody takes hold of a used row.   *)
Repeats == \A x \in ForChange : accepted[x] + Cardinality(Holding(x)) <= Cardinality(Request)

LEMMA HoldingIsFinite ==
    ASSUME NEW x
    PROVE  /\ IsFiniteSet(Holding(x)) /\ IsFiniteSet(Holding(x)')
           /\ Cardinality(Holding(x)) \in Nat /\ Cardinality(Holding(x)') \in Nat
           /\ Cardinality(Request) \in Nat
           /\ Cardinality(Holding(x)) <= Cardinality(Request)
           /\ Cardinality(Holding(x)') <= Cardinality(Request)
<1>1. Holding(x) \in SUBSET Request /\ Holding(x)' \in SUBSET Request
  BY DEF Holding
<1> QED  BY <1>1, RequestAssumption, FS_Subset, FS_CardinalityType

\* While a row has not been accepted, all requests may hold it.
LEMMA UnacceptedFits ==
    ASSUME NEW x \in Row, accepted'[x] = 0
    PROVE  (accepted[x] + Cardinality(Holding(x)) <= Cardinality(Request))'
BY HoldingIsFinite

\* An accepted row is held by no request that did not hold it before.
LEMMA HoldersShrink ==
    ASSUME NEW x \in Row, accepted[x] \in Nat, accepted'[x] = accepted[x],
           accepted[x] + Cardinality(Holding(x)) <= Cardinality(Request),
           Holding(x)' \subseteq Holding(x)
    PROVE  (accepted[x] + Cardinality(Holding(x)) <= Cardinality(Request))'
<1>1. Cardinality(Holding(x)') <= Cardinality(Holding(x))
  BY HoldingIsFinite, FS_Subset
<1> QED  BY <1>1, HoldingIsFinite

\* The request that makes it be accepted lets go of it.
LEMMA SwapPays ==
    ASSUME NEW x \in Row, NEW r \in Request, accepted[x] \in Nat, accepted'[x] = accepted[x] + 1,
           accepted[x] + Cardinality(Holding(x)) <= Cardinality(Request),
           r \in Holding(x), Holding(x)' \subseteq Holding(x) \ {r}
    PROVE  (accepted[x] + Cardinality(Holding(x)) <= Cardinality(Request))'
<1>1. IsFiniteSet(Holding(x) \ {r}) /\ Cardinality(Holding(x) \ {r}) = Cardinality(Holding(x)) - 1
  BY HoldingIsFinite, FS_RemoveElement
<1>2. Cardinality(Holding(x)') <= Cardinality(Holding(x) \ {r})
  BY <1>1, FS_Subset
<1> QED  BY <1>1, <1>2, HoldingIsFinite

LEMMA RepeatsStep == OtpInv /\ Repeats /\ [Next]_vars => Repeats'
<1> SUFFICES ASSUME OtpInv, Repeats, [Next]_vars, NEW x \in Row, x \in ForChange'
             PROVE  (accepted[x] + Cardinality(Holding(x)) <= Cardinality(Request))'
  BY DEF Repeats, ForChange
<1>1. /\ row \in [Row -> RowRecord] /\ req \in [Request -> ReqRecord]
      /\ accepted[x] \in Nat
      /\ row[x].state \in Unspent => accepted[x] = 0
  BY DEF OtpInv, Types, Counted
<1>2. CASE accepted'[x] # accepted[x]
  <2>1. PICK r \in Request :
          /\ x = req[r].row /\ accepted' = [accepted EXCEPT ![x] = @ + 1]
          /\ row' = [row EXCEPT ![x].state = "used"]
          /\ \/ Mark(r) /\ row[x].purpose # "change"
             \/ Swap(r)
    BY <1>2, Accepting DEF vars
  <2>2. row'[x].purpose = row[x].purpose
    BY <1>1, <2>1 DEF RowRecord
  <2>3. Swap(r) /\ x \in ForChange
    BY <2>1, <2>2 DEF ForChange
  <2>4. accepted'[x] = accepted[x] + 1
    BY <2>1 DEF OtpInv, Types
  <2>5. r \in Holding(x) /\ Holding(x)' \subseteq Holding(x) \ {r}
    BY <1>1, <2>1, <2>3, IdleRecord DEF Swap, End, Holding
  <2> QED  BY <1>1, <2>3, <2>4, <2>5, SwapPays DEF Repeats
<1>3. CASE accepted'[x] = accepted[x] /\ row[x].state \in Unspent
  BY <1>1, <1>3, UnacceptedFits
<1>4. CASE accepted'[x] = accepted[x] /\ row[x].state \notin Unspent
  <2>1. Holding(x)' \subseteq Holding(x)
    BY <1>4, HeldAnewIsUnused
  <2>2. row'[x].purpose = row[x].purpose
    <3>1. CASE UNCHANGED row
      BY <3>1
    <3>2. CASE \E r \in Request, y \in Row : Mint(r, y)
      BY <1>1, <1>4, <3>2 DEF Mint
    <3>3. CASE \E r \in Request : Drop(r)
      BY <1>1, <3>3 DEF Drop, RowRecord
    <3>4. CASE \E y \in Row : Expire(y)
      BY <1>1, <3>4 DEF Expire, RowRecord
    <3>5. CASE \E r \in Request : Mark(r) \/ Swap(r)
      BY <1>1, <3>5 DEF Mark, Swap, RowRecord
    <3> QED
      BY <3>1, <3>2, <3>3, <3>4, <3>5
      DEF Next, vars, Handle, Answer, Forgot, SendTwoFactor, RequestChange, Reset, Present,
          VerifyTwoFactor, ConfirmChange, ReadUser, WritePassword, CheckTaken, Stop, Start,
          OtherTakes, OtherLeaves
  <2>3. x \in ForChange
    BY <2>2 DEF ForChange
  <2> QED  BY <1>1, <1>4, <2>1, <2>3, HoldersShrink DEF Repeats
<1> QED  BY <1>2, <1>3, <1>4

\* A code for a change of address is accepted no more often than there are
\* requests that can overlap, however many present it one after the other.
THEOREM RepeatsAlwaysOverlap == Spec => []RepeatsOverlap
<1>1. Init => Repeats
  BY DEF Init, Repeats, ForChange, Blank
<1>2. OtpInv /\ Repeats => RepeatsOverlap
  BY HoldingIsFinite DEF OtpInv, Types, Repeats, RepeatsOverlap, ForChange
<1> QED  BY <1>1, <1>2, RepeatsStep, OtpInvariant, PTL DEF Spec
=============================================================================
