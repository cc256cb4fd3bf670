-------------------------- MODULE TwoFactor_proofs ---------------------------
(***************************************************************************)
(* What holds of TwoFactor for any number of requests, challenges and      *)
(* mailed codes.  The conditional update that consumes a challenge makes   *)
(* one request the owner of the enrolment or reset that follows, so the    *)
(* codes it stores are new ones; and a request that has compared a TOTP    *)
(* code can consume its challenge only as long as no reset came between.   *)
(***************************************************************************)
EXTENDS TwoFactor, TLAPS

USE DEF policy

ReqRecord == [op : Op \cup {"none"}, pc : Pc, ch : Challenge \cup {None},
              item : Challenge \cup Otp \cup {None}]

RowRecord == [type : {"none", "setup", "verify", "recovery"}, secret : BOOLEAN, state : RowState]

Presents == {"initiate", "confirm", "totp", "backup", "email", "send", "reset"}
Owns(r)  == req[r].pc \in {"enable", "drop_codes", "add_codes"}

\* what the request's operation and label tell of the rows it names
Names(x) ==
    /\ x.op \in Presents => x.ch # None
    /\ x.pc = "use_up" => x.op = "initiate"
    /\ x.pc = "consume" => x.op \in Presents
    /\ x.pc \in {"enable", "drop_codes", "add_codes"} => x.op = "confirm"
    /\ x.pc \in {"find_code", "mark_code"} => x.op = "backup" /\ x.item \in Challenge
    /\ x.pc \in {"find_otp", "mark_otp"} => x.item \in Otp

Holds(r) ==
    /\ Names(req[r])
    /\ req[r].ch # None => challenge[req[r].ch].state # "none"
    /\ Owns(r) => challenge[req[r].ch].state = "used" /\ code[req[r].ch] = "none"
    /\ req[r].op = "totp" /\ req[r].pc = "consume" /\ challenge[req[r].ch].state = "unused"
         => enabled

OneOwner == \A r, q \in Request : r # q /\ Owns(r) /\ Owns(q) => req[r].ch # req[q].ch

\* what has not been used up was never accepted
Counted ==
    /\ \A ch \in Challenge : challenge[ch].state \in {"none", "unused"} =>
         uses[ch] = 0 /\ code[ch] = "none"
    /\ \A c \in Challenge : code[c] \in {"none", "unused"} => accepted[c] = 0
    /\ \A o \in Otp : otp[o] \in {"none", "unused", "expired"} => accepted[o] = 0

TwoFactorInv == TypeOK /\ (\A r \in Request : Holds(r)) /\ OneOwner /\ Counted

-----------------------------------------------------------------------------
LEMMA IdleRecord == Idle \in ReqRecord /\ Names(Idle) /\ Idle.ch = None /\ Idle.pc = "idle"
BY DEF Idle, ReqRecord, Pc, Names, Presents

LEMMA ReqType == TypeOK => req \in [Request -> ReqRecord]
BY DEF TypeOK, ReqRecord

LEMMA InitTwoFactor == Init => TwoFactorInv
<1> SUFFICES ASSUME Init PROVE TwoFactorInv
  OBVIOUS
<1>1. req \in [Request -> ReqRecord]
  BY IdleRecord DEF Init
<1>2. Blank \in RowRecord /\ Blank.state = "none"
  BY DEF Blank, RowRecord, RowState
<1>3. challenge \in [Challenge -> RowRecord]
  BY <1>2 DEF Init
<1>4. TypeOK
  BY <1>1, <1>3, NoneAssumption DEF Init, TypeOK, ReqRecord, RowRecord, RowState, OtpState
<1>5. \A r \in Request : Holds(r)
  BY IdleRecord DEF Init, Holds, Owns
<1>6. OneOwner
  BY IdleRecord DEF Init, OneOwner, Owns
<1>7. Counted
  BY <1>2, DisjointAssumption DEF Init, Counted
<1> QED  BY <1>4, <1>5, <1>6, <1>7 DEF TwoFactorInv

\* The three ways in which a request moves.
LEMMA Moves ==
    ASSUME TwoFactorInv, NEW r \in Request,
           \/ End(r)
           \/ \E l \in Pc : Goto(r, l)
           \/ \E x \in ReqRecord : req' = [req EXCEPT ![r] = x]
    PROVE  req' \in [Request -> ReqRecord] /\ \A q \in Request \ {r} : req'[q] = req[q]
<1>1. req \in [Request -> ReqRecord]
  BY ReqType DEF TwoFactorInv
<1>2. CASE \E l \in Pc : Goto(r, l)
  BY <1>1, <1>2 DEF Goto, ReqRecord
<1> QED  BY <1>1, <1>2, IdleRecord DEF End

LEMMA Ends ==
    ASSUME TwoFactorInv, NEW r \in Request, End(r)
    PROVE  req'[r] = Idle
BY ReqType DEF TwoFactorInv, End

LEMMA Goes ==
    ASSUME TwoFactorInv, NEW r \in Request, NEW l \in Pc, Goto(r, l)
    PROVE  /\ req'[r].op = req[r].op /\ req'[r].pc = l /\ req'[r].ch = req[r].ch
           /\ req'[r].item = req[r].item
BY ReqType DEF TwoFactorInv, Goto, ReqRecord

\* A request moves, and nothing is written.
LEMMA StepInMemory ==
    ASSUME TwoFactorInv, NEW r \in Request, UNCHANGED <<user, challenge, code, otp, history>>,
           req' \in [Request -> ReqRecord], \A q \in Request \ {r} : req'[q] = req[q],
           Names(req'[r]), req'[r].pc \notin {"enable", "drop_codes", "add_codes"},
           req'[r].ch # None => challenge[req'[r].ch].state # "none",
           req'[r].op = "totp" /\ req'[r].pc = "consume" => enabled
    PROVE  TwoFactorInv'
<1> USE DEF TwoFactorInv, user, history
<1>1. TypeOK'
  BY DEF TypeOK, ReqRecord
<1>2. \A q \in Request : Holds(q)'
  BY DEF Holds, Owns
<1>3. OneOwner'
  BY DEF OneOwner, Owns
<1>4. Counted'
  BY DEF Counted
<1> QED  BY <1>1, <1>2, <1>3, <1>4

LEMMA Answered ==
    ASSUME TwoFactorInv, NEW r \in Request, End(r),
           UNCHANGED <<user, challenge, code, otp, history>>
    PROVE  TwoFactorInv'
BY Moves, Ends, IdleRecord, StepInMemory

LEMMA Started ==
    ASSUME TwoFactorInv, NEW r \in Request, NEW o, NEW l \in Pc,
           NEW ch \in Challenge \cup {None}, NEW item \in Challenge \cup Otp \cup {None},
           Start(r, o, l, ch, item),
           Names([op |-> o, pc |-> l, ch |-> ch, item |-> item]),
           l \notin {"enable", "drop_codes", "add_codes"},
           ch # None => challenge[ch].state # "none",
           ~(o = "totp" /\ l = "consume")
    PROVE  TwoFactorInv'
<1> DEFINE x == [op |-> o, pc |-> l, ch |-> ch, item |-> item]
<1>1. x \in ReqRecord /\ req' = [req EXCEPT ![r] = x]
  BY DEF Start, ReqRecord
<1>2. req'[r] = x
  BY <1>1, ReqType DEF TwoFactorInv
<1>3. req' \in [Request -> ReqRecord] /\ \A q \in Request \ {r} : req'[q] = req[q]
  BY <1>1, Moves
<1> QED  BY <1>2, <1>3, StepInMemory DEF Start

LEMMA StartsPreserve ==
    ASSUME TwoFactorInv, NEW r \in Request,
           \/ Login(r) \/ InitiateMyEnable(r) \/ RequestRecovery(r) \/ DisableMine(r) \/ AdminReset(r)
           \/ \E o \in Otp : VerifyRecovery(r, o)
           \/ \E ch \in Challenge :
                \/ InitiateSetup(r, ch) \/ Confirm(r, ch) \/ VerifyTotp(r, ch) \/ SendEmailOtp(r, ch)
                \/ ResetAfterRecovery(r, ch)
                \/ (\E c \in Challenge : VerifyBackup(r, ch, c))
                \/ (\E o \in Otp : VerifyEmail(r, ch, o))
    PROVE  TwoFactorInv'
<1>1. \A ch \in Challenge : ch # None
  BY NoneAssumption
<1>2. CASE Login(r) \/ InitiateMyEnable(r) \/ RequestRecovery(r) \/ DisableMine(r) \/ AdminReset(r)
  BY <1>2, Started DEF Login, InitiateMyEnable, RequestRecovery, DisableMine, AdminReset,
                       Names, Presents, Pc
<1>3. CASE \E o \in Otp : VerifyRecovery(r, o)
  BY <1>3, Started DEF VerifyRecovery, Names, Presents, Pc
<1>4. ASSUME NEW ch \in Challenge,
             InitiateSetup(r, ch) \/ Confirm(r, ch) \/ VerifyTotp(r, ch) \/ SendEmailOtp(r, ch)
               \/ ResetAfterRecovery(r, ch)
      PROVE  TwoFactorInv'
  BY <1>1, <1>4, Started DEF InitiateSetup, Confirm, VerifyTotp, SendEmailOtp, ResetAfterRecovery,
                             Valid, Names, Presents, Pc
<1>5. ASSUME NEW ch \in Challenge, NEW c \in Challenge, VerifyBackup(r, ch, c)  PROVE TwoFactorInv'
  BY <1>1, <1>5, Started DEF VerifyBackup, Valid, Names, Presents, Pc
<1>6. ASSUME NEW ch \in Challenge, NEW o \in Otp, VerifyEmail(r, ch, o)  PROVE TwoFactorInv'
  BY <1>1, <1>6, Started DEF VerifyEmail, Valid, Names, Presents, Pc
<1> QED  BY <1>2, <1>3, <1>4, <1>5, <1>6

LEMMA ReadsPreserve ==
    ASSUME TwoFactorInv, NEW r \in Request,
           ReadSecret(r) \/ FindCode(r) \/ FindOtp(r) \/ Recheck(r)
    PROVE  TwoFactorInv'
<1>1. CASE End(r) /\ UNCHANGED <<user, challenge, code, otp, history>>
  BY <1>1, Answered
<1>2. ASSUME NEW l \in {"consume", "disable", "mark_code", "mark_otp", "issue_recovery"},
             Goto(r, l), UNCHANGED <<user, challenge, code, otp, history>>,
             l = "consume" => req[r].op = "totp" /\ enabled,
             l = "mark_code" => req[r].pc = "find_code",
             l = "mark_otp" => req[r].pc = "find_otp"
      PROVE  TwoFactorInv'
  <2>1. l \in Pc
    BY DEF Pc
  <2>2. req' \in [Request -> ReqRecord] /\ \A q \in Request \ {r} : req'[q] = req[q]
    BY <1>2, <2>1, Moves
  <2>3. Names(req[r]) /\ (req[r].ch # None => challenge[req[r].ch].state # "none")
    BY DEF TwoFactorInv, Holds
  <2>4. /\ req'[r].op = req[r].op /\ req'[r].pc = l /\ req'[r].ch = req[r].ch
        /\ req'[r].item = req[r].item
    BY <1>2, <2>1, Goes
  <2>5. Names(req'[r])
    BY <1>2, <2>3, <2>4 DEF Names, Presents
  <2> QED  BY <1>2, <2>2, <2>3, <2>4, <2>5, StepInMemory
<1>3. secret # None => enabled
  BY DEF TwoFactorInv, TypeOK
<1> QED  BY <1>1, <1>2, <1>3 DEF ReadSecret, FindCode, FindOtp, Recheck

LEMMA StopPreserves ==
    ASSUME TwoFactorInv, NEW r \in Request, Stop(r)
    PROVE  TwoFactorInv'
<1>1. /\ End(r) /\ UNCHANGED <<user, challenge, code, otp, uses, accepted, begun>>
      /\ cut' \in BOOLEAN
  BY DEF Stop
<1>2. /\ req' \in [Request -> ReqRecord] /\ req'[r] = Idle
      /\ \A q \in Request \ {r} : req'[q] = req[q]
  BY <1>1, Moves, Ends
<1> USE DEF TwoFactorInv, user
<1>3. TypeOK'
  BY <1>1, <1>2 DEF TypeOK, ReqRecord
<1>4. \A q \in Request : Holds(q)'
  BY <1>1, <1>2, IdleRecord DEF Holds, Owns, Idle
<1>5. OneOwner'
  BY <1>1, <1>2, IdleRecord DEF OneOwner, Owns
<1>6. Counted'
  BY <1>1 DEF Counted
<1> QED  BY <1>3, <1>4, <1>5, <1>6

-----------------------------------------------------------------------------
(* The steps that write.                                                   *)
LEMMA IssuePreserves ==
    ASSUME TwoFactorInv, NEW r \in Request, NEW ch \in Challenge, Issue(r, ch)
    PROVE  TwoFactorInv'
<1>1. /\ challenge[ch].state = "none" /\ End(r)
      /\ UNCHANGED <<enabled, policy, secret, code, otp, uses, accepted, cut>>
  BY DEF Issue, user
<1>2. PICK x \in RowRecord : x.state = "unused" /\ challenge' = [challenge EXCEPT ![ch] = x]
  <2> DEFINE t == CASE req[r].pc = "issue_verify"   -> "verify"
                    [] req[r].pc = "issue_recovery" -> "recovery"
                    [] OTHER                        -> "setup"
             b == req[r].pc = "issue_secret"
  <2>1. t \in {"setup", "verify", "recovery"}
    OBVIOUS
  <2>2. b \in BOOLEAN
    OBVIOUS
  <2>3. challenge' = [challenge EXCEPT ![ch] = [type |-> t, secret |-> b, state |-> "unused"]]
    BY DEF Issue
  <2> HIDE DEF t, b
  <2>4. [type |-> t, secret |-> b, state |-> "unused"] \in RowRecord
    BY <2>1, <2>2 DEF RowRecord, RowState
  <2> QED  BY <2>3, <2>4
<1>3. challenge \in [Challenge -> RowRecord]
  BY DEF TwoFactorInv, TypeOK, RowRecord
<1>4. /\ challenge' \in [Challenge -> RowRecord] /\ challenge'[ch] = x
      /\ \A k \in Challenge \ {ch} : challenge'[k] = challenge[k]
  BY <1>2, <1>3
<1>5. /\ req' \in [Request -> ReqRecord] /\ req'[r] = Idle
      /\ \A q \in Request \ {r} : req'[q] = req[q]
  BY <1>1, Moves, Ends
<1>6. begun' \in [Challenge -> BOOLEAN]
  <2>1. req[r].op = "initiate" => req[r].ch \in Challenge
    BY DEF TwoFactorInv, TypeOK, Holds, Names, Presents
  <2>2. begun \in [Challenge -> BOOLEAN]
    BY DEF TwoFactorInv, TypeOK
  <2>3. \/ begun' = begun
        \/ req[r].op = "initiate" /\ begun' = [begun EXCEPT ![req[r].ch] = TRUE]
    BY DEF Issue
  <2> QED  BY <2>1, <2>2, <2>3
<1>7. TypeOK'
  BY <1>1, <1>4, <1>5, <1>6 DEF TwoFactorInv, TypeOK, ReqRecord, RowRecord
<1>8. ASSUME NEW q \in Request  PROVE Holds(q)'
  <2>1. CASE q = r
    BY <1>5, <2>1, IdleRecord DEF Holds, Owns, Idle
  <2>2. CASE q # r
    <3>1. req'[q] = req[q] /\ Holds(q) /\ req[q].ch \in Challenge \cup {None} /\ req[q].ch # ch
      BY <1>1, <1>5, <2>2, NoneAssumption DEF TwoFactorInv, Holds, TypeOK
    <3>2. req[q].ch \in Challenge => challenge'[req[q].ch] = challenge[req[q].ch]
      BY <1>4, <3>1
    <3>3. Owns(q) \/ req[q].op = "totp" => req[q].ch # None
      BY <3>1 DEF Holds, Names, Owns, Presents
    <3> QED  BY <1>1, <3>1, <3>2, <3>3 DEF Holds, Owns
  <2> QED  BY <2>1, <2>2
<1>9. OneOwner'
  BY <1>5, IdleRecord DEF TwoFactorInv, OneOwner, Owns
<1>10. Counted'
  BY <1>1, <1>2, <1>4 DEF TwoFactorInv, Counted
<1> QED  BY <1>7, <1>8, <1>9, <1>10 DEF TwoFactorInv

\* A challenge that is no longer unused: expired, used or used up.
LEMMA WithdrawPreserves ==
    ASSUME TwoFactorInv, NEW ch \in Challenge, NEW s \in {"used", "gone"},
           challenge[ch].state = "unused",
           challenge' = [challenge EXCEPT ![ch].state = s],
           UNCHANGED <<enabled, policy, secret, code, otp, req, accepted, begun, cut>>,
           uses' = uses \/ uses' = [uses EXCEPT ![ch] = @ + 1]
    PROVE  TwoFactorInv'
<1>1. challenge \in [Challenge -> RowRecord]
  BY DEF TwoFactorInv, TypeOK, RowRecord
<1>2. /\ challenge' \in [Challenge -> RowRecord] /\ challenge'[ch].state = s
      /\ \A k \in Challenge \ {ch} : challenge'[k] = challenge[k]
  BY <1>1 DEF RowRecord, RowState
<1>3. uses' \in [Challenge -> Nat] /\ \A k \in Challenge \ {ch} : uses'[k] = uses[k]
  BY DEF TwoFactorInv, TypeOK
<1>4. TypeOK'
  BY <1>2, <1>3 DEF TwoFactorInv, TypeOK, RowRecord
<1>5. ASSUME NEW q \in Request  PROVE Holds(q)'
  <2>1. Holds(q) /\ req[q].ch \in Challenge \cup {None}
    BY DEF TwoFactorInv, TypeOK
  <2>2. Owns(q) \/ req[q].op = "totp" => req[q].ch # None
    BY <2>1 DEF Holds, Names, Owns, Presents
  <2> QED  BY <1>2, <2>1, <2>2 DEF Holds, Owns
<1>6. OneOwner'
  BY DEF TwoFactorInv, OneOwner, Owns
<1>7. Counted'
  BY <1>2, <1>3 DEF TwoFactorInv, Counted
<1> QED  BY <1>4, <1>5, <1>6, <1>7 DEF TwoFactorInv

\* consume and its use by initiate: the request goes on, and may be the owner.
LEMMA ConsumePreserves ==
    ASSUME TwoFactorInv, NEW r \in Request, Consume(r) \/ UseUp(r)
    PROVE  TwoFactorInv'
<1> DEFINE k == req[r].ch
<1>1. /\ Holds(r) /\ k \in Challenge /\ req[r].op \in Presents
      /\ challenge[k].state # "none"
  BY DEF TwoFactorInv, TypeOK, Holds, Names, Presents, Consume, UseUp
<1>2. CASE challenge[k].state # "unused" /\ Consume(r)
  BY <1>2, Answered DEF Consume, user, history
<1>3. CASE UseUp(r) \/ (challenge[k].state = "unused" /\ Consume(r))
  <2>1. PICK l \in {"idle", "enable", "disable", "issue_secret"} :
          /\ (l = "idle" /\ End(r)) \/ (l # "idle" /\ Goto(r, l))
          /\ l = "enable" => req[r].op = "confirm" /\ challenge[k].state = "unused"
          /\ challenge' = IF challenge[k].state = "unused"
                            THEN [challenge EXCEPT ![k].state = "used"] ELSE challenge
          /\ UNCHANGED <<enabled, policy, secret, code, otp, accepted, begun, cut>>
          /\ uses' = uses \/ (uses' = [uses EXCEPT ![k] = @ + 1] /\ challenge[k].state = "unused")
    BY <1>3 DEF Consume, UseUp, user, history
  <2>2. l \in Pc
    BY DEF Pc
  <2>3. req' \in [Request -> ReqRecord] /\ \A q \in Request \ {r} : req'[q] = req[q]
    BY <2>1, <2>2, Moves
  <2>4. \/ req'[r] = Idle /\ l = "idle"
        \/ /\ req'[r].op = req[r].op /\ req'[r].pc = l /\ req'[r].ch = k
           /\ req'[r].item = req[r].item /\ l # "idle"
    BY <2>1, <2>2, Ends, Goes
  <2>5. challenge \in [Challenge -> RowRecord]
    BY DEF TwoFactorInv, TypeOK, RowRecord
  <2>6. /\ challenge' \in [Challenge -> RowRecord]
        /\ challenge'[k].state = IF challenge[k].state = "unused" THEN "used" ELSE challenge[k].state
        /\ \A c \in Challenge \ {k} : challenge'[c] = challenge[c]
    BY <1>1, <2>1, <2>5 DEF RowRecord, RowState
  <2>7. /\ uses' \in [Challenge -> Nat] /\ \A c \in Challenge \ {k} : uses'[c] = uses[c]
        /\ challenge[k].state # "unused" => uses' = uses
    BY <1>1, <2>1 DEF TwoFactorInv, TypeOK
  <2>8. TypeOK'
    BY <2>1, <2>3, <2>6, <2>7 DEF TwoFactorInv, TypeOK, ReqRecord, RowRecord
  <2>9. ASSUME NEW q \in Request, q # r  PROVE Holds(q)' /\ (Owns(q) /\ l = "enable" => req[q].ch # k)
    <3>1. Holds(q) /\ req[q].ch \in Challenge \cup {None} /\ req'[q] = req[q]
      BY <2>3, <2>9 DEF TwoFactorInv, TypeOK
    <3>2. Owns(q) \/ req[q].op = "totp" => req[q].ch # None
      BY <3>1 DEF Holds, Names, Owns, Presents
    <3> QED  BY <2>1, <2>6, <3>1, <3>2 DEF Holds, Owns
  <2>10. Holds(r)'
    <3>1. CASE req'[r] = Idle
      BY <3>1, IdleRecord DEF Holds, Owns, Idle
    <3>2. CASE req'[r] # Idle
      <4>1. Names(req'[r])
        BY <1>1, <2>1, <2>4, <3>2 DEF Holds, Names, Presents
      <4>2. l = "enable" => challenge'[k].state = "used" /\ code'[k] = "none"
        BY <1>1, <2>1, <2>6 DEF TwoFactorInv, Counted
      <4> QED  BY <1>1, <2>1, <2>4, <2>6, <3>2, <4>1, <4>2 DEF Holds, Owns
    <3> QED  BY <3>1, <3>2
  <2>11. OneOwner'
    <3>1. \A q \in Request \ {r} : Owns(q)' <=> Owns(q)
      BY <2>3 DEF Owns
    <3>2. Owns(r)' => l = "enable" /\ req'[r].ch = k
      BY <2>1, <2>4, IdleRecord DEF Owns
    <3> QED  BY <2>3, <2>9, <3>1, <3>2 DEF TwoFactorInv, OneOwner
  <2>12. Counted'
    BY <1>1, <2>1, <2>6, <2>7 DEF TwoFactorInv, Counted
  <2> QED  BY <2>8, <2>9, <2>10, <2>11, <2>12 DEF TwoFactorInv
<1> QED  BY <1>2, <1>3

\* The owner of an enrolment stores the secret and then new codes.
LEMMA EnrolPreserves ==
    ASSUME TwoFactorInv, NEW r \in Request, Enable(r) \/ DropCodes(r) \/ AddCodes(r)
    PROVE  TwoFactorInv'
<1> DEFINE k == req[r].ch
<1>1. /\ Holds(r) /\ Owns(r) /\ k \in Challenge /\ req[r].op = "confirm"
      /\ challenge[k].state = "used" /\ code[k] = "none"
  BY DEF TwoFactorInv, TypeOK, Holds, Owns, Names, Presents, Enable, DropCodes, AddCodes
<1>2. PICK l \in {"idle", "drop_codes", "add_codes"} :
        /\ (l = "idle" /\ End(r)) \/ (l # "idle" /\ Goto(r, l))
        /\ UNCHANGED <<policy, challenge, otp, uses, accepted, begun>> /\ cut' \in BOOLEAN
        /\ (enabled' = enabled /\ secret' = secret) \/ (enabled' = TRUE /\ secret' = k)
        /\ \/ code' = code
           \/ code' = [c \in Challenge |-> IF code[c] = "unused" THEN "gone" ELSE code[c]]
           \/ l = "idle" /\ code' = [code EXCEPT ![k] = "unused"]
  <2>0. cut \in BOOLEAN
    BY DEF TwoFactorInv, TypeOK
  <2>1. CASE Enable(r)
    <3>1. Goto(r, "drop_codes") /\ enabled' = TRUE /\ secret' = k /\ code' = code
      BY <2>1 DEF Enable
    <3> QED  BY <2>0, <2>1, <3>1 DEF Enable, history
  <2>2. CASE DropCodes(r)
    <3>1. /\ Goto(r, "add_codes") /\ enabled' = enabled /\ secret' = secret
          /\ code' = [c \in Challenge |-> IF code[c] = "unused" THEN "gone" ELSE code[c]]
          /\ UNCHANGED <<policy, challenge, otp, uses, accepted, begun>> /\ cut' \in BOOLEAN
      BY <2>0, <2>2 DEF DropCodes, user, history
    <3> WITNESS "add_codes" \in {"idle", "drop_codes", "add_codes"}
    <3> QED  BY <3>1
  <2>3. CASE AddCodes(r)
    <3>1. /\ End(r) /\ enabled' = enabled /\ secret' = secret
          /\ code' = [code EXCEPT ![k] = "unused"]
          /\ UNCHANGED <<policy, challenge, otp, uses, accepted, begun>> /\ cut' \in BOOLEAN
      BY <2>3 DEF AddCodes, user, history
    <3> WITNESS "idle" \in {"idle", "drop_codes", "add_codes"}
    <3> QED  BY <3>1
  <2> QED  BY <2>1, <2>2, <2>3
<1>3. l \in Pc
  BY DEF Pc
<1>4. req' \in [Request -> ReqRecord] /\ \A q \in Request \ {r} : req'[q] = req[q]
  BY <1>2, <1>3, Moves
<1>5. \/ req'[r] = Idle /\ l = "idle"
      \/ /\ req'[r].op = req[r].op /\ req'[r].pc = l /\ req'[r].ch = k
         /\ req'[r].item = req[r].item /\ l # "idle"
  BY <1>2, <1>3, Ends, Goes
<1>6. /\ code' \in [Challenge -> RowState]
      /\ \A c \in Challenge \ {k} :
           /\ code[c] = "none" => code'[c] = "none"
           /\ code'[c] \in {"none", "unused"} => code'[c] = code[c]
      /\ code'[k] = "none" \/ (l = "idle" /\ code'[k] = "unused")
  BY <1>1, <1>2 DEF TwoFactorInv, TypeOK, RowState
<1>7. TypeOK'
  <2>1. enabled' \in BOOLEAN /\ secret' \in Challenge \cup {None} /\ (enabled' <=> secret' # None)
    <3>1. CASE enabled' = enabled /\ secret' = secret
      BY <3>1 DEF TwoFactorInv, TypeOK
    <3>2. CASE enabled' = TRUE /\ secret' = k
      BY <1>1, <3>2, NoneAssumption
    <3> QED  BY <1>2, <3>1, <3>2
  <2> QED  BY <1>2, <1>4, <1>6, <2>1 DEF TwoFactorInv, TypeOK, ReqRecord
<1>8. ASSUME NEW q \in Request, q # r  PROVE Holds(q)'
  <2>1. Holds(q) /\ req[q].ch \in Challenge \cup {None} /\ req'[q] = req[q]
    BY <1>4, <1>8 DEF TwoFactorInv, TypeOK
  <2>2. Owns(q) => req[q].ch # None /\ req[q].ch # k
    BY <1>1, <1>8, <2>1 DEF TwoFactorInv, OneOwner, Holds, Names, Owns, Presents
  <2>3. Owns(q) => challenge'[req[q].ch].state = "used" /\ code'[req[q].ch] = "none"
    BY <1>2, <1>6, <2>1, <2>2 DEF Holds
  <2>4. enabled => enabled'
    BY <1>2
  <2> QED  BY <1>2, <2>1, <2>3, <2>4 DEF Holds, Owns
<1>9. Holds(r)'
  <2>1. CASE req'[r] = Idle
    BY <2>1, IdleRecord DEF Holds, Owns, Idle
  <2>2. CASE req'[r] # Idle
    <3>1. Names(req'[r])
      BY <1>1, <1>2, <1>5, <2>2 DEF Holds, Names, Presents
    <3> QED  BY <1>1, <1>2, <1>5, <1>6, <2>2, <3>1 DEF Holds, Owns
  <2> QED  BY <2>1, <2>2
<1>10. OneOwner'
  <2>1. \A q \in Request \ {r} : Owns(q)' <=> Owns(q)
    BY <1>4 DEF Owns
  <2>2. Owns(r)' => req'[r].ch = k
    BY <1>2, <1>5, IdleRecord DEF Owns
  <2> QED  BY <1>1, <1>4, <2>1, <2>2 DEF TwoFactorInv, OneOwner
<1>11. Counted'
  BY <1>1, <1>2, <1>6 DEF TwoFactorInv, Counted
<1> QED  BY <1>7, <1>8, <1>9, <1>10, <1>11 DEF TwoFactorInv

\* The conditional updates that mark a code, mailed or not.
LEMMA MarkPreserves ==
    ASSUME TwoFactorInv, NEW r \in Request, MarkCode(r) \/ MarkOtp(r)
    PROVE  TwoFactorInv'
<1> DEFINE i == req[r].item
<1>1. /\ Holds(r) /\ req[r].ch \in Challenge \cup {None}
      /\ req[r].op = "backup" \/ req[r].op = "email" => req[r].ch # None
      /\ MarkCode(r) => req[r].op = "backup" /\ i \in Challenge
      /\ MarkOtp(r) => i \in Otp
  BY DEF TwoFactorInv, TypeOK, Holds, Names, Presents, MarkCode, MarkOtp
<1>2. CASE End(r) /\ UNCHANGED <<user, challenge, code, otp, history>>
  BY <1>2, Answered
<1>3. ASSUME \/ MarkCode(r) /\ code[i] = "unused" /\ code' = [code EXCEPT ![i] = "used"] /\ otp' = otp
             \/ /\ MarkOtp(r) /\ otp[i] \in {"unused", "expired"}
                /\ otp' = [otp EXCEPT ![i] = "used"] /\ code' = code,
             accepted' = [accepted EXCEPT ![i] = @ + 1],
             Goto(r, "consume") \/ Goto(r, "recheck"),
             Goto(r, "consume") => req[r].op \in {"backup", "email"},
             UNCHANGED <<enabled, policy, secret, challenge, uses, begun, cut>>
      PROVE  TwoFactorInv'
  <2>1. PICK l \in {"consume", "recheck"} : Goto(r, l)
    BY <1>3
  <2>2. l \in Pc
    BY DEF Pc
  <2>3. req' \in [Request -> ReqRecord] /\ \A q \in Request \ {r} : req'[q] = req[q]
    BY <2>1, <2>2, Moves
  <2>4. /\ req'[r].op = req[r].op /\ req'[r].pc = l /\ req'[r].ch = req[r].ch
        /\ req'[r].item = req[r].item
    BY <2>1, <2>2, Goes
  <2>5. accepted' \in [Challenge \cup Otp -> Nat] /\ \A c \in (Challenge \cup Otp) \ {i} : accepted'[c] = accepted[c]
    BY <1>1, <1>3 DEF TwoFactorInv, TypeOK
  <2>6. /\ code' \in [Challenge -> RowState] /\ otp' \in [Otp -> OtpState]
        /\ \A c \in Challenge : \/ code'[c] = code[c] /\ c # i
                                \/ code[c] = "unused" /\ code'[c] = "used"
                                \/ MarkOtp(r) /\ code'[c] = code[c]
        /\ \A o \in Otp : \/ otp'[o] = otp[o] /\ o # i
                          \/ otp[o] \in {"unused", "expired"} /\ otp'[o] = "used"
                          \/ MarkCode(r) /\ otp'[o] = otp[o]
    BY <1>1, <1>3 DEF TwoFactorInv, TypeOK, RowState, OtpState
  <2>7. TypeOK'
    BY <1>3, <2>3, <2>5, <2>6 DEF TwoFactorInv, TypeOK, ReqRecord
  <2>8. \A c \in Challenge : code[c] = "none" => code'[c] = "none"
    BY <2>6
  <2>9. ASSUME NEW q \in Request, q # r  PROVE Holds(q)'
    <3>1. Holds(q) /\ req[q].ch \in Challenge \cup {None} /\ req'[q] = req[q]
      BY <2>3, <2>9 DEF TwoFactorInv, TypeOK
    <3>2. Owns(q) => req[q].ch # None
      BY <3>1 DEF Holds, Names, Owns, Presents
    <3> QED  BY <1>3, <2>8, <3>1, <3>2 DEF Holds, Owns
  <2>10. Holds(r)'
    <3>1. l = "consume" => req[r].op \in {"backup", "email"}
      BY <1>3, <2>1
    <3>2. Names(req'[r])
      BY <1>1, <2>4, <3>1 DEF Names, Presents, Holds
    <3> QED  BY <1>1, <1>3, <2>4, <3>1, <3>2 DEF Holds, Owns
  <2>11. OneOwner'
    BY <2>3, <2>4 DEF TwoFactorInv, OneOwner, Owns
  <2>12. Counted'
    <3>1. i \in Challenge => i \notin Otp
      BY DisjointAssumption
    <3> QED  BY <1>1, <1>3, <2>5, <2>6, <2>8, <3>1 DEF TwoFactorInv, Counted
  <2> QED  BY <2>7, <2>9, <2>10, <2>11, <2>12 DEF TwoFactorInv
<1>4. CASE MarkCode(r)
  <2>1. CASE code[i] = "unused"
    <3>1. /\ code' = [code EXCEPT ![i] = "used"] /\ accepted' = [accepted EXCEPT ![i] = @ + 1]
          /\ Goto(r, "consume") /\ UNCHANGED <<enabled, policy, secret, challenge, otp, uses, begun, cut>>
      BY <1>4, <2>1 DEF MarkCode, user
    <3> QED  BY <1>1, <1>3, <1>4, <2>1, <3>1
  <2>2. CASE code[i] # "unused"
    BY <1>2, <1>4, <2>2 DEF MarkCode, history
  <2> QED  BY <2>1, <2>2
<1>5. CASE MarkOtp(r)
  <2>1. CASE otp[i] \in {"unused", "expired"}
    <3>1. /\ otp' = [otp EXCEPT ![i] = "used"] /\ accepted' = [accepted EXCEPT ![i] = @ + 1]
          /\ Goto(r, IF req[r].op = "email" THEN "consume" ELSE "recheck")
          /\ UNCHANGED <<enabled, policy, secret, challenge, code, uses, begun, cut>>
      BY <1>5, <2>1 DEF MarkOtp, user
    <3>2. Goto(r, "consume") => req[r].op = "email"
      <4>1. CASE req[r].op # "email"
        <5>1. Goto(r, "recheck")
          BY <3>1, <4>1
        <5>2. req'[r].pc = "recheck" /\ (Goto(r, "consume") => req'[r].pc = "consume")
          BY <5>1, Goes DEF Pc
        <5> QED  BY <5>2
      <4> QED  BY <4>1
    <3> QED  BY <1>1, <1>3, <1>5, <2>1, <3>1, <3>2
  <2>2. CASE otp[i] \notin {"unused", "expired"}
    BY <1>2, <1>5, <2>2 DEF MarkOtp, history
  <2> QED  BY <2>1, <2>2
<1> QED  BY <1>4, <1>5

\* A mailed code comes or goes.
LEMMA OtpRowsPreserve ==
    ASSUME TwoFactorInv,
           (\E r \in Request, o \in Otp : MintOtp(r, o)) \/ (\E o \in Otp : ExpireOtp(o) \/ LoseOtp(o))
    PROVE  TwoFactorInv'
<1>1. ASSUME NEW o \in Otp, NEW s \in {"unused", "expired", "gone"},
             otp[o] \in {"none", "unused", "expired"}, otp' = [otp EXCEPT ![o] = s],
             UNCHANGED <<enabled, policy, secret, challenge, code, uses, accepted, begun, cut>>,
             \/ req' = req
             \/ \E r \in Request : End(r)
      PROVE  TwoFactorInv'
  <2>1. /\ req' \in [Request -> ReqRecord]
        /\ \A q \in Request : req'[q] = req[q] \/ req'[q] = Idle
    BY <1>1, Moves, Ends, ReqType DEF TwoFactorInv
  <2>2. /\ otp' \in [Otp -> OtpState]
        /\ \A p \in Otp : otp'[p] = otp[p] \/ otp[p] \in {"none", "unused", "expired"}
    BY <1>1 DEF TwoFactorInv, TypeOK, RowState, OtpState
  <2>3. TypeOK'
    BY <1>1, <2>1, <2>2 DEF TwoFactorInv, TypeOK, ReqRecord
  <2>4. \A q \in Request : Holds(q)'
    BY <1>1, <2>1, IdleRecord DEF TwoFactorInv, Holds, Owns, Idle
  <2>5. OneOwner'
    BY <2>1, IdleRecord DEF TwoFactorInv, OneOwner, Owns
  <2>6. Counted'
    BY <1>1, <2>2 DEF TwoFactorInv, Counted
  <2> QED  BY <2>3, <2>4, <2>5, <2>6 DEF TwoFactorInv
<1> QED  BY <1>1 DEF MintOtp, ExpireOtp, LoseOtp, user, history

LEMMA DisablePreserves ==
    ASSUME TwoFactorInv, NEW r \in Request, Disable(r)
    PROVE  TwoFactorInv'
<1>1. /\ enabled' = FALSE /\ secret' = None /\ End(r)
      /\ code' = [c \in Challenge |-> IF code[c] = "none" THEN "none" ELSE "gone"]
      /\ UNCHANGED <<policy, otp, uses, accepted, begun, cut>>
  BY DEF Disable, history
<1>2. challenge \in [Challenge -> RowRecord]
  BY DEF TwoFactorInv, TypeOK, RowRecord
<1>3. /\ challenge' \in [Challenge -> RowRecord]
      /\ \A ch \in Challenge : \/ challenge[ch].state = "unused" /\ challenge'[ch].state = "gone"
                               \/ challenge[ch].state # "unused" /\ challenge'[ch] = challenge[ch]
  <2>1. \A ch \in Challenge : [challenge[ch] EXCEPT !.state = "gone"] \in RowRecord
    BY <1>2 DEF RowRecord, RowState
  <2>2. challenge' = [ch \in Challenge |->
          IF challenge[ch].state = "unused" THEN [challenge[ch] EXCEPT !.state = "gone"]
          ELSE challenge[ch]]
    BY DEF Disable
  <2>3. \A ch \in Challenge : [challenge[ch] EXCEPT !.state = "gone"].state = "gone"
    BY <1>2 DEF RowRecord
  <2> QED  BY <1>2, <2>1, <2>2, <2>3
<1>4. /\ req' \in [Request -> ReqRecord] /\ req'[r] = Idle
      /\ \A q \in Request \ {r} : req'[q] = req[q]
  BY <1>1, Moves, Ends
<1>5. TypeOK'
  BY <1>1, <1>3, <1>4 DEF TwoFactorInv, TypeOK, ReqRecord, RowRecord, RowState
<1>6. ASSUME NEW q \in Request  PROVE Holds(q)'
  <2>1. CASE q = r
    BY <1>4, <2>1, IdleRecord DEF Holds, Owns, Idle
  <2>2. CASE q # r
    <3>1. Holds(q) /\ req[q].ch \in Challenge \cup {None} /\ req'[q] = req[q]
      BY <1>4, <2>2 DEF TwoFactorInv, TypeOK
    <3>2. Owns(q) \/ req[q].op = "totp" => req[q].ch # None
      BY <3>1 DEF Holds, Names, Owns, Presents
    <3> QED  BY <1>1, <1>3, <3>1, <3>2 DEF Holds, Owns
  <2> QED  BY <2>1, <2>2
<1>7. OneOwner'
  BY <1>4, IdleRecord DEF TwoFactorInv, OneOwner, Owns
<1>8. Counted'
  BY <1>1, <1>3 DEF TwoFactorInv, Counted
<1> QED  BY <1>5, <1>6, <1>7, <1>8 DEF TwoFactorInv

LEMMA RequirePreserves ==
    ASSUME TwoFactorInv, NEW r \in Request, NEW v \in BOOLEAN, SetRequired(r, v)
    PROVE  TwoFactorInv'
<1>1. /\ required' \in BOOLEAN /\ overtaken' \subseteq Request
      /\ UNCHANGED <<enabled, secret, challenge, code, otp, req, uses, accepted, begun, cut>>
  BY DEF SetRequired, history
<1> QED  BY <1>1 DEF TwoFactorInv, TypeOK, Holds, Owns, OneOwner, Counted

LEMMA NextTwoFactor == TwoFactorInv /\ [Next]_vars => TwoFactorInv'
<1> SUFFICES ASSUME TwoFactorInv, [Next]_vars PROVE TwoFactorInv'
  OBVIOUS
<1>1. ASSUME NEW ch \in Challenge, ExpireChallenge(ch)  PROVE TwoFactorInv'
  <2>1. /\ challenge[ch].state = "unused" /\ challenge' = [challenge EXCEPT ![ch].state = "gone"]
        /\ UNCHANGED <<enabled, policy, secret, code, otp, req, accepted, begun, cut, uses>>
    BY <1>1 DEF ExpireChallenge, user, history
  <2> QED  BY <2>1, WithdrawPreserves
<1>2. ASSUME NEW r \in Request, NEW ch \in Challenge, Present(r, ch)  PROVE TwoFactorInv'
  BY <1>2, StartsPreserve, IssuePreserves DEF Present
<1>3. ASSUME NEW r \in Request, \E o \in Otp : VerifyRecovery(r, o) \/ MintOtp(r, o)
      PROVE  TwoFactorInv'
  BY <1>3, StartsPreserve, OtpRowsPreserve
<1>4. ASSUME NEW r \in Request, Handle(r)  PROVE TwoFactorInv'
  BY <1>2, <1>3, <1>4, StartsPreserve, ReadsPreserve, StopPreserves, ConsumePreserves, EnrolPreserves,
     MarkPreserves, DisablePreserves, RequirePreserves DEF Handle
<1>5. CASE UNCHANGED vars
  BY <1>5 DEF vars, user, history, TwoFactorInv, TypeOK, Holds, Owns, OneOwner, Counted
<1> QED  BY <1>1, <1>4, <1>5, OtpRowsPreserve DEF Next

LEMMA TwoFactorInvariant == Spec => []TwoFactorInv
BY InitTwoFactor, NextTwoFactor, PTL DEF Spec

-----------------------------------------------------------------------------
(* Challenges and codes against OneTime.                                   *)
LEMMA ChallengeSteps ==
    ASSUME TwoFactorInv, Next
    PROVE  [ChallengeTickets!OneTimeNext]_<<LiveChallenges, {}, uses>>
<1>1. ASSUME challenge' = challenge, uses' = uses
      PROVE  UNCHANGED <<LiveChallenges, uses>>
  BY <1>1 DEF LiveChallenges
<1>2. ASSUME uses' = uses, LiveChallenges' \subseteq LiveChallenges
      PROVE  ChallengeTickets!OneTimeNext
  <2>1. ChallengeTickets!Withdraw
    BY <1>2 DEF ChallengeTickets!Withdraw
  <2> QED  BY <2>1 DEF ChallengeTickets!OneTimeNext
<1>3. challenge \in [Challenge -> RowRecord]
  BY DEF TwoFactorInv, TypeOK, RowRecord
<1>4. ASSUME NEW ch \in Challenge, ExpireChallenge(ch)  PROVE ChallengeTickets!OneTimeNext
  BY <1>2, <1>3, <1>4 DEF ExpireChallenge, LiveChallenges, history, RowRecord
<1>5. ASSUME NEW r \in Request, Handle(r)
      PROVE  [ChallengeTickets!OneTimeNext]_<<LiveChallenges, {}, uses>>
  <2>1. ASSUME NEW ch \in Challenge, Issue(r, ch)  PROVE ChallengeTickets!OneTimeNext
    <3>1. /\ uses' = uses /\ challenge[ch].state = "none" /\ uses[ch] = 0
          /\ challenge'[ch].state = "unused"
          /\ \A k \in Challenge \ {ch} : challenge'[k] = challenge[k]
      BY <1>3, <2>1 DEF Issue, TwoFactorInv, Counted
    <3>2. ChallengeTickets!Issue(ch)
      BY <3>1 DEF ChallengeTickets!Issue, LiveChallenges
    <3> QED  BY <3>2 DEF ChallengeTickets!OneTimeNext
  <2>2. CASE Consume(r)
    <3> DEFINE k == req[r].ch
    <3>1. k \in Challenge
      BY <2>2 DEF TwoFactorInv, TypeOK, Holds, Names, Consume
    <3>2. CASE challenge[k].state = "unused"
      <4>1. /\ uses[k] = 0 /\ uses \in [Challenge -> Nat]
            /\ challenge' = [challenge EXCEPT ![k].state = "used"]
            /\ uses' = [uses EXCEPT ![k] = @ + 1]
        BY <2>2, <3>1, <3>2 DEF Consume, TwoFactorInv, Counted, TypeOK
      <4>2. uses' = [uses EXCEPT ![k] = 1] /\ LiveChallenges' = LiveChallenges \ {k}
        BY <1>3, <3>1, <4>1 DEF LiveChallenges, RowRecord
      <4>3. ChallengeTickets!Redeem(k)
        BY <3>1, <3>2, <4>1, <4>2 DEF ChallengeTickets!Redeem, LiveChallenges
      <4> QED  BY <3>1, <4>3 DEF ChallengeTickets!OneTimeNext
    <3>3. CASE challenge[k].state # "unused"
      BY <1>1, <2>2, <3>3 DEF Consume
    <3> QED  BY <3>2, <3>3
  <2>3. CASE UseUp(r)
    <3>1. uses' = uses /\ LiveChallenges' \subseteq LiveChallenges
      BY <1>3, <2>3 DEF UseUp, history, LiveChallenges, RowRecord
    <3> QED  BY <1>2, <3>1
  <2>4. CASE Disable(r)
    <3>1. uses' = uses /\ LiveChallenges' \subseteq LiveChallenges
      BY <1>3, <2>4 DEF Disable, history, LiveChallenges, RowRecord
    <3> QED  BY <1>2, <3>1
  <2>5. ASSUME \/ Login(r) \/ InitiateMyEnable(r) \/ RequestRecovery(r) \/ DisableMine(r) \/ AdminReset(r)
               \/ \E ch \in Challenge : Present(r, ch) /\ ~Issue(r, ch)
               \/ \E o \in Otp : VerifyRecovery(r, o) \/ MintOtp(r, o)
               \/ Enable(r) \/ DropCodes(r) \/ AddCodes(r) \/ ReadSecret(r) \/ FindCode(r)
               \/ MarkCode(r) \/ FindOtp(r) \/ MarkOtp(r) \/ Recheck(r)
               \/ (\E v \in BOOLEAN : SetRequired(r, v)) \/ Stop(r)
        PROVE  challenge' = challenge /\ uses' = uses
    BY <2>5 DEF Login, InitiateMyEnable, RequestRecovery, DisableMine, AdminReset, Present,
         InitiateSetup, Confirm, VerifyTotp, SendEmailOtp, ResetAfterRecovery, VerifyBackup,
         VerifyEmail, VerifyRecovery, MintOtp, Enable, DropCodes, AddCodes, ReadSecret, FindCode,
         MarkCode, FindOtp, MarkOtp, Recheck, SetRequired, Stop, Start, history
  <2> QED  BY <1>1, <1>5, <2>1, <2>2, <2>3, <2>4, <2>5 DEF Handle
<1>6. ASSUME NEW o \in Otp, ExpireOtp(o) \/ LoseOtp(o)  PROVE UNCHANGED <<LiveChallenges, uses>>
  BY <1>1, <1>6 DEF ExpireOtp, LoseOtp, history
<1> QED  BY <1>4, <1>5, <1>6 DEF Next

\* the requests that have found a mailed code
Finders(o) == {r \in Request : req[r].pc = "mark_otp" /\ req[r].item = o}

\* Only the search that finds a mailed code, which is unused, brings a request
\* to its update.
LEMMA FoundUnused ==
    ASSUME TwoFactorInv, Next, NEW o \in Otp, ~(Finders(o)' \subseteq Finders(o))
    PROVE  otp[o] = "unused" /\ otp' = otp
<1>1. PICK q \in Request : q \in Finders(o)' /\ q \notin Finders(o)
  BY DEF Finders
<1>2. req' # req
  BY <1>1 DEF Finders
<1>3. PICK r \in Request : Handle(r)
  BY <1>2 DEF Next, ExpireChallenge, ExpireOtp, LoseOtp
<1>4. req \in [Request -> ReqRecord]
  BY ReqType DEF TwoFactorInv
<1>5. ~End(r)
  BY <1>1, <1>4, IdleRecord DEF End, Finders
<1>6. ASSUME NEW p, NEW l, NEW ch, NEW item, l # "mark_otp"  PROVE ~Start(r, p, l, ch, item)
  <2>1. SUFFICES ASSUME Start(r, p, l, ch, item)  PROVE FALSE
    OBVIOUS
  <2>2. /\ req'[r] = [op |-> p, pc |-> l, ch |-> ch, item |-> item]
        /\ \A x \in Request \ {r} : req'[x] = req[x]
    BY <1>4, <2>1 DEF Start
  <2> QED  BY <1>1, <1>6, <2>2 DEF Finders
<1>7. ASSUME NEW l, l # "mark_otp"  PROVE ~Goto(r, l)
  <2>1. SUFFICES ASSUME Goto(r, l)  PROVE FALSE
    OBVIOUS
  <2>2. /\ req'[r].pc = l /\ \A x \in Request \ {r} : req'[x] = req[x]
    BY <1>4, <2>1 DEF Goto, ReqRecord
  <2> QED  BY <1>1, <1>7, <2>2 DEF Finders
<1>8. ~(Login(r) \/ InitiateMyEnable(r) \/ RequestRecovery(r) \/ DisableMine(r) \/ AdminReset(r))
  BY <1>6 DEF Login, InitiateMyEnable, RequestRecovery, DisableMine, AdminReset
<1>9. \A ch \in Challenge : ~Present(r, ch)
  BY <1>5, <1>6 DEF Present, InitiateSetup, Confirm, VerifyTotp, SendEmailOtp, ResetAfterRecovery,
     VerifyBackup, VerifyEmail, Issue
<1>10. \A p \in Otp : ~VerifyRecovery(r, p) /\ ~MintOtp(r, p)
  BY <1>5, <1>6 DEF VerifyRecovery, MintOtp
<1>11. ~(UseUp(r) \/ Consume(r) \/ Enable(r) \/ DropCodes(r) \/ AddCodes(r) \/ ReadSecret(r)
         \/ FindCode(r) \/ MarkCode(r) \/ MarkOtp(r) \/ Recheck(r) \/ Disable(r) \/ Stop(r))
  BY <1>5, <1>7 DEF UseUp, Consume, Enable, DropCodes, AddCodes, ReadSecret, FindCode, MarkCode,
     MarkOtp, Recheck, Disable, Stop
<1>12. \A v \in BOOLEAN : ~SetRequired(r, v)
  BY <1>2 DEF SetRequired
<1>13. FindOtp(r) /\ Goto(r, "mark_otp") /\ otp[req[r].item] = "unused" /\ otp' = otp
  BY <1>3, <1>5, <1>8, <1>9, <1>10, <1>11, <1>12 DEF Handle, FindOtp
<1>14. req'[r].item = req[r].item /\ \A x \in Request \ {r} : req'[x] = req[x]
  BY <1>4, <1>13 DEF Goto, ReqRecord
<1>15. q = r /\ req[r].item = o
  BY <1>1, <1>14 DEF Finders
<1> QED  BY <1>13, <1>15

LEMMA CodeSteps ==
    ASSUME TwoFactorInv, Next
    PROVE  [CodeTickets!OneTimeNext]_<<LiveCodes, LapsedCodes, accepted>>
<1>1. code \in [Challenge -> RowState] /\ otp \in [Otp -> OtpState] /\ Challenge \cap Otp = {}
  BY DisjointAssumption DEF TwoFactorInv, TypeOK
<1>2. ASSUME accepted' = accepted, LiveCodes' \subseteq LiveCodes,
             \A o \in Otp : otp'[o] = "expired" => otp[o] \in {"unused", "expired"}
      PROVE  CodeTickets!OneTimeNext
  <2>1. ASSUME NEW o \in LapsedCodes'  PROVE o \in (LiveCodes \cup LapsedCodes) \ LiveCodes'
    <3>1. o \in Otp /\ otp'[o] = "expired" /\ o \notin LiveCodes' /\ Finders(o)' # {}
      BY <1>1, <2>1 DEF LapsedCodes, LiveCodes, Finders
    <3>2. CASE otp[o] = "unused"
      BY <3>1, <3>2 DEF LiveCodes
    <3>3. CASE otp[o] = "expired"
      <4>1. Finders(o) # {}
        BY <3>1, <3>3, FoundUnused
      <4> QED  BY <3>1, <3>3, <4>1 DEF LapsedCodes, Finders
    <3> QED  BY <1>2, <3>1, <3>2, <3>3
  <2>2. CodeTickets!Withdraw
    BY <1>2, <2>1 DEF CodeTickets!Withdraw
  <2> QED  BY <2>2 DEF CodeTickets!OneTimeNext
<1>3. ASSUME code' = code, otp' = otp, accepted' = accepted
      PROVE  CodeTickets!OneTimeNext
  BY <1>3, <1>2 DEF LiveCodes
<1>4. ASSUME NEW t \in Challenge \cup Otp, accepted' = accepted, accepted[t] = 0,
             t \notin LiveCodes \cup LapsedCodes, LiveCodes' = LiveCodes \cup {t},
             LapsedCodes' = LapsedCodes
      PROVE  CodeTickets!OneTimeNext
  <2>1. CodeTickets!Issue(t)
    BY <1>4 DEF CodeTickets!Issue
  <2> QED  BY <2>1 DEF CodeTickets!OneTimeNext
<1>5. ASSUME NEW t \in Challenge \cup Otp, accepted' = [accepted EXCEPT ![t] = @ + 1],
             accepted[t] = 0, t \in LiveCodes \cup LapsedCodes, LiveCodes' = LiveCodes \ {t},
             LapsedCodes' = LapsedCodes \ {t}
      PROVE  CodeTickets!OneTimeNext
  <2>1. CodeTickets!Redeem(t)
    BY <1>5 DEF CodeTickets!Redeem, TwoFactorInv, TypeOK
  <2> QED  BY <2>1 DEF CodeTickets!OneTimeNext
<1>6. ASSUME NEW r \in Request, End(r) \/ \E l \in Pc \ {"mark_otp"} : Goto(r, l)
       PROVE  \A o \in Otp : Finders(o)' = Finders(o) \ {r}
  <2>1. /\ req'[r].pc # "mark_otp" /\ \A q \in Request \ {r} : req'[q] = req[q]
    BY <1>6, Moves, Ends, Goes, IdleRecord
  <2> QED  BY <2>1 DEF Finders
<1>7. ASSUME NEW o \in Otp, ExpireOtp(o) \/ LoseOtp(o)  PROVE CodeTickets!OneTimeNext
  <2>1. /\ accepted' = accepted /\ LiveCodes' \subseteq LiveCodes
        /\ \A p \in Otp : otp'[p] = "expired" => otp[p] \in {"unused", "expired"}
    BY <1>1, <1>7 DEF ExpireOtp, LoseOtp, LiveCodes, history
  <2> QED  BY <1>2, <2>1
<1>8. ASSUME NEW r \in Request, NEW o \in Otp, MintOtp(r, o)  PROVE CodeTickets!OneTimeNext
  <2>1. /\ otp[o] = "none" /\ otp' = [otp EXCEPT ![o] = "unused"] /\ code' = code
        /\ accepted' = accepted /\ accepted[o] = 0
    BY <1>8 DEF MintOtp, history, TwoFactorInv, Counted
  <2>2. o \notin LiveCodes \cup LapsedCodes /\ LiveCodes' = LiveCodes \cup {o}
    BY <1>1, <2>1 DEF LiveCodes, LapsedCodes
  <2>3. \A p \in Otp : Finders(p)' = Finders(p)
    BY <1>8, <1>6 DEF MintOtp, Finders
  <2>4. LapsedCodes' = LapsedCodes
    BY <1>1, <2>1, <2>3 DEF LapsedCodes, Finders
  <2> QED  BY <1>4, <2>1, <2>2, <2>4
<1>9. ASSUME NEW r \in Request, AddCodes(r)  PROVE CodeTickets!OneTimeNext
  <2> DEFINE k == req[r].ch
  <2>1. k \in Challenge /\ code[k] = "none" /\ accepted[k] = 0
    BY <1>9 DEF AddCodes, TwoFactorInv, TypeOK, Holds, Names, Presents, Owns, Counted
  <2>2. code' = [code EXCEPT ![k] = "unused"] /\ otp' = otp /\ accepted' = accepted
    BY <1>9 DEF AddCodes, history
  <2>3. k \notin LiveCodes \cup LapsedCodes /\ LiveCodes' = LiveCodes \cup {k}
    BY <1>1, <2>1, <2>2 DEF LiveCodes, LapsedCodes
  <2>4. \A p \in Otp : Finders(p)' = Finders(p)
    BY <1>9, <1>6 DEF AddCodes, Finders
  <2>5. LapsedCodes' = LapsedCodes
    BY <2>2, <2>4 DEF LapsedCodes, Finders
  <2> QED  BY <1>4, <2>1, <2>2, <2>3, <2>5
<1>10. ASSUME NEW r \in Request, MarkCode(r)  PROVE CodeTickets!OneTimeNext
  <2> DEFINE i == req[r].item
  <2>1. i \in Challenge
    BY <1>10 DEF MarkCode, TwoFactorInv, Holds, Names
  <2>2. CASE code[i] = "unused"
    <3>1. /\ code' = [code EXCEPT ![i] = "used"] /\ otp' = otp /\ accepted[i] = 0
          /\ accepted' = [accepted EXCEPT ![i] = @ + 1] /\ Goto(r, "consume")
      BY <1>10, <2>1, <2>2 DEF MarkCode, TwoFactorInv, Counted
    <3>2. i \in LiveCodes /\ LiveCodes' = LiveCodes \ {i} /\ i \notin LapsedCodes
      BY <1>1, <2>1, <2>2, <3>1 DEF LiveCodes, LapsedCodes
    <3>3. \A p \in Otp : Finders(p)' = Finders(p)
      BY <1>10, <1>6, <3>1 DEF MarkCode, Finders, Pc
    <3>4. LapsedCodes' = LapsedCodes
      BY <3>1, <3>3 DEF LapsedCodes, Finders
    <3> QED  BY <1>5, <2>1, <3>1, <3>2, <3>4
  <2>3. CASE code[i] # "unused"
    BY <1>3, <1>10, <2>3 DEF MarkCode
  <2> QED  BY <2>2, <2>3
<1>11. ASSUME NEW r \in Request, MarkOtp(r)  PROVE CodeTickets!OneTimeNext
  <2> DEFINE i == req[r].item
  <2>1. i \in Otp /\ r \in Finders(i) /\ \A p \in Otp \ {i} : r \notin Finders(p)
    BY <1>11 DEF MarkOtp, TwoFactorInv, Holds, Names, Finders
  <2>2. CASE otp[i] \in {"unused", "expired"}
    <3>1. /\ otp' = [otp EXCEPT ![i] = "used"] /\ code' = code /\ accepted[i] = 0
          /\ accepted' = [accepted EXCEPT ![i] = @ + 1]
          /\ Goto(r, "consume") \/ Goto(r, "recheck")
      BY <1>11, <2>1, <2>2 DEF MarkOtp, TwoFactorInv, Counted
    <3>2. i \in LiveCodes \cup LapsedCodes /\ LiveCodes' = LiveCodes \ {i}
      BY <1>1, <2>1, <2>2, <3>1 DEF LiveCodes, LapsedCodes, Finders
    <3>3. \A p \in Otp \ {i} : Finders(p)' = Finders(p)
      BY <1>6, <2>1, <3>1 DEF Pc
    <3>4. LapsedCodes' = LapsedCodes \ {i}
      BY <1>1, <2>1, <3>1, <3>3 DEF LapsedCodes, Finders
    <3> QED  BY <1>5, <2>1, <3>1, <3>2, <3>4
  <2>3. CASE otp[i] \notin {"unused", "expired"}
    BY <1>3, <1>11, <2>3 DEF MarkOtp
  <2> QED  BY <2>2, <2>3
<1>12. ASSUME NEW r \in Request, DropCodes(r) \/ Disable(r)  PROVE CodeTickets!OneTimeNext
  <2>1. accepted' = accepted /\ LiveCodes' \subseteq LiveCodes /\ otp' = otp
    BY <1>1, <1>12 DEF DropCodes, Disable, LiveCodes, history
  <2> QED  BY <1>2, <2>1
<1>13. ASSUME NEW r \in Request,
              \/ Login(r) \/ InitiateMyEnable(r) \/ RequestRecovery(r) \/ DisableMine(r) \/ AdminReset(r)
              \/ \E ch \in Challenge : Present(r, ch)
              \/ \E o \in Otp : VerifyRecovery(r, o)
              \/ UseUp(r) \/ Consume(r) \/ Enable(r) \/ ReadSecret(r) \/ FindCode(r)
              \/ FindOtp(r) \/ Recheck(r) \/ (\E v \in BOOLEAN : SetRequired(r, v)) \/ Stop(r)
       PROVE  code' = code /\ otp' = otp /\ accepted' = accepted
  BY <1>13 DEF Login, InitiateMyEnable, RequestRecovery, DisableMine, AdminReset, Present, Issue,
       InitiateSetup, Confirm, VerifyTotp, SendEmailOtp, ResetAfterRecovery, VerifyBackup,
       VerifyEmail, VerifyRecovery, UseUp, Consume, Enable, ReadSecret, FindCode, FindOtp,
       Recheck, SetRequired, Stop, Start, history
<1>14. ASSUME NEW ch \in Challenge, ExpireChallenge(ch)
       PROVE  code' = code /\ otp' = otp /\ accepted' = accepted
  BY <1>14 DEF ExpireChallenge, history
<1> QED  BY <1>3, <1>7, <1>8, <1>9, <1>10, <1>11, <1>12, <1>13, <1>14 DEF Next, Handle

-----------------------------------------------------------------------------
\* TypeOK of TwoFactor: the account is enabled exactly while it has a secret.
THEOREM TwoFactorTypeOK == Spec => []TypeOK
<1>1. TwoFactorInv => TypeOK
  BY DEF TwoFactorInv
<1> QED  BY <1>1, TwoFactorInvariant, PTL

\* Any number of requests that present a challenge get one success from it.
THEOREM ChallengesStayOneTime == Spec => ChallengesAreOneTime
<1>1. Init => ChallengeTickets!OneTimeInit
  BY DEF Init, Blank, ChallengeTickets!OneTimeInit, LiveChallenges
<1>2. TwoFactorInv /\ [Next]_vars => [ChallengeTickets!OneTimeNext]_<<LiveChallenges, {}, uses>>
  BY ChallengeSteps DEF vars, history, LiveChallenges
<1> QED  BY <1>1, <1>2, TwoFactorInvariant, PTL
         DEF Spec, ChallengesAreOneTime, ChallengeTickets!OneTimeSpec

\* Any number of requests that present a code get one acceptance of it, and
\* none after its expiry that had not found it before.
THEOREM CodesStayOneTime == Spec => CodesAreOneTime
<1>1. Init => CodeTickets!OneTimeInit
  BY DEF Init, CodeTickets!OneTimeInit, LiveCodes, LapsedCodes
<1>2. TwoFactorInv /\ [Next]_vars => [CodeTickets!OneTimeNext]_<<LiveCodes, LapsedCodes, accepted>>
  BY CodeSteps DEF vars, history, LiveCodes, LapsedCodes
<1> QED  BY <1>1, <1>2, TwoFactorInvariant, PTL
         DEF Spec, CodesAreOneTime, CodeTickets!OneTimeSpec

\* No TOTP code completes a login once the account has been reset.
THEOREM TotpNeedsEnrolmentAlways == Spec => TotpNeedsEnrolment
<1>1. ASSUME TwoFactorInv, [Next]_vars, NEW r \in Request,
             req[r].op = "totp", req[r].pc = "consume", uses'[req[r].ch] # uses[req[r].ch]
      PROVE  enabled
  <2> DEFINE k == req[r].ch
  <2>1. k \in Challenge /\ Holds(r)
    BY <1>1 DEF TwoFactorInv, TypeOK, Holds, Names, Presents
  <2>2. ASSUME challenge[k].state # "unused"  PROVE uses'[k] = uses[k]
    <3>1. [ChallengeTickets!OneTimeNext]_<<LiveChallenges, {}, uses>>
      BY <1>1, ChallengeSteps DEF vars, history, LiveChallenges
    <3>2. k \notin LiveChallenges
      BY <2>2 DEF LiveChallenges
    <3>3. uses \in [Challenge -> Nat]
      BY <1>1 DEF TwoFactorInv, TypeOK
    <3> QED  BY <2>1, <3>1, <3>2, <3>3
             DEF ChallengeTickets!OneTimeNext, ChallengeTickets!Issue, ChallengeTickets!Redeem,
                 ChallengeTickets!Withdraw
  <2> QED  BY <1>1, <2>1, <2>2 DEF Holds
<1>2. TwoFactorInv /\ [Next]_vars =>
        [\A r \in Request :
           req[r].op = "totp" /\ req[r].pc = "consume" /\ uses'[req[r].ch] # uses[req[r].ch]
             => enabled]_vars
  BY <1>1
<1> QED  BY <1>2, TwoFactorInvariant, PTL DEF Spec, TotpNeedsEnrolment

-----------------------------------------------------------------------------
(* The setup token of a login, whose consumption initiate does not look at. *)
Spent(ch) == challenge[ch].state \notin {"none", "unused"}

\* a request that initiates has used its token up before it issues the next
Initiating(r) == req[r].op = "initiate" =>
    req[r].pc \in {"use_up", "issue_secret"} /\ (req[r].pc = "issue_secret" => Spent(req[r].ch))

SpentInv == (\A ch \in Challenge : begun[ch] => Spent(ch)) /\ \A r \in Request : Initiating(r)

\* No row becomes unused again.
LEMMA SpentStays ==
    ASSUME TwoFactorInv, Next, NEW ch \in Challenge, Spent(ch)
    PROVE  Spent(ch)'
<1>1. challenge \in [Challenge -> RowRecord]
  BY DEF TwoFactorInv, TypeOK, RowRecord
<1>2. \/ challenge' = challenge
      \/ \E r \in Request : Consume(r) \/ UseUp(r) \/ Disable(r) \/ \E k \in Challenge : Issue(r, k)
      \/ \E k \in Challenge : ExpireChallenge(k)
  BY DEF Next, Handle, Login, InitiateMyEnable, RequestRecovery, DisableMine, AdminReset, Present,
         InitiateSetup, Confirm, VerifyTotp, SendEmailOtp, ResetAfterRecovery, VerifyBackup,
         VerifyEmail, VerifyRecovery, MintOtp, Enable, DropCodes, AddCodes, ReadSecret, FindCode,
         MarkCode, FindOtp, MarkOtp, Recheck, SetRequired, Stop, Start, ExpireOtp, LoseOtp
<1>3. ASSUME NEW r \in Request, NEW k \in Challenge, Issue(r, k)  PROVE challenge'[ch] = challenge[ch]
  BY <1>1, <1>3 DEF Issue, Spent
<1>4. ASSUME NEW r \in Request, Consume(r) \/ UseUp(r) \/ Disable(r)  PROVE Spent(ch)'
  BY <1>1, <1>4 DEF Consume, UseUp, Disable, Spent, RowRecord
<1>5. ASSUME NEW k \in Challenge, ExpireChallenge(k)  PROVE Spent(ch)'
  BY <1>1, <1>5 DEF ExpireChallenge, Spent, RowRecord
<1> QED  BY <1>2, <1>3, <1>4, <1>5 DEF Spent

\* The steps that begin no setup and move no request that initiates one.
LEMMA OthersAreNotInitiating ==
    ASSUME TwoFactorInv, SpentInv, Next, NEW q \in Request, req'[q].op = "initiate", req'[q] # req[q]
    PROVE  (\E ch \in Challenge : InitiateSetup(q, ch)) \/ UseUp(q)
<1>1. ASSUME NEW r \in Request, Handle(r),
             ~UseUp(r), \A ch \in Challenge : ~InitiateSetup(r, ch)
      PROVE  r # q
  <2>1. CASE End(r)
    BY <2>1, Ends DEF Idle, TwoFactorInv
  <2>2. ASSUME NEW o, NEW l, NEW ch, NEW x, o # "initiate", Start(r, o, l, ch, x)  PROVE r # q
    BY <2>2, ReqType DEF TwoFactorInv, Start
  <2>3. ASSUME req[r].pc \notin {"use_up", "issue_secret"}, NEW l \in Pc, Goto(r, l)  PROVE r # q
    BY <2>3, Goes DEF SpentInv, Initiating
  <2>4. CASE req' = req
    BY <2>4
  <2>5. \/ End(r) \/ req' = req
        \/ Login(r) \/ InitiateMyEnable(r) \/ RequestRecovery(r) \/ DisableMine(r) \/ AdminReset(r)
        \/ \E ch \in Challenge : Present(r, ch) /\ ~Issue(r, ch)
        \/ \E o \in Otp : VerifyRecovery(r, o)
        \/ req[r].pc \notin {"use_up", "issue_secret"} /\ \E l \in Pc : Goto(r, l)
    BY <1>1 DEF Handle, Issue, MintOtp, Consume, Enable, DropCodes, AddCodes, ReadSecret, FindCode,
       MarkCode, FindOtp, MarkOtp, Recheck, Disable, SetRequired, Stop, Pc, Present
  <2>6. ASSUME \/ Login(r) \/ InitiateMyEnable(r) \/ RequestRecovery(r) \/ DisableMine(r) \/ AdminReset(r)
               \/ \E ch \in Challenge : Present(r, ch) /\ ~Issue(r, ch)
               \/ \E o \in Otp : VerifyRecovery(r, o)
        PROVE  r # q
    BY <1>1, <2>2, <2>6 DEF Login, InitiateMyEnable, RequestRecovery, DisableMine, AdminReset, Present,
       Confirm, VerifyTotp, SendEmailOtp, ResetAfterRecovery, VerifyBackup, VerifyEmail, VerifyRecovery
  <2> QED  BY <2>1, <2>3, <2>4, <2>5, <2>6
<1>2. ASSUME NEW r \in Request, Handle(r), r # q  PROVE req'[q] = req[q]
  <2>1. req \in [Request -> ReqRecord]
    BY ReqType DEF TwoFactorInv
  <2>2. (\E x : req' = [req EXCEPT ![r] = x]) \/ req' = req
    BY <1>2 DEF Handle, Login, InitiateMyEnable, RequestRecovery, DisableMine, AdminReset, Present,
       InitiateSetup, Confirm, VerifyTotp, SendEmailOtp, ResetAfterRecovery, VerifyBackup,
       VerifyEmail, VerifyRecovery, MintOtp, Issue, Consume, UseUp, Enable, DropCodes, AddCodes,
       ReadSecret, FindCode, MarkCode, FindOtp, MarkOtp, Recheck, Disable, SetRequired, Stop,
       Start, Goto, End
  <2> QED  BY <1>2, <2>1, <2>2
<1>3. PICK r \in Request : Handle(r)
  BY DEF Next, ExpireChallenge, ExpireOtp, LoseOtp
<1> QED  BY <1>1, <1>2, <1>3

LEMMA NextSpent == TwoFactorInv /\ SpentInv /\ [Next]_vars => SpentInv'
<1> SUFFICES ASSUME TwoFactorInv, SpentInv, [Next]_vars PROVE SpentInv'
  OBVIOUS
<1>1. CASE UNCHANGED vars
  BY <1>1 DEF vars, history, SpentInv, Initiating, Spent
<1>2. CASE Next
  <2>1. ASSUME NEW r \in Request, req[r].op = "initiate"
        PROVE  req[r].ch \in Challenge /\ challenge[req[r].ch].state # "none"
    <3>1. req[r].ch \in Challenge \cup {None} /\ req[r].ch # None
      BY <2>1, ReqType DEF TwoFactorInv, ReqRecord, Holds, Names, Presents
    <3> QED  BY <3>1 DEF TwoFactorInv, Holds
  <2>2. ASSUME NEW q \in Request  PROVE Initiating(q)'
    <3>1. CASE req'[q] = req[q]
      BY <1>2, <2>1, <3>1, SpentStays DEF SpentInv, Initiating, Spent
    <3>2. CASE \E ch \in Challenge : InitiateSetup(q, ch)
      BY <3>2, ReqType DEF InitiateSetup, Start, TwoFactorInv, Initiating
    <3>3. CASE UseUp(q) /\ req'[q].op = "initiate"
      <4>1. /\ req'[q].op = req[q].op /\ req'[q].pc = "issue_secret" /\ req'[q].ch = req[q].ch
        BY <3>3, Goes DEF UseUp, Pc
      <4>2. challenge \in [Challenge -> RowRecord]
        BY DEF TwoFactorInv, TypeOK, RowRecord
      <4>3. Spent(req[q].ch)'
        BY <2>1, <3>3, <4>1, <4>2 DEF UseUp, Spent, RowRecord
      <4> QED  BY <4>1, <4>3 DEF Initiating, Spent
    <3>4. CASE req'[q].op # "initiate"
      BY <3>4 DEF Initiating
    <3> QED  BY <1>2, <3>1, <3>2, <3>3, <3>4, OthersAreNotInitiating
  <2>3. ASSUME NEW ch \in Challenge, begun'[ch]  PROVE Spent(ch)'
    <3>1. begun \in [Challenge -> BOOLEAN]
      BY DEF TwoFactorInv, TypeOK
    <3>2. begun' = begun \/ \E r \in Request, k \in Challenge : Issue(r, k)
      <4>1. ASSUME NEW r \in Request,
                   \/ Login(r) \/ InitiateMyEnable(r) \/ RequestRecovery(r) \/ DisableMine(r)
                   \/ AdminReset(r) \/ (\E o \in Otp : VerifyRecovery(r, o))
                   \/ \E k \in Challenge : Present(r, k) /\ ~Issue(r, k)
            PROVE  begun' = begun
        BY <4>1 DEF Login, InitiateMyEnable, RequestRecovery, DisableMine, AdminReset, VerifyRecovery,
           Present, InitiateSetup, Confirm, VerifyTotp, SendEmailOtp, ResetAfterRecovery,
           VerifyBackup, VerifyEmail, Start, history
      <4>2. ASSUME NEW r \in Request,
                   \/ (\E o \in Otp : MintOtp(r, o)) \/ UseUp(r) \/ Consume(r) \/ Enable(r)
                   \/ DropCodes(r) \/ AddCodes(r) \/ ReadSecret(r) \/ FindCode(r) \/ MarkCode(r)
                   \/ FindOtp(r) \/ MarkOtp(r) \/ Recheck(r) \/ Disable(r) \/ Stop(r)
                   \/ \E v \in BOOLEAN : SetRequired(r, v)
            PROVE  begun' = begun
        BY <4>2 DEF MintOtp, Consume, UseUp, Enable, DropCodes, AddCodes, ReadSecret, FindCode,
           MarkCode, FindOtp, MarkOtp, Recheck, Disable, SetRequired, Stop, history
      <4>3. CASE (\E k \in Challenge : ExpireChallenge(k)) \/ (\E o \in Otp : ExpireOtp(o) \/ LoseOtp(o))
        BY <4>3 DEF ExpireChallenge, ExpireOtp, LoseOtp, history
      <4> QED  BY <1>2, <4>1, <4>2, <4>3 DEF Next, Handle
    <3>3. CASE begun[ch]
      BY <1>2, <3>3, SpentStays DEF SpentInv
    <3>4. CASE ~begun[ch]
      <4>1. PICK r \in Request : req[r].op = "initiate" /\ req[r].ch = ch /\ req[r].pc # "use_up"
        BY <2>3, <3>1, <3>2, <3>4 DEF Issue
      <4>2. Spent(ch)
        BY <4>1 DEF SpentInv, Initiating
      <4> QED  BY <1>2, <4>2, SpentStays
    <3> QED  BY <3>3, <3>4
  <2> QED  BY <2>2, <2>3 DEF SpentInv
<1> QED  BY <1>1, <1>2

\* A token with which a setup was begun stays used up or gone.
THEOREM SetupTokenStaysSpent == Spec => []SetupTokenIsSpent
<1>1. Init => SpentInv
  BY DEF Init, SpentInv, Initiating, Idle
<1>2. SpentInv => SetupTokenIsSpent
  BY DEF SpentInv, SetupTokenIsSpent, Spent
<1> QED  BY <1>1, <1>2, NextSpent, TwoFactorInvariant, PTL DEF Spec

-----------------------------------------------------------------------------
(* The codes of an enrolment.  The last handler that replaces them leaves  *)
(* new ones, whoever deleted its predecessor's in between.                 *)
Replacing(q) == req[q].pc \in {"drop_codes", "add_codes"}

LEMMA CodesRemain ==
    ASSUME EnrolledHasCodes, enabled' = enabled, cut' = cut,
           \A c \in Challenge : code[c] \in {"unused", "used"} => code'[c] \in {"unused", "used"},
           \A q \in Request : Replacing(q) => Replacing(q)'
    PROVE  EnrolledHasCodes'
BY DEF EnrolledHasCodes, Replacing

\* A request that is not replacing codes moves, or none does.
LEMMA OthersReplace ==
    ASSUME TwoFactorInv, NEW r \in Request, ~Replacing(r),
           (\E x : req' = [req EXCEPT ![r] = x]) \/ req' = req
    PROVE  \A q \in Request : Replacing(q) => Replacing(q)'
BY ReqType DEF TwoFactorInv, Replacing

LEMMA ReplacingLeavesCodes ==
    ASSUME TwoFactorInv, NEW r \in Request, Enable(r) \/ DropCodes(r) \/ AddCodes(r)
    PROVE  EnrolledHasCodes'
<1>1. CASE Enable(r)
  <2>1. req'[r].pc = "drop_codes"
    BY <1>1, Goes DEF Enable, Pc
  <2> QED  BY <2>1 DEF EnrolledHasCodes
<1>2. CASE DropCodes(r)
  <2>1. req'[r].pc = "add_codes"
    BY <1>2, Goes DEF DropCodes, Pc
  <2> QED  BY <2>1 DEF EnrolledHasCodes
<1>3. CASE AddCodes(r)
  <2>1. req[r].ch \in Challenge /\ code \in [Challenge -> RowState]
    BY <1>3 DEF AddCodes, TwoFactorInv, TypeOK, Holds, Names, Presents
  <2>2. code'[req[r].ch] = "unused"
    BY <1>3, <2>1 DEF AddCodes
  <2> QED  BY <2>1, <2>2 DEF EnrolledHasCodes
<1> QED  BY <1>1, <1>2, <1>3

LEMMA NextEnrolled == TwoFactorInv /\ EnrolledHasCodes /\ [Next]_vars => EnrolledHasCodes'
<1> SUFFICES ASSUME TwoFactorInv, EnrolledHasCodes, [Next]_vars PROVE EnrolledHasCodes'
  OBVIOUS
<1>1. CASE UNCHANGED <<enabled, cut, code, req>>
  BY <1>1 DEF EnrolledHasCodes
<1>2. ASSUME NEW r \in Request, Disable(r)  PROVE EnrolledHasCodes'
  BY <1>2 DEF Disable, EnrolledHasCodes
<1>3. ASSUME NEW r \in Request, MarkCode(r)  PROVE EnrolledHasCodes'
  <2>1. ~Replacing(r) /\ enabled' = enabled /\ cut' = cut
    BY <1>3 DEF MarkCode, Replacing, user
  <2>2. \A c \in Challenge : code[c] \in {"unused", "used"} => code'[c] \in {"unused", "used"}
    BY <1>3 DEF MarkCode, TwoFactorInv, TypeOK
  <2>3. \E x : req' = [req EXCEPT ![r] = x]
    BY <1>3 DEF MarkCode, Goto, End
  <2> QED  BY <2>1, <2>2, <2>3, OthersReplace, CodesRemain
<1>4. ASSUME NEW r \in Request, Stop(r)  PROVE EnrolledHasCodes'
  <2>1. CASE Replacing(r)
    BY <1>4, <2>1 DEF Stop, Replacing, EnrolledHasCodes
  <2>2. CASE ~Replacing(r)
    <3>1. enabled' = enabled /\ code' = code /\ cut' = cut
      BY <1>4, <2>2 DEF Stop, Replacing, user, TwoFactorInv, TypeOK
    <3>2. \E x : req' = [req EXCEPT ![r] = x]
      BY <1>4 DEF Stop, End
    <3> QED  BY <2>2, <3>1, <3>2, OthersReplace, CodesRemain
  <2> QED  BY <2>1, <2>2
<1>5. ASSUME NEW r \in Request, ~Replacing(r), UNCHANGED <<enabled, cut, code>>,
             (\E x : req' = [req EXCEPT ![r] = x]) \/ req' = req
      PROVE  EnrolledHasCodes'
  BY <1>5, OthersReplace, CodesRemain
<1>6. ASSUME NEW r \in Request, Handle(r)  PROVE EnrolledHasCodes'
  <2>1. ASSUME NEW o, NEW l, NEW ch, NEW x, Start(r, o, l, ch, x)  PROVE EnrolledHasCodes'
    <3>1. ~Replacing(r) /\ UNCHANGED <<enabled, cut, code>>
      BY <2>1, IdleRecord DEF Start, Replacing, user, history
    <3>2. \E y : req' = [req EXCEPT ![r] = y]
      BY <2>1 DEF Start
    <3> QED  BY <1>5, <3>1, <3>2
  <2>2. ASSUME (\E l : Goto(r, l)) \/ End(r) \/ req' = req, ~Replacing(r),
               UNCHANGED <<enabled, cut, code>>
        PROVE  EnrolledHasCodes'
    BY <1>5, <2>2 DEF Goto, End
  <2>3. CASE \/ (\E ch \in Challenge : Issue(r, ch)) \/ (\E o \in Otp : MintOtp(r, o))
             \/ UseUp(r) \/ Consume(r) \/ ReadSecret(r) \/ FindCode(r) \/ FindOtp(r) \/ MarkOtp(r)
             \/ Recheck(r)
    BY <2>2, <2>3 DEF Issue, MintOtp, UseUp, Consume, ReadSecret, FindCode, FindOtp, MarkOtp, Recheck,
       Replacing, user, history
  <2>4. CASE \E v \in BOOLEAN : SetRequired(r, v)
    BY <1>1, <2>4 DEF SetRequired, history
  <2>5. CASE \/ Login(r) \/ InitiateMyEnable(r) \/ RequestRecovery(r) \/ DisableMine(r) \/ AdminReset(r)
             \/ \E ch \in Challenge : Present(r, ch) /\ ~Issue(r, ch)
             \/ \E o \in Otp : VerifyRecovery(r, o)
    BY <2>1, <2>5 DEF Login, InitiateMyEnable, RequestRecovery, DisableMine, AdminReset, Present,
       InitiateSetup, Confirm, VerifyTotp, SendEmailOtp, ResetAfterRecovery, VerifyBackup,
       VerifyEmail, VerifyRecovery
  <2> QED  BY <1>2, <1>3, <1>4, <1>6, <2>3, <2>4, <2>5, ReplacingLeavesCodes DEF Handle
<1>7. CASE \/ UNCHANGED vars \/ (\E ch \in Challenge : ExpireChallenge(ch))
           \/ (\E o \in Otp : ExpireOtp(o) \/ LoseOtp(o))
  BY <1>1, <1>7 DEF vars, user, history, ExpireChallenge, ExpireOtp, LoseOtp
<1> QED  BY <1>6, <1>7 DEF Next

\* Whatever confirmations and resets overlap, an account that they leave
\* enabled has recovery codes, unless a handler stopped while it replaced them.
THEOREM EnrolledKeepsCodes == Spec => []EnrolledHasCodes
<1>1. Init => EnrolledHasCodes
  BY DEF Init, EnrolledHasCodes
<1> QED  BY <1>1, NextEnrolled, TwoFactorInvariant, PTL DEF Spec

-----------------------------------------------------------------------------
(***************************************************************************)
(* Enforcement.  While two-factor is required no request of userDisable2FA *)
(* starts, so those in flight were overtaken by the requirement.           *)
(***************************************************************************)
Disables(x) ==
    /\ x.pc = "disable" => x.op \in {"reset", "admin_reset", "my_disable"}
    /\ x.pc = "secret" => x.op \in {"totp", "my_disable"}

EnforcedInv ==
    /\ \A r \in Request : Disables(req[r])
    /\ required => \A r \in Request : req[r].op = "my_disable" => r \in overtaken

LEMMA InitEnforced == Init => EnforcedInv
BY DEF Init, Idle, EnforcedInv, Disables

\* A request ends, goes on, or starts.
LEMMA EnforcedMoves ==
    ASSUME TwoFactorInv, EnforcedInv, NEW r \in Request, UNCHANGED policy,
           \/ End(r)
           \/ \E l \in Pc : /\ Goto(r, l) /\ l # "secret"
                            /\ l = "disable" => req[r].op \in {"reset", "my_disable"}
           \/ \E o, l, ch, item :
                /\ Start(r, o, l, ch, item)
                /\ Disables([op |-> o, pc |-> l, ch |-> ch, item |-> item])
                /\ o = "my_disable" => ~required
    PROVE  EnforcedInv'
<1>1. req \in [Request -> ReqRecord]
  BY ReqType DEF TwoFactorInv
<1>2. ASSUME \A q \in Request \ {r} : req'[q] = req[q],
             Disables(req'[r]),
             req'[r].op = "my_disable" => req[r].op = "my_disable" \/ ~required
      PROVE  EnforcedInv'
  BY <1>2 DEF EnforcedInv, policy
<1>3. CASE End(r)
  BY <1>1, <1>2, <1>3 DEF End, Idle, Disables
<1>4. ASSUME NEW l \in Pc, Goto(r, l), l # "secret",
             l = "disable" => req[r].op \in {"reset", "my_disable"}
      PROVE  EnforcedInv'
  <2>1. req'[r].op = req[r].op /\ req'[r].pc = l
    BY <1>4, Goes
  <2>2. \A q \in Request \ {r} : req'[q] = req[q]
    BY <1>4, Moves
  <2> QED  BY <1>2, <1>4, <2>1, <2>2 DEF Disables
<1>5. ASSUME NEW o, NEW l, NEW ch, NEW item, Start(r, o, l, ch, item),
             Disables([op |-> o, pc |-> l, ch |-> ch, item |-> item]),
             o = "my_disable" => ~required
      PROVE  EnforcedInv'
  <2>1. /\ req'[r] = [op |-> o, pc |-> l, ch |-> ch, item |-> item]
        /\ \A q \in Request \ {r} : req'[q] = req[q]
    BY <1>1, <1>5 DEF Start
  <2>2. req'[r].op = o /\ Disables(req'[r])
    BY <1>5, <2>1
  <2> QED  BY <1>2, <1>5, <2>1, <2>2
<1>6. CASE \E o, l, ch, item :
             /\ Start(r, o, l, ch, item)
             /\ Disables([op |-> o, pc |-> l, ch |-> ch, item |-> item])
             /\ o = "my_disable" => ~required
  <2>1. PICK o, l, ch, item :
          /\ Start(r, o, l, ch, item)
          /\ Disables([op |-> o, pc |-> l, ch |-> ch, item |-> item])
          /\ o = "my_disable" => ~required
    BY <1>6
  <2> QED  BY <1>5, <2>1
<1>7. CASE \E l \in Pc : /\ Goto(r, l) /\ l # "secret"
                         /\ l = "disable" => req[r].op \in {"reset", "my_disable"}
  BY <1>4, <1>7
<1> QED  BY <1>3, <1>6, <1>7

LEMMA StartsKeepEnforced ==
    ASSUME TwoFactorInv, EnforcedInv, NEW r \in Request,
           \/ Login(r) \/ InitiateMyEnable(r) \/ RequestRecovery(r) \/ DisableMine(r) \/ AdminReset(r)
           \/ \E o \in Otp : VerifyRecovery(r, o)
           \/ \E ch \in Challenge :
                \/ InitiateSetup(r, ch) \/ Confirm(r, ch) \/ VerifyTotp(r, ch) \/ SendEmailOtp(r, ch)
                \/ ResetAfterRecovery(r, ch)
                \/ (\E c \in Challenge : VerifyBackup(r, ch, c))
                \/ (\E o \in Otp : VerifyEmail(r, ch, o))
    PROVE  EnforcedInv'
<1>1. PICK o, l, ch, item :
        /\ Start(r, o, l, ch, item)
        /\ l = "disable" => o = "admin_reset"
        /\ l = "secret" => o \in {"totp", "my_disable"}
        /\ o = "my_disable" => ~required
  BY DEF Login, InitiateMyEnable, RequestRecovery, DisableMine, AdminReset, VerifyRecovery,
         InitiateSetup, Confirm, VerifyTotp, SendEmailOtp, ResetAfterRecovery, VerifyBackup, VerifyEmail
<1>2. Disables([op |-> o, pc |-> l, ch |-> ch, item |-> item])
  BY <1>1 DEF Disables
<1>3. UNCHANGED policy
  BY <1>1 DEF Start, user
<1> QED  BY <1>1, <1>2, <1>3, EnforcedMoves

LEMMA StepsKeepEnforced ==
    ASSUME TwoFactorInv, EnforcedInv, NEW r \in Request,
           \/ UseUp(r) \/ Consume(r) \/ Enable(r) \/ DropCodes(r) \/ AddCodes(r) \/ ReadSecret(r)
           \/ FindCode(r) \/ MarkCode(r) \/ FindOtp(r) \/ MarkOtp(r) \/ Recheck(r) \/ Disable(r)
           \/ Stop(r) \/ (\E ch \in Challenge : Issue(r, ch)) \/ (\E o \in Otp : MintOtp(r, o))
    PROVE  EnforcedInv'
<1>1. UNCHANGED policy
  BY DEF UseUp, Consume, Enable, DropCodes, AddCodes, ReadSecret, FindCode, MarkCode, FindOtp,
         MarkOtp, Recheck, Disable, Stop, Issue, MintOtp, user
<1>2. Disables(req[r])
  BY DEF EnforcedInv
<1>3. End(r) \/ \E l \in Pc : /\ Goto(r, l) /\ l # "secret"
                              /\ l = "disable" => req[r].op \in {"reset", "my_disable"}
  <2>1. {"issue_secret", "consume", "enable", "disable", "drop_codes", "add_codes", "mark_code",
         "mark_otp", "recheck", "issue_recovery"} \subseteq Pc
    BY DEF Pc
  <2> QED
    BY <1>2, <2>1
    DEF Disables, UseUp, Consume, Enable, DropCodes, AddCodes, ReadSecret, FindCode, MarkCode,
        FindOtp, MarkOtp, Recheck, Disable, Stop, Issue, MintOtp
<1> QED  BY <1>1, <1>3, EnforcedMoves

LEMMA NextEnforced == TwoFactorInv /\ EnforcedInv /\ [Next]_vars => EnforcedInv'
<1> SUFFICES ASSUME TwoFactorInv, EnforcedInv, [Next]_vars PROVE EnforcedInv'
  OBVIOUS
<1>1. ASSUME UNCHANGED <<policy, req>>  PROVE EnforcedInv'
  BY <1>1 DEF EnforcedInv
<1>2. ASSUME NEW r \in Request, NEW v \in BOOLEAN, SetRequired(r, v)  PROVE EnforcedInv'
  BY <1>2 DEF SetRequired, EnforcedInv
<1>3. ASSUME NEW r \in Request, Handle(r)  PROVE EnforcedInv'
  BY <1>2, <1>3, StartsKeepEnforced, StepsKeepEnforced DEF Handle, Present
<1>4. ASSUME (\E ch \in Challenge : ExpireChallenge(ch)) \/ \E o \in Otp : ExpireOtp(o) \/ LoseOtp(o)
      PROVE  EnforcedInv'
  BY <1>1, <1>4 DEF ExpireChallenge, ExpireOtp, LoseOtp, user
<1>5. CASE UNCHANGED vars
  BY <1>1, <1>5 DEF vars, user
<1> QED  BY <1>3, <1>4, <1>5 DEF Next

\* Only the transaction of disableTwoFactor disenrols.
LEMMA OnlyDisableDisenrols ==
    ASSUME TwoFactorInv, [Next]_vars, enabled, ~enabled'
    PROVE  \E r \in Request : Disable(r)
<1>1. ASSUME NEW r \in Request, Handle(r), ~Disable(r)  PROVE enabled'
  <2>1. ASSUME NEW ch \in Challenge, Present(r, ch)  PROVE enabled'
    BY <2>1
    DEF Present, InitiateSetup, Confirm, VerifyTotp, SendEmailOtp, ResetAfterRecovery, VerifyBackup,
        VerifyEmail, Issue, Start, user
  <2>2. ASSUME UNCHANGED enabled  PROVE enabled'
    BY <2>2
  <2> QED
    BY <1>1, <2>1
    DEF Handle, Login, InitiateMyEnable, RequestRecovery, DisableMine, AdminReset, VerifyRecovery,
        MintOtp, UseUp, Consume, Enable, DropCodes, AddCodes, ReadSecret, FindCode, MarkCode,
        FindOtp, MarkOtp, Recheck, SetRequired, Stop, Start, user
<1>2. ~UNCHANGED vars
  BY DEF vars, user
<1> QED  BY <1>1, <1>2 DEF Next, ExpireChallenge, ExpireOtp, LoseOtp, user

\* the disjunct of the property, as an action
Permitted ==
    \E r \in Request : /\ req[r].pc = "disable" /\ req'[r] = Idle
                       /\ req[r].op \in {"reset", "admin_reset"} \/ r \in overtaken

\* Once two-factor is required of an account, only an administrator, a recovery
\* or a request that the requirement overtook disenrols it, for any number of
\* requests in flight.
THEOREM EnforcementHolds == Spec => EnforcedStaysEnrolled
<1>1. Spec => []EnforcedInv
  BY InitEnforced, NextEnforced, TwoFactorInvariant, PTL DEF Spec
<1>2. ASSUME TwoFactorInv, EnforcedInv, [Next]_vars, enabled, required, ~enabled'
      PROVE  Permitted
  <2>1. PICK r \in Request : Disable(r)
    BY <1>2, OnlyDisableDisenrols
  <2>2. req[r].pc = "disable" /\ req'[r] = Idle
    BY <1>2, <2>1, Ends DEF Disable
  <2>3. req[r].op \in {"reset", "admin_reset"} \/ r \in overtaken
    BY <1>2, <2>2 DEF EnforcedInv, Disables
  <2> QED  BY <2>2, <2>3 DEF Permitted
<1>3. TwoFactorInv /\ EnforcedInv /\ [Next]_vars =>
        (enabled /\ required /\ ~enabled' => Permitted)
  BY <1>2
<1>4. TwoFactorInv /\ EnforcedInv /\ [Next]_vars =>
        [enabled /\ required /\ ~enabled' => Permitted]_vars
  BY <1>3
<1>5. Spec => [][enabled /\ required /\ ~enabled' => Permitted]_vars
  BY <1>1, <1>4, TwoFactorInvariant, PTL DEF Spec
<1> QED  BY <1>5 DEF EnforcedStaysEnrolled, Permitted
=============================================================================
