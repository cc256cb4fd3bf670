--------------------------- MODULE Sessions_proofs ---------------------------
(***************************************************************************)
(* What holds of Sessions for any number of requests, account operations,  *)
(* pairs and any TTLs that meet TtlAssumption.                             *)
(***************************************************************************)
EXTENDS Sessions, TLAPS

(***************************************************************************)
(* Type correctness.  TypeOK alone is not inductive: a request indexes the *)
(* revocation keys by the token it presents, so every pc that does so must *)
(* hold a token.                                                           *)
(***************************************************************************)
Presenting == {"hot", "row", "warm", "cutoff", "cache"}

HoldsToken ==
    \A c \in Client :
        /\ pc[c] \in Presenting => op[c] \in Kind
        /\ op[c] \in Kind \cup {"logout"} => pair[c] \in Pair
        /\ op[c] \in {"access", "refresh"} => op[c] \in Kind

TypeInv == TypeOK /\ HoldsToken

\* A key written for a token that dies at an integer instant has an expiry.
LEMMA HotUntilType ==
    ASSUME TypeOK, NEW e \in Int
    PROVE  HotUntil(e) \in Nat
BY TtlAssumption DEF TypeOK, Time, HotUntil, Smaller, Larger

LEMMA ExpType ==
    ASSUME TypeOK, NEW t \in Token
    PROVE  /\ t[1] \in Pair /\ t[2] \in Kind
           /\ t = <<t[1], t[2]>>
           /\ Exp(t) \in Nat
BY TtlAssumption DEF TypeOK, Token, Time, Exp, Ttl

LEMMA TypeInit == Init => TypeInv
BY TtlAssumption, StatusAssumption, KindAssumption
DEF Init, TypeInv, TypeOK, HoldsToken, Time, Status, Snapshot, ClientPc, AdminPc, Reason, NoUser,
    NoCutoff, Unsigned, Presenting

\* Each end of a request keeps the types of the request's own variables.
ClientType ==
    /\ op \in [Client -> {"none", "access", "refresh", "login", "logout"}]
    /\ pc \in [Client -> ClientPc]
    /\ pair \in [Client -> Pair \cup {NoPair}]
    /\ snap \in [Client -> Snapshot]
    /\ stamp \in [Client -> Nat]
    /\ marking \in [Client -> SUBSET Token] /\ persisting \in [Client -> SUBSET Token]
    /\ doom \in [Client -> SUBSET Reason]
    /\ HoldsToken

LEMMA ResetType ==
    ASSUME ClientType, NEW c \in Client, Reset(c)
    PROVE  ClientType'
BY KindAssumption DEF ClientType, HoldsToken, Reset, Goto, ClientPc, Snapshot, Presenting

LEMMA GrantType ==
    ASSUME ClientType, NEW c \in Client, Grant(c)
    PROVE  ClientType'
BY DEF ClientType, HoldsToken, Grant, Goto, ClientPc, Presenting

\* The stores and the history, apart from the requests.
StoreType ==
    /\ now \in Time \ {0} /\ lastRisk \in Time
    /\ status \in Status
    /\ cache \in [status : Snapshot, exp : Nat]
    /\ cutoff \in [at : Time, exp : Nat]
    /\ hot \in [Token -> Nat] /\ row \in [Token -> Nat]
    /\ signed \in [Pair -> [at : Nat, iat : Time]]
    /\ apc \in [Admin -> AdminPc] /\ astamp \in [Admin -> Time]
    /\ revoked \subseteq Token /\ loggedOut \subseteq Token /\ killed \subseteq Pair

LEMMA TypeParts == TypeInv <=> ClientType /\ StoreType
BY DEF TypeInv, TypeOK, ClientType, StoreType

LEMMA RiskType ==
    ASSUME StoreType, TrackRisk, now' \in Time
    PROVE  lastRisk' \in Time
BY DEF StoreType, TrackRisk

LEMMA ClientStepType ==
    ASSUME TypeInv, NEW c \in Client, ClientStep(c), TrackRisk
    PROVE  TypeInv'
<1> USE DEF redis, history, client, admin
<1>0. ClientType /\ StoreType /\ TypeOK
  BY TypeParts DEF TypeInv
<1>1. ASSUME ClientType', now' = now, lastRisk' \in Time,
             UNCHANGED <<now, status, redis, row, signed, admin, history>>
      PROVE  TypeInv'
  BY <1>0, <1>1, TypeParts DEF StoreType, TypeInv, TypeOK, ClientType
<1>2. ASSUME NEW k, NEW p \in Pair, Present(c, k, p)
      PROVE  TypeInv'
  <2>1. ClientType'
    BY <1>0, <1>2, KindAssumption
    DEF Present, Begin, Goto, ClientType, HoldsToken, ClientPc, Presenting, Reasons
  <2> QED  BY <1>0, <1>1, <1>2, <2>1, RiskType DEF Present, StoreType
<1>3. CASE Validate(c)
  <2>1. CASE CheckHot(c)
    <3>1. ClientType'
      BY <1>0, <2>1, ResetType
      DEF CheckHot, Goto, ClientType, HoldsToken, ClientPc, Presenting
    <3> QED  BY <1>0, <1>1, <2>1, <3>1, RiskType DEF CheckHot, StoreType
  <2>2. CASE CheckRow(c)
    <3>1. ClientType'
      BY <1>0, <2>2, SMTT(30)
      DEF CheckRow, Goto, ClientType, StoreType, HoldsToken, ClientPc, Presenting, Tok, Token
    <3> QED  BY <1>0, <1>1, <2>2, <3>1, RiskType DEF CheckRow, StoreType
  <2>3. CASE RewarmHot(c)
    <3>1. ClientType'
      BY <1>0, <2>3, ResetType DEF RewarmHot
    <3>2. HotUntil(stamp[c]) \in Nat
      BY <1>0, HotUntilType DEF ClientType
    <3>3. StoreType'
      BY <1>0, <2>3, <3>2, RiskType DEF RewarmHot, StoreType
    <3> QED  BY <3>1, <3>3, TypeParts DEF TypeInv, TypeOK, ClientType, StoreType
  <2>4. CASE CheckCutoff(c)
    <3>1. ClientType'
      BY <1>0, <2>4, ResetType
      DEF CheckCutoff, Goto, ClientType, HoldsToken, ClientPc, Presenting
    <3> QED  BY <1>0, <1>1, <2>4, <3>1, RiskType DEF CheckCutoff, StoreType
  <2> QED  BY <1>3, <2>1, <2>2, <2>3, <2>4 DEF Validate
<1>4. CASE Access(c) \/ Refresh(c) \/ Login(c)
  <2>1. CASE \E p \in Pair : StartAccess(c, p) \/ StartRefresh(c, p)
    BY <1>2, <2>1 DEF StartAccess, StartRefresh
  <2>2. CASE ReadCache(c)
    <3>1. ClientType'
      BY <1>0, <2>2, ResetType, GrantType
      DEF ReadCache, Goto, ClientType, HoldsToken, ClientPc, Presenting
    <3> QED  BY <1>0, <1>1, <2>2, <3>1, RiskType DEF ReadCache, StoreType
  <2>3. CASE LoadForAccess(c) \/ LoadForRefresh(c) \/ LoadForLogin(c)
    <3>1. ASSUME status # "DELETED" PROVE status \in Snapshot
      BY <1>0, <3>1 DEF StoreType, Status, Snapshot
    <3>2. CASE LoadForAccess(c)
      <4>1. ClientType'
        BY <1>0, <3>1, <3>2, ResetType
        DEF LoadForAccess, Goto, ClientType, HoldsToken, ClientPc, Presenting
      <4> QED  BY <1>0, <1>1, <3>2, <4>1, RiskType DEF LoadForAccess, StoreType
    <3>3. CASE LoadForRefresh(c)
      <4>1. Tok(c) \in Token
        BY <1>0, <3>3 DEF LoadForRefresh, Tok, Token, ClientType, HoldsToken
      <4>2. ClientType'
        BY <1>0, <3>1, <3>3, <4>1, ResetType
        DEF LoadForRefresh, Goto, ClientType, HoldsToken, ClientPc, Presenting
      <4> QED  BY <1>0, <1>1, <3>3, <4>2, RiskType DEF LoadForRefresh, StoreType
    <3>4. CASE LoadForLogin(c)
      <4>1. now \in Nat
        BY <1>0 DEF StoreType, Time
      <4>2. ClientType'
        BY <1>0, <3>1, <3>4, <4>1, ResetType
        DEF LoadForLogin, Goto, ClientType, HoldsToken, ClientPc, Presenting
      <4> QED  BY <1>0, <1>1, <3>4, <4>2, RiskType DEF LoadForLogin, StoreType
    <3> QED  BY <2>3, <3>2, <3>3, <3>4
  <2>4. CASE FillForAccess(c)
    <3>1. ClientType'
      BY <1>0, <2>4, ResetType, GrantType DEF FillForAccess
    <3>2. CachedUser(snap[c]) \in [status : Snapshot, exp : Nat]
      BY <1>0, TtlAssumption DEF CachedUser, ClientType, StoreType, Time
    <3>3. StoreType'
      BY <1>0, <2>4, <3>2, RiskType DEF FillForAccess, StoreType
    <3> QED  BY <3>1, <3>3 DEF TypeInv, TypeOK, ClientType, StoreType
  <2>5. CASE RotateDone(c)
    <3>1. ClientType'
      BY <1>0, <2>5
      DEF RotateDone, Goto, ClientType, StoreType, Time, HoldsToken, ClientPc, Presenting
    <3> QED  BY <1>0, <1>1, <2>5, <3>1, RiskType DEF RotateDone, StoreType
  <2>6. CASE StartLogin(c)
    <3>1. ClientType'
      BY <1>0, <2>6, KindAssumption
      DEF StartLogin, Begin, Goto, ClientType, HoldsToken, ClientPc, Presenting
    <3> QED  BY <1>0, <1>1, <2>6, <3>1, RiskType DEF StartLogin, StoreType
  <2> QED  BY <1>4, <2>1, <2>2, <2>3, <2>4, <2>5, <2>6 DEF Access, Refresh, Login
<1>5. ASSUME NEW p \in Pair, IssueTokenPair(c, p) PROVE TypeInv'
  <2>1. ClientType'
    BY <1>0, <1>5, GrantType DEF IssueTokenPair
  <2>2. CachedUser(snap[c]) \in [status : Snapshot, exp : Nat]
    BY <1>0, TtlAssumption DEF CachedUser, ClientType, StoreType, Time
  <2>3. StoreType'
    BY <1>0, <1>5, <2>2, RiskType DEF IssueTokenPair, StoreType, ClientType
  <2> QED  BY <2>1, <2>3 DEF TypeInv, TypeOK, ClientType, StoreType
<1>6. ASSUME NEW t \in Token, RevokeHot(c, t) \/ RevokeRow(c, t) \/ LogoutHotError(c, t)
      PROVE  TypeInv'
  <2>1. ClientType'
    BY <1>0, <1>6
    DEF RevokeHot, RevokeRow, LogoutHotError, ClientType, HoldsToken, ClientPc, Presenting
  <2>2. RevokeUntil(c, t) \in Nat
    BY <1>0, ExpType DEF RevokeUntil, Larger, StoreType, Time
  <2>3. HotUntil(RevokeUntil(c, t)) \in Nat
    BY <1>0, <2>2, HotUntilType
  <2>4. StoreType'
    BY <1>0, <1>6, <2>2, <2>3, RiskType DEF RevokeHot, RevokeRow, LogoutHotError, StoreType
  <2> QED  BY <2>1, <2>4 DEF TypeInv, TypeOK, ClientType, StoreType
<1>7. CASE Logout(c)
  <2>1. ASSUME NEW p \in Pair, StartLogout(c, p) PROVE TypeInv'
    <3>1. {p} \X Kind \in SUBSET Token
      BY DEF Token
    <3>2. ClientType'
      BY <1>0, <2>1, <3>1, KindAssumption
      DEF StartLogout, Begin, Goto, ClientType, HoldsToken, ClientPc, Presenting
    <3> QED  BY <1>0, <1>1, <2>1, <3>2, RiskType DEF StartLogout, StoreType
  <2>2. CASE LogoutDone(c)
    <3>1. ClientType'
      BY <1>0, <2>2, ResetType DEF LogoutDone
    <3>2. {pair[c]} \X Kind \subseteq Token
      BY <1>0, <2>2 DEF LogoutDone, ClientType, HoldsToken, Token
    <3>3. StoreType'
      BY <1>0, <2>2, <3>2, RiskType DEF LogoutDone, StoreType
    <3> QED  BY <3>1, <3>3 DEF TypeInv, TypeOK, ClientType, StoreType
  <2> QED  BY <1>7, <2>1, <2>2 DEF Logout
<1>8. CASE Finish(c) \/ Abort(c)
  <2>1. ClientType'
    BY <1>0, <1>8, ResetType DEF Finish, Abort
  <2> QED  BY <1>0, <1>1, <1>8, <2>1, RiskType DEF Finish, Abort, StoreType
<1> QED  BY <1>3, <1>4, <1>5, <1>6, <1>7, <1>8 DEF ClientStep, Revoke

LEMMA AdminStepType ==
    ASSUME TypeInv, NEW a \in Admin, AdminStep(a), TrackRisk
    PROVE  TypeInv'
<1> USE DEF redis, history, client, admin
<1>0. ClientType /\ StoreType /\ TypeOK
  BY TypeParts DEF TypeInv
<1>1. doom' \in [Client -> SUBSET Reason]
  BY <1>0 DEF AdminStep, ReadPending, ApproveUpdate, RejectDelete, BlockUpdate, UnblockUpdate,
              DeleteUser, ResetPasswordUpdate, InvalidateUser, SetRevokedBefore, AdminAbort,
              Reopen, ClientType
<1>2. AdminQuiet
  BY DEF AdminStep, ReadPending, ApproveUpdate, RejectDelete, BlockUpdate, UnblockUpdate,
         DeleteUser, ResetPasswordUpdate, InvalidateUser, SetRevokedBefore, AdminAbort
<1>3. ClientType'
  BY <1>0, <1>1, <1>2 DEF AdminQuiet, ClientType, HoldsToken
<1>4. NoUser \in [status : Snapshot, exp : Nat]
  BY DEF NoUser, Snapshot
<1>5. lastRisk' \in Time /\ now' = now
  BY <1>0, <1>2, RiskType DEF AdminQuiet, StoreType
<1>6. apc' \in [Admin -> AdminPc] /\ astamp' \in [Admin -> Time] /\ status' \in Status
  BY <1>0, TtlAssumption
     DEF AdminStep, ReadPending, ApproveUpdate, RejectDelete, BlockUpdate, UnblockUpdate,
         DeleteUser, ResetPasswordUpdate, InvalidateUser, SetRevokedBefore, AdminAbort,
         AdminGoto, StoreType, AdminPc, Status, Time
<1>7. cache' \in [status : Snapshot, exp : Nat]
  BY <1>0, <1>4
     DEF AdminStep, ReadPending, ApproveUpdate, RejectDelete, BlockUpdate, UnblockUpdate,
         DeleteUser, ResetPasswordUpdate, InvalidateUser, SetRevokedBefore, AdminAbort, StoreType
<1>8. cutoff' \in [at : Time, exp : Nat] /\ killed' \subseteq Pair
  BY <1>0, TtlAssumption
     DEF AdminStep, ReadPending, ApproveUpdate, RejectDelete, BlockUpdate, UnblockUpdate,
         DeleteUser, ResetPasswordUpdate, InvalidateUser, SetRevokedBefore, AdminAbort,
         StoreType, Time
<1>9. StoreType'
  BY <1>0, <1>2, <1>5, <1>6, <1>7, <1>8 DEF AdminQuiet, StoreType
<1> QED  BY <1>3, <1>9 DEF TypeInv, TypeOK, ClientType, StoreType

LEMMA EnvironmentType ==
    ASSUME TypeInv, Tick \/ PurgeExpired \/ RedisLoss, TrackRisk
    PROVE  TypeInv'
<1> USE DEF redis, history, client, admin
<1>0. ClientType /\ StoreType /\ TypeOK
  BY TypeParts DEF TypeInv
<1>1. ClientType'
  <2>1. CASE Tick \/ PurgeExpired
    BY <1>0, <2>1 DEF Tick, PurgeExpired, ClientType, HoldsToken
  <2>2. CASE RedisLoss
    BY <1>0, <2>2 DEF RedisLoss, ClientType, HoldsToken
  <2> QED  BY <2>1, <2>2
<1>2. now' \in Time \ {0} /\ lastRisk' \in Time
  BY <1>0, RiskType, TtlAssumption DEF Tick, PurgeExpired, RedisLoss, StoreType, Time
<1>3. /\ cache' \in [status : Snapshot, exp : Nat] /\ cutoff' \in [at : Time, exp : Nat]
      /\ hot' \in [Token -> Nat] /\ row' \in [Token -> Nat]
  BY <1>0, TtlAssumption
     DEF Tick, PurgeExpired, RedisLoss, StoreType, NoUser, NoCutoff, Snapshot, Time
<1>4. StoreType'
  BY <1>0, <1>2, <1>3 DEF Tick, PurgeExpired, RedisLoss, StoreType
<1> QED  BY <1>1, <1>4 DEF TypeInv, TypeOK, ClientType, StoreType

\* TypeOK holds in every reachable state: in particular no handler ever holds
\* or caches an account whose row is gone.
THEOREM TypeCorrect == Spec => []TypeInv
<1>1. Init => TypeInv
  BY TypeInit
<1>2. TypeInv /\ [Next]_vars => TypeInv'
  <2> SUFFICES ASSUME TypeInv, [Next]_vars PROVE TypeInv'
    OBVIOUS
  <2>1. CASE Next
    BY <2>1, ClientStepType, AdminStepType, EnvironmentType DEF Next, Step
  <2>2. CASE UNCHANGED vars
    BY <2>2 DEF vars, redis, history, client, admin, TypeInv, TypeOK, HoldsToken
  <2> QED  BY <2>1, <2>2
<1> QED  BY <1>1, <1>2, PTL DEF Spec

THEOREM SessionsTypeOK == Spec => []TypeOK
<1>1. TypeInv => TypeOK
  BY DEF TypeInv
<1> QED  BY <1>1, TypeCorrect, PTL

(***************************************************************************)
(* A revoked token is refused for the rest of its life.  Of a token whose  *)
(* revocation has returned, either the hot key or the row outlives it,     *)
(* unless it has expired; a request that has passed both reads with such a *)
(* token proves that it has expired.                                       *)
(***************************************************************************)
SignedPast == \A p \in Pair : signed[p].iat <= now

RowCovers == \A t \in Token : row[t] # 0 => IsSigned(t[1]) /\ row[t] >= Exp(t)

HotCovers(t) == now >= Exp(t) \/ "redis_loss" \in Faults \/ hot[t] >= Exp(t)
RowGuards(t) == now >= Exp(t) \/ ("db_error" \notin Faults /\ row[t] >= Exp(t))
HotGuards(t) == "redis_loss" \notin Faults /\ hot[t] >= Exp(t)

RevokedCovered == \A t \in revoked : IsSigned(t[1]) /\ (HotGuards(t) \/ RowGuards(t))

RequestCovered(c) ==
    /\ op[c] \in Kind \cup {"logout"} => IsSigned(pair[c])
    /\ \A t \in marking[c] \cup persisting[c] : IsSigned(t[1])
    /\ \A t \in persisting[c] : HotCovers(t)
    /\ pc[c] = "warm" => stamp[c] >= Exp(Tok(c))
    /\ "revoked" \in doom[c] =>
         /\ op[c] \in Kind /\ Tok(c) \in revoked
         /\ pc[c] = "row" => RowGuards(Tok(c))
         /\ pc[c] \notin {"hot", "row", "warm"} => now >= Exp(Tok(c))

RevocationInv ==
    /\ TypeInv
    /\ SignedPast
    /\ RowCovers
    /\ RevokedCovered
    /\ \A c \in Client : RequestCovered(c)

LEMMA RevocationInit == Init => RevocationInv
<1> SUFFICES ASSUME Init PROVE RevocationInv
  OBVIOUS
<1>1. TypeInv
  BY TypeInit
<1>2. SignedPast /\ RowCovers /\ RevokedCovered
  BY DEF Init, SignedPast, RowCovers, RevokedCovered, Unsigned
<1>3. \A c \in Client : RequestCovered(c)
  BY KindAssumption DEF Init, RequestCovered
<1> QED  BY <1>1, <1>2, <1>3 DEF RevocationInv

\* The key written for an instant at or after a token's expiry outlives it.
LEMMA HotUntilCovers ==
    ASSUME TypeInv, SignedPast, NEW t \in Token, NEW e \in Int, e >= Exp(t)
    PROVE  HotUntil(e) >= Exp(t)
<1>1. t[1] \in Pair /\ t[2] \in Kind /\ Exp(t) \in Nat
  BY ExpType DEF TypeInv
<1>2. Exp(t) - now <= HotTtl
  BY <1>1, TtlAssumption DEF Exp, Ttl, SignedPast, TypeInv, TypeOK, Time
<1> QED  BY <1>1, <1>2, TtlAssumption DEF HotUntil, Smaller, Larger, TypeInv, TypeOK, Time

\* What every step leaves of the stores: a token keeps its expiry, and keys
\* and rows that outlive their token are lost only with Redis.
Durable ==
    /\ now' >= now
    /\ revoked \subseteq revoked'
    /\ \A p \in Pair : IsSigned(p) => signed'[p] = signed[p]
    /\ \A t \in Token : IsSigned(t[1]) =>
         /\ hot[t] >= Exp(t) => now' >= Exp(t) \/ "redis_loss" \in Faults \/ hot'[t] >= Exp(t)
         /\ row[t] >= Exp(t) => now' >= Exp(t) \/ row'[t] >= Exp(t)

\* The steps that touch the clock, the tokens, or what records a revocation.
Touches ==
    \/ \E c \in Client : RewarmHot(c)
    \/ \E c \in Client, p \in Pair : IssueTokenPair(c, p)
    \/ \E c \in Client, t \in Token : RevokeHot(c, t) \/ RevokeRow(c, t)
    \/ Tick \/ PurgeExpired \/ RedisLoss

LEMMA Untouched ==
    ASSUME Step, ~Touches
    PROVE  UNCHANGED <<now, hot, row, signed, revoked>>
<1> USE DEF redis, history
<1>1. ASSUME NEW c \in Client, ClientStep(c)
      PROVE  UNCHANGED <<now, hot, row, signed, revoked>>
  BY <1>1
  DEF Touches, ClientStep, Validate, Access, Refresh, Login, Revoke, Logout, StartAccess,
      StartRefresh, Present, CheckHot, CheckRow, CheckCutoff, ReadCache, LoadForAccess,
      FillForAccess, LoadForRefresh, RotateDone, StartLogin, LoadForLogin, StartLogout,
      LogoutHotError, LogoutDone, Finish, Abort
<1>2. ASSUME NEW a \in Admin, AdminStep(a)
      PROVE  UNCHANGED <<now, hot, row, signed, revoked>>
  BY <1>2
  DEF AdminStep, AdminQuiet, ReadPending, ApproveUpdate, RejectDelete, BlockUpdate, UnblockUpdate,
      DeleteUser, ResetPasswordUpdate, InvalidateUser, SetRevokedBefore, AdminAbort
<1> QED  BY <1>1, <1>2 DEF Step, Touches

LEMMA StepIsDurable ==
    ASSUME RevocationInv, Step
    PROVE  Durable
<1> USE DEF redis, history
<1>0. TypeInv /\ TypeOK /\ SignedPast
  BY DEF RevocationInv, TypeInv
<1>t. now \in Nat /\ \A t \in Token : t[1] \in Pair /\ Exp(t) \in Nat /\ hot[t] \in Nat /\ row[t] \in Nat
  BY <1>0, ExpType DEF TypeOK, Time
<1>1. CASE ~Touches
  BY <1>1, <1>t, Untouched DEF Durable
<1>2. ASSUME NEW c \in Client, RewarmHot(c) PROVE Durable
  <2>1. pc[c] = "warm" /\ Tok(c) \in Token /\ stamp[c] \in Nat
    BY <1>0, <1>2 DEF RewarmHot, TypeInv, HoldsToken, Presenting, Tok, Token, TypeOK
  <2>2. stamp[c] >= Exp(Tok(c))
    BY <2>1 DEF RevocationInv, RequestCovered
  <2>3. HotUntil(stamp[c]) >= Exp(Tok(c))
    BY <1>0, <2>1, <2>2, HotUntilCovers
  <2>4. \A t \in Token : hot'[t] = IF t = Tok(c) THEN HotUntil(stamp[c]) ELSE hot[t]
    BY <1>0, <1>2 DEF RewarmHot, TypeOK
  <2> QED  BY <1>2, <1>t, <2>3, <2>4 DEF RewarmHot, Durable
<1>3. ASSUME NEW c \in Client, NEW p \in Pair, IssueTokenPair(c, p) PROVE Durable
  BY <1>0, <1>3, <1>t DEF IssueTokenPair, Durable, TypeOK
<1>4. ASSUME NEW c \in Client, NEW t \in Token, RevokeHot(c, t) \/ RevokeRow(c, t) PROVE Durable
  <2>1. RevokeUntil(c, t) \in Nat /\ RevokeUntil(c, t) >= Exp(t)
    BY <1>t DEF RevokeUntil, Larger
  <2>2. HotUntil(RevokeUntil(c, t)) >= Exp(t)
    BY <1>0, <2>1, HotUntilCovers
  <2>3. CASE RevokeHot(c, t)
    <3>1. \A u \in Token : hot'[u] = IF u = t THEN HotUntil(RevokeUntil(c, t)) ELSE hot[u]
      BY <1>0, <2>3 DEF RevokeHot, TypeOK
    <3> QED  BY <1>t, <2>2, <2>3, <3>1 DEF RevokeHot, Durable
  <2>4. CASE RevokeRow(c, t)
    <3>1. \A u \in Token : row'[u] = row[u] \/ (u = t /\ row'[u] = RevokeUntil(c, t))
      BY <1>0, <2>4 DEF RevokeRow, TypeOK
    <3> QED  BY <1>t, <2>1, <2>4, <3>1 DEF RevokeRow, Durable
  <2> QED  BY <1>4, <2>3, <2>4
<1>5. CASE Tick
  BY <1>5, <1>t DEF Tick, Durable
<1>6. CASE PurgeExpired
  BY <1>6, <1>t DEF PurgeExpired, Durable
<1>7. CASE RedisLoss
  BY <1>7, <1>t DEF RedisLoss, Durable
<1> QED  BY <1>1, <1>2, <1>3, <1>4, <1>5, <1>6, <1>7 DEF Touches

\* A token that exists keeps its expiry, and its guards stay.
LEMMA DurableGuards ==
    ASSUME RevocationInv, TypeInv', Durable, NEW t \in Token, IsSigned(t[1])
    PROVE  /\ IsSigned(t[1])' /\ Exp(t)' = Exp(t)
           /\ HotCovers(t) => HotCovers(t)'
           /\ RowGuards(t) => RowGuards(t)'
           /\ HotGuards(t) => HotGuards(t)' \/ RowGuards(t)'
           /\ now >= Exp(t) => now' >= Exp(t)'
<1>1. t[1] \in Pair /\ Exp(t) \in Nat /\ now \in Nat /\ now' \in Nat
  BY ExpType DEF RevocationInv, TypeInv, TypeOK, Time
<1>2. IsSigned(t[1])' /\ Exp(t)' = Exp(t)
  BY <1>1 DEF Durable, IsSigned, Exp
<1> QED  BY <1>1, <1>2 DEF Durable, HotCovers, RowGuards, HotGuards

\* No two stores fail at once: Redis keeps its contents, or Postgres accepts
\* the blacklist row.
OneStoreHolds == "redis_loss" \notin Faults \/ "db_error" \notin Faults

LEMMA StoresCovered ==
    ASSUME RevocationInv, OneStoreHolds, Step, Durable, TypeInv'
    PROVE  SignedPast' /\ RowCovers' /\ RevokedCovered'
<1> USE DEF redis, history
<1>0. TypeInv /\ TypeOK /\ TypeOK' /\ SignedPast /\ RowCovers /\ RevokedCovered
  BY DEF RevocationInv, TypeInv
<1>t. /\ now \in Nat /\ now' \in Nat
      /\ \A t \in Token : t[1] \in Pair /\ Exp(t) \in Nat /\ row[t] \in Nat /\ row'[t] \in Nat
  BY <1>0, ExpType DEF TypeOK, Time
<1>1. \A t \in Token : IsSigned(t[1]) => IsSigned(t[1])' /\ Exp(t)' = Exp(t)
  BY DurableGuards
<1>2. CASE ~Touches
  <2>1. UNCHANGED <<now, hot, row, signed, revoked>>
    BY <1>2, Untouched
  <2> QED
    BY <1>0, <2>1
    DEF SignedPast, RowCovers, RevokedCovered, HotGuards, RowGuards, Exp, IsSigned
<1>3. ASSUME row' = row, revoked' = revoked, SignedPast' PROVE SignedPast' /\ RowCovers' /\ RevokedCovered'
  <2>1. RowCovers'
    BY <1>0, <1>1, <1>3 DEF RowCovers
  <2>2. RevokedCovered'
    BY <1>0, <1>3, DurableGuards DEF RevokedCovered, TypeOK
  <2> QED  BY <1>3, <2>1, <2>2
<1>4. ASSUME NEW c \in Client, RewarmHot(c) PROVE row' = row /\ revoked' = revoked /\ SignedPast'
  BY <1>0, <1>4 DEF RewarmHot, SignedPast
<1>5. ASSUME NEW c \in Client, NEW p \in Pair, IssueTokenPair(c, p)
      PROVE  row' = row /\ revoked' = revoked /\ SignedPast'
  BY <1>0, <1>t, <1>5 DEF IssueTokenPair, SignedPast, TypeOK
<1>6. ASSUME NEW c \in Client, NEW t \in Token, RevokeHot(c, t)
      PROVE  row' = row /\ revoked' = revoked /\ SignedPast'
  BY <1>0, <1>6 DEF RevokeHot, SignedPast
<1>7. ASSUME NEW c \in Client, NEW t \in Token, RevokeRow(c, t)
      PROVE  SignedPast' /\ RowCovers' /\ RevokedCovered'
  <2>1. RevokeUntil(c, t) \in Nat /\ RevokeUntil(c, t) >= Exp(t)
    BY <1>t DEF RevokeUntil, Larger
  <2>2. IsSigned(t[1]) /\ HotCovers(t)
    BY <1>7 DEF RevokeRow, RevocationInv, RequestCovered
  <2>3. \A u \in Token : row'[u] = row[u] \/ (u = t /\ row'[u] = RevokeUntil(c, t))
    BY <1>0, <1>7 DEF RevokeRow, TypeOK
  <2>4. SignedPast' /\ RowCovers'
    BY <1>0, <1>1, <1>7, <2>1, <2>2, <2>3 DEF RevokeRow, SignedPast, RowCovers
  <2>5. IsSigned(t[1])' /\ (HotGuards(t)' \/ RowGuards(t)')
    <3>1. CASE "redis_loss" \notin Faults
      BY <2>2, <3>1, DurableGuards DEF HotCovers, HotGuards, RowGuards
    <3>2. CASE "db_error" \notin Faults
      <4>1. row'[t] = RevokeUntil(c, t)
        BY <1>0, <1>7, <3>2 DEF RevokeRow, TypeOK
      <4> QED  BY <1>1, <2>1, <2>2, <3>2, <4>1 DEF RowGuards
    <3> QED  BY <3>1, <3>2 DEF OneStoreHolds
  <2>6. revoked' = revoked \cup {t}
    BY <1>7 DEF RevokeRow
  <2>7. \A u \in revoked : IsSigned(u[1])' /\ (HotGuards(u)' \/ RowGuards(u)')
    BY <1>0, DurableGuards DEF RevokedCovered, TypeOK
  <2>8. RevokedCovered'
    BY <2>5, <2>6, <2>7 DEF RevokedCovered
  <2> QED  BY <2>4, <2>8
<1>8. CASE Tick
  <2>1. row' = row /\ revoked' = revoked /\ SignedPast'
    BY <1>0, <1>t, <1>8 DEF Tick, SignedPast, TypeOK, Time
  <2> QED  BY <1>3, <2>1
<1>9. CASE PurgeExpired
  <2>1. \A t \in Token : row'[t] = row[t] \/ row'[t] = 0
    BY <1>9 DEF PurgeExpired
  <2>2. SignedPast' /\ RowCovers'
    BY <1>0, <1>1, <1>9, <2>1 DEF PurgeExpired, SignedPast, RowCovers
  <2>3. RevokedCovered'
    BY <1>0, <1>9, DurableGuards DEF PurgeExpired, RevokedCovered, TypeOK
  <2> QED  BY <2>2, <2>3
<1>10. CASE RedisLoss
  <2>1. row' = row /\ revoked' = revoked /\ SignedPast'
    BY <1>0, <1>10 DEF RedisLoss, SignedPast
  <2> QED  BY <1>3, <2>1
<1> QED  BY <1>2, <1>3, <1>4, <1>5, <1>6, <1>7, <1>8, <1>9, <1>10 DEF Touches

\* A request that does not move, or moves on once past the revocation reads,
\* stays covered.
Early == {"hot", "row", "warm"}

LEMMA RequestFrame ==
    ASSUME RevocationInv, Durable, TypeInv', NEW d \in Client,
           \/ pc'[d] = pc[d] /\ stamp'[d] = stamp[d]
           \/ pc[d] \notin Early /\ pc'[d] \notin Early,
           op'[d] = op[d], pair'[d] = pair[d], marking'[d] \subseteq marking[d],
           persisting'[d] \subseteq persisting[d], doom'[d] \subseteq doom[d]
    PROVE  RequestCovered(d)'
<1>0. RequestCovered(d) /\ HoldsToken /\ TypeOK
  BY DEF RevocationInv, TypeInv
<1>1. op[d] \in Kind \cup {"logout"} => IsSigned(pair[d])'
  BY <1>0 DEF RequestCovered, HoldsToken, Durable, IsSigned
<1>2. /\ marking[d] \cup persisting[d] \subseteq Token
      /\ \A t \in marking[d] \cup persisting[d] : IsSigned(t[1])' /\ (HotCovers(t) => HotCovers(t)')
  BY <1>0, DurableGuards DEF RequestCovered, TypeOK
<1>3. op[d] \in Kind => /\ Tok(d) \in Token /\ IsSigned(Tok(d)[1]) /\ Tok(d)' = Tok(d)
                        /\ Tok(d)[1] = pair[d]
  BY <1>0 DEF RequestCovered, HoldsToken, Tok, Token
<1>4. op[d] \in Kind =>
        /\ Exp(Tok(d))' = Exp(Tok(d))
        /\ RowGuards(Tok(d)) => RowGuards(Tok(d))'
        /\ now >= Exp(Tok(d)) => now' >= Exp(Tok(d))'
  <2> SUFFICES ASSUME op[d] \in Kind
               PROVE  /\ Exp(Tok(d))' = Exp(Tok(d))
                      /\ RowGuards(Tok(d)) => RowGuards(Tok(d))'
                      /\ now >= Exp(Tok(d)) => now' >= Exp(Tok(d))'
    OBVIOUS
  <2> DEFINE t == Tok(d)
  <2>1. t \in Token /\ IsSigned(t[1]) /\ Tok(d)' = t
    BY <1>3
  <2>2. /\ signed'[t[1]] = signed[t[1]]
        /\ Exp(t) \in Nat /\ now \in Nat /\ now' \in Nat /\ now' >= now
        /\ row[t] >= Exp(t) => now' >= Exp(t) \/ row'[t] >= Exp(t)
    BY <2>1, ExpType DEF Durable, TypeOK, RevocationInv, TypeInv, Time
  <2> QED  BY <2>1, <2>2 DEF Exp, RowGuards
<1>5. pc[d] = "warm" => op[d] \in Kind
  BY <1>0 DEF HoldsToken, Presenting
<1>6. revoked \subseteq revoked'
  BY DEF Durable
<1>7. "revoked" \in doom'[d] =>
        /\ op[d] \in Kind /\ Tok(d) \in revoked
        /\ pc[d] = "row" => RowGuards(Tok(d))
        /\ pc[d] \notin Early => now >= Exp(Tok(d))
  BY <1>0 DEF RequestCovered, Early
<1> QED  BY <1>0, <1>1, <1>2, <1>3, <1>4, <1>5, <1>6, <1>7 DEF RequestCovered, Early

LEMMA ResetCovered ==
    ASSUME TypeInv, NEW c \in Client, Reset(c)
    PROVE  RequestCovered(c)'
BY KindAssumption DEF TypeInv, TypeOK, Reset, Goto, RequestCovered

LEMMA BeginCovered ==
    ASSUME RevocationInv, NEW c \in Client, NEW k \in Kind, NEW p \in Pair, Present(c, k, p),
           Durable, TypeInv'
    PROVE  RequestCovered(c)'
<1> USE DEF redis, history, client
<1>0. TypeOK /\ TypeInv
  BY DEF RevocationInv, TypeInv
<1>1. CASE Unexpired(<<p, k>>)
  <2>1. /\ op'[c] = k /\ pc'[c] = "hot" /\ pair'[c] = p /\ marking'[c] = marking[c]
        /\ persisting'[c] = persisting[c] /\ doom'[c] = Reasons(<<p, k>>)
    BY <1>0, <1>1 DEF Present, Begin, Goto, TypeOK
  <2>2. UNCHANGED <<now, hot, row, signed, revoked>> /\ IsSigned(p)
    BY DEF Present
  <2>3. Tok(c)' = <<p, k>>
    BY <2>1 DEF Tok
  <2>4. "revoked" \in doom'[c] => <<p, k>> \in revoked'
    BY <2>1, <2>2 DEF Reasons
  <2>5. \A t \in marking'[c] \cup persisting'[c] : IsSigned(t[1])'
    BY <2>1, <2>2 DEF RevocationInv, RequestCovered, IsSigned
  <2>6. \A t \in persisting'[c] : HotCovers(t)'
    BY <2>1, <2>2 DEF RevocationInv, RequestCovered, HotCovers, Exp
  <2> QED  BY <2>1, <2>2, <2>3, <2>4, <2>5, <2>6 DEF RequestCovered, IsSigned
<1>2. CASE ~Unexpired(<<p, k>>)
  BY <1>2, RequestFrame DEF Present
<1> QED  BY <1>1, <1>2

\* One case per step of the request itself.
LEMMA OwnStepCovered ==
    ASSUME RevocationInv, NEW c \in Client, ClientStep(c), Durable, TypeInv'
    PROVE  RequestCovered(c)'
<1> USE DEF redis, history, client
<1>0. TypeOK /\ TypeInv /\ RequestCovered(c) /\ HoldsToken
  BY DEF RevocationInv, TypeInv
<1>r. CASE Reset(c)
  BY <1>0, <1>r, ResetCovered
<1>t. op[c] \in Kind => Tok(c) \in Token /\ IsSigned(Tok(c)[1]) /\ Exp(Tok(c)) \in Nat
  BY <1>0, ExpType DEF RequestCovered, HoldsToken, Tok, Token
<1>n. now \in Nat /\ \A t \in Token : hot[t] \in Nat /\ row[t] \in Nat
  BY <1>0 DEF TypeOK, Time
<1>1. CASE CheckHot(c) /\ ~Reset(c)
  <2>1. /\ UNCHANGED <<now, hot, row, signed, revoked, op, pair, marking, persisting, doom>>
        /\ pc[c] = "hot" /\ pc'[c] = "row" /\ ~(hot[Tok(c)] > now) /\ op[c] \in Kind
    BY <1>0, <1>1 DEF CheckHot, Goto, TypeOK, HoldsToken, Presenting
  <2>2. "revoked" \in doom[c] => RowGuards(Tok(c))
    BY <1>0, <1>t, <1>n, <2>1
    DEF RequestCovered, RevocationInv, RevokedCovered, HotGuards, RowGuards
  <2> QED
    BY <1>0, <2>1, <2>2 DEF RequestCovered, IsSigned, HotCovers, RowGuards, Exp, Tok
<1>2. CASE CheckRow(c)
  <2>1. /\ UNCHANGED <<now, hot, row, signed, revoked, op, pair, marking, persisting, doom>>
        /\ pc[c] = "row" /\ op[c] \in Kind
        /\ \/ pc'[c] = "warm" /\ row[Tok(c)] > now /\ stamp'[c] = row[Tok(c)]
           \/ pc'[c] = "cutoff" /\ ~(row[Tok(c)] > now)
    BY <1>0, <1>2 DEF CheckRow, Goto, TypeOK, HoldsToken, Presenting
  <2>2. pc'[c] = "warm" => stamp'[c] >= Exp(Tok(c))
    BY <1>t, <1>n, <2>1 DEF RevocationInv, RowCovers
  <2>3. "revoked" \in doom[c] /\ pc'[c] = "cutoff" => now >= Exp(Tok(c))
    BY <1>0, <1>t, <1>n, <2>1 DEF RequestCovered, RowGuards
  <2> QED
    BY <1>0, <2>1, <2>2, <2>3 DEF RequestCovered, IsSigned, HotCovers, RowGuards, Exp, Tok
<1>3. CASE (CheckCutoff(c) \/ ReadCache(c) \/ LoadForAccess(c) \/ FillForAccess(c)) /\ ~Reset(c)
  <2>1. pc[c] \notin Early /\ pc'[c] \notin Early
    BY <1>0, <1>3
    DEF CheckCutoff, ReadCache, LoadForAccess, FillForAccess, Grant, Goto, TypeOK, Early
  <2>2. UNCHANGED <<op, pair, marking, persisting, doom>>
    BY <1>3 DEF CheckCutoff, ReadCache, LoadForAccess, FillForAccess, Grant
  <2> QED  BY <2>1, <2>2, RequestFrame
<1>4. CASE (RotateDone(c) \/ LoadForLogin(c)) /\ ~Reset(c)
  <2>1. pc[c] \notin Early /\ pc'[c] \notin Early
    BY <1>0, <1>4 DEF RotateDone, LoadForLogin, Goto, TypeOK, Early
  <2>2. UNCHANGED <<op, pair, marking, persisting, doom>>
    BY <1>4 DEF RotateDone, LoadForLogin
  <2> QED  BY <2>1, <2>2, RequestFrame
<1>5. CASE LoadForRefresh(c) /\ ~Reset(c)
  <2>1. /\ UNCHANGED <<now, hot, row, signed, revoked, op, pair, persisting, doom>>
        /\ marking'[c] = {Tok(c)} /\ pc[c] = "load" /\ pc'[c] = "revoke" /\ op[c] \in Kind
    BY <1>0, <1>5 DEF LoadForRefresh, Goto, TypeOK, HoldsToken
  <2> QED
    BY <1>0, <1>t, <2>1 DEF RequestCovered, IsSigned, HotCovers, RowGuards, Exp, Tok
<1>6. ASSUME NEW p \in Pair, StartAccess(c, p) \/ StartRefresh(c, p)
      PROVE  RequestCovered(c)'
  BY <1>6, BeginCovered DEF StartAccess, StartRefresh, Present
<1>7. CASE StartLogin(c)
  <2>1. CASE status = "ACTIVE"
    <3>1. /\ UNCHANGED <<now, hot, row, signed, revoked, marking, persisting>>
          /\ op'[c] = "login" /\ pc'[c] = "load" /\ doom'[c] = {}
      BY <1>0, <1>7, <2>1, KindAssumption DEF StartLogin, Begin, Goto, TypeOK
    <3> QED  BY <1>0, <3>1, KindAssumption DEF RequestCovered, IsSigned, HotCovers, Exp
  <2>2. CASE status # "ACTIVE"
    BY <1>7, <2>2, RequestFrame DEF StartLogin
  <2> QED  BY <2>1, <2>2
<1>8. ASSUME NEW p \in Pair, StartLogout(c, p) PROVE RequestCovered(c)'
  <2>1. /\ UNCHANGED <<now, hot, row, signed, revoked, persisting>> /\ IsSigned(p)
        /\ op'[c] = "logout" /\ pc'[c] = "revoke" /\ pair'[c] = p /\ doom'[c] = {}
        /\ marking'[c] = {p} \X Kind
    BY <1>0, <1>8, KindAssumption DEF StartLogout, Begin, Goto, TypeOK
  <2> QED  BY <1>0, <2>1, KindAssumption DEF RequestCovered, IsSigned, HotCovers, Exp
<1>9. ASSUME NEW t \in Token, RevokeRow(c, t) \/ LogoutHotError(c, t) PROVE RequestCovered(c)'
  <2>1. /\ UNCHANGED <<op, pc, pair, stamp, doom>>
        /\ marking'[c] \subseteq marking[c] /\ persisting'[c] \subseteq persisting[c]
    BY <1>0, <1>9 DEF RevokeRow, LogoutHotError, TypeOK
  <2> QED  BY <2>1, RequestFrame
<1>10. ASSUME NEW t \in Token, RevokeHot(c, t) PROVE RequestCovered(c)'
  <2>1. /\ UNCHANGED <<now, row, signed, revoked, op, pc, pair, stamp, doom>>
        /\ t \in marking[c] /\ IsSigned(t[1]) /\ hot'[t] = HotUntil(RevokeUntil(c, t))
        /\ marking'[c] = marking[c] \ {t} /\ persisting'[c] = persisting[c] \cup {t}
    BY <1>0, <1>10 DEF RevokeHot, TypeOK, RequestCovered
  <2>2. RevokeUntil(c, t) \in Nat /\ RevokeUntil(c, t) >= Exp(t)
    BY <1>0, <1>n, ExpType DEF RevokeUntil, Larger
  <2>3. HotCovers(t)'
    BY <1>0, <2>1, <2>2, HotUntilCovers DEF RevocationInv, HotCovers, Exp
  <2>4. \A u \in persisting[c] : u \in Token /\ IsSigned(u[1]) /\ HotCovers(u)
    BY <1>0 DEF RequestCovered, TypeOK
  <2>5. \A u \in persisting[c] : HotCovers(u)'
    BY <2>4, DurableGuards
  <2> QED
    BY <1>0, <2>1, <2>3, <2>5 DEF RequestCovered, IsSigned, RowGuards, Exp, Tok
<1>11. ASSUME NEW p \in Pair, IssueTokenPair(c, p) PROVE RequestCovered(c)'
  <2>1. pc[c] \notin Early /\ pc'[c] \notin Early
    BY <1>0, <1>11 DEF IssueTokenPair, Grant, Goto, TypeOK, Early
  <2> QED  BY <1>11, <2>1, RequestFrame DEF IssueTokenPair, Grant
<1>12. RewarmHot(c) \/ LogoutDone(c) \/ Finish(c) \/ Abort(c) => Reset(c)
  BY DEF RewarmHot, LogoutDone, Finish, Abort
<1> QED
  BY <1>r, <1>1, <1>2, <1>3, <1>4, <1>5, <1>6, <1>7, <1>8, <1>9, <1>10, <1>11, <1>12
  DEF ClientStep, Validate, Access, Refresh, Login, Revoke, Logout

\* A request that is not the one that steps keeps its own variables.
LEMMA OthersStay ==
    ASSUME TypeOK, NEW c \in Client, ClientStep(c), NEW d \in Client, d # c
    PROVE  /\ op'[d] = op[d] /\ pc'[d] = pc[d] /\ pair'[d] = pair[d] /\ snap'[d] = snap[d]
           /\ stamp'[d] = stamp[d] /\ doom'[d] = doom[d]
           /\ marking'[d] = marking[d] /\ persisting'[d] = persisting[d]
<1> USE DEF TypeOK, client, Goto
<1>1. CASE Reset(c) \/ Grant(c)
  BY <1>1 DEF Reset, Grant
<1>2. CASE Validate(c) /\ ~Reset(c)
  BY <1>2 DEF Validate, CheckHot, CheckRow, RewarmHot, CheckCutoff
<1>3. ASSUME NEW o, NEW p, NEW label, Begin(c, o, p, label), marking'[d] = marking[d]
      PROVE  /\ op'[d] = op[d] /\ pc'[d] = pc[d] /\ pair'[d] = pair[d] /\ snap'[d] = snap[d]
             /\ stamp'[d] = stamp[d] /\ doom'[d] = doom[d]
             /\ marking'[d] = marking[d] /\ persisting'[d] = persisting[d]
  BY <1>3 DEF Begin
<1>4. ASSUME NEW p \in Pair, StartAccess(c, p) \/ StartRefresh(c, p) \/ StartLogin(c)
      PROVE  \/ UNCHANGED client
             \/ \E o, q, label : Begin(c, o, q, label) /\ marking'[d] = marking[d]
  BY <1>4 DEF StartAccess, StartRefresh, StartLogin, Present
<1>5. ASSUME NEW p \in Pair, StartLogout(c, p)
      PROVE  \E o, q, label : Begin(c, o, q, label) /\ marking'[d] = marking[d]
  BY <1>5 DEF StartLogout
<1>6. CASE /\ ReadCache(c) \/ LoadForAccess(c) \/ FillForAccess(c) \/ LoadForRefresh(c)
              \/ RotateDone(c) \/ LoadForLogin(c)
           /\ ~Reset(c) /\ ~Grant(c)
  BY <1>6 DEF ReadCache, LoadForAccess, FillForAccess, LoadForRefresh, RotateDone, LoadForLogin
<1>7. CASE Revoke(c)
  BY <1>7 DEF Revoke, RevokeHot, RevokeRow, LogoutHotError
<1>8. StartLogin(c) => \E p \in Pair : StartLogin(c)
  BY DEF StartLogin
<1> QED
  BY <1>1, <1>2, <1>3, <1>4, <1>5, <1>6, <1>7, <1>8
  DEF ClientStep, Access, Refresh, Login, Logout, LogoutDone, IssueTokenPair, Finish, Abort

LEMMA RequestsCovered ==
    ASSUME RevocationInv, Step, Durable, TypeInv'
    PROVE  \A d \in Client : RequestCovered(d)'
<1>0. TypeOK
  BY DEF RevocationInv, TypeInv
<1>1. ASSUME NEW c \in Client, ClientStep(c), NEW d \in Client PROVE RequestCovered(d)'
  <2>1. CASE d = c
    BY <1>1, <2>1, OwnStepCovered
  <2>2. CASE d # c
    BY <1>0, <1>1, <2>2, OthersStay, RequestFrame
  <2> QED  BY <2>1, <2>2
<1>2. ASSUME NEW a \in Admin, AdminStep(a), NEW d \in Client PROVE RequestCovered(d)'
  <2>1. UNCHANGED <<op, pc, pair, stamp, marking, persisting>> /\ doom'[d] \subseteq doom[d]
    BY <1>2
    DEF AdminStep, AdminQuiet, ReadPending, ApproveUpdate, RejectDelete, BlockUpdate,
        UnblockUpdate, DeleteUser, ResetPasswordUpdate, InvalidateUser, SetRevokedBefore,
        AdminAbort, Reopen
  <2> QED  BY <2>1, RequestFrame
<1>3. ASSUME Tick \/ PurgeExpired \/ RedisLoss, NEW d \in Client PROVE RequestCovered(d)'
  BY <1>3, RequestFrame DEF Tick, PurgeExpired, RedisLoss, client
<1> QED  BY <1>1, <1>2, <1>3 DEF Step

LEMMA RevocationStep ==
    ASSUME RevocationInv, OneStoreHolds, [Next]_vars
    PROVE  RevocationInv'
<1>1. CASE Next
  <2>1. TypeInv'
    BY <1>1, ClientStepType, AdminStepType, EnvironmentType DEF RevocationInv, Next, Step
  <2>2. Durable
    BY <1>1, StepIsDurable DEF Next
  <2> QED
    BY <1>1, <2>1, <2>2, StoresCovered, RequestsCovered DEF RevocationInv, Next
<1>2. CASE UNCHANGED vars
  BY <1>2
  DEF vars, redis, history, client, admin, RevocationInv, TypeInv, TypeOK, HoldsToken, SignedPast,
      RowCovers, RevokedCovered, RequestCovered, HotCovers, RowGuards, HotGuards, Exp, Tok, IsSigned
<1> QED  BY <1>1, <1>2

LEMMA RevocationInvariant ==
    ASSUME OneStoreHolds
    PROVE  Spec => []RevocationInv
<1>1. Init => RevocationInv
  BY RevocationInit
<1>2. RevocationInv /\ [Next]_vars => RevocationInv'
  BY RevocationStep
<1> QED  BY <1>1, <1>2, PTL DEF Spec

\* Once revoke() has returned, no later request gets through with that token
\* while it is unexpired, as long as at most one of the two stores fails.
THEOREM RevokedStaysRefused ==
    ASSUME OneStoreHolds
    PROVE  Spec => []RevokedIsFinal
<1>1. RevocationInv => RevokedIsFinal
  BY DEF RevocationInv, RequestCovered, RevokedIsFinal, GrantedOnlyIfExpired
<1> QED  BY <1>1, RevocationInvariant, PTL

(***************************************************************************)
(* Logout answers only when each cookie it was sent with is revoked, if    *)
(* Redis raises no error: the answer then inherits RevokedIsFinal.         *)
(***************************************************************************)
LogoutCovered(c) ==
    /\ "loggedOut" \in doom[c] => "revoked" \in doom[c]
    /\ op[c] = "logout" =>
         \A k \in Kind : <<pair[c], k>> \in marking[c] \cup persisting[c] \cup revoked

LogoutInv == loggedOut \subseteq revoked /\ \A c \in Client : LogoutCovered(c)

\* What a step leaves of the two history sets.
LEMMA RevokedGrows ==
    ASSUME Step
    PROVE  /\ revoked \subseteq revoked'
           /\ \/ loggedOut' = loggedOut
              \/ \E c \in Client : LogoutDone(c) /\ loggedOut' = loggedOut \cup ({pair[c]} \X Kind)
<1> USE DEF redis, history
<1>1. revoked \subseteq revoked'
  <2>1. CASE Touches
    BY <2>1
    DEF Touches, RewarmHot, IssueTokenPair, RevokeHot, RevokeRow, Tick, PurgeExpired, RedisLoss
  <2>2. CASE ~Touches
    BY <2>2, Untouched
  <2> QED  BY <2>1, <2>2
<1>2. ASSUME NEW c \in Client, ClientStep(c), ~LogoutDone(c) PROVE loggedOut' = loggedOut
  BY <1>2
  DEF ClientStep, Validate, Access, Refresh, Login, Revoke, Logout, StartAccess,
      StartRefresh, Present, CheckHot, CheckRow, RewarmHot, CheckCutoff, ReadCache, LoadForAccess,
      FillForAccess, LoadForRefresh, RotateDone, StartLogin, LoadForLogin, StartLogout, RevokeHot,
      RevokeRow, LogoutHotError, IssueTokenPair, Finish, Abort
<1>3. ASSUME NEW c \in Client, LogoutDone(c) PROVE loggedOut' = loggedOut \cup ({pair[c]} \X Kind)
  BY <1>3 DEF LogoutDone
<1>4. ASSUME NEW a \in Admin, AdminStep(a) PROVE loggedOut' = loggedOut
  BY <1>4
  DEF AdminStep, AdminQuiet, ReadPending, ApproveUpdate, RejectDelete, BlockUpdate, UnblockUpdate,
      DeleteUser, ResetPasswordUpdate, InvalidateUser, SetRevokedBefore, AdminAbort
<1> QED  BY <1>1, <1>2, <1>3, <1>4 DEF Step, Tick, PurgeExpired, RedisLoss

LEMMA OwnLogoutStep ==
    ASSUME TypeInv, LogoutInv, "redis_error" \notin Faults, NEW c \in Client, ClientStep(c)
    PROVE  LogoutCovered(c)'
<1> USE DEF redis, history, client
<1>0. TypeOK /\ loggedOut \subseteq revoked /\ LogoutCovered(c) /\ revoked \subseteq revoked'
  BY RevokedGrows DEF TypeInv, LogoutInv, Step
<1>1. CASE Reset(c)
  BY <1>0, <1>1 DEF Reset, LogoutCovered, TypeOK
<1>2. CASE UNCHANGED <<op, pair, marking, persisting, doom>>
  BY <1>0, <1>2 DEF LogoutCovered
<1>3. ASSUME NEW p \in Pair, StartAccess(c, p) \/ StartRefresh(c, p) PROVE LogoutCovered(c)'
  <2>1. PICK k \in Kind : Present(c, k, p)
    BY <1>3 DEF StartAccess, StartRefresh, Present
  <2>2. CASE Unexpired(<<p, k>>)
    <3>1. op'[c] = k /\ k # "logout" /\ doom'[c] = Reasons(<<p, k>>) /\ revoked' = revoked
      BY <1>0, <2>1, <2>2, KindAssumption DEF Present, Begin, TypeOK
    <3> QED  BY <1>0, <3>1 DEF LogoutCovered, Reasons, Reason
  <2> QED  BY <1>2, <2>1, <2>2 DEF Present
<1>4. CASE StartLogin(c)
  <2>1. CASE status = "ACTIVE"
    BY <1>0, <1>4, <2>1, KindAssumption DEF StartLogin, Begin, LogoutCovered, TypeOK
  <2> QED  BY <1>2, <1>4, <2>1 DEF StartLogin
<1>5. ASSUME NEW p \in Pair, StartLogout(c, p) PROVE LogoutCovered(c)'
  BY <1>0, <1>5, KindAssumption DEF StartLogout, Begin, LogoutCovered, TypeOK
<1>6. ASSUME NEW t \in Token, RevokeHot(c, t) \/ RevokeRow(c, t) PROVE LogoutCovered(c)'
  <2>1. /\ UNCHANGED <<op, pair, doom>>
        /\ marking[c] \cup persisting[c] \subseteq marking'[c] \cup persisting'[c] \cup revoked'
    BY <1>0, <1>6 DEF RevokeHot, RevokeRow, TypeOK
  <2> QED  BY <1>0, <2>1 DEF LogoutCovered
<1>7. CASE LoadForRefresh(c)
  BY <1>0, <1>1, <1>7 DEF LoadForRefresh, LogoutCovered
<1>8. Grant(c) => UNCHANGED <<op, pair, marking, persisting, doom>>
  BY DEF Grant
<1> QED
  BY <1>1, <1>2, <1>3, <1>4, <1>5, <1>6, <1>7, <1>8
  DEF ClientStep, Validate, CheckHot, CheckRow, RewarmHot, CheckCutoff, Access, ReadCache,
      LoadForAccess, FillForAccess, Refresh, RotateDone, Login, LoadForLogin, Revoke,
      LogoutHotError, Logout, LogoutDone, IssueTokenPair, Finish, Abort

LEMMA LogoutStep ==
    ASSUME TypeInv, LogoutInv, "redis_error" \notin Faults, Next
    PROVE  LogoutInv'
<1> USE DEF redis, history, client
<1>0. TypeOK /\ loggedOut \subseteq revoked /\ \A c \in Client : LogoutCovered(c)
  BY DEF TypeInv, LogoutInv
<1>1. revoked \subseteq revoked' /\ Step
  BY RevokedGrows DEF Next
<1>2. loggedOut' \subseteq revoked'
  <2>1. ASSUME NEW c \in Client, LogoutDone(c) PROVE {pair[c]} \X Kind \subseteq revoked
    BY <1>0, <2>1 DEF LogoutDone, LogoutCovered
  <2> QED  BY <1>0, <1>1, <2>1, RevokedGrows
<1>3. ASSUME NEW d \in Client, op'[d] = op[d], pair'[d] = pair[d], marking'[d] = marking[d],
             persisting'[d] = persisting[d], doom'[d] \in {doom[d], doom[d] \ {"locked"}, doom[d] \ {"killed"}}
      PROVE  LogoutCovered(d)'
  BY <1>0, <1>1, <1>3 DEF LogoutCovered
<1>4. ASSUME NEW c \in Client, ClientStep(c), NEW d \in Client PROVE LogoutCovered(d)'
  BY <1>0, <1>3, <1>4, OwnLogoutStep, OthersStay
<1>5. ASSUME NEW a \in Admin, AdminStep(a), NEW d \in Client PROVE LogoutCovered(d)'
  <2>1. /\ UNCHANGED <<op, pair, marking, persisting>>
        /\ doom'[d] \in {doom[d], doom[d] \ {"locked"}}
    BY <1>5
    DEF AdminStep, AdminQuiet, ReadPending, ApproveUpdate, RejectDelete, BlockUpdate,
        UnblockUpdate, DeleteUser, ResetPasswordUpdate, InvalidateUser, SetRevokedBefore,
        AdminAbort, Reopen
  <2> QED  BY <1>3, <2>1
<1>6. ASSUME Tick \/ PurgeExpired \/ RedisLoss, NEW d \in Client PROVE LogoutCovered(d)'
  <2>1. /\ UNCHANGED <<op, pair, marking, persisting, loggedOut>>
        /\ doom'[d] \in {doom[d], doom[d] \ {"killed"}}
    BY <1>6 DEF Tick, PurgeExpired, RedisLoss
  <2> QED  BY <1>3, <2>1
<1> QED  BY <1>1, <1>2, <1>4, <1>5, <1>6 DEF LogoutInv, Step

\* Once POST /auth/logout has answered, neither of its cookies opens a later
\* request, if redis.set never fails under logout.
THEOREM LogoutStaysFinal ==
    ASSUME OneStoreHolds, "redis_error" \notin Faults
    PROVE  Spec => []LogoutIsFinal
<1>1. Init => LogoutInv
  BY DEF Init, LogoutInv, LogoutCovered
<1>2. RevocationInv /\ LogoutInv /\ [Next]_vars => LogoutInv'
  BY LogoutStep
  DEF RevocationInv, vars, history, client, LogoutInv, LogoutCovered
<1>3. RevocationInv /\ LogoutInv => LogoutIsFinal
  BY DEF RevocationInv, RequestCovered, LogoutInv, LogoutCovered, LogoutIsFinal,
         GrantedOnlyIfExpired
<1> QED  BY <1>1, <1>2, <1>3, RevocationInvariant, PTL DEF Spec
=============================================================================
