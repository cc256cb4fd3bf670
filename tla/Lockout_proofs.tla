---------------------------- MODULE Lockout_proofs ----------------------------
(***************************************************************************)
(* What an operation on the account takes from its sessions: a status that *)
(* is not ACTIVE locks them out within the cache's TTL, and a cutoff ends  *)
(* those that it covers.                                                   *)
(***************************************************************************)
EXTENDS Sessions_proofs

(***************************************************************************)
(* The cached account is never ACTIVE for longer than UserTtl past         *)
(* lastRisk: whoever writes ACTIVE to it read ACTIVE, and is a StaleWriter *)
(* until it has.                                                           *)
(***************************************************************************)
RiskCurrent ==
    /\ lastRisk <= now
    /\ status = "ACTIVE" \/ StaleWriter => lastRisk = now

CacheBounded == cache.status = "ACTIVE" => cache.exp <= lastRisk + UserTtl

SnapHeld(c) == snap[c] = "ACTIVE" => pc[c] \in {"revoke", "fill", "granted"}

\* a request that must be refused is still at a check that refuses it
Locked(c) ==
    /\ pc[c] = "cache" => op[c] = "access"
    /\ "locked" \in doom[c] =>
         /\ status # "ACTIVE"
         /\ op[c] = "refresh" \/ (op[c] = "access" /\ now >= lastRisk + UserTtl)
         /\ \/ pc[c] \in {"hot", "row", "warm", "cutoff", "cache", "load"}
            \/ pc[c] = "fill" /\ op[c] = "access" /\ snap[c] # "ACTIVE"

LockInv ==
    /\ TypeInv /\ RiskCurrent /\ CacheBounded
    /\ \A c \in Client : SnapHeld(c) /\ Locked(c)

LEMMA SumsKeepOrder == \A m, n, k \in Nat : m <= n => m + k <= n + k
OBVIOUS

\* A handler becomes a stale writer only by reading an ACTIVE row.
LEMMA StaleWriterRead ==
    ASSUME TypeInv, \A c \in Client : SnapHeld(c), Step, StaleWriter'
    PROVE  status = "ACTIVE" \/ StaleWriter
<1> USE DEF history, client
<1>0. TypeOK
  BY DEF TypeInv
<1>1. PICK d \in Client : pc'[d] \in {"revoke", "fill"} /\ snap'[d] = "ACTIVE"
  BY DEF StaleWriter
<1>2. CASE pc'[d] = pc[d] /\ snap'[d] = snap[d]
  BY <1>1, <1>2 DEF StaleWriter
<1>3. CASE ClientStep(d)
  <2>1. CASE Reset(d) \/ Grant(d)
    BY <1>0, <1>1, <2>1 DEF Reset, Grant, Goto, TypeOK
  <2>2. CASE LoadForAccess(d) \/ LoadForRefresh(d) \/ LoadForLogin(d)
    BY <1>0, <1>1, <2>2
    DEF LoadForAccess, LoadForRefresh, LoadForLogin, Reset, Goto, TypeOK
  <2>3. CASE RotateDone(d)
    BY <1>0, <1>1, <2>3 DEF RotateDone, TypeOK, StaleWriter
  <2>4. ASSUME NEW p \in Pair, StartLogout(d, p) PROVE FALSE
    BY <1>0, <1>1, <2>4 DEF StartLogout, Begin, SnapHeld, TypeOK
  <2>5. ASSUME NEW p \in Pair, StartAccess(d, p) \/ StartRefresh(d, p) \/ StartLogin(d)
        PROVE  pc'[d] = pc[d] /\ snap'[d] = snap[d]
    BY <1>0, <1>1, <2>5 DEF StartAccess, StartRefresh, Present, StartLogin, Begin, Goto, TypeOK
  <2>6. StartLogin(d) => \E p \in Pair : StartLogin(d)
    BY DEF StartLogin
  <2>7. CASE Validate(d)
    BY <1>0, <1>1, <2>1, <2>7
    DEF Validate, CheckHot, CheckRow, RewarmHot, CheckCutoff, Goto, TypeOK
  <2>8. CASE ReadCache(d) \/ FillForAccess(d)
    BY <1>0, <1>1, <2>1, <2>8 DEF ReadCache, FillForAccess, Goto, TypeOK
  <2>9. CASE Revoke(d)
    BY <1>2, <2>9 DEF Revoke, RevokeHot, RevokeRow, LogoutHotError
  <2> QED
    BY <1>2, <1>3, <2>1, <2>2, <2>3, <2>4, <2>5, <2>6, <2>7, <2>8, <2>9
    DEF ClientStep, Access, Refresh, Login, Logout, LogoutDone, IssueTokenPair, Finish, Abort
<1>4. ASSUME NEW c \in Client, c # d, ClientStep(c) PROVE pc'[d] = pc[d] /\ snap'[d] = snap[d]
  BY <1>0, <1>4, OthersStay
<1>5. ASSUME NEW a \in Admin, AdminStep(a) PROVE pc'[d] = pc[d] /\ snap'[d] = snap[d]
  BY <1>5
  DEF AdminStep, AdminQuiet, ReadPending, ApproveUpdate, RejectDelete, BlockUpdate,
      UnblockUpdate, DeleteUser, ResetPasswordUpdate, InvalidateUser, SetRevokedBefore, AdminAbort
<1>6. CASE Tick \/ PurgeExpired \/ RedisLoss
  BY <1>2, <1>6 DEF Tick, PurgeExpired, RedisLoss
<1> QED  BY <1>2, <1>3, <1>4, <1>5, <1>6 DEF Step

\* The clock never goes back, nor does lastRisk; once UserTtl has passed since
\* lastRisk, only an operation that makes the account ACTIVE moves it.
LEMMA RiskStep ==
    ASSUME LockInv, Next, TypeInv'
    PROVE  /\ now' >= now /\ lastRisk' >= lastRisk /\ RiskCurrent'
           /\ now >= lastRisk + UserTtl /\ status' # "ACTIVE" => lastRisk' = lastRisk
<1>0. TypeOK /\ TypeOK'
  BY DEF LockInv, TypeInv
<1>1. now \in Nat /\ now' \in Nat /\ lastRisk \in Nat
  BY <1>0 DEF TypeOK, Time
<1>2. now' >= now
  <2>1. CASE Tick
    BY <1>1, <2>1 DEF Tick
  <2>2. CASE ~Tick
    <3>1. CASE Touches
      BY <1>1, <2>2, <3>1
      DEF Touches, RewarmHot, IssueTokenPair, RevokeHot, RevokeRow, PurgeExpired, RedisLoss
    <3> QED  BY <1>1, <3>1, Untouched DEF Next
  <2> QED  BY <2>1, <2>2
<1>3. lastRisk <= now /\ (status = "ACTIVE" \/ StaleWriter => lastRisk = now)
  BY DEF LockInv, RiskCurrent
<1>4. lastRisk' \in {lastRisk, now'} /\ (status' = "ACTIVE" \/ StaleWriter' => lastRisk' = now')
  BY DEF Next, TrackRisk
<1>5. lastRisk' >= lastRisk /\ RiskCurrent'
  BY <1>1, <1>2, <1>3, <1>4 DEF RiskCurrent
<1>6. ASSUME now >= lastRisk + UserTtl, status' # "ACTIVE" PROVE lastRisk' = lastRisk
  <2>1. status # "ACTIVE" /\ ~StaleWriter
    BY <1>1, <1>3, <1>6, TtlAssumption
  <2>2. ~StaleWriter'
    BY <2>1, StaleWriterRead DEF LockInv, Next
  <2> QED  BY <1>6, <2>2 DEF Next, TrackRisk
<1> QED  BY <1>2, <1>5, <1>6

\* The only writers of the cache are handlers at "fill", and what they write
\* they have read.
LEMMA CacheStep ==
    ASSUME LockInv, Next, TypeInv'
    PROVE  CacheBounded'
<1> USE DEF redis
<1>0. TypeOK /\ TypeOK' /\ lastRisk' >= lastRisk
  BY RiskStep DEF LockInv, TypeInv
<1>1. cache.exp \in Nat /\ now \in Nat /\ lastRisk \in Nat /\ lastRisk' \in Nat /\ UserTtl \in Nat
  BY <1>0, TtlAssumption DEF TypeOK, Time
<1>2. CASE cache' = cache \/ cache' = NoUser
  BY <1>0, <1>1, <1>2 DEF LockInv, CacheBounded, NoUser
<1>3. ASSUME NEW c \in Client, pc[c] = "fill", cache' = CachedUser(snap[c])
      PROVE  CacheBounded'
  <2>1. snap[c] = "ACTIVE" => lastRisk = now
    BY <1>3 DEF LockInv, RiskCurrent, StaleWriter
  <2>2. cache'.status = snap[c] /\ cache'.exp = now + UserTtl
    BY <1>3 DEF CachedUser
  <2>3. lastRisk' >= lastRisk
    BY <1>0
  <2>4. snap[c] = "ACTIVE" => now <= lastRisk'
    BY <1>1, <2>1, <2>3
  <2> QED  BY <1>1, <2>2, <2>4, SumsKeepOrder DEF CacheBounded
<1>4. ASSUME NEW c \in Client, ClientStep(c)
      PROVE  cache' = cache \/ (pc[c] = "fill" /\ cache' = CachedUser(snap[c]))
  BY <1>4
  DEF ClientStep, Validate, Access, Refresh, Login, Revoke, Logout, StartAccess,
      StartRefresh, Present, CheckHot, CheckRow, RewarmHot, CheckCutoff, ReadCache, LoadForAccess,
      FillForAccess, LoadForRefresh, RotateDone, StartLogin, LoadForLogin, StartLogout, RevokeHot,
      RevokeRow, LogoutHotError, LogoutDone, IssueTokenPair, Finish, Abort
<1>5. ASSUME NEW a \in Admin, AdminStep(a) PROVE cache' = cache \/ cache' = NoUser
  BY <1>5
  DEF AdminStep, ReadPending, ApproveUpdate, RejectDelete, BlockUpdate, UnblockUpdate,
      DeleteUser, ResetPasswordUpdate, InvalidateUser, SetRevokedBefore, AdminAbort
<1>6. Tick \/ PurgeExpired \/ RedisLoss => cache' = cache \/ cache' = NoUser
  BY DEF Tick, PurgeExpired, RedisLoss
<1> QED  BY <1>2, <1>3, <1>4, <1>5, <1>6 DEF Next, Step

\* A request that keeps its label and account stays locked out, unless an
\* operation has made the account ACTIVE and taken the mark away.
LEMMA LockFrame ==
    ASSUME LockInv, Next, TypeInv', NEW d \in Client,
           op'[d] = op[d], pc'[d] = pc[d], snap'[d] = snap[d], doom'[d] \subseteq doom[d],
           status' = "ACTIVE" => status = "ACTIVE" \/ "locked" \notin doom'[d]
    PROVE  SnapHeld(d)' /\ Locked(d)'
<1>1. SnapHeld(d) /\ Locked(d) /\ TypeOK /\ TypeOK'
  BY DEF LockInv, TypeInv
<1>2. now \in Nat /\ now' \in Nat /\ lastRisk \in Nat /\ lastRisk' \in Nat /\ UserTtl \in Nat
  BY <1>1, TtlAssumption DEF TypeOK, Time
<1>3. "locked" \in doom'[d] => status' # "ACTIVE"
  BY <1>1 DEF Locked
<1>r. /\ now' >= now
      /\ now >= lastRisk + UserTtl /\ status' # "ACTIVE" => lastRisk' = lastRisk
  BY RiskStep
<1>4. ASSUME "locked" \in doom'[d], now >= lastRisk + UserTtl PROVE now' >= lastRisk' + UserTtl
  <2>1. lastRisk' = lastRisk
    BY <1>3, <1>4, <1>r
  <2> QED  BY <1>2, <1>4, <1>r, <2>1
<1> QED  BY <1>1, <1>3, <1>4 DEF SnapHeld, Locked

\* One case per step of the request itself.
LEMMA OwnLockStep ==
    ASSUME LockInv, Next, TypeInv', NEW c \in Client, ClientStep(c)
    PROVE  SnapHeld(c)' /\ Locked(c)'
<1> USE DEF redis, history, client
<1>0. TypeOK /\ HoldsToken /\ SnapHeld(c) /\ Locked(c)
  BY DEF LockInv, TypeInv
<1>s. status' = status /\ now' = now
  BY DEF ClientStep, Validate, Access, Refresh, Login, Revoke, Logout, StartAccess,
      StartRefresh, Present, CheckHot, CheckRow, RewarmHot, CheckCutoff, ReadCache, LoadForAccess,
      FillForAccess, LoadForRefresh, RotateDone, StartLogin, LoadForLogin, StartLogout, RevokeHot,
      RevokeRow, LogoutHotError, LogoutDone, IssueTokenPair, Finish, Abort
<1>k. status # "ACTIVE" /\ now >= lastRisk + UserTtl => now' >= lastRisk' + UserTtl
  BY <1>s, RiskStep
<1>1. CASE Reset(c)
  BY <1>0, <1>1 DEF Reset, Goto, SnapHeld, Locked, TypeOK
<1>2. CASE UNCHANGED <<op, pc, snap, doom>>
  BY <1>2, <1>s, LockFrame
<1>3. CASE Validate(c) /\ ~Reset(c)
  <2>1. /\ UNCHANGED <<op, snap, doom>> /\ pc[c] \in {"hot", "row", "cutoff"}
        /\ pc'[c] \in {"row", "warm", "cutoff", "cache", "load"}
        /\ pc'[c] = "cache" => op[c] = "access"
    BY <1>0, <1>3
    DEF Validate, CheckHot, CheckRow, RewarmHot, CheckCutoff, Goto, TypeOK, HoldsToken
  <2> QED  BY <1>0, <1>s, <1>k, <2>1 DEF SnapHeld, Locked
<1>4. ASSUME NEW p \in Pair, StartAccess(c, p) \/ StartRefresh(c, p)
      PROVE  SnapHeld(c)' /\ Locked(c)'
  <2>1. PICK k \in Kind : Present(c, k, p)
    BY <1>4 DEF StartAccess, StartRefresh, Present
  <2>2. CASE Unexpired(<<p, k>>)
    <3>1. /\ UNCHANGED snap /\ pc[c] = "idle" /\ pc'[c] = "hot" /\ op'[c] = k
          /\ doom'[c] = Reasons(<<p, k>>) /\ k \in {"access", "refresh"}
      BY <1>0, <2>1, <2>2, KindAssumption DEF Present, Begin, Goto, TypeOK
    <3>2. "locked" \in doom'[c] =>
            status # "ACTIVE" /\ (k = "refresh" \/ now >= lastRisk + UserTtl)
      BY <3>1 DEF Reasons
    <3> QED  BY <1>0, <1>s, <1>k, <3>1, <3>2 DEF SnapHeld, Locked
  <2> QED  BY <1>2, <2>1, <2>2 DEF Present
<1>5. CASE ReadCache(c) /\ ~Reset(c)
  <2>1. /\ pc[c] = "cache" /\ op[c] = "access"
        /\ cache.exp > now => cache.status = "ACTIVE"
    BY <1>0, <1>5 DEF ReadCache, Locked
  <2>2. now >= lastRisk + UserTtl => ~(cache.exp > now)
    BY <1>0, <2>1, TtlAssumption DEF LockInv, CacheBounded, TypeOK, Time
  <2>3. UNCHANGED <<op, snap, doom>> /\ pc'[c] = IF cache.exp > now THEN "granted" ELSE "load"
    BY <1>0, <1>5 DEF ReadCache, Grant, Goto, TypeOK
  <2> QED  BY <1>0, <1>s, <1>k, <2>1, <2>2, <2>3 DEF SnapHeld, Locked
<1>6. CASE LoadForAccess(c) /\ ~Reset(c)
  <2>1. /\ UNCHANGED <<op, doom>> /\ pc[c] = "load" /\ op[c] = "access" /\ pc'[c] = "fill"
        /\ snap'[c] = status
    BY <1>0, <1>6 DEF LoadForAccess, Goto, TypeOK
  <2> QED  BY <1>0, <1>s, <1>k, <2>1 DEF SnapHeld, Locked
<1>7. CASE FillForAccess(c) /\ ~Reset(c)
  BY <1>0, <1>7 DEF FillForAccess, Grant, Goto, SnapHeld, Locked, TypeOK
<1>8. CASE (LoadForRefresh(c) \/ LoadForLogin(c)) /\ ~Reset(c)
  BY <1>0, <1>8 DEF LoadForRefresh, LoadForLogin, Goto, SnapHeld, Locked, TypeOK
<1>9. CASE RotateDone(c)
  BY <1>0, <1>9 DEF RotateDone, Goto, SnapHeld, Locked, TypeOK
<1>10. CASE StartLogin(c)
  <2>1. CASE status = "ACTIVE"
    BY <1>0, <1>10, <2>1, KindAssumption DEF StartLogin, Begin, Goto, SnapHeld, Locked, TypeOK
  <2> QED  BY <1>2, <1>10, <2>1 DEF StartLogin
<1>11. ASSUME NEW p \in Pair, StartLogout(c, p) PROVE SnapHeld(c)' /\ Locked(c)'
  BY <1>0, <1>11, KindAssumption DEF StartLogout, Begin, Goto, SnapHeld, Locked, TypeOK
<1>12. ASSUME NEW p \in Pair, IssueTokenPair(c, p) PROVE SnapHeld(c)' /\ Locked(c)'
  BY <1>0, <1>12 DEF IssueTokenPair, Grant, Goto, SnapHeld, Locked, TypeOK
<1>13. CASE Revoke(c)
  BY <1>2, <1>13 DEF Revoke, RevokeHot, RevokeRow, LogoutHotError
<1> QED
  BY <1>1, <1>2, <1>3, <1>4, <1>5, <1>6, <1>7, <1>8, <1>9, <1>10, <1>11, <1>12, <1>13
  DEF ClientStep, Access, Refresh, Login, Logout, LogoutDone, Finish, Abort

LEMMA LockStep ==
    ASSUME LockInv, Next
    PROVE  LockInv'
<1>1. TypeInv'
  BY ClientStepType, AdminStepType, EnvironmentType DEF LockInv, Next, Step
<1>2. RiskCurrent' /\ CacheBounded'
  BY <1>1, RiskStep, CacheStep
<1>3. ASSUME NEW c \in Client, ClientStep(c), NEW d \in Client PROVE SnapHeld(d)' /\ Locked(d)'
  <2>1. status' = status
    BY <1>3
    DEF redis, ClientStep, Validate, Access, Refresh, Login, Revoke, Logout, StartAccess,
      StartRefresh, Present, CheckHot, CheckRow, RewarmHot, CheckCutoff, ReadCache, LoadForAccess,
      FillForAccess, LoadForRefresh, RotateDone, StartLogin, LoadForLogin, StartLogout, RevokeHot,
      RevokeRow, LogoutHotError, LogoutDone, IssueTokenPair, Finish, Abort
  <2>2. TypeOK
    BY DEF LockInv, TypeInv
  <2>3. d # c => /\ op'[d] = op[d] /\ pc'[d] = pc[d] /\ snap'[d] = snap[d]
                 /\ doom'[d] = doom[d]
    BY <1>3, <2>2, OthersStay
  <2> QED  BY <1>1, <1>3, <2>1, <2>3, OwnLockStep, LockFrame
<1>4. ASSUME NEW a \in Admin, AdminStep(a), NEW d \in Client PROVE SnapHeld(d)' /\ Locked(d)'
  <2>1. /\ UNCHANGED <<op, pc, snap>> /\ doom'[d] \subseteq doom[d]
        /\ status' = "ACTIVE" => status = "ACTIVE" \/ "locked" \notin doom'[d]
    BY <1>4
    DEF AdminStep, AdminQuiet, ReadPending, ApproveUpdate, RejectDelete, BlockUpdate,
        UnblockUpdate, DeleteUser, ResetPasswordUpdate, InvalidateUser, SetRevokedBefore,
        AdminAbort, Reopen
  <2> QED  BY <1>1, <2>1, LockFrame
<1>5. ASSUME Tick \/ PurgeExpired \/ RedisLoss, NEW d \in Client PROVE SnapHeld(d)' /\ Locked(d)'
  BY <1>1, <1>5, LockFrame DEF Tick, PurgeExpired, RedisLoss, client
<1> QED  BY <1>1, <1>2, <1>3, <1>4, <1>5 DEF LockInv, Next, Step

\* While the account is not ACTIVE no refresh that starts gets a pair, and no
\* access token is honoured UserTtl after the last reader of ACTIVE is gone,
\* whatever the faults and however many requests and operations there are.
THEOREM InactiveStaysLockedOut == Spec => []InactiveIsLockedOut
<1>1. Init => LockInv
  <2> SUFFICES ASSUME Init PROVE LockInv
    OBVIOUS
  <2>1. TypeInv
    BY TypeInit
  <2>2. RiskCurrent /\ CacheBounded /\ \A c \in Client : SnapHeld(c) /\ Locked(c)
    BY DEF Init, RiskCurrent, CacheBounded, NoUser, SnapHeld, Locked
  <2> QED  BY <2>1, <2>2 DEF LockInv
<1>2. LockInv /\ [Next]_vars => LockInv'
  <2> SUFFICES ASSUME LockInv, UNCHANGED vars PROVE LockInv'
    BY LockStep
  <2> QED
    BY DEF vars, redis, history, client, admin, LockInv, TypeInv, TypeOK, HoldsToken, RiskCurrent,
           StaleWriter, CacheBounded, SnapHeld, Locked
<1>3. LockInv => InactiveIsLockedOut
  BY DEF LockInv, Locked, InactiveIsLockedOut
<1> QED  BY <1>1, <1>2, <1>3, PTL DEF Spec

(***************************************************************************)
(* While no two operations are between taking their cutoff and writing it, *)
(* the cutoff only rises, and outlives every token it ends.  Two that      *)
(* overlap there may lower it (sessions_two_resets).  If Redis loses it,    *)
(* the tokens that it ended are forgotten with it.                         *)
(***************************************************************************)
HoldsCutoff(a) == apc[a] \in {"block_cutoff", "reset_cutoff"}

OneCutoff == \A a, b \in Admin : HoldsCutoff(a) /\ HoldsCutoff(b) => a = b

Lasts(p) == signed[p].iat + RefreshTtl

CutoffRises ==
    /\ cutoff.at <= now
    /\ \A a \in Admin :
         /\ astamp[a] <= now
         /\ HoldsCutoff(a) => cutoff.at <= astamp[a]

CutOff(p) ==
    /\ IsSigned(p)
    /\ now >= Lasts(p) \/ (signed[p].at <= cutoff.at /\ cutoff.exp >= Lasts(p))

Checks == {"hot", "row", "warm", "cutoff"}

Killed(c) ==
    "killed" \in doom[c] =>
        /\ op[c] \in Kind /\ pair[c] \in killed
        /\ pc[c] \notin Checks => now >= Exp(Tok(c))

CutoffInv ==
    /\ TypeInv /\ SignedPast /\ CutoffRises
    /\ \A p \in killed : CutOff(p)
    /\ \A c \in Client : Killed(c)

\* No token of a pair outlives the pair's refresh token.
LEMMA LastsType ==
    ASSUME TypeInv, NEW p \in Pair
    PROVE  /\ Lasts(p) \in Nat /\ signed[p].at \in Nat /\ signed[p].iat \in Nat
           /\ \A k \in Kind : Exp(<<p, k>>) \in Nat /\ Exp(<<p, k>>) <= Lasts(p)
<1>1. signed[p].at \in Nat /\ signed[p].iat \in Nat
  BY DEF TypeInv, TypeOK, Time
<1> QED  BY <1>1, TtlAssumption DEF Lasts, Exp, Ttl

\* What a step does to the clock, the pairs and the cutoff.
CutoffMoves ==
    \/ UNCHANGED <<now, signed, cutoff, apc, astamp, killed>>
    \/ \E c \in Client, p \in Pair : IssueTokenPair(c, p)
    \/ \E a \in Admin : AdminStep(a)
    \/ Tick \/ RedisLoss

LEMMA StepMovesCutoff ==
    ASSUME Step
    PROVE  CutoffMoves
<1> USE DEF redis, history, admin, CutoffMoves
<1>1. ASSUME NEW c \in Client, ClientStep(c), ~(\E p \in Pair : IssueTokenPair(c, p))
      PROVE  UNCHANGED <<now, signed, cutoff, apc, astamp, killed>>
  BY <1>1
  DEF ClientStep, Validate, Access, Refresh, Login, Revoke, Logout, StartAccess,
      StartRefresh, Present, CheckHot, CheckRow, RewarmHot, CheckCutoff, ReadCache, LoadForAccess,
      FillForAccess, LoadForRefresh, RotateDone, StartLogin, LoadForLogin, StartLogout, RevokeHot,
      RevokeRow, LogoutHotError, LogoutDone, Finish, Abort
<1>2. PurgeExpired => UNCHANGED <<now, signed, cutoff, apc, astamp, killed>>
  BY DEF PurgeExpired
<1> QED  BY <1>1, <1>2 DEF Step

\* The step takes nothing back that the cutoff ended, or Redis has lost it.
KeepsKilled == killed \subseteq killed' \/ \A c \in Client : "killed" \notin doom'[c]

LEMMA CutoffStores ==
    ASSUME CutoffInv, OneCutoff, Step, TypeInv'
    PROVE  /\ SignedPast' /\ CutoffRises' /\ now' >= now /\ KeepsKilled
           /\ \A p \in killed' : CutOff(p)'
           /\ \A p \in Pair : IsSigned(p) => signed'[p] = signed[p]
<1> USE DEF redis, history, admin, HoldsCutoff, KeepsKilled
<1>0. TypeOK /\ TypeOK' /\ SignedPast /\ CutoffRises /\ \A p \in killed : CutOff(p)
  BY DEF CutoffInv, TypeInv
<1>t. /\ now \in Nat /\ now' \in Nat /\ cutoff.at \in Nat /\ cutoff.exp \in Nat
      /\ \A a \in Admin : astamp[a] \in Nat
      /\ killed \subseteq Pair
      /\ \A p \in Pair : signed[p].iat \in Nat /\ signed[p].at \in Nat /\ Lasts(p) \in Nat
  BY <1>0, LastsType DEF CutoffInv, TypeInv, TypeOK, Time
<1>1. CASE UNCHANGED <<now, signed, cutoff, apc, astamp, killed>>
  BY <1>0, <1>1, <1>t DEF SignedPast, CutoffRises, CutOff, IsSigned, Lasts
<1>2. ASSUME NEW c \in Client, NEW q \in Pair, IssueTokenPair(c, q)
      PROVE  /\ SignedPast' /\ CutoffRises' /\ now' >= now /\ KeepsKilled
             /\ \A p \in killed' : CutOff(p)'
             /\ \A p \in Pair : IsSigned(p) => signed'[p] = signed[p]
  <2>1. /\ UNCHANGED <<now, cutoff, apc, astamp, killed>> /\ ~IsSigned(q)
        /\ \A p \in Pair : signed'[p] = IF p = q THEN [at |-> stamp[c], iat |-> now] ELSE signed[p]
    BY <1>0, <1>2 DEF IssueTokenPair, TypeOK
  <2>2. SignedPast' /\ CutoffRises'
    BY <1>0, <1>t, <2>1 DEF SignedPast, CutoffRises
  <2>3. \A p \in Pair : IsSigned(p) => signed'[p] = signed[p]
    BY <2>1
  <2>4. \A p \in killed' : CutOff(p)'
    BY <1>0, <1>t, <2>1, <2>3 DEF CutOff, IsSigned, Lasts
  <2> QED  BY <1>t, <2>1, <2>2, <2>3, <2>4
<1>3. ASSUME NEW a \in Admin, AdminStep(a)
      PROVE  /\ SignedPast' /\ CutoffRises' /\ now' >= now /\ KeepsKilled
             /\ \A p \in killed' : CutOff(p)'
             /\ \A p \in Pair : IsSigned(p) => signed'[p] = signed[p]
  <2>1. UNCHANGED <<now, signed>>
    BY <1>3
    DEF AdminStep, AdminQuiet, ReadPending, ApproveUpdate, RejectDelete, BlockUpdate,
        UnblockUpdate, DeleteUser, ResetPasswordUpdate, InvalidateUser, SetRevokedBefore, AdminAbort
  <2>2. SignedPast'
    BY <1>0, <2>1 DEF SignedPast
  <2>3. CASE SetRevokedBefore(a)
    <3>1. /\ cutoff'.at = astamp[a] /\ cutoff'.exp = now + CutoffTtl
          /\ cutoff.at <= astamp[a] /\ astamp[a] <= now
          /\ apc'[a] \notin {"block_cutoff", "reset_cutoff"} /\ astamp'[a] = 0
          /\ killed' = killed \cup {p \in Pair : IsSigned(p) /\ signed[p].at <= astamp[a]}
      BY <1>0, <2>3 DEF SetRevokedBefore, AdminGoto, CutoffRises, TypeOK
    <3>0. \A b \in Admin \ {a} : apc'[b] = apc[b] /\ astamp'[b] = astamp[b]
      BY <1>0, <2>3 DEF SetRevokedBefore, AdminGoto, TypeOK
    <3>2. CutoffRises'
      <4>1. \A b \in Admin : ~HoldsCutoff(b)'
        BY <2>3, <3>0, <3>1 DEF OneCutoff, SetRevokedBefore
      <4>2. \A b \in Admin : astamp'[b] <= now'
        BY <1>0, <1>t, <2>1, <3>0, <3>1 DEF CutoffRises
      <4> QED  BY <1>t, <2>1, <3>1, <4>1, <4>2 DEF CutoffRises
    <3>3. \A p \in Pair : now + CutoffTtl >= Lasts(p)
      BY <1>0, <1>t, TtlAssumption DEF SignedPast, Lasts
    <3>4. ASSUME NEW p \in killed' PROVE CutOff(p)'
      <4>1. p \in Pair /\ IsSigned(p) /\ (signed[p].at <= astamp[a] \/ now >= Lasts(p))
        BY <1>0, <1>t, <3>1, <3>4 DEF CutOff
      <4> QED  BY <2>1, <3>1, <3>3, <4>1 DEF CutOff, IsSigned, Lasts
    <3> QED  BY <1>t, <2>1, <2>2, <3>1, <3>2, <3>4
  <2>4. CASE ~SetRevokedBefore(a)
    <3>1. UNCHANGED <<cutoff, killed>>
      BY <1>3, <2>4
      DEF AdminStep, ReadPending, ApproveUpdate, RejectDelete, BlockUpdate, UnblockUpdate,
          DeleteUser, ResetPasswordUpdate, InvalidateUser, AdminAbort
    <3>2. /\ astamp'[a] \in {astamp[a], now, 0}
          /\ apc'[a] \in {"block_cutoff", "reset_cutoff"} => astamp'[a] = now
      BY <1>0, <1>3, <2>4
      DEF AdminStep, ReadPending, ApproveUpdate, RejectDelete, BlockUpdate, UnblockUpdate,
          DeleteUser, ResetPasswordUpdate, InvalidateUser, AdminAbort, AdminGoto, TypeOK
    <3>3. CutoffRises'
      <4>1. \A b \in Admin \ {a} : apc'[b] = apc[b] /\ astamp'[b] = astamp[b]
        BY <1>0, <1>3
        DEF AdminStep, ReadPending, ApproveUpdate, RejectDelete, BlockUpdate, UnblockUpdate,
            DeleteUser, ResetPasswordUpdate, InvalidateUser, SetRevokedBefore, AdminAbort,
            AdminGoto, TypeOK
      <4> QED  BY <1>0, <1>t, <2>1, <3>1, <3>2, <4>1 DEF CutoffRises
    <3>4. \A p \in killed' : CutOff(p)'
      BY <1>0, <2>1, <3>1 DEF CutOff, IsSigned, Lasts
    <3> QED  BY <1>t, <2>1, <2>2, <3>1, <3>3, <3>4
  <2> QED  BY <2>3, <2>4
<1>4. CASE Tick
  <2>1. /\ UNCHANGED <<signed, apc, astamp, killed>> /\ now' = now + 1
        /\ cutoff' = cutoff \/ (cutoff.exp <= now' /\ cutoff' = NoCutoff)
    BY <1>4 DEF Tick
  <2>2. SignedPast' /\ CutoffRises'
    BY <1>0, <1>t, <2>1 DEF SignedPast, CutoffRises, NoCutoff
  <2>3. ASSUME NEW p \in killed PROVE CutOff(p)'
    BY <1>0, <1>t, <2>1, <2>3 DEF CutOff, IsSigned, Lasts
  <2> QED  BY <1>t, <2>1, <2>2, <2>3
<1>5. CASE RedisLoss
  <2>1. /\ UNCHANGED <<now, signed, apc, astamp>> /\ cutoff' = NoCutoff /\ killed' = {}
        /\ \A c \in Client : doom'[c] = doom[c] \ {"killed"}
    BY <1>5 DEF RedisLoss
  <2>2. SignedPast' /\ CutoffRises'
    BY <1>0, <1>t, <2>1 DEF SignedPast, CutoffRises, NoCutoff
  <2> QED  BY <1>t, <2>1, <2>2
<1> QED  BY <1>1, <1>2, <1>3, <1>4, <1>5, StepMovesCutoff DEF CutoffMoves

\* A request that has passed the cutoff keeps what it has proved there.
LEMMA KilledFrame ==
    ASSUME CutoffInv, OneCutoff, Step, TypeInv', NEW d \in Client,
           op'[d] = op[d], pair'[d] = pair[d], doom'[d] \subseteq doom[d],
           pc'[d] \in Checks \/ pc[d] \notin Checks
    PROVE  Killed(d)'
<1> SUFFICES ASSUME "killed" \in doom'[d]
             PROVE  /\ op[d] \in Kind /\ pair[d] \in killed'
                    /\ pc'[d] \notin Checks => now' >= Exp(Tok(d))'
  BY DEF Killed
<1>1. /\ op[d] \in Kind /\ pair[d] \in killed /\ pair[d] \in Pair /\ IsSigned(pair[d])
      /\ pc[d] \notin Checks => now >= Exp(Tok(d))
  BY DEF CutoffInv, Killed, CutOff, TypeInv, TypeOK
<1>2. killed \subseteq killed' /\ now' >= now /\ signed'[pair[d]] = signed[pair[d]]
  BY <1>1, CutoffStores DEF KeepsKilled
<1>3. Exp(Tok(d))' = Exp(Tok(d)) /\ Exp(Tok(d)) \in Nat
  BY <1>1, <1>2, LastsType DEF CutoffInv, Exp, Tok
<1>4. now \in Nat /\ now' \in Nat
  BY DEF CutoffInv, TypeInv, TypeOK, Time
<1> QED  BY <1>1, <1>2, <1>3, <1>4

LEMMA OwnKilledStep ==
    ASSUME CutoffInv, OneCutoff, TypeInv',
           NEW c \in Client, ClientStep(c)
    PROVE  Killed(c)'
<1> USE DEF redis, history, client
<1>0. TypeOK /\ HoldsToken /\ Killed(c) /\ Step
  BY DEF CutoffInv, TypeInv, Step
<1>1. CASE Reset(c)
  BY <1>0, <1>1 DEF Reset, Killed, TypeOK
<1>2. CASE UNCHANGED <<op, pair, doom>> /\ (pc'[c] \in Checks \/ pc[c] \notin Checks)
  BY <1>0, <1>2, KilledFrame
<1>3. CASE (CheckHot(c) \/ CheckRow(c)) /\ ~Reset(c)
  BY <1>0, <1>2, <1>3 DEF CheckHot, CheckRow, Goto, Checks, TypeOK
<1>4. CASE CheckCutoff(c) /\ ~Reset(c)
  <2>1. /\ UNCHANGED <<op, pair, doom, now, signed, killed>> /\ pc[c] = "cutoff"
        /\ ~(cutoff.exp > now /\ signed[pair[c]].at <= cutoff.at)
    BY <1>4 DEF CheckCutoff, IsTokenRevokedBefore, Tok
  <2>2. CASE "killed" \in doom[c]
    <3>1. op[c] \in Kind /\ pair[c] \in killed /\ pair[c] \in Pair /\ CutOff(pair[c])
      BY <1>0, <2>2 DEF Killed, CutoffInv, TypeOK
    <3>2. /\ now \in Nat /\ cutoff.exp \in Nat /\ cutoff.at \in Nat
          /\ signed[pair[c]].at \in Nat /\ Lasts(pair[c]) \in Nat
          /\ Exp(Tok(c)) \in Nat /\ Exp(Tok(c)) <= Lasts(pair[c])
      BY <1>0, <3>1, LastsType DEF CutoffInv, TypeOK, Time, Tok
    <3>3. now >= Lasts(pair[c])
      BY <2>1, <3>1, <3>2 DEF CutOff
    <3>4. now >= Exp(Tok(c))
      BY <3>2, <3>3
    <3> QED  BY <2>1, <3>1, <3>4 DEF Killed, Exp, Tok
  <2>3. CASE "killed" \notin doom[c]
    BY <2>1, <2>3 DEF Killed
  <2> QED  BY <2>2, <2>3
<1>5. CASE /\ \/ ReadCache(c) \/ LoadForAccess(c) \/ FillForAccess(c) \/ LoadForRefresh(c)
              \/ RotateDone(c) \/ LoadForLogin(c) \/ Revoke(c)
              \/ \E p \in Pair : IssueTokenPair(c, p)
           /\ ~Reset(c)
  <2>1. UNCHANGED <<op, pair, doom>> /\ pc[c] \notin Checks
    BY <1>5
    DEF ReadCache, LoadForAccess, FillForAccess, LoadForRefresh, RotateDone, LoadForLogin,
        Revoke, RevokeHot, RevokeRow, LogoutHotError, IssueTokenPair, Grant, Checks
  <2> QED  BY <1>2, <2>1
<1>6. ASSUME NEW p \in Pair, StartAccess(c, p) \/ StartRefresh(c, p) PROVE Killed(c)'
  <2>1. PICK k \in Kind : Present(c, k, p)
    BY <1>6 DEF StartAccess, StartRefresh, Present
  <2>2. CASE Unexpired(<<p, k>>)
    <3>1. /\ op'[c] = k /\ pair'[c] = p /\ pc'[c] = "hot" /\ doom'[c] = Reasons(<<p, k>>)
          /\ killed' = killed
      BY <1>0, <2>1, <2>2 DEF Present, Begin, Goto, TypeOK
    <3> QED  BY <3>1 DEF Killed, Reasons, Checks
  <2>3. CASE ~Unexpired(<<p, k>>)
    <3>1. UNCHANGED <<op, pair, doom, pc>>
      BY <2>1, <2>3 DEF Present
    <3> QED  BY <1>2, <3>1
  <2> QED  BY <2>2, <2>3
<1>7. CASE StartLogin(c)
  <2>1. CASE status = "ACTIVE"
    BY <1>0, <1>7, <2>1, KindAssumption DEF StartLogin, Begin, Killed, TypeOK
  <2>2. CASE status # "ACTIVE"
    <3>1. UNCHANGED <<op, pair, doom, pc>>
      BY <1>7, <2>2 DEF StartLogin
    <3> QED  BY <1>2, <3>1
  <2> QED  BY <2>1, <2>2
<1>8. ASSUME NEW p \in Pair, StartLogout(c, p) PROVE Killed(c)'
  BY <1>0, <1>8, KindAssumption DEF StartLogout, Begin, Killed, TypeOK
<1> QED
  BY <1>1, <1>3, <1>4, <1>5, <1>6, <1>7, <1>8
  DEF ClientStep, Validate, RewarmHot, Access, Refresh, Login, Logout, LogoutDone, Finish, Abort

LEMMA CutoffStep ==
    ASSUME CutoffInv, OneCutoff, Next
    PROVE  CutoffInv'
<1>1. TypeInv' /\ Step
  BY ClientStepType, AdminStepType, EnvironmentType DEF CutoffInv, Next, Step
<1>2. SignedPast' /\ CutoffRises' /\ \A p \in killed' : CutOff(p)'
  BY <1>1, CutoffStores
<1>3. ASSUME NEW c \in Client, ClientStep(c), NEW d \in Client PROVE Killed(d)'
  <2>1. TypeOK
    BY DEF CutoffInv, TypeInv
  <2>2. d # c => /\ op'[d] = op[d] /\ pair'[d] = pair[d] /\ pc'[d] = pc[d]
                 /\ doom'[d] = doom[d]
    BY <1>3, <2>1, OthersStay
  <2> QED  BY <1>1, <1>3, <2>2, OwnKilledStep, KilledFrame
<1>4. ASSUME NEW a \in Admin, AdminStep(a), NEW d \in Client PROVE Killed(d)'
  <2>1. UNCHANGED <<op, pc, pair>> /\ doom'[d] \subseteq doom[d]
    BY <1>4
    DEF AdminStep, AdminQuiet, ReadPending, ApproveUpdate, RejectDelete, BlockUpdate,
        UnblockUpdate, DeleteUser, ResetPasswordUpdate, InvalidateUser, SetRevokedBefore,
        AdminAbort, Reopen
  <2> QED  BY <1>1, <2>1, KilledFrame
<1>5. ASSUME Tick \/ PurgeExpired \/ RedisLoss, NEW d \in Client PROVE Killed(d)'
  <2>1. UNCHANGED <<op, pc, pair>> /\ doom'[d] \subseteq doom[d]
    BY <1>5 DEF Tick, PurgeExpired, RedisLoss, client
  <2> QED  BY <1>1, <2>1, KilledFrame
<1> QED  BY <1>1, <1>2, <1>3, <1>4, <1>5 DEF CutoffInv, Step

\* No token that a block or a reset has cut off is honoured again, unless Redis
\* loses the cutoff, as long as no two of these operations hold a cutoff they
\* have not written yet; anything else may overlap them, and any fault happen.
THEOREM CutoffStaysFinal == Spec /\ []OneCutoff => []CutoffIsFinal
<1>1. Init => CutoffInv
  <2> SUFFICES ASSUME Init PROVE CutoffInv
    OBVIOUS
  <2>1. TypeInv
    BY TypeInit
  <2>2. SignedPast /\ CutoffRises /\ (\A p \in killed : CutOff(p)) /\ \A c \in Client : Killed(c)
    BY DEF Init, SignedPast, Unsigned, CutoffRises, HoldsCutoff, NoCutoff, Killed
  <2> QED  BY <2>1, <2>2 DEF CutoffInv
<1>2. CutoffInv /\ OneCutoff /\ [Next]_vars => CutoffInv'
  <2> SUFFICES ASSUME CutoffInv, UNCHANGED vars PROVE CutoffInv'
    BY CutoffStep
  <2> QED
    BY DEF vars, redis, history, client, admin, CutoffInv, TypeInv, TypeOK, HoldsToken, SignedPast,
           CutoffRises, HoldsCutoff, CutOff, Lasts, IsSigned, Killed, Exp, Tok
<1>3. CutoffInv => CutoffIsFinal
  BY DEF CutoffInv, Killed, CutoffIsFinal, GrantedOnlyIfExpired, Checks
<1> QED  BY <1>1, <1>2, <1>3, PTL DEF Spec
=============================================================================
