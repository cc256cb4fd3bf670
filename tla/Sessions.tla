------------------------------ MODULE Sessions ------------------------------
(***************************************************************************)
(* The session layer of one account: JWT pairs, their rotation, logout,    *)
(* the per-account kill switch and the cached account status that          *)
(* JwtStrategy trusts.                                                     *)
(*                                                                         *)
(* Every `await` of a handler is a point where other handlers run, so a    *)
(* handler is a process whose pc names the Redis or Postgres call it is    *)
(* waiting for; the action that leaves a pc performs that call and the     *)
(* synchronous code after it.  All keys and rows of this layer belong to   *)
(* one user id, hence one account.  Several API instances share Redis and  *)
(* Postgres and hold no session state, so a process may run on any of      *)
(* them.                                                                   *)
(*                                                                         *)
(* One clock tick stands for the resolution of JWT `exp`.  A key with a    *)
(* TTL is present until its expiry instant and Redis drops it then.        *)
(***************************************************************************)
EXTENDS Integers, FiniteSets

CONSTANTS
    Client,      \* concurrent requests of the account's own sessions
    Admin,       \* concurrent operations on the account (approve, block, reset ...)
    Pair,        \* access/refresh pairs that can be signed (bound)
    Kind,        \* the kinds of token followed: "access", "refresh" (bound)
    NoPair,      \* "this request presents no token"
    MaxTime,     \* bound on the clock
    UserTtl,     \* USER_TTL_MS: cached account, 30 s
    MinHotTtl,   \* the 60 s floor of a revocation key
    HotTtl,      \* hotTtlMs: ceiling of a revocation key, 7 days
    CutoffTtl,   \* REVOKED_BEFORE_TTL_MS: 7 days
    AccessTtl,   \* access token, 60 min
    RefreshTtl,  \* refresh token, 7 days
    InitialStatus, \* a registered account is PENDING, one an admin creates is ACTIVE
    Faults       \* which of "db_error", "redis_error", "redis_loss" may happen

Token  == Pair \X Kind
Status == {"PENDING", "ACTIVE", "BLOCKED", "DELETED"}
Time   == 0 .. MaxTime
Reason == {"revoked", "loggedOut", "killed", "locked"}

(* The relations between the TTLs of the code that its correctness needs.  *)
ASSUME TtlAssumption ==
    /\ {UserTtl, MinHotTtl, HotTtl, CutoffTtl, AccessTtl, RefreshTtl} \subseteq Nat \ {0}
    /\ MaxTime \in Nat \ {0}
    /\ AccessTtl <= RefreshTtl
    /\ RefreshTtl <= HotTtl
    /\ RefreshTtl <= CutoffTtl

ASSUME KindAssumption == Kind \subseteq {"access", "refresh"}

ASSUME StatusAssumption == InitialStatus \subseteq {"PENDING", "ACTIVE"}

ASSUME FaultAssumption ==
    Faults \subseteq {"db_error", "redis_error", "redis_loss"}

ASSUME NoPairAssumption == NoPair \notin Pair

VARIABLES
    now,        \* the clock
    status,     \* users.status in Postgres; DELETED when the row is gone
    cache,      \* Redis auth:user:<id>
    cutoff,     \* Redis session:revoked_before:<id>
    hot,        \* Redis auth:revoked:<jti>: expiry instant, 0 when absent
    row,        \* Postgres token_blacklist: expiresAt, 0 when absent
    signed,     \* the JWT pairs that exist
    op, pc, pair, snap, stamp, marking, persisting,    \* client requests
    apc, astamp,                                      \* account operations
    revoked, loggedOut, killed, doom, lastRisk        \* history, read by no action

redis   == <<cache, cutoff, hot>>
history == <<revoked, loggedOut, killed>>
client  == <<op, pc, pair, snap, stamp, marking, persisting, doom>>
admin   == <<apc, astamp>>
vars    == <<now, status, redis, row, signed, client, admin, history, lastRisk>>

Unsigned == [at |-> 0, iat |-> 0]
NoUser   == [status |-> "NONE", exp |-> 0]
NoCutoff == [at |-> 0, exp |-> 0]

(***************************************************************************)
(* Helpers                                                                 *)
(***************************************************************************)
Smaller(a, b) == IF a <= b THEN a ELSE b
Larger(a, b)  == IF a <= b THEN b ELSE a

IsSigned(p) == signed[p].iat # 0
Ttl(k)      == IF k = "access" THEN AccessTtl ELSE RefreshTtl
Exp(t)      == signed[t[1]].iat + Ttl(t[2])

\* the token request c presents: JwtStrategy takes access tokens only,
\* refreshTokens refresh tokens only
Tok(c) == <<pair[c], op[c]>>

\* jwtService.verify / passport-jwt with ignoreExpiration: false
Unexpired(t) == now < Exp(t)

\* Mutant: the cutoff instant itself is let through.
IsTokenRevokedStrictlyBefore(t) ==
    cutoff.exp > now /\ signed[t[1]].at < cutoff.at

\* isTokenRevokedBefore: tokens of this version always carry issuedAtMs
IsTokenRevokedBefore(t) ==
    cutoff.exp > now /\ signed[t[1]].at <= cutoff.at

\* Mutant: the 60 s floor is applied as a ceiling.
HotUntilCapped(e) == now + Smaller(e - now, MinHotTtl)

\* expiry instant of the revocation key written now for a token dying at e
HotUntil(e) == now + Smaller(Larger(e - now, MinHotTtl), HotTtl)

CachedUser(s) == [status |-> s, exp |-> now + UserTtl]

(***************************************************************************)
(* History: why a request that starts now must be refused.                 *)
(***************************************************************************)
Reasons(t) ==
    {r \in Reason :
        \/ r = "revoked"   /\ t \in revoked
        \/ r = "loggedOut" /\ t \in loggedOut
        \/ r = "killed"    /\ t[1] \in killed
        \/ /\ r = "locked" /\ status # "ACTIVE"
           /\ (t[2] = "refresh" \/ now >= lastRisk + UserTtl)}

\* a handler that read ACTIVE and will still write it to the cache
StaleWriter == \E c \in Client : pc[c] \in {"revoke", "fill"} /\ snap[c] = "ACTIVE"

\* lastRisk: the last instant at which the account was ACTIVE, or such a
\* handler was under way
TrackRisk ==
    lastRisk' = IF status' = "ACTIVE" \/ StaleWriter' THEN now' ELSE lastRisk

(***************************************************************************)
(* Ends of a request.  Deny is every 401: no shared state changes.         *)
(***************************************************************************)
Goto(c, label) == pc' = [pc EXCEPT ![c] = label]

Reset(c) ==
    /\ Goto(c, "idle")
    /\ op' = [op EXCEPT ![c] = "none"]
    /\ pair' = [pair EXCEPT ![c] = NoPair]
    /\ snap' = [snap EXCEPT ![c] = "NONE"]
    /\ stamp' = [stamp EXCEPT ![c] = 0]
    /\ marking' = [marking EXCEPT ![c] = {}]
    /\ persisting' = [persisting EXCEPT ![c] = {}]
    /\ doom' = [doom EXCEPT ![c] = {}]

Grant(c) == Goto(c, "granted") /\ UNCHANGED <<op, pair, snap, stamp, marking, persisting, doom>>

Begin(c, o, p, label) ==
    /\ pc[c] = "idle"
    /\ Goto(c, label)
    /\ op' = [op EXCEPT ![c] = o]
    /\ pair' = [pair EXCEPT ![c] = p]
    /\ doom' = [doom EXCEPT ![c] = IF o \in Kind THEN Reasons(<<p, o>>) ELSE {}]
    /\ UNCHANGED <<snap, stamp, persisting>>

\* A granted request has answered.
Finish(c) ==
    /\ pc[c] = "granted"
    /\ Reset(c)
    /\ UNCHANGED <<now, status, redis, row, signed, admin, history>>

\* The awaited call rejects, or the instance dies: the steps done so far stay.
Abort(c) ==
    /\ pc[c] \notin {"idle", "granted"}
    /\ Reset(c)
    /\ UNCHANGED <<now, status, redis, row, signed, admin, history>>

(***************************************************************************)
(* TokenRevocationService.isRevoked and the cutoff check, shared by        *)
(* JwtStrategy.validate (access) and AuthService.refreshTokens (refresh).  *)
(***************************************************************************)
\* A token past its `exp` is refused before anything is read.
Present(c, k, p) ==
    /\ k \in Kind /\ IsSigned(p)
    /\ IF Unexpired(<<p, k>>)
         THEN Begin(c, k, p, "hot") /\ UNCHANGED marking
         ELSE pc[c] = "idle" /\ UNCHANGED client
    /\ UNCHANGED <<now, status, redis, row, signed, admin, history>>

StartAccess(c, p)  == Present(c, "access", p)
StartRefresh(c, p) == Present(c, "refresh", p)

CheckHot(c) ==
    /\ pc[c] = "hot"
    /\ IF hot[Tok(c)] > now
         THEN Reset(c)
         ELSE Goto(c, "row") /\ UNCHANGED <<op, pair, snap, stamp, marking, persisting, doom>>
    /\ UNCHANGED <<now, status, redis, row, signed, admin, history>>

CheckRow(c) ==
    /\ pc[c] = "row"
    /\ IF row[Tok(c)] > now
         THEN Goto(c, "warm") /\ stamp' = [stamp EXCEPT ![c] = row[Tok(c)]]
         ELSE Goto(c, "cutoff") /\ UNCHANGED stamp
    /\ UNCHANGED <<now, status, redis, row, signed, op, pair, snap, marking, persisting, doom, admin, history>>

\* the row said revoked: put the hot key back, then refuse
RewarmHot(c) ==
    /\ pc[c] = "warm"
    /\ hot' = [hot EXCEPT ![Tok(c)] = HotUntil(stamp[c])]
    /\ Reset(c)
    /\ UNCHANGED <<now, status, cache, cutoff, row, signed, admin, history>>

CheckCutoff(c) ==
    /\ pc[c] = "cutoff"
    /\ IF IsTokenRevokedBefore(Tok(c))
         THEN Reset(c)
         ELSE /\ Goto(c, IF op[c] = "access" THEN "cache" ELSE "load")
              /\ UNCHANGED <<op, pair, snap, stamp, marking, persisting, doom>>
    /\ UNCHANGED <<now, status, redis, row, signed, admin, history>>

(***************************************************************************)
(* JwtStrategy.resolveUser and the status check of validate.               *)
(***************************************************************************)
\* Mutant: a hit renews the TTL of the cached account.
ReadCacheSliding(c) ==
    /\ pc[c] = "cache"
    /\ IF cache.exp > now
         THEN /\ cache' = CachedUser(cache.status)
              /\ IF cache.status = "ACTIVE" THEN Grant(c) ELSE Reset(c)
         ELSE /\ Goto(c, "load")
              /\ UNCHANGED <<cache, op, pair, snap, stamp, marking, persisting, doom>>
    /\ UNCHANGED <<now, status, cutoff, hot, row, signed, admin, history>>

ReadCache(c) ==
    /\ pc[c] = "cache"
    /\ IF cache.exp > now
         THEN IF cache.status = "ACTIVE" THEN Grant(c) ELSE Reset(c)
         ELSE Goto(c, "load") /\ UNCHANGED <<op, pair, snap, stamp, marking, persisting, doom>>
    /\ UNCHANGED <<now, status, redis, row, signed, admin, history>>

\* Mutant: a missing row is not noticed.
LoadForAccessUnchecked(c) ==
    /\ pc[c] = "load" /\ op[c] = "access"
    /\ Goto(c, "fill")
    /\ snap' = [snap EXCEPT ![c] = status]
    /\ UNCHANGED <<now, status, redis, row, signed, op, pair, stamp, marking, persisting, doom, admin, history>>

LoadForAccess(c) ==
    /\ pc[c] = "load" /\ op[c] = "access"
    /\ IF status = "DELETED"
         THEN Reset(c)
         ELSE /\ Goto(c, "fill")
              /\ snap' = [snap EXCEPT ![c] = status]
              /\ UNCHANGED <<op, pair, stamp, marking, persisting, doom>>
    /\ UNCHANGED <<now, status, redis, row, signed, admin, history>>

FillForAccess(c) ==
    /\ pc[c] = "fill" /\ op[c] = "access"
    /\ cache' = CachedUser(snap[c])
    /\ IF snap[c] = "ACTIVE" THEN Grant(c) ELSE Reset(c)
    /\ UNCHANGED <<now, status, cutoff, hot, row, signed, admin, history>>

(***************************************************************************)
(* AuthService.refreshTokens after the checks; the login path of           *)
(* generateTokensAfterTwoFactorVerification; issueTokenPair.               *)
(***************************************************************************)
\* Mutant: assertUserActive is forgotten.
LoadForRefreshAnyStatus(c) ==
    /\ pc[c] = "load" /\ op[c] = "refresh" /\ status # "DELETED"
    /\ Goto(c, "revoke")
    /\ snap' = [snap EXCEPT ![c] = status]
    /\ marking' = [marking EXCEPT ![c] = {Tok(c)}]
    /\ UNCHANGED <<now, status, redis, row, signed, op, pair, stamp, persisting, doom, admin, history>>

LoadForRefresh(c) ==
    /\ pc[c] = "load" /\ op[c] = "refresh"
    /\ IF status = "ACTIVE"
         THEN /\ Goto(c, "revoke")
              /\ snap' = [snap EXCEPT ![c] = status]
              /\ marking' = [marking EXCEPT ![c] = {Tok(c)}]
              /\ UNCHANGED <<op, pair, stamp, persisting, doom>>
         ELSE Reset(c)
    /\ UNCHANGED <<now, status, redis, row, signed, admin, history>>

\* the old jti is revoked: issuedAtMs is taken and issueTokenPair begins
RotateDone(c) ==
    /\ pc[c] = "revoke" /\ op[c] = "refresh"
    /\ marking[c] = {} /\ persisting[c] = {}
    /\ Goto(c, "fill")
    /\ stamp' = [stamp EXCEPT ![c] = now]
    /\ UNCHANGED <<now, status, redis, row, signed, op, pair, snap, marking, persisting, doom, admin, history>>

\* validateUser with the right password: only an ACTIVE account goes on
StartLogin(c) ==
    /\ \E p \in Pair : ~IsSigned(p)
    /\ IF status = "ACTIVE"
         THEN Begin(c, "login", NoPair, "load") /\ UNCHANGED marking
         ELSE pc[c] = "idle" /\ UNCHANGED client
    /\ UNCHANGED <<now, status, redis, row, signed, admin, history>>

LoadForLogin(c) ==
    /\ pc[c] = "load" /\ op[c] = "login"
    /\ IF status = "ACTIVE"
         THEN /\ Goto(c, "fill")
              /\ snap' = [snap EXCEPT ![c] = status]
              /\ stamp' = [stamp EXCEPT ![c] = now]
              /\ UNCHANGED <<op, pair, marking, persisting, doom>>
         ELSE Reset(c)
    /\ UNCHANGED <<now, status, redis, row, signed, admin, history>>

\* setUser(snapshot), then both JWTs are signed with iat = now and the
\* issuedAtMs taken before the Redis write
IssueTokenPair(c, p) ==
    /\ pc[c] = "fill" /\ op[c] \in {"login", "refresh"}
    /\ ~IsSigned(p)
    /\ cache' = CachedUser(snap[c])
    /\ signed' = [signed EXCEPT ![p] = [at |-> stamp[c], iat |-> now]]
    /\ Grant(c)
    /\ UNCHANGED <<now, status, cutoff, hot, row, admin, history>>

(***************************************************************************)
(* TokenRevocationService.revoke, for the rotated refresh token and for    *)
(* both cookies at logout (in parallel there).                             *)
(***************************************************************************)
StartLogout(c, p) ==
    /\ IsSigned(p)
    /\ Begin(c, "logout", p, "revoke")
    /\ marking' = [marking EXCEPT ![c] = {p} \X Kind]
    /\ UNCHANGED <<now, status, redis, row, signed, admin, history>>

\* Mutant: at logout `exp` is taken for milliseconds, long past.
RevokeUntilNow(c, t) == IF op[c] = "logout" THEN now ELSE Exp(t)

RevokeUntil(c, t) == IF op[c] = "logout" THEN Larger(Exp(t), now) ELSE Exp(t)

RevokeHot(c, t) ==
    /\ pc[c] = "revoke" /\ t \in marking[c]
    /\ hot' = [hot EXCEPT ![t] = HotUntil(RevokeUntil(c, t))]
    /\ marking' = [marking EXCEPT ![c] = @ \ {t}]
    /\ persisting' = [persisting EXCEPT ![c] = @ \cup {t}]
    /\ UNCHANGED <<now, status, cache, cutoff, row, signed, op, pc, pair, snap, stamp, doom, admin, history>>

\* the upsert; a failing one is only logged
RevokeRow(c, t) ==
    /\ pc[c] = "revoke" /\ t \in persisting[c]
    /\ \/ row' = [row EXCEPT ![t] = RevokeUntil(c, t)]
       \/ "db_error" \in Faults /\ UNCHANGED row
    /\ persisting' = [persisting EXCEPT ![c] = @ \ {t}]
    /\ revoked' = revoked \cup {t}
    /\ UNCHANGED <<now, status, redis, signed, op, pc, pair, snap, stamp, marking, doom, admin, loggedOut, killed>>

\* revokeIfPresent swallows the error of redis.set, and logout goes on
LogoutHotError(c, t) ==
    /\ "redis_error" \in Faults
    /\ pc[c] = "revoke" /\ op[c] = "logout" /\ t \in marking[c]
    /\ marking' = [marking EXCEPT ![c] = @ \ {t}]
    /\ UNCHANGED <<now, status, redis, row, signed, op, pc, pair, snap, stamp, persisting, doom, admin, history>>

\* the 200 answer of POST /auth/logout
LogoutDone(c) ==
    /\ pc[c] = "revoke" /\ op[c] = "logout"
    /\ marking[c] = {} /\ persisting[c] = {}
    /\ loggedOut' = loggedOut \cup ({pair[c]} \X Kind)
    /\ Reset(c)
    /\ UNCHANGED <<now, status, redis, row, signed, admin, revoked, killed>>

(***************************************************************************)
(* Operations on the account: UsersService.approveUser, rejectUser,        *)
(* blockUser, unblockUser, deleteUser and AuthService.resetPassword.       *)
(***************************************************************************)
AdminGoto(a, label) == apc' = [apc EXCEPT ![a] = label]

AdminQuiet == UNCHANGED <<now, row, signed, hot, op, pc, pair, snap, stamp, marking, persisting,
                          revoked, loggedOut>>

\* An account that is ACTIVE again no longer has to be refused.
Reopen == doom' = [c \in Client |-> doom[c] \ {"locked"}]

\* approve and reject read the status first and write in a later step
ReadPending(a) ==
    /\ apc[a] = "idle" /\ status = "PENDING"
    /\ \E label \in {"approve", "reject"} : AdminGoto(a, label)
    /\ AdminQuiet /\ UNCHANGED <<status, cache, cutoff, astamp, killed, doom>>

ApproveUpdate(a) ==
    /\ apc[a] = "approve" /\ status # "DELETED"
    /\ status' = "ACTIVE" /\ Reopen
    /\ AdminGoto(a, "invalidate")
    /\ AdminQuiet /\ UNCHANGED <<cache, cutoff, astamp, killed>>

RejectDelete(a) ==
    /\ apc[a] = "reject" /\ status # "DELETED"
    /\ status' = "DELETED"
    /\ AdminGoto(a, "invalidate")
    /\ AdminQuiet /\ UNCHANGED <<cache, cutoff, astamp, killed, doom>>

BlockUpdate(a) ==
    /\ apc[a] = "idle" /\ status # "DELETED"
    /\ status' = "BLOCKED"
    /\ AdminGoto(a, "block_invalidate")
    /\ AdminQuiet /\ UNCHANGED <<cache, cutoff, astamp, killed, doom>>

UnblockUpdate(a) ==
    /\ apc[a] = "idle" /\ status # "DELETED"
    /\ status' = "ACTIVE" /\ Reopen
    /\ AdminGoto(a, "invalidate")
    /\ AdminQuiet /\ UNCHANGED <<cache, cutoff, astamp, killed>>

DeleteUser(a) ==
    /\ apc[a] = "idle" /\ status # "DELETED"
    /\ status' = "DELETED"
    /\ AdminGoto(a, "invalidate")
    /\ AdminQuiet /\ UNCHANGED <<cache, cutoff, astamp, killed, doom>>

\* resetPassword once the password is written: Date.now() is the cutoff
ResetPasswordUpdate(a) ==
    /\ apc[a] = "idle" /\ status # "DELETED"
    /\ astamp' = [astamp EXCEPT ![a] = now]
    /\ AdminGoto(a, "reset_cutoff")
    /\ AdminQuiet /\ UNCHANGED <<status, cache, cutoff, killed, doom>>

\* invalidateUser; blockUser then takes Date.now() as its cutoff
InvalidateUser(a) ==
    /\ apc[a] \in {"invalidate", "block_invalidate"}
    /\ cache' = NoUser
    /\ IF apc[a] = "invalidate"
         THEN AdminGoto(a, "idle") /\ UNCHANGED astamp
         ELSE AdminGoto(a, "block_cutoff") /\ astamp' = [astamp EXCEPT ![a] = now]
    /\ AdminQuiet /\ UNCHANGED <<status, cutoff, killed, doom>>

SetRevokedBefore(a) ==
    /\ apc[a] \in {"block_cutoff", "reset_cutoff"}
    /\ cutoff' = [at |-> astamp[a], exp |-> now + CutoffTtl]
    /\ killed' = killed \cup {p \in Pair : IsSigned(p) /\ signed[p].at <= astamp[a]}
    /\ AdminGoto(a, IF apc[a] = "block_cutoff" THEN "idle" ELSE "invalidate")
    /\ astamp' = [astamp EXCEPT ![a] = 0]
    /\ AdminQuiet /\ UNCHANGED <<status, cache, doom>>

\* A call of the operation rejects (the row is gone, Redis is down) or the
\* instance dies; what it wrote stays.
AdminAbort(a) ==
    /\ apc[a] # "idle"
    /\ AdminGoto(a, "idle")
    /\ astamp' = [astamp EXCEPT ![a] = 0]
    /\ AdminQuiet /\ UNCHANGED <<status, cache, cutoff, killed, doom>>

(***************************************************************************)
(* Time, the hourly purge, and the loss of Redis' contents.                *)
(***************************************************************************)
Tick ==
    /\ now < MaxTime
    /\ now' = now + 1
    /\ cache' = IF cache.exp <= now' THEN NoUser ELSE cache
    /\ cutoff' = IF cutoff.exp <= now' THEN NoCutoff ELSE cutoff
    /\ hot' = [t \in Token |-> IF hot[t] <= now' THEN 0 ELSE hot[t]]
    /\ UNCHANGED <<status, row, signed, client, admin, history>>

\* Mutant: the purge has lost its `where`.
PurgeEverything ==
    /\ \E t \in Token : row[t] # 0
    /\ row' = [t \in Token |-> 0]
    /\ UNCHANGED <<now, status, redis, signed, client, admin, history>>

PurgeExpired ==
    /\ \E t \in Token : row[t] \in 1 .. (now - 1)
    /\ row' = [t \in Token |-> IF row[t] < now THEN 0 ELSE row[t]]
    /\ UNCHANGED <<now, status, redis, signed, client, admin, history>>

RedisLoss ==
    /\ "redis_loss" \in Faults
    /\ cache' = NoUser /\ cutoff' = NoCutoff /\ hot' = [t \in Token |-> 0]
    /\ killed' = {} /\ doom' = [c \in Client |-> doom[c] \ {"killed"}]
    /\ UNCHANGED <<now, status, row, signed, op, pc, pair, snap, stamp, marking, persisting, admin,
                   revoked, loggedOut>>

Init ==
    /\ now = 1
    /\ status \in InitialStatus
    /\ cache = NoUser /\ cutoff = NoCutoff
    /\ hot = [t \in Token |-> 0] /\ row = [t \in Token |-> 0]
    /\ signed = [p \in Pair |-> Unsigned]
    /\ op = [c \in Client |-> "none"] /\ pc = [c \in Client |-> "idle"]
    /\ pair = [c \in Client |-> NoPair] /\ snap = [c \in Client |-> "NONE"]
    /\ stamp = [c \in Client |-> 0]
    /\ marking = [c \in Client |-> {}] /\ persisting = [c \in Client |-> {}]
    /\ apc = [a \in Admin |-> "idle"] /\ astamp = [a \in Admin |-> 0]
    /\ revoked = {} /\ loggedOut = {} /\ killed = {}
    /\ doom = [c \in Client |-> {}]
    /\ lastRisk = 1

Validate(c) == CheckHot(c) \/ CheckRow(c) \/ RewarmHot(c) \/ CheckCutoff(c)
Access(c)   == (\E p \in Pair : StartAccess(c, p)) \/ ReadCache(c) \/ LoadForAccess(c) \/ FillForAccess(c)
Refresh(c)  == (\E p \in Pair : StartRefresh(c, p)) \/ LoadForRefresh(c) \/ RotateDone(c)
Login(c)    == StartLogin(c) \/ LoadForLogin(c)
Revoke(c)   == \E t \in Token : RevokeHot(c, t) \/ RevokeRow(c, t) \/ LogoutHotError(c, t)
Logout(c)   == (\E p \in Pair : StartLogout(c, p)) \/ LogoutDone(c)
ClientStep(c) ==
    \/ Validate(c) \/ Access(c) \/ Refresh(c) \/ Login(c) \/ Revoke(c) \/ Logout(c)
    \/ (\E p \in Pair : IssueTokenPair(c, p)) \/ Finish(c) \/ Abort(c)

AdminStep(a) ==
    \/ ReadPending(a) \/ ApproveUpdate(a) \/ RejectDelete(a) \/ BlockUpdate(a) \/ UnblockUpdate(a)
    \/ DeleteUser(a) \/ ResetPasswordUpdate(a) \/ InvalidateUser(a) \/ SetRevokedBefore(a)
    \/ AdminAbort(a)

Step ==
    \/ \E c \in Client : ClientStep(c)
    \/ \E a \in Admin : AdminStep(a)
    \/ Tick \/ PurgeExpired \/ RedisLoss

Next == Step /\ TrackRisk

Spec == Init /\ [][Next]_vars

-----------------------------------------------------------------------------
(***************************************************************************)
(* Properties                                                              *)
(***************************************************************************)
ClientPc == {"idle", "hot", "row", "warm", "cutoff", "cache", "load", "revoke", "fill", "granted"}
AdminPc  == {"idle", "approve", "reject", "invalidate", "block_invalidate", "block_cutoff",
             "reset_cutoff"}
Snapshot == {"NONE", "PENDING", "ACTIVE", "BLOCKED"}

\* The state of every request, operation, key and row stays within its type;
\* in particular a deleted account is never what a handler holds or caches.
TypeOK ==
    /\ now \in Time \ {0} /\ lastRisk \in Time
    /\ status \in Status
    /\ cache \in [status : Snapshot, exp : Nat]
    /\ cutoff \in [at : Time, exp : Nat]
    /\ hot \in [Token -> Nat] /\ row \in [Token -> Nat]
    /\ signed \in [Pair -> [at : Nat, iat : Time]]
    /\ op \in [Client -> {"none", "access", "refresh", "login", "logout"}]
    /\ pc \in [Client -> ClientPc]
    /\ pair \in [Client -> Pair \cup {NoPair}]
    /\ snap \in [Client -> Snapshot]
    /\ stamp \in [Client -> Nat]
    /\ marking \in [Client -> SUBSET Token] /\ persisting \in [Client -> SUBSET Token]
    /\ apc \in [Admin -> AdminPc] /\ astamp \in [Admin -> Time]
    /\ revoked \subseteq Token /\ loggedOut \subseteq Token /\ killed \subseteq Pair
    /\ doom \in [Client -> SUBSET Reason]

\* A token may be used past its refusal only if it expired by itself meanwhile:
\* the key and the row that refuse it are gone from that instant on.
GrantedOnlyIfExpired(reason) ==
    \A c \in Client : pc[c] = "granted" /\ reason \in doom[c] => now >= Exp(Tok(c))

\* Once revoke() has returned for a token (rotation or logout), no request
\* that starts later gets through with it while it is unexpired, whether the
\* hot key, the blacklist row or the purge is the one that is missing.
RevokedIsFinal == GrantedOnlyIfExpired("revoked")

\* Once POST /auth/logout has answered 200, neither cookie it was sent with
\* opens a request that starts later.
LogoutIsFinal == GrantedOnlyIfExpired("loggedOut")

\* Once a block or a password reset has written its cutoff, every token that
\* was signed by then with issuedAtMs at or before it is refused for the rest
\* of its life, or until Redis loses its contents: such a loss takes back the
\* cutoffs that were written before it, and none that a later block writes.
CutoffIsFinal == GrantedOnlyIfExpired("killed")

\* While the account is not ACTIVE, no refresh that starts gets a pair, and no
\* access token opens a request that starts USER_TTL after the last handler
\* that had read ACTIVE is gone: the cached status cannot outlive its TTL.
InactiveIsLockedOut ==
    \A c \in Client : pc[c] = "granted" => "locked" \notin doom[c]

\* A refresh token is rotated once: two requests never both obtain a pair
\* from the same refresh token.
RefreshIsSingleUse ==
    \A c, d \in Client :
        (c # d /\ pc[c] = "granted" /\ pc[d] = "granted" /\ op[c] = "refresh" /\ op[d] = "refresh")
            => Tok(c) # Tok(d)
=============================================================================
