# BCN Profiles: TLA+ specifications and proofs

BCN Profiles is a NestJS API: accounts, sessions with optional two-factor
authentication, profiles with avatars, timeline events, and outbound mail.
PostgreSQL (through Prisma) holds the records; Redis holds revocation keys,
session cutoffs, a cached copy of each account and read caches; an object store
holds avatars. Several API instances run side by side and share the stores.
JavaScript runs a handler without interruption up to its next `await`; what
interleaves is therefore the sequence of database, Redis and storage calls of
the handlers, and that is what the modules follow.

Paths below are relative to the repository (`src/` of its checkout is
`src/src/` seen from here).

## 1. Inventory

| Component | State | Operations | Hard parts | What makes it correct | Module |
|---|---|---|---|---|---|
| Sessions and tokens (`auth.service`, `token-revocation.service`, `auth-session-cache.service`, `jwt.strategy`, `token-issued-at`) | `token_blacklist` rows; Redis `auth:revoked:<jti>`, `session:revoked_before:<user>`, `auth:user:<user>`; the JWTs in clients' cookies | `validate`, `refreshTokens`, `issueTokenPair`, `revokeTokenPair`, `revoke`, `isRevoked`, `purgeExpired` | check-then-act across awaits, two stores, TTLs, failing writes, stale cached status | revoked, logged-out and cut-off tokens stay refused; an inactive account is shut out within the cache's TTL; a refresh token is used once | `Sessions` |
| Account status (`users.service`: approve, reject, block, unblock, delete; `resetPassword`) | `users.status`, the cached account, the cutoff | the five operations | read-then-write, three stores touched one after the other, no transaction across them | the status written last governs; a block ends all sessions | `Sessions` (lists: `ReadCaches`; avatar: `Profile`) |
| Account creation (`register`, `createUser`, `prisma.service`) | `users` and its unique indexes | look, hash, insert with a random id, retry | look-then-insert; three unique columns; bounded retry | identities are distinct; an answer agrees with the table; every request is answered | `Accounts`, `Registry` |
| Authentication challenges (`auth-challenge.service`) | `auth_challenges` rows | `issue`, `validate`, `consume`, purge | validate and consume are two steps | a challenge is redeemed once | `TwoFactor` |
| Two-factor (`two-factor-auth.service`, `auth.controller`) | `twoFactorEnabled`, `twoFactorRequired`, `totpSecret`, `two_factor_recovery_codes` | setup, confirm, verify, recovery, enforcement, disable | sequences of several requests; codes replaced in two statements | no login by a factor that is not enrolled; an enrolled account keeps its recovery codes; enforcement cannot be undone by the user | `TwoFactor` |
| One-time passwords (`auth.service`, `two-factor-auth.service`) | `password_resets`, shared by three flows | forgot/reset password, change e-mail, 2FA by e-mail | delete-then-create; conditional and unconditional marking; five candidates | an OTP is used once, by the flow that issued it | `Otp` |
| Mail queue (`mail-queue.service`, `email.service`) | in-memory queue and counter of one instance | `enqueue`, `processQueue`, `runTask` | re-entrancy between enqueue and completions, failures | bounded, in order, no lost or idle slot, every promise settles | `MailQueue`, `MailPool` |
| Users read caches (`users.service`, `users-list-cache.service`) | Redis pages, counts, details, by-email (negative too), profiles, searches | the reads, the five-minute prefetch, `invalidateListCaches` | fill racing invalidation, SCAN then DEL, crash between write and invalidation | staleness is bounded by the TTL and has a cause | `ReadCaches` |
| Timeline (`timeline-events.service` and cache) | `timeline_events`, Redis pages and details | create, update, remove, reads, prefetch | the same races, and two prefixes dropped one after the other | as above | `ReadCaches` |
| Profiles and avatars (`users.service`, `minio.service`) | `users.avatar*`, `users.metadata` and the object store | upload signature, set, clear, update, delete | two stores, no transaction; read-modify-write | the row names an object that exists; a replaced object goes; no field of metadata is lost to a later update | `Profile` |
| Guards, filters, interceptors, logging, bootstrap | none | decide on one request | - | - | - |

Components meet in these places: every protected request passes through
`JwtStrategy`, which reads what `revoke`, `setRevokedBefore` and
`invalidateUser` wrote; account operations and `resetPassword` call the session
cache; login calls the challenge service and then `issueTokenPair`; every write
to an account or an event drops list caches; auth, users and two-factor flows
hand mails to the queue and do not await them.
`PROJECT.json` lists the hazards of each, line by line.

## 2. Modules

### Sessions

The session layer of **one account**; all its Redis keys and rows belong to one
user id, so accounts do not interact here.

| State | Code |
|---|---|
| `now` | the wall clock; one tick is one unit of JWT `exp` |
| `status` | `users.status`, `DELETED` when the row is gone |
| `cache`, `cutoff`, `hot` | `auth:user:<id>`, `session:revoked_before:<id>`, `auth:revoked:<jti>`, each with its expiry instant |
| `row` | `token_blacklist.expiresAt` per jti |
| `signed` | the pairs that exist: `at` is `issuedAtMs`, `iat` the instant of signing |
| `op, pc, pair, snap, stamp, marking, persisting` | a request in flight: which handler, which awaited call it is at, the cookies it presented, the account it loaded, the instant it took, and the tokens it has still to put into Redis and into the blacklist |
| `apc, astamp` | an account operation in flight and the `Date.now()` it took |
| `revoked, loggedOut, killed, doom, lastRisk` | history; no guard reads it |

A request goes `hot` → `row` (→ `warm`) → `cutoff`, then an access token
`cache` (→ `load` → `fill`), a refresh token `load` → `revoke` → `fill`. Each
action that leaves a label performs the awaited call of that label and the
synchronous code after it. `issueTokenPair` takes `issuedAtMs` *before* it
awaits `setUser` and signs *after*, hence `stamp` and `iat`. A login is the
path without two-factor; what a second factor adds comes before
`LoadForLogin` and does not touch this state. Logout revokes both cookies in
parallel. `approveUser` and `rejectUser` read the status first and write
later; block, unblock and delete read only to answer 404, so the read is part
of the write. `Abort` and `AdminAbort` stop a handler at any await: a rejected
call and a dying instance leave the same state.

Simplifications: a logout presents both cookies of one pair; tokens always
carry `issuedAtMs` (tokens of older versions do not); a run follows the tokens
in `Kind` only (a token of one kind is never looked up under the other's jti).

### MailPool, MailQueue

`MailQueue` is `MailQueueService`: everything between two awaits is one action,
so `Enqueue` contains the loop it triggers and `SendSucceeds` / `SendFails`
contain the `finally` block and the loop that it triggers. `Configured` counts
halves, so that fractional settings (floored by the code) are in the model.
`MailPool` is what callers may rely on, without a queue: mails wait, are sent,
are settled; at most `Capacity` at a time; none waits beside a free slot.
`MailQueue!ImplementsPool` states the refinement: waiting is the set of queued
tasks, settled is resolved or rejected.

### OneTime, TwoFactor

`OneTime` is what any ticket the API hands out promises: it is redeemed at most
once, and a withdrawn one not at all. A ticket that expires while a request that
has found it is under way lapses: it may still be redeemed, until the requests that hold
it are done. That is the case of mailed codes, whose conditional update tests
the id and `isUsed` only (auth.service.ts:593, two-factor-auth.service.ts:217); a challenge is
tested for its expiry again (auth-challenge.service.ts:112) and never lapses.
`TwoFactor` refines `OneTime` twice, for challenges (`ChallengesAreOneTime`) and
for backup and mailed codes (`CodesAreOneTime`); `Otp` once.

`TwoFactor` follows one account from the first step of an enrolment to the last
step of a recovery.

| State | Code |
|---|---|
| `enabled, required, secret` | `users.twoFactorEnabled`, `twoFactorRequired`, `totpSecret` |
| `challenge` | `auth_challenges`: type, whether it carries a TOTP secret, unused / used / gone |
| `code`, `otp` | `two_factor_recovery_codes`; the two-factor rows of `password_resets` |
| `req` | requests in flight: the handler, the database call it awaits (`pc`), the challenge it presented, the code it matched |
| `uses, accepted, begun, cut, overtaken` | history; no guard reads it. `overtaken` are the `userDisable2FA` requests under way when an administrator required two-factor |

Each handler of `auth.controller` and `two-factor-auth.service` is a path
through labels: a guard's `validate` is the guard of the action that starts it,
and each later database call is an action. `Consume` is the conditional
`updateMany` of a challenge, whose result every handler but
`initiateTwoFactorSetup` looks at (`UseUp` does not). `storeRecoveryCodes` is
`DropCodes` and `AddCodes`; `adminReset2FA` and the resets after a recovery are one transaction,
`Disable`. `Stop` ends a request anywhere: a rejected call and a dying
instance leave the same state.

Simplifications: wrong passwords and codes end a request and write nothing, so
none is presented; `validatePassword` is merged with the read before it; the
TOTP secret and the ten codes of an enrolment are named by the challenge that
confirmed it, one code standing for ten; expired and purged challenges are both
`gone` (a mailed code can be expired and still be marked); what follows a verification (`issueTokenPair`) is in `Sessions`, the
fields stamped into `metadata` in `Profile`; the path of `verifyEmailOTP` for
plaintext rows of older versions is left out.

### Otp

The rows of `password_resets` that belong to the addresses of one account, in
their three purposes (`row`), ordered by `createdAt` (`created`); the account's
address (`mail`), the row whose reset last wrote its password (`password`), the
addresses other accounts hold (`taken`), and requests in flight. `Candidates`
are the newest `Take` unused rows that a flow's query can see: the reset and
forgot queries do not look at the id and so see two-factor rows as well.
`Drop` and `Mint` are the delete and the create of the three senders; `Drop`
takes expired rows too. A reset looks for the account of the address, whoever
has it now, marks its row on the condition that it is there and not used (`Unmarked`: an expired row
will do), and then writes the password, the account's own if it still has the
address; that of another account is not followed. A change of e-mail
asks whether the address is taken, then marks and writes in one transaction
that fails as a whole on the unique index.

### ReadCaches

Reads, prefetches and writes over the caches under `users:` and `timeline:`. A
prefetch may begin at any time, since the start of an instance is one as well as the cron. An
entry is an expiry instant and whether it is `current`, that is, equal to what
the database would answer now; `since` and `raced` are history. `Fills` lists
what each read queries at once and then sets, in order; `Query` is the database's
answer, `Answered` drops the sets of the prefetch that a null
skips, and `Fill` is one `setJson`. A write commits, which makes every entry and every
answer held by a reader that it touches outdated (`Commit`), and then drops its prefixes one after the other
(`BeginScan`, `Batch`, `Del`, `EndScan`): SCAN returns every key that is there throughout, and one
that is filled in between perhaps. A clock bounds everything by TTL.

Which fields an entry carries is data and left out. The look that timeline
`update` and `remove` begin with is the read `findEvent`. `changeEmail` also stands
for the two-factor writes, which drop no lists either.

### Profile

The avatar of one account between `users.avatarPublicId` and the bucket, and
the JSON column `metadata`. An update reads the row (`ReadRow`), stats the new
object, writes (`WriteRow`, with `Merge` of what was read) and removes the object
it had read as the previous one; a deletion does the same with the whole row.
Presigned URLs stay open after they were used, so an object can be put again. A legacy update
by URL alone clears the key as `clearAvatar` does. `UpdateUser` is a body with metadata, with or without an
avatar; the two-factor stamps go through the same read and write. A value of a field
is named by the request that sent it, which is what tells a lost update from a kept one.
The history `lost` holds keys whose removal no request owes any
more: an overlapping update that nobody read, a rejected removal, a stop, a
put after the fact. `latest` is what was sent last for each field, `raced` the
fields that were written while another update had read the row and not written it.

### Registry, Accounts

`register` and `createUser` until they answer. `Look` is the check for address
and phone (register's two queries are one step), `Insert` and `IdConflict` are
the insertion with an id drawn at random, at most `Attempts` times,
`OtherConflict` the unique index that the look could not see. `createUser`
then awaits `invalidateListCaches` (`DropCaches`) before it answers. Any of
these calls may reject, and nobody catches it: in the look (`LookRejects`), in the
insertion, with or without the row left behind (`ReplyLost`, `CallRejects`), or after it, in the
caches (`CallRejects`). The answer is 500, and `failed` remembers it. `Remove`
is the later deletion of an account. `Registry` is what the two promise without
awaits and retries: a request is decided in one step. Either its account opens
with an id, an address and a number that no open account has, and it is answered 201, then or later; or it is
refused and an open account is in its way. Only a failure, which is on record, answers 500 with nothing in
the way or with the account open. `Accounts!ImplementsRegistry` maps rows to accounts and
decided requests to answers, 0 for one that has its row and still drops the caches.

`MC*` modules instantiate these for TLC, `*_proofs` hold the proofs. Definitions commented "Mutant:" are
plausible bugs in the code; replacing the definition they follow by one of them must make TLC
report the property named in `PROJECT.json`.

## 3. Runs

| Run | Instance | Checks | States |
|---|---|---|---|
| `sessions_refresh` | refresh tokens, 2 requests, 2 pairs, time to 4, failing upserts | `RevokedIsFinal`, `LogoutIsFinal` | 1.3 M |
| `sessions_lockout` | access tokens, 2 requests, 1 operation, time to 3, account PENDING at first, Redis loses keys | `TypeOK`, `RevokedIsFinal`, `InactiveIsLockedOut` | 3.1 M |
| `sessions_cutoff` | refresh tokens, 1 request, 1 operation, 2 pairs, time to 3, Redis errors and losses | `CutoffIsFinal`, `InactiveIsLockedOut` | 2.5 M |
| `mail_queue` | 4 mails, limit 2 | `TypeOK`, `CountIsExact`, `NoIdleSlot`, `FirstInFirstOut`, `ImplementsPool`, `EveryMailSettles` | 2.3 k |
| `two_factor` | all 14 operations, 2 requests, 3 challenges, 1 mailed code, stops | `TypeOK`, `EnrolledHasCodes`, `SetupTokenIsSpent`, `ChallengesAreOneTime`, `CodesAreOneTime`, `TotpNeedsEnrolment`, `EnforcedStaysEnrolled` | 1.9 M |
| `otp` | all operations, 2 requests, 3 rows, 2 addresses, 2 candidates | `TypeOK`, `EmailStaysUnique`, `RepeatsOverlap`, `CodesAreOneTime`, `ChangeCodeBuysTheChange` | 0.65 M |
| `caches` | 1 read, 2 writes, a key of each kind of read (list, negative, two-step), TTL 1, time to 2, stops | `TypeOK`, `BoundedStaleness`, `InvalidationIsComplete` | 0.45 M |
| `profile` | 2 requests, 2 object keys, the two-factor stamps as the one field, with and without a merge, failing removals, stops | `TypeOK`, `AvatarExists`, `ReplacedGoes`, `FieldsSurvive` | 1.8 M |
| `accounts` | 3 requests, 2 ids, 2 addresses, 1 phone or none, 3 attempts, rejecting calls, fairness | `TypeOK`, `IdentitiesAreDistinct`, `AnswersMatchRows`, `ImplementsRegistry`, `EveryRequestIsAnswered` | 0.20 M |
| `sessions_double_refresh` | violation | `RefreshIsSingleUse` | |
| `sessions_two_resets` | violation | `CutoffIsFinal` with two overlapping operations | |
| `sessions_logout_error` | violation | `LogoutIsFinal` with a Redis error at logout | |

**Bounds.** In `Sessions`, `MaxTime` lets a token be issued, revoked and expire, and a cached
account expire while the token lives. TTLs keep the order they have in the
code (cached account shortest; the 60 s floor of a revocation key below the
refresh token's life; key and cutoff at least as long as the refresh token;
`TtlAssumption`). Two requests are the least that interleave; two pairs let a
rotation's successor be presented too. Four mails
through a limit of two let a completion find the queue longer than the slots.
Three challenges are a login's, the setup it leads to and one more, so that two enrolments
can overlap and a recovery can follow one. `MCTwoFactor!View` leaves out
what `overtaken` says of requests that are over, and whether a mailed code that expired and that
no request holds was deleted. `Take` is 2 where the code has 5:
three rows then suffice for one to fall out of the candidates. In `caches` two
writes let one commit between another's scan and delete, and two ticks let an
entry filled after the commit expire. Two object keys let overlapping updates of an
avatar store one that the other never read, and let a replaced key be set anew; one field of
metadata is enough, since an update that sends none writes it back as it read it. Two ids for
three registrations make every insertion after the second collide until the
attempts run out; the loop has three of the code's five, which is a first, a middle and a
last one. The proofs of section 4 hold without these bounds. Requests,
operations, pairs, rows and keys are symmetric; no temporal property with
fairness is checked with symmetry.

**Deadlock** is checked in the session runs (the account's requests can always
begin or time pass, until `MaxTime`, where logout and access of existing pairs
remain possible) and in `otp`. It is turned off where the system may stop:
`mail_queue`, when all mails are settled; `accounts`, when all requests are
answered; `two_factor`, when the challenges of the run are used up and a request waits
to issue one; `caches`, at the end of the clock; `profile`, when the account
is deleted and all URLs are closed.

**Fairness.** `MailQueue` assumes that every send that was begun ends, one
way or the other (`WF` of `SendEnds`), which is what awaiting the HTTP client of the
mail service amounts to; `Enqueue` has none. `Accounts` assumes that a
registration that was received is carried on (`WF` of `Creating(r)`): its
steps await the database and Redis, which answer or reject. An instance that dies
answers none of its requests, and is outside that assumption; what it leaves behind is that of a
call that rejects. Everything else is safety.

### Disagreements between documents and code

1. *A refresh token can be used twice* (`sessions_double_refresh`). API_DOCS.md:230
   promises that the old token cannot be reused; `refreshTokens` checks at
   auth.service.ts:257, revokes at :291, and neither is conditional on the other.
2. *A cutoff can move backwards* (`sessions_two_resets`). "Kill all sessions
   issued before now" (auth-session-cache.service.ts:60) fails when two
   operations write their instants in the opposite order. `CutoffStaysFinal` (section 4)
   proves that two operations between `Date.now()` and their write are the only way;
   a Redis that loses its contents takes back the cutoffs written before the loss.
3. *A logout can answer 200 and revoke nothing* (`sessions_logout_error`). The
   catch meant for malformed cookies (auth.service.ts:337) swallows Redis errors.

Visible in the models without a run of their own:

- `initiateTwoFactorSetup` ignores whether it consumed its token
  (auth.controller.ts:314, against API_DOCS.md:526): two requests at once begin two
  setups. `SetupTokenIsSpent` says what is left of the promise.
- `userDisable2FA` checks the requirement several awaits before it disables
  (two-factor-auth.service.ts:403, API_DOCS.md:983); an enforcement in between is undone.
  `EnforcedStaysEnrolled` says what is left: only such an overtaken request does it.
- `confirmEmailChange` marks its row unconditionally (auth.service.ts:461):
  confirmations that overlap all succeed with one code. `RepeatsOverlap` bounds
  them by the requests in flight.
- `forgotPassword` deletes the address's two-factor codes too
  (auth.service.ts:520, API_DOCS.md:731), and only the five newest rows are
  compared (auth.service.ts:567, API_DOCS.md:254): a good code may not be found.
- A stop or a rejected call between the two statements of `storeRecoveryCodes`
  leaves an enrolled account without codes, and two confirmations at once can leave two
  sets; a confirmed enrolment leaves other setup tokens alive.
- The prefetch comes every five minutes and its entries live for 60 s
  (users.service.ts:97); `findByEmail` stores a detail without
  the events that `findOne` answers with (users.service.ts:432, API_DOCS.md:1271).
- Overlapping avatar updates leave an object nobody removes
  (users.service.ts:775); overlapping `updateUser`s lose a metadata field
  (users.service.ts:795, API_DOCS.md:1404). `FieldsSurvive` says that nothing but an overlap does.
- A mailed code that is found before its expiry is accepted after it, since the conditional
  updates do not look at `expiresAt` (auth.service.ts:593, two-factor-auth.service.ts:217).
  `CodesAreOneTime` says what is left: only for a request that had found it, and once.
- `createUser` drops the list caches after the insertion and before its answer
  (users.service.ts:565): if Redis rejects, the answer is 500 and the account exists.
  `AnswersMatchRows` says that only a rejected call can part the two.
- Two registrations that pass the look together: the second is answered 500, not the 409
  of API_DOCS.md:84 (`OtherConflict`).
- An approval can overwrite a block made between its read and its write; a
  refresh or login past its checks survives a reset or block that follows; a
  stop between `revoke` and `issueTokenPair` costs the user the session; a mail
  concurrency between 0 and 1 is floored to 0 and stops all mail.

## 4. Proofs

All theorems are checked by TLAPS for every value of the constants that the
named assumptions admit.

*Sessions.* `TypeInv` is `TypeOK` and: a request that is at a step of a token's
check holds a signed pair. `RevokedIsFinal` is not inductive; `RevocationInv` adds that
every blacklist row covers its token's life, that each revoked token is
guarded by a hot key or a row until it expires (which of the two may be missing
depends on the faults: with `OneStoreHolds` one of them always stays), and that
a doomed request has not passed the guard that is there. A request that
started after the revocation reads Redis first and the row second; the two
reads are at different instants, and the invariant must say for each label
which guard is still ahead. `RevokedStaysRefused` follows. `LogoutInv` adds
that a logout's tokens are each in `marking`, in `persisting` or revoked;
`LogoutStaysFinal` needs the absence of Redis errors at logout, and
`sessions_logout_error` shows that it does.

`InactiveStaysLockedOut` needs no assumption at all (`Lockout_proofs`).
`LockInv` says that a cached ACTIVE expires at `lastRisk + UserTtl` at the
latest, because whoever writes it read it and is a stale writer, which keeps
`lastRisk` at `now`, until then (`StaleWriterRead`, `CacheStep`); and that a request that has to be
refused is still at a check that will refuse it. `CutoffStaysFinal` assumes
only `OneCutoff`, that no two operations hold an instant they have still to write as
the cutoff (`sessions_two_resets` shows that it is needed); other operations may overlap, and every fault may happen, since
a loss of Redis takes the tokens that it revives out of `killed`. `CutoffInv` says that the cutoff only rises (`CutoffRises`: an
operation's instant is not below the cutoff in force), and that a pair it has ended
stays below it until the pair's refresh token has expired (`CutOff`).

*MailQueue.* `QueueInv` joins the four invariants with the disjointness of the
places a task can be in and the distinctness of the queued tasks. The heart is
`OnePass`: because no slot idles beside a waiting task, each pass of the loop
begins at most one task, so the step maps to one step of `MailPool`.
`QueueImplementsPool` and the other safety theorems follow. Of `EveryMailSettles` everything but fairness
is proved too: while a mail is unsettled a send is in flight
(`UnsettledMailMoves`, for a limit above zero), and every end of a send, either way,
begins the front of the queue (`EveryEndBeginsTheNext`); a mail with n others before it begins after
at most n + 1 ends.

*TwoFactor.* `TwoFactorInv` is `TypeOK` with `Holds` (what a request's label
says of the challenge and the code it names), `OneOwner` (no two confirmations
past `Consume` hold the same challenge) and `Counted` (what is not used up was never
accepted). With it each step maps to one of `OneTime` or to a stutter,
for challenges and for codes; a code that expires while it is held goes from
`live` to `lapsed`, and leaves it by the mark or with the last request that holds it. `SetupTokenIsSpent` needs `SpentInv` besides: a request that initiates
has used its token up before it issues the next. `EnrolledHasCodes` is
inductive beside `TwoFactorInv`; its argument is that no step but `DropCodes`
takes the codes of an enrolled account away, and that `DropCodes` is followed by `AddCodes` or
by a stop that is recorded in `cut`. `EnforcementHolds` needs `EnforcedInv`: under
enforcement every `userDisable2FA` in flight is in `overtaken`, since one that starts
looks at the requirement first; and `OnlyDisableDisenrols`.

*Otp.* `OtpInv` joins the types, `Ordered` (the rows that were created, each
once), `Counted` (what is not used up was never accepted), `InForce` (the row
behind the password was accepted once, and not for a change of address), the uniqueness
of addresses, and `Presented` (the purpose and address of the row a
request holds). `RepeatsAlwaysOverlap` assumes that requests are finitely many
and shows `Repeats`: what a row was accepted for and the requests that still hold
it are together never more than the requests, since a row is found only
while it is unused.

*ReadCaches.* `CacheInv` is `Fresh` (a current entry expires within one TTL),
`Dropping` (a write has prefixes to drop as long as it runs, and marks keys only
while it scans) and the two properties. SCAN's contract enters where `EndScan` requires
`todo` to be empty. `CachesTypeCorrect` has an invariant of its own, `TypeInv`, which follows the rounds
a read has still to query and the answers it holds.

*Profile.* `ProfileInv` is `TypeOK`, `AvatarExists`, `ReadOnce` (what a request
takes for the previous object was the avatar once, and what it removes is the avatar no
longer, or was put again) and `Owed` (a replaced object that is still there is
in `lost`, or a request is about to remove it). `FieldsAreKept` rests on
`FieldsInv`: for a field outside `raced`, the row has what was sent last, and so has every
request that has read the row for a merge, unless it sends the field itself (`Knows`); hence whatever it writes back is up to date.

*Accounts.* `AccountsInv` adds to the two invariants what a request's label tells
(`Underway`): one that is not done has no answer and has not failed, and one that still drops
the caches has its row. `CreationIsAtomic` maps `Insert` and `ReplyLost` to
`Open`, an answer 409 or 500 for a conflict to `Refuse`, whose guard is the row that made the look or the
insertion fail, a call that rejects before there is a row to `Fail` and one after it, like `DropCaches`, to
`Answer`, `Remove` to `Close`, and all other steps to none.

Model-checked only: `EveryMailSettles` and `EveryRequestIsAnswered`, since
liveness under fairness is outside the prover's reach.

## 5. Not modelled

- The generated client under `src/prisma/client` (most of the repository's
  lines): generated from `schema.prisma`, of which the modules take the unique
  indexes, the enumerations and the cascades. Its calls are modelled at their
  callers, as single atomic statements, or as one step where the code opens a transaction.
- Guards, filters, interceptors, DTO validation and rate limits, apart from the two-factor
  guards: each decides on one request and keeps no state that another reads.
- Logging and request logging, bootstrap, configuration, the connection pool's
  warm-up and keep-alive, Redis connection set-up: wiring and I/O.
- E-mail templates, pagination, sorting, search conditions, wording: data.
- Seed and reset scripts, the latency page, deployment files.
- In modelled services: `uploadRawFile` and download URLs (no handler that
  keeps state calls them), `getProfile`, tokens without `issuedAtMs`,
  plaintext codes of older versions in `verifyEmailOTP`.

## 6. Plan

What remains: join a two-factor login of `TwoFactor` with the sessions of `Sessions`, for a
reset or block between the challenge and its redemption.

## 7. Running

`tlc -config <run>.cfg <module>` for the runs of section 3; `tlapm` on
`Sessions_proofs.tla`, `Lockout_proofs.tla`, `MailQueue_proofs.tla`,
`TwoFactor_proofs.tla`, `Otp_proofs.tla`, `ReadCaches_proofs.tla`,
`Profile_proofs.tla` and `Accounts_proofs.tla` for the proofs.
