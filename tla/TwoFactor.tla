----------------------------- MODULE TwoFactor ------------------------------
(***************************************************************************)
(* Two-factor authentication of one account: enrolment, verification at    *)
(* login, recovery and the administrators' operations, over the challenge  *)
(* rows, the recovery codes and the mailed codes.                          *)
(*                                                                         *)
(* A handler is a request whose pc names the database call it awaits.      *)
(* Passwords and codes are presented as they should be: a wrong one ends   *)
(* the request and writes nothing.  The TOTP secret that a challenge       *)
(* carries, and the ten recovery codes that its confirmation generates,    *)
(* are named by the challenge; one code stands for the ten.                *)
(***************************************************************************)
EXTENDS Naturals

CONSTANTS
    Request,     \* concurrent requests
    Challenge,   \* jti of the challenges that can be issued (bound)
    Otp,         \* rows of password_resets with the prefix 2fa-email- (bound)
    Op,          \* the operations that a run follows
    None,
    Faults       \* "stop": an instance dies or a call rejects in mid-handler

ASSUME NoneAssumption == None \notin Challenge \cup Otp
ASSUME DisjointAssumption == Challenge \cap Otp = {}

VARIABLES
    enabled, required, secret,  \* users.twoFactorEnabled, twoFactorRequired, totpSecret
    challenge,                  \* auth_challenges
    code,                       \* two_factor_recovery_codes
    otp,                        \* password_resets, the two-factor rows
    req,                        \* requests in flight
    uses, accepted,             \* history, read by no action: successes of a challenge,
    begun, cut,                 \* acceptances of a code, whether a setup was begun with a
                                \* challenge, whether storeRecoveryCodes was cut short,
    overtaken                   \* userDisable2FA under way when two-factor was required

policy  == <<required, overtaken>>
user    == <<enabled, policy, secret>>
history == <<uses, accepted, begun, cut>>
vars    == <<user, challenge, code, otp, req, history>>

RowState == {"none", "unused", "used", "gone"}
OtpState == RowState \cup {"expired"}
Blank    == [type |-> "none", secret |-> FALSE, state |-> "none"]
Idle     == [op |-> "none", pc |-> "idle", ch |-> None, item |-> None]

Goto(r, label) == req' = [req EXCEPT ![r].pc = label]
End(r)         == req' = [req EXCEPT ![r] = Idle]
Start(r, o, label, ch, item) ==
    /\ o \in Op /\ req[r] = Idle
    /\ req' = [req EXCEPT ![r] = [op |-> o, pc |-> label, ch |-> ch, item |-> item]]
    /\ UNCHANGED <<user, challenge, code, otp, history>>

(***************************************************************************)
(* AuthChallengeService                                                    *)
(***************************************************************************)
Valid(ch, type) == challenge[ch].type = type /\ challenge[ch].state = "unused"

Issue(r, ch) ==
    /\ req[r].pc \in {"issue_setup", "issue_secret", "issue_verify", "issue_recovery"}
    /\ challenge[ch].state = "none"
    /\ challenge' = [challenge EXCEPT ![ch] =
         [type   |-> CASE req[r].pc = "issue_verify"   -> "verify"
                       [] req[r].pc = "issue_recovery" -> "recovery"
                       [] OTHER                        -> "setup",
          secret |-> req[r].pc = "issue_secret",
          state  |-> "unused"]]
    /\ begun' = IF req[r].op = "initiate" THEN [begun EXCEPT ![req[r].ch] = TRUE] ELSE begun
    /\ End(r)
    /\ UNCHANGED <<user, code, otp, uses, accepted, cut>>

\* Mutant: the row is updated whether or not it is still unused.
ConsumeAnyway(r) ==
    /\ req[r].pc = "consume"
    /\ challenge' = [challenge EXCEPT ![req[r].ch].state = "used"]
    /\ uses' = [uses EXCEPT ![req[r].ch] = @ + 1]
    /\ CASE req[r].op = "confirm" -> Goto(r, "enable")
         [] req[r].op = "reset"   -> Goto(r, "disable")
         [] OTHER                 -> End(r)
    /\ UNCHANGED <<user, code, otp, accepted, begun, cut>>

\* consume, and the refusal of its callers when it returns false; a verified
\* login goes on to its tokens, which Sessions models
Consume(r) ==
    /\ req[r].pc = "consume"
    /\ IF challenge[req[r].ch].state = "unused"
         THEN /\ challenge' = [challenge EXCEPT ![req[r].ch].state = "used"]
              /\ uses' = [uses EXCEPT ![req[r].ch] = @ + 1]
              /\ CASE req[r].op = "confirm" -> Goto(r, "enable")
                   [] req[r].op = "reset"   -> Goto(r, "disable")
                   [] OTHER                 -> End(r)
         ELSE End(r) /\ UNCHANGED <<challenge, uses>>
    /\ UNCHANGED <<user, code, otp, accepted, begun, cut>>

\* past expiresAt, and perhaps purged
ExpireChallenge(ch) ==
    /\ challenge[ch].state = "unused"
    /\ challenge' = [challenge EXCEPT ![ch].state = "gone"]
    /\ UNCHANGED <<user, code, otp, req, history>>

(***************************************************************************)
(* Login, and the setup that an administrator's requirement leads to.      *)
(***************************************************************************)
\* without two-factor the login goes straight to its tokens
Login(r) ==
    \/ enabled /\ Start(r, "login", "issue_verify", None, None)
    \/ ~enabled /\ required /\ Start(r, "login", "issue_setup", None, None)

InitiateSetup(r, ch) == Valid(ch, "setup") /\ Start(r, "initiate", "use_up", ch, None)

\* Mutant: the token is left as it is.
UseUpLater(r) ==
    /\ req[r].pc = "use_up"
    /\ Goto(r, "issue_secret")
    /\ UNCHANGED <<user, challenge, code, otp, history>>

\* consumeChallenge, whose result nobody looks at
UseUp(r) ==
    /\ req[r].pc = "use_up"
    /\ challenge' = IF challenge[req[r].ch].state = "unused"
                      THEN [challenge EXCEPT ![req[r].ch].state = "used"] ELSE challenge
    /\ Goto(r, "issue_secret")
    /\ UNCHANGED <<user, code, otp, history>>

InitiateMyEnable(r) == Start(r, "my_initiate", "issue_secret", None, None)

\* setup/confirm and me/enable/confirm: the former also issues tokens
Confirm(r, ch) ==
    Valid(ch, "setup") /\ challenge[ch].secret /\ Start(r, "confirm", "consume", ch, None)

\* Mutant: the secret of the confirmed challenge is not stored.
EnableWithoutSecret(r) ==
    /\ req[r].pc = "enable"
    /\ enabled' = TRUE
    /\ Goto(r, "drop_codes")
    /\ UNCHANGED <<policy, secret, challenge, code, otp, history>>

Enable(r) ==
    /\ req[r].pc = "enable"
    /\ enabled' = TRUE /\ secret' = req[r].ch
    /\ Goto(r, "drop_codes")
    /\ UNCHANGED <<policy, challenge, code, otp, history>>

\* storeRecoveryCodes: deleteMany, then createMany
DropCodes(r) ==
    /\ req[r].pc = "drop_codes"
    /\ code' = [c \in Challenge |-> IF code[c] = "unused" THEN "gone" ELSE code[c]]
    /\ Goto(r, "add_codes")
    /\ UNCHANGED <<user, challenge, otp, history>>

AddCodes(r) ==
    /\ req[r].pc = "add_codes"
    /\ code' = [code EXCEPT ![req[r].ch] = "unused"]
    /\ cut' = FALSE
    /\ End(r)
    /\ UNCHANGED <<user, challenge, otp, uses, accepted, begun>>

(***************************************************************************)
(* Verification of a login                                                 *)
(***************************************************************************)
VerifyTotp(r, ch)      == Valid(ch, "verify") /\ Start(r, "totp", "secret", ch, None)
VerifyBackup(r, ch, c) == Valid(ch, "verify") /\ Start(r, "backup", "find_code", ch, c)
VerifyEmail(r, ch, o)  == Valid(ch, "verify") /\ Start(r, "email", "find_otp", ch, o)
SendEmailOtp(r, ch)    == Valid(ch, "verify") /\ Start(r, "send", "mint_otp", ch, None)

\* getTOTPSecret, and the code compared with it
ReadSecret(r) ==
    /\ req[r].pc = "secret"
    /\ IF secret = None THEN End(r)
       ELSE Goto(r, IF req[r].op = "totp" THEN "consume" ELSE "disable")
    /\ UNCHANGED <<user, challenge, code, otp, history>>

FindCode(r) ==
    /\ req[r].pc = "find_code"
    /\ IF code[req[r].item] = "unused" THEN Goto(r, "mark_code") ELSE End(r)
    /\ UNCHANGED <<user, challenge, code, otp, history>>

\* Mutant: the code found a moment ago is marked by its id alone.
MarkCodeById(r) ==
    /\ req[r].pc = "mark_code"
    /\ code' = [code EXCEPT ![req[r].item] = "used"]
    /\ accepted' = [accepted EXCEPT ![req[r].item] = @ + 1]
    /\ Goto(r, "consume")
    /\ UNCHANGED <<user, challenge, otp, uses, begun, cut>>

MarkCode(r) ==
    /\ req[r].pc = "mark_code"
    /\ IF code[req[r].item] = "unused"
         THEN /\ code' = [code EXCEPT ![req[r].item] = "used"]
              /\ accepted' = [accepted EXCEPT ![req[r].item] = @ + 1]
              /\ Goto(r, "consume")
         ELSE End(r) /\ UNCHANGED <<code, accepted>>
    /\ UNCHANGED <<user, challenge, otp, uses, begun, cut>>

(***************************************************************************)
(* Mailed codes and recovery                                               *)
(***************************************************************************)
MintOtp(r, o) ==
    /\ req[r].pc = "mint_otp" /\ otp[o] = "none"
    /\ otp' = [otp EXCEPT ![o] = "unused"]
    /\ End(r)
    /\ UNCHANGED <<user, challenge, code, history>>

FindOtp(r) ==
    /\ req[r].pc = "find_otp"
    /\ IF otp[req[r].item] = "unused" THEN Goto(r, "mark_otp") ELSE End(r)
    /\ UNCHANGED <<user, challenge, code, otp, history>>

\* the conditional updateMany: by id and isUsed, whether or not the row has
\* expired since it was found
MarkOtp(r) ==
    /\ req[r].pc = "mark_otp"
    /\ IF otp[req[r].item] \in {"unused", "expired"}
         THEN /\ otp' = [otp EXCEPT ![req[r].item] = "used"]
              /\ accepted' = [accepted EXCEPT ![req[r].item] = @ + 1]
              /\ Goto(r, IF req[r].op = "email" THEN "consume" ELSE "recheck")
         ELSE End(r) /\ UNCHANGED <<otp, accepted>>
    /\ UNCHANGED <<user, challenge, code, uses, begun, cut>>

\* past expiresAt
ExpireOtp(o) ==
    /\ otp[o] = "unused"
    /\ otp' = [otp EXCEPT ![o] = "expired"]
    /\ UNCHANGED <<user, challenge, code, req, history>>

\* deleted by forgotPassword (module Otp), expired or not
LoseOtp(o) ==
    /\ otp[o] \in {"unused", "expired"}
    /\ otp' = [otp EXCEPT ![o] = "gone"]
    /\ UNCHANGED <<user, challenge, code, req, history>>

RequestRecovery(r)   == enabled /\ Start(r, "request", "mint_otp", None, None)
VerifyRecovery(r, o) == Start(r, "recover", "find_otp", None, o)

Recheck(r) ==
    /\ req[r].pc = "recheck"
    /\ IF enabled THEN Goto(r, "issue_recovery") ELSE End(r)
    /\ UNCHANGED <<user, challenge, code, otp, history>>

ResetAfterRecovery(r, ch) == Valid(ch, "recovery") /\ Start(r, "reset", "consume", ch, None)

(***************************************************************************)
(* Disabling, by the user, by a recovery or by an administrator            *)
(***************************************************************************)
\* Mutant: whether two-factor is required is not asked.
DisableAnyway(r) == Start(r, "my_disable", "secret", None, None)

\* isTwoFactorRequired is read here, the transaction comes later
DisableMine(r) == ~required /\ Start(r, "my_disable", "secret", None, None)
AdminReset(r)  == Start(r, "admin_reset", "disable", None, None)

\* Mutant: the transaction forgets the pending challenges.
DisableKeepingChallenges(r) ==
    /\ req[r].pc = "disable"
    /\ enabled' = FALSE /\ secret' = None
    /\ code' = [c \in Challenge |-> IF code[c] = "none" THEN "none" ELSE "gone"]
    /\ End(r)
    /\ UNCHANGED <<policy, challenge, otp, history>>

\* Mutant: the codes are deleted, the account stays enabled.
DisableCodesOnly(r) ==
    /\ req[r].pc = "disable"
    /\ code' = [c \in Challenge |-> IF code[c] = "none" THEN "none" ELSE "gone"]
    /\ End(r)
    /\ UNCHANGED <<user, challenge, otp, history>>

\* the $transaction of disableTwoFactor
Disable(r) ==
    /\ req[r].pc = "disable"
    /\ enabled' = FALSE /\ secret' = None
    /\ code' = [c \in Challenge |-> IF code[c] = "none" THEN "none" ELSE "gone"]
    /\ challenge' = [ch \in Challenge |->
         IF challenge[ch].state = "unused" THEN [challenge[ch] EXCEPT !.state = "gone"]
         ELSE challenge[ch]]
    /\ End(r)
    /\ UNCHANGED <<policy, otp, history>>

SetRequired(r, v) ==
    /\ "require" \in Op /\ req[r] = Idle
    /\ required' = v
    /\ overtaken' = IF v THEN {q \in Request : req[q].op = "my_disable"} ELSE {}
    /\ UNCHANGED <<enabled, secret, challenge, code, otp, req, history>>

\* The instance dies, or the awaited call rejects: what was written stays.
Stop(r) ==
    /\ "stop" \in Faults /\ req[r] # Idle
    /\ cut' = (cut \/ req[r].pc \in {"drop_codes", "add_codes"})
    /\ End(r)
    /\ UNCHANGED <<user, challenge, code, otp, uses, accepted, begun>>

Init ==
    /\ enabled = FALSE /\ required \in BOOLEAN /\ secret = None
    /\ challenge = [ch \in Challenge |-> Blank]
    /\ code = [c \in Challenge |-> "none"]
    /\ otp = [o \in Otp |-> "none"]
    /\ req = [r \in Request |-> Idle]
    /\ uses = [ch \in Challenge |-> 0] /\ begun = [ch \in Challenge |-> FALSE]
    /\ accepted = [c \in Challenge \cup Otp |-> 0] /\ cut = FALSE /\ overtaken = {}

Present(r, ch) ==
    \/ InitiateSetup(r, ch) \/ Confirm(r, ch) \/ VerifyTotp(r, ch) \/ SendEmailOtp(r, ch)
    \/ ResetAfterRecovery(r, ch)
    \/ (\E c \in Challenge : VerifyBackup(r, ch, c)) \/ (\E o \in Otp : VerifyEmail(r, ch, o))
    \/ Issue(r, ch)

Handle(r) ==
    \/ Login(r) \/ InitiateMyEnable(r) \/ RequestRecovery(r) \/ DisableMine(r) \/ AdminReset(r)
    \/ (\E ch \in Challenge : Present(r, ch))
    \/ (\E o \in Otp : VerifyRecovery(r, o) \/ MintOtp(r, o))
    \/ UseUp(r) \/ Consume(r) \/ Enable(r) \/ DropCodes(r) \/ AddCodes(r)
    \/ ReadSecret(r) \/ FindCode(r) \/ MarkCode(r) \/ FindOtp(r) \/ MarkOtp(r) \/ Recheck(r)
    \/ Disable(r) \/ (\E v \in BOOLEAN : SetRequired(r, v)) \/ Stop(r)

Next ==
    \/ \E r \in Request : Handle(r)
    \/ (\E ch \in Challenge : ExpireChallenge(ch)) \/ (\E o \in Otp : ExpireOtp(o) \/ LoseOtp(o))

Spec == Init /\ [][Next]_vars

-----------------------------------------------------------------------------
(***************************************************************************)
(* Properties                                                              *)
(***************************************************************************)
Pc == {"idle", "issue_setup", "issue_secret", "issue_verify", "issue_recovery", "consume",
       "use_up", "enable", "drop_codes", "add_codes", "secret", "find_code", "mark_code",
       "mint_otp", "find_otp", "mark_otp", "recheck", "disable"}

\* Rows and requests keep their types; the account is enabled exactly while it
\* has a secret, whoever enables or disables it.
TypeOK ==
    /\ enabled \in BOOLEAN /\ required \in BOOLEAN
    /\ secret \in Challenge \cup {None}
    /\ challenge \in [Challenge -> [type : {"none", "setup", "verify", "recovery"},
                                    secret : BOOLEAN, state : RowState]]
    /\ code \in [Challenge -> RowState] /\ otp \in [Otp -> OtpState]
    /\ req \in [Request -> [op : Op \cup {"none"}, pc : Pc, ch : Challenge \cup {None},
                            item : Challenge \cup Otp \cup {None}]]
    /\ uses \in [Challenge -> Nat] /\ begun \in [Challenge -> BOOLEAN]
    /\ accepted \in [Challenge \cup Otp -> Nat] /\ cut \in BOOLEAN /\ overtaken \subseteq Request
    /\ enabled <=> secret # None

LiveChallenges == {ch \in Challenge : challenge[ch].state = "unused"}
LiveCodes      == {c \in Challenge : code[c] = "unused"} \cup {o \in Otp : otp[o] = "unused"}
LapsedCodes    == {o \in Otp : /\ otp[o] = "expired"
                               /\ \E r \in Request : req[r].pc = "mark_otp" /\ req[r].item = o}

ChallengeTickets == INSTANCE OneTime WITH
    Ticket <- Challenge, live <- LiveChallenges, lapsed <- {}, uses <- uses
CodeTickets == INSTANCE OneTime WITH
    Ticket <- Challenge \cup Otp, live <- LiveCodes, lapsed <- LapsedCodes, uses <- accepted

\* However many requests present a challenge at once, one of them at most is
\* given the session, the enrolment or the reset; a challenge that a reset
\* deleted, or that has expired since it was validated, gives none.
ChallengesAreOneTime == ChallengeTickets!OneTimeSpec

\* A backup code or a mailed code is accepted once, whichever requests race
\* for it and whatever replaces the codes meanwhile; after its expiry a mailed
\* code is accepted at most for a request that had found it before.
CodesAreOneTime == CodeTickets!OneTimeSpec

\* A login is completed with a TOTP code only while the account is enrolled:
\* a reset between the check of the code and the consumption of the challenge
\* takes the challenge away.
TotpNeedsEnrolment ==
    [][\A r \in Request :
         req[r].op = "totp" /\ req[r].pc = "consume" /\ uses'[req[r].ch] # uses[req[r].ch]
           => enabled]_vars

\* An enrolled account whose confirmations have all answered has recovery
\* codes, used or not: neither a second confirmation nor a reset at the same
\* time leaves it without, only a handler that stopped while it replaced them.
EnrolledHasCodes ==
    enabled /\ ~cut /\ (\A r \in Request : req[r].pc \notin {"drop_codes", "add_codes"})
      => \E c \in Challenge : code[c] \in {"unused", "used"}

\* A token with which a setup was begun opens no request any more: initiate
\* ignores the result of its consumption, so two requests that came in together
\* both begin a setup, but none that comes later does.
SetupTokenIsSpent == \A ch \in Challenge : begun[ch] => challenge[ch].state # "unused"

\* An account that must use two-factor is disenrolled by an administrator, by a
\* recovery, or by its user's own request that was under way when the
\* requirement was made: userDisable2FA reads it once, several awaits before it
\* disables, and no request that starts later slips through.
EnforcedStaysEnrolled ==
    [][enabled /\ required /\ ~enabled' =>
         \E r \in Request : /\ req[r].pc = "disable" /\ req'[r] = Idle
                            /\ req[r].op \in {"reset", "admin_reset"} \/ r \in overtaken]_vars
=============================================================================
