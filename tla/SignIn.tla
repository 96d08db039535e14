------------------------------- MODULE SignIn -------------------------------
(***************************************************************************)
(* Signing in to one account, and cutting its sessions and devices off.     *)
(*                                                                         *)
(* The account record is in users.json, written under a file lock.  The     *)
(* sessions, the second-factor challenges, the strikes and the pending      *)
(* devices are in the memory of the server and go with a restart.  The      *)
(* paired devices and the subscriber id are in the account's state store.   *)
(*                                                                         *)
(* A request runs one handler.  Every step below is one locked section of   *)
(* it, or one read or write of the account record; between two steps any    *)
(* other request may run.  Finding the caller's session and the handler's   *)
(* first read of the account are one step.  The KDF, the captcha, the rate  *)
(* limiters and the lockouts by address are left out: they refuse a request *)
(* and change nothing else here.  SSO, in the browser and on a device, is   *)
(* left out.                                                                *)
(***************************************************************************)
EXTENDS Integers, FiniteSets

CONSTANTS
    Requests,       \* handlers that may run at the same time
    Steps,          \* time steps of the authenticator
    Budgets,        \* bounds: how often a behaviour may begin each kind of work
    MaxFailures,    \* strikes before the second factor locks
    MaxTOTPAttempts \* wrong codes a challenge survives

Work == {"login", "code", "change", "setup", "token"}

ASSUME SignInAssumption ==
    /\ Steps \subseteq Nat \ {0}
    /\ Budgets \subseteq [Work -> Nat]
    /\ MaxFailures \in Nat \ {0}
    /\ MaxTOTPAttempts \in Nat

VARIABLES
    user,         \* the account record
    revocations,  \* Server.revocations, the number of revocations so far
    revokedAt,    \* Server.revokedAt of the account
    sessions,     \* Server.sessions of the account
    challenges,   \* mfa.Store
    strikes,      \* mfaLockout: strikes held by running requests, and spent
    sub,          \* the subscriber id's generation
    tokens,       \* pairing tokens out there
    redeemed,     \* nonces of redeemed tokens
    pending,      \* devices waiting for approval
    devices,      \* paired devices
    req,          \* what each request is doing
    \* What happened, for the properties.
    logins,       \* sign-ins begun
    era,          \* account changes that revoke sessions
    staged,       \* secrets staged
    proven,       \* secrets a code was validated against
    factors,      \* factors that brought a session
    twice,        \* some factor brought a second session
    incomplete,   \* the last device revocation reported a failure
    left,         \* what is left of the bounds
    guesses,      \* codes examined and found wrong
    clears        \* times the strikes were forgotten

account == <<user, era>>
memory  == <<revocations, revokedAt, sessions, challenges>>
pairing == <<sub, tokens, redeemed, pending, devices, incomplete>>
lockout == <<strikes, guesses, clears>>
history == <<logins, staged, proven, factors, twice>>
vars    == <<account, memory, pairing, lockout, history, req, left>>

None == <<"none", 0>>

Idle == [pc |-> "idle", login |-> 0, era |-> 0, fence |-> 0, ch |-> 0, factor |-> None,
         push |-> FALSE, pw |-> 0, secret |-> 0, keep |-> {}, all |-> FALSE,
         direct |-> FALSE]

(***************************************************************************)
(* The challenge of a sign-in; there is at most one.                        *)
(***************************************************************************)
Live(n) == \E c \in challenges : c.login = n
Challenge(n) == CHOOSE c \in challenges : c.login = n
Deleted(n) == {c \in challenges : c.login # n}
Put(c) == Deleted(c.login) \cup {c}

(***************************************************************************)
(* failureLockout.  tryAttempt reserves a strike before anything is         *)
(* examined, so requests that run together cannot share one.  A wrong code  *)
(* leaves the strike, cancelAttempt takes back this request's own, and      *)
(* recordSuccess or the end of the window forgets them all.                 *)
(***************************************************************************)
\* Only strikes already spent count, not those of running requests.
MutantAdmitted == strikes.spent < MaxFailures

Admitted == Cardinality(strikes.held) + strikes.spent < MaxFailures
Held(r) == [strikes EXCEPT !.held = @ \cup {r}]
Cancelled(r) == [strikes EXCEPT !.held = @ \ {r}]
SpentBy(r) == [held |-> strikes.held \ {r},
               spent |-> strikes.spent + (IF r \in strikes.held THEN 1 ELSE 0)]
Cleared == [held |-> {}, spent |-> 0]

(***************************************************************************)
(* RecordTOTPAttempt: a wrong code counts against its challenge, if that    *)
(* is still there, and the last one drops it.                               *)
(***************************************************************************)
WrongCode(n) ==
    IF ~Live(n) THEN challenges
    ELSE LET c == Challenge(n)
         IN  IF c.wrong = MaxTOTPAttempts THEN Deleted(n) ELSE Put([c EXCEPT !.wrong = @ + 1])

Resolved(c) == c.push # "pending"

Spend(w) == left[w] > 0 /\ left' = [left EXCEPT ![w] = @ - 1]
Goes(r, pc) == req' = [req EXCEPT ![r].pc = pc]
Ends(r) == req' = [req EXCEPT ![r] = Idle]
At(r, pc) == req[r].pc = pc

-----------------------------------------------------------------------------
Init ==
    /\ \E on \in BOOLEAN, push \in BOOLEAN :
        /\ push => on
        /\ user = [pw |-> 0, active |-> TRUE, secret |-> IF on THEN 1 ELSE 0, enabled |-> on,
                   push |-> push, lastStep |-> 0, codes |-> IF on THEN {<<"confirm", 0>>} ELSE {}]
        /\ staged = IF on THEN 1 ELSE 0
        /\ proven = IF on THEN {1} ELSE {}
        /\ devices = IF push THEN {0} ELSE {}
    /\ revocations = 0 /\ revokedAt = 0 /\ sessions = {} /\ challenges = {}
    /\ strikes = Cleared /\ guesses = 0 /\ clears = 0 /\ left \in Budgets
    /\ sub = 0 /\ tokens = {} /\ redeemed = {} /\ pending = {} /\ incomplete = FALSE
    /\ req = [r \in Requests |-> Idle]
    /\ logins = 0 /\ era = 0 /\ factors = {} /\ twice = FALSE

-----------------------------------------------------------------------------
(***************************************************************************)
(* handleLogin.  The fence is read before the credential.                   *)
(***************************************************************************)
Login(r) ==
    /\ At(r, "idle") /\ Spend("login")
    /\ logins' = logins + 1
    /\ req' = [req EXCEPT ![r] = [Idle EXCEPT !.pc = "verify", !.login = logins + 1,
                                              !.fence = revocations + 1]]
    /\ UNCHANGED <<account, memory, pairing, lockout, staged, proven, factors, twice>>

\* verifyLogin: the password given is the one now stored, or it is refused.
VerifyLogin(r) ==
    /\ At(r, "verify")
    /\ \/ Ends(r)
       \/ /\ user.active
          /\ req' = [req EXCEPT ![r].pc = IF user.enabled \/ user.push THEN "challenge" ELSE "mint",
                                ![r].era = era, ![r].push = user.push]
    /\ UNCHANGED <<account, memory, pairing, lockout, history>>

CreateChallenge(r) ==
    /\ At(r, "challenge")
    /\ challenges' = Put([login |-> req[r].login, era |-> req[r].era, fence |-> req[r].fence,
                          used |-> 0, wrong |-> 0, push |-> "pending", pushed |-> FALSE])
    /\ Goes(r, "fence")
    /\ UNCHANGED <<account, revocations, revokedAt, sessions, pairing, lockout, history>>

\* The fence mintSession applies to a password-only sign-in.
CheckFence(r) ==
    /\ At(r, "fence")
    /\ IF revokedAt >= req[r].fence
       THEN challenges' = Deleted(req[r].login) /\ Ends(r)
       ELSE UNCHANGED challenges /\ IF req[r].push THEN Goes(r, "push") ELSE Ends(r)
    /\ UNCHANGED <<account, revocations, revokedAt, sessions, pairing, lockout, history>>

\* Earlier unanswered challenges are not dropped.
MutantDispatchPush(r) ==
    /\ At(r, "push")
    /\ challenges' = {[c EXCEPT !.pushed = (@ \/ c.login = req[r].login)] : c \in challenges}
    /\ Ends(r)
    /\ UNCHANGED <<account, revocations, revokedAt, sessions, pairing, lockout, history>>

\* SupersedeUnansweredPush, then the push; or the push limiter refused it.
DispatchPush(r) ==
    /\ At(r, "push")
    /\ \/ UNCHANGED challenges
       \/ challenges' = {[c EXCEPT !.pushed = (@ \/ c.login = req[r].login)] :
                         c \in {d \in challenges : Resolved(d) \/ d.login = req[r].login}}
    /\ Ends(r)
    /\ UNCHANGED <<account, revocations, revokedAt, sessions, pairing, lockout, history>>

-----------------------------------------------------------------------------
(***************************************************************************)
(* handleMFATOTP and handleMFARecoveryCode begin alike: the challenge is    *)
(* read, then a strike is reserved.                                         *)
(***************************************************************************)
OfferCode(r, n) ==
    /\ At(r, "idle") /\ Spend("code") /\ Live(n) /\ Admitted
    /\ strikes' = Held(r)
    /\ \E kind \in {"totp", "recovery"} :
          req' = [req EXCEPT ![r] = [Idle EXCEPT !.pc = kind, !.login = n, !.ch = n,
                                     !.era = Challenge(n).era, !.fence = Challenge(n).fence]]
    /\ UNCHANGED <<account, memory, pairing, guesses, clears, history>>

\* A code that was examined and is wrong: the strike stays.
Wrong(r) ==
    /\ strikes' = SpentBy(r)
    /\ guesses' = guesses + 1
    /\ challenges' = WrongCode(req[r].ch)
    /\ Ends(r)
    /\ UNCHANGED <<user, clears>>

\* The account changed underneath the challenge, or the secret or the codes
\* could not be read: no code was examined, and the strike goes back.
Withdrawn(r) ==
    /\ strikes' = Cancelled(r)
    /\ Ends(r)
    /\ UNCHANGED <<user, challenges, guesses, clears>>

ValidateTOTP(r) ==
    /\ At(r, "totp")
    /\ IF user.active /\ user.enabled
       THEN \/ Wrong(r) \/ Withdrawn(r)
            \/ \E s \in Steps : req' = [req EXCEPT ![r].pc = "consume", ![r].factor = <<"totp", s>>]
               /\ UNCHANGED <<user, challenges, strikes, guesses, clears>>
       ELSE Withdrawn(r)
    /\ UNCHANGED <<era, revocations, revokedAt, sessions, pairing, history>>

\* A refused code keeps its strike.
RefuseCode(r) ==
    /\ strikes' = SpentBy(r)
    /\ Ends(r)
    /\ UNCHANGED <<user, guesses, clears>>

ConsumeTOTPStep(r) ==
    /\ At(r, "consume")
    /\ IF Live(req[r].ch) /\ Challenge(req[r].ch).used = 0
       THEN /\ challenges' = Put([Challenge(req[r].ch) EXCEPT !.used = req[r].factor[2]])
            /\ Goes(r, "step") /\ UNCHANGED <<user, strikes, guesses, clears>>
       ELSE RefuseCode(r) /\ UNCHANGED challenges
    /\ UNCHANGED <<era, revocations, revokedAt, sessions, pairing, history>>

\* The same step again counts as newer.
MutantNewerStep(s) == s >= user.lastStep

\* A step is accepted once per account, across challenges and restarts.
NewerStep(s) == s > user.lastStep

SetLastUsedTOTPStep(r) ==
    /\ At(r, "step")
    /\ LET s == req[r].factor[2]
       IN  IF NewerStep(s)
           THEN /\ user' = [user EXCEPT !.lastStep = s]
                /\ Goes(r, "accept") /\ UNCHANGED <<challenges, strikes, guesses, clears>>
           ELSE /\ challenges' = Deleted(req[r].ch)
                /\ RefuseCode(r)
    /\ UNCHANGED <<era, revocations, revokedAt, sessions, pairing, history>>

\* handleMFARecoveryCode reads the account, then ConsumeRecoveryCode matches
\* and removes the code in one write.
ReadForRecovery(r) ==
    /\ At(r, "recovery")
    /\ IF user.active /\ user.enabled
       THEN Goes(r, "code") /\ UNCHANGED <<user, challenges, strikes, guesses, clears>>
       ELSE Withdrawn(r)
    /\ UNCHANGED <<era, revocations, revokedAt, sessions, pairing, history>>

ConsumeRecoveryCode(r) ==
    /\ At(r, "code")
    /\ \/ Wrong(r) \/ Withdrawn(r)
       \/ \E k \in user.codes :
            /\ user' = [user EXCEPT !.codes = @ \ {k}]
            /\ req' = [req EXCEPT ![r].pc = "accept", ![r].factor = <<"code", k>>]
            /\ UNCHANGED <<challenges, strikes, guesses, clears>>
    /\ UNCHANGED <<era, revocations, revokedAt, sessions, pairing, history>>

\* recordSuccess, and the challenge is done with.
AcceptCode(r) ==
    /\ At(r, "accept")
    /\ strikes' = Cleared /\ clears' = clears + 1
    /\ challenges' = Deleted(req[r].ch)
    /\ Goes(r, "mint")
    /\ UNCHANGED <<account, revocations, revokedAt, sessions, pairing, guesses, history>>

\* The window ends.
StrikesLapse ==
    /\ strikes # Cleared
    /\ strikes' = Cleared /\ clears' = clears + 1
    /\ UNCHANGED <<account, memory, pairing, guesses, history, req>>

-----------------------------------------------------------------------------
(***************************************************************************)
(* handlePushRespond and handlePushFinish.  A device answers a challenge it *)
(* was told of; one that is gone is refused now or by ResolvePush.  Every   *)
(* paired device may approve here, where the code asks for its MFAApprover  *)
(* flag too.                                                                *)
(***************************************************************************)
PushRespond(r, n) ==
    /\ At(r, "idle") /\ devices # {} /\ Live(n)
    /\ req' = [req EXCEPT ![r] = [Idle EXCEPT !.pc = "owner", !.ch = n]]
    /\ UNCHANGED <<account, memory, pairing, lockout, history>>

\* The account still takes approvals; its devices are not looked up again.
CheckOwner(r) ==
    /\ At(r, "owner")
    /\ IF user.push THEN Goes(r, "respond") ELSE Ends(r)
    /\ UNCHANGED <<account, memory, pairing, lockout, history>>

\* ResolvePushWithMatch: one answer per challenge, a wrong number locks it.
ResolvePush(r) ==
    /\ At(r, "respond")
    /\ IF Live(req[r].ch) /\ ~Resolved(Challenge(req[r].ch))
       THEN \E a \in {"approved", "denied", "locked"} :
               challenges' = Put([Challenge(req[r].ch) EXCEPT !.push = a])
       ELSE UNCHANGED challenges
    /\ Ends(r)
    /\ UNCHANGED <<account, revocations, revokedAt, sessions, pairing, lockout, history>>

PushFinish(r, n) ==
    /\ At(r, "idle") /\ Live(n) /\ Challenge(n).pushed
    /\ req' = [req EXCEPT ![r] = [Idle EXCEPT !.pc = "finish", !.login = n, !.ch = n,
                                  !.era = Challenge(n).era, !.fence = Challenge(n).fence,
                                  !.factor = <<"push", n>>]]
    /\ UNCHANGED <<account, memory, pairing, lockout, history>>

\* The approval is checked and taken in one locked section.
Approved(n) == Live(n) /\ Challenge(n).push = "approved"

ConsumePushApproval(r) ==
    /\ At(r, "finish")
    /\ IF Approved(req[r].ch)
       THEN challenges' = Deleted(req[r].ch) /\ Goes(r, "recheck")
       ELSE UNCHANGED challenges /\ Ends(r)
    /\ UNCHANGED <<account, revocations, revokedAt, sessions, pairing, lockout, history>>

RecheckPush(r) ==
    /\ At(r, "recheck")
    /\ IF user.active /\ user.push THEN Goes(r, "mint") ELSE Ends(r)
    /\ UNCHANGED <<account, memory, pairing, lockout, history>>

-----------------------------------------------------------------------------
(***************************************************************************)
(* mintSession reads the account, then adds the session unless a            *)
(* revocation came after the sign-in's fence.                               *)
(***************************************************************************)
ReadForMint(r) ==
    /\ At(r, "mint")
    /\ IF user.active THEN Goes(r, "store") ELSE Ends(r)
    /\ UNCHANGED <<account, memory, pairing, lockout, history>>

\* Off by one: the revocation that came next is let through.
MutantFenced(r) == revokedAt > req[r].fence

Fenced(r) == revokedAt >= req[r].fence

MintSession(r) ==
    /\ At(r, "store")
    /\ IF Fenced(r)
       THEN UNCHANGED <<sessions, factors, twice>>
       ELSE /\ sessions' = sessions \cup {[login |-> req[r].login, era |-> req[r].era, by |-> req[r].factor]}
            /\ factors' = factors \cup {req[r].factor}
            /\ twice' = (twice \/ (req[r].factor \in factors /\ req[r].factor # None))
    /\ Ends(r)
    /\ UNCHANGED <<account, revocations, revokedAt, challenges, pairing, lockout, logins, staged, proven>>

\* handleLogout, or the session's time is over.
Logout(s) ==
    /\ sessions' = sessions \ {s}
    /\ UNCHANGED <<account, revocations, revokedAt, challenges, pairing, lockout, history, req>>

\* currentUser drops the session of an account that is no longer active.
DropInactive ==
    /\ ~user.active /\ sessions # {}
    /\ sessions' = {}
    /\ UNCHANGED <<account, revocations, revokedAt, challenges, pairing, lockout, history, req>>

\* SweepExpired, or a challenge met past its time.
ChallengeExpires(n) ==
    /\ Live(n)
    /\ challenges' = Deleted(n)
    /\ UNCHANGED <<account, revocations, revokedAt, sessions, pairing, lockout, history, req>>

-----------------------------------------------------------------------------
(***************************************************************************)
(* The changes that revoke.  Each writes the account first and revokes      *)
(* afterwards; the session that asked for it is kept.                       *)
(***************************************************************************)
Session == {{s} : s \in sessions}

\* handleChangePassword proves the old password and notes the revision it was
\* checked against; handleUsersResetPassword notes the revision.
BeginPassword(r) ==
    /\ At(r, "idle") /\ Spend("change")
    /\ \E keep \in Session \cup {{}} :
          /\ keep # {} => user.active
          /\ req' = [req EXCEPT ![r] = [Idle EXCEPT !.pc = "password", !.pw = user.pw, !.keep = keep]]
    /\ UNCHANGED <<account, memory, pairing, lockout, history>>

\* The new hash is derived meanwhile; a write to a later revision is refused.
RevisionCurrent(r) == user.pw = req[r].pw

SetPassword(r) ==
    /\ At(r, "password")
    /\ IF RevisionCurrent(r)
       THEN /\ user' = [user EXCEPT !.pw = @ + 1]
            /\ era' = era + 1
            /\ req' = [req EXCEPT ![r].pc = "revoke", ![r].all = TRUE, ![r].era = era + 1]
       ELSE UNCHANGED account /\ Ends(r)
    /\ UNCHANGED <<memory, pairing, lockout, history>>

\* One write of the account, then the revocation.
Change(r, u, keep, all) ==
    /\ At(r, "idle") /\ Spend("change")
    /\ user' = u
    /\ era' = era + 1
    /\ req' = [req EXCEPT ![r] = [Idle EXCEPT !.pc = "revoke", !.era = era + 1, !.keep = keep, !.all = all]]
    /\ UNCHANGED <<memory, pairing, lockout, history>>

NoSecondFactor == [user EXCEPT !.secret = 0, !.enabled = FALSE, !.codes = {}, !.push = FALSE]

Deactivate(r) == Change(r, [user EXCEPT !.active = FALSE], {}, TRUE)
ClearMFA(r) == Change(r, NoSecondFactor, {}, TRUE)

\* requirePasswordConfirm for handleMFADisable and for
\* handleMFARecoveryCodesRegenerate, which looks for an enabled factor too.
ConfirmPassword(r) ==
    /\ At(r, "idle") /\ Spend("change") /\ user.active
    /\ \E keep \in Session, pc \in {"disable"} \cup (IF user.enabled THEN {"regenerate"} ELSE {}) :
          req' = [req EXCEPT ![r] = [Idle EXCEPT !.pc = pc, !.keep = keep]]
    /\ UNCHANGED <<account, memory, pairing, lockout, history>>

\* What was confirmed is not looked at again by the write.
WriteConfirmed(r, u) ==
    /\ user' = u
    /\ era' = era + 1
    /\ req' = [req EXCEPT ![r].pc = "revoke", ![r].era = era + 1]
    /\ UNCHANGED <<memory, pairing, lockout, history>>

DisableMFA(r) == At(r, "disable") /\ WriteConfirmed(r, NoSecondFactor)
RegenerateCodes(r) ==
    At(r, "regenerate") /\ WriteConfirmed(r, [user EXCEPT !.codes = {<<"fresh", era + 1>>}])

Reactivate ==
    /\ ~user.active
    /\ user' = [user EXCEPT !.active = TRUE]
    /\ UNCHANGED <<era, memory, pairing, lockout, history, req>>

\* revokeUserSessions: the fence moves, every session but the caller's goes,
\* and so do the challenges.  The kept session has just been confirmed.
RevokeSessions(r) ==
    /\ At(r, "revoke")
    /\ revocations' = revocations + 1
    /\ revokedAt' = revocations + 1
    /\ sessions' = {[s EXCEPT !.era = IF req[r].era > @ THEN req[r].era ELSE @] :
                    s \in {t \in sessions : \E k \in req[r].keep : t.login = k.login /\ t.by = k.by}}
    /\ challenges' = {}
    /\ IF req[r].all THEN Goes(r, "devices") ELSE Ends(r)
    /\ UNCHANGED <<account, pairing, lockout, history>>

\* The rest of revokeUserCredentials, under pairingMu: devices, pending
\* devices, and last the subscriber id.  A failure is reported, not rolled back.
RevokeDevices(r) ==
    /\ At(r, "devices")
    /\ \E gone \in BOOLEAN, rotated \in BOOLEAN :
        /\ devices' = IF gone THEN {} ELSE devices
        /\ sub' = IF rotated THEN sub + 1 ELSE sub
        /\ incomplete' = ~(gone /\ rotated)
    /\ pending' = {}
    /\ Ends(r)
    /\ UNCHANGED <<account, memory, tokens, redeemed, lockout, history>>

-----------------------------------------------------------------------------
(***************************************************************************)
(* Enrolling an authenticator.                                              *)
(***************************************************************************)
BeginSetup(r) ==
    /\ At(r, "idle") /\ Spend("setup") /\ sessions # {} /\ user.active /\ ~user.enabled
    /\ req' = [req EXCEPT ![r] = [Idle EXCEPT !.pc = "stage"]]
    /\ UNCHANGED <<account, memory, pairing, lockout, history>>

\* SetPendingTOTPSecret: whatever was there, a fresh secret awaits its code.
StageSecret(r) ==
    /\ At(r, "stage")
    /\ staged' = staged + 1
    /\ user' = [user EXCEPT !.secret = staged + 1, !.enabled = FALSE, !.codes = {}]
    /\ Ends(r)
    /\ UNCHANGED <<era, memory, pairing, lockout, logins, proven, factors, twice>>

\* handleMFAConfirm validates a code of the staged secret, records its step,
\* draws fresh recovery codes (named after that step) and enables the secret if
\* it is still the one staged.
BeginConfirm(r) ==
    /\ At(r, "idle") /\ sessions # {} /\ user.active /\ ~user.enabled /\ user.secret # 0
    /\ proven' = proven \cup {user.secret}
    /\ \E s \in Steps :
        req' = [req EXCEPT ![r] = [Idle EXCEPT !.pc = "confirm", !.secret = user.secret,
                                               !.factor = <<"totp", s>>]]
    /\ UNCHANGED <<account, memory, pairing, lockout, logins, staged, factors, twice>>

ConfirmStep(r) ==
    /\ At(r, "confirm")
    /\ LET f == req[r].factor
       IN  IF NewerStep(f[2])
           THEN /\ user' = [user EXCEPT !.lastStep = f[2]]
                /\ factors' = factors \cup {f}
                /\ twice' = (twice \/ f \in factors)
                /\ Goes(r, "enable")
           ELSE UNCHANGED <<user, factors, twice>> /\ Ends(r)
    /\ UNCHANGED <<era, memory, pairing, lockout, logins, staged, proven>>

\* Whatever secret is staged by now is enabled.
MutantStillStaged(r) == user.secret # 0

StillStaged(r) == user.secret = req[r].secret

EnableTOTP(r) ==
    /\ At(r, "enable")
    /\ IF user.secret # 0 /\ StillStaged(r)
       THEN user' = [user EXCEPT !.enabled = TRUE, !.codes = {<<"confirm", req[r].factor[2]>>}]
       ELSE UNCHANGED user
    /\ Ends(r)
    /\ UNCHANGED <<era, memory, pairing, lockout, history>>

-----------------------------------------------------------------------------
(***************************************************************************)
(* Pairing a device.  The password is verified, of a session's account or   *)
(* of the review account, which has no second factor and is paired          *)
(* directly.  The subscriber id the token names is read afterwards, and     *)
(* nothing is looked at again: a caller who was verified before a           *)
(* revocation may be given a token of the new id.                           *)
(***************************************************************************)
BeginPairing(r) ==
    /\ At(r, "idle") /\ Spend("token") /\ user.active
    /\ \E direct \in BOOLEAN :
        /\ IF direct THEN ~user.enabled /\ ~user.push ELSE sessions # {}
        /\ req' = [req EXCEPT ![r] = [Idle EXCEPT !.pc = "pair", !.direct = direct]]
    /\ UNCHANGED <<account, memory, pairing, lockout, history>>

MintPairingToken(r) ==
    /\ At(r, "pair")
    /\ tokens' = tokens \cup {[n |-> Cardinality(tokens) + 1, sub |-> sub, direct |-> req[r].direct]}
    /\ Ends(r)
    /\ UNCHANGED <<account, memory, sub, redeemed, pending, devices, incomplete, lockout, history>>

\* The generation of the subscriber id is not compared.
MutantSubscriberCurrent(s) == user.active

SubscriberCurrent(s) == user.active /\ sub = s

\* handleNotificationNativeRegister, from its lock on.  The nonce is spent also
\* when the device cannot be stored or too many wait already.
RegisterDevice(t) ==
    /\ SubscriberCurrent(t.sub) /\ t.n \notin redeemed
    /\ redeemed' = redeemed \cup {t.n}
    /\ IF t.direct
       THEN devices' \in {devices, devices \cup {t.sub}} /\ UNCHANGED pending
       ELSE pending' \in {pending, pending \cup {t}} /\ UNCHANGED devices
    /\ UNCHANGED <<account, memory, sub, tokens, incomplete, lockout, history, req>>

ApproveDevice(t) ==
    /\ sessions # {}
    /\ pending' = pending \ {t}
    /\ \/ SubscriberCurrent(t.sub) /\ devices' = devices \cup {t.sub}
       \/ UNCHANGED devices
    /\ UNCHANGED <<account, memory, sub, tokens, redeemed, incomplete, lockout, history, req>>

\* Denied, or not approved in time.
DropPending(t) ==
    /\ pending' = pending \ {t}
    /\ UNCHANGED <<account, memory, sub, tokens, redeemed, devices, incomplete, lockout, history, req>>

-----------------------------------------------------------------------------
\* The server stops and starts again: its memory and its requests are gone.
Restart ==
    /\ revocations' = 0 /\ revokedAt' = 0 /\ sessions' = {} /\ challenges' = {}
    /\ strikes' = Cleared
    /\ clears' = IF strikes = Cleared THEN clears ELSE clears + 1
    /\ redeemed' = {} /\ pending' = {}
    /\ req' = [r \in Requests |-> Idle]
    /\ UNCHANGED <<account, sub, tokens, devices, incomplete, guesses, history>>

\* What a caller may begin, within the bounds.
Begins ==
    \E r \in Requests :
        \/ Login(r) \/ BeginPassword(r) \/ Deactivate(r) \/ ClearMFA(r)
        \/ ConfirmPassword(r) \/ BeginSetup(r) \/ BeginPairing(r)
        \/ \E n \in 1..logins : OfferCode(r, n)

Continues(r) ==
    \/ VerifyLogin(r) \/ CreateChallenge(r) \/ CheckFence(r) \/ DispatchPush(r)
    \/ ValidateTOTP(r) \/ ConsumeTOTPStep(r) \/ SetLastUsedTOTPStep(r)
    \/ ReadForRecovery(r) \/ ConsumeRecoveryCode(r) \/ AcceptCode(r)
    \/ \E n \in 1..logins : PushRespond(r, n) \/ PushFinish(r, n)
    \/ CheckOwner(r) \/ ResolvePush(r) \/ ConsumePushApproval(r) \/ RecheckPush(r)
    \/ ReadForMint(r) \/ MintSession(r)
    \/ SetPassword(r) \/ DisableMFA(r) \/ RegenerateCodes(r) \/ RevokeSessions(r) \/ RevokeDevices(r)
    \/ StageSecret(r) \/ BeginConfirm(r) \/ ConfirmStep(r) \/ EnableTOTP(r)
    \/ MintPairingToken(r)

Happens ==
    \/ \E s \in sessions : Logout(s)
    \/ \E n \in 1..logins : ChallengeExpires(n)
    \/ DropInactive \/ Reactivate \/ StrikesLapse
    \/ \E t \in tokens : RegisterDevice(t)
    \/ \E t \in pending : ApproveDevice(t) \/ DropPending(t)
    \/ Restart

Next ==
    \/ Begins
    \/ ((\E r \in Requests : Continues(r)) \/ Happens) /\ UNCHANGED left

Spec == Init /\ [][Next]_vars

-----------------------------------------------------------------------------
Owing == {r \in Requests : At(r, "revoke")}

(***************************************************************************)
(* A password change, a reset, a deactivation or a change of the second     *)
(* factor cuts off every session that was signed in before it, whatever was *)
(* in flight: one is left only while the revocation is still owed by a      *)
(* running request.  (revokeUserSessions, mintSession)                      *)
(***************************************************************************)
SessionsCutOff == \A s \in sessions : s.era = era \/ Owing # {}

(***************************************************************************)
(* Nothing minted before a revocation is written after it: unless the last  *)
(* revocation reported a failure, every paired device and every device      *)
(* waiting for approval came from a token of the current subscriber id.     *)
(* It is about tokens: a password verified before the revocation may still  *)
(* bring a token of the new id, minted after it (MintPairingToken).         *)
(* (revokeUserCredentials, handleNotificationNativeRegister)                *)
(***************************************************************************)
DevicesCutOff == incomplete \/ ((\A d \in devices : d = sub) /\ (\A t \in pending : t.sub = sub))

(***************************************************************************)
(* A time step of the authenticator, a recovery code and a push approval    *)
(* bring one session at most, whichever challenges, requests and restarts   *)
(* they are offered to; the step that confirmed an enrolment brings none.   *)
(* (ConsumeTOTPStep, SetLastUsedTOTPStep, ConsumeRecoveryCode,              *)
(* ConsumePushApproval)                                                     *)
(***************************************************************************)
FactorSpentOnce == ~twice

(***************************************************************************)
(* At most one challenge of the account is both pushed and answerable.      *)
(* (SupersedeUnansweredPush)                                                *)
(***************************************************************************)
OnePushAnswerable == Cardinality({c \in challenges : c.pushed /\ ~Resolved(c)}) <= 1

(***************************************************************************)
(* Requests that run together examine no more wrong codes than the lockout  *)
(* allows for each time the strikes were forgotten.  (tryAttempt)           *)
(***************************************************************************)
GuessesBounded == guesses <= MaxFailures * (clears + 1)

(***************************************************************************)
(* An authenticator that is enabled is one a code was validated against,    *)
(* also when setup was started again meanwhile.  (EnableTOTP)               *)
(***************************************************************************)
EnabledIsProven == user.enabled => user.secret \in proven

=============================================================================
