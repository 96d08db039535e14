---------------------------- MODULE SignInProofs ----------------------------
(* Theorems about signing in, for every set of concurrent requests, every   *)
(* set of time steps and every bound of the lockouts and the budgets.       *)
EXTENDS SignIn, FiniteSetTheorems, TLAPS

(* The types of the account, of what is in memory and of the requests.      *)
CodeIds   == {"confirm", "fresh"} \X Nat
Factors   == {None} \cup ({"totp", "push"} \X Nat) \cup ({"code"} \X CodeIds)
Accounts  == [pw : Nat, active : BOOLEAN, secret : Nat, enabled : BOOLEAN, push : BOOLEAN,
              lastStep : Nat, codes : SUBSET CodeIds]
Sessions  == [login : Nat, era : Nat, by : Factors]
Pushes    == {"pending", "approved", "denied", "locked"}
Challenges == [login : Nat, era : Nat, fence : Nat, used : Nat, wrong : Nat, push : Pushes,
               pushed : BOOLEAN]
PCs       == {"idle", "verify", "challenge", "fence", "push", "totp", "consume", "step", "recovery",
              "code", "accept", "respond", "finish", "recheck", "mint", "store", "password", "revoke",
              "devices", "stage", "confirm", "enable", "owner", "disable", "regenerate", "pair"}
Handlers  == [pc : PCs, login : Nat, era : Nat, fence : Nat, ch : Nat, factor : Factors,
              push : BOOLEAN, pw : Nat, secret : Nat, keep : SUBSET Sessions, all : BOOLEAN,
              direct : BOOLEAN]

(* A request past validating a code of the authenticator carries its step.  *)
TotpPCs == {"consume", "step", "confirm", "enable"}
TotpCarried == \A r \in Requests : req[r].pc \in TotpPCs => req[r].factor \in {"totp"} \X Nat

TypeInv ==
  /\ user \in Accounts /\ era \in Nat /\ logins \in Nat /\ staged \in Nat
  /\ revocations \in Nat /\ revokedAt \in Nat
  /\ sessions \subseteq Sessions /\ challenges \subseteq Challenges
  /\ req \in [Requests -> Handlers] /\ TotpCarried

(* There is at most one challenge of a sign-in.                             *)
OneOfEach == \A c, d \in challenges : c.login = d.login => c = d

-----------------------------------------------------------------------------
(* Why an enabled authenticator is a proven one.                            *)
ConfirmsProven == \A r \in Requests : req[r].pc \in {"confirm", "enable"} => req[r].secret \in proven

-----------------------------------------------------------------------------
(* Why revocations cut sessions off.  Change e of the account is owed while *)
(* the request that made it has not revoked yet.                            *)
OwedFor(e) == \E r \in Requests : req[r].pc = "revoke" /\ req[r].era = e

(* Every later change than the one a session knows of is still owed.        *)
SessionsOwed == \A s \in sessions :
  s.era <= era /\ \A e \in Nat : s.era < e /\ e <= era => OwedFor(e)

(* A sign-in that verified its credential in one era, behind its fence: the *)
(* fence stops it, or every later change is still owed.                     *)
Sound(e0, f) ==
  /\ e0 <= era /\ f <= revocations + 1
  /\ revokedAt >= f \/ \A e \in Nat : e0 < e /\ e <= era => OwedFor(e)

Verified == {"challenge", "fence", "push", "totp", "consume", "step", "recovery", "code", "accept",
             "finish", "recheck", "mint", "store"}
FencesHold ==
  /\ \A r \in Requests : req[r].pc = "verify" => req[r].fence <= revocations + 1
  /\ \A r \in Requests : req[r].pc \in Verified => Sound(req[r].era, req[r].fence)
  /\ \A c \in challenges : Sound(c.era, c.fence)
  /\ \A r \in Requests : req[r].pc = "revoke" => req[r].era <= era

-----------------------------------------------------------------------------
(* Why a factor is spent once.  A request that took its factor holds it     *)
(* until the session is minted.                                             *)
Holding(r) == req[r].pc \in {"accept", "recheck", "mint", "store"} /\ req[r].factor # None
Used(f)    == f \in factors \/ \E r \in Requests : Holding(r) /\ req[r].factor = f

HeldOnce ==
  /\ \A r \in Requests : Holding(r) => req[r].factor \notin factors
  /\ \A r, q \in Requests : Holding(r) /\ Holding(q) /\ req[r].factor = req[q].factor => r = q
StepsRecorded == \A s \in Nat : Used(<<"totp", s>>) => s <= user.lastStep
CodesGone     == \A k \in CodeIds : Used(<<"code", k>>) => k \notin user.codes
(* The recovery codes a behaviour knows, spent or not, never come again.    *)
Known(k)   == k \in user.codes \/ Used(<<"code", k>>)
CodesFresh ==
  /\ \A e \in Nat : Known(<<"fresh", e>>) => e <= era
  /\ \A s \in Nat : Known(<<"confirm", s>>) => s <= user.lastStep
  /\ \A r \in Requests : req[r].pc = "enable" =>
       /\ req[r].factor[2] <= user.lastStep /\ ~Known(<<"confirm", req[r].factor[2]>>)
       /\ \A q \in Requests : req[q].pc = "enable" /\ req[q].factor[2] = req[r].factor[2] => q = r
(* A challenge is made once for a sign-in, so a consumed approval is gone.  *)
Making(r) == req[r].pc \in {"verify", "challenge"}
ChallengesOnce ==
  /\ \A c \in challenges : c.login <= logins
  /\ \A r \in Requests : Making(r) => req[r].login <= logins /\ ~Live(req[r].login)
  /\ \A r, q \in Requests : Making(r) /\ Making(q) /\ req[r].login = req[q].login => r = q
  /\ \A n \in Nat : Used(<<"push", n>>) =>
       n <= logins /\ ~Live(n) /\ \A r \in Requests : Making(r) => req[r].login # n
(* The factor a request carries is of the kind its handler deals in.        *)
FactorKinds == \A r \in Requests :
  /\ req[r].pc = "finish" => req[r].factor = <<"push", req[r].ch>>
  /\ req[r].pc \in {"verify", "challenge", "fence", "push"} => req[r].factor = None

-----------------------------------------------------------------------------
(* Why one push is answerable.                                              *)
Answerable(c)  == c.pushed /\ ~Resolved(c)
AnswerableOnce == \A c, d \in challenges : Answerable(c) /\ Answerable(d) => c.login = d.login

-----------------------------------------------------------------------------
(* Why guesses are bounded.  A request that may still examine a wrong code  *)
(* holds its strike, or is left over from before the strikes were forgotten.*)
Guessing  == {r \in Requests : req[r].pc \in {"totp", "recovery", "code"}}
LeftOver  == Guessing \ strikes.held
StrikesKept ==
  /\ strikes \in [held : SUBSET Requests, spent : Nat] /\ guesses \in Nat /\ clears \in Nat
  /\ IsFiniteSet(strikes.held) /\ IsFiniteSet(LeftOver)
  /\ Cardinality(strikes.held) + strikes.spent <= MaxFailures
  /\ \A r \in strikes.held :
       req[r].pc \in {"totp", "recovery", "code", "consume", "step", "accept"}
  /\ guesses + Cardinality(LeftOver) <= MaxFailures * clears + strikes.spent

-----------------------------------------------------------------------------
(* The requests.                                                            *)
Others(r) == \A q \in Requests : q # r => req'[q] = req[q]

LEMMA IdleTyped == Idle \in Handlers
BY DEF Idle, Handlers, PCs, Factors

LEMMA GoesEffect ==
  ASSUME TypeInv, NEW r \in Requests, NEW p \in PCs, Goes(r, p)
  PROVE  req' \in [Requests -> Handlers] /\ req'[r] = [req[r] EXCEPT !.pc = p] /\ Others(r)
BY DEF TypeInv, Goes, Handlers, Others

LEMMA EndsEffect ==
  ASSUME TypeInv, NEW r \in Requests, Ends(r)
  PROVE  req' \in [Requests -> Handlers] /\ req'[r] = Idle /\ Others(r)
BY IdleTyped DEF TypeInv, Ends, Others

(* Putting and deleting challenges.                                         *)
LEMMA LiveChallenge ==
  ASSUME NEW n, Live(n)
  PROVE  Challenge(n) \in challenges /\ Challenge(n).login = n
BY DEF Live, Challenge

LEMMA DeletedTyped ==
  ASSUME TypeInv, NEW n
  PROVE  Deleted(n) \subseteq Challenges
BY DEF TypeInv, Deleted

LEMMA PutTyped ==
  ASSUME TypeInv, NEW c \in Challenges
  PROVE  Put(c) \subseteq Challenges
BY DEF TypeInv, Put, Deleted

LEMMA WrongCodeTyped ==
  ASSUME TypeInv, NEW n
  PROVE  WrongCode(n) \subseteq Challenges
<1>1. CASE ~Live(n)
  BY <1>1 DEF WrongCode, TypeInv
<1>2. CASE Live(n)
  <2> DEFINE c == Challenge(n)
  <2>1. c \in Challenges
    BY <1>2, LiveChallenge DEF TypeInv
  <2>2. [c EXCEPT !.wrong = @ + 1] \in Challenges
    BY <2>1 DEF Challenges
  <2> QED
    BY <1>2, <2>2, DeletedTyped, PutTyped DEF WrongCode
<1> QED
  BY <1>1, <1>2

(* What a step has to keep typed besides the requests.                      *)
AccountOK == user' \in Accounts /\ era' \in Nat /\ logins' \in Nat /\ staged' \in Nat
MemoryOK  == /\ revocations' \in Nat /\ revokedAt' \in Nat
             /\ sessions' \subseteq Sessions /\ challenges' \subseteq Challenges
RequestsOK == req' \in [Requests -> Handlers] /\ TotpCarried'

LEMMA TypeParts == TypeInv' <=> AccountOK /\ MemoryOK /\ RequestsOK
BY DEF TypeInv, AccountOK, MemoryOK, RequestsOK

LEMMA AccountFrame ==
  ASSUME TypeInv, UNCHANGED <<account, logins, staged>>
  PROVE  AccountOK
BY DEF TypeInv, account, AccountOK

LEMMA MemoryFrame ==
  ASSUME TypeInv, UNCHANGED memory
  PROVE  MemoryOK
BY DEF TypeInv, memory, MemoryOK

LEMMA ChallengesFrame ==
  ASSUME TypeInv, UNCHANGED <<revocations, revokedAt, sessions>>, challenges' \subseteq Challenges
  PROVE  MemoryOK
BY DEF TypeInv, MemoryOK

LEMMA EndsOK ==
  ASSUME TypeInv, NEW r \in Requests, Ends(r)
  PROVE  RequestsOK
BY EndsEffect DEF TypeInv, RequestsOK, TotpCarried, TotpPCs, Others, Idle

LEMMA GoesOK ==
  ASSUME TypeInv, NEW r \in Requests, NEW p \in PCs, Goes(r, p), p \in TotpPCs => req[r].pc \in TotpPCs
  PROVE  RequestsOK
<1>1. req' \in [Requests -> Handlers] /\ req'[r] = [req[r] EXCEPT !.pc = p] /\ Others(r)
  BY GoesEffect
<1>2. req'[r].pc = p /\ req'[r].factor = req[r].factor
  BY <1>1 DEF TypeInv, Handlers
<1> QED
  BY <1>1, <1>2 DEF TypeInv, RequestsOK, TotpCarried, Others

(* A request starts its handler with a fresh record.                        *)
LEMMA StartOK ==
  ASSUME TypeInv, NEW r \in Requests, NEW h \in Handlers,
         req' = [req EXCEPT ![r] = h], h.pc \in TotpPCs => h.factor \in {"totp"} \X Nat
  PROVE  RequestsOK
BY DEF TypeInv, RequestsOK, TotpCarried

(* A request takes its factor.                                              *)
LEMMA FactorOK ==
  ASSUME TypeInv, NEW r \in Requests, NEW p \in PCs, NEW f \in Factors,
         req' = [req EXCEPT ![r].pc = p, ![r].factor = f], p \in TotpPCs => f \in {"totp"} \X Nat
  PROVE  RequestsOK /\ req'[r] = [req[r] EXCEPT !.pc = p, !.factor = f] /\ Others(r)
<1> DEFINE h == [req[r] EXCEPT !.pc = p, !.factor = f]
<1>1. h \in Handlers /\ h.pc = p /\ h.factor = f
  BY DEF TypeInv, Handlers
<1>2. req' = [req EXCEPT ![r] = h]
  BY DEF TypeInv
<1> HIDE DEF h
<1>3. RequestsOK
  BY <1>1, <1>2, StartOK
<1> QED
  BY <1>2, <1>3 DEF h, TypeInv, Others

(* handleLogin keeps the types.                                             *)
LEMMA LoginType ==
  ASSUME TypeInv, NEW r \in Requests,
         Login(r) \/ VerifyLogin(r) \/ CreateChallenge(r) \/ CheckFence(r) \/ DispatchPush(r)
  PROVE  TypeInv'
<1>0. req[r] \in Handlers
  BY DEF TypeInv
<1>1. CASE Login(r)
  <2> DEFINE h == [Idle EXCEPT !.pc = "verify", !.login = logins + 1, !.fence = revocations + 1]
  <2>1. logins + 1 \in Nat /\ revocations + 1 \in Nat
    BY DEF TypeInv
  <2>2. h \in Handlers /\ h.pc = "verify"
    BY <2>1, IdleTyped DEF Handlers, PCs
  <2>3. req' = [req EXCEPT ![r] = h]
    BY <1>1 DEF Login
  <2>4. RequestsOK
    BY <2>2, <2>3, StartOK DEF TotpPCs
  <2> QED
    BY <1>1, <2>4, TypeParts, MemoryFrame DEF Login, TypeInv, account, AccountOK
<1>2. CASE VerifyLogin(r)
  <2>1. CASE Ends(r)
    BY <1>2, <2>1, EndsOK, TypeParts, AccountFrame, MemoryFrame DEF VerifyLogin, history
  <2>2. CASE ~Ends(r)
    <3>1. PICK p \in {"challenge", "mint"} :
            req' = [req EXCEPT ![r].pc = p, ![r].era = era, ![r].push = user.push]
      BY <1>2, <2>2 DEF VerifyLogin
    <3>2. user.push \in BOOLEAN /\ era \in Nat
      BY DEF TypeInv, Accounts
    <3> DEFINE h == [req[r] EXCEPT !.pc = p, !.era = era, !.push = user.push]
    <3>3. h \in Handlers /\ h.pc = p
      BY <1>0, <3>2 DEF Handlers, PCs
    <3>4. req' = [req EXCEPT ![r] = h]
      BY <3>1 DEF TypeInv
    <3>5. RequestsOK
      BY <3>3, <3>4, StartOK DEF TotpPCs
    <3> QED
      BY <1>2, <3>5, TypeParts, AccountFrame, MemoryFrame DEF VerifyLogin, history
  <2> QED
    BY <2>1, <2>2
<1>3. CASE CreateChallenge(r)
  <2>1. [login |-> req[r].login, era |-> req[r].era, fence |-> req[r].fence,
         used |-> 0, wrong |-> 0, push |-> "pending", pushed |-> FALSE] \in Challenges
    BY <1>0 DEF Handlers, Challenges, Pushes
  <2>2. challenges' \subseteq Challenges /\ RequestsOK
    BY <1>3, <2>1, PutTyped, GoesOK DEF CreateChallenge, PCs, TotpPCs
  <2> QED
    BY <1>3, <2>2, TypeParts, AccountFrame, ChallengesFrame DEF CreateChallenge, history
<1>4. CASE CheckFence(r)
  <2>1. challenges' \subseteq Challenges
    BY <1>4, DeletedTyped DEF CheckFence, TypeInv
  <2>2. Ends(r) \/ Goes(r, "push")
    BY <1>4 DEF CheckFence
  <2>3. RequestsOK
    BY <2>2, GoesOK, EndsOK DEF PCs, TotpPCs
  <2> QED
    BY <1>4, <2>1, <2>3, TypeParts, AccountFrame, ChallengesFrame DEF CheckFence, history
<1>5. CASE DispatchPush(r)
  <2>1. ASSUME NEW c \in challenges
        PROVE  [c EXCEPT !.pushed = (@ \/ c.login = req[r].login)] \in Challenges
    <3>1. c.pushed \in BOOLEAN /\ (c.pushed \/ c.login = req[r].login) \in BOOLEAN
      BY DEF TypeInv, Challenges
    <3> QED
      BY <3>1, Zenon DEF TypeInv, Challenges
  <2>2. challenges' \subseteq Challenges
    BY <1>5, <2>1 DEF DispatchPush, TypeInv, Challenges
  <2> QED
    BY <1>5, <2>2, EndsOK, TypeParts, AccountFrame, ChallengesFrame DEF DispatchPush, history
<1> QED
  BY <1>1, <1>2, <1>3, <1>4, <1>5

(* The begin of a second-factor or push request copies the challenge.       *)
LEMMA LiveTyped ==
  ASSUME TypeInv, NEW n, Live(n)
  PROVE  Challenge(n) \in Challenges /\ Challenge(n).era \in Nat /\ Challenge(n).fence \in Nat /\ n \in Nat
BY LiveChallenge DEF TypeInv, Challenges

(* The handlers of codes and recovery codes keep the types.                 *)
LEMMA CodesType ==
  ASSUME TypeInv, NEW r \in Requests,
         \/ \E n \in 1..logins : OfferCode(r, n)
         \/ ValidateTOTP(r) \/ ConsumeTOTPStep(r) \/ SetLastUsedTOTPStep(r)
         \/ ReadForRecovery(r) \/ ConsumeRecoveryCode(r) \/ AcceptCode(r)
  PROVE  TypeInv'
<1>0. req[r] \in Handlers /\ user \in Accounts
  BY DEF TypeInv
<1>w. ASSUME Wrong(r) PROVE user' = user /\ challenges' \subseteq Challenges /\ RequestsOK
  BY <1>w, WrongCodeTyped, EndsOK DEF Wrong
<1>x. ASSUME Withdrawn(r) PROVE user' = user /\ challenges' \subseteq Challenges /\ RequestsOK
  BY <1>x, EndsOK DEF Withdrawn, TypeInv
<1>y. ASSUME RefuseCode(r) PROVE user' = user /\ RequestsOK
  BY <1>y, EndsOK DEF RefuseCode
<1>q. ASSUME user' \in Accounts, challenges' \subseteq Challenges, RequestsOK,
             UNCHANGED <<era, revocations, revokedAt, sessions, history>>
      PROVE  TypeInv'
  BY <1>q DEF TypeInv, RequestsOK, history
<1>1. ASSUME NEW n \in 1..logins, OfferCode(r, n) PROVE TypeInv'
  <2>1. Live(n)
    BY <1>1 DEF OfferCode
  <2>2. ASSUME NEW kind \in {"totp", "recovery"}
        PROVE  LET h == [Idle EXCEPT !.pc = kind, !.login = n, !.ch = n,
                                     !.era = Challenge(n).era, !.fence = Challenge(n).fence]
               IN  h \in Handlers /\ h.pc = kind
    BY <2>1, IdleTyped, LiveTyped DEF Handlers, PCs
  <2>3. RequestsOK
    BY <1>1, <2>2, StartOK DEF OfferCode, TotpPCs
  <2> QED
    BY <1>1, <2>3, TypeParts, AccountFrame, MemoryFrame DEF OfferCode, history
<1>2. CASE ValidateTOTP(r)
  <2>1. ASSUME NEW s \in Steps, req' = [req EXCEPT ![r].pc = "consume", ![r].factor = <<"totp", s>>]
        PROVE  RequestsOK
    <3>1. <<"totp", s>> \in Factors /\ <<"totp", s>> \in {"totp"} \X Nat
      BY <2>1, SignInAssumption DEF Factors
    <3> QED
      BY <2>1, <3>1, FactorOK DEF PCs
  <2>2. user' = user /\ challenges' \subseteq Challenges /\ RequestsOK
    BY <1>2, <1>w, <1>x, <2>1 DEF ValidateTOTP, TypeInv
  <2> QED
    BY <1>0, <1>2, <1>q, <2>2 DEF ValidateTOTP
<1>3. CASE ConsumeTOTPStep(r)
  <2>1. CASE Live(req[r].ch) /\ Challenge(req[r].ch).used = 0
    <3>1. Challenge(req[r].ch) \in Challenges /\ req[r].factor[2] \in Nat
      BY <1>3, <2>1, LiveTyped DEF ConsumeTOTPStep, At, TypeInv, TotpCarried, TotpPCs
    <3>2. [Challenge(req[r].ch) EXCEPT !.used = req[r].factor[2]] \in Challenges
      BY <3>1 DEF Challenges
    <3>3. challenges' \subseteq Challenges
      BY <1>3, <2>1, <3>2, PutTyped DEF ConsumeTOTPStep
    <3>4. Goes(r, "step") /\ user' = user
      BY <1>3, <2>1 DEF ConsumeTOTPStep
    <3>5. RequestsOK
      BY <1>3, <3>4, GoesOK DEF PCs, TotpPCs, ConsumeTOTPStep, At
    <3> QED
      BY <1>0, <1>3, <1>q, <3>3, <3>4, <3>5 DEF ConsumeTOTPStep
  <2> QED
    BY <1>0, <1>3, <1>q, <1>y, <2>1 DEF ConsumeTOTPStep, TypeInv
<1>4. CASE SetLastUsedTOTPStep(r)
  <2>1. CASE NewerStep(req[r].factor[2])
    <3>1. req[r].factor[2] \in Nat
      BY <1>4 DEF SetLastUsedTOTPStep, At, TypeInv, TotpCarried, TotpPCs
    <3>2. user' \in Accounts /\ challenges' = challenges /\ Goes(r, "accept")
      <4>1. user' = [user EXCEPT !.lastStep = req[r].factor[2]]
        BY <1>4, <2>1 DEF SetLastUsedTOTPStep
      <4>2. challenges' = challenges /\ Goes(r, "accept")
        BY <1>4, <2>1 DEF SetLastUsedTOTPStep
      <4> QED
        BY <1>0, <3>1, <4>1, <4>2 DEF Accounts
    <3>3. RequestsOK
      BY <3>2, GoesOK DEF PCs, TotpPCs
    <3> QED
      BY <1>4, <1>q, <3>2, <3>3 DEF SetLastUsedTOTPStep, TypeInv
  <2>2. CASE ~NewerStep(req[r].factor[2])
    BY <1>0, <1>4, <1>q, <1>y, <2>2, DeletedTyped DEF SetLastUsedTOTPStep
  <2> QED
    BY <2>1, <2>2
<1>5. CASE ReadForRecovery(r)
  <2>1. user' = user /\ challenges' \subseteq Challenges /\ RequestsOK
    BY <1>5, <1>x, GoesOK DEF ReadForRecovery, PCs, TotpPCs, TypeInv
  <2> QED
    BY <1>0, <1>5, <1>q, <2>1 DEF ReadForRecovery
<1>6. CASE ConsumeRecoveryCode(r)
  <2>1. ASSUME NEW k \in user.codes, user' = [user EXCEPT !.codes = @ \ {k}],
               req' = [req EXCEPT ![r].pc = "accept", ![r].factor = <<"code", k>>]
        PROVE  user' \in Accounts /\ RequestsOK
    <3>1. <<"code", k>> \in Factors
      BY <1>0, <2>1 DEF Factors, Accounts
    <3> QED
      BY <1>0, <2>1, <3>1, FactorOK DEF Accounts, PCs, TotpPCs
  <2>2. CASE Wrong(r) \/ Withdrawn(r)
    BY <1>0, <1>6, <1>q, <1>w, <1>x, <2>2 DEF ConsumeRecoveryCode
  <2>3. CASE ~Wrong(r) /\ ~Withdrawn(r)
    BY <1>6, <1>q, <2>1, <2>3 DEF ConsumeRecoveryCode, TypeInv
  <2> QED
    BY <2>2, <2>3
<1>7. CASE AcceptCode(r)
  <2>1. RequestsOK
    BY <1>7, GoesOK DEF AcceptCode, PCs, TotpPCs
  <2> QED
    BY <1>0, <1>7, <1>q, <2>1, DeletedTyped DEF AcceptCode, account
<1> QED
  BY <1>1, <1>2, <1>3, <1>4, <1>5, <1>6, <1>7

(* The handlers of push, minting and logging out keep the types.            *)
LEMMA MintType ==
  ASSUME TypeInv, NEW r \in Requests,
         \/ \E n \in 1..logins : PushRespond(r, n) \/ PushFinish(r, n)
         \/ CheckOwner(r) \/ ResolvePush(r) \/ ConsumePushApproval(r) \/ RecheckPush(r)
         \/ ReadForMint(r) \/ MintSession(r)
  PROVE  TypeInv'
<1>0. req[r] \in Handlers
  BY DEF TypeInv
<1>1. ASSUME NEW n \in 1..logins, PushRespond(r, n) PROVE TypeInv'
  <2> DEFINE h == [Idle EXCEPT !.pc = "owner", !.ch = n]
  <2>0. n \in Nat
    BY DEF TypeInv
  <2>1. h \in Handlers /\ h.pc = "owner"
    BY <2>0, IdleTyped DEF Handlers, PCs
  <2>2. req' = [req EXCEPT ![r] = h]
    BY <1>1 DEF PushRespond
  <2>3. RequestsOK
    BY <2>1, <2>2, StartOK DEF TotpPCs
  <2> QED
    BY <1>1, <2>3, TypeParts, AccountFrame, MemoryFrame DEF PushRespond, history
<1>2. ASSUME NEW n \in 1..logins, PushFinish(r, n) PROVE TypeInv'
  <2> DEFINE h == [Idle EXCEPT !.pc = "finish", !.login = n, !.ch = n, !.era = Challenge(n).era,
                               !.fence = Challenge(n).fence, !.factor = <<"push", n>>]
  <2>1. Live(n) /\ req' = [req EXCEPT ![r] = h]
    BY <1>2 DEF PushFinish
  <2>2. <<"push", n>> \in Factors /\ n \in Nat
    BY DEF Factors, TypeInv
  <2>3. h \in Handlers /\ h.pc = "finish"
    BY <2>1, <2>2, IdleTyped, LiveTyped DEF Handlers, PCs
  <2>4. RequestsOK
    BY <2>1, <2>3, StartOK DEF TotpPCs
  <2> QED
    BY <1>2, <2>4, TypeParts, AccountFrame, MemoryFrame DEF PushFinish, history
<1>3. CASE ResolvePush(r)
  <2>1. challenges' \subseteq Challenges
    <3>1. CASE Live(req[r].ch) /\ ~Resolved(Challenge(req[r].ch))
      <4>1. PICK a \in {"approved", "denied", "locked"} :
              challenges' = Put([Challenge(req[r].ch) EXCEPT !.push = a])
        BY <1>3, <3>1 DEF ResolvePush
      <4>2. [Challenge(req[r].ch) EXCEPT !.push = a] \in Challenges
        BY <3>1, LiveTyped DEF Challenges, Pushes
      <4> QED
        BY <4>1, <4>2, PutTyped
    <3> QED
      BY <1>3, <3>1 DEF ResolvePush, TypeInv
  <2> QED
    BY <1>3, <2>1, EndsOK, TypeParts, AccountFrame, ChallengesFrame DEF ResolvePush, history
<1>4. CASE ConsumePushApproval(r)
  <2>1. challenges' \subseteq Challenges /\ RequestsOK
    <3>1. challenges' \subseteq Challenges
      BY <1>4, DeletedTyped DEF ConsumePushApproval, TypeInv
    <3>2. Ends(r) \/ Goes(r, "recheck")
      BY <1>4 DEF ConsumePushApproval
    <3> QED
      BY <3>1, <3>2, EndsOK, GoesOK DEF PCs, TotpPCs
  <2> QED
    BY <1>4, <2>1, TypeParts, AccountFrame, ChallengesFrame DEF ConsumePushApproval, history
<1>5. CASE CheckOwner(r) \/ RecheckPush(r) \/ ReadForMint(r)
  <2>1. RequestsOK
    BY <1>5, EndsOK, GoesOK DEF CheckOwner, RecheckPush, ReadForMint, PCs, TotpPCs
  <2> QED
    BY <1>5, <2>1, TypeParts, AccountFrame, MemoryFrame DEF CheckOwner, RecheckPush, ReadForMint, history
<1>6. CASE MintSession(r)
  <2>1. [login |-> req[r].login, era |-> req[r].era, by |-> req[r].factor] \in Sessions
    BY <1>0 DEF Handlers, Sessions
  <2>2. sessions' \subseteq Sessions
    BY <1>6, <2>1 DEF MintSession, TypeInv
  <2>3. RequestsOK
    BY <1>6, EndsOK DEF MintSession
  <2> QED
    BY <1>6, <2>2, <2>3, TypeParts, AccountFrame DEF MintSession, MemoryOK, TypeInv
<1> QED
  BY <1>1, <1>2, <1>3, <1>4, <1>5, <1>6

(* What the account changes write.                                          *)
LEMMA ChangeOK ==
  ASSUME TypeInv, NEW r \in Requests, NEW u \in Accounts, NEW keep \in SUBSET Sessions,
         NEW all \in BOOLEAN, Change(r, u, keep, all)
  PROVE  TypeInv'
<1> DEFINE h == [Idle EXCEPT !.pc = "revoke", !.era = era + 1, !.keep = keep, !.all = all]
<1>1. era + 1 \in Nat
  BY DEF TypeInv
<1>2. h \in Handlers /\ h.pc = "revoke"
  BY <1>1, IdleTyped DEF Handlers, PCs
<1>3. req' = [req EXCEPT ![r] = h]
  BY DEF Change
<1>4. RequestsOK
  BY <1>2, <1>3, StartOK DEF TotpPCs
<1> QED
  BY <1>1, <1>4, TypeParts, MemoryFrame DEF Change, AccountOK, TypeInv, history

LEMMA WriteConfirmedOK ==
  ASSUME TypeInv, NEW r \in Requests, NEW u \in Accounts, WriteConfirmed(r, u)
  PROVE  TypeInv'
<1> DEFINE h == [req[r] EXCEPT !.pc = "revoke", !.era = era + 1]
<1>1. era + 1 \in Nat /\ req[r] \in Handlers
  BY DEF TypeInv
<1>2. h \in Handlers /\ h.pc = "revoke"
  BY <1>1 DEF Handlers, PCs
<1>3. req' = [req EXCEPT ![r] = h]
  BY DEF WriteConfirmed, TypeInv
<1>4. RequestsOK
  BY <1>2, <1>3, StartOK DEF TotpPCs
<1> QED
  BY <1>1, <1>4, TypeParts, MemoryFrame DEF WriteConfirmed, AccountOK, TypeInv, history

LEMMA NoSecondFactorOK == TypeInv => NoSecondFactor \in Accounts
BY DEF TypeInv, NoSecondFactor, Accounts

LEMMA SessionOK == TypeInv => Session \subseteq SUBSET Sessions
BY DEF TypeInv, Session

(* A session brought up to the revocation that confirmed it.                *)
Confirmed(s, e) == [s EXCEPT !.era = IF e > @ THEN e ELSE @]
Kept(r) == {t \in sessions : \E k \in req[r].keep : t.login = k.login /\ t.by = k.by}

LEMMA RevokeSets ==
  ASSUME NEW r, RevokeSessions(r)
  PROVE  sessions' = {Confirmed(s, req[r].era) : s \in Kept(r)}
BY DEF RevokeSessions, Confirmed, Kept

LEMMA ConfirmedOK ==
  ASSUME NEW s \in Sessions, NEW e \in Nat
  PROVE  /\ Confirmed(s, e) \in Sessions
         /\ Confirmed(s, e).era = IF e > s.era THEN e ELSE s.era
BY DEF Confirmed, Sessions

(* The changes that revoke keep the types.                                  *)
LEMMA ChangesType ==
  ASSUME TypeInv, NEW r \in Requests,
         \/ BeginPassword(r) \/ SetPassword(r) \/ ConfirmPassword(r)
         \/ Deactivate(r) \/ ClearMFA(r) \/ DisableMFA(r) \/ RegenerateCodes(r)
         \/ RevokeSessions(r) \/ RevokeDevices(r)
  PROVE  TypeInv'
<1>0. req[r] \in Handlers /\ user \in Accounts /\ era + 1 \in Nat
  BY DEF TypeInv
<1>1. CASE BeginPassword(r)
  <2>1. PICK keep \in Session \cup {{}} :
          req' = [req EXCEPT ![r] = [Idle EXCEPT !.pc = "password", !.pw = user.pw, !.keep = keep]]
    BY <1>1 DEF BeginPassword
  <2> DEFINE h == [Idle EXCEPT !.pc = "password", !.pw = user.pw, !.keep = keep]
  <2>2. keep \in SUBSET Sessions /\ user.pw \in Nat
    BY <1>0, SessionOK DEF Accounts
  <2>3. h \in Handlers /\ h.pc = "password"
    BY <2>2, IdleTyped DEF Handlers, PCs
  <2>4. RequestsOK
    BY <2>1, <2>3, StartOK DEF TotpPCs
  <2> QED
    BY <1>1, <2>4, TypeParts, AccountFrame, MemoryFrame DEF BeginPassword, history
<1>2. CASE SetPassword(r)
  <2>1. CASE RevisionCurrent(r)
    <3> DEFINE h == [req[r] EXCEPT !.pc = "revoke", !.all = TRUE, !.era = era + 1]
    <3>1. h \in Handlers /\ h.pc = "revoke"
      BY <1>0 DEF Handlers, PCs
    <3>2. req' = [req EXCEPT ![r] = h]
      BY <1>2, <2>1 DEF SetPassword, TypeInv
    <3>3. RequestsOK
      BY <3>1, <3>2, StartOK DEF TotpPCs
    <3>4. user' \in Accounts /\ era' = era + 1
      BY <1>0, <1>2, <2>1 DEF SetPassword, Accounts
    <3> QED
      BY <1>0, <1>2, <3>3, <3>4, TypeParts, MemoryFrame DEF SetPassword, AccountOK, TypeInv, history
  <2>2. CASE ~RevisionCurrent(r)
    BY <1>2, <2>2, EndsOK, TypeParts, AccountFrame, MemoryFrame DEF SetPassword, history
  <2> QED
    BY <2>1, <2>2
<1>3. CASE Deactivate(r) \/ ClearMFA(r)
  <2>1. [user EXCEPT !.active = FALSE] \in Accounts
    BY <1>0 DEF Accounts
  <2> QED
    BY <1>3, <2>1, NoSecondFactorOK, ChangeOK DEF Deactivate, ClearMFA
<1>4. CASE DisableMFA(r)
  BY <1>4, NoSecondFactorOK, WriteConfirmedOK DEF DisableMFA
<1>5. CASE RegenerateCodes(r)
  <2>1. [user EXCEPT !.codes = {<<"fresh", era + 1>>}] \in Accounts
    BY <1>0 DEF Accounts, CodeIds
  <2> QED
    BY <1>5, <2>1, WriteConfirmedOK DEF RegenerateCodes
<1>6. CASE RevokeSessions(r)
  <2>1. sessions' \subseteq Sessions
    BY <1>0, <1>6, RevokeSets, ConfirmedOK DEF Kept, TypeInv, Handlers
  <2>2. RequestsOK
    BY <1>6, GoesOK, EndsOK DEF RevokeSessions, PCs, TotpPCs
  <2> QED
    BY <1>6, <2>1, <2>2, TypeParts, AccountFrame DEF RevokeSessions, MemoryOK, TypeInv, history
<1>7. CASE RevokeDevices(r)
  BY <1>7, EndsOK, TypeParts, AccountFrame, MemoryFrame DEF RevokeDevices, history
<1>8. CASE ConfirmPassword(r)
  <2>1. PICK keep \in Session, pc \in {"disable", "regenerate"} :
          req' = [req EXCEPT ![r] = [Idle EXCEPT !.pc = pc, !.keep = keep]]
    BY <1>8 DEF ConfirmPassword
  <2> DEFINE h == [Idle EXCEPT !.pc = pc, !.keep = keep]
  <2>2. h \in Handlers /\ h.pc = pc
    BY IdleTyped, SessionOK DEF Handlers, PCs
  <2>3. RequestsOK
    BY <2>1, <2>2, StartOK DEF TotpPCs
  <2> QED
    BY <1>8, <2>3, TypeParts, AccountFrame, MemoryFrame DEF ConfirmPassword, history
<1> QED
  BY <1>1, <1>2, <1>3, <1>4, <1>5, <1>6, <1>7, <1>8

(* Enrolment, and what happens by itself, keep the types.                   *)
LEMMA RestType ==
  ASSUME TypeInv,
         \/ \E r \in Requests : \/ BeginSetup(r) \/ StageSecret(r) \/ BeginConfirm(r) \/ ConfirmStep(r)
                               \/ EnableTOTP(r) \/ BeginPairing(r) \/ MintPairingToken(r)
         \/ Happens
  PROVE  TypeInv'
<1>0. user \in Accounts /\ staged + 1 \in Nat
  BY DEF TypeInv
<1>1. ASSUME NEW r \in Requests, BeginSetup(r) PROVE TypeInv'
  <2> DEFINE h == [Idle EXCEPT !.pc = "stage"]
  <2>1. h \in Handlers /\ h.pc = "stage"
    BY IdleTyped DEF Handlers, PCs
  <2>2. RequestsOK
    BY <1>1, <2>1, StartOK DEF BeginSetup, TotpPCs
  <2> QED
    BY <1>1, <2>2, TypeParts, AccountFrame, MemoryFrame DEF BeginSetup, history
<1>2. ASSUME NEW r \in Requests, StageSecret(r) PROVE TypeInv'
  <2>1. user' \in Accounts
    BY <1>0, <1>2 DEF StageSecret, Accounts
  <2> QED
    BY <1>0, <1>2, <2>1, EndsOK, TypeParts, MemoryFrame DEF StageSecret, AccountOK, TypeInv
<1>3. ASSUME NEW r \in Requests, BeginConfirm(r) PROVE TypeInv'
  <2>1. PICK s \in Steps :
          req' = [req EXCEPT ![r] = [Idle EXCEPT !.pc = "confirm", !.secret = user.secret,
                                                 !.factor = <<"totp", s>>]]
    BY <1>3 DEF BeginConfirm
  <2> DEFINE h == [Idle EXCEPT !.pc = "confirm", !.secret = user.secret, !.factor = <<"totp", s>>]
  <2>2. <<"totp", s>> \in Factors /\ <<"totp", s>> \in {"totp"} \X Nat /\ user.secret \in Nat
    BY <1>0, SignInAssumption DEF Factors, Accounts
  <2>3. h \in Handlers /\ h.factor = <<"totp", s>>
    BY <2>2, IdleTyped DEF Handlers, PCs
  <2>4. RequestsOK
    BY <2>1, <2>2, <2>3, StartOK
  <2> QED
    BY <1>3, <2>4, TypeParts, AccountFrame, MemoryFrame DEF BeginConfirm
<1>4. ASSUME NEW r \in Requests, ConfirmStep(r) PROVE TypeInv'
  <2>1. req[r].factor[2] \in Nat /\ req[r].pc \in TotpPCs
    BY <1>4 DEF ConfirmStep, At, TypeInv, TotpCarried, TotpPCs
  <2>2. user' \in Accounts
    <3>1. user' = user \/ user' = [user EXCEPT !.lastStep = req[r].factor[2]]
      BY <1>4 DEF ConfirmStep
    <3> QED
      BY <1>0, <2>1, <3>1 DEF Accounts
  <2>3. Ends(r) \/ Goes(r, "enable")
    BY <1>4 DEF ConfirmStep
  <2>4. RequestsOK
    BY <2>1, <2>3, EndsOK, GoesOK DEF PCs
  <2> QED
    BY <1>4, <2>2, <2>4, TypeParts, MemoryFrame DEF ConfirmStep, AccountOK, TypeInv
<1>5. ASSUME NEW r \in Requests, EnableTOTP(r) PROVE TypeInv'
  <2>1. req[r].factor[2] \in Nat
    BY <1>5 DEF EnableTOTP, At, TypeInv, TotpCarried, TotpPCs
  <2>2. user' \in Accounts
    <3>1. \/ user' = user
          \/ user' = [user EXCEPT !.enabled = TRUE, !.codes = {<<"confirm", req[r].factor[2]>>}]
      BY <1>5 DEF EnableTOTP
    <3>2. {<<"confirm", req[r].factor[2]>>} \in SUBSET CodeIds
      BY <2>1 DEF CodeIds
    <3> QED
      BY <1>0, <3>1, <3>2 DEF Accounts
  <2> QED
    BY <1>5, <2>2, EndsOK, TypeParts, MemoryFrame DEF EnableTOTP, AccountOK, TypeInv, history
<1>6. ASSUME NEW r \in Requests, MintPairingToken(r) PROVE TypeInv'
  BY <1>6, EndsOK, TypeParts, AccountFrame, MemoryFrame DEF MintPairingToken, history
<1>13. ASSUME NEW r \in Requests, BeginPairing(r) PROVE TypeInv'
  <2>1. PICK direct \in BOOLEAN : req' = [req EXCEPT ![r] = [Idle EXCEPT !.pc = "pair", !.direct = direct]]
    BY <1>13 DEF BeginPairing
  <2> DEFINE h == [Idle EXCEPT !.pc = "pair", !.direct = direct]
  <2>2. h \in Handlers /\ h.pc = "pair"
    BY IdleTyped DEF Handlers, PCs
  <2>3. RequestsOK
    BY <2>1, <2>2, StartOK DEF TotpPCs
  <2> QED
    BY <1>13, <2>3, TypeParts, AccountFrame, MemoryFrame DEF BeginPairing, history
<1>7. ASSUME NEW s \in sessions, Logout(s) PROVE TypeInv'
  BY <1>7 DEF Logout, TypeInv, TotpCarried, account, history
<1>8. ASSUME NEW n \in 1..logins, ChallengeExpires(n) PROVE TypeInv'
  BY <1>8, DeletedTyped DEF ChallengeExpires, TypeInv, TotpCarried, account, history
<1>9. CASE DropInactive \/ StrikesLapse
  BY <1>9 DEF DropInactive, StrikesLapse, TypeInv, TotpCarried, account, memory, history
<1>10. CASE Reactivate
  <2>1. user' \in Accounts
    BY <1>0, <1>10 DEF Reactivate, Accounts
  <2> QED
    BY <1>10, <2>1 DEF Reactivate, TypeInv, TotpCarried, memory, history
<1>11. CASE (\E t \in tokens : RegisterDevice(t)) \/ (\E t \in pending : ApproveDevice(t) \/ DropPending(t))
  BY <1>11 DEF RegisterDevice, ApproveDevice, DropPending, TypeInv, TotpCarried, account, memory, history
<1>12. CASE Restart
  BY <1>12, IdleTyped DEF Restart, TypeInv, TotpCarried, TotpPCs, Idle, account, history
<1> QED
  BY <1>1, <1>2, <1>3, <1>4, <1>5, <1>6, <1>7, <1>8, <1>9, <1>10, <1>11, <1>12, <1>13 DEF Happens

(* Every step keeps the types.                                              *)
LEMMA TypeStep == TypeInv /\ [Next]_vars => TypeInv'
<1>1. UNCHANGED vars /\ TypeInv => TypeInv'
  BY DEF vars, account, memory, history, TypeInv, TotpCarried
<1> QED
  BY <1>1, LoginType, CodesType, MintType, ChangesType, RestType DEF Next, Begins, Continues

LEMMA TypeInit == Init => TypeInv
<1> SUFFICES ASSUME Init PROVE TypeInv
  OBVIOUS
<1>1. user \in Accounts /\ staged \in Nat
  BY DEF Init, Accounts, CodeIds
<1> QED
  BY <1>1, IdleTyped DEF Init, TypeInv, TotpCarried, TotpPCs, Idle

-----------------------------------------------------------------------------
(* What a step may do to one request, as far as the later proofs look.      *)
Same(q) ==
  /\ req'[q].login = req[q].login /\ req'[q].era = req[q].era /\ req'[q].fence = req[q].fence
  /\ req'[q].ch = req[q].ch /\ req'[q].factor = req[q].factor /\ req'[q].secret = req[q].secret

Arrows == {<<"fence", "push">>, <<"consume", "step">>, <<"recovery", "code">>, <<"accept", "mint">>,
           <<"recheck", "mint">>, <<"mint", "store">>, <<"owner", "respond">>}

Stays(q)   == req'[q] = req[q]
(* Only its revocation, or a restart, ends a request that owes one.         *)
Stops(q)   == req'[q] = Idle /\ (req[q].pc = "revoke" => RevokeSessions(q) \/ Restart)
Follows(q) == Same(q) /\ <<req[q].pc, req'[q].pc>> \in Arrows
Cuts(q)    == Same(q) /\ RevokeSessions(q) /\ req[q].pc = "revoke" /\ req'[q].pc = "devices"
Makes(q)   == Same(q) /\ CreateChallenge(q) /\ req[q].pc = "challenge" /\ req'[q].pc = "fence"
(* The steps that take a factor.                                            *)
RecordsStep(q) ==
  /\ Same(q) /\ SetLastUsedTOTPStep(q) /\ req[q].pc = "step" /\ req'[q].pc = "accept"
  /\ req[q].factor[2] > user.lastStep /\ user' = [user EXCEPT !.lastStep = req[q].factor[2]]
TakesPush(q) ==
  /\ Same(q) /\ ConsumePushApproval(q) /\ req[q].pc = "finish" /\ req'[q].pc = "recheck"
  /\ Live(req[q].ch) /\ challenges' = Deleted(req[q].ch)
ConfirmsStep(q) ==
  /\ Same(q) /\ ConfirmStep(q) /\ req[q].pc = "confirm" /\ req'[q].pc = "enable"
  /\ req[q].factor[2] > user.lastStep /\ user' = [user EXCEPT !.lastStep = req[q].factor[2]]
(* The handlers that copy a challenge.                                      *)
Copies(q, n) ==
  /\ Live(n) /\ req[q].pc = "idle" /\ req'[q].login = n /\ req'[q].ch = n
  /\ req'[q].era = Challenge(n).era /\ req'[q].fence = Challenge(n).fence
SignsIn(q)  == /\ Login(q) /\ req'[q].pc = "verify" /\ req'[q].login = logins + 1
               /\ req'[q].fence = revocations + 1 /\ req'[q].factor = None
Verifies(q) == /\ VerifyLogin(q) /\ req[q].pc = "verify" /\ req'[q].pc \in {"challenge", "mint"}
               /\ req'[q].login = req[q].login /\ req'[q].fence = req[q].fence
               /\ req'[q].factor = req[q].factor /\ req'[q].era = era
Offers(q)   == \E n \in 1..logins : /\ OfferCode(q, n) /\ Copies(q, n) /\ req'[q].pc \in {"totp", "recovery"}
Validates(q) == /\ ValidateTOTP(q) /\ req[q].pc = "totp" /\ req'[q].pc = "consume"
                /\ req'[q].era = req[q].era /\ req'[q].fence = req[q].fence
TakesCode(q) == \E k \in user.codes :
  /\ ConsumeRecoveryCode(q) /\ req[q].pc = "code" /\ req'[q].pc = "accept"
  /\ req'[q].era = req[q].era /\ req'[q].fence = req[q].fence /\ req'[q].factor = <<"code", k>>
  /\ user' = [user EXCEPT !.codes = @ \ {k}]
Finishes(q) == \E n \in 1..logins :
  PushFinish(q, n) /\ Copies(q, n) /\ req'[q].pc = "finish" /\ req'[q].factor = <<"push", n>>
Revokes(q)  == /\ req[q].pc \in {"idle", "password", "disable", "regenerate"}
               /\ req'[q].pc = "revoke" /\ req'[q].era = era + 1
               /\ era' = era + 1 /\ UNCHANGED memory
Confirms(q) == /\ BeginConfirm(q) /\ req[q].pc = "idle" /\ req'[q].pc = "confirm"
               /\ req'[q].secret = user.secret
(* Handlers that only note what they will do.                               *)
Prepares(q) == req[q].pc = "idle" /\ req'[q].pc \in {"owner", "password", "disable", "regenerate", "stage", "pair"}

Moves(q) ==
  \/ Stays(q) \/ Stops(q) \/ Follows(q) \/ Cuts(q) \/ Makes(q) \/ RecordsStep(q) \/ TakesPush(q)
  \/ ConfirmsStep(q) \/ SignsIn(q) \/ Verifies(q) \/ Offers(q) \/ Validates(q)
  \/ TakesCode(q) \/ Finishes(q) \/ Revokes(q) \/ Confirms(q) \/ Prepares(q)

LEMMA GoesSame ==
  ASSUME TypeInv, NEW r \in Requests, NEW p \in PCs, Goes(r, p)
  PROVE  Same(r) /\ req'[r].pc = p /\ Others(r)
<1>1. req'[r] = [req[r] EXCEPT !.pc = p] /\ Others(r) /\ req[r] \in Handlers
  BY GoesEffect DEF TypeInv
<1> QED
  BY <1>1 DEF Same, Handlers

LEMMA GoesFollows ==
  ASSUME TypeInv, NEW r \in Requests, NEW p \in PCs, Goes(r, p), <<req[r].pc, p>> \in Arrows
  PROVE  Follows(r) /\ Others(r)
BY GoesSame DEF Follows

LEMMA EndsStops ==
  ASSUME TypeInv, NEW r \in Requests, Ends(r), req[r].pc # "revoke"
  PROVE  Stops(r) /\ Others(r)
BY EndsEffect DEF Stops

(* A request that starts: its record, and the others are left alone.        *)
LEMMA StartEffect ==
  ASSUME TypeInv, NEW r \in Requests, NEW h, req' = [req EXCEPT ![r] = h]
  PROVE  req'[r] = h /\ Others(r)
BY DEF TypeInv, Others

(* A request that takes a factor.                                           *)
LEMMA FactorEffect ==
  ASSUME TypeInv, NEW r \in Requests, NEW p \in PCs, NEW f,
         req' = [req EXCEPT ![r].pc = p, ![r].factor = f]
  PROVE  /\ Others(r) /\ req'[r].pc = p /\ req'[r].factor = f
         /\ req'[r].login = req[r].login /\ req'[r].ch = req[r].ch
         /\ req'[r].era = req[r].era /\ req'[r].fence = req[r].fence
<1>1. /\ req'[r] = [[req[r] EXCEPT !.pc = p] EXCEPT !.factor = f]
      /\ Others(r) /\ req[r] \in Handlers
  BY DEF TypeInv, Others
<1>2. /\ req'[r].pc = p /\ req'[r].factor = f
  BY <1>1 DEF Handlers
<1> DEFINE h == [req[r] EXCEPT !.pc = p]
<1>3. h.login = req[r].login /\ h.ch = req[r].ch /\ h.era = req[r].era /\ h.fence = req[r].fence
  BY <1>1 DEF Handlers
<1>4. DOMAIN h = DOMAIN req[r] /\ {"login", "ch", "era", "fence"} \subseteq DOMAIN h
  BY <1>1 DEF Handlers
<1>5. req'[r] = [h EXCEPT !.factor = f]
  BY <1>1
<1> HIDE DEF h
<1>6. /\ req'[r].login = h.login /\ req'[r].ch = h.ch
      /\ req'[r].era = h.era /\ req'[r].fence = h.fence
  BY <1>4, <1>5
<1> QED
  BY <1>1, <1>2, <1>3, <1>6

LEMMA LoginMoves ==
  ASSUME TypeInv, NEW r \in Requests,
         Login(r) \/ VerifyLogin(r) \/ CreateChallenge(r) \/ CheckFence(r) \/ DispatchPush(r)
  PROVE  Moves(r) /\ Others(r)
<1>0. req[r] \in Handlers
  BY DEF TypeInv
<1>1. CASE Login(r)
  <2> DEFINE h == [Idle EXCEPT !.pc = "verify", !.login = logins + 1, !.fence = revocations + 1]
  <2>1. h.pc = "verify" /\ h.login = logins + 1 /\ h.fence = revocations + 1 /\ h.factor = None
    BY DEF Idle
  <2>2. req'[r] = h /\ Others(r)
    BY <1>1, StartEffect DEF Login
  <2> QED
    BY <1>1, <2>1, <2>2 DEF Moves, SignsIn
<1>2. CASE VerifyLogin(r)
  <2>1. CASE Ends(r)
    BY <1>2, <2>1, EndsStops DEF Moves, VerifyLogin, At
  <2>2. CASE ~Ends(r)
    <3>1. PICK p \in {"challenge", "mint"} :
            req' = [req EXCEPT ![r].pc = p, ![r].era = era, ![r].push = user.push]
      BY <1>2, <2>2 DEF VerifyLogin
    <3>2. req'[r] = [req[r] EXCEPT !.pc = p, !.era = era, !.push = user.push] /\ Others(r)
      BY <3>1 DEF TypeInv, Others
    <3>3. /\ req'[r].pc = p /\ req'[r].login = req[r].login /\ req'[r].fence = req[r].fence
          /\ req'[r].factor = req[r].factor /\ req'[r].era = era
      BY <1>0, <3>2 DEF Handlers
    <3> QED
      BY <1>2, <3>2, <3>3 DEF Moves, Verifies, VerifyLogin, At
  <2> QED
    BY <2>1, <2>2
<1>3. CASE CreateChallenge(r)
  BY <1>3, GoesSame DEF CreateChallenge, At, PCs, Moves, Makes
<1>4. CASE CheckFence(r)
  <2>1. Ends(r) \/ Goes(r, "push")
    BY <1>4 DEF CheckFence
  <2> QED
    BY <1>4, <2>1, EndsStops, GoesFollows DEF CheckFence, At, PCs, Arrows, Moves
<1>5. CASE DispatchPush(r)
  BY <1>5, EndsStops DEF DispatchPush, At, Moves
<1> QED
  BY <1>1, <1>2, <1>3, <1>4, <1>5

LEMMA CodesMoves ==
  ASSUME TypeInv, NEW r \in Requests,
         \/ \E n \in 1..logins : OfferCode(r, n)
         \/ ValidateTOTP(r) \/ ConsumeTOTPStep(r) \/ SetLastUsedTOTPStep(r)
         \/ ReadForRecovery(r) \/ ConsumeRecoveryCode(r) \/ AcceptCode(r)
  PROVE  Moves(r) /\ Others(r)
<1>0. req[r] \in Handlers
  BY DEF TypeInv
<1>w. Wrong(r) \/ Withdrawn(r) \/ RefuseCode(r) => req[r].pc = "revoke" \/ (Moves(r) /\ Others(r))
  BY EndsStops DEF Wrong, Withdrawn, RefuseCode, Moves
<1>1. ASSUME NEW n \in 1..logins, OfferCode(r, n) PROVE Moves(r) /\ Others(r)
  <2>1. PICK kind \in {"totp", "recovery"} :
          req' = [req EXCEPT ![r] = [Idle EXCEPT !.pc = kind, !.login = n, !.ch = n,
                                     !.era = Challenge(n).era, !.fence = Challenge(n).fence]]
    BY <1>1 DEF OfferCode
  <2> DEFINE h == [Idle EXCEPT !.pc = kind, !.login = n, !.ch = n,
                               !.era = Challenge(n).era, !.fence = Challenge(n).fence]
  <2>2. h.pc = kind /\ h.login = n /\ h.ch = n /\ h.era = Challenge(n).era /\ h.fence = Challenge(n).fence
    BY DEF Idle
  <2>3. req'[r] = h /\ Others(r)
    BY <2>1, StartEffect
  <2> HIDE DEF h
  <2>4. Copies(r, n)
    BY <1>1, <2>2, <2>3 DEF OfferCode, Copies, At
  <2> QED
    BY <1>1, <2>2, <2>3, <2>4 DEF Moves, Offers
<1>2. CASE ValidateTOTP(r)
  <2>1. ASSUME NEW s \in Steps, req' = [req EXCEPT ![r].pc = "consume", ![r].factor = <<"totp", s>>]
        PROVE  Moves(r) /\ Others(r)
    <3>1. Others(r) /\ req'[r].pc = "consume" /\ req'[r].era = req[r].era /\ req'[r].fence = req[r].fence
      BY <2>1, FactorEffect DEF PCs
    <3> QED
      BY <1>2, <3>1 DEF Moves, Validates, ValidateTOTP, At
  <2> QED
    BY <1>2, <1>w, <2>1 DEF ValidateTOTP, At
<1>3. CASE ConsumeTOTPStep(r)
  BY <1>3, <1>w, GoesFollows DEF ConsumeTOTPStep, At, PCs, Arrows, Moves
<1>4. CASE SetLastUsedTOTPStep(r)
  <2>1. CASE NewerStep(req[r].factor[2])
    BY <1>4, <2>1, GoesSame DEF SetLastUsedTOTPStep, NewerStep, At, PCs, Moves, RecordsStep
  <2>2. CASE ~NewerStep(req[r].factor[2])
    BY <1>4, <1>w, <2>2 DEF SetLastUsedTOTPStep, At
  <2> QED
    BY <2>1, <2>2
<1>5. CASE ReadForRecovery(r)
  BY <1>5, <1>w, GoesFollows DEF ReadForRecovery, At, PCs, Arrows, Moves
<1>6. CASE ConsumeRecoveryCode(r)
  <2>1. ASSUME NEW k \in user.codes, user' = [user EXCEPT !.codes = @ \ {k}],
               req' = [req EXCEPT ![r].pc = "accept", ![r].factor = <<"code", k>>]
        PROVE  Moves(r) /\ Others(r)
    <3>1. /\ Others(r) /\ req'[r].pc = "accept" /\ req'[r].era = req[r].era /\ req'[r].fence = req[r].fence
          /\ req'[r].factor = <<"code", k>>
      BY <2>1, FactorEffect, ZenonT(40) DEF PCs
    <3> QED
      BY <1>6, <2>1, <3>1 DEF Moves, TakesCode, ConsumeRecoveryCode, At
  <2> QED
    BY <1>6, <1>w, <2>1 DEF ConsumeRecoveryCode, At
<1>7. CASE AcceptCode(r)
  BY <1>7, GoesFollows DEF AcceptCode, At, PCs, Arrows, Moves
<1> QED
  BY <1>1, <1>2, <1>3, <1>4, <1>5, <1>6, <1>7

LEMMA MintMoves ==
  ASSUME TypeInv, NEW r \in Requests,
         \/ \E n \in 1..logins : PushRespond(r, n) \/ PushFinish(r, n)
         \/ CheckOwner(r) \/ ResolvePush(r) \/ ConsumePushApproval(r) \/ RecheckPush(r)
         \/ ReadForMint(r) \/ MintSession(r)
  PROVE  Moves(r) /\ Others(r)
<1>1. ASSUME NEW n \in 1..logins, PushRespond(r, n) PROVE Moves(r) /\ Others(r)
  <2> DEFINE h == [Idle EXCEPT !.pc = "owner", !.ch = n]
  <2>1. h.pc = "owner"
    BY DEF Idle
  <2>2. req'[r] = h /\ Others(r)
    BY <1>1, StartEffect DEF PushRespond
  <2> QED
    BY <1>1, <2>1, <2>2 DEF Moves, Prepares, PushRespond, At
<1>2. ASSUME NEW n \in 1..logins, PushFinish(r, n) PROVE Moves(r) /\ Others(r)
  <2> DEFINE h == [Idle EXCEPT !.pc = "finish", !.login = n, !.ch = n, !.era = Challenge(n).era,
                               !.fence = Challenge(n).fence, !.factor = <<"push", n>>]
  <2>1. /\ h.pc = "finish" /\ h.login = n /\ h.ch = n /\ h.era = Challenge(n).era
        /\ h.fence = Challenge(n).fence /\ h.factor = <<"push", n>>
    BY DEF Idle
  <2>2. req'[r] = h /\ Others(r)
    BY <1>2, StartEffect DEF PushFinish
  <2> HIDE DEF h
  <2>3. Copies(r, n)
    BY <1>2, <2>1, <2>2 DEF Copies, PushFinish, At
  <2> QED
    BY <1>2, <2>1, <2>2, <2>3 DEF Moves, Finishes
<1>3. CASE ResolvePush(r) \/ MintSession(r)
  BY <1>3, EndsStops DEF ResolvePush, MintSession, At, Moves
<1>4. CASE ConsumePushApproval(r)
  <2>1. CASE Approved(req[r].ch)
    BY <1>4, <2>1, GoesSame DEF ConsumePushApproval, Approved, At, PCs, Moves, TakesPush
  <2>2. CASE ~Approved(req[r].ch)
    BY <1>4, <2>2, EndsStops DEF ConsumePushApproval, At, Moves
  <2> QED
    BY <2>1, <2>2
<1>5. CASE CheckOwner(r) \/ RecheckPush(r) \/ ReadForMint(r)
  BY <1>5, EndsStops, GoesFollows DEF CheckOwner, RecheckPush, ReadForMint, At, PCs, Arrows, Moves
<1> QED
  BY <1>1, <1>2, <1>3, <1>4, <1>5

LEMMA ChangesMoves ==
  ASSUME TypeInv, NEW r \in Requests,
         \/ BeginPassword(r) \/ SetPassword(r) \/ ConfirmPassword(r)
         \/ Deactivate(r) \/ ClearMFA(r) \/ DisableMFA(r) \/ RegenerateCodes(r)
         \/ RevokeSessions(r) \/ RevokeDevices(r)
  PROVE  Moves(r) /\ Others(r)
<1>0. req[r] \in Handlers
  BY DEF TypeInv
<1>1. CASE BeginPassword(r)
  <2>1. PICK keep \in Session \cup {{}} :
          req' = [req EXCEPT ![r] = [Idle EXCEPT !.pc = "password", !.pw = user.pw, !.keep = keep]]
    BY <1>1 DEF BeginPassword
  <2> DEFINE h == [Idle EXCEPT !.pc = "password", !.pw = user.pw, !.keep = keep]
  <2>2. h.pc = "password"
    BY DEF Idle
  <2>3. req'[r] = h /\ Others(r)
    BY <2>1, StartEffect
  <2> QED
    BY <1>1, <2>2, <2>3 DEF Moves, Prepares, BeginPassword, At
<1>2. CASE SetPassword(r)
  <2>1. CASE RevisionCurrent(r)
    <3>1. req'[r] = [req[r] EXCEPT !.pc = "revoke", !.all = TRUE, !.era = era + 1] /\ Others(r)
      BY <1>2, <2>1 DEF SetPassword, TypeInv, Others
    <3>2. req'[r].pc = "revoke" /\ req'[r].era = era + 1
      BY <1>0, <3>1 DEF Handlers
    <3> QED
      BY <1>2, <2>1, <3>1, <3>2 DEF SetPassword, At, Moves, Revokes
  <2>2. CASE ~RevisionCurrent(r)
    BY <1>2, <2>2, EndsStops DEF SetPassword, At, Moves
  <2> QED
    BY <2>1, <2>2
<1>3. ASSUME NEW u, NEW keep, NEW all, Change(r, u, keep, all)
      PROVE  Moves(r) /\ Others(r)
  <2> DEFINE h == [Idle EXCEPT !.pc = "revoke", !.era = era + 1, !.keep = keep, !.all = all]
  <2>1. h.pc = "revoke" /\ h.era = era + 1
    BY DEF Idle
  <2>2. req'[r] = h /\ Others(r)
    BY <1>3, StartEffect DEF Change
  <2> QED
    BY <1>3, <2>1, <2>2 DEF Change, At, Moves, Revokes
<1>4. CASE Deactivate(r) \/ ClearMFA(r)
  BY <1>3, <1>4 DEF Deactivate, ClearMFA
<1>7. CASE DisableMFA(r) \/ RegenerateCodes(r)
  <2>1. \E u : WriteConfirmed(r, u) /\ req[r].pc \in {"disable", "regenerate"}
    BY <1>7 DEF DisableMFA, RegenerateCodes, At
  <2>2. req'[r] = [req[r] EXCEPT !.pc = "revoke", !.era = era + 1] /\ Others(r)
    BY <2>1 DEF WriteConfirmed, TypeInv, Others
  <2>3. req'[r].pc = "revoke" /\ req'[r].era = era + 1
    BY <1>0, <2>2 DEF Handlers
  <2> QED
    BY <2>1, <2>2, <2>3 DEF WriteConfirmed, Moves, Revokes
<1>8. CASE ConfirmPassword(r)
  <2>1. PICK keep \in Session, pc \in {"disable", "regenerate"} :
          req' = [req EXCEPT ![r] = [Idle EXCEPT !.pc = pc, !.keep = keep]]
    BY <1>8 DEF ConfirmPassword
  <2> DEFINE h == [Idle EXCEPT !.pc = pc, !.keep = keep]
  <2>2. h.pc = pc
    BY DEF Idle
  <2>3. req'[r] = h /\ Others(r)
    BY <2>1, StartEffect
  <2> QED
    BY <1>8, <2>2, <2>3 DEF Moves, Prepares, ConfirmPassword, At
<1>5. CASE RevokeSessions(r)
  <2>1. CASE req[r].all
    BY <1>5, <2>1, GoesSame DEF RevokeSessions, At, PCs, Moves, Cuts
  <2>2. CASE ~req[r].all
    <3>1. Ends(r)
      BY <1>5, <2>2 DEF RevokeSessions
    <3> QED
      BY <1>5, <3>1, EndsEffect DEF Moves, Stops
  <2> QED
    BY <2>1, <2>2
<1>6. CASE RevokeDevices(r)
  BY <1>6, EndsStops DEF RevokeDevices, At, Moves
<1> QED
  BY <1>1, <1>2, <1>4, <1>5, <1>6, <1>7, <1>8

LEMMA EnrolMoves ==
  ASSUME TypeInv, NEW r \in Requests,
         \/ BeginSetup(r) \/ StageSecret(r) \/ BeginConfirm(r) \/ ConfirmStep(r) \/ EnableTOTP(r)
         \/ BeginPairing(r) \/ MintPairingToken(r)
  PROVE  Moves(r) /\ Others(r)
<1>1. CASE BeginSetup(r)
  <2> DEFINE h == [Idle EXCEPT !.pc = "stage"]
  <2>1. h.pc = "stage"
    BY DEF Idle
  <2>2. req'[r] = h /\ Others(r)
    BY <1>1, StartEffect DEF BeginSetup
  <2> QED
    BY <1>1, <2>1, <2>2 DEF Moves, Prepares, BeginSetup, At
<1>2. CASE BeginConfirm(r)
  <2>1. PICK s \in Steps :
          req' = [req EXCEPT ![r] = [Idle EXCEPT !.pc = "confirm", !.secret = user.secret,
                                                 !.factor = <<"totp", s>>]]
    BY <1>2 DEF BeginConfirm
  <2> DEFINE h == [Idle EXCEPT !.pc = "confirm", !.secret = user.secret, !.factor = <<"totp", s>>]
  <2>2. h.pc = "confirm" /\ h.secret = user.secret
    BY DEF Idle
  <2>3. req'[r] = h /\ Others(r)
    BY <2>1, StartEffect
  <2> QED
    BY <1>2, <2>2, <2>3 DEF Moves, Confirms, BeginConfirm, At
<1>3. CASE ConfirmStep(r)
  <2>1. CASE NewerStep(req[r].factor[2])
    BY <1>3, <2>1, GoesSame DEF ConfirmStep, NewerStep, At, PCs, Moves, ConfirmsStep
  <2>2. CASE ~NewerStep(req[r].factor[2])
    BY <1>3, <2>2, EndsStops DEF ConfirmStep, At, Moves
  <2> QED
    BY <2>1, <2>2
<1>4. CASE StageSecret(r) \/ EnableTOTP(r) \/ MintPairingToken(r)
  BY <1>4, EndsStops DEF StageSecret, EnableTOTP, MintPairingToken, At, Moves
<1>5. CASE BeginPairing(r)
  <2>1. PICK direct \in BOOLEAN : req' = [req EXCEPT ![r] = [Idle EXCEPT !.pc = "pair", !.direct = direct]]
    BY <1>5 DEF BeginPairing
  <2> DEFINE h == [Idle EXCEPT !.pc = "pair", !.direct = direct]
  <2>2. h.pc = "pair"
    BY DEF Idle
  <2>3. req'[r] = h /\ Others(r)
    BY <2>1, StartEffect
  <2> QED
    BY <1>5, <2>2, <2>3 DEF Moves, Prepares, BeginPairing, At
<1> QED
  BY <1>1, <1>2, <1>3, <1>4, <1>5

(* A step moves one request, or none, or a restart ends them all.           *)
LEMMA OneMoves ==
  ASSUME TypeInv, [Next]_vars
  PROVE  \/ UNCHANGED req
         \/ Restart /\ \A q \in Requests : req'[q] = Idle
         \/ \E r \in Requests : Moves(r) /\ Others(r)
<1>1. Happens \/ UNCHANGED vars =>
        UNCHANGED req \/ (Restart /\ \A q \in Requests : req'[q] = Idle)
  BY DEF Happens, Logout, ChallengeExpires, DropInactive, Reactivate, StrikesLapse, RegisterDevice,
         ApproveDevice, DropPending, Restart, vars
<1> QED
  BY <1>1, LoginMoves, CodesMoves, MintMoves, ChangesMoves, EnrolMoves DEF Next, Begins, Continues

LEMMA ReqMoves ==
  ASSUME TypeInv, [Next]_vars, NEW q \in Requests
  PROVE  Moves(q)
BY OneMoves DEF Moves, Stays, Stops, Others

-----------------------------------------------------------------------------
(* What a step may do to the account record.                                *)
Enables(r) == /\ EnableTOTP(r) /\ req[r].pc = "enable" /\ user.secret = req[r].secret
              /\ user'.secret = user.secret /\ user'.codes = {<<"confirm", req[r].factor[2]>>}

EnabledMoves ==
  user'.enabled => \/ user.enabled /\ user'.secret = user.secret
                   \/ \E r \in Requests : Enables(r)
StepMoves  == \/ user'.lastStep = user.lastStep
              \/ \E r \in Requests : RecordsStep(r) \/ ConfirmsStep(r)
CodesMoved ==
  \/ user'.codes \subseteq user.codes
  \/ user'.codes = {<<"fresh", era + 1>>} /\ era' = era + 1
  \/ \E r \in Requests : Enables(r)
Grows == proven \subseteq proven' /\ era' \in {era, era + 1} /\ logins' \in {logins, logins + 1}
AccountMoves == EnabledMoves /\ StepMoves /\ CodesMoved /\ Grows

LEMMA AccountStays ==
  ASSUME UNCHANGED account, UNCHANGED history
  PROVE  AccountMoves
BY DEF account, history, AccountMoves, EnabledMoves, StepMoves, CodesMoved, Grows

LEMMA CodesAccount ==
  ASSUME TypeInv, NEW r \in Requests,
         \/ \E n \in 1..logins : OfferCode(r, n)
         \/ ValidateTOTP(r) \/ ConsumeTOTPStep(r) \/ SetLastUsedTOTPStep(r)
         \/ ReadForRecovery(r) \/ ConsumeRecoveryCode(r) \/ AcceptCode(r)
  PROVE  AccountMoves
<1>0. user \in Accounts
  BY DEF TypeInv
<1>1. CASE (\E n \in 1..logins : OfferCode(r, n)) \/ AcceptCode(r)
  BY <1>1, AccountStays DEF OfferCode, AcceptCode
<1>2. CASE ValidateTOTP(r) \/ ConsumeTOTPStep(r) \/ ReadForRecovery(r)
  <2>1. user' = user
    BY <1>2 DEF ValidateTOTP, ConsumeTOTPStep, ReadForRecovery, Wrong, Withdrawn, RefuseCode
  <2> QED
    BY <1>2, <2>1, AccountStays DEF ValidateTOTP, ConsumeTOTPStep, ReadForRecovery, account
<1>3. CASE SetLastUsedTOTPStep(r)
  <2>1. CASE NewerStep(req[r].factor[2])
    <3>1. user' = [user EXCEPT !.lastStep = req[r].factor[2]]
      BY <1>3, <2>1 DEF SetLastUsedTOTPStep
    <3>2. /\ user'.enabled = user.enabled /\ user'.secret = user.secret /\ user'.codes = user.codes
      BY <1>0, <3>1 DEF Accounts
    <3>3. RecordsStep(r)
      BY <1>3, <2>1, <3>1, GoesSame DEF SetLastUsedTOTPStep, NewerStep, At, PCs, RecordsStep
    <3> QED
      BY <1>3, <3>2, <3>3
      DEF SetLastUsedTOTPStep, history, AccountMoves, EnabledMoves, StepMoves, CodesMoved, Grows
  <2>2. CASE ~NewerStep(req[r].factor[2])
    BY <1>3, <2>2, AccountStays DEF SetLastUsedTOTPStep, RefuseCode, account
  <2> QED
    BY <2>1, <2>2
<1>4. CASE ConsumeRecoveryCode(r)
  <2>1. CASE Wrong(r) \/ Withdrawn(r)
    BY <1>4, <2>1, AccountStays DEF ConsumeRecoveryCode, Wrong, Withdrawn, account
  <2>2. ASSUME NEW k \in user.codes, user' = [user EXCEPT !.codes = @ \ {k}] PROVE AccountMoves
    <3>1. /\ user'.enabled = user.enabled /\ user'.secret = user.secret
          /\ user'.codes \subseteq user.codes /\ user'.lastStep = user.lastStep
      BY <1>0, <2>2 DEF Accounts
    <3> QED
      BY <1>4, <3>1
      DEF ConsumeRecoveryCode, history, AccountMoves, EnabledMoves, StepMoves, CodesMoved, Grows
  <2> QED
    BY <1>4, <2>1, <2>2 DEF ConsumeRecoveryCode
<1> QED
  BY <1>1, <1>2, <1>3, <1>4

LEMMA ChangesAccount ==
  ASSUME TypeInv, NEW r \in Requests,
         \/ BeginPassword(r) \/ SetPassword(r) \/ ConfirmPassword(r)
         \/ Deactivate(r) \/ ClearMFA(r) \/ DisableMFA(r) \/ RegenerateCodes(r)
         \/ RevokeSessions(r) \/ RevokeDevices(r)
  PROVE  AccountMoves
<1>0. user \in Accounts
  BY DEF TypeInv
<1>1. CASE BeginPassword(r) \/ ConfirmPassword(r) \/ RevokeSessions(r) \/ RevokeDevices(r)
  BY <1>1, AccountStays DEF BeginPassword, ConfirmPassword, RevokeSessions, RevokeDevices
<1>2. CASE SetPassword(r)
  <2>1. CASE RevisionCurrent(r)
    <3>1. user' = [user EXCEPT !.pw = @ + 1]
      BY <1>2, <2>1 DEF SetPassword
    <3>2. /\ user'.enabled = user.enabled /\ user'.secret = user.secret /\ user'.codes = user.codes
          /\ user'.lastStep = user.lastStep
      BY <1>0, <3>1 DEF Accounts
    <3> QED
      BY <1>2, <2>1, <3>2
      DEF SetPassword, history, AccountMoves, EnabledMoves, StepMoves, CodesMoved, Grows
  <2>2. CASE ~RevisionCurrent(r)
    BY <1>2, <2>2, AccountStays DEF SetPassword
  <2> QED
    BY <2>1, <2>2
<1>3. ASSUME NEW u, NEW keep, NEW all, Change(r, u, keep, all) \/ WriteConfirmed(r, u),
             u.lastStep = user.lastStep, u.enabled => user.enabled /\ u.secret = user.secret,
             u.codes \subseteq user.codes \/ u.codes = {<<"fresh", era + 1>>}
      PROVE  AccountMoves
  BY <1>3 DEF Change, WriteConfirmed, history, AccountMoves, EnabledMoves, StepMoves, CodesMoved, Grows
<1>4. CASE Deactivate(r)
  <2> DEFINE u == [user EXCEPT !.active = FALSE]
  <2>1. u.lastStep = user.lastStep /\ u.enabled = user.enabled /\ u.secret = user.secret
        /\ u.codes = user.codes
    BY <1>0 DEF Accounts
  <2>2. Change(r, u, {}, TRUE)
    BY <1>4 DEF Deactivate
  <2> HIDE DEF u
  <2> QED
    BY <1>3, <2>1, <2>2
<1>5. NoSecondFactor.lastStep = user.lastStep /\ NoSecondFactor.enabled = FALSE /\ NoSecondFactor.codes = {}
  BY <1>0 DEF NoSecondFactor, Accounts
<1>6. CASE ClearMFA(r) \/ DisableMFA(r)
  BY <1>3, <1>5, <1>6 DEF ClearMFA, DisableMFA
<1>7. CASE RegenerateCodes(r)
  <2> DEFINE u == [user EXCEPT !.codes = {<<"fresh", era + 1>>}]
  <2>1. u.lastStep = user.lastStep /\ u.enabled = user.enabled /\ u.secret = user.secret
        /\ u.codes = {<<"fresh", era + 1>>}
    BY <1>0 DEF Accounts
  <2>2. WriteConfirmed(r, u)
    BY <1>7 DEF RegenerateCodes
  <2> HIDE DEF u
  <2> QED
    BY <1>3, <2>1, <2>2
<1> QED
  BY <1>1, <1>2, <1>4, <1>6, <1>7

LEMMA EnrolAccount ==
  ASSUME TypeInv, NEW r \in Requests,
         \/ BeginSetup(r) \/ StageSecret(r) \/ BeginConfirm(r) \/ ConfirmStep(r) \/ EnableTOTP(r)
         \/ BeginPairing(r) \/ MintPairingToken(r)
  PROVE  AccountMoves
<1>0. user \in Accounts
  BY DEF TypeInv
<1>1. CASE BeginSetup(r) \/ BeginPairing(r) \/ MintPairingToken(r)
  BY <1>1, AccountStays DEF BeginSetup, BeginPairing, MintPairingToken
<1>2. CASE StageSecret(r)
  <2>1. user' = [user EXCEPT !.secret = staged + 1, !.enabled = FALSE, !.codes = {}]
    BY <1>2 DEF StageSecret
  <2>2. user'.enabled = FALSE /\ user'.lastStep = user.lastStep /\ user'.codes = {}
    BY <1>0, <2>1 DEF Accounts
  <2> QED
    BY <1>2, <2>2 DEF StageSecret, AccountMoves, EnabledMoves, StepMoves, CodesMoved, Grows
<1>3. CASE BeginConfirm(r)
  BY <1>3 DEF BeginConfirm, account, AccountMoves, EnabledMoves, StepMoves, CodesMoved, Grows
<1>4. CASE ConfirmStep(r)
  <2>1. CASE NewerStep(req[r].factor[2])
    <3>1. user' = [user EXCEPT !.lastStep = req[r].factor[2]]
      BY <1>4, <2>1 DEF ConfirmStep
    <3>2. user'.enabled = user.enabled /\ user'.secret = user.secret /\ user'.codes = user.codes
      BY <1>0, <3>1 DEF Accounts
    <3>3. ConfirmsStep(r)
      BY <1>4, <2>1, <3>1, GoesSame DEF ConfirmStep, NewerStep, At, PCs, ConfirmsStep
    <3> QED
      BY <1>4, <3>2, <3>3 DEF ConfirmStep, AccountMoves, EnabledMoves, StepMoves, CodesMoved, Grows
  <2>2. CASE ~NewerStep(req[r].factor[2])
    BY <1>4, <2>2 DEF ConfirmStep, AccountMoves, EnabledMoves, StepMoves, CodesMoved, Grows
  <2> QED
    BY <2>1, <2>2
<1>5. CASE EnableTOTP(r)
  <2>1. CASE user.secret # 0 /\ StillStaged(r)
    <3>1. user' = [user EXCEPT !.enabled = TRUE, !.codes = {<<"confirm", req[r].factor[2]>>}]
      BY <1>5, <2>1 DEF EnableTOTP
    <3>2. /\ user'.secret = user.secret /\ user'.lastStep = user.lastStep
          /\ user'.codes = {<<"confirm", req[r].factor[2]>>}
      BY <1>0, <3>1 DEF Accounts
    <3>3. Enables(r)
      BY <1>5, <2>1, <3>2 DEF Enables, EnableTOTP, At, StillStaged
    <3> QED
      BY <1>5, <3>2, <3>3 DEF EnableTOTP, history, AccountMoves, EnabledMoves, StepMoves, CodesMoved, Grows
  <2>2. CASE ~(user.secret # 0 /\ StillStaged(r))
    BY <1>5, <2>2, AccountStays DEF EnableTOTP, account
  <2> QED
    BY <2>1, <2>2
<1> QED
  BY <1>1, <1>2, <1>3, <1>4, <1>5

LEMMA RestAccount ==
  ASSUME TypeInv,
         \/ \E r \in Requests :
              \/ Login(r) \/ VerifyLogin(r) \/ CreateChallenge(r) \/ CheckFence(r) \/ DispatchPush(r)
              \/ \E n \in 1..logins : PushRespond(r, n) \/ PushFinish(r, n)
              \/ CheckOwner(r) \/ ResolvePush(r) \/ ConsumePushApproval(r) \/ RecheckPush(r)
              \/ ReadForMint(r) \/ MintSession(r)
         \/ Happens \/ UNCHANGED vars
  PROVE  AccountMoves
<1>1. CASE \E r \in Requests : Login(r) \/ MintSession(r)
  BY <1>1 DEF Login, MintSession, account, AccountMoves, EnabledMoves, StepMoves, CodesMoved, Grows
<1>2. CASE \E r \in Requests : VerifyLogin(r) \/ CreateChallenge(r) \/ CheckFence(r) \/ DispatchPush(r)
  BY <1>2, AccountStays DEF VerifyLogin, CreateChallenge, CheckFence, DispatchPush
<1>3. CASE \E r \in Requests : \/ \E n \in 1..logins : PushRespond(r, n) \/ PushFinish(r, n)
                               \/ CheckOwner(r) \/ ResolvePush(r) \/ ConsumePushApproval(r) \/ RecheckPush(r) \/ ReadForMint(r)
  BY <1>3, AccountStays DEF PushRespond, PushFinish, CheckOwner, ResolvePush, ConsumePushApproval, RecheckPush, ReadForMint
<1>4. CASE UNCHANGED vars
  BY <1>4, AccountStays DEF vars
<1>5. CASE Reactivate
  <2>1. user \in Accounts /\ user' = [user EXCEPT !.active = TRUE]
    BY <1>5 DEF TypeInv, Reactivate
  <2>2. /\ user'.enabled = user.enabled /\ user'.secret = user.secret /\ user'.codes = user.codes
        /\ user'.lastStep = user.lastStep
    BY <2>1 DEF Accounts
  <2> QED
    BY <1>5, <2>2 DEF Reactivate, history, AccountMoves, EnabledMoves, StepMoves, CodesMoved, Grows
<1>6. CASE Happens /\ ~Reactivate
  BY <1>6, AccountStays DEF Happens, Logout, ChallengeExpires, DropInactive, StrikesLapse, RegisterDevice,
     ApproveDevice, DropPending, Restart
<1> QED
  BY <1>1, <1>2, <1>3, <1>4, <1>5, <1>6

LEMMA AccountStep == TypeInv /\ [Next]_vars => AccountMoves
BY CodesAccount, ChangesAccount, EnrolAccount, RestAccount DEF Next, Begins, Continues

-----------------------------------------------------------------------------
(* The authenticator that gets enabled.                                     *)
LEMMA ProvenStep ==
  ASSUME TypeInv, ConfirmsProven, EnabledIsProven, [Next]_vars
  PROVE  ConfirmsProven' /\ EnabledIsProven'
<1>1. AccountMoves
  BY AccountStep
<1>2. ASSUME NEW q \in Requests, req'[q].pc \in {"confirm", "enable"} PROVE req'[q].secret \in proven'
  <2>1. Moves(q) /\ proven \subseteq proven'
    BY <1>1, ReqMoves DEF AccountMoves, Grows
  <2>2. CASE Stays(q) \/ Follows(q) \/ ConfirmsStep(q)
    BY <1>2, <2>1, <2>2 DEF Stays, Follows, Arrows, ConfirmsStep, Same, ConfirmsProven
  <2>3. CASE Confirms(q)
    BY <2>3 DEF Confirms, BeginConfirm
  <2> QED
    BY <1>2, <2>1, <2>2, <2>3 DEF Moves, Stops, Idle, Cuts, Makes, RecordsStep, TakesPush, SignsIn,
       Verifies, Offers, Validates, TakesCode, Finishes, Revokes, Prepares
<1>3. EnabledIsProven'
  BY <1>1 DEF AccountMoves, EnabledMoves, Grows, Enables, EnabledIsProven, ConfirmsProven
<1> QED
  BY <1>2, <1>3 DEF ConfirmsProven

(* EnableTOTP enables only a secret that is still the staged one, so        *)
(* whatever setups and confirmations run together, an enabled               *)
(* authenticator is one a code was validated against.                       *)
THEOREM AuthenticatorsProven == Spec => []EnabledIsProven
<1> DEFINE Inv == TypeInv /\ ConfirmsProven /\ EnabledIsProven
<1>1. Init => Inv
  <2> SUFFICES ASSUME Init PROVE Inv
    OBVIOUS
  <2>1. EnabledIsProven
    BY DEF Init, EnabledIsProven
  <2>2. ASSUME NEW r \in Requests PROVE req[r].pc = "idle"
    BY DEF Init, Idle
  <2> QED
    BY <2>1, <2>2, TypeInit DEF ConfirmsProven
<1>2. Inv /\ [Next]_vars => Inv'
  BY TypeStep, ProvenStep
<1> QED
  BY <1>1, <1>2, PTL DEF Spec

-----------------------------------------------------------------------------
(* Devices.  Only what runs under pairingMu touches them.                   *)
LEMMA DevicesStay ==
  ASSUME [Next]_vars, \A r \in Requests : ~RevokeDevices(r), ~Restart,
         \A t \in tokens : ~RegisterDevice(t), \A t \in pending : ~ApproveDevice(t) /\ ~DropPending(t)
  PROVE  UNCHANGED <<sub, pending, devices, incomplete>>
<1>1. CASE Begins
  BY <1>1 DEF Begins, Login, BeginPassword, Deactivate, ClearMFA, ConfirmPassword, Change,
     BeginSetup, BeginPairing, OfferCode, pairing
<1>2. ASSUME NEW r \in Requests, Continues(r) PROVE UNCHANGED <<sub, pending, devices, incomplete>>
  <2>1. CASE \/ VerifyLogin(r) \/ CreateChallenge(r) \/ CheckFence(r) \/ DispatchPush(r)
             \/ ValidateTOTP(r) \/ ConsumeTOTPStep(r) \/ SetLastUsedTOTPStep(r)
             \/ ReadForRecovery(r) \/ ConsumeRecoveryCode(r) \/ AcceptCode(r)
    BY <2>1 DEF VerifyLogin, CreateChallenge, CheckFence, DispatchPush, ValidateTOTP, ConsumeTOTPStep,
       SetLastUsedTOTPStep, ReadForRecovery, ConsumeRecoveryCode, AcceptCode, pairing
  <2>2. CASE \/ \E n \in 1..logins : PushRespond(r, n) \/ PushFinish(r, n)
             \/ CheckOwner(r) \/ ResolvePush(r) \/ ConsumePushApproval(r) \/ RecheckPush(r) \/ ReadForMint(r) \/ MintSession(r)
    BY <2>2 DEF PushRespond, PushFinish, CheckOwner, ResolvePush, ConsumePushApproval, RecheckPush, ReadForMint,
       MintSession, pairing
  <2>3. CASE \/ SetPassword(r) \/ DisableMFA(r) \/ RegenerateCodes(r) \/ RevokeSessions(r) \/ StageSecret(r)
             \/ BeginConfirm(r) \/ ConfirmStep(r) \/ EnableTOTP(r) \/ MintPairingToken(r)
    BY <2>3 DEF SetPassword, DisableMFA, RegenerateCodes, WriteConfirmed, RevokeSessions, StageSecret,
       BeginConfirm, ConfirmStep, EnableTOTP, MintPairingToken, pairing
  <2> QED
    BY <1>2, <2>1, <2>2, <2>3 DEF Continues
<1>3. CASE Happens
  BY <1>3 DEF Happens, Logout, ChallengeExpires, DropInactive, Reactivate, StrikesLapse, pairing
<1> QED
  BY <1>1, <1>2, <1>3 DEF Next, pairing, vars

(* handleNotificationNativeRegister and the approval check the subscriber   *)
(* id under the lock revokeUserCredentials rotates it under, so no token    *)
(* minted before a completed revocation pairs a device after it.            *)
THEOREM RevocationCutsDevices == Spec => []DevicesCutOff
<1>1. Init => DevicesCutOff
  BY DEF Init, DevicesCutOff
<1>2. ASSUME DevicesCutOff, [Next]_vars PROVE DevicesCutOff'
  <2>1. ASSUME NEW r \in Requests, RevokeDevices(r) PROVE DevicesCutOff'
    BY <2>1 DEF RevokeDevices, DevicesCutOff
  <2>2. ASSUME NEW t \in tokens, RegisterDevice(t) PROVE DevicesCutOff'
    <3>1. t.sub = sub /\ sub' = sub /\ incomplete' = incomplete
      BY <2>2 DEF RegisterDevice, SubscriberCurrent
    <3>2. devices' \subseteq devices \cup {t.sub} /\ pending' \subseteq pending \cup {t}
      BY <2>2 DEF RegisterDevice
    <3> QED
      BY <1>2, <3>1, <3>2 DEF DevicesCutOff
  <2>3. ASSUME NEW t \in pending, ApproveDevice(t) \/ DropPending(t) PROVE DevicesCutOff'
    <3>1. sub' = sub /\ incomplete' = incomplete /\ pending' \subseteq pending
      BY <2>3 DEF ApproveDevice, DropPending
    <3>2. devices' \subseteq devices \/ (t.sub = sub /\ devices' = devices \cup {t.sub})
      BY <2>3 DEF ApproveDevice, DropPending, SubscriberCurrent
    <3> QED
      BY <1>2, <3>1, <3>2 DEF DevicesCutOff
  <2>4. CASE Restart
    BY <1>2, <2>4 DEF Restart, DevicesCutOff
  <2>5. CASE UNCHANGED <<sub, pending, devices, incomplete>>
    BY <1>2, <2>5 DEF DevicesCutOff
  <2> QED
    BY <1>2, <2>1, <2>2, <2>3, <2>4, <2>5, DevicesStay
<1> QED
  BY <1>1, <1>2, PTL DEF Spec

-----------------------------------------------------------------------------
(* What a step may do to the challenges: drop some, rewrite one without     *)
(* making it answerable, make one, or push one and supersede the others.    *)
Fresh(q) == [login |-> req[q].login, era |-> req[q].era, fence |-> req[q].fence,
             used |-> 0, wrong |-> 0, push |-> "pending", pushed |-> FALSE]
Alike(c, d) == c.login = d.login /\ c.era = d.era /\ c.fence = d.fence
PushedOut(r, c) == [c EXCEPT !.pushed = (@ \/ c.login = req[r].login)]

Drops    == challenges' \subseteq challenges
Rewrites == \E d \in challenges, c \in Challenges :
              Alike(c, d) /\ (Answerable(c) => Answerable(d)) /\ challenges' = Put(c)
MakesOne == \E r \in Requests : Makes(r) /\ challenges' = Put(Fresh(r))
Supersedes == \E r \in Requests : /\ DispatchPush(r) /\ req[r].pc = "push"
                                /\ challenges' = {PushedOut(r, c) :
                                     c \in {d \in challenges : Resolved(d) \/ d.login = req[r].login}}
ChallengeMoves == Drops \/ Rewrites \/ MakesOne \/ Supersedes

LEMMA WrongCodeMoves ==
  ASSUME TypeInv, NEW n, challenges' = WrongCode(n)
  PROVE  Drops \/ Rewrites
<1>1. CASE ~Live(n)
  BY <1>1 DEF WrongCode, Drops
<1>2. CASE Live(n) /\ Challenge(n).wrong = MaxTOTPAttempts
  BY <1>2 DEF WrongCode, Drops, Deleted
<1>3. CASE Live(n) /\ Challenge(n).wrong # MaxTOTPAttempts
  <2> DEFINE d == Challenge(n)
             c == [d EXCEPT !.wrong = @ + 1]
  <2>1. d \in challenges /\ d \in Challenges
    BY <1>3, LiveChallenge DEF TypeInv
  <2>2. c \in Challenges /\ Alike(c, d) /\ c.pushed = d.pushed /\ c.push = d.push
    BY <2>1 DEF Challenges, Alike
  <2>3. challenges' = Put(c)
    BY <1>3 DEF WrongCode
  <2> HIDE DEF c, d
  <2> QED
    BY <2>1, <2>2, <2>3 DEF Rewrites, Answerable, Resolved
<1> QED
  BY <1>1, <1>2, <1>3

LEMMA CodesChallenges ==
  ASSUME TypeInv, NEW r \in Requests,
         \/ ValidateTOTP(r) \/ ConsumeTOTPStep(r) \/ SetLastUsedTOTPStep(r)
         \/ ReadForRecovery(r) \/ ConsumeRecoveryCode(r) \/ AcceptCode(r)
  PROVE  Drops \/ Rewrites
<1>w. Wrong(r) => Drops \/ Rewrites
  BY WrongCodeMoves DEF Wrong
<1>1. CASE ValidateTOTP(r) \/ ReadForRecovery(r) \/ ConsumeRecoveryCode(r)
  BY <1>w, <1>1 DEF ValidateTOTP, ReadForRecovery, ConsumeRecoveryCode, Withdrawn, Drops
<1>2. CASE SetLastUsedTOTPStep(r) \/ AcceptCode(r)
  BY <1>2 DEF SetLastUsedTOTPStep, AcceptCode, Drops, Deleted
<1>3. CASE ConsumeTOTPStep(r)
  <2>1. CASE Live(req[r].ch) /\ Challenge(req[r].ch).used = 0
    <3> DEFINE d == Challenge(req[r].ch)
               c == [d EXCEPT !.used = req[r].factor[2]]
    <3>1. d \in challenges /\ d \in Challenges /\ req[r].factor[2] \in Nat
      BY <1>3, <2>1, LiveChallenge DEF TypeInv, TotpCarried, TotpPCs, ConsumeTOTPStep, At
    <3>2. c \in Challenges /\ Alike(c, d) /\ c.pushed = d.pushed /\ c.push = d.push
      BY <3>1 DEF Challenges, Alike
    <3>3. challenges' = Put(c)
      BY <1>3, <2>1 DEF ConsumeTOTPStep
    <3> HIDE DEF c, d
    <3> QED
      BY <3>1, <3>2, <3>3 DEF Rewrites, Answerable, Resolved
  <2>2. CASE ~(Live(req[r].ch) /\ Challenge(req[r].ch).used = 0)
    BY <1>3, <2>2 DEF ConsumeTOTPStep, Drops
  <2> QED
    BY <2>1, <2>2
<1> QED
  BY <1>1, <1>2, <1>3

LEMMA ResolveChallenges ==
  ASSUME TypeInv, NEW r \in Requests, ResolvePush(r)
  PROVE  Drops \/ Rewrites
<1>1. CASE Live(req[r].ch) /\ ~Resolved(Challenge(req[r].ch))
  <2> DEFINE d == Challenge(req[r].ch)
  <2>1. d \in challenges /\ d \in Challenges
    BY <1>1, LiveChallenge DEF TypeInv
  <2>2. PICK a \in {"approved", "denied", "locked"} : challenges' = Put([d EXCEPT !.push = a])
    BY <1>1 DEF ResolvePush
  <2> DEFINE c == [d EXCEPT !.push = a]
  <2>3. c \in Challenges /\ Alike(c, d) /\ c.push = a
    BY <2>1 DEF Challenges, Alike, Pushes
  <2> HIDE DEF c, d
  <2>4. ~Answerable(c)
    BY <2>3 DEF Answerable, Resolved
  <2> QED
    BY <2>1, <2>2, <2>3, <2>4 DEF Rewrites, c
<1>2. CASE ~(Live(req[r].ch) /\ ~Resolved(Challenge(req[r].ch)))
  BY <1>2 DEF ResolvePush, Drops
<1> QED
  BY <1>1, <1>2

LEMMA ChallengeStep == TypeInv /\ [Next]_vars => ChallengeMoves
<1> SUFFICES ASSUME TypeInv, [Next]_vars PROVE ChallengeMoves
  OBVIOUS
<1>1. CASE Begins \/ UNCHANGED vars
  BY <1>1 DEF Begins, Login, BeginPassword, Deactivate, ClearMFA, ConfirmPassword, Change,
     BeginSetup, BeginPairing, OfferCode, memory, vars, ChallengeMoves, Drops
<1>2. ASSUME NEW r \in Requests, Continues(r) PROVE ChallengeMoves
  <2>1. CASE CreateChallenge(r)
    BY <2>1, GoesSame DEF CreateChallenge, At, PCs, Makes, MakesOne, Fresh, ChallengeMoves
  <2>2. CASE DispatchPush(r)
    BY <2>2 DEF DispatchPush, At, PushedOut, Supersedes, Drops, ChallengeMoves
  <2>3. CASE VerifyLogin(r) \/ CheckFence(r)
    BY <2>3 DEF VerifyLogin, CheckFence, memory, Drops, Deleted, ChallengeMoves
  <2>4. CASE \/ ValidateTOTP(r) \/ ConsumeTOTPStep(r) \/ SetLastUsedTOTPStep(r)
             \/ ReadForRecovery(r) \/ ConsumeRecoveryCode(r) \/ AcceptCode(r) \/ ResolvePush(r)
    BY <2>4, CodesChallenges, ResolveChallenges DEF ChallengeMoves
  <2>5. CASE \/ \E n \in 1..logins : PushRespond(r, n) \/ PushFinish(r, n)
             \/ CheckOwner(r) \/ ConsumePushApproval(r) \/ RecheckPush(r) \/ ReadForMint(r) \/ MintSession(r)
    BY <2>5 DEF PushRespond, PushFinish, CheckOwner, ConsumePushApproval, RecheckPush, ReadForMint, MintSession,
       memory, Drops, Deleted, ChallengeMoves
  <2>6. CASE \/ SetPassword(r) \/ DisableMFA(r) \/ RegenerateCodes(r) \/ RevokeSessions(r) \/ RevokeDevices(r)
             \/ StageSecret(r) \/ BeginConfirm(r) \/ ConfirmStep(r) \/ EnableTOTP(r) \/ MintPairingToken(r)
    BY <2>6 DEF SetPassword, DisableMFA, RegenerateCodes, WriteConfirmed, RevokeSessions, RevokeDevices,
       StageSecret, BeginConfirm, ConfirmStep, EnableTOTP, MintPairingToken, memory, Drops, ChallengeMoves
  <2> QED
    BY <1>2, <2>1, <2>2, <2>3, <2>4, <2>5, <2>6 DEF Continues
<1>3. CASE Happens
  BY <1>3 DEF Happens, Logout, ChallengeExpires, DropInactive, Reactivate, StrikesLapse, RegisterDevice,
     ApproveDevice, DropPending, Restart, memory, Drops, Deleted, ChallengeMoves
<1> QED
  BY <1>1, <1>2, <1>3 DEF Next

LEMMA PushedOutKeeps ==
  ASSUME NEW c \in Challenges, NEW r \in Requests
  PROVE  Alike(PushedOut(r, c), c) /\ PushedOut(r, c).push = c.push
BY DEF PushedOut, Alike, Challenges

LEMMA FreshFields ==
  ASSUME NEW r \in Requests
  PROVE  /\ Fresh(r).login = req[r].login /\ Fresh(r).era = req[r].era
         /\ Fresh(r).fence = req[r].fence /\ ~Answerable(Fresh(r))
BY DEF Fresh, Answerable

(* Challenges stay one of each sign-in, and one push stays answerable.      *)
LEMMA AnswerableStep ==
  ASSUME TypeInv, OneOfEach, AnswerableOnce, [Next]_vars
  PROVE  OneOfEach' /\ AnswerableOnce'
<1>0. ChallengeMoves
  BY ChallengeStep
<1>1. CASE Drops
  BY <1>1 DEF Drops, OneOfEach, AnswerableOnce, Answerable, Resolved
<1>2. CASE Rewrites
  <2>1. PICK d \in challenges, c \in Challenges :
          Alike(c, d) /\ (Answerable(c) => Answerable(d)) /\ challenges' = Put(c)
    BY <1>2 DEF Rewrites
  <2>2. \A e \in challenges' : e = c \/ (e \in challenges /\ e.login # c.login)
    BY <2>1 DEF Put, Deleted
  <2> QED
    BY <2>1, <2>2 DEF OneOfEach, AnswerableOnce, Answerable, Resolved, Alike
<1>3. CASE MakesOne
  <2>1. PICK r \in Requests : challenges' = Put(Fresh(r))
    BY <1>3 DEF MakesOne
  <2>2. \A e \in challenges' : e = Fresh(r) \/ (e \in challenges /\ e.login # Fresh(r).login)
    BY <2>1 DEF Put, Deleted
  <2> QED
    BY <2>1, <2>2, FreshFields DEF OneOfEach, AnswerableOnce, Answerable, Resolved
<1>4. CASE Supersedes
  <2>1. PICK r \in Requests :
          challenges' = {PushedOut(r, c) : c \in {d \in challenges : Resolved(d) \/ d.login = req[r].login}}
    BY <1>4 DEF Supersedes
  <2>2. ASSUME NEW e \in challenges'
        PROVE  \E c \in challenges : /\ e = PushedOut(r, c) /\ e.login = c.login
                                     /\ Answerable(e) => e.login = req[r].login
    <3>1. PICK c \in challenges : e = PushedOut(r, c) /\ (Resolved(c) \/ c.login = req[r].login)
      BY <2>1
    <3>2. Alike(e, c) /\ e.push = c.push
      BY <3>1, PushedOutKeeps DEF TypeInv
    <3> QED
      BY <3>1, <3>2 DEF Alike, Answerable, Resolved
  <2>3. OneOfEach'
    BY <2>2 DEF OneOfEach
  <2>4. AnswerableOnce'
    BY <2>2 DEF AnswerableOnce, Answerable, Resolved
  <2> QED
    BY <2>3, <2>4
<1> QED
  BY <1>0, <1>1, <1>2, <1>3, <1>4 DEF ChallengeMoves

(* SupersedeUnansweredPush runs in the locked section that pushes, so       *)
(* however sign-ins interleave, one push of the account can be answered.    *)
THEOREM OnePushAtATime == Spec => []OnePushAnswerable
<1> DEFINE Inv == TypeInv /\ OneOfEach /\ AnswerableOnce
<1>1. Init => Inv
  BY TypeInit DEF Init, OneOfEach, AnswerableOnce
<1>2. Inv /\ [Next]_vars => Inv'
  BY TypeStep, AnswerableStep
<1>3. Inv => OnePushAnswerable
  <2> SUFFICES ASSUME Inv PROVE OnePushAnswerable
    OBVIOUS
  <2> DEFINE A == {c \in challenges : c.pushed /\ ~Resolved(c)}
  <2>1. \A c, d \in A : c = d
    BY DEF OneOfEach, AnswerableOnce, Answerable
  <2>2. CASE A = {}
    BY <2>2, FS_EmptySet DEF OnePushAnswerable
  <2>3. CASE A # {}
    <3>1. PICK c \in A : A = {c}
      BY <2>1, <2>3
    <3>2. Cardinality(A) = 1
      BY <3>1, FS_Singleton
    <3> QED
      BY <3>2 DEF OnePushAnswerable
  <2> QED
    BY <2>2, <2>3
<1> QED
  BY <1>1, <1>2, <1>3, PTL DEF Spec

-----------------------------------------------------------------------------
(* Sessions.  Outside a revocation and a restart, a session is there only   *)
(* if it was or if a request behind an unbroken fence minted it.            *)
Mints(r) == req[r].pc = "store" /\ ~Fenced(r)
Quiet == /\ UNCHANGED <<revocations, revokedAt>>
         /\ \A s \in sessions' : s \in sessions \/ \E r \in Requests : Mints(r) /\ s.era = req[r].era

LEMMA MemoryStep ==
  ASSUME [Next]_vars, ~Restart, \A r \in Requests : ~RevokeSessions(r)
  PROVE  Quiet
<1>1. CASE Begins \/ UNCHANGED vars
  BY <1>1 DEF Begins, Login, BeginPassword, Deactivate, ClearMFA, ConfirmPassword, Change,
     BeginSetup, BeginPairing, OfferCode, memory, vars, Quiet
<1>2. ASSUME NEW r \in Requests, Continues(r) PROVE Quiet
  <2>1. CASE \/ VerifyLogin(r) \/ CreateChallenge(r) \/ CheckFence(r) \/ DispatchPush(r)
             \/ ValidateTOTP(r) \/ ConsumeTOTPStep(r) \/ SetLastUsedTOTPStep(r)
             \/ ReadForRecovery(r) \/ ConsumeRecoveryCode(r) \/ AcceptCode(r)
    BY <2>1 DEF VerifyLogin, CreateChallenge, CheckFence, DispatchPush, ValidateTOTP, ConsumeTOTPStep,
       SetLastUsedTOTPStep, ReadForRecovery, ConsumeRecoveryCode, AcceptCode, memory, Quiet
  <2>2. CASE \/ \E n \in 1..logins : PushRespond(r, n) \/ PushFinish(r, n)
             \/ CheckOwner(r) \/ ResolvePush(r) \/ ConsumePushApproval(r) \/ RecheckPush(r) \/ ReadForMint(r)
    BY <2>2 DEF PushRespond, PushFinish, CheckOwner, ResolvePush, ConsumePushApproval, RecheckPush, ReadForMint,
       memory, Quiet
  <2>3. CASE MintSession(r)
    BY <2>3 DEF MintSession, At, Mints, Quiet
  <2>4. CASE \/ SetPassword(r) \/ DisableMFA(r) \/ RegenerateCodes(r) \/ RevokeDevices(r) \/ StageSecret(r)
             \/ BeginConfirm(r) \/ ConfirmStep(r) \/ EnableTOTP(r) \/ MintPairingToken(r)
    BY <2>4 DEF SetPassword, DisableMFA, RegenerateCodes, WriteConfirmed, RevokeDevices, StageSecret,
       BeginConfirm, ConfirmStep, EnableTOTP, MintPairingToken, memory, Quiet
  <2> QED
    BY <1>2, <2>1, <2>2, <2>3, <2>4 DEF Continues
<1>3. CASE Happens
  BY <1>3 DEF Happens, Logout, ChallengeExpires, DropInactive, Reactivate, StrikesLapse, RegisterDevice,
     ApproveDevice, DropPending, memory, Quiet
<1> QED
  BY <1>1, <1>2, <1>3 DEF Next

(* A change that revokes leaves its revocation owed.                        *)
OwedNext(e) == \E r \in Requests : req'[r].pc = "revoke" /\ req'[r].era = e

LEMMA EraStep ==
  ASSUME TypeInv, [Next]_vars
  PROVE  era' = era \/ (era' = era + 1 /\ OwedNext(era + 1))
<1>0. era' = era => era' = era \/ (era' = era + 1 /\ OwedNext(era + 1))
  OBVIOUS
<1>1. CASE Happens \/ UNCHANGED vars
  BY <1>1 DEF Happens, Logout, ChallengeExpires, DropInactive, Reactivate, StrikesLapse,
     RegisterDevice, ApproveDevice, DropPending, Restart, account, vars
<1>2. ASSUME NEW r \in Requests,
             \/ VerifyLogin(r) \/ CreateChallenge(r) \/ CheckFence(r) \/ DispatchPush(r)
             \/ ValidateTOTP(r) \/ ConsumeTOTPStep(r) \/ SetLastUsedTOTPStep(r)
             \/ ReadForRecovery(r) \/ ConsumeRecoveryCode(r) \/ AcceptCode(r)
             \/ Login(r) \/ BeginPassword(r) \/ ConfirmPassword(r) \/ BeginSetup(r) \/ BeginPairing(r)
             \/ MintPairingToken(r) \/ \E n \in 1..logins : OfferCode(r, n)
      PROVE  era' = era
  BY <1>2 DEF VerifyLogin, CreateChallenge, CheckFence, DispatchPush, ValidateTOTP, ConsumeTOTPStep,
     SetLastUsedTOTPStep, ReadForRecovery, ConsumeRecoveryCode, AcceptCode, Login, BeginPassword,
     ConfirmPassword, BeginSetup, BeginPairing, MintPairingToken, OfferCode, account
<1>3. ASSUME NEW r \in Requests,
             \/ \E n \in 1..logins : PushRespond(r, n) \/ PushFinish(r, n)
             \/ CheckOwner(r) \/ ResolvePush(r) \/ ConsumePushApproval(r) \/ RecheckPush(r) \/ ReadForMint(r) \/ MintSession(r)
             \/ RevokeSessions(r) \/ RevokeDevices(r)
             \/ StageSecret(r) \/ BeginConfirm(r) \/ ConfirmStep(r) \/ EnableTOTP(r)
      PROVE  era' = era
  BY <1>3 DEF PushRespond, PushFinish, CheckOwner, ResolvePush, ConsumePushApproval, RecheckPush, ReadForMint,
     MintSession, RevokeSessions, RevokeDevices, StageSecret, BeginConfirm, ConfirmStep, EnableTOTP, account
<1>4. ASSUME NEW r \in Requests, SetPassword(r)
      PROVE  era' = era \/ (era' = era + 1 /\ OwedNext(era + 1))
  <2>1. CASE RevisionCurrent(r)
    <3>0. req[r] \in Handlers
      BY DEF TypeInv
    <3>1. req'[r] = [req[r] EXCEPT !.pc = "revoke", !.all = TRUE, !.era = era + 1] /\ era' = era + 1
      BY <1>4, <2>1 DEF SetPassword, TypeInv
    <3>2. req'[r].pc = "revoke" /\ req'[r].era = era + 1
      BY <3>0, <3>1 DEF Handlers
    <3> QED
      BY <3>1, <3>2 DEF OwedNext
  <2>2. CASE ~RevisionCurrent(r)
    BY <1>4, <2>2 DEF SetPassword, account
  <2> QED
    BY <2>1, <2>2
<1>5. ASSUME NEW r \in Requests, NEW u, NEW keep, NEW all, Change(r, u, keep, all)
      PROVE  era' = era + 1 /\ OwedNext(era + 1)
  <2> DEFINE h == [Idle EXCEPT !.pc = "revoke", !.era = era + 1, !.keep = keep, !.all = all]
  <2>1. h.pc = "revoke" /\ h.era = era + 1
    BY DEF Idle
  <2>2. req'[r] = h /\ era' = era + 1
    BY <1>5, StartEffect DEF Change
  <2> QED
    BY <2>1, <2>2 DEF OwedNext
<1>6. ASSUME NEW r \in Requests, Deactivate(r) \/ ClearMFA(r)
      PROVE  era' = era + 1 /\ OwedNext(era + 1)
  BY <1>5, <1>6 DEF Deactivate, ClearMFA
<1>7. ASSUME NEW r \in Requests, DisableMFA(r) \/ RegenerateCodes(r)
      PROVE  era' = era + 1 /\ OwedNext(era + 1)
  <2>0. req[r] \in Handlers
    BY DEF TypeInv
  <2>1. req'[r] = [req[r] EXCEPT !.pc = "revoke", !.era = era + 1] /\ era' = era + 1
    BY <1>7 DEF DisableMFA, RegenerateCodes, WriteConfirmed, TypeInv
  <2>2. req'[r].pc = "revoke" /\ req'[r].era = era + 1
    BY <2>0, <2>1 DEF Handlers
  <2> QED
    BY <2>1, <2>2 DEF OwedNext
<1> QED
  BY <1>1, <1>2, <1>3, <1>4, <1>6, <1>7 DEF Next, Begins, Continues

(* A revocation is owed until its request makes it.                         *)
LEMMA OwedStays ==
  ASSUME TypeInv, [Next]_vars, ~Restart, \A r \in Requests : ~RevokeSessions(r), NEW e, OwedFor(e)
  PROVE  OwedNext(e)
<1>1. PICK r \in Requests : req[r].pc = "revoke" /\ req[r].era = e
  BY DEF OwedFor
<1>2. Moves(r)
  BY ReqMoves
<1>3. Stays(r)
  BY <1>1, <1>2 DEF Moves, Stops, Follows, Arrows, Cuts, Makes, RecordsStep, TakesPush, ConfirmsStep,
     SignsIn, Login, At, Verifies, Offers, Copies, Validates, TakesCode, Finishes, Revokes, Confirms, Prepares
<1> QED
  BY <1>1, <1>3 DEF Stays, OwedNext

(* Outside a revocation and a restart, what held of a sign-in still does.   *)
Later(e0) == \A e \in Nat : e0 < e /\ e <= era => OwedFor(e)

LEMMA LaterStays ==
  ASSUME TypeInv, [Next]_vars, ~Restart, \A r \in Requests : ~RevokeSessions(r), NEW e0 \in Nat, Later(e0)
  PROVE  \A e \in Nat : e0 < e /\ e <= era' => OwedNext(e)
<1> SUFFICES ASSUME NEW e \in Nat, e0 < e, e <= era' PROVE OwedNext(e)
  OBVIOUS
<1>1. era \in Nat /\ (era' = era \/ (era' = era + 1 /\ OwedNext(era + 1)))
  BY EraStep DEF TypeInv
<1>2. e <= era \/ (e = era + 1 /\ era' = era + 1)
  BY <1>1
<1>3. CASE e <= era
  BY <1>3, OwedStays DEF Later
<1> QED
  BY <1>1, <1>2, <1>3

SoundNext(e0, f) ==
  /\ e0 <= era' /\ f <= revocations' + 1
  /\ revokedAt' >= f \/ \A e \in Nat : e0 < e /\ e <= era' => OwedNext(e)

LEMMA SoundStays ==
  ASSUME TypeInv, [Next]_vars, ~Restart, \A r \in Requests : ~RevokeSessions(r),
         NEW e0 \in Nat, NEW f \in Nat, Sound(e0, f)
  PROVE  SoundNext(e0, f)
<1>1. era \in Nat /\ (era' = era \/ era' = era + 1) /\ UNCHANGED <<revocations, revokedAt>>
  BY EraStep, MemoryStep DEF TypeInv, Quiet
<1>2. revokedAt >= f \/ Later(e0)
  BY DEF Sound, Later
<1>3. e0 <= era' /\ f <= revocations' + 1
  BY <1>1 DEF Sound
<1> QED
  BY <1>1, <1>2, <1>3, LaterStays DEF SoundNext


(* Every challenge continues one, or was just made for its request.         *)
LEMMA ChallengeOrigin ==
  ASSUME TypeInv, [Next]_vars, NEW c \in challenges'
  PROVE  \/ \E d \in challenges : Alike(c, d)
         \/ \E r \in Requests : /\ Makes(r) /\ c.login = req[r].login
                                /\ c.era = req[r].era /\ c.fence = req[r].fence
<1>0. ChallengeMoves
  BY ChallengeStep
<1>1. CASE Drops
  BY <1>1 DEF Drops, Alike
<1>2. CASE Rewrites
  BY <1>2 DEF Rewrites, Put, Deleted, Alike
<1>3. CASE MakesOne
  BY <1>3, FreshFields DEF MakesOne, Put, Deleted, Alike
<1>4. CASE Supersedes
  BY <1>4, PushedOutKeeps DEF Supersedes, TypeInv
<1> QED
  BY <1>0, <1>1, <1>2, <1>3, <1>4 DEF ChallengeMoves

(* The fence of a sign-in, from its first read to the session.              *)
LEMMA FencesQuiet ==
  ASSUME TypeInv, FencesHold, [Next]_vars, ~Restart, \A r \in Requests : ~RevokeSessions(r)
  PROVE  FencesHold'
<1>0. Quiet /\ UNCHANGED <<revocations, revokedAt>> /\ era \in Nat /\ revocations \in Nat
  BY MemoryStep DEF Quiet, TypeInv
<1>1. ASSUME NEW q \in Requests, req'[q].pc = "verify" PROVE req'[q].fence <= revocations' + 1
  <2>1. Moves(q)
    BY ReqMoves
  <2>2. Stays(q) \/ SignsIn(q)
    BY <1>1, <2>1 DEF Moves, Stops, Idle, Follows, Arrows, Cuts, Makes, RecordsStep, TakesPush, ConfirmsStep,
       Verifies, Offers, Validates, TakesCode, Finishes, Revokes, Confirms, Prepares
  <2> QED
    BY <1>0, <1>1, <2>2 DEF Stays, SignsIn, FencesHold
<1>2. ASSUME NEW q \in Requests, req'[q].pc \in Verified PROVE SoundNext(req'[q].era, req'[q].fence)
  <2>0. req[q] \in Handlers /\ req[q].era \in Nat /\ req[q].fence \in Nat
    BY DEF TypeInv, Handlers
  <2>1. Moves(q)
    BY ReqMoves
  <2>2. CASE Verifies(q)
    <3>1. era' = era /\ req'[q].era = era /\ req'[q].fence <= revocations + 1
      BY <2>2 DEF Verifies, VerifyLogin, account, FencesHold
    <3> QED
      BY <1>0, <3>1 DEF SoundNext
  <2>3. ASSUME NEW n \in 1..logins, Copies(q, n) PROVE SoundNext(req'[q].era, req'[q].fence)
    <3> DEFINE c == Challenge(n)
    <3>1. c \in challenges /\ c.era \in Nat /\ c.fence \in Nat /\ req'[q].era = c.era /\ req'[q].fence = c.fence
      BY <2>3, LiveChallenge, LiveTyped DEF Copies
    <3>2. Sound(c.era, c.fence)
      BY <3>1 DEF FencesHold
    <3> HIDE DEF c
    <3> QED
      BY <3>1, <3>2, SoundStays
  <2>4. CASE /\ req[q].pc \in Verified
             /\ req'[q].era = req[q].era /\ req'[q].fence = req[q].fence
    BY <2>0, <2>4, SoundStays DEF FencesHold
  <2>5. CASE Stays(q) \/ Follows(q) \/ Makes(q) \/ RecordsStep(q) \/ TakesPush(q) \/ Validates(q) \/ TakesCode(q)
    BY <1>2, <2>4, <2>5 DEF Stays, Follows, Arrows, Makes, RecordsStep, TakesPush, Validates, TakesCode,
       Same, Verified
  <2> QED
    BY <1>2, <2>1, <2>2, <2>3, <2>5 DEF Moves, Stops, Idle, Cuts, ConfirmsStep, SignsIn, Offers, Finishes,
       Revokes, Confirms, Prepares, Verified
<1>3. ASSUME NEW c \in challenges' PROVE SoundNext(c.era, c.fence)
  <2>1. CASE \E d \in challenges : Alike(c, d)
    <3>1. PICK d \in challenges : c.era = d.era /\ c.fence = d.fence
      BY <2>1 DEF Alike
    <3>2. d.era \in Nat /\ d.fence \in Nat
      BY DEF TypeInv, Challenges
    <3> QED
      BY <3>1, <3>2, SoundStays DEF FencesHold
  <2>2. CASE \E r \in Requests : Makes(r) /\ c.era = req[r].era /\ c.fence = req[r].fence
    <3>1. PICK r \in Requests : Makes(r) /\ c.era = req[r].era /\ c.fence = req[r].fence
      BY <2>2
    <3>2. req[r].era \in Nat /\ req[r].fence \in Nat
      BY DEF TypeInv, Handlers
    <3> QED
      BY <3>1, <3>2, SoundStays DEF FencesHold, Makes, Verified
  <2> QED
    BY <2>1, <2>2, ChallengeOrigin
<1>4. ASSUME NEW q \in Requests, req'[q].pc = "revoke" PROVE req'[q].era <= era'
  <2>1. Moves(q) /\ era' \in {era, era + 1} /\ req[q].era \in Nat
    BY ReqMoves, EraStep DEF TypeInv, Handlers
  <2>2. Stays(q) \/ Revokes(q)
    BY <1>4, <2>1 DEF Moves, Stops, Idle, Follows, Arrows, Cuts, Makes, RecordsStep, TakesPush, ConfirmsStep,
       SignsIn, Verifies, Offers, Validates, TakesCode, Finishes, Confirms, Prepares
  <2> QED
    BY <1>0, <1>4, <2>1, <2>2 DEF Stays, Revokes, FencesHold
<1> QED
  BY <1>1, <1>2, <1>3, <1>4 DEF FencesHold, Sound, SoundNext, OwedFor, OwedNext

LEMMA SessionsQuiet ==
  ASSUME TypeInv, FencesHold, SessionsOwed, [Next]_vars, ~Restart, \A r \in Requests : ~RevokeSessions(r)
  PROVE  SessionsOwed'
<1>1. ASSUME NEW s \in sessions'
      PROVE  s.era <= era' /\ \A e \in Nat : s.era < e /\ e <= era' => OwedNext(e)
  <2>1. s.era \in Nat /\ s.era <= era /\ Later(s.era)
    <3>1. CASE s \in sessions
      BY <3>1 DEF SessionsOwed, Later, TypeInv, Sessions
    <3>2. CASE \E r \in Requests : Mints(r) /\ s.era = req[r].era
      <4>1. PICK r \in Requests : Mints(r) /\ s.era = req[r].era
        BY <3>2
      <4>2. req[r].era \in Nat /\ req[r].fence \in Nat /\ revokedAt \in Nat /\ Sound(req[r].era, req[r].fence)
        BY <4>1 DEF Mints, FencesHold, Verified, TypeInv, Handlers
      <4> QED
        BY <4>1, <4>2 DEF Mints, Fenced, Sound, Later
    <3> QED
      BY <3>1, <3>2, MemoryStep DEF Quiet
  <2>2. era \in Nat /\ era' \in {era, era + 1}
    BY EraStep DEF TypeInv
  <2> QED
    BY <2>1, <2>2, LaterStays
<1> QED
  BY <1>1 DEF SessionsOwed, OwedFor, OwedNext

(* revokeUserSessions breaks every fence read before it and drops every     *)
(* session but the caller's, which knows of this change and of the earlier. *)
LEMMA SessionsRevoked ==
  ASSUME TypeInv, FencesHold, SessionsOwed, NEW r \in Requests, RevokeSessions(r)
  PROVE  FencesHold' /\ SessionsOwed'
<1>0. /\ era \in Nat /\ revocations \in Nat /\ era' = era /\ challenges' = {} /\ req[r] \in Handlers
      /\ revocations' = revocations + 1 /\ revokedAt' = revocations + 1
  BY DEF TypeInv, RevokeSessions, account
<1>1. Moves(r) /\ Others(r)
  BY ChangesMoves
<1>2. req'[r].pc \in {"devices", "idle"}
  <2>1. CASE req[r].all
    BY <2>1, GoesSame DEF RevokeSessions, PCs
  <2>2. CASE ~req[r].all
    BY <2>2, EndsEffect DEF RevokeSessions, Idle
  <2> QED
    BY <2>1, <2>2
<1>3. ASSUME NEW q \in Requests, q # r
      PROVE  req'[q] = req[q] /\ req[q].fence \in Nat /\ req[q].era \in Nat
  BY <1>1, <1>3 DEF Others, TypeInv, Handlers
<1>4. FencesHold'
  <2>1. ASSUME NEW q \in Requests, req'[q].pc = "verify" PROVE req'[q].fence <= revocations' + 1
    BY <1>0, <1>2, <1>3, <2>1 DEF FencesHold
  <2>2. ASSUME NEW q \in Requests, req'[q].pc \in Verified PROVE SoundNext(req'[q].era, req'[q].fence)
    <3>1. q # r
      BY <1>2, <2>2 DEF Verified
    <3>2. req[q].era <= era /\ req[q].fence <= revocations + 1
      BY <1>3, <2>2, <3>1 DEF FencesHold, Sound
    <3> QED
      BY <1>0, <1>3, <3>1, <3>2 DEF SoundNext
  <2>3. ASSUME NEW q \in Requests, req'[q].pc = "revoke" PROVE req'[q].era <= era'
    BY <1>0, <1>2, <1>3, <2>3 DEF FencesHold
  <2> QED
    BY <1>0, <2>1, <2>2, <2>3 DEF FencesHold, Sound, SoundNext, OwedFor, OwedNext
<1>5. ASSUME NEW s \in sessions'
      PROVE  s.era <= era' /\ \A e \in Nat : s.era < e /\ e <= era' => OwedNext(e)
  <2>1. PICK t \in sessions : s = [t EXCEPT !.era = IF req[r].era > @ THEN req[r].era ELSE @]
    BY DEF RevokeSessions
  <2>2. t.era \in Nat /\ req[r].era \in Nat /\ req[r].era <= era
    BY <1>0 DEF TypeInv, Sessions, Handlers, FencesHold, RevokeSessions, At
  <2>3. s.era = IF req[r].era > t.era THEN req[r].era ELSE t.era
    BY <2>1 DEF TypeInv, Sessions
  <2>4. t.era <= era /\ Later(t.era)
    BY DEF SessionsOwed, Later
  <2>5. ASSUME NEW e \in Nat, s.era < e, e <= era PROVE OwedNext(e)
    <3>1. t.era < e /\ req[r].era < e
      BY <2>2, <2>3, <2>5
    <3>2. PICK q \in Requests : req[q].pc = "revoke" /\ req[q].era = e
      BY <2>4, <2>5, <3>1 DEF Later, OwedFor
    <3>3. q # r
      BY <2>2, <3>1, <3>2
    <3> QED
      BY <1>3, <3>2, <3>3 DEF OwedNext
  <2> QED
    BY <1>0, <2>2, <2>3, <2>4, <2>5
<1> QED
  BY <1>4, <1>5 DEF SessionsOwed, OwedFor, OwedNext

LEMMA SessionsRestart ==
  ASSUME Restart
  PROVE  FencesHold' /\ SessionsOwed'
<1>1. ASSUME NEW q \in Requests PROVE req'[q].pc = "idle"
  BY DEF Restart, Idle
<1> QED
  BY <1>1 DEF Restart, FencesHold, SessionsOwed, Verified

(* mintSession refuses behind a fence that a revocation broke, and every    *)
(* change of the account is followed by its revocation: whatever sign-in    *)
(* was in flight, no session outlives a change but while it is still owed.  *)
THEOREM RevocationCutsSessions == Spec => []SessionsCutOff
<1> DEFINE Inv == TypeInv /\ FencesHold /\ SessionsOwed
<1>1. Init => Inv
  <2> SUFFICES ASSUME Init PROVE Inv
    OBVIOUS
  <2>1. ASSUME NEW r \in Requests PROVE req[r].pc = "idle"
    BY DEF Init, Idle
  <2> QED
    BY <2>1, TypeInit DEF Init, FencesHold, SessionsOwed, Verified
<1>2. Inv /\ [Next]_vars => Inv'
  BY TypeStep, FencesQuiet, SessionsQuiet, SessionsRevoked, SessionsRestart
<1>3. Inv => SessionsCutOff
  <2> SUFFICES ASSUME Inv, NEW s \in sessions, s.era # era PROVE Owing # {}
    BY DEF SessionsCutOff
  <2>1. era \in Nat /\ s.era \in Nat /\ s.era <= era
    BY DEF TypeInv, Sessions, SessionsOwed
  <2>2. OwedFor(era)
    BY <2>1 DEF SessionsOwed
  <2> QED
    BY <2>2 DEF OwedFor, Owing, At
<1> QED
  BY <1>1, <1>2, <1>3, PTL DEF Spec

-----------------------------------------------------------------------------
(* Factors.  They are spent by a session, or by a confirmed enrolment.      *)
Brings(r) == /\ req[r].pc = "store" /\ req'[r] = Idle /\ factors' = factors \cup {req[r].factor}
             /\ twice' = (twice \/ (req[r].factor \in factors /\ req[r].factor # None))
Spends(r) == /\ ConfirmsStep(r) /\ factors' = factors \cup {req[r].factor}
             /\ twice' = (twice \/ req[r].factor \in factors)
FactorMoves == \/ UNCHANGED <<factors, twice>>
               \/ \E r \in Requests : Others(r) /\ (Brings(r) \/ Spends(r))

LEMMA FactorStep ==
  ASSUME TypeInv, [Next]_vars
  PROVE  FactorMoves
<1>1. CASE Begins \/ UNCHANGED vars
  BY <1>1 DEF Begins, Login, BeginPassword, Deactivate, ClearMFA, ConfirmPassword, Change,
     BeginSetup, BeginPairing, OfferCode, history, vars, FactorMoves
<1>2. ASSUME NEW r \in Requests, Continues(r) PROVE FactorMoves
  <2>1. CASE \/ VerifyLogin(r) \/ CreateChallenge(r) \/ CheckFence(r) \/ DispatchPush(r)
             \/ ValidateTOTP(r) \/ ConsumeTOTPStep(r) \/ SetLastUsedTOTPStep(r)
             \/ ReadForRecovery(r) \/ ConsumeRecoveryCode(r) \/ AcceptCode(r)
    BY <2>1 DEF VerifyLogin, CreateChallenge, CheckFence, DispatchPush, ValidateTOTP, ConsumeTOTPStep,
       SetLastUsedTOTPStep, ReadForRecovery, ConsumeRecoveryCode, AcceptCode, history, FactorMoves
  <2>2. CASE \/ \E n \in 1..logins : PushRespond(r, n) \/ PushFinish(r, n)
             \/ CheckOwner(r) \/ ResolvePush(r) \/ ConsumePushApproval(r) \/ RecheckPush(r) \/ ReadForMint(r)
    BY <2>2 DEF PushRespond, PushFinish, CheckOwner, ResolvePush, ConsumePushApproval, RecheckPush, ReadForMint,
       history, FactorMoves
  <2>3. CASE MintSession(r)
    <3>1. req'[r] = Idle /\ Others(r)
      BY <2>3, EndsEffect DEF MintSession
    <3> QED
      BY <2>3, <3>1 DEF MintSession, At, Brings, FactorMoves
  <2>4. CASE ConfirmStep(r)
    <3>1. CASE NewerStep(req[r].factor[2])
      <4>1. ConfirmsStep(r) /\ Others(r)
        BY <2>4, <3>1, GoesSame DEF ConfirmStep, NewerStep, At, PCs, ConfirmsStep
      <4> QED
        BY <2>4, <3>1, <4>1 DEF ConfirmStep, Spends, FactorMoves
    <3>2. CASE ~NewerStep(req[r].factor[2])
      BY <2>4, <3>2 DEF ConfirmStep, FactorMoves
    <3> QED
      BY <3>1, <3>2
  <2>5. CASE \/ SetPassword(r) \/ DisableMFA(r) \/ RegenerateCodes(r) \/ RevokeSessions(r) \/ RevokeDevices(r)
             \/ StageSecret(r) \/ BeginConfirm(r) \/ EnableTOTP(r) \/ MintPairingToken(r)
    BY <2>5 DEF SetPassword, DisableMFA, RegenerateCodes, WriteConfirmed, RevokeSessions, RevokeDevices,
       StageSecret, BeginConfirm, EnableTOTP, MintPairingToken, history, FactorMoves
  <2> QED
    BY <1>2, <2>1, <2>2, <2>3, <2>4, <2>5 DEF Continues
<1>3. CASE Happens
  BY <1>3 DEF Happens, Logout, ChallengeExpires, DropInactive, Reactivate, StrikesLapse, RegisterDevice,
     ApproveDevice, DropPending, Restart, history, FactorMoves
<1> QED
  BY <1>1, <1>2, <1>3 DEF Next

(* A request holds its factor, or has just taken it.                        *)
HoldsNext(q) == req'[q].pc \in {"accept", "recheck", "mint", "store"} /\ req'[q].factor # None
UsedNext(f)  == f \in factors' \/ \E q \in Requests : HoldsNext(q) /\ req'[q].factor = f
Keeps(q)     == Holding(q) /\ req'[q].factor = req[q].factor
Gains(q)     == RecordsStep(q) \/ TakesCode(q) \/ TakesPush(q)

LEMMA HoldsFrom ==
  ASSUME TypeInv, FactorKinds, [Next]_vars, NEW q \in Requests, HoldsNext(q)
  PROVE  Keeps(q) \/ Gains(q)
<1>1. Moves(q)
  BY ReqMoves
<1>2. CASE Stays(q) \/ Follows(q)
  BY <1>2 DEF Stays, Follows, Same, Arrows, HoldsNext, Keeps, Holding
<1> QED
  BY <1>1, <1>2 DEF Moves, Stops, Idle, Cuts, Makes, ConfirmsStep, SignsIn, Verifies, Offers, Validates,
     Finishes, Revokes, Confirms, Prepares, HoldsNext, Gains, FactorKinds

(* The factor a request takes has not been used.                            *)
FactorInv == HeldOnce /\ StepsRecorded /\ CodesGone /\ CodesFresh /\ ChallengesOnce /\ FactorKinds

LEMMA StepNew ==
  ASSUME TypeInv, StepsRecorded, NEW q \in Requests, RecordsStep(q) \/ ConfirmsStep(q)
  PROVE  /\ ~Used(req[q].factor) /\ req[q].factor # None /\ req'[q].factor = req[q].factor
         /\ req[q].factor = <<"totp", user'.lastStep>> /\ user'.lastStep > user.lastStep
<1>1. user \in Accounts /\ req[q].factor \in {"totp"} \X Nat
  BY DEF TypeInv, TotpCarried, TotpPCs, RecordsStep, ConfirmsStep
<1>2. req[q].factor[2] > user.lastStep /\ user' = [user EXCEPT !.lastStep = req[q].factor[2]]
  BY DEF RecordsStep, ConfirmsStep
<1>3. PICK s \in Nat : req[q].factor = <<"totp", s>>
  BY <1>1
<1>4. s > user.lastStep /\ user'.lastStep = s /\ user.lastStep \in Nat
  BY <1>1, <1>2, <1>3 DEF Accounts
<1>5. ~Used(<<"totp", s>>)
  BY <1>4 DEF StepsRecorded
<1> QED
  BY <1>3, <1>4, <1>5 DEF None, RecordsStep, ConfirmsStep, Same

LEMMA PushTaken ==
  ASSUME FactorKinds, NEW q \in Requests, TakesPush(q)
  PROVE  \E n : n = req[q].ch /\ req'[q].factor = <<"push", n>>
BY DEF TakesPush, Same, FactorKinds

LEMMA GainNew ==
  ASSUME TypeInv, FactorInv, NEW q \in Requests, Gains(q)
  PROVE  ~Used(req'[q].factor) /\ req'[q].factor # None
<1>1. CASE RecordsStep(q)
  BY <1>1, StepNew DEF FactorInv
<1>2. CASE TakesCode(q)
  BY <1>2 DEF TakesCode, FactorInv, CodesGone, TypeInv, Accounts, None
<1>3. CASE TakesPush(q)
  <2>1. req'[q].factor = <<"push", req[q].ch>> /\ Live(req[q].ch) /\ req[q].ch \in Nat
    BY <1>3 DEF TakesPush, Same, FactorInv, FactorKinds, TypeInv, Handlers
  <2> QED
    BY <2>1 DEF FactorInv, ChallengesOnce, None
<1> QED
  BY <1>1, <1>2, <1>3 DEF Gains

(* A use after the step was one before it, or has just begun.               *)
LEMMA UsedFrom ==
  ASSUME TypeInv, FactorInv, [Next]_vars, NEW f, UsedNext(f), f # None
  PROVE  \/ Used(f)
         \/ \E q \in Requests : Gains(q) /\ req'[q].factor = f
         \/ \E q \in Requests : ConfirmsStep(q) /\ req[q].factor = f
<1>1. CASE f \in factors'
  <2>1. f \in factors \/ \E r \in Requests : (Brings(r) \/ ConfirmsStep(r)) /\ req[r].factor = f
    BY <1>1, FactorStep DEF FactorMoves, Brings, Spends
  <2>2. ASSUME NEW r \in Requests, Brings(r), req[r].factor = f PROVE Used(f)
    BY <2>2 DEF Brings, Used, Holding
  <2> QED
    BY <2>1, <2>2 DEF Used
<1>2. ASSUME NEW q \in Requests, HoldsNext(q), req'[q].factor = f
      PROVE  Used(f) \/ Gains(q)
  BY <1>2, HoldsFrom DEF FactorInv, Keeps, Used
<1> QED
  BY <1>1, <1>2 DEF UsedNext

(* Two requests never hold the same factor, and none holds a spent one.     *)
LEMMA HeldStep ==
  ASSUME TypeInv, FactorInv, ~twice, [Next]_vars
  PROVE  HeldOnce' /\ ~twice'
<1>0. HeldOnce /\ StepsRecorded /\ FactorKinds
  BY DEF FactorInv
<1>1. \A q \in Requests : HoldsNext(q) => Keeps(q) \/ Gains(q)
  BY <1>0, HoldsFrom
<1>2. \A q \in Requests : Gains(q) => ~Used(req'[q].factor)
  BY GainNew
<1>3. ASSUME NEW q \in Requests, HoldsNext(q) PROVE req'[q].factor \notin factors'
  <2>1. req'[q].factor \notin factors
    BY <1>0, <1>1, <1>2, <1>3 DEF Keeps, HeldOnce, Used
  <2>2. ASSUME NEW r \in Requests, Others(r), Brings(r) PROVE req'[q].factor # req[r].factor
    <3>1. q # r /\ req'[q] = req[q]
      BY <1>3, <2>2 DEF Brings, HoldsNext, Idle, Others
    <3>2. Holding(q) /\ req[q].factor # None
      BY <1>3, <3>1 DEF HoldsNext, Holding
    <3> QED
      BY <1>0, <2>2, <3>1, <3>2 DEF HeldOnce, Brings, Holding
  <2>3. ASSUME NEW r \in Requests, Others(r), Spends(r) PROVE req'[q].factor # req[r].factor
    <3>1. ~Used(req[r].factor) /\ q # r
      BY <1>0, <1>3, <2>3, StepNew DEF Spends, ConfirmsStep, HoldsNext
    <3>2. req'[q] = req[q]
      BY <2>3, <3>1 DEF Others
    <3> QED
      BY <1>3, <3>1, <3>2 DEF HoldsNext, Used, Holding
  <2> QED
    BY <2>1, <2>2, <2>3, FactorStep DEF FactorMoves, Brings, Spends
<1>4. ASSUME NEW q \in Requests, NEW p \in Requests, HoldsNext(q), HoldsNext(p),
             req'[q].factor = req'[p].factor
      PROVE  q = p
  <2>1. CASE Keeps(q) /\ Keeps(p)
    BY <1>0, <1>4, <2>1 DEF Keeps, HeldOnce
  <2>2. CASE (Keeps(q) /\ Gains(p)) \/ (Gains(q) /\ Keeps(p))
    BY <1>2, <1>4, <2>2 DEF Keeps, Used
  <2>3. CASE Gains(q) /\ Gains(p)
    <3>1. req'[q] # req[q] /\ req'[p] # req[p] /\ req'[q] # Idle
      BY <2>3 DEF Gains, RecordsStep, TakesCode, TakesPush, Idle
    <3> QED
      BY <3>1, OneMoves DEF Others
  <2> QED
    BY <1>1, <1>4, <2>1, <2>2, <2>3
<1>5. ~twice'
  <2>1. ASSUME NEW r \in Requests, Brings(r) PROVE ~twice'
    BY <1>0, <2>1 DEF Brings, HeldOnce, Holding
  <2>2. ASSUME NEW r \in Requests, Spends(r) PROVE ~twice'
    BY <1>0, <2>2, StepNew DEF Spends, Used
  <2> QED
    BY <2>1, <2>2, FactorStep DEF FactorMoves
<1> QED
  BY <1>3, <1>4, <1>5 DEF HeldOnce, Holding, HoldsNext


LEMMA UsedNow == \A f : Used(f)' <=> UsedNext(f)
BY DEF Used, UsedNext, Holding, HoldsNext

(* The last step never goes back.                                           *)
LEMMA LastStepGrows ==
  ASSUME TypeInv, StepsRecorded, [Next]_vars
  PROVE  user.lastStep \in Nat /\ user'.lastStep \in Nat /\ user.lastStep <= user'.lastStep
<1>1. user \in Accounts /\ user' \in Accounts
  BY TypeStep DEF TypeInv
<1>2. user.lastStep \in Nat /\ user'.lastStep \in Nat
  BY <1>1 DEF Accounts
<1>3. user'.lastStep = user.lastStep \/ user'.lastStep > user.lastStep
  BY AccountStep, StepNew DEF AccountMoves, StepMoves
<1> QED
  BY <1>2, <1>3

LEMMA StepsStep ==
  ASSUME TypeInv, FactorInv, [Next]_vars
  PROVE  StepsRecorded'
<1>0. StepsRecorded /\ FactorKinds
  BY DEF FactorInv
<1>1. ASSUME NEW s \in Nat, UsedNext(<<"totp", s>>) PROVE s <= user'.lastStep
  <2>0. user.lastStep \in Nat /\ user'.lastStep \in Nat /\ user.lastStep <= user'.lastStep
    BY <1>0, LastStepGrows
  <2>1. CASE Used(<<"totp", s>>)
    BY <1>0, <2>0, <2>1 DEF StepsRecorded
  <2>2. ASSUME NEW q \in Requests, RecordsStep(q) \/ ConfirmsStep(q), req[q].factor = <<"totp", s>>
        PROVE  s <= user'.lastStep
    BY <1>0, <2>0, <2>2, StepNew
  <2>3. ASSUME NEW q \in Requests, TakesCode(q), req'[q].factor = <<"totp", s>> PROVE FALSE
    BY <2>3 DEF TakesCode
  <2>4. ASSUME NEW q \in Requests, TakesPush(q), req'[q].factor = <<"totp", s>> PROVE FALSE
    BY <1>0, <2>4, PushTaken
  <2>5. <<"totp", s>> # None
    BY DEF None
  <2> QED
    BY <1>1, <2>1, <2>2, <2>3, <2>4, <2>5, UsedFrom DEF Gains, RecordsStep, Same
<1> QED
  BY <1>1, UsedNow DEF StepsRecorded

(* A use of a recovery code that has just begun took it from the account.   *)
LEMMA CodeUsedFrom ==
  ASSUME TypeInv, FactorInv, [Next]_vars, NEW k, UsedNext(<<"code", k>>)
  PROVE  Used(<<"code", k>>) \/ (k \in user.codes /\ k \notin user'.codes)
<1>0. StepsRecorded /\ FactorKinds /\ <<"code", k>> # None
  BY DEF FactorInv, None
<1>1. ASSUME NEW q \in Requests, RecordsStep(q) \/ ConfirmsStep(q), req[q].factor = <<"code", k>>
      PROVE  FALSE
  BY <1>0, <1>1, StepNew
<1>2. ASSUME NEW q \in Requests, TakesCode(q), req'[q].factor = <<"code", k>>
      PROVE  k \in user.codes /\ k \notin user'.codes
  BY <1>2 DEF TakesCode, TypeInv, Accounts
<1>3. ASSUME NEW q \in Requests, TakesPush(q), req'[q].factor = <<"code", k>> PROVE FALSE
  BY <1>0, <1>3, PushTaken
<1> QED
  BY <1>0, <1>1, <1>2, <1>3, UsedFrom DEF Gains, RecordsStep, Same

LEMMA CodesStep ==
  ASSUME TypeInv, FactorInv, [Next]_vars
  PROVE  CodesGone'
<1>0. CodesGone /\ CodesFresh /\ CodesMoved /\ era \in Nat
  BY AccountStep DEF FactorInv, AccountMoves, TypeInv
<1>1. ASSUME NEW k \in CodeIds, UsedNext(<<"code", k>>) PROVE k \notin user'.codes
  <2>1. CASE k \in user.codes /\ k \notin user'.codes
    BY <2>1
  <2>2. CASE Used(<<"code", k>>)
    <3>1. k \notin user.codes /\ Known(k)
      BY <1>0, <2>2 DEF CodesGone, Known
    <3>2. CASE user'.codes \subseteq user.codes
      BY <3>1, <3>2
    <3>3. CASE user'.codes = {<<"fresh", era + 1>>}
      BY <1>0, <3>1, <3>3 DEF CodesFresh
    <3>4. ASSUME NEW r \in Requests, Enables(r) PROVE k \notin user'.codes
      BY <1>0, <3>1, <3>4 DEF CodesFresh, Enables
    <3> QED
      BY <1>0, <3>2, <3>3, <3>4 DEF CodesMoved
  <2> QED
    BY <1>1, <2>1, <2>2, CodeUsedFrom
<1> QED
  BY <1>1, UsedNow DEF CodesGone

KnownNext(k) == k \in user'.codes \/ UsedNext(<<"code", k>>)

(* The codes that a step makes known.                                       *)
LEMMA KnownFrom ==
  ASSUME TypeInv, FactorInv, [Next]_vars, NEW k, KnownNext(k)
  PROVE  \/ Known(k)
         \/ k = <<"fresh", era + 1>> /\ era' = era + 1
         \/ \E r \in Requests : Enables(r) /\ k = <<"confirm", req[r].factor[2]>>
<1>1. CASE k \in user'.codes
  BY <1>1, AccountStep DEF AccountMoves, CodesMoved, Known, Enables
<1>2. CASE UsedNext(<<"code", k>>)
  BY <1>2, CodeUsedFrom DEF Known
<1> QED
  BY <1>1, <1>2 DEF KnownNext

LEMMA FreshStep ==
  ASSUME TypeInv, FactorInv, [Next]_vars
  PROVE  CodesFresh'
<1>0. /\ CodesFresh /\ StepsRecorded /\ era \in Nat /\ era' \in {era, era + 1}
      /\ user.lastStep \in Nat /\ user'.lastStep \in Nat /\ user.lastStep <= user'.lastStep
  BY EraStep, LastStepGrows DEF FactorInv, TypeInv
<1>1. ASSUME NEW e \in Nat, KnownNext(<<"fresh", e>>) PROVE e <= era'
  <2>1. Known(<<"fresh", e>>) \/ (e = era + 1 /\ era' = era + 1)
    BY <1>1, KnownFrom
  <2> QED
    BY <1>0, <2>1 DEF CodesFresh
<1>2. ASSUME NEW s \in Nat, KnownNext(<<"confirm", s>>) PROVE s <= user'.lastStep
  <2>1. Known(<<"confirm", s>>) \/ \E r \in Requests : Enables(r) /\ s = req[r].factor[2]
    BY <1>2, KnownFrom
  <2>2. ASSUME NEW r \in Requests, Enables(r), s = req[r].factor[2] PROVE s <= user.lastStep
    BY <1>0, <2>2 DEF CodesFresh, Enables
  <2> QED
    BY <1>0, <2>1, <2>2 DEF CodesFresh
<1>3. ASSUME NEW q \in Requests, req'[q].pc = "enable"
      PROVE  \/ Stays(q)
             \/ ConfirmsStep(q) /\ req'[q].factor = <<"totp", user'.lastStep>> /\ user'.lastStep > user.lastStep
  <2>1. Stays(q) \/ ConfirmsStep(q)
    BY <1>3, ReqMoves DEF Moves, Stops, Idle, Follows, Arrows, Cuts, Makes, RecordsStep, TakesPush,
       SignsIn, Verifies, Offers, Validates, TakesCode, Finishes, Revokes, Confirms, Prepares
  <2> QED
    BY <1>0, <2>1, StepNew
<1>4. ASSUME NEW q \in Requests, req[q].pc = "enable"
      PROVE  \E s \in Nat : req[q].factor[2] = s /\ s <= user.lastStep
  BY <1>0, <1>4 DEF CodesFresh, TypeInv, TotpCarried, TotpPCs
<1>5. ASSUME NEW q \in Requests, req'[q].pc = "enable"
      PROVE  /\ req'[q].factor[2] <= user'.lastStep /\ ~KnownNext(<<"confirm", req'[q].factor[2]>>)
             /\ \A p \in Requests : req'[p].pc = "enable" /\ req'[p].factor[2] = req'[q].factor[2] => p = q
  <2>1. CASE Stays(q)
    <3>1. PICK s \in Nat : req[q].pc = "enable" /\ req'[q].factor[2] = s /\ req[q].factor[2] = s /\ s <= user.lastStep
      BY <1>4, <1>5, <2>1 DEF Stays
    <3>2. ASSUME NEW r \in Requests, Enables(r), req[r].factor[2] = s PROVE FALSE
      <4>1. r = q
        BY <1>0, <3>1, <3>2 DEF CodesFresh, Enables
      <4>2. req'[r] = Idle
        BY <3>2, EndsEffect DEF Enables, EnableTOTP
      <4> QED
        BY <1>5, <4>1, <4>2 DEF Idle
    <3>3. ~Known(<<"confirm", s>>)
      BY <1>0, <3>1 DEF CodesFresh
    <3>4. ~KnownNext(<<"confirm", s>>)
      BY <3>2, <3>3, KnownFrom
    <3>5. ASSUME NEW p \in Requests, req'[p].pc = "enable", req'[p].factor[2] = s PROVE p = q
      <4>1. CASE Stays(p)
        BY <1>0, <3>1, <3>5, <4>1 DEF Stays, CodesFresh
      <4>2. CASE req'[p].factor = <<"totp", user'.lastStep>> /\ user'.lastStep > user.lastStep
        BY <1>0, <3>1, <3>5, <4>2
      <4> QED
        BY <1>3, <3>5, <4>1, <4>2
    <3> QED
      BY <1>0, <3>1, <3>4, <3>5
  <2>2. CASE ConfirmsStep(q) /\ req'[q].factor = <<"totp", user'.lastStep>> /\ user'.lastStep > user.lastStep
    <3> DEFINE s == user'.lastStep
    <3>1. req'[q].factor[2] = s /\ s \in Nat /\ s > user.lastStep
      BY <1>0, <2>2
    <3>2. ~Known(<<"confirm", s>>)
      BY <1>0, <3>1 DEF CodesFresh
    <3>3. ASSUME NEW r \in Requests, Enables(r), req[r].factor[2] = s PROVE FALSE
      BY <1>0, <1>4, <3>1, <3>3 DEF Enables
    <3>4. ~KnownNext(<<"confirm", s>>)
      BY <3>2, <3>3, KnownFrom
    <3>5. ASSUME NEW p \in Requests, req'[p].pc = "enable", req'[p].factor[2] = s PROVE p = q
      <4>1. CASE Stays(p)
        BY <1>0, <1>4, <3>1, <3>5, <4>1 DEF Stays
      <4>2. CASE ConfirmsStep(p)
        <5>1. req'[p] # req[p] /\ req'[q] # req[q] /\ req'[p] # Idle
          BY <2>2, <4>2 DEF ConfirmsStep, Idle
        <5> QED
          BY <5>1, OneMoves DEF Others
      <4> QED
        BY <1>3, <3>5, <4>1, <4>2
    <3> QED
      BY <1>0, <3>1, <3>4, <3>5
  <2> QED
    BY <1>3, <1>5, <2>1, <2>2
<1>6. \A k : Known(k)' <=> KnownNext(k)
  BY UsedNow DEF Known, KnownNext
<1> HIDE DEF KnownNext
<1> QED
  BY <1>1, <1>2, <1>5, <1>6 DEF CodesFresh


(* Which sign-ins have a challenge or may still get one.                    *)
LiveNext(n)   == \E c \in challenges' : c.login = n
MakingNext(q) == req'[q].pc \in {"verify", "challenge"}

LEMMA LiveFrom ==
  ASSUME TypeInv, [Next]_vars, NEW n, LiveNext(n)
  PROVE  Live(n) \/ \E r \in Requests : Makes(r) /\ req[r].login = n
BY ChallengeOrigin DEF LiveNext, Live, Alike

LEMMA MakingFrom ==
  ASSUME TypeInv, [Next]_vars, NEW q \in Requests, MakingNext(q)
  PROVE  \/ Making(q) /\ req'[q].login = req[q].login /\ ~Makes(q)
         \/ req'[q].login = logins + 1 /\ logins' = logins + 1 /\ UNCHANGED challenges /\ ~Stays(q)
<1>1. Moves(q)
  BY ReqMoves
<1>2. CASE Stays(q)
  BY <1>2 DEF Stays, Making, MakingNext, Makes
<1>3. CASE Verifies(q)
  BY <1>3 DEF Verifies, Making, Makes
<1>4. CASE SignsIn(q)
  BY <1>4 DEF SignsIn, Login, At, memory, Stays
<1> QED
  BY <1>1, <1>2, <1>3, <1>4 DEF Moves, Stops, Idle, Follows, Arrows, Cuts, Makes, RecordsStep, TakesPush,
     ConfirmsStep, Offers, Validates, TakesCode, Finishes, Revokes, Confirms, Prepares, MakingNext

LEMMA ChallengesOnceStep ==
  ASSUME TypeInv, FactorInv, [Next]_vars
  PROVE  ChallengesOnce'
<1>0. ChallengesOnce /\ logins \in Nat /\ logins' \in {logins, logins + 1}
  BY AccountStep DEF FactorInv, TypeInv, AccountMoves, Grows
<1>n. ASSUME NEW r \in Requests PROVE req[r].login \in Nat /\ (Makes(r) => Making(r))
  BY DEF TypeInv, Handlers, Makes, Making
<1>c. ASSUME NEW n, Live(n) PROVE n \in Nat /\ n <= logins
  BY <1>c, <1>0 DEF Live, ChallengesOnce, TypeInv, Challenges
<1>1. ASSUME NEW c \in challenges' PROVE c.login <= logins'
  <2>1. CASE Live(c.login)
    BY <1>0, <1>c, <2>1
  <2>2. ASSUME NEW r \in Requests, Makes(r), req[r].login = c.login PROVE c.login <= logins'
    BY <1>0, <1>n, <2>2 DEF ChallengesOnce
  <2> QED
    BY <2>1, <2>2, LiveFrom DEF LiveNext
<1>2. ASSUME NEW q \in Requests, MakingNext(q) PROVE req'[q].login <= logins' /\ ~LiveNext(req'[q].login)
  <2>1. CASE Making(q) /\ req'[q].login = req[q].login /\ ~Makes(q)
    <3>1. req[q].login <= logins /\ ~Live(req[q].login)
      BY <1>0, <2>1 DEF ChallengesOnce
    <3>2. ASSUME NEW r \in Requests, Makes(r), req[r].login = req[q].login PROVE FALSE
      BY <1>0, <1>n, <2>1, <3>2 DEF ChallengesOnce
    <3> QED
      BY <1>0, <1>n, <2>1, <3>1, <3>2, LiveFrom
  <2>2. CASE req'[q].login = logins + 1 /\ logins' = logins + 1 /\ UNCHANGED challenges
    BY <1>0, <1>c, <2>2 DEF LiveNext, Live
  <2> QED
    BY <1>2, <2>1, <2>2, MakingFrom
<1>3. ASSUME NEW q \in Requests, NEW p \in Requests, MakingNext(q), MakingNext(p), req'[q].login = req'[p].login
      PROVE  q = p
  <2>1. CASE /\ Making(q) /\ req'[q].login = req[q].login
             /\ Making(p) /\ req'[p].login = req[p].login
    BY <1>0, <1>3, <2>1 DEF ChallengesOnce
  <2>2. CASE ~Stays(q) /\ ~Stays(p)
    <3>1. req'[q] # Idle
      BY <1>3 DEF MakingNext, Idle
    <3> QED
      BY <2>2, <3>1, OneMoves DEF Stays, Others
  <2>3. ASSUME NEW x \in Requests, NEW y \in Requests, Making(x), req'[x].login = req[x].login,
               req'[y].login = logins + 1, req'[x].login = req'[y].login
        PROVE  FALSE
    <3>1. req[x].login <= logins /\ req[x].login = logins + 1
      BY <1>0, <2>3 DEF ChallengesOnce
    <3> QED
      BY <1>0, <3>1
  <2> QED
    BY <1>3, <2>1, <2>2, <2>3, MakingFrom
<1>4. ASSUME NEW n \in Nat, UsedNext(<<"push", n>>)
      PROVE  n <= logins' /\ ~LiveNext(n) /\ \A q \in Requests : MakingNext(q) => req'[q].login # n
  <2>1. \/ Used(<<"push", n>>)
        \/ \E r \in Requests : TakesPush(r) /\ req[r].ch = n
    <3>1. StepsRecorded /\ FactorKinds /\ <<"push", n>> # None
      BY DEF FactorInv, None
    <3>2. ASSUME NEW r \in Requests, RecordsStep(r) \/ ConfirmsStep(r), req[r].factor = <<"push", n>>
          PROVE  FALSE
      BY <3>1, <3>2, StepNew
    <3>3. ASSUME NEW r \in Requests, TakesCode(r), req'[r].factor = <<"push", n>> PROVE FALSE
      BY <3>3 DEF TakesCode
    <3>4. ASSUME NEW r \in Requests, TakesPush(r), req'[r].factor = <<"push", n>> PROVE req[r].ch = n
      BY <3>1, <3>4, PushTaken
    <3> QED
      BY <1>4, <3>1, <3>2, <3>3, <3>4, UsedFrom DEF Gains, RecordsStep, Same
  <2>2. /\ n <= logins /\ ~LiveNext(n)
        /\ \A q \in Requests : Making(q) => req[q].login # n
    <3>1. CASE Used(<<"push", n>>)
      <4>1. n <= logins /\ ~Live(n) /\ \A q \in Requests : Making(q) => req[q].login # n
        BY <1>0, <3>1 DEF ChallengesOnce
      <4> QED
        BY <1>n, <4>1, LiveFrom
    <3>2. ASSUME NEW r \in Requests, TakesPush(r), req[r].ch = n
          PROVE  /\ n <= logins /\ ~LiveNext(n)
                 /\ \A q \in Requests : Making(q) => req[q].login # n
      <4>1. Live(n) /\ challenges' = Deleted(n)
        BY <3>2 DEF TakesPush
      <4> QED
        BY <1>0, <1>c, <4>1 DEF LiveNext, Deleted, ChallengesOnce
    <3> QED
      BY <2>1, <3>1, <3>2
  <2>3. ASSUME NEW q \in Requests, MakingNext(q) PROVE req'[q].login # n
    <3>1. CASE Making(q) /\ req'[q].login = req[q].login
      BY <2>2, <3>1
    <3>2. CASE req'[q].login = logins + 1
      BY <1>0, <2>2, <3>2
    <3> QED
      BY <2>3, <3>1, <3>2, MakingFrom
  <2> QED
    BY <1>0, <2>2, <2>3
<1> QED
  BY <1>1, <1>2, <1>3, <1>4, UsedNow DEF ChallengesOnce, LiveNext, Live, MakingNext, Making

LEMMA KindsStep ==
  ASSUME TypeInv, FactorKinds, [Next]_vars
  PROVE  FactorKinds'
<1> SUFFICES ASSUME NEW q \in Requests
             PROVE  /\ req'[q].pc = "finish" => req'[q].factor = <<"push", req'[q].ch>>
                    /\ req'[q].pc \in {"verify", "challenge", "fence", "push"} => req'[q].factor = None
  BY DEF FactorKinds
<1>1. Moves(q)
  BY ReqMoves
<1>2. CASE Stays(q) \/ Follows(q) \/ Makes(q)
  BY <1>2 DEF Stays, Follows, Arrows, Makes, Same, FactorKinds
<1>3. CASE SignsIn(q) \/ Verifies(q)
  BY <1>3 DEF SignsIn, Verifies, FactorKinds
<1>4. CASE Finishes(q)
  BY <1>4 DEF Finishes, Copies
<1> QED
  BY <1>1, <1>2, <1>3, <1>4 DEF Moves, Stops, Idle, Cuts, RecordsStep, TakesPush, ConfirmsStep, Offers,
     Validates, TakesCode, Revokes, Confirms, Prepares

(* ConsumeTOTPStep, SetLastUsedTOTPStep, ConsumeRecoveryCode and            *)
(* ConsumePushApproval each take their factor in one locked section, so     *)
(* whatever runs together, and across restarts, no factor brings a second   *)
(* session, and the step that confirmed an enrolment brings none.           *)
THEOREM FactorsSpentOnce == Spec => []FactorSpentOnce
<1> DEFINE Inv == TypeInv /\ FactorInv /\ ~twice
<1>1. Init => Inv
  <2> SUFFICES ASSUME Init PROVE Inv
    OBVIOUS
  <2>1. ASSUME NEW r \in Requests PROVE req[r].pc = "idle"
    BY DEF Init, Idle
  <2>2. \A f : ~Used(f)
    BY <2>1 DEF Init, Used, Holding
  <2>3. user.codes \in {{}, {<<"confirm", 0>>}} /\ user.lastStep = 0 /\ challenges = {} /\ ~twice /\ era = 0
    BY DEF Init
  <2>4. HeldOnce /\ ChallengesOnce /\ FactorKinds /\ StepsRecorded /\ CodesGone
    BY <2>1, <2>2, <2>3 DEF HeldOnce, Holding, ChallengesOnce, Making, FactorKinds, StepsRecorded, CodesGone
  <2>5. CodesFresh
    BY <2>1, <2>2, <2>3 DEF CodesFresh, Known
  <2> QED
    BY <2>3, <2>4, <2>5, TypeInit DEF FactorInv
<1>2. Inv /\ [Next]_vars => Inv'
  <2> SUFFICES ASSUME Inv, [Next]_vars PROVE Inv'
    OBVIOUS
  <2>1. HeldOnce' /\ ~twice' /\ StepsRecorded' /\ CodesGone' /\ CodesFresh' /\ ChallengesOnce'
    BY HeldStep, StepsStep, CodesStep, FreshStep, ChallengesOnceStep
  <2>2. FactorKinds'
    BY KindsStep DEF FactorInv
  <2> QED
    BY <2>1, <2>2, TypeStep DEF FactorInv
<1> QED
  BY <1>1, <1>2, PTL DEF Spec, FactorSpentOnce

-----------------------------------------------------------------------------
(* Guesses.                                                                 *)
GuessPCs == {"totp", "recovery", "code"}
HeldPCs  == {"totp", "recovery", "code", "consume", "step", "accept"}

LEMMA GuessingMoves ==
  ASSUME TypeInv, NEW r \in Requests, Others(r)
  PROVE  /\ req'[r].pc \notin GuessPCs => Guessing' = Guessing \ {r}
         /\ req'[r].pc \in GuessPCs => Guessing' = Guessing \cup {r}
BY DEF Guessing, GuessPCs, Others

(* The product in the bound.                                                *)
LEMMA BoundGrows ==
  ASSUME StrikesKept
  PROVE  /\ MaxFailures * clears \in Nat /\ MaxFailures \in Nat
         /\ MaxFailures * (clears + 1) = MaxFailures * clears + MaxFailures
BY SignInAssumption DEF StrikesKept

LEMMA StrikesTyped ==
  ASSUME StrikesKept
  PROVE  /\ strikes.held \subseteq Requests /\ strikes.spent \in Nat
         /\ Cardinality(strikes.held) \in Nat /\ Cardinality(LeftOver) \in Nat
BY FS_CardinalityType DEF StrikesKept

(* Steps that leave the lockout alone and start no guess.                   *)
LEMMA StrikesFrame ==
  ASSUME StrikesKept, UNCHANGED lockout, Guessing' \subseteq Guessing,
         \A q \in strikes.held : req'[q].pc \in HeldPCs
  PROVE  StrikesKept'
<1>1. strikes' = strikes /\ guesses' = guesses /\ clears' = clears /\ LeftOver' \subseteq LeftOver
  BY DEF lockout, LeftOver
<1>2. /\ IsFiniteSet(LeftOver') /\ Cardinality(LeftOver') \in Nat /\ Cardinality(LeftOver) \in Nat
      /\ Cardinality(LeftOver') <= Cardinality(LeftOver)
  BY <1>1, FS_Subset, FS_CardinalityType DEF StrikesKept
<1>3. guesses' + Cardinality(LeftOver') <= MaxFailures * clears' + strikes'.spent
  BY <1>1, <1>2, StrikesTyped, BoundGrows DEF StrikesKept
<1> QED
  BY <1>1, <1>2, <1>3 DEF StrikesKept, HeldPCs

(* recordSuccess, the end of the window or a restart forgets the strikes:   *)
(* whoever held one is left over.                                           *)
LEMMA StrikesForgotten ==
  ASSUME StrikesKept, strikes' = Cleared, clears' = clears + 1, guesses' = guesses, Guessing' \subseteq Guessing
  PROVE  StrikesKept'
<1>1. strikes'.held = {} /\ strikes'.spent = 0 /\ strikes' \in [held : SUBSET Requests, spent : Nat]
  BY DEF Cleared
<1>2. LeftOver' \subseteq LeftOver \cup strikes.held
  BY <1>1 DEF LeftOver
<1> DEFINE u == LeftOver \cup strikes.held
<1>3. IsFiniteSet(u) /\ Cardinality(u) <= Cardinality(LeftOver) + Cardinality(strikes.held)
  <2>1. /\ IsFiniteSet(u)
        /\ Cardinality(u) = Cardinality(LeftOver) + Cardinality(strikes.held)
                            - Cardinality(LeftOver \cap strikes.held)
    BY FS_Union DEF StrikesKept
  <2>2. LeftOver \cap strikes.held = {}
    BY DEF LeftOver
  <2> QED
    BY <2>1, <2>2, FS_EmptySet, StrikesTyped
<1>4. /\ IsFiniteSet(LeftOver') /\ Cardinality(LeftOver') \in Nat /\ Cardinality(u) \in Nat
      /\ Cardinality(LeftOver') <= Cardinality(u)
  BY <1>2, <1>3, FS_Subset, FS_CardinalityType
<1>5. guesses + Cardinality(LeftOver') <= MaxFailures * clears + MaxFailures
  <2> HIDE DEF u
  <2> QED
    BY <1>3, <1>4, StrikesTyped, BoundGrows DEF StrikesKept
<1>6. MaxFailures * clears' = MaxFailures * clears + MaxFailures /\ MaxFailures \in Nat /\ clears' \in Nat
  BY BoundGrows DEF StrikesKept
<1>7. IsFiniteSet(strikes'.held) /\ Cardinality(strikes'.held) = 0
  BY <1>1, FS_EmptySet
<1>8. guesses' + Cardinality(LeftOver') <= MaxFailures * clears' + strikes'.spent
  BY <1>1, <1>4, <1>5, <1>6, BoundGrows DEF StrikesKept
<1> QED
  BY <1>1, <1>4, <1>6, <1>7, <1>8 DEF StrikesKept

(* tryAttempt.                                                              *)
LEMMA StrikeHeld ==
  ASSUME TypeInv, StrikesKept, NEW r \in Requests, req[r].pc = "idle", Admitted, strikes' = Held(r),
         UNCHANGED <<guesses, clears>>, req'[r].pc \in GuessPCs, Others(r)
  PROVE  StrikesKept'
<1>1. r \notin strikes.held
  BY DEF StrikesKept
<1>2. strikes'.held = strikes.held \cup {r} /\ strikes'.spent = strikes.spent
      /\ strikes' \in [held : SUBSET Requests, spent : Nat]
  BY DEF Held, StrikesKept
<1>3. LeftOver' = LeftOver
  BY <1>2, GuessingMoves DEF LeftOver, Guessing
<1>4. IsFiniteSet(strikes'.held) /\ Cardinality(strikes'.held) = Cardinality(strikes.held) + 1
  BY <1>1, <1>2, FS_AddElement DEF StrikesKept
<1>5. Cardinality(strikes'.held) + strikes'.spent <= MaxFailures
  BY <1>2, <1>4, StrikesTyped, SignInAssumption DEF Admitted
<1>6. \A q \in strikes'.held : req'[q].pc \in HeldPCs
  BY <1>1, <1>2, StrikesTyped DEF StrikesKept, Others, HeldPCs, GuessPCs
<1> QED
  BY <1>2, <1>3, <1>4, <1>5, <1>6 DEF StrikesKept, HeldPCs

(* The effect of leaving a strike: a held one becomes a spent one.          *)
LEMMA StrikeLeft ==
  ASSUME TypeInv, StrikesKept, NEW r \in Requests, strikes' = SpentBy(r), clears' = clears,
         req'[r].pc \notin GuessPCs, Others(r)
  PROVE  /\ strikes' \in [held : SUBSET Requests, spent : Nat] /\ IsFiniteSet(strikes'.held)
         /\ Cardinality(strikes'.held) + strikes'.spent <= MaxFailures
         /\ \A q \in strikes'.held : req'[q].pc \in HeldPCs
         /\ IF r \in strikes.held
            THEN LeftOver' = LeftOver /\ strikes'.spent = strikes.spent + 1
            ELSE LeftOver' = LeftOver \ {r} /\ strikes'.spent = strikes.spent
<1>0. MaxFailures \in Nat
  BY SignInAssumption
<1>1. CASE r \in strikes.held
  <2>1. strikes'.held = strikes.held \ {r} /\ strikes'.spent = strikes.spent + 1
        /\ strikes' \in [held : SUBSET Requests, spent : Nat]
    BY <1>1, StrikesTyped DEF SpentBy
  <2>2. IsFiniteSet(strikes'.held) /\ Cardinality(strikes'.held) = Cardinality(strikes.held) - 1
    BY <1>1, <2>1, FS_RemoveElement DEF StrikesKept
  <2>3. Cardinality(strikes'.held) + strikes'.spent <= MaxFailures
    BY <1>0, <2>1, <2>2, StrikesTyped DEF StrikesKept
  <2>4. LeftOver' = LeftOver
    BY <1>1, <2>1, GuessingMoves DEF LeftOver
  <2> QED
    BY <1>1, <2>1, <2>2, <2>3, <2>4, StrikesTyped DEF StrikesKept, Others, HeldPCs
<1>2. CASE r \notin strikes.held
  <2>1. strikes'.held = strikes.held /\ strikes'.spent = strikes.spent
        /\ strikes' \in [held : SUBSET Requests, spent : Nat]
    BY <1>2, StrikesTyped DEF SpentBy
  <2>2. LeftOver' = LeftOver \ {r}
    BY <1>2, <2>1, GuessingMoves DEF LeftOver
  <2> QED
    BY <1>2, <2>1, <2>2, StrikesTyped DEF StrikesKept, Others, HeldPCs
<1> QED
  BY <1>1, <1>2

(* A wrong code, by a request that guesses.                                 *)
LEMMA StrikeSpent ==
  ASSUME TypeInv, StrikesKept, NEW r \in Requests, req[r].pc \in GuessPCs, strikes' = SpentBy(r),
         clears' = clears, guesses' = guesses + 1, req'[r].pc \notin GuessPCs, Others(r)
  PROVE  StrikesKept'
<1>1. /\ strikes' \in [held : SUBSET Requests, spent : Nat] /\ IsFiniteSet(strikes'.held)
      /\ Cardinality(strikes'.held) + strikes'.spent <= MaxFailures
      /\ \A q \in strikes'.held : req'[q].pc \in HeldPCs
  BY StrikeLeft
<1>2. CASE r \in strikes.held
  <2>1. LeftOver' = LeftOver /\ strikes'.spent = strikes.spent + 1
    BY <1>2, StrikeLeft
  <2>2. guesses' + Cardinality(LeftOver') <= MaxFailures * clears' + strikes'.spent
    BY <2>1, StrikesTyped, BoundGrows DEF StrikesKept
  <2> QED
    BY <1>1, <2>1, <2>2 DEF StrikesKept, HeldPCs
<1>3. CASE r \notin strikes.held
  <2>1. LeftOver' = LeftOver \ {r} /\ strikes'.spent = strikes.spent /\ r \in LeftOver
    BY <1>3, StrikeLeft DEF LeftOver, Guessing, GuessPCs
  <2>2. IsFiniteSet(LeftOver') /\ Cardinality(LeftOver') = Cardinality(LeftOver) - 1
    BY <2>1, FS_RemoveElement DEF StrikesKept
  <2>3. guesses' + Cardinality(LeftOver') <= MaxFailures * clears' + strikes'.spent
    BY <2>1, <2>2, StrikesTyped, BoundGrows DEF StrikesKept
  <2> QED
    BY <1>1, <2>2, <2>3 DEF StrikesKept, HeldPCs
<1> QED
  BY <1>2, <1>3

(* A refused code: its strike stays, and it was not a guess.                *)
LEMMA StrikeRefused ==
  ASSUME TypeInv, StrikesKept, NEW r \in Requests, req[r].pc \notin GuessPCs, strikes' = SpentBy(r),
         UNCHANGED <<guesses, clears>>, req'[r].pc \notin GuessPCs, Others(r)
  PROVE  StrikesKept'
<1>1. /\ strikes' \in [held : SUBSET Requests, spent : Nat] /\ IsFiniteSet(strikes'.held)
      /\ Cardinality(strikes'.held) + strikes'.spent <= MaxFailures
      /\ \A q \in strikes'.held : req'[q].pc \in HeldPCs
  BY StrikeLeft
<1>2. LeftOver' = LeftOver /\ strikes'.spent \in {strikes.spent, strikes.spent + 1}
  BY StrikeLeft DEF LeftOver, Guessing, GuessPCs
<1>3. guesses' + Cardinality(LeftOver') <= MaxFailures * clears' + strikes'.spent
  BY <1>2, StrikesTyped, BoundGrows DEF StrikesKept
<1> QED
  BY <1>1, <1>2, <1>3 DEF StrikesKept, HeldPCs

(* cancelAttempt.                                                           *)
LEMMA StrikeCancelled ==
  ASSUME TypeInv, StrikesKept, NEW r \in Requests, strikes' = Cancelled(r),
         UNCHANGED <<guesses, clears>>, req'[r].pc \notin GuessPCs, Others(r)
  PROVE  StrikesKept'
<1>1. strikes'.held = strikes.held \ {r} /\ strikes'.spent = strikes.spent
      /\ strikes' \in [held : SUBSET Requests, spent : Nat]
  BY DEF Cancelled, StrikesKept
<1>2. LeftOver' \subseteq LeftOver
  BY <1>1, GuessingMoves DEF LeftOver
<1>3. /\ IsFiniteSet(strikes'.held) /\ Cardinality(strikes'.held) <= Cardinality(strikes.held)
      /\ Cardinality(strikes'.held) \in Nat
  BY <1>1, FS_Subset, FS_CardinalityType DEF StrikesKept
<1>4. /\ IsFiniteSet(LeftOver') /\ Cardinality(LeftOver') <= Cardinality(LeftOver)
      /\ Cardinality(LeftOver') \in Nat
  BY <1>2, FS_Subset, FS_CardinalityType DEF StrikesKept
<1>5. Cardinality(strikes'.held) + strikes'.spent <= MaxFailures
  BY <1>1, <1>3, StrikesTyped, SignInAssumption DEF StrikesKept
<1>6. guesses' + Cardinality(LeftOver') <= MaxFailures * clears' + strikes'.spent
  BY <1>1, <1>4, StrikesTyped, BoundGrows DEF StrikesKept
<1>7. \A q \in strikes'.held : req'[q].pc \in HeldPCs
  BY <1>1, StrikesTyped DEF StrikesKept, Others, HeldPCs
<1> QED
  BY <1>1, <1>3, <1>4, <1>5, <1>6, <1>7 DEF StrikesKept, HeldPCs


(* A request outside the handlers of codes, that leaves the lockout alone.  *)
LEMMA StrikesApart ==
  ASSUME TypeInv, StrikesKept, UNCHANGED lockout, NEW r \in Requests, Moves(r), Others(r),
         req[r].pc \notin HeldPCs, ~Offers(r)
  PROVE  StrikesKept'
<1>1. r \notin strikes.held
  BY DEF StrikesKept, HeldPCs
<1>2. req'[r].pc \notin GuessPCs
  BY DEF Moves, Stays, Stops, Idle, Follows, Arrows, Cuts, Makes, RecordsStep, TakesPush, ConfirmsStep,
     SignsIn, Verifies, Validates, TakesCode, Finishes, Revokes, Confirms, Prepares, GuessPCs, HeldPCs
<1>3. Guessing' \subseteq Guessing
  BY <1>2, GuessingMoves
<1>4. \A q \in strikes.held : req'[q].pc \in HeldPCs
  BY <1>1, StrikesTyped DEF StrikesKept, Others, HeldPCs
<1> QED
  BY <1>3, <1>4, StrikesFrame

(* A request that keeps its strike as it goes on.                           *)
LEMMA StrikesOnward ==
  ASSUME TypeInv, StrikesKept, UNCHANGED lockout, NEW r \in Requests, Others(r),
         req'[r].pc \in HeldPCs, req'[r].pc \in GuessPCs => req[r].pc \in GuessPCs
  PROVE  StrikesKept'
<1>1. Guessing' \subseteq Guessing
  BY GuessingMoves DEF Guessing, GuessPCs
<1>2. \A q \in strikes.held : req'[q].pc \in HeldPCs
  BY StrikesTyped DEF StrikesKept, Others, HeldPCs
<1> QED
  BY <1>1, <1>2, StrikesFrame

LEMMA CodesStrikes ==
  ASSUME TypeInv, StrikesKept, NEW r \in Requests,
         \/ \E n \in 1..logins : OfferCode(r, n)
         \/ ValidateTOTP(r) \/ ConsumeTOTPStep(r) \/ SetLastUsedTOTPStep(r)
         \/ ReadForRecovery(r) \/ ConsumeRecoveryCode(r) \/ AcceptCode(r)
  PROVE  StrikesKept'
<1>0. Moves(r) /\ Others(r)
  BY CodesMoves
<1>i. ASSUME Ends(r) PROVE req'[r].pc \notin GuessPCs
  BY <1>i, EndsEffect DEF Idle, GuessPCs
<1>w. Wrong(r) /\ req[r].pc \in GuessPCs => StrikesKept'
  BY <1>0, <1>i, StrikeSpent DEF Wrong
<1>x. Withdrawn(r) => StrikesKept'
  BY <1>0, <1>i, StrikeCancelled DEF Withdrawn
<1>y. RefuseCode(r) /\ req[r].pc \notin GuessPCs => StrikesKept'
  BY <1>0, <1>i, StrikeRefused DEF RefuseCode
<1>1. ASSUME NEW n \in 1..logins, OfferCode(r, n) PROVE StrikesKept'
  <2>1. PICK kind \in {"totp", "recovery"} :
          req' = [req EXCEPT ![r] = [Idle EXCEPT !.pc = kind, !.login = n, !.ch = n,
                                     !.era = Challenge(n).era, !.fence = Challenge(n).fence]]
    BY <1>1 DEF OfferCode
  <2> DEFINE h == [Idle EXCEPT !.pc = kind, !.login = n, !.ch = n,
                               !.era = Challenge(n).era, !.fence = Challenge(n).fence]
  <2>2. h.pc = kind
    BY DEF Idle
  <2>3. req'[r] = h
    BY <2>1, StartEffect
  <2> HIDE DEF h
  <2> QED
    BY <1>0, <1>1, <2>2, <2>3, StrikeHeld DEF OfferCode, At, GuessPCs
<1>2. CASE ValidateTOTP(r)
  <2>1. ASSUME NEW s \in Steps, req' = [req EXCEPT ![r].pc = "consume", ![r].factor = <<"totp", s>>],
               UNCHANGED <<strikes, guesses, clears>>
        PROVE  StrikesKept'
    <3>1. req'[r].pc = "consume"
      BY <2>1, FactorEffect DEF PCs
    <3> QED
      BY <1>0, <2>1, <3>1, StrikesOnward DEF HeldPCs, GuessPCs, lockout
  <2> QED
    BY <1>2, <1>w, <1>x, <2>1 DEF ValidateTOTP, At, GuessPCs
<1>3. CASE ConsumeTOTPStep(r)
  <2>1. CASE Goes(r, "step") /\ UNCHANGED <<strikes, guesses, clears>>
    BY <1>0, <2>1, GoesSame, StrikesOnward DEF PCs, HeldPCs, GuessPCs, lockout
  <2> QED
    BY <1>3, <1>y, <2>1 DEF ConsumeTOTPStep, At, GuessPCs
<1>4. CASE SetLastUsedTOTPStep(r)
  <2>1. CASE Goes(r, "accept") /\ UNCHANGED <<strikes, guesses, clears>>
    BY <1>0, <2>1, GoesSame, StrikesOnward DEF PCs, HeldPCs, GuessPCs, lockout
  <2> QED
    BY <1>4, <1>y, <2>1 DEF SetLastUsedTOTPStep, At, GuessPCs
<1>5. CASE ReadForRecovery(r)
  <2>1. CASE Goes(r, "code") /\ UNCHANGED <<strikes, guesses, clears>>
    BY <1>0, <1>5, <2>1, GoesSame, StrikesOnward DEF ReadForRecovery, At, PCs, HeldPCs, GuessPCs, lockout
  <2> QED
    BY <1>5, <1>x, <2>1 DEF ReadForRecovery
<1>6. CASE ConsumeRecoveryCode(r)
  <2>1. ASSUME NEW k \in user.codes, req' = [req EXCEPT ![r].pc = "accept", ![r].factor = <<"code", k>>],
               UNCHANGED <<strikes, guesses, clears>>
        PROVE  StrikesKept'
    <3>1. req'[r].pc = "accept"
      BY <2>1, FactorEffect DEF PCs
    <3> QED
      BY <1>0, <2>1, <3>1, StrikesOnward DEF HeldPCs, GuessPCs, lockout
  <2> QED
    BY <1>6, <1>w, <1>x, <2>1 DEF ConsumeRecoveryCode, At, GuessPCs
<1>7. CASE AcceptCode(r)
  <2>1. req'[r].pc = "mint"
    BY <1>7, GoesSame DEF AcceptCode, PCs
  <2>2. Guessing' \subseteq Guessing
    BY <1>0, <2>1, GuessingMoves DEF GuessPCs
  <2> QED
    BY <1>7, <2>2, StrikesForgotten DEF AcceptCode
<1> QED
  BY <1>1, <1>2, <1>3, <1>4, <1>5, <1>6, <1>7

LEMMA OtherStrikes ==
  ASSUME TypeInv, StrikesKept, NEW r \in Requests,
         \/ Login(r) \/ VerifyLogin(r) \/ CreateChallenge(r) \/ CheckFence(r) \/ DispatchPush(r)
         \/ \E n \in 1..logins : PushRespond(r, n) \/ PushFinish(r, n)
         \/ CheckOwner(r) \/ ResolvePush(r) \/ ConsumePushApproval(r) \/ RecheckPush(r) \/ ReadForMint(r) \/ MintSession(r)
         \/ BeginPassword(r) \/ SetPassword(r) \/ ConfirmPassword(r)
         \/ Deactivate(r) \/ ClearMFA(r) \/ DisableMFA(r) \/ RegenerateCodes(r)
         \/ RevokeSessions(r) \/ RevokeDevices(r)
         \/ BeginSetup(r) \/ StageSecret(r) \/ BeginConfirm(r) \/ ConfirmStep(r) \/ EnableTOTP(r)
         \/ BeginPairing(r) \/ MintPairingToken(r)
  PROVE  StrikesKept'
<1>0. Moves(r) /\ Others(r)
  BY LoginMoves, MintMoves, ChangesMoves, EnrolMoves
<1>1. UNCHANGED lockout /\ req[r].pc \notin HeldPCs
  <2>1. CASE Login(r) \/ VerifyLogin(r) \/ CreateChallenge(r) \/ CheckFence(r) \/ DispatchPush(r)
    BY <2>1 DEF Login, VerifyLogin, CreateChallenge, CheckFence, DispatchPush, At, HeldPCs
  <2>2. CASE \/ \E n \in 1..logins : PushRespond(r, n) \/ PushFinish(r, n)
             \/ CheckOwner(r) \/ ResolvePush(r) \/ ConsumePushApproval(r) \/ RecheckPush(r) \/ ReadForMint(r) \/ MintSession(r)
    BY <2>2 DEF PushRespond, PushFinish, CheckOwner, ResolvePush, ConsumePushApproval, RecheckPush, ReadForMint,
       MintSession, At, HeldPCs
  <2>3. CASE \/ BeginPassword(r) \/ SetPassword(r) \/ ConfirmPassword(r)
             \/ Deactivate(r) \/ ClearMFA(r) \/ DisableMFA(r) \/ RegenerateCodes(r)
             \/ RevokeSessions(r) \/ RevokeDevices(r)
    BY <2>3 DEF BeginPassword, SetPassword, ConfirmPassword, Deactivate, ClearMFA, DisableMFA, RegenerateCodes,
       Change, WriteConfirmed,
       RevokeSessions, RevokeDevices, At, HeldPCs
  <2>4. CASE \/ BeginSetup(r) \/ StageSecret(r) \/ BeginConfirm(r) \/ ConfirmStep(r) \/ EnableTOTP(r)
             \/ BeginPairing(r) \/ MintPairingToken(r)
    BY <2>4 DEF BeginSetup, StageSecret, BeginConfirm, ConfirmStep, EnableTOTP, BeginPairing,
       MintPairingToken, At, HeldPCs
  <2> QED
    BY <2>1, <2>2, <2>3, <2>4
<1>2. r \notin strikes.held
  BY <1>1 DEF StrikesKept, HeldPCs
<1>3. CASE ~Offers(r)
  BY <1>0, <1>1, <1>3, StrikesApart
<1>4. CASE Offers(r)
  <2>1. r \in strikes'.held /\ strikes' = strikes
    BY <1>1, <1>4 DEF Offers, OfferCode, Held, lockout, StrikesKept
  <2> QED
    BY <1>2, <2>1
<1> QED
  BY <1>3, <1>4

LEMMA StrikesStep ==
  ASSUME TypeInv, StrikesKept, [Next]_vars
  PROVE  StrikesKept'
<1>q. ASSUME UNCHANGED lockout, UNCHANGED req PROVE StrikesKept'
  BY <1>q DEF lockout, StrikesKept, LeftOver, Guessing
<1>1. CASE UNCHANGED vars
  BY <1>1, <1>q DEF vars
<1>2. CASE StrikesLapse
  BY <1>2, StrikesForgotten DEF StrikesLapse, Guessing
<1>3. CASE Restart
  <2>1. Guessing' = {} /\ LeftOver' = {}
    BY <1>3 DEF Restart, Idle, Guessing, LeftOver
  <2>2. CASE strikes = Cleared
    <3>1. strikes' = strikes /\ clears' = clears /\ guesses' = guesses
      BY <1>3, <2>2 DEF Restart
    <3>2. strikes.held = {}
      BY <2>2 DEF Cleared
    <3> QED
      BY <2>1, <3>1, <3>2, StrikesFrame DEF lockout
  <2>3. CASE strikes # Cleared
    BY <1>3, <2>1, <2>3, StrikesForgotten DEF Restart
  <2> QED
    BY <2>2, <2>3
<1>4. CASE Happens /\ ~StrikesLapse /\ ~Restart
  BY <1>4, <1>q DEF Happens, Logout, ChallengeExpires, DropInactive, Reactivate, RegisterDevice,
     ApproveDevice, DropPending
<1> QED
  BY <1>1, <1>2, <1>3, <1>4, CodesStrikes, OtherStrikes DEF Next, Begins, Continues

(* tryAttempt reserves a strike before the code is examined, so requests    *)
(* that run together cannot share one: however they interleave, at most     *)
(* MaxFailures wrong codes are examined per time the strikes start afresh.  *)
THEOREM GuessesAreBounded == Spec => []GuessesBounded
<1> DEFINE Inv == TypeInv /\ StrikesKept
<1>1. Init => Inv
  <2> SUFFICES ASSUME Init PROVE Inv
    OBVIOUS
  <2>1. ASSUME NEW r \in Requests PROVE req[r].pc = "idle"
    BY DEF Init, Idle
  <2>2. LeftOver = {} /\ strikes.held = {} /\ strikes.spent = 0
    BY <2>1 DEF Init, LeftOver, Guessing, Cleared
  <2>3. strikes \in [held : SUBSET Requests, spent : Nat] /\ guesses = 0 /\ clears = 0
    BY DEF Init, Cleared
  <2>4. IsFiniteSet({}) /\ Cardinality({}) = 0
    BY FS_EmptySet
  <2>5. StrikesKept
    BY <2>2, <2>3, <2>4, SignInAssumption DEF StrikesKept
  <2> QED
    BY <2>5, TypeInit
<1>2. Inv /\ [Next]_vars => Inv'
  BY TypeStep, StrikesStep
<1>3. Inv => GuessesBounded
  <2> SUFFICES ASSUME StrikesKept PROVE GuessesBounded
    OBVIOUS
  <2>1. guesses <= MaxFailures * clears + MaxFailures
    BY StrikesTyped, BoundGrows DEF StrikesKept
  <2> QED
    BY <2>1, BoundGrows DEF GuessesBounded
<1> QED
  BY <1>1, <1>2, <1>3, PTL DEF Spec
=============================================================================
