# KyPost-Server: TLA+ verification project

KyPost-Server is a self-hosted mail server and mail assistant: a Go backend (two
processes, the HTTP API and a polling daemon, that share SQLite and JSON state), a
TypeScript client, and Cloudflare Workers for push and for receiving mail. This
project models the parts of it that move mail, sending (outbox, scheduled send,
sending quota), receiving (holding buffer, continuous Cloudflare pickup) and polling
with in-place encryption, and the part that decides who is signed in. These are the
parts in which a wrong interleaving, a stop between two commits or a lost answer costs
a message, sends it twice, gives it to the wrong person or leaves a session open that
was cut off.

Paths below are relative to `src/backend/internal/` unless they start with `src/`
or `docs/`.

## 1. Inventory

### Components, their state and operations

| Component | State | Operations | Talks to |
| --- | --- | --- | --- |
| **Native outbox** (`mailbox/outbox.go`, `sso/native_outbound.go`, `api/native_outbound.go`, `app/native_outbound.go`) | `outbox` job rows, one `outbox_deliveries` row per delivery group, the Sent reserve | queue, claim, submit, complete, file Sent, compact, quarantine, recover | the SMTP relay, the directory (authority), DNS proofs |
| **Scheduled send** (`state/scheduled_sends.go`, `api/scheduled_send.go`) | `scheduled_sends` rows with sealed jobs | schedule, cancel, claim, dispatch, move, return to Drafts, sweep, prune, interrupt on start, fence after restore | the outbox (native mailboxes), SMTP and IMAP (others) |
| **Sending quota** (`state/send_ledger.go`, `api/send_quota.go`) | `send_ledger` rows | admit, purge, wait | every send path |
| **Receiving buffer** (`ingress/store.go`, `ingress/import.go`, `app/receiving.go`) | routes, deliveries with frozen bindings, leases, tombstones | set/refresh/deactivate routes, bind, accept, quarantine, claim, import, acknowledge, release, discard | gateways, the directory lock, mailboxes |
| **Native address ledger** (`sso/native_address.go`, `sso/native_provision.go`) | addresses with owner, state and generation | reassign, disable, release, reconcile routes | the buffer's route table |
| **Continuous Cloudflare receiving** (`app/receiving_cfcontinuous.go`, `cfreceiving/`) | credentials and host file, revisions and tables, provider ledger | publish, list, fetch, capture, import, delete, rotate, take over, fence | the receiving Worker, the buffer |
| **Receiving Worker** (`src/receiving-worker/continuous.mjs`) | R2: credentials, table, messages | capture, serve, delete, install table, rotate | senders, the daemon |
| **Mailbox store** (`mailbox/store.go`) | messages, receipts, usage counters, changes | import, append, move, flag, delete | buffer, outbox, API |
| **Backup and restore** (`backup/`, `sso/native_restore.go`, `sso/native_release.go`) | sealed capsules; restore hold | collect, seal, drill, restore, release | everything durable |
| **Push relays** (`src/push-relay-shared/`, `processor/native_sender.go`) | relay keys, budgets, claims | register, supersede, push | APNs, FCM |
| **Sign-in and second factor** (`api/server_auth_session.go`, `api/login_lockout.go`, `mfa/`, `api/mfa_handlers.go`, `api/push_mfa_handlers.go`, `api/native_pending.go`, `users/users.go`) | the account record (`users.json`), sessions, challenges, strikes and pending devices in memory, paired devices and subscriber id in the state store | sign in, offer a code, answer a push, mint and revoke sessions, enrol, pair, approve, change password, deactivate | the web client, paired devices |
| **Poller and processor** (`processor/poller.go`, `processor/incoming_encryption.go`), **IMAP adapter** (`adapters/imap`) | checkpoint, processed set, deferrals, decisions, the encryption journal, the key reservation | fetch, handle, defer, retire, commit the checkpoint, encrypt in place, resume | IMAP servers, classifier, rules, accounts |
| **Mail cache** (`mailcache`) | cached listings | store, omit, remove | poller, API |
| **Rules, sorter, classifier**, **contacts, calendar, groups**, **PGP**, **configuration**, **HTTP API and MCP**, **web client** | their records | matching, CRUD, cryptography, rendering | API |

### What is hard, and what correct means

* *Outbox.* The SMTP conversation runs outside every lock. A request and two recovery
  workers race for a delivery; the process may stop after the relay took the message
  and before that is recorded; the final answer may be lost; authority may change in
  between. Correct: a delivery is handed over at most once; the record never says more
  than what happened; blind-copy groups go out only after the primary; the Sent copy is
  filed once; stale work leaves the queue.
* *Scheduled send.* A cancel races the claim, a restart lands in the middle of a send,
  a draft save outlives its delay, a restored backup lists what was already sent.
  Correct: at most one send, honest status, the message always ends somewhere.
* *Quota.* Check and insert are one statement while rows are purged and retried.
  Correct: both windows hold at every instant, a retry is charged once, the wait is exact.
* *Receiving buffer.* Imports run under the directory lock and a lease that may
  expire; addresses are reassigned while mail is held. Correct: exactly one copy per
  frozen mailbox, nobody else gets one, tombstones are honest and final.
* *Continuous receiving.* Verdict, bytes, import, ledger entry and provider delete are
  separate commits; the parts of a backup are copied at different instants; a rotation
  or its answer is lost. Correct: mail is deleted at the provider only when held here,
  it goes to the owner frozen at capture, one instance receives, and the credentials
  are never out of everybody's hands.

* *Sign-in.* A handler reads the account, leaves the lock and acts on what it read; the
  account is changed, or everything of it revoked, in between. Correct: a revocation
  also cuts off what was in flight, a code, a recovery code or an approval is good
  once, concurrent guesses share one lockout, an enabled authenticator was proven.
* *Poller.* A fetch reports the highest UID it returned, not the highest handled;
  replacing a message is an upload, a removal, a journal, a decision and a key
  reservation in four stores, each of which may fail or lose its answer, and UIDs
  may change their meaning. Correct: no mail is passed over, lost, doubled or decided
  twice, the key a replacement needs is kept, and everything settles.

`PROJECT.json` lists each hazard at its line with the properties that cover it.

## 2. Modules

| Module | What it is |
| --- | --- |
| `Outbox` | the native outbox of one mailbox: store, requests, recovery workers, relay |
| `OneShotDelivery` | the abstract promise: a delivery is attempted, ends once, is taken at most once |
| `OutboxRefines` | the refinement mapping from `Outbox` to `OneShotDelivery` |
| `OutboxProofs` | theorems about `Outbox` with their proofs, its refinement of `OneShotDelivery` among them |
| `ScheduledSend` | scheduled send; composed with the outbox through `OneShotDelivery` |
| `ScheduledSendProofs` | theorems about `ScheduledSend` with their proofs |
| `SendLedger` | the sending quota |
| `SendLedgerProofs` | theorems about `SendLedger` with their proofs |
| `Ingress` | the receiving buffer, the address ledger and the route table |
| `IngressProofs` | theorems about `Ingress` with their proofs |
| `CFKeys` | who holds continuous receiving: credentials, rotation, takeover, fencing |
| `CFKeysProofs` | theorems about `CFKeys` with their proofs |
| `CFPickup` | continuous receiving: tables, capture, pickup, delete, restore |
| `CFPickupProofs` | theorems about `CFPickup` with their proofs |
| `SignIn` | signing in to one account, second factors, enrolment, pairing, revocation |
| `SignInProofs` | theorems about `SignIn` with their proofs |
| `Poller` | polling one primary mailbox and encrypting its incoming mail in place |
| `PollerProofs` | theorems about `Poller` with their proofs |
| `MC*` | small instances for TLC |

In all of them a SQLite transaction, a file rename and a request to another service
is one step; what happens between two of them can be interleaved or cut off.

**Outbox.** `outbox`, `state`, `attempts`, `due`, `sent` are the columns; the claim
token of a row is its attempt number. `pc`, `job`, `seq`, `token`, `result`, `todo` are
the locals of a request (named after its job) or of a process's recovery worker.
`RequestQueue`/`RequestClaim` are the two commits of `queue` under one authority fence;
`RelayAnswers` is the SMTP conversation with its five kinds of outcome (confirmed,
accepted but QUIT failed, no definite answer, 4xx, 5xx); `Complete`, `CompleteFails`,
`FileAfterDelivery` follow it in `deliver`; `RecoverRead`/`RecoverSubmit`/`FileSent`/
`Quarantine` are `Recover`. `barrier` and `stale` stand for the authority checks:
mailbox-wide refusals, transient or final, and jobs whose frozen authority is gone.
The model's `MaxAttempts` is the code's 6. A refused `QueueOutbound` (quota, conflict)
has no reason in the model; the claim's key lookup cannot fail.

**ScheduledSend.** `status`, `delayed`, `since` are the row; `clock` places the time of
day relative to the row's due time, last possible retry and deadline. The agents are
the sweeper's goroutines and each row's cancel request. `Delivered` gives the status a
send may end with for what the server took. Native rows are handed to `Outbox ==
INSTANCE OneShotDelivery`, the promise that `OutboxRefines` shows `Outbox` to keep, so
the two components are checked as a composition without their product.

**SendLedger.** `charged` is every row ever inserted and `ledger` the numbers of those
still in the table. `Hourly` and `Daily` give each row what it counts for in a window,
`Sums` adds it up; `Fits` is the insert's `WHERE` clause. `Opens` is the walk of
`sendQuotaWait` over a window, oldest row first, until the excess is covered, and
`QuotaWait` the later of the two. A call takes place within one unit of the clock.

**Ingress.** `ledger` holds every generation of every address, `routes` the buffer's
copy. `Enter`/`Leave` are the directory lock; imports and releases claim a lease, store
mailbox by mailbox (`Store`, idempotent through the receipt) and acknowledge.
`frozenAuthority` may refresh the routes of earlier bindings before a later one
mismatches; the model refreshes all or none. `RouteExpires` is the one-minute route
clock. Held mail that can never be imported, which `importDeliveryTo` quarantines, is mail
that a server from before the check in `Accept` took in; the model starts empty.

**CFKeys.** `cur`, `pending` and `marker` are the credentials file and the host file;
`step`/`answer` is the operator command under the credential lock, `at`/`used` the
daemon. `Promote`/`PromoteHost` are the two writes of a promotion. `SendRotate` may be
answered, lost, or land later (`RotationLands`). A restore copies the credentials but
never the host file.

**CFPickup.** `provider`, `revision`, `table` are R2; `holder` stands for CFKeys; per
host `hold`/`bound` are the holding store, `mail` the mailbox, `entry`/`revs` the
provider ledger, `own` the address ledger. A table is the owner of the one address, a
key stands for its digest, and revisions, which the code takes from a millisecond
clock, are unique. `Copy` copies a running instance part by part in the order of
`backup/collect.go`: the holding store first and alone, then the files as a walk meets
them, addresses, provider ledger, mailboxes. An import whose receipt names another
envelope or content is refused (`NoConflict`). Quarantined mail stays "quarantined" when it is released or
discarded, since the pickup treats both alike (module Ingress has the difference).

**SignIn.** `user` is the account record; `sessions`, `challenges`, `strikes`,
`pending`, `redeemed`, `revocations` and `revokedAt` are the server's memory and go with
a `Restart`. `req[r]` is what a request has read and where it is. Every read or write of
the account record and every locked section is a step; a handler is a chain of them
(`Login`, `VerifyLogin`, `CreateChallenge`, `CheckFence`, `DispatchPush`, ...,
`ReadForMint`, `MintSession`). A password, a code or a number is right or wrong by
choice; a right authenticator code is its time step, a recovery code the enrolment it
came from. `era` counts the changes that must cut sessions off; a session carries the
era its password was verified in. Deactivation, a cleared second factor, a password
change and new recovery codes are one write (`Change`, `SetPassword`, `WriteConfirmed`) and then
`RevokeSessions` and `RevokeDevices`, any of which another request may precede. Turning
the second factor off and drawing new recovery codes confirm the password first
(`ConfirmPassword`) and write later, without another look at the account; pairing verifies
the password (`BeginPairing`) and reads the subscriber id later (`MintPairingToken`); a
push answer finds its challenge (`PushRespond`) and the account's setting later
(`CheckOwner`). A secret or a code list that cannot be read gives the strike back
(`Withdrawn`). Any paired device may approve a push, where the code also asks for the
device's `MFAApprover` flag: the model allows more.

**Poller.** `box` is the mail on the server: UID, message, how often it is encrypted,
unread, folder. Messages are numbered in the order in which they arrive. `file` is the
journal, `reserved` the account's `IncomingEncryptionPending`, `d` the tick: its batch,
the checkpoint it began with and the one it will store, the deferred UIDs, the journal
it works on and whether a failure there ends the tick or only defers the message. An
action is one call to the mail server, one transaction or one file write, and each has
the outcomes done, failed and, where the other side keeps state, done with the answer
lost. A namespace is a UIDVALIDITY; `Renumber` gives the mail of INBOX other UIDs, at any
time. `adrift` notes that this happened before a first checkpoint was stored: the store
then takes its UIDs for those of the new mailbox and cannot tell. The removal of an
original (`RemoveOriginal`) compares no UIDVALIDITY, as in the code. It runs in the session
that selected the mailbox and found the copy, without a reconnect, and IMAP keeps UIDs
stable within a session: this is `SameSession`, the one assumption about the mail server
that `NothingLost` rests on. An uploaded copy has the flags of its original (`Stored`), and
the actions of a journal mark it, mark it read or move it (`Acted`). `DeferEncryption` is a
failure to classify or encrypt, which is put off uncounted and may happen without end.
`SetIncoming` is the owner's switch without the conditions of its handler (step-up,
revision, usable key): the model allows more. A
`Crash` is a stop of the process, not a loss of power, so a failing directory sync
matters only as a failing call. An upload takes effect before its connection ends.
`ApplyOutcome` moves a mail or marks it read; nobody marks mail unread again.

## 3. Runs

| Run | Instance | What it shows |
| --- | --- | --- |
| `outbox` | 1 job with 2 delivery groups, a request and a recovery worker, 2 attempts, 1 crash, fairness | nothing handed over twice, honest records and answers, follow-ons after the primary, what is owed is kept and filed once, outcomes final, work settles, an owed Sent copy is filed; refinement of `OneShotDelivery` |
| `outbox_stale_follow_on` | 1 job, fairness (violation) | finding 1 |
| `scheduled_send` | 1 IMAP or native row, 2 goroutines, cancel, 1 restart, failing update or restore, fairness | sent at most once, honest status, final stays final, every row ends |
| `scheduled_returned_native` | 1 native row (violation) | finding 2 |
| `send_ledger` | 5 sends, windows of 2 and 5 units, clock to 7 | both quotas in every window with one charge per send, exact wait |
| `ingress` | 1 delivery, 2 addresses, 2 mailboxes, 1 process, 3 generations, fairness | one copy each, frozen owners only, imports under authority, honest and final tombstones, mail of a retired address leaves the pending state |
| `cf_keys` | 3 instances, 3 generated credentials, 2 stops | one holder, credentials always known, fenced only by another |
| `cf_keys_interrupted` | 2 instances (violation) | finding 3 |
| `cf_pickup` | original and restored host, 1 message, 2 tables, any number of stops | delete only what this host holds, imported means stored, frozen owner, verdict survives |
| `sign_in` | 2 requests at a time, 2 time steps, 6 scenarios, restarts at any point | sessions and devices cut off, factors spent once, one answerable push, guesses bounded, enabled means proven |
| `poller` | 2 messages of 3 kinds, 8 scenarios, fairness | nothing skipped, lost or doubled, the key kept, decided once, everything settles |
| `poller_failure_hidden` | 2 messages, no faults (violation) | finding 4 |

*Bounds.* Jobs, rows and deliveries interact only through the resources the models
keep (agents, fence, quota), so the cases are those of one item and several actors:
two contenders for a claim, one crash (two where a second stop can hit the recovery of
the first), one primary and one follow-on, one retry left or none, an address that
goes to somebody else and back. `outbox` has one worker beside the request: recovery
must make progress alone, and that a delivery is handed over once and recorded honestly
is proved for any number of workers. `scheduled_send` has one mishap: a failing update
followed by a restart leaves what a restart before the update leaves. Its restores are
of IMAP rows, since the native mailboxes of a restored server are held. `ingress` has one process,
because the directory lock admits one at a time and leases still expire under it.
`sign_in` and `poller` bound what may happen by budgets, each a scenario: in `sign_in`
how many sign-ins, codes, account changes, enrolments and pairing tokens begin, in
`poller` how many faults, crashes, removals by another client, renumberings, key
changes and switches of encryption (the first has two faults and a crash, the second two
renumberings and a fault; removal, key change and switch are paired with a fault, a crash or
a renumbering). Classifier, rules and encryption may fail without bound. `SendLedger` needs windows that overlap and slide past
each other, hence a clock longer than the day window. Three credentials allow a
rotation and a takeover that conflict and one more after it. `Takers` and
`Reassigning` in `cf_pickup` restrict takeover and reassignment to the restored host.
Symmetry is used only where no temporal property is checked and only over values no
definition distinguishes (send IDs, requests, restored hosts).
Only `send_ledger` switches deadlock checking off: its clock ends.

*Fairness.* Outbox: handlers and the 30-second worker take their next step, SMTP ends
within its deadlines, backoff passes, and storage is repaired in the end (an owed Sent
copy tried again and again is filed: strong fairness of `FilesOwed`). That the relay
accepts, that DNS returns or that nobody crashes is not assumed. ScheduledSend:
goroutines, requests, sweeps and time go on; no send or draft save need ever succeed.
Ingress: a process with the lock goes on or stops (its context ends after 30 seconds),
leases expire, and the importer, which visits pending mail every five seconds,
gets the lock now and then (strong fairness). Poller: the daemon ticks on its own timer
and every call it makes returns or times out (weak fairness of `Daemon`); faults are
bounded in number, but that a classification, a rule or an encryption ever succeeds is not
assumed.

*Exemptions.* `EveryRowEnds` leaves out rows returned by a restore and rows whose status
update failed (see the observations). `EverythingSettles` leaves out encryption that is
paused for the owner to reconcile: the mailbox was renumbered, another client removed
what the journal is about, or a rule of an outdated batch moved it (`Astray`, see the
observations). It also leaves out mail whose encryption is deferred for ever, because the
code does not bound that. `NothingSkipped` and `EverythingSettles` except a store that is
`adrift`, and `DecidedOnce` does not count its decisions. `DevicesCutOff` leaves out a revocation that reported a
failure to the administrator. `DecidedOnce` counts in one UID namespace, since the code
forgets what it decided when the namespace changes.

*Mutants.* Every property of a passing run has a mutant in `PROJECT.json`: a plausible
slip (a claim of a submitting row, a missing restore fence, a ledger trusted over the
store, mailboxes copied before the buffer) under which TLC finds it violated.

## 4. Findings

1. `outbox_stale_follow_on`: `PendingOutbound` lists a follow-on only behind an accepted
   primary. Behind a quarantined, failed or uncertain one it stays queued for ever,
   although `docs/NATIVE_OUTBOX.md` says that definite authority changes quarantine
   unclaimed work.
2. `scheduled_returned_native`: an error from the hand-over to the outbox does not mean
   that the job is not queued (its commit may precede the failing one). The row is
   retried, is late, and returns to Drafts "unsent" while the outbox delivers it.
3. `cf_keys_interrupted`: a stop between the two writes of a promotion is recognised
   by `pending = current`. The next rotation overwrites `pending` while the marker is
   still the old one, and the installed instance counts as fenced; a rerun of `rotate`
   is refused, and a takeover is needed on the instance that already holds receiving.
4. `poller_failure_hidden`: `rules/engine.go` and `rules/validate.go` order a rule's
   actions so that every failure stays retryable: the one action that takes a message
   out of sight is the last. But a rule without "stop" is followed by the recording of
   its decision, by other rules and by the classification, and when one of these fails
   the message is deferred although the next fetch, which searches unread mail in INBOX,
   cannot list it: it is neither retried nor retired.

Observations that are not runs:

* In the first tick of a mailbox decisions are recorded before the first checkpoint. If
  that tick ends without storing one and the mailbox is recreated before the next,
  `UIDNamespaceReset` (`adapters/imap/client.go:1855`) has no namespace to compare and old
  marks hide new mail, which the checkpoint then passes. The run contains this; it is the
  exception `adrift` in `NothingSkipped`, without which TLC finds that property violated.
* In the encryption path a failing classifier, like any recoverable failure, is deferred
  without being counted (`settleFailure`, `processor/poller.go:1158`), so the attempt cap
  does not apply: a message that fails every time is tried for ever, and holds the
  checkpoint. The comment at `poller.go:1300` says "Deferral is not unbounded". This is the
  first disjunct of `EverythingSettles`; without it TLC finds the property violated.
* When the write that retires a message fails, that is only logged, and the checkpoint
  passes the message (`recordMessageFailure`); `NothingSkipped` counts such mail as settled
  (`unrecorded`).
* While the audit row of a deferred message cannot be written, its notification is
  repeated with every tick (`recordMessageFailure` looks for the row). Audit rows are not
  in the model.
* A caller whose password was verified before a revocation may be given a pairing token of
  the new subscriber id (`api/server_notifications.go:354-379`, `api/review_pairing.go:32-42`):
  nothing is looked at again in between. `DevicesCutOff` is about tokens, not about the
  password behind them.
* Rules act on the UIDs of a batch whatever the UIDVALIDITY has become, while a replacement
  checks its own. When a mailbox is renumbered inside two ticks and an answer of the
  second replacement is lost, a rule for the next mail of that batch may move the
  journal's copy out of INBOX, where `ReplaceIncoming` searches. If the original is still
  there the next tick uploads another copy, and the first stays in the other folder; if
  it is gone, every tick fails at the journal until the owner reconciles it. The run
  contains both (two renumberings and a fault): `OneCopyOfEach` speaks of all folders only
  while the UIDVALIDITY stays, and `EverythingSettles` counts such a journal as paused
  (`Astray`). No mail is lost (`NothingLost`).
* `FailuresRetryable` is the only claim about mail a rule has taken out of sight;
  `NothingSkipped` and `EverythingSettles` speak of unread mail in INBOX.

* A delivery whose *import* stored some copies, is interrupted and then quarantined is
  discarded as "discarded", not "partially_released"; the documentation speaks of
  releases only.
* Two goroutines may work rows of one user at the same time (one still saving a
  draft), although the comment at `api/scheduled_send.go:41` promises one. No message
  is at risk.
* A failing status update leaves a row in "sending" until the next start, and the
  user's other rows wait for it (`api/scheduled_send.go:378`); `EveryRowEnds` is
  checked without such failures.
* A row returned by a restore has no `returning_since`, so its draft save is retried
  without end; `EveryRowEnds` is checked without restores.
* `PendingOutbound` lists at most 50 jobs; jobs refused for a mailbox-wide reason could
  keep others from being listed. The model lists all.
* A host restored without `cloudflare.db` cannot quarantine a *staged* delivery of an
  unknown revision (`ingress.Quarantine` finds another binding); the mail waits at the
  provider. A backup copies that file after the holding store, so the file must be lost.
* A reject verdict known to the old host only (its ledger entry already turned into
  "imported") is unknown to a restored one whose store is older: the message is scanned
  or filed again by what the restored ledger says. `RejectedIsJunk` speaks of verdicts
  on the host's own record.

## 5. Proofs

`OutboxProofs` proves, for every set of jobs and workers, any number of groups,
attempts and crashes, from `OutboxAssumption` alone:

* `TypeCorrect`: `Spec => []TypeOK`. The invariant is `TypeOK` and `OnJob` (an agent
  that is doing something is on a job, a request on its own), needed because the steps
  index the rows by `job[a]`.
* `DeliversAtMostOnce`: `Spec => []AtMostOnce`.
* `RecordsHonestly`: `Spec => []OutcomesHonest`.

Neither of the last two is inductive: that a completion may write "accepted" or
"retryable" is right only because of what the completing agent knows. The inductive
invariant `Core` adds the link between agents, rows and relay: a claim in flight is a
durable "submitting" row (`ClaimsDurable`), no two agents hold the same one
(`ClaimsExclusive`), before the answer the relay has not seen the delivery and after it
the answer is true (`AnswersHonest`), and rows that do not exist were never handed over
(`AbsentUntouched`). `QuietCore` deals with all steps that leave rows and relay alone,
`RowCore` with a step that gives one row a state the relay's record supports; each
transaction has its lemma, and `CoreStep` goes through the actions.

`CFKeysProofs` proves, for every set of instances and any number of rotations and
stops, from `CFKeysAssumption` alone:

* `OneInstanceReceives`: `Spec => []OneHolder`. Two instances can have the same
  credentials (one was restored from the other's backup), so the argument is about who
  made them. `KeyInv` says that generated identifiers are new (`Fresh`), that pending
  credentials are the host's own (`PendingOwn`), that copies of the same credentials
  name the same maker (`SameMaker`), and that a host file vouches only for credentials
  the host made itself (`MarkerOwn`). A live instance is then the maker of its
  credentials, and there is one maker.
* `ReceivingNeverStranded`: `Spec => []HolderKnown`. The danger is an instance that
  gives pending credentials up while a rotation with them is still under way.
  `RotationInv` orders everything by epoch: what is in use or in a backup was installed
  (`UsedInstalled`), pending credentials are the next epoch or were just promoted
  (`PendingNext`), what an instance was told stays true (`AnswersTrue`), and a rotation
  under way is its sender's pending one or comes too late (`LateOrPending`). A refused
  instance is one that the Worker has moved past, so what it gives up can no longer be
  installed.
* `FencedOnlyByOthers`: `Spec => FencedByOther`, an action property, from both
  invariants and `OwnWorker`: credentials of its own that the Worker has are still
  pending on the maker, or it has moved on from them.

`KeyInv` and `RotationInv` were checked with TLC on the instance of `cf_keys` before
they were proved.

The second part of `OutboxProofs` goes on from `Core`. The provers see one transaction at a time:
`RowMoves` sorts the steps by what they do to rows and relay (nothing, enter, claim,
relay, complete, file, withdraw, compact), and every theorem argues over those.

* `FollowOnsInOrder` and `OkIsTrue`: `Spec => []FollowOnsAfterPrimary` and
  `Spec => []OkMeansAccepted`. Both rest on `PrimaryConfirmed`: the relay took the
  primary of a request that is past it. This is where the order of a request's steps
  counts, and it is needed for a request whose `Complete` failed too.
* `NothingOwedIsLost`: `Spec => []OwedKept`. `Owed` ties the Sent copies made to the
  column that says so, and says that a receipt owes nothing and has nothing to try.
* `OutcomesStay`: `Spec => OutcomesAreFinal`, an action property.
* `OutboxRefinesOneShot`: `Spec => ImplementsOneShot`. Every initial state maps to an
  initial state of `OneShotDelivery`, and every step to a step of it or a stutter, under
  the mapping of `OutboxRefines`. `ScheduledSend` may therefore use the promise in the
  place of the outbox for any number of jobs.

`ScheduledSendProofs`, from `ScheduledAssumption`, for any number of rows,
goroutines, restarts and restores:

* `NothingSentTwice` and `StatusesHonest`: `Spec => []SentAtMostOnce` and
  `Spec => []StatusHonest`. A status alone does not say whether a goroutine has sent
  already, so `IInv` adds what each goroutine knows (`AgentOK`: between claim and
  decision nothing of an IMAP row was taken; a decision agrees with the wire), that a
  claimed row is one goroutine's (`OneEach`), and that a backup lists nothing as
  sendable (in `RowOK`), which is the fence that a restore relies on.
* `FinalRowsStay`: `Spec => FinalStays`, an action property.

`SendLedgerProofs`, from `LedgerAssumption`, for every quota and recipient limit, any two
windows of which one is shorter, and any number of sends:

* `QuotaIsKept`: `Spec => []QuotaKept`. A quota over a sliding window, counted in a table
  that forgets, needs `LedgerInv`: rows are numbered in the order of their times
  (`InOrder`) and whatever is younger than a day is still in the table (`DayIsKept`). So
  the table gives the sums that all rows ever charged would give (`PurgeUnseen`); when
  the clock moves both windows only lose rows, and a new row counts in no window that
  ended before. That a retry is charged once needs the hour of retries to be
  shorter than the day after which rows are deleted.
* `WaitIsExact`: `Spec => []WaitExact`. `OpensExactly` looks at the row with which the
  running sum covers the excess. Once it has left the window so have all rows before it,
  and enough is free; while it is in the window so are all rows after it, and what the
  rows before it free is too little. A window therefore has room exactly from the moment
  `Opens` names, and both have it from the later one. This rests on `InOrder`.
* `PurgeIsUnseen`: the `DELETE` changes no answer.

What a sum is for sequences of any length is induction over data, which the library's
theorems do not give here because they take a predicate as a parameter. The proofs
state it of sets: the numbers at which a claim fails, if there are any, have a least one
(`Least`, from the well-foundedness of `<`), and there the claim holds after all. That way
`SumsToExist` and `SumsDefined` show that the recursive function is well defined, and
`Ascending` carries every comparison of sums.

`IngressProofs`, from `IngressAssumption`, for any addresses, mailboxes, generations,
deliveries and processes:

* `OneCopyInEachMailbox`, `OnlyFrozenOwners`, `DiscardsHonest`: `OneCopyEach`,
  `FrozenOwnersOnly` and `DiscardHonest` always hold. The invariant says what an agent in
  the middle of a delivery has done (`Storing`: every owner not still to do has a copy;
  a release has its lease, or the delivery was archived as partially released under
  it), that an import works under the frozen authority (`Working`), that nothing is
  stored of a delivery whose owners may still be chosen (`Unsent`), and that a delivery a
  release stored a copy of keeps a lease until it ends (`ReleasedHeld`); the last is why
  a discard cannot claim that nothing was released.
* `ImportsUnderAuthority` and `TombstonesStay`: the action properties
  `ImportUnderAuthority` and `TombstonesFinal`.

`CFPickupProofs`, from `CFPickupAssumption`, for any hosts, keys, owners, tables,
stops and restores:

* `DeletesAreCovered`, `ImportsAreStored`, `OwnersAreFrozen`: `DeletedIsHeld`,
  `ImportedIsStored` and `FrozenOwner` always hold. A host half-way through its copy has
  a holding store that names mail its mailbox does not have yet: `KeyOK` says that such
  mail is in the original's mailbox, which is why the order of the parts in
  `backup/collect.go` matters. `Forward` is what hosts rely on in each other: captured
  copies keep their revision, deleted ones stay deleted, tables keep their owner.
* `RejectedStaysOut`: `Spec => RejectedIsJunk`, an action property. A reject verdict is on
  record until the message is stored or held or can no longer be fetched (`KeyOK`), also
  for a daemon that has it in hand (`AtKey`).

`SignInProofs`, from `SignInAssumption`, for any number of requests, sign-ins, time
steps, account changes and restarts:

* `RevocationCutsSessions`: `Spec => []SessionsCutOff`. A change of the account and the
  revocation after it are two steps, so a session may outlive the change for a while.
  `SessionsOwed` says that every change a session does not know of has a request that
  has yet to revoke; `FencesHold` says the same of a sign-in in flight and of a waiting
  challenge, unless its fence already stops it.
* `FactorsSpentOnce`: `Spec => []FactorSpentOnce`. `FactorInv`: a factor a request holds
  is held by it alone and brought no session yet, used time steps are below the recorded
  one, used recovery codes are off the list and no list has them again, a sign-in gets
  one challenge, and a consumed approval's challenge is gone.
* `GuessesAreBounded` (through `StrikesKept`), `OnePushAtATime` (through
  `AnswerableOnce`), `AuthenticatorsProven` (through `ConfirmsProven`) and
  `RevocationCutsDevices` (inductive as it stands).

`PollerProofs`, from `PollerAssumption`, for any mail, kinds, rule actions, faults, stops,
removals, renumberings, key changes and switches of encryption:

* `NothingIsSkipped`, `KeyIsKept`, `NothingDecidedTwice`, `OneCopyIsLeft`:
  `NothingSkipped`, `KeyKept`, `DecidedOnce` and `OneCopyOfEach` always hold.
* `NoMailIsLost`: the action property `NothingLost`.

The inductive invariant `IInv` (theorem `Agreement`) is about what a UID means. The
store's UIDs are of the checkpoint's namespace, the batch's of the fetch's, a job's of
its own, and any of these may be over (`Live`, `Fresh`, `Namespaces`); the store of a mailbox
that was recreated before its first checkpoint is never live (`adrift`), and nothing is
claimed of it. A tick that
fetches has no journal on file, so a job is never older than the store. In its namespace
a UID names one message (`Uids`), a message has one mail in INBOX but for the one the
journal is about (`OneInInbox`), the journal names its original and its copy (`JobOK`,
`CopyOK`, `Gone`), and a message is marked exactly when it is decided (`Decisions`). The
batch then covers what the new checkpoint may pass (`Covered`). None of these
properties is inductive alone: that the checkpoint passes only settled mail needs
`Covered`, that needs the marks to agree with the decisions across a replacement, which
needs the journal to name the right mail.

`OneCopyOfEach` also counts mail that a rule moved, as long as the mailbox keeps its
UIDVALIDITY: until then the UIDs of a batch are about the mail they were read from, so no
rule moves mail the journal is about (`OneInBox`). The attempt to prove it across a
renumbering failed for a good reason: see the observations.

The proofs changed the models in five places. `SendLedger` had its rows in a filtered
sequence summed by a fold; it now gives every row a weight and sums by a recursive
function, which can be reasoned about, and has the same behaviours. `OneCopyOfEach` was stated of all folders
under any renumbering, which a single renumbering does not refute; it now says what
holds. Recovery codes of an enrolment are named
by the confirming time step, which is what makes two enrolments differ. The poller's
batch is a set that is handled from the lowest UID, and `Replaced` chooses its way by
nested `IF`, where overlapping `CASE` arms had left the choice to TLC; behaviours stayed the
same.

Every inductive invariant was checked with TLC, on the instance of its component's run,
beside its proof.

*Only model-checked.* All liveness (`WorkSettles`, `SentEventuallyFiled`,
`EveryRowEnds`, `RetiredLeavesPending`, `EverythingSettles`): fairness and `ENABLED` are
out of the prover's reach. Every safety invariant and every action property of the passing runs
is stated by a theorem.

## 6. Not modelled

* *Push relays, restore hold and release, discovery limits of the outbox*: state worth
  modelling; see the plan.
* *Of sign-in*: SSO sign-in, the login and address lockouts, captcha, rate limiters,
  key derivation and rehashing, the push setting. They refuse a request or change what
  no property here reads.
* *Of the poller*: snoozed mail, anti-phishing keywords, Autocrypt harvesting,
  invitations, linked accounts, notifications, send-as probes, the mail cache and the
  cleanup of old rows. Cleanup drops marks of mail that is long below the checkpoint.
* *Mailbox usage counters, byte and record limits, sender blocks* of the receiving
  paths: quotas appear in the models as refusals that may happen at any time.
* *SMTP, IMAP, DNS and R2 themselves*: modelled by the answers the code tells apart.
* *Rule matching, sorter, classifier, PGP, contacts, calendar, configuration, HTTP and MCP
  rendering, web client, sealing of backups*: matching, cryptography, records behind a
  lock, or presentation; their answers enter the models as nondeterminism where they
  matter (authority, verdicts).

## 7. Plan

Done, in this order: `Outbox`; `ScheduledSend` composed with it through
`OneShotDelivery`; `SendLedger`; `Ingress`; `CFKeys`; `CFPickup`; the first proofs;
`SignIn`; `Poller`; the proofs of all safety and action properties.

Models to add:

1. `RelayKey`: registration and replacement of relay keys between the processes
   (`processor/native_sender.go`) and the coordinator (`src/push-relay-shared/`): a
   replaced key must not disable the one in use; a claim is spent once.
2. `OutboxDiscovery`: `PendingOutbound` with its limit of 50, several mailboxes and
   the mailbox quota, against `docs/NATIVE_OUTBOX.md`: a blocked job must not starve
   the others.
3. `RestoreHold`: `sso/native_restore.go` and `sso/native_release.go`, composed with
   the outbox and the buffer: nothing is sent or imported before the operator's
   release, and a release that stops half-way can be repeated.

Theorems to add: the safety properties of those models. Should rules ever be fenced by
the namespace of their batch, `OneCopyOfEach` of all folders without its condition.
