------------------------------- MODULE Outbox -------------------------------
(***************************************************************************)
(* The native outbox: durable outgoing mail of one mailbox.                *)
(*                                                                         *)
(* mailbox.Store (mailbox/outbox.go) keeps the jobs, one row per delivery  *)
(* group and the Sent obligation in SQLite; sso.NativeOutbound             *)
(* (sso/native_outbound.go) admits, claims and submits them; the HTTP      *)
(* request (api/native_outbound.go) sends a new job in the foreground, and *)
(* one recovery worker per process (app/native_outbound.go) retries.       *)
(*                                                                         *)
(* Every SQLite transaction is one step.  The network submission runs      *)
(* without any lock between the claim and the completion, so a claim, the  *)
(* relay's answer, the completion and the Sent filing are separate steps,  *)
(* interleaved with the other agents, with crashes and with authority      *)
(* changes.                                                                *)
(***************************************************************************)
EXTENDS Integers, FiniteSets

CONSTANTS
  Jobs,          \* job IDs; the request that creates a job is named after it
  Workers,       \* the recovery workers, one per process
  Api,           \* the worker whose process also serves the requests
  LastGroup,     \* the highest delivery sequence a job may have
  MaxAttempts,   \* total attempts of one delivery (6 in the code)
  MaxCrashes,    \* bound on process crashes
  None           \* no job

ASSUME OutboxAssumption ==
  /\ LastGroup \in Nat
  /\ MaxAttempts \in Nat \ {0}
  /\ MaxCrashes \in Nat
  /\ Api \in Workers
  /\ Jobs \cap Workers = {}
  /\ None \notin Jobs

Agents == Jobs \cup Workers
Seqs   == 0 .. LastGroup

Unclaimed == {"queued", "retryable"}
Final     == {"accepted", "failed"}
States    == Unclaimed \cup Final \cup {"submitting", "uncertain", "quarantined"}

(* What Deliver reports: confirmed, accepted but QUIT failed, no definitive *)
(* answer, a definite 4xx, a definite 5xx.                                  *)
Accepting == {"ok", "teardown"}
Results   == Accepting \cup {"uncertain", "temporary", "permanent"}

VARIABLES
  outbox,     \* the job row: absent, whole, or compacted to a receipt
  state,      \* the delivery rows: state ...
  attempts,   \* ... attempts so far; the claim token is this number
  due,        \* ... and whether next_attempt has passed
  sent,       \* the Sent copy: none owed, reserved, filed
  stale,      \* jobs whose frozen authority or expiry no longer holds
  barrier,    \* the first mailbox-wide authority check that fails now
  fence,      \* the request holding the authority fence across two commits
  pc, job,    \* each request's and each worker's step and the job it is on,
  seq, token, \* ... the claim it holds: delivery sequence and attempt token,
  result,     \* ... what Deliver returned to it,
  todo,       \* ... and the sequences it still means to submit
  crashes,    \* process crashes so far
  handed,     \* history: how often the relay took each delivery
  copies,     \* history: Sent messages inserted for each job
  response    \* what the HTTP client was told

rows   == <<outbox, state, attempts, due, sent>>
locals == <<pc, job, seq, token, result, todo>>
vars   == <<rows, stale, barrier, fence, locals, crashes, handed, copies, response>>

Steps == {"idle", "fenced", "loop", "flight", "answered", "completed",
          "filing", "quarantine", "done"}

(* Agent a moves to a step and keeps its other locals, or forgets them.     *)
Goto(a, step) ==
  /\ pc' = [pc EXCEPT ![a] = step]
  /\ UNCHANGED <<job, seq, token, result, todo>>

Leave(a, step) ==
  /\ pc'     = [pc EXCEPT ![a] = step]
  /\ job'    = [job EXCEPT ![a] = None]
  /\ seq'    = [seq EXCEPT ![a] = 0]
  /\ token'  = [token EXCEPT ![a] = 0]
  /\ result' = [result EXCEPT ![a] = "ok"]
  /\ todo'   = [todo EXCEPT ![a] = {}]

(* Agent a leaves the authority fence holding the claim on sequence i.      *)
Holds(a, i) ==
  /\ pc'    = [pc EXCEPT ![a] = "flight"]
  /\ seq'   = [seq EXCEPT ![a] = i]
  /\ token' = [token EXCEPT ![a] = attempts'[job[a]][i]]
  /\ UNCHANGED <<job, result>>

-----------------------------------------------------------------------------
(* Authority, sso/native_outbound.go.                                       *)

(* A restore hold or disabled settings refuse before the job is looked at;  *)
(* a retired domain, a refused account or mailbox, a forced password change *)
(* or a relay that no longer sends for the domain ends the job; a lapsed    *)
(* DNS proof refuses only after every staleness check has passed.  The      *)
(* proof is fetched before the fence: a lapse between the two is a lapse    *)
(* just after the step.                                                     *)
Barriers == {"none", "hold", "refused", "unproven"}

(* withAuthority: what the mailbox-wide checks answer.                      *)
Admission ==
  CASE barrier = "hold"                 -> "transient"
    [] barrier = "refused"              -> "stale"
    [] barrier \in {"none", "unproven"} -> "current"

(* withJobAuthority, after withAuthority: the job's frozen values first,    *)
(* the lapsed proof last.                                                   *)
Verdict(j) ==
  IF Admission # "current" THEN Admission
  ELSE IF j \in stale THEN "stale"
  ELSE IF barrier = "unproven" THEN "transient"
  ELSE "current"

-----------------------------------------------------------------------------
(* mailbox.Store, mailbox/outbox.go: the transactions on the rows.          *)

(* QueueOutbound of a new job with groups 0..n, with or without Sent.       *)
QueueOutbound(j, n, copy) ==
  /\ outbox[j] = "absent"
  /\ outbox'   = [outbox EXCEPT ![j] = "whole"]
  /\ state'    = [state EXCEPT ![j] = [i \in Seqs |-> IF i <= n THEN "queued" ELSE "absent"]]
  /\ sent'     = [sent EXCEPT ![j] = IF copy THEN "reserved" ELSE "none"]
  /\ UNCHANGED <<attempts, due>>

MutantClaimable(j, i) ==
  outbox[j] = "whole" /\ state[j][i] \in Unclaimed \cup {"submitting"} /\ attempts[j][i] < MaxAttempts

Claimable(j, i) ==
  /\ outbox[j] = "whole"
  /\ state[j][i] \in Unclaimed
  /\ due[j][i]
  /\ attempts[j][i] < MaxAttempts

ClaimOutbound(j, i) ==
  /\ Claimable(j, i)
  /\ state'    = [state EXCEPT ![j][i] = "submitting"]
  /\ attempts' = [attempts EXCEPT ![j][i] = @ + 1]
  /\ due'      = [due EXCEPT ![j][i] = TRUE]
  /\ UNCHANGED <<outbox, sent>>

MutantOutcome(r, n) == IF r \in Accepting THEN "accepted" ELSE "failed"

(* The state CompleteOutbound records for a submission's result.            *)
Outcome(r, n) ==
  CASE r \in Accepting    -> "accepted"
    [] r = "uncertain"    -> "uncertain"
    [] r = "permanent"    -> "failed"
    [] r = "temporary"    -> IF n < MaxAttempts THEN "retryable" ELSE "failed"

(* compactOutbound, inside the transaction that may have finished the job:  *)
(* any failure in it keeps the job whole.                                   *)
CompactOutbound(j) ==
  \/ outbox' = outbox
  \/ /\ outbox[j] = "whole"
     /\ sent'[j] # "reserved"
     /\ \A i \in Seqs : state'[j][i] \in Final \cup {"absent"}
     /\ outbox' = [outbox EXCEPT ![j] = "receipt"]

CompleteOutbound(j, i, claim, r) ==
  /\ state[j][i] = "submitting"
  /\ attempts[j][i] = claim
  /\ LET o == Outcome(r, attempts[j][i])
     IN  /\ state' = [state EXCEPT ![j][i] = o]
         /\ due'   = [due EXCEPT ![j][i] = (o # "retryable")]
         /\ UNCHANGED <<attempts, sent>>
         /\ IF o \in Final THEN CompactOutbound(j) ELSE UNCHANGED outbox

MutantFileOutboundSent(j) ==
  /\ sent[j] # "none"
  /\ \E i \in Seqs : state[j][i] = "accepted"
  /\ sent'   = [sent EXCEPT ![j] = "filed"]
  /\ copies' = [copies EXCEPT ![j] = @ + 1]
  /\ UNCHANGED <<outbox, state, attempts, due>>

(* FileOutboundSent of an unfiled copy; the message and its receipt commit  *)
(* together.  Filing a filed copy only returns its ID.                      *)
FileOutboundSent(j) ==
  /\ sent[j] = "reserved"
  /\ \E i \in Seqs : state[j][i] = "accepted"
  /\ sent'   = [sent EXCEPT ![j] = "filed"]
  /\ copies' = [copies EXCEPT ![j] = @ + 1]
  /\ UNCHANGED <<state, attempts, due>>
  /\ CompactOutbound(j)

MutantQuarantineOutbound(j, i) ==
  /\ state' = [state EXCEPT ![j][i] = "quarantined"]
  /\ UNCHANGED <<outbox, attempts, due, sent>>

QuarantineOutbound(j, i) ==
  /\ state[j][i] \in Unclaimed \cup {"quarantined"}
  /\ state' = [state EXCEPT ![j][i] = "quarantined"]
  /\ due'   = [due EXCEPT ![j][i] = TRUE]
  /\ UNCHANGED <<outbox, attempts, sent>>

MutantPendingQueued(j) ==
  state[j][0] = "queued" \/ (state[j][0] = "accepted" /\ sent[j] = "reserved")

MutantPendingUnsent(j) ==
  \E i \in Seqs : state[j][i] \in Unclaimed /\ due[j][i] /\ (i = 0 \/ state[j][0] = "accepted")

(* PendingOutbound: discovery of local work.                                *)
Pending(j) ==
  \/ \E i \in Seqs : /\ state[j][i] \in Unclaimed
                     /\ due[j][i]
                     /\ i = 0 \/ state[j][0] = "accepted"
  \/ state[j][0] = "accepted" /\ sent[j] = "reserved"

MutantSubmittable(j, i) == TRUE

(* Submit rereads the rows under the fence: a follow-on needs durable       *)
(* evidence that the primary was accepted.                                  *)
Submittable(j, i) == i = 0 \/ state[j][0] = "accepted"

-----------------------------------------------------------------------------
(* The foreground request: finishNativeSend, queue, Send and Submit.        *)

(* queue: authority holds, the intent commits, the fence stays held.        *)
RequestQueue(j) ==
  /\ pc[j] = "idle" /\ fence = None /\ Verdict(j) = "current"
  /\ \E n \in Seqs, copy \in BOOLEAN :
       /\ QueueOutbound(j, n, copy)
       /\ todo' = [todo EXCEPT ![j] = 1 .. n]
  /\ fence' = j
  /\ pc'    = [pc EXCEPT ![j] = "fenced"]
  /\ job'   = [job EXCEPT ![j] = j]
  /\ UNCHANGED <<stale, barrier, seq, token, result, crashes, handed, copies, response>>

(* queue with claimPrimary: the same fence covers the claim.  The device    *)
(* fence commits last; when that commit fails, the claim is durable but     *)
(* Send returns an error.                                                   *)
RequestClaim(j) ==
  /\ pc[j] = "fenced"
  /\ ClaimOutbound(j, 0)
  /\ fence' = None
  /\ \/ Holds(j, 0) /\ UNCHANGED <<todo, response>>
     \/ Leave(j, "done") /\ response' = [response EXCEPT ![j] = "notConfirmed"]
  /\ UNCHANGED <<stale, barrier, crashes, handed, copies>>

(* Send fails before a claim: authority, capacity or storage.  After the    *)
(* first commit the job stays queued for the workers.                       *)
RequestRefused(j) ==
  /\ pc[j] \in {"idle", "fenced"}
  /\ fence' = IF fence = j THEN None ELSE fence
  /\ Leave(j, "done")
  /\ response' = [response EXCEPT ![j] = "notConfirmed"]
  /\ UNCHANGED <<rows, stale, barrier, crashes, handed, copies>>

(* Queue: the scheduled-send sweeper records a job for the workers; there   *)
(* is no request to answer.                                                 *)
Queue(j) ==
  /\ pc[j] = "idle" /\ fence = None /\ Verdict(j) = "current"
  /\ \E n \in Seqs, copy \in BOOLEAN : QueueOutbound(j, n, copy)
  /\ Leave(j, "done")
  /\ UNCHANGED <<stale, barrier, fence, crashes, handed, copies, response>>

(* The follow-on loop of finishNativeSend: Submit claims under authority,   *)
(* and a follow-on only behind an accepted primary.  A refusal of any kind  *)
(* is counted and passed over.                                              *)
RequestFollowOn(j) ==
  /\ pc[j] = "loop"
  /\ \E i \in todo[j] :
       /\ \A k \in todo[j] : i <= k
       /\ todo' = [todo EXCEPT ![j] = @ \ {i}]
       /\ \/ /\ fence = None /\ Verdict(j) = "current" /\ Submittable(j, i)
             /\ ClaimOutbound(j, i)
             /\ Holds(j, i)
          \/ UNCHANGED <<rows, pc, job, seq, token, result>>
  /\ UNCHANGED <<stale, barrier, fence, crashes, handed, copies, response>>

RequestLast(j) ==
  /\ pc[j] = "loop" /\ todo[j] = {}
  /\ Goto(j, "filing")
  /\ UNCHANGED <<rows, stale, barrier, fence, crashes, handed, copies, response>>

-----------------------------------------------------------------------------
(* deliver: shared by requests and workers.                                 *)

(* The relay's side of one submission.  An answer may be lost after the     *)
(* relay took the message.                                                  *)
RelayAnswers(a) ==
  /\ pc[a] = "flight"
  /\ \E r \in Results, took \in {0, 1} :
       /\ r \in Accepting => took = 1
       /\ r \in {"temporary", "permanent"} => took = 0
       /\ handed' = [handed EXCEPT ![job[a]][seq[a]] = @ + took]
       /\ result' = [result EXCEPT ![a] = r]
  /\ pc' = [pc EXCEPT ![a] = "answered"]
  /\ UNCHANGED <<rows, stale, barrier, fence, job, seq, token, todo, crashes, copies, response>>

(* How the caller goes on when deliver returns: a worker leaves its pass on *)
(* any error; a request needs the primary accepted and otherwise goes on.   *)
Returns(a, accepted, failed) ==
  \/ /\ a \in Workers
     /\ IF failed THEN Leave(a, "idle") ELSE Goto(a, "loop")
     /\ UNCHANGED response
  \/ /\ a \in Jobs /\ seq[a] = 0 /\ ~accepted
     /\ Leave(a, "done")
     /\ response' = [response EXCEPT ![a] = "notConfirmed"]
  \/ /\ a \in Jobs /\ (seq[a] > 0 \/ accepted)
     /\ Goto(a, "loop")
     /\ UNCHANGED response

(* The outcome commits; an accepted one goes on to Sent filing.             *)
Complete(a) ==
  /\ pc[a] = "answered"
  /\ CompleteOutbound(job[a], seq[a], token[a], result[a])
  /\ IF result[a] \in Accepting
     THEN Goto(a, "completed") /\ UNCHANGED response
     ELSE Returns(a, FALSE, TRUE)
  /\ UNCHANGED <<stale, barrier, fence, crashes, handed, copies>>

MutantCompleteFails(a) ==
  /\ pc[a] = "answered"
  /\ Returns(a, TRUE, TRUE)
  /\ UNCHANGED <<rows, stale, barrier, fence, crashes, handed, copies>>

(* The mailbox cannot be opened or the outcome cannot be stored: the        *)
(* delivery stays submitting.                                               *)
CompleteFails(a) ==
  /\ pc[a] = "answered"
  /\ Returns(a, result[a] \in Accepting, TRUE)
  /\ UNCHANGED <<rows, stale, barrier, fence, crashes, handed, copies>>

(* FileOutboundSent at the end of deliver, at the start of Recover and at   *)
(* the end of finishNativeSend.  It may fail, or find nothing to do.        *)
TryFile(a) ==
  \/ FileOutboundSent(job[a])
  \/ UNCHANGED <<rows, copies>>

FileAfterDelivery(a) ==
  /\ pc[a] = "completed"
  /\ TryFile(a)
  /\ Returns(a, TRUE, result[a] # "ok")
  /\ UNCHANGED <<stale, barrier, fence, crashes, handed>>

FileSent(a) ==
  /\ pc[a] = "filing"
  /\ TryFile(a)
  /\ \/ a \in Workers /\ Goto(a, "loop") /\ UNCHANGED response
     \/ a \in Jobs /\ Leave(a, "done") /\ response' = [response EXCEPT ![a] = "ok"]
  /\ UNCHANGED <<stale, barrier, fence, crashes, handed>>

-----------------------------------------------------------------------------
(* The recovery worker: startNativeOutboundRuntime and Recover.             *)

(* Recover reads a snapshot of a discovered job and closes the store.  A    *)
(* job that stopped being pending since discovery would yield an empty pass.*)
RecoverRead(w, j) ==
  /\ pc[w] = "idle" /\ Pending(j)
  /\ job'  = [job EXCEPT ![w] = j]
  /\ todo' = [todo EXCEPT ![w] = {i \in Seqs : state[j][i] \in Unclaimed}]
  /\ pc'   = [pc EXCEPT ![w] =
                IF state[j][0] = "accepted" /\ sent[j] = "reserved" THEN "filing" ELSE "loop"]
  /\ UNCHANGED <<rows, stale, barrier, fence, seq, token, result, crashes, handed, copies, response>>

(* One round of Recover's loop: Submit rechecks authority and the stored    *)
(* rows; a stale job is quarantined next, any other refusal ends the pass.  *)
(* A claim whose device fence fails to commit is lost to the worker.        *)
RecoverSubmit(w) ==
  LET j == job[w] IN
  /\ pc[w] = "loop" /\ fence = None
  /\ \E i \in todo[w] :
       /\ \A k \in todo[w] : i <= k
       /\ \/ /\ Verdict(j) = "stale"
             /\ pc'  = [pc EXCEPT ![w] = "quarantine"]
             /\ seq' = [seq EXCEPT ![w] = i]
             /\ UNCHANGED <<rows, job, token, result, todo>>
          \/ /\ Verdict(j) = "transient" \/ ~(Claimable(j, i) /\ Submittable(j, i))
             /\ Verdict(j) # "stale"
             /\ Leave(w, "idle")
             /\ UNCHANGED rows
          \/ /\ Verdict(j) = "current" /\ Submittable(j, i)
             /\ ClaimOutbound(j, i)
             /\ \/ Holds(w, i) /\ todo' = [todo EXCEPT ![w] = @ \ {i}]
                \/ Leave(w, "idle")
  /\ UNCHANGED <<stale, barrier, fence, crashes, handed, copies, response>>

(* A delivery whose retry time has not come is passed over; behind a        *)
(* primary passed over, the follow-ons are too.                             *)
RecoverSkip(w) ==
  /\ pc[w] = "loop"
  /\ \E i \in todo[w] :
       /\ \A k \in todo[w] : i <= k
       /\ ~due[job[w]][i]
       /\ todo' = [todo EXCEPT ![w] = IF i = 0 THEN {} ELSE @ \ {i}]
  /\ UNCHANGED <<rows, stale, barrier, fence, pc, job, seq, token, result, crashes,
                 handed, copies, response>>

RecoverEnds(w) ==
  /\ pc[w] = "loop" /\ todo[w] = {}
  /\ Leave(w, "idle")
  /\ UNCHANGED <<rows, stale, barrier, fence, crashes, handed, copies, response>>

(* Quarantine takes no fence and ends the pass whether or not it applied.   *)
Quarantine(w) ==
  /\ pc[w] = "quarantine"
  /\ \/ QuarantineOutbound(job[w], seq[w])
     \/ state[job[w]][seq[w]] \notin Unclaimed \cup {"quarantined"} /\ UNCHANGED rows
  /\ Leave(w, "idle")
  /\ UNCHANGED <<stale, barrier, fence, crashes, handed, copies, response>>

-----------------------------------------------------------------------------
(* The environment.                                                         *)

BackoffElapses(j, i) ==
  /\ ~due[j][i]
  /\ due' = [due EXCEPT ![j][i] = TRUE]
  /\ UNCHANGED <<outbox, state, attempts, sent, stale, barrier, fence, locals, crashes,
                 handed, copies, response>>

(* Every writer of a frozen value takes the fence; frozen values never      *)
(* return.                                                                  *)
AuthorityMoves(j) ==
  /\ fence = None
  /\ stale' = stale \cup {j}
  /\ UNCHANGED <<rows, barrier, fence, locals, crashes, handed, copies, response>>

BarrierMoves ==
  /\ fence = None
  /\ barrier' \in Barriers
  /\ UNCHANGED <<rows, stale, fence, locals, crashes, handed, copies, response>>

(* A process dies and restarts: its worker starts over, the requests it     *)
(* served are gone with their answers and locks; the rows survive.  A       *)
(* worker's pass that fails on storage or is cancelled leaves the same      *)
(* state.                                                                   *)
Crash(w) ==
  LET gone == {w} \cup {j \in Jobs : w = Api /\ pc[j] # "idle"}
  IN  /\ crashes < MaxCrashes
      /\ crashes' = crashes + 1
      /\ pc'     = [a \in Agents |-> IF a \notin gone THEN pc[a] ELSE IF a = w THEN "idle" ELSE "done"]
      /\ job'    = [a \in Agents |-> IF a \in gone THEN None ELSE job[a]]
      /\ seq'    = [a \in Agents |-> IF a \in gone THEN 0 ELSE seq[a]]
      /\ token'  = [a \in Agents |-> IF a \in gone THEN 0 ELSE token[a]]
      /\ result' = [a \in Agents |-> IF a \in gone THEN "ok" ELSE result[a]]
      /\ todo'   = [a \in Agents |-> IF a \in gone THEN {} ELSE todo[a]]
      /\ fence' = IF w = Api THEN None ELSE fence
      /\ UNCHANGED <<rows, stale, barrier, handed, copies, response>>

-----------------------------------------------------------------------------
Init ==
  /\ outbox   = [j \in Jobs |-> "absent"]
  /\ state    = [j \in Jobs |-> [i \in Seqs |-> "absent"]]
  /\ attempts = [j \in Jobs |-> [i \in Seqs |-> 0]]
  /\ due      = [j \in Jobs |-> [i \in Seqs |-> TRUE]]
  /\ sent     = [j \in Jobs |-> "none"]
  /\ stale    = {}
  /\ barrier  = "none"
  /\ fence    = None
  /\ pc       = [a \in Agents |-> "idle"]
  /\ job      = [a \in Agents |-> None]
  /\ seq      = [a \in Agents |-> 0]
  /\ token    = [a \in Agents |-> 0]
  /\ result   = [a \in Agents |-> "ok"]
  /\ todo     = [a \in Agents |-> {}]
  /\ crashes  = 0
  /\ handed   = [j \in Jobs |-> [i \in Seqs |-> 0]]
  /\ copies   = [j \in Jobs |-> 0]
  /\ response = [j \in Jobs |-> "none"]

RequestStep(j) ==
  \/ RequestQueue(j) \/ RequestClaim(j) \/ RequestRefused(j) \/ Queue(j)
  \/ RequestFollowOn(j) \/ RequestLast(j)

DeliveryStep(a) ==
  \/ RelayAnswers(a) \/ Complete(a) \/ CompleteFails(a)
  \/ FileAfterDelivery(a) \/ FileSent(a)

WorkerStep(w) ==
  \/ \E j \in Jobs : RecoverRead(w, j)
  \/ RecoverSubmit(w) \/ RecoverSkip(w) \/ RecoverEnds(w) \/ Quarantine(w)

Environment ==
  \/ \E j \in Jobs, i \in Seqs : BackoffElapses(j, i)
  \/ \E j \in Jobs : AuthorityMoves(j)
  \/ BarrierMoves
  \/ \E w \in Workers : Crash(w)

Next ==
  \/ \E j \in Jobs : RequestStep(j)
  \/ \E a \in Agents : DeliveryStep(a)
  \/ \E w \in Workers : WorkerStep(w)
  \/ Environment

Spec == Init /\ [][Next]_vars

-----------------------------------------------------------------------------
(* Fairness.  A live process keeps running: its request handlers and its    *)
(* worker (a 30-second ticker) take their next step, submissions end within *)
(* their deadlines, and backoff time passes.  Crashes, authority changes    *)
(* and refusals are not assumed.  Storage that fails is repaired: an        *)
(* outcome commits rather than failing for ever, and an owed Sent copy that *)
(* is tried again and again is eventually filed.                            *)
FilesOwed(w) == FileSent(w) /\ FileOutboundSent(job[w])

Fairness ==
  /\ \A j \in Jobs : WF_vars(RequestClaim(j) \/ RequestFollowOn(j) \/ RequestLast(j))
  /\ \A a \in Agents : WF_vars(DeliveryStep(a))
  /\ \A w \in Workers : /\ WF_vars(WorkerStep(w))
                         /\ SF_vars(FilesOwed(w))
  /\ \A j \in Jobs, i \in Seqs : WF_vars(BackoffElapses(j, i))

FairSpec == Spec /\ Fairness

-----------------------------------------------------------------------------
(* Properties.                                                              *)

(* The rows and the agents' locals have their types.                        *)
TypeOK ==
  /\ outbox \in [Jobs -> {"absent", "whole", "receipt"}]
  /\ state \in [Jobs -> [Seqs -> States \cup {"absent"}]]
  /\ attempts \in [Jobs -> [Seqs -> 0 .. MaxAttempts]]
  /\ due \in [Jobs -> [Seqs -> BOOLEAN]]
  /\ sent \in [Jobs -> {"none", "reserved", "filed"}]
  /\ stale \subseteq Jobs
  /\ barrier \in Barriers
  /\ fence \in Jobs \cup {None}
  /\ pc \in [Agents -> Steps]
  /\ job \in [Agents -> Jobs \cup {None}]
  /\ seq \in [Agents -> Seqs]
  /\ token \in [Agents -> 0 .. MaxAttempts]
  /\ result \in [Agents -> Results]
  /\ todo \in [Agents -> SUBSET Seqs]
  /\ crashes \in 0 .. MaxCrashes
  /\ handed \in [Jobs -> [Seqs -> Nat]]
  /\ copies \in [Jobs -> Nat]
  /\ response \in [Jobs -> {"none", "ok", "notConfirmed"}]

(* No delivery is handed to the relay twice, whatever the request, the two  *)
(* workers, crashes and lost answers do: a submitting or uncertain row is   *)
(* never claimed again (ClaimOutbound, CompleteOutbound, Recover).          *)
AtMostOnce == \A j \in Jobs, i \in Seqs : handed[j][i] <= 1

(* A recorded outcome is what happened: accepted rows were taken by the     *)
(* relay; queued, retryable, failed and quarantined rows were not, so a     *)
(* retry or a deliberate resend of them duplicates nothing.                 *)
OutcomesHonest ==
  \A j \in Jobs, i \in Seqs :
    /\ state[j][i] = "accepted" => handed[j][i] = 1
    /\ state[j][i] \in {"queued", "retryable", "failed", "quarantined"} => handed[j][i] = 0

(* Follow-on groups (Bcc, pickup notices) are attempted only on durable     *)
(* evidence that the relay took the primary, also by a request whose own    *)
(* primary was accepted but could not be recorded (Submit, Recover).        *)
FollowOnsAfterPrimary ==
  \A j \in Jobs, i \in Seqs : i > 0 /\ attempts[j][i] > 0 => state[j][0] = "accepted"

(* HTTP ok:true means the relay confirmed the primary, even when its        *)
(* outcome could not be stored (finishNativeSend, CompleteFails).           *)
OkMeansAccepted == \A j \in Jobs : response[j] = "ok" => handed[j][0] = 1

(* What is owed is kept and given once: one Sent copy at most, only of mail *)
(* the relay took, although the request's two attempts and the workers may  *)
(* file it (FileOutboundSent), and a job loses its MIME only when no row is *)
(* unclaimed, in flight or unresolved and no copy is owed (compactOutbound).*)
OwedKept ==
  \A j \in Jobs :
    /\ copies[j] = IF sent[j] = "filed" THEN 1 ELSE 0
    /\ copies[j] > 0 => \E i \in Seqs : handed[j][i] = 1
    /\ outbox[j] = "receipt" =>
         /\ sent[j] # "reserved"
         /\ \A i \in Seqs : state[j][i] \in Final \cup {"absent"}
         /\ \A a \in Agents : pc[a] \in {"flight", "answered"} => job[a] # j

(* What a delivery reached stays: accepted, failed, uncertain and           *)
(* quarantined rows never change, and a receipt never becomes a job again.  *)
OutcomesAreFinal ==
  [][\A j \in Jobs :
       /\ outbox[j] = "receipt" => outbox'[j] = "receipt"
       /\ \A i \in Seqs :
            state[j][i] \in Final \cup {"uncertain", "quarantined"} => state'[j][i] = state[j][i]]_vars

(* Work the relay may have never waits for ever: once the mailbox is past   *)
(* transient refusals, every queued or retryable primary, and every         *)
(* follow-on of an accepted primary, is claimed or quarantined, whatever    *)
(* crashed (Pending, Recover); a stale primary is withdrawn even while DNS  *)
(* stays down, since a lapsed proof does not skip the staleness checks      *)
(* (withAuthority, withJobAuthority).                                       *)
WorkSettles ==
  \A j \in Jobs :
    /\ <>[](barrier \in {"none", "refused"}) =>
         \A i \in Seqs :
           [](state[j][i] \in Unclaimed /\ (i = 0 \/ state[j][0] = "accepted")
                => <>(state[j][i] \notin Unclaimed))
    /\ <>[](j \in stale /\ barrier = "unproven") => <>[](state[j][0] \notin Unclaimed)

(* A definite authority change quarantines unclaimed work: once a job stays *)
(* stale, none of its deliveries stays queued or retryable.  Follow-ons     *)
(* behind a failed or uncertain primary are never discovered                *)
(* (PendingOutbound) and stay queued.                                       *)
StaleUnclaimedEnds ==
  \A j \in Jobs :
    <>[](j \in stale /\ barrier = "none") => <>[](\A i \in Seqs : state[j][i] \notin Unclaimed)

(* The Sent copy of accepted mail is eventually filed, by somebody, even    *)
(* when the sender has lost all authority since (openStorage, Recover).     *)
SentEventuallyFiled ==
  \A j \in Jobs :
    [](state[j][0] = "accepted" /\ sent[j] = "reserved" => <>(sent[j] = "filed"))

=============================================================================
