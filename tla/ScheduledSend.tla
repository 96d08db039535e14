---------------------------- MODULE ScheduledSend ---------------------------
(***************************************************************************)
(* Scheduled send: a message frozen now and sent later by the sweeper of   *)
(* the API process (api/scheduled_send.go) from rows of the install-wide   *)
(* state database (state/scheduled_sends.go).                              *)
(*                                                                         *)
(* A row is claimed, dispatched and moved on by one of the sweeper's       *)
(* goroutines, or cancelled by its owner's request; each SQLite statement, *)
(* each SMTP conversation and each draft save is a step of its own.  An    *)
(* IMAP account's row is sent over SMTP here; a native mailbox's row is    *)
(* handed to the outbox under the row's ID, and the outbox is the promise  *)
(* of OneShotDelivery, which module Outbox is shown to implement.          *)
(***************************************************************************)
EXTENDS Integers, FiniteSets

CONSTANTS
  Count,        \* number of messages; they are due in the order 1..Count
  Owner,        \* the user of each message
  Workers,      \* the sweeper's goroutines (scheduledWorkers)
  MaxPending,   \* one user's pending rows (maxScheduledPending)
  MaxMishaps    \* bound on restarts, failing status updates and restores together

Rows  == 1 .. Count
Users == {Owner[r] : r \in Rows}

ASSUME ScheduledAssumption ==
  /\ Count \in Nat /\ Workers \cap Rows = {}
  /\ DOMAIN Owner = Rows
  /\ {MaxPending, MaxMishaps} \subseteq Nat

Agents == Workers \cup Rows   \* the cancel request of row r is named r

Pending  == {"scheduled", "sending", "returning"}
Final    == {"sent", "queued", "uncertain", "returned", "failed"}
Statuses == Pending \cup Final \cup {"absent", "pruned"}

(* Where the clock stands for a row: before send_at, sendable, so close to  *)
(* the deadline that no retry fits any more, past the deadline.             *)
Early == 0
Due   == 1
Last  == 2
Late  == 3

VARIABLES
  status, delayed, since,      \* the row: status, next_attempt ahead, returning_since
  clock,                       \* the time of day as the row sees it
  phase, taken,                \* the outbox's delivery; what any relay took
  changed, drifted, gone,      \* frozen authority changed; outbox binding changed; users removed
  sweep, returns,              \* the sweep's stage and its list of drafts to save
  pc, on, next, listed,        \* each agent: step, row, decided status, whether the row
                               \*   came from the list and so with its returning_since
  drafts,                      \* history: the rows a draft was saved of
  crashes, faults, restores, backup,
  native                       \* the rows of native mailboxes, as scheduled

row   == <<status, delayed, since>>
mail  == <<phase, taken>>
kept  == <<backup, native>>
world == <<changed, drifted, gone, clock>>
agent == <<pc, on, next, listed>>
vars  == <<row, mail, world, sweep, returns, agent, drafts, crashes, faults, restores, kept>>

MishapLeft == crashes + faults + restores < MaxMishaps

Outbox == INSTANCE OneShotDelivery WITH Jobs <- Rows, Seqs <- {0}

Steps == {"ready", "out", "claimed", "admitted", "decided", "saving", "saved", "unsaved", "done"}

Goto(a, step) == pc' = [pc EXCEPT ![a] = step] /\ UNCHANGED <<on, next, listed>>

(* A goroutine goes for its next row; a request has answered.               *)
Rest(a) ==
  /\ pc'     = [pc EXCEPT ![a] = IF a \in Workers THEN "ready" ELSE "done"]
  /\ on'     = [on EXCEPT ![a] = 0]
  /\ next'   = [next EXCEPT ![a] = "absent"]
  /\ listed' = [listed EXCEPT ![a] = FALSE]

Decide(w, s) ==
  /\ pc'   = [pc EXCEPT ![w] = "decided"]
  /\ next' = [next EXCEPT ![w] = s]
  /\ UNCHANGED <<on, listed>>

-----------------------------------------------------------------------------
(* state/scheduled_sends.go.                                                *)

MutantMoveScheduledSend(r, from, to, later) ==
  /\ status'  = [status EXCEPT ![r] = to]
  /\ delayed' = [delayed EXCEPT ![r] = later]
  /\ since'   = [since EXCEPT ![r] = IF to = "returning" /\ from # "returning" THEN "fresh" ELSE @]

(* MoveScheduledSend: a compare-and-swap on the status.                     *)
MoveScheduledSend(r, from, to, later) ==
  IF status[r] # from THEN UNCHANGED row
  ELSE /\ status'  = [status EXCEPT ![r] = to]
       /\ delayed' = [delayed EXCEPT ![r] = later]
       /\ since'   = [since EXCEPT ![r] = IF to = "returning" /\ from # "returning" THEN "fresh" ELSE @]

(* A logged storage error leaves the row as it is.                          *)
Moved(r, from, to, later) ==
  \/ MoveScheduledSend(r, from, to, later) /\ UNCHANGED faults
  \/ MishapLeft /\ faults' = faults + 1 /\ UNCHANGED row

(* AddScheduledSend.                                                        *)
Schedule(r) ==
  /\ status[r] = "absent"
  /\ Cardinality({q \in Rows : Owner[q] = Owner[r] /\ status[q] \in Pending}) < MaxPending
  /\ Owner[r] \notin gone
  /\ status' = [status EXCEPT ![r] = "scheduled"]
  /\ UNCHANGED <<delayed, since, mail, world, sweep, returns, agent, drafts, crashes, faults,
                 restores, kept>>

(* ClaimScheduledSend: a due row of a user with no row in sending; which    *)
(* one goes first is left open.                                             *)
Claimable ==
  {r \in Rows : /\ status[r] = "scheduled" /\ clock[r] >= Due /\ ~delayed[r]
                /\ \A q \in Rows : Owner[q] = Owner[r] => status[q] # "sending"}

Claim(w) ==
  /\ sweep = "send" /\ pc[w] = "ready"
  /\ \E r \in Claimable :
       /\ status' = [status EXCEPT ![r] = "sending"]
       /\ on'     = [on EXCEPT ![w] = r]
  /\ pc' = [pc EXCEPT ![w] = "claimed"]
  /\ UNCHANGED <<delayed, since, mail, world, sweep, returns, next, listed, drafts, crashes,
                 faults, restores, kept>>

(* Nothing to claim, or the claim fails: the goroutine is done.             *)
ClaimNothing(w) ==
  /\ sweep = "send" /\ pc[w] = "ready"
  /\ \/ Claimable = {} /\ UNCHANGED faults
     \/ MishapLeft /\ faults' = faults + 1
  /\ Goto(w, "out")
  /\ UNCHANGED <<row, mail, world, sweep, returns, drafts, crashes, restores, kept>>

MutantInterrupted(s) == IF s = "sending" THEN "scheduled" ELSE s

(* InterruptScheduledSends: what a stopped process was sending may be out.  *)
Interrupted(s) == IF s = "sending" THEN "uncertain" ELSE s

MutantFenced(s) == Interrupted(s)

(* FenceRestoredScheduledSends; it leaves returning_since alone.            *)
Fenced(s) == IF s = "scheduled" THEN "returning" ELSE Interrupted(s)

(* ScheduledReturns: per user the earliest row whose draft is due.          *)
ScheduledReturns ==
  LET due == {r \in Rows : status[r] = "returning" /\ ~delayed[r]}
  IN  {r \in due : \A q \in due : Owner[q] = Owner[r] => r <= q}

-----------------------------------------------------------------------------
(* runScheduled and dispatchScheduled.                                      *)

(* Up to the charge: a job that cannot be opened fails, a late one returns; *)
(* a removed account fails, changed authority or a message over the daily   *)
(* quota returns; transient errors and a full quota retry.                  *)
Authorize(w) ==
  LET r == on[w] IN
  /\ pc[w] = "claimed"
  /\ \/ Decide(w, "failed")
     \/ clock[r] = Late /\ Decide(w, "returning")
     \/ clock[r] # Late /\ Decide(w, "scheduled")
     \/ clock[r] # Late /\ Owner[r] \notin gone /\ Decide(w, "returning")
     \/ clock[r] # Late /\ Owner[r] \notin gone /\ r \notin changed /\ Goto(w, "admitted")
  /\ UNCHANGED <<row, mail, world, sweep, returns, drafts, crashes, faults, restores, kept>>

(* nativeOutbound().Queue under the row's ID.  The outbox commits before    *)
(* the device fence does, so an error may follow the commit.  A replay is   *)
(* idempotent while the job would bind the same relay and directory, and    *)
(* conflicts (an error to retry) once they moved.                           *)
QueueNative(w) ==
  LET r == on[w] IN
  /\ pc[w] = "admitted" /\ r \in native
  /\ \/ /\ r \notin changed
        /\ \/ Outbox!Enter(r)
           \/ phase[r][0] # "absent" /\ r \notin drifted /\ UNCHANGED mail
        /\ Decide(w, "queued") \/ Decide(w, "scheduled")
     \/ UNCHANGED mail /\ Decide(w, "scheduled")
     \/ UNCHANGED mail /\ (r \in changed \/ phase[r][0] = "absent") /\ Decide(w, "returning")
  /\ UNCHANGED <<row, world, sweep, returns, drafts, crashes, faults, restores, kept>>

(* The status after an SMTP conversation in which the server did or did not *)
(* take the message.                                                        *)
Delivered(took) == IF took = 1 THEN {"sent", "uncertain"} ELSE {"uncertain", "scheduled"}

(* scheduledSMTPAccount and deliverIMAP: settings or From that changed      *)
(* return the row, a definite refusal retries.                              *)
DeliverIMAP(w) ==
  LET r == on[w] IN
  /\ pc[w] = "admitted" /\ r \notin native
  /\ \/ Decide(w, "returning") /\ UNCHANGED taken
     \/ \E took \in {0, 1} :
          /\ taken' = [taken EXCEPT ![r][0] = @ + took]
          /\ \E s \in Delivered(took) : Decide(w, s)
  /\ UNCHANGED <<row, phase, world, sweep, returns, drafts, crashes, faults, restores, kept>>

(* A retry that no longer fits before the deadline returns instead.         *)
Settled(s, r) == IF s = "scheduled" /\ clock[r] >= Last THEN "returning" ELSE s

(* The end of runScheduled: the row moves on, or its update fails; either   *)
(* way a decided return goes on to the draft.                               *)
Move(w) ==
  LET r == on[w]
      s == Settled(next[w], r)
  IN  /\ pc[w] = "decided"
      /\ Moved(r, "sending", s, s = "scheduled")
      /\ IF s = "returning" THEN Goto(w, "saving") ELSE Rest(w)
      /\ UNCHANGED <<mail, world, sweep, returns, drafts, crashes, restores, kept>>

-----------------------------------------------------------------------------
(* saveScheduledDraft, for the goroutines and the cancel request.  A failed *)
(* save may have stored the draft.                                          *)

SaveDraft(a) ==
  /\ pc[a] = "saving" /\ Owner[on[a]] \notin gone
  /\ \/ Goto(a, "saved") /\ drafts' = drafts \cup {on[a]}
     \/ Goto(a, "unsaved") /\ drafts' \in {drafts, drafts \cup {on[a]}}
  /\ UNCHANGED <<row, mail, world, sweep, returns, crashes, faults, restores, kept>>

MutantNeverGiveUp(a) ==
  /\ \/ /\ pc[a] = "saving"
        /\ Moved(on[a], "returning", "failed", FALSE)
     \/ /\ pc[a] = "saved"
        /\ Moved(on[a], "returning", "returned", FALSE)
     \/ /\ pc[a] = "unsaved"
        /\ Moved(on[a], "returning", "returning", TRUE)
  /\ Rest(a)
  /\ UNCHANGED <<mail, world, sweep, returns, drafts, crashes, restores, kept>>

(* A job that cannot be opened and a removed account fail the row before    *)
(* any save; a saved draft returns it; a failed save is tried again later,  *)
(* for a week by the clock of a row read with its returning_since.          *)
EndDraft(a) ==
  /\ \/ /\ pc[a] = "saving"
        /\ Moved(on[a], "returning", "failed", FALSE)
     \/ /\ pc[a] = "saved"
        /\ Moved(on[a], "returning", "returned", FALSE)
     \/ /\ pc[a] = "unsaved"
        /\ IF listed[a] /\ since[on[a]] = "old"
           THEN Moved(on[a], "returning", "failed", FALSE)
           ELSE Moved(on[a], "returning", "returning", TRUE)
  /\ Rest(a)
  /\ UNCHANGED <<mail, world, sweep, returns, drafts, crashes, restores, kept>>

(* handleScheduledCancel: the row is taken back with a delay that keeps the *)
(* sweeper off it.  A row no longer waiting answers 409 and changes nothing.*)
Cancel(r) ==
  /\ pc[r] = "ready" /\ status[r] = "scheduled"
  /\ MoveScheduledSend(r, "scheduled", "returning", TRUE)
  /\ pc' = [pc EXCEPT ![r] = "saving"]
  /\ on' = [on EXCEPT ![r] = r]
  /\ UNCHANGED <<mail, world, sweep, returns, next, listed, drafts, crashes, faults, restores, kept>>

-----------------------------------------------------------------------------
(* sweepScheduledSends: first every due row, then the drafts, then pruning. *)

StartReturns ==
  /\ sweep = "send" /\ \A w \in Workers : pc[w] = "out"
  /\ sweep' = "return"
  /\ returns' = ScheduledReturns
  /\ pc' = [a \in Agents |-> IF a \in Workers THEN "ready" ELSE pc[a]]
  /\ UNCHANGED <<row, mail, world, on, next, listed, drafts, crashes, faults, restores, kept>>

TakeReturn(w) ==
  /\ sweep = "return" /\ pc[w] = "ready"
  /\ \E r \in returns :
       /\ returns' = returns \ {r}
       /\ on'      = [on EXCEPT ![w] = r]
  /\ pc'     = [pc EXCEPT ![w] = "saving"]
  /\ listed' = [listed EXCEPT ![w] = TRUE]
  /\ UNCHANGED <<row, mail, world, sweep, next, drafts, crashes, faults, restores, kept>>

(* PruneScheduledSends drops final rows old enough.                         *)
EndSweep ==
  /\ sweep = "return" /\ returns = {} /\ \A w \in Workers : pc[w] = "ready"
  /\ sweep' = "send"
  /\ \E old \in SUBSET {r \in Rows : status[r] \in Final} :
       status' = [r \in Rows |-> IF r \in old THEN "pruned" ELSE status[r]]
  /\ UNCHANGED <<delayed, since, mail, world, returns, agent, drafts, crashes, faults, restores, kept>>

-----------------------------------------------------------------------------
(* Time, the outbox, the account, restarts and restores.                    *)

(* Time is followed as far as the row's status makes it matter.             *)
Tick(r) ==
  /\ status[r] \in {"scheduled", "sending"} /\ clock[r] < Late
  /\ clock' = [clock EXCEPT ![r] = @ + 1]
  /\ UNCHANGED <<row, mail, changed, drifted, gone, sweep, returns, agent, drafts, crashes,
                 faults, restores, kept>>

DelayElapses(r) ==
  /\ status[r] \in Pending /\ delayed[r]
  /\ delayed' = [delayed EXCEPT ![r] = FALSE]
  /\ UNCHANGED <<status, since, mail, world, sweep, returns, agent, drafts, crashes, faults,
                 restores, kept>>

WeekPasses(r) ==
  /\ status[r] = "returning" /\ since[r] = "fresh"
  /\ since' = [since EXCEPT ![r] = "old"]
  /\ UNCHANGED <<status, delayed, mail, world, sweep, returns, agent, drafts, crashes, faults,
                 restores, kept>>

OutboxStep(r) ==
  /\ \/ r \notin changed \cup drifted /\ Outbox!Attempt(r, 0)
     \/ r \in changed \cup drifted /\ Outbox!Withdraw(r, 0)
     \/ Outbox!Take(r, 0)
     \/ Outbox!Settle(r, 0)
  /\ UNCHANGED <<row, world, sweep, returns, agent, drafts, crashes, faults, restores, kept>>

(* An IMAP row's authority is read once, in Authorize, which may refuse; a  *)
(* native row's is frozen into the outbox job.  Removed users stay removed. *)
AuthorityMoves(r) ==
  /\ status[r] \in Pending \cup {"queued"}
  /\ \/ r \in native /\ changed' = changed \cup {r} /\ UNCHANGED <<drifted, gone>>
     \/ r \in native /\ drifted' = drifted \cup {r} /\ UNCHANGED <<changed, gone>>
     \/ gone' = gone \cup {Owner[r]} /\ UNCHANGED <<changed, drifted>>
  /\ UNCHANGED <<row, mail, clock, sweep, returns, agent, drafts, crashes, faults, restores, kept>>

(* Every goroutine and request of the process stops.                        *)
Stopped ==
  /\ sweep'   = "send"
  /\ returns' = {}
  /\ pc'      = [a \in Agents |-> IF a \in Workers THEN "ready"
                                  ELSE IF pc[a] = "ready" THEN "ready" ELSE "done"]
  /\ on'      = [a \in Agents |-> 0]
  /\ next'    = [a \in Agents |-> "absent"]
  /\ listed'  = [a \in Agents |-> FALSE]

(* The process stops and starts again: StartScheduledSendSweeper.           *)
Restart ==
  /\ MishapLeft /\ crashes' = crashes + 1
  /\ Stopped
  /\ status' = [r \in Rows |-> Interrupted(status[r])]
  /\ UNCHANGED <<delayed, since, mail, world, drafts, faults, restores, kept>>

(* A backup is taken, of pending rows (others the sweeper leaves alone);    *)
(* later another server starts from its fenced copy.  What was scheduled    *)
(* after the backup it does not know; new rows have new IDs.  Its native    *)
(* mailboxes are held, so only IMAP rows are restored in the model.         *)
Backup ==
  /\ MishapLeft /\ backup = <<>> /\ native = {} /\ \E r \in Rows : status[r] \in Pending
  /\ backup' = <<[r \in Rows |-> Fenced(status[r])], since>>
  /\ UNCHANGED <<row, mail, world, sweep, returns, agent, drafts, crashes, faults, restores, native>>

Restore ==
  /\ backup # <<>> /\ MishapLeft /\ restores' = restores + 1
  /\ Stopped
  /\ status'  = [r \in Rows |-> IF backup[1][r] # "absent" THEN backup[1][r]
                               ELSE IF status[r] = "absent" THEN "absent" ELSE "pruned"]
  /\ delayed' = [r \in Rows |-> FALSE]
  /\ since'   = backup[2]
  /\ UNCHANGED <<mail, world, drafts, crashes, faults, kept>>

-----------------------------------------------------------------------------
Init ==
  /\ status   = [r \in Rows |-> "absent"]
  /\ delayed  = [r \in Rows |-> FALSE]
  /\ since    = [r \in Rows |-> "none"]
  /\ clock    = [r \in Rows |-> Early]
  /\ Outbox!Init
  /\ changed = {} /\ drifted = {} /\ gone = {}
  /\ sweep = "send" /\ returns = {}
  /\ pc       = [a \in Agents |-> "ready"]
  /\ on       = [a \in Agents |-> 0]
  /\ next     = [a \in Agents |-> "absent"]
  /\ listed   = [a \in Agents |-> FALSE]
  /\ drafts = {}
  /\ crashes = 0 /\ faults = 0 /\ restores = 0
  /\ backup = <<>>
  /\ native \in SUBSET Rows

WorkerStep(w) ==
  Claim(w) \/ ClaimNothing(w) \/ Authorize(w) \/ QueueNative(w) \/ DeliverIMAP(w) \/ Move(w) \/ TakeReturn(w)

DraftStep(a) == SaveDraft(a) \/ EndDraft(a)

Next ==
  \/ \E r \in Rows : Schedule(r) \/ Cancel(r) \/ OutboxStep(r) \/ AuthorityMoves(r)
  \/ \E r \in Rows : Tick(r) \/ DelayElapses(r) \/ WeekPasses(r)
  \/ \E w \in Workers : WorkerStep(w)
  \/ \E a \in Agents : DraftStep(a)
  \/ StartReturns \/ EndSweep
  \/ Restart \/ Backup \/ Restore

Spec == Init /\ [][Next]_vars

(* Fairness.  The process runs: its goroutines and requests take their next *)
(* step, the ticker starts sweeps, and time passes.  That a send or a draft *)
(* save ever succeeds is not assumed.                                       *)
Fairness ==
  /\ \A w \in Workers : WF_vars(WorkerStep(w))
  /\ \A a \in Agents : WF_vars(DraftStep(a))
  /\ WF_vars(StartReturns) /\ WF_vars(EndSweep)
  /\ \A r \in Rows : WF_vars(Tick(r)) /\ WF_vars(DelayElapses(r)) /\ WF_vars(WeekPasses(r))

FairSpec == Spec /\ Fairness

-----------------------------------------------------------------------------
(* Properties.                                                              *)

(* The rows, the goroutines and the history have their types.               *)
TypeOK ==
  /\ status \in [Rows -> Statuses]
  /\ delayed \in [Rows -> BOOLEAN]
  /\ since \in [Rows -> {"none", "fresh", "old"}]
  /\ clock \in [Rows -> Early .. Late]
  /\ phase \in [Rows -> [{0} -> Outbox!Phases]]
  /\ taken \in [Rows -> [{0} -> Nat]]
  /\ changed \subseteq Rows /\ drifted \subseteq Rows /\ gone \subseteq Users
  /\ sweep \in {"send", "return"} /\ returns \subseteq Rows
  /\ pc \in [Agents -> Steps]
  /\ on \in [Agents -> 0 .. Count]
  /\ next \in [Agents -> Statuses]
  /\ listed \in [Agents -> BOOLEAN]
  /\ drafts \subseteq Rows /\ native \subseteq Rows

(* No relay takes a message twice: not after a restart in the middle of a   *)
(* send, not through retries after refusals or idempotent hand-overs to the *)
(* outbox, not from a restored backup that still lists it as waiting        *)
(* (InterruptScheduledSends, FenceRestoredScheduledSends, QueueOutbound).   *)
SentAtMostOnce == \A r \in Rows : taken[r][0] <= 1

(* The status says where the message is: what returned is in Drafts, what   *)
(* is queued in the outbox (saveScheduledDraft, Queue); and for IMAP        *)
(* accounts what waits, returns or failed was not sent, so the draft may be *)
(* sent again, and what counts as sent was: a cancel that wins against the  *)
(* claim keeps the message off the wire (MoveScheduledSend).  A server      *)
(* started from a backup cannot know what the original sent since.          *)
StatusHonest ==
  \A r \in Rows :
    /\ status[r] = "returned" => r \in drafts
    /\ status[r] = "queued" => phase[r][0] # "absent"
    /\ restores = 0 /\ r \notin native =>
         /\ status[r] \in {"scheduled", "returning", "returned", "failed"} => taken[r][0] = 0
         /\ status[r] = "sent" => taken[r][0] = 1

(* The same for native mailboxes: a message that is back in Drafts is not   *)
(* in the relay's hands.                                                    *)
ReturnedIsUnsent == \A r \in Rows : status[r] = "returned" => taken[r][0] = 0

(* A final row keeps its status although the cancel request and a sweep may *)
(* both be saving the draft (MoveScheduledSend); only pruning and a restore *)
(* change it.                                                               *)
FinalStays ==
  [][\A r \in Rows : status[r] \in Final /\ restores' = restores
       => status'[r] \in {status[r], "pruned"}]_vars

(* Every scheduled message ends: sent, handed over, uncertain, back in      *)
(* Drafts or failed, although sends and draft saves may fail for ever       *)
(* (deadline, scheduledReturnFor).  Outside are a row returned by a restore, *)
(* which has no returning_since, and one whose status update failed.        *)
EveryRowEnds ==
  \A r \in Rows :
    [](status[r] \in Pending => <>(status[r] \notin Pending \/ restores > 0 \/ faults > 0))

=============================================================================
