------------------------------- MODULE Poller -------------------------------
(***************************************************************************)
(* Polling one primary mailbox, and encrypting its incoming mail in place.  *)
(*                                                                         *)
(* A tick finishes the replacement on file, fetches a batch of unread mail  *)
(* above the checkpoint, handles it one by one and stores a checkpoint      *)
(* below everything it left for later.  One daemon polls a mailbox, one     *)
(* tick at a time; mail arrives, other mail clients, the account's owner    *)
(* and the mail server act between any two of its steps.                    *)
(*                                                                         *)
(* A step is one call to the mail server, one transaction of the state      *)
(* store, one write of users.json or of the journal.  Each may fail: a      *)
(* fault, bounded by `left`.  What a message itself makes fail may fail     *)
(* every time: the classifier, filter rules and the encryption of a mail.   *)
(* The actions of filter rules are one call, repeated with the message.     *)
(* The mail cache, anti-phishing, Autocrypt, snoozed mail, invitations, the *)
(* tick record and the audit rows of failures, which nothing reads but the  *)
(* notification about them, are left out.                                   *)
(***************************************************************************)
EXTENDS Integers, FiniteSets, Sequences

CONSTANTS
    MaxMsgs,             \* bound: messages that arrive
    Kinds,               \* what a fetch may say of a message
    ActionLists,         \* labels and rule actions a replacement may carry
    maxDeferralAttempts, \* counted deferrals before a message is retired
    Budgets,             \* bounds on faults and on what happens around the daemon
    Events,              \* what the bounds are about
    NoJob                \* no journal on file

Msgs == 1..MaxMsgs  \* in the order in which they arrive

\* incomingJob: the original, the key, the uploaded copy and the actions on it.
Jobs == [uid : Nat, ns : Nat, of : Msgs, wraps : Nat, fp : Nat, repl : Nat, acts : ActionLists, done : Nat]

ASSUME PollerAssumption ==
    /\ MaxMsgs \in Nat
    /\ Kinds \subseteq {"plain", "large", "malformed"}
    /\ \A acts \in ActionLists : acts \in Seq({"keyword", "read", "move"})
    /\ maxDeferralAttempts \in Nat \ {0}
    /\ Events = {"fault", "crash", "remove", "renumber", "key", "toggle"}
    /\ Budgets \subseteq [Events -> Nat]
    /\ NoJob \notin Jobs

VARIABLES
    box,        \* the mail on the server: INBOX and the folder rules move to
    validity,   \* UIDVALIDITY of INBOX
    uidNext,    \* the UID the next mail gets
    key,        \* the account's PGP fingerprint
    reserved,   \* User.IncomingEncryptionPending
    encrypting, \* UserSettings.EncryptIncoming
    file,       \* incoming-encryption.json
    checkpoint, \* meta checkpoint: a UID namespace and a UID in it
    processed,  \* table processed
    attempts,   \* table deferrals
    d,          \* the daemon
    \* What happened, for the properties.
    removed,    \* messages another mail client removed a copy of
    unrecorded, \* UIDs retired although the write of that failed
    decided,    \* how often a message was decided in this UID namespace
    adrift,     \* the store's UIDs are of an earlier mailbox and it cannot tell
    left        \* what is left of the bounds

mail  == <<box, validity, uidNext>>
owner == <<key, reserved, encrypting>>
store == <<checkpoint, processed, attempts>>
ghost == <<removed, unrecorded, decided, adrift>>
vars  == <<mail, owner, file, store, d, ghost, left>>

NoNamespace == 0
NoAttempts == [uid \in {} |-> 0]
Idle == [pc |-> "idle", ret |-> "tick", pend |-> FALSE, enc |-> FALSE, batch |-> {},
         from |-> [ns |-> NoNamespace, uid |-> 0], next |-> [ns |-> NoNamespace, uid |-> 0],
         deferred |-> {}, job |-> NoJob]

\* One of a bounded number of events happens.
Spend(e) == left[e] > 0 /\ left' = [left EXCEPT ![e] = @ - 1]
Fault == Spend("fault")
Fine == UNCHANGED left

At(pc) == d.pc = pc
Goes(pc) == d' = [d EXCEPT !.pc = pc]

-----------------------------------------------------------------------------
(***************************************************************************)
(* The mail server.                                                         *)
(***************************************************************************)
Inbox == {r \in box : r.folder = "INBOX"}
Unread(min) == {r \in Inbox : r.unseen /\ r.uid > min}
Holding(uid) == {r \in Inbox : r.uid = uid}

\* Neither the marker nor the bytes of a mail are compared with the job's.
MutantCopyOf(job) == {r \in box : r.of = job.of}

\* The encrypted copy of a job: its marker is found and its bytes are equal.
CopyOf(job) == {r \in box : r.of = job.of /\ r.wraps = job.wraps + 1}
\* The copy an earlier upload left is not looked for.
MutantFound(job) == {}

Found(job) == CopyOf(job) \cap Inbox

\* The original of a job, unchanged: its bytes have the hash of the job.
Original(job) == {r \in Holding(job.uid) : r.of = job.of /\ r.wraps = job.wraps}

SameNamespace(job) == validity = job.ns

\* External: the session in which the UIDVALIDITY was compared goes on.  IMAP
\* keeps the UIDs of a selected mailbox, and a command on it is not repeated on
\* a new connection, so UID EXPUNGE meets the mailbox it was compared with.
SameSession(job) == validity = job.ns

\* A decision counts in the UID namespace that its UIDs and the store are of.
Counted(ns, m) ==
    IF ns = validity /\ checkpoint.ns \in {NoNamespace, validity} /\ ~adrift
    THEN [decided EXCEPT ![m] = @ + 1] ELSE decided

-----------------------------------------------------------------------------
(***************************************************************************)
(* Checkpoints.                                                             *)
(***************************************************************************)
Least(S) == CHOOSE x \in S : \A y \in S : x <= y

UIDNamespaceReset(prev, next) == prev.ns # NoNamespace /\ prev.ns # next.ns

\* The lowest deferred message is left below the checkpoint.
MutantClampCheckpoint(prev, next, deferred) ==
    IF deferred = {} THEN next
    ELSE [ns |-> next.ns, uid |-> IF Least(deferred) < next.uid THEN Least(deferred) ELSE next.uid]

ClampCheckpoint(prev, next, deferred) ==
    LET floor == IF prev.ns \in {next.ns, NoNamespace} THEN prev.uid ELSE 0
        candidate == Least({Least(deferred) - 1, next.uid})
    IN  IF deferred = {} THEN next
        ELSE [ns |-> next.ns, uid |-> IF candidate <= floor THEN floor ELSE candidate]

-----------------------------------------------------------------------------
(***************************************************************************)
(* The account.  ReserveIncomingEncryption refuses another key than the     *)
(* one the replacement was encrypted to.                                    *)
(***************************************************************************)
\* The reservation is taken whatever the key now is.
MutantReservable(fingerprint) == TRUE

Reservable(fingerprint) == key = fingerprint

Init ==
    /\ box = {} /\ validity = 1 /\ uidNext = 1
    /\ key = 1 /\ reserved = FALSE /\ encrypting \in BOOLEAN
    /\ file = NoJob
    /\ checkpoint \in [ns : {NoNamespace, 1}, uid : {0}]
    /\ processed = {} /\ attempts = NoAttempts
    /\ d = Idle
    /\ removed = {} /\ unrecorded = {} /\ decided = [m \in Msgs |-> 0] /\ adrift = FALSE
    /\ left \in Budgets

-----------------------------------------------------------------------------
(***************************************************************************)
(* Around the daemon.                                                       *)
(***************************************************************************)
Arrive(m, kind) ==
    /\ LET arrived == removed \cup {r.of : r \in box}
       IN  m \notin arrived /\ 1..(m - 1) \subseteq arrived
    /\ box' = box \cup {[uid |-> uidNext, of |-> m, kind |-> kind, wraps |-> 0,
                         unseen |-> TRUE, folder |-> "INBOX", label |-> FALSE]}
    /\ uidNext' = uidNext + 1
    /\ UNCHANGED <<validity, owner, file, store, d, ghost, left>>

\* Another mail client removes a mail.
OtherClientRemoves(r) ==
    /\ Spend("remove")
    /\ box' = box \ {r}
    /\ removed' = removed \cup {r.of}
    /\ UNCHANGED <<validity, uidNext, owner, file, store, d, unrecorded, decided, adrift>>

\* The mailbox is recreated or migrated: the UIDs now name other messages.  A
\* store that has no checkpoint yet does not notice it: it is adrift, unless it
\* holds no UID and no tick is under way.
Renumber ==
    /\ Spend("renumber")
    /\ validity' = validity + 1
    /\ LET rank(r) == Cardinality({q \in Inbox : q.uid >= r.uid})
       IN  box' = {IF r \in Inbox THEN [r EXCEPT !.uid = rank(r)] ELSE r : r \in box}
    /\ uidNext' = Cardinality(Inbox) + 1
    /\ unrecorded' = {} /\ decided' = [m \in Msgs |-> 0]
    /\ adrift' = \/ adrift
                 \/ checkpoint.ns = NoNamespace /\ (processed # {} \/ file # NoJob \/ ~At("idle"))
    /\ UNCHANGED <<owner, file, store, d, removed>>

\* mutateGuarded: another fingerprint is refused while one is reserved.
ChangeKey ==
    /\ Spend("key") /\ ~reserved
    /\ key' = key + 1
    /\ UNCHANGED <<mail, reserved, encrypting, file, store, d, ghost>>

\* handlePGPIncoming.  What else it refuses (no fresh login, another revision,
\* no usable key, an extra mailbox) is left out: the setting changes freely.
SetIncoming ==
    /\ Spend("toggle")
    /\ encrypting' = ~encrypting
    /\ UNCHANGED <<mail, key, reserved, file, store, d, ghost>>

\* The daemon stops anywhere and is started again.
Crash ==
    /\ Spend("crash") /\ ~At("idle")
    /\ d' = Idle
    /\ UNCHANGED <<mail, owner, file, store, ghost>>

-----------------------------------------------------------------------------
(***************************************************************************)
(* How a message leaves the batch, and how a replacement ends: a failed     *)
(* one gives up the tick it began, or defers the message it is for.         *)
(***************************************************************************)
Current == CHOOSE e \in d.batch : \A f \in d.batch : e.uid <= f.uid
Popped == [d EXCEPT !.pc = "next", !.batch = @ \ {Current}, !.job = NoJob]
Done == d' = Popped
Deferred == d' = [Popped EXCEPT !.deferred = @ \cup {Current.uid}]

Returns == IF d.ret = "tick" THEN d' = [d EXCEPT !.pc = "fetch", !.job = NoJob] ELSE Done
Fails == IF d.ret = "tick" THEN d' = Idle ELSE Deferred

(***************************************************************************)
(* saveIncomingJob.  A write may fail after the file is in place.           *)
(***************************************************************************)
Saves(job, pc) ==
    \/ file' = job /\ Fine /\ d' = [d EXCEPT !.pc = pc, !.job = job]
    \/ file' \in {job, file} /\ Fault /\ Fails

-----------------------------------------------------------------------------
(***************************************************************************)
(* tickMailbox: what the tick knows of the account is read now.             *)
(***************************************************************************)
Tick ==
    /\ At("idle")
    /\ d' = [Idle EXCEPT !.pc = "resume", !.pend = reserved, !.enc = encrypting]
    /\ UNCHANGED <<mail, owner, file, store, ghost, left>>

(***************************************************************************)
(* resumeIncomingEncryption.                                                *)
(***************************************************************************)
NothingToResume ==
    /\ At("resume") /\ file = NoJob
    /\ \/ reserved' = (reserved /\ ~d.pend) /\ Fine /\ Returns
       \/ d.pend /\ Fault /\ UNCHANGED reserved /\ Fails
    /\ UNCHANGED <<mail, key, encrypting, file, store, ghost>>

\* The reservation is taken again: another key than the job's is refused.
ResumeJob ==
    /\ At("resume") /\ file # NoJob
    /\ \/ /\ Reservable(file.fp) /\ Fine
          /\ reserved' = TRUE
          /\ d' = [d EXCEPT !.pc = IF file.repl = 0 THEN "replace" ELSE "replaced", !.job = file]
       \/ (Fault \/ (~Reservable(file.fp) /\ Fine)) /\ UNCHANGED reserved /\ Fails
    /\ UNCHANGED <<mail, key, encrypting, file, store, ghost>>

\* The copy gets the flags of the original.
Stored(job) ==
    {[uid |-> uidNext, of |-> job.of, kind |-> "plain", wraps |-> job.wraps + 1,
      unseen |-> \A r \in Original(job) : r.unseen, folder |-> "INBOX", label |-> FALSE]}

\* ReplaceIncoming, up to a verified copy.  An upload whose answer is lost may
\* have been stored; a copy that is there is not uploaded again.
Upload ==
    /\ At("replace")
    /\ LET j == d.job
           copy == Found(j)
           gone == Holding(j.uid) = {}
           sound == SameNamespace(j) /\ IF gone THEN copy # {} ELSE Original(j) # {}
           with(c, pc) == d' = [d EXCEPT !.pc = pc, !.job.repl = (CHOOSE r \in c : TRUE).uid]
       IN  \/ /\ sound /\ copy # {} /\ Fine
             /\ with(copy, IF gone THEN "saveUID" ELSE "remove")
             /\ UNCHANGED <<box, uidNext>>
          \/ /\ sound /\ copy = {}
             /\ box' = box \cup Stored(j) /\ uidNext' = uidNext + 1
             /\ \/ Fine /\ with(Stored(j), "remove")
                \/ Fault /\ Fails
          \/ /\ (Fault \/ (~sound /\ Fine))
             /\ Fails /\ UNCHANGED <<box, uidNext>>
    /\ UNCHANGED <<validity, owner, file, store, ghost>>

\* The rest of ReplaceIncoming: this one original is expunged.
RemoveOriginal ==
    /\ At("remove")
    /\ \/ /\ SameSession(d.job)
          /\ box' = box \ Holding(d.job.uid)
          /\ ((Fine /\ Goes("saveUID")) \/ (Fault /\ Fails))
       \/ /\ (Fault \/ (~SameSession(d.job) /\ Fine))
          /\ Fails /\ UNCHANGED box
    /\ UNCHANGED <<validity, uidNext, owner, file, store, ghost>>

SaveReplacementUID ==
    /\ At("saveUID")
    /\ Saves(d.job, "replaced")
    /\ UNCHANGED <<mail, owner, store, ghost>>

\* A replacement that is processed has only its journal left.
Replaced ==
    /\ At("replaced")
    /\ \/ /\ Fine
          /\ Goes(IF d.job.repl \in processed THEN "finish"
                  ELSE IF d.job.done < Len(d.job.acts) THEN "act"
                  ELSE "record")
       \/ Fault /\ Fails
    /\ UNCHANGED <<mail, owner, file, store, ghost>>

\* A copy that is gone from INBOX is not looked for where it was moved.
MutantMoved(j) == FALSE

\* A move whose answer was lost: the copy is at its destination.
Moved(j) == Holding(j.repl) = {} /\ j.acts[j.done + 1] = "move" /\ CopyOf(j) \ Inbox # {}

Acted(action, r) ==
    CASE action = "move" -> [r EXCEPT !.folder = "other", !.uid = 0]
      [] action = "read" -> [r EXCEPT !.unseen = FALSE]
      [] OTHER           -> [r EXCEPT !.label = TRUE]

\* ApplyIncomingAction: a label or a rule action on the verified copy.
ApplyIncomingAction ==
    /\ At("act")
    /\ LET j == d.job
           copy == CopyOf(j) \cap Holding(j.repl)
           sound == SameNamespace(j) /\ (copy # {} \/ Moved(j))
       IN  \/ /\ sound
             /\ box' = (box \ copy) \cup {Acted(j.acts[j.done + 1], r) : r \in copy}
             /\ ((Fine /\ Goes("acted")) \/ (Fault /\ Fails))
          \/ /\ (Fault \/ (~sound /\ Fine))
             /\ Fails /\ UNCHANGED box
    /\ UNCHANGED <<validity, uidNext, owner, file, store, ghost>>

SaveAction ==
    /\ At("acted")
    /\ LET j == [d.job EXCEPT !.done = @ + 1]
       IN  Saves(j, IF j.done < Len(j.acts) THEN "act" ELSE "record")
    /\ UNCHANGED <<mail, owner, store, ghost>>

\* The encrypted copy is not marked.
MutantReplacementMarks(j) == {j.uid}

ReplacementMarks(j) == {j.uid, j.repl}

Forget(uids) == [u \in DOMAIN attempts \ uids |-> attempts[u]]

RecordReplacementDecision ==
    /\ At("record")
    /\ \/ /\ Fine /\ Goes("finish")
          /\ processed' = processed \cup ReplacementMarks(d.job)
          /\ attempts' = Forget({d.job.uid, d.job.repl})
          /\ decided' = Counted(d.job.ns, d.job.of)
       \/ Fault /\ Fails /\ UNCHANGED <<processed, attempts, decided>>
    /\ UNCHANGED <<mail, owner, file, checkpoint, removed, unrecorded, adrift>>

\* finishIncomingJournal: the journal goes first, then the reservation.
RemoveJournal ==
    /\ At("finish")
    /\ \/ file' = NoJob /\ ((Fine /\ Goes("release")) \/ (Fault /\ Fails))
       \/ Fault /\ Fails /\ UNCHANGED file
    /\ UNCHANGED <<mail, owner, store, ghost>>

ReleaseIncomingEncryption ==
    /\ At("release")
    /\ \/ reserved' = FALSE /\ Fine /\ Returns
       \/ Fault /\ Fails /\ UNCHANGED reserved
    /\ UNCHANGED <<mail, key, encrypting, file, store, ghost>>

-----------------------------------------------------------------------------
(***************************************************************************)
(* fetchUnread: the lowest unread mail above the checkpoint, as much as the *)
(* budget of a fetch holds.  In another UID namespace everything the store  *)
(* knew by UID is forgotten, with the checkpoint, in one transaction.       *)
(***************************************************************************)
ListUnreadInbox(min, top) ==
    {[uid |-> r.uid, of |-> r.of, kind |-> r.kind, wraps |-> r.wraps] : r \in {q \in Unread(min) : q.uid <= top}}

ResetUIDNamespace == processed' = {} /\ attempts' = NoAttempts

FetchUnread ==
    /\ At("fetch")
    /\ \/ Fault /\ d' = Idle /\ UNCHANGED <<store, adrift>>
       \/ LET reset == UIDNamespaceReset(checkpoint, [ns |-> validity])
              from == IF reset THEN [ns |-> validity, uid |-> 0] ELSE checkpoint
          IN  /\ Fine
              /\ \E top \in {from.uid} \cup {r.uid : r \in Unread(from.uid)} :
                    /\ top = from.uid => Unread(from.uid) = {}
                    /\ d' = [d EXCEPT !.pc = "next", !.batch = ListUnreadInbox(from.uid, top),
                                      !.from = from, !.next = [ns |-> validity, uid |-> top]]
              /\ IF reset THEN ResetUIDNamespace ELSE UNCHANGED <<processed, attempts>>
              /\ checkpoint' = from
              /\ adrift' = (adrift /\ ~reset)
    /\ UNCHANGED <<mail, owner, file, removed, unrecorded, decided>>

-----------------------------------------------------------------------------
(***************************************************************************)
(* processBatch.  A message is left for later, untouched, when the store    *)
(* cannot tell whether it is processed, or its headers are missing; it and  *)
(* all that follow when the rate budget is spent or the daemon shuts down.  *)
(***************************************************************************)
Look ==
    /\ At("next") /\ d.batch # {}
    /\ \/ Fine /\ IF Current.uid \in processed THEN Done ELSE Goes("handle")
       \/ Fault /\ Deferred
       \/ /\ Fault /\ Current.uid \notin processed
          /\ d' = [d EXCEPT !.pc = "commit", !.batch = {},
                            !.deferred = @ \cup {e.uid : e \in d.batch}]
    /\ UNCHANGED <<mail, owner, file, store, ghost>>

IsPlain == Current.kind = "plain" /\ Current.wraps = 0
ToEncrypt == d.enc /\ IsPlain

\* applyFilterRules: what follows rules that let no classifier run.
FilterRules == {"decide", "defer"}

\* ApplyOutcome: a rule moves a mail out of INBOX, marks it read or neither.
\* It acts on whatever now has the UID.
ApplyOutcome(uid) ==
    LET mine == Holding(uid)
    IN  \E after \in {mine, {[r EXCEPT !.folder = "other", !.uid = 0] : r \in mine},
                      {[r EXCEPT !.unseen = FALSE] : r \in mine}} : box' = (box \ mine) \cup after

\* classifyMessage: a label, none that is known, a failure that may pass or one
\* that will not.  Mail that is encrypted gets the fallback label.
Classification == IF IsPlain THEN {"label", "decide", "defer", "retire"} ELSE {"label"}

(***************************************************************************)
(* handleMessage, for mail that is not to be encrypted.  Rules run first.   *)
(* Rules and classifier may fail every time.                                *)
(***************************************************************************)
HandleMessage ==
    /\ At("handle") /\ ~ToEncrypt
    /\ CASE Current.kind = "malformed" -> Goes("retire") /\ UNCHANGED box
         [] Current.kind = "large" -> Goes("decide") /\ UNCHANGED box
         [] OTHER -> (\E pc \in FilterRules \cup Classification : Goes(pc)) /\ ApplyOutcome(Current.uid)
    /\ UNCHANGED <<validity, uidNext, owner, file, store, ghost, left>>

\* applyKeywordsWithRetry: the keyword lands on whatever now has the UID.
ApplyKeywords ==
    /\ At("label")
    /\ \/ /\ Fine /\ Goes("decide")
          /\ box' = {IF r \in Holding(Current.uid) THEN [r EXCEPT !.label = TRUE] ELSE r : r \in box}
       \/ Fault /\ Goes("defer") /\ UNCHANGED box
    /\ UNCHANGED <<validity, uidNext, owner, file, store, ghost>>

\* RecordProcessedDecision: the audit row, the mark and the end of the deferral.
Marks(uid) == processed' = processed \cup {uid} /\ attempts' = Forget({uid})

\* shouldMarkProcessedOnError: the decision of a message too large to fetch is
\* not retryable.
AfterFailedWrite == IF Current.kind = "large" THEN "retire" ELSE "defer"

\* The decision of a message that succeeded.  A failed write is tried again
\* with the message.
Decide ==
    /\ At("decide")
    /\ \/ /\ Fine /\ Done /\ Marks(Current.uid)
          /\ decided' = Counted(d.next.ns, Current.of)
       \/ /\ Fault
          /\ Goes(AfterFailedWrite)
          /\ UNCHANGED <<processed, attempts, decided>>
    /\ UNCHANGED <<mail, owner, file, checkpoint, removed, unrecorded, adrift>>

-----------------------------------------------------------------------------
(***************************************************************************)
(* encryptIncomingMessage: the original is captured and encrypted to the    *)
(* key the account has now, classified, and the key reserved before the     *)
(* journal is written.  Mail that cannot be encrypted at all is counted;    *)
(* every other failure defers it uncounted, a classifier's that will never  *)
(* pass too.                                                                *)
(***************************************************************************)
PrepareIncoming(r, acts) ==
    [uid |-> r.uid, ns |-> validity, of |-> r.of, wraps |-> r.wraps,
     fp |-> key, repl |-> 0, acts |-> acts, done |-> 0]

EncryptIncoming ==
    /\ At("handle") /\ ToEncrypt /\ file = NoJob
    /\ \/ \E r \in Holding(Current.uid), acts \in ActionLists :
             d' = [d EXCEPT !.pc = "reserve", !.job = PrepareIncoming(r, acts)]
       \/ Goes("defer")
    /\ UNCHANGED <<mail, owner, file, store, ghost, left>>

\* settleFailure, for all but mail that cannot be encrypted: nothing is written.
DeferEncryption ==
    /\ At("handle") /\ ToEncrypt
    /\ Deferred
    /\ UNCHANGED <<mail, owner, file, store, ghost, left>>

ReserveIncomingEncryption ==
    /\ At("reserve")
    /\ \/ Reservable(d.job.fp) /\ Fine /\ reserved' = TRUE /\ Goes("journal")
       \/ /\ (Fault \/ (~Reservable(d.job.fp) /\ Fine))
          /\ UNCHANGED reserved /\ Deferred
    /\ UNCHANGED <<mail, key, encrypting, file, store, ghost>>

\* The reservation is given up only when the journal is certainly not there.
WriteJournal ==
    /\ At("journal")
    /\ \/ /\ Fine /\ file' = d.job /\ UNCHANGED reserved
          /\ d' = [d EXCEPT !.pc = "resume", !.ret = "msg"]
       \/ Fault /\ file' = d.job /\ UNCHANGED reserved /\ Deferred
       \/ Fault /\ UNCHANGED file /\ reserved' = FALSE /\ Deferred
    /\ UNCHANGED <<mail, key, encrypting, store, ghost>>

-----------------------------------------------------------------------------
(***************************************************************************)
(* settleFailure and recordMessageFailure.  A failure is counted, and the   *)
(* last one the cap allows retires the message; one that cannot be counted  *)
(* defers it.                                                               *)
(***************************************************************************)
GivesUp(n) == n >= maxDeferralAttempts

RecordDeferral ==
    /\ At("defer")
    /\ \/ LET n == 1 + IF Current.uid \in DOMAIN attempts THEN attempts[Current.uid] ELSE 0
          IN  /\ Fine
              /\ attempts' = [u \in DOMAIN attempts \cup {Current.uid} |-> IF u = Current.uid THEN n ELSE attempts[u]]
              /\ IF GivesUp(n) THEN Goes("retire") ELSE Deferred
       \/ Fault /\ Deferred /\ UNCHANGED attempts
    /\ UNCHANGED <<mail, owner, file, checkpoint, processed, ghost>>

\* A retired message leaves the batch whether or not that could be written.
Retire ==
    /\ At("retire")
    /\ \/ /\ Fine /\ Marks(Current.uid)
          /\ decided' = Counted(d.next.ns, Current.of)
          /\ UNCHANGED unrecorded
       \/ /\ Fault
          /\ unrecorded' = IF d.next.ns = validity THEN unrecorded \cup {Current.uid} ELSE unrecorded
          /\ UNCHANGED <<processed, attempts, decided>>
    /\ Done
    /\ UNCHANGED <<mail, owner, file, checkpoint, removed, adrift>>

-----------------------------------------------------------------------------
\* commitCheckpoint: a failed write is only logged.
CommitCheckpoint ==
    /\ (At("commit") \/ (At("next") /\ d.batch = {}))
    /\ \/ Fine /\ checkpoint' = ClampCheckpoint(d.from, d.next, d.deferred)
       \/ Fault /\ UNCHANGED checkpoint
    /\ d' = Idle
    /\ UNCHANGED <<mail, owner, file, processed, attempts, ghost>>

Resume ==
    \/ NothingToResume \/ ResumeJob \/ Upload \/ RemoveOriginal \/ SaveReplacementUID \/ Replaced
    \/ ApplyIncomingAction \/ SaveAction \/ RecordReplacementDecision
    \/ RemoveJournal \/ ReleaseIncomingEncryption

Batch ==
    \/ FetchUnread \/ Look \/ HandleMessage \/ ApplyKeywords \/ Decide
    \/ EncryptIncoming \/ DeferEncryption \/ ReserveIncomingEncryption \/ WriteJournal
    \/ RecordDeferral \/ Retire \/ CommitCheckpoint

Daemon == Tick \/ Resume \/ Batch

Around ==
    \/ \E m \in Msgs, kind \in Kinds : Arrive(m, kind)
    \/ \E r \in box : OtherClientRemoves(r)
    \/ Renumber \/ ChangeKey \/ SetIncoming \/ Crash

Next == Daemon \/ Around

\* The daemon ticks on its own timer, and what it calls returns or times out.
Spec == Init /\ [][Next]_vars /\ WF_vars(Daemon)

-----------------------------------------------------------------------------
Settled(r) == decided[r.of] > 0 \/ r.uid \in unrecorded

(***************************************************************************)
(* The checkpoint never passes unread mail that was neither decided nor     *)
(* retired: a fetch only returns mail above it, so such mail would never be *)
(* looked at again (commitCheckpoint, ClampCheckpoint, ResetUIDNamespace).  *)
(* The exception: UIDNamespaceReset compares with the namespace of the      *)
(* stored checkpoint, and before the first one is stored there is none.  If *)
(* the mailbox is recreated then, the marks of the old one stay and hide    *)
(* mail of the new one.                                                     *)
(***************************************************************************)
NothingSkipped ==
    checkpoint.ns = validity /\ ~adrift => \A r \in Unread(0) : r.uid <= checkpoint.uid => Settled(r)

(***************************************************************************)
(* A message whose failure is counted is one the next fetch can list:       *)
(* unread, in INBOX, above the checkpoint.  The comment on ApplyOutcome     *)
(* says that the order of a rule's actions keeps every failure retryable.   *)
(***************************************************************************)
FailuresRetryable ==
    (d = Idle /\ file = NoJob /\ removed = {} /\ checkpoint.ns = validity) =>
        \A uid \in DOMAIN attempts : \E r \in Unread(checkpoint.uid) : r.uid = uid

\* The set holds one copy of m, or two of which the journal says the original.
OneCopyIn(S, m) ==
    LET copies == {r \in S : r.of = m}
    IN  \/ Cardinality(copies) <= 1
        \/ Cardinality(copies) = 2 /\ file # NoJob /\ file.of = m

(***************************************************************************)
(* Encrypting a message in place never leaves it twice: INBOX has one copy, *)
(* and a second only while the journal says which original to remove.  So   *)
(* have all folders together, while the mailbox keeps its UIDVALIDITY: in   *)
(* another one a rule of a stale batch may move an upload out of the reach  *)
(* of the search that would find it (ReplaceIncoming).                      *)
(***************************************************************************)
OneCopyOfEach ==
    \A m \in Msgs \ removed :
        OneCopyIn(Inbox, m) /\ (validity = 1 => OneCopyIn(box, m))

(***************************************************************************)
(* Encrypting a message in place never loses it: its last copy goes only    *)
(* when another mail client removes one (ReplaceIncoming).                  *)
(***************************************************************************)
NothingLost ==
    [][\A m \in Msgs : (\E r \in box : r.of = m) =>
          (m \in removed \/ \E r \in box : r.of = m)']_vars

(***************************************************************************)
(* While a replacement is on file the key it is encrypted to is the         *)
(* account's and cannot be replaced: the original may already be gone       *)
(* (ReserveIncomingEncryption, mutateGuarded, finishIncomingJournal).       *)
(***************************************************************************)
KeyKept == file # NoJob => reserved /\ key = file.fp

(***************************************************************************)
(* In one UID namespace a message is decided once: not again after a crash  *)
(* or a retry, and not as the new mail its encrypted copy looks like        *)
(* (RecordProcessedDecision, RecordReplacementDecision, Seen).  Decisions   *)
(* of a store that is adrift are not counted.                               *)
(***************************************************************************)
DecidedOnce == \A m \in Msgs \ removed : decided[m] <= 1

\* The mail of a job is not where it is looked for: a rule of a batch that is
\* older than the mailbox moved it.
Astray(job) ==
    IF job.repl = 0 THEN Original(job) \cup Found(job) = {}
    ELSE job.done < Len(job.acts) /\ job.acts[job.done + 1] # "move" /\ Holding(job.repl) = {}

\* Encryption is paused for the owner to reconcile: the mailbox was renumbered,
\* or what the journal is about was removed by another client or went astray.
Paused == file # NoJob /\ (~SameNamespace(file) \/ file.of \in removed \/ Astray(file))

(***************************************************************************)
(* All mail is settled in the end, however often rules and classifier fail, *)
(* and no replacement stays on file, unless encryption is paused or the     *)
(* encryption of mail is deferred for ever: settleFailure does not count    *)
(* that, although the comment on shouldMarkProcessedOnError says of every   *)
(* deferral that it is not unbounded (maxDeferralAttempts,                  *)
(* resumeIncomingEncryption).  Nor is mail that a store adrift takes for    *)
(* processed.                                                               *)
(***************************************************************************)
EverythingSettles ==
    \/ []<><<DeferEncryption>>_vars
    \/ <>[](\/ Paused \/ adrift
            \/ file = NoJob /\ ~reserved /\ \A r \in Unread(0) : Settled(r))
=============================================================================
