---------------------------- MODULE PollerProofs ----------------------------
(***************************************************************************)
(* Proofs about polling and in-place encryption, for any mail, faults,      *)
(* crashes, renumberings and removals.                                      *)
(*                                                                         *)
(* The argument.  A UID means something only in the namespace it was read   *)
(* in: the store's UIDs are of the checkpoint's, unless the store is adrift *)
(* (Live), the batch's of the fetch's (Fresh), a job's of its own, and no   *)
(* replacement is on file when mail is fetched, so a job never outlives the *)
(* namespace of the store (Namespaces).  In its namespace a UID names one   *)
(* message, a message has one mail in INBOX but for the one the journal is  *)
(* about (OneInInbox), and a message is marked exactly when it is decided   *)
(* (Decisions).  The batch then covers all that the new checkpoint may pass *)
(* (Covered).                                                               *)
(***************************************************************************)
EXTENDS Poller, FiniteSetTheorems, WellFoundedInduction, TLAPS

Text    == Kinds \cup {"plain"}
Records == [uid : Nat, of : Msgs, kind : Text, wraps : Nat, unseen : BOOLEAN, folder : {"INBOX", "other"},
            label : BOOLEAN]
Listed  == [uid : Nat, of : Msgs, kind : Text, wraps : Nat]
Points  == [ns : Nat, uid : Nat]

(* Where the daemon is: at mail of its batch, and at a replacement.         *)
AtMail   == {"handle", "label", "decide", "reserve", "journal", "defer", "retire"}
AtJob    == {"replace", "remove", "saveUID", "replaced", "act", "acted", "record", "finish"}
Resuming == {"resume", "release"} \cup AtJob
Steps    == {"idle", "fetch", "next", "commit"} \cup AtMail \cup Resuming

Daemons == [pc : Steps, ret : {"tick", "msg"}, pend : BOOLEAN, enc : BOOLEAN, batch : SUBSET Listed,
            from : Points, next : Points, deferred : SUBSET Nat, job : Jobs \cup {NoJob}]

WorldTypes ==
    /\ IsFiniteSet(box) /\ box \subseteq Records
    /\ validity \in Nat \ {0} /\ uidNext \in Nat \ {0} /\ key \in Nat
    /\ reserved \in BOOLEAN /\ encrypting \in BOOLEAN
    /\ file \in Jobs \cup {NoJob} /\ checkpoint \in Points
    /\ processed \subseteq Nat /\ decided \in [Msgs -> Nat] /\ adrift \in BOOLEAN

TypeInv == WorldTypes /\ d \in Daemons

(* A replacement of the batch, and a batch under way.                       *)
MsgJob   == d.ret = "msg" /\ d.pc \in Resuming
Batching == d.pc \in {"next", "commit"} \cup AtMail \/ MsgJob

(* The UIDs of the store and of the batch name the mail now in INBOX.       *)
Live  == ~adrift /\ checkpoint.ns \in {NoNamespace, validity}
Fresh == d.next.ns = validity

Arrived == removed \cup {r.of : r \in box}

-----------------------------------------------------------------------------
(* What holds of the mail, the journal and the store, whatever the daemon   *)
(* does.                                                                    *)

Namespaces ==
    /\ checkpoint.ns <= validity
    /\ checkpoint.ns = NoNamespace => checkpoint.uid = 0
    /\ file # NoJob => file.ns \in 1..validity /\ (Live \/ checkpoint.ns = validity => file.ns = validity)

(* A UID names one mail.                                                    *)
Uids ==
    /\ \A r, q \in Inbox : r.uid = q.uid => r.of = q.of /\ r.wraps = q.wraps /\ r.kind = q.kind
    /\ \A r \in Inbox : 0 < r.uid /\ r.uid < uidNext
    /\ checkpoint.ns = validity => checkpoint.uid < uidNext
    /\ Live => \A u \in processed : u < uidNext

(* INBOX has a second copy only of the message the journal is about.        *)
OneInInbox ==
    \A r, q \in Inbox : r.of = q.of /\ r.of \notin removed /\ r.uid # q.uid =>
        r.wraps # q.wraps /\ file # NoJob /\ file.of = r.of

(* A job names its original and its copy.                                   *)
JobOK(j) ==
    /\ j.of \in Arrived
    /\ j.of \notin removed => \A r \in Inbox : r.of = j.of => r.wraps \in {j.wraps, j.wraps + 1}
    /\ j.ns = validity =>
        /\ j.uid < uidNext
        /\ \A r \in Inbox : r.uid = j.uid => r.of = j.of /\ r.wraps = j.wraps
        /\ j.of \notin removed => \A r \in Inbox : r.of = j.of /\ r.wraps = j.wraps => r.uid = j.uid

CopyOK(j) ==
    j.ns = validity =>
        /\ j.repl # j.uid /\ j.repl < uidNext
        /\ \A r \in Inbox : r.uid = j.repl => r.of = j.of /\ r.wraps = j.wraps + 1
        /\ j.of \notin removed => \A r \in Inbox : r.of = j.of /\ r.wraps = j.wraps + 1 => r.uid = j.repl

Gone(j) ==
    /\ j.ns = validity => \A r \in Inbox : r.uid # j.uid
    /\ j.of \notin removed => \A r \in Inbox : r.of = j.of => r.wraps = j.wraps + 1

Journal ==
    file # NoJob =>
        /\ reserved /\ key = file.fp
        /\ JobOK(file)
        /\ file.repl # 0 => CopyOK(file) /\ Gone(file)

(* Decisions and marks agree, in the namespace they are of.                 *)
Decisions ==
    /\ ~Live => \A m \in Msgs : decided[m] = 0
    /\ \A m \in Msgs : decided[m] > 0 => m \in Arrived
    /\ \A m \in Msgs \ removed : decided[m] <= 1
    /\ Live => \A r \in Inbox : r.uid \in processed => decided[r.of] > 0
    /\ Live => \A r \in Inbox : r.of \notin removed /\ decided[r.of] > 0 => r.uid \in processed
    /\ Live /\ file # NoJob /\ file.of \notin removed /\ decided[file.of] > 0 =>
           file.repl # 0 /\ file.repl \in processed

Passed ==
    checkpoint.ns = validity /\ ~adrift => \A r \in Inbox : r.unseen /\ r.uid <= checkpoint.uid => Settled(r)

World == Namespaces /\ Uids /\ OneInInbox /\ Journal /\ Decisions /\ Passed

-----------------------------------------------------------------------------
(* What the daemon knows.                                                   *)

SameJob(j, f) == j.uid = f.uid /\ j.ns = f.ns /\ j.of = f.of /\ j.wraps = f.wraps /\ j.fp = f.fp

Holds ==
    /\ d.pc = "idle" => d = Idle
    /\ d.pc \in {"fetch", "release", "reserve", "journal"} => file = NoJob
    /\ d.pc \in AtJob => file # NoJob /\ d.job # NoJob /\ SameJob(d.job, file)
    /\ d.pc = "resume" /\ d.ret = "msg" => file # NoJob
    /\ d.pc \in {"replace", "remove", "saveUID"} => file.repl = 0
    /\ d.pc \in {"replaced", "act", "acted", "record", "finish"} => file.repl # 0 /\ file.repl = d.job.repl
    /\ d.pc \in {"act", "acted", "record"} => d.job.repl \notin processed
    /\ d.pc \in {"remove", "saveUID"} => d.job.repl # 0 /\ CopyOK(d.job)
    /\ d.pc = "saveUID" => Gone(d.job)
    /\ d.pc = "remove" /\ d.job.ns = validity => d.job.of \in removed \/ \E r \in Inbox : r.uid = d.job.repl

(* A job that is not on file yet.                                           *)
Prepared ==
    d.pc \in {"reserve", "journal"} =>
        /\ d.job # NoJob /\ d.job.repl = 0
        /\ d.job.ns \in 1..validity /\ d.next.ns <= d.job.ns
        /\ JobOK(d.job)
        /\ d.job.of \notin removed => \A r \in Inbox : r.of = d.job.of => r.wraps = d.job.wraps
        /\ d.job.uid = Current.uid /\ (Fresh => d.job.of = Current.of)
        /\ d.pc = "journal" => reserved /\ key = d.job.fp

(* The batch.                                                               *)
BatchShape ==
    /\ \A e, f \in d.batch : e.uid = f.uid => e = f
    /\ \A e, f \in d.batch : e.of = f.of /\ e.of \notin removed => e = f
    /\ \A e \in d.batch : e.of \in Arrived
    /\ d.pc \in AtMail \/ MsgJob => d.batch # {}
    /\ d.pc = "commit" => d.batch = {}
    /\ Batching =>
        /\ d.from = checkpoint /\ d.next.ns \in 1..validity
        /\ checkpoint.ns \in {NoNamespace, d.next.ns} /\ (Live => Fresh)
        /\ file # NoJob => d.next.ns <= file.ns

(* The job of the batch is about the mail at hand.                          *)
AboutCurrent ==
    /\ MsgJob /\ d.pc # "release" => file.uid = Current.uid /\ (Fresh => file.of = Current.of)
    /\ MsgJob /\ d.pc = "release" /\ Fresh => \A r \in Inbox : r.uid # Current.uid
    /\ d.pc \in AtMail => Current.uid \notin processed

BatchMail ==
    Batching /\ Fresh =>
        /\ d.next.uid < uidNext /\ d.from.uid <= d.next.uid
        /\ \A e \in d.batch : e.uid <= d.next.uid
        /\ \A e \in d.batch, r \in Inbox : r.uid = e.uid => r.of = e.of /\ r.wraps = e.wraps
        /\ \A e \in d.batch, r \in Inbox : r.of = e.of /\ e.of \notin removed =>
               \/ r.uid = e.uid
               \/ file # NoJob /\ file.of = e.of
               \/ d.pc = "release" /\ e = Current
        /\ \A e \in d.batch : e.of \notin removed /\ file # NoJob /\ e.of = file.of => MsgJob /\ e = Current
        /\ \A e \in d.batch : e.uid \notin processed /\ e.of \notin removed => decided[e.of] = 0

(* Mail the checkpoint is to pass is settled, left for later or at hand.    *)
Covered ==
    Batching /\ Fresh /\ ~adrift =>
        \A r \in Inbox : r.unseen /\ r.uid <= d.next.uid =>
            Settled(r) \/ r.uid \in d.deferred \/ \E e \in d.batch : e.uid = r.uid

DaemonInv == Holds /\ Prepared /\ BatchShape /\ AboutCurrent /\ BatchMail /\ Covered

(* The inductive invariant.                                                 *)
IInv == TypeInv /\ World /\ DaemonInv

(* While the mailbox keeps its UIDVALIDITY: the copies of a message in all  *)
(* folders.                                                                 *)
OneInBox ==
    \A r, q \in box : r.of = q.of /\ r.of \notin removed /\ r # q =>
        /\ r.folder = "INBOX" /\ q.folder = "INBOX" /\ r.wraps # q.wraps
        /\ file # NoJob /\ file.of = r.of


-----------------------------------------------------------------------------
LEMMA LeastElement ==
  ASSUME NEW T, T \subseteq Nat, T # {}
  PROVE  \E x \in T : \A y \in T : x <= y
<1>1. PICK x \in T : \A y \in T : ~(<<y, x>> \in OpToRel(<, Nat))
  BY WFMin, NatLessThanWellFounded
<1>2. \A y \in T : ~(y < x)
  BY <1>1 DEF OpToRel
<1> QED BY <1>2

(* The mail at hand is the lowest of the batch.                             *)
LEMMA CurrentIn ==
  ASSUME TypeInv, d.batch # {}
  PROVE  Current \in d.batch
<1>1. d.batch \subseteq Listed
  BY DEF TypeInv, WorldTypes, Daemons
<1> DEFINE U == {e.uid : e \in d.batch}
<1>2. U \subseteq Nat /\ U # {}
  BY <1>1 DEF Listed
<1>3. PICK x \in U : \A y \in U : x <= y
  BY <1>2, LeastElement
<1>4. PICK e \in d.batch : \A f \in d.batch : e.uid <= f.uid
  BY <1>3
<1> QED BY <1>4 DEF Current

LEMMA Initially == Init => IInv
<1> SUFFICES ASSUME Init PROVE IInv
  OBVIOUS
<1> USE PollerAssumption
<1>0. Inbox = {} /\ validity = 1 /\ uidNext = 1 /\ file = NoJob /\ processed = {} /\ d = Idle
      /\ decided = [m \in Msgs |-> 0]
  BY DEF Init, Inbox
<1>1. checkpoint \in Points /\ checkpoint.ns \in {0, 1} /\ checkpoint.uid = 0
  BY DEF Init, Points, NoNamespace
<1>2. Idle \in Daemons /\ Idle.batch = {} /\ Idle.pc = "idle" /\ Idle.ret = "tick"
  BY DEF Idle, Daemons, Steps, Points, NoNamespace, Resuming
<1>3. TypeInv
  <2>1. box = {} /\ key = 1 /\ reserved \in BOOLEAN /\ encrypting \in BOOLEAN /\ adrift \in BOOLEAN
    BY DEF Init
  <2>2. IsFiniteSet(box) /\ box \subseteq Records
    BY <2>1, FS_EmptySet
  <2>3. decided \in [Msgs -> Nat] /\ file \in Jobs \cup {NoJob}
    BY <1>0
  <2> QED BY <1>0, <1>1, <1>2, <2>1, <2>2, <2>3 DEF TypeInv, WorldTypes
<1>4. Namespaces /\ Uids /\ OneInInbox /\ Journal /\ Decisions /\ Passed
  BY <1>0, <1>1 DEF Namespaces, Uids, OneInInbox, Journal, Decisions, Passed, Live, NoNamespace
<1>5. DaemonInv
  BY <1>0, <1>2 DEF DaemonInv, Holds, Prepared, BatchShape, AboutCurrent, BatchMail, Covered, MsgJob, Batching,
     AtMail, AtJob, Resuming
<1> QED BY <1>3, <1>4, <1>5 DEF IInv, World

-----------------------------------------------------------------------------
(* Steps that add no mail to INBOX.                                         *)

Known(r) == \E q \in Inbox : /\ q.uid = r.uid /\ q.of = r.of /\ q.wraps = r.wraps /\ q.kind = r.kind
                             /\ r.unseen => q.unseen

Shrinks ==
  /\ \A r \in Inbox' : Known(r)
  /\ Arrived \subseteq Arrived' /\ removed \subseteq removed'
  /\ UNCHANGED <<validity, uidNext, adrift>>

Kept == UNCHANGED <<key, file, checkpoint, processed, decided>> /\ unrecorded \subseteq unrecorded'

LEMMA SameMail ==
  ASSUME UNCHANGED mail, UNCHANGED <<removed, adrift>>
  PROVE  Shrinks
<1>1. Inbox' = Inbox /\ Arrived' = Arrived
  BY DEF mail, Inbox, Arrived
<1> QED BY <1>1 DEF mail, Shrinks, Known

(* A job stays what it is.                                                  *)
LEMMA JobKept ==
  ASSUME Shrinks, NEW j
  PROVE  (JobOK(j) => JobOK(j)') /\ (CopyOK(j) => CopyOK(j)') /\ (Gone(j) => Gone(j)')
<1>1. JobOK(j) => JobOK(j)'
  BY DEF Shrinks, Known, JobOK
<1>2. CopyOK(j) => CopyOK(j)'
  BY DEF Shrinks, Known, CopyOK
<1>3. Gone(j) => Gone(j)'
  BY DEF Shrinks, Known, Gone
<1> QED BY <1>1, <1>2, <1>3

LEMMA WorldKept ==
  ASSUME TypeInv, World, Shrinks, Kept, file # NoJob => reserved'
  PROVE  World'
<1>1. Namespaces'
  BY DEF World, Namespaces, Shrinks, Known, Kept, Live
<1>2. Uids'
  BY DEF World, Uids, Shrinks, Known, Kept, Live
<1>3. OneInInbox'
  BY DEF World, OneInInbox, Shrinks, Known, Kept
<1>4. Journal'
  <2>1. file' = file /\ key' = key
    BY DEF Kept
  <2>2. file # NoJob => JobOK(file)' /\ (file.repl # 0 => CopyOK(file)' /\ Gone(file)')
    <3>1. file # NoJob => JobOK(file) /\ (file.repl # 0 => CopyOK(file) /\ Gone(file))
      BY DEF World, Journal
    <3>2. PICK j : j = file
      OBVIOUS
    <3>3. file # NoJob => JobOK(j)' /\ (j.repl # 0 => CopyOK(j)' /\ Gone(j)')
      BY <3>1, <3>2, JobKept
    <3> QED BY <2>1, <3>2, <3>3 DEF JobOK, CopyOK, Gone
  <2> QED BY <2>1, <2>2 DEF World, Journal
<1>5. Decisions'
  <2>1. \A r \in Inbox : r.of \in Msgs
    BY DEF TypeInv, WorldTypes, Records, Inbox
  <2> QED BY <2>1 DEF World, Decisions, Shrinks, Known, Kept, Live
<1>6. Passed'
  BY DEF World, Passed, Settled, Shrinks, Known, Kept
<1> QED BY <1>1, <1>2, <1>3, <1>4, <1>5, <1>6 DEF World

-----------------------------------------------------------------------------
(* The movements of the daemon.                                             *)

LEMMA IdleKeeps ==
  ASSUME TypeInv', World', d' = Idle
  PROVE  IInv'
<1>1. d'.pc = "idle" /\ d'.ret = "tick" /\ d'.batch = {}
  BY DEF Idle
<1> QED BY <1>1 DEF IInv, DaemonInv, Holds, Prepared, BatchShape, AboutCurrent, BatchMail, Covered, MsgJob, Batching,
     AtMail, AtJob, Resuming

(* New mail in INBOX is not of the batch, but for the copy of a job's mail. *)
Follows ==
  /\ \A r \in Inbox' :
        \/ Known(r)
        \/ r.uid = uidNext /\ \A e \in d.batch : r.of = e.of => e.of \in removed' \/ (file' # NoJob /\ file'.of = e.of)
  /\ Arrived \subseteq Arrived' /\ removed \subseteq removed'
  /\ uidNext <= uidNext' /\ UNCHANGED <<validity, adrift>>

LEMMA ShrinksFollows ==
  ASSUME TypeInv, Shrinks
  PROVE  Follows
BY DEF Shrinks, Follows, Known, TypeInv, WorldTypes

(* New mail is above the batch.                                             *)
LEMMA Above ==
  ASSUME IInv, Batching, Fresh
  PROVE  ~(uidNext <= d.next.uid) /\ \A e \in d.batch : e.uid # uidNext
BY DEF IInv, DaemonInv, BatchMail, TypeInv, WorldTypes, Daemons, Points, Listed

(* The journal is about the same job.                                       *)
SameFile == (file' = NoJob <=> file = NoJob) /\ (file # NoJob => SameJob(file', file))

SameBatch ==
  /\ d'.batch = d.batch /\ d'.next = d.next /\ d'.from = d.from /\ d.deferred \subseteq d'.deferred
  /\ Follows /\ SameFile /\ UNCHANGED <<checkpoint, processed, decided, unrecorded>>

LEMMA BatchKept ==
  ASSUME IInv, WorldTypes', SameBatch, Batching' => Batching, MsgJob' <=> MsgJob, d.pc # "release", d'.pc # "release"
  PROVE  BatchMail' /\ Covered'
<1>1. BatchMail /\ Covered
  BY DEF IInv, DaemonInv
<1>2. Current' = Current
  BY DEF Current, SameBatch
<1>3. Fresh' <=> Fresh
  BY DEF Fresh, SameBatch, Follows, Known
<1>4. CASE ~(Batching' /\ Fresh')
  BY <1>4 DEF BatchMail, Covered
<1>5. CASE Batching' /\ Fresh'
  <2>1. BatchMail'
    <3>1. \A e \in d.batch : e.of \notin removed /\ file # NoJob /\ e.of = file.of => MsgJob /\ e = Current
      BY <1>1, <1>3, <1>5 DEF BatchMail
    <3>2. \A e \in d.batch : e.of \notin removed' /\ file' # NoJob /\ e.of = file'.of => MsgJob' /\ e = Current'
      BY <1>2, <3>1 DEF SameBatch, SameFile, SameJob, Follows, Known
    <3>3. \A e \in d.batch : e.uid \notin processed' /\ e.of \notin removed' => decided'[e.of] = 0
      BY <1>1, <1>3, <1>5 DEF BatchMail, SameBatch, Follows, Known
    <3>4. \A e \in d.batch, r \in Inbox' : r.uid = e.uid => r.of = e.of /\ r.wraps = e.wraps
      BY <1>1, <1>3, <1>5, Above DEF BatchMail, SameBatch, Follows, Known
    <3>5. \A e \in d.batch, r \in Inbox' : r.of = e.of /\ e.of \notin removed' =>
            r.uid = e.uid \/ (file' # NoJob /\ file'.of = e.of)
      BY <1>1, <1>3, <1>5 DEF BatchMail, SameBatch, SameFile, SameJob, Follows, Known
    <3>6. d'.next.uid < uidNext' /\ d'.from.uid <= d'.next.uid /\ \A e \in d.batch : e.uid <= d'.next.uid
      <4>1. d.next.uid < uidNext /\ d.from.uid <= d.next.uid /\ \A e \in d.batch : e.uid <= d.next.uid
        BY <1>1, <1>3, <1>5 DEF BatchMail
      <4>2. uidNext \in Nat /\ d.next.uid \in Nat /\ uidNext' \in Nat
        BY DEF IInv, TypeInv, WorldTypes, Daemons, Points
      <4> QED BY <4>1, <4>2 DEF SameBatch, Follows
    <3> QED BY <3>2, <3>3, <3>4, <3>5, <3>6 DEF BatchMail, SameBatch
  <2>2. Covered'
    BY <1>1, <1>3, <1>5, Above DEF Covered, SameBatch, Follows, Known, Settled
  <2> QED BY <2>1, <2>2
<1> QED BY <1>4, <1>5

(* A step of a replacement, of the tick or of the batch.                    *)
LEMMA JobMove ==
  ASSUME IInv, TypeInv', World', SameBatch, d'.ret = d.ret, d.pc \in AtJob \cup {"resume"}, d'.pc \in AtJob, Holds'
  PROVE  IInv'
<1>1. /\ MsgJob' <=> MsgJob
      /\ Batching' <=> Batching
      /\ d.pc # "release" /\ d'.pc # "release" /\ d'.pc \notin AtMail /\ d'.pc # "commit"
      /\ d'.pc \notin {"reserve", "journal"}
  BY DEF MsgJob, Batching, Resuming, AtJob, AtMail
<1>2. BatchMail' /\ Covered'
  BY <1>1, BatchKept DEF TypeInv
<1>3. Current' = Current /\ (Fresh' <=> Fresh)
  BY DEF Current, Fresh, SameBatch, Follows, Known
<1>4. file # NoJob \/ ~MsgJob
  BY DEF IInv, DaemonInv, Holds, MsgJob, Resuming
<1>5. AboutCurrent'
  <2>1. MsgJob => file.uid = Current.uid /\ (Fresh => file.of = Current.of)
    BY <1>1 DEF IInv, DaemonInv, AboutCurrent
  <2> QED BY <1>1, <1>3, <1>4, <2>1 DEF AboutCurrent, SameBatch, SameFile, SameJob
<1>6. BatchShape'
  <2>1. BatchShape
    BY DEF IInv, DaemonInv
  <2> QED BY <1>1, <2>1 DEF BatchShape, SameBatch, SameFile, SameJob, Follows, Known, Live, Fresh
<1>7. Prepared'
  BY <1>1 DEF Prepared
<1> QED BY <1>2, <1>5, <1>6, <1>7 DEF IInv, DaemonInv

(* A step with the mail at hand.                                            *)
LEMMA MailMove ==
  ASSUME IInv, TypeInv', World', SameBatch, d.pc \in AtMail \cup {"next"}, d.batch # {}, Current.uid \notin processed,
         d'.pc \in {"handle", "label", "decide", "defer", "retire"}
  PROVE  IInv'
<1>1. /\ ~MsgJob' /\ ~MsgJob
      /\ Batching' /\ Batching
      /\ d.pc # "release" /\ d'.pc # "release" /\ d'.pc \notin AtJob /\ d'.pc \notin Resuming
      /\ d'.pc \notin {"reserve", "journal", "commit", "idle", "fetch"} /\ d'.pc \in AtMail
  BY DEF MsgJob, Batching, Resuming, AtJob, AtMail
<1>2. BatchMail' /\ Covered'
  BY <1>1, BatchKept DEF TypeInv
<1>3. Current' = Current
  BY DEF Current, SameBatch
<1>4. AboutCurrent'
  BY <1>1, <1>3 DEF AboutCurrent, SameBatch
<1>5. BatchShape'
  <2>1. BatchShape
    BY DEF IInv, DaemonInv
  <2> QED BY <1>1, <2>1 DEF BatchShape, SameBatch, SameFile, SameJob, Follows, Known, Live, Fresh
<1>6. Prepared'
  BY <1>1 DEF Prepared
<1>7. Holds'
  BY <1>1 DEF Holds, AtJob, Resuming
<1> QED BY <1>2, <1>4, <1>5, <1>6, <1>7 DEF IInv, DaemonInv

(* The mail at hand leaves the batch.                                       *)
LEMMA PopMove ==
  ASSUME IInv, TypeInv', World', Follows, UNCHANGED checkpoint, Batching, d.batch # {},
         d'.pc = "next", d'.batch = d.batch \ {Current}, d'.next = d.next, d'.from = d.from,
         d.deferred \subseteq d'.deferred, processed \subseteq processed', unrecorded \subseteq unrecorded',
         \A m \in Msgs : decided[m] <= decided'[m],
         Fresh => \A e \in d.batch \ {Current} : e.of \notin removed' => decided'[e.of] = decided[e.of],
         file' # NoJob => /\ d.next.ns <= file'.ns
                          /\ Fresh => \A e \in d.batch \ {Current} : e.of \notin removed' => e.of # file'.of,
         Fresh /\ ~adrift =>
             \A r \in Inbox' : r.unseen /\ r.uid = Current.uid => Settled(r)' \/ r.uid \in d'.deferred
  PROVE  IInv'
<1>0. PICK c \in d.batch : c = Current
  BY CurrentIn DEF IInv
<1>1. ~MsgJob' /\ Batching' /\ d'.pc \notin AtMail /\ d'.pc \notin AtJob /\ d'.pc = "next"
  BY DEF MsgJob, Batching, Resuming, AtJob, AtMail
<1>2. Fresh' <=> Fresh
  BY DEF Fresh, Follows, Known
<1>3. BatchMail'
  <2> SUFFICES ASSUME Fresh PROVE BatchMail'
    BY <1>2 DEF BatchMail
  <2>1. BatchMail
    BY DEF IInv, DaemonInv
  <2>2. \A e \in d'.batch : e.of \notin removed' /\ file' # NoJob => e.of # file'.of
    OBVIOUS
  <2>3. \A e \in d'.batch : e.uid \notin processed' /\ e.of \notin removed' => decided'[e.of] = 0
    BY <2>1 DEF BatchMail, Follows, Known
  <2>4. \A e \in d'.batch, r \in Inbox' : r.uid = e.uid => r.of = e.of /\ r.wraps = e.wraps
    BY <2>1, Above DEF BatchMail, Follows, Known
  <2>5. \A e \in d'.batch, r \in Inbox' : r.of = e.of /\ e.of \notin removed' => r.uid = e.uid
    BY <2>1 DEF BatchMail, Follows, Known
  <2>6. d'.next.uid < uidNext' /\ d'.from.uid <= d'.next.uid /\ \A e \in d'.batch : e.uid <= d'.next.uid
    <3>1. d.next.uid < uidNext /\ d.from.uid <= d.next.uid /\ \A e \in d.batch : e.uid <= d.next.uid
      BY <2>1 DEF BatchMail
    <3>2. uidNext \in Nat /\ d.next.uid \in Nat /\ uidNext' \in Nat
      BY DEF IInv, TypeInv, WorldTypes, Daemons, Points
    <3> QED BY <3>1, <3>2 DEF Follows
  <2> QED BY <2>2, <2>3, <2>4, <2>5, <2>6 DEF BatchMail
<1>4. Covered'
  <2> SUFFICES ASSUME Fresh, ~adrift, NEW r \in Inbox', r.unseen, r.uid <= d.next.uid
               PROVE  Settled(r)' \/ r.uid \in d'.deferred \/ \E e \in d'.batch : e.uid = r.uid
    BY <1>1, <1>2 DEF Covered, Follows
  <2>1. PICK q \in Inbox : q.uid = r.uid /\ q.of = r.of /\ q.unseen /\ q.of \in Msgs
    BY Above DEF Follows, Known, Inbox, IInv, TypeInv, WorldTypes, Records
  <2>2. Settled(q) \/ q.uid \in d.deferred \/ \E e \in d.batch : e.uid = q.uid
    BY <2>1 DEF IInv, DaemonInv, Covered
  <2>3. CASE Settled(q)
    <3>1. decided \in [Msgs -> Nat] /\ decided' \in [Msgs -> Nat]
      BY DEF IInv, TypeInv, WorldTypes
    <3>2. decided[q.of] > 0 => decided'[q.of] > 0
      BY <2>1, <3>1
    <3> QED BY <2>1, <2>3, <3>2 DEF Settled
  <2>4. CASE q.uid \in d.deferred
    BY <2>1, <2>4
  <2>5. CASE \E e \in d.batch : e.uid = q.uid
    BY <1>0, <2>1, <2>5
  <2> QED BY <2>2, <2>3, <2>4, <2>5
<1>5. AboutCurrent'
  BY <1>1 DEF AboutCurrent, AtMail
<1>6. BatchShape'
  <2>1. BatchShape
    BY DEF IInv, DaemonInv
  <2> QED BY <1>1, <2>1 DEF BatchShape, Follows, Known, Live, Fresh
<1>7. Prepared'
  BY <1>1 DEF Prepared
<1>8. Holds'
  BY <1>1 DEF Holds
<1> QED BY <1>3, <1>4, <1>5, <1>6, <1>7, <1>8 DEF IInv, DaemonInv


-----------------------------------------------------------------------------
(* How a replacement ends.                                                  *)

LEMMA IdleType == Idle \in Daemons
BY DEF Idle, Daemons, Steps, Points, NoNamespace, Resuming

LEMMA FailsKeeps ==
  ASSUME IInv, Fails, Follows, WorldTypes', World', UNCHANGED <<checkpoint, processed, decided, unrecorded>>,
         d.pc \in Resuming, file' = NoJob \/ (file # NoJob /\ SameJob(file', file))
  PROVE  IInv'
<1>1. CASE d.ret = "tick"
  BY <1>1, IdleKeeps, IdleType DEF Fails, TypeInv
<1>2. CASE d.ret # "tick"
  <2>1. MsgJob /\ Batching /\ d.batch # {} /\ d \in Daemons
    BY <1>2 DEF MsgJob, Batching, IInv, TypeInv, Daemons, DaemonInv, BatchShape
  <2>2. PICK c \in d.batch : c = Current /\ c.uid \in Nat
    BY <2>1, CurrentIn DEF IInv, Daemons, Listed
  <2>3. d' = [d EXCEPT !.pc = "next", !.batch = d.batch \ {c}, !.job = NoJob, !.deferred = d.deferred \cup {c.uid}]
    BY <1>2, <2>1, <2>2 DEF Fails, Deferred, Popped, Daemons
  <2>4. d' \in Daemons
    BY <2>1, <2>2, <2>3 DEF Daemons, Steps
  <2>5. file' # NoJob => /\ d.next.ns <= file'.ns
                         /\ Fresh => \A e \in d.batch \ {c} : e.of \notin removed' => e.of # file'.of
    BY <2>1, <2>2 DEF IInv, DaemonInv, BatchShape, BatchMail, SameJob, Follows, Known
  <2>6. \A m \in Msgs : decided[m] <= decided'[m]
    BY DEF IInv, TypeInv, WorldTypes
  <2>7. TypeInv'
    BY <2>4 DEF TypeInv
  <2>8. /\ d'.pc = "next" /\ d'.batch = d.batch \ {c} /\ d'.next = d.next /\ d'.from = d.from
        /\ d'.deferred = d.deferred \cup {c.uid}
    BY <2>1, <2>3 DEF Daemons
  <2> QED BY <2>1, <2>2, <2>5, <2>6, <2>7, <2>8, PopMove
<1> QED BY <1>1, <1>2

LEMMA ReturnsKeeps ==
  ASSUME IInv, Returns, UNCHANGED <<mail, removed, checkpoint, processed, decided, unrecorded, adrift, file>>,
         WorldTypes', World', d.pc \in {"resume", "release"}, file = NoJob
  PROVE  IInv'
<1>0. Shrinks /\ Follows /\ Inbox' = Inbox /\ d \in Daemons
  BY SameMail, ShrinksFollows DEF mail, Inbox, IInv, TypeInv
<1>1. CASE d.ret = "tick"
  <2>1. d' = [d EXCEPT !.pc = "fetch", !.job = NoJob]
    BY <1>1 DEF Returns
  <2>2. d' \in Daemons /\ d'.pc = "fetch" /\ d'.batch = d.batch
    BY <1>0, <2>1 DEF Daemons, Steps
  <2>3. ~MsgJob' /\ ~Batching' /\ d'.pc \notin AtMail /\ d'.pc \notin AtJob
    BY <2>2 DEF MsgJob, Batching, AtMail, AtJob, Resuming
  <2>4. BatchShape'
    <3>1. BatchShape
      BY DEF IInv, DaemonInv
    <3> QED BY <1>0, <2>2, <2>3, <3>1 DEF BatchShape, Shrinks, Known
  <2>5. Holds' /\ Prepared' /\ AboutCurrent' /\ BatchMail' /\ Covered'
    BY <2>2, <2>3 DEF Holds, Prepared, AboutCurrent, BatchMail, Covered, AtMail
  <2> QED BY <2>2, <2>4, <2>5 DEF IInv, DaemonInv, TypeInv
<1>2. CASE d.ret # "tick"
  <2>1. MsgJob /\ Batching /\ d.batch # {} /\ d.pc = "release"
    BY <1>2 DEF MsgJob, Batching, IInv, TypeInv, Daemons, DaemonInv, BatchShape, Resuming, Holds
  <2>2. PICK c \in d.batch : c = Current
    BY <2>1, CurrentIn DEF IInv
  <2>3. d' = [d EXCEPT !.pc = "next", !.batch = d.batch \ {c}, !.job = NoJob]
    BY <1>2, <2>2 DEF Returns, Done, Popped
  <2>4. d' \in Daemons
    BY <1>0, <2>2, <2>3 DEF Daemons, Steps
  <2>5. \A m \in Msgs : decided[m] <= decided'[m]
    BY DEF IInv, TypeInv, WorldTypes
  <2>6. Fresh => \A r \in Inbox' : r.uid # c.uid
    BY <1>0, <2>1, <2>2 DEF IInv, DaemonInv, AboutCurrent
  <2>7. TypeInv'
    BY <2>4 DEF TypeInv
  <2>8. d'.pc = "next" /\ d'.batch = d.batch \ {c} /\ d'.next = d.next /\ d'.from = d.from /\ d'.deferred = d.deferred
    BY <1>0, <2>3 DEF Daemons
  <2> QED BY <1>0, <2>1, <2>2, <2>5, <2>6, <2>7, <2>8, PopMove
<1> QED BY <1>1, <1>2

LEMMA TickKeeps ==
  ASSUME IInv, Tick
  PROVE  IInv'
<1> USE DEF mail, owner, store, ghost
<1>0. Shrinks /\ Kept /\ WorldTypes' /\ World'
  BY SameMail, WorldKept DEF Tick, Kept, IInv, TypeInv, WorldTypes, World, Journal
<1>1. d' \in Daemons /\ d'.pc = "resume" /\ d'.ret = "tick" /\ d'.batch = {}
  BY IdleType DEF Tick, Daemons, Idle, Steps, Resuming, IInv, TypeInv, WorldTypes
<1>2. ~MsgJob' /\ ~Batching' /\ d'.pc \notin AtMail /\ d'.pc \notin AtJob
  BY <1>1 DEF MsgJob, Batching, AtMail, AtJob, Resuming
<1> QED BY <1>0, <1>1, <1>2 DEF IInv, TypeInv, DaemonInv, Holds, Prepared, BatchShape, AboutCurrent, BatchMail, Covered,
     AtMail

-----------------------------------------------------------------------------
(* The replacement.                                                         *)

LEMMA NothingToResumeKeeps ==
  ASSUME IInv, NothingToResume
  PROVE  IInv'
<1> USE DEF mail, store, ghost
<1>0. /\ UNCHANGED <<mail, removed, file, checkpoint, processed, decided, unrecorded, adrift, key, encrypting>>
      /\ file = NoJob /\ d.pc = "resume" /\ d.pc \in Resuming
  BY DEF NothingToResume, At, Resuming
<1>1. reserved' \in BOOLEAN
  BY DEF NothingToResume, IInv, TypeInv, WorldTypes
<1>2. Shrinks /\ Follows /\ Kept /\ WorldTypes'
  BY <1>0, <1>1, SameMail, ShrinksFollows DEF Kept, IInv, TypeInv, WorldTypes
<1>3. World'
  BY <1>0, <1>2, WorldKept DEF IInv
<1>4. CASE Returns
  BY <1>0, <1>2, <1>3, <1>4, ReturnsKeeps
<1>5. CASE Fails
  BY <1>0, <1>2, <1>3, <1>5, FailsKeeps
<1> QED BY <1>4, <1>5 DEF NothingToResume

LEMMA ResumeJobKeeps ==
  ASSUME IInv, ResumeJob
  PROVE  IInv'
<1> USE DEF mail, store, ghost
<1>0. /\ UNCHANGED <<mail, removed, file, checkpoint, processed, decided, unrecorded, adrift, key, encrypting>>
      /\ file # NoJob /\ d.pc = "resume" /\ d.pc \in Resuming /\ d \in Daemons /\ file \in Jobs /\ reserved
  BY DEF ResumeJob, At, Resuming, IInv, TypeInv, WorldTypes, World, Journal
<1>1. reserved'
  BY <1>0 DEF ResumeJob
<1>2. Shrinks /\ Follows /\ Kept /\ WorldTypes'
  BY <1>0, <1>1, SameMail, ShrinksFollows DEF Kept, IInv, TypeInv, WorldTypes, ResumeJob
<1>3. World'
  BY <1>0, <1>1, <1>2, WorldKept DEF IInv
<1>4. CASE Fails
  BY <1>0, <1>2, <1>3, <1>4, FailsKeeps DEF SameJob
<1>5. CASE d' = [d EXCEPT !.pc = IF file.repl = 0 THEN "replace" ELSE "replaced", !.job = file]
  <2>1. /\ d' \in Daemons /\ d'.job = file /\ d'.ret = d.ret /\ d'.pc \in {"replace", "replaced"}
        /\ d'.pc = "replace" => file.repl = 0
        /\ d'.pc = "replaced" => file.repl # 0
        /\ d'.batch = d.batch /\ d'.next = d.next /\ d'.from = d.from /\ d'.deferred = d.deferred
    BY <1>0, <1>5 DEF Daemons, Steps, Resuming, AtJob
  <2>2. SameBatch /\ d'.pc \in AtJob
    BY <1>0, <1>2, <2>1 DEF SameBatch, SameFile, SameJob, AtJob
  <2>3. Holds'
    BY <1>0, <2>1 DEF Holds, SameJob, AtJob
  <2> QED BY <1>0, <1>2, <1>3, <2>1, <2>2, <2>3, JobMove DEF TypeInv
<1> QED BY <1>4, <1>5 DEF ResumeJob


(* A mail is added to INBOX: a new message, or the copy of the job on file. *)
LEMMA NewMail ==
  ASSUME IInv, NEW s \in Records, s.folder = "INBOX", s.uid = uidNext, box' = box \cup {s}, uidNext' = uidNext + 1,
         UNCHANGED <<validity, key, reserved, encrypting, file, checkpoint, processed, decided, unrecorded, adrift, removed>>,
         \/ s.of \notin Arrived
         \/ /\ file # NoJob /\ file.repl = 0 /\ s.of = file.of /\ s.wraps = file.wraps + 1
            /\ \A q \in Inbox : ~(q.of = s.of /\ q.wraps = s.wraps)
  PROVE  WorldTypes' /\ World' /\ Follows /\ Inbox' = Inbox \cup {s}
<1>1. Inbox' = Inbox \cup {s} /\ Arrived' = Arrived \cup {s.of}
  BY DEF Inbox, Arrived
<1>2. WorldTypes' /\ uidNext \in Nat /\ s.of \in Msgs /\ file \in Jobs \cup {NoJob} /\ checkpoint \in Points
  BY FS_AddElement DEF IInv, TypeInv, WorldTypes, Records
<1>3. \A q \in Inbox : q.uid \in Nat /\ q.uid < uidNext /\ q.of \in Msgs /\ q.of \in Arrived
  BY DEF IInv, TypeInv, WorldTypes, World, Uids, Inbox, Records, Arrived
<1>4. Follows
  <2>1. \A e \in d.batch : e.of \in Arrived
    BY DEF IInv, DaemonInv, BatchShape
  <2> QED BY <1>1, <1>2, <2>1 DEF Follows, Known
<1>5. Namespaces'
  BY DEF IInv, World, Namespaces, Live
<1>6. Uids'
  <2>1. \A r \in Inbox' : 0 < r.uid /\ r.uid < uidNext'
    BY <1>1, <1>2, <1>3 DEF IInv, World, Uids, TypeInv, WorldTypes
  <2>2. \A r, q \in Inbox' : r.uid = q.uid => r.of = q.of /\ r.wraps = q.wraps /\ r.kind = q.kind
    BY <1>1, <1>2, <1>3 DEF IInv, World, Uids
  <2>3. checkpoint'.ns = validity' => checkpoint'.uid < uidNext'
    BY <1>2 DEF IInv, World, Uids, Points
  <2>4. Live => \A u \in processed : u < uidNext
    BY DEF IInv, World, Uids
  <2>5. Live => \A u \in processed : u < uidNext'
    BY <1>2, <2>4 DEF IInv, TypeInv, WorldTypes
  <2> QED BY <2>1, <2>2, <2>3, <2>5 DEF Uids, Live
<1>7. OneInInbox'
  BY <1>1, <1>3 DEF IInv, World, OneInInbox
<1>8. Journal'
  <2>1. file # NoJob => JobOK(file)'
    <3> SUFFICES ASSUME file # NoJob PROVE JobOK(file)'
      OBVIOUS
    <3>1. JobOK(file) /\ file \in Jobs
      BY <1>2 DEF IInv, World, Journal
    <3> QED BY <1>1, <1>2, <3>1 DEF JobOK, Jobs
  <2>2. file # NoJob /\ file.repl # 0 => CopyOK(file)' /\ Gone(file)'
    <3> SUFFICES ASSUME file # NoJob, file.repl # 0 PROVE CopyOK(file)' /\ Gone(file)'
      OBVIOUS
    <3>1. JobOK(file) /\ CopyOK(file) /\ Gone(file) /\ file \in Jobs /\ s.of # file.of
      BY <1>2 DEF IInv, World, Journal, JobOK
    <3> QED BY <1>1, <1>2, <3>1 DEF CopyOK, Gone, JobOK, Jobs
  <2> QED BY <2>1, <2>2 DEF IInv, World, Journal
<1>9. Decisions'
  <2>1. Live => s.uid \notin processed
    BY <1>2 DEF IInv, World, Uids
  <2>2. s.of \notin Arrived => decided[s.of] = 0
    BY <1>2 DEF IInv, World, Decisions, TypeInv, WorldTypes
  <2>3. s.of \in Arrived /\ Live /\ s.of \notin removed => decided[s.of] = 0
    BY <1>2 DEF IInv, World, Decisions, TypeInv, WorldTypes
  <2> QED BY <1>1, <2>1, <2>2, <2>3 DEF IInv, World, Decisions, Live
<1>10. Passed'
  BY <1>1, <1>2 DEF IInv, World, Passed, Uids, Settled, Points
<1> QED BY <1>1, <1>2, <1>4, <1>5, <1>6, <1>7, <1>8, <1>9, <1>10 DEF World

LEMMA UploadKeeps ==
  ASSUME IInv, Upload
  PROVE  IInv'
<1> USE DEF owner, store, ghost
<1>0. /\ UNCHANGED <<validity, key, reserved, encrypting, file, checkpoint, processed, decided, unrecorded, adrift, removed>>
      /\ d.pc = "replace" /\ d.pc \in AtJob /\ d.pc \in Resuming /\ d \in Daemons
  BY DEF Upload, At, Resuming, AtJob, IInv, TypeInv
<1>1. PICK j \in Jobs : j = d.job
  BY <1>0, PollerAssumption DEF IInv, DaemonInv, Holds, Daemons
<1>2. file \in Jobs /\ file # NoJob /\ SameJob(j, file) /\ file.repl = 0 /\ JobOK(file)
  BY <1>0, <1>1 DEF IInv, DaemonInv, Holds, TypeInv, WorldTypes, World, Journal
<1>3. JobOK(j)
  BY <1>2 DEF JobOK, SameJob
<1>4. ASSUME NEW u \in Nat, d'.job = [j EXCEPT !.repl = u], d'.pc \in {"remove", "saveUID"},
             d' = [d EXCEPT !.pc = d'.pc, !.job = d'.job], WorldTypes', World', Follows, u # 0,
             \A i \in Jobs : SameJob(i, j) /\ i.repl = u => CopyOK(i)', d'.pc = "saveUID" => Gone(j)',
             \E r \in Inbox' : r.uid = u
      PROVE  IInv'
  <2>1. PICK i : i = [j EXCEPT !.repl = u]
    OBVIOUS
  <2>2. i \in Jobs /\ i # NoJob /\ i.repl = u /\ SameJob(i, file) /\ SameJob(i, j)
    BY <1>1, <1>2, <2>1, PollerAssumption DEF Jobs, SameJob
  <2>3. d'.job = i /\ d'.pc \in Steps
    BY <1>4, <2>1 DEF Steps, Resuming, AtJob
  <2>4. /\ d' \in Daemons /\ d'.ret = d.ret
        /\ d'.batch = d.batch /\ d'.next = d.next /\ d'.from = d.from /\ d'.deferred = d.deferred
    BY <1>0, <1>4, <2>2, <2>3 DEF Daemons
  <2>5. SameBatch /\ d'.pc \in AtJob
    BY <1>0, <1>4, <2>4 DEF SameBatch, SameFile, SameJob, AtJob
  <2>6. CopyOK(i)'
    BY <1>4, <2>2
  <2>7. d'.pc = "saveUID" => Gone(i)'
    BY <1>4, <2>2 DEF SameJob, Gone
  <2>8. CopyOK(d.job)' /\ (d'.pc = "saveUID" => Gone(d.job)')
    BY <2>3, <2>6, <2>7 DEF CopyOK, Gone
  <2>9. Holds'
    BY <1>0, <1>2, <1>4, <2>2, <2>3, <2>8 DEF Holds, AtJob
  <2> QED BY <1>0, <1>4, <2>4, <2>5, <2>9, JobMove DEF TypeInv
<1>5. ASSUME j.ns = validity, NEW q \in Found(j), UNCHANGED <<box, uidNext>>, d'.job = [j EXCEPT !.repl = q.uid],
             d'.pc \in {"remove", "saveUID"}, d' = [d EXCEPT !.pc = d'.pc, !.job = d'.job],
             d'.pc = "saveUID" => Holding(j.uid) = {}
      PROVE  IInv'
  <2>1. Shrinks /\ Kept /\ WorldTypes' /\ Inbox' = Inbox
    BY <1>0, <1>5, SameMail DEF Kept, IInv, TypeInv, WorldTypes, mail, Inbox
  <2>2. World' /\ Follows
    BY <1>0, <2>1, WorldKept, ShrinksFollows DEF IInv, World, Journal
  <2>3. q \in Inbox /\ q.of = j.of /\ q.wraps = j.wraps + 1 /\ q.uid \in Nat /\ q.uid # 0 /\ q.uid < uidNext
    BY DEF Found, CopyOf, IInv, TypeInv, WorldTypes, World, Uids, Inbox, Records
  <2>4. ASSUME NEW i \in Jobs, SameJob(i, j), i.repl = q.uid
        PROVE  CopyOK(i)'
    <3>1. q.uid # j.uid
      BY <1>1, <1>3, <1>5, <2>3 DEF JobOK, Jobs
    <3>2. \A r \in Inbox : r.uid = q.uid => r.of = j.of /\ r.wraps = j.wraps + 1
      BY <2>3 DEF IInv, World, Uids
    <3>3. j.of \notin removed => \A r \in Inbox : r.of = j.of /\ r.wraps = j.wraps + 1 => r.uid = q.uid
      BY <2>3 DEF IInv, World, OneInInbox
    <3>4. CopyOK(i)
      BY <2>3, <2>4, <3>1, <3>2, <3>3 DEF CopyOK, SameJob
    <3> QED BY <2>1, <3>4, JobKept
  <2>5. d'.pc = "saveUID" => Gone(j)'
    <3> SUFFICES ASSUME \A r \in Inbox : r.uid # j.uid PROVE Gone(j)'
      BY <1>5 DEF Holding
    <3>1. Gone(j)
      BY <1>3, <1>5 DEF JobOK, Gone
    <3> QED BY <2>1, <3>1, JobKept
  <2> QED BY <1>4, <1>5, <2>1, <2>2, <2>3, <2>4, <2>5
<1>6. ASSUME j.ns = validity, Found(j) = {}, box' = box \cup Stored(j), uidNext' = uidNext + 1,
             NEW n \in Nat, n = uidNext
      PROVE  /\ WorldTypes' /\ World' /\ Follows
             /\ /\ d'.job = [j EXCEPT !.repl = n] /\ d'.pc = "remove"
                /\ d' = [d EXCEPT !.pc = d'.pc, !.job = d'.job]
                => IInv'
  <2>1. PICK s \in Stored(j) : Stored(j) = {s}
    BY DEF Stored
  <2>2. s.folder = "INBOX" /\ s.uid = uidNext /\ s.of = j.of /\ s.wraps = j.wraps + 1
    BY <2>1 DEF Stored
  <2>3. s \in Records
    <3>1. j.of \in Msgs /\ j.wraps + 1 \in Nat
      BY DEF Jobs
    <3>2. s = [uid |-> n, of |-> j.of, kind |-> "plain", wraps |-> j.wraps + 1,
               unseen |-> \A r \in Original(j) : r.unseen, folder |-> "INBOX", label |-> FALSE]
      BY <1>6, <2>1 DEF Stored
    <3> QED BY <1>6, <3>1, <3>2 DEF Records, Text
  <2>4. \A q \in Inbox : ~(q.of = s.of /\ q.wraps = s.wraps)
    BY <1>6, <2>2 DEF Found, CopyOf, Inbox
  <2>5. s.of = file.of /\ s.wraps = file.wraps + 1
    BY <1>2, <2>2 DEF SameJob
  <2>6. WorldTypes' /\ World' /\ Follows /\ Inbox' = Inbox \cup {s}
    BY <1>0, <1>2, <1>6, <2>1, <2>2, <2>3, <2>4, <2>5, NewMail
  <2>7. n # 0 /\ j.uid \in Nat /\ j.uid < n
    BY <1>1, <1>3, <1>6 DEF IInv, TypeInv, WorldTypes, JobOK, Jobs
  <2>8. ASSUME NEW i \in Jobs, SameJob(i, j), i.repl = n
        PROVE  CopyOK(i)'
    <3>1. \A q \in Inbox : q.uid # n
      BY <1>6 DEF IInv, World, Uids, TypeInv, WorldTypes, Inbox, Records
    <3> QED BY <1>6, <2>2, <2>4, <2>6, <2>7, <2>8, <3>1 DEF CopyOK, SameJob
  <2>9. \E r \in Inbox' : r.uid = n
    BY <1>6, <2>2, <2>6
  <2> QED BY <1>4, <2>6, <2>7, <2>8, <2>9
<1>7. ASSUME Fails, UNCHANGED <<box, uidNext>> PROVE IInv'
  <2>1. Shrinks /\ Kept /\ WorldTypes'
    BY <1>0, <1>7, SameMail DEF Kept, IInv, TypeInv, WorldTypes, mail
  <2>2. World' /\ Follows
    BY <1>0, <2>1, WorldKept, ShrinksFollows DEF IInv, World, Journal
  <2> QED BY <1>0, <1>2, <1>7, <2>1, <2>2, FailsKeeps DEF SameJob
<1>8. ASSUME WorldTypes', World', Follows, Fails PROVE IInv'
  BY <1>0, <1>2, <1>8, FailsKeeps DEF SameJob
<1>9. ASSUME NEW u, NEW pc, d' = [d EXCEPT !.pc = pc, !.job.repl = u]
      PROVE  d'.pc = pc /\ d'.job = [j EXCEPT !.repl = u] /\ d' = [d EXCEPT !.pc = d'.pc, !.job = d'.job]
  BY <1>0, <1>1, <1>9 DEF Daemons
<1>10. CASE /\ SameNamespace(j) /\ Found(j) # {} /\ UNCHANGED <<box, uidNext>>
            /\ \E pc \in {"remove", "saveUID"} :
                 /\ d' = [d EXCEPT !.pc = pc, !.job.repl = (CHOOSE r \in Found(j) : TRUE).uid]
                 /\ pc = "saveUID" => Holding(j.uid) = {}
  <2>1. PICK q \in Found(j) : q = CHOOSE r \in Found(j) : TRUE
    BY <1>10
  <2>2. PICK pc \in {"remove", "saveUID"} :
            d' = [d EXCEPT !.pc = pc, !.job.repl = q.uid] /\ (pc = "saveUID" => Holding(j.uid) = {})
    BY <1>10, <2>1
  <2> QED BY <1>5, <1>9, <1>10, <2>2 DEF SameNamespace
<1>11. CASE /\ SameNamespace(j) /\ Found(j) = {} /\ box' = box \cup Stored(j) /\ uidNext' = uidNext + 1
            /\ \/ d' = [d EXCEPT !.pc = "remove", !.job.repl = (CHOOSE r \in Stored(j) : TRUE).uid]
               \/ Fails
  <2>1. PICK n \in Nat : n = uidNext
    BY DEF IInv, TypeInv, WorldTypes
  <2>2. (CHOOSE r \in Stored(j) : TRUE).uid = n
    <3>1. \A r \in Stored(j) : r.uid = n
      BY <2>1 DEF Stored
    <3>2. Stored(j) # {}
      BY DEF Stored
    <3> QED BY <3>1, <3>2
  <2> QED BY <1>6, <1>8, <1>9, <1>11, <2>1, <2>2 DEF SameNamespace
<1> QED BY <1>1, <1>7, <1>10, <1>11 DEF Upload

(* The job at hand is the one on file.                                      *)
LEMMA AtHand ==
  ASSUME IInv, d.pc \in AtJob
  PROVE  /\ d \in Daemons /\ d.job \in Jobs /\ d.job # NoJob /\ file \in Jobs /\ file # NoJob
         /\ SameJob(d.job, file) /\ JobOK(file) /\ JobOK(d.job) /\ reserved /\ key = file.fp /\ d.pc \in Resuming
<1>1. d \in Daemons /\ d.job \in Jobs /\ d.job # NoJob /\ file \in Jobs /\ file # NoJob /\ SameJob(d.job, file)
  BY DEF IInv, DaemonInv, Holds, TypeInv, WorldTypes, Daemons
<1>2. JobOK(file) /\ reserved /\ key = file.fp
  BY <1>1 DEF IInv, World, Journal
<1>3. JobOK(d.job)
  BY <1>1, <1>2 DEF JobOK, SameJob
<1> QED BY <1>1, <1>2, <1>3 DEF Resuming

(* The daemon's place alone changes.                                        *)
LEMMA GoesTo ==
  ASSUME d \in Daemons, NEW pc \in Steps, Goes(pc)
  PROVE  /\ d' \in Daemons /\ d'.pc = pc /\ d'.ret = d.ret /\ d'.job = d.job /\ d'.pend = d.pend /\ d'.enc = d.enc
         /\ d'.batch = d.batch /\ d'.next = d.next /\ d'.from = d.from /\ d'.deferred = d.deferred
BY DEF Goes, Daemons

LEMMA RemoveOriginalKeeps ==
  ASSUME IInv, RemoveOriginal
  PROVE  IInv' /\ Arrived \subseteq Arrived'
<1> USE DEF owner, store, ghost
<1>0. /\ UNCHANGED <<validity, uidNext, key, reserved, encrypting, file, checkpoint, processed, decided, unrecorded, adrift, removed>>
      /\ d.pc = "remove" /\ d.pc \in AtJob /\ file.repl = 0
  BY DEF RemoveOriginal, At, AtJob, IInv, DaemonInv, Holds
<1>1. PICK j \in Jobs : j = d.job
  BY <1>0, AtHand
<1>2. /\ d \in Daemons /\ j # NoJob /\ file \in Jobs /\ file # NoJob /\ SameJob(j, file) /\ JobOK(j) /\ reserved
      /\ d.pc \in Resuming
  BY <1>0, <1>1, AtHand
<1>3. j.repl # 0 /\ CopyOK(j) /\ (j.ns = validity => j.of \in removed \/ \E r \in Inbox : r.uid = j.repl)
  BY <1>0, <1>1 DEF IInv, DaemonInv, Holds
<1>4. ASSUME j.ns = validity, box' = box \ Holding(j.uid)
      PROVE  Shrinks /\ WorldTypes' /\ World' /\ Follows /\ Gone(j)'
  <2>1. Inbox' = Inbox \ Holding(j.uid)
    BY <1>4 DEF Inbox
  <2>2. Arrived \subseteq Arrived'
    <3> SUFFICES ASSUME NEW r \in box, r.of \notin removed PROVE \E q \in box' : q.of = r.of
      BY <1>0 DEF Arrived
    <3>1. CASE r \notin Holding(j.uid)
      BY <1>4, <3>1
    <3>2. CASE r \in Holding(j.uid)
      <4>1. r.of = j.of
        BY <1>2, <1>4, <3>2 DEF JobOK, Holding
      <4>2. PICK q \in Inbox : q.uid = j.repl
        BY <1>3, <1>4, <4>1
      <4>3. q.of = j.of /\ q \notin Holding(j.uid) /\ q \in box
        BY <1>3, <1>4, <4>2 DEF CopyOK, Holding, Inbox
      <4> QED BY <1>4, <4>1, <4>3
    <3> QED BY <3>1, <3>2
  <2>3. Shrinks
    BY <1>0, <2>1, <2>2 DEF Shrinks, Known
  <2>4. WorldTypes'
    BY <1>0, <1>4, FS_Subset DEF IInv, TypeInv, WorldTypes
  <2>5. World' /\ Follows
    BY <1>0, <2>3, WorldKept, ShrinksFollows DEF IInv, World, Journal, Kept
  <2>6. Gone(j)'
    BY <1>0, <1>2, <1>4, <2>1 DEF Gone, JobOK, Holding
  <2> QED BY <2>3, <2>4, <2>5, <2>6
<1>5. ASSUME j.ns = validity, box' = box \ Holding(j.uid), Goes("saveUID")
      PROVE  IInv'
  <2>1. "saveUID" \in Steps
    BY DEF Steps, Resuming, AtJob
  <2>2. /\ d' \in Daemons /\ d'.pc = "saveUID" /\ d'.ret = d.ret /\ d'.job = j
        /\ d'.batch = d.batch /\ d'.next = d.next /\ d'.from = d.from /\ d'.deferred = d.deferred
    BY <1>1, <1>2, <1>5, <2>1, GoesTo
  <2>3. SameBatch /\ d'.pc \in AtJob
    BY <1>0, <1>4, <1>5, <2>2 DEF SameBatch, SameFile, SameJob, AtJob
  <2>4. CopyOK(d.job)' /\ Gone(d.job)'
    <3>1. CopyOK(j)' /\ Gone(j)'
      BY <1>3, <1>4, <1>5, JobKept
    <3> QED BY <2>2, <3>1 DEF CopyOK, Gone
  <2>5. Holds'
    BY <1>0, <1>2, <1>3, <2>2, <2>4 DEF Holds, AtJob
  <2> QED BY <1>0, <1>4, <1>5, <2>2, <2>3, <2>5, JobMove DEF TypeInv
<1>6. ASSUME j.ns = validity, box' = box \ Holding(j.uid), Fails
      PROVE  IInv'
  BY <1>0, <1>2, <1>4, <1>6, FailsKeeps DEF SameJob
<1>7. ASSUME UNCHANGED box, Fails
      PROVE  IInv'
  <2>1. Shrinks /\ Kept /\ WorldTypes'
    BY <1>0, <1>7, SameMail DEF Kept, IInv, TypeInv, WorldTypes, mail
  <2>2. World' /\ Follows
    BY <1>0, <2>1, WorldKept, ShrinksFollows DEF IInv, World, Journal
  <2> QED BY <1>0, <1>2, <1>7, <2>1, <2>2, FailsKeeps DEF SameJob
<1>8. Arrived \subseteq Arrived'
  <2>1. CASE UNCHANGED box
    BY <1>0, <2>1 DEF Arrived
  <2>2. CASE j.ns = validity /\ box' = box \ Holding(j.uid)
    BY <1>4, <2>2 DEF Shrinks
  <2> QED BY <1>1, <2>1, <2>2 DEF RemoveOriginal, SameSession
<1>9. IInv'
  BY <1>1, <1>5, <1>6, <1>7 DEF RemoveOriginal, SameSession
<1> QED BY <1>8, <1>9

(* The job is saved: its copy is known and its original gone.               *)
LEMMA SavesKeeps ==
  ASSUME IInv, NEW j \in Jobs, SameJob(j, d.job), j.repl = d.job.repl, d.pc \in {"saveUID", "acted"},
         NEW pc \in {"replaced", "act", "record"}, pc # "replaced" => d.pc = "acted", Saves(j, pc),
         UNCHANGED <<mail, owner, store, ghost>>
  PROVE  IInv'
<1> USE DEF mail, owner, store, ghost
<1>0. d.pc \in AtJob
  BY DEF AtJob
<1>1. /\ d \in Daemons /\ file \in Jobs /\ file # NoJob /\ SameJob(j, file) /\ JobOK(j) /\ reserved /\ key = j.fp
      /\ d.pc \in Resuming /\ j # NoJob
  BY <1>0, AtHand, PollerAssumption DEF SameJob, JobOK
<1>2. CopyOK(j) /\ Gone(j) /\ j.repl # 0 /\ (file.repl # 0 => file.repl = j.repl)
  <2>1. CASE d.pc = "saveUID"
    BY <2>1 DEF IInv, DaemonInv, Holds, CopyOK, Gone, SameJob
  <2>2. CASE d.pc = "acted"
    <3>1. file.repl # 0 /\ file.repl = d.job.repl /\ CopyOK(file) /\ Gone(file)
      BY <1>1, <2>2 DEF IInv, DaemonInv, Holds, World, Journal
    <3> QED BY <1>1, <3>1 DEF CopyOK, Gone, SameJob
  <2> QED BY <2>1, <2>2
<1>3. Shrinks /\ Follows /\ Inbox' = Inbox /\ Arrived' = Arrived
  BY SameMail, ShrinksFollows DEF IInv, Inbox, Arrived
<1>4. ASSUME file' = j PROVE WorldTypes' /\ World'
  <2>1. WorldTypes'
    BY <1>4 DEF IInv, TypeInv, WorldTypes
  <2>2. Namespaces'
    BY <1>1, <1>4 DEF IInv, World, Namespaces, SameJob, Live
  <2>3. Uids'
    BY <1>3 DEF IInv, World, Uids, Live
  <2>4. OneInInbox'
    BY <1>1, <1>3, <1>4 DEF IInv, World, OneInInbox, SameJob
  <2>5. Journal'
    <3>1. JobOK(j)' /\ CopyOK(j)' /\ Gone(j)'
      BY <1>1, <1>2, <1>3, JobKept
    <3>2. JobOK(file)' /\ CopyOK(file)' /\ Gone(file)'
      BY <1>4, <3>1 DEF JobOK, CopyOK, Gone
    <3> QED BY <1>1, <1>4, <3>2 DEF Journal
  <2>6. Decisions'
    BY <1>1, <1>2, <1>3, <1>4 DEF IInv, World, Decisions, Live, SameJob
  <2>7. Passed'
    BY <1>3 DEF IInv, World, Passed, Settled
  <2> QED BY <2>1, <2>2, <2>3, <2>4, <2>5, <2>6, <2>7 DEF World
<1>5. ASSUME file' = file PROVE WorldTypes' /\ World'
  BY <1>1, <1>3, <1>5, WorldKept DEF IInv, TypeInv, WorldTypes, Kept
<1>6. CASE file' = j /\ d' = [d EXCEPT !.pc = pc, !.job = j]
  <2>1. pc \in Steps
    BY DEF Steps, Resuming, AtJob
  <2>2. /\ d' \in Daemons /\ d'.pc = pc /\ d'.ret = d.ret /\ d'.job = j
        /\ d'.batch = d.batch /\ d'.next = d.next /\ d'.from = d.from /\ d'.deferred = d.deferred
    BY <1>1, <1>6, <2>1 DEF Daemons
  <2>3. SameBatch /\ d'.pc \in AtJob
    BY <1>1, <1>3, <1>6, <2>2 DEF SameBatch, SameFile, SameJob, AtJob
  <2>4. pc # "replaced" => j.repl \notin processed
    BY DEF IInv, DaemonInv, Holds
  <2>5. Holds'
    BY <1>1, <1>2, <1>6, <2>2, <2>4 DEF Holds, AtJob, SameJob
  <2> QED BY <1>0, <1>4, <1>6, <2>2, <2>3, <2>5, JobMove DEF TypeInv
<1>7. CASE file' \in {j, file} /\ Fails
  BY <1>1, <1>3, <1>4, <1>5, <1>7, FailsKeeps DEF SameJob
<1> QED BY <1>6, <1>7 DEF Saves

LEMMA SaveReplacementUIDKeeps ==
  ASSUME IInv, SaveReplacementUID
  PROVE  IInv'
<1>1. d.pc = "saveUID" /\ d.job \in Jobs
  BY AtHand DEF SaveReplacementUID, At, AtJob
<1>2. PICK j \in Jobs : j = d.job
  BY <1>1
<1>3. Saves(j, "replaced") /\ SameJob(j, d.job) /\ j.repl = d.job.repl /\ UNCHANGED <<mail, owner, store, ghost>>
  BY <1>2 DEF SaveReplacementUID, SameJob
<1> QED BY <1>1, <1>3, SavesKeeps

LEMMA SaveActionKeeps ==
  ASSUME IInv, SaveAction
  PROVE  IInv'
<1>1. d.pc = "acted" /\ d.job \in Jobs
  BY AtHand DEF SaveAction, At, AtJob
<1>2. PICK j : j = [d.job EXCEPT !.done = @ + 1]
  OBVIOUS
<1>3. j \in Jobs /\ SameJob(j, d.job) /\ j.repl = d.job.repl
  BY <1>1, <1>2 DEF Jobs, SameJob
<1>4. PICK pc \in {"act", "record"} : Saves(j, pc)
  BY <1>2 DEF SaveAction
<1> QED BY <1>1, <1>3, <1>4, SavesKeeps DEF SaveAction

LEMMA ReplacedKeeps ==
  ASSUME IInv, Replaced
  PROVE  IInv'
<1> USE DEF mail, owner, store, ghost
<1>0. /\ UNCHANGED <<mail, key, reserved, encrypting, file, checkpoint, processed, decided, unrecorded, adrift, removed>>
      /\ d.pc = "replaced" /\ d.pc \in AtJob
  BY DEF Replaced, At, AtJob
<1>1. /\ d \in Daemons /\ file \in Jobs /\ file # NoJob /\ d.job # NoJob /\ SameJob(d.job, file) /\ reserved /\ d.pc \in Resuming
      /\ file.repl # 0 /\ file.repl = d.job.repl
  BY <1>0, AtHand DEF IInv, DaemonInv, Holds
<1>2. Shrinks /\ Follows /\ Kept /\ WorldTypes' /\ World'
  BY <1>0, <1>1, SameMail, ShrinksFollows, WorldKept DEF Kept, IInv, TypeInv, WorldTypes
<1>3. CASE Fails
  BY <1>0, <1>1, <1>2, <1>3, FailsKeeps DEF SameJob
<1>4. ASSUME NEW pc \in {"finish", "act", "record"}, Goes(pc), pc # "finish" => d.job.repl \notin processed
      PROVE  IInv'
  <2>1. pc \in Steps
    BY DEF Steps, Resuming, AtJob
  <2>2. /\ d' \in Daemons /\ d'.pc = pc /\ d'.ret = d.ret /\ d'.job = d.job
        /\ d'.batch = d.batch /\ d'.next = d.next /\ d'.from = d.from /\ d'.deferred = d.deferred
    BY <1>1, <1>4, <2>1, GoesTo
  <2>3. SameBatch /\ d'.pc \in AtJob
    BY <1>0, <1>1, <1>2, <2>2 DEF SameBatch, SameFile, SameJob, AtJob
  <2>4. Holds'
    BY <1>0, <1>1, <1>4, <2>2 DEF Holds, AtJob, SameJob
  <2> QED BY <1>0, <1>2, <2>2, <2>3, <2>4, JobMove DEF TypeInv
<1>5. CASE d.job.repl \in processed
  BY <1>3, <1>4, <1>5 DEF Replaced
<1>6. CASE d.job.repl \notin processed
  <2>1. CASE d.job.done < Len(d.job.acts)
    BY <1>3, <1>4, <1>6, <2>1 DEF Replaced
  <2>2. CASE ~(d.job.done < Len(d.job.acts))
    BY <1>3, <1>4, <1>6, <2>2 DEF Replaced
  <2> QED BY <2>1, <2>2
<1> QED BY <1>5, <1>6

(* Some mail is changed on the server, or moved out of INBOX.               *)
LEMMA ChangedMail ==
  ASSUME TypeInv, NEW S \in SUBSET box, NEW f \in [S -> Records], box' = (box \ S) \cup {f[r] : r \in S},
         \A r \in S : /\ f[r].of = r.of /\ f[r].wraps = r.wraps /\ f[r].kind = r.kind
                      /\ f[r].folder = "INBOX" => r.folder = "INBOX" /\ f[r].uid = r.uid /\ (f[r].unseen => r.unseen),
         UNCHANGED <<validity, uidNext, removed, adrift>>
  PROVE  Shrinks /\ IsFiniteSet(box') /\ box' \subseteq Records
<1>1. \A r \in Inbox' : Known(r)
  <2> SUFFICES ASSUME NEW r \in box', r.folder = "INBOX" PROVE Known(r)
    BY DEF Inbox
  <2>1. CASE r \in box
    BY <2>1 DEF Known, Inbox
  <2>2. CASE r \notin box
    <3>1. PICK q \in S : r = f[q]
      BY <2>2
    <3>2. q \in Inbox /\ q.uid = r.uid /\ q.of = r.of /\ q.wraps = r.wraps /\ q.kind = r.kind /\ (r.unseen => q.unseen)
      BY <3>1 DEF Inbox
    <3> QED BY <3>2 DEF Known
  <2> QED BY <2>1, <2>2
<1>2. Arrived \subseteq Arrived'
  <2> SUFFICES ASSUME NEW r \in box PROVE \E q \in box' : q.of = r.of
    BY DEF Arrived
  <2>1. CASE r \in S
    BY <2>1
  <2>2. CASE r \notin S
    BY <2>2
  <2> QED BY <2>1, <2>2
<1>3. IsFiniteSet(box')
  <2>1. IsFiniteSet(box) /\ IsFiniteSet(S) /\ IsFiniteSet(box \ S)
    BY FS_Subset DEF TypeInv, WorldTypes
  <2> DEFINE I == {f[r] : r \in S}
             g == [r \in S |-> f[r]]
  <2>2. g \in Surjection(S, I)
    BY DEF Surjection
  <2>3. IsFiniteSet(I)
    BY <2>1, <2>2, FS_Surjection
  <2> QED BY <2>1, <2>3, FS_Union
<1>4. box' \subseteq Records
  BY DEF TypeInv, WorldTypes
<1> QED BY <1>1, <1>2, <1>3, <1>4 DEF Shrinks

LEMMA ApplyIncomingActionKeeps ==
  ASSUME IInv, ApplyIncomingAction
  PROVE  IInv' /\ Arrived \subseteq Arrived'
<1> USE DEF owner, store, ghost
<1>0. /\ UNCHANGED <<validity, uidNext, key, reserved, encrypting, file, checkpoint, processed, decided, unrecorded, adrift, removed>>
      /\ d.pc = "act" /\ d.pc \in AtJob
  BY DEF ApplyIncomingAction, At, AtJob
<1>1. /\ d \in Daemons /\ file \in Jobs /\ file # NoJob /\ d.job # NoJob /\ SameJob(d.job, file) /\ reserved /\ d.pc \in Resuming
      /\ file.repl # 0 /\ file.repl = d.job.repl /\ d.job.repl \notin processed
  BY <1>0, AtHand DEF IInv, DaemonInv, Holds
<1> DEFINE copy == CopyOf(d.job) \cap Holding(d.job.repl)
           act(r) == Acted(d.job.acts[d.job.done + 1], r)
           acted == {act(r) : r \in copy}
           f == [r \in copy |-> act(r)]
<1>2. ASSUME box' = (box \ copy) \cup acted
      PROVE  Shrinks /\ IsFiniteSet(box') /\ box' \subseteq Records
  <2>1. copy \in SUBSET box /\ box \subseteq Records
    BY DEF CopyOf, IInv, TypeInv, WorldTypes
  <2>2. \A r \in Records : act(r) \in Records
    BY DEF Records, Acted
  <2>3. f \in [copy -> Records]
    BY <2>1, <2>2
  <2>4. \A r \in Records :
            /\ act(r).of = r.of /\ act(r).wraps = r.wraps /\ act(r).kind = r.kind
            /\ act(r).folder = "INBOX" => r.folder = "INBOX" /\ act(r).uid = r.uid /\ (act(r).unseen => r.unseen)
    BY DEF Records, Acted
  <2>5. acted = {f[r] : r \in copy}
    OBVIOUS
  <2>6. \A r \in copy : f[r] = act(r)
    OBVIOUS
  <2> HIDE DEF copy, f, act, acted
  <2>7. box' = (box \ copy) \cup {f[r] : r \in copy}
    BY <1>2, <2>5
  <2>8. \A r \in copy : r \in Records /\ f[r] = act(r)
    BY <2>1, <2>6
  <2>9. \A r \in copy :
            /\ f[r].of = r.of /\ f[r].wraps = r.wraps /\ f[r].kind = r.kind
            /\ f[r].folder = "INBOX" => r.folder = "INBOX" /\ f[r].uid = r.uid /\ (f[r].unseen => r.unseen)
    BY <2>4, <2>8
  <2>10. TypeInv /\ UNCHANGED <<validity, uidNext, removed, adrift>>
    BY <1>0 DEF IInv
  <2> QED BY <2>1, <2>3, <2>7, <2>9, <2>10, ChangedMail
<1>3. ASSUME UNCHANGED box
      PROVE  Shrinks /\ IsFiniteSet(box') /\ box' \subseteq Records
  BY <1>0, <1>3, SameMail DEF mail, IInv, TypeInv, WorldTypes
<1>4. Shrinks /\ IsFiniteSet(box') /\ box' \subseteq Records
  <2>1. box' = (box \ copy) \cup acted \/ UNCHANGED box
    BY DEF ApplyIncomingAction
  <2> QED BY <1>2, <1>3, <2>1
<1>5. Follows /\ Kept /\ WorldTypes' /\ World'
  BY <1>0, <1>1, <1>4, ShrinksFollows, WorldKept DEF Kept, IInv, TypeInv, WorldTypes
<1>6. ASSUME Fails PROVE IInv'
  BY <1>0, <1>1, <1>5, <1>6, FailsKeeps DEF SameJob
<1>7. ASSUME Goes("acted") PROVE IInv'
  <2>1. "acted" \in Steps
    BY DEF Steps, Resuming, AtJob
  <2>2. /\ d' \in Daemons /\ d'.pc = "acted" /\ d'.ret = d.ret /\ d'.job = d.job
        /\ d'.batch = d.batch /\ d'.next = d.next /\ d'.from = d.from /\ d'.deferred = d.deferred
    BY <1>1, <1>7, <2>1, GoesTo
  <2>3. SameBatch /\ d'.pc \in AtJob
    BY <1>0, <1>1, <1>5, <2>2 DEF SameBatch, SameFile, SameJob, AtJob
  <2>4. Holds'
    BY <1>0, <1>1, <2>2 DEF Holds, AtJob, SameJob
  <2> QED BY <1>0, <1>5, <2>2, <2>3, <2>4, JobMove DEF TypeInv
<1>8. IInv'
  BY <1>6, <1>7 DEF ApplyIncomingAction
<1> QED BY <1>4, <1>8 DEF Shrinks

LEMMA RecordReplacementDecisionKeeps ==
  ASSUME IInv, RecordReplacementDecision
  PROVE  IInv'
<1> USE DEF mail, owner, ghost
<1>0. /\ UNCHANGED <<mail, key, reserved, encrypting, file, checkpoint, unrecorded, adrift, removed>>
      /\ d.pc = "record" /\ d.pc \in AtJob
  BY DEF RecordReplacementDecision, At, AtJob
<1>1. PICK j \in Jobs : j = d.job
  BY <1>0, AtHand
<1>2. /\ d \in Daemons /\ file \in Jobs /\ file # NoJob /\ j # NoJob /\ SameJob(j, file) /\ reserved /\ d.pc \in Resuming
      /\ file.repl # 0 /\ file.repl = j.repl /\ j.repl \notin processed /\ JobOK(j) /\ CopyOK(file) /\ Gone(file)
  BY <1>0, <1>1, AtHand DEF IInv, DaemonInv, Holds, World, Journal
<1>3. CopyOK(j) /\ Gone(j)
  BY <1>2 DEF CopyOK, Gone, SameJob
<1>4. Shrinks /\ Follows /\ Inbox' = Inbox /\ Arrived' = Arrived
  BY <1>0, SameMail, ShrinksFollows DEF IInv, Inbox, Arrived
<1>5. CASE Fails /\ UNCHANGED <<processed, decided>>
  <2>1. Kept /\ WorldTypes' /\ World'
    BY <1>0, <1>2, <1>4, <1>5, WorldKept DEF Kept, IInv, TypeInv, WorldTypes
  <2> QED BY <1>0, <1>2, <1>4, <1>5, <2>1, FailsKeeps DEF SameJob
<1>6. CASE Goes("finish") /\ processed' = processed \cup {j.uid, j.repl} /\ decided' = Counted(j.ns, j.of)
  <2>1. Live => j.ns = validity
    BY <1>2 DEF IInv, World, Namespaces, Live, SameJob, TypeInv, WorldTypes, Points, Jobs
  <2>2. decided \in [Msgs -> Nat] /\ j.of \in Msgs /\ j.uid \in Nat /\ j.repl \in Nat
    BY DEF IInv, TypeInv, WorldTypes, Jobs
  <2>3. decided' = IF Live THEN [decided EXCEPT ![j.of] = @ + 1] ELSE decided
    BY <1>6, <2>1 DEF Counted, Live
  <2>4. /\ decided' \in [Msgs -> Nat]
        /\ \A m \in Msgs : m # j.of => decided'[m] = decided[m]
        /\ \A m \in Msgs : decided[m] <= decided'[m]
        /\ Live => decided'[j.of] > 0
    BY <2>2, <2>3
  <2>5. Live /\ j.of \notin removed => decided[j.of] = 0
    BY <1>2, <2>2 DEF IInv, World, Decisions, SameJob
  <2>6. WorldTypes'
    BY <1>0, <1>6, <2>2, <2>4 DEF IInv, TypeInv, WorldTypes
  <2>7. Namespaces' /\ OneInInbox'
    BY <1>0, <1>4 DEF IInv, World, Namespaces, OneInInbox, Live
  <2>8. Uids'
    <3>1. Live => j.uid < uidNext /\ j.repl < uidNext
      BY <1>2, <1>3, <2>1 DEF JobOK, CopyOK
    <3> QED BY <1>0, <1>4, <1>6, <3>1 DEF IInv, World, Uids, Live
  <2>9. Journal'
    <3>1. JobOK(file)' /\ CopyOK(file)' /\ Gone(file)'
      BY <1>0, <1>2, <1>4 DEF JobOK, CopyOK, Gone, SameJob
    <3> QED BY <1>0, <1>2, <3>1 DEF IInv, World, Journal
  <2>10. Decisions'
    <3>0. Live' = Live /\ \A r \in Inbox : r.of \in Msgs
      BY <1>0 DEF Live, Inbox, IInv, TypeInv, WorldTypes, Records
    <3>1. ~Live => \A m \in Msgs : decided'[m] = 0
      BY <2>3 DEF IInv, World, Decisions
    <3>2. \A m \in Msgs : decided'[m] > 0 => m \in Arrived
      BY <1>2, <2>4 DEF IInv, World, Decisions, JobOK
    <3>3. \A m \in Msgs \ removed : decided'[m] <= 1
      BY <2>2, <2>3, <2>4, <2>5 DEF IInv, World, Decisions
    <3>4. Live => \A r \in Inbox : r.uid \in processed' => decided'[r.of] > 0
      <4> SUFFICES ASSUME Live, NEW r \in Inbox, r.uid \in processed' PROVE decided'[r.of] > 0
        OBVIOUS
      <4>1. CASE r.uid \in processed
        BY <2>2, <2>4, <3>0, <4>1 DEF IInv, World, Decisions
      <4>2. CASE r.uid \in {j.uid, j.repl}
        BY <1>2, <1>3, <2>1, <2>4, <4>2 DEF JobOK, CopyOK
      <4> QED BY <1>6, <4>1, <4>2
    <3>5. Live => \A r \in Inbox : r.of \notin removed /\ decided'[r.of] > 0 => r.uid \in processed'
      <4> SUFFICES ASSUME Live, NEW r \in Inbox, r.of \notin removed, decided'[r.of] > 0 PROVE r.uid \in processed'
        OBVIOUS
      <4>1. CASE r.of = j.of
        BY <1>3, <1>6, <2>1, <4>1 DEF CopyOK, Gone
      <4>2. CASE r.of # j.of
        BY <1>6, <2>4, <3>0, <4>2 DEF IInv, World, Decisions
      <4> QED BY <4>1, <4>2
    <3> QED BY <1>0, <1>2, <1>4, <1>6, <3>0, <3>1, <3>2, <3>3, <3>4, <3>5 DEF Decisions
  <2>11. Passed'
    <3>1. \A r \in Inbox : Settled(r) => Settled(r)'
      BY <1>0, <2>2, <2>4 DEF Settled, Inbox, IInv, TypeInv, WorldTypes, Records
    <3> QED BY <1>0, <1>4, <3>1 DEF IInv, World, Passed
  <2>12. World'
    BY <2>7, <2>8, <2>9, <2>10, <2>11 DEF World
  <2>13. "finish" \in Steps
    BY DEF Steps, Resuming, AtJob
  <2>14. /\ d' \in Daemons /\ d'.pc = "finish" /\ d'.ret = d.ret /\ d'.job = d.job
         /\ d'.batch = d.batch /\ d'.next = d.next /\ d'.from = d.from /\ d'.deferred = d.deferred
    BY <1>2, <1>6, <2>13, GoesTo
  <2>15. /\ MsgJob' <=> MsgJob
         /\ Batching' <=> Batching
         /\ Current' = Current /\ (Fresh' <=> Fresh)
         /\ d'.pc # "release" /\ d'.pc \in AtJob /\ d'.pc \notin AtMail
    BY <1>0, <2>14 DEF MsgJob, Batching, Current, Fresh, Resuming, AtJob, AtMail
  <2>16. Holds' /\ Prepared'
    BY <1>0, <1>1, <1>2, <2>14 DEF Holds, Prepared, AtJob, SameJob
  <2>17. BatchShape'
    <3>1. BatchShape
      BY DEF IInv, DaemonInv
    <3> QED BY <1>0, <1>4, <2>14, <2>15, <3>1 DEF BatchShape, Live
  <2>18. AboutCurrent'
    BY <1>0, <2>14, <2>15 DEF IInv, DaemonInv, AboutCurrent
  <2>19. BatchMail'
    <3> SUFFICES ASSUME Batching, Fresh PROVE BatchMail'
      BY <2>15 DEF BatchMail
    <3>1. BatchMail
      BY DEF IInv, DaemonInv
    <3>2. \A e \in d.batch : e.of \in Msgs
      BY <1>2 DEF Daemons, Listed
    <3>3. \A e \in d.batch : e.uid \notin processed' /\ e.of \notin removed => decided'[e.of] = 0
      <4> SUFFICES ASSUME NEW e \in d.batch, e.uid \notin processed', e.of \notin removed PROVE decided'[e.of] = 0
        OBVIOUS
      <4>1. CASE e.of = j.of
        <5>1. MsgJob /\ e = Current
          BY <1>2, <3>1, <4>1 DEF BatchMail, SameJob
        <5>2. e.uid = j.uid
          BY <1>0, <1>2, <5>1 DEF IInv, DaemonInv, AboutCurrent, SameJob
        <5> QED BY <1>6, <5>2
      <4>2. CASE e.of # j.of
        BY <1>6, <2>4, <3>1, <3>2, <4>2 DEF BatchMail
      <4> QED BY <4>1, <4>2
    <3> QED BY <1>0, <1>4, <2>14, <2>15, <3>1, <3>3 DEF BatchMail
  <2>20. Covered'
    <3>1. \A r \in Inbox : Settled(r) => Settled(r)'
      BY <1>0, <2>2, <2>4 DEF Settled, Inbox, IInv, TypeInv, WorldTypes, Records
    <3> QED BY <1>0, <1>4, <2>14, <2>15, <3>1 DEF IInv, DaemonInv, Covered
  <2> QED BY <2>6, <2>12, <2>14, <2>16, <2>17, <2>18, <2>19, <2>20 DEF IInv, TypeInv, DaemonInv
<1> QED BY <1>1, <1>5, <1>6 DEF RecordReplacementDecision, ReplacementMarks

LEMMA RemoveJournalKeeps ==
  ASSUME IInv, RemoveJournal
  PROVE  IInv'
<1> USE DEF mail, owner, store, ghost
<1>0. /\ UNCHANGED <<mail, key, reserved, encrypting, checkpoint, processed, decided, unrecorded, adrift, removed>>
      /\ d.pc = "finish" /\ d.pc \in AtJob
  BY DEF RemoveJournal, At, AtJob
<1>1. /\ d \in Daemons /\ file \in Jobs /\ file # NoJob /\ reserved /\ d.pc \in Resuming /\ Gone(file)
  BY <1>0, AtHand DEF IInv, DaemonInv, Holds, World, Journal
<1>2. Shrinks /\ Follows /\ Inbox' = Inbox /\ Arrived' = Arrived
  BY <1>0, SameMail, ShrinksFollows DEF IInv, Inbox, Arrived
<1>3. ASSUME file' = NoJob PROVE WorldTypes' /\ World'
  <2>1. WorldTypes'
    BY <1>0, <1>3 DEF IInv, TypeInv, WorldTypes
  <2>2. Namespaces' /\ Uids' /\ Journal' /\ Passed'
    BY <1>0, <1>2, <1>3 DEF IInv, World, Namespaces, Uids, Journal, Passed, Live, Settled
  <2>3. OneInInbox'
    BY <1>0, <1>1, <1>2, <1>3 DEF IInv, World, OneInInbox, Gone
  <2>4. Decisions'
    BY <1>0, <1>2, <1>3 DEF IInv, World, Decisions, Live
  <2> QED BY <2>1, <2>2, <2>3, <2>4 DEF World
<1>4. CASE Fails
  <2>1. file' = NoJob \/ file' = file
    BY DEF RemoveJournal
  <2>2. WorldTypes' /\ World'
    BY <1>0, <1>1, <1>2, <1>3, <2>1, WorldKept DEF IInv, TypeInv, WorldTypes, Kept
  <2> QED BY <1>0, <1>1, <1>2, <1>4, <2>1, <2>2, FailsKeeps DEF SameJob
<1>5. CASE file' = NoJob /\ Goes("release")
  <2>1. "release" \in Steps
    BY DEF Steps, Resuming
  <2>2. /\ d' \in Daemons /\ d'.pc = "release" /\ d'.ret = d.ret
        /\ d'.batch = d.batch /\ d'.next = d.next /\ d'.from = d.from /\ d'.deferred = d.deferred
    BY <1>1, <1>5, <2>1, GoesTo
  <2>3. /\ MsgJob' <=> MsgJob
        /\ Batching' <=> Batching
        /\ Current' = Current /\ (Fresh' <=> Fresh)
        /\ d'.pc \notin AtMail /\ d'.pc \notin AtJob
        /\ Batching => MsgJob
    BY <1>0, <2>2 DEF MsgJob, Batching, Current, Fresh, Resuming, AtJob, AtMail
  <2>4. Holds' /\ Prepared'
    BY <1>5, <2>2, <2>3 DEF Holds, Prepared
  <2>5. BatchShape'
    <3>1. BatchShape
      BY DEF IInv, DaemonInv
    <3> QED BY <1>0, <1>2, <1>5, <2>2, <2>3, <3>1 DEF BatchShape, Live
  <2>6. AboutCurrent'
    <3> SUFFICES ASSUME MsgJob, Fresh, NEW r \in Inbox PROVE r.uid # Current.uid
      BY <1>2, <2>2, <2>3 DEF AboutCurrent, AtMail
    <3>1. file.uid = Current.uid
      BY <1>0 DEF IInv, DaemonInv, AboutCurrent
    <3>2. d.next.ns <= file.ns /\ file.ns <= validity
      BY <1>1 DEF IInv, DaemonInv, BatchShape, World, Namespaces, Batching, TypeInv, WorldTypes
    <3>3. file.ns = validity
      BY <1>1, <3>2 DEF Fresh, IInv, TypeInv, WorldTypes, Jobs
    <3> QED BY <1>1, <3>1, <3>3 DEF Gone
  <2>7. BatchMail'
    <3> SUFFICES ASSUME Batching, Fresh PROVE BatchMail'
      BY <2>3 DEF BatchMail
    <3>1. BatchMail
      BY DEF IInv, DaemonInv
    <3> QED BY <1>0, <1>1, <1>2, <1>5, <2>2, <2>3, <3>1 DEF BatchMail
  <2>8. Covered'
    BY <1>0, <1>2, <2>2, <2>3 DEF IInv, DaemonInv, Covered, Settled
  <2> QED BY <1>3, <1>5, <2>2, <2>4, <2>5, <2>6, <2>7, <2>8 DEF IInv, TypeInv, DaemonInv
<1> QED BY <1>4, <1>5 DEF RemoveJournal

LEMMA ReleaseKeeps ==
  ASSUME IInv, ReleaseIncomingEncryption
  PROVE  IInv'
<1> USE DEF mail, store, ghost
<1>0. /\ UNCHANGED <<mail, key, encrypting, file, checkpoint, processed, decided, unrecorded, adrift, removed>>
      /\ d.pc = "release" /\ file = NoJob /\ d.pc \in Resuming
  BY DEF ReleaseIncomingEncryption, At, Resuming, IInv, DaemonInv, Holds
<1>1. reserved' \in BOOLEAN
  BY DEF ReleaseIncomingEncryption, IInv, TypeInv, WorldTypes
<1>2. Shrinks /\ Follows /\ Kept /\ WorldTypes'
  BY <1>0, <1>1, SameMail, ShrinksFollows DEF Kept, IInv, TypeInv, WorldTypes
<1>3. World'
  BY <1>0, <1>2, WorldKept DEF IInv
<1>4. CASE Returns
  BY <1>0, <1>2, <1>3, <1>4, ReturnsKeeps
<1>5. CASE Fails
  BY <1>0, <1>2, <1>3, <1>5, FailsKeeps
<1> QED BY <1>4, <1>5 DEF ReleaseIncomingEncryption

-----------------------------------------------------------------------------
(* The batch.                                                               *)

(* The mail at hand leaves the batch and no replacement is under way.       *)
LEMMA PopAtMail ==
  ASSUME IInv, TypeInv', World', Shrinks, UNCHANGED <<checkpoint, file>>, d.pc \in AtMail \cup {"next"}, d.batch # {},
         d' = Popped \/ d' = [Popped EXCEPT !.deferred = @ \cup {Current.uid}],
         processed \subseteq processed', unrecorded \subseteq unrecorded',
         \A m \in Msgs : decided[m] <= decided'[m],
         \A m \in Msgs : decided[m] # decided'[m] => m = Current.of,
         Fresh /\ ~adrift =>
             \A r \in Inbox' : r.unseen /\ r.uid = Current.uid => Settled(r)' \/ r.uid \in d'.deferred
  PROVE  IInv'
<1>1. Batching /\ ~MsgJob /\ d \in Daemons /\ Follows
  BY ShrinksFollows DEF Batching, MsgJob, AtMail, Resuming, AtJob, IInv, TypeInv
<1>2. PICK c \in d.batch : c = Current
  BY CurrentIn DEF IInv
<1>3. /\ d'.pc = "next" /\ d'.batch = d.batch \ {c} /\ d'.next = d.next /\ d'.from = d.from
      /\ d.deferred \subseteq d'.deferred
  <2>1. PICK p : p = Popped
    OBVIOUS
  <2>2. /\ p \in [pc : Steps, ret : {"tick", "msg"}, pend : BOOLEAN, enc : BOOLEAN, batch : SUBSET Listed,
                  from : Points, next : Points, deferred : SUBSET Nat, job : Jobs \cup {NoJob}]
        /\ p.pc = "next" /\ p.batch = d.batch \ {c} /\ p.next = d.next /\ p.from = d.from /\ p.deferred = d.deferred
    BY <1>1, <1>2, <2>1 DEF Popped, Daemons, Steps
  <2>3. CASE d' = p
    BY <2>2, <2>3
  <2>4. CASE d' = [p EXCEPT !.deferred = @ \cup {Current.uid}]
    BY <2>2, <2>4
  <2> QED BY <2>1, <2>3, <2>4
<1>4. \A e \in d.batch \ {c} : e.of \in Msgs /\ (e.of \notin removed' => e.of # c.of)
  BY <1>1, <1>2 DEF Daemons, Listed, IInv, DaemonInv, BatchShape, Shrinks
<1>5. Fresh => \A e \in d.batch \ {c} : e.of \notin removed' => decided'[e.of] = decided[e.of]
  BY <1>2, <1>4
<1>6. file' # NoJob => /\ d.next.ns <= file'.ns
                       /\ Fresh => \A e \in d.batch \ {c} : e.of \notin removed' => e.of # file'.of
  BY <1>1 DEF IInv, DaemonInv, BatchShape, BatchMail, Shrinks
<1> QED BY <1>1, <1>2, <1>3, <1>5, <1>6, PopMove

(* The store is of the namespace of the batch.                              *)
LEMMA BatchLive ==
  ASSUME IInv, Batching
  PROVE  Live <=> Fresh /\ ~adrift
BY DEF IInv, DaemonInv, BatchShape, World, Namespaces, Live, Fresh, TypeInv, WorldTypes, Points, Daemons, NoNamespace

(* The mail at hand is marked and its decision counted.                     *)
LEMMA MarkedWorld ==
  ASSUME IInv, d.pc \in AtMail, processed' = processed \cup {Current.uid},
         decided' = Counted(d.next.ns, Current.of),
         UNCHANGED <<mail, owner, file, checkpoint, removed, unrecorded, adrift>>
  PROVE  /\ WorldTypes' /\ World'
         /\ \A m \in Msgs : decided[m] <= decided'[m]
         /\ \A m \in Msgs : decided[m] # decided'[m] => m = Current.of
         /\ Fresh /\ ~adrift => \A r \in Inbox' : r.uid = Current.uid => Settled(r)'
<1> USE DEF mail, owner
<1>1. Batching /\ ~MsgJob /\ d \in Daemons /\ d.pc # "release"
  BY DEF Batching, MsgJob, AtMail, Resuming, AtJob, IInv, TypeInv
<1>2. d.batch # {}
  BY DEF IInv, DaemonInv, BatchShape
<1>3. PICK c \in d.batch : c = Current /\ c.uid \in Nat /\ c.of \in Msgs /\ c.uid \notin processed
  BY <1>1, <1>2, CurrentIn DEF IInv, Daemons, Listed, DaemonInv, AboutCurrent
<1>4. Inbox' = Inbox /\ Arrived' = Arrived /\ Live' = Live /\ decided \in [Msgs -> Nat]
  BY DEF Inbox, Arrived, Live, IInv, TypeInv, WorldTypes
<1>5. decided' = IF Live THEN [decided EXCEPT ![c.of] = @ + 1] ELSE decided
  BY <1>1, <1>3, BatchLive DEF Counted, Live, Fresh
<1>6. /\ decided' \in [Msgs -> Nat]
      /\ \A m \in Msgs : m # c.of => decided'[m] = decided[m]
      /\ \A m \in Msgs : decided[m] <= decided'[m]
      /\ Live => decided'[c.of] > 0
  BY <1>3, <1>4, <1>5
<1>7. ASSUME Live
      PROVE  /\ c.uid < uidNext
             /\ \A r \in Inbox : r.uid = c.uid => r.of = c.of
             /\ c.of \notin removed =>
                   /\ decided[c.of] = 0 /\ (file # NoJob => file.of # c.of)
                   /\ \A r \in Inbox : r.of = c.of => r.uid = c.uid
  <2>1. BatchMail /\ Fresh
    BY <1>1, <1>7, BatchLive DEF IInv, DaemonInv
  <2>2. c.uid <= d.next.uid /\ d.next.uid < uidNext /\ d.next.uid \in Nat /\ uidNext \in Nat
    BY <1>1, <2>1 DEF BatchMail, Daemons, Points, IInv, TypeInv, WorldTypes
  <2>3. c.uid < uidNext
    BY <1>3, <2>2
  <2> QED BY <1>1, <1>3, <2>1, <2>3 DEF BatchMail
<1>8. WorldTypes'
  BY <1>3, <1>6 DEF IInv, TypeInv, WorldTypes
<1>9. Namespaces' /\ OneInInbox'
  BY <1>4 DEF IInv, World, Namespaces, OneInInbox, Live
<1>10. Uids'
  BY <1>3, <1>4, <1>7 DEF IInv, World, Uids
<1>11. Journal'
  <2>1. file # NoJob => /\ JobOK(file) => JobOK(file)'
                        /\ CopyOK(file) => CopyOK(file)'
                        /\ Gone(file) => Gone(file)'
    BY <1>4 DEF JobOK, CopyOK, Gone
  <2> QED BY <2>1 DEF IInv, World, Journal
<1>12. \A r \in Inbox : r.of \in Msgs
  BY DEF Inbox, IInv, TypeInv, WorldTypes, Records
<1>13. Decisions'
  <2>1. ~Live => \A m \in Msgs : decided'[m] = 0
    BY <1>5 DEF IInv, World, Decisions
  <2>2. \A m \in Msgs : decided'[m] > 0 => m \in Arrived
    BY <1>3, <1>6 DEF IInv, World, Decisions, DaemonInv, BatchShape
  <2>3. \A m \in Msgs \ removed : decided'[m] <= 1
    BY <1>3, <1>4, <1>5, <1>7 DEF IInv, World, Decisions
  <2>4. Live => \A r \in Inbox : r.uid \in processed' => decided'[r.of] > 0
    <3> SUFFICES ASSUME Live, NEW r \in Inbox, r.uid \in processed' PROVE decided'[r.of] > 0
      OBVIOUS
    <3>1. CASE r.uid \in processed
      BY <1>4, <1>6, <1>12, <3>1 DEF IInv, World, Decisions
    <3>2. CASE r.uid = c.uid
      BY <1>6, <1>7, <3>2
    <3> QED BY <1>3, <3>1, <3>2
  <2>5. Live => \A r \in Inbox : r.of \notin removed /\ decided'[r.of] > 0 => r.uid \in processed'
    BY <1>3, <1>6, <1>7, <1>12 DEF IInv, World, Decisions
  <2>6. Live /\ file # NoJob /\ file.of \notin removed /\ decided'[file.of] > 0 => file.repl # 0 /\ file.repl \in processed'
    <3> SUFFICES ASSUME Live, file # NoJob, file.of \notin removed, decided'[file.of] > 0
                 PROVE  file.repl # 0 /\ file.repl \in processed'
      OBVIOUS
    <3>1. file.of \in Msgs
      BY DEF IInv, TypeInv, WorldTypes, Jobs
    <3>2. file.of # c.of
      BY <1>7
    <3>3. decided[file.of] > 0
      BY <1>6, <3>1, <3>2
    <3> QED BY <3>3 DEF IInv, World, Decisions
  <2> QED BY <1>4, <2>1, <2>2, <2>3, <2>4, <2>5, <2>6 DEF Decisions
<1>14. Passed'
  <2>1. \A r \in Inbox : Settled(r) => Settled(r)'
    BY <1>4, <1>6, <1>12 DEF Settled
  <2> QED BY <1>4, <2>1 DEF IInv, World, Passed
<1>15. Fresh /\ ~adrift => \A r \in Inbox' : r.uid = c.uid => Settled(r)'
  BY <1>1, <1>4, <1>6, <1>7, BatchLive DEF Settled
<1> QED BY <1>3, <1>6, <1>8, <1>9, <1>10, <1>11, <1>13, <1>14, <1>15 DEF World

LEMMA PoppedType ==
  ASSUME IInv, d.batch # {}, Done \/ Deferred
  PROVE  /\ d' \in Daemons
         /\ d' = Popped \/ d' = [Popped EXCEPT !.deferred = @ \cup {Current.uid}]
         /\ Deferred => Current.uid \in d'.deferred
         /\ d.deferred \subseteq d'.deferred
<1>1. d \in Daemons /\ Current \in d.batch
  BY CurrentIn DEF IInv, TypeInv
<1>2. PICK n \in Nat : n = Current.uid
  BY <1>1 DEF Daemons, Listed
<1>3. PICK p : p = Popped
  OBVIOUS
<1>4. p \in Daemons /\ p.deferred = d.deferred
  BY <1>1, <1>3 DEF Popped, Daemons, Steps
<1>5. CASE Done
  <2>1. d' = p
    BY <1>3, <1>5 DEF Done
  <2>2. Deferred => Current.uid \in d'.deferred
    BY <1>2, <1>3, <1>4 DEF Deferred, Daemons
  <2> QED BY <1>3, <1>4, <2>1, <2>2
<1>6. CASE Deferred
  <2>1. d' = [p EXCEPT !.deferred = @ \cup {n}]
    BY <1>2, <1>3, <1>6 DEF Deferred
  <2>2. d' \in Daemons /\ n \in d'.deferred /\ d.deferred \subseteq d'.deferred
    BY <1>4, <2>1 DEF Daemons
  <2> QED BY <1>2, <1>3, <2>1, <2>2
<1> QED BY <1>5, <1>6

(* The mail at hand is left for later and nothing is written.               *)
LEMMA DeferredKeeps ==
  ASSUME IInv, Deferred, UNCHANGED <<mail, key, encrypting, file, checkpoint, processed, removed, unrecorded, decided, adrift>>,
         reserved' \in BOOLEAN, file # NoJob => reserved', d.pc \in AtMail \cup {"next"}, d.batch # {}
  PROVE  IInv'
<1>1. Shrinks /\ Kept /\ WorldTypes'
  BY SameMail DEF Kept, IInv, TypeInv, WorldTypes, mail
<1>2. World'
  BY <1>1, WorldKept DEF IInv
<1>3. /\ d' \in Daemons
      /\ d' = Popped \/ d' = [Popped EXCEPT !.deferred = @ \cup {Current.uid}]
      /\ Current.uid \in d'.deferred
  BY PoppedType
<1>4. \A m \in Msgs : decided[m] <= decided'[m]
  BY DEF IInv, TypeInv, WorldTypes
<1> QED BY <1>1, <1>2, <1>3, <1>4, PopAtMail DEF TypeInv

(* The daemon goes on with the mail at hand.                                *)
LEMMA GoesOnKeeps ==
  ASSUME IInv, NEW pc \in {"handle", "label", "decide", "defer", "retire"}, Goes(pc), Shrinks,
         IsFiniteSet(box'), box' \subseteq Records, d.pc \in AtMail \cup {"next"}, d.batch # {}, Current.uid \notin processed,
         UNCHANGED <<key, reserved, encrypting, file, checkpoint, processed, decided, unrecorded>>
  PROVE  IInv'
<1>1. Kept /\ WorldTypes' /\ Follows
  BY ShrinksFollows DEF Kept, Shrinks, IInv, TypeInv, WorldTypes
<1>2. World'
  BY <1>1, WorldKept DEF IInv, World, Journal
<1>3. pc \in Steps
  BY DEF Steps, AtMail
<1>4. /\ d' \in Daemons /\ d'.pc = pc /\ d'.ret = d.ret
      /\ d'.batch = d.batch /\ d'.next = d.next /\ d'.from = d.from /\ d'.deferred = d.deferred
  BY <1>3, GoesTo DEF IInv, TypeInv
<1>5. SameBatch
  BY <1>1, <1>4 DEF SameBatch, SameFile, SameJob
<1> QED BY <1>1, <1>2, <1>4, <1>5, MailMove DEF TypeInv

(* There is mail at hand, and it is not processed.                          *)
LEMMA MailAtHand ==
  ASSUME IInv, d.pc \in AtMail
  PROVE  /\ d.batch # {} /\ Current \in d.batch /\ d \in Daemons
         /\ Current.uid \notin processed
<1>1. d.batch # {} /\ d \in Daemons
  BY DEF IInv, TypeInv, DaemonInv, BatchShape
<1>2. Current.uid \notin processed
  BY DEF IInv, DaemonInv, AboutCurrent
<1> QED BY <1>1, <1>2, CurrentIn DEF IInv

LEMMA LookKeeps ==
  ASSUME IInv, Look
  PROVE  IInv'
<1> USE DEF mail, owner, store, ghost
<1>0. /\ UNCHANGED <<mail, key, reserved, encrypting, file, checkpoint, processed, decided, unrecorded, adrift, removed>>
      /\ d.pc = "next" /\ d.batch # {} /\ d.pc \in AtMail \cup {"next"} /\ d \in Daemons /\ reserved \in BOOLEAN
  BY DEF Look, At, IInv, TypeInv, WorldTypes
<1>1. Shrinks /\ Kept /\ WorldTypes' /\ Inbox' = Inbox /\ Arrived' = Arrived
  BY <1>0, SameMail DEF Kept, IInv, TypeInv, WorldTypes, Inbox, Arrived
<1>2. World' /\ (file # NoJob => reserved)
  BY <1>0, <1>1, WorldKept DEF IInv, World, Journal
<1>3. CASE Deferred
  BY <1>0, <1>2, <1>3, DeferredKeeps
<1>4. CASE Done /\ Current.uid \in processed
  <2>1. d' \in Daemons /\ d' = Popped
    BY <1>0, <1>4, PoppedType DEF Done
  <2>2. \A m \in Msgs : decided[m] <= decided'[m]
    BY <1>0 DEF IInv, TypeInv, WorldTypes
  <2>3. Fresh /\ ~adrift => \A r \in Inbox' : r.uid = Current.uid => Settled(r)'
    <3>1. Fresh /\ ~adrift => Live
      BY <1>0, BatchLive DEF Batching
    <3> QED BY <1>0, <1>1, <1>4, <3>1 DEF Settled, IInv, World, Decisions
  <2> QED BY <1>0, <1>1, <1>2, <2>1, <2>2, <2>3, PopAtMail DEF TypeInv
<1>5. CASE Goes("handle") /\ Current.uid \notin processed
  BY <1>0, <1>1, <1>5, GoesOnKeeps DEF WorldTypes
<1>6. CASE d' = [d EXCEPT !.pc = "commit", !.batch = {}, !.deferred = @ \cup {e.uid : e \in d.batch}]
  <2>1. \A e \in d.batch : e.uid \in Nat
    BY <1>0 DEF Daemons, Listed
  <2>2. /\ d'.pc = "commit" /\ d'.batch = {} /\ d'.next = d.next /\ d'.from = d.from
        /\ d'.deferred = d.deferred \cup {e.uid : e \in d.batch} /\ d' \in Daemons
    BY <1>0, <1>6, <2>1, ZenonT(40) DEF Daemons, Steps
  <2>3. Batching /\ Batching' /\ ~MsgJob' /\ (Fresh' <=> Fresh) /\ d'.pc \notin AtMail /\ d'.pc \notin AtJob
    BY <1>0, <2>2 DEF Batching, MsgJob, Fresh, AtMail, Resuming, AtJob
  <2>4. Holds' /\ Prepared' /\ AboutCurrent'
    BY <2>2, <2>3 DEF Holds, Prepared, AboutCurrent
  <2>5. BatchShape'
    <3>1. BatchShape
      BY DEF IInv, DaemonInv
    <3> QED BY <1>0, <2>2, <2>3, <3>1 DEF BatchShape, Live
  <2>6. BatchMail'
    <3>1. BatchMail
      BY DEF IInv, DaemonInv
    <3> QED BY <1>0, <2>2, <2>3, <3>1 DEF BatchMail
  <2>7. Covered'
    <3>1. Covered
      BY DEF IInv, DaemonInv
    <3> QED BY <1>0, <1>1, <2>2, <2>3, <3>1 DEF Covered, Settled
  <2> QED BY <1>1, <1>2, <2>2, <2>4, <2>5, <2>6, <2>7 DEF IInv, DaemonInv, TypeInv
<1> QED BY <1>3, <1>4, <1>5, <1>6 DEF Look

LEMMA HandleMessageKeeps ==
  ASSUME IInv, HandleMessage
  PROVE  IInv' /\ Arrived \subseteq Arrived'
<1> USE DEF owner, store, ghost
<1>0. /\ UNCHANGED <<validity, uidNext, key, reserved, encrypting, file, checkpoint, processed, decided, unrecorded, adrift, removed>>
      /\ d.pc = "handle" /\ d.pc \in AtMail
  BY DEF HandleMessage, At, AtMail
<1>1. d.batch # {} /\ Current.uid \notin processed
  BY <1>0, MailAtHand
<1>2. \E pc \in {"label", "decide", "defer", "retire"} : Goes(pc)
  BY DEF HandleMessage, FilterRules, Classification
<1>3. UNCHANGED box \/ ApplyOutcome(Current.uid)
  BY DEF HandleMessage
<1>4. ASSUME UNCHANGED box PROVE Shrinks /\ IsFiniteSet(box') /\ box' \subseteq Records
  BY <1>0, <1>4, SameMail DEF mail, IInv, TypeInv, WorldTypes
<1>5. ASSUME ApplyOutcome(Current.uid) PROVE Shrinks /\ IsFiniteSet(box') /\ box' \subseteq Records
  <2> DEFINE mine == Holding(Current.uid)
             moved(r) == [r EXCEPT !.folder = "other", !.uid = 0]
             read(r) == [r EXCEPT !.unseen = FALSE]
             f == [r \in mine |-> moved(r)]
             g == [r \in mine |-> read(r)]
  <2>1. mine \in SUBSET box /\ box \subseteq Records
    BY DEF Holding, Inbox, IInv, TypeInv, WorldTypes
  <2>2. \/ UNCHANGED box
        \/ box' = (box \ mine) \cup {f[r] : r \in mine}
        \/ box' = (box \ mine) \cup {g[r] : r \in mine}
    <3>1. mine \subseteq box
      BY <2>1
    <3>2. {f[r] : r \in mine} = {moved(r) : r \in mine} /\ {g[r] : r \in mine} = {read(r) : r \in mine}
      OBVIOUS
    <3>3. \E after \in {mine, {moved(r) : r \in mine}, {read(r) : r \in mine}} : box' = (box \ mine) \cup after
      BY <1>5 DEF ApplyOutcome
    <3>4. (box \ mine) \cup mine = box
      BY <3>1
    <3> HIDE DEF mine, moved, read, f, g
    <3> QED BY <3>2, <3>3, <3>4
  <2>3. \A r \in Records : moved(r) \in Records /\ moved(r).of = r.of /\ moved(r).wraps = r.wraps /\ moved(r).kind = r.kind
                           /\ moved(r).folder # "INBOX"
    BY DEF Records
  <2>4. \A r \in Records : read(r) \in Records /\ read(r).of = r.of /\ read(r).wraps = r.wraps /\ read(r).kind = r.kind
                           /\ read(r).folder = r.folder /\ read(r).uid = r.uid /\ ~read(r).unseen
    BY DEF Records
  <2>5. f \in [mine -> Records] /\ g \in [mine -> Records]
    BY <2>1, <2>3, <2>4
  <2>6. \A r \in mine : r \in Records /\ f[r] = moved(r) /\ g[r] = read(r)
    BY <2>1
  <2>7. TypeInv /\ UNCHANGED <<validity, uidNext, removed, adrift>>
    BY <1>0 DEF IInv
  <2> HIDE DEF mine, moved, read, f, g
  <2>8. CASE box' = (box \ mine) \cup {f[r] : r \in mine}
    <3>1. \A r \in mine : f[r].of = r.of /\ f[r].wraps = r.wraps /\ f[r].kind = r.kind /\ f[r].folder # "INBOX"
      BY <2>3, <2>6
    <3> QED BY <2>1, <2>5, <2>7, <2>8, <3>1, ChangedMail, ZenonT(40)
  <2>9. CASE box' = (box \ mine) \cup {g[r] : r \in mine}
    <3>1. \A r \in mine :
             /\ g[r].of = r.of /\ g[r].wraps = r.wraps /\ g[r].kind = r.kind
             /\ g[r].folder = "INBOX" => r.folder = "INBOX" /\ g[r].uid = r.uid /\ (g[r].unseen => r.unseen)
      BY <2>4, <2>6
    <3> QED BY <2>1, <2>5, <2>7, <2>9, <3>1, ChangedMail
  <2> QED BY <1>4, <2>2, <2>8, <2>9
<1>6. Shrinks /\ IsFiniteSet(box') /\ box' \subseteq Records
  BY <1>3, <1>4, <1>5
<1>7. IInv'
  BY <1>0, <1>1, <1>2, <1>6, GoesOnKeeps
<1> QED BY <1>6, <1>7 DEF Shrinks

LEMMA ApplyKeywordsKeeps ==
  ASSUME IInv, ApplyKeywords
  PROVE  IInv' /\ Arrived \subseteq Arrived'
<1> USE DEF owner, store, ghost
<1>0. /\ UNCHANGED <<validity, uidNext, key, reserved, encrypting, file, checkpoint, processed, decided, unrecorded, adrift, removed>>
      /\ d.pc = "label" /\ d.pc \in AtMail
  BY DEF ApplyKeywords, At, AtMail
<1>1. d.batch # {} /\ Current.uid \notin processed
  BY <1>0, MailAtHand
<1>2. \E pc \in {"decide", "defer"} : Goes(pc)
  BY DEF ApplyKeywords
<1>3. ASSUME UNCHANGED box PROVE Shrinks /\ IsFiniteSet(box') /\ box' \subseteq Records
  BY <1>0, <1>3, SameMail DEF mail, IInv, TypeInv, WorldTypes
<1> DEFINE S == Holding(Current.uid)
           lab(r) == [r EXCEPT !.label = TRUE]
           f == [r \in S |-> lab(r)]
<1>4. ASSUME box' = {IF r \in S THEN lab(r) ELSE r : r \in box}
      PROVE  Shrinks /\ IsFiniteSet(box') /\ box' \subseteq Records
  <2>1. S \in SUBSET box /\ box \subseteq Records
    BY DEF Holding, Inbox, IInv, TypeInv, WorldTypes
  <2>2. \A r \in Records : lab(r) \in Records /\ lab(r).of = r.of /\ lab(r).wraps = r.wraps /\ lab(r).kind = r.kind
                           /\ lab(r).folder = r.folder /\ lab(r).uid = r.uid /\ (lab(r).unseen => r.unseen)
    BY DEF Records
  <2>3. f \in [S -> Records]
    BY <2>1, <2>2
  <2>4. \A r \in S : r \in Records /\ f[r] = lab(r)
    BY <2>1
  <2>5. TypeInv /\ UNCHANGED <<validity, uidNext, removed, adrift>>
    BY <1>0 DEF IInv
  <2> HIDE DEF S, lab, f
  <2>6. box' = (box \ S) \cup {f[r] : r \in S}
    <3>1. {f[r] : r \in S} = {lab(r) : r \in S}
      BY <2>4
    <3> QED BY <1>4, <2>1, <3>1
  <2>7. \A r \in S :
            /\ f[r].of = r.of /\ f[r].wraps = r.wraps /\ f[r].kind = r.kind
            /\ f[r].folder = "INBOX" => r.folder = "INBOX" /\ f[r].uid = r.uid /\ (f[r].unseen => r.unseen)
    BY <2>2, <2>4
  <2> QED BY <2>1, <2>3, <2>5, <2>6, <2>7, ChangedMail
<1>5. UNCHANGED box \/ box' = {IF r \in S THEN lab(r) ELSE r : r \in box}
  BY DEF ApplyKeywords
<1> HIDE DEF S, lab, f
<1>6. Shrinks /\ IsFiniteSet(box') /\ box' \subseteq Records
  BY <1>3, <1>4, <1>5
<1>7. IInv'
  BY <1>0, <1>1, <1>2, <1>6, GoesOnKeeps
<1> QED BY <1>6, <1>7 DEF Shrinks

(* A decision of the mail at hand ends it.                                  *)
LEMMA MarkedKeeps ==
  ASSUME IInv, d.pc \in AtMail, Done, processed' = processed \cup {Current.uid},
         decided' = Counted(d.next.ns, Current.of),
         UNCHANGED <<mail, owner, file, checkpoint, removed, unrecorded, adrift>>
  PROVE  IInv'
<1>1. d.batch # {} /\ d.pc \in AtMail
  BY MailAtHand
<1>2. /\ WorldTypes' /\ World'
      /\ \A m \in Msgs : decided[m] <= decided'[m]
      /\ \A m \in Msgs : decided[m] # decided'[m] => m = Current.of
      /\ Fresh /\ ~adrift => \A r \in Inbox' : r.uid = Current.uid => Settled(r)'
  BY MarkedWorld
<1>3. Shrinks
  BY SameMail
<1>4. d' \in Daemons /\ d' = Popped
  BY <1>1, PoppedType DEF Done
<1> QED BY <1>1, <1>2, <1>3, <1>4, PopAtMail DEF TypeInv

LEMMA DecideKeeps ==
  ASSUME IInv, Decide
  PROVE  IInv'
<1> USE DEF ghost
<1>0. UNCHANGED <<mail, owner, file, checkpoint, removed, unrecorded, adrift>> /\ d.pc = "decide" /\ d.pc \in AtMail
  BY DEF Decide, At, AtMail
<1>1. d.batch # {} /\ Current.uid \notin processed
  BY <1>0, MailAtHand
<1>2. CASE Done /\ Marks(Current.uid) /\ decided' = Counted(d.next.ns, Current.of)
  BY <1>0, <1>2, MarkedKeeps DEF Marks
<1>3. CASE Goes(AfterFailedWrite) /\ UNCHANGED <<processed, decided>>
  <2>1. PICK pc \in {"retire", "defer"} : Goes(pc)
    BY <1>3 DEF AfterFailedWrite
  <2>2. Shrinks /\ IsFiniteSet(box') /\ box' \subseteq Records
    BY <1>0, SameMail DEF mail, IInv, TypeInv, WorldTypes
  <2> QED BY <1>0, <1>1, <1>3, <2>1, <2>2, GoesOnKeeps DEF owner
<1> QED BY <1>2, <1>3 DEF Decide

LEMMA RetireKeeps ==
  ASSUME IInv, Retire
  PROVE  IInv'
<1>0. UNCHANGED <<mail, owner, file, checkpoint, removed, adrift>> /\ d.pc = "retire" /\ d.pc \in AtMail /\ Done
  BY DEF Retire, At, AtMail
<1>1. d.batch # {} /\ Current.uid \notin processed
  BY <1>0, MailAtHand
<1>2. CASE Marks(Current.uid) /\ decided' = Counted(d.next.ns, Current.of) /\ UNCHANGED unrecorded
  BY <1>0, <1>2, MarkedKeeps DEF Marks
<1>3. CASE /\ unrecorded' = IF d.next.ns = validity THEN unrecorded \cup {Current.uid} ELSE unrecorded
           /\ UNCHANGED <<processed, decided>>
  <2>1. Shrinks /\ Kept /\ WorldTypes'
    BY <1>0, <1>3, SameMail DEF mail, owner, Kept, IInv, TypeInv, WorldTypes
  <2>2. World'
    BY <1>0, <2>1, WorldKept DEF IInv, World, Journal, owner
  <2>3. d' \in Daemons /\ d' = Popped
    BY <1>0, <1>1, PoppedType DEF Done
  <2>4. \A m \in Msgs : decided[m] <= decided'[m]
    BY <1>3 DEF IInv, TypeInv, WorldTypes
  <2>5. Fresh => \A r \in Inbox' : r.uid = Current.uid => Settled(r)'
    BY <1>3 DEF Fresh, Settled
  <2> QED BY <1>0, <1>1, <1>3, <2>1, <2>2, <2>3, <2>4, <2>5, PopAtMail DEF TypeInv, Kept
<1> QED BY <1>2, <1>3 DEF Retire

LEMMA RecordDeferralKeeps ==
  ASSUME IInv, RecordDeferral
  PROVE  IInv'
<1> USE DEF ghost, owner
<1>0. /\ UNCHANGED <<mail, key, reserved, encrypting, file, checkpoint, processed, removed, unrecorded, decided, adrift>>
      /\ d.pc = "defer" /\ d.pc \in AtMail
  BY DEF RecordDeferral, At, AtMail
<1>1. d.batch # {} /\ Current.uid \notin processed /\ d \in Daemons /\ Current \in d.batch
  BY <1>0, MailAtHand
<1>2. Shrinks /\ IsFiniteSet(box') /\ box' \subseteq Records /\ Kept /\ WorldTypes' /\ Follows
  BY <1>0, SameMail, ShrinksFollows DEF mail, IInv, TypeInv, WorldTypes, Kept
<1>3. CASE Goes("retire")
  BY <1>0, <1>1, <1>2, <1>3, GoesOnKeeps
<1>4. CASE Deferred
  BY <1>0, <1>1, <1>4, DeferredKeeps DEF IInv, TypeInv, WorldTypes, World, Journal
<1> QED BY <1>3, <1>4 DEF RecordDeferral

-----------------------------------------------------------------------------
(* A replacement is prepared.                                               *)

LEMMA PreparedMove ==
  ASSUME IInv, TypeInv', World', UNCHANGED <<mail, removed, file, checkpoint, processed, decided, unrecorded, adrift>>,
         d.pc \in AtMail, d'.pc \in {"reserve", "journal"}, file = NoJob, Prepared',
         d'.batch = d.batch, d'.next = d.next, d'.from = d.from, d'.deferred = d.deferred
  PROVE  IInv'
<1>1. Follows /\ Arrived' = Arrived
  BY SameMail, ShrinksFollows DEF IInv, Arrived, mail
<1>2. SameBatch
  BY <1>1 DEF SameBatch, SameFile
<1>3. /\ ~MsgJob' /\ ~MsgJob
      /\ Batching' /\ Batching
      /\ d.pc # "release" /\ d'.pc # "release" /\ d'.pc \notin AtJob /\ d'.pc \in AtMail
      /\ d'.pc \notin {"commit", "idle"}
  BY DEF MsgJob, Batching, Resuming, AtJob, AtMail
<1>4. BatchMail' /\ Covered'
  BY <1>2, <1>3, BatchKept DEF TypeInv
<1>5. Current' = Current
  BY DEF Current
<1>6. AboutCurrent'
  BY <1>3, <1>5 DEF IInv, DaemonInv, AboutCurrent
<1>7. BatchShape'
  <2>1. BatchShape
    BY DEF IInv, DaemonInv
  <2> QED BY <1>1, <1>3, <2>1 DEF BatchShape, Follows, Live, Fresh
<1>8. Holds'
  BY <1>3 DEF Holds, AtJob
<1> QED BY <1>4, <1>6, <1>7, <1>8 DEF IInv, DaemonInv

LEMMA EncryptIncomingKeeps ==
  ASSUME IInv, EncryptIncoming
  PROVE  IInv'
<1> USE DEF mail, owner, store, ghost
<1>0. /\ UNCHANGED <<mail, key, reserved, encrypting, file, checkpoint, processed, decided, unrecorded, adrift, removed>>
      /\ d.pc = "handle" /\ d.pc \in AtMail /\ reserved \in BOOLEAN /\ (file # NoJob => reserved)
  BY DEF EncryptIncoming, At, AtMail, IInv, TypeInv, WorldTypes, World, Journal
<1>1. d.batch # {} /\ Current.uid \notin processed /\ d \in Daemons /\ Current \in d.batch
  BY <1>0, MailAtHand
<1>2. Shrinks /\ IsFiniteSet(box') /\ box' \subseteq Records /\ Kept /\ WorldTypes' /\ Inbox' = Inbox /\ Arrived' = Arrived
  BY <1>0, SameMail DEF IInv, TypeInv, WorldTypes, Kept, Inbox, Arrived
<1>3. file = NoJob
  BY DEF EncryptIncoming
<1>4. CASE Goes("defer")
  BY <1>0, <1>1, <1>2, <1>4, GoesOnKeeps
<1>5. CASE \E r \in Holding(Current.uid), acts \in ActionLists :
             d' = [d EXCEPT !.pc = "reserve", !.job = PrepareIncoming(r, acts)]
  <2>1. PICK r \in Holding(Current.uid), acts \in ActionLists :
            d' = [d EXCEPT !.pc = "reserve", !.job = PrepareIncoming(r, acts)]
    BY <1>5
  <2>2. PICK j : j = PrepareIncoming(r, acts)
    OBVIOUS
  <2>3. r \in Inbox /\ r \in box /\ r \in Records /\ r.uid = Current.uid
    BY DEF Holding, Inbox, IInv, TypeInv, WorldTypes
  <2>4. j \in Jobs /\ j # NoJob
    <3>1. r.uid \in Nat /\ r.of \in Msgs /\ r.wraps \in Nat /\ validity \in Nat /\ key \in Nat
      BY <2>3 DEF Records, IInv, TypeInv, WorldTypes
    <3> QED BY <2>2, <3>1, PollerAssumption DEF Jobs, PrepareIncoming
  <2>5. j.uid = r.uid /\ j.ns = validity /\ j.of = r.of /\ j.wraps = r.wraps /\ j.repl = 0
    BY <2>2 DEF PrepareIncoming
  <2>6. /\ d' \in Daemons /\ d'.pc = "reserve" /\ d'.job = j
        /\ d'.batch = d.batch /\ d'.next = d.next /\ d'.from = d.from /\ d'.deferred = d.deferred
    BY <1>1, <2>1, <2>2, <2>4 DEF Daemons, Steps, AtMail
  <2>7. World'
    BY <1>0, <1>2, WorldKept DEF IInv
  <2>8. r.of \notin removed => \A q \in Inbox : q.of = r.of => q.wraps = r.wraps /\ q.uid = r.uid
    BY <1>3, <2>3 DEF IInv, World, OneInInbox, Uids
  <2>9. JobOK(j)'
    <3>1. r.of \in Arrived /\ r.uid < uidNext
      BY <2>3 DEF Arrived, IInv, World, Uids
    <3>2. \A q \in Inbox : q.uid = r.uid => q.of = r.of /\ q.wraps = r.wraps
      BY <2>3 DEF IInv, World, Uids
    <3> QED BY <1>0, <1>2, <2>5, <2>8, <3>1, <3>2 DEF JobOK
  <2>10. JobOK(d.job)'
    BY <2>6, <2>9 DEF JobOK
  <2>11. Batching /\ d.next.ns \in 1..validity /\ validity \in Nat
    BY <1>0 DEF Batching, IInv, DaemonInv, BatchShape, TypeInv, WorldTypes
  <2>12. Fresh => r.of = Current.of
    BY <1>1, <2>3, <2>11 DEF IInv, DaemonInv, BatchMail
  <2>13. Current' = Current /\ (Fresh' <=> Fresh)
    BY <1>0, <2>6 DEF Current, Fresh
  <2>14. Prepared'
    BY <1>0, <1>2, <2>3, <2>4, <2>5, <2>6, <2>8, <2>10, <2>11, <2>12, <2>13 DEF Prepared
  <2> QED BY <1>0, <1>2, <1>3, <2>6, <2>7, <2>14, PreparedMove DEF TypeInv
<1> QED BY <1>4, <1>5 DEF EncryptIncoming

LEMMA DeferEncryptionKeeps ==
  ASSUME IInv, DeferEncryption
  PROVE  IInv'
<1>1. /\ UNCHANGED <<mail, key, reserved, encrypting, file, checkpoint, processed, decided, unrecorded, adrift, removed>>
      /\ d.pc \in AtMail /\ reserved \in BOOLEAN /\ (file # NoJob => reserved) /\ Deferred
  BY DEF DeferEncryption, At, AtMail, IInv, TypeInv, WorldTypes, World, Journal, owner, store, ghost
<1> QED BY <1>1, MailAtHand, DeferredKeeps

LEMMA ReserveKeeps ==
  ASSUME IInv, ReserveIncomingEncryption
  PROVE  IInv'
<1> USE DEF mail, store, ghost
<1>0. /\ UNCHANGED <<mail, key, encrypting, file, checkpoint, processed, decided, unrecorded, adrift, removed>>
      /\ d.pc = "reserve" /\ d.pc \in AtMail /\ file = NoJob
  BY DEF ReserveIncomingEncryption, At, AtMail, IInv, DaemonInv, Holds
<1>1. d.batch # {} /\ Current.uid \notin processed /\ d \in Daemons
  BY <1>0, MailAtHand
<1>2. CASE Deferred /\ UNCHANGED reserved
  BY <1>0, <1>1, <1>2, DeferredKeeps DEF IInv, TypeInv, WorldTypes
<1>3. CASE Reservable(d.job.fp) /\ reserved' = TRUE /\ Goes("journal")
  <2>1. Shrinks /\ Kept /\ WorldTypes' /\ Inbox' = Inbox /\ Arrived' = Arrived
    BY <1>0, <1>3, SameMail DEF IInv, TypeInv, WorldTypes, Kept, Inbox, Arrived
  <2>2. World'
    BY <1>0, <2>1, WorldKept DEF IInv
  <2>3. "journal" \in Steps
    BY DEF Steps, AtMail
  <2>4. /\ d' \in Daemons /\ d'.pc = "journal" /\ d'.job = d.job
        /\ d'.batch = d.batch /\ d'.next = d.next /\ d'.from = d.from /\ d'.deferred = d.deferred
    BY <1>1, <1>3, <2>3, GoesTo
  <2>5. Prepared
    BY DEF IInv, DaemonInv
  <2>6. Current' = Current /\ (Fresh' <=> Fresh)
    BY <1>0, <2>4 DEF Current, Fresh
  <2>7. JobOK(d.job)'
    BY <1>0, <2>1, <2>4, <2>5 DEF JobOK, Prepared
  <2>8. Prepared'
    BY <1>0, <1>3, <2>1, <2>4, <2>5, <2>6, <2>7 DEF Prepared, Reservable
  <2> QED BY <1>0, <2>1, <2>2, <2>4, <2>8, PreparedMove DEF TypeInv
<1> QED BY <1>2, <1>3 DEF ReserveIncomingEncryption

LEMMA WriteJournalKeeps ==
  ASSUME IInv, WriteJournal
  PROVE  IInv'
<1> USE DEF mail, store, ghost
<1>0. /\ UNCHANGED <<mail, key, encrypting, checkpoint, processed, decided, unrecorded, adrift, removed>>
      /\ d.pc = "journal" /\ d.pc \in AtMail /\ file = NoJob
  BY DEF WriteJournal, At, AtMail, IInv, DaemonInv, Holds
<1>1. d.batch # {} /\ Current.uid \notin processed /\ d \in Daemons /\ Current \in d.batch
  BY <1>0, MailAtHand
<1>2. Shrinks /\ Inbox' = Inbox /\ Arrived' = Arrived /\ Follows
  BY <1>0, SameMail, ShrinksFollows DEF Inbox, Arrived, IInv
<1>3. Batching /\ ~MsgJob /\ (Live => Fresh)
  BY <1>0, BatchLive DEF Batching, MsgJob, AtMail, Resuming, AtJob
<1>4. /\ d.from = checkpoint /\ d.next.ns \in 1..validity /\ checkpoint.ns \in {NoNamespace, d.next.ns}
      /\ validity \in Nat
  BY <1>3 DEF IInv, DaemonInv, BatchShape, TypeInv, WorldTypes
<1>5. PICK j \in Jobs : j = d.job
  BY <1>0, <1>1 DEF IInv, DaemonInv, Prepared, Daemons
<1>6. /\ j # NoJob /\ j.repl = 0 /\ j.ns \in 1..validity /\ d.next.ns <= j.ns /\ JobOK(j)
      /\ j.uid = Current.uid /\ (Fresh => j.of = Current.of) /\ reserved /\ key = j.fp
  BY <1>0, <1>5 DEF IInv, DaemonInv, Prepared
<1>7. Fresh /\ j.of \notin removed => decided[j.of] = 0
  BY <1>1, <1>3, <1>6 DEF IInv, DaemonInv, BatchMail
<1>8. ASSUME file' = d.job, UNCHANGED reserved PROVE WorldTypes' /\ World'
  <2>1. WorldTypes'
    BY <1>0, <1>5, <1>8 DEF IInv, TypeInv, WorldTypes
  <2>2. Namespaces'
    <3>1. Live \/ checkpoint.ns = validity => j.ns = validity
      BY <1>3, <1>4, <1>6 DEF NoNamespace, Fresh
    <3> QED BY <1>0, <1>5, <1>6, <1>8, <3>1 DEF IInv, World, Namespaces, Live
  <2>3. Uids' /\ OneInInbox' /\ Passed'
    BY <1>0, <1>2 DEF IInv, World, Uids, OneInInbox, Passed, Live, Settled
  <2>4. JobOK(file)'
    BY <1>0, <1>2, <1>5, <1>6, <1>8 DEF JobOK
  <2>5. Journal'
    BY <1>0, <1>5, <1>6, <1>8, <2>4 DEF Journal
  <2>6. Decisions'
    <3>1. decided \in [Msgs -> Nat] /\ j.of \in Msgs
      BY DEF IInv, TypeInv, WorldTypes, Jobs
    <3>2. Live /\ j.of \notin removed => ~(decided[j.of] > 0)
      BY <1>3, <1>7, <3>1
    <3> QED BY <1>0, <1>2, <1>5, <1>8, <3>2 DEF IInv, World, Decisions, Live
  <2> QED BY <2>1, <2>2, <2>3, <2>5, <2>6 DEF World
<1>9. CASE file' = d.job /\ UNCHANGED reserved /\ Deferred
  <2>1. /\ d' \in Daemons
        /\ d' = Popped \/ d' = [Popped EXCEPT !.deferred = @ \cup {Current.uid}]
        /\ Current.uid \in d'.deferred /\ d.deferred \subseteq d'.deferred
    BY <1>1, <1>9, PoppedType
  <2>2. PICK p : p = Popped
    OBVIOUS
  <2>3. /\ p \in Daemons
        /\ p.pc = "next" /\ p.batch = d.batch \ {Current} /\ p.next = d.next /\ p.from = d.from
    BY <1>1, <2>2 DEF Popped, Daemons, Steps
  <2>4. d'.pc = "next" /\ d'.batch = d.batch \ {Current} /\ d'.next = d.next /\ d'.from = d.from
    BY <2>1, <2>2, <2>3 DEF Daemons
  <2>5. \A m \in Msgs : decided[m] <= decided'[m]
    BY <1>0 DEF IInv, TypeInv, WorldTypes
  <2>6. file' # NoJob => /\ d.next.ns <= file'.ns
                         /\ Fresh => \A e \in d.batch \ {Current} : e.of \notin removed' => e.of # file'.of
    BY <1>0, <1>1, <1>5, <1>6, <1>9 DEF IInv, DaemonInv, BatchShape
  <2> QED BY <1>0, <1>1, <1>2, <1>3, <1>8, <1>9, <2>1, <2>4, <2>5, <2>6, PopMove DEF TypeInv
<1>10. CASE UNCHANGED file /\ reserved' = FALSE /\ Deferred
  BY <1>0, <1>1, <1>10, DeferredKeeps
<1>11. CASE file' = d.job /\ UNCHANGED reserved /\ d' = [d EXCEPT !.pc = "resume", !.ret = "msg"]
  <2>1. /\ d' \in Daemons /\ d'.pc = "resume" /\ d'.ret = "msg"
        /\ d'.batch = d.batch /\ d'.next = d.next /\ d'.from = d.from /\ d'.deferred = d.deferred
    BY <1>1, <1>11 DEF Daemons, Steps, Resuming
  <2>2. MsgJob' /\ Batching' /\ d'.pc \notin AtMail /\ d'.pc \notin AtJob /\ Current' = Current /\ (Fresh' <=> Fresh)
    BY <1>0, <2>1 DEF MsgJob, Batching, AtMail, Resuming, AtJob, Current, Fresh
  <2>3. Holds' /\ Prepared'
    BY <1>5, <1>6, <1>11, <2>1, <2>2 DEF Holds, Prepared
  <2>4. BatchShape'
    <3>1. BatchShape
      BY DEF IInv, DaemonInv
    <3> QED BY <1>0, <1>1, <1>2, <1>3, <1>4, <1>5, <1>6, <1>11, <2>1, <2>2, <3>1 DEF BatchShape, Live
  <2>5. AboutCurrent'
    BY <1>0, <1>5, <1>6, <1>11, <2>1, <2>2 DEF AboutCurrent
  <2>6. BatchMail'
    <3> SUFFICES ASSUME Fresh PROVE BatchMail'
      BY <2>2 DEF BatchMail
    <3>1. BatchMail /\ BatchShape
      BY DEF IInv, DaemonInv
    <3>2. \A e \in d.batch : e.of \notin removed /\ e.of = j.of => e = Current
      BY <1>1, <1>6, <3>1 DEF BatchShape
    <3>3. \A e \in d.batch, r \in Inbox : r.of = e.of /\ e.of \notin removed => r.uid = e.uid
      BY <1>0, <1>3, <3>1 DEF BatchMail
    <3> QED BY <1>0, <1>2, <1>3, <1>5, <1>11, <2>1, <2>2, <3>1, <3>2, <3>3 DEF BatchMail
  <2>7. Covered'
    BY <1>0, <1>2, <1>3, <2>1, <2>2 DEF IInv, DaemonInv, Covered, Settled
  <2> QED BY <1>8, <1>11, <2>1, <2>3, <2>4, <2>5, <2>6, <2>7 DEF IInv, DaemonInv, TypeInv
<1> QED BY <1>9, <1>10, <1>11 DEF WriteJournal

-----------------------------------------------------------------------------
(* The fetch and the checkpoint.                                            *)

LEMMA FetchUnreadKeeps ==
  ASSUME IInv, FetchUnread
  PROVE  IInv'
<1> USE DEF mail, owner, ghost
<1>0. /\ UNCHANGED <<mail, key, reserved, encrypting, file, decided, unrecorded, removed>>
      /\ d.pc = "fetch" /\ file = NoJob /\ d \in Daemons /\ checkpoint \in Points /\ validity \in Nat \ {0}
      /\ uidNext \in Nat \ {0}
  BY DEF FetchUnread, At, IInv, DaemonInv, Holds, TypeInv, WorldTypes
<1>1. Inbox' = Inbox /\ Arrived' = Arrived /\ (UNCHANGED adrift => Shrinks)
  BY <1>0, SameMail DEF Inbox, Arrived
<1>2. \A r \in Inbox : r \in Records /\ r.uid \in Nat /\ 0 < r.uid /\ r.uid < uidNext
  BY DEF Inbox, IInv, TypeInv, WorldTypes, Records, World, Uids
<1>3. CASE d' = Idle /\ UNCHANGED <<store, adrift>>
  <2>1. Kept /\ WorldTypes'
    BY <1>0, <1>3 DEF store, Kept, IInv, TypeInv, WorldTypes
  <2>2. World'
    BY <1>0, <1>1, <1>3, <2>1, WorldKept DEF IInv
  <2> QED BY <1>3, <2>1, <2>2, IdleKeeps, IdleType DEF TypeInv
<1> DEFINE reset == UIDNamespaceReset(checkpoint, [ns |-> validity])
           from == IF reset THEN [ns |-> validity, uid |-> 0] ELSE checkpoint
<1>4. reset <=> checkpoint.ns \notin {NoNamespace, validity}
  BY DEF UIDNamespaceReset
<1>5. from \in Points /\ from.ns \in {NoNamespace, validity} /\ from.uid < uidNext
      /\ (from.ns = NoNamespace => from.uid = 0)
  BY <1>0, <1>4 DEF Points, NoNamespace, IInv, World, Namespaces, Uids
<1>6. CASE /\ \E top \in {from.uid} \cup {r.uid : r \in Unread(from.uid)} :
                /\ top = from.uid => Unread(from.uid) = {}
                /\ d' = [d EXCEPT !.pc = "next", !.batch = ListUnreadInbox(from.uid, top),
                                  !.from = from, !.next = [ns |-> validity, uid |-> top]]
           /\ IF reset THEN ResetUIDNamespace ELSE UNCHANGED <<processed, attempts>>
           /\ checkpoint' = from
           /\ adrift' = (adrift /\ ~reset)
  <2>1. PICK b \in Points : b = from
    BY <1>5
  <2>2. PICK top \in {b.uid} \cup {r.uid : r \in Unread(b.uid)} :
                /\ top = b.uid => Unread(b.uid) = {}
                /\ d' = [d EXCEPT !.pc = "next", !.batch = ListUnreadInbox(b.uid, top),
                                  !.from = b, !.next = [ns |-> validity, uid |-> top]]
    BY <1>6, <2>1
  <2>3. /\ checkpoint' = b /\ b.uid \in Nat /\ b.ns \in {NoNamespace, validity} /\ b.uid < uidNext
        /\ (b.ns = NoNamespace => b.uid = 0)
        /\ (~reset => b = checkpoint /\ processed' = processed /\ adrift' = adrift)
        /\ (reset => b.ns = validity /\ b.uid = 0 /\ processed' = {} /\ adrift' = FALSE /\ ~Live)
    <3>1. checkpoint' = b /\ b.uid \in Nat /\ b.ns \in {NoNamespace, validity} /\ b.uid < uidNext
          /\ (b.ns = NoNamespace => b.uid = 0)
      BY <1>5, <1>6, <2>1 DEF Points
    <3>2. ~reset => b = checkpoint /\ processed' = processed
      BY <1>6, <2>1
    <3>3. reset => b.ns = validity /\ b.uid = 0 /\ processed' = {} /\ ~Live
      BY <1>4, <1>6, <2>1 DEF ResetUIDNamespace, Live
    <3>4. adrift \in BOOLEAN
      BY DEF IInv, TypeInv, WorldTypes
    <3>5. (~reset => adrift' = adrift) /\ (reset => adrift' = FALSE)
      BY <1>6, <3>4, Zenon
    <3> QED BY <3>1, <3>2, <3>3, <3>5
  <2> HIDE DEF reset, from
  <2>4. top \in Nat /\ b.uid <= top /\ top < uidNext
    BY <1>2, <2>2, <2>3 DEF Unread
  <2>5. PICK B \in SUBSET Listed : B = ListUnreadInbox(b.uid, top)
    <3>1. \A r \in Records : [uid |-> r.uid, of |-> r.of, kind |-> r.kind, wraps |-> r.wraps] \in Listed
      BY DEF Listed, Records
    <3>2. ListUnreadInbox(b.uid, top) \subseteq Listed
      BY <1>2, <3>1 DEF ListUnreadInbox, Unread
    <3> QED BY <3>2
  <2>6. \A e \in B : \E r \in Inbox :
            r.uid = e.uid /\ r.of = e.of /\ r.kind = e.kind /\ r.wraps = e.wraps /\ r.uid <= top /\ e \in Listed
            /\ e = [uid |-> r.uid, of |-> r.of, kind |-> r.kind, wraps |-> r.wraps]
    BY <2>5 DEF ListUnreadInbox, Unread
  <2>7. \A r \in Inbox : r.unseen /\ r.uid > b.uid /\ r.uid <= top => \E e \in B : e.uid = r.uid
    <3> SUFFICES ASSUME NEW r \in Inbox, r.unseen, r.uid > b.uid, r.uid <= top PROVE \E e \in B : e.uid = r.uid
      OBVIOUS
    <3>1. PICK e : e = [uid |-> r.uid, of |-> r.of, kind |-> r.kind, wraps |-> r.wraps]
      OBVIOUS
    <3>2. e \in B
      BY <2>5, <3>1 DEF ListUnreadInbox, Unread
    <3> QED BY <3>1, <3>2
  <2>8. PICK n \in Points : n = [ns |-> validity, uid |-> top] /\ n.ns = validity /\ n.uid = top
    <3>1. [ns |-> validity, uid |-> top] \in Points
      BY <1>0, <2>4 DEF Points
    <3> QED BY <3>1
  <2>9. d' \in Daemons /\ d'.pc = "next" /\ d'.batch = B /\ d'.from = b /\ d'.next = n
    BY <1>0, <2>2, <2>5, <2>8 DEF Daemons, Steps
  <2>10. ~MsgJob' /\ Batching' /\ Fresh' /\ (reset => Live') /\ d'.pc \notin AtMail /\ d'.pc \notin AtJob
    BY <1>0, <2>3, <2>8, <2>9 DEF MsgJob, Batching, Fresh, Live, AtMail, AtJob, Resuming
  <2>11. WorldTypes'
    BY <1>0, <2>3 DEF IInv, TypeInv, WorldTypes
  <2>12. World'
    <3>1. CASE ~reset
      <4>1. Kept /\ Shrinks
        BY <1>0, <1>1, <2>3, <3>1 DEF Kept
      <4> QED BY <1>0, <1>1, <4>1, WorldKept DEF IInv
    <3>2. CASE reset
      <4>1. Namespaces' /\ OneInInbox' /\ Journal'
        BY <1>0, <1>1, <2>3, <3>2 DEF IInv, World, Namespaces, OneInInbox, Journal, NoNamespace
      <4>2. Uids' /\ Passed'
        BY <1>0, <1>1, <1>2, <2>3, <3>2 DEF IInv, World, Uids, Passed
      <4>3. \A m \in Msgs : decided[m] = 0
        BY <2>3, <3>2 DEF IInv, World, Decisions
      <4>4. Decisions'
        BY <1>0, <1>1, <1>2, <2>3, <2>10, <3>2, <4>3 DEF Decisions, Records
      <4> QED BY <4>1, <4>2, <4>4 DEF World
    <3> QED BY <3>1, <3>2
  <2>13. Holds' /\ Prepared' /\ AboutCurrent'
    BY <2>9, <2>10 DEF Holds, Prepared, AboutCurrent
  <2>14. \A r, q \in Inbox : r.of = q.of /\ r.of \notin removed => r.uid = q.uid
    BY <1>0 DEF IInv, World, OneInInbox
  <2>15. \A r, q \in Inbox : r.uid = q.uid => r.of = q.of /\ r.wraps = q.wraps /\ r.kind = q.kind
    BY DEF IInv, World, Uids
  <2>16. BatchShape'
    <3>1. \A e, f \in B : e.uid = f.uid => e = f
      BY <2>6, <2>15
    <3>2. \A e, f \in B : e.of = f.of /\ e.of \notin removed => e = f
      BY <2>6, <2>14, <3>1
    <3>3. \A e \in B : e.of \in Arrived
      BY <2>6 DEF Arrived, Inbox
    <3> QED BY <1>0, <1>1, <2>3, <2>8, <2>9, <2>10, <3>1, <3>2, <3>3 DEF BatchShape
  <2>17. BatchMail'
    <3>1. \A e \in B : e.uid \notin processed' /\ e.of \notin removed => decided[e.of] = 0
      <4>1. CASE ~Live
        BY <2>6, <4>1 DEF IInv, World, Decisions, Listed
      <4>2. CASE Live
        <5>1. processed' = processed
          BY <2>3, <4>2
        <5> QED BY <2>6, <4>2, <5>1 DEF IInv, World, Decisions, Listed, TypeInv, WorldTypes
      <4> QED BY <4>1, <4>2
    <3>2. \A e \in B, r \in Inbox : r.of = e.of /\ e.of \notin removed => r.uid = e.uid
      BY <2>6, <2>14
    <3>3. \A e \in B, r \in Inbox : r.uid = e.uid => r.of = e.of /\ r.wraps = e.wraps
      BY <2>6, <2>15
    <3>4. \A e \in B : e.uid <= top
      BY <2>6
    <3> QED BY <1>0, <1>1, <2>4, <2>8, <2>9, <3>1, <3>2, <3>3, <3>4 DEF BatchMail
  <2>18. Covered'
    <3> SUFFICES ASSUME ~adrift', NEW r \in Inbox, r.unseen, r.uid <= top
                 PROVE  Settled(r) \/ \E e \in B : e.uid = r.uid
      BY <1>0, <1>1, <2>8, <2>9 DEF Covered, Settled
    <3>1. CASE r.uid > b.uid
      BY <2>7, <3>1
    <3>2. CASE ~(r.uid > b.uid)
      <4>1. b.uid # 0 /\ r.uid <= b.uid
        BY <1>2, <2>3, <3>2
      <4>2. b = checkpoint /\ checkpoint.ns = validity /\ ~adrift
        BY <2>3, <4>1
      <4> QED BY <4>1, <4>2 DEF IInv, World, Passed
    <3> QED BY <3>1, <3>2
  <2> QED BY <2>9, <2>11, <2>12, <2>13, <2>16, <2>17, <2>18 DEF IInv, DaemonInv, TypeInv
<1> QED BY <1>3, <1>6 DEF FetchUnread

LEMMA CommitCheckpointKeeps ==
  ASSUME IInv, CommitCheckpoint
  PROVE  IInv'
<1> USE DEF mail, owner, ghost
<1>0. /\ UNCHANGED <<mail, key, reserved, encrypting, file, processed, decided, unrecorded, adrift, removed>>
      /\ d' = Idle /\ d \in Daemons /\ checkpoint \in Points /\ validity \in Nat \ {0} /\ uidNext \in Nat \ {0}
      /\ Batching /\ d.batch = {}
  BY DEF CommitCheckpoint, At, Batching, IInv, DaemonInv, BatchShape, TypeInv, WorldTypes
<1>1. Shrinks /\ Inbox' = Inbox /\ Arrived' = Arrived
  BY <1>0, SameMail DEF Inbox, Arrived
<1>2. CASE UNCHANGED checkpoint
  <2>1. Kept /\ WorldTypes'
    BY <1>0, <1>2 DEF Kept, IInv, TypeInv, WorldTypes
  <2>2. World'
    BY <1>0, <1>1, <2>1, WorldKept DEF IInv, World, Journal
  <2> QED BY <1>0, <2>1, <2>2, IdleKeeps, IdleType DEF TypeInv
<1>3. CASE checkpoint' = ClampCheckpoint(d.from, d.next, d.deferred)
  <2>1. /\ d.from = checkpoint /\ d.next.ns \in 1..validity /\ checkpoint.ns \in {NoNamespace, d.next.ns}
        /\ file # NoJob => d.next.ns <= file.ns /\ file.ns \in 1..validity
    BY <1>0 DEF IInv, DaemonInv, BatchShape, World, Namespaces
  <2>2. (Live <=> Fresh /\ ~adrift) /\ (checkpoint.ns = validity => Fresh)
    BY <1>0, <2>1, BatchLive DEF Fresh, NoNamespace
  <2>3. d.next \in Points /\ d.deferred \subseteq Nat /\ d.next.uid \in Nat /\ d.next.ns \in Nat /\ checkpoint.uid \in Nat
    BY <1>0 DEF Daemons, Points
  <2>4. /\ checkpoint' \in Points /\ checkpoint'.ns = d.next.ns
        /\ \/ checkpoint'.uid = checkpoint.uid
           \/ /\ checkpoint'.uid <= d.next.uid
              /\ \A u \in d.deferred : checkpoint'.uid < u
    <3>1. CASE d.deferred = {}
      BY <1>3, <2>3, <3>1 DEF ClampCheckpoint
    <3>2. CASE d.deferred # {}
      <4> DEFINE l == Least(d.deferred)
                 candidate == Least({l - 1, d.next.uid})
      <4>1. l \in Nat /\ \A u \in d.deferred : l <= u
        BY <2>3, <3>2, LeastElement DEF Least
      <4>2. candidate \in Int /\ candidate <= l - 1 /\ candidate <= d.next.uid
        <5> HIDE DEF l
        <5>1. \E x \in {l - 1, d.next.uid} : \A y \in {l - 1, d.next.uid} : x <= y
          BY <2>3, <4>1
        <5> QED BY <2>3, <4>1, <5>1 DEF Least
      <4>3. checkpoint' = [ns |-> d.next.ns, uid |-> IF candidate <= checkpoint.uid THEN checkpoint.uid ELSE candidate]
        BY <1>3, <2>1, <3>2 DEF ClampCheckpoint, NoNamespace
      <4> HIDE DEF l, candidate
      <4>4. CASE candidate <= checkpoint.uid
        BY <2>3, <4>3, <4>4 DEF Points
      <4>5. CASE ~(candidate <= checkpoint.uid)
        BY <2>3, <4>1, <4>2, <4>3, <4>5 DEF Points
      <4> QED BY <4>4, <4>5
    <3> QED BY <3>1, <3>2
  <2>5. Live' <=> Live
    BY <1>0, <2>1, <2>2, <2>4 DEF Live, Fresh, NoNamespace
  <2>6. WorldTypes'
    BY <1>0, <2>4 DEF IInv, TypeInv, WorldTypes
  <2>7. Namespaces'
    <3>1. d.next.ns = validity /\ file # NoJob => file.ns = validity
      BY <1>0, <2>1, <2>3
    <3>2. Live' => d.next.ns = validity
      BY <2>2, <2>5 DEF Fresh
    <3> QED BY <1>0, <2>1, <2>3, <2>4, <3>1, <3>2 DEF Namespaces, NoNamespace
  <2>8. Uids'
    <3>1. Fresh => checkpoint'.uid < uidNext
      <4> SUFFICES ASSUME Fresh PROVE checkpoint'.uid < uidNext
        OBVIOUS
      <4>1. checkpoint.uid < uidNext
        BY <1>0, <2>1 DEF Fresh, IInv, World, Uids, Namespaces
      <4>2. d.next.uid < uidNext
        BY <1>0 DEF IInv, DaemonInv, BatchMail
      <4> QED BY <1>0, <2>3, <2>4, <4>1, <4>2 DEF Points
    <3> QED BY <1>0, <1>1, <2>4, <2>5, <3>1 DEF IInv, World, Uids, Fresh
  <2>9. OneInInbox'
    BY <1>0, <1>1 DEF IInv, World, OneInInbox
  <2>10. Journal'
    <3>1. file # NoJob => /\ JobOK(file) => JobOK(file)'
                          /\ CopyOK(file) => CopyOK(file)'
                          /\ Gone(file) => Gone(file)'
      BY <1>0, <1>1 DEF JobOK, CopyOK, Gone
    <3> QED BY <1>0, <3>1 DEF IInv, World, Journal
  <2>11. Decisions'
    BY <1>0, <1>1, <2>5 DEF IInv, World, Decisions
  <2>12. Passed'
    <3> SUFFICES ASSUME Fresh, ~adrift, NEW r \in Inbox, r.unseen, r.uid <= checkpoint'.uid PROVE Settled(r)
      BY <1>0, <1>1, <2>4 DEF Passed, Settled, Fresh
    <3>1. r.uid \in Nat /\ 0 < r.uid
      BY DEF Inbox, IInv, TypeInv, WorldTypes, Records, World, Uids
    <3>2. CASE checkpoint'.uid = checkpoint.uid
      <4>1. checkpoint.ns = validity
        BY <2>2, <3>1, <3>2 DEF Live, IInv, World, Namespaces
      <4> QED BY <3>2, <4>1 DEF IInv, World, Passed
    <3>3. CASE checkpoint'.uid <= d.next.uid /\ \A u \in d.deferred : checkpoint'.uid < u
      <4>1. r.uid <= d.next.uid /\ r.uid \notin d.deferred
        BY <2>3, <2>4, <3>1, <3>3 DEF Points
      <4> QED BY <1>0, <4>1 DEF IInv, DaemonInv, Covered
    <3> QED BY <2>4, <3>2, <3>3
  <2> QED BY <1>0, <2>6, <2>7, <2>8, <2>9, <2>10, <2>11, <2>12, IdleKeeps, IdleType DEF World, TypeInv
<1> QED BY <1>2, <1>3 DEF CommitCheckpoint

-----------------------------------------------------------------------------
(* Around the daemon.                                                       *)

OneOriginal(j) == j.of \notin removed => \A r \in Inbox : r.of = j.of => r.wraps = j.wraps

LEMMA EnvKeeps ==
  ASSUME IInv, UNCHANGED <<d, file, checkpoint, processed, decided, unrecorded>>, Follows, WorldTypes', World',
         \A j \in Jobs : JobOK(j) => /\ JobOK(j)' /\ (CopyOK(j) => CopyOK(j)') /\ (Gone(j) => Gone(j)')
                                     /\ (OneOriginal(j) => OneOriginal(j)'),
         \A r \in Inbox : r.of \in removed' \/ \E q \in Inbox' : q.uid = r.uid,
         reserved => reserved' /\ key' = key
  PROVE  IInv'
<1>1. TypeInv' /\ Current' = Current /\ (Fresh' <=> Fresh) /\ (MsgJob' <=> MsgJob) /\ (Batching' <=> Batching) /\ SameBatch
  BY DEF IInv, TypeInv, Current, Fresh, Follows, MsgJob, Batching, SameBatch, SameFile, SameJob
<1>2. Holds'
  <2>1. Holds
    BY DEF IInv, DaemonInv
  <2>2. CASE d.pc \notin {"remove", "saveUID"}
    BY <2>1, <2>2 DEF Holds
  <2>3. CASE d.pc \in {"remove", "saveUID"}
    <3>1. PICK j \in Jobs : j = d.job /\ JobOK(j)
      BY <2>3, AtHand DEF AtJob
    <3>2. CopyOK(j) /\ (d.pc = "saveUID" => Gone(j))
      BY <2>1, <2>3, <3>1 DEF Holds
    <3>3. CopyOK(j)' /\ (d.pc = "saveUID" => Gone(j)')
      BY <3>1, <3>2
    <3>4. CopyOK(d.job)' /\ (d.pc = "saveUID" => Gone(d.job)')
      BY <3>1, <3>3 DEF CopyOK, Gone
    <3>5. d.pc = "remove" /\ d.job.ns = validity => d.job.of \in removed' \/ \E r \in Inbox' : r.uid = d.job.repl
      BY <2>1, <3>1, <3>2 DEF Holds, CopyOK, Follows
    <3>6. validity' = validity
      BY DEF Follows
    <3> QED BY <2>1, <2>3, <3>4, <3>5, <3>6 DEF Holds
  <2> QED BY <2>2, <2>3
<1>3. Prepared'
  <2> SUFFICES ASSUME d.pc \in {"reserve", "journal"} PROVE Prepared'
    BY DEF Prepared
  <2>1. Prepared /\ d.job \in Jobs
    BY DEF IInv, DaemonInv, Prepared, TypeInv, Daemons
  <2>2. PICK j \in Jobs : j = d.job
    BY <2>1
  <2>3. JobOK(j) /\ OneOriginal(j)
    BY <2>1, <2>2 DEF Prepared, OneOriginal
  <2>4. JobOK(j)' /\ OneOriginal(j)'
    BY <2>3
  <2>5. JobOK(d.job)'
    BY <2>2, <2>4 DEF JobOK
  <2>6. d.job.of \notin removed' => \A r \in Inbox' : r.of = d.job.of => r.wraps = d.job.wraps
    BY <2>2, <2>4 DEF OneOriginal
  <2>7. validity' = validity
    BY DEF Follows
  <2> QED BY <1>1, <2>1, <2>5, <2>6, <2>7 DEF Prepared
<1>4. BatchShape'
  <2>1. BatchShape
    BY DEF IInv, DaemonInv
  <2> QED BY <1>1, <2>1 DEF BatchShape, Follows, Live, Fresh
<1>5. AboutCurrent'
  <2>1. MsgJob /\ d.pc = "release" /\ Fresh => \A r \in Inbox' : r.uid # Current.uid
    <3> SUFFICES ASSUME MsgJob, d.pc = "release", Fresh, NEW r \in Inbox' PROVE r.uid # Current.uid
      OBVIOUS
    <3>1. Batching /\ Current \in d.batch
      BY CurrentIn DEF Batching, IInv, DaemonInv, BatchShape
    <3>2. \A q \in Inbox : q.uid # Current.uid
      BY DEF IInv, DaemonInv, AboutCurrent
    <3> QED BY <3>1, <3>2, Above DEF Follows, Known
  <2>2. AboutCurrent
    BY DEF IInv, DaemonInv
  <2> QED BY <1>1, <2>1, <2>2 DEF AboutCurrent
<1>6. BatchMail' /\ Covered'
  <2>1. CASE d.pc # "release"
    BY <1>1, <2>1, BatchKept DEF TypeInv
  <2>2. CASE ~(Batching /\ Fresh)
    BY <1>1, <2>2 DEF BatchMail, Covered
  <2>3. CASE d.pc = "release" /\ Batching /\ Fresh
    <3>1. BatchMail /\ Covered /\ file = NoJob
      BY <2>3 DEF IInv, DaemonInv, Holds
    <3>2. \A e \in d.batch : e.uid \notin processed' /\ e.of \notin removed' => decided'[e.of] = 0
      BY <2>3, <3>1 DEF BatchMail, Follows
    <3>3. \A e \in d.batch, r \in Inbox' : r.uid = e.uid => r.of = e.of /\ r.wraps = e.wraps
      BY <2>3, <3>1, Above DEF BatchMail, Follows, Known
    <3>4. \A e \in d.batch, r \in Inbox' : r.of = e.of /\ e.of \notin removed' => r.uid = e.uid \/ e = Current
      BY <2>3, <3>1 DEF BatchMail, Follows, Known
    <3>5. d.next.uid < uidNext' /\ d.from.uid <= d.next.uid /\ \A e \in d.batch : e.uid <= d.next.uid
      <4>1. d.next.uid < uidNext /\ d.from.uid <= d.next.uid /\ \A e \in d.batch : e.uid <= d.next.uid
        BY <2>3, <3>1 DEF BatchMail
      <4>2. uidNext \in Nat /\ d.next.uid \in Nat /\ uidNext' \in Nat
        BY DEF IInv, TypeInv, WorldTypes, Daemons, Points
      <4> QED BY <4>1, <4>2 DEF Follows
    <3>6. BatchMail'
      BY <1>1, <2>3, <3>1, <3>2, <3>3, <3>4, <3>5 DEF BatchMail
    <3>7. Covered'
      BY <1>1, <2>3, <3>1, Above DEF Covered, Follows, Known, Settled
    <3> QED BY <3>6, <3>7
  <2> QED BY <2>1, <2>2, <2>3
<1> QED BY <1>1, <1>2, <1>3, <1>4, <1>5, <1>6 DEF IInv, DaemonInv

LEMMA ArriveKeeps ==
  ASSUME IInv, NEW m \in Msgs, NEW kind \in Kinds, Arrive(m, kind)
  PROVE  IInv'
<1> USE DEF owner, store, ghost
<1>1. PICK s : s = [uid |-> uidNext, of |-> m, kind |-> kind, wraps |-> 0, unseen |-> TRUE, folder |-> "INBOX", label |-> FALSE]
  OBVIOUS
<1>2. s.folder = "INBOX" /\ s.uid = uidNext /\ s.of = m /\ s.of \notin Arrived
  BY <1>1 DEF Arrive, Arrived
<1>3. s \in Records
  <2>1. uidNext \in Nat /\ kind \in Text
    BY DEF IInv, TypeInv, WorldTypes, Text
  <2> QED BY <1>1, <2>1 DEF Records
<1>4. box' = box \cup {s} /\ uidNext' = uidNext + 1
  BY <1>1 DEF Arrive
<1>5. UNCHANGED <<validity, key, reserved, encrypting, file, checkpoint, processed, decided, unrecorded, adrift, removed, d>>
  BY DEF Arrive
<1>6. WorldTypes' /\ World' /\ Follows /\ Inbox' = Inbox \cup {s}
  BY <1>2, <1>3, <1>4, <1>5, NewMail
<1>7. \A j \in Jobs : JobOK(j) => /\ JobOK(j)' /\ (CopyOK(j) => CopyOK(j)') /\ (Gone(j) => Gone(j)')
                                  /\ (OneOriginal(j) => OneOriginal(j)')
  <2> SUFFICES ASSUME NEW j \in Jobs, JobOK(j)
               PROVE  /\ JobOK(j)' /\ (CopyOK(j) => CopyOK(j)') /\ (Gone(j) => Gone(j)')
                      /\ (OneOriginal(j) => OneOriginal(j)')
    OBVIOUS
  <2>1. uidNext \in Nat /\ j.uid \in Nat /\ j.repl \in Nat /\ s.of # j.of /\ Arrived' = Arrived \cup {s.of}
    BY <1>2, <1>4, <1>5 DEF IInv, TypeInv, WorldTypes, Jobs, JobOK, Arrived
  <2>2. JobOK(j)'
    BY <1>2, <1>4, <1>5, <1>6, <2>1 DEF JobOK
  <2>3. CopyOK(j) => CopyOK(j)'
    BY <1>2, <1>4, <1>5, <1>6, <2>1 DEF CopyOK
  <2>4. Gone(j) => Gone(j)'
    BY <1>2, <1>4, <1>5, <1>6, <2>1 DEF Gone, JobOK
  <2>5. OneOriginal(j) => OneOriginal(j)'
    BY <1>2, <1>5, <1>6, <2>1 DEF OneOriginal
  <2> QED BY <2>2, <2>3, <2>4, <2>5
<1>8. \A r \in Inbox : r.of \in removed' \/ \E q \in Inbox' : q.uid = r.uid
  BY <1>6
<1> QED BY <1>5, <1>6, <1>7, <1>8, EnvKeeps

(* The mail shrinks, or nothing of it changes.                              *)
LEMMA ShrinkingKeeps ==
  ASSUME IInv, UNCHANGED <<d, file, checkpoint, processed, decided, unrecorded>>, Shrinks, WorldTypes',
         \A r \in Inbox : r.of \in removed' \/ \E q \in Inbox' : q.uid = r.uid,
         reserved => reserved' /\ key' = key
  PROVE  IInv'
<1>1. World'
  <2>1. CASE key' = key
    BY <2>1, WorldKept DEF Kept, IInv, World, Journal
  <2>2. CASE key' # key
    <3>1. file = NoJob
      BY <2>2 DEF IInv, World, Journal
    <3>2. Namespaces' /\ Uids' /\ OneInInbox' /\ Journal' /\ Passed'
      BY <3>1 DEF IInv, World, Namespaces, Uids, OneInInbox, Journal, Passed, Shrinks, Known, Live, Settled
    <3>3. \A r \in Inbox : r.of \in Msgs
      BY DEF IInv, TypeInv, WorldTypes, Records, Inbox
    <3>4. Decisions'
      BY <3>1, <3>3 DEF IInv, World, Decisions, Shrinks, Known, Live
    <3> QED BY <3>2, <3>4 DEF World
  <2> QED BY <2>1, <2>2
<1>2. \A j \in Jobs : JobOK(j) => /\ JobOK(j)' /\ (CopyOK(j) => CopyOK(j)') /\ (Gone(j) => Gone(j)')
                                  /\ (OneOriginal(j) => OneOriginal(j)')
  <2> SUFFICES ASSUME NEW j \in Jobs, JobOK(j)
               PROVE  /\ JobOK(j)' /\ (CopyOK(j) => CopyOK(j)') /\ (Gone(j) => Gone(j)')
                      /\ (OneOriginal(j) => OneOriginal(j)')
    OBVIOUS
  <2>1. OneOriginal(j) => OneOriginal(j)'
    BY DEF OneOriginal, Shrinks, Known
  <2> QED BY <2>1, JobKept
<1>3. Follows
  BY ShrinksFollows DEF IInv
<1> QED BY <1>1, <1>2, <1>3, EnvKeeps

LEMMA OtherClientRemovesKeeps ==
  ASSUME IInv, NEW r \in box, OtherClientRemoves(r)
  PROVE  IInv'
<1> USE DEF owner, store
<1>1. /\ box' = box \ {r} /\ removed' = removed \cup {r.of}
      /\ UNCHANGED <<validity, uidNext, key, reserved, encrypting, file, checkpoint, processed, decided, unrecorded, adrift, d>>
  BY DEF OtherClientRemoves
<1>2. Inbox' = Inbox \ {r}
  BY <1>1 DEF Inbox
<1>3. Shrinks
  BY <1>1, <1>2 DEF Shrinks, Known, Arrived
<1>4. WorldTypes'
  BY <1>1, FS_Subset DEF IInv, TypeInv, WorldTypes
<1>5. \A q \in Inbox : q.of \in removed' \/ \E p \in Inbox' : p.uid = q.uid
  BY <1>1, <1>2
<1> QED BY <1>1, <1>3, <1>4, <1>5, ShrinkingKeeps

LEMMA OwnerKeeps ==
  ASSUME IInv, ChangeKey \/ SetIncoming
  PROVE  IInv'
<1> USE DEF mail, store, ghost
<1>1. UNCHANGED <<mail, reserved, file, checkpoint, processed, decided, unrecorded, adrift, removed, d>>
  BY DEF ChangeKey, SetIncoming
<1>2. (reserved => key' = key) /\ key' \in Nat /\ encrypting' \in BOOLEAN
  <2>1. (reserved => key' = key) /\ key' \in Nat
    BY DEF ChangeKey, SetIncoming, IInv, TypeInv, WorldTypes
  <2>2. CASE ChangeKey
    BY <2>1, <2>2 DEF ChangeKey, IInv, TypeInv, WorldTypes
  <2>3. CASE SetIncoming
    BY <2>1, <2>3 DEF SetIncoming
  <2> QED BY <2>2, <2>3
<1>3. Shrinks /\ Inbox' = Inbox
  BY <1>1, SameMail DEF Inbox
<1>4. WorldTypes'
  BY <1>1, <1>2 DEF IInv, TypeInv, WorldTypes
<1> QED BY <1>1, <1>2, <1>3, <1>4, ShrinkingKeeps

LEMMA CrashKeeps ==
  ASSUME IInv, Crash
  PROVE  IInv'
<1> USE DEF mail, owner, store, ghost
<1>1. UNCHANGED <<mail, key, reserved, encrypting, file, checkpoint, processed, decided, unrecorded, adrift, removed>> /\ d' = Idle
  BY DEF Crash
<1>2. Shrinks /\ Kept /\ WorldTypes'
  BY <1>1, SameMail DEF Kept, IInv, TypeInv, WorldTypes
<1>3. World'
  BY <1>1, <1>2, WorldKept DEF IInv, World, Journal
<1> QED BY <1>1, <1>2, <1>3, IdleKeeps, IdleType DEF TypeInv

(* The new UIDs tell apart what the old ones did.                           *)
LEMMA RankTells ==
  ASSUME IInv, NEW r \in Inbox, NEW q \in Inbox,
         Cardinality({x \in Inbox : x.uid >= r.uid}) = Cardinality({x \in Inbox : x.uid >= q.uid})
  PROVE  r.uid = q.uid
<1> DEFINE above(u) == {x \in Inbox : x.uid >= u}
<1>1. IsFiniteSet(Inbox) /\ \A x \in Inbox : x.uid \in Nat
  <2>1. box \subseteq Records /\ IsFiniteSet(box) /\ Inbox \subseteq box
    BY DEF Inbox, IInv, TypeInv, WorldTypes
  <2> QED BY <2>1, FS_Subset DEF Records
<1>2. ASSUME NEW x \in Inbox, NEW y \in Inbox, x.uid < y.uid PROVE Cardinality(above(x.uid)) # Cardinality(above(y.uid))
  <2>1. /\ above(y.uid) \subseteq above(x.uid) /\ x \in above(x.uid) /\ x \notin above(y.uid)
        /\ above(x.uid) \subseteq Inbox
    BY <1>1, <1>2
  <2> HIDE DEF above
  <2>2. IsFiniteSet(above(x.uid))
    BY <1>1, <2>1, FS_Subset
  <2>3. Cardinality(above(y.uid)) = Cardinality(above(x.uid)) => above(y.uid) = above(x.uid)
    BY <2>1, <2>2, FS_Subset
  <2> QED BY <2>1, <2>3
<1>3. r.uid < q.uid \/ q.uid < r.uid \/ r.uid = q.uid
  BY <1>1
<1>4. Cardinality(above(r.uid)) = Cardinality(above(q.uid))
  OBVIOUS
<1> HIDE DEF above
<1> QED BY <1>2, <1>3, <1>4

LEMMA RenumberKeeps ==
  ASSUME IInv, Renumber
  PROVE  IInv' /\ Arrived \subseteq Arrived'
<1> USE DEF owner, store
<1>0. /\ UNCHANGED <<key, reserved, encrypting, file, checkpoint, processed, d, removed>>
      /\ validity' = validity + 1 /\ unrecorded' = {} /\ decided' = [m \in Msgs |-> 0]
      /\ validity \in Nat \ {0} /\ checkpoint.ns \in Nat /\ checkpoint.ns <= validity /\ d \in Daemons
  BY DEF Renumber, IInv, TypeInv, WorldTypes, World, Namespaces, Points
<1>1. /\ checkpoint'.ns # validity' /\ adrift' \in BOOLEAN
      /\ Live' => processed = {} /\ file = NoJob /\ d.pc = "idle"
  BY <1>0 DEF Live, Renumber, At
<1> DEFINE above(r) == {q \in Inbox : q.uid >= r.uid}
           rank(r) == Cardinality(above(r))
           re(r) == IF r \in Inbox THEN [r EXCEPT !.uid = rank(r)] ELSE r
           f == [r \in box |-> re(r)]
<1>2. box' = {re(r) : r \in box} /\ uidNext' = Cardinality(Inbox) + 1
  BY DEF Renumber
<1>3. box \subseteq Records /\ IsFiniteSet(box) /\ Inbox \subseteq box /\ IsFiniteSet(Inbox) /\ Cardinality(Inbox) \in Nat
      /\ \A r \in Inbox : r.uid \in Nat
  <2>1. box \subseteq Records /\ IsFiniteSet(box) /\ Inbox \subseteq box
    BY DEF Inbox, IInv, TypeInv, WorldTypes
  <2> QED BY <2>1, FS_Subset, FS_CardinalityType DEF Records
<1>4. \A r \in Inbox : rank(r) \in Nat /\ 0 < rank(r) /\ rank(r) < uidNext'
  <2> SUFFICES ASSUME NEW r \in Inbox PROVE rank(r) \in Nat /\ 0 < rank(r) /\ rank(r) < uidNext'
    OBVIOUS
  <2>1. above(r) \subseteq Inbox /\ r \in above(r)
    BY <1>3
  <2> HIDE DEF above
  <2>2. IsFiniteSet(above(r)) /\ Cardinality(above(r)) <= Cardinality(Inbox) /\ Cardinality(above(r)) \in Nat
    BY <1>3, <2>1, FS_Subset, FS_CardinalityType
  <2>3. Cardinality(above(r)) # 0
    BY <2>1, <2>2, FS_EmptySet
  <2> QED BY <1>2, <1>3, <2>2, <2>3
<1>5. \A r, q \in Inbox : rank(r) = rank(q) => r.uid = q.uid
  BY RankTells
<1>6. \A r, q \in Inbox : r.uid = q.uid => rank(r) = rank(q)
  OBVIOUS
<1>7. \A r \in box : /\ re(r) \in Records /\ re(r).of = r.of /\ re(r).wraps = r.wraps /\ re(r).kind = r.kind
                     /\ re(r).folder = r.folder
                     /\ r \in Inbox => re(r).uid = rank(r)
  <2> HIDE DEF rank
  <2>1. \A r \in Inbox : [r EXCEPT !.uid = rank(r)] \in Records
    BY <1>3, <1>4 DEF Records
  <2> QED BY <1>3, <2>1 DEF Records
<1> HIDE DEF rank, above, re
<1>8. \A p \in Inbox' : \E r \in Inbox :
          p.of = r.of /\ p.wraps = r.wraps /\ p.kind = r.kind /\ p.uid = rank(r)
  <2> SUFFICES ASSUME NEW p \in box', p.folder = "INBOX"
               PROVE  \E r \in Inbox : p.of = r.of /\ p.wraps = r.wraps /\ p.kind = r.kind /\ p.uid = rank(r)
    BY DEF Inbox
  <2>1. PICK r \in box : p = re(r)
    BY <1>2
  <2>2. r \in Inbox
    BY <1>7, <2>1 DEF Inbox
  <2> QED BY <1>7, <2>1, <2>2
<1>9. Arrived' = Arrived
  <2>1. {p.of : p \in box'} = {r.of : r \in box}
    BY <1>2, <1>7
  <2> QED BY <1>0, <2>1 DEF Arrived
<1>10. WorldTypes'
  <2>1. box' \subseteq Records
    BY <1>2, <1>7
  <2>2. f \in Surjection(box, box')
    BY <1>2 DEF Surjection
  <2>3. IsFiniteSet(box')
    BY <1>3, <2>2, FS_Surjection
  <2>4. uidNext' \in Nat \ {0} /\ validity' \in Nat \ {0} /\ decided' \in [Msgs -> Nat]
    BY <1>0, <1>2, <1>3
  <2> QED BY <1>0, <1>1, <2>1, <2>3, <2>4 DEF IInv, TypeInv, WorldTypes
<1>11. \A j : j.ns \in 1..validity /\ JobOK(j) => JobOK(j)'
  <2> SUFFICES ASSUME NEW j, j.ns \in 1..validity, JobOK(j) PROVE JobOK(j)'
    OBVIOUS
  <2>1. j.ns # validity'
    BY <1>0
  <2> QED BY <1>0, <1>8, <1>9, <2>1 DEF JobOK
<1>12. \A j : j.ns \in 1..validity => CopyOK(j)' /\ (Gone(j) => Gone(j)') /\ (OneOriginal(j) => OneOriginal(j)')
  <2> SUFFICES ASSUME NEW j, j.ns \in 1..validity
               PROVE  CopyOK(j)' /\ (Gone(j) => Gone(j)') /\ (OneOriginal(j) => OneOriginal(j)')
    OBVIOUS
  <2>1. j.ns # validity'
    BY <1>0
  <2> QED BY <1>0, <1>8, <2>1 DEF CopyOK, Gone, OneOriginal
<1>13. Namespaces'
  BY <1>0, <1>1 DEF IInv, World, Namespaces
<1>14. Uids'
  <2>1. \A p, q \in Inbox' : p.uid = q.uid => p.of = q.of /\ p.wraps = q.wraps /\ p.kind = q.kind
    BY <1>5, <1>8 DEF IInv, World, Uids
  <2>2. \A p \in Inbox' : 0 < p.uid /\ p.uid < uidNext'
    BY <1>4, <1>8
  <2> QED BY <1>0, <1>1, <2>1, <2>2 DEF Uids
<1>15. OneInInbox'
  BY <1>0, <1>6, <1>8 DEF IInv, World, OneInInbox
<1>16. Journal'
  <2> SUFFICES ASSUME file # NoJob PROVE Journal'
    BY <1>0 DEF Journal
  <2>1. PICK j : j = file
    OBVIOUS
  <2>2. j.ns \in 1..validity /\ JobOK(j) /\ (j.repl # 0 => Gone(j)) /\ reserved /\ key = file.fp
    BY <2>1 DEF IInv, World, Journal, Namespaces
  <2>3. JobOK(j)' /\ CopyOK(j)' /\ (j.repl # 0 => Gone(j)')
    BY <1>11, <1>12, <2>2
  <2>4. JobOK(file)' /\ CopyOK(file)' /\ (file.repl # 0 => Gone(file)')
    BY <1>0, <2>1, <2>3 DEF JobOK, CopyOK, Gone
  <2> QED BY <1>0, <2>2, <2>4 DEF Journal
<1>17. Decisions' /\ Passed'
  <2>1. \A m \in Msgs : decided'[m] = 0
    BY <1>0
  <2>2. \A r \in Inbox' : r.of \in Msgs
    BY <1>10 DEF Inbox, WorldTypes, Records
  <2>3. file # NoJob => file.of \in Msgs
    BY DEF IInv, TypeInv, WorldTypes, Jobs
  <2> QED BY <1>0, <1>1, <2>1, <2>2, <2>3 DEF Decisions, Passed
<1>18. (MsgJob' <=> MsgJob) /\ (Batching' <=> Batching) /\ Current' = Current
  BY <1>0 DEF MsgJob, Batching, Current
<1>19. Batching => ~Fresh'
  BY <1>0 DEF IInv, DaemonInv, BatchShape, Fresh
<1>20. BatchMail' /\ Covered'
  BY <1>18, <1>19 DEF BatchMail, Covered
<1>21. BatchShape'
  <2>1. BatchShape
    BY DEF IInv, DaemonInv
  <2>2. Batching => d.next.ns \in 1..validity'
    BY <1>0, <2>1 DEF BatchShape
  <2>3. Batching => ~Live'
    BY <1>1 DEF Batching, MsgJob, AtMail, AtJob, Resuming
  <2> QED BY <1>0, <1>9, <1>18, <2>1, <2>2, <2>3 DEF BatchShape
<1>22. AboutCurrent'
  <2>1. AboutCurrent /\ (MsgJob => Batching)
    BY DEF IInv, DaemonInv, Batching
  <2> QED BY <1>0, <1>18, <1>19, <2>1 DEF AboutCurrent
<1>23. Holds'
  <2>1. Holds
    BY DEF IInv, DaemonInv
  <2>2. CASE d.pc \notin {"remove", "saveUID"}
    BY <1>0, <2>1, <2>2 DEF Holds
  <2>3. CASE d.pc \in {"remove", "saveUID"}
    <3>1. PICK j \in Jobs : j = d.job /\ JobOK(j) /\ SameJob(j, file) /\ file # NoJob
      BY <2>3, AtHand DEF AtJob
    <3>2. j.ns \in 1..validity /\ (d.pc = "saveUID" => Gone(j))
      BY <2>1, <2>3, <3>1 DEF Holds, SameJob, IInv, World, Namespaces
    <3>3. CopyOK(j)' /\ (d.pc = "saveUID" => Gone(j)') /\ j.ns # validity'
      BY <1>0, <1>12, <3>2
    <3>4. CopyOK(d.job)' /\ (d.pc = "saveUID" => Gone(d.job)') /\ d'.job.ns # validity'
      BY <1>0, <3>1, <3>3 DEF CopyOK, Gone
    <3> QED BY <1>0, <2>1, <2>3, <3>4 DEF Holds
  <2> QED BY <2>2, <2>3
<1>24. Prepared'
  <2> SUFFICES ASSUME d.pc \in {"reserve", "journal"} PROVE Prepared'
    BY <1>0 DEF Prepared
  <2>1. Prepared /\ Batching
    BY DEF IInv, DaemonInv, Batching, AtMail
  <2>2. PICK j : j = d.job
    OBVIOUS
  <2>3. JobOK(j) /\ OneOriginal(j) /\ j.ns \in 1..validity
    BY <2>1, <2>2 DEF Prepared, OneOriginal
  <2>4. JobOK(j)' /\ OneOriginal(j)' /\ j.ns \in 1..validity'
    BY <1>0, <1>11, <1>12, <2>3
  <2>5. JobOK(d.job)'
    BY <1>0, <2>2, <2>4 DEF JobOK
  <2>6. d.job.of \notin removed' => \A r \in Inbox' : r.of = d.job.of => r.wraps = d.job.wraps
    BY <2>2, <2>4 DEF OneOriginal
  <2> QED BY <1>0, <1>18, <1>19, <2>1, <2>2, <2>4, <2>5, <2>6 DEF Prepared
<1> QED BY <1>0, <1>9, <1>10, <1>13, <1>14, <1>15, <1>16, <1>17, <1>20, <1>21, <1>22, <1>23, <1>24
        DEF IInv, World, DaemonInv, TypeInv

-----------------------------------------------------------------------------
(* Every step keeps the invariant, and no message disappears.               *)
LEMMA StepKeeps ==
  ASSUME IInv, [Next]_vars
  PROVE  IInv' /\ Arrived \subseteq Arrived'
<1> USE DEF vars, mail, owner, store, ghost
<1>1. CASE UNCHANGED vars
  <2>1. Shrinks /\ WorldTypes' /\ Inbox' = Inbox
    BY <1>1, SameMail DEF IInv, TypeInv, WorldTypes, Inbox
  <2>2. UNCHANGED <<d, file, checkpoint, processed, decided, unrecorded, adrift, reserved, key>>
    BY <1>1
  <2>3. \A r \in Inbox : r.of \in removed' \/ \E q \in Inbox' : q.uid = r.uid
    BY <2>1
  <2>4. IInv'
    BY <2>1, <2>2, <2>3, ShrinkingKeeps
  <2> QED BY <2>1, <2>4 DEF Shrinks
<1>2. ASSUME box \subseteq box', removed \subseteq removed' PROVE Arrived \subseteq Arrived'
  BY <1>2 DEF Arrived
<1>3. CASE Tick
  BY <1>2, <1>3, TickKeeps DEF Tick
<1>4. CASE Resume
  <2>1. CASE NothingToResume
    BY <1>2, <2>1, NothingToResumeKeeps DEF NothingToResume
  <2>2. CASE ResumeJob
    BY <1>2, <2>2, ResumeJobKeeps DEF ResumeJob
  <2>3. CASE Upload
    <3>1. box \subseteq box' /\ removed' = removed
      BY <2>3 DEF Upload
    <3> QED BY <1>2, <2>3, <3>1, UploadKeeps
  <2>4. CASE RemoveOriginal
    BY <2>4, RemoveOriginalKeeps
  <2>5. CASE SaveReplacementUID
    BY <1>2, <2>5, SaveReplacementUIDKeeps DEF SaveReplacementUID
  <2>6. CASE Replaced
    BY <1>2, <2>6, ReplacedKeeps DEF Replaced
  <2>7. CASE ApplyIncomingAction
    BY <2>7, ApplyIncomingActionKeeps
  <2>8. CASE SaveAction
    BY <1>2, <2>8, SaveActionKeeps DEF SaveAction
  <2>9. CASE RecordReplacementDecision
    BY <1>2, <2>9, RecordReplacementDecisionKeeps DEF RecordReplacementDecision
  <2>10. CASE RemoveJournal
    BY <1>2, <2>10, RemoveJournalKeeps DEF RemoveJournal
  <2>11. CASE ReleaseIncomingEncryption
    BY <1>2, <2>11, ReleaseKeeps DEF ReleaseIncomingEncryption
  <2> QED BY <1>4, <2>1, <2>2, <2>3, <2>4, <2>5, <2>6, <2>7, <2>8, <2>9, <2>10, <2>11 DEF Resume
<1>5. CASE Batch
  <2>1. CASE FetchUnread
    BY <1>2, <2>1, FetchUnreadKeeps DEF FetchUnread
  <2>2. CASE Look
    BY <1>2, <2>2, LookKeeps DEF Look
  <2>3. CASE HandleMessage
    BY <2>3, HandleMessageKeeps
  <2>4. CASE ApplyKeywords
    BY <2>4, ApplyKeywordsKeeps
  <2>5. CASE Decide
    BY <1>2, <2>5, DecideKeeps DEF Decide
  <2>6. CASE EncryptIncoming
    BY <1>2, <2>6, EncryptIncomingKeeps DEF EncryptIncoming
  <2>7. CASE ReserveIncomingEncryption
    BY <1>2, <2>7, ReserveKeeps DEF ReserveIncomingEncryption
  <2>8. CASE WriteJournal
    BY <1>2, <2>8, WriteJournalKeeps DEF WriteJournal
  <2>9. CASE RecordDeferral
    BY <1>2, <2>9, RecordDeferralKeeps DEF RecordDeferral
  <2>10. CASE DeferEncryption
    BY <1>2, <2>10, DeferEncryptionKeeps DEF DeferEncryption
  <2>11. CASE Retire
    BY <1>2, <2>11, RetireKeeps DEF Retire
  <2>12. CASE CommitCheckpoint
    BY <1>2, <2>12, CommitCheckpointKeeps DEF CommitCheckpoint
  <2> QED BY <1>5, <2>1, <2>2, <2>3, <2>4, <2>5, <2>6, <2>7, <2>8, <2>9, <2>10, <2>11, <2>12 DEF Batch
<1>6. CASE Around
  <2>1. ASSUME NEW m \in Msgs, NEW kind \in Kinds, Arrive(m, kind)
        PROVE  IInv' /\ Arrived \subseteq Arrived'
    BY <1>2, <2>1, ArriveKeeps DEF Arrive
  <2>2. ASSUME NEW r \in box, OtherClientRemoves(r)
        PROVE  IInv' /\ Arrived \subseteq Arrived'
    <3>1. box' = box \ {r} /\ removed' = removed \cup {r.of}
      BY <2>2 DEF OtherClientRemoves
    <3>2. Arrived \subseteq Arrived'
      BY <3>1 DEF Arrived
    <3> QED BY <2>2, <3>2, OtherClientRemovesKeeps
  <2>3. CASE Renumber
    BY <2>3, RenumberKeeps
  <2>4. CASE ChangeKey
    BY <1>2, <2>4, OwnerKeeps DEF ChangeKey
  <2>5. CASE SetIncoming
    BY <1>2, <2>5, OwnerKeeps DEF SetIncoming
  <2>6. CASE Crash
    BY <1>2, <2>6, CrashKeeps DEF Crash
  <2> QED BY <1>6, <2>1, <2>2, <2>3, <2>4, <2>5, <2>6 DEF Around
<1> QED BY <1>1, <1>3, <1>4, <1>5, <1>6 DEF Next, Daemon

(***************************************************************************)
(* In every reachable state the mail, the journal, the store and the daemon *)
(* agree, whatever faults, crashes, other clients and renumberings happen   *)
(* (resumeIncomingEncryption, processBatch, fetchUnread).                   *)
(***************************************************************************)
THEOREM Agreement == Spec => []IInv
<1>1. IInv /\ [Next]_vars => IInv'
  BY StepKeeps
<1> QED BY <1>1, Initially, PTL DEF Spec

(***************************************************************************)
(* The checkpoint never passes unread mail that was neither decided nor     *)
(* retired, for any mail, any batch and any order of faults, unless the     *)
(* store is adrift: the mailbox was recreated before the store had a        *)
(* checkpoint to notice it by (NothingSkipped: commitCheckpoint,            *)
(* ClampCheckpoint, UIDNamespaceReset, ResetUIDNamespace).                  *)
(***************************************************************************)
THEOREM NothingIsSkipped == Spec => []NothingSkipped
<1>1. IInv => NothingSkipped
  BY DEF IInv, World, Passed, NothingSkipped, Unread
<1> QED BY <1>1, Agreement, PTL

(***************************************************************************)
(* The key of a replacement on file is the account's and reserved (KeyKept: *)
(* ReserveIncomingEncryption, mutateGuarded, finishIncomingJournal).        *)
(***************************************************************************)
THEOREM KeyIsKept == Spec => []KeyKept
<1>1. IInv => KeyKept
  BY DEF IInv, World, Journal, KeyKept
<1> QED BY <1>1, Agreement, PTL

(***************************************************************************)
(* In one UID namespace no message is decided twice, as itself or as its    *)
(* encrypted copy (DecidedOnce: RecordProcessedDecision,                    *)
(* RecordReplacementDecision, Seen).                                        *)
(***************************************************************************)
THEOREM NothingDecidedTwice == Spec => []DecidedOnce
<1>1. IInv => DecidedOnce
  BY DEF IInv, World, Decisions, DecidedOnce
<1> QED BY <1>1, Agreement, PTL

(***************************************************************************)
(* No step of the daemon loses a message: when the original is expunged its *)
(* encrypted copy is in INBOX (NothingLost: ReplaceIncoming).               *)
(***************************************************************************)
THEOREM NoMailIsLost == Spec => NothingLost
<1>1. IInv /\ [Next]_vars =>
        [\A m \in Msgs : (\E r \in box : r.of = m) => (m \in removed \/ \E r \in box : r.of = m)']_vars
  <2> SUFFICES ASSUME IInv, [Next]_vars, NEW m \in Msgs, NEW r \in box, r.of = m
               PROVE  (m \in removed \/ \E q \in box : q.of = m)'
    OBVIOUS
  <2>1. m \in Arrived'
    BY StepKeeps DEF Arrived
  <2> QED BY <2>1 DEF Arrived
<1> QED BY <1>1, Agreement, PTL DEF Spec, NothingLost

-----------------------------------------------------------------------------
(* One copy in all folders, while the mailbox keeps its UIDVALIDITY: what   *)
(* the batch knows then stays about the mail it was read from.              *)

CalmInv == IInv /\ validity = 1 /\ OneInBox

(* Mail that is removed or changed in place, but not moved.                 *)
Thins ==
  /\ \A p, q \in box' : p # q =>
        \E r, t \in box : /\ r # t /\ p.of = r.of /\ q.of = t.of /\ p.wraps = r.wraps /\ q.wraps = t.wraps
                          /\ p.folder = r.folder /\ q.folder = t.folder
  /\ removed \subseteq removed'

(* The journal is still about the message that has two copies.              *)
SameMessage == file # NoJob => file' # NoJob /\ file'.of = file.of

LEMMA ThinsKeeps ==
  ASSUME OneInBox, Thins, SameMessage
  PROVE  OneInBox'
<1> SUFFICES ASSUME NEW p \in box', NEW q \in box', p.of = q.of, p.of \notin removed', p # q
             PROVE  /\ p.folder = "INBOX" /\ q.folder = "INBOX" /\ p.wraps # q.wraps
                    /\ file' # NoJob /\ file'.of = p.of
  BY DEF OneInBox
<1>1. PICK r, t \in box : /\ r # t /\ p.of = r.of /\ q.of = t.of /\ p.wraps = r.wraps /\ q.wraps = t.wraps
                          /\ p.folder = r.folder /\ q.folder = t.folder
  BY DEF Thins
<1>2. r.of = t.of /\ r.of \notin removed
  BY <1>1 DEF Thins
<1> QED BY <1>1, <1>2 DEF OneInBox, SameMessage

LEMMA SameThins ==
  ASSUME UNCHANGED <<box, removed>>
  PROVE  Thins
BY DEF Thins

(* Mail of which there is one copy is moved out of INBOX.                   *)
LEMMA MovedKeeps ==
  ASSUME OneInBox, NEW S \in SUBSET box, NEW f \in [S -> Records], box' = (box \ S) \cup {f[r] : r \in S},
         \A r \in S : f[r].of = r.of, UNCHANGED <<removed, file>>,
         \A r \in S, q \in box : r.of = q.of /\ r.of \notin removed => r = q
  PROVE  OneInBox'
<1> SUFFICES ASSUME NEW p \in box', NEW q \in box', p.of = q.of, p.of \notin removed, p # q
             PROVE  /\ p.folder = "INBOX" /\ q.folder = "INBOX" /\ p.wraps # q.wraps
                    /\ file # NoJob /\ file.of = p.of
  BY DEF OneInBox
<1>1. \A x \in box' : x \in box \ S \/ \E r \in S : x = f[r] /\ x.of = r.of
  OBVIOUS
<1>2. CASE p \in box \ S /\ q \in box \ S
  BY <1>2 DEF OneInBox
<1>3. CASE p \in box \ S /\ \E r \in S : q = f[r] /\ q.of = r.of
  BY <1>3
<1>4. CASE q \in box \ S /\ \E r \in S : p = f[r] /\ p.of = r.of
  BY <1>4
<1>5. CASE (\E r \in S : p = f[r] /\ p.of = r.of) /\ (\E r \in S : q = f[r] /\ q.of = r.of)
  BY <1>5
<1> QED BY <1>1, <1>2, <1>3, <1>4, <1>5

(* Only a renumbering changes the UIDVALIDITY, to one that never was.       *)
LEMMA StaysCalm ==
  ASSUME IInv, [Next]_vars, validity' = 1
  PROVE  validity = 1 /\ ~Renumber
<1>1. ~Renumber
  <2>1. Renumber => validity' = validity + 1
    BY DEF Renumber
  <2>2. validity \in Nat \ {0}
    BY DEF IInv, TypeInv, WorldTypes
  <2> QED BY <2>1, <2>2
<1>2. CASE UNCHANGED vars \/ Tick
  BY <1>1, <1>2 DEF Tick, vars, mail
<1>3. CASE Resume
  BY <1>1, <1>3 DEF Resume, NothingToResume, ResumeJob, Upload, RemoveOriginal, SaveReplacementUID, Replaced,
     ApplyIncomingAction, SaveAction, RecordReplacementDecision, RemoveJournal, ReleaseIncomingEncryption, mail
<1>4. CASE Batch
  BY <1>1, <1>4 DEF Batch, FetchUnread, Look, HandleMessage, ApplyKeywords, Decide, EncryptIncoming, DeferEncryption,
     ReserveIncomingEncryption, WriteJournal, RecordDeferral, Retire, CommitCheckpoint, mail
<1>5. CASE Around
  BY <1>1, <1>5 DEF Around, Arrive, OtherClientRemoves, ChangeKey, SetIncoming, Crash, mail
<1> QED BY <1>2, <1>3, <1>4, <1>5 DEF Next, Daemon

(* Steps of the replacement that change the mail or the journal.            *)
LEMMA JobBox ==
  ASSUME CalmInv, Upload \/ RemoveOriginal \/ SaveReplacementUID \/ ApplyIncomingAction \/ SaveAction \/ RemoveJournal
  PROVE  OneInBox'
<1> USE DEF mail, owner, store, ghost
<1>0. IInv /\ OneInBox /\ d.pc \in AtJob /\ UNCHANGED removed
  BY DEF CalmInv, Upload, RemoveOriginal, SaveReplacementUID, ApplyIncomingAction, SaveAction, RemoveJournal, At, AtJob
<1>1. /\ d.job \in Jobs /\ d.job # NoJob /\ file \in Jobs /\ file # NoJob /\ SameJob(d.job, file) /\ JobOK(file)
  BY <1>0, AtHand
<1>2. d.pc \in {"act", "finish"} => file.repl # 0 /\ file.repl = d.job.repl /\ Gone(file)
  BY <1>0, <1>1 DEF IInv, DaemonInv, Holds, World, Journal
<1>3. d.pc \in {"act", "finish"} => \A r, q \in box : r.of = file.of /\ q.of = file.of /\ file.of \notin removed => r = q
  BY <1>0, <1>2 DEF OneInBox, Gone, Inbox
<1>4. CASE UNCHANGED <<box, file>>
  BY <1>0, <1>4, SameThins, ThinsKeeps DEF SameMessage
<1>5. CASE Upload
  <2>1. CASE UNCHANGED box
    BY <1>4, <1>5, <2>1 DEF Upload
  <2>2. CASE box' # box
    <3>1. /\ box' = box \cup Stored(d.job) /\ Found(d.job) = {} /\ file' = file
          /\ IF Holding(d.job.uid) = {} THEN Found(d.job) # {} ELSE Original(d.job) # {}
      BY <1>5, <2>2 DEF Upload
    <3>2. PICK o \in Original(d.job) : o \in box /\ o.folder = "INBOX" /\ o.of = d.job.of
      BY <3>1 DEF Original, Holding, Inbox
    <3>3. \A r \in box : r.of = d.job.of /\ r.of \notin removed => r.folder = "INBOX" /\ r.wraps # d.job.wraps + 1
      BY <1>0, <3>1, <3>2 DEF OneInBox, Found, CopyOf, Inbox
    <3>4. PICK s \in Stored(d.job) : Stored(d.job) = {s} /\ s.of = d.job.of /\ s.wraps = d.job.wraps + 1 /\ s.folder = "INBOX"
      <4>1. PICK s \in Stored(d.job) : Stored(d.job) = {s}
        BY DEF Stored
      <4>2. s.of = d.job.of /\ s.wraps = d.job.wraps + 1 /\ s.folder = "INBOX"
        BY <4>1 DEF Stored
      <4> QED BY <4>1, <4>2
    <3> QED BY <1>0, <1>1, <3>1, <3>3, <3>4 DEF OneInBox, SameJob
  <2> QED BY <2>1, <2>2
<1>6. CASE RemoveOriginal
  <2>1. box' \subseteq box /\ file' = file
    BY <1>6 DEF RemoveOriginal
  <2> QED BY <1>0, <2>1 DEF OneInBox
<1>7. CASE SaveReplacementUID \/ SaveAction
  <2>1. box' = box /\ file' # NoJob /\ file'.of = file.of
    <3>1. CASE SaveReplacementUID
      BY <1>1, <3>1 DEF SaveReplacementUID, Saves, SameJob
    <3>2. CASE SaveAction
      <4>1. PICK j : j = [d.job EXCEPT !.done = @ + 1]
        OBVIOUS
      <4>2. j \in Jobs /\ j.of = d.job.of
        BY <1>1, <4>1 DEF Jobs
      <4>3. file' \in {j, file} /\ box' = box
        BY <3>2, <4>1 DEF SaveAction, Saves
      <4> QED BY <1>1, <4>2, <4>3, PollerAssumption DEF SameJob
    <3> QED BY <1>7, <3>1, <3>2
  <2> QED BY <1>0, <2>1, SameThins, ThinsKeeps DEF SameMessage
<1>8. CASE RemoveJournal
  <2>1. box' = box /\ d.pc = "finish" /\ file' \in {NoJob, file}
    BY <1>8 DEF RemoveJournal, At
  <2>2. CASE file' = NoJob
    BY <1>0, <1>3, <2>1, <2>2 DEF OneInBox
  <2> QED BY <1>4, <2>1, <2>2
<1>9. CASE ApplyIncomingAction
  <2>1. d.pc = "act" /\ file' = file
    BY <1>9 DEF ApplyIncomingAction, At
  <2> DEFINE copy == CopyOf(d.job) \cap Holding(d.job.repl)
             act(r) == Acted(d.job.acts[d.job.done + 1], r)
             f == [r \in copy |-> act(r)]
  <2>2. CASE box' = (box \ copy) \cup {act(r) : r \in copy}
    <3>1. copy \in SUBSET box /\ box \subseteq Records
      BY <1>0 DEF CopyOf, IInv, TypeInv, WorldTypes
    <3>2. \A r \in Records : act(r) \in Records /\ act(r).of = r.of
      BY DEF Records, Acted
    <3>3. f \in [copy -> Records] /\ \A r \in copy : f[r] = act(r)
      BY <3>1, <3>2
    <3>4. {act(r) : r \in copy} = {f[r] : r \in copy}
      OBVIOUS
    <3>5. \A r \in copy : r.of = file.of
      BY <1>1 DEF CopyOf, SameJob
    <3> HIDE DEF copy, act, f
    <3>6. \A r \in copy : f[r].of = r.of
      BY <3>1, <3>2, <3>3
    <3>7. \A r \in copy, q \in box : r.of = q.of /\ r.of \notin removed => r = q
      BY <1>3, <2>1, <3>1, <3>5
    <3>8. box' = (box \ copy) \cup {f[r] : r \in copy}
      BY <2>2, <3>4
    <3> QED BY <1>0, <2>1, <3>1, <3>3, <3>6, <3>7, <3>8, MovedKeeps
  <2>3. box' = (box \ copy) \cup {act(r) : r \in copy} \/ UNCHANGED box
    BY <1>9 DEF ApplyIncomingAction
  <2> QED BY <1>4, <2>1, <2>2, <2>3
<1> QED BY <1>5, <1>6, <1>7, <1>8, <1>9

(* Steps with the mail at hand, and around the daemon, that change the mail. *)
LEMMA MailBox ==
  ASSUME CalmInv, \/ HandleMessage \/ ApplyKeywords
                  \/ \E m \in Msgs, kind \in Kinds : Arrive(m, kind)
                  \/ \E r \in box : OtherClientRemoves(r)
  PROVE  OneInBox'
<1> USE DEF owner, store, ghost
<1>0. IInv /\ OneInBox /\ validity = 1 /\ file' = file
  BY DEF CalmInv, HandleMessage, ApplyKeywords, Arrive, OtherClientRemoves
<1>1. CASE HandleMessage
  <2>1. d.pc = "handle" /\ d.pc \in AtMail /\ removed' = removed /\ (UNCHANGED box \/ ApplyOutcome(Current.uid))
    BY <1>1 DEF HandleMessage, At, AtMail
  <2>2. Current \in d.batch /\ d \in Daemons
    BY <1>0, <2>1, MailAtHand
  <2>3. Batching /\ ~MsgJob /\ Fresh
    BY <1>0, <2>1 DEF Batching, MsgJob, AtMail, AtJob, Resuming, IInv, DaemonInv, BatchShape, Fresh
  <2> DEFINE mine == Holding(Current.uid)
             moved(r) == [r EXCEPT !.folder = "other", !.uid = 0]
             read(r) == [r EXCEPT !.unseen = FALSE]
             f == [r \in mine |-> moved(r)]
             g == [r \in mine |-> read(r)]
  <2>4. mine \in SUBSET box /\ box \subseteq Records /\ \A r \in mine : r \in Inbox /\ r.uid = Current.uid
    BY <1>0 DEF Holding, Inbox, IInv, TypeInv, WorldTypes
  <2>5. \A r \in mine, q \in box : r.of = q.of /\ r.of \notin removed => r = q
    <3> SUFFICES ASSUME NEW r \in mine, NEW q \in box, r.of = q.of, r.of \notin removed, r # q PROVE FALSE
      OBVIOUS
    <3>1. r.of = Current.of
      BY <1>0, <2>2, <2>3, <2>4 DEF IInv, DaemonInv, BatchMail
    <3>2. file # NoJob /\ file.of = r.of
      BY <1>0, <2>4 DEF OneInBox
    <3> QED BY <1>0, <2>2, <2>3, <3>1, <3>2 DEF IInv, DaemonInv, BatchMail
  <2>6. \A r \in Records : moved(r) \in Records /\ moved(r).of = r.of /\ read(r) \in Records /\ read(r).of = r.of
    BY DEF Records
  <2>7. f \in [mine -> Records] /\ g \in [mine -> Records]
    BY <2>4, <2>6
  <2>8. \A r \in mine : f[r].of = r.of /\ g[r].of = r.of
    BY <2>4, <2>6
  <2>9. \/ UNCHANGED box
        \/ box' = (box \ mine) \cup {f[r] : r \in mine}
        \/ box' = (box \ mine) \cup {g[r] : r \in mine}
    <3>1. mine \subseteq box
      BY <2>4
    <3>2. {f[r] : r \in mine} = {moved(r) : r \in mine} /\ {g[r] : r \in mine} = {read(r) : r \in mine}
      OBVIOUS
    <3>3. UNCHANGED box \/ \E after \in {mine, {moved(r) : r \in mine}, {read(r) : r \in mine}} : box' = (box \ mine) \cup after
      BY <2>1 DEF ApplyOutcome
    <3>4. (box \ mine) \cup mine = box
      BY <3>1
    <3> HIDE DEF mine, moved, read, f, g
    <3> QED BY <3>2, <3>3, <3>4
  <2> HIDE DEF mine, moved, read, f, g
  <2>10. CASE UNCHANGED box
    BY <1>0, <2>1, <2>10, SameThins, ThinsKeeps DEF SameMessage
  <2>11. CASE box' = (box \ mine) \cup {f[r] : r \in mine}
    BY <1>0, <2>1, <2>4, <2>5, <2>7, <2>8, <2>11, MovedKeeps
  <2>12. CASE box' = (box \ mine) \cup {g[r] : r \in mine}
    BY <1>0, <2>1, <2>4, <2>5, <2>7, <2>8, <2>12, MovedKeeps
  <2> QED BY <2>9, <2>10, <2>11, <2>12
<1>2. CASE ApplyKeywords
  <2> DEFINE lab(r) == IF r \in Holding(Current.uid) THEN [r EXCEPT !.label = TRUE] ELSE r
  <2>1. removed' = removed /\ (UNCHANGED box \/ box' = {lab(r) : r \in box})
    BY <1>2 DEF ApplyKeywords
  <2>2. \A r \in box : lab(r).of = r.of /\ lab(r).wraps = r.wraps /\ lab(r).folder = r.folder
    BY <1>0 DEF IInv, TypeInv, WorldTypes, Records
  <2> HIDE DEF lab
  <2>3. CASE box' = {lab(r) : r \in box}
    <3>1. Thins
      BY <2>1, <2>2, <2>3 DEF Thins
    <3> QED BY <1>0, <3>1, ThinsKeeps DEF SameMessage
  <2>4. CASE UNCHANGED box
    BY <1>0, <2>1, <2>4, SameThins, ThinsKeeps DEF SameMessage
  <2> QED BY <2>1, <2>3, <2>4
<1>3. CASE \E m \in Msgs, kind \in Kinds : Arrive(m, kind)
  <2>1. PICK s : box' = box \cup {s} /\ s.of \notin Arrived /\ removed' = removed
    <3>1. PICK m \in Msgs, kind \in Kinds : Arrive(m, kind)
      BY <1>3
    <3>2. PICK s : s = [uid |-> uidNext, of |-> m, kind |-> kind, wraps |-> 0, unseen |-> TRUE, folder |-> "INBOX", label |-> FALSE]
      OBVIOUS
    <3>3. s.of = m /\ m \notin Arrived
      BY <3>1, <3>2 DEF Arrive, Arrived
    <3> QED BY <3>1, <3>2, <3>3 DEF Arrive
  <2> QED BY <1>0, <2>1 DEF OneInBox, Arrived
<1>4. CASE \E r \in box : OtherClientRemoves(r)
  <2>1. box' \subseteq box /\ removed \subseteq removed'
    BY <1>4 DEF OtherClientRemoves
  <2> QED BY <1>0, <2>1 DEF OneInBox
<1> QED BY <1>1, <1>2, <1>3, <1>4

LEMMA CalmKeeps ==
  ASSUME CalmInv, [Next]_vars, validity' = 1
  PROVE  CalmInv'
<1> USE DEF vars, mail, owner, store, ghost
<1>0. IInv' /\ validity' = 1 /\ ~Renumber /\ IInv /\ OneInBox
  BY StepKeeps, StaysCalm DEF CalmInv
<1>1. ASSUME UNCHANGED <<box, removed>>, SameMessage PROVE OneInBox'
  BY <1>0, <1>1, SameThins, ThinsKeeps
<1>2. ASSUME UNCHANGED <<box, removed, file>> PROVE OneInBox'
  BY <1>1, <1>2 DEF SameMessage
<1>3. CASE UNCHANGED vars \/ Tick
  BY <1>0, <1>2, <1>3 DEF Tick, CalmInv
<1>4. CASE Resume
  <2>1. CASE NothingToResume \/ ResumeJob \/ Replaced \/ RecordReplacementDecision \/ ReleaseIncomingEncryption
    BY <1>0, <1>2, <2>1 DEF NothingToResume, ResumeJob, Replaced, RecordReplacementDecision, ReleaseIncomingEncryption, CalmInv
  <2> QED BY <1>0, <1>4, <2>1, JobBox DEF Resume, CalmInv
<1>5. CASE Batch
  <2>1. CASE WriteJournal
    <3>1. file = NoJob
      BY <1>0, <2>1 DEF WriteJournal, At, IInv, DaemonInv, Holds
    <3> QED BY <1>0, <1>1, <2>1, <3>1 DEF WriteJournal, SameMessage, CalmInv
  <2>2. CASE FetchUnread \/ Look \/ Decide \/ EncryptIncoming \/ DeferEncryption \/ ReserveIncomingEncryption
    BY <1>0, <1>2, <2>2 DEF FetchUnread, Look, Decide, EncryptIncoming, DeferEncryption, ReserveIncomingEncryption, CalmInv
  <2>3. CASE RecordDeferral \/ Retire \/ CommitCheckpoint
    BY <1>0, <1>2, <2>3 DEF RecordDeferral, Retire, CommitCheckpoint, CalmInv
  <2>4. CASE HandleMessage \/ ApplyKeywords
    BY <1>0, <2>4, MailBox DEF CalmInv
  <2> QED BY <1>5, <2>1, <2>2, <2>3, <2>4 DEF Batch
<1>6. CASE Around
  <2>1. CASE ChangeKey \/ SetIncoming \/ Crash
    BY <1>0, <1>2, <2>1 DEF ChangeKey, SetIncoming, Crash, CalmInv
  <2> QED BY <1>0, <1>6, <2>1, MailBox DEF Around, CalmInv
<1> QED BY <1>3, <1>4, <1>5, <1>6 DEF Next, Daemon

-----------------------------------------------------------------------------
(* One mail of each UID in INBOX.                                           *)
OneOfUid == \A r, q \in Inbox : r.uid = q.uid => r = q

(* A step that removes mail of INBOX, moves it or changes it in place.      *)
LEMMA InPlace ==
  ASSUME OneOfUid, NEW f, \A p \in Inbox' : \E r \in Inbox : p = f[r] /\ p.uid = r.uid
  PROVE  OneOfUid'
BY DEF OneOfUid

LEMMA Fewer ==
  ASSUME OneOfUid, box' \subseteq box
  PROVE  OneOfUid'
BY DEF OneOfUid, Inbox

LEMMA OneAdded ==
  ASSUME IInv, OneOfUid, NEW s, box' = box \cup {s}, s.uid = uidNext
  PROVE  OneOfUid'
<1>1. \A r \in Inbox : r.uid < uidNext /\ r.uid \in Nat
  BY DEF IInv, World, Uids, TypeInv, WorldTypes, Records, Inbox
<1>2. uidNext \in Nat
  BY DEF IInv, TypeInv, WorldTypes
<1>3. \A r \in Inbox : r.uid # s.uid
  BY <1>1, <1>2
<1>4. \A p \in Inbox' : p \in Inbox \/ p = s
  BY DEF Inbox
<1> QED BY <1>3, <1>4 DEF OneOfUid

(* Some mail of INBOX is moved, read or labelled.                           *)
LEMMA SomeChanged ==
  ASSUME IInv, OneOfUid, NEW S \in SUBSET Inbox, NEW f, box' = (box \ S) \cup {f[r] : r \in S},
         \A r \in S : f[r].folder = "INBOX" => f[r].uid = r.uid
  PROVE  OneOfUid'
<1>1. \A p \in Inbox' : (p \in Inbox /\ p \notin S) \/ \E r \in S : p = f[r] /\ p.uid = r.uid
  BY DEF Inbox
<1>2. \A r \in S : r \in Inbox
  OBVIOUS
<1> QED BY <1>1, <1>2 DEF OneOfUid

LEMMA UidStep ==
  ASSUME IInv, OneOfUid, [Next]_vars
  PROVE  OneOfUid'
<1> USE DEF vars, mail, owner, store, ghost
<1>1. CASE UNCHANGED box
  BY <1>1, Fewer
<1>2. CASE Upload
  <2>1. CASE box' = box \cup Stored(d.job)
    <3>1. PICK s \in Stored(d.job) : Stored(d.job) = {s}
      BY DEF Stored
    <3>2. s.uid = uidNext
      BY DEF Stored
    <3> QED BY <2>1, <3>1, <3>2, OneAdded
  <2> QED BY <1>1, <1>2, <2>1 DEF Upload
<1>3. CASE RemoveOriginal
  <2>1. box' \subseteq box
    BY <1>3 DEF RemoveOriginal
  <2> QED BY <2>1, Fewer
<1>4. CASE ApplyIncomingAction
  <2> DEFINE copy == CopyOf(d.job) \cap Holding(d.job.repl)
             act(r) == Acted(d.job.acts[d.job.done + 1], r)
             f == [r \in copy |-> act(r)]
  <2>1. UNCHANGED box \/ box' = (box \ copy) \cup {act(r) : r \in copy}
    BY <1>4 DEF ApplyIncomingAction
  <2>2. copy \in SUBSET Inbox /\ copy \subseteq Records
    BY DEF Holding, CopyOf, IInv, TypeInv, WorldTypes
  <2>3. \A r \in Records : act(r).folder = "INBOX" => act(r).uid = r.uid
    BY DEF Records, Acted
  <2>4. {act(r) : r \in copy} = {f[r] : r \in copy} /\ \A r \in copy : f[r] = act(r)
    OBVIOUS
  <2> HIDE DEF copy, act, f
  <2>5. \A r \in copy : f[r].folder = "INBOX" => f[r].uid = r.uid
    BY <2>2, <2>3, <2>4
  <2>6. CASE box' = (box \ copy) \cup {act(r) : r \in copy}
    <3>1. box' = (box \ copy) \cup {f[r] : r \in copy}
      BY <2>4, <2>6
    <3> QED BY <2>2, <2>5, <3>1, SomeChanged
  <2> QED BY <1>1, <2>1, <2>6
<1>5. CASE HandleMessage
  <2> DEFINE mine == Holding(Current.uid)
             moved(r) == [r EXCEPT !.folder = "other", !.uid = 0]
             read(r) == [r EXCEPT !.unseen = FALSE]
             f == [r \in mine |-> moved(r)]
             g == [r \in mine |-> read(r)]
  <2>1. mine \in SUBSET Inbox /\ mine \subseteq box /\ mine \subseteq Records
    BY DEF Holding, Inbox, IInv, TypeInv, WorldTypes
  <2>2. \/ UNCHANGED box
        \/ \E after \in {mine, {moved(r) : r \in mine}, {read(r) : r \in mine}} : box' = (box \ mine) \cup after
    BY <1>5 DEF HandleMessage, ApplyOutcome
  <2>3. \A r \in Records : moved(r).folder # "INBOX" /\ read(r).uid = r.uid
    BY DEF Records
  <2>4. /\ {moved(r) : r \in mine} = {f[r] : r \in mine} /\ \A r \in mine : f[r] = moved(r)
        /\ {read(r) : r \in mine} = {g[r] : r \in mine} /\ \A r \in mine : g[r] = read(r)
    OBVIOUS
  <2> HIDE DEF mine, moved, read, f, g
  <2>5. CASE box' = (box \ mine) \cup {moved(r) : r \in mine}
    <3>1. box' = (box \ mine) \cup {f[r] : r \in mine} /\ \A r \in mine : f[r].folder # "INBOX"
      BY <2>1, <2>3, <2>4, <2>5
    <3> QED BY <2>1, <3>1, SomeChanged
  <2>6. CASE box' = (box \ mine) \cup {read(r) : r \in mine}
    <3>1. box' = (box \ mine) \cup {g[r] : r \in mine} /\ \A r \in mine : g[r].uid = r.uid
      BY <2>1, <2>3, <2>4, <2>6
    <3> QED BY <2>1, <3>1, SomeChanged
  <2>7. CASE box' = (box \ mine) \cup mine
    BY <1>1, <2>1, <2>7
  <2> QED BY <1>1, <2>2, <2>5, <2>6, <2>7
<1>6. CASE ApplyKeywords
  <2> DEFINE f == [r \in box |-> IF r \in Holding(Current.uid) THEN [r EXCEPT !.label = TRUE] ELSE r]
  <2>1. UNCHANGED box \/ box' = {f[r] : r \in box}
    BY <1>6 DEF ApplyKeywords
  <2>2. \A r \in box : f[r].uid = r.uid /\ f[r].folder = r.folder
    BY DEF IInv, TypeInv, WorldTypes, Records
  <2> HIDE DEF f
  <2>3. CASE box' = {f[r] : r \in box}
    <3>1. \A p \in Inbox' : \E r \in Inbox : p = f[r] /\ p.uid = r.uid
      BY <2>2, <2>3 DEF Inbox
    <3> QED BY <3>1, InPlace
  <2> QED BY <1>1, <2>1, <2>3
<1>7. CASE \E m \in Msgs, kind \in Kinds : Arrive(m, kind)
  <2>1. PICK s : box' = box \cup {s} /\ s.uid = uidNext
    <3>1. PICK m \in Msgs, kind \in Kinds : Arrive(m, kind)
      BY <1>7
    <3>2. PICK s : s = [uid |-> uidNext, of |-> m, kind |-> kind, wraps |-> 0, unseen |-> TRUE, folder |-> "INBOX", label |-> FALSE]
      OBVIOUS
    <3>3. s.uid = uidNext
      BY <3>2
    <3> QED BY <3>1, <3>2, <3>3 DEF Arrive
  <2> QED BY <2>1, OneAdded
<1>8. CASE \E r \in box : OtherClientRemoves(r)
  <2>1. box' \subseteq box
    BY <1>8 DEF OtherClientRemoves
  <2> QED BY <2>1, Fewer
<1>9. CASE Renumber
  <2> DEFINE rank(r) == Cardinality({q \in Inbox : q.uid >= r.uid})
             re(r) == IF r \in Inbox THEN [r EXCEPT !.uid = rank(r)] ELSE r
  <2>1. box' = {re(r) : r \in box}
    BY <1>9 DEF Renumber
  <2>2. \A r \in box : re(r).folder = r.folder /\ (r \in Inbox => re(r).uid = rank(r))
    <3> HIDE DEF rank
    <3> QED BY DEF IInv, TypeInv, WorldTypes, Records
  <2>3. \A r, q \in Inbox : rank(r) = rank(q) => r.uid = q.uid
    BY RankTells
  <2> HIDE DEF rank, re
  <2>4. \A p \in Inbox' : \E r \in Inbox : p = re(r) /\ p.uid = rank(r)
    BY <2>1, <2>2 DEF Inbox
  <2> QED BY <2>3, <2>4 DEF OneOfUid
<1>10. CASE Resume
  BY <1>1, <1>2, <1>3, <1>4, <1>10 DEF Resume, NothingToResume, ResumeJob, SaveReplacementUID, Replaced, SaveAction,
     RecordReplacementDecision, RemoveJournal, ReleaseIncomingEncryption
<1>11. CASE Batch
  BY <1>1, <1>5, <1>6, <1>11 DEF Batch, FetchUnread, Look, Decide, EncryptIncoming, DeferEncryption,
     ReserveIncomingEncryption, WriteJournal, RecordDeferral, Retire, CommitCheckpoint
<1>12. CASE Around
  BY <1>1, <1>7, <1>8, <1>9, <1>12 DEF Around, ChangeKey, SetIncoming, Crash
<1> QED BY <1>1, <1>10, <1>11, <1>12 DEF Next, Daemon, Tick

(* Two copies of a message, of which the journal tells the original.        *)
LEMMA CopiesCounted ==
  ASSUME IInv, NEW m \in Msgs \ removed, NEW S \in SUBSET box,
         \A r, q \in S : r.of = m /\ q.of = m /\ r # q =>
             /\ r \in Inbox /\ q \in Inbox /\ r.wraps # q.wraps
             /\ file # NoJob /\ file.of = m
  PROVE  OneCopyIn(S, m)
<1> DEFINE copies == {r \in S : r.of = m}
<1> SUFFICES Cardinality(copies) <= 1 \/ (Cardinality(copies) = 2 /\ file # NoJob /\ file.of = m)
  BY DEF OneCopyIn
<1>0. /\ IInv /\ copies \subseteq S
      /\ \A r, q \in copies : r # q => /\ r \in Inbox /\ q \in Inbox /\ r.wraps # q.wraps
                                       /\ file # NoJob /\ file.of = m
      /\ \A r \in copies : r.of = m
  OBVIOUS
<1>1. CASE \A r, q \in copies : r = q
  <2>1. CASE copies = {}
    BY <2>1, FS_EmptySet
  <2>2. CASE copies # {}
    <3>1. PICK r \in copies : TRUE
      BY <2>2
    <3>2. copies = {r}
      BY <1>1, <3>1
    <3>3. Cardinality({r}) = 1
      BY FS_Singleton
    <3>4. Cardinality(copies) <= 1
      BY <3>2, <3>3
    <3> QED BY <3>4
  <2> QED BY <2>1, <2>2
<1>2. CASE \E r, q \in copies : r # q
  <2>1. PICK r, q \in copies : r # q
    BY <1>2
  <2>2. file # NoJob /\ file.of = m /\ r.wraps # q.wraps /\ r \in Inbox /\ q \in Inbox
    BY <1>0, <2>1
  <2>3. \A p \in copies : p \in Inbox
    BY <1>0, <2>1, <2>2
  <2>4. \A p \in copies : p.wraps \in {file.wraps, file.wraps + 1}
    BY <1>0, <2>2, <2>3 DEF IInv, World, Journal, JobOK
  <2>5. \A p \in copies : p.wraps = r.wraps => p = r
    BY <1>0, <2>1
  <2>6. \A p \in copies : p.wraps = q.wraps => p = q
    BY <1>0, <2>1
  <2>7. \A p \in copies : p.wraps = r.wraps \/ p.wraps = q.wraps
    BY <2>1, <2>2, <2>4
  <2>8. copies = {r} \cup {q}
    BY <2>1, <2>5, <2>6, <2>7
  <2>9. IsFiniteSet({r}) /\ Cardinality({r}) = 1 /\ q \notin {r}
    BY <2>1, FS_Singleton
  <2>10. Cardinality({r} \cup {q}) = IF q \in {r} THEN Cardinality({r}) ELSE Cardinality({r}) + 1
    BY <2>9, FS_AddElement
  <2>11. Cardinality({r} \cup {q}) = 2
    BY <2>9, <2>10
  <2>12. Cardinality(copies) = 2
    BY <2>8, <2>11
  <2> QED BY <2>2, <2>12
<1> QED BY <1>1, <1>2

(***************************************************************************)
(* INBOX has one copy of every message, and a second only while the journal *)
(* is about it, whatever fails, stops or is renumbered; while the mailbox   *)
(* keeps its UIDVALIDITY this holds of all folders together (OneCopyOfEach: *)
(* ReplaceIncoming, ApplyOutcome).                                          *)
(***************************************************************************)
THEOREM OneCopyIsLeft == Spec => []OneCopyOfEach
<1> DEFINE Inv == IInv /\ OneOfUid /\ (validity = 1 => OneInBox)
<1>1. Init => Inv
  <2>1. Init => box = {}
    BY DEF Init
  <2> QED BY <2>1, Initially DEF OneOfUid, OneInBox, Inbox
<1>2. Inv /\ [Next]_vars => Inv'
  <2> SUFFICES ASSUME Inv, [Next]_vars PROVE Inv'
    OBVIOUS
  <2>1. IInv' /\ OneOfUid'
    BY StepKeeps, UidStep
  <2>2. ASSUME validity' = 1 PROVE OneInBox'
    BY <2>2, StaysCalm, CalmKeeps DEF CalmInv
  <2> QED BY <2>1, <2>2
<1>3. Inv => OneCopyOfEach
  <2> SUFFICES ASSUME Inv, NEW m \in Msgs \ removed
               PROVE  OneCopyIn(Inbox, m) /\ (validity = 1 => OneCopyIn(box, m))
    BY DEF OneCopyOfEach
  <2>1. OneCopyIn(Inbox, m)
    <3>1. Inbox \in SUBSET box
      BY DEF Inbox
    <3>2. \A r, q \in Inbox : r.of = m /\ q.of = m /\ r # q => r.wraps # q.wraps /\ file # NoJob /\ file.of = m
      BY DEF OneOfUid, IInv, World, OneInInbox
    <3> QED BY <3>1, <3>2, CopiesCounted
  <2>2. ASSUME validity = 1 PROVE OneCopyIn(box, m)
    <3>1. \A r, q \in box : r.of = m /\ q.of = m /\ r # q =>
              r \in Inbox /\ q \in Inbox /\ r.wraps # q.wraps /\ file # NoJob /\ file.of = m
      BY <2>2 DEF OneInBox, Inbox
    <3> QED BY <3>1, CopiesCounted
  <2> QED BY <2>1, <2>2
<1> QED BY <1>1, <1>2, <1>3, PTL DEF Spec
=============================================================================
