---------------------------- MODULE OutboxProofs ----------------------------
(* Theorems about the outbox for every set of jobs and workers, every       *)
(* number of delivery groups, attempts and crashes.                         *)
EXTENDS OutboxRefines, TLAPS

(* An agent that is doing something is on a job, a request on its own.      *)
Resting == {"idle", "done"}
OnJob ==
  \A a \in Agents : pc[a] \notin Resting => job[a] \in Jobs /\ (a \in Jobs => job[a] = a)

TypeInv == TypeOK /\ OnJob

(* Parts of the type invariant that the steps touch together.               *)
LocalsOK ==
  /\ pc \in [Agents -> Steps]
  /\ job \in [Agents -> Jobs \cup {None}]
  /\ seq \in [Agents -> Seqs]
  /\ token \in [Agents -> 0 .. MaxAttempts]
  /\ result \in [Agents -> Results]
  /\ todo \in [Agents -> SUBSET Seqs]
RowsOK ==
  /\ outbox \in [Jobs -> {"absent", "whole", "receipt"}]
  /\ state \in [Jobs -> [Seqs -> States \cup {"absent"}]]
  /\ attempts \in [Jobs -> [Seqs -> 0 .. MaxAttempts]]
  /\ due \in [Jobs -> [Seqs -> BOOLEAN]]
  /\ sent \in [Jobs -> {"none", "reserved", "filed"}]

LEMMA ZeroSeq == 0 \in Seqs /\ 0 \in 0 .. MaxAttempts
BY OutboxAssumption DEF Seqs

(* Leaving or changing step keeps the locals typed and on a job.            *)
LEMMA LeaveOK ==
  ASSUME LocalsOK, OnJob, NEW a \in Agents, NEW step \in Resting, Leave(a, step)
  PROVE  LocalsOK' /\ OnJob'
BY ZeroSeq DEF LocalsOK, OnJob, Leave, Steps, Resting, Results, Accepting

LEMMA GotoOK ==
  ASSUME LocalsOK, OnJob, NEW a \in Agents, NEW step \in Steps, pc[a] \notin Resting, Goto(a, step)
  PROVE  LocalsOK' /\ OnJob'
BY DEF LocalsOK, OnJob, Goto, Steps, Resting

LEMMA ReturnsOK ==
  ASSUME LocalsOK, OnJob, response \in [Jobs -> {"none", "ok", "notConfirmed"}],
         NEW a \in Agents, pc[a] \notin Resting, NEW acc, NEW failed, Returns(a, acc, failed)
  PROVE  LocalsOK' /\ OnJob' /\ response' \in [Jobs -> {"none", "ok", "notConfirmed"}]
<1>1. "loop" \in Steps /\ {"idle", "done"} \subseteq Resting
  BY DEF Steps, Resting
<1> QED
  BY <1>1, LeaveOK, GotoOK DEF Returns

(* The mailbox transactions keep the rows typed.                            *)
LEMMA QueueOutboundOK ==
  ASSUME RowsOK, NEW j \in Jobs, NEW n \in Seqs, NEW copy \in BOOLEAN, QueueOutbound(j, n, copy)
  PROVE  RowsOK'
BY DEF RowsOK, QueueOutbound, States, Unclaimed

LEMMA ClaimOutboundOK ==
  ASSUME RowsOK, NEW j \in Jobs, NEW i \in Seqs, ClaimOutbound(j, i)
  PROVE  RowsOK' /\ attempts'[j][i] \in 0 .. MaxAttempts
<1>1. attempts[j][i] + 1 \in 0 .. MaxAttempts
  BY OutboxAssumption DEF RowsOK, ClaimOutbound, Claimable
<1> QED
  BY <1>1 DEF RowsOK, ClaimOutbound, States

LEMMA CompactOutboundOK ==
  ASSUME RowsOK, NEW j \in Jobs, CompactOutbound(j)
  PROVE  outbox' \in [Jobs -> {"absent", "whole", "receipt"}]
BY DEF RowsOK, CompactOutbound

LEMMA OutcomeOK ==
  ASSUME NEW r \in Results, NEW n
  PROVE  Outcome(r, n) \in States
BY DEF Outcome, Results, Accepting, States, Unclaimed, Final

LEMMA CompleteOutboundOK ==
  ASSUME RowsOK, NEW j \in Jobs, NEW i \in Seqs, NEW c, NEW r \in Results,
         CompleteOutbound(j, i, c, r)
  PROVE  RowsOK'
<1>1. Outcome(r, attempts[j][i]) \in States
  BY OutcomeOK
<1>2. outbox' \in [Jobs -> {"absent", "whole", "receipt"}]
  BY CompactOutboundOK DEF CompleteOutbound, RowsOK
<1> QED
  BY <1>1, <1>2 DEF RowsOK, CompleteOutbound

LEMMA TryFileOK ==
  ASSUME RowsOK, copies \in [Jobs -> Nat], NEW a \in Agents, job[a] \in Jobs, TryFile(a)
  PROVE  RowsOK' /\ copies' \in [Jobs -> Nat]
<1>1. CASE FileOutboundSent(job[a])
  BY <1>1, CompactOutboundOK DEF FileOutboundSent, RowsOK
<1>2. CASE UNCHANGED <<rows, copies>>
  BY <1>2 DEF rows, RowsOK
<1> QED
  BY <1>1, <1>2 DEF TryFile

LEMMA QuarantineOutboundOK ==
  ASSUME RowsOK, NEW j \in Jobs, NEW i \in Seqs, QuarantineOutbound(j, i)
  PROVE  RowsOK'
BY DEF RowsOK, QuarantineOutbound, States

LEMMA HoldsOK ==
  ASSUME LocalsOK, OnJob, NEW a \in Agents, NEW i \in Seqs, pc[a] \notin Resting,
         attempts'[job[a]][i] \in 0 .. MaxAttempts, Holds(a, i),
         todo' \in [Agents -> SUBSET Seqs]
  PROVE  LocalsOK' /\ OnJob'
BY DEF LocalsOK, OnJob, Holds, Steps, Resting

(* The rest of the state.                                                   *)
WorldOK ==
  /\ stale \subseteq Jobs
  /\ barrier \in Barriers
  /\ fence \in Jobs \cup {None}
  /\ crashes \in 0 .. MaxCrashes
  /\ handed \in [Jobs -> [Seqs -> Nat]]
  /\ copies \in [Jobs -> Nat]
  /\ response \in [Jobs -> {"none", "ok", "notConfirmed"}]

LEMMA TypeParts == TypeInv <=> RowsOK /\ LocalsOK /\ WorldOK /\ OnJob
BY DEF TypeInv, TypeOK, RowsOK, LocalsOK, WorldOK

LEMMA TypePartsNext == TypeInv' <=> RowsOK' /\ LocalsOK' /\ WorldOK' /\ OnJob'
BY DEF TypeInv, TypeOK, RowsOK, LocalsOK, WorldOK

(* Every step keeps the type invariant.                                     *)
LEMMA TypeStep == TypeInv /\ [Next]_vars => TypeInv'
<1> SUFFICES ASSUME RowsOK, LocalsOK, WorldOK, OnJob, [Next]_vars
             PROVE  RowsOK' /\ LocalsOK' /\ WorldOK' /\ OnJob'
  BY TypeParts, TypePartsNext
<1>0. Jobs \subseteq Agents /\ Workers \subseteq Agents /\ None \notin Jobs
  BY OutboxAssumption DEF Agents
<1>1. CASE UNCHANGED vars
  BY <1>1 DEF vars, rows, locals, RowsOK, LocalsOK, WorldOK, OnJob
<1>2. ASSUME NEW j \in Jobs, RequestQueue(j) PROVE RowsOK' /\ LocalsOK' /\ WorldOK' /\ OnJob'
  <2>1. RowsOK'
    BY <1>2, QueueOutboundOK DEF RequestQueue
  <2>2. todo' \in [Agents -> SUBSET Seqs]
    BY <1>0, <1>2, OutboxAssumption DEF RequestQueue, LocalsOK, Seqs
  <2> QED
    BY <1>0, <1>2, <2>1, <2>2 DEF RequestQueue, LocalsOK, WorldOK, OnJob, Steps, Resting
<1>3. ASSUME NEW j \in Jobs, RequestClaim(j) PROVE RowsOK' /\ LocalsOK' /\ WorldOK' /\ OnJob'
  <2>1. pc[j] \notin Resting /\ job[j] = j
    BY <1>0, <1>3 DEF RequestClaim, OnJob, Resting
  <2>2. RowsOK' /\ attempts'[j][0] \in 0 .. MaxAttempts
    BY <1>3, ClaimOutboundOK, ZeroSeq DEF RequestClaim
  <2>3. LocalsOK' /\ OnJob'
    BY <1>0, <1>3, <2>1, <2>2, HoldsOK, LeaveOK, ZeroSeq DEF RequestClaim, LocalsOK, Resting
  <2> QED
    BY <1>3, <2>2, <2>3 DEF RequestClaim, WorldOK
<1>4. ASSUME NEW j \in Jobs, RequestRefused(j) PROVE RowsOK' /\ LocalsOK' /\ WorldOK' /\ OnJob'
  <2>1. LocalsOK' /\ OnJob'
    BY <1>0, <1>4, LeaveOK DEF RequestRefused, Resting
  <2> QED
    BY <1>4, <2>1 DEF RequestRefused, WorldOK, RowsOK, rows
<1>5. ASSUME NEW j \in Jobs, Queue(j) PROVE RowsOK' /\ LocalsOK' /\ WorldOK' /\ OnJob'
  <2>1. LocalsOK' /\ OnJob'
    BY <1>0, <1>5, LeaveOK DEF Queue, Resting
  <2>2. RowsOK'
    BY <1>5, QueueOutboundOK DEF Queue
  <2> QED
    BY <1>5, <2>1, <2>2 DEF Queue, WorldOK
<1>6. ASSUME NEW j \in Jobs, RequestFollowOn(j) PROVE RowsOK' /\ LocalsOK' /\ WorldOK' /\ OnJob'
  <2>1. PICK i \in todo[j] :
          /\ todo' = [todo EXCEPT ![j] = @ \ {i}]
          /\ \/ ClaimOutbound(j, i) /\ Holds(j, i)
             \/ UNCHANGED <<rows, pc, job, seq, token, result>>
    BY <1>6 DEF RequestFollowOn
  <2>2. i \in Seqs /\ todo' \in [Agents -> SUBSET Seqs]
    BY <1>0, <2>1 DEF LocalsOK
  <2>3. pc[j] \notin Resting /\ job[j] = j
    BY <1>0, <1>6 DEF RequestFollowOn, OnJob, Resting
  <2>4. CASE ClaimOutbound(j, i) /\ Holds(j, i)
    <3>1. RowsOK' /\ attempts'[j][i] \in 0 .. MaxAttempts
      BY <2>2, <2>4, ClaimOutboundOK
    <3>2. LocalsOK' /\ OnJob'
      BY <1>0, <2>2, <2>3, <2>4, <3>1, HoldsOK
    <3> QED
      BY <1>6, <3>1, <3>2 DEF RequestFollowOn, WorldOK
  <2>5. CASE UNCHANGED <<rows, pc, job, seq, token, result>>
    BY <1>6, <2>2, <2>5 DEF RequestFollowOn, WorldOK, RowsOK, LocalsOK, OnJob, rows
  <2> QED
    BY <2>1, <2>4, <2>5
<1>7. ASSUME NEW j \in Jobs, RequestLast(j) PROVE RowsOK' /\ LocalsOK' /\ WorldOK' /\ OnJob'
  <2>1. LocalsOK' /\ OnJob'
    BY <1>0, <1>7, GotoOK DEF RequestLast, Resting, Steps
  <2> QED
    BY <1>7, <2>1 DEF RequestLast, WorldOK, RowsOK, rows
<1>8. ASSUME NEW a \in Agents, RelayAnswers(a) PROVE RowsOK' /\ LocalsOK' /\ WorldOK' /\ OnJob'
  <2>1. job[a] \in Jobs /\ seq[a] \in Seqs
    BY <1>8 DEF RelayAnswers, OnJob, Resting, LocalsOK
  <2>2. handed' \in [Jobs -> [Seqs -> Nat]]
    BY <1>8, <2>1 DEF RelayAnswers, WorldOK
  <2>3. LocalsOK' /\ OnJob'
    BY <1>8 DEF RelayAnswers, LocalsOK, OnJob, Steps, Resting
  <2> QED
    BY <1>8, <2>2, <2>3 DEF RelayAnswers, WorldOK, RowsOK, rows
<1>9. ASSUME NEW a \in Agents, Complete(a) PROVE RowsOK' /\ LocalsOK' /\ WorldOK' /\ OnJob'
  <2>1. pc[a] \notin Resting /\ job[a] \in Jobs /\ seq[a] \in Seqs /\ result[a] \in Results
    BY <1>9 DEF Complete, OnJob, Resting, LocalsOK
  <2>2. RowsOK'
    BY <1>9, <2>1, CompleteOutboundOK DEF Complete
  <2>3. LocalsOK' /\ OnJob' /\ response' \in [Jobs -> {"none", "ok", "notConfirmed"}]
    BY <1>9, <2>1, ReturnsOK, GotoOK DEF Complete, WorldOK, Steps
  <2> QED
    BY <1>9, <2>2, <2>3 DEF Complete, WorldOK
<1>10. ASSUME NEW a \in Agents, CompleteFails(a) PROVE RowsOK' /\ LocalsOK' /\ WorldOK' /\ OnJob'
  <2>1. pc[a] \notin Resting
    BY <1>10 DEF CompleteFails, Resting
  <2>2. LocalsOK' /\ OnJob' /\ response' \in [Jobs -> {"none", "ok", "notConfirmed"}]
    BY <1>10, <2>1, ReturnsOK DEF CompleteFails, WorldOK
  <2> QED
    BY <1>10, <2>2 DEF CompleteFails, WorldOK, RowsOK, rows
<1>11. ASSUME NEW a \in Agents, FileAfterDelivery(a) PROVE RowsOK' /\ LocalsOK' /\ WorldOK' /\ OnJob'
  <2>1. pc[a] \notin Resting /\ job[a] \in Jobs
    BY <1>11 DEF FileAfterDelivery, OnJob, Resting
  <2>2. RowsOK' /\ copies' \in [Jobs -> Nat]
    BY <1>11, <2>1, TryFileOK DEF FileAfterDelivery, WorldOK
  <2>3. LocalsOK' /\ OnJob' /\ response' \in [Jobs -> {"none", "ok", "notConfirmed"}]
    BY <1>11, <2>1, ReturnsOK DEF FileAfterDelivery, WorldOK
  <2> QED
    BY <1>11, <2>2, <2>3 DEF FileAfterDelivery, WorldOK
<1>12. ASSUME NEW a \in Agents, FileSent(a) PROVE RowsOK' /\ LocalsOK' /\ WorldOK' /\ OnJob'
  <2>1. pc[a] \notin Resting /\ job[a] \in Jobs
    BY <1>12 DEF FileSent, OnJob, Resting
  <2>2. RowsOK' /\ copies' \in [Jobs -> Nat]
    BY <1>12, <2>1, TryFileOK DEF FileSent, WorldOK
  <2>3. LocalsOK' /\ OnJob'
    BY <1>12, <2>1, GotoOK, LeaveOK DEF FileSent, Steps, Resting
  <2> QED
    BY <1>12, <2>2, <2>3 DEF FileSent, WorldOK
<1>13. ASSUME NEW w \in Workers, NEW j \in Jobs, RecoverRead(w, j)
       PROVE  RowsOK' /\ LocalsOK' /\ WorldOK' /\ OnJob'
  <2>1. w \notin Jobs /\ w \in Agents
    BY <1>0, OutboxAssumption
  <2>2. LocalsOK' /\ OnJob'
    BY <1>13, <2>1 DEF RecoverRead, LocalsOK, OnJob, Steps, Resting
  <2> QED
    BY <1>13, <2>2 DEF RecoverRead, RowsOK, WorldOK, rows
<1>14. ASSUME NEW w \in Workers, RecoverSubmit(w) PROVE RowsOK' /\ LocalsOK' /\ WorldOK' /\ OnJob'
  <2>1. pc[w] \notin Resting /\ job[w] \in Jobs /\ w \in Agents
    BY <1>0, <1>14 DEF RecoverSubmit, OnJob, Resting
  <2>2. PICK i \in todo[w] :
          \/ /\ pc'  = [pc EXCEPT ![w] = "quarantine"]
             /\ seq' = [seq EXCEPT ![w] = i]
             /\ UNCHANGED <<rows, job, token, result, todo>>
          \/ Leave(w, "idle") /\ UNCHANGED rows
          \/ /\ ClaimOutbound(job[w], i)
             /\ \/ Holds(w, i) /\ todo' = [todo EXCEPT ![w] = @ \ {i}]
                \/ Leave(w, "idle")
    BY <1>14 DEF RecoverSubmit
  <2>3. i \in Seqs
    BY <2>1, <2>2 DEF LocalsOK
  <2>4. WorldOK'
    BY <1>14 DEF RecoverSubmit, WorldOK
  <2>5. CASE /\ pc'  = [pc EXCEPT ![w] = "quarantine"]
             /\ seq' = [seq EXCEPT ![w] = i]
             /\ UNCHANGED <<rows, job, token, result, todo>>
    BY <2>1, <2>3, <2>4, <2>5 DEF RowsOK, LocalsOK, OnJob, rows, Steps, Resting
  <2>6. CASE Leave(w, "idle") /\ UNCHANGED rows
    BY <2>1, <2>4, <2>6, LeaveOK DEF RowsOK, rows, Resting
  <2>7. CASE /\ ClaimOutbound(job[w], i)
             /\ \/ Holds(w, i) /\ todo' = [todo EXCEPT ![w] = @ \ {i}]
                \/ Leave(w, "idle")
    <3>1. RowsOK' /\ attempts'[job[w]][i] \in 0 .. MaxAttempts
      BY <2>1, <2>3, <2>7, ClaimOutboundOK
    <3>2. CASE Leave(w, "idle")
      BY <2>1, <2>4, <3>1, <3>2, LeaveOK DEF Resting
    <3>3. CASE Holds(w, i) /\ todo' = [todo EXCEPT ![w] = @ \ {i}]
      <4>1. todo' \in [Agents -> SUBSET Seqs]
        BY <2>1, <3>3 DEF LocalsOK
      <4> QED
        BY <2>1, <2>3, <2>4, <3>1, <3>3, <4>1, HoldsOK
    <3> QED
      BY <2>7, <3>2, <3>3
  <2> QED
    BY <2>2, <2>5, <2>6, <2>7
<1>15. ASSUME NEW w \in Workers, RecoverSkip(w) PROVE RowsOK' /\ LocalsOK' /\ WorldOK' /\ OnJob'
  BY <1>0, <1>15 DEF RecoverSkip, RowsOK, LocalsOK, WorldOK, OnJob, rows
<1>16. ASSUME NEW w \in Workers, RecoverEnds(w) PROVE RowsOK' /\ LocalsOK' /\ WorldOK' /\ OnJob'
  <2>1. LocalsOK' /\ OnJob'
    BY <1>0, <1>16, LeaveOK DEF RecoverEnds, Resting
  <2> QED
    BY <1>16, <2>1 DEF RecoverEnds, RowsOK, WorldOK, rows
<1>17. ASSUME NEW w \in Workers, Quarantine(w) PROVE RowsOK' /\ LocalsOK' /\ WorldOK' /\ OnJob'
  <2>1. LocalsOK' /\ OnJob'
    BY <1>0, <1>17, LeaveOK DEF Quarantine, Resting
  <2>2. job[w] \in Jobs /\ seq[w] \in Seqs
    BY <1>0, <1>17 DEF Quarantine, OnJob, Resting, LocalsOK
  <2>3. RowsOK'
    BY <1>17, <2>2, QuarantineOutboundOK DEF Quarantine, RowsOK, rows
  <2> QED
    BY <1>17, <2>1, <2>3 DEF Quarantine, WorldOK
<1>18. ASSUME NEW j \in Jobs, NEW i \in Seqs, BackoffElapses(j, i)
       PROVE  RowsOK' /\ LocalsOK' /\ WorldOK' /\ OnJob'
  BY <1>18 DEF BackoffElapses, RowsOK, LocalsOK, WorldOK, OnJob, locals
<1>19. ASSUME NEW j \in Jobs, AuthorityMoves(j) PROVE RowsOK' /\ LocalsOK' /\ WorldOK' /\ OnJob'
  BY <1>19 DEF AuthorityMoves, RowsOK, LocalsOK, WorldOK, OnJob, locals, rows
<1>20. ASSUME BarrierMoves PROVE RowsOK' /\ LocalsOK' /\ WorldOK' /\ OnJob'
  BY <1>20 DEF BarrierMoves, RowsOK, LocalsOK, WorldOK, OnJob, locals, rows
<1>21. ASSUME NEW w \in Workers, Crash(w) PROVE RowsOK' /\ LocalsOK' /\ WorldOK' /\ OnJob'
  <2>1. LocalsOK' /\ OnJob'
    BY <1>21, ZeroSeq DEF Crash, LocalsOK, OnJob, Steps, Resting, Results, Accepting
  <2>2. RowsOK' /\ WorldOK'
    BY <1>21, OutboxAssumption DEF Crash, RowsOK, WorldOK, rows
  <2> QED
    BY <2>1, <2>2
<1> QED
  BY <1>1, <1>2, <1>3, <1>4, <1>5, <1>6, <1>7, <1>8, <1>9, <1>10, <1>11, <1>12, <1>13, <1>14,
     <1>15, <1>16, <1>17, <1>18, <1>19, <1>20, <1>21
  DEF Next, RequestStep, DeliveryStep, WorkerStep, Environment

LEMMA TypeInit == Init => TypeInv
BY OutboxAssumption
   DEF Init, TypeInv, TypeOK, OnJob, Barriers, Seqs, States, Steps, Resting, Results, Accepting

(* Type correctness: the rows, the agents and the history keep their types  *)
(* under every transaction, submission, crash and authority change.         *)
THEOREM TypeCorrect == Spec => []TypeOK
<1>1. TypeInv => TypeOK
  BY DEF TypeInv
<1> QED
  BY <1>1, TypeInit, TypeStep, PTL DEF Spec

-----------------------------------------------------------------------------
(* The inductive invariant behind at-most-once: a claim in flight is a      *)
(* submitting row held by one agent, the relay has not seen it before it    *)
(* answers, and every recorded state agrees with what the relay took.       *)
InFlight(a) == pc[a] \in {"flight", "answered"}

ClaimsDurable   == \A a \in Agents : InFlight(a) => state[job[a]][seq[a]] = "submitting"
ClaimsExclusive == \A a, b \in Agents :
  InFlight(a) /\ InFlight(b) /\ a # b => job[a] # job[b] \/ seq[a] # seq[b]
AnswersHonest   == \A a \in Agents :
  /\ pc[a] = "flight" => handed[job[a]][seq[a]] = 0
  /\ pc[a] = "answered" =>
       /\ result[a] \in Accepting => handed[job[a]][seq[a]] = 1
       /\ result[a] \in {"temporary", "permanent"} => handed[job[a]][seq[a]] = 0
AbsentUntouched == \A j \in Jobs, i \in Seqs :
  /\ outbox[j] = "absent" => state[j][i] = "absent"
  /\ state[j][i] = "absent" => handed[j][i] = 0

Core ==
  /\ ClaimsDurable /\ ClaimsExclusive /\ AnswersHonest /\ AbsentUntouched
  /\ OutcomesHonest /\ AtMostOnce

(* A step that leaves the delivery states and the relay alone, and puts no  *)
(* new claim in flight, keeps the invariant.                                *)
LEMMA QuietCore ==
  ASSUME Core, UNCHANGED <<state, handed>>,
         \A j \in Jobs : outbox'[j] = "absent" => outbox[j] = "absent",
         \A a \in Agents : InFlight(a)' =>
            pc'[a] = pc[a] /\ job'[a] = job[a] /\ seq'[a] = seq[a] /\ result'[a] = result[a]
  PROVE  Core'
BY DEF Core, ClaimsDurable, ClaimsExclusive, AnswersHonest, AbsentUntouched, OutcomesHonest,
       AtMostOnce, InFlight

FlightTyped == \A a \in Agents : InFlight(a) => job[a] \in Jobs /\ seq[a] \in Seqs

LEMMA FlightsTyped == TypeInv => FlightTyped
BY DEF TypeInv, TypeOK, OnJob, Resting, InFlight, FlightTyped

(* A step that gives one row a state the relay's record supports keeps the  *)
(* invariant, when nobody but agent a is in flight on that row afterwards,  *)
(* and a only with a fresh claim.                                           *)
LEMMA RowCore ==
  ASSUME Core, FlightTyped, NEW a \in Agents, NEW j \in Jobs, NEW i \in Seqs, NEW s,
         state'[j][i] = s,
         \A k \in Jobs, m \in Seqs : k # j \/ m # i => state'[k][m] = state[k][m],
         UNCHANGED handed,
         \A k \in Jobs : outbox'[k] = "absent" => outbox[k] = "absent",
         s # "absent", outbox[j] # "absent",
         s = "accepted" => handed[j][i] = 1,
         s \in {"queued", "retryable", "failed", "quarantined"} => handed[j][i] = 0,
         \A b \in Agents : b # a /\ InFlight(b)' =>
            /\ pc'[b] = pc[b] /\ job'[b] = job[b] /\ seq'[b] = seq[b] /\ result'[b] = result[b]
            /\ job[b] # j \/ seq[b] # i,
         InFlight(a)' =>
            pc'[a] = "flight" /\ job'[a] = j /\ seq'[a] = i /\ s = "submitting" /\ handed[j][i] = 0
  PROVE  Core'
<1>1. \A b \in Agents : b # a /\ InFlight(b)' => InFlight(b)
  BY DEF InFlight
<1>2. ClaimsDurable'
  <2> SUFFICES ASSUME NEW b \in Agents, InFlight(b)'
               PROVE  state'[job'[b]][seq'[b]] = "submitting"
    BY DEF ClaimsDurable, InFlight
  <2>1. CASE b = a
    BY <2>1
  <2>2. CASE b # a
    <3>1. InFlight(b) /\ job[b] \in Jobs /\ seq[b] \in Seqs
      BY <1>1, <2>2 DEF FlightTyped
    <3> QED
      BY <2>2, <3>1 DEF Core, ClaimsDurable
  <2> QED
    BY <2>1, <2>2
<1>3. ClaimsExclusive'
  <2> SUFFICES ASSUME NEW b \in Agents, NEW c \in Agents, InFlight(b)', InFlight(c)', b # c
               PROVE  job'[b] # job'[c] \/ seq'[b] # seq'[c]
    BY DEF ClaimsExclusive, InFlight
  <2>1. CASE b # a /\ c # a
    BY <1>1, <2>1 DEF Core, ClaimsExclusive
  <2>2. CASE b = a \/ c = a
    BY <2>2
  <2> QED
    BY <2>1, <2>2
<1>4. AnswersHonest'
  <2> SUFFICES ASSUME NEW b \in Agents, InFlight(b)'
               PROVE  /\ pc'[b] = "flight" => handed'[job'[b]][seq'[b]] = 0
                      /\ pc'[b] = "answered" =>
                           /\ result'[b] \in Accepting => handed'[job'[b]][seq'[b]] = 1
                           /\ result'[b] \in {"temporary", "permanent"} => handed'[job'[b]][seq'[b]] = 0
    BY DEF AnswersHonest, InFlight
  <2>1. CASE b = a
    BY <2>1
  <2>2. CASE b # a
    BY <2>2 DEF Core, AnswersHonest
  <2> QED
    BY <2>1, <2>2
<1>5. AbsentUntouched'
  <2> SUFFICES ASSUME NEW k \in Jobs, NEW m \in Seqs
               PROVE  /\ outbox'[k] = "absent" => state'[k][m] = "absent"
                      /\ state'[k][m] = "absent" => handed'[k][m] = 0
    BY DEF AbsentUntouched
  <2> QED
    BY DEF Core, AbsentUntouched
<1>6. OutcomesHonest'
  <2> SUFFICES ASSUME NEW k \in Jobs, NEW m \in Seqs
               PROVE  /\ state'[k][m] = "accepted" => handed'[k][m] = 1
                      /\ state'[k][m] \in {"queued", "retryable", "failed", "quarantined"} => handed'[k][m] = 0
    BY DEF OutcomesHonest
  <2> QED
    BY DEF Core, OutcomesHonest
<1>7. AtMostOnce'
  BY DEF Core, AtMostOnce
<1> QED
  BY <1>2, <1>3, <1>4, <1>5, <1>6, <1>7 DEF Core

(* A new job's rows start untouched by the relay.                           *)
LEMMA QueueCore ==
  ASSUME TypeInv, Core, NEW j \in Jobs, NEW n \in Seqs, NEW copy \in BOOLEAN,
         QueueOutbound(j, n, copy), UNCHANGED handed,
         \A a \in Agents : InFlight(a)' =>
            pc'[a] = pc[a] /\ job'[a] = job[a] /\ seq'[a] = seq[a] /\ result'[a] = result[a]
  PROVE  Core'
<1>1. \A i \in Seqs : state[j][i] = "absent" /\ handed[j][i] = 0
  BY DEF Core, AbsentUntouched, QueueOutbound
<1>2. /\ \A k \in Jobs, i \in Seqs : k # j => state'[k][i] = state[k][i]
      /\ \A i \in Seqs : state'[j][i] \in {"queued", "absent"}
      /\ \A k \in Jobs : k # j => outbox'[k] = outbox[k]
      /\ outbox'[j] = "whole"
  BY DEF QueueOutbound, TypeInv, TypeOK
<1>3. \A a \in Agents : InFlight(a)' => InFlight(a)
  BY DEF InFlight
<1>4. \A a \in Agents : InFlight(a) => job[a] \in Jobs /\ seq[a] \in Seqs /\ job[a] # j
  BY <1>1, FlightsTyped DEF FlightTyped, Core, ClaimsDurable
<1>5. ClaimsDurable'
  <2> SUFFICES ASSUME NEW b \in Agents, InFlight(b)'
               PROVE  state'[job'[b]][seq'[b]] = "submitting"
    BY DEF ClaimsDurable, InFlight
  <2> QED
    BY <1>2, <1>3, <1>4 DEF Core, ClaimsDurable
<1>6. ClaimsExclusive' /\ AnswersHonest' /\ AtMostOnce'
  BY DEF Core, ClaimsExclusive, AnswersHonest, AtMostOnce, InFlight
<1>7. AbsentUntouched'
  <2> SUFFICES ASSUME NEW k \in Jobs, NEW m \in Seqs
               PROVE  /\ outbox'[k] = "absent" => state'[k][m] = "absent"
                      /\ state'[k][m] = "absent" => handed'[k][m] = 0
    BY DEF AbsentUntouched
  <2> QED
    BY <1>1, <1>2 DEF Core, AbsentUntouched
<1>8. OutcomesHonest'
  <2> SUFFICES ASSUME NEW k \in Jobs, NEW m \in Seqs
               PROVE  /\ state'[k][m] = "accepted" => handed'[k][m] = 1
                      /\ state'[k][m] \in {"queued", "retryable", "failed", "quarantined"} => handed'[k][m] = 0
    BY DEF OutcomesHonest
  <2> QED
    BY <1>1, <1>2 DEF Core, OutcomesHonest
<1> QED
  BY <1>5, <1>6, <1>7, <1>8 DEF Core

(* A claim moves a row the relay has not taken into submitting, and no      *)
(* other agent can hold that row.                                           *)
LEMMA ClaimCore ==
  ASSUME TypeInv, Core, NEW a \in Agents, NEW i \in Seqs, job[a] \in Jobs,
         ClaimOutbound(job[a], i), UNCHANGED handed,
         Holds(a, i) \/ Leave(a, "idle") \/ Leave(a, "done")
  PROVE  Core'
<1> DEFINE j == job[a]
<1>1. state[j][i] \in Unclaimed /\ handed[j][i] = 0
  BY DEF Core, OutcomesHonest, ClaimOutbound, Claimable, Unclaimed
<1>2. /\ state'[j][i] = "submitting"
      /\ \A k \in Jobs, m \in Seqs : k # j \/ m # i => state'[k][m] = state[k][m]
      /\ UNCHANGED outbox /\ outbox[j] # "absent"
  BY DEF ClaimOutbound, Claimable, TypeInv, TypeOK
<1>3. \A b \in Agents : InFlight(b) => job[b] # j \/ seq[b] # i
  BY <1>1 DEF Core, ClaimsDurable, Unclaimed
<1>4. \A b \in Agents : b # a =>
        pc'[b] = pc[b] /\ job'[b] = job[b] /\ seq'[b] = seq[b] /\ result'[b] = result[b]
  BY DEF Holds, Leave, TypeInv, TypeOK
<1>5. InFlight(a)' => pc'[a] = "flight" /\ job'[a] = j /\ seq'[a] = i
  BY DEF Holds, Leave, TypeInv, TypeOK, InFlight
<1>6. \A b \in Agents : b # a /\ InFlight(b)' =>
        /\ pc'[b] = pc[b] /\ job'[b] = job[b] /\ seq'[b] = seq[b] /\ result'[b] = result[b]
        /\ job[b] # j \/ seq[b] # i
  BY <1>3, <1>4 DEF InFlight
<1> HIDE DEF j
<1> QED
  BY <1>1, <1>2, <1>5, <1>6, RowCore, FlightsTyped DEF j

(* The relay answers the one agent that holds the row, once.                *)
LEMMA RelayCore ==
  ASSUME TypeInv, Core, NEW a \in Agents, RelayAnswers(a)
  PROVE  Core'
<1> DEFINE j == job[a]
           i == seq[a]
<1>1. pc[a] = "flight" /\ j \in Jobs /\ i \in Seqs /\ state[j][i] = "submitting" /\ handed[j][i] = 0
  BY FlightsTyped DEF RelayAnswers, Core, ClaimsDurable, AnswersHonest, FlightTyped, InFlight
<1>2. PICK r \in Results, took \in {0, 1} :
        /\ r \in Accepting => took = 1
        /\ r \in {"temporary", "permanent"} => took = 0
        /\ handed' = [handed EXCEPT ![j][i] = @ + took]
        /\ result' = [result EXCEPT ![a] = r]
  BY DEF RelayAnswers
<1>3. /\ handed'[j][i] = took
      /\ \A k \in Jobs, m \in Seqs : k # j \/ m # i => handed'[k][m] = handed[k][m]
  BY <1>1, <1>2 DEF TypeInv, TypeOK
<1>4. /\ UNCHANGED <<outbox, state, job, seq>> /\ pc'[a] = "answered" /\ result'[a] = r
      /\ \A b \in Agents : b # a => pc'[b] = pc[b] /\ result'[b] = result[b]
  BY <1>2 DEF RelayAnswers, rows, TypeInv, TypeOK
<1>5. ClaimsDurable' /\ ClaimsExclusive'
  <2>1. \A b \in Agents : InFlight(b)' => InFlight(b)
    BY <1>1, <1>4 DEF InFlight
  <2> QED
    BY <1>4, <2>1 DEF Core, ClaimsDurable, ClaimsExclusive
<1>6. AnswersHonest'
  <2> SUFFICES ASSUME NEW b \in Agents
               PROVE  /\ pc'[b] = "flight" => handed'[job'[b]][seq'[b]] = 0
                      /\ pc'[b] = "answered" =>
                           /\ result'[b] \in Accepting => handed'[job'[b]][seq'[b]] = 1
                           /\ result'[b] \in {"temporary", "permanent"} => handed'[job'[b]][seq'[b]] = 0
    BY DEF AnswersHonest
  <2>1. CASE b = a
    BY <1>1, <1>2, <1>3, <1>4, <2>1
  <2>2. CASE b # a
    <3>1. InFlight(b) => job[b] \in Jobs /\ seq[b] \in Seqs /\ (job[b] # j \/ seq[b] # i)
      BY <1>1, <2>2, FlightsTyped DEF Core, ClaimsExclusive, FlightTyped, InFlight
    <3> QED
      BY <1>3, <1>4, <2>2, <3>1 DEF Core, AnswersHonest, InFlight
  <2> QED
    BY <2>1, <2>2
<1>7. AbsentUntouched' /\ OutcomesHonest' /\ AtMostOnce'
  <2> SUFFICES ASSUME NEW k \in Jobs, NEW m \in Seqs
               PROVE  /\ outbox'[k] = "absent" => state'[k][m] = "absent"
                      /\ state'[k][m] = "absent" => handed'[k][m] = 0
                      /\ state'[k][m] = "accepted" => handed'[k][m] = 1
                      /\ state'[k][m] \in {"queued", "retryable", "failed", "quarantined"} => handed'[k][m] = 0
                      /\ handed'[k][m] <= 1
    BY DEF AbsentUntouched, OutcomesHonest, AtMostOnce
  <2>1. CASE k = j /\ m = i
    BY <1>1, <1>3, <1>4, <2>1 DEF Core, AbsentUntouched
  <2>2. CASE k # j \/ m # i
    BY <1>3, <1>4, <2>2 DEF Core, AbsentUntouched, OutcomesHonest, AtMostOnce
  <2> QED
    BY <2>1, <2>2
<1> QED
  BY <1>5, <1>6, <1>7 DEF Core

(* The holder records what the relay did, and stops being in flight.        *)
LEMMA CompleteCore ==
  ASSUME TypeInv, Core, NEW a \in Agents, Complete(a)
  PROVE  Core'
<1> DEFINE j == job[a]
           i == seq[a]
           o == Outcome(result[a], attempts[j][i])
<1>1. pc[a] = "answered" /\ j \in Jobs /\ i \in Seqs /\ state[j][i] = "submitting"
  BY FlightsTyped DEF Complete, Core, ClaimsDurable, FlightTyped, InFlight
<1>2. /\ state'[j][i] = o
      /\ \A k \in Jobs, m \in Seqs : k # j \/ m # i => state'[k][m] = state[k][m]
      /\ UNCHANGED handed
  BY <1>1 DEF Complete, CompleteOutbound, TypeInv, TypeOK
<1>3. \A k \in Jobs : outbox'[k] = "absent" => outbox[k] = "absent"
  BY <1>1 DEF Complete, CompleteOutbound, CompactOutbound, TypeInv, TypeOK
<1>4. ~InFlight(a)' /\ \A b \in Agents : b # a =>
        pc'[b] = pc[b] /\ job'[b] = job[b] /\ seq'[b] = seq[b] /\ result'[b] = result[b]
  BY DEF Complete, Returns, Leave, Goto, InFlight, TypeInv, TypeOK
<1>5. \A b \in Agents : b # a /\ InFlight(b)' =>
        /\ pc'[b] = pc[b] /\ job'[b] = job[b] /\ seq'[b] = seq[b] /\ result'[b] = result[b]
        /\ job[b] # j \/ seq[b] # i
  BY <1>1, <1>4 DEF Core, ClaimsExclusive, InFlight
<1>6. /\ o = "accepted" => handed[j][i] = 1
      /\ o \in {"queued", "retryable", "failed", "quarantined"} => handed[j][i] = 0
      /\ o # "absent"
  <2>1. result[a] \in Results
    BY DEF TypeInv, TypeOK
  <2> QED
    BY <1>1, <2>1 DEF Outcome, Results, Accepting, Core, AnswersHonest
<1>7. outbox[j] # "absent"
  BY <1>1 DEF Core, AbsentUntouched
<1> HIDE DEF j, i, o
<1> QED
  BY <1>1, <1>2, <1>3, <1>4, <1>5, <1>6, <1>7, RowCore, FlightsTyped

(* Withdrawing a row the relay never took.                                  *)
LEMMA QuarantineCore ==
  ASSUME TypeInv, Core, NEW w \in Workers, Quarantine(w)
  PROVE  Core'
<1> DEFINE j == job[w]
           i == seq[w]
<1>1. j \in Jobs /\ i \in Seqs /\ w \in Agents
  BY DEF Quarantine, TypeInv, TypeOK, OnJob, Resting, Agents
<1>2. ~InFlight(w)' /\ \A b \in Agents : b # w =>
        pc'[b] = pc[b] /\ job'[b] = job[b] /\ seq'[b] = seq[b] /\ result'[b] = result[b]
  BY <1>1 DEF Quarantine, Leave, InFlight, TypeInv, TypeOK
<1>3. CASE UNCHANGED rows
  BY <1>2, <1>3, QuietCore DEF Quarantine, rows
<1>4. CASE QuarantineOutbound(j, i)
  <2>1. state[j][i] \in {"queued", "retryable", "quarantined"} /\ handed[j][i] = 0
    BY <1>1, <1>4 DEF QuarantineOutbound, Core, OutcomesHonest, Unclaimed
  <2>2. /\ state'[j][i] = "quarantined" /\ UNCHANGED <<outbox, handed>>
        /\ \A k \in Jobs, m \in Seqs : k # j \/ m # i => state'[k][m] = state[k][m]
    BY <1>1, <1>4 DEF QuarantineOutbound, Quarantine, TypeInv, TypeOK
  <2>3. \A b \in Agents : b # w /\ InFlight(b)' =>
          /\ pc'[b] = pc[b] /\ job'[b] = job[b] /\ seq'[b] = seq[b] /\ result'[b] = result[b]
          /\ job[b] # j \/ seq[b] # i
    BY <1>2, <2>1 DEF Core, ClaimsDurable, InFlight
  <2>4. outbox[j] # "absent"
    BY <1>1, <2>1 DEF Core, AbsentUntouched
  <2> HIDE DEF j, i
  <2> QED
    BY <1>1, <1>2, <2>1, <2>2, <2>3, <2>4, RowCore, FlightsTyped
<1> QED
  BY <1>3, <1>4 DEF Quarantine

(* Steps that only move an agent out of flight.                             *)
Calm ==
  \A a \in Agents : InFlight(a)' =>
    pc'[a] = pc[a] /\ job'[a] = job[a] /\ seq'[a] = seq[a] /\ result'[a] = result[a]

LEMMA LeaveCalm ==
  ASSUME LocalsOK, NEW a \in Agents, NEW step \in Resting, Leave(a, step)
  PROVE  Calm
BY DEF LocalsOK, Leave, Resting, Calm, InFlight

LEMMA GotoCalm ==
  ASSUME LocalsOK, NEW a \in Agents, NEW step, step \notin {"flight", "answered"}, Goto(a, step)
  PROVE  Calm
BY DEF LocalsOK, Goto, Calm, InFlight

LEMMA ReturnsCalm ==
  ASSUME LocalsOK, NEW a \in Agents, NEW acc, NEW failed, Returns(a, acc, failed)
  PROVE  Calm
BY LeaveCalm, GotoCalm DEF Returns, Resting

(* Filing the Sent copy touches no delivery and deletes no job.             *)
LEMMA TryFileQuiet ==
  ASSUME RowsOK, NEW a \in Agents, TryFile(a)
  PROVE  UNCHANGED state /\ \A j \in Jobs : outbox'[j] = "absent" => outbox[j] = "absent"
BY DEF RowsOK, TryFile, FileOutboundSent, CompactOutbound, rows

LEMMA CoreStep == TypeInv /\ Core /\ [Next]_vars => Core'
<1> SUFFICES ASSUME TypeInv, Core, [Next]_vars
             PROVE  Core'
  OBVIOUS
<1>a. RowsOK /\ LocalsOK /\ Workers \subseteq Agents /\ Jobs \subseteq Agents
  BY TypeParts DEF Agents
<1>q. ASSUME UNCHANGED <<state, handed>>, Calm,
             \A j \in Jobs : outbox'[j] = "absent" => outbox[j] = "absent"
      PROVE  Core'
  BY <1>q, QuietCore DEF Calm
<1>1. ASSUME NEW j \in Jobs, RequestQueue(j)
      PROVE  Core'
  <2>1. PICK n \in Seqs, copy \in BOOLEAN : QueueOutbound(j, n, copy)
    BY <1>1 DEF RequestQueue
  <2>2. UNCHANGED handed /\ Calm
    BY <1>1, <1>a DEF RequestQueue, LocalsOK, Calm, InFlight
  <2> QED
    BY <2>1, <2>2, QueueCore DEF Calm
<1>2. ASSUME NEW j \in Jobs, RequestClaim(j)
      PROVE  Core'
  <2>1. job[j] = j
    BY <1>2, <1>a DEF RequestClaim, TypeInv, OnJob, Resting
  <2> QED
    BY <1>2, <1>a, <2>1, ZeroSeq, ClaimCore DEF RequestClaim
<1>3. ASSUME NEW j \in Jobs, RequestRefused(j)
      PROVE  Core'
  <2>1. Calm
    BY <1>3, <1>a, LeaveCalm DEF RequestRefused, Resting
  <2> QED
    BY <1>3, <1>q, <2>1 DEF RequestRefused, rows
<1>4. ASSUME NEW j \in Jobs, Queue(j)
      PROVE  Core'
  <2>1. PICK n \in Seqs, copy \in BOOLEAN : QueueOutbound(j, n, copy)
    BY <1>4 DEF Queue
  <2>2. UNCHANGED handed /\ Calm
    BY <1>4, <1>a, LeaveCalm DEF Queue, Resting
  <2> QED
    BY <2>1, <2>2, QueueCore DEF Calm
<1>5. ASSUME NEW j \in Jobs, RequestFollowOn(j)
      PROVE  Core'
  <2>1. job[j] = j /\ todo[j] \subseteq Seqs
    BY <1>5, <1>a DEF RequestFollowOn, TypeInv, OnJob, Resting, LocalsOK
  <2>2. PICK i \in todo[j] : \/ ClaimOutbound(j, i) /\ Holds(j, i)
                             \/ UNCHANGED <<rows, pc, job, seq, token, result>>
    BY <1>5 DEF RequestFollowOn
  <2>3. UNCHANGED handed
    BY <1>5 DEF RequestFollowOn
  <2>4. CASE ClaimOutbound(j, i) /\ Holds(j, i)
    BY <1>a, <2>1, <2>3, <2>4, ClaimCore
  <2>5. CASE UNCHANGED <<rows, pc, job, seq, token, result>>
    BY <2>3, <2>5, <1>q DEF rows, Calm
  <2> QED
    BY <2>2, <2>4, <2>5
<1>6. ASSUME NEW j \in Jobs, RequestLast(j)
      PROVE  Core'
  <2>1. Calm
    BY <1>6, <1>a, GotoCalm DEF RequestLast
  <2> QED
    BY <1>6, <1>q, <2>1 DEF RequestLast, rows
<1>7. ASSUME NEW a \in Agents, CompleteFails(a)
      PROVE  Core'
  <2>1. Calm
    BY <1>7, <1>a, ReturnsCalm DEF CompleteFails
  <2> QED
    BY <1>7, <1>q, <2>1 DEF CompleteFails, rows
<1>8. ASSUME NEW a \in Agents, FileAfterDelivery(a)
      PROVE  Core'
  <2>1. Calm
    BY <1>8, <1>a, ReturnsCalm DEF FileAfterDelivery
  <2> QED
    BY <1>8, <1>a, <1>q, <2>1, TryFileQuiet DEF FileAfterDelivery
<1>9. ASSUME NEW a \in Agents, FileSent(a)
      PROVE  Core'
  <2>1. Calm
    BY <1>9, <1>a, LeaveCalm, GotoCalm DEF FileSent, Resting
  <2> QED
    BY <1>9, <1>a, <1>q, <2>1, TryFileQuiet DEF FileSent
<1>10. ASSUME NEW w \in Workers, NEW j \in Jobs, RecoverRead(w, j)
       PROVE  Core'
  <2>1. Calm
    BY <1>10, <1>a DEF RecoverRead, LocalsOK, Calm, InFlight
  <2> QED
    BY <1>10, <1>q, <2>1 DEF RecoverRead, rows
<1>11. ASSUME NEW w \in Workers, RecoverSubmit(w)
       PROVE  Core'
  <2>1. job[w] \in Jobs /\ todo[w] \subseteq Seqs
    BY <1>11, <1>a DEF RecoverSubmit, TypeInv, OnJob, Resting, LocalsOK
  <2>2. PICK i \in todo[w] :
          \/ /\ pc' = [pc EXCEPT ![w] = "quarantine"]
             /\ seq' = [seq EXCEPT ![w] = i]
             /\ UNCHANGED <<rows, job, token, result, todo>>
          \/ Leave(w, "idle") /\ UNCHANGED rows
          \/ ClaimOutbound(job[w], i) /\ (Holds(w, i) \/ Leave(w, "idle"))
    BY <1>11 DEF RecoverSubmit
  <2>3. UNCHANGED handed
    BY <1>11 DEF RecoverSubmit
  <2>4. CASE /\ pc' = [pc EXCEPT ![w] = "quarantine"]
             /\ seq' = [seq EXCEPT ![w] = i]
             /\ UNCHANGED <<rows, job, token, result, todo>>
    <3>1. Calm
      BY <1>a, <2>4 DEF LocalsOK, Calm, InFlight
    <3> QED
      BY <2>3, <2>4, <3>1, <1>q DEF rows
  <2>5. CASE Leave(w, "idle") /\ UNCHANGED rows
    <3>1. Calm
      BY <1>a, <2>5, LeaveCalm DEF Resting
    <3> QED
      BY <2>3, <2>5, <3>1, <1>q DEF rows
  <2>6. CASE ClaimOutbound(job[w], i) /\ (Holds(w, i) \/ Leave(w, "idle"))
    BY <1>a, <2>1, <2>3, <2>6, ClaimCore
  <2> QED
    BY <2>2, <2>4, <2>5, <2>6
<1>12. ASSUME NEW w \in Workers, RecoverSkip(w)
       PROVE  Core'
  BY <1>12, <1>q DEF RecoverSkip, rows, Calm
<1>13. ASSUME NEW w \in Workers, RecoverEnds(w)
       PROVE  Core'
  <2>1. Calm
    BY <1>13, <1>a, LeaveCalm DEF RecoverEnds, Resting
  <2> QED
    BY <1>13, <1>q, <2>1 DEF RecoverEnds, rows
<1>14. ASSUME NEW w \in Workers, Crash(w)
       PROVE  Core'
  <2>1. Calm
    BY <1>14, <1>a DEF Crash, LocalsOK, Calm, InFlight
  <2> QED
    BY <1>14, <1>q, <2>1 DEF Crash, rows
<1>15. ASSUME UNCHANGED <<state, handed, outbox, locals>>
       PROVE  Core'
  BY <1>15, <1>q DEF locals, Calm
<1>16. (\E j \in Jobs, i \in Seqs : BackoffElapses(j, i)) => UNCHANGED <<state, handed, outbox, locals>>
  BY DEF BackoffElapses
<1>17. (\E j \in Jobs : AuthorityMoves(j)) \/ BarrierMoves \/ UNCHANGED vars
         => UNCHANGED <<state, handed, outbox, locals>>
  BY DEF AuthorityMoves, BarrierMoves, rows, vars
<1> QED
  BY <1>a, <1>1, <1>2, <1>3, <1>4, <1>5, <1>6, <1>7, <1>8, <1>9, <1>10, <1>11, <1>12, <1>13,
     <1>14, <1>15, <1>16, <1>17, RelayCore, CompleteCore, QuarantineCore
  DEF Next, RequestStep, DeliveryStep, WorkerStep, Environment

LEMMA CoreInit == Init => Core
BY DEF Init, Core, ClaimsDurable, ClaimsExclusive, AnswersHonest, AbsentUntouched, OutcomesHonest,
       AtMostOnce, InFlight

LEMMA CoreAlways == Spec => [](TypeInv /\ Core)
BY TypeInit, TypeStep, CoreInit, CoreStep, PTL DEF Spec

(* Whatever crashes, answers get lost and workers compete, no delivery is   *)
(* handed to the relay twice (ClaimOutbound, CompleteOutbound, Recover).    *)
THEOREM DeliversAtMostOnce == Spec => []AtMostOnce
<1>1. Core => AtMostOnce
  BY DEF Core
<1> QED
  BY <1>1, CoreAlways, PTL

(* A recorded outcome never claims more or less than the relay did.         *)
THEOREM RecordsHonestly == Spec => []OutcomesHonest
<1>1. Core => OutcomesHonest
  BY DEF Core
<1> QED
  BY <1>1, CoreAlways, PTL

-----------------------------------------------------------------------------
(* What the outbox promises beyond at-most-once, for every set of jobs and  *)
(* workers: the order of follow-ons, the HTTP answer, the Sent copy and the *)
(* receipt, the finality of outcomes, and that the whole of it implements   *)
(* OneShotDelivery.                                                         *)

(* Everything a step may do to the job rows, the Sent copy and the relay's  *)
(* record.                                                                  *)
RowsStill    == UNCHANGED <<outbox, state, attempts, sent, handed, copies>>
RowsEnter    == \E j \in Jobs, n \in Seqs, copy \in BOOLEAN :
  QueueOutbound(j, n, copy) /\ UNCHANGED <<handed, copies>>
RowsClaim    == \E j \in Jobs, i \in Seqs :
  ClaimOutbound(j, i) /\ Submittable(j, i) /\ UNCHANGED <<handed, copies>>
RowsRelay    == \E a \in Agents : RelayAnswers(a)
RowsComplete == \E a \in Agents : Complete(a)
RowsFile     == \E j \in Jobs : FileOutboundSent(j) /\ UNCHANGED handed
RowsWithdraw == \E j \in Jobs, i \in Seqs :
  QuarantineOutbound(j, i) /\ UNCHANGED <<handed, copies>>

(* Every step is one of these: what the later proofs need of Next.          *)
LEMMA RowMoves ==
  ASSUME TypeInv, [Next]_vars
  PROVE  \/ RowsStill \/ RowsEnter \/ RowsClaim \/ RowsRelay
         \/ RowsComplete \/ RowsFile \/ RowsWithdraw
<1>a. RowsOK /\ LocalsOK /\ OnJob /\ Workers \subseteq Agents /\ Jobs \subseteq Agents
  BY TypeParts DEF Agents
<1>1. ASSUME NEW j \in Jobs, RequestStep(j)
      PROVE  RowsStill \/ RowsEnter \/ RowsClaim
  <2>1. CASE RequestQueue(j)
    BY <2>1 DEF RequestQueue, RowsEnter
  <2>2. CASE RequestClaim(j)
    BY <2>2, ZeroSeq DEF RequestClaim, RowsClaim, Submittable
  <2>3. CASE RequestRefused(j)
    BY <2>3 DEF RequestRefused, RowsStill, rows
  <2>4. CASE Queue(j)
    BY <2>4 DEF Queue, RowsEnter
  <2>5. CASE RequestFollowOn(j)
    <3>1. todo[j] \subseteq Seqs
      BY <1>a DEF LocalsOK
    <3> QED
      BY <2>5, <3>1 DEF RequestFollowOn, RowsStill, RowsClaim, rows
  <2>6. CASE RequestLast(j)
    BY <2>6 DEF RequestLast, RowsStill, rows
  <2> QED
    BY <1>1, <2>1, <2>2, <2>3, <2>4, <2>5, <2>6 DEF RequestStep
<1>2. ASSUME NEW a \in Agents, DeliveryStep(a)
      PROVE  RowsStill \/ RowsRelay \/ RowsComplete \/ RowsFile
  <2>1. CASE CompleteFails(a)
    BY <2>1 DEF CompleteFails, RowsStill, rows
  <2>2. CASE FileAfterDelivery(a)
    <3>1. job[a] \in Jobs
      BY <1>a, <2>2 DEF FileAfterDelivery, OnJob, Resting
    <3> QED
      BY <2>2, <3>1 DEF FileAfterDelivery, TryFile, RowsStill, RowsFile, rows
  <2>3. CASE FileSent(a)
    <3>1. job[a] \in Jobs
      BY <1>a, <2>3 DEF FileSent, OnJob, Resting
    <3> QED
      BY <2>3, <3>1 DEF FileSent, TryFile, RowsStill, RowsFile, rows
  <2> QED
    BY <1>2, <2>1, <2>2, <2>3 DEF DeliveryStep, RowsRelay, RowsComplete
<1>3. ASSUME NEW w \in Workers, WorkerStep(w)
      PROVE  RowsStill \/ RowsClaim \/ RowsWithdraw
  <2>1. CASE \E j \in Jobs : RecoverRead(w, j)
    BY <2>1 DEF RecoverRead, RowsStill, rows
  <2>2. CASE RecoverSubmit(w)
    <3>1. todo[w] \subseteq Seqs /\ job[w] \in Jobs
      BY <1>a, <2>2 DEF RecoverSubmit, LocalsOK, OnJob, Resting
    <3> QED
      BY <2>2, <3>1 DEF RecoverSubmit, RowsStill, RowsClaim, rows
  <2>3. CASE RecoverSkip(w)
    BY <2>3 DEF RecoverSkip, RowsStill, rows
  <2>4. CASE RecoverEnds(w)
    BY <2>4 DEF RecoverEnds, RowsStill, rows
  <2>5. CASE Quarantine(w)
    <3>1. job[w] \in Jobs /\ seq[w] \in Seqs
      BY <1>a, <2>5 DEF Quarantine, LocalsOK, OnJob, Resting
    <3> QED
      BY <2>5, <3>1 DEF Quarantine, RowsStill, RowsWithdraw, rows
  <2> QED
    BY <1>3, <2>1, <2>2, <2>3, <2>4, <2>5 DEF WorkerStep
<1>4. Environment \/ UNCHANGED vars => RowsStill
  BY DEF Environment, BackoffElapses, AuthorityMoves, BarrierMoves, Crash, vars, rows, RowsStill
<1> QED
  BY <1>1, <1>2, <1>3, <1>4 DEF Next

(* The row an agent holds while it completes it, and what is left alone.    *)
LEMMA CompleteRow ==
  ASSUME TypeInv, Core, NEW a \in Agents, Complete(a)
  PROVE  /\ job[a] \in Jobs /\ seq[a] \in Seqs /\ pc[a] = "answered"
         /\ state[job[a]][seq[a]] = "submitting"
         /\ state' = [state EXCEPT ![job[a]][seq[a]] = Outcome(result[a], attempts[job[a]][seq[a]])]
         /\ UNCHANGED <<attempts, handed, sent, copies>>
BY FlightsTyped DEF Complete, CompleteOutbound, FlightTyped, InFlight

(* The relay takes a delivery that was never taken, and only one it was     *)
(* handed by an agent holding the claim.                                    *)
LEMMA RelayRow ==
  ASSUME TypeInv, Core, NEW a \in Agents, RelayAnswers(a)
  PROVE  /\ job[a] \in Jobs /\ seq[a] \in Seqs /\ pc[a] = "flight"
         /\ state[job[a]][seq[a]] = "submitting" /\ handed[job[a]][seq[a]] = 0
         /\ UNCHANGED <<state, attempts, outbox, sent, copies, response>>
         /\ handed' = handed \/ handed' = [handed EXCEPT ![job[a]][seq[a]] = 1]
<1>1. job[a] \in Jobs /\ seq[a] \in Seqs /\ pc[a] = "flight"
  BY FlightsTyped DEF RelayAnswers, FlightTyped, InFlight
<1>2. state[job[a]][seq[a]] = "submitting" /\ handed[job[a]][seq[a]] = 0
  BY <1>1 DEF Core, ClaimsDurable, AnswersHonest, InFlight
<1>3. PICK took \in {0, 1} : handed' = [handed EXCEPT ![job[a]][seq[a]] = @ + took]
  BY DEF RelayAnswers
<1>4. handed' = handed \/ handed' = [handed EXCEPT ![job[a]][seq[a]] = 1]
  <2>1. CASE took = 0
    BY <1>1, <1>2, <1>3, <2>1 DEF TypeInv, TypeOK
  <2>2. CASE took = 1
    BY <1>1, <1>2, <1>3, <2>2 DEF TypeInv, TypeOK
  <2> QED
    BY <2>1, <2>2
<1> QED
  BY <1>1, <1>2, <1>4 DEF RelayAnswers, rows

(* What the relay took it keeps.                                            *)
LEMMA HandedStays ==
  ASSUME TypeInv, Core, [Next]_vars, NEW j \in Jobs, NEW i \in Seqs, handed[j][i] = 1
  PROVE  handed'[j][i] = 1
<1>1. CASE RowsRelay
  <2>1. PICK a \in Agents : RelayAnswers(a)
    BY <1>1 DEF RowsRelay
  <2>2. /\ job[a] \in Jobs /\ seq[a] \in Seqs
        /\ handed' = handed \/ handed' = [handed EXCEPT ![job[a]][seq[a]] = 1]
    BY <2>1, RelayRow
  <2>3. CASE handed' = [handed EXCEPT ![job[a]][seq[a]] = 1]
    BY <2>2, <2>3 DEF TypeInv, TypeOK
  <2> QED
    BY <2>2, <2>3
<1>2. CASE RowsComplete
  BY <1>2, CompleteRow DEF RowsComplete
<1> QED
  BY <1>1, <1>2, RowMoves DEF RowsStill, RowsEnter, RowsClaim, RowsFile, RowsWithdraw

(* A step changes a delivery's state only as its row allows: absent rows    *)
(* enter with their job, unclaimed rows are claimed or withdrawn, claimed   *)
(* rows get an outcome.                                                     *)
LEMMA StateMoves ==
  ASSUME TypeInv, Core, [Next]_vars, NEW j \in Jobs, NEW i \in Seqs, state'[j][i] # state[j][i]
  PROVE  \/ outbox[j] = "absent" /\ state[j][i] = "absent"
         \/ state[j][i] \in Unclaimed
         \/ state[j][i] = "submitting"
<1>1. CASE RowsEnter
  <2>1. PICK k \in Jobs, n \in Seqs, copy \in BOOLEAN : QueueOutbound(k, n, copy)
    BY <1>1 DEF RowsEnter
  <2> QED
    BY <2>1 DEF QueueOutbound, Core, AbsentUntouched, TypeInv, TypeOK
<1>2. CASE RowsClaim
  <2>1. PICK k \in Jobs, m \in Seqs : ClaimOutbound(k, m)
    BY <1>2 DEF RowsClaim
  <2> QED
    BY <2>1 DEF ClaimOutbound, Claimable, TypeInv, TypeOK
<1>3. CASE RowsComplete
  <2>1. PICK a \in Agents : Complete(a)
    BY <1>3 DEF RowsComplete
  <2>2. /\ job[a] \in Jobs /\ seq[a] \in Seqs /\ state[job[a]][seq[a]] = "submitting"
        /\ \E s : state' = [state EXCEPT ![job[a]][seq[a]] = s]
    BY <2>1, CompleteRow, ZenonT(40)
  <2> QED
    BY <2>2 DEF TypeInv, TypeOK
<1>4. CASE RowsRelay
  BY <1>4, RelayRow DEF RowsRelay
<1>5. CASE RowsWithdraw
  <2>1. PICK k \in Jobs, m \in Seqs : QuarantineOutbound(k, m)
    BY <1>5 DEF RowsWithdraw
  <2> QED
    BY <2>1 DEF QuarantineOutbound, Unclaimed, TypeInv, TypeOK
<1> QED
  BY <1>1, <1>2, <1>3, <1>4, <1>5, RowMoves DEF RowsStill, RowsFile, FileOutboundSent

(* A job row appears once and is compacted once.                            *)
LEMMA OutboxMoves ==
  ASSUME TypeInv, Core, [Next]_vars, NEW j \in Jobs, outbox'[j] # outbox[j]
  PROVE  \/ outbox[j] = "absent" /\ outbox'[j] = "whole"
         \/ /\ outbox[j] = "whole" /\ outbox'[j] = "receipt" /\ sent'[j] # "reserved"
            /\ \A i \in Seqs : state'[j][i] \in Final \cup {"absent"}
<1>1. ASSUME NEW k \in Jobs, CompactOutbound(k)
      PROVE  /\ outbox[j] = "whole" /\ outbox'[j] = "receipt" /\ sent'[j] # "reserved"
             /\ \A i \in Seqs : state'[j][i] \in Final \cup {"absent"}
  BY <1>1 DEF CompactOutbound, TypeInv, TypeOK
<1>2. CASE RowsEnter
  BY <1>2 DEF RowsEnter, QueueOutbound, TypeInv, TypeOK
<1>3. CASE RowsComplete
  <2>1. PICK a \in Agents : Complete(a)
    BY <1>3 DEF RowsComplete
  <2>2. job[a] \in Jobs
    BY <2>1, CompleteRow
  <2> QED
    BY <1>1, <2>1, <2>2 DEF Complete, CompleteOutbound
<1>4. CASE RowsFile
  BY <1>1, <1>4 DEF RowsFile, FileOutboundSent
<1> QED
  BY <1>2, <1>3, <1>4, RowMoves
  DEF RowsStill, RowsClaim, ClaimOutbound, RowsRelay, RelayAnswers, rows, RowsWithdraw, QuarantineOutbound

(* What a delivery reached stays, and a receipt stays a receipt, whatever   *)
(* the workers, the requests and quarantine do afterwards (ClaimOutbound,   *)
(* QuarantineOutbound, compactOutbound).                                    *)
THEOREM OutcomesStay == Spec => OutcomesAreFinal
<1> DEFINE Stays == \A j \in Jobs :
             /\ outbox[j] = "receipt" => outbox'[j] = "receipt"
             /\ \A i \in Seqs :
                  state[j][i] \in Final \cup {"uncertain", "quarantined"} => state'[j][i] = state[j][i]
<1>1. TypeInv /\ Core /\ [Next]_vars => [Stays]_vars
  <2> SUFFICES ASSUME TypeInv, Core, [Next]_vars
               PROVE  Stays
    OBVIOUS
  <2>1. ASSUME NEW j \in Jobs
        PROVE  outbox[j] = "receipt" => outbox'[j] = "receipt"
    BY OutboxMoves
  <2>2. ASSUME NEW j \in Jobs, NEW i \in Seqs
        PROVE  state[j][i] \in Final \cup {"uncertain", "quarantined"} => state'[j][i] = state[j][i]
    BY StateMoves DEF Final, Unclaimed
  <2> QED
    BY <2>1, <2>2
<1> QED
  BY <1>1, CoreAlways, PTL DEF Spec, OutcomesAreFinal

-----------------------------------------------------------------------------
(* A request past its primary: in its follow-on loop, or in flight with a   *)
(* follow-on.                                                               *)
PastPrimary(j) ==
  pc[j] \in {"loop", "filing", "completed"} \/ (InFlight(j) /\ seq[j] # 0)

(* The relay took the primary of every request that is past it.             *)
PrimaryConfirmed == \A j \in Jobs : PastPrimary(j) => handed[j][0] = 1

(* A request gets past its primary only with an accepting answer to it.     *)
LEMMA PastPrimaryMoves ==
  ASSUME TypeInv, [Next]_vars, NEW j \in Jobs, PastPrimary(j)'
  PROVE  \/ PastPrimary(j)
         \/ pc[j] = "answered" /\ job[j] = j /\ seq[j] = 0 /\ result[j] \in Accepting
<1>a. LocalsOK /\ OnJob /\ j \in Agents /\ j \notin Workers /\ Jobs \subseteq Agents
  BY TypeParts, OutboxAssumption DEF Agents
<1>b. pc[j] \notin Resting => job[j] = j
  BY <1>a DEF OnJob
<1>1. CASE pc'[j] = pc[j] /\ seq'[j] = seq[j]
  BY <1>1 DEF PastPrimary, InFlight
<1>2. ASSUME NEW k \in Jobs, RequestStep(k), k = j
      PROVE  PastPrimary(j)
  <2>1. CASE RequestQueue(j) \/ RequestRefused(j) \/ Queue(j)
    BY <1>a, <2>1 DEF RequestQueue, RequestRefused, Queue, Leave, PastPrimary, InFlight, LocalsOK
  <2>2. CASE RequestClaim(j)
    BY <1>a, <2>2 DEF RequestClaim, Holds, Leave, PastPrimary, InFlight, LocalsOK
  <2>3. CASE RequestFollowOn(j) \/ RequestLast(j)
    BY <2>3 DEF RequestFollowOn, RequestLast, PastPrimary
  <2> QED
    BY <1>2, <2>1, <2>2, <2>3 DEF RequestStep
<1>3. ASSUME NEW a \in Agents, DeliveryStep(a), a = j
      PROVE  \/ PastPrimary(j)
             \/ pc[j] = "answered" /\ seq[j] = 0 /\ result[j] \in Accepting
  <2>1. CASE RelayAnswers(j)
    BY <1>a, <2>1 DEF RelayAnswers, PastPrimary, InFlight, LocalsOK
  <2>2. CASE Complete(j)
    BY <1>a, <2>2 DEF Complete, Returns, Leave, Goto, PastPrimary, InFlight, LocalsOK
  <2>3. CASE CompleteFails(j)
    <3>1. seq[j] \in Nat /\ pc[j] = "answered"
      BY <1>a, <2>3, OutboxAssumption DEF LocalsOK, Seqs, CompleteFails
    <3>2. CASE seq[j] = 0
      BY <1>a, <2>3, <3>2, <3>1 DEF CompleteFails, Returns, Leave, PastPrimary, InFlight, LocalsOK
    <3> QED
      BY <3>1, <3>2 DEF PastPrimary, InFlight
  <2>4. CASE FileAfterDelivery(j) \/ FileSent(j)
    BY <2>4 DEF FileAfterDelivery, FileSent, PastPrimary
  <2> QED
    BY <1>3, <2>1, <2>2, <2>3, <2>4 DEF DeliveryStep
<1>4. ASSUME NEW k \in Jobs, RequestStep(k), k # j
      PROVE  pc'[j] = pc[j] /\ seq'[j] = seq[j]
  BY <1>a, <1>4 DEF RequestStep, RequestQueue, RequestClaim, RequestRefused, Queue, RequestFollowOn,
     RequestLast, Leave, Goto, Holds, LocalsOK
<1>5. ASSUME NEW a \in Agents, DeliveryStep(a), a # j
      PROVE  pc'[j] = pc[j] /\ seq'[j] = seq[j]
  BY <1>a, <1>5 DEF DeliveryStep, RelayAnswers, Complete, CompleteFails, FileAfterDelivery, FileSent,
     Returns, Leave, Goto, LocalsOK
<1>6. ASSUME NEW w \in Workers, WorkerStep(w)
      PROVE  pc'[j] = pc[j] /\ seq'[j] = seq[j]
  BY <1>a, <1>6 DEF WorkerStep, RecoverRead, RecoverSubmit, RecoverSkip, RecoverEnds, Quarantine,
     Leave, Holds, LocalsOK
<1>7. ASSUME NEW w \in Workers, Crash(w)
      PROVE  pc'[j] = pc[j] /\ seq'[j] = seq[j]
  BY <1>a, <1>7 DEF Crash, PastPrimary, InFlight
<1>8. BarrierMoves \/ UNCHANGED vars \/ (\E k \in Jobs : AuthorityMoves(k))
        \/ (\E k \in Jobs, i \in Seqs : BackoffElapses(k, i))
        => UNCHANGED <<pc, seq>>
  BY DEF BarrierMoves, AuthorityMoves, BackoffElapses, vars, locals
<1> QED
  BY <1>b, <1>1, <1>2, <1>3, <1>4, <1>5, <1>6, <1>7, <1>8 DEF Next, Environment, Resting

LEMMA PrimaryConfirmedStep ==
  ASSUME TypeInv, Core, PrimaryConfirmed, [Next]_vars
  PROVE  PrimaryConfirmed'
<1> SUFFICES ASSUME NEW j \in Jobs, PastPrimary(j)'
             PROVE  handed'[j][0] = 1
  BY DEF PrimaryConfirmed
<1>1. handed[j][0] = 1
  <2>1. CASE PastPrimary(j)
    BY <2>1 DEF PrimaryConfirmed
  <2>2. CASE pc[j] = "answered" /\ job[j] = j /\ seq[j] = 0 /\ result[j] \in Accepting
    BY <2>2 DEF Core, AnswersHonest, Agents
  <2> QED
    BY <2>1, <2>2, PastPrimaryMoves
<1> QED
  BY <1>1, HandedStays, ZeroSeq

(* Only a request at the end of its follow-on loop answers ok.              *)
LEMMA ResponseMoves ==
  ASSUME TypeInv, [Next]_vars, NEW j \in Jobs, response'[j] = "ok", response[j] # "ok"
  PROVE  PastPrimary(j)
<1>a. WorldOK
  BY TypeParts
<1>1. ASSUME NEW a \in Agents, NEW acc, NEW failed, Returns(a, acc, failed)
      PROVE  response'[j] = response[j] \/ response'[j] = "notConfirmed"
  BY <1>a, <1>1 DEF Returns, WorldOK
<1>2. ASSUME NEW k \in Jobs, RequestStep(k)
      PROVE  response'[j] = response[j] \/ response'[j] = "notConfirmed"
  BY <1>a, <1>2 DEF RequestStep, RequestQueue, RequestClaim, RequestRefused, Queue, RequestFollowOn,
     RequestLast, WorldOK
<1>3. ASSUME NEW a \in Agents, DeliveryStep(a)
      PROVE  \/ response'[j] = response[j] \/ response'[j] = "notConfirmed"
             \/ a = j /\ pc[a] = "filing"
  <2>1. CASE FileSent(a)
    BY <1>a, <2>1 DEF FileSent, WorldOK
  <2>2. CASE RelayAnswers(a)
    BY <2>2 DEF RelayAnswers
  <2>3. CASE Complete(a) \/ CompleteFails(a) \/ FileAfterDelivery(a)
    BY <1>1, <2>3 DEF Complete, CompleteFails, FileAfterDelivery
  <2> QED
    BY <1>3, <2>1, <2>2, <2>3 DEF DeliveryStep
<1>4. ASSUME NEW w \in Workers, WorkerStep(w)
      PROVE  UNCHANGED response
  BY <1>4 DEF WorkerStep, RecoverRead, RecoverSubmit, RecoverSkip, RecoverEnds, Quarantine
<1>5. Environment \/ UNCHANGED vars => UNCHANGED response
  BY DEF Environment, BackoffElapses, AuthorityMoves, BarrierMoves, Crash, vars
<1> QED
  BY <1>2, <1>3, <1>4, <1>5 DEF Next, PastPrimary

LEMMA OkMeansAcceptedStep ==
  ASSUME TypeInv, Core, PrimaryConfirmed, OkMeansAccepted, [Next]_vars
  PROVE  OkMeansAccepted'
<1> SUFFICES ASSUME NEW j \in Jobs, response'[j] = "ok"
             PROVE  handed'[j][0] = 1
  BY DEF OkMeansAccepted
<1>1. handed[j][0] = 1
  BY ResponseMoves DEF PrimaryConfirmed, OkMeansAccepted
<1> QED
  BY <1>1, HandedStays, ZeroSeq

-----------------------------------------------------------------------------
(* A follow-on is claimed behind an accepted primary, and an accepted row   *)
(* never changes; a primary that is not accepted has no attempted           *)
(* follow-ons whose row it could invalidate.                                *)
LEMMA FollowOnsStep ==
  ASSUME TypeInv, Core, FollowOnsAfterPrimary, [Next]_vars
  PROVE  FollowOnsAfterPrimary'
<1> SUFFICES ASSUME NEW j \in Jobs, NEW i \in Seqs, i > 0, attempts'[j][i] > 0
             PROVE  state'[j][0] = "accepted"
  BY DEF FollowOnsAfterPrimary
<1>1. state[j][0] = "accepted" => state'[j][0] = "accepted"
  BY StateMoves, ZeroSeq DEF Unclaimed
<1>2. attempts'[j][i] = attempts[j][i] \/ state[j][0] = "accepted"
  <2>1. CASE RowsClaim
    <3>1. PICK k \in Jobs, m \in Seqs : ClaimOutbound(k, m) /\ Submittable(k, m)
      BY <2>1 DEF RowsClaim
    <3>2. CASE k = j /\ m = i
      BY <3>1, <3>2 DEF Submittable
    <3>3. CASE k # j \/ m # i
      BY <3>1, <3>3 DEF ClaimOutbound, TypeInv, TypeOK
    <3> QED
      BY <3>2, <3>3
  <2>2. CASE RowsComplete
    BY <2>2, CompleteRow DEF RowsComplete
  <2>3. CASE RowsRelay
    BY <2>3, RelayRow DEF RowsRelay
  <2> QED
    BY <2>1, <2>2, <2>3, RowMoves
    DEF RowsStill, RowsEnter, QueueOutbound, RowsFile, FileOutboundSent, RowsWithdraw, QuarantineOutbound
<1> QED
  BY <1>1, <1>2 DEF FollowOnsAfterPrimary

(* The Sent copy: a job that is not there owes none, the copies made are    *)
(* the one filed, and only mail the relay took was filed.                   *)
AbsentUnowed == \A j \in Jobs : outbox[j] = "absent" => sent[j] = "none"
CopiesFiled  == \A j \in Jobs : copies[j] = IF sent[j] = "filed" THEN 1 ELSE 0
CopiesTaken  == \A j \in Jobs : copies[j] > 0 => \E i \in Seqs : handed[j][i] = 1
(* A receipt owes nothing and has nothing left to try.                      *)
ReceiptsDone == \A j \in Jobs : outbox[j] = "receipt" =>
  sent[j] # "reserved" /\ \A i \in Seqs : state[j][i] \in Final \cup {"absent"}

Owed == AbsentUnowed /\ CopiesFiled /\ CopiesTaken /\ ReceiptsDone

(* How one job's Sent obligation and copies move.                           *)
LEMMA SentMoves ==
  ASSUME TypeInv, Core, [Next]_vars, NEW j \in Jobs
  PROVE  \/ sent'[j] = sent[j] /\ copies'[j] = copies[j]
         \/ /\ outbox[j] = "absent" /\ outbox'[j] = "whole"
            /\ sent'[j] \in {"none", "reserved"} /\ copies'[j] = copies[j]
         \/ /\ sent[j] = "reserved" /\ sent'[j] = "filed" /\ copies'[j] = copies[j] + 1
            /\ \E i \in Seqs : state[j][i] = "accepted"
<1>1. CASE RowsEnter
  BY <1>1 DEF RowsEnter, QueueOutbound, TypeInv, TypeOK
<1>2. CASE RowsFile
  BY <1>2 DEF RowsFile, FileOutboundSent, TypeInv, TypeOK
<1>3. CASE RowsComplete
  BY <1>3, CompleteRow DEF RowsComplete
<1>4. CASE RowsRelay
  BY <1>4, RelayRow DEF RowsRelay
<1> QED
  BY <1>1, <1>2, <1>3, <1>4, RowMoves
  DEF RowsStill, RowsClaim, ClaimOutbound, RowsWithdraw, QuarantineOutbound

LEMMA OwedStep ==
  ASSUME TypeInv, Core, Owed, [Next]_vars
  PROVE  Owed'
<1> SUFFICES ASSUME NEW j \in Jobs
             PROVE  /\ outbox'[j] = "absent" => sent'[j] = "none"
                    /\ copies'[j] = IF sent'[j] = "filed" THEN 1 ELSE 0
                    /\ copies'[j] > 0 => \E i \in Seqs : handed'[j][i] = 1
                    /\ outbox'[j] = "receipt" =>
                         sent'[j] # "reserved" /\ \A i \in Seqs : state'[j][i] \in Final \cup {"absent"}
  BY DEF Owed, AbsentUnowed, CopiesFiled, CopiesTaken, ReceiptsDone
<1>1. outbox'[j] = "absent" => outbox[j] = "absent"
  BY OutboxMoves
<1>2. outbox'[j] = "absent" => sent'[j] = "none"
  BY <1>1, SentMoves DEF Owed, AbsentUnowed
<1>3. copies'[j] = IF sent'[j] = "filed" THEN 1 ELSE 0
  BY SentMoves DEF Owed, AbsentUnowed, CopiesFiled
<1>4. copies'[j] > 0 => \E i \in Seqs : handed'[j][i] = 1
  <2>1. copies'[j] > 0 => \E i \in Seqs : handed[j][i] = 1
    BY SentMoves DEF Owed, CopiesTaken, Core, OutcomesHonest
  <2> QED
    BY <2>1, HandedStays
<1>5. ASSUME outbox'[j] = "receipt", outbox[j] = "receipt"
      PROVE  sent'[j] # "reserved" /\ \A i \in Seqs : state'[j][i] \in Final \cup {"absent"}
  <2>1. sent'[j] # "reserved"
    BY <1>5, SentMoves DEF Owed, ReceiptsDone
  <2>2. ASSUME NEW i \in Seqs
        PROVE  state'[j][i] = state[j][i]
    BY <1>5, StateMoves DEF Owed, ReceiptsDone, Final, Unclaimed
  <2> QED
    BY <1>5, <2>1, <2>2 DEF Owed, ReceiptsDone
<1>6. ASSUME outbox'[j] = "receipt", outbox[j] # "receipt"
      PROVE  sent'[j] # "reserved" /\ \A i \in Seqs : state'[j][i] \in Final \cup {"absent"}
  BY <1>6, OutboxMoves
<1> QED
  BY <1>2, <1>3, <1>4, <1>5, <1>6

-----------------------------------------------------------------------------
(* The inductive invariant of this module, on top of Core.                  *)
Promise == FollowOnsAfterPrimary /\ PrimaryConfirmed /\ OkMeansAccepted /\ Owed

LEMMA PromiseInit == Init => Promise
<1> SUFFICES ASSUME Init PROVE Promise
  OBVIOUS
<1>1. FollowOnsAfterPrimary /\ OkMeansAccepted
  BY DEF Init, FollowOnsAfterPrimary, OkMeansAccepted
<1>2. PrimaryConfirmed
  BY DEF Init, PrimaryConfirmed, PastPrimary, InFlight, Agents
<1>3. Owed
  BY DEF Init, Owed, AbsentUnowed, CopiesFiled, CopiesTaken, ReceiptsDone
<1> QED
  BY <1>1, <1>2, <1>3 DEF Promise

LEMMA PromiseAlways == Spec => [](TypeInv /\ Core /\ Promise)
<1>1. TypeInv /\ Core /\ Promise /\ [Next]_vars => Promise'
  BY FollowOnsStep, PrimaryConfirmedStep, OkMeansAcceptedStep, OwedStep DEF Promise
<1> QED
  BY <1>1, PromiseInit, CoreAlways, PTL DEF Spec

(* Follow-on groups are attempted only behind a primary whose acceptance is *)
(* recorded, whoever attempts them (Submit, Recover).                       *)
THEOREM FollowOnsInOrder == Spec => []FollowOnsAfterPrimary
<1>1. Promise => FollowOnsAfterPrimary
  BY DEF Promise
<1> QED
  BY <1>1, PromiseAlways, PTL

(* A request answered ok had its primary taken by the relay, also when the  *)
(* outcome could not be stored (finishNativeSend, deliver).                 *)
THEOREM OkIsTrue == Spec => []OkMeansAccepted
<1>1. Promise => OkMeansAccepted
  BY DEF Promise
<1> QED
  BY <1>1, PromiseAlways, PTL

(* One Sent copy at most, only of mail the relay took; a receipt is never   *)
(* written over anything owed or in flight (FileOutboundSent,               *)
(* compactOutbound).                                                        *)
THEOREM NothingOwedIsLost == Spec => []OwedKept
<1>1. TypeInv /\ Core /\ Promise => OwedKept
  <2> SUFFICES ASSUME TypeInv, Core, Promise, NEW j \in Jobs
               PROVE  /\ copies[j] = IF sent[j] = "filed" THEN 1 ELSE 0
                      /\ copies[j] > 0 => \E i \in Seqs : handed[j][i] = 1
                      /\ outbox[j] = "receipt" =>
                           /\ sent[j] # "reserved"
                           /\ \A i \in Seqs : state[j][i] \in Final \cup {"absent"}
                           /\ \A a \in Agents : pc[a] \in {"flight", "answered"} => job[a] # j
    BY DEF OwedKept
  <2>1. ASSUME outbox[j] = "receipt", NEW a \in Agents, pc[a] \in {"flight", "answered"}
        PROVE  job[a] # j
    <3>1. InFlight(a) /\ seq[a] \in Seqs /\ state[job[a]][seq[a]] = "submitting"
      BY <2>1, FlightsTyped DEF InFlight, FlightTyped, Core, ClaimsDurable
    <3> QED
      BY <2>1, <3>1 DEF Promise, Owed, ReceiptsDone, Final
  <2> QED
    BY <2>1 DEF Promise, Owed, CopiesFiled, CopiesTaken, ReceiptsDone
<1> QED
  BY <1>1, PromiseAlways, PTL

-----------------------------------------------------------------------------
(* The refinement: the rows of the outbox seen as phases.                   *)
phaseBar == [j \in Jobs |-> [i \in Seqs |-> PhaseOf(state[j][i])]]

(* Changing one row changes one phase.                                      *)
LEMMA PhaseRow ==
  ASSUME TypeInv, NEW j \in Jobs, NEW i \in Seqs, NEW s,
         state' = [state EXCEPT ![j][i] = s]
  PROVE  phaseBar' = [phaseBar EXCEPT ![j][i] = PhaseOf(s)]
<1>1. ASSUME NEW k \in Jobs, NEW m \in Seqs
      PROVE  state'[k][m] = IF k = j /\ m = i THEN s ELSE state[k][m]
  BY DEF TypeInv, TypeOK
<1>2. phaseBar' = [k \in Jobs |-> [m \in Seqs |-> PhaseOf(state'[k][m])]]
  BY DEF phaseBar
<1>3. phaseBar' = [k \in Jobs |-> [m \in Seqs |-> IF k = j /\ m = i THEN PhaseOf(s) ELSE PhaseOf(state[k][m])]]
  BY <1>1, <1>2
<1> QED
  BY <1>3 DEF phaseBar

LEMMA PhaseAt ==
  ASSUME NEW j \in Jobs, NEW i \in Seqs
  PROVE  phaseBar[j][i] = PhaseOf(state[j][i])
BY DEF phaseBar

(* The phases of the states a step finds or leaves.                         *)
LEMMA Phases ==
  /\ PhaseOf("absent") = "absent" /\ PhaseOf("queued") = "waiting" /\ PhaseOf("retryable") = "waiting"
  /\ PhaseOf("submitting") = "attempted" /\ PhaseOf("accepted") = "accepted"
  /\ PhaseOf("failed") = "failed" /\ PhaseOf("uncertain") = "unknown"
  /\ PhaseOf("quarantined") = "withdrawn"
BY DEF PhaseOf, Unclaimed, Final

LEMMA RefinesInit == Init => Abstract!Init
BY Phases DEF Init, Abstract!Init

(* QueueOutbound enters a job's deliveries, the primary among them.         *)
LEMMA RefinesEnter ==
  ASSUME TypeInv, Core, NEW j \in Jobs, NEW n \in Seqs, NEW copy \in BOOLEAN,
         QueueOutbound(j, n, copy), UNCHANGED handed
  PROVE  Abstract!Enter(j)
<1> DEFINE new == [i \in Seqs |-> IF i <= n THEN "waiting" ELSE "absent"]
<1>1. \A i \in Seqs : phaseBar[j][i] = "absent"
  BY PhaseAt, Phases DEF QueueOutbound, Core, AbsentUntouched
<1>2. new \in [Seqs -> {"absent", "waiting"}] /\ new[0] = "waiting"
  BY ZeroSeq, OutboxAssumption DEF Seqs
<1>3. phaseBar' = [phaseBar EXCEPT ![j] = new]
  <2>1. ASSUME NEW k \in Jobs, NEW m \in Seqs
        PROVE  PhaseOf(state'[k][m]) = IF k = j THEN new[m] ELSE PhaseOf(state[k][m])
    BY Phases DEF QueueOutbound, TypeInv, TypeOK
  <2>2. phaseBar' = [k \in Jobs |-> [m \in Seqs |-> PhaseOf(state'[k][m])]]
    BY DEF phaseBar
  <2>3. phaseBar' = [k \in Jobs |-> [m \in Seqs |-> IF k = j THEN new[m] ELSE PhaseOf(state[k][m])]]
    BY <2>1, <2>2
  <2> QED
    BY <2>3 DEF phaseBar
<1> HIDE DEF new
<1> QED
  BY <1>1, <1>2, <1>3 DEF Abstract!Enter, phaseBar

(* ClaimOutbound under the fence attempts a waiting delivery, a follow-on   *)
(* behind an accepted primary.                                              *)
LEMMA RefinesAttempt ==
  ASSUME TypeInv, NEW j \in Jobs, NEW i \in Seqs,
         ClaimOutbound(j, i), Submittable(j, i), UNCHANGED handed
  PROVE  Abstract!Attempt(j, i)
<1>1. phaseBar[j][i] = "waiting"
  BY PhaseAt, Phases DEF ClaimOutbound, Claimable, Unclaimed
<1>2. i = 0 \/ phaseBar[j][0] = "accepted"
  BY PhaseAt, Phases, ZeroSeq DEF Submittable
<1>3. phaseBar' = [phaseBar EXCEPT ![j][i] = "attempted"]
  <2>1. state' = [state EXCEPT ![j][i] = "submitting"]
    BY DEF ClaimOutbound
  <2>2. phaseBar' = [phaseBar EXCEPT ![j][i] = PhaseOf("submitting")]
    BY <2>1, PhaseRow, ZenonT(40)
  <2> QED
    BY <2>2, Phases
<1> QED
  BY <1>1, <1>2, <1>3 DEF Abstract!Attempt, phaseBar

(* The relay's side of a submission takes an attempted delivery, or leaves  *)
(* everything as it was.                                                    *)
LEMMA RefinesTake ==
  ASSUME TypeInv, Core, NEW a \in Agents, RelayAnswers(a)
  PROVE  UNCHANGED <<state, handed>> \/ Abstract!Take(job[a], seq[a])
<1>1. /\ job[a] \in Jobs /\ seq[a] \in Seqs
      /\ state[job[a]][seq[a]] = "submitting" /\ handed[job[a]][seq[a]] = 0
      /\ UNCHANGED state
      /\ handed' = handed \/ handed' = [handed EXCEPT ![job[a]][seq[a]] = 1]
  BY RelayRow
<1>2. phaseBar[job[a]][seq[a]] = "attempted" /\ UNCHANGED phaseBar
  BY <1>1, PhaseAt, Phases DEF phaseBar
<1> QED
  BY <1>1, <1>2 DEF Abstract!Take, phaseBar

(* CompleteOutbound settles an attempted delivery as what the relay did     *)
(* with it allows.                                                          *)
LEMMA RefinesSettle ==
  ASSUME TypeInv, Core, NEW a \in Agents, Complete(a)
  PROVE  Abstract!Settle(job[a], seq[a])
<1> DEFINE j == job[a]
           i == seq[a]
           o == Outcome(result[a], attempts[j][i])
<1>1. /\ j \in Jobs /\ i \in Seqs /\ pc[a] = "answered" /\ state[j][i] = "submitting"
      /\ state' = [state EXCEPT ![j][i] = o] /\ UNCHANGED handed
  BY CompleteRow
<1>2. phaseBar[j][i] = "attempted" /\ phaseBar' = [phaseBar EXCEPT ![j][i] = PhaseOf(o)]
  BY <1>1, PhaseAt, PhaseRow, Phases, ZenonT(40)
<1>3. \/ handed[j][i] = 1 /\ o = "accepted"
      \/ handed[j][i] = 0 /\ o = "failed"
      \/ handed[j][i] = 0 /\ o = "retryable"
      \/ o = "uncertain"
  <2>1. result[a] \in Results
    BY DEF TypeInv, TypeOK
  <2> QED
    BY <1>1, <2>1 DEF Core, AnswersHonest, Outcome, Results, Accepting
<1> HIDE DEF j, i, o
<1>4. \/ handed[j][i] = 1 /\ phaseBar' = [phaseBar EXCEPT ![j][i] = "accepted"]
      \/ handed[j][i] = 0 /\ phaseBar' = [phaseBar EXCEPT ![j][i] = "failed"]
      \/ handed[j][i] = 0 /\ phaseBar' = [phaseBar EXCEPT ![j][i] = "waiting"]
      \/ phaseBar' = [phaseBar EXCEPT ![j][i] = "unknown"]
  BY <1>2, <1>3, Phases
<1> QED
  BY <1>1, <1>2, <1>4 DEF Abstract!Settle, phaseBar, j, i

(* QuarantineOutbound withdraws a waiting delivery, once.                   *)
LEMMA RefinesWithdraw ==
  ASSUME TypeInv, NEW j \in Jobs, NEW i \in Seqs, QuarantineOutbound(j, i), UNCHANGED handed
  PROVE  UNCHANGED <<state, handed>> \/ Abstract!Withdraw(j, i)
<1>1. phaseBar' = [phaseBar EXCEPT ![j][i] = "withdrawn"]
  <2>1. state' = [state EXCEPT ![j][i] = "quarantined"]
    BY DEF QuarantineOutbound
  <2>2. phaseBar' = [phaseBar EXCEPT ![j][i] = PhaseOf("quarantined")]
    BY <2>1, PhaseRow, ZenonT(40)
  <2> QED
    BY <2>2, Phases
<1>2. CASE state[j][i] = "quarantined"
  BY <1>2 DEF QuarantineOutbound, TypeInv, TypeOK
<1>3. CASE state[j][i] \in Unclaimed
  <2>1. phaseBar[j][i] = "waiting"
    BY <1>3, PhaseAt, Phases DEF Unclaimed
  <2> QED
    BY <1>1, <2>1 DEF Abstract!Withdraw, phaseBar
<1> QED
  BY <1>2, <1>3 DEF QuarantineOutbound

(* Every step of the outbox is a step of the promise, or invisible to it.   *)
LEMMA RefinesStep ==
  ASSUME TypeInv, Core, [Next]_vars
  PROVE  [Abstract!Next]_(Abstract!vars)
<1>1. UNCHANGED <<state, handed>> => UNCHANGED Abstract!vars
  BY DEF Abstract!vars
<1>2. CASE RowsEnter
  BY <1>2, RefinesEnter DEF RowsEnter, Abstract!Next
<1>3. CASE RowsClaim
  BY <1>3, RefinesAttempt DEF RowsClaim, Abstract!Next
<1>4. CASE RowsRelay
  BY <1>1, <1>4, RefinesTake, RelayRow DEF RowsRelay, Abstract!Next
<1>5. CASE RowsComplete
  BY <1>5, RefinesSettle, CompleteRow DEF RowsComplete, Abstract!Next
<1>6. CASE RowsWithdraw
  BY <1>1, <1>6, RefinesWithdraw DEF RowsWithdraw, Abstract!Next
<1> QED
  BY <1>1, <1>2, <1>3, <1>4, <1>5, <1>6, RowMoves DEF RowsStill, RowsFile, FileOutboundSent

(* The requests, the workers, the relay and the crashes together implement  *)
(* the one-shot delivery promise: no second hand-over, no outcome that      *)
(* claims more than the relay did, no follow-on ahead of its primary.       *)
THEOREM OutboxRefinesOneShot == Spec => ImplementsOneShot
BY RefinesInit, RefinesStep, CoreAlways, PTL DEF Spec, ImplementsOneShot, Abstract!Spec
=============================================================================
