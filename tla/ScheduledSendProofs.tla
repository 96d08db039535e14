------------------------- MODULE ScheduledSendProofs ------------------------
(***************************************************************************)
(* Proofs about scheduled send, for any messages, users, goroutines and    *)
(* mishaps.                                                                *)
(*                                                                         *)
(* The argument.  A row in a goroutine's hands is in "sending", and in the *)
(* hands of one goroutine only (InHand, OneEach): every other party moves  *)
(* rows of another status.  So an IMAP row is put on the wire only while   *)
(* nothing was sent of it, and goes back to waiting or to Drafts only if   *)
(* the server did not take it.  What a backup fenced is never sendable, so *)
(* a restored server resends nothing (RowOK).                              *)
(***************************************************************************)
EXTENDS ScheduledSend, TLAPS

TypeInv ==
  /\ status \in [Rows -> Statuses]
  /\ phase \in [Rows -> [{0} -> Outbox!Phases]]
  /\ taken \in [Rows -> [{0} -> Nat]]
  /\ returns \subseteq Rows
  /\ pc \in [Agents -> Steps]
  /\ on \in [Agents -> Rows \cup {0}]
  /\ next \in [Agents -> Statuses]
  /\ restores \in Nat

(* What is true of a row and of its copy in the backup.                     *)
RowOK(r) ==
  /\ taken[r][0] <= 1
  /\ status[r] = "returned" => r \in drafts
  /\ status[r] = "queued" => phase[r][0] # "absent"
  /\ r \notin native =>
       /\ phase[r][0] = "absent"
       /\ status[r] \in {"absent", "scheduled"} => taken[r][0] = 0
       /\ restores = 0 =>
            /\ status[r] \in {"returning", "returned", "failed"} => taken[r][0] = 0
            /\ status[r] = "sent" => taken[r][0] = 1
  /\ backup # <<>> =>
       /\ backup[1][r] \in Statuses \ {"scheduled", "sending"}
       /\ backup[1][r] = "returned" => r \in drafts
       /\ backup[1][r] = "queued" => phase[r][0] # "absent"

(* A goroutine between its claim and the move that ends it.                 *)
Holds(a) == pc[a] \in {"claimed", "admitted", "decided"}

(* What was decided agrees with what was sent.                              *)
Decided(a) ==
  /\ next[a] \in {"failed", "returning", "scheduled", "queued", "sent", "uncertain"}
  /\ next[a] = "queued" => phase[on[a]][0] # "absent"
  /\ on[a] \notin native =>
       /\ next[a] \in {"scheduled", "returning", "failed"} => taken[on[a]][0] = 0
       /\ next[a] = "sent" => taken[on[a]][0] = 1

AgentOK(a) ==
  /\ Holds(a) =>
       /\ on[a] \in Rows /\ status[on[a]] = "sending"
       /\ pc[a] # "decided" /\ on[a] \notin native => taken[on[a]][0] = 0
       /\ pc[a] = "decided" => Decided(a)
  /\ pc[a] \in {"saving", "saved", "unsaved"} => on[a] \in Rows
  /\ pc[a] = "saved" => on[a] \in drafts

(* A row is in the hands of one goroutine.                                  *)
OneEach == \A a, b \in Agents : Holds(a) /\ Holds(b) /\ on[a] = on[b] => a = b

(* The inductive invariant.                                                 *)
IInv ==
  /\ TypeInv
  /\ \A r \in Rows : RowOK(r)
  /\ \A a \in Agents : AgentOK(a)
  /\ OneEach

-----------------------------------------------------------------------------
(* A step that touches one row and one agent.                               *)

SameRow(r)   == status'[r] = status[r] /\ taken'[r] = taken[r] /\ phase'[r] = phase[r]
SameAgent(a) == pc'[a] = pc[a] /\ on'[a] = on[a] /\ next'[a] = next[a]
Kept         == UNCHANGED <<native, backup, restores>> /\ drafts \subseteq drafts'

LEMMA RowKept ==
  ASSUME NEW r \in Rows, RowOK(r), SameRow(r), Kept
  PROVE  RowOK(r)'
BY DEF RowOK, SameRow, Kept

LEMMA AgentKept ==
  ASSUME NEW a \in Agents, AgentOK(a), SameAgent(a), Kept, Holds(a) => SameRow(on[a])
  PROVE  AgentOK(a)'
BY DEF AgentOK, SameRow, SameAgent, Kept, Holds, Decided

(* Row r and agent a change; nobody else has r in hand.                     *)
LEMMA OneStep ==
  ASSUME IInv, TypeInv', Kept, NEW r \in Rows, NEW a \in Agents,
         \A q \in Rows \ {r} : SameRow(q),
         \A b \in Agents \ {a} : SameAgent(b),
         \A b \in Agents \ {a} : Holds(b) => on[b] # r,
         Holds(a)' => on'[a] = r \/ (Holds(a) /\ on'[a] = on[a]),
         RowOK(r)', AgentOK(a)'
  PROVE  IInv'
<1>1. \A q \in Rows : RowOK(q)'
  BY RowKept DEF IInv
<1>2. \A b \in Agents : AgentOK(b)'
  <2> SUFFICES ASSUME NEW b \in Agents \ {a} PROVE AgentOK(b)'
    OBVIOUS
  <2>1. AgentOK(b) /\ (Holds(b) => SameRow(on[b]))
    BY DEF IInv, AgentOK
  <2> QED BY <2>1, AgentKept
<1>3. OneEach'
  BY DEF IInv, OneEach, Holds, SameAgent
<1> QED BY <1>1, <1>2, <1>3 DEF IInv

(* Only row r changes, which nobody has in hand.                            *)
LEMMA RowStep ==
  ASSUME IInv, TypeInv', Kept, NEW r \in Rows,
         \A q \in Rows \ {r} : SameRow(q),
         UNCHANGED <<pc, on, next>>,
         \A b \in Agents : Holds(b) => on[b] # r,
         RowOK(r)'
  PROVE  IInv'
<1>0. r \in Agents
  BY DEF Agents
<1>1. AgentOK(r)'
  BY <1>0, AgentKept DEF IInv, AgentOK, SameAgent, Holds
<1> QED BY <1>0, <1>1, OneStep DEF SameAgent, Holds

(* Only agent a changes, and takes nothing in hand.                         *)
LEMMA AgentStep ==
  ASSUME IInv, TypeInv', Kept, NEW a \in Agents,
         UNCHANGED <<status, phase, taken>>,
         \A b \in Agents \ {a} : SameAgent(b),
         Holds(a)' => Holds(a) /\ on'[a] = on[a],
         AgentOK(a)'
  PROVE  IInv'
<1>1. \A q \in Rows : RowOK(q)'
  BY RowKept DEF IInv, SameRow
<1>2. \A b \in Agents : AgentOK(b)'
  BY AgentKept DEF IInv, SameRow
<1>3. OneEach'
  BY DEF IInv, OneEach, Holds, SameAgent
<1> QED BY <1>1, <1>2, <1>3 DEF IInv

(* A row is in hand only while it is in sending.                            *)
LEMMA NotInHand ==
  ASSUME IInv, NEW r \in Rows, status[r] # "sending"
  PROVE  \A b \in Agents : Holds(b) => on[b] # r
BY DEF IInv, AgentOK

(* Nothing the invariant reads changes.                                     *)
LEMMA Untouched ==
  ASSUME IInv, UNCHANGED <<status, phase, taken, pc, on, next>>, Kept, returns' \subseteq Rows
  PROVE  IInv'
<1>1. TypeInv' /\ OneEach'
  BY DEF IInv, TypeInv, OneEach, Holds, Kept
<1>2. (\A r \in Rows : RowOK(r)') /\ (\A a \in Agents : AgentOK(a)')
  BY RowKept, AgentKept DEF IInv, SameRow, SameAgent
<1> QED BY <1>1, <1>2 DEF IInv

LEMMA Initially == Init => IInv
<1> SUFFICES ASSUME Init PROVE IInv
  OBVIOUS
<1>1. TypeInv
  BY DEF Init, TypeInv, Outbox!Init, Outbox!Phases, Statuses, Steps
<1>2. \A r \in Rows : RowOK(r)
  BY DEF Init, RowOK, Outbox!Init
<1>3. (\A a \in Agents : AgentOK(a)) /\ OneEach
  BY DEF Init, AgentOK, Holds, OneEach
<1> QED BY <1>1, <1>2, <1>3 DEF IInv

-----------------------------------------------------------------------------
(* Rows: scheduling, cancelling, the outbox.                                *)

LEMMA ScheduleKeeps ==
  ASSUME IInv, NEW r \in Rows, Schedule(r)
  PROVE  IInv'
<1> USE DEF Schedule, mail, agent, kept
<1>1. TypeInv' /\ Kept
  BY DEF IInv, TypeInv, Statuses, Pending, Kept
<1>2. \A q \in Rows \ {r} : SameRow(q)
  BY DEF IInv, TypeInv, SameRow
<1>3. RowOK(r)'
  BY DEF IInv, TypeInv, RowOK
<1> QED BY <1>1, <1>2, <1>3, NotInHand, RowStep

LEMMA CancelKeeps ==
  ASSUME IInv, NEW r \in Rows, Cancel(r)
  PROVE  IInv'
<1> USE DEF Cancel, mail, kept
<1>0. r \in Agents /\ status' = [status EXCEPT ![r] = "returning"] /\ status[r] = "scheduled"
  BY DEF Agents, MoveScheduledSend
<1>1. TypeInv' /\ Kept
  BY <1>0 DEF IInv, TypeInv, Statuses, Pending, Kept, Steps
<1>2. (\A q \in Rows \ {r} : SameRow(q)) /\ (\A b \in Agents \ {r} : SameAgent(b))
  BY <1>0 DEF IInv, TypeInv, SameRow, SameAgent
<1>3. RowOK(r)'
  BY <1>0 DEF IInv, TypeInv, RowOK
<1>4. AgentOK(r)' /\ ~Holds(r)'
  BY <1>0 DEF IInv, TypeInv, AgentOK, Holds
<1> QED BY <1>0, <1>1, <1>2, <1>3, <1>4, NotInHand, OneStep

(* The outbox works on what was entered, which native rows are.             *)
LEMMA OutboxKeeps ==
  ASSUME IInv, NEW r \in Rows, OutboxStep(r)
  PROVE  IInv'
<1> USE DEF agent, kept, row
<1>1. /\ r \in native /\ phase[r][0] # "absent"
      /\ UNCHANGED <<status, pc, on, next, drafts, restores, backup, native, returns>>
  BY DEF OutboxStep, IInv, RowOK, Outbox!Attempt, Outbox!Withdraw, Outbox!Take, Outbox!Settle
<1>2. \/ UNCHANGED taken /\ \E s \in Outbox!Phases \ {"absent"} : phase' = [phase EXCEPT ![r][0] = s]
      \/ UNCHANGED phase /\ taken' = [taken EXCEPT ![r][0] = 1]
  BY DEF OutboxStep, Outbox!Attempt, Outbox!Withdraw, Outbox!Take, Outbox!Settle, Outbox!Phases
<1>3. /\ TypeInv' /\ Kept
      /\ \A q \in Rows \ {r} : SameRow(q)
      /\ phase'[r][0] # "absent" /\ taken'[r][0] <= 1
  <2>1. CASE UNCHANGED taken /\ \E s \in Outbox!Phases \ {"absent"} : phase' = [phase EXCEPT ![r][0] = s]
    BY <1>1, <2>1 DEF IInv, TypeInv, Kept, SameRow, RowOK
  <2>2. CASE UNCHANGED phase /\ taken' = [taken EXCEPT ![r][0] = 1]
    BY <1>1, <2>2 DEF IInv, TypeInv, Kept, SameRow
  <2> QED BY <1>2, <2>1, <2>2
<1>4. \A q \in Rows : RowOK(q)'
  <2>1. RowOK(r)'
    BY <1>1, <1>3 DEF IInv, RowOK
  <2> QED BY <1>3, <2>1, RowKept DEF IInv
<1>5. \A b \in Agents : AgentOK(b)'
  <2> SUFFICES ASSUME NEW b \in Agents PROVE AgentOK(b)'
    OBVIOUS
  <2>1. CASE Holds(b) /\ on[b] = r
    BY <1>1, <1>3, <2>1 DEF IInv, AgentOK, Decided, Holds
  <2>2. CASE ~(Holds(b) /\ on[b] = r)
    BY <1>1, <1>3, <2>2, AgentKept DEF IInv, AgentOK, SameAgent
  <2> QED BY <2>1, <2>2
<1>6. OneEach'
  BY <1>1 DEF IInv, OneEach, Holds
<1> QED BY <1>3, <1>4, <1>5, <1>6 DEF IInv

-----------------------------------------------------------------------------
(* The goroutines.                                                          *)

LEMMA ClaimKeeps ==
  ASSUME IInv, NEW w \in Workers, Claim(w)
  PROVE  IInv'
<1> USE DEF mail, kept
<1>0. PICK r \in Claimable : status' = [status EXCEPT ![r] = "sending"] /\ on' = [on EXCEPT ![w] = r]
  BY DEF Claim
<1>1. /\ r \in Rows /\ status[r] = "scheduled" /\ w \in Agents
      /\ pc' = [pc EXCEPT ![w] = "claimed"]
      /\ UNCHANGED <<phase, taken, next, returns, drafts, restores, backup, native>>
  BY DEF Claimable, Claim, Agents
<1>2. TypeInv' /\ Kept
  BY <1>0, <1>1 DEF IInv, TypeInv, Statuses, Pending, Kept, Steps
<1>3. (\A q \in Rows \ {r} : SameRow(q)) /\ (\A b \in Agents \ {w} : SameAgent(b))
  BY <1>0, <1>1 DEF IInv, TypeInv, SameRow, SameAgent
<1>4. RowOK(r) /\ status'[r] = "sending" /\ pc'[w] = "claimed" /\ on'[w] = r
  BY <1>0, <1>1 DEF IInv, TypeInv
<1>5. RowOK(r)' /\ AgentOK(w)'
  BY <1>1, <1>4 DEF RowOK, AgentOK, Holds
<1> QED BY <1>1, <1>2, <1>3, <1>4, <1>5, NotInHand, OneStep

(* What Decide does to a goroutine.                                         *)
LEMMA Decides ==
  ASSUME IInv, NEW w \in Workers, Holds(w), NEW s, Decide(w, s),
         s \in {"failed", "returning", "scheduled", "queued", "sent", "uncertain"}
  PROVE  /\ \A b \in Agents \ {w} : SameAgent(b)
         /\ pc'[w] = "decided" /\ next'[w] = s /\ on'[w] = on[w] /\ on' = on
         /\ pc' \in [Agents -> Steps] /\ next' \in [Agents -> Statuses]
         /\ w \in Agents /\ on[w] \in Rows /\ status[on[w]] = "sending" /\ AgentOK(w)
         /\ \A b \in Agents \ {w} : Holds(b) => on[b] # on[w]
<1>1. w \in Agents
  BY DEF Agents
<1>2. /\ \A b \in Agents \ {w} : SameAgent(b)
      /\ pc'[w] = "decided" /\ next'[w] = s /\ on'[w] = on[w] /\ on' = on
      /\ pc' \in [Agents -> Steps] /\ next' \in [Agents -> Statuses]
  BY <1>1 DEF Decide, IInv, TypeInv, SameAgent, Steps, Statuses, Pending, Final
<1> QED BY <1>1, <1>2 DEF IInv, AgentOK, OneEach

LEMMA AuthorizeKeeps ==
  ASSUME IInv, NEW w \in Workers, Authorize(w)
  PROVE  IInv'
<1> USE DEF mail, kept, row
<1>0. /\ UNCHANGED <<status, phase, taken, returns, drafts, restores, backup, native>> /\ Kept
      /\ pc[w] = "claimed" /\ Holds(w)
  BY DEF Authorize, Kept, Holds
<1>1. CASE \E s \in {"failed", "returning", "scheduled"} : Decide(w, s)
  <2>1. PICK s \in {"failed", "returning", "scheduled"} : Decide(w, s)
    BY <1>1
  <2>2. /\ \A b \in Agents \ {w} : SameAgent(b)
        /\ pc'[w] = "decided" /\ next'[w] = s /\ on'[w] = on[w] /\ on' = on
        /\ pc' \in [Agents -> Steps] /\ next' \in [Agents -> Statuses]
        /\ w \in Agents /\ on[w] \in Rows /\ AgentOK(w)
    BY <1>0, <2>1, Decides
  <2>3. TypeInv'
    BY <1>0, <2>2 DEF IInv, TypeInv
  <2>4. AgentOK(w)'
    BY <1>0, <2>1, <2>2 DEF AgentOK, Holds, Decided
  <2> QED BY <1>0, <2>2, <2>3, <2>4, AgentStep
<1>2. CASE Goto(w, "admitted")
  <2>1. w \in Agents /\ pc' = [pc EXCEPT ![w] = "admitted"] /\ on' = on /\ next' = next
    BY <1>2 DEF Goto, Agents
  <2>2. TypeInv' /\ (\A b \in Agents \ {w} : SameAgent(b)) /\ pc'[w] = "admitted"
    BY <1>0, <2>1 DEF IInv, TypeInv, SameAgent, Steps
  <2>3. AgentOK(w)'
    BY <1>0, <2>1, <2>2 DEF IInv, AgentOK, Holds
  <2> QED BY <1>0, <2>1, <2>2, <2>3, AgentStep
<1> QED BY <1>1, <1>2 DEF Authorize

LEMMA QueueNativeKeeps ==
  ASSUME IInv, NEW w \in Workers, QueueNative(w)
  PROVE  IInv'
<1> USE DEF kept, row
<1> DEFINE r == on[w]
<1>0. /\ UNCHANGED <<status, taken, returns, drafts, restores, backup, native>> /\ Kept
      /\ pc[w] = "admitted" /\ Holds(w) /\ r \in native
  BY DEF QueueNative, Kept, Holds, mail, Outbox!Enter
<1>1. PICK s \in {"queued", "returning", "scheduled"} :
        /\ Decide(w, s)
        /\ Outbox!Enter(r) \/ UNCHANGED phase
        /\ s = "queued" => Outbox!Enter(r) \/ phase[r][0] # "absent"
  BY DEF QueueNative, mail
<1>2. /\ \A b \in Agents \ {w} : SameAgent(b)
      /\ pc'[w] = "decided" /\ next'[w] = s /\ on'[w] = r /\ on' = on
      /\ pc' \in [Agents -> Steps] /\ next' \in [Agents -> Statuses]
      /\ w \in Agents /\ r \in Rows /\ status[r] = "sending" /\ AgentOK(w)
      /\ \A b \in Agents \ {w} : Holds(b) => on[b] # r
  BY <1>0, <1>1, Decides
<1>3. /\ phase' \in [Rows -> [{0} -> Outbox!Phases]]
      /\ \A q \in Rows \ {r} : phase'[q] = phase[q]
      /\ phase[r][0] # "absent" => phase'[r][0] # "absent"
      /\ s = "queued" => phase'[r][0] # "absent"
  <2>1. CASE Outbox!Enter(r)
    <3>1. PICK new \in [{0} -> {"absent", "waiting"}] : new[0] = "waiting" /\ phase' = [phase EXCEPT ![r] = new]
      BY <2>1 DEF Outbox!Enter
    <3> QED BY <1>2, <3>1 DEF IInv, TypeInv, Outbox!Phases
  <2>2. CASE UNCHANGED phase /\ (s = "queued" => phase[r][0] # "absent")
    BY <2>2 DEF IInv, TypeInv
  <2> QED BY <1>1, <2>1, <2>2
<1>4. TypeInv'
  BY <1>0, <1>2, <1>3 DEF IInv, TypeInv
<1>5. \A q \in Rows \ {r} : SameRow(q)
  BY <1>0, <1>3 DEF SameRow
<1>6. RowOK(r)'
  BY <1>0, <1>2, <1>3 DEF IInv, RowOK
<1>7. AgentOK(w)'
  BY <1>0, <1>1, <1>2, <1>3 DEF AgentOK, Holds, Decided
<1> QED BY <1>0, <1>2, <1>4, <1>5, <1>6, <1>7, OneStep

LEMMA DeliverIMAPKeeps ==
  ASSUME IInv, NEW w \in Workers, DeliverIMAP(w)
  PROVE  IInv'
<1> USE DEF kept, row
<1> DEFINE r == on[w]
<1>0. /\ UNCHANGED <<status, phase, returns, drafts, restores, backup, native>> /\ Kept
      /\ pc[w] = "admitted" /\ Holds(w) /\ r \notin native
  BY DEF DeliverIMAP, Kept, Holds
<1>1. w \in Agents /\ r \in Rows /\ taken[r][0] = 0
  BY <1>0 DEF IInv, AgentOK, Agents
<1>2. PICK took \in {0, 1}, s \in {"returning", "sent", "uncertain", "scheduled"} :
        /\ Decide(w, s) /\ taken' = [taken EXCEPT ![r][0] = took]
        /\ s = "sent" => took = 1
        /\ s \in {"returning", "scheduled"} => took = 0
  <2>1. CASE Decide(w, "returning") /\ UNCHANGED taken
    <3>1. taken' = [taken EXCEPT ![r][0] = 0]
      BY <2>1, <1>1 DEF IInv, TypeInv
    <3> QED BY <2>1, <3>1
  <2>2. CASE \E took \in {0, 1} :
               taken' = [taken EXCEPT ![r][0] = @ + took] /\ \E s \in Delivered(took) : Decide(w, s)
    <3>1. PICK took \in {0, 1} :
            taken' = [taken EXCEPT ![r][0] = @ + took] /\ \E s \in Delivered(took) : Decide(w, s)
      BY <2>2
    <3>2. PICK s \in Delivered(took) : Decide(w, s)
      BY <3>1
    <3>3. taken' = [taken EXCEPT ![r][0] = took]
      BY <1>1, <3>1 DEF IInv, TypeInv
    <3>4. /\ s \in {"returning", "sent", "uncertain", "scheduled"}
          /\ s = "sent" => took = 1
          /\ s \in {"returning", "scheduled"} => took = 0
      BY <3>1, <3>2 DEF Delivered
    <3> QED BY <3>2, <3>3, <3>4
  <2> QED BY <2>1, <2>2 DEF DeliverIMAP
<1>3. /\ \A b \in Agents \ {w} : SameAgent(b)
      /\ pc'[w] = "decided" /\ next'[w] = s /\ on'[w] = r /\ on' = on
      /\ pc' \in [Agents -> Steps] /\ next' \in [Agents -> Statuses]
      /\ status[r] = "sending" /\ AgentOK(w)
      /\ \A b \in Agents \ {w} : Holds(b) => on[b] # r
  BY <1>0, <1>2, Decides
<1>4. /\ taken' \in [Rows -> [{0} -> Nat]] /\ taken'[r][0] = took
      /\ \A q \in Rows \ {r} : taken'[q] = taken[q]
  BY <1>1, <1>2 DEF IInv, TypeInv
<1>5. TypeInv'
  BY <1>0, <1>3, <1>4 DEF IInv, TypeInv
<1>6. \A q \in Rows \ {r} : SameRow(q)
  BY <1>0, <1>4 DEF SameRow
<1>7. RowOK(r)'
  BY <1>0, <1>1, <1>3, <1>4 DEF IInv, RowOK
<1>8. AgentOK(w)'
  BY <1>0, <1>1, <1>2, <1>3, <1>4 DEF AgentOK, Holds, Decided
<1> QED BY <1>0, <1>1, <1>3, <1>5, <1>6, <1>7, <1>8, OneStep

(* The compare-and-swap, or a storage error.                                *)
LEMMA MovedStatus ==
  ASSUME NEW r, NEW from, NEW to, NEW later, Moved(r, from, to, later)
  PROVE  UNCHANGED status \/ (status[r] = from /\ status' = [status EXCEPT ![r] = to])
BY DEF Moved, MoveScheduledSend, row

(* An agent that rests has nothing in hand.                                 *)
LEMMA Rests ==
  ASSUME TypeInv, NEW a \in Agents, Rest(a)
  PROVE  /\ \A b \in Agents \ {a} : SameAgent(b)
         /\ pc' \in [Agents -> Steps] /\ on' \in [Agents -> Rows \cup {0}] /\ next' \in [Agents -> Statuses]
         /\ ~Holds(a)' /\ AgentOK(a)'
<1>1. pc'[a] \in {"ready", "done"}
  BY DEF Rest, TypeInv
<1>2. /\ \A b \in Agents \ {a} : SameAgent(b)
      /\ pc' \in [Agents -> Steps] /\ on' \in [Agents -> Rows \cup {0}] /\ next' \in [Agents -> Statuses]
  BY DEF Rest, TypeInv, SameAgent, Steps, Statuses
<1> QED BY <1>1, <1>2 DEF AgentOK, Holds

(* So has one that goes on to a step without a row in hand.                 *)
LEMMA GoesTo ==
  ASSUME TypeInv, NEW a \in Agents, NEW step \in Steps, Goto(a, step)
  PROVE  /\ \A b \in Agents \ {a} : SameAgent(b)
         /\ pc' \in [Agents -> Steps] /\ pc'[a] = step /\ UNCHANGED <<on, next>>
BY DEF Goto, TypeInv, SameAgent

LEMMA MoveKeeps ==
  ASSUME IInv, NEW w \in Workers, Move(w)
  PROVE  IInv'
<1> USE DEF mail, kept
<1>r. PICK r \in Rows : r = on[w]
  BY DEF Move, IInv, AgentOK, Holds, Agents
<1> USE <1>r
<1> DEFINE s == Settled(next[w], r)
<1>0. /\ UNCHANGED <<phase, taken, returns, drafts, restores, backup, native>> /\ Kept
      /\ pc[w] = "decided" /\ Holds(w) /\ w \in Agents
  BY DEF Move, Kept, Holds, Agents
<1>1. AgentOK(w) /\ Decided(w) /\ r \in Rows /\ status[r] = "sending" /\ \A b \in Agents \ {w} : Holds(b) => on[b] # r
  BY <1>0 DEF IInv, AgentOK, OneEach
<1>2. UNCHANGED status \/ status' = [status EXCEPT ![r] = s]
  BY MovedStatus DEF Move
<1>3. /\ s \in {"failed", "returning", "scheduled", "queued", "sent", "uncertain"}
      /\ s = "queued" => phase[r][0] # "absent"
      /\ r \notin native =>
           /\ s \in {"scheduled", "returning", "failed"} => taken[r][0] = 0
           /\ s = "sent" => taken[r][0] = 1
  BY <1>1 DEF Settled, Decided
<1> HIDE DEF s
<1>4. /\ \A b \in Agents \ {w} : SameAgent(b)
      /\ pc' \in [Agents -> Steps] /\ on' \in [Agents -> Rows \cup {0}] /\ next' \in [Agents -> Statuses]
      /\ ~Holds(w)' /\ AgentOK(w)'
  <2>1. CASE Rest(w)
    BY <1>0, <2>1, Rests DEF IInv
  <2>2. CASE Goto(w, "saving")
    BY <1>0, <1>1, <2>2, GoesTo DEF IInv, Steps, AgentOK, Holds, TypeInv
  <2> QED BY <2>1, <2>2 DEF Move
<1>5. TypeInv'
  BY <1>0, <1>1, <1>2, <1>3, <1>4 DEF IInv, TypeInv, Statuses, Pending, Final
<1>6. \A q \in Rows \ {r} : SameRow(q)
  BY <1>0, <1>1, <1>2 DEF SameRow, IInv, TypeInv
<1>7. RowOK(r)'
  <2>1. status'[r] \in {s, "sending"}
    BY <1>1, <1>2 DEF IInv, TypeInv
  <2> QED BY <1>0, <1>1, <1>3, <2>1 DEF IInv, RowOK
<1> QED BY <1>0, <1>1, <1>4, <1>5, <1>6, <1>7, OneStep

LEMMA SaveDraftKeeps ==
  ASSUME IInv, NEW a \in Agents, SaveDraft(a)
  PROVE  IInv'
<1> USE DEF mail, kept, row
<1>0. /\ UNCHANGED <<status, phase, taken, returns, restores, backup, native>> /\ Kept
      /\ pc[a] = "saving" /\ on[a] \in Rows
  BY DEF SaveDraft, Kept, IInv, AgentOK
<1>1. PICK step \in {"saved", "unsaved"} : Goto(a, step) /\ (step = "saved" => on[a] \in drafts')
  BY DEF SaveDraft
<1>2. /\ \A b \in Agents \ {a} : SameAgent(b)
      /\ pc' \in [Agents -> Steps] /\ pc'[a] = step /\ UNCHANGED <<on, next>>
  BY <1>1, GoesTo DEF IInv, Steps
<1>3. TypeInv' /\ AgentOK(a)' /\ ~Holds(a)'
  BY <1>0, <1>1, <1>2 DEF IInv, TypeInv, AgentOK, Holds
<1> QED BY <1>0, <1>2, <1>3, AgentStep

LEMMA EndDraftKeeps ==
  ASSUME IInv, NEW a \in Agents, EndDraft(a)
  PROVE  IInv'
<1> USE DEF mail, kept
<1>r. PICK r \in Rows : r = on[a]
  BY DEF EndDraft, IInv, AgentOK
<1> USE <1>r
<1>0. /\ UNCHANGED <<phase, taken, returns, drafts, restores, backup, native>> /\ Kept
      /\ pc[a] \in {"saving", "saved", "unsaved"} /\ r \in Rows /\ Rest(a) /\ ~Holds(a)
  BY DEF EndDraft, Kept, IInv, AgentOK, Holds
<1>1. PICK s \in {"failed", "returned", "returning"} :
        /\ UNCHANGED status \/ (status[r] = "returning" /\ status' = [status EXCEPT ![r] = s])
        /\ s = "returned" => r \in drafts
  <2>1. CASE pc[a] = "saving" /\ Moved(r, "returning", "failed", FALSE)
    BY <2>1, MovedStatus
  <2>2. CASE pc[a] = "saved" /\ Moved(r, "returning", "returned", FALSE)
    BY <2>2, MovedStatus, ZenonT(40) DEF IInv, AgentOK
  <2>3. CASE Moved(r, "returning", "failed", FALSE) \/ Moved(r, "returning", "returning", TRUE)
    BY <2>3, MovedStatus
  <2> QED BY <2>1, <2>2, <2>3 DEF EndDraft
<1>2. /\ \A b \in Agents \ {a} : SameAgent(b)
      /\ pc' \in [Agents -> Steps] /\ on' \in [Agents -> Rows \cup {0}] /\ next' \in [Agents -> Statuses]
      /\ ~Holds(a)' /\ AgentOK(a)'
  BY <1>0, Rests DEF IInv
<1>3. TypeInv'
  BY <1>0, <1>1, <1>2 DEF IInv, TypeInv, Statuses, Pending, Final
<1>4. CASE UNCHANGED status
  BY <1>0, <1>2, <1>3, <1>4, AgentStep
<1>5. CASE status[r] = "returning" /\ status' = [status EXCEPT ![r] = s]
  <2>1. \A q \in Rows \ {r} : SameRow(q)
    BY <1>0, <1>5 DEF SameRow, IInv, TypeInv
  <2>2. RowOK(r)'
    BY <1>0, <1>1, <1>5 DEF IInv, TypeInv, RowOK
  <2>3. \A b \in Agents : Holds(b) => on[b] # r
    BY <1>0, <1>5, NotInHand
  <2> QED BY <1>0, <1>2, <1>3, <2>1, <2>2, <2>3, OneStep
<1> QED BY <1>1, <1>4, <1>5

LEMMA ClaimNothingKeeps ==
  ASSUME IInv, NEW w \in Workers, ClaimNothing(w)
  PROVE  IInv'
<1> USE DEF mail, kept, row
<1>0. /\ UNCHANGED <<status, phase, taken, returns, drafts, restores, backup, native>> /\ Kept
      /\ w \in Agents /\ Goto(w, "out")
  BY DEF ClaimNothing, Kept, Agents
<1>1. /\ \A b \in Agents \ {w} : SameAgent(b)
      /\ pc' \in [Agents -> Steps] /\ pc'[w] = "out" /\ UNCHANGED <<on, next>>
  BY <1>0, GoesTo DEF IInv, Steps
<1>2. TypeInv' /\ AgentOK(w)' /\ ~Holds(w)'
  BY <1>0, <1>1 DEF IInv, TypeInv, AgentOK, Holds
<1> QED BY <1>0, <1>1, <1>2, AgentStep

LEMMA TakeReturnKeeps ==
  ASSUME IInv, NEW w \in Workers, TakeReturn(w)
  PROVE  IInv'
<1> USE DEF mail, kept, row
<1>0. /\ UNCHANGED <<status, phase, taken, next, drafts, restores, backup, native>> /\ Kept
      /\ w \in Agents /\ pc' = [pc EXCEPT ![w] = "saving"]
  BY DEF TakeReturn, Kept, Agents
<1>1. PICK r \in returns : returns' = returns \ {r} /\ on' = [on EXCEPT ![w] = r]
  BY DEF TakeReturn
<1>2. TypeInv' /\ (\A b \in Agents \ {w} : SameAgent(b)) /\ pc'[w] = "saving" /\ on'[w] \in Rows
  BY <1>0, <1>1 DEF IInv, TypeInv, SameAgent, Steps
<1>3. AgentOK(w)' /\ ~Holds(w)'
  BY <1>2 DEF AgentOK, Holds
<1> QED BY <1>0, <1>2, <1>3, AgentStep

-----------------------------------------------------------------------------
(* Sweeps, restarts, backups.                                               *)

(* The status of several rows changes, and no agent has one of them in hand *)
(* after.                                                                   *)
LEMMA StartReturnsKeeps ==
  ASSUME IInv, StartReturns
  PROVE  IInv'
<1> USE DEF mail, kept, row
<1>0. UNCHANGED <<status, phase, taken, on, next, drafts, restores, backup, native>> /\ Kept
  BY DEF StartReturns, Kept
<1>1. /\ pc' \in [Agents -> Steps] /\ returns' \subseteq Rows
      /\ \A a \in Agents : pc'[a] = pc[a] \/ pc'[a] = "ready"
  BY DEF StartReturns, IInv, TypeInv, Steps, ScheduledReturns
<1>2. TypeInv'
  BY <1>0, <1>1 DEF IInv, TypeInv
<1>3. \A r \in Rows : RowOK(r)'
  BY <1>0, RowKept DEF IInv, SameRow
<1>4. \A a \in Agents : AgentOK(a)'
  <2> SUFFICES ASSUME NEW a \in Agents PROVE AgentOK(a)'
    OBVIOUS
  <2>1. CASE pc'[a] = pc[a]
    BY <1>0, <2>1, AgentKept DEF IInv, SameAgent, SameRow
  <2>2. CASE pc'[a] = "ready"
    BY <2>2 DEF AgentOK, Holds
  <2> QED BY <1>1, <2>1, <2>2
<1>5. OneEach'
  BY <1>0, <1>1 DEF IInv, OneEach, Holds
<1> QED BY <1>2, <1>3, <1>4, <1>5 DEF IInv

LEMMA EndSweepKeeps ==
  ASSUME IInv, EndSweep
  PROVE  IInv'
<1> USE DEF mail, kept, agent
<1>0. UNCHANGED <<phase, taken, pc, on, next, returns, drafts, restores, backup, native>> /\ Kept
  BY DEF EndSweep, Kept
<1>1. PICK old \in SUBSET {r \in Rows : status[r] \in Final} :
        status' = [r \in Rows |-> IF r \in old THEN "pruned" ELSE status[r]]
  BY DEF EndSweep
<1>2. TypeInv'
  BY <1>0, <1>1 DEF IInv, TypeInv, Statuses
<1>3. \A r \in Rows : RowOK(r)'
  <2> SUFFICES ASSUME NEW r \in Rows PROVE RowOK(r)'
    OBVIOUS
  <2>1. CASE r \in old
    <3>1. status'[r] = "pruned"
      BY <1>1, <2>1
    <3> QED BY <1>0, <3>1 DEF IInv, RowOK
  <2>2. CASE r \notin old
    BY <1>0, <1>1, <2>2, RowKept DEF IInv, SameRow
  <2> QED BY <2>1, <2>2
<1>4. \A a \in Agents : AgentOK(a)'
  <2> SUFFICES ASSUME NEW a \in Agents PROVE AgentOK(a)'
    OBVIOUS
  <2>1. Holds(a) => SameRow(on[a])
    BY <1>0, <1>1 DEF IInv, AgentOK, SameRow, Final
  <2> QED BY <1>0, <2>1, AgentKept DEF IInv, SameAgent
<1>5. OneEach'
  BY <1>0 DEF IInv, OneEach, Holds
<1> QED BY <1>2, <1>3, <1>4, <1>5 DEF IInv

(* After a stop nobody has a row in hand.                                   *)
LEMMA StopClears ==
  ASSUME TypeInv, Stopped
  PROVE  /\ pc' \in [Agents -> Steps] /\ on' \in [Agents -> Rows \cup {0}] /\ next' \in [Agents -> Statuses]
         /\ returns' \subseteq Rows /\ OneEach' /\ \A a \in Agents : AgentOK(a)'
<1>1. \A a \in Agents : pc'[a] \in {"ready", "done"}
  BY DEF Stopped
<1>2. /\ pc' \in [Agents -> Steps] /\ on' \in [Agents -> Rows \cup {0}] /\ next' \in [Agents -> Statuses]
      /\ returns' \subseteq Rows
  BY DEF Stopped, Steps, Statuses
<1> QED BY <1>1, <1>2 DEF AgentOK, OneEach, Holds

LEMMA RestartKeeps ==
  ASSUME IInv, Restart
  PROVE  IInv'
<1> USE DEF mail, kept
<1>0. UNCHANGED <<phase, taken, drafts, restores, backup, native>> /\ Kept /\ Stopped
  BY DEF Restart, Kept
<1>1. status' = [r \in Rows |-> Interrupted(status[r])]
  BY DEF Restart
<1>2. \A r \in Rows : RowOK(r)'
  <2> SUFFICES ASSUME NEW r \in Rows PROVE RowOK(r)'
    OBVIOUS
  <2>1. status'[r] = status[r] \/ status'[r] = "uncertain"
    BY <1>1 DEF Interrupted
  <2> QED BY <1>0, <2>1 DEF IInv, RowOK
<1>3. status' \in [Rows -> Statuses]
  BY <1>1 DEF Interrupted, IInv, TypeInv, Statuses, Pending, Final
<1> QED BY <1>0, <1>2, <1>3, StopClears DEF IInv, TypeInv

LEMMA BackupKeeps ==
  ASSUME IInv, Backup
  PROVE  IInv'
<1> USE DEF mail, agent, row
<1>0. /\ UNCHANGED <<status, phase, taken, pc, on, next, returns, drafts, restores, native>>
      /\ backup' = <<[r \in Rows |-> Fenced(status[r])], since>>
  BY DEF Backup
<1>1. TypeInv' /\ OneEach'
  BY <1>0 DEF IInv, TypeInv, OneEach, Holds
<1>2. \A a \in Agents : AgentOK(a)'
  BY <1>0 DEF IInv, AgentOK, Holds, Decided
<1>3. \A r \in Rows : RowOK(r)'
  <2> SUFFICES ASSUME NEW r \in Rows PROVE RowOK(r)'
    OBVIOUS
  <2>1. backup'[1][r] = Fenced(status[r])
    BY <1>0
  <2>2. /\ backup'[1][r] \in Statuses \ {"scheduled", "sending"}
        /\ backup'[1][r] \in {"returned", "queued"} => backup'[1][r] = status[r]
    BY <2>1 DEF Fenced, Interrupted, IInv, TypeInv, Statuses, Pending, Final
  <2>3. RowOK(r)
    BY DEF IInv
  <2> QED BY <1>0, <2>2, <2>3 DEF RowOK
<1> QED BY <1>1, <1>2, <1>3 DEF IInv

(* A restored row is not sendable; what the backup does not know was never  *)
(* scheduled or is forgotten.                                               *)
LEMMA RestoreKeeps ==
  ASSUME IInv, Restore
  PROVE  IInv'
<1> USE DEF mail, kept
<1>0. /\ UNCHANGED <<phase, taken, drafts, backup, native>> /\ Stopped
      /\ restores' = restores + 1 /\ backup # <<>>
  BY DEF Restore
<1>1. restores' \in Nat /\ restores' # 0
  BY <1>0 DEF IInv, TypeInv
<1>2. \A r \in Rows : \/ status'[r] = backup[1][r] /\ backup[1][r] # "absent"
                      \/ status'[r] = "absent" /\ status[r] = "absent"
                      \/ status'[r] = "pruned"
  BY DEF Restore
<1>3. \A r \in Rows : RowOK(r)'
  <2> SUFFICES ASSUME NEW r \in Rows PROVE RowOK(r)'
    OBVIOUS
  <2>1. RowOK(r)
    BY DEF IInv
  <2> QED BY <1>0, <1>1, <1>2, <2>1 DEF RowOK
<1>4. status' \in [Rows -> Statuses]
  <2>1. \A r \in Rows : backup[1][r] \in Statuses
    BY <1>0 DEF IInv, RowOK
  <2> QED BY <2>1 DEF Restore, IInv, TypeInv, Statuses
<1> QED BY <1>0, <1>1, <1>3, <1>4, StopClears DEF IInv, TypeInv

LEMMA StepKeeps == IInv /\ [Next]_vars => IInv'
<1> SUFFICES ASSUME IInv, [Next]_vars PROVE IInv'
  OBVIOUS
<1>1. ASSUME NEW r \in Rows, Schedule(r) \/ Cancel(r) \/ OutboxStep(r) PROVE IInv'
  BY <1>1, ScheduleKeeps, CancelKeeps, OutboxKeeps
<1>2. ASSUME NEW r \in Rows, AuthorityMoves(r) \/ Tick(r) \/ DelayElapses(r) \/ WeekPasses(r) PROVE IInv'
  <2>1. UNCHANGED <<status, phase, taken, pc, on, next, returns>> /\ Kept
    BY <1>2 DEF AuthorityMoves, Tick, DelayElapses, WeekPasses, row, mail, agent, kept, Kept
  <2> QED BY <2>1, Untouched DEF IInv, TypeInv
<1>3. ASSUME NEW w \in Workers, WorkerStep(w) PROVE IInv'
  BY <1>3, ClaimKeeps, ClaimNothingKeeps, AuthorizeKeeps, QueueNativeKeeps, DeliverIMAPKeeps, MoveKeeps,
     TakeReturnKeeps DEF WorkerStep
<1>4. ASSUME NEW a \in Agents, DraftStep(a) PROVE IInv'
  BY <1>4, SaveDraftKeeps, EndDraftKeeps DEF DraftStep
<1>5. CASE StartReturns \/ EndSweep \/ Restart \/ Backup \/ Restore
  BY <1>5, StartReturnsKeeps, EndSweepKeeps, RestartKeeps, BackupKeeps, RestoreKeeps
<1>6. CASE UNCHANGED vars
  <2>1. UNCHANGED <<status, phase, taken, pc, on, next, returns>> /\ Kept
    BY <1>6 DEF vars, row, mail, agent, kept, Kept
  <2> QED BY <2>1, Untouched DEF IInv, TypeInv
<1> QED BY <1>1, <1>2, <1>3, <1>4, <1>5, <1>6 DEF Next

LEMMA Always == Spec => []IInv
BY Initially, StepKeeps, PTL DEF Spec

-----------------------------------------------------------------------------
(* No relay takes a scheduled message twice, whatever restarts, retries,    *)
(* hand-overs and restores happen (InterruptScheduledSends,                 *)
(* FenceRestoredScheduledSends, QueueOutbound).                             *)
THEOREM NothingSentTwice == Spec => []SentAtMostOnce
<1>1. IInv => SentAtMostOnce
  BY DEF IInv, RowOK, SentAtMostOnce
<1> QED BY <1>1, Always, PTL

(* The status says where the message is (saveScheduledDraft, Queue,         *)
(* MoveScheduledSend).                                                      *)
THEOREM StatusesHonest == Spec => []StatusHonest
<1>1. IInv => StatusHonest
  BY DEF IInv, RowOK, StatusHonest
<1> QED BY <1>1, Always, PTL

-----------------------------------------------------------------------------
(* Every move of a status, unless the server is restored.                   *)
LEMMA FinalKept ==
  ASSUME IInv, [Next]_vars, restores' = restores, NEW r \in Rows, status[r] \in Final
  PROVE  status'[r] \in {status[r], "pruned"}
<1> USE DEF IInv, TypeInv, Final
<1>1. ASSUME NEW q \in Rows, Schedule(q) \/ Cancel(q) PROVE status'[r] = status[r]
  BY <1>1 DEF Schedule, Cancel, MoveScheduledSend
<1>2. ASSUME NEW q \in Rows, OutboxStep(q) \/ AuthorityMoves(q) \/ Tick(q) \/ DelayElapses(q) \/ WeekPasses(q)
      PROVE  status'[r] = status[r]
  BY <1>2 DEF OutboxStep, AuthorityMoves, Tick, DelayElapses, WeekPasses, row
<1>3. ASSUME NEW w \in Workers, Claim(w) PROVE status'[r] = status[r]
  BY <1>3 DEF Claim, Claimable
<1>4. ASSUME NEW w \in Workers, ClaimNothing(w) \/ Authorize(w) \/ QueueNative(w) \/ DeliverIMAP(w) \/ TakeReturn(w)
      PROVE  status'[r] = status[r]
  BY <1>4 DEF ClaimNothing, Authorize, QueueNative, DeliverIMAP, TakeReturn, row
<1>5. ASSUME NEW w \in Workers, Move(w) PROVE status'[r] = status[r]
  <2>1. PICK s : UNCHANGED status \/ (status[on[w]] = "sending" /\ status' = [status EXCEPT ![on[w]] = s])
    BY <1>5, MovedStatus, ZenonT(40) DEF Move
  <2> QED BY <2>1
<1>6. ASSUME NEW a \in Agents, SaveDraft(a) PROVE status'[r] = status[r]
  BY <1>6 DEF SaveDraft, row
<1>7. ASSUME NEW a \in Agents, EndDraft(a) PROVE status'[r] = status[r]
  <2>1. PICK s : UNCHANGED status \/ (status[on[a]] = "returning" /\ status' = [status EXCEPT ![on[a]] = s])
    <3>1. PICK s, later : Moved(on[a], "returning", s, later)
      BY <1>7 DEF EndDraft
    <3> QED BY <3>1, MovedStatus
  <2> QED BY <2>1
<1>8. CASE StartReturns \/ EndSweep
  BY <1>8 DEF StartReturns, EndSweep, row
<1>9. CASE Restart \/ Backup
  BY <1>9 DEF Restart, Interrupted, Backup, row
<1>10. CASE Restore
  BY <1>10 DEF Restore
<1>11. CASE UNCHANGED vars
  BY <1>11 DEF vars, row
<1> QED BY <1>1, <1>2, <1>3, <1>4, <1>5, <1>6, <1>7, <1>8, <1>9, <1>10, <1>11 DEF Next, WorkerStep, DraftStep

(* A final row keeps its status until it is pruned or the server is         *)
(* restored, although requests and sweeps may save its draft together       *)
(* (MoveScheduledSend).                                                     *)
THEOREM FinalRowsStay == Spec => FinalStays
<1>1. IInv /\ [Next]_vars =>
        \A r \in Rows : status[r] \in Final /\ restores' = restores => status'[r] \in {status[r], "pruned"}
  BY FinalKept
<1> QED BY <1>1, Always, PTL DEF Spec, FinalStays
=============================================================================
