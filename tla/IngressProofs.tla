---------------------------- MODULE IngressProofs ---------------------------
(***************************************************************************)
(* Proofs about the receiving buffer, for any deliveries, addresses,       *)
(* mailboxes and processes.                                                *)
(*                                                                         *)
(* The argument.  Whoever imports or releases holds the fence, so at most  *)
(* one process works at a time and the ledger stands still around it       *)
(* (FenceHeld); the delivery it works on stays pending, or leaves          *)
(* quarantine only as partially released (Working, Storing).  A delivery   *)
(* whose owners may still be chosen has no copy yet (Unsent), and one that *)
(* a release stored a copy of keeps a lease until it ends (ReleasedHeld).  *)
(***************************************************************************)
EXTENDS Ingress, WellFoundedInduction, TLAPS

Entry == [mailbox : Mailboxes, state : {"active", "disabled", "reserved"}]

(* The types the argument needs.  An idle agent's delivery is whatever it   *)
(* was.                                                                     *)
TypeInv ==
  /\ ledger \in [Addresses -> Seq(Entry)]
  /\ \A a \in Addresses : Len(ledger[a]) > 0
  /\ state \in [Deliveries -> States]
  /\ DOMAIN bindings = Deliveries
  /\ \A d \in Deliveries : Recipients(d) \subseteq Addresses
  /\ \A d \in Deliveries : \A a \in Recipients(d) : bindings[d][a].mailbox \in Mailboxes \cup {Nobody}
  /\ lease \in [Deliveries -> Agents \cup {Nobody}]
  /\ disposition \in [Deliveries -> Dispositions]
  /\ copies \in [Deliveries -> [Mailboxes -> Nat]]
  /\ pc \in [Agents -> {"idle", "claim", "store"}]
  /\ DOMAIN on = Agents
  /\ \A p \in Agents : pc[p] # "idle" => on[p] \in Deliveries
  /\ mode \in [Agents -> {"import", "release"}]
  /\ todo \in [Agents -> SUBSET Mailboxes]
  /\ byRelease \subseteq Deliveries

(* An agent works under the fence.                                          *)
FenceHeld ==
  \A p \in Agents : (pc[p] # "idle" => fence = p) /\ (todo[p] # {} => pc[p] = "store")

(* Before the bytes are accepted, and until an owner is named, nothing is   *)
(* stored.                                                                  *)
Unsent ==
  \A d \in Deliveries :
    state[d] \in {"absent", "staged"} \/ Unresolved(d) => \A m \in Mailboxes : copies[d][m] = 0

(* The delivery an agent works on.                                          *)
WorkingOn(p) ==
  /\ ~Unresolved(on[p])
  /\ mode[p] = "import" => state[on[p]] = "pending" /\ Frozen(on[p])
  /\ mode[p] = "release" => state[on[p]] \in {"quarantined", "archived"}

Working == \A p \in Agents : pc[p] # "idle" => WorkingOn(p)

(* An agent that stores: what it has done, and the lease of a release.      *)
StoringOn(p) ==
  /\ todo[p] \subseteq Owners(on[p])
  /\ \A m \in Owners(on[p]) : m \in todo[p] \/ copies[on[p]][m] = 1
  /\ mode[p] = "release" =>
       \/ state[on[p]] = "quarantined" /\ lease[on[p]] = p
       \/ disposition[on[p]] = "partially_released"

Storing == \A p \in Agents : pc[p] = "store" => StoringOn(p)

(* What ended is archived, and the converse.                                *)
Ended == \A d \in Deliveries : disposition[d] # "none" <=> state[d] = "archived"

(* What a release stored a copy of.                                         *)
ReleasedHeld ==
  \A d \in byRelease :
    \/ state[d] = "quarantined" /\ lease[d] # Nobody
    \/ state[d] = "archived" /\ disposition[d] \in {"released", "partially_released"}

(* The inductive invariant.                                                 *)
IInv ==
  /\ TypeInv /\ FenceHeld /\ Unsent /\ Working /\ Storing /\ Ended /\ ReleasedHeld
  /\ OneCopyEach /\ FrozenOwnersOnly

-----------------------------------------------------------------------------
(* A set of numbers that is not empty has a least one: the mailbox Store    *)
(* takes next exists.                                                       *)
LEMMA LeastElement ==
  ASSUME NEW T, T \subseteq Nat, T # {}
  PROVE  \E x \in T : \A y \in T : x <= y
<1>1. PICK x \in T : \A y \in T : ~(<<y, x>> \in OpToRel(<, Nat))
  BY WFMin, NatLessThanWellFounded
<1>2. \A y \in T : ~(y < x)
  BY <1>1 DEF OpToRel
<1> QED BY <1>2

(* The current entry of an address is an entry.                             *)
LEMMA CurrentType ==
  ASSUME TypeInv, NEW a \in Addresses
  PROVE  Current(a) \in Entry /\ CurrentOwner(a).mailbox \in Mailboxes
<1>1. ledger[a] \in Seq(Entry) /\ Len(ledger[a]) \in 1 .. Len(ledger[a])
  BY DEF TypeInv
<1>2. ledger[a][Len(ledger[a])] \in Entry
  BY <1>1
<1> QED BY <1>2 DEF Current, Generation, CurrentOwner, Entry

LEMMA Initially == Init => IInv
<1> SUFFICES ASSUME Init PROVE IInv
  OBVIOUS
<1> USE IngressAssumption
<1>1. TypeInv
  BY DEF Init, TypeInv, Entry, Recipients, Dispositions, States
<1>2. FenceHeld /\ Working /\ Storing
  BY DEF Init, FenceHeld, Working, Storing
<1>3. Unsent /\ Ended /\ ReleasedHeld /\ OneCopyEach /\ FrozenOwnersOnly
  BY DEF Init, Unsent, Ended, ReleasedHeld, OneCopyEach, FrozenOwnersOnly
<1> QED BY <1>1, <1>2, <1>3 DEF IInv

(* The state the invariant reads.                                           *)
Read == <<ledger, state, bindings, lease, disposition, copies, agent, byRelease>>

(* Routes and the lease clock are not part of it.                           *)
LEMMA Untouched ==
  ASSUME IInv, UNCHANGED Read
  PROVE  IInv'
BY DEF IInv, Read, agent, TypeInv, FenceHeld, Unsent, Working, WorkingOn, Storing, StoringOn, Ended, ReleasedHeld,
  OneCopyEach, FrozenOwnersOnly, Recipients, Unresolved, Owners, Frozen, Active, Current, Generation, CurrentOwner

-----------------------------------------------------------------------------
(* Steps on one delivery that no agent works on, or that its release        *)
(* outlives: the agents, the copies and the ledger stay.                    *)

Outside == UNCHANGED <<ledger, copies, agent, byRelease>>

(* The recipients of d alone are bound anew.                                *)
Rebound(d, b) ==
  /\ DOMAIN bindings' = Deliveries /\ bindings'[d] = b
  /\ \A e \in Deliveries \ {d} : bindings'[e] = bindings[e]

(* What a step may do to delivery d: accept it or quarantine it on first    *)
(* sight, with bindings b; take it from the pending ones; end it from       *)
(* quarantine.                                                              *)
Admitted(d, s, b) ==
  /\ state[d] \in {"absent", "staged"} /\ s \in {"staged", "pending", "quarantined"}
  /\ state' = [state EXCEPT ![d] = s]
  /\ Rebound(d, b)
  /\ DOMAIN b \subseteq Addresses
  /\ \A a \in DOMAIN b : b[a].mailbox \in Mailboxes \cup {Nobody}
  /\ UNCHANGED <<lease, disposition>>

GivenUp(d) ==
  /\ fence = Nobody /\ state[d] = "pending"
  /\ state' = [state EXCEPT ![d] = "quarantined"]
  /\ lease' = [lease EXCEPT ![d] = Nobody]
  /\ UNCHANGED <<bindings, disposition>>

Dropped(d) ==
  /\ state[d] = "quarantined"
  /\ state' = [state EXCEPT ![d] = "archived"]
  /\ disposition' = [disposition EXCEPT ![d] = IF lease[d] = Nobody THEN "discarded" ELSE "partially_released"]
  /\ lease' = [lease EXCEPT ![d] = Nobody]
  /\ UNCHANGED bindings

LEMMA AdmittedKeeps ==
  ASSUME IInv, NEW d \in Deliveries, NEW s, NEW b, Outside, Admitted(d, s, b)
  PROVE  IInv'
<1> USE DEF IInv, Outside, agent, Admitted, Rebound
<1>0. /\ \A e \in Deliveries \ {d} : state'[e] = state[e] /\ bindings'[e] = bindings[e]
      /\ state'[d] = s /\ bindings'[d] = b /\ DOMAIN bindings' = Deliveries
  BY DEF TypeInv
<1>1. TypeInv'
  BY <1>0 DEF TypeInv, Recipients, States
<1>2. FenceHeld'
  BY DEF FenceHeld
<1>3. Unsent'
  <2>1. \A m \in Mailboxes : copies[d][m] = 0
    BY DEF Unsent
  <2> QED BY <1>0, <2>1 DEF Unsent, Unresolved, Recipients
<1>4. ASSUME NEW p \in Agents, pc[p] # "idle" PROVE on[p] \in Deliveries \ {d}
  <2>1. on[p] \in Deliveries /\ mode[p] \in {"import", "release"}
    BY <1>4 DEF TypeInv
  <2>2. state[on[p]] \in {"pending", "quarantined", "archived"}
    BY <1>4, <2>1 DEF Working, WorkingOn
  <2> QED BY <2>1, <2>2
<1>5. Working'
  <2> SUFFICES ASSUME NEW p \in Agents, pc[p] # "idle" PROVE WorkingOn(p)'
    BY DEF Working
  <2>1. WorkingOn(p) /\ on[p] \in Deliveries \ {d}
    BY <1>4 DEF Working
  <2>2. state'[on[p]] = state[on[p]] /\ bindings'[on[p]] = bindings[on[p]] /\ UNCHANGED <<ledger, on, mode>>
    BY <1>0, <2>1
  <2>3. Unresolved(on[p])' <=> Unresolved(on[p])
    BY <2>2 DEF Unresolved, Recipients
  <2>4. Frozen(on[p])' <=> Frozen(on[p])
    BY <2>2 DEF Frozen, Recipients, Active, Current, Generation, CurrentOwner
  <2> QED BY <2>1, <2>2, <2>3, <2>4 DEF WorkingOn
<1>6. Storing'
  <2> SUFFICES ASSUME NEW p \in Agents, pc[p] = "store" PROVE StoringOn(p)'
    BY DEF Storing
  <2>1. StoringOn(p) /\ on[p] \in Deliveries \ {d}
    BY <1>4 DEF Storing
  <2>2. Owners(on[p])' = Owners(on[p])
    BY <1>0, <2>1 DEF Owners, Recipients
  <2> QED BY <1>0, <2>1, <2>2 DEF StoringOn
<1>7. Ended'
  BY <1>0 DEF Ended, TypeInv
<1>8. ReleasedHeld'
  BY <1>0 DEF ReleasedHeld, TypeInv
<1>9. OneCopyEach'
  <2>1. disposition[d] = "none"
    BY DEF Ended
  <2> QED BY <1>0, <2>1 DEF OneCopyEach, Recipients
<1>10. FrozenOwnersOnly'
  <2>1. \A m \in Mailboxes : copies[d][m] = 0
    BY DEF Unsent
  <2> QED BY <1>0, <2>1 DEF FrozenOwnersOnly, Recipients
<1> QED BY <1>1, <1>2, <1>3, <1>5, <1>6, <1>7, <1>8, <1>9, <1>10

LEMMA GivenUpKeeps ==
  ASSUME IInv, NEW d \in Deliveries, Outside, GivenUp(d)
  PROVE  IInv'
<1> USE DEF IInv, Outside, agent, GivenUp
<1> USE IngressAssumption
<1>0. \A e \in Deliveries \ {d} : state'[e] = state[e] /\ lease'[e] = lease[e]
  BY DEF TypeInv
<1>1. TypeInv'
  BY <1>0 DEF TypeInv, Recipients, States
<1>2. FenceHeld'
  BY DEF FenceHeld
<1>3. Unsent'
  <2>1. \A e \in Deliveries : state'[e] \in {"absent", "staged"} => state[e] \in {"absent", "staged"}
    BY <1>0 DEF TypeInv
  <2> QED BY <2>1 DEF Unsent, Unresolved, Recipients
<1>4. \A p \in Agents : pc[p] = "idle"
  BY DEF FenceHeld, TypeInv
<1>5. Working' /\ Storing'
  BY <1>4 DEF Working, Storing
<1>7. Ended'
  BY <1>0 DEF Ended, TypeInv
<1>8. ReleasedHeld'
  BY <1>0 DEF ReleasedHeld, TypeInv
<1>9. OneCopyEach' /\ FrozenOwnersOnly'
  BY DEF OneCopyEach, FrozenOwnersOnly, Recipients
<1> QED BY <1>1, <1>2, <1>3, <1>5, <1>7, <1>8, <1>9

LEMMA DroppedKeeps ==
  ASSUME IInv, NEW d \in Deliveries, Outside, Dropped(d)
  PROVE  IInv'
<1> USE DEF IInv, Outside, agent, Dropped
<1> USE IngressAssumption
<1>0. \A e \in Deliveries \ {d} :
        state'[e] = state[e] /\ lease'[e] = lease[e] /\ disposition'[e] = disposition[e]
  BY DEF TypeInv
<1>a. disposition'[d] = IF lease[d] = Nobody THEN "discarded" ELSE "partially_released"
  BY DEF TypeInv
<1>1. TypeInv'
  BY <1>0 DEF TypeInv, Recipients, States, Dispositions
<1>2. FenceHeld'
  BY DEF FenceHeld
<1>3. Unsent'
  <2>1. \A e \in Deliveries : state'[e] \in {"absent", "staged"} => state[e] \in {"absent", "staged"}
    BY <1>0 DEF TypeInv
  <2> QED BY <2>1 DEF Unsent, Unresolved, Recipients
<1>5. Working'
  BY <1>0 DEF Working, WorkingOn, Unresolved, Recipients, Frozen, Active, Current, Generation, CurrentOwner, TypeInv
<1>6. Storing'
  <2> SUFFICES ASSUME NEW p \in Agents, pc[p] = "store" PROVE StoringOn(p)'
    BY DEF Storing
  <2>1. StoringOn(p) /\ on[p] \in Deliveries
    BY DEF Storing, TypeInv
  <2>2. todo[p] \subseteq Owners(on[p])' /\ \A m \in Owners(on[p])' : m \in todo[p] \/ copies[on[p]][m] = 1
    BY <2>1 DEF StoringOn, Owners, Recipients
  <2>3. CASE on[p] = d
    BY <2>1, <2>2, <2>3, <1>a DEF StoringOn, Ended
  <2>4. CASE on[p] # d
    BY <2>1, <2>2, <2>4, <1>0 DEF StoringOn
  <2> QED BY <2>3, <2>4
<1>7. Ended'
  BY <1>0, <1>a DEF Ended, TypeInv
<1>8. ReleasedHeld'
  BY <1>0, <1>a DEF ReleasedHeld, TypeInv
<1>9. OneCopyEach'
  BY <1>0, <1>a DEF OneCopyEach, Recipients
<1>10. FrozenOwnersOnly'
  BY DEF FrozenOwnersOnly, Recipients
<1> QED BY <1>1, <1>2, <1>3, <1>5, <1>6, <1>7, <1>8, <1>9, <1>10

-----------------------------------------------------------------------------
(* Steps of an agent.                                                       *)

(* While an agent works every other one is idle, and once it leaves all are.*)
LEMMA OthersIdle ==
  ASSUME IInv, NEW p \in Agents, pc[p] # "idle"
  PROVE  \A q \in Agents \ {p} : pc[q] = "idle" /\ todo[q] = {}
BY DEF IInv, FenceHeld

(* An agent leaves after doing nothing more, or after it quarantined or     *)
(* ended its delivery.                                                      *)
LEMMA LeaveKeeps ==
  ASSUME IInv, NEW p \in Agents, pc[p] # "idle", Leave(p), UNCHANGED <<ledger, bindings, copies, byRelease>>,
         NEW s, NEW x, NEW l,
         state' = [state EXCEPT ![on[p]] = s],
         disposition' = [disposition EXCEPT ![on[p]] = x],
         lease' = [lease EXCEPT ![on[p]] = l],
         \/ s = state[on[p]] /\ x = disposition[on[p]] /\ l = lease[on[p]]
         \/ state[on[p]] = "pending" /\ s = "quarantined" /\ x = disposition[on[p]] /\ l = Nobody
         \/ /\ s = "archived" /\ x \in {"imported", "released"} /\ l = Nobody
            /\ x = "imported" => state[on[p]] = "pending"
            /\ pc[p] = "store" /\ todo[p] = {}
  PROVE  IInv'
<1> USE DEF IInv
<1> DEFINE d == on[p]
<1>0. d \in Deliveries
  BY DEF TypeInv
<1>1. /\ \A e \in Deliveries \ {d} :
           state'[e] = state[e] /\ lease'[e] = lease[e] /\ disposition'[e] = disposition[e]
      /\ state'[d] = s /\ lease'[d] = l /\ disposition'[d] = x
  BY <1>0 DEF TypeInv
<1>2. \A q \in Agents : pc'[q] = "idle" /\ todo'[q] = {}
  BY OthersIdle DEF Leave, TypeInv
<1>3. FenceHeld' /\ Working' /\ Storing'
  BY <1>2 DEF FenceHeld, Working, Storing
<1>4. s \in States /\ x \in Dispositions /\ l \in Agents \cup {Nobody}
  BY <1>0 DEF TypeInv, States, Dispositions
<1>5. TypeInv'
  <2>1. /\ state' \in [Deliveries -> States]
        /\ disposition' \in [Deliveries -> Dispositions]
        /\ lease' \in [Deliveries -> Agents \cup {Nobody}]
    BY <1>0, <1>4 DEF TypeInv
  <2>2. /\ pc' \in [Agents -> {"idle", "claim", "store"}]
        /\ todo' \in [Agents -> SUBSET Mailboxes]
        /\ UNCHANGED <<on, mode>>
    BY DEF TypeInv, Leave
  <2> QED BY <2>1, <2>2, <1>2 DEF TypeInv, Recipients
<1>6. Unsent'
  <2>1. \A e \in Deliveries : state'[e] \in {"absent", "staged"} => state[e] \in {"absent", "staged"}
    BY <1>1
  <2> QED BY <2>1 DEF Unsent, Unresolved, Recipients
<1>7. Ended'
  BY <1>0, <1>1 DEF Ended
<1>8. ReleasedHeld'
  <2> SUFFICES ASSUME NEW e \in byRelease
      PROVE \/ state'[e] = "quarantined" /\ lease'[e] # Nobody
            \/ state'[e] = "archived" /\ disposition'[e] \in {"released", "partially_released"}
    BY DEF ReleasedHeld
  <2>1. e \in Deliveries
    BY DEF TypeInv
  <2> QED BY <1>0, <1>1, <2>1 DEF ReleasedHeld
<1>9. OneCopyEach'
  <2> SUFFICES ASSUME NEW e \in Deliveries, disposition'[e] \in {"imported", "released"}, NEW a \in Recipients(e)
      PROVE copies[e][bindings[e][a].mailbox] = 1
    BY DEF OneCopyEach, Recipients
  <2>1. CASE disposition[e] \in {"imported", "released"}
    BY <2>1 DEF OneCopyEach
  <2>2. CASE disposition[e] \notin {"imported", "released"}
    <3>1. e = d /\ pc[p] = "store" /\ todo[p] = {}
      BY <2>2, <1>1
    <3>2. StoringOn(p) /\ bindings[e][a].mailbox \in Owners(d)
      BY <3>1 DEF Storing, Owners
    <3> QED BY <3>1, <3>2 DEF StoringOn
  <2> QED BY <2>1, <2>2
<1>10. FrozenOwnersOnly'
  BY DEF FrozenOwnersOnly, Recipients
<1> QED BY <1>3, <1>5, <1>6, <1>7, <1>8, <1>9, <1>10

(* An agent takes the fence; a release names the owners of an unresolved    *)
(* delivery first.                                                          *)
LEMMA StartKeeps ==
  ASSUME IInv, NEW p \in Agents, NEW d \in Deliveries, NEW how \in {"import", "release"}, NEW b,
         Enter(p, d, how), UNCHANGED <<ledger, state, lease, disposition, copies, byRelease>>,
         how = "import" => state[d] = "pending" /\ Frozen(d) /\ b = bindings[d],
         how = "release" => state[d] = "quarantined",
         Rebound(d, b),
         b = bindings[d] \/ (Unresolved(d) /\ state[d] = "quarantined"),
         DOMAIN b \subseteq Addresses,
         \A a \in DOMAIN b : b[a].mailbox \in Mailboxes
  PROVE  IInv'
<1> USE DEF IInv
<1>0. /\ \A e \in Deliveries \ {d} : bindings'[e] = bindings[e]
      /\ bindings'[d] = b /\ DOMAIN bindings' = Deliveries
  BY DEF Rebound
<1>1. \A q \in Agents : pc[q] = "idle" /\ todo[q] = {}
  BY IngressAssumption DEF FenceHeld, Enter, TypeInv
<1>2. /\ pc' = [pc EXCEPT ![p] = "claim"] /\ on' = [on EXCEPT ![p] = d] /\ mode' = [mode EXCEPT ![p] = how]
      /\ fence' = p /\ todo' = todo
  BY DEF Enter
<1>3. TypeInv'
  <2>1. /\ pc' \in [Agents -> {"idle", "claim", "store"}] /\ mode' \in [Agents -> {"import", "release"}]
        /\ DOMAIN on' = Agents
        /\ \A q \in Agents : pc'[q] # "idle" => on'[q] \in Deliveries
    BY <1>1, <1>2 DEF TypeInv
  <2>2. /\ \A e \in Deliveries : Recipients(e)' \subseteq Addresses
        /\ \A e \in Deliveries : \A a \in Recipients(e)' : bindings'[e][a].mailbox \in Mailboxes \cup {Nobody}
    BY <1>0 DEF TypeInv, Recipients
  <2> QED BY <2>1, <2>2, <1>0, <1>2 DEF TypeInv
<1>4. FenceHeld' /\ Storing'
  BY <1>1, <1>2 DEF FenceHeld, Storing, TypeInv
<1>5. Unsent'
  BY <1>0, IngressAssumption DEF Unsent, Unresolved, Recipients
<1>6. Working'
  <2>1. \A q \in Agents \ {p} : pc'[q] = "idle"
    BY <1>1, <1>2 DEF TypeInv
  <2>2. on'[p] = d /\ mode'[p] = how
    BY <1>2 DEF TypeInv
  <2>3. ~Unresolved(d)'
    BY <1>0, IngressAssumption DEF Unresolved, Recipients
  <2>4. how = "import" => Frozen(d)'
    BY <1>0 DEF Frozen, Recipients, Active, Current, CurrentOwner, Generation
  <2>5. WorkingOn(p)'
    BY <2>2, <2>3, <2>4 DEF WorkingOn
  <2> QED BY <2>1, <2>5 DEF Working
<1>7. Ended' /\ ReleasedHeld'
  BY DEF Ended, ReleasedHeld
<1>8. OneCopyEach'
  <2>1. b = bindings[d] \/ disposition[d] = "none"
    BY DEF Ended
  <2> QED BY <1>0, <2>1 DEF OneCopyEach, Recipients
<1>9. FrozenOwnersOnly'
  <2>1. b = bindings[d] \/ \A m \in Mailboxes : copies[d][m] = 0
    BY DEF Unsent
  <2> QED BY <1>0, <2>1 DEF FrozenOwnersOnly, Recipients
<1> QED BY <1>3, <1>4, <1>5, <1>6, <1>7, <1>8, <1>9

(* A claim: the lease, and every frozen mailbox to store into.              *)
LEMMA TakeKeeps ==
  ASSUME IInv, NEW p \in Agents, pc[p] = "claim", state[on[p]] = Want(p),
         lease' = [lease EXCEPT ![on[p]] = p],
         pc' = [pc EXCEPT ![p] = "store"],
         todo' = [todo EXCEPT ![p] = Owners(on[p])],
         UNCHANGED <<ledger, state, bindings, disposition, copies, fence, on, mode, byRelease>>
  PROVE  IInv'
<1> USE DEF IInv
<1> DEFINE d == on[p]
<1>0. d \in Deliveries /\ WorkingOn(p)
  BY DEF TypeInv, Working
<1>1. (\A e \in Deliveries \ {d} : lease'[e] = lease[e]) /\ lease'[d] = p
  BY <1>0 DEF TypeInv
<1>2. \A q \in Agents \ {p} : pc'[q] = "idle" /\ todo'[q] = {}
  BY OthersIdle DEF TypeInv
<1>3. pc'[p] = "store" /\ todo'[p] = Owners(d)
  BY DEF TypeInv
<1>4. Owners(d) \subseteq Mailboxes
  BY <1>0 DEF Owners, WorkingOn, Unresolved, TypeInv
<1>5. TypeInv'
  BY <1>0, <1>4 DEF TypeInv, Recipients
<1>6. FenceHeld'
  BY <1>2, <1>3 DEF FenceHeld
<1>7. Unsent' /\ Ended' /\ OneCopyEach' /\ FrozenOwnersOnly'
  BY DEF Unsent, Ended, OneCopyEach, FrozenOwnersOnly, Recipients, Unresolved
<1>8. Working'
  <2>1. Unresolved(d)' <=> Unresolved(d)
    BY DEF Unresolved, Recipients
  <2>2. Frozen(d)' <=> Frozen(d)
    BY DEF Frozen, Recipients, Active, Current, CurrentOwner, Generation
  <2>3. on'[p] = d /\ mode'[p] = mode[p] /\ state'[d] = state[d]
    OBVIOUS
  <2>4. WorkingOn(p)'
    BY <1>0, <2>1, <2>2, <2>3 DEF WorkingOn
  <2> QED BY <1>2, <2>4 DEF Working
<1>9. Storing'
  <2>1. Owners(d)' = Owners(d)
    BY DEF Owners, Recipients
  <2>2. StoringOn(p)'
    BY <2>1, <1>0, <1>1, <1>3 DEF StoringOn, Want, TypeInv
  <2> QED BY <1>2, <2>2 DEF Storing
<1>10. ReleasedHeld'
  <2> SUFFICES ASSUME NEW e \in byRelease
      PROVE \/ state[e] = "quarantined" /\ lease'[e] # Nobody
            \/ state[e] = "archived" /\ disposition[e] \in {"released", "partially_released"}
    BY DEF ReleasedHeld
  <2> QED BY <1>1, IngressAssumption DEF ReleasedHeld, TypeInv
<1> QED BY <1>5, <1>6, <1>7, <1>8, <1>9, <1>10

(* A mailbox stores its copy, or finds its receipt.                         *)
LEMMA StoredKeeps ==
  ASSUME IInv, NEW p \in Agents, pc[p] = "store", NEW m \in todo[p],
         copies' = Stored(on[p], m),
         byRelease' = IF mode[p] = "release" /\ copies[on[p]][m] = 0 THEN byRelease \cup {on[p]} ELSE byRelease,
         todo' = [todo EXCEPT ![p] = @ \ {m}],
         UNCHANGED <<ledger, state, bindings, lease, disposition, fence, pc, on, mode>>
  PROVE  IInv'
<1> USE DEF IInv
<1> DEFINE d == on[p]
<1>0. d \in Deliveries /\ m \in Mailboxes /\ WorkingOn(p) /\ StoringOn(p)
  BY DEF TypeInv, Working, Storing
<1>1. copies[d][m] \in Nat /\ copies[d][m] <= 1
  BY <1>0 DEF TypeInv, OneCopyEach
<1>2. /\ \A e \in Deliveries, n \in Mailboxes : e # d \/ n # m => copies'[e][n] = copies[e][n]
      /\ copies'[d][m] = 1
      /\ copies' \in [Deliveries -> [Mailboxes -> Nat]]
  BY <1>0, <1>1 DEF Stored, TypeInv
<1>3. \A q \in Agents \ {p} : pc[q] = "idle" /\ todo'[q] = {}
  BY OthersIdle DEF TypeInv
<1>4. todo'[p] = todo[p] \ {m}
  BY DEF TypeInv
<1>5. TypeInv'
  BY <1>0, <1>2 DEF TypeInv, Recipients
<1>6. FenceHeld'
  BY <1>3 DEF FenceHeld
<1>7. m \in Owners(d)
  BY <1>0 DEF StoringOn
<1>8. state[d] \notin {"absent", "staged"} /\ ~Unresolved(d)
  BY <1>0 DEF WorkingOn, TypeInv
<1>9. Unsent'
  <2> SUFFICES ASSUME NEW e \in Deliveries, state[e] \in {"absent", "staged"} \/ Unresolved(e), NEW n \in Mailboxes
      PROVE copies'[e][n] = 0
    BY DEF Unsent, Unresolved, Recipients
  <2>1. e # d /\ copies[e][n] = 0
    BY <1>8 DEF Unsent
  <2> QED BY <1>2, <2>1
<1>10. Working'
  BY DEF Working, WorkingOn, Unresolved, Recipients, Frozen, Active, Current, CurrentOwner, Generation
<1>11. Storing'
  <2>1. Owners(d)' = Owners(d) /\ Owners(d) \subseteq Mailboxes
    BY <1>0 DEF Owners, Recipients, WorkingOn, Unresolved, TypeInv
  <2>2. StoringOn(p)'
    BY <2>1, <1>0, <1>2, <1>4 DEF StoringOn
  <2> QED BY <1>3, <2>2 DEF Storing
<1>12. Ended'
  BY DEF Ended
<1>13. ReleasedHeld'
  <2>1. mode[p] = "release" =>
          \/ state[d] = "quarantined" /\ lease[d] # Nobody
          \/ state[d] = "archived" /\ disposition[d] \in {"released", "partially_released"}
    BY <1>0, IngressAssumption DEF StoringOn, Ended
  <2>2. byRelease' \subseteq byRelease \cup {d} /\ (mode[p] # "release" => byRelease' = byRelease)
    OBVIOUS
  <2> SUFFICES ASSUME NEW e \in byRelease'
      PROVE \/ state[e] = "quarantined" /\ lease[e] # Nobody
            \/ state[e] = "archived" /\ disposition[e] \in {"released", "partially_released"}
    BY DEF ReleasedHeld
  <2> QED BY <2>1, <2>2 DEF ReleasedHeld
<1>14. OneCopyEach'
  <2>1. \A e \in Deliveries, n \in Mailboxes : copies'[e][n] <= 1
    <3> SUFFICES ASSUME NEW e \in Deliveries, NEW n \in Mailboxes PROVE copies'[e][n] <= 1
      OBVIOUS
    <3>1. copies[e][n] <= 1
      BY DEF OneCopyEach
    <3>2. CASE e = d /\ n = m
      BY <3>2, <1>2
    <3>3. CASE ~(e = d /\ n = m)
      BY <3>1, <3>3, <1>2
    <3> QED BY <3>2, <3>3
  <2> SUFFICES ASSUME NEW e \in Deliveries, disposition[e] \in {"imported", "released"}, NEW a \in Recipients(e)
      PROVE copies'[e][bindings[e][a].mailbox] = 1
    BY <2>1 DEF OneCopyEach, Recipients
  <2>2. copies[e][bindings[e][a].mailbox] = 1
    BY DEF OneCopyEach
  <2>3. e # d
    BY <1>0 DEF Ended, WorkingOn, StoringOn, TypeInv
  <2>4. copies'[e] = copies[e]
    BY <2>3, <1>0 DEF Stored, TypeInv
  <2> QED BY <2>2, <2>4
<1>15. FrozenOwnersOnly'
  BY <1>2, <1>7 DEF FrozenOwnersOnly, Owners, Recipients
<1> QED BY <1>5, <1>6, <1>9, <1>10, <1>11, <1>12, <1>13, <1>14, <1>15

(* The ledger changes while no agent works.                                 *)
LEMMA ChangeKeeps ==
  ASSUME IInv, NEW a \in Addresses, ChangeAddress(a)
  PROVE  IInv'
<1> USE DEF IInv, ChangeAddress, held, agent
<1>1. \A p \in Agents : pc[p] = "idle"
  BY IngressAssumption DEF FenceHeld, TypeInv
<1>2. PICK x \in Changed(Current(a)) : ledger' = [ledger EXCEPT ![a] = Append(@, x)]
  OBVIOUS
<1>3. x \in Entry
  BY <1>2, CurrentType DEF Changed, Entry
<1>4. Append(ledger[a], x) \in Seq(Entry) /\ Len(Append(ledger[a], x)) > 0
  BY <1>3 DEF TypeInv
<1>5. TypeInv'
  BY <1>2, <1>4 DEF TypeInv, Recipients
<1>6. FenceHeld' /\ Working' /\ Storing'
  BY <1>1 DEF FenceHeld, Working, Storing
<1>7. Unsent' /\ Ended' /\ ReleasedHeld' /\ OneCopyEach' /\ FrozenOwnersOnly'
  BY DEF Unsent, Unresolved, Ended, ReleasedHeld, OneCopyEach, FrozenOwnersOnly, Recipients
<1> QED BY <1>5, <1>6, <1>7

-----------------------------------------------------------------------------
(* Each operation is one of the steps above.                                *)

LEMMA BindKeeps ==
  ASSUME IInv, NEW d \in Deliveries, NEW a \in Addresses, Bind(d, a)
  PROVE  IInv'
<1>1. CASE UNCHANGED <<state, bindings>>
  BY <1>1, Untouched DEF Bind, Read, agent
<1>2. CASE state[d] \in {"absent", "staged"} /\ state' = [state EXCEPT ![d] = "staged"]
           /\ bindings' = [bindings EXCEPT ![d] =
                [x \in Recipients(d) \cup {a} |-> IF x = a THEN CurrentOwner(a) ELSE bindings[d][x]]]
  <2> DEFINE b == [x \in Recipients(d) \cup {a} |-> IF x = a THEN CurrentOwner(a) ELSE bindings[d][x]]
  <2>1. DOMAIN b \subseteq Addresses /\ \A x \in DOMAIN b : b[x].mailbox \in Mailboxes \cup {Nobody}
    BY CurrentType DEF IInv, TypeInv
  <2>2. Admitted(d, "staged", b)
    BY <1>2, <2>1 DEF Bind, Admitted, Rebound, IInv, TypeInv
  <2> QED BY <2>2, AdmittedKeeps DEF Bind, Outside
<1> QED BY <1>1, <1>2 DEF Bind

LEMMA QuarantineKeeps ==
  ASSUME IInv, NEW d \in Deliveries, NEW a \in Addresses, Quarantine(d, a)
  PROVE  IInv'
<1>1. PICK g \in 1 .. Generation(a) : \E m \in {ledger[a][g].mailbox, Nobody} :
        /\ state[d] \in {"absent", "staged"}
        /\ state'    = [state EXCEPT ![d] = "quarantined"]
        /\ bindings' = [bindings EXCEPT ![d] = [x \in {a} |-> [mailbox |-> m, generation |-> g]]]
        /\ UNCHANGED <<ledger, routes, lease, live, disposition, copies, agent, byRelease>>
  BY DEF Quarantine
<1>2. PICK m \in {ledger[a][g].mailbox, Nobody} :
        /\ state[d] \in {"absent", "staged"}
        /\ state'    = [state EXCEPT ![d] = "quarantined"]
        /\ bindings' = [bindings EXCEPT ![d] = [x \in {a} |-> [mailbox |-> m, generation |-> g]]]
        /\ UNCHANGED <<ledger, routes, lease, live, disposition, copies, agent, byRelease>>
  BY <1>1
<1>3. m \in Mailboxes \cup {Nobody}
  <2>1. ledger[a] \in Seq(Entry) /\ g \in 1 .. Len(ledger[a])
    BY DEF IInv, TypeInv, Generation
  <2>2. ledger[a][g] \in Entry
    BY <2>1
  <2> QED BY <2>2 DEF Entry
<1>4. Admitted(d, "quarantined", [x \in {a} |-> [mailbox |-> m, generation |-> g]])
  BY <1>2, <1>3 DEF Admitted, Rebound, IInv, TypeInv
<1> QED BY <1>2, <1>4, AdmittedKeeps DEF Outside

LEMMA AcceptKeeps ==
  ASSUME IInv, NEW d \in Deliveries, Accept(d)
  PROVE  IInv'
<1>1. CASE UNCHANGED state
  BY <1>1, Untouched DEF Accept, Read, agent
<1>2. CASE state[d] = "staged" /\ state' = [state EXCEPT ![d] = "pending"]
  <2>1. Rebound(d, bindings[d])
    BY DEF Accept, IInv, TypeInv, Rebound
  <2>2. Admitted(d, "pending", bindings[d])
    BY <1>2, <2>1 DEF Accept, Admitted, IInv, TypeInv, Recipients
  <2> QED BY <2>2, AdmittedKeeps DEF Accept, Outside
<1> QED BY <1>1, <1>2 DEF Accept

LEMMA ReleaseStartKeeps ==
  ASSUME IInv, NEW p \in Agents, NEW d \in Deliveries, ReleaseStart(p, d)
  PROVE  IInv'
<1>0. DOMAIN bindings = Deliveries
  BY DEF IInv, TypeInv
<1>1. CASE ~Unresolved(d) /\ UNCHANGED bindings
  <2>1. Rebound(d, bindings[d])
    BY <1>0, <1>1 DEF Rebound
  <2>2. DOMAIN bindings[d] \subseteq Addresses /\ \A a \in DOMAIN bindings[d] : bindings[d][a].mailbox \in Mailboxes
    BY <1>1 DEF IInv, TypeInv, Recipients, Unresolved
  <2> QED BY <2>1, <2>2, StartKeeps DEF ReleaseStart
<1>2. CASE Unresolved(d) /\ bindings' = [bindings EXCEPT ![d] = [a \in Recipients(d) |-> CurrentOwner(a)]]
  <2> DEFINE b == [a \in Recipients(d) |-> CurrentOwner(a)]
  <2>1. DOMAIN b \subseteq Addresses /\ \A a \in DOMAIN b : b[a].mailbox \in Mailboxes
    BY CurrentType DEF IInv, TypeInv
  <2>2. Rebound(d, b)
    BY <1>0, <1>2 DEF Rebound
  <2> HIDE DEF b
  <2> QED BY <1>2, <2>1, <2>2, StartKeeps DEF ReleaseStart
<1> QED BY <1>1, <1>2 DEF ReleaseStart

LEMMA ImportStartKeeps ==
  ASSUME IInv, NEW p \in Agents, NEW d \in Deliveries, ImportStart(p, d)
  PROVE  IInv'
<1>1. Rebound(d, bindings[d])
  BY DEF IInv, TypeInv, ImportStart, held, Rebound
<1>2. DOMAIN bindings[d] \subseteq Addresses
  BY DEF IInv, TypeInv, Recipients
<1>3. \A a \in DOMAIN bindings[d] : bindings[d][a].mailbox \in Mailboxes
  <2> SUFFICES ASSUME NEW a \in DOMAIN bindings[d] PROVE bindings[d][a].mailbox \in Mailboxes
    OBVIOUS
  <2>1. a \in Addresses /\ bindings[d][a] = CurrentOwner(a)
    BY <1>2 DEF ImportStart, Frozen, Recipients
  <2> QED BY <2>1, CurrentType DEF IInv
<1> QED BY <1>1, <1>2, <1>3, StartKeeps DEF ImportStart, held

(* Nothing but its agent's state changes.                                   *)
LEMMA JustLeaves ==
  ASSUME IInv, NEW p \in Agents, pc[p] # "idle", Leave(p), UNCHANGED <<ledger, held, copies, byRelease>>
  PROVE  IInv'
<1>1. /\ state' = [state EXCEPT ![on[p]] = state[on[p]]]
      /\ disposition' = [disposition EXCEPT ![on[p]] = disposition[on[p]]]
      /\ lease' = [lease EXCEPT ![on[p]] = lease[on[p]]]
  BY DEF IInv, TypeInv, held
<1>2. UNCHANGED <<ledger, bindings, copies, byRelease>>
  BY DEF held
<1> QED BY <1>1, <1>2, LeaveKeeps

LEMMA ClaimKeeps ==
  ASSUME IInv, NEW p \in Agents, Claim(p)
  PROVE  IInv'
<1> USE DEF Claim
<1>1. CASE Leave(p) /\ UNCHANGED held
  BY <1>1, JustLeaves
<1>2. CASE QuarantinePending(on[p]) /\ Leave(p)
  <2>1. disposition' = [disposition EXCEPT ![on[p]] = disposition[on[p]]]
    BY <1>2 DEF IInv, TypeInv, QuarantinePending
  <2> QED BY <1>2, <2>1, LeaveKeeps DEF QuarantinePending
<1>3. CASE /\ state[on[p]] = Want(p)
           /\ lease' = [lease EXCEPT ![on[p]] = p]
           /\ pc'    = [pc EXCEPT ![p] = "store"]
           /\ todo'  = [todo EXCEPT ![p] = Owners(on[p])]
           /\ UNCHANGED <<state, bindings, disposition, fence, on, mode>>
  BY <1>3, TakeKeeps
<1> QED BY <1>1, <1>2, <1>3

(* The mailbox Store takes next.                                            *)
NextOne(p) == CHOOSE m \in todo[p] : \A n \in todo[p] : m <= n

LEMMA NextOneTodo ==
  ASSUME TypeInv, NEW p \in Agents, todo[p] # {}
  PROVE  NextOne(p) \in todo[p]
<1>1. todo[p] \subseteq Nat
  BY IngressAssumption DEF TypeInv, Mailboxes
<1>2. \E m \in todo[p] : \A n \in todo[p] : m <= n
  BY <1>1, LeastElement
<1> QED BY <1>2 DEF NextOne

LEMMA StoreKeeps ==
  ASSUME IInv, NEW p \in Agents, Store(p)
  PROVE  IInv'
<1>1. CASE Leave(p) /\ UNCHANGED <<copies, byRelease>>
  BY <1>1, JustLeaves DEF Store
<1>2. CASE /\ copies' = Stored(on[p], NextOne(p))
           /\ byRelease' = IF mode[p] = "release" /\ copies[on[p]][NextOne(p)] = 0
                           THEN byRelease \cup {on[p]} ELSE byRelease
           /\ todo' = [todo EXCEPT ![p] = @ \ {NextOne(p)}]
           /\ UNCHANGED <<fence, pc, on, mode>>
  <2>1. NextOne(p) \in todo[p]
    BY NextOneTodo DEF Store, IInv
  <2> HIDE DEF NextOne
  <2> QED BY <1>2, <2>1, StoredKeeps DEF Store, held
<1> QED BY <1>1, <1>2 DEF Store, NextOne

LEMMA AcknowledgeKeeps ==
  ASSUME IInv, NEW p \in Agents, Acknowledge(p)
  PROVE  IInv'
<1> USE DEF Acknowledge
<1>1. CASE UNCHANGED held
  BY <1>1, JustLeaves
<1>2. CASE /\ state[on[p]] = Want(p) /\ mode[p] = "import"
           /\ state' = [state EXCEPT ![on[p]] = "quarantined"]
           /\ lease' = [lease EXCEPT ![on[p]] = Nobody]
           /\ UNCHANGED <<bindings, disposition>>
  <2>1. disposition' = [disposition EXCEPT ![on[p]] = disposition[on[p]]]
    BY <1>2 DEF IInv, TypeInv
  <2> QED BY <1>2, <2>1, LeaveKeeps DEF Want
<1>3. CASE state[on[p]] = Want(p) /\ mode[p] = "import" /\ Archive(on[p], "imported")
  BY <1>3, LeaveKeeps DEF Want, Archive
<1>4. CASE mode[p] = "release" /\ Archive(on[p], "released")
  BY <1>4, LeaveKeeps DEF Archive
<1> QED BY <1>1, <1>2, <1>3, <1>4

LEMMA StepKeeps == IInv /\ [Next]_vars => IInv'
<1> SUFFICES ASSUME IInv, [Next]_vars PROVE IInv'
  OBVIOUS
<1>1. CASE \E d \in Deliveries, a \in Addresses : Bind(d, a) \/ Quarantine(d, a)
  BY <1>1, BindKeeps, QuarantineKeeps
<1>2. ASSUME NEW d \in Deliveries, Accept(d) PROVE IInv'
  BY <1>2, AcceptKeeps
<1>3. ASSUME NEW d \in Deliveries, QuarantineStale(d) PROVE IInv'
  BY <1>3, GivenUpKeeps DEF QuarantineStale, QuarantinePending, GivenUp, Outside
<1>4. ASSUME NEW d \in Deliveries, Discard(d) PROVE IInv'
  BY <1>4, DroppedKeeps DEF Discard, Archive, Dropped, Outside
<1>5. ASSUME NEW d \in Deliveries, LeaseExpires(d) PROVE IInv'
  BY <1>5, Untouched DEF LeaseExpires, Read
<1>6. CASE \E p \in Agents, d \in Deliveries : ImportStart(p, d) \/ ReleaseStart(p, d)
  BY <1>6, ImportStartKeeps, ReleaseStartKeeps
<1>7. ASSUME NEW p \in Agents, Work(p) \/ Crash(p) PROVE IInv'
  BY <1>7, ClaimKeeps, StoreKeeps, AcknowledgeKeeps, JustLeaves DEF Work, Crash
<1>8. CASE \E a \in Addresses : ChangeAddress(a)
  BY <1>8, ChangeKeeps
<1>9. CASE Reconcile \/ (\E a \in Addresses : RouteExpires(a)) \/ UNCHANGED vars
  BY <1>9, Untouched DEF Reconcile, RouteExpires, vars, held, Read
<1> QED BY <1>1, <1>2, <1>3, <1>4, <1>5, <1>6, <1>7, <1>8, <1>9 DEF Next

LEMMA Always == Spec => []IInv
BY Initially, StepKeeps, PTL DEF Spec

-----------------------------------------------------------------------------
(* No mailbox gets a delivery twice, and the bytes are given up as imported *)
(* or released only when every frozen mailbox has its copy (the receipt of  *)
(* Store.Import, deliver, acknowledge).                                     *)
THEOREM OneCopyInEachMailbox == Spec => []OneCopyEach
<1>1. IInv => OneCopyEach
  BY DEF IInv
<1> QED BY <1>1, Always, PTL

(* Mail reaches only the mailboxes it was frozen to (deliver).              *)
THEOREM OnlyFrozenOwners == Spec => []FrozenOwnersOnly
<1>1. IInv => FrozenOwnersOnly
  BY DEF IInv
<1> QED BY <1>1, Always, PTL

(* A discard that says nothing was released is right (Discard).             *)
THEOREM DiscardsHonest == Spec => []DiscardHonest
<1>1. IInv => DiscardHonest
  BY DEF IInv, DiscardHonest, Ended, ReleasedHeld
<1> QED BY <1>1, Always, PTL

-----------------------------------------------------------------------------
(* What changes copies: the second half of Store.                           *)
Deposit(p) ==
  /\ pc[p] = "store" /\ todo[p] # {}
  /\ copies' = Stored(on[p], NextOne(p))
  /\ todo' = [todo EXCEPT ![p] = @ \ {NextOne(p)}]
  /\ UNCHANGED <<held, mode, on>>

LEMMA OnlyDepositsStore ==
  ASSUME [Next]_vars
  PROVE  UNCHANGED copies \/ \E p \in Agents : Deposit(p)
<1>1. ASSUME NEW d \in Deliveries, NEW a \in Addresses, Bind(d, a) \/ Quarantine(d, a) PROVE UNCHANGED copies
  BY <1>1 DEF Bind, Quarantine
<1>2. ASSUME NEW d \in Deliveries, Accept(d) \/ QuarantineStale(d) \/ Discard(d) \/ LeaseExpires(d)
      PROVE UNCHANGED copies
  BY <1>2 DEF Accept, QuarantineStale, Discard, LeaseExpires
<1>3. ASSUME NEW p \in Agents, NEW d \in Deliveries, ImportStart(p, d) \/ ReleaseStart(p, d) PROVE UNCHANGED copies
  BY <1>3 DEF ImportStart, ReleaseStart
<1>4. ASSUME NEW p \in Agents, Claim(p) \/ Acknowledge(p) \/ Crash(p) PROVE UNCHANGED copies
  BY <1>4 DEF Claim, Acknowledge, Crash
<1>5. ASSUME NEW p \in Agents, Store(p) PROVE UNCHANGED copies \/ Deposit(p)
  BY <1>5 DEF Store, Deposit, NextOne
<1>6. CASE Reconcile \/ (\E a \in Addresses : ChangeAddress(a) \/ RouteExpires(a)) \/ UNCHANGED vars
  BY <1>6 DEF Reconcile, ChangeAddress, RouteExpires, vars
<1> QED BY <1>1, <1>2, <1>3, <1>4, <1>5, <1>6 DEF Next, Work

(* An import stores a copy only while the ledger still gives every          *)
(* recipient address to its frozen mailbox at the frozen generation         *)
(* (frozenAuthority under the fence).                                       *)
THEOREM ImportsUnderAuthority == Spec => ImportUnderAuthority
<1>1. ASSUME IInv, [Next]_vars
      PROVE  \A p \in Agents : mode[p] = "import" /\ todo'[p] # todo[p] /\ copies' # copies => Frozen(on[p])
  <2> SUFFICES ASSUME NEW p \in Agents, mode[p] = "import", todo'[p] # todo[p], copies' # copies PROVE Frozen(on[p])
    OBVIOUS
  <2>1. PICK q \in Agents : Deposit(q)
    BY <1>1, OnlyDepositsStore
  <2>2. p = q
    BY <1>1, <2>1 DEF Deposit, IInv, TypeInv
  <2> QED BY <1>1, <2>1, <2>2 DEF Deposit, IInv, Working, WorkingOn
<1> QED BY <1>1, Always, PTL DEF Spec, ImportUnderAuthority

(* An archived delivery keeps its state and disposition.                    *)
LEMMA ArchivedStays ==
  ASSUME IInv, [Next]_vars, NEW d \in Deliveries, state[d] = "archived"
  PROVE  state'[d] = "archived" /\ disposition'[d] = disposition[d]
<1> USE DEF IInv, TypeInv
<1>1. ASSUME NEW e \in Deliveries, NEW a \in Addresses, Bind(e, a) \/ Quarantine(e, a)
      PROVE  state'[d] = "archived" /\ disposition'[d] = disposition[d]
  BY <1>1 DEF Bind, Quarantine
<1>2. ASSUME NEW e \in Deliveries, Accept(e) \/ QuarantineStale(e) \/ Discard(e) \/ LeaseExpires(e)
      PROVE  state'[d] = "archived" /\ disposition'[d] = disposition[d]
  BY <1>2 DEF Accept, QuarantineStale, QuarantinePending, Discard, Archive, LeaseExpires
<1>3. ASSUME NEW p \in Agents, NEW e \in Deliveries, ImportStart(p, e) \/ ReleaseStart(p, e)
      PROVE  state'[d] = "archived" /\ disposition'[d] = disposition[d]
  BY <1>3 DEF ImportStart, ReleaseStart, held
<1>4. ASSUME NEW p \in Agents, Store(p) \/ Crash(p)
      PROVE  state'[d] = "archived" /\ disposition'[d] = disposition[d]
  BY <1>4 DEF Store, Crash, held
<1>5. ASSUME NEW p \in Agents, Claim(p) \/ Acknowledge(p)
      PROVE  state'[d] = "archived" /\ disposition'[d] = disposition[d]
  BY <1>5 DEF Claim, Acknowledge, QuarantinePending, Archive, Want, held
<1>6. CASE Reconcile \/ (\E a \in Addresses : ChangeAddress(a) \/ RouteExpires(a)) \/ UNCHANGED vars
  BY <1>6 DEF Reconcile, ChangeAddress, RouteExpires, vars, held
<1> QED BY <1>1, <1>2, <1>3, <1>4, <1>5, <1>6 DEF Next, Work

(* A tombstone is final: replays do not reopen it and no late importer adds *)
(* copies, except a release that outlived its lease, which the disposition  *)
(* says (archivedDelivery, Discard).                                        *)
THEOREM TombstonesStay == Spec => TombstonesFinal
<1>1. ASSUME IInv, [Next]_vars, NEW d \in Deliveries, state[d] = "archived", disposition[d] # "partially_released"
      PROVE  copies'[d] = copies[d]
  <2>1. CASE UNCHANGED copies
    BY <2>1
  <2>2. CASE \E p \in Agents : Deposit(p)
    <3>1. PICK p \in Agents : Deposit(p)
      BY <2>2
    <3>2. on[p] # d
      BY <1>1, <3>1 DEF Deposit, IInv, TypeInv, Working, WorkingOn, Storing, StoringOn
    <3> QED BY <1>1, <3>1, <3>2 DEF Deposit, Stored, IInv, TypeInv
  <2> QED BY <1>1, <2>1, <2>2, OnlyDepositsStore
<1>2. IInv /\ [Next]_vars =>
        \A d \in Deliveries : state[d] = "archived" =>
          /\ state'[d] = "archived" /\ disposition'[d] = disposition[d]
          /\ disposition[d] # "partially_released" => copies'[d] = copies[d]
  BY <1>1, ArchivedStays
<1> QED BY <1>2, Always, PTL DEF Spec, TombstonesFinal
=============================================================================
