------------------------------- MODULE Ingress ------------------------------
(***************************************************************************)
(* The receiving buffer: mail accepted from a gateway is held in           *)
(* ingress.db (ingress/store.go) until every mailbox it was frozen to has  *)
(* a copy (ingress/import.go), or an administrator releases or discards    *)
(* it from quarantine (sso/native_quarantine.go).                          *)
(*                                                                         *)
(* The directory ledger says which mailbox an address belongs to and at    *)
(* which generation; routes are the buffer's copy of it, good for a        *)
(* minute.  Imports, releases and ledger changes run under the directory   *)
(* lock (the fence); discards, hosted quarantines, lease expiry and the    *)
(* route clock do not.  Every SQLite transaction is one step, and a        *)
(* process may stop between any two, which frees the fence and leaves the  *)
(* lease.                                                                  *)
(***************************************************************************)
EXTENDS Naturals, Sequences, FiniteSets

CONSTANTS
  Deliveries,      \* delivery IDs
  Addresses,       \* native addresses
  LastMailbox,     \* mailboxes are 1 .. LastMailbox
  First,           \* the mailbox each address first belongs to
  Agents,          \* importing and releasing processes
  MaxGeneration,   \* bound on the changes of an address
  Nobody           \* no owner, no agent

Mailboxes == 1 .. LastMailbox

ASSUME IngressAssumption ==
  /\ LastMailbox \in Nat /\ MaxGeneration \in Nat
  /\ First \in [Addresses -> Mailboxes]
  /\ Nobody \notin Mailboxes \cup Agents

VARIABLES
  ledger,       \* per address the owner and state of each generation, the last one current
  routes,       \* per address the buffer's route
  state,        \* each delivery: absent, staged, pending, quarantined, archived ...
  bindings,     \* ... its frozen recipients, ...
  lease, live,  \* ... who leased it and whether lease_until is ahead, ...
  disposition,  \* ... and how it ended
  copies,       \* per delivery the messages each mailbox stored
  fence,        \* the agent holding the directory lock
  pc, on,       \* each agent: step, delivery, ...
  mode, todo,   \* ... import or release, mailboxes still to store into
  byRelease     \* history: deliveries a release stored a copy of

held  == <<state, bindings, lease, live, disposition>>
agent == <<fence, pc, on, mode, todo>>
vars  == <<ledger, routes, held, copies, agent, byRelease>>

States       == {"absent", "staged", "pending", "quarantined", "archived"}
Dispositions == {"none", "imported", "released", "discarded", "partially_released"}

Generation(a)   == Len(ledger[a])
Current(a)      == ledger[a][Generation(a)]
Active(a)       == Current(a).state = "active"
CurrentOwner(a) == [mailbox |-> Current(a).mailbox, generation |-> Generation(a)]
Recipients(d)   == DOMAIN bindings[d]
Unresolved(d)   == \E a \in Recipients(d) : bindings[d][a].mailbox = Nobody

-----------------------------------------------------------------------------
(* Routes: SetRoute, RefreshRoute, DeactivateRoutes.                        *)

NoRoute   == [mailbox |-> Nobody, generation |-> 0, active |-> FALSE, fresh |-> FALSE]
RouteOf(a) == [mailbox |-> Current(a).mailbox, generation |-> Generation(a),
               active |-> TRUE, fresh |-> TRUE]

(* SetRoute of active addresses; an older generation is a conflict.         *)
SetRoutes(as) ==
  /\ \A a \in as : routes[a].generation <= Generation(a)
  /\ routes' = [a \in Addresses |-> IF a \in as THEN RouteOf(a) ELSE routes[a]]

(* RefreshRoute renews a route that is otherwise as the ledger has it.      *)
RefreshRoutes(as) ==
  /\ \A a \in as : RouteOf(a) = [routes[a] EXCEPT !.fresh = TRUE]
  /\ routes' = [a \in Addresses |-> IF a \in as THEN RouteOf(a) ELSE routes[a]]

(* The routes of the addresses that are not active in ledger l, inactive.   *)
Deactivated(l) ==
  [a \in Addresses |->
     IF routes[a] = NoRoute \/ l[a][Len(l[a])].state = "active" THEN routes[a]
     ELSE [routes[a] EXCEPT !.generation = Len(l[a]), !.active = FALSE]]

(* currentBindings: every recipient's route is active, unexpired and still  *)
(* the frozen one.                                                          *)
CurrentBindings(d) ==
  /\ Recipients(d) # {}
  /\ \A a \in Recipients(d) :
       /\ routes[a].active /\ routes[a].fresh
       /\ routes[a].mailbox = bindings[d][a].mailbox
       /\ routes[a].generation = bindings[d][a].generation

(* frozenAuthority: the ledger still says what the bindings froze.          *)
Frozen(d) ==
  \A a \in Recipients(d) : Active(a) /\ bindings[d][a] = CurrentOwner(a)

-----------------------------------------------------------------------------
(* Admission.                                                               *)

(* bind: SetRoute and Bind under the fence.  A repeated RCPT, a delivery    *)
(* past staging and a full buffer add nothing.                              *)
Bind(d, a) ==
  /\ fence = Nobody /\ Active(a)
  /\ SetRoutes({a})
  /\ \/ /\ state[d] \in {"absent", "staged"} /\ a \notin Recipients(d)
        /\ state' = [state EXCEPT ![d] = "staged"]
        /\ bindings' = [bindings EXCEPT ![d] =
             [b \in Recipients(d) \cup {a} |-> IF b = a THEN CurrentOwner(a) ELSE bindings[d][b]]]
     \/ UNCHANGED <<state, bindings>>
  /\ UNCHANGED <<ledger, lease, live, disposition, copies, agent, byRelease>>

MutantQuarantinePending(d) ==
  /\ state[d] = "pending" /\ lease[d] = Nobody
  /\ state' = [state EXCEPT ![d] = "quarantined"]
  /\ UNCHANGED <<lease, bindings, live, disposition>>

(* QuarantinePending: a pending delivery nobody works on.                   *)
QuarantinePending(d) ==
  /\ state[d] = "pending" /\ ~live[d]
  /\ state' = [state EXCEPT ![d] = "quarantined"]
  /\ lease' = [lease EXCEPT ![d] = Nobody]
  /\ UNCHANGED <<bindings, live, disposition>>

(* commitAccept and Accept: the bytes are stored under the frozen owners'   *)
(* current authority.  A replay stores nothing; a refusal leaves the        *)
(* delivery staged.                                                         *)
Accept(d) ==
  /\ fence = Nobody /\ state[d] \in {"staged", "pending", "quarantined"} /\ Frozen(d)
  /\ SetRoutes(Recipients(d))
  /\ \/ state[d] = "staged" /\ state' = [state EXCEPT ![d] = "pending"]
     \/ UNCHANGED state
  /\ UNCHANGED <<ledger, bindings, lease, live, disposition, copies, agent, byRelease>>

(* A pending delivery whose frozen authority is gone: found by a replayed   *)
(* accept, by importFrozen or by quarantineRetired.                         *)
QuarantineStale(d) ==
  /\ fence = Nobody /\ ~Frozen(d)
  /\ QuarantinePending(d)
  /\ UNCHANGED <<ledger, routes, copies, agent, byRelease>>

(* Quarantine: a hosted gateway's mail, frozen to an owner it was once      *)
(* routed to, or to none when its table is unknown; no fence.  A staged     *)
(* delivery gains the bytes if it was frozen to that owner alone.           *)
Quarantine(d, a) ==
  \E g \in 1 .. Generation(a) :
    \E m \in {ledger[a][g].mailbox, Nobody} :
      LET b == [x \in {a} |-> [mailbox |-> m, generation |-> g]] IN
      /\ ledger[a][g].state = "active"
      /\ state[d] = "absent" \/ (state[d] = "staged" /\ bindings[d] = b)
      /\ state'    = [state EXCEPT ![d] = "quarantined"]
      /\ bindings' = [bindings EXCEPT ![d] = b]
      /\ UNCHANGED <<ledger, routes, lease, live, disposition, copies, agent, byRelease>>

-----------------------------------------------------------------------------
(* Import and release.                                                      *)

Want(p) == IF mode[p] = "import" THEN "pending" ELSE "quarantined"

MutantEnter(p, d, how) ==
  /\ fence = Nobody /\ pc[p] = "idle"
  /\ pc'    = [pc EXCEPT ![p] = "claim"]
  /\ on'    = [on EXCEPT ![p] = d]
  /\ mode'  = [mode EXCEPT ![p] = how]
  /\ UNCHANGED <<fence, todo>>

(* An agent takes the fence, which it keeps until it leaves.                *)
Enter(p, d, how) ==
  /\ fence = Nobody /\ pc[p] = "idle"
  /\ fence' = p
  /\ pc'    = [pc EXCEPT ![p] = "claim"]
  /\ on'    = [on EXCEPT ![p] = d]
  /\ mode'  = [mode EXCEPT ![p] = how]
  /\ UNCHANGED todo

(* The agent returns, or its process stops: the fence is free again.        *)
Leave(p) ==
  /\ fence' = Nobody
  /\ pc'    = [pc EXCEPT ![p] = "idle"]
  /\ todo'  = [todo EXCEPT ![p] = {}]
  /\ UNCHANGED <<on, mode>>

(* importDelivery, up to the claim: frozenAuthority without fresh DNS.      *)
(* Accept takes only mail that can be imported, so the quarantine of what   *)
(* an older server accepted unseen is not a step here.                      *)
ImportStart(p, d) ==
  /\ state[d] = "pending" /\ Frozen(d)
  /\ Enter(p, d, "import")
  /\ RefreshRoutes(Recipients(d))
  /\ UNCHANGED <<ledger, held, copies, byRelease>>

(* ReleaseQuarantined, up to the claim.  An unresolved delivery goes to the *)
(* owner of its active address today, and is bound to it first              *)
(* (ResolveQuarantined).                                                    *)
ReleaseStart(p, d) ==
  /\ state[d] = "quarantined"
  /\ Enter(p, d, "release")
  /\ \/ ~Unresolved(d) /\ UNCHANGED bindings
     \/ /\ Unresolved(d) /\ ~live[d] /\ Cardinality(Recipients(d)) = 1
        /\ \A a \in Recipients(d) : Active(a)
        /\ bindings' = [bindings EXCEPT ![d] = [a \in Recipients(d) |-> CurrentOwner(a)]]
  /\ UNCHANGED <<ledger, routes, state, lease, live, disposition, copies, byRelease>>

MutantOwners(d) == {Current(a).mailbox : a \in Recipients(d)}

(* One copy per frozen mailbox, however many of its addresses were named.   *)
Owners(d) == {bindings[d][a].mailbox : a \in Recipients(d)}

(* claim: a lease on the delivery; an import whose routes went stale        *)
(* quarantines instead.                                                     *)
Claim(p) ==
  LET d == on[p] IN
  /\ pc[p] = "claim"
  /\ \/ (state[d] # Want(p) \/ live[d]) /\ Leave(p) /\ UNCHANGED held
     \/ /\ state[d] = "pending" /\ Want(p) = "pending" /\ ~live[d] /\ ~CurrentBindings(d)
        /\ QuarantinePending(d)
        /\ Leave(p)
     \/ /\ state[d] = Want(p) /\ ~live[d] /\ (mode[p] = "release" \/ CurrentBindings(d))
        /\ lease' = [lease EXCEPT ![d] = p]
        /\ live'  = [live EXCEPT ![d] = TRUE]
        /\ pc'    = [pc EXCEPT ![p] = "store"]
        /\ todo'  = [todo EXCEPT ![p] = Owners(d)]
        /\ UNCHANGED <<state, bindings, disposition, fence, on, mode>>
  /\ UNCHANGED <<ledger, routes, copies, byRelease>>

MutantStored(d, m) == [copies EXCEPT ![d][m] = @ + 1]

(* mailbox.Store.Import: a receipt makes a replay store nothing.            *)
Stored(d, m) == IF copies[d][m] > 0 THEN copies ELSE [copies EXCEPT ![d][m] = @ + 1]

(* The next mailbox in order stores its copy; a full or failing mailbox     *)
(* ends the attempt.                                                        *)
Store(p) ==
  LET d == on[p]
      m == CHOOSE m \in todo[p] : \A n \in todo[p] : m <= n
  IN  /\ pc[p] = "store" /\ todo[p] # {}
      /\ \/ Leave(p) /\ UNCHANGED <<copies, byRelease>>
         \/ /\ copies' = Stored(d, m)
            /\ byRelease' = IF mode[p] = "release" /\ copies[d][m] = 0 THEN byRelease \cup {d} ELSE byRelease
            /\ todo' = [todo EXCEPT ![p] = @ \ {m}]
            /\ UNCHANGED <<fence, pc, on, mode>>
      /\ UNCHANGED <<ledger, routes, held>>

(* archive: the row gives way to a tombstone (its bindings stay here as     *)
(* history).                                                                *)
Archive(d, how) ==
  /\ state'       = [state EXCEPT ![d] = "archived"]
  /\ disposition' = [disposition EXCEPT ![d] = how]
  /\ lease'       = [lease EXCEPT ![d] = Nobody]
  /\ live'        = [live EXCEPT ![d] = FALSE]
  /\ UNCHANGED bindings

(* acknowledge: under the lease, while it lasts; an import whose routes     *)
(* went stale quarantines what the mailboxes already have.  Without the row *)
(* or the lease nothing changes.                                            *)
Acknowledge(p) ==
  LET d    == on[p]
      mine == state[d] = Want(p) /\ lease[d] = p /\ live[d]
  IN  /\ pc[p] = "store" /\ todo[p] = {}
      /\ \/ ~mine /\ UNCHANGED held
         \/ /\ mine /\ mode[p] = "import" /\ ~CurrentBindings(d)
            /\ state' = [state EXCEPT ![d] = "quarantined"]
            /\ lease' = [lease EXCEPT ![d] = Nobody]
            /\ live'  = [live EXCEPT ![d] = FALSE]
            /\ UNCHANGED <<bindings, disposition>>
         \/ mine /\ mode[p] = "import" /\ CurrentBindings(d) /\ Archive(d, "imported")
         \/ mine /\ mode[p] = "release" /\ Archive(d, "released")
      /\ Leave(p)
      /\ UNCHANGED <<ledger, routes, copies, byRelease>>

MutantDiscard(d) ==
  /\ state[d] = "quarantined" /\ ~live[d]
  /\ Archive(d, "discarded")
  /\ UNCHANGED <<ledger, routes, copies, agent, byRelease>>

MutantDiscardLeased(d) ==
  /\ state[d] \in {"pending", "quarantined"} /\ ~live[d]
  /\ Archive(d, IF state[d] = "pending" \/ lease[d] = Nobody THEN "discarded" ELSE "partially_released")
  /\ UNCHANGED <<ledger, routes, copies, agent, byRelease>>

(* Discard: no fence, no live lease; a lease left behind means a release    *)
(* had started.                                                             *)
Discard(d) ==
  /\ state[d] = "quarantined" /\ ~live[d]
  /\ Archive(d, IF lease[d] = Nobody THEN "discarded" ELSE "partially_released")
  /\ UNCHANGED <<ledger, routes, copies, agent, byRelease>>

-----------------------------------------------------------------------------
(* The directory, time and crashes.                                         *)

(* What an address may become: disabled and enabled again with its owner or *)
(* domain, released to reserved, reassigned from there.                     *)
Changed(x) ==
  IF x.state = "reserved"
  THEN {[mailbox |-> m, state |-> s] : m \in Mailboxes, s \in {"active", "disabled"}}
  ELSE {[x EXCEPT !.state = s] : s \in {"active", "disabled", "reserved"} \ {x.state}}

(* commitNative: the ledger is saved, then every inactive address's route   *)
(* is written inactive, which may fail and stay pending.                    *)
ChangeAddress(a) ==
  /\ fence = Nobody /\ Generation(a) < MaxGeneration
  /\ \E x \in Changed(Current(a)) : ledger' = [ledger EXCEPT ![a] = Append(@, x)]
  /\ routes' \in {routes, Deactivated(ledger')}
  /\ UNCHANGED <<held, copies, agent, byRelease>>

(* ReconcileNativeAddresses retries the routes.                             *)
Reconcile ==
  /\ fence = Nobody
  /\ routes' = Deactivated(ledger)
  /\ UNCHANGED <<ledger, held, copies, agent, byRelease>>

RouteExpires(a) ==
  /\ routes[a].fresh
  /\ routes' = [routes EXCEPT ![a].fresh = FALSE]
  /\ UNCHANGED <<ledger, held, copies, agent, byRelease>>

LeaseExpires(d) ==
  /\ live[d]
  /\ live' = [live EXCEPT ![d] = FALSE]
  /\ UNCHANGED <<ledger, routes, state, bindings, lease, disposition, copies, agent, byRelease>>

Crash(p) ==
  /\ pc[p] # "idle"
  /\ Leave(p)
  /\ UNCHANGED <<ledger, routes, held, copies, byRelease>>

-----------------------------------------------------------------------------
Init ==
  /\ ledger = [a \in Addresses |-> <<[mailbox |-> First[a], state |-> "active"]>>]
  /\ routes = [a \in Addresses |-> NoRoute]
  /\ state       = [d \in Deliveries |-> "absent"]
  /\ bindings    = [d \in Deliveries |-> <<>>]
  /\ lease       = [d \in Deliveries |-> Nobody]
  /\ live        = [d \in Deliveries |-> FALSE]
  /\ disposition = [d \in Deliveries |-> "none"]
  /\ copies      = [d \in Deliveries |-> [m \in Mailboxes |-> 0]]
  /\ fence = Nobody
  /\ pc   = [p \in Agents |-> "idle"]
  /\ on   = [p \in Agents |-> CHOOSE d \in Deliveries : TRUE]
  /\ mode = [p \in Agents |-> "import"]
  /\ todo = [p \in Agents |-> {}]
  /\ byRelease = {}

Work(p) == Claim(p) \/ Store(p) \/ Acknowledge(p)

Next ==
  \/ \E d \in Deliveries, a \in Addresses : Bind(d, a) \/ Quarantine(d, a)
  \/ \E d \in Deliveries : Accept(d) \/ QuarantineStale(d) \/ Discard(d) \/ LeaseExpires(d)
  \/ \E p \in Agents, d \in Deliveries : ImportStart(p, d) \/ ReleaseStart(p, d)
  \/ \E p \in Agents : Work(p) \/ Crash(p)
  \/ \E a \in Addresses : ChangeAddress(a) \/ RouteExpires(a)
  \/ Reconcile

Spec == Init /\ [][Next]_vars

(* Fairness.  A process that holds the fence goes on or stops (its context  *)
(* ends after 30 seconds), leases end, and the importer, which visits every *)
(* pending delivery every five seconds, gets the fence now and then.        *)
Fairness ==
  /\ \A p \in Agents : WF_vars(Work(p))
  /\ \A d \in Deliveries : WF_vars(LeaseExpires(d)) /\ SF_vars(QuarantineStale(d))

FairSpec == Spec /\ Fairness

-----------------------------------------------------------------------------
(* Properties.                                                              *)

Owner == [mailbox : Mailboxes \cup {Nobody}, generation : Nat]

(* The buffer, the agents and the history have their types.                 *)
TypeOK ==
  /\ \A a \in Addresses :
       /\ ledger[a] \in Seq([mailbox : Mailboxes, state : {"active", "disabled", "reserved"}])
       /\ routes[a] \in [mailbox : Mailboxes \cup {Nobody}, generation : Nat, active : BOOLEAN, fresh : BOOLEAN]
  /\ state \in [Deliveries -> States]
  /\ \A d \in Deliveries : Recipients(d) \subseteq Addresses /\ bindings[d] \in [Recipients(d) -> Owner]
  /\ lease \in [Deliveries -> Agents \cup {Nobody}]
  /\ live \in [Deliveries -> BOOLEAN]
  /\ disposition \in [Deliveries -> Dispositions]
  /\ copies \in [Deliveries -> [Mailboxes -> Nat]]
  /\ fence \in Agents \cup {Nobody}
  /\ pc \in [Agents -> {"idle", "claim", "store"}]
  /\ on \in [Agents -> Deliveries]
  /\ mode \in [Agents -> {"import", "release"}]
  /\ todo \in [Agents -> SUBSET Mailboxes]
  /\ byRelease \subseteq Deliveries

(* Exactly one copy: no mailbox gets a delivery twice, through however many *)
(* attempts and however many of its addresses (the receipt of Store.Import, *)
(* Owners), and the bytes are given up as imported or released only when    *)
(* every frozen mailbox has its copy, although attempts fail half way,      *)
(* leases expire and another process continues (deliver, acknowledge).      *)
OneCopyEach ==
  \A d \in Deliveries :
    /\ \A m \in Mailboxes : copies[d][m] <= 1
    /\ disposition[d] \in {"imported", "released"} =>
         \A a \in Recipients(d) : copies[d][bindings[d][a].mailbox] = 1

(* Mail reaches only the mailboxes it was frozen to, never the address's    *)
(* owner of today (deliver).                                                *)
FrozenOwnersOnly ==
  \A d \in Deliveries, m \in Mailboxes :
    copies[d][m] > 0 => \E a \in Recipients(d) : bindings[d][a].mailbox = m

(* An import stores a copy only while the ledger still gives every          *)
(* recipient address to its frozen mailbox at the frozen generation; after  *)
(* a reassignment or a disable only an administrator's release may          *)
(* (frozenAuthority under the fence).                                       *)
ImportUnderAuthority ==
  [][\A p \in Agents : mode[p] = "import" /\ todo'[p] # todo[p] /\ copies' # copies
                     => Frozen(on[p])]_vars

(* A discard that says nothing was released is right: no release had stored *)
(* a copy, and none still under way will (Discard, the lease of claim).     *)
DiscardHonest ==
  \A d \in Deliveries : disposition[d] = "discarded" => d \notin byRelease

(* A tombstone is final: replays do not reopen the delivery, and no late    *)
(* importer adds copies, except a release that outlived its lease, which    *)
(* the disposition says (archivedDelivery, Discard).                        *)
TombstonesFinal ==
  [][\A d \in Deliveries : state[d] = "archived" =>
       /\ state'[d] = "archived" /\ disposition'[d] = disposition[d]
       /\ disposition[d] # "partially_released" => copies'[d] = copies[d]]_vars

(* Mail whose frozen address was retired leaves the pending state, so it    *)
(* does not hold receiving capacity for ever (quarantineRetired).           *)
RetiredLeavesPending ==
  \A d \in Deliveries : (state[d] = "pending" /\ ~Frozen(d)) ~> state[d] # "pending"
=============================================================================
