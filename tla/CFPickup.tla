------------------------------ MODULE CFPickup ------------------------------
(***************************************************************************)
(* Continuous Cloudflare receiving: the Worker captures mail into R2 under *)
(* a routing table (receiving-worker/continuous.mjs), and the daemon of    *)
(* the instance that holds receiving publishes the table, picks mail up    *)
(* into its holding store, imports it and deletes the provider's copy      *)
(* (cfLoop in app/receiving_cfcontinuous.go, DB in cfreceiving/state.go).  *)
(*                                                                         *)
(* Every durable commit and every Worker request is a step, and the daemon *)
(* may stop between any two, any number of times.  Another instance starts *)
(* from a backup of the first, whose parts are copied one after the other, *)
(* and may take receiving over; how credentials move is module CFKeys, here *)
(* the Worker just has one holder.                                         *)
(*                                                                         *)
(* Abstractions: the holding store's import (module Ingress) is one step;  *)
(* a key stands for its digest; a revision is a millisecond of the clock,  *)
(* so two instances do not draw the same one.                              *)
(***************************************************************************)
EXTENDS Integers, Sequences, FiniteSets, FiniteSetsExt

CONSTANTS
  Hosts,         \* the instances
  Origin,        \* the one that holds receiving at first
  Keys,          \* captured messages
  None,          \* no key, owner or listing
  Takers,        \* bound: the hosts that take receiving over
  Reassigning,   \* bound: the hosts on which the address is reassigned
  MaxRevision    \* bound on published tables, the first included

(* Who the address belongs to: its first owner, or the one a host gave it.  *)
First  == "first"
Owners == {First} \cup Hosts

ASSUME CFPickupAssumption ==
  /\ Origin \in Hosts /\ None \notin Hosts \cup Keys /\ First \notin Hosts
  /\ MaxRevision \in Nat \ {0}
  /\ Takers \subseteq Hosts /\ Reassigning \subseteq Hosts

(* States of a delivery in the holding store; Held has the bytes or its     *)
(* disposition on record, "quarantined" also once released or discarded.    *)
Held    == {"quarantined", "imported"}
Holding == {"absent", "staged", "pending"} \cup Held
Entries == {"none", "junk", "imported", "quarantined", "refused"}

VARIABLES
  provider, revision, table, \* R2: the copies, their table revision; the table's revision
  holder, live,              \* whose credentials the Worker has; who thinks it holds receiving
  at, key, listed,           \* the daemon: step, key at hand, the cycle's listing
  hold, bound, mail,         \* holding store, its bindings; the imported copy
  entry, revs,               \* provider ledger; recorded revisions
  own,                       \* the address ledger
  routes,                    \* the owner in every revision's table
  copied,                    \* how much of the first instance is copied to a host
  rejected, deleted          \* history: reject verdicts; who deleted which copy

cloud  == <<provider, revision, table, holder>>
daemon == <<at, key, listed>>
store  == <<hold, bound, mail>>
ledger == <<entry, revs>>
rest   == <<live, own, routes, copied, rejected, deleted>>
vars   == <<cloud, daemon, store, ledger, rest>>

MutantParts == <<"mailboxes", "holding", "addresses", "ledger">>

(* The parts of an instance, in the order in which a backup copies them:    *)
(* receiving/ingress.db, then the files of config and of state by name      *)
(* (native-provisioning.json, receiving/cloudflare.db, users/.../mailbox.db; *)
(* the extra mailboxes in state/mailboxes come before the provider ledger). *)
Parts == <<"holding", "addresses", "ledger", "mailboxes">>

Up(h) == copied[h] = Len(Parts)

Goto(h, s) == at' = [at EXCEPT ![h] = s] /\ UNCHANGED <<key, listed>>

(* The daemon goes on with key k, or with none.                             *)
Take(h, k, s) ==
  /\ at'  = [at EXCEPT ![h] = s]
  /\ key' = [key EXCEPT ![h] = k]
  /\ UNCHANGED listed

(* On to the next key, of the owed imports before the listing or of it.     *)
Skip(h) == Take(h, None, IF listed[h] = None THEN "owed" ELSE "items")

Stop(h) ==
  /\ at'     = [at EXCEPT ![h] = "idle"]
  /\ key'    = [key EXCEPT ![h] = None]
  /\ listed' = [listed EXCEPT ![h] = None]

SetEntry(h, k, s)   == entry' = [entry EXCEPT ![h][k] = s]
SetHolding(h, k, s) == hold' = [hold EXCEPT ![h][k] = s]

-----------------------------------------------------------------------------
(* cycle and publish.                                                       *)

Begin(h) ==
  /\ at[h] = "idle" /\ h \in live
  /\ Goto(h, "cycle")
  /\ UNCHANGED <<cloud, store, ledger, rest>>

(* A request was refused: another instance took over, unless this one has   *)
(* taken receiving back meanwhile.                                          *)
Refused(h) ==
  /\ at[h] = "refused"
  /\ live' = IF holder = h THEN live ELSE live \ {h}
  /\ Stop(h)
  /\ UNCHANGED <<cloud, store, ledger, own, routes, copied, rejected, deleted>>

(* The revision and its routes are recorded before they are sent.           *)
Record(h) ==
  /\ at[h] = "cycle"
  /\ LET r == Cardinality(DOMAIN routes) + 1 IN
       /\ r <= MaxRevision
       /\ routes' = [n \in 1 .. r |-> IF n = r THEN own[h] ELSE routes[n]]
       /\ revs'   = [revs EXCEPT ![h] = @ \cup {r}]
  /\ Goto(h, "recorded")
  /\ UNCHANGED <<cloud, store, entry, live, own, copied, rejected, deleted>>

(* PUT /routes installs a newer table; it or its answer may be lost.        *)
PutRoutes(h) ==
  /\ at[h] = "recorded"
  /\ \/ holder # h /\ Goto(h, "refused") /\ UNCHANGED table
     \/ holder = h /\ table' = Max({table, Max(revs[h])}) /\ Goto(h, "owed")
     \/ Goto(h, "owed") /\ UNCHANGED table
  /\ UNCHANGED <<provider, revision, holder, store, ledger, rest>>

-----------------------------------------------------------------------------
(* pickup.                                                                  *)

(* importOwed: pending deliveries, listed or not.                           *)
ImportOwed(h, k) ==
  /\ at[h] \in {"cycle", "owed"} /\ hold[h][k] = "pending"
  /\ Take(h, k, "accepted")
  /\ UNCHANGED <<cloud, store, ledger, rest>>

(* The listing; without it the cycle ends.                                  *)
List(h) ==
  /\ at[h] \in {"cycle", "owed"}
  /\ \/ holder # h /\ Goto(h, "refused")
     \/ /\ holder = h
        /\ at'     = [at EXCEPT ![h] = "items"]
        /\ listed' = [listed EXCEPT ![h] = {k \in Keys : provider[k] = "stored"}]
        /\ UNCHANGED key
     \/ Stop(h)
  /\ UNCHANGED <<cloud, store, ledger, rest>>

(* item: a listed key is settled by the holding store, waits for its import *)
(* or is fetched; a copy that can never be held is refused and stays.       *)
Item(h, k) ==
  /\ at[h] = "items" /\ k \in listed[h] /\ entry[h][k] # "refused"
  /\ \/ /\ hold[h][k] \in Held
        /\ SetEntry(h, k, IF hold[h][k] = "imported" THEN "imported" ELSE "quarantined")
        /\ UNCHANGED daemon
     \/ hold[h][k] = "pending" /\ Take(h, k, "accepted") /\ UNCHANGED entry
     \/ /\ hold[h][k] \in {"absent", "staged"}
        /\ \/ holder # h /\ Goto(h, "refused") /\ UNCHANGED entry
           \/ holder = h /\ provider[k] = "stored" /\ Take(h, k, "fetched") /\ UNCHANGED entry
           \/ SetEntry(h, k, "refused") /\ UNCHANGED daemon
  /\ UNCHANGED <<cloud, store, revs, rest>>

MutantFrozen(h, k) == own[h]

(* frozen: the owner this instance published under the copy's revision.     *)
Frozen(h, k) == IF revision[k] \in revs[h] THEN routes[revision[k]] ELSE None

(* Quarantine: an absent delivery, or a staged one with the same binding.   *)
CanQuarantine(h, k, o) == hold[h][k] = "absent" \/ (hold[h][k] = "staged" /\ bound[h][k] = o)

Quarantined(h, k) ==
  /\ SetHolding(h, k, "quarantined")
  /\ Goto(h, "quarantined")
  /\ UNCHANGED <<bound, mail>>

Quarantine(h, k, o) == CanQuarantine(h, k, o) /\ Quarantined(h, k)

(* capture, up to the bind: an owner that cannot be resolved is never       *)
(* guessed; one that lost the address, or whose limit the message passes,   *)
(* is not bound; a refusal for now leaves the copy at the provider.         *)
Capture(h) ==
  LET k == key[h]
      o == Frozen(h, k)
  IN  /\ at[h] = "fetched"
      /\ \/ /\ o # None /\ hold[h][k] = "staged"
            /\ Goto(h, "bound") /\ UNCHANGED store
         \/ /\ o # None /\ hold[h][k] = "absent" /\ own[h] = o
            /\ SetHolding(h, k, "staged")
            /\ bound' = [bound EXCEPT ![h][k] = o]
            /\ Goto(h, "bound") /\ UNCHANGED mail
         \/ (o = None \/ hold[h][k] = "absent") /\ Quarantine(h, k, o)
         \/ Skip(h) /\ UNCHANGED store
      /\ UNCHANGED <<cloud, ledger, rest>>

MutantScan(h) ==
  LET k == key[h] IN
  /\ at[h] = "bound"
  /\ \/ entry[h][k] = "junk" /\ Goto(h, "scanned") /\ UNCHANGED <<entry, rejected>>
     \/ Goto(h, "scanned") /\ UNCHANGED <<entry, rejected>>
     \/ rejected' = rejected \cup {<<h, k>>} /\ Goto(h, "scanned") /\ UNCHANGED entry
  /\ UNCHANGED <<cloud, store, revs, live, own, routes, copied, deleted>>

(* The scan, unless a reject verdict is on record: a reject verdict is      *)
(* recorded before the bytes are, a soft one or a failing scanner retries.  *)
Scan(h) ==
  LET k == key[h] IN
  /\ at[h] = "bound"
  /\ \/ entry[h][k] = "junk" /\ Goto(h, "scanned") /\ UNCHANGED <<entry, rejected>>
     \/ entry[h][k] # "junk" /\ Goto(h, "scanned") /\ UNCHANGED <<entry, rejected>>
     \/ /\ entry[h][k] # "junk" /\ SetEntry(h, k, "junk")
        /\ rejected' = rejected \cup {<<h, k>>}
        /\ Goto(h, "scanned")
     \/ entry[h][k] # "junk" /\ Skip(h) /\ UNCHANGED <<entry, rejected>>
  /\ UNCHANGED <<cloud, store, revs, live, own, routes, copied, deleted>>

(* commitAccept, or unbound.                                                *)
Accept(h) ==
  LET k == key[h] IN
  /\ at[h] = "scanned"
  /\ \/ own[h] = bound[h][k] /\ SetHolding(h, k, "pending") /\ Goto(h, "accepted") /\ UNCHANGED <<bound, mail>>
     \/ Quarantine(h, k, Frozen(h, k))
     \/ Skip(h) /\ UNCHANGED store
  /\ UNCHANGED <<cloud, ledger, rest>>

(* The mailbox commit: a receipt of an earlier one keeps that copy, and one *)
(* that differs in folder or recipient refuses this (ErrConflict).          *)
Imported(h, k) == [folder |-> IF entry[h][k] = "junk" THEN "Junk" ELSE "INBOX", owner |-> bound[h][k]]

NoConflict(h, k) == mail[h][k].folder = "none" \/ mail[h][k] = Imported(h, k)

(* deliver: to Junk after a reject verdict; a retired owner's mail is       *)
(* quarantined; a refused import retries.                                   *)
Deliver(h) ==
  LET k == key[h] IN
  /\ at[h] = "accepted"
  /\ \/ /\ own[h] = bound[h][k] /\ NoConflict(h, k)
        /\ mail' = [mail EXCEPT ![h][k] = Imported(h, k)]
        /\ Goto(h, "stored") /\ UNCHANGED <<hold, bound>>
     \/ own[h] # bound[h][k] /\ Quarantined(h, k)
     \/ Skip(h) /\ UNCHANGED store
  /\ UNCHANGED <<cloud, ledger, rest>>

Acknowledge(h) ==
  /\ at[h] = "stored"
  /\ SetHolding(h, key[h], "imported")
  /\ Goto(h, "imported")
  /\ UNCHANGED <<cloud, bound, mail, ledger, rest>>

(* The ledger entry that owes the provider's delete.                        *)
SetEntryDone(h) ==
  /\ at[h] \in {"imported", "quarantined"}
  /\ SetEntry(h, key[h], at[h])
  /\ Skip(h)
  /\ UNCHANGED <<cloud, store, revs, rest>>

-----------------------------------------------------------------------------
(* deleteCommitted.                                                         *)

MutantCommitted(h, k) == entry[h][k] \in {"imported", "quarantined"}

(* The holding store decides, not the ledger.                               *)
Committed(h, k) == hold[h][k] \in Held

StartDelete(h) ==
  /\ at[h] = "items"
  /\ Goto(h, "delete")
  /\ UNCHANGED <<cloud, store, ledger, rest>>

Stale(h, k) ==
  CASE entry[h][k] = "refused" -> k \notin listed[h]
    [] entry[h][k] = "junk"    -> k \notin listed[h] /\ hold[h][k] # "pending"
    [] OTHER                   -> ~Committed(h, k)

DropStale(h, k) ==
  /\ at[h] = "delete" /\ entry[h][k] # "none" /\ Stale(h, k)
  /\ SetEntry(h, k, "none")
  /\ UNCHANGED <<cloud, daemon, store, revs, rest>>

(* DELETE /messages, by the holder.  The copy may be deleted although the   *)
(* answer is lost or the daemon stops before RemoveEntry.                   *)
DeleteCopy(h, k) ==
  /\ at[h] = "delete" /\ entry[h][k] \in {"imported", "quarantined"} /\ Committed(h, k)
  /\ \/ holder # h /\ Goto(h, "refused") /\ UNCHANGED <<provider, deleted, entry>>
     \/ /\ holder = h
        /\ provider' = [provider EXCEPT ![k] = "gone"]
        /\ deleted'  = IF provider[k] = "stored" THEN deleted \cup {<<h, k>>} ELSE deleted
        /\ entry' \in {entry, [entry EXCEPT ![h][k] = "none"]}
        /\ UNCHANGED daemon
  /\ UNCHANGED <<revision, table, holder, store, revs, live, own, routes, copied, rejected>>

End(h) ==
  /\ at[h] = "delete"
  /\ Stop(h)
  /\ UNCHANGED <<cloud, store, ledger, rest>>

-----------------------------------------------------------------------------
(* Mail, administrators, stops, and the restored instance.                  *)

(* The Worker's email handler: the copy names the table's revision.         *)
Email(k) ==
  /\ provider[k] = "none"
  /\ provider' = [provider EXCEPT ![k] = "stored"]
  /\ revision' = [revision EXCEPT ![k] = table]
  /\ UNCHANGED <<table, holder, daemon, store, ledger, rest>>

(* The address is reassigned in the host's own ledger.                      *)
Reassign(h) ==
  /\ h \in Reassigning /\ Up(h)
  /\ own' = [own EXCEPT ![h] = h]
  /\ UNCHANGED <<cloud, daemon, store, ledger, live, routes, copied, rejected, deleted>>

(* The copy of a pending message is deleted in the Cloudflare account.      *)
DeleteAtProvider(k) ==
  /\ provider[k] = "stored" /\ \E h \in Hosts : hold[h][k] = "pending"
  /\ provider' = [provider EXCEPT ![k] = "gone"]
  /\ UNCHANGED <<revision, table, holder, daemon, store, ledger, rest>>

Crash(h) ==
  /\ Stop(h)
  /\ UNCHANGED <<cloud, store, ledger, rest>>

(* collect: the parts are copied one after the other, each at its instant.  *)
(* The verdicts the copy has are on record there once it is complete.       *)
Copy(h) ==
  /\ ~Up(h) /\ copied' = [copied EXCEPT ![h] = @ + 1]
  /\ CASE Parts[copied'[h]] = "holding" ->
            /\ hold'  = [hold EXCEPT ![h] = hold[Origin]]
            /\ bound' = [bound EXCEPT ![h] = bound[Origin]]
            /\ UNCHANGED <<mail, own, ledger, rejected>>
       [] Parts[copied'[h]] = "addresses" ->
            /\ own' = [own EXCEPT ![h] = own[Origin]]
            /\ UNCHANGED <<store, ledger, rejected>>
       [] Parts[copied'[h]] = "ledger" ->
            /\ entry' = [entry EXCEPT ![h] = entry[Origin]]
            /\ revs'  = [revs EXCEPT ![h] = revs[Origin]]
            /\ UNCHANGED <<store, own, rejected>>
       [] Parts[copied'[h]] = "mailboxes" ->
            /\ mail'     = [mail EXCEPT ![h] = mail[Origin]]
            /\ rejected' = rejected \cup {h} \X {k \in Keys : entry[h][k] = "junk" /\ hold[h][k] \notin Held}
            /\ UNCHANGED <<hold, bound, own, ledger>>
  /\ UNCHANGED <<cloud, daemon, live, routes, deleted>>

(* The operator confirms that receiving moves to this instance.             *)
Takeover(h) ==
  /\ h \in Takers /\ Up(h) /\ holder # h
  /\ holder' = h
  /\ live'   = live \cup {h}
  /\ UNCHANGED <<provider, revision, table, daemon, store, ledger, own, routes, copied,
                 rejected, deleted>>

-----------------------------------------------------------------------------
Init ==
  /\ provider = [k \in Keys |-> "none"] /\ revision = [k \in Keys |-> 0] /\ table = 1
  /\ holder = Origin /\ live = {Origin}
  /\ at = [h \in Hosts |-> "idle"] /\ key = [h \in Hosts |-> None] /\ listed = [h \in Hosts |-> None]
  /\ hold  = [h \in Hosts |-> [k \in Keys |-> "absent"]]
  /\ bound = [h \in Hosts |-> [k \in Keys |-> None]]
  /\ mail  = [h \in Hosts |-> [k \in Keys |-> [folder |-> "none", owner |-> None]]]
  /\ entry = [h \in Hosts |-> [k \in Keys |-> "none"]]
  /\ revs  = [h \in Hosts |-> IF h = Origin THEN {1} ELSE {}]
  /\ own   = [h \in Hosts |-> First] /\ routes = [n \in {1} |-> First]
  /\ copied = [h \in Hosts |-> IF h = Origin THEN Len(Parts) ELSE 0]
  /\ rejected = {} /\ deleted = {}

CycleStep(h)  == Begin(h) \/ Refused(h) \/ Record(h) \/ PutRoutes(h) \/ List(h)
PickupStep(h) == Capture(h) \/ Scan(h) \/ Accept(h) \/ Deliver(h) \/ Acknowledge(h) \/ SetEntryDone(h)
DeleteStep(h) == StartDelete(h) \/ End(h)
KeyStep(h, k) == ImportOwed(h, k) \/ Item(h, k) \/ DropStale(h, k) \/ DeleteCopy(h, k)

Next ==
  \/ \E h \in Hosts : CycleStep(h) \/ PickupStep(h) \/ DeleteStep(h)
  \/ \E h \in Hosts, k \in Keys : KeyStep(h, k)
  \/ \E k \in Keys : Email(k) \/ DeleteAtProvider(k)
  \/ \E h \in Hosts : Reassign(h) \/ Crash(h) \/ Copy(h) \/ Takeover(h)

Spec == Init /\ [][Next]_vars

-----------------------------------------------------------------------------
(* Properties.                                                              *)

(* The provider, the hosts and the history have their types, and a host has *)
(* a key at hand exactly while it works on one.                             *)
TypeOK ==
  /\ provider \in [Keys -> {"none", "stored", "gone"}]
  /\ revision \in [Keys -> 0 .. MaxRevision] /\ table \in 1 .. MaxRevision
  /\ holder \in Hosts /\ live \subseteq Hosts
  /\ at \in [Hosts -> {"idle", "cycle", "recorded", "owed", "items", "fetched", "bound", "scanned", "accepted",
                       "stored", "imported", "quarantined", "delete", "refused"}]
  /\ \A h \in Hosts : key[h] = None <=> at[h] \in {"idle", "cycle", "recorded", "owed", "items", "delete", "refused"}
  /\ key \in [Hosts -> Keys \cup {None}] /\ listed \in [Hosts -> SUBSET Keys \cup {None}]
  /\ hold \in [Hosts -> [Keys -> Holding]] /\ entry \in [Hosts -> [Keys -> Entries]]
  /\ bound \in [Hosts -> [Keys -> Owners \cup {None}]]
  /\ mail \in [Hosts -> [Keys -> [folder : {"none", "INBOX", "Junk"}, owner : Owners \cup {None}]]]
  /\ revs \in [Hosts -> SUBSET (1 .. MaxRevision)] /\ own \in [Hosts -> Owners]
  /\ copied \in [Hosts -> 0 .. Len(Parts)] /\ rejected \subseteq Hosts \X Keys /\ deleted \subseteq Hosts \X Keys

(* A host that deletes a provider copy has the message or its disposition   *)
(* in its own holding store, although the ledger that owes the delete may   *)
(* come from another instant than the store (deleteCommitted).              *)
DeletedIsHeld == \A d \in deleted : hold[d[1]][d[2]] \in Held

(* What a host's holding store records as imported is in its mailbox, also  *)
(* on a host started from a backup of a running one (collect, deliver).     *)
ImportedIsStored ==
  \A h \in Hosts, k \in Keys : Up(h) /\ hold[h][k] = "imported" => mail[h][k].folder # "none"

(* Mail captured under a table goes to the owner that table names, on       *)
(* whichever host picks it up and whoever has the address there (frozen).   *)
FrozenOwner ==
  \A h \in Hosts, k \in Keys : mail[h][k].owner # None => mail[h][k].owner = routes[revision[k]]

(* A message with a reject verdict on record is not filed to INBOX after,   *)
(* stop where the daemon may (capture, deliver).                            *)
RejectedIsJunk ==
  [][\A r \in rejected : mail'[r[1]][r[2]].folder = "INBOX" => mail[r[1]][r[2]].folder = "INBOX"]_vars

=============================================================================
