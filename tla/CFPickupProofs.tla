--------------------------- MODULE CFPickupProofs ---------------------------
(***************************************************************************)
(* Proofs about continuous pickup, for any instances, messages, tables,    *)
(* stops, backups and takeovers.                                           *)
(*                                                                         *)
(* The argument is local to a host and a key (KeyOK, AtOK): a host's       *)
(* stores are changed by its own daemon, or by the backup that makes it    *)
(* while its daemon does not run yet.  What it reads of others only moves  *)
(* forward (Forward): a captured copy keeps its revision, a deleted one    *)
(* stays deleted, a published table keeps its owner, and the original's    *)
(* mailbox keeps what it stored.                                           *)
(***************************************************************************)
EXTENDS CFPickup, FiniteSetTheorems, TLAPS

Steps == {"idle", "cycle", "recorded", "owed", "items", "fetched", "bound", "scanned", "accepted",
          "stored", "imported", "quarantined", "delete", "refused"}

Copies == [folder : {"none", "INBOX", "Junk"}, owner : Owners \cup {None}]

TypeInv ==
  /\ provider \in [Keys -> {"none", "stored", "gone"}]
  /\ DOMAIN revision = Keys
  /\ at \in [Hosts -> Steps]
  /\ DOMAIN key = Hosts /\ DOMAIN listed = Hosts /\ DOMAIN revs = Hosts
  /\ hold \in [Hosts -> [Keys -> Holding]]
  /\ entry \in [Hosts -> [Keys -> Entries]]
  /\ bound \in [Hosts -> [Keys -> Owners \cup {None}]]
  /\ mail \in [Hosts -> [Keys -> Copies]]
  /\ own \in [Hosts -> Owners]
  /\ copied \in [Hosts -> 0 .. 4]
  /\ rejected \subseteq Hosts \X Keys /\ deleted \subseteq Hosts \X Keys

(* The published tables, and the revision a copy names.                     *)
Published ==
  /\ Cardinality(DOMAIN routes) \in Nat /\ DOMAIN routes = 1 .. Cardinality(DOMAIN routes)
  /\ \A n \in DOMAIN routes : routes[n] \in Owners
  /\ \A h \in Hosts : revs[h] \subseteq DOMAIN routes
  /\ \A k \in Keys : provider[k] = "none" => revision[k] = 0
  /\ copied[Origin] = 4

(* An owner on record is the one of the table the copy names.               *)
Traced(o, k) == o # None => revision[k] \in DOMAIN routes /\ o = routes[revision[k]]

(* What host h knows of key k.  A reject verdict is on record until the     *)
(* message is stored or held, or cannot be fetched again.                   *)
KeyOK(h, k) ==
  /\ hold[h][k] # "absent" \/ entry[h][k] # "none" \/ <<h, k>> \in rejected => provider[k] # "none"
  /\ Traced(bound[h][k], k) /\ Traced(mail[h][k].owner, k)
  /\ <<h, k>> \in deleted => hold[h][k] \in Held /\ copied[h] = 4
  /\ <<h, k>> \in rejected => copied[h] = 4
  /\ <<h, k>> \in rejected /\ mail[h][k].folder = "none" =>
       \/ entry[h][k] = "junk" \/ hold[h][k] \in Held
       \/ hold[h][k] \in {"absent", "staged"} /\ (entry[h][k] = "refused" \/ provider[k] = "gone")
  /\ copied[h] = 0 => hold[h][k] = "absent"
  /\ hold[h][k] = "imported" => mail[IF copied[h] < 4 THEN Origin ELSE h][k].folder # "none"

(* A listing has every copy that was there.                                 *)
ListedOK(h) ==
  /\ listed[h] \subseteq Keys /\ \A k \in listed[h] : provider[k] # "none"
  /\ \A k \in Keys : <<h, k>> \in rejected /\ k \notin listed[h] => provider[k] = "gone"

(* The daemon with key k at hand.                                           *)
AtKey(h, k) ==
  /\ at[h] \in {"fetched", "bound"} => k \in listed[h]
  /\ at[h] = "fetched" => hold[h][k] \in {"absent", "staged"}
  /\ at[h] \in {"bound", "scanned"} => hold[h][k] = "staged"
  /\ at[h] \in {"accepted", "stored"} => hold[h][k] = "pending"
  /\ at[h] = "stored" => mail[h][k].folder # "none"
  /\ at[h] \in {"imported", "quarantined"} => hold[h][k] = at[h]
  /\ at[h] \in {"fetched", "bound", "scanned"} /\ <<h, k>> \in rejected /\ mail[h][k].folder = "none"
       => entry[h][k] = "junk"

Handling == {"fetched", "bound", "scanned", "accepted", "stored", "imported", "quarantined"}

HostOK(h) ==
  /\ at[h] \in Handling => key[h] \in Keys /\ AtKey(h, key[h])
  /\ listed[h] # None \/ at[h] \in {"items", "delete", "fetched", "bound"} => ListedOK(h)
  /\ h \in live \/ at[h] # "idle" \/ listed[h] # None => copied[h] = 4

(* The inductive invariant.                                                 *)
IInv ==
  /\ TypeInv /\ Published
  /\ \A h \in Hosts : HostOK(h)
  /\ \A h \in Hosts, k \in Keys : KeyOK(h, k)

-----------------------------------------------------------------------------
(* Frames.                                                                  *)

LEMMA PartsCount ==
  /\ Len(Parts) = 4 /\ Parts[1] = "holding" /\ Parts[2] = "addresses" /\ Parts[3] = "ledger"
  /\ Parts[4] = "mailboxes"
  /\ \A h : Up(h) <=> copied[h] = 4
BY DEF Parts, Up

(* What the hosts read of the provider, the tables and the original only    *)
(* moves forward.                                                           *)
Forward ==
  /\ \A k \in Keys : provider[k] # "none" => provider'[k] # "none" /\ revision'[k] = revision[k]
  /\ \A k \in Keys : provider[k] = "gone" => provider'[k] = "gone"
  /\ \A n \in DOMAIN routes : n \in DOMAIN routes' /\ routes'[n] = routes[n]
  /\ \A k \in Keys : mail[Origin][k].folder # "none" => mail'[Origin][k].folder # "none"

SameKey(h, k) ==
  /\ hold'[h][k] = hold[h][k] /\ bound'[h][k] = bound[h][k] /\ mail'[h][k] = mail[h][k]
  /\ entry'[h][k] = entry[h][k] /\ copied'[h] = copied[h]
  /\ (<<h, k>> \in rejected' <=> <<h, k>> \in rejected)
  /\ (<<h, k>> \in deleted' <=> <<h, k>> \in deleted)

SameDaemon(h) ==
  /\ at'[h] = at[h] /\ key'[h] = key[h] /\ listed'[h] = listed[h]
  /\ (h \in live' => h \in live) /\ copied'[h] = copied[h]

(* A captured copy keeps its revision, so a traced owner stays traced.      *)
LEMMA TracedKept ==
  ASSUME Published, Forward, NEW k \in Keys, NEW o, Traced(o, k)
  PROVE  Traced(o, k)'
<1> SUFFICES ASSUME o # None PROVE revision'[k] \in DOMAIN routes' /\ o = routes'[revision'[k]]
  BY DEF Traced
<1>1. revision[k] \in DOMAIN routes /\ o = routes[revision[k]]
  BY DEF Traced
<1>2. provider[k] # "none"
  BY <1>1 DEF Published
<1> QED BY <1>1, <1>2 DEF Forward

LEMMA KeyKept ==
  ASSUME IInv, Forward, NEW h \in Hosts, NEW k \in Keys, SameKey(h, k)
  PROVE  KeyOK(h, k)'
<1>1. Traced(bound[h][k], k)' /\ Traced(mail[h][k].owner, k)'
  <2>1. Traced(bound[h][k], k) /\ Traced(mail[h][k].owner, k) /\ Published
    BY DEF IInv, KeyOK
  <2>2. \A o : Traced(o, k) => (o # None => revision'[k] \in DOMAIN routes' /\ o = routes'[revision'[k]])
    BY <2>1, TracedKept DEF Traced
  <2> QED BY <2>1, <2>2 DEF Traced, SameKey
<1>2. KeyOK(h, k)
  BY DEF IInv
<1> QED BY <1>1, <1>2 DEF KeyOK, SameKey, Forward

LEMMA HostKept ==
  ASSUME IInv, Forward, NEW h \in Hosts, SameDaemon(h), \A k \in Keys : SameKey(h, k)
  PROVE  HostOK(h)'
<1>0. HostOK(h)
  BY DEF IInv
<1>1. ListedOK(h) => ListedOK(h)'
  BY DEF ListedOK, SameDaemon, SameKey, Forward
<1>2. at[h] \in Handling => key'[h] \in Keys /\ AtKey(h, key[h])'
  BY <1>0 DEF HostOK, AtKey, SameDaemon, SameKey
<1>3. copied[h] = 4 => copied'[h] = 4
  BY <1>0 DEF SameDaemon
<1> QED BY <1>0, <1>1, <1>2, <1>3 DEF HostOK, SameDaemon

(* A step of host h.                                                        *)
LEMMA OneHost ==
  ASSUME IInv, TypeInv', Published', Forward, NEW h \in Hosts,
         \A g \in Hosts \ {h} : SameDaemon(g) /\ \A k \in Keys : SameKey(g, k),
         HostOK(h)', \A k \in Keys : KeyOK(h, k)'
  PROVE  IInv'
BY KeyKept, HostKept DEF IInv

LEMMA Initially == Init => IInv
<1> SUFFICES ASSUME Init PROVE IInv
  OBVIOUS
<1> USE CFPickupAssumption
<1>1. DOMAIN routes = 1 .. 1 /\ Cardinality(1 .. 1) = 1
  <2>1. DOMAIN routes = {1} /\ {1} = 1 .. 1
    BY DEF Init
  <2> QED BY <2>1, FS_Singleton
<1>2. Published
  BY <1>1, PartsCount DEF Init, Published, Owners
<1>3. TypeInv
  BY PartsCount DEF Init, TypeInv, Steps, Holding, Entries, Copies, Owners
<1>4. \A h \in Hosts : HostOK(h)
  BY PartsCount DEF Init, HostOK, Handling
<1>5. \A h \in Hosts, k \in Keys : KeyOK(h, k)
  BY DEF Init, KeyOK, Traced
<1> QED BY <1>2, <1>3, <1>4, <1>5 DEF IInv

-----------------------------------------------------------------------------
(* Steps of the daemon that change no store.                                *)

Stores == <<provider, revision, hold, bound, mail, entry, revs, own, routes, copied, rejected, deleted>>

LEMMA DaemonStep ==
  ASSUME IInv, NEW h \in Hosts, UNCHANGED Stores, live' \subseteq live,
         at' \in [Hosts -> Steps], DOMAIN key' = Hosts, DOMAIN listed' = Hosts,
         \A g \in Hosts \ {h} : at'[g] = at[g] /\ key'[g] = key[g] /\ listed'[g] = listed[g],
         HostOK(h)'
  PROVE  IInv'
<1> USE DEF Stores
<1>1. TypeInv' /\ Published'
  BY DEF IInv, TypeInv, Published
<1>2. Forward
  BY DEF Forward
<1>3. \A g \in Hosts, k \in Keys : SameKey(g, k)
  BY DEF SameKey
<1>4. \A g \in Hosts \ {h} : SameDaemon(g)
  BY DEF SameDaemon
<1> QED BY <1>1, <1>2, <1>3, <1>4, KeyKept, OneHost

(* The movements of the daemon.                                             *)
LEMMA Gotos ==
  ASSUME TypeInv, NEW h \in Hosts, NEW s \in Steps, Goto(h, s)
  PROVE  /\ at' \in [Hosts -> Steps] /\ DOMAIN key' = Hosts /\ DOMAIN listed' = Hosts
         /\ \A g \in Hosts \ {h} : at'[g] = at[g] /\ key'[g] = key[g] /\ listed'[g] = listed[g]
         /\ at'[h] = s /\ key'[h] = key[h] /\ listed'[h] = listed[h]
BY DEF Goto, TypeInv

LEMMA Takes ==
  ASSUME TypeInv, NEW h \in Hosts, NEW s \in Steps, NEW k, Take(h, k, s)
  PROVE  /\ at' \in [Hosts -> Steps] /\ DOMAIN key' = Hosts /\ DOMAIN listed' = Hosts
         /\ \A g \in Hosts \ {h} : at'[g] = at[g] /\ key'[g] = key[g] /\ listed'[g] = listed[g]
         /\ at'[h] = s /\ key'[h] = k /\ listed'[h] = listed[h]
BY DEF Take, TypeInv

LEMMA Skips ==
  ASSUME TypeInv, NEW h \in Hosts, Skip(h)
  PROVE  /\ at' \in [Hosts -> Steps] /\ DOMAIN key' = Hosts /\ DOMAIN listed' = Hosts
         /\ \A g \in Hosts \ {h} : at'[g] = at[g] /\ key'[g] = key[g] /\ listed'[g] = listed[g]
         /\ at'[h] \in {"owed", "items"} /\ listed'[h] = listed[h]
         /\ at'[h] = "items" => listed[h] # None
BY DEF Skip, Take, TypeInv, Steps

LEMMA Stops ==
  ASSUME TypeInv, NEW h \in Hosts, Stop(h)
  PROVE  /\ at' \in [Hosts -> Steps] /\ DOMAIN key' = Hosts /\ DOMAIN listed' = Hosts
         /\ \A g \in Hosts \ {h} : at'[g] = at[g] /\ key'[g] = key[g] /\ listed'[g] = listed[g]
         /\ at'[h] = "idle" /\ listed'[h] = None
BY DEF Stop, TypeInv, Steps

(* A host that stops is in order.                                           *)
LEMMA StopKeeps ==
  ASSUME IInv, NEW h \in Hosts, Stop(h), UNCHANGED Stores, live' \subseteq live
  PROVE  IInv'
<1>1. HostOK(h)'
  BY Stops DEF IInv, HostOK, Handling, Stores
<1> QED BY <1>1, Stops, DaemonStep DEF IInv

(* So is one that goes on without a key, or to one of its listing.          *)
LEMMA GotoKeeps ==
  ASSUME IInv, NEW h \in Hosts, NEW s \in Steps \ Handling, Goto(h, s), UNCHANGED Stores, live' \subseteq live,
         at[h] # "idle" \/ h \in live,
         s \in {"items", "delete"} => ListedOK(h)
  PROVE  IInv'
<1>1. HostOK(h)'
  <2>1. HostOK(h) /\ copied[h] = 4
    BY DEF IInv, HostOK
  <2>2. ListedOK(h) => ListedOK(h)'
    BY Gotos DEF ListedOK, Stores, IInv
  <2>3. at'[h] = s /\ listed'[h] = listed[h] /\ copied'[h] = copied[h]
    BY Gotos DEF IInv, Stores
  <2>4. s \notin Handling /\ s \notin {"fetched", "bound"}
    BY DEF Handling
  <2> QED BY <2>1, <2>2, <2>3, <2>4 DEF HostOK
<1> QED BY <1>1, Gotos, DaemonStep DEF IInv

LEMMA CycleKeeps ==
  ASSUME IInv, NEW h \in Hosts, Begin(h) \/ Refused(h) \/ PutRoutes(h) \/ StartDelete(h) \/ End(h) \/ Crash(h)
  PROVE  IInv'
<1> USE DEF cloud, store, ledger, rest
<1>1. CASE Begin(h)
  BY <1>1, GotoKeeps DEF Begin, Stores, Steps, Handling
<1>2. CASE Refused(h)
  BY <1>2, StopKeeps DEF Refused, Stores
<1>3. CASE PutRoutes(h)
  <2>1. (Goto(h, "refused") \/ Goto(h, "owed")) /\ UNCHANGED Stores /\ live' \subseteq live /\ at[h] = "recorded"
    BY <1>3 DEF PutRoutes, Stores
  <2> QED BY <2>1, GotoKeeps DEF Steps, Handling
<1>4. CASE StartDelete(h)
  <2>1. ListedOK(h)
    BY <1>4 DEF StartDelete, IInv, HostOK
  <2> QED BY <1>4, <2>1, GotoKeeps DEF StartDelete, Stores, Steps, Handling
<1>5. CASE End(h) \/ Crash(h)
  BY <1>5, StopKeeps DEF End, Crash, Stores
<1> QED BY <1>1, <1>2, <1>3, <1>4, <1>5

LEMMA ListKeeps ==
  ASSUME IInv, NEW h \in Hosts, List(h)
  PROVE  IInv'
<1> USE DEF cloud, store, ledger, rest
<1>0. UNCHANGED Stores /\ live' \subseteq live /\ at[h] \in {"cycle", "owed"}
  BY DEF List, Stores
<1>1. CASE Goto(h, "refused")
  BY <1>0, <1>1, GotoKeeps DEF Steps, Handling
<1>2. CASE Stop(h)
  BY <1>0, <1>2, StopKeeps
<1>3. CASE /\ at' = [at EXCEPT ![h] = "items"]
           /\ listed' = [listed EXCEPT ![h] = {k \in Keys : provider[k] = "stored"}]
           /\ UNCHANGED key
  <2>1. /\ at' \in [Hosts -> Steps] /\ DOMAIN key' = Hosts /\ DOMAIN listed' = Hosts
        /\ \A g \in Hosts \ {h} : at'[g] = at[g] /\ key'[g] = key[g] /\ listed'[g] = listed[g]
        /\ at'[h] = "items" /\ listed'[h] = {k \in Keys : provider[k] = "stored"}
    BY <1>3 DEF IInv, TypeInv, Steps
  <2>2. copied[h] = 4 /\ copied' = copied
    BY <1>0 DEF IInv, HostOK, Stores
  <2>3. \A k \in Keys : <<h, k>> \in rejected => provider[k] \in {"stored", "gone"}
    BY DEF IInv, KeyOK, TypeInv
  <2>4. ListedOK(h)'
    BY <1>0, <2>1, <2>3 DEF ListedOK, Stores
  <2>5. HostOK(h)'
    BY <2>1, <2>2, <2>4 DEF HostOK, Handling
  <2> QED BY <1>0, <2>1, <2>5, DaemonStep
<1> QED BY <1>1, <1>2, <1>3 DEF List

LEMMA ImportOwedKeeps ==
  ASSUME IInv, NEW h \in Hosts, NEW k \in Keys, ImportOwed(h, k)
  PROVE  IInv'
<1> USE DEF cloud, store, ledger, rest
<1>0. UNCHANGED Stores /\ live' \subseteq live /\ at[h] \in {"cycle", "owed"} /\ Take(h, k, "accepted")
      /\ hold[h][k] = "pending"
  BY DEF ImportOwed, Stores
<1>1. /\ at' \in [Hosts -> Steps] /\ DOMAIN key' = Hosts /\ DOMAIN listed' = Hosts
      /\ \A g \in Hosts \ {h} : at'[g] = at[g] /\ key'[g] = key[g] /\ listed'[g] = listed[g]
      /\ at'[h] = "accepted" /\ key'[h] = k /\ listed'[h] = listed[h]
  BY <1>0, Takes DEF IInv, Steps
<1>2. HostOK(h) /\ copied[h] = 4 /\ (ListedOK(h) => ListedOK(h)')
  BY <1>0, <1>1 DEF IInv, HostOK, ListedOK, Stores
<1>3. AtKey(h, k)'
  BY <1>0, <1>1 DEF AtKey, Stores
<1>4. HostOK(h)'
  BY <1>0, <1>1, <1>2, <1>3 DEF HostOK, Stores
<1> QED BY <1>0, <1>1, <1>4, DaemonStep

-----------------------------------------------------------------------------
(* Steps of the daemon on one key.                                          *)

LEMMA OneKey ==
  ASSUME IInv, TypeInv', NEW h \in Hosts, NEW k \in Keys,
         UNCHANGED <<provider, revision, revs, routes, copied>>, live' \subseteq live,
         \A g \in Hosts \ {h} : at'[g] = at[g] /\ key'[g] = key[g] /\ listed'[g] = listed[g],
         \A g \in Hosts, j \in Keys : g # h \/ j # k => SameKey(g, j),
         mail[h][k].folder # "none" => mail'[h][k].folder # "none",
         KeyOK(h, k)', HostOK(h)'
  PROVE  IInv'
<1>1. Published'
  BY DEF IInv, Published
<1>2. Forward
  BY CFPickupAssumption, ZenonT(40) DEF Forward, SameKey
<1>3. \A g \in Hosts \ {h} : SameDaemon(g)
  BY DEF SameDaemon
<1>4. \A j \in Keys : KeyOK(h, j)'
  BY <1>2, KeyKept
<1> QED BY <1>1, <1>2, <1>3, <1>4, OneHost

(* The listing of h still has every copy that was there.                    *)
LEMMA ListedKept ==
  ASSUME NEW h \in Hosts, UNCHANGED provider, listed'[h] = listed[h], ListedOK(h),
         \A k \in Keys : <<h, k>> \in rejected' => <<h, k>> \in rejected \/ k \in listed[h]
  PROVE  ListedOK(h)'
BY DEF ListedOK

(* A key at hand is one the host knows.                                     *)
LEMMA AtHand ==
  ASSUME IInv, NEW h \in Hosts, at[h] \in Handling
  PROVE  /\ key[h] \in Keys /\ AtKey(h, key[h]) /\ KeyOK(h, key[h]) /\ HostOK(h) /\ copied[h] = 4
         /\ provider[key[h]] # "none"
<1>1. key[h] \in Keys /\ AtKey(h, key[h]) /\ HostOK(h) /\ copied[h] = 4
  BY DEF IInv, HostOK, Handling
<1>2. KeyOK(h, key[h])
  BY <1>1 DEF IInv
<1>3. CASE at[h] = "fetched"
  <2>1. ListedOK(h)
    BY <1>1, <1>3 DEF HostOK
  <2>2. key[h] \in listed[h]
    BY <1>1, <1>3 DEF AtKey
  <2> QED BY <1>1, <1>2, <1>3, <2>1, <2>2 DEF ListedOK
<1>4. CASE at[h] # "fetched"
  <2>1. hold[h][key[h]] # "absent"
    BY <1>1, <1>4 DEF AtKey, Handling
  <2> QED BY <1>1, <1>2, <2>1 DEF KeyOK
<1> QED BY <1>1, <1>2, <1>3, <1>4

(* Only the entry of one key changes, and the daemon may move.              *)
LEMMA ItemKeeps ==
  ASSUME IInv, NEW h \in Hosts, NEW k \in Keys, Item(h, k)
  PROVE  IInv'
<1> USE DEF cloud, store, rest, ledger
<1>0. /\ UNCHANGED <<provider, revision, hold, bound, mail, revs, own, routes, copied, rejected, deleted, live>>
      /\ at[h] = "items" /\ k \in listed[h] /\ entry[h][k] # "refused"
  BY DEF Item
<1>1. HostOK(h) /\ ListedOK(h) /\ copied[h] = 4 /\ KeyOK(h, k) /\ provider[k] # "none"
  BY <1>0 DEF IInv, HostOK, ListedOK
<1>2. ASSUME NEW e \in {"imported", "quarantined", "refused"}, SetEntry(h, k, e), UNCHANGED daemon,
             hold[h][k] \in Held \/ (e = "refused" /\ hold[h][k] \in {"absent", "staged"})
      PROVE  IInv'
  <2>1. TypeInv' /\ entry'[h][k] = e
    BY <1>0, <1>2 DEF IInv, TypeInv, SetEntry, Entries, daemon
  <2>2. \A g \in Hosts, j \in Keys : g # h \/ j # k => SameKey(g, j)
    BY <1>0, <1>2 DEF SameKey, SetEntry, IInv, TypeInv
  <2>3. KeyOK(h, k)'
    BY <1>0, <1>1, <1>2, <2>1 DEF KeyOK, Traced
  <2>4. HostOK(h)'
    BY <1>0, <1>1, <1>2, ListedKept DEF HostOK, daemon, Handling
  <2> QED BY <1>0, <1>2, <2>1, <2>2, <2>3, <2>4, OneKey DEF daemon
<1>3. ASSUME NEW s \in {"accepted", "fetched"}, Take(h, k, s), UNCHANGED entry,
             s = "accepted" => hold[h][k] = "pending",
             s = "fetched" => hold[h][k] \in {"absent", "staged"} /\ provider[k] = "stored"
      PROVE  IInv'
  <2>1. /\ at' \in [Hosts -> Steps] /\ DOMAIN key' = Hosts /\ DOMAIN listed' = Hosts
        /\ \A g \in Hosts \ {h} : at'[g] = at[g] /\ key'[g] = key[g] /\ listed'[g] = listed[g]
        /\ at'[h] = s /\ key'[h] = k /\ listed'[h] = listed[h]
    BY <1>3, Takes DEF IInv, Steps
  <2>2. ListedOK(h)'
    BY <1>0, <1>1, <2>1, ListedKept
  <2>3. AtKey(h, k)'
    BY <1>0, <1>1, <1>3, <2>1 DEF AtKey, KeyOK, Held
  <2>4. HostOK(h)'
    BY <1>0, <1>1, <2>1, <2>2, <2>3 DEF HostOK
  <2>5. UNCHANGED Stores
    BY <1>0, <1>3 DEF Stores
  <2> QED BY <1>0, <2>1, <2>4, <2>5, DaemonStep
<1>4. CASE Goto(h, "refused") /\ UNCHANGED entry
  BY <1>0, <1>4, GotoKeeps DEF Steps, Handling, Stores
<1> QED BY <1>2, <1>3, <1>4 DEF Item, Held

(* A daemon with a key at hand gives it up.                                 *)
LEMMA SkipKeeps ==
  ASSUME IInv, NEW h \in Hosts, at[h] \in Handling, Skip(h), UNCHANGED Stores, live' \subseteq live
  PROVE  IInv'
<1>0. HostOK(h) /\ copied[h] = 4
  BY AtHand
<1>1. /\ at' \in [Hosts -> Steps] /\ DOMAIN key' = Hosts /\ DOMAIN listed' = Hosts
      /\ \A g \in Hosts \ {h} : at'[g] = at[g] /\ key'[g] = key[g] /\ listed'[g] = listed[g]
      /\ at'[h] \in {"owed", "items"} /\ listed'[h] = listed[h]
      /\ at'[h] = "items" => listed[h] # None
  BY Skips DEF IInv
<1>2. ListedOK(h) => ListedOK(h)'
  BY <1>1, ListedKept DEF Stores
<1>3. HostOK(h)'
  BY <1>0, <1>1, <1>2 DEF HostOK, Handling, Stores
<1> QED BY <1>1, <1>3, DaemonStep

(* A daemon takes the key at hand a step further; the stores keep what they *)
(* have.                                                                    *)
LEMMA FurtherKeeps ==
  ASSUME IInv, NEW h \in Hosts, NEW k \in Keys, at[h] \in Handling, k = key[h], NEW s \in Handling, Goto(h, s),
         TypeInv', UNCHANGED <<provider, revision, revs, routes, copied, live>>,
         \A g \in Hosts, j \in Keys : g # h \/ j # k => SameKey(g, j),
         mail[h][k].folder # "none" => mail'[h][k].folder # "none",
         \A j \in Keys : <<h, j>> \in rejected' => <<h, j>> \in rejected \/ (j = k /\ at[h] = "bound"),
         s # "fetched" /\ (s = "bound" => at[h] = "fetched"),
         KeyOK(h, k)', AtKey(h, k)'
  PROVE  IInv'
<1>0. HostOK(h) /\ copied[h] = 4 /\ AtKey(h, k)
  BY AtHand
<1>1. /\ \A g \in Hosts \ {h} : at'[g] = at[g] /\ key'[g] = key[g] /\ listed'[g] = listed[g]
      /\ at'[h] = s /\ key'[h] = k /\ listed'[h] = listed[h]
  BY Gotos DEF IInv, Steps, Handling
<1>2. ListedOK(h) => ListedOK(h)'
  BY <1>0, <1>1 DEF ListedOK, AtKey
<1>3. HostOK(h)'
  BY <1>0, <1>1, <1>2 DEF HostOK, Handling
<1> QED BY <1>1, <1>3, OneKey

(* The key at hand is quarantined.                                          *)
LEMMA QuarantinedKeeps ==
  ASSUME IInv, NEW h \in Hosts, NEW k \in Keys, at[h] \in Handling, k = key[h], Quarantined(h, k),
         UNCHANGED <<provider, revision, entry, revs, own, routes, copied, rejected, deleted, live>>
  PROVE  IInv'
<1>0. KeyOK(h, k) /\ provider[k] # "none" /\ copied[h] = 4
  BY AtHand
<1>1. at' \in [Hosts -> Steps] /\ DOMAIN key' = Hosts /\ DOMAIN listed' = Hosts /\ at'[h] = "quarantined"
  BY Gotos DEF IInv, Steps, Quarantined
<1>2. TypeInv' /\ hold'[h][k] = "quarantined"
  BY <1>1 DEF IInv, TypeInv, SetHolding, Holding, Held, Quarantined
<1>3. \A g \in Hosts, j \in Keys : g # h \/ j # k => SameKey(g, j)
  BY DEF SameKey, SetHolding, IInv, TypeInv, Quarantined
<1>4. KeyOK(h, k)'
  BY <1>0, <1>2 DEF KeyOK, Traced, Held, Quarantined
<1>5. AtKey(h, k)'
  BY <1>1, <1>2 DEF AtKey
<1> QED BY <1>2, <1>3, <1>4, <1>5, FurtherKeeps DEF Quarantined, Handling

(* The holding store changes under the key at hand.                         *)
LEMMA CaptureKeeps ==
  ASSUME IInv, NEW h \in Hosts, Capture(h)
  PROVE  IInv'
<1> USE DEF cloud, store, rest, ledger
<1>k. PICK k \in Keys : k = key[h] /\ AtKey(h, k) /\ KeyOK(h, k) /\ HostOK(h) /\ copied[h] = 4 /\ provider[k] # "none"
  BY AtHand DEF Capture, Handling
<1>0. /\ UNCHANGED <<provider, revision, entry, revs, own, routes, copied, rejected, deleted, live>>
      /\ at[h] = "fetched" /\ at[h] \in Handling
  BY DEF Capture, Handling
<1>1. k \in listed[h] /\ hold[h][k] \in {"absent", "staged"}
  BY <1>k, <1>0 DEF AtKey
<1>2. ASSUME Goto(h, "bound"), UNCHANGED <<hold, bound, mail>>, hold[h][k] = "staged"
      PROVE  IInv'
  <2>1. /\ at' \in [Hosts -> Steps] /\ DOMAIN key' = Hosts /\ DOMAIN listed' = Hosts
        /\ at'[h] = "bound" /\ listed'[h] = listed[h]
    BY <1>2, Gotos DEF IInv, Steps
  <2>2. TypeInv' /\ \A g \in Hosts, j \in Keys : SameKey(g, j)
    BY <1>0, <1>2, <2>1 DEF IInv, TypeInv, SameKey
  <2>3. KeyOK(h, k)'
    BY <1>k, <1>0, <1>2 DEF KeyOK, Traced
  <2>4. AtKey(h, k)'
    BY <1>k, <1>0, <1>1, <1>2, <2>1 DEF AtKey
  <2> QED BY <1>k, <1>0, <1>2, <2>2, <2>3, <2>4, FurtherKeeps DEF Handling
<1>3. ASSUME Frozen(h, k) # None, hold[h][k] = "absent", SetHolding(h, k, "staged"),
             bound' = [bound EXCEPT ![h][k] = Frozen(h, k)], Goto(h, "bound"), UNCHANGED mail
      PROVE  IInv'
  <2>1. /\ at' \in [Hosts -> Steps] /\ DOMAIN key' = Hosts /\ DOMAIN listed' = Hosts
        /\ at'[h] = "bound" /\ listed'[h] = listed[h]
    BY <1>3, Gotos DEF IInv, Steps
  <2>2. Frozen(h, k) \in Owners /\ Traced(Frozen(h, k), k)
    BY <1>3 DEF IInv, Published, Frozen, Traced
  <2>3. TypeInv' /\ hold'[h][k] = "staged" /\ bound'[h][k] = Frozen(h, k)
    BY <1>0, <1>3, <2>1, <2>2 DEF IInv, TypeInv, SetHolding, Holding
  <2>4. \A g \in Hosts, j \in Keys : g # h \/ j # k => SameKey(g, j)
    BY <1>0, <1>3 DEF SameKey, SetHolding, IInv, TypeInv
  <2>5. KeyOK(h, k)'
    BY <1>k, <1>0, <1>3, <2>2, <2>3 DEF KeyOK, Traced, Held
  <2>6. AtKey(h, k)'
    BY <1>k, <1>0, <1>1, <1>3, <2>1, <2>3 DEF AtKey
  <2> QED BY <1>k, <1>0, <1>3, <2>3, <2>4, <2>5, <2>6, FurtherKeeps DEF Handling
<1>4. CASE Quarantined(h, k)
  BY <1>k, <1>0, <1>4, QuarantinedKeeps
<1>5. CASE Skip(h) /\ UNCHANGED <<hold, bound, mail>>
  BY <1>0, <1>5, SkipKeeps DEF Stores
<1> QED BY <1>k, <1>2, <1>3, <1>4, <1>5 DEF Capture, Quarantine


(* A reject verdict is recorded before the bytes are.                       *)
LEMMA ScanKeeps ==
  ASSUME IInv, NEW h \in Hosts, Scan(h)
  PROVE  IInv'
<1> USE DEF cloud, store, rest, ledger
<1>k. PICK k \in Keys : k = key[h] /\ AtKey(h, k) /\ KeyOK(h, k) /\ HostOK(h) /\ copied[h] = 4 /\ provider[k] # "none"
  BY AtHand DEF Scan, Handling
<1>0. /\ UNCHANGED <<provider, revision, hold, bound, mail, revs, own, routes, copied, deleted, live>>
      /\ at[h] = "bound" /\ at[h] \in Handling
  BY DEF Scan, Handling
<1>1. hold[h][k] = "staged"
  BY <1>k, <1>0 DEF AtKey
<1>2. ASSUME Goto(h, "scanned"), UNCHANGED <<entry, rejected>>
      PROVE  IInv'
  <2>1. at' \in [Hosts -> Steps] /\ DOMAIN key' = Hosts /\ DOMAIN listed' = Hosts /\ at'[h] = "scanned"
    BY <1>2, Gotos DEF IInv, Steps
  <2>2. TypeInv' /\ \A g \in Hosts, j \in Keys : SameKey(g, j)
    BY <1>0, <1>2, <2>1 DEF IInv, TypeInv, SameKey
  <2>3. KeyOK(h, k)'
    BY <1>k, <1>0, <1>2 DEF KeyOK, Traced
  <2>4. AtKey(h, k)'
    BY <1>k, <1>0, <1>1, <1>2, <2>1 DEF AtKey
  <2> QED BY <1>k, <1>0, <1>2, <2>2, <2>3, <2>4, FurtherKeeps DEF Handling
<1>3. ASSUME SetEntry(h, k, "junk"), rejected' = rejected \cup {<<h, k>>}, Goto(h, "scanned")
      PROVE  IInv'
  <2>1. at' \in [Hosts -> Steps] /\ DOMAIN key' = Hosts /\ DOMAIN listed' = Hosts /\ at'[h] = "scanned"
    BY <1>3, Gotos DEF IInv, Steps
  <2>2. TypeInv' /\ entry'[h][k] = "junk"
    <3>1. entry' \in [Hosts -> [Keys -> Entries]] /\ entry'[h][k] = "junk"
      BY <1>3 DEF IInv, TypeInv, SetEntry, Entries
    <3>2. <<h, k>> \in Hosts \X Keys /\ rejected \subseteq Hosts \X Keys
      BY DEF IInv, TypeInv
    <3>3. rejected' \subseteq Hosts \X Keys
      BY <1>3, <3>2
    <3> QED BY <1>0, <2>1, <3>1, <3>3 DEF IInv, TypeInv
  <2>3. \A g \in Hosts, j \in Keys : g # h \/ j # k => SameKey(g, j)
    BY <1>0, <1>3 DEF SameKey, SetEntry, IInv, TypeInv
  <2>4. KeyOK(h, k)'
    BY <1>k, <1>0, <1>3, <2>2 DEF KeyOK, Traced
  <2>5. AtKey(h, k)'
    BY <1>0, <1>1, <2>1, <2>2 DEF AtKey
  <2>6. \A j \in Keys : <<h, j>> \in rejected' => <<h, j>> \in rejected \/ (j = k /\ at[h] = "bound")
    BY <1>0, <1>3
  <2> QED BY <1>k, <1>0, <1>3, <2>2, <2>3, <2>4, <2>5, <2>6, FurtherKeeps DEF Handling
<1>4. CASE Skip(h) /\ UNCHANGED <<entry, rejected>>
  BY <1>0, <1>4, SkipKeeps DEF Stores
<1> QED BY <1>k, <1>2, <1>3, <1>4 DEF Scan

LEMMA AcceptKeeps ==
  ASSUME IInv, NEW h \in Hosts, Accept(h)
  PROVE  IInv'
<1> USE DEF cloud, store, rest, ledger
<1>k. PICK k \in Keys : k = key[h] /\ AtKey(h, k) /\ KeyOK(h, k) /\ HostOK(h) /\ copied[h] = 4 /\ provider[k] # "none"
  BY AtHand DEF Accept, Handling
<1>0. /\ UNCHANGED <<provider, revision, entry, revs, own, routes, copied, rejected, deleted, live>>
      /\ at[h] = "scanned" /\ at[h] \in Handling
  BY DEF Accept, Handling
<1>1. hold[h][k] = "staged" /\ (<<h, k>> \in rejected /\ mail[h][k].folder = "none" => entry[h][k] = "junk")
  BY <1>k, <1>0 DEF AtKey
<1>2. ASSUME SetHolding(h, k, "pending"), Goto(h, "accepted"), UNCHANGED <<bound, mail>>
      PROVE  IInv'
  <2>1. at' \in [Hosts -> Steps] /\ DOMAIN key' = Hosts /\ DOMAIN listed' = Hosts /\ at'[h] = "accepted"
    BY <1>2, Gotos DEF IInv, Steps
  <2>2. TypeInv' /\ hold'[h][k] = "pending"
    BY <1>0, <1>2, <2>1 DEF IInv, TypeInv, SetHolding, Holding
  <2>3. \A g \in Hosts, j \in Keys : g # h \/ j # k => SameKey(g, j)
    BY <1>0, <1>2 DEF SameKey, SetHolding, IInv, TypeInv
  <2>4. KeyOK(h, k)'
    BY <1>k, <1>0, <1>1, <1>2, <2>2 DEF KeyOK, Traced, Held
  <2>5. AtKey(h, k)'
    BY <2>1, <2>2 DEF AtKey
  <2> QED BY <1>k, <1>0, <1>2, <2>2, <2>3, <2>4, <2>5, FurtherKeeps DEF Handling
<1>3. CASE Quarantined(h, k)
  BY <1>k, <1>0, <1>3, QuarantinedKeeps
<1>4. CASE Skip(h) /\ UNCHANGED <<hold, bound, mail>>
  BY <1>0, <1>4, SkipKeeps DEF Stores
<1> QED BY <1>k, <1>2, <1>3, <1>4 DEF Accept, Quarantine

(* A delivery that is stored goes to the owner it is bound to.              *)
LEMMA DeliverKeeps ==
  ASSUME IInv, NEW h \in Hosts, Deliver(h)
  PROVE  IInv'
<1> USE DEF cloud, store, rest, ledger
<1>k. PICK k \in Keys : k = key[h] /\ AtKey(h, k) /\ KeyOK(h, k) /\ HostOK(h) /\ copied[h] = 4 /\ provider[k] # "none"
  BY AtHand DEF Deliver, Handling
<1>0. /\ UNCHANGED <<provider, revision, entry, revs, own, routes, copied, rejected, deleted, live>>
      /\ at[h] = "accepted" /\ at[h] \in Handling
  BY DEF Deliver, Handling
<1>1. hold[h][k] = "pending"
  BY <1>k, <1>0 DEF AtKey
<1>2. ASSUME mail' = [mail EXCEPT ![h][k] = Imported(h, k)], Goto(h, "stored"), UNCHANGED <<hold, bound>>
      PROVE  IInv'
  <2>1. at' \in [Hosts -> Steps] /\ DOMAIN key' = Hosts /\ DOMAIN listed' = Hosts /\ at'[h] = "stored"
    BY <1>2, Gotos DEF IInv, Steps
  <2>2. /\ Imported(h, k) \in Copies /\ Imported(h, k).folder # "none"
        /\ Imported(h, k).owner = bound[h][k]
    BY DEF Imported, Copies, IInv, TypeInv
  <2>3. TypeInv' /\ mail'[h][k] = Imported(h, k)
    BY <1>0, <1>2, <2>1, <2>2 DEF IInv, TypeInv
  <2>4. \A g \in Hosts, j \in Keys : g # h \/ j # k => SameKey(g, j)
    BY <1>0, <1>2 DEF SameKey, IInv, TypeInv
  <2>5. KeyOK(h, k)'
    BY <1>k, <1>0, <1>1, <1>2, <2>2, <2>3 DEF KeyOK, Traced, Held
  <2>6. AtKey(h, k)'
    BY <1>1, <1>2, <2>1, <2>2, <2>3 DEF AtKey
  <2>7. mail'[h][k].folder # "none"
    BY <2>2, <2>3
  <2> QED BY <1>k, <1>0, <1>2, <2>3, <2>4, <2>5, <2>6, <2>7, FurtherKeeps DEF Handling
<1>3. CASE Quarantined(h, k)
  BY <1>k, <1>0, <1>3, QuarantinedKeeps
<1>4. CASE Skip(h) /\ UNCHANGED <<hold, bound, mail>>
  BY <1>0, <1>4, SkipKeeps DEF Stores
<1> QED BY <1>k, <1>2, <1>3, <1>4 DEF Deliver

LEMMA AcknowledgeKeeps ==
  ASSUME IInv, NEW h \in Hosts, Acknowledge(h)
  PROVE  IInv'
<1> USE DEF cloud, store, rest, ledger
<1>k. PICK k \in Keys : k = key[h] /\ AtKey(h, k) /\ KeyOK(h, k) /\ HostOK(h) /\ copied[h] = 4 /\ provider[k] # "none"
  BY AtHand DEF Acknowledge, Handling
<1>0. /\ UNCHANGED <<provider, revision, entry, revs, own, routes, copied, rejected, deleted, live, bound, mail>>
      /\ at[h] = "stored" /\ at[h] \in Handling /\ SetHolding(h, k, "imported") /\ Goto(h, "imported")
  BY <1>k DEF Acknowledge, Handling
<1>1. mail[h][k].folder # "none"
  BY <1>k, <1>0 DEF AtKey
<1>2. at' \in [Hosts -> Steps] /\ DOMAIN key' = Hosts /\ DOMAIN listed' = Hosts /\ at'[h] = "imported"
  BY <1>0, Gotos DEF IInv, Steps
<1>3. TypeInv' /\ hold'[h][k] = "imported"
  BY <1>0, <1>2 DEF IInv, TypeInv, SetHolding, Holding, Held
<1>4. \A g \in Hosts, j \in Keys : g # h \/ j # k => SameKey(g, j)
  BY <1>0 DEF SameKey, SetHolding, IInv, TypeInv
<1>5. KeyOK(h, k)'
  BY <1>k, <1>0, <1>1, <1>3 DEF KeyOK, Traced, Held
<1>6. AtKey(h, k)'
  BY <1>2, <1>3 DEF AtKey
<1> QED BY <1>k, <1>0, <1>3, <1>4, <1>5, <1>6, FurtherKeeps DEF Handling

(* What is held may replace a verdict on record.                            *)
LEMMA SetEntryDoneKeeps ==
  ASSUME IInv, NEW h \in Hosts, SetEntryDone(h)
  PROVE  IInv'
<1> USE DEF cloud, store, rest, ledger
<1>k. PICK k \in Keys : k = key[h] /\ AtKey(h, k) /\ KeyOK(h, k) /\ HostOK(h) /\ copied[h] = 4 /\ provider[k] # "none"
  BY AtHand DEF SetEntryDone, Handling
<1>0. /\ UNCHANGED <<provider, revision, hold, revs, own, routes, copied, rejected, deleted, live, bound, mail>>
      /\ at[h] \in {"imported", "quarantined"} /\ Skip(h)
  BY DEF SetEntryDone
<1>1. hold[h][k] \in Held
  BY <1>k, <1>0 DEF AtKey, Held
<1>2. /\ at' \in [Hosts -> Steps] /\ DOMAIN key' = Hosts /\ DOMAIN listed' = Hosts
      /\ \A g \in Hosts \ {h} : at'[g] = at[g] /\ key'[g] = key[g] /\ listed'[g] = listed[g]
      /\ at'[h] \in {"owed", "items"} /\ listed'[h] = listed[h]
      /\ at'[h] = "items" => listed[h] # None
  BY <1>0, Skips DEF IInv
<1>3. PICK e \in {"imported", "quarantined"} : entry' = [entry EXCEPT ![h][k] = e]
  BY <1>k, <1>0 DEF SetEntryDone, SetEntry
<1>4. TypeInv' /\ entry'[h][k] # "none"
  BY <1>0, <1>2, <1>3 DEF IInv, TypeInv, Entries
<1>5. \A g \in Hosts, j \in Keys : g # h \/ j # k => SameKey(g, j)
  BY <1>0, <1>3 DEF SameKey, IInv, TypeInv
<1>6. KeyOK(h, k)'
  BY <1>k, <1>0, <1>1 DEF KeyOK, Traced
<1>7. ListedOK(h) => ListedOK(h)'
  BY <1>0, <1>2, ListedKept
<1>8. HostOK(h)'
  BY <1>k, <1>0, <1>2, <1>7 DEF HostOK, Handling
<1> QED BY <1>0, <1>2, <1>4, <1>5, <1>6, <1>8, OneKey


-----------------------------------------------------------------------------
(* Deletes.                                                                 *)

(* An entry is dropped only when it says nothing any more.                  *)
LEMMA DropStaleKeeps ==
  ASSUME IInv, NEW h \in Hosts, NEW k \in Keys, DropStale(h, k)
  PROVE  IInv'
<1> USE DEF cloud, store, rest, daemon
<1>0. /\ UNCHANGED <<provider, revision, hold, revs, own, routes, copied, rejected, deleted, live, bound, mail>>
      /\ UNCHANGED <<at, key, listed>> /\ at[h] = "delete" /\ Stale(h, k) /\ entry' = [entry EXCEPT ![h][k] = "none"]
  BY DEF DropStale, SetEntry
<1>1. HostOK(h) /\ ListedOK(h) /\ KeyOK(h, k) /\ hold[h][k] \in Holding /\ entry[h][k] \in Entries
  BY <1>0 DEF IInv, HostOK, TypeInv
<1>2. TypeInv' /\ entry'[h][k] = "none"
  BY <1>0 DEF IInv, TypeInv, Entries
<1>3. \A g \in Hosts, j \in Keys : g # h \/ j # k => SameKey(g, j)
  BY <1>0 DEF SameKey, IInv, TypeInv
<1>4. <<h, k>> \in rejected /\ mail[h][k].folder = "none" =>
        hold[h][k] \in Held \/ (hold[h][k] \in {"absent", "staged"} /\ provider[k] = "gone")
  <2> SUFFICES ASSUME <<h, k>> \in rejected, mail[h][k].folder = "none", hold[h][k] \notin Held
               PROVE  hold[h][k] \in {"absent", "staged"} /\ provider[k] = "gone"
    OBVIOUS
  <2>1. CASE entry[h][k] = "junk"
    BY <1>0, <1>1, <2>1 DEF Stale, ListedOK, Holding
  <2>2. CASE entry[h][k] = "refused"
    BY <1>0, <1>1, <2>2 DEF Stale, ListedOK, KeyOK
  <2>3. CASE entry[h][k] \notin {"junk", "refused"}
    BY <1>1, <2>3 DEF KeyOK
  <2> QED BY <2>1, <2>2, <2>3
<1>5. KeyOK(h, k)'
  BY <1>0, <1>1, <1>2, <1>4 DEF KeyOK, Traced
<1>6. HostOK(h)'
  BY <1>0, <1>1, ListedKept DEF HostOK, Handling
<1> QED BY <1>0, <1>2, <1>3, <1>5, <1>6, OneKey

(* The copy of what is held is deleted.                                     *)
LEMMA DeleteCopyKeeps ==
  ASSUME IInv, NEW h \in Hosts, NEW k \in Keys, DeleteCopy(h, k)
  PROVE  IInv'
<1> USE DEF store, daemon
<1>0. /\ UNCHANGED <<revision, hold, revs, own, routes, copied, rejected, live, bound, mail>>
      /\ at[h] = "delete" /\ hold[h][k] \in Held /\ entry[h][k] \in {"imported", "quarantined"}
  BY DEF DeleteCopy, Committed
<1>1. HostOK(h) /\ ListedOK(h) /\ KeyOK(h, k) /\ copied[h] = 4
  BY <1>0 DEF IInv, HostOK
<1>2. CASE Goto(h, "refused") /\ UNCHANGED <<provider, deleted, entry>>
  BY <1>0, <1>2, GotoKeeps DEF Steps, Handling, Stores
<1>3. ASSUME provider' = [provider EXCEPT ![k] = "gone"],
             deleted' = IF provider[k] = "stored" THEN deleted \cup {<<h, k>>} ELSE deleted,
             entry' \in {entry, [entry EXCEPT ![h][k] = "none"]}, UNCHANGED <<at, key, listed>>
      PROVE  IInv'
  <2>1. entry' \in [Hosts -> [Keys -> Entries]]
    <3>1. entry \in [Hosts -> [Keys -> Entries]] /\ "none" \in Entries
      BY DEF IInv, TypeInv, Entries
    <3>2. [entry EXCEPT ![h][k] = "none"] \in [Hosts -> [Keys -> Entries]]
      BY <3>1
    <3> QED BY <1>3, <3>1, <3>2
  <2>2. <<h, k>> \in Hosts \X Keys /\ deleted \subseteq Hosts \X Keys
    BY DEF IInv, TypeInv
  <2>3. deleted' \subseteq Hosts \X Keys
    BY <1>3, <2>2
  <2>4. provider' \in [Keys -> {"none", "stored", "gone"}] /\ provider'[k] = "gone"
        /\ \A j \in Keys \ {k} : provider'[j] = provider[j]
    BY <1>3 DEF IInv, TypeInv
  <2>5. TypeInv'
    BY <1>0, <1>3, <2>1, <2>3, <2>4 DEF IInv, TypeInv
  <2>6. Published'
    BY <1>0, <2>4 DEF IInv, Published
  <2>7. Forward
    BY <1>0, <2>4 DEF Forward
  <2>8. \A g \in Hosts, j \in Keys : g # h \/ j # k => SameKey(g, j)
    BY <1>0, <1>3 DEF SameKey, IInv, TypeInv
  <2>9. \A g \in Hosts \ {h} : SameDaemon(g)
    BY <1>0, <1>3 DEF SameDaemon
  <2>10. KeyOK(h, k)'
    BY <1>0, <1>1, <2>4 DEF KeyOK, Traced
  <2>11. \A j \in Keys : KeyOK(h, j)'
    BY <2>7, <2>8, <2>10, KeyKept
  <2>12. ListedOK(h)'
    BY <1>0, <1>1, <1>3, <2>4 DEF ListedOK
  <2>13. HostOK(h)'
    BY <1>0, <1>1, <1>3, <2>12 DEF HostOK, Handling
  <2> QED BY <2>5, <2>6, <2>7, <2>8, <2>9, <2>11, <2>13, OneHost
<1> QED BY <1>2, <1>3 DEF DeleteCopy

-----------------------------------------------------------------------------
(* Tables, mail, administrators and the restored instance.                  *)

(* A new revision leaves every published table as it is.                    *)
LEMMA RecordKeeps ==
  ASSUME IInv, NEW h \in Hosts, Record(h)
  PROVE  IInv'
<1> USE DEF cloud, store
<1>0. /\ UNCHANGED <<provider, revision, hold, bound, mail, entry, live, own, copied, rejected, deleted>>
      /\ at[h] = "cycle" /\ Goto(h, "recorded")
  BY DEF Record
<1>1. PICK n \in Nat : n = Cardinality(DOMAIN routes)
  BY DEF IInv, Published
<1>2. /\ DOMAIN routes = 1 .. n
      /\ routes' = [m \in 1 .. n + 1 |-> IF m = n + 1 THEN own[h] ELSE routes[m]]
      /\ revs' = [revs EXCEPT ![h] = @ \cup {n + 1}]
  BY <1>1 DEF Record, IInv, Published
<1>3. DOMAIN routes' = 1 .. n + 1 /\ Cardinality(DOMAIN routes') = n + 1
  <2>1. DOMAIN routes' = 1 .. n + 1
    BY <1>2
  <2>2. Cardinality(1 .. n + 1) = n + 1
    BY FS_Interval
  <2> QED BY <2>1, <2>2
<1>4. \A m \in DOMAIN routes : m \in DOMAIN routes' /\ routes'[m] = routes[m]
  BY <1>2
<1>5. \A m \in DOMAIN routes' : routes'[m] \in Owners
  BY <1>2, <1>3 DEF IInv, Published, TypeInv
<1>6. \A g \in Hosts : revs'[g] \subseteq DOMAIN routes'
  <2>1. \A g \in Hosts : revs'[g] \subseteq revs[g] \cup {n + 1}
    BY <1>2 DEF IInv, TypeInv
  <2>2. \A g \in Hosts : revs[g] \subseteq DOMAIN routes'
    BY <1>4 DEF IInv, Published
  <2>3. n + 1 \in DOMAIN routes'
    BY <1>3
  <2> QED BY <2>1, <2>2, <2>3
<1>7. Published'
  <2>1. n + 1 \in Nat
    OBVIOUS
  <2>2. Cardinality(DOMAIN routes') \in Nat /\ DOMAIN routes' = 1 .. Cardinality(DOMAIN routes')
    BY <1>3, <2>1
  <2> QED BY <1>0, <1>5, <1>6, <2>2 DEF IInv, Published
<1>8. /\ at' \in [Hosts -> Steps] /\ DOMAIN key' = Hosts /\ DOMAIN listed' = Hosts
      /\ \A g \in Hosts \ {h} : at'[g] = at[g] /\ key'[g] = key[g] /\ listed'[g] = listed[g]
      /\ at'[h] = "recorded" /\ listed'[h] = listed[h]
  BY <1>0, Gotos DEF IInv, Steps
<1>9. TypeInv'
  BY <1>0, <1>2, <1>8 DEF IInv, TypeInv
<1>10. Forward
  BY <1>0, <1>4 DEF Forward
<1>11. \A g \in Hosts, k \in Keys : SameKey(g, k)
  BY <1>0 DEF SameKey
<1>12. \A g \in Hosts \ {h} : SameDaemon(g)
  BY <1>0, <1>8 DEF SameDaemon
<1>13. HostOK(h)'
  <2>1. HostOK(h)
    BY DEF IInv
  <2>2. ListedOK(h) => ListedOK(h)'
    BY <1>0, <1>8, ListedKept
  <2> QED BY <1>0, <1>8, <2>1, <2>2 DEF HostOK, Handling
<1> QED BY <1>7, <1>9, <1>10, <1>11, <1>12, <1>13, KeyKept, OneHost

(* A step outside the hosts, and one that gives the address to another.     *)
LEMMA OutsideKeeps ==
  ASSUME IInv, (\E k \in Keys : Email(k) \/ DeleteAtProvider(k)) \/ (\E h \in Hosts : Reassign(h))
  PROVE  IInv'
<1> USE DEF store, ledger, daemon, cloud, rest
<1>0. /\ UNCHANGED <<at, key, listed, hold, bound, mail, entry, revs, live, routes, copied, rejected, deleted>>
      /\ own' \in [Hosts -> Owners]
  BY ZenonT(40) DEF Email, DeleteAtProvider, Reassign, IInv, TypeInv, Owners
<1>1. /\ provider' \in [Keys -> {"none", "stored", "gone"}] /\ DOMAIN revision' = Keys
      /\ \A j \in Keys : provider[j] # "none" => provider'[j] # "none" /\ revision'[j] = revision[j]
      /\ \A j \in Keys : provider[j] = "gone" => provider'[j] = "gone"
      /\ \A j \in Keys : provider'[j] = "none" => provider[j] = "none" /\ revision'[j] = revision[j]
  <2>1. CASE \E k \in Keys : Email(k)
    BY <2>1 DEF Email, IInv, TypeInv
  <2>2. CASE \E k \in Keys : DeleteAtProvider(k)
    BY <2>2 DEF DeleteAtProvider, IInv, TypeInv
  <2>3. CASE \E h \in Hosts : Reassign(h)
    BY <2>3 DEF Reassign, IInv, TypeInv
  <2> QED BY <2>1, <2>2, <2>3
<1>2. TypeInv' /\ Published' /\ Forward
  BY <1>0, <1>1 DEF IInv, TypeInv, Published, Forward
<1>3. \A g \in Hosts : SameDaemon(g) /\ \A j \in Keys : SameKey(g, j)
  BY <1>0 DEF SameDaemon, SameKey
<1> QED BY <1>2, <1>3, KeyKept, HostKept DEF IInv

LEMMA TakeoverKeeps ==
  ASSUME IInv, NEW h \in Hosts, Takeover(h)
  PROVE  IInv'
<1> USE DEF store, ledger, daemon
<1>0. /\ UNCHANGED <<provider, revision, at, key, listed, hold, bound, mail, entry, revs, own, routes, copied>>
      /\ UNCHANGED <<rejected, deleted>> /\ live' = live \cup {h} /\ copied[h] = 4
  BY PartsCount DEF Takeover
<1>1. TypeInv' /\ Published' /\ Forward
  BY <1>0 DEF IInv, TypeInv, Published, Forward
<1>2. \A g \in Hosts, k \in Keys : SameKey(g, k)
  BY <1>0 DEF SameKey
<1>3. \A g \in Hosts \ {h} : SameDaemon(g)
  BY <1>0 DEF SameDaemon
<1>4. HostOK(h)'
  <2>1. HostOK(h)
    BY DEF IInv
  <2>2. (ListedOK(h) => ListedOK(h)') /\ (at[h] \in Handling => AtKey(h, key[h])')
    BY <1>0, <2>1 DEF ListedOK, AtKey, HostOK
  <2> QED BY <1>0, <2>1, <2>2 DEF HostOK
<1> QED BY <1>1, <1>2, <1>3, <1>4, KeyKept, OneHost

(* The backup's parts: the holding store is copied before the mailboxes, so *)
(* what it has as imported is in the mailbox copied after it.               *)
LEMMA CopyKeeps ==
  ASSUME IInv, NEW h \in Hosts, Copy(h)
  PROVE  IInv'
<1> USE DEF store, ledger, daemon, cloud
<1>0. /\ UNCHANGED <<provider, revision, at, key, listed, routes, live, deleted>>
      /\ copied' = [copied EXCEPT ![h] = @ + 1] /\ copied[h] \in 0 .. 3
  BY PartsCount DEF Copy, IInv, TypeInv
<1>1. h # Origin /\ Origin \in Hosts /\ copied[Origin] = 4 /\ copied'[h] = copied[h] + 1
      /\ \A g \in Hosts \ {h} : copied'[g] = copied[g]
  BY <1>0, CFPickupAssumption DEF IInv, Published, TypeInv
<1>2. at[h] = "idle" /\ listed[h] = None /\ h \notin live
  BY <1>0 DEF IInv, HostOK
<1>3. \A k \in Keys : KeyOK(h, k) /\ KeyOK(Origin, k) /\ <<h, k>> \notin deleted /\ <<h, k>> \notin rejected
  BY <1>0, <1>1 DEF IInv, KeyOK
<1>4. HostOK(h)'
  BY <1>0, <1>2 DEF HostOK, Handling
<1>5. \A g \in Hosts \ {h} : SameDaemon(g)
  BY <1>0, <1>1 DEF SameDaemon
<1>6. copied' \in [Hosts -> 0 .. 4]
  BY <1>0 DEF IInv, TypeInv
<1>7. ASSUME copied[h] = 0 PROVE IInv'
  <2>1. /\ hold' = [hold EXCEPT ![h] = hold[Origin]] /\ bound' = [bound EXCEPT ![h] = bound[Origin]]
        /\ UNCHANGED <<mail, own, entry, revs, rejected>>
    <3>1. copied'[h] = 1
      BY <1>1, <1>7
    <3>2. Parts[copied'[h]] = "holding"
      BY <3>1, PartsCount
    <3> QED BY <3>2 DEF Copy
  <2>2. TypeInv' /\ Published' /\ Forward
    BY <1>0, <1>1, <1>6, <2>1 DEF IInv, TypeInv, Published, Forward
  <2>3. \A g \in Hosts \ {h}, k \in Keys : SameKey(g, k)
    BY <1>0, <1>1, <2>1 DEF SameKey, IInv, TypeInv
  <2>4. ASSUME NEW k \in Keys PROVE KeyOK(h, k)'
    <3>1. hold'[h][k] = hold[Origin][k] /\ bound'[h][k] = bound[Origin][k] /\ copied'[h] = 1
      BY <1>1, <1>7, <2>1 DEF IInv, TypeInv
    <3>2. KeyOK(h, k) /\ KeyOK(Origin, k) /\ <<h, k>> \notin deleted' /\ <<h, k>> \notin rejected'
      BY <1>0, <1>3, <2>1
    <3> QED BY <1>0, <1>1, <2>1, <3>1, <3>2 DEF KeyOK, Traced
  <2> QED BY <1>4, <1>5, <2>2, <2>3, <2>4, OneHost
<1>8. ASSUME copied[h] = 1 PROVE IInv'
  <2>1. own' = [own EXCEPT ![h] = own[Origin]] /\ UNCHANGED <<hold, bound, mail, entry, revs, rejected>>
    <3>1. copied'[h] = 2
      BY <1>1, <1>8
    <3>2. Parts[copied'[h]] = "addresses"
      BY <3>1, PartsCount
    <3> QED BY <3>2 DEF Copy
  <2>2. TypeInv' /\ Published' /\ Forward
    BY <1>0, <1>1, <1>6, <2>1 DEF IInv, TypeInv, Published, Forward
  <2>3. \A g \in Hosts \ {h}, k \in Keys : SameKey(g, k)
    BY <1>0, <1>1, <2>1 DEF SameKey
  <2>4. ASSUME NEW k \in Keys PROVE KeyOK(h, k)'
    <3>1. KeyOK(h, k) /\ <<h, k>> \notin deleted' /\ <<h, k>> \notin rejected' /\ copied'[h] = 2
      BY <1>0, <1>1, <1>3, <1>8, <2>1
    <3> QED BY <1>0, <1>8, <2>1, <3>1 DEF KeyOK, Traced
  <2> QED BY <1>4, <1>5, <2>2, <2>3, <2>4, OneHost
<1>9. ASSUME copied[h] = 2 PROVE IInv'
  <2>1. /\ entry' = [entry EXCEPT ![h] = entry[Origin]] /\ revs' = [revs EXCEPT ![h] = revs[Origin]]
        /\ UNCHANGED <<hold, bound, mail, own, rejected>>
    <3>1. copied'[h] = 3
      BY <1>1, <1>9
    <3>2. Parts[copied'[h]] = "ledger"
      BY <3>1, PartsCount
    <3> QED BY <3>2 DEF Copy
  <2>2. TypeInv' /\ Published' /\ Forward
    <3>2. revs'[h] = revs[Origin] /\ (\A g \in Hosts \ {h} : revs'[g] = revs[g]) /\ DOMAIN revs' = Hosts
          /\ entry' \in [Hosts -> [Keys -> Entries]]
      BY <1>1, <2>1 DEF IInv, TypeInv
    <3>3. \A g \in Hosts : revs'[g] \subseteq DOMAIN routes'
      BY <1>0, <1>1, <3>2 DEF IInv, Published
    <3> QED BY <1>0, <1>1, <1>6, <2>1, <3>2, <3>3 DEF IInv, TypeInv, Published, Forward
  <2>3. \A g \in Hosts \ {h}, k \in Keys : SameKey(g, k)
    BY <1>0, <1>1, <2>1 DEF SameKey, IInv, TypeInv
  <2>4. ASSUME NEW k \in Keys PROVE KeyOK(h, k)'
    <3>1. entry'[h][k] = entry[Origin][k] /\ copied'[h] = 3
      BY <1>1, <1>9, <2>1 DEF IInv, TypeInv
    <3>2. KeyOK(h, k) /\ KeyOK(Origin, k) /\ <<h, k>> \notin deleted' /\ <<h, k>> \notin rejected'
      BY <1>0, <1>3, <2>1
    <3> QED BY <1>0, <1>9, <2>1, <3>1, <3>2 DEF KeyOK, Traced
  <2> QED BY <1>4, <1>5, <2>2, <2>3, <2>4, OneHost
<1>10. ASSUME copied[h] = 3 PROVE IInv'
  <2>1. /\ mail' = [mail EXCEPT ![h] = mail[Origin]]
        /\ rejected' = rejected \cup {h} \X {k \in Keys : entry[h][k] = "junk" /\ hold[h][k] \notin Held}
        /\ UNCHANGED <<hold, bound, entry, revs, own>>
    <3>1. copied'[h] = 4
      BY <1>1, <1>10
    <3>2. Parts[copied'[h]] = "mailboxes"
      BY <3>1, PartsCount
    <3> QED BY <3>2 DEF Copy
  <2>2. TypeInv' /\ Published' /\ Forward
    <3>1. rejected' \subseteq Hosts \X Keys
      BY <2>1 DEF IInv, TypeInv
    <3> QED BY <1>0, <1>1, <1>6, <2>1, <3>1 DEF IInv, TypeInv, Published, Forward
  <2>3. \A g \in Hosts \ {h}, k \in Keys : SameKey(g, k)
    BY <1>0, <1>1, <2>1 DEF SameKey, IInv, TypeInv
  <2>4. ASSUME NEW k \in Keys PROVE KeyOK(h, k)'
    <3>1. mail'[h][k] = mail[Origin][k] /\ copied'[h] = 4
      BY <1>1, <1>10, <2>1 DEF IInv, TypeInv
    <3>2. KeyOK(h, k) /\ KeyOK(Origin, k) /\ <<h, k>> \notin deleted'
      BY <1>0, <1>3
    <3>3. <<h, k>> \in rejected' => entry'[h][k] = "junk"
      BY <1>3, <2>1
    <3> QED BY <1>0, <1>1, <1>10, <2>1, <3>1, <3>2, <3>3 DEF KeyOK, Traced
  <2> QED BY <1>4, <1>5, <2>2, <2>3, <2>4, OneHost
<1> QED BY <1>0, <1>7, <1>8, <1>9, <1>10


-----------------------------------------------------------------------------
LEMMA StepKeeps == IInv /\ [Next]_vars => IInv'
<1> SUFFICES ASSUME IInv, [Next]_vars PROVE IInv'
  OBVIOUS
<1>1. CASE UNCHANGED vars
  <2>1. UNCHANGED <<provider, revision, at, key, listed, hold, bound, mail, entry, revs, own, routes, copied,
                    live, rejected, deleted>>
    BY <1>1 DEF vars, cloud, daemon, store, ledger, rest
  <2>2. TypeInv' /\ Published' /\ Forward
    BY <2>1 DEF IInv, TypeInv, Published, Forward
  <2>3. \A g \in Hosts : SameDaemon(g) /\ \A k \in Keys : SameKey(g, k)
    BY <2>1 DEF SameDaemon, SameKey
  <2> QED BY <2>2, <2>3, KeyKept, HostKept DEF IInv
<1>2. ASSUME NEW h \in Hosts, CycleStep(h) \/ PickupStep(h) \/ DeleteStep(h) PROVE IInv'
  BY <1>2, CycleKeeps, RecordKeeps, ListKeeps, CaptureKeeps, ScanKeeps, AcceptKeeps, DeliverKeeps,
     AcknowledgeKeeps, SetEntryDoneKeeps DEF CycleStep, PickupStep, DeleteStep
<1>3. ASSUME NEW h \in Hosts, NEW k \in Keys, KeyStep(h, k) PROVE IInv'
  BY <1>3, ImportOwedKeeps, ItemKeeps, DropStaleKeeps, DeleteCopyKeeps DEF KeyStep
<1>4. CASE (\E k \in Keys : Email(k) \/ DeleteAtProvider(k)) \/ (\E h \in Hosts : Reassign(h))
  BY <1>4, OutsideKeeps
<1>5. ASSUME NEW h \in Hosts, Crash(h) \/ Copy(h) \/ Takeover(h) PROVE IInv'
  BY <1>5, CycleKeeps, CopyKeeps, TakeoverKeeps
<1> QED BY <1>1, <1>2, <1>3, <1>4, <1>5 DEF Next

LEMMA Always == Spec => []IInv
BY Initially, StepKeeps, PTL DEF Spec

(* A provider copy is deleted only by a host whose own holding store has    *)
(* the message or its disposition, although the ledger that owes the delete *)
(* may be of another instant than the store (deleteCommitted).              *)
THEOREM DeletesAreCovered == Spec => []DeletedIsHeld
<1>1. IInv => DeletedIsHeld
  <2> SUFFICES ASSUME IInv, NEW d \in deleted PROVE hold[d[1]][d[2]] \in Held
    BY DEF DeletedIsHeld
  <2>1. PICK h \in Hosts, k \in Keys : d = <<h, k>>
    BY DEF IInv, TypeInv
  <2>2. hold[h][k] \in Held
    BY <2>1 DEF IInv, KeyOK
  <2> QED BY <2>1, <2>2
<1> QED BY <1>1, Always, PTL

(* What a running instance's holding store has as imported is in its own    *)
(* mailbox, also after it was made from the backup of a running one         *)
(* (collect copies receiving before the mailboxes).                         *)
THEOREM ImportsAreStored == Spec => []ImportedIsStored
<1>1. ASSUME IInv, NEW h \in Hosts, NEW k \in Keys, Up(h), hold[h][k] = "imported"
      PROVE  mail[h][k].folder # "none"
  <2>1. KeyOK(h, k) /\ copied[h] = 4
    BY <1>1, PartsCount DEF IInv
  <2>2. ~(copied[h] < 4)
    BY <2>1
  <2> QED BY <1>1, <2>1, <2>2 DEF KeyOK
<1>2. IInv => ImportedIsStored
  BY <1>1 DEF ImportedIsStored
<1> QED BY <1>2, Always, PTL

(* Stored mail belongs to the owner that the table named by its copy gives  *)
(* the address, wherever and however late it is picked up (frozen).         *)
THEOREM OwnersAreFrozen == Spec => []FrozenOwner
<1>1. IInv => FrozenOwner
  BY DEF IInv, KeyOK, Traced, FrozenOwner
<1> QED BY <1>1, Always, PTL

(* No step files a message with a reject verdict on record to INBOX: the    *)
(* verdict outlives every stop, retry, listing and takeover until the       *)
(* message is filed or held (capture, deliver, deleteCommitted).            *)
THEOREM RejectedStaysOut == Spec => RejectedIsJunk
<1> DEFINE Kept == \A r \in rejected : mail'[r[1]][r[2]].folder = "INBOX" => mail[r[1]][r[2]].folder = "INBOX"
<1>1. IInv /\ [Next]_vars => [Kept]_vars
  <2> SUFFICES ASSUME IInv, Next, NEW h \in Hosts, NEW k \in Keys, <<h, k>> \in rejected,
                      mail'[h][k].folder = "INBOX"
               PROVE  mail[h][k].folder = "INBOX"
    BY DEF IInv, TypeInv
  <2> USE DEF cloud, daemon, store, ledger, rest
  <2>1. CASE UNCHANGED mail
    BY <2>1
  <2>2. ASSUME NEW g \in Hosts, Deliver(g), ~UNCHANGED mail PROVE mail[h][k].folder = "INBOX"
    <3>1. at[g] = "accepted" /\ at[g] \in Handling /\ mail' = [mail EXCEPT ![g][key[g]] = Imported(g, key[g])]
      BY <2>2 DEF Deliver, Quarantined, Handling
    <3>2. key[g] \in Keys /\ AtKey(g, key[g])
      BY <3>1, AtHand
    <3>3. CASE g = h /\ key[g] = k
      <4>1. hold[h][k] = "pending" /\ mail'[h][k] = Imported(h, k) /\ NoConflict(h, k)
        BY <2>2, <3>1, <3>2, <3>3 DEF AtKey, IInv, TypeInv, Deliver, Quarantined
      <4>2. mail[h][k].folder = "none" => entry[h][k] = "junk"
        BY <4>1 DEF IInv, KeyOK, Held
      <4> QED BY <4>1, <4>2 DEF Imported, NoConflict
    <3>4. CASE g # h \/ key[g] # k
      BY <3>1, <3>2, <3>4 DEF IInv, TypeInv
    <3> QED BY <3>3, <3>4
  <2>3. ASSUME NEW g \in Hosts, Copy(g), ~UNCHANGED mail PROVE mail[h][k].folder = "INBOX"
    <3>1. copied[g] # 4 /\ mail' = [mail EXCEPT ![g] = mail[Origin]]
      <4>1. copied[g] \in 0 .. 3 /\ copied'[g] = copied[g] + 1
        BY <2>3, PartsCount DEF Copy, IInv, TypeInv
      <4>2. copied'[g] = 1 \/ copied'[g] = 2 \/ copied'[g] = 3 \/ copied'[g] = 4
        BY <4>1
      <4>3. Parts[copied'[g]] \in {"holding", "addresses", "ledger", "mailboxes"}
        BY <4>2, PartsCount
      <4>4. mail' = [mail EXCEPT ![g] = mail[Origin]]
        BY <2>3, <4>3 DEF Copy
      <4> QED BY <4>1, <4>4
    <3>2. g # h
      BY <3>1 DEF IInv, KeyOK
    <3> QED BY <3>1, <3>2 DEF IInv, TypeInv
  <2>4. UNCHANGED mail \/ \E g \in Hosts : Deliver(g) \/ Copy(g)
    <3>1. ASSUME NEW g \in Hosts, CycleStep(g) \/ DeleteStep(g) PROVE UNCHANGED mail
      BY <3>1 DEF CycleStep, DeleteStep, Begin, Refused, Record, PutRoutes, List, StartDelete, End
    <3>2. ASSUME NEW g \in Hosts, PickupStep(g) PROVE UNCHANGED mail \/ Deliver(g)
      BY <3>2 DEF PickupStep, Capture, Quarantine, Quarantined, Scan, Accept, Acknowledge, SetEntryDone
    <3>3. ASSUME NEW g \in Hosts, NEW j \in Keys, KeyStep(g, j) PROVE UNCHANGED mail
      BY <3>3 DEF KeyStep, ImportOwed, Item, DropStale, DeleteCopy
    <3>4. ASSUME NEW j \in Keys, Email(j) \/ DeleteAtProvider(j) PROVE UNCHANGED mail
      BY <3>4 DEF Email, DeleteAtProvider
    <3>5. ASSUME NEW g \in Hosts, Reassign(g) \/ Crash(g) \/ Takeover(g) PROVE UNCHANGED mail
      BY <3>5 DEF Reassign, Crash, Takeover
    <3> QED BY <3>1, <3>2, <3>3, <3>4, <3>5 DEF Next
  <2> QED BY <2>1, <2>2, <2>3, <2>4
<1> QED BY <1>1, Always, PTL DEF Spec, RejectedIsJunk
=============================================================================
