-------------------------------- MODULE CFKeys ------------------------------
(***************************************************************************)
(* Who holds continuous Cloudflare receiving: the credentials of the       *)
(* instances (cfreceiving/state.go, Keys), their rotation and takeover     *)
(* (cfRotate in app/receiving_cfcontinuous.go), and the Worker's record of *)
(* the current ones (receiving-worker/continuous.mjs).                     *)
(*                                                                         *)
(* A host's daemon reads its credentials once per cycle and is refused     *)
(* when the Worker has others; an operator command rotates them under the  *)
(* credential lock.  Other hosts start from a backup, which lacks the host *)
(* file.  A rotation or its answer may be lost, or it may land late.       *)
(***************************************************************************)
EXTENDS Integers

CONSTANTS
  Hosts,         \* the instances
  Origin,        \* the one that holds receiving at first
  None,          \* made by nobody
  MaxMaterials,  \* bound on generated credentials, the first included
  MaxCrashes     \* bound on stops of a host's processes

ASSUME CFKeysAssumption ==
  /\ Origin \in Hosts /\ None \notin Hosts
  /\ MaxMaterials \in Nat \ {0} /\ MaxCrashes \in Nat

(* Credentials: bearer and signing key, their epoch, the host that made     *)
(* them; id 0 is none.                                                      *)
NoMaterial == [id |-> 0, epoch |-> 0, by |-> None]

VARIABLES
  worker, inflight,       \* the Worker's credentials; rotations that may still land
  cur, pending, marker,   \* SECRET_DIR: credentials; host file's pending and live
  step, answer,           \* the holder of the credential lock: its step, the Worker's answer
  at, used,               \* the daemon: step, and the bearer of its cycle
  made, backup, up, crashes

cloud == <<worker, inflight>>
keys  == <<cur, pending, marker>>
lock  == <<step, answer>>
rest  == <<made, backup, up, crashes>>
vars  == <<cloud, keys, lock, at, used, rest>>

-----------------------------------------------------------------------------
(* cfreceiving/state.go: Keys.                                              *)

Interrupted(h) == pending[h].id # 0 /\ pending[h].id = cur[h].id

(* Load: pending equal to current is an interrupted promotion.              *)
LoadPending(h) == IF Interrupted(h) THEN NoMaterial ELSE pending[h]
Live(h) == up[h] /\ (Interrupted(h) \/ marker[h] = cur[h].id)

SavePending(h, m) == pending' = [pending EXCEPT ![h] = m] /\ UNCHANGED <<cur, marker>>

Fence(h) ==
  /\ pending' = [pending EXCEPT ![h] = NoMaterial]
  /\ marker'  = [marker EXCEPT ![h] = 0]
  /\ UNCHANGED cur

(* Promote writes the credentials and then the host file.                   *)
Promote(h) ==
  /\ step[h] = "promoting"
  /\ cur'  = [cur EXCEPT ![h] = pending[h]]
  /\ step' = [step EXCEPT ![h] = "promoted"]
  /\ UNCHANGED <<cloud, pending, marker, answer, at, used, rest>>

PromoteHost(h) ==
  /\ step[h] = "promoted"
  /\ pending' = [pending EXCEPT ![h] = NoMaterial]
  /\ marker'  = [marker EXCEPT ![h] = cur[h].id]
  /\ step'    = [step EXCEPT ![h] = "free"]
  /\ UNCHANGED <<cloud, cur, answer, at, used, rest>>

-----------------------------------------------------------------------------
(* cfRotate: `rotate` by a live instance, `takeover` by any.                *)

(* Material is saved before it is sent, and a retry sends the same.         *)
StartRotate(h) ==
  /\ up[h] /\ step[h] = "free"
  /\ IF LoadPending(h).id # 0 /\ LoadPending(h).epoch = cur[h].epoch + 1
     THEN UNCHANGED <<keys, made>>
     ELSE /\ made < MaxMaterials /\ made' = made + 1
          /\ SavePending(h, [id |-> made + 1, epoch |-> cur[h].epoch + 1, by |-> h])
  /\ step' = [step EXCEPT ![h] = "rotating"]
  /\ UNCHANGED <<cloud, answer, at, used, backup, up, crashes>>

(* The Worker's rotate: the bearer is current and the epoch the next one.   *)
Installs(r) == r.bearer = worker.id /\ r.next.epoch = worker.epoch + 1

(* POST /rotate: answered, or not answered and lost, landed or still to     *)
(* land.                                                                    *)
SendRotate(h) ==
  LET r == [bearer |-> cur[h].id, next |-> pending[h]] IN
  /\ step[h] = "rotating"
  /\ \/ /\ worker' = IF Installs(r) THEN r.next ELSE worker
        /\ answer' = [answer EXCEPT ![h] = IF Installs(r) THEN "installed" ELSE "refused"]
        /\ UNCHANGED inflight
     \/ /\ answer' = [answer EXCEPT ![h] = "lost"]
        /\ inflight' \in {inflight, inflight \cup {r}}
        /\ UNCHANGED worker
  /\ step' = [step EXCEPT ![h] = "answered"]
  /\ UNCHANGED <<keys, at, used, rest>>

RotationLands ==
  /\ \E r \in inflight :
       /\ inflight' = inflight \ {r}
       /\ worker'   = IF Installs(r) THEN r.next ELSE worker
  /\ UNCHANGED <<keys, lock, at, used, rest>>

MutantConfirmRotate(h) ==
  /\ step[h] = "answered"
  /\ \/ /\ answer[h] = "installed" \/ pending[h].id = worker.id
        /\ step' = [step EXCEPT ![h] = "promoting"]
        /\ UNCHANGED keys
     \/ /\ answer[h] # "installed" /\ pending[h].id # worker.id
        /\ Fence(h)
        /\ step' = [step EXCEPT ![h] = "free"]
  /\ answer' = [answer EXCEPT ![h] = "none"]
  /\ UNCHANGED <<cloud, at, used, rest>>

(* Without a success, only the pending bearer tells a lost answer from      *)
(* another instance's rotation; an unreachable Worker leaves it open.       *)
ConfirmRotate(h) ==
  /\ step[h] = "answered"
  /\ \/ /\ answer[h] = "installed" \/ pending[h].id = worker.id
        /\ step' = [step EXCEPT ![h] = "promoting"]
        /\ UNCHANGED keys
     \/ /\ answer[h] = "refused" /\ pending[h].id # worker.id
        /\ Fence(h)
        /\ step' = [step EXCEPT ![h] = "free"]
     \/ /\ answer[h] # "installed"
        /\ step' = [step EXCEPT ![h] = "free"]
        /\ UNCHANGED keys
  /\ answer' = [answer EXCEPT ![h] = "none"]
  /\ UNCHANGED <<cloud, at, used, rest>>

-----------------------------------------------------------------------------
(* The daemon's cycle.                                                      *)

Begin(h) ==
  /\ at[h] = "idle" /\ Live(h)
  /\ at'   = [at EXCEPT ![h] = "cycle"]
  /\ used' = [used EXCEPT ![h] = cur[h].id]
  /\ UNCHANGED <<cloud, keys, lock, rest>>

MutantRefused(h) ==
  /\ at[h] = "refused" /\ step[h] = "free"
  /\ IF ~Live(h) \/ cur[h].id # used[h] THEN UNCHANGED <<keys, step>>
     ELSE Fence(h) /\ UNCHANGED step
  /\ at' = [at EXCEPT ![h] = "idle"]
  /\ UNCHANGED <<cloud, answer, used, rest>>

(* refused: a 401, rechecked under the credential lock.                     *)
Refused(h) ==
  LET p == LoadPending(h) IN
  /\ at[h] = "refused" /\ step[h] = "free"
  /\ \/ /\ ~Live(h) \/ cur[h].id # used[h]
        /\ UNCHANGED <<keys, step>>
     \/ /\ Live(h) /\ cur[h].id = used[h]
        /\ \/ p.id # 0 /\ UNCHANGED <<keys, step>>   \* unreachable
           \/ /\ p.id # 0 /\ p.id = worker.id
              /\ step' = [step EXCEPT ![h] = "promoting"]
              /\ UNCHANGED keys
           \/ p.id # worker.id /\ Fence(h) /\ UNCHANGED step
  /\ at' = [at EXCEPT ![h] = "idle"]
  /\ UNCHANGED <<cloud, answer, used, rest>>

(* Any request of the cycle (publish, list, fetch, delete): served, lost,   *)
(* or refused because the Worker has other credentials.                     *)
Request(h) ==
  /\ at[h] = "cycle"
  /\ at' = [at EXCEPT ![h] = IF used[h] = worker.id THEN "idle" ELSE "refused"]
  /\ UNCHANGED <<cloud, keys, lock, used, rest>>

-----------------------------------------------------------------------------
(* Stops, and restored instances.                                           *)

Crash(h) ==
  /\ crashes < MaxCrashes /\ crashes' = crashes + 1
  /\ at'     = [at EXCEPT ![h] = "idle"]
  /\ step'   = [step EXCEPT ![h] = "free"]
  /\ answer' = [answer EXCEPT ![h] = "none"]
  /\ UNCHANGED <<cloud, keys, used, made, backup, up>>

(* A sealed backup of a host that runs; it never has the host file.         *)
Backup(h) ==
  /\ up[h] /\ backup' = cur[h]
  /\ UNCHANGED <<cloud, keys, lock, at, used, made, up, crashes>>

MutantRestoredMarker(m) == m.id

(* The restored copy has no host file.                                      *)
RestoredMarker(m) == 0

Restore(h) ==
  /\ ~up[h] /\ backup.id # 0
  /\ up'     = [up EXCEPT ![h] = TRUE]
  /\ cur'    = [cur EXCEPT ![h] = backup]
  /\ marker' = [marker EXCEPT ![h] = RestoredMarker(backup)]
  /\ UNCHANGED <<cloud, pending, lock, at, used, made, backup, crashes>>

-----------------------------------------------------------------------------
(* Origin has run Init and its secrets are deployed.                        *)
Init ==
  LET m == [id |-> 1, epoch |-> 1, by |-> Origin] IN
  /\ worker = m /\ inflight = {}
  /\ cur     = [h \in Hosts |-> IF h = Origin THEN m ELSE NoMaterial]
  /\ pending = [h \in Hosts |-> NoMaterial]
  /\ marker  = [h \in Hosts |-> IF h = Origin THEN 1 ELSE 0]
  /\ step = [h \in Hosts |-> "free"] /\ answer = [h \in Hosts |-> "none"]
  /\ at = [h \in Hosts |-> "idle"] /\ used = [h \in Hosts |-> 0]
  /\ made = 1 /\ backup = NoMaterial
  /\ up = [h \in Hosts |-> h = Origin] /\ crashes = 0

OperatorStep(h) == StartRotate(h) \/ SendRotate(h) \/ ConfirmRotate(h) \/ Promote(h) \/ PromoteHost(h)
DaemonStep(h)   == Begin(h) \/ Request(h) \/ Refused(h)

Next ==
  \/ \E h \in Hosts : OperatorStep(h) \/ DaemonStep(h) \/ Crash(h) \/ Backup(h) \/ Restore(h)
  \/ RotationLands

Spec == Init /\ [][Next]_vars

-----------------------------------------------------------------------------
(* Properties.                                                              *)

Material == [id : 0 .. MaxMaterials, epoch : 0 .. MaxMaterials, by : Hosts \cup {None}]

(* The Worker and the hosts have their types, and the Worker's answer is    *)
(* kept only until the rotation is settled.                                 *)
TypeOK ==
  /\ \A h \in Hosts : answer[h] # "none" <=> step[h] = "answered"
  /\ worker \in Material
  /\ inflight \subseteq [bearer : 1 .. MaxMaterials, next : Material]
  /\ cur \in [Hosts -> Material] /\ pending \in [Hosts -> Material] /\ marker \in [Hosts -> 0 .. MaxMaterials]
  /\ step \in [Hosts -> {"free", "rotating", "answered", "promoting", "promoted"}]
  /\ answer \in [Hosts -> {"none", "installed", "refused", "lost"}]
  /\ at \in [Hosts -> {"idle", "cycle", "refused"}] /\ used \in [Hosts -> 0 .. MaxMaterials]
  /\ made \in 1 .. MaxMaterials /\ backup \in Material
  /\ up \in [Hosts -> BOOLEAN] /\ crashes \in 0 .. MaxCrashes

(* One instance receives: no two are live on the same credentials, however  *)
(* restores and interrupted promotions leave the host files (Load).         *)
OneHolder ==
  \A g, h \in Hosts : g # h /\ Live(g) /\ Live(h) => cur[g].id # cur[h].id

(* The Worker's credentials are always in somebody's hands, so receiving is *)
(* never stranded by a lost answer, a late rotation or a stop (SavePending, *)
(* Fence, cfRotate).                                                        *)
HolderKnown == \E h \in Hosts : worker.id \in {cur[h].id, pending[h].id}

(* An instance clears its marker only when another one's credentials are    *)
(* installed: a rotation of its own with a lost answer is not a takeover    *)
(* (refused, cfRotate).                                                     *)
FencedByOther ==
  [][\A h \in Hosts : marker[h] # 0 /\ marker'[h] = 0 => worker.by # h]_vars

(* The instance whose credentials are installed and current stays live, so  *)
(* that its interrupted rotation can be rerun (Promote, Load).              *)
InstallerStaysLive ==
  \A h \in Hosts : step[h] = "free" /\ worker.by = h /\ cur[h].id = worker.id => Live(h)

=============================================================================
