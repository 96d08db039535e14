---------------------------- MODULE CFKeysProofs ----------------------------
(* Theorems about the credentials of continuous receiving, for every set of *)
(* instances and every number of rotations and stops.                       *)
EXTENDS CFKeys, TLAPS

(* Types that the steps keep without bounds on epochs.                      *)
Raw == [id : Nat, epoch : Nat, by : Hosts \cup {None}]

KeyTypes ==
  /\ cur \in [Hosts -> Raw] /\ pending \in [Hosts -> Raw] /\ backup \in Raw
  /\ marker \in [Hosts -> Nat] /\ made \in Nat \ {0}
  /\ up \in [Hosts -> BOOLEAN]
  /\ step \in [Hosts -> {"free", "rotating", "answered", "promoting", "promoted"}]

(* Identifiers are not reused: what is generated next is new.               *)
Fresh ==
  /\ \A h \in Hosts : cur[h].id <= made /\ pending[h].id <= made
  /\ backup.id <= made

(* Pending credentials are the host's own, and no other host has them       *)
(* pending.                                                                 *)
PendingOwn ==
  \A h \in Hosts : pending[h].id # 0 =>
    /\ pending[h].by = h
    /\ \A g \in Hosts : pending[g].id = pending[h].id => g = h

(* Wherever credentials turn up, in use or in a backup, their maker is the  *)
(* same.                                                                    *)
SameMaker ==
  /\ \A g, h \in Hosts : cur[g].id = cur[h].id => cur[g].by = cur[h].by
  /\ \A g, h \in Hosts : pending[h].id # 0 /\ cur[g].id = pending[h].id => cur[g].by = h
  /\ \A h \in Hosts : cur[h].id = backup.id => cur[h].by = backup.by
  /\ \A h \in Hosts : pending[h].id # 0 /\ backup.id = pending[h].id => backup.by = h

(* A host file never vouches for another host's credentials.                *)
MarkerOwn ==
  \A h \in Hosts : marker[h] # 0 /\ marker[h] = cur[h].id => cur[h].by = h

(* A rotation under way has its credentials saved, on a host that is up.    *)
StepsSaved ==
  \A h \in Hosts :
    /\ up[h] => cur[h].id # 0
    /\ ~up[h] => pending[h].id = 0 /\ cur[h].id = 0
    /\ step[h] \in {"rotating", "answered", "promoting", "promoted"} => pending[h].id # 0
    /\ step[h] = "promoted" => cur[h].id = pending[h].id

KeyInv == KeyTypes /\ Fresh /\ PendingOwn /\ SameMaker /\ MarkerOwn /\ StepsSaved

LEMMA KeyInit == Init => KeyInv
<1> SUFFICES ASSUME Init PROVE KeyInv
  OBVIOUS
<1> DEFINE m == [id |-> 1, epoch |-> 1, by |-> Origin]
<1>1. m \in Raw /\ NoMaterial \in Raw /\ m.id = 1 /\ m.by = Origin /\ NoMaterial.id = 0
      /\ NoMaterial.by = None
  BY CFKeysAssumption DEF Raw, NoMaterial
<1>2. /\ cur = [h \in Hosts |-> IF h = Origin THEN m ELSE NoMaterial]
      /\ pending = [h \in Hosts |-> NoMaterial] /\ backup = NoMaterial /\ made = 1
      /\ marker = [h \in Hosts |-> IF h = Origin THEN 1 ELSE 0]
      /\ step = [h \in Hosts |-> "free"] /\ up = [h \in Hosts |-> h = Origin]
  BY DEF Init
<1> HIDE DEF m
<1>3. KeyTypes
  BY <1>1, <1>2 DEF KeyTypes
<1>4. Fresh /\ PendingOwn /\ SameMaker /\ MarkerOwn
  BY <1>1, <1>2 DEF Fresh, PendingOwn, SameMaker, MarkerOwn
<1>5. StepsSaved
  <2>1. \A h \in Hosts : up[h] <=> h = Origin
    BY <1>2, Zenon
  <2>2. \A h \in Hosts : /\ pending[h].id = 0 /\ step[h] = "free"
                         /\ h = Origin => cur[h].id = 1
                         /\ h # Origin => cur[h].id = 0
    BY <1>1, <1>2
  <2>3. ASSUME NEW h \in Hosts, h = Origin
        PROVE  up[h] /\ cur[h].id # 0 /\ pending[h].id = 0 /\ step[h] = "free"
    <3>1. up[h]
      BY <2>1, <2>3, Zenon
    <3> QED
      BY <3>1, <2>2, <2>3
  <2>4. ASSUME NEW h \in Hosts, h # Origin
        PROVE  ~up[h] /\ cur[h].id = 0 /\ pending[h].id = 0 /\ step[h] = "free"
    <3>1. ~up[h]
      BY <2>1, <2>4, Zenon
    <3> QED
      BY <3>1, <2>2, <2>4
  <2> QED
    BY <2>3, <2>4 DEF StepsSaved
<1> QED
  BY <1>3, <1>4, <1>5 DEF KeyInv

LEMMA KeyStep == KeyInv /\ [Next]_vars => KeyInv'
<1> SUFFICES ASSUME KeyInv, [Next]_vars PROVE KeyInv'
  OBVIOUS
<1> USE CFKeysAssumption
<1> USE DEF KeyInv
(* A step that leaves the files, the backup and the hosts alone.            *)
<1>q. ASSUME UNCHANGED <<keys, made, backup, up>>,
             step' \in [Hosts -> {"free", "rotating", "answered", "promoting", "promoted"}],
             \A h \in Hosts : step'[h] \in {"rotating", "answered", "promoting", "promoted"} => pending[h].id # 0,
             \A h \in Hosts : step'[h] = "promoted" => step[h] = "promoted"
      PROVE  KeyInv'
  BY <1>q DEF keys, KeyTypes, Raw, Fresh, PendingOwn, SameMaker, MarkerOwn, StepsSaved
(* Fence: the host gives its pending credentials and its marker up.         *)
<1>f. ASSUME NEW h \in Hosts, Fence(h), UNCHANGED <<made, backup, up>>,
             step' = [step EXCEPT ![h] = "free"]
      PROVE  KeyInv'
  BY <1>f DEF Fence, NoMaterial, KeyTypes, Raw, Fresh, PendingOwn, SameMaker, MarkerOwn, StepsSaved
<1>1. ASSUME NEW h \in Hosts, StartRotate(h) PROVE KeyInv'
  <2>1. CASE UNCHANGED <<keys, made>> /\ LoadPending(h).id # 0
    <3>1. pending[h].id # 0
      BY <2>1 DEF LoadPending, NoMaterial
    <3> QED
      BY <1>1, <2>1, <3>1, <1>q DEF StartRotate, KeyTypes, StepsSaved
  <2>2. CASE /\ made' = made + 1
             /\ SavePending(h, [id |-> made + 1, epoch |-> cur[h].epoch + 1, by |-> h])
    <3> DEFINE m == [id |-> made + 1, epoch |-> cur[h].epoch + 1, by |-> h]
    <3>1. /\ m \in Raw /\ m.id = made + 1 /\ m.by = h
          /\ pending' = [pending EXCEPT ![h] = m] /\ UNCHANGED <<cur, marker, backup, up>>
          /\ step' = [step EXCEPT ![h] = "rotating"] /\ up[h]
      BY <1>1, <2>2 DEF StartRotate, SavePending, KeyTypes, Raw
    <3> HIDE DEF m
    <3>2. \A g \in Hosts : pending'[g] = IF g = h THEN m ELSE pending[g]
      BY <3>1 DEF KeyTypes
    <3>3. KeyTypes' /\ Fresh'
      BY <2>2, <3>1, <3>2 DEF KeyTypes, Raw, Fresh
    <3>4. \A g \in Hosts : pending[g].id \in Nat /\ cur[g].id \in Nat /\ backup.id \in Nat /\ made \in Nat
      BY DEF KeyTypes, Raw
    <3>5. PendingOwn' /\ SameMaker'
      BY <3>1, <3>2, <3>4 DEF Fresh, PendingOwn, SameMaker
    <3>6. MarkerOwn' /\ StepsSaved'
      BY <3>1, <3>2, <3>4 DEF KeyTypes, MarkerOwn, StepsSaved
    <3> QED
      BY <3>3, <3>5, <3>6
  <2> QED
    BY <1>1, <2>1, <2>2 DEF StartRotate
<1>2. ASSUME NEW h \in Hosts, SendRotate(h) PROVE KeyInv'
  BY <1>2, <1>q DEF SendRotate, rest, KeyTypes, StepsSaved
<1>3. ASSUME NEW h \in Hosts, ConfirmRotate(h) PROVE KeyInv'
  <2>1. CASE step' = [step EXCEPT ![h] = "promoting"] /\ UNCHANGED keys
    BY <1>3, <2>1, <1>q DEF ConfirmRotate, rest, KeyTypes, StepsSaved
  <2>2. CASE step' = [step EXCEPT ![h] = "free"] /\ Fence(h)
    BY <1>3, <2>2, <1>f DEF ConfirmRotate, rest
  <2>3. CASE step' = [step EXCEPT ![h] = "free"] /\ UNCHANGED keys
    BY <1>3, <2>3, <1>q DEF ConfirmRotate, rest, KeyTypes, StepsSaved
  <2> QED
    BY <1>3, <2>1, <2>2, <2>3 DEF ConfirmRotate
<1>4. ASSUME NEW h \in Hosts, Promote(h) PROVE KeyInv'
  <2>1. /\ step[h] = "promoting" /\ pending[h].id # 0 /\ pending[h] \in Raw
        /\ cur' = [cur EXCEPT ![h] = pending[h]] /\ step' = [step EXCEPT ![h] = "promoted"]
        /\ UNCHANGED <<pending, marker, made, backup, up>>
    BY <1>4 DEF Promote, rest, KeyTypes, StepsSaved
  <2>2. \A g \in Hosts : cur'[g] = IF g = h THEN pending[h] ELSE cur[g]
    BY <2>1 DEF KeyTypes
  <2>3. KeyTypes' /\ Fresh' /\ PendingOwn'
    BY <2>1, <2>2 DEF KeyTypes, Fresh, PendingOwn
  <2>4. SameMaker' /\ MarkerOwn'
    BY <2>1, <2>2 DEF PendingOwn, SameMaker, MarkerOwn
  <2>5. StepsSaved'
    BY <2>1, <2>2 DEF KeyTypes, StepsSaved
  <2> QED
    BY <2>3, <2>4, <2>5
<1>5. ASSUME NEW h \in Hosts, PromoteHost(h) PROVE KeyInv'
  <2>1. /\ step[h] = "promoted" /\ cur[h].id = pending[h].id /\ pending[h].id # 0
        /\ pending' = [pending EXCEPT ![h] = NoMaterial]
        /\ marker' = [marker EXCEPT ![h] = cur[h].id] /\ step' = [step EXCEPT ![h] = "free"]
        /\ UNCHANGED <<cur, made, backup, up>>
    BY <1>5 DEF PromoteHost, rest, StepsSaved
  <2>2. cur[h].by = h
    BY <2>1 DEF SameMaker
  <2> QED
    BY <2>1, <2>2 DEF NoMaterial, KeyTypes, Raw, Fresh, PendingOwn, SameMaker, MarkerOwn, StepsSaved
<1>6. ASSUME NEW h \in Hosts, DaemonStep(h) PROVE KeyInv'
  <2>1. CASE Begin(h) \/ Request(h)
    BY <2>1, <1>q DEF Begin, Request, lock, rest, KeyTypes, StepsSaved
  <2>2. CASE Refused(h)
    <3>1. step[h] = "free" /\ UNCHANGED <<made, backup, up>>
      BY <2>2 DEF Refused, rest
    <3>2. CASE UNCHANGED <<keys, step>>
      BY <3>1, <3>2, <1>q DEF KeyTypes, StepsSaved
    <3>3. CASE LoadPending(h).id # 0 /\ step' = [step EXCEPT ![h] = "promoting"] /\ UNCHANGED keys
      <4>1. pending[h].id # 0
        BY <3>3 DEF LoadPending, NoMaterial
      <4> QED
        BY <3>1, <3>3, <4>1, <1>q DEF KeyTypes, StepsSaved
    <3>4. CASE Fence(h) /\ UNCHANGED step
      <4>1. step' = [step EXCEPT ![h] = "free"]
        BY <3>1, <3>4 DEF KeyTypes
      <4> QED
        BY <3>1, <3>4, <4>1, <1>f
    <3> QED
      BY <2>2, <3>2, <3>3, <3>4 DEF Refused
  <2> QED
    BY <1>6, <2>1, <2>2 DEF DaemonStep
<1>7. ASSUME NEW h \in Hosts, Crash(h) PROVE KeyInv'
  BY <1>7, <1>q DEF Crash, KeyTypes, StepsSaved
<1>8. ASSUME NEW h \in Hosts, Backup(h) PROVE KeyInv'
  BY <1>8 DEF Backup, keys, lock, KeyTypes, Fresh, PendingOwn, SameMaker, MarkerOwn, StepsSaved
<1>9. ASSUME NEW h \in Hosts, Restore(h) PROVE KeyInv'
  <2>1. /\ backup.id # 0 /\ ~up[h] /\ step[h] = "free"
        /\ cur' = [cur EXCEPT ![h] = backup] /\ marker' = [marker EXCEPT ![h] = 0]
        /\ up' = [up EXCEPT ![h] = TRUE] /\ UNCHANGED <<pending, made, backup, step>>
    BY <1>9 DEF Restore, RestoredMarker, lock, KeyTypes, StepsSaved
  <2>2. \A g \in Hosts : cur'[g] = IF g = h THEN backup ELSE cur[g]
    BY <2>1 DEF KeyTypes
  <2>3. KeyTypes' /\ Fresh' /\ PendingOwn'
    BY <2>1, <2>2 DEF KeyTypes, Fresh, PendingOwn
  <2>4. SameMaker' /\ MarkerOwn'
    BY <2>1, <2>2 DEF KeyTypes, SameMaker, MarkerOwn
  <2>5. StepsSaved'
    BY <2>1, <2>2 DEF KeyTypes, StepsSaved
  <2> QED
    BY <2>3, <2>4, <2>5
<1>10. CASE RotationLands
  BY <1>10, <1>q DEF RotationLands, lock, rest, KeyTypes, StepsSaved
<1>11. CASE UNCHANGED vars
  BY <1>11, <1>q DEF vars, lock, rest, KeyTypes, StepsSaved
<1> QED
  BY <1>1, <1>2, <1>3, <1>4, <1>5, <1>6, <1>7, <1>8, <1>9, <1>10, <1>11 DEF Next, OperatorStep

(* No two instances are live on the same credentials, whatever restores,    *)
(* stops, lost and late rotations left in their files (Load, Promote,       *)
(* Fence, SavePending).                                                     *)
THEOREM OneInstanceReceives == Spec => []OneHolder
<1>1. KeyInv => OneHolder
  <2> SUFFICES ASSUME KeyInv, NEW g \in Hosts, NEW h \in Hosts, g # h, Live(g), Live(h),
                      cur[g].id = cur[h].id
               PROVE  FALSE
    BY DEF OneHolder
  <2>1. ASSUME NEW k \in Hosts, Live(k) PROVE cur[k].by = k
    BY <2>1 DEF Live, Interrupted, KeyInv, MarkerOwn, SameMaker, StepsSaved
  <2> QED
    BY <2>1 DEF KeyInv, SameMaker
<1> QED
  BY <1>1, KeyInit, KeyStep, PTL DEF Spec

-----------------------------------------------------------------------------
(* The Worker's credentials stay in somebody's hands.  Epochs order what    *)
(* was installed: credentials in use were installed once, and those the     *)
(* Worker has moved past never come back.                                   *)
Installed(m) == m.epoch <= worker.epoch /\ (m.epoch = worker.epoch <=> m.id = worker.id)
Passed(h)    == cur[h].epoch < worker.epoch

RotationTypes ==
  /\ worker \in Raw /\ worker.id # 0 /\ worker.id <= made
  /\ \A r \in inflight : r.bearer \in Nat /\ r.next \in Raw /\ r.next.id # 0
  /\ used \in [Hosts -> Nat] /\ \A h \in Hosts : used[h] <= made
  /\ at \in [Hosts -> {"idle", "cycle", "refused"}] /\ \A h \in Hosts : at[h] # "idle" => up[h]
  /\ answer \in [Hosts -> {"none", "installed", "refused", "lost"}]
  /\ \A h \in Hosts : answer[h] # "none" => step[h] = "answered"

(* Credentials in use or in a backup were installed.                        *)
UsedInstalled ==
  /\ \A h \in Hosts : up[h] => Installed(cur[h])
  /\ backup.id # 0 => Installed(backup)

(* Pending credentials are the next epoch, or those just promoted; whoever  *)
(* else has them has the same record.                                       *)
PendingNext ==
  \A h \in Hosts : pending[h].id # 0 =>
    /\ pending[h] = cur[h] \/ (pending[h].epoch = cur[h].epoch + 1 /\ pending[h].id # cur[h].id)
    /\ step[h] \in {"rotating", "answered"} => pending[h].epoch = cur[h].epoch + 1
    /\ \A g \in Hosts : cur[g].id = pending[h].id => cur[g] = pending[h]
    /\ backup.id = pending[h].id => backup = pending[h]
    /\ worker.id = pending[h].id => worker = pending[h]
    /\ used[h] = pending[h].id => pending[h] = cur[h]

(* What an instance learned of the Worker stays true.                       *)
AnswersTrue ==
  \A h \in Hosts :
    /\ step[h] = "promoting" \/ answer[h] = "installed" => Installed(pending[h])
    /\ answer[h] = "refused" => Passed(h)
    /\ at[h] = "refused" /\ used[h] = cur[h].id => Passed(h)

(* A rotation under way is its sender's pending one, or comes too late.     *)
LateOrPending ==
  \A r \in inflight :
    \/ r.next.epoch <= worker.epoch
    \/ \E h \in Hosts : r.next = pending[h] /\ r.bearer = cur[h].id

RotationInv ==
  RotationTypes /\ UsedInstalled /\ PendingNext /\ AnswersTrue /\ LateOrPending /\ HolderKnown

LEMMA RotationInit == Init => RotationInv
<1> SUFFICES ASSUME Init PROVE RotationInv
  OBVIOUS
<1> DEFINE m == [id |-> 1, epoch |-> 1, by |-> Origin]
<1>1. m \in Raw /\ m.id = 1 /\ m.epoch = 1 /\ NoMaterial.id = 0 /\ NoMaterial.epoch = 0
  BY CFKeysAssumption DEF Raw, NoMaterial
<1>2. /\ worker = m /\ inflight = {} /\ pending = [h \in Hosts |-> NoMaterial] /\ backup = NoMaterial
      /\ cur = [h \in Hosts |-> IF h = Origin THEN m ELSE NoMaterial] /\ made = 1
      /\ step = [h \in Hosts |-> "free"] /\ answer = [h \in Hosts |-> "none"]
      /\ at = [h \in Hosts |-> "idle"] /\ used = [h \in Hosts |-> 0]
      /\ up = [h \in Hosts |-> h = Origin]
  BY DEF Init
<1> HIDE DEF m
<1>3. RotationTypes
  BY <1>1, <1>2 DEF RotationTypes
<1>4. UsedInstalled
  <2>1. \A h \in Hosts : up[h] => h = Origin
    BY <1>2, Zenon
  <2>2. \A h \in Hosts : h = Origin => cur[h] = m
    BY <1>2
  <2>3. \A h \in Hosts : up[h] => cur[h] = m
    BY <2>1, <2>2, Zenon
  <2> QED
    BY <1>1, <1>2, <2>3 DEF UsedInstalled, Installed
<1>5. PendingNext /\ AnswersTrue /\ LateOrPending
  BY <1>1, <1>2 DEF PendingNext, AnswersTrue, LateOrPending
<1>6. HolderKnown
  BY <1>1, <1>2, CFKeysAssumption DEF HolderKnown
<1> QED
  BY <1>3, <1>4, <1>5, <1>6 DEF RotationInv

(* A step that leaves the Worker, the files, the backup and the hosts       *)
(* alone.                                                                   *)
LEMMA RotationQuiet ==
  ASSUME RotationInv, UNCHANGED <<cloud, cur, pending, made, backup, up>>, RotationTypes', AnswersTrue',
         \A h \in Hosts : pending[h].id # 0 =>
            /\ step'[h] \in {"rotating", "answered"} => pending[h].epoch = cur[h].epoch + 1
            /\ used'[h] = pending[h].id => pending[h] = cur[h]
  PROVE  RotationInv'
<1>1. PendingNext'
  BY DEF RotationInv, PendingNext, cloud
<1>2. UsedInstalled' /\ LateOrPending' /\ HolderKnown'
  BY DEF RotationInv, UsedInstalled, Installed, LateOrPending, HolderKnown, cloud
<1> QED
  BY <1>1, <1>2 DEF RotationInv

(* What the invariants say of a host with pending credentials.              *)
LEMMA Holding ==
  ASSUME KeyInv, RotationInv, NEW h \in Hosts, pending[h].id # 0
  PROVE  up[h] /\ Installed(cur[h])
  BY DEF KeyInv, StepsSaved, RotationInv, UsedInstalled

(* The Worker installs what a host has pending.                             *)
LEMMA RotationInstalls ==
  ASSUME KeyInv, RotationInv, NEW h \in Hosts, pending[h].id # 0,
         pending[h].epoch = worker.epoch + 1, worker' = pending[h], inflight' \subseteq inflight,
         UNCHANGED <<cur, pending, made, backup, up, at, used>>, RotationTypes',
         \A g \in Hosts :
           /\ step'[g] \in {"rotating", "answered"} => step[g] \in {"rotating", "answered"}
           /\ step'[g] = "promoting" => step[g] = "promoting"
           /\ answer'[g] = "installed" => answer[g] = "installed" \/ g = h
           /\ answer'[g] = "refused" => answer[g] = "refused"
  PROVE  RotationInv'
<1>1. /\ \A g \in Hosts : cur[g] \in Raw /\ pending[g] \in Raw
      /\ backup \in Raw /\ worker \in Raw
  BY DEF KeyInv, KeyTypes, RotationInv, RotationTypes
<1>2. \A n \in Raw : n.epoch \in Nat /\ n.id \in Nat
  BY DEF Raw
<1>3. worker'.epoch = worker.epoch + 1 /\ worker'.id = pending[h].id /\ worker.epoch \in Nat
  BY <1>1, <1>2
<1>4. \A g \in Hosts : cur[g].epoch <= worker.epoch => cur[g].id # pending[h].id
  BY <1>1, <1>2, <1>3 DEF RotationInv, PendingNext
<1>5. backup.epoch <= worker.epoch => backup.id # pending[h].id
  BY <1>1, <1>2, <1>3 DEF RotationInv, PendingNext
<1>6. \A g \in Hosts : g # h /\ pending[g].id # 0 => pending[g].id # pending[h].id
  BY DEF KeyInv, PendingOwn
<1>7. UsedInstalled'
  BY <1>1, <1>2, <1>3, <1>4, <1>5 DEF RotationInv, UsedInstalled, Installed
<1>8. PendingNext'
  BY <1>3, <1>6 DEF RotationInv, PendingNext
<1>9. AnswersTrue'
  <2>1. ASSUME NEW g \in Hosts, g # h, pending[g].id # 0, Installed(pending[g]) PROVE Installed(pending[g])'
    BY <2>1, <1>1, <1>2, <1>3, <1>6 DEF Installed
  <2>2. Installed(pending[h])'
    BY <1>1, <1>2, <1>3 DEF Installed
  <2>3. ASSUME NEW g \in Hosts, Passed(g) PROVE Passed(g)'
    BY <2>3, <1>1, <1>2, <1>3 DEF Passed
  <2>4. ASSUME NEW g \in Hosts, step[g] = "promoting" \/ answer[g] = "installed" PROVE pending[g].id # 0
    BY <2>4 DEF KeyInv, StepsSaved, RotationInv, RotationTypes
  <2>5. ASSUME NEW g \in Hosts, step'[g] = "promoting" \/ answer'[g] = "installed" PROVE Installed(pending[g])'
    BY <2>1, <2>2, <2>4, <2>5 DEF RotationInv, AnswersTrue
  <2> QED
    BY <2>3, <2>5 DEF RotationInv, AnswersTrue
<1>10. LateOrPending'
  <2>1. ASSUME NEW r \in inflight, r.next.epoch <= worker.epoch PROVE r.next.epoch <= worker'.epoch
    BY <2>1, <1>1, <1>2, <1>3 DEF RotationInv, RotationTypes
  <2> QED
    BY <2>1 DEF RotationInv, LateOrPending
<1>11. HolderKnown'
  BY <1>3 DEF HolderKnown
<1> QED
  BY <1>7, <1>8, <1>9, <1>10, <1>11 DEF RotationInv

(* A host that the Worker has moved past gives its pending credentials up.  *)
LEMMA RotationFence ==
  ASSUME KeyInv, RotationInv, NEW h \in Hosts, up[h], Passed(h), Fence(h),
         pending[h].id # worker.id \/ pending[h].id = cur[h].id,
         UNCHANGED <<cloud, made, backup, up, used>>, RotationTypes',
         step' = [step EXCEPT ![h] = "free"], answer'[h] # "installed", answer'[h] # "refused",
         \A g \in Hosts : /\ g # h => answer'[g] = answer[g]
                          /\ at'[g] = "refused" => at[g] = "refused"
  PROVE  RotationInv'
<1>1. /\ \A g \in Hosts : cur[g] \in Raw /\ pending[g] \in Raw
      /\ worker \in Raw /\ \A n \in Raw : n.epoch \in Nat /\ n.id \in Nat
      /\ worker.id # 0 /\ NoMaterial.id = 0
  BY DEF KeyInv, KeyTypes, RotationInv, RotationTypes, Raw, NoMaterial
<1>2. /\ cur' = cur /\ worker' = worker /\ inflight' = inflight
      /\ \A g \in Hosts : pending'[g] = IF g = h THEN NoMaterial ELSE pending[g]
      /\ \A g \in Hosts : step'[g] = IF g = h THEN "free" ELSE step[g]
  BY DEF Fence, cloud, KeyInv, KeyTypes
<1>3. cur[h].id # worker.id /\ pending[h].id # worker.id
  BY <1>1 DEF RotationInv, UsedInstalled, Installed, Passed
<1>4. pending[h].id # 0 => pending[h].epoch <= worker.epoch
  BY <1>1 DEF RotationInv, PendingNext, Passed
<1>5. UsedInstalled'
  BY <1>2 DEF RotationInv, UsedInstalled, Installed
<1>6. PendingNext'
  BY <1>1, <1>2 DEF RotationInv, PendingNext
<1>7. AnswersTrue'
  BY <1>2 DEF RotationInv, AnswersTrue, Installed, Passed
<1>8. LateOrPending'
  BY <1>2, <1>4 DEF RotationInv, RotationTypes, LateOrPending
<1>9. HolderKnown'
  BY <1>2, <1>3 DEF RotationInv, HolderKnown
<1> QED
  BY <1>5, <1>6, <1>7, <1>8, <1>9 DEF RotationInv

LEMMA RotationStep == KeyInv /\ KeyInv' /\ RotationInv /\ [Next]_vars => RotationInv'
<1> SUFFICES ASSUME KeyInv, KeyInv', RotationInv, [Next]_vars PROVE RotationInv'
  OBVIOUS
<1>a. /\ \A g \in Hosts : cur[g] \in Raw /\ pending[g] \in Raw
      /\ backup \in Raw /\ worker \in Raw /\ made \in Nat
      /\ \A n \in Raw : n.epoch \in Nat /\ n.id \in Nat
      /\ worker.id # 0 /\ NoMaterial.id = 0
      /\ up \in [Hosts -> BOOLEAN] /\ at \in [Hosts -> {"idle", "cycle", "refused"}]
      /\ step \in [Hosts -> {"free", "rotating", "answered", "promoting", "promoted"}]
      /\ answer \in [Hosts -> {"none", "installed", "refused", "lost"}] /\ used \in [Hosts -> Nat]
  BY DEF KeyInv, KeyTypes, RotationInv, RotationTypes, Raw, NoMaterial
<1>1. ASSUME NEW h \in Hosts, StartRotate(h) PROVE RotationInv'
  <2>0. /\ step' = [step EXCEPT ![h] = "rotating"] /\ step[h] = "free" /\ up[h]
        /\ UNCHANGED <<cloud, cur, answer, at, used, backup, up>>
    BY <1>1 DEF StartRotate, keys, SavePending
  <2>1. answer[h] = "none"
    BY <1>a, <2>0 DEF RotationInv, RotationTypes
  <2>2. CASE /\ UNCHANGED <<keys, made>> /\ LoadPending(h).id # 0
             /\ LoadPending(h).epoch = cur[h].epoch + 1
    <3>1. LoadPending(h) = pending[h]
      BY <2>2, <1>a DEF LoadPending
    <3>2. RotationTypes'
      BY <1>a, <2>0, <2>2 DEF RotationInv, RotationTypes, cloud, keys
    <3>3. AnswersTrue'
      BY <1>a, <2>0, <2>2 DEF RotationInv, AnswersTrue, Installed, Passed, cloud, keys
    <3> QED
      BY <1>a, <2>0, <2>2, <3>1, <3>2, <3>3, RotationQuiet DEF RotationInv, PendingNext, keys
  <2>3. CASE /\ ~(LoadPending(h).id # 0 /\ LoadPending(h).epoch = cur[h].epoch + 1)
             /\ made' = made + 1
             /\ SavePending(h, [id |-> made + 1, epoch |-> cur[h].epoch + 1, by |-> h])
    <3> DEFINE m == [id |-> made + 1, epoch |-> cur[h].epoch + 1, by |-> h]
    <3>1. /\ m.id = made + 1 /\ m.epoch = cur[h].epoch + 1
          /\ \A g \in Hosts : pending'[g] = IF g = h THEN m ELSE pending[g]
      BY <2>3 DEF SavePending, KeyInv, KeyTypes
    <3> HIDE DEF m
    <3>2. pending[h].id = 0 \/ pending[h] = cur[h]
      BY <2>3, <1>a DEF LoadPending, Interrupted, RotationInv, PendingNext
    <3>3. Installed(cur[h])
      BY <2>0 DEF RotationInv, UsedInstalled
    <3>4. RotationTypes'
      BY <1>a, <2>0, <2>3 DEF RotationInv, RotationTypes, cloud
    <3>5. UsedInstalled'
      BY <2>0 DEF RotationInv, UsedInstalled, Installed, cloud
    <3>6. /\ backup.id # m.id /\ worker.id # m.id
          /\ \A g \in Hosts : cur[g].id # m.id /\ used[g] # m.id
      BY <1>a, <3>1 DEF KeyInv, Fresh, RotationInv, RotationTypes
    <3>7. PendingNext'
      BY <1>a, <2>0, <3>1, <3>6 DEF RotationInv, PendingNext, cloud
    <3>8. AnswersTrue'
      BY <1>a, <2>0, <3>1 DEF RotationInv, RotationTypes, AnswersTrue, Installed, Passed, cloud
    <3>9. LateOrPending'
      BY <2>0, <3>1, <3>2, <3>3 DEF RotationInv, RotationTypes, LateOrPending, Installed, cloud
    <3>10. HolderKnown'
      BY <1>a, <2>0, <3>1, <3>2 DEF RotationInv, HolderKnown, cloud
    <3> QED
      BY <3>4, <3>5, <3>7, <3>8, <3>9, <3>10 DEF RotationInv
  <2> QED
    BY <1>1, <2>2, <2>3 DEF StartRotate
<1>2. ASSUME NEW h \in Hosts, SendRotate(h) PROVE RotationInv'
  <2> DEFINE r == [bearer |-> cur[h].id, next |-> pending[h]]
  <2>1. /\ step[h] = "rotating" /\ step' = [step EXCEPT ![h] = "answered"] /\ pending[h].id # 0
        /\ r.bearer = cur[h].id /\ r.next = pending[h]
        /\ UNCHANGED <<cur, pending, made, backup, up, at, used>>
    BY <1>2 DEF SendRotate, keys, rest, KeyInv, StepsSaved
  <2>2. Installed(cur[h]) /\ pending[h].epoch = cur[h].epoch + 1
    BY <2>1, Holding DEF RotationInv, PendingNext
  <2>3. CASE /\ Installs(r) /\ worker' = pending[h] /\ inflight' = inflight
             /\ answer' = [answer EXCEPT ![h] = "installed"]
    <3>1. RotationTypes'
      BY <1>a, <2>1, <2>3 DEF RotationInv, RotationTypes, KeyInv, Fresh
    <3>2. pending[h].epoch = worker.epoch + 1
      BY <2>1, <2>3 DEF Installs
    <3> QED
      BY <1>a, <2>1, <2>3, <3>1, <3>2, RotationInstalls
  <2>4. CASE /\ ~Installs(r) /\ UNCHANGED cloud
             /\ answer' = [answer EXCEPT ![h] = "refused"]
    <3>1. Passed(h)
      <4>1. cur[h].id # worker.id \/ pending[h].epoch # worker.epoch + 1
        BY <2>1, <2>4 DEF Installs
      <4>2. cur[h].epoch \in Nat /\ worker.epoch \in Nat
        BY <1>a
      <4> QED
        BY <2>2, <4>1, <4>2 DEF Installed, Passed
    <3>2. RotationTypes'
      BY <1>a, <2>1, <2>4 DEF RotationInv, RotationTypes, cloud
    <3>3. AnswersTrue'
      BY <1>a, <2>1, <2>4, <3>1 DEF RotationInv, AnswersTrue, Installed, Passed, cloud
    <3> QED
      BY <1>a, <2>1, <2>4, <2>2, <3>2, <3>3, RotationQuiet DEF RotationInv, PendingNext
  <2>5. CASE /\ answer' = [answer EXCEPT ![h] = "lost"] /\ worker' = worker
             /\ inflight' \in {inflight, inflight \cup {r}}
    <3>1. \A q \in inflight' : q \in inflight \/ q = r
      BY <2>5
    <3> HIDE DEF r
    <3>2. RotationTypes'
      BY <1>a, <2>1, <2>5, <3>1 DEF RotationInv, RotationTypes
    <3>3. AnswersTrue'
      BY <1>a, <2>1, <2>5 DEF RotationInv, AnswersTrue, Installed, Passed
    <3>4. PendingNext' /\ UsedInstalled' /\ HolderKnown'
      BY <1>a, <2>1, <2>2, <2>5 DEF RotationInv, PendingNext, UsedInstalled, Installed, HolderKnown
    <3>5. LateOrPending'
      BY <2>1, <2>5, <3>1 DEF RotationInv, LateOrPending
    <3> QED
      BY <3>2, <3>3, <3>4, <3>5 DEF RotationInv
  <2> QED
    BY <1>2, <2>1, <2>3, <2>4, <2>5 DEF SendRotate, cloud
<1>3. ASSUME NEW h \in Hosts, ConfirmRotate(h) PROVE RotationInv'
  <2>1. /\ step[h] = "answered" /\ pending[h].id # 0 /\ answer' = [answer EXCEPT ![h] = "none"]
        /\ UNCHANGED <<cloud, made, backup, up, at, used>>
    BY <1>3 DEF ConfirmRotate, rest, KeyInv, StepsSaved
  <2>2. CASE /\ answer[h] = "installed" \/ pending[h].id = worker.id
             /\ step' = [step EXCEPT ![h] = "promoting"] /\ UNCHANGED keys
    <3>1. Installed(pending[h])
      BY <1>a, <2>1, <2>2 DEF RotationInv, AnswersTrue, PendingNext, Installed
    <3>2. RotationTypes'
      BY <1>a, <2>1, <2>2 DEF RotationInv, RotationTypes, cloud, keys
    <3>3. AnswersTrue'
      BY <1>a, <2>1, <2>2, <3>1 DEF RotationInv, AnswersTrue, Installed, Passed, cloud, keys
    <3> QED
      BY <1>a, <2>1, <2>2, <3>2, <3>3, RotationQuiet DEF RotationInv, PendingNext, keys
  <2>3. CASE /\ answer[h] = "refused" /\ pending[h].id # worker.id
             /\ Fence(h) /\ step' = [step EXCEPT ![h] = "free"]
    <3>1. Passed(h) /\ up[h]
      BY <2>1, <2>3, Holding DEF RotationInv, AnswersTrue
    <3>2. RotationTypes'
      BY <1>a, <2>1, <2>3 DEF RotationInv, RotationTypes, cloud
    <3> QED
      BY <1>a, <2>1, <2>3, <3>1, <3>2, RotationFence
  <2>4. CASE step' = [step EXCEPT ![h] = "free"] /\ UNCHANGED keys
    <3>2. RotationTypes'
      BY <1>a, <2>1, <2>4 DEF RotationInv, RotationTypes, cloud, keys
    <3>3. AnswersTrue'
      BY <1>a, <2>1, <2>4 DEF RotationInv, AnswersTrue, Installed, Passed, cloud, keys
    <3> QED
      BY <1>a, <2>1, <2>4, <3>2, <3>3, RotationQuiet DEF RotationInv, PendingNext, keys
  <2> QED
    BY <1>3, <2>2, <2>3, <2>4 DEF ConfirmRotate
<1>4. ASSUME NEW h \in Hosts, Promote(h) PROVE RotationInv'
  <2>1. /\ step[h] = "promoting" /\ pending[h].id # 0
        /\ step' = [step EXCEPT ![h] = "promoted"]
        /\ UNCHANGED <<cloud, pending, answer, at, used, made, backup, up>>
        /\ \A g \in Hosts : cur'[g] = IF g = h THEN pending[h] ELSE cur[g]
    BY <1>4 DEF Promote, rest, KeyInv, KeyTypes, StepsSaved
  <2>2. /\ Installed(pending[h]) /\ Installed(cur[h])
        /\ pending[h] = cur[h] \/ pending[h].epoch = cur[h].epoch + 1
    BY <2>1, Holding DEF RotationInv, AnswersTrue, PendingNext
  <2>3. RotationTypes'
    BY <1>a, <2>1 DEF RotationInv, RotationTypes, cloud
  <2>4. UsedInstalled'
    BY <2>1, <2>2 DEF RotationInv, UsedInstalled, Installed, cloud
  <2>5. PendingNext'
    <3>1. \A g \in Hosts : pending[g].id # 0 /\ pending[g].id = pending[h].id => g = h
      BY <2>1 DEF KeyInv, PendingOwn
    <3> QED
      BY <1>a, <2>1, <3>1 DEF RotationInv, PendingNext, cloud
  <2>6. AnswersTrue'
    <3>1. used[h] = pending[h].id => pending[h] = cur[h]
      BY <2>1 DEF RotationInv, PendingNext
    <3>2. answer[h] = "none"
      BY <1>a, <2>1 DEF RotationInv, RotationTypes
    <3> QED
      BY <1>a, <2>1, <3>1, <3>2 DEF RotationInv, AnswersTrue, Installed, Passed, cloud
  <2>7. LateOrPending'
    BY <2>1, <2>2 DEF RotationInv, LateOrPending, Installed, cloud
  <2>8. HolderKnown'
    BY <1>a, <2>1, <2>2 DEF RotationInv, HolderKnown, Installed, cloud
  <2> QED
    BY <2>3, <2>4, <2>5, <2>6, <2>7, <2>8 DEF RotationInv
<1>5. ASSUME NEW h \in Hosts, PromoteHost(h) PROVE RotationInv'
  <2>1. /\ step[h] = "promoted" /\ pending[h].id # 0 /\ cur[h].id = pending[h].id
        /\ step' = [step EXCEPT ![h] = "free"]
        /\ UNCHANGED <<cloud, cur, answer, at, used, made, backup, up>>
        /\ \A g \in Hosts : pending'[g] = IF g = h THEN NoMaterial ELSE pending[g]
    BY <1>5 DEF PromoteHost, rest, KeyInv, KeyTypes, StepsSaved
  <2>2. cur[h] = pending[h] /\ Installed(pending[h])
    BY <2>1, Holding DEF RotationInv, PendingNext
  <2>3. RotationTypes'
    BY <1>a, <2>1 DEF RotationInv, RotationTypes, cloud
  <2>4. UsedInstalled' /\ PendingNext'
    BY <1>a, <2>1 DEF RotationInv, UsedInstalled, Installed, PendingNext, cloud
  <2>5. AnswersTrue'
    <3>1. answer[h] = "none"
      BY <1>a, <2>1 DEF RotationInv, RotationTypes
    <3> QED
      BY <1>a, <2>1, <3>1 DEF RotationInv, AnswersTrue, Installed, Passed, cloud
  <2>6. LateOrPending' /\ HolderKnown'
    BY <2>1, <2>2 DEF RotationInv, LateOrPending, HolderKnown, Installed, cloud
  <2> QED
    BY <2>3, <2>4, <2>5, <2>6 DEF RotationInv
<1>6. ASSUME NEW h \in Hosts, Begin(h) PROVE RotationInv'
  <2>1. /\ at' = [at EXCEPT ![h] = "cycle"] /\ used' = [used EXCEPT ![h] = cur[h].id] /\ up[h]
        /\ UNCHANGED <<cloud, cur, pending, step, answer, made, backup, up>>
    BY <1>6 DEF Begin, Live, keys, lock, rest
  <2>2. RotationTypes'
    BY <1>a, <2>1 DEF RotationInv, RotationTypes, KeyInv, Fresh, cloud
  <2>3. AnswersTrue'
    BY <1>a, <2>1 DEF RotationInv, AnswersTrue, Installed, Passed, cloud
  <2> QED
    BY <1>a, <2>1, <2>2, <2>3, RotationQuiet DEF RotationInv, PendingNext
<1>7. ASSUME NEW h \in Hosts, Request(h) PROVE RotationInv'
  <2>1. /\ at[h] = "cycle" /\ at' = [at EXCEPT ![h] = IF used[h] = worker.id THEN "idle" ELSE "refused"]
        /\ UNCHANGED <<cloud, cur, pending, step, answer, used, made, backup, up>>
    BY <1>7 DEF Request, keys, lock, rest
  <2>2. used[h] = cur[h].id /\ used[h] # worker.id => Passed(h)
    <3>1. up[h]
      BY <1>a, <2>1 DEF RotationInv, RotationTypes
    <3>2. Installed(cur[h]) /\ cur[h].epoch \in Nat /\ worker.epoch \in Nat
      BY <1>a, <3>1 DEF RotationInv, UsedInstalled
    <3> QED
      BY <3>2 DEF Installed, Passed
  <2>3. RotationTypes'
    BY <1>a, <2>1 DEF RotationInv, RotationTypes, cloud
  <2>4. AnswersTrue'
    BY <1>a, <2>1, <2>2 DEF RotationInv, AnswersTrue, Installed, Passed, cloud
  <2> QED
    BY <1>a, <2>1, <2>3, <2>4, RotationQuiet DEF RotationInv, PendingNext
<1>8. ASSUME NEW h \in Hosts, Refused(h) PROVE RotationInv'
  <2>1. /\ at[h] = "refused" /\ step[h] = "free" /\ at' = [at EXCEPT ![h] = "idle"] /\ up[h]
        /\ UNCHANGED <<cloud, answer, used, made, backup, up>>
    BY <1>a, <1>8 DEF Refused, rest, RotationInv, RotationTypes
  <2>2. CASE UNCHANGED <<keys, step>>
    <3>1. RotationTypes'
      BY <1>a, <2>1, <2>2 DEF RotationInv, RotationTypes, cloud, keys
    <3>2. AnswersTrue'
      BY <1>a, <2>1, <2>2 DEF RotationInv, AnswersTrue, Installed, Passed, cloud, keys
    <3> QED
      BY <1>a, <2>1, <2>2, <3>1, <3>2, RotationQuiet DEF RotationInv, PendingNext, keys
  <2>3. CASE /\ LoadPending(h).id # 0 /\ LoadPending(h).id = worker.id
             /\ step' = [step EXCEPT ![h] = "promoting"] /\ UNCHANGED keys
    <3>1. pending[h] = worker
      BY <1>a, <2>3 DEF LoadPending, RotationInv, PendingNext
    <3>2. RotationTypes'
      BY <1>a, <2>1, <2>3 DEF RotationInv, RotationTypes, cloud, keys
    <3>3. AnswersTrue'
      BY <1>a, <2>1, <2>3, <3>1 DEF RotationInv, AnswersTrue, Installed, Passed, cloud, keys
    <3> QED
      BY <1>a, <2>1, <2>3, <3>2, <3>3, RotationQuiet DEF RotationInv, PendingNext, keys
  <2>4. CASE /\ cur[h].id = used[h] /\ LoadPending(h).id # worker.id
             /\ Fence(h) /\ UNCHANGED step
    <3>1. Passed(h) /\ answer[h] = "none" /\ step' = [step EXCEPT ![h] = "free"]
      BY <1>a, <2>1, <2>4 DEF RotationInv, RotationTypes, AnswersTrue
    <3>2. pending[h].id # worker.id \/ pending[h].id = cur[h].id
      BY <2>4 DEF LoadPending, Interrupted
    <3>3. RotationTypes'
      BY <1>a, <2>1, <2>4 DEF RotationInv, RotationTypes, cloud
    <3> QED
      BY <1>a, <2>1, <2>4, <3>1, <3>2, <3>3, RotationFence
  <2> QED
    BY <1>8, <2>2, <2>3, <2>4 DEF Refused
<1>9. ASSUME NEW h \in Hosts, Crash(h) PROVE RotationInv'
  <2>1. /\ at' = [at EXCEPT ![h] = "idle"] /\ step' = [step EXCEPT ![h] = "free"]
        /\ answer' = [answer EXCEPT ![h] = "none"]
        /\ UNCHANGED <<cloud, cur, pending, used, made, backup, up>>
    BY <1>9 DEF Crash, keys
  <2>2. RotationTypes'
    BY <1>a, <2>1 DEF RotationInv, RotationTypes, cloud
  <2>3. AnswersTrue'
    BY <1>a, <2>1 DEF RotationInv, AnswersTrue, Installed, Passed, cloud
  <2> QED
    BY <1>a, <2>1, <2>2, <2>3, RotationQuiet DEF RotationInv, PendingNext
<1>10. ASSUME NEW h \in Hosts, Backup(h) PROVE RotationInv'
  <2>1. /\ up[h] /\ backup' = cur[h]
        /\ UNCHANGED <<cloud, cur, pending, step, answer, at, used, made, up>>
    BY <1>10 DEF Backup, keys, lock
  <2>2. RotationTypes' /\ AnswersTrue'
    BY <2>1 DEF RotationInv, RotationTypes, AnswersTrue, Installed, Passed, cloud
  <2>3. UsedInstalled' /\ PendingNext'
    BY <2>1 DEF RotationInv, UsedInstalled, Installed, PendingNext, cloud
  <2>4. LateOrPending' /\ HolderKnown'
    BY <2>1 DEF RotationInv, LateOrPending, HolderKnown, cloud
  <2> QED
    BY <2>2, <2>3, <2>4 DEF RotationInv
<1>11. ASSUME NEW h \in Hosts, Restore(h) PROVE RotationInv'
  <2>1. /\ backup.id # 0 /\ ~up[h] /\ up' = [up EXCEPT ![h] = TRUE]
        /\ \A g \in Hosts : cur'[g] = IF g = h THEN backup ELSE cur[g]
        /\ UNCHANGED <<cloud, pending, step, answer, at, used, made, backup>>
    BY <1>11 DEF Restore, lock, KeyInv, KeyTypes
  <2>2. /\ cur[h].id = 0 /\ pending[h].id = 0 /\ at[h] = "idle"
        /\ step[h] # "promoting" /\ answer[h] = "none"
    BY <1>a, <2>1 DEF KeyInv, StepsSaved, RotationInv, RotationTypes
  <2>3. RotationTypes'
    BY <1>a, <2>1 DEF RotationInv, RotationTypes, cloud
  <2>4. UsedInstalled'
    BY <1>a, <2>1 DEF RotationInv, UsedInstalled, Installed, cloud
  <2>5. PendingNext'
    BY <1>a, <2>1, <2>2 DEF RotationInv, PendingNext, cloud
  <2>6. AnswersTrue'
    BY <2>1, <2>2 DEF RotationInv, AnswersTrue, Installed, Passed, cloud
  <2>7. LateOrPending' /\ HolderKnown'
    BY <1>a, <2>1, <2>2 DEF RotationInv, RotationTypes, LateOrPending, HolderKnown, cloud
  <2> QED
    BY <2>3, <2>4, <2>5, <2>6, <2>7 DEF RotationInv
<1>12. CASE RotationLands
  <2>1. PICK r \in inflight : /\ inflight' = inflight \ {r}
                              /\ worker' = IF Installs(r) THEN r.next ELSE worker
    BY <1>12 DEF RotationLands
  <2>2. UNCHANGED <<cur, pending, step, answer, made, backup, up, at, used>>
    BY <1>12 DEF RotationLands, keys, lock, rest
  <2>3. CASE Installs(r)
    <3>1. ~(r.next.epoch <= worker.epoch)
      BY <1>a, <2>3 DEF Installs
    <3>2. PICK h \in Hosts : r.next = pending[h] /\ r.bearer = cur[h].id
      BY <2>1, <3>1 DEF RotationInv, LateOrPending
    <3>3. worker' = pending[h] /\ pending[h].id # 0 /\ pending[h].epoch = worker.epoch + 1
      BY <2>1, <2>3, <3>2 DEF Installs, RotationInv, RotationTypes
    <3>4. RotationTypes'
      BY <1>a, <2>1, <2>2, <3>3 DEF RotationInv, RotationTypes, KeyInv, Fresh
    <3> QED
      BY <2>1, <2>2, <3>3, <3>4, RotationInstalls
  <2>4. CASE ~Installs(r)
    <3>1. worker' = worker /\ inflight' \subseteq inflight
      BY <2>1, <2>4
    <3>2. RotationTypes' /\ AnswersTrue'
      BY <2>2, <3>1 DEF RotationInv, RotationTypes, AnswersTrue, Installed, Passed
    <3>3. UsedInstalled' /\ PendingNext' /\ LateOrPending' /\ HolderKnown'
      BY <2>2, <3>1 DEF RotationInv, UsedInstalled, Installed, PendingNext, LateOrPending, HolderKnown
    <3> QED
      BY <3>2, <3>3 DEF RotationInv
  <2> QED
    BY <2>3, <2>4
<1>13. CASE UNCHANGED vars
  <2>1. UNCHANGED <<cloud, cur, pending, step, answer, made, backup, up, at, used>>
    BY <1>13 DEF vars, keys, lock, rest
  <2>2. RotationTypes' /\ AnswersTrue'
    BY <2>1 DEF RotationInv, RotationTypes, AnswersTrue, Installed, Passed, cloud
  <2> QED
    BY <2>1, <2>2, RotationQuiet DEF RotationInv, PendingNext
<1> QED
  BY <1>1, <1>2, <1>3, <1>4, <1>5, <1>6, <1>7, <1>8, <1>9, <1>10, <1>11, <1>12, <1>13
  DEF Next, OperatorStep, DaemonStep

(* The Worker's credentials are always in the files of some instance, in    *)
(* use or pending, whatever rotations were lost or landed late and wherever *)
(* a process stopped (SavePending, Fence, Promote, cfRotate, refused).      *)
THEOREM ReceivingNeverStranded == Spec => []HolderKnown
<1>1. Init => KeyInv /\ RotationInv
  BY KeyInit, RotationInit
<1>2. KeyInv /\ RotationInv /\ [Next]_vars => (KeyInv /\ RotationInv)'
  BY KeyStep, RotationStep
<1>3. RotationInv => HolderKnown
  BY DEF RotationInv
<1> QED
  BY <1>1, <1>2, <1>3, PTL DEF Spec

-----------------------------------------------------------------------------
(* Credentials of its own making that the Worker has are pending on an      *)
(* instance, or it has moved on from them.                                  *)
OwnWorker ==
  \A h \in Hosts : worker.by = h =>
    up[h] /\ (worker.id = pending[h].id \/ worker.epoch <= cur[h].epoch)

(* An instance that the Worker has moved past did not make its credentials. *)
LEMMA PassedByOther ==
  ASSUME KeyInv, RotationInv, OwnWorker, NEW h \in Hosts, Passed(h),
         pending[h].id # worker.id \/ pending[h].id = cur[h].id
  PROVE  worker.by # h
<1> SUFFICES ASSUME worker.by = h PROVE FALSE
  OBVIOUS
<1>1. /\ cur[h].epoch \in Nat /\ worker.epoch \in Nat /\ up[h]
      /\ worker.id = pending[h].id \/ worker.epoch <= cur[h].epoch
  BY DEF KeyInv, KeyTypes, RotationInv, RotationTypes, Raw, OwnWorker
<1>2. Installed(cur[h])
  BY <1>1 DEF RotationInv, UsedInstalled
<1> QED
  BY <1>1, <1>2 DEF Installed, Passed

(* When an instance is fenced, the Worker has moved past it.                *)
LEMMA FencedIsPassed ==
  ASSUME KeyInv, RotationInv, NEW h \in Hosts, Fence(h), ConfirmRotate(h) \/ Refused(h),
         pending[h].id # 0 \/ marker[h] # 0
  PROVE  /\ Passed(h)
         /\ pending[h].id # worker.id \/ pending[h].id = cur[h].id
<1>1. marker'[h] = 0 /\ pending'[h] = NoMaterial /\ NoMaterial.id = 0
  BY DEF Fence, NoMaterial, KeyInv, KeyTypes
<1>2. ~UNCHANGED keys
  BY <1>1 DEF keys
<1>3. CASE ConfirmRotate(h)
  BY <1>2, <1>3 DEF ConfirmRotate, RotationInv, AnswersTrue
<1>4. CASE Refused(h)
  BY <1>2, <1>4 DEF Refused, RotationInv, AnswersTrue, LoadPending, Interrupted
<1> QED
  BY <1>3, <1>4

LEMMA OwnInit == Init => OwnWorker
<1> SUFFICES ASSUME Init, NEW h \in Hosts, worker.by = h PROVE up[h] /\ worker.epoch <= cur[h].epoch
  BY DEF OwnWorker
<1>1. worker = [id |-> 1, epoch |-> 1, by |-> Origin] /\ h = Origin /\ cur[h] = worker
  BY DEF Init
<1>2. up[h]
  BY <1>1, Zenon DEF Init
<1> QED
  BY <1>1, <1>2

LEMMA OwnStep == KeyInv /\ RotationInv /\ OwnWorker /\ [Next]_vars => OwnWorker'
<1> SUFFICES ASSUME KeyInv, RotationInv, OwnWorker, [Next]_vars PROVE OwnWorker'
  OBVIOUS
<1>a. /\ \A g \in Hosts : cur[g] \in Raw /\ pending[g] \in Raw
      /\ worker \in Raw /\ worker.id # 0
      /\ \A n \in Raw : n.epoch \in Nat /\ n.id \in Nat
      /\ up \in [Hosts -> BOOLEAN]
  BY DEF KeyInv, KeyTypes, RotationInv, RotationTypes, Raw
(* A step that leaves the files alone and installs at most what a host has  *)
(* pending.                                                                 *)
<1>q. ASSUME UNCHANGED <<cur, pending, up>>,
             worker' = worker \/ \E g \in Hosts : pending[g].id # 0 /\ worker' = pending[g]
      PROVE  OwnWorker'
  <2>1. CASE worker' = worker
    BY <1>q, <2>1 DEF OwnWorker
  <2>2. CASE \E g \in Hosts : pending[g].id # 0 /\ worker' = pending[g]
    <3>1. PICK g \in Hosts : pending[g].id # 0 /\ worker' = pending[g]
      BY <2>2
    <3>2. worker'.by = g /\ up[g]
      BY <3>1, Holding DEF KeyInv, PendingOwn
    <3> QED
      BY <1>q, <3>1, <3>2 DEF OwnWorker
  <2> QED
    BY <1>q, <2>1, <2>2
<1>f. ASSUME NEW h \in Hosts, Fence(h), ConfirmRotate(h) \/ Refused(h) PROVE OwnWorker'
  <2>1. /\ cur' = cur /\ worker' = worker /\ up' = up
        /\ \A g \in Hosts : g # h => pending'[g] = pending[g]
    BY <1>f DEF Fence, ConfirmRotate, Refused, cloud, rest, KeyInv, KeyTypes
  <2>2. CASE pending[h].id # 0
    BY <1>f, <2>1, <2>2, FencedIsPassed, PassedByOther DEF OwnWorker
  <2>3. CASE pending[h].id = 0
    BY <1>a, <2>1, <2>3 DEF OwnWorker
  <2> QED
    BY <2>2, <2>3
<1>1. ASSUME NEW h \in Hosts, StartRotate(h) PROVE OwnWorker'
  <2>1. worker' = worker /\ cur' = cur /\ up' = up
    BY <1>1 DEF StartRotate, SavePending, cloud, keys
  <2>2. CASE UNCHANGED keys
    BY <2>1, <2>2, <1>q DEF keys
  <2>3. CASE /\ ~(LoadPending(h).id # 0 /\ LoadPending(h).epoch = cur[h].epoch + 1)
             /\ \A g \in Hosts : g # h => pending'[g] = pending[g]
    <3>1. pending[h].id = 0 \/ pending[h] = cur[h]
      BY <2>3, <1>a DEF LoadPending, Interrupted, RotationInv, PendingNext
    <3>2. worker.id = pending[h].id => worker.epoch <= cur[h].epoch
      BY <1>a, <3>1 DEF RotationInv, PendingNext
    <3> QED
      BY <2>1, <2>3, <3>2 DEF OwnWorker
  <2> QED
    BY <1>1, <2>2, <2>3 DEF StartRotate, SavePending, KeyInv, KeyTypes
<1>2. ASSUME NEW h \in Hosts, SendRotate(h) PROVE OwnWorker'
  <2>1. UNCHANGED <<cur, pending, up>> /\ pending[h].id # 0
    BY <1>2 DEF SendRotate, keys, rest, KeyInv, StepsSaved
  <2>2. worker' = worker \/ worker' = pending[h]
    BY <1>2 DEF SendRotate
  <2> QED
    BY <2>1, <2>2, <1>q
<1>3. ASSUME NEW h \in Hosts, Promote(h) PROVE OwnWorker'
  <2>1. /\ pending[h].id # 0 /\ UNCHANGED <<worker, pending, up>>
        /\ \A g \in Hosts : cur'[g] = IF g = h THEN pending[h] ELSE cur[g]
    BY <1>3 DEF Promote, cloud, rest, KeyInv, KeyTypes, StepsSaved
  <2>2. cur[h].epoch <= pending[h].epoch
    BY <1>a, <2>1 DEF RotationInv, PendingNext
  <2> QED
    BY <1>a, <2>1, <2>2 DEF OwnWorker
<1>4. ASSUME NEW h \in Hosts, PromoteHost(h) PROVE OwnWorker'
  <2>1. /\ pending[h].id # 0 /\ cur[h].id = pending[h].id /\ UNCHANGED <<worker, cur, up>>
        /\ \A g \in Hosts : g # h => pending'[g] = pending[g]
    BY <1>4 DEF PromoteHost, cloud, rest, KeyInv, KeyTypes, StepsSaved
  <2>2. worker.id = pending[h].id => worker.epoch <= cur[h].epoch
    BY <1>a, <2>1 DEF RotationInv, PendingNext
  <2> QED
    BY <2>1, <2>2 DEF OwnWorker
<1>5. ASSUME NEW h \in Hosts, Restore(h) PROVE OwnWorker'
  <2>1. /\ ~up[h] /\ UNCHANGED <<worker, pending>>
        /\ \A g \in Hosts : g # h => cur'[g] = cur[g] /\ up'[g] = up[g]
    BY <1>5, <1>a DEF Restore, cloud, KeyInv, KeyTypes
  <2>2. worker.by # h
    BY <2>1 DEF OwnWorker
  <2> QED
    BY <2>1, <2>2 DEF OwnWorker
<1>6. ASSUME NEW h \in Hosts, ConfirmRotate(h) \/ Refused(h) PROVE OwnWorker'
  <2>1. Fence(h) \/ UNCHANGED keys
    BY <1>6 DEF ConfirmRotate, Refused
  <2>2. CASE UNCHANGED keys
    BY <1>6, <2>2, <1>q DEF ConfirmRotate, Refused, cloud, keys, rest
  <2> QED
    BY <1>6, <2>1, <2>2, <1>f
<1>7. CASE RotationLands
  <2>1. PICK r \in inflight : worker' = IF Installs(r) THEN r.next ELSE worker
    BY <1>7 DEF RotationLands
  <2>2. CASE Installs(r)
    <3>1. ~(r.next.epoch <= worker.epoch)
      BY <1>a, <2>2 DEF Installs
    <3>2. \E g \in Hosts : r.next = pending[g]
      BY <2>1, <3>1 DEF RotationInv, LateOrPending
    <3>3. r.next.id # 0
      BY <2>1 DEF RotationInv, RotationTypes
    <3> QED
      BY <1>7, <2>1, <2>2, <3>2, <3>3, <1>q DEF RotationLands, keys, rest
  <2>3. CASE ~Installs(r)
    BY <1>7, <2>1, <2>3, <1>q DEF RotationLands, keys, rest
  <2> QED
    BY <2>2, <2>3
<1>8. ASSUME NEW h \in Hosts, Begin(h) \/ Request(h) \/ Crash(h) \/ Backup(h) PROVE OwnWorker'
  BY <1>8, <1>q DEF Begin, Request, Crash, Backup, cloud, keys, rest
<1>9. CASE UNCHANGED vars
  BY <1>9, <1>q DEF vars, cloud, keys, rest
<1> QED
  BY <1>1, <1>2, <1>3, <1>4, <1>5, <1>6, <1>7, <1>8, <1>9 DEF Next, OperatorStep, DaemonStep

(* An instance is fenced only by another one's installed credentials: its   *)
(* own rotation with a lost answer, or one that landed late, never looks    *)
(* like a takeover (refused, cfRotate).                                     *)
THEOREM FencedOnlyByOthers == Spec => FencedByOther
<1> DEFINE Inv == KeyInv /\ RotationInv /\ OwnWorker
           Fences == \A h \in Hosts : marker[h] # 0 /\ marker'[h] = 0 => worker.by # h
<1>1. Init => Inv
  BY KeyInit, RotationInit, OwnInit
<1>2. Inv /\ [Next]_vars => Inv'
  BY KeyStep, RotationStep, OwnStep
<1>3. Inv /\ [Next]_vars => [Fences]_vars
  <2> SUFFICES ASSUME Inv, Next, NEW h \in Hosts, marker[h] # 0, marker'[h] = 0 PROVE worker.by # h
    OBVIOUS
  <2>1. CASE Restore(h)
    BY <2>1 DEF Restore, OwnWorker
  <2>2. CASE Fence(h) /\ (ConfirmRotate(h) \/ Refused(h))
    BY <2>2, FencedIsPassed, PassedByOther
  <2>3. marker'[h] = marker[h] \/ Restore(h) \/ (Fence(h) /\ (ConfirmRotate(h) \/ Refused(h)))
    <3>1. ASSUME NEW g \in Hosts, StartRotate(g) \/ SendRotate(g) \/ Promote(g) \/ Begin(g)
                                  \/ Request(g) \/ Crash(g) \/ Backup(g)
          PROVE  marker' = marker
      BY <3>1 DEF StartRotate, SavePending, SendRotate, Promote, Begin, Request, Crash, Backup, keys
    <3>2. ASSUME NEW g \in Hosts, ConfirmRotate(g) \/ Refused(g)
          PROVE  marker' = marker \/ Fence(g)
      BY <3>2 DEF ConfirmRotate, Refused, keys
    <3>3. ASSUME NEW g \in Hosts, Fence(g) \/ Restore(g), g # h PROVE marker'[h] = marker[h]
      BY <3>3 DEF Fence, Restore, KeyInv, KeyTypes
    <3>4. ASSUME NEW g \in Hosts, PromoteHost(g) PROVE marker'[h] = marker[h]
      <4>1. cur[g].id # 0
        BY <3>4 DEF PromoteHost, KeyInv, StepsSaved
      <4> QED
        BY <3>4, <4>1 DEF PromoteHost, KeyInv, KeyTypes
    <3>5. CASE RotationLands
      BY <3>5 DEF RotationLands, keys
    <3> QED
      BY <3>1, <3>2, <3>3, <3>4, <3>5 DEF Next, OperatorStep, DaemonStep
  <2> QED
    BY <2>1, <2>2, <2>3
<1> QED
  BY <1>1, <1>2, <1>3, PTL DEF Spec, FencedByOther
=============================================================================
