--------------------------- MODULE OneShotDelivery --------------------------
(***************************************************************************)
(* What the outbox promises of a group of deliveries, without rows,        *)
(* claims, workers or crashes: each delivery waits, is attempted by one    *)
(* party at a time, is taken by the relay at most once, and ends in an     *)
(* outcome that says no more than what is known.  A follow-on is attempted *)
(* only after its primary was accepted.                                    *)
(***************************************************************************)
EXTENDS Naturals

CONSTANTS Jobs, Seqs

VARIABLES
  phase,  \* where each delivery of each job stands
  taken   \* how often the relay took it

vars == <<phase, taken>>

Phases == {"absent", "waiting", "attempted", "accepted", "failed", "unknown", "withdrawn"}

Init ==
  /\ phase = [j \in Jobs |-> [i \in Seqs |-> "absent"]]
  /\ taken = [j \in Jobs |-> [i \in Seqs |-> 0]]

Enter(j) ==
  /\ \A i \in Seqs : phase[j][i] = "absent"
  /\ \E new \in [Seqs -> {"absent", "waiting"}] :
       /\ new[0] = "waiting"
       /\ phase' = [phase EXCEPT ![j] = new]
  /\ UNCHANGED taken

Attempt(j, i) ==
  /\ phase[j][i] = "waiting"
  /\ i = 0 \/ phase[j][0] = "accepted"
  /\ phase' = [phase EXCEPT ![j][i] = "attempted"]
  /\ UNCHANGED taken

Take(j, i) ==
  /\ phase[j][i] = "attempted" /\ taken[j][i] = 0
  /\ taken' = [taken EXCEPT ![j][i] = 1]
  /\ UNCHANGED phase

Settle(j, i) ==
  /\ phase[j][i] = "attempted"
  /\ \/ taken[j][i] = 1 /\ phase' = [phase EXCEPT ![j][i] = "accepted"]
     \/ taken[j][i] = 0 /\ phase' = [phase EXCEPT ![j][i] = "failed"]
     \/ taken[j][i] = 0 /\ phase' = [phase EXCEPT ![j][i] = "waiting"]
     \/ phase' = [phase EXCEPT ![j][i] = "unknown"]
  /\ UNCHANGED taken

Withdraw(j, i) ==
  /\ phase[j][i] = "waiting"
  /\ phase' = [phase EXCEPT ![j][i] = "withdrawn"]
  /\ UNCHANGED taken

Next ==
  \E j \in Jobs :
    \/ Enter(j)
    \/ \E i \in Seqs : Attempt(j, i) \/ Take(j, i) \/ Settle(j, i) \/ Withdraw(j, i)

Spec == Init /\ [][Next]_vars
=============================================================================
