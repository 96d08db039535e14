---------------------------- MODULE OutboxRefines ---------------------------
(* The outbox implements OneShotDelivery: the durable rows are the phases,  *)
(* with queued and retryable both waiting and a submitting row attempted    *)
(* until somebody records its outcome.                                      *)
EXTENDS Outbox

PhaseOf(s) ==
  CASE s = "absent"      -> "absent"
    [] s \in Unclaimed   -> "waiting"
    [] s = "submitting"  -> "attempted"
    [] s = "uncertain"   -> "unknown"
    [] s = "quarantined" -> "withdrawn"
    [] s \in Final       -> s

Abstract == INSTANCE OneShotDelivery WITH
  phase <- [j \in Jobs |-> [i \in Seqs |-> PhaseOf(state[j][i])]],
  taken <- handed

(* Every step of the requests, the workers, the relay and the environment   *)
(* is a step of the one-shot delivery promise or leaves it unchanged: no    *)
(* second hand-over, no outcome that claims more than the relay did, no     *)
(* follow-on attempted ahead of its primary.                                *)
ImplementsOneShot == Abstract!Spec
=============================================================================
