------------------------------ MODULE MCIngress -----------------------------
(* Small instances of Ingress: two mailboxes, each with an address.         *)
EXTENDS Ingress, TLC

CONSTANTS a1, a2, p1, d1

Owns == [a \in {a1, a2} |-> IF a = a1 THEN 1 ELSE 2]
=============================================================================
