--------------------------- MODULE MCScheduledSend --------------------------
(* Small instances of ScheduledSend.                                        *)
EXTENDS ScheduledSend, TLC

CONSTANTS w1, w2, ann

OneUser  == [r \in 1 .. Count |-> ann]
=============================================================================
