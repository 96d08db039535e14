------------------------------ MODULE MCOutbox ------------------------------
(* Small instances of Outbox: a request and a recovery worker, one job with *)
(* two delivery groups.                                                     *)
EXTENDS OutboxRefines, TLC

CONSTANTS api, j1
=============================================================================
