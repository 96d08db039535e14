---------------------------- MODULE MCSendLedger ----------------------------
(* A small ledger: windows of 2 and 5 ticks, at most two messages an hour   *)
(* and five recipients a day.                                               *)
EXTENDS SendLedger, TLC

CONSTANTS a, b, c, d, e
Symmetry == Permutations({a, b, c, d, e})
=============================================================================
