------------------------------ MODULE MCCFPickup ----------------------------
(* A small instance of CFPickup: the original, a restored copy, one message.*)
EXTENDS CFPickup, TLC

CONSTANTS a, b, k1
=============================================================================
