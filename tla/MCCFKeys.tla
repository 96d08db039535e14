------------------------------- MODULE MCCFKeys -----------------------------
(* A small instance of CFKeys: the original and two restored copies.        *)
EXTENDS CFKeys, TLC

CONSTANTS a, b, c

Symmetry == Permutations({b, c})
=============================================================================
