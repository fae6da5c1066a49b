------------------------------ MODULE MCCalls ------------------------------
(* Small instances of Calls for TLC.                                       *)
EXTENDS Calls, TLC

CONSTANTS c1, c2

\* Either node may start either call.
Symmetry == Permutations(CallIds)
===========================================================================
