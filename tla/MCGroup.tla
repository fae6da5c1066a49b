------------------------------ MODULE MCGroup ------------------------------
(* Small instances of Group for TLC.                                       *)
EXTENDS Group, TLC

CONSTANTS a, b, c

\* The members other than the admin are interchangeable.
Symmetry == Permutations(Nodes \ {Admin})
============================================================================
