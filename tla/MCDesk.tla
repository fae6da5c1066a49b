------------------------------- MODULE MCDesk -------------------------------
(* Small instances of Desk for TLC.                                        *)
EXTENDS Desk, TLC

CONSTANTS k1, k2, c1, c2, p1

\* Connections are interchangeable.
Symmetry == Permutations(Conns)
=============================================================================
