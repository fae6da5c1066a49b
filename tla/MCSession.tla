----------------------------- MODULE MCSession -----------------------------
(* Small instances of Session for TLC.                                     *)
EXTENDS Session, TLC

CONSTANTS a1, a2, b1, b2, s1

\* Node 1 writes the a's, node 2 the b's; the service payload is node 1's.
Authors == [i \in Items |-> IF i \in {b1, b2} THEN 2 ELSE 1]
===========================================================================
