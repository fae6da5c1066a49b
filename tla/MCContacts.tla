---------------------------- MODULE MCContacts ----------------------------
(* Small instances of Contacts for TLC.                                    *)
EXTENDS Contacts, TLC

CONSTANTS u1, u2

\* Two clients run the same commands.
Symmetry == Permutations(Users)
===========================================================================
