----------------------------- MODULE MCRatchet -----------------------------
(* A small instance of Ratchet for TLC.                                    *)
EXTENDS Ratchet, TLC

CONSTANTS initiator, responder
============================================================================
