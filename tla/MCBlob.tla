------------------------------- MODULE MCBlob -------------------------------
(* A small instance of Blob for TLC.                                       *)
EXTENDS Blob, TLC
=============================================================================
