--------------------------- MODULE MCLogRedirection ---------------------------
(* Instance of LogRedirection for TLC. *)
EXTENDS LogRedirection

CONSTANTS hostA, hostB, b1, b2, b3
=============================================================================
