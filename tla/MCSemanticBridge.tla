------------------------- MODULE MCSemanticBridge -------------------------
(* A small instance of SemanticBridge: two turns. *)
EXTENDS SemanticBridge

CONSTANTS t1, t2
===========================================================================
