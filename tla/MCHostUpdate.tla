---------------------------- MODULE MCHostUpdate ----------------------------
(* Small instances of HostUpdate. *)
EXTENDS HostUpdate, TLC

CONSTANTS u1, u2, r1, r2
=============================================================================
