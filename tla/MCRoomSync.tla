----------------------------- MODULE MCRoomSync -----------------------------
(* A small instance of RoomSync: one room that every client follows.         *)
EXTENDS RoomSync

CONSTANTS r1, c1, c2, b1, b2, w1, w2

MCHome == [c \in Client |-> r1]
=============================================================================
