-------------------------- MODULE MCSessionOutbox --------------------------
(* Small instances of SessionOutbox: three messages, one of them not from a  *)
(* Matrix room, a session that is started twice.                             *)
EXTENDS SessionOutbox, TLC

CONSTANTS m1, m2, w

MCMsg == {m1, m2, w}
MCMatrix == {m1, m2}

\* The two Matrix messages are interchangeable (safety only).
MatrixSymmetry == Permutations(MCMatrix)
=============================================================================
