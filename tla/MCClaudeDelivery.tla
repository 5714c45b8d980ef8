-------------------------- MODULE MCClaudeDelivery --------------------------
(* Small instances of ClaudeDelivery: two Matrix messages and one from a     *)
(* WebSocket, or three Matrix messages.                                      *)
EXTENDS ClaudeDelivery, TLC

CONSTANTS m1, m2, m3

MCMsg == {m1, m2, m3}
MCMatrix == {m1, m2}

\* Messages of the same kind are interchangeable (safety only).
MatrixSymmetry == Permutations(MCMatrix)
=============================================================================
