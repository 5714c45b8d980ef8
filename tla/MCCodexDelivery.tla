--------------------------- MODULE MCCodexDelivery ---------------------------
(* Small instances of CodexDelivery: three Matrix messages, or a Matrix      *)
(* message and /compact from a WebSocket, which may also be retried.         *)
EXTENDS CodexDelivery, TLC

CONSTANTS m1, m2, m3

MCTrio == {m1, m2, m3}
MCMixed == {m1, m3}
MCOne == {m1}
MCCompact == {m3}
MCNoCompact == {}

\* Messages of the same kind are interchangeable (safety only).
TrioSymmetry == Permutations(MCTrio)
=============================================================================
