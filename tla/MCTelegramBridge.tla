-------------------------- MODULE MCTelegramBridge --------------------------
(* Small instances of TelegramBridge. *)
EXTENDS TelegramBridge
=============================================================================
