-------------------------- MODULE DeliveryPromise --------------------------
(***************************************************************************)
(* What the Host promises about the messages users send to an agent.  A    *)
(* tracked message is accepted once, and then either withdrawn or          *)
(* delivered, never both and never twice.  Other messages may be delivered *)
(* again.  No queue, turn, watchdog, restart or retry shows here.          *)
(***************************************************************************)
EXTENDS Naturals, Sequences

CONSTANTS
    Message,  \* what users send
    Tracked   \* those of them with an intake record

VARIABLES
    fate,  \* what became of each tracked message
    log    \* the messages the agent received, in order

Accept(m) ==
    /\ fate[m] = "unknown" /\ fate' = [fate EXCEPT ![m] = "accepted"]
    /\ UNCHANGED log

Withdraw(m) ==
    /\ fate[m] = "accepted" /\ fate' = [fate EXCEPT ![m] = "withdrawn"]
    /\ UNCHANGED log

Deliver(m) ==
    /\ fate[m] = "accepted" /\ fate' = [fate EXCEPT ![m] = "delivered"]
    /\ log' = Append(log, m)

DeliverUntracked(m) == log' = Append(log, m) /\ UNCHANGED fate

PromiseInit == fate = [m \in Tracked |-> "unknown"] /\ log = <<>>

PromiseNext ==
    \/ \E m \in Tracked : Accept(m) \/ Withdraw(m) \/ Deliver(m)
    \/ \E m \in Message \ Tracked : DeliverUntracked(m)

PromiseSpec == PromiseInit /\ [][PromiseNext]_<<fate, log>>
=============================================================================
