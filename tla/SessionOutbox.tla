--------------------------- MODULE SessionOutbox ---------------------------
(***************************************************************************)
(* The Host's delivery of user messages to a coding agent: the outbox of   *)
(* one session (host-service/session-manager.mjs) together with the Host2  *)
(* intake records that decide who may hand a Matrix message to the agent   *)
(* (host-service/matrix-event-correlator.mjs).                             *)
(*                                                                         *)
(* Node runs one handler at a time, so a handler is one action, with every *)
(* call it makes; the drain that ends most handlers is the operator Drain. *)
(* The provider adapter is left open here: any event it can emit may come  *)
(* at any time.  ClaudeDelivery closes the system with a real adapter.     *)
(***************************************************************************)
EXTENDS Naturals, Sequences

CONSTANTS
    Msg,          \* user messages
    Matrix,       \* those that came through a Matrix room (the others: WebSocket)
    Provider,     \* "claude" or "codex"
    None,         \* no message
    MaxSessions,  \* bound: how often the session is started
    MaxHandOffs   \* bound: hand-offs after which the user no longer retries

ASSUME MsgAssumption == Matrix \subseteq Msg /\ None \notin Msg
ASSUME ProviderAssumption == Provider \in {"claude", "codex"}
ASSUME BoundAssumption == MaxSessions \in Nat /\ MaxHandOffs \in Nat

VARIABLES
    outbox,    \* _outbox, by message: state, sequence, claimed, final
    nextSeq,   \* _nextOutboxSequence
    active,    \* _activeOutboxMessageId
    progress,  \* _activeOutboxProgressSeen
    delivery,  \* _deliveryState
    alive,     \* session.alive
    present,   \* the session is in the manager's map
    intake,    \* host2_intake_state of each Matrix message
    epoch,     \* number of times the session was started
    handed     \* history: every adapter.sendMessage, in order

vars == <<outbox, nextSeq, active, progress, delivery, alive, present, intake,
          epoch, handed>>

MsgStates == {"absent", "queued", "dispatching", "running", "completed",
              "failed", "interrupted", "canceled", "ambiguous"}
IntakeStates == {"none", "queued", "canceled", "starting", "started"}
DeliveryStates == {"starting", "ready", "interrupting"}

Entry == [state : MsgStates, seq : Nat, claimed : BOOLEAN, final : BOOLEAN]
Fresh(s, n) == [state |-> s, seq |-> n, claimed |-> FALSE, final |-> FALSE]
Absent == Fresh("absent", 0)
HandOff == [msg : Msg, session : Nat, seq : Nat]

-----------------------------------------------------------------------------
(* Reading the outbox *)

Queued(ob) == {m \in Msg : ob[m].state = "queued"}

\* Fault: the newest entry instead of the oldest.
Newest(ob, S) == {m \in S : \A n \in S : ob[m].seq >= ob[n].seq}

\* The entry of S that was enqueued first, as a set.
First(ob, S) == {m \in S : \A n \in S : ob[m].seq <= ob[n].seq}

\* Fault: only a canceled intake refuses, a claimed one is claimed again.
ClaimTwice(m) == m \notin Matrix \/ intake[m] # "canceled"

\* The intake record lets the Host hand the message over: a message without a
\* Matrix delivery needs no claim.
Claimable(m) == m \notin Matrix \/ intake[m] = "queued"

\* Only messages claimed for Claude are watched for a final event.
ClaimedClaude(ob, m) == Provider = "claude" /\ ob[m].claimed

SetState(ob, m, s) == [ob EXCEPT ![m].state = s]

-----------------------------------------------------------------------------
(* Draining: hand the first claimable message over; the queued messages in  *)
(* front of it are refused by the intake and end here.                      *)

\* What the drain finds once the outbox is ob, the active message act and the
\* delivery state d.
CanDrain(act, d) == alive /\ d = "ready" /\ act = None

NextOut(ob, act, d) ==
    LET first == First(ob, {m \in Queued(ob) : Claimable(m)})
    IN  IF CanDrain(act, d) /\ first # {} THEN CHOOSE m \in first : TRUE ELSE None

Refused(ob, act, d) ==
    LET next == NextOut(ob, act, d)
    IN  {m \in Queued(ob) : /\ CanDrain(act, d)
                            /\ ~Claimable(m)
                            /\ next # None => ob[m].seq < ob[next].seq}

Dispatched(ob, m) ==
    [state |-> "dispatching", seq |-> ob[m].seq, claimed |-> m \in Matrix, final |-> FALSE]

Turned(ob, m) ==
    [state |-> IF intake[m] = "canceled" THEN "canceled" ELSE "failed",
     seq |-> ob[m].seq, claimed |-> FALSE, final |-> FALSE]

Drain(ob, act, pg, d) ==
    LET next == NextOut(ob, act, d)
        out  == Refused(ob, act, d)
    IN  /\ outbox' = [m \in Msg |-> IF m = next THEN Dispatched(ob, m)
                                    ELSE IF m \in out THEN Turned(ob, m)
                                    ELSE ob[m]]
        /\ active' = IF next # None THEN next ELSE act
        /\ progress' = IF next # None \/ out # {} THEN FALSE ELSE pg
        /\ delivery' = d
        /\ intake' = [m \in Matrix |-> IF m = next THEN "starting" ELSE intake[m]]
        /\ handed' = IF next = None THEN handed
                     ELSE Append(handed, [msg |-> next, session |-> epoch,
                                          seq |-> ob[next].seq])

\* A handler that changes the outbox and drains nothing.
NoDrain(ob, act, pg, d) ==
    /\ outbox' = ob /\ active' = act /\ progress' = pg /\ delivery' = d
    /\ UNCHANGED <<intake, handed>>

SameSession == UNCHANGED <<nextSeq, alive, present, epoch>>

-----------------------------------------------------------------------------
(* Intake: the Matrix side accepts a message, the user may withdraw it.     *)

\* Fault: the record is left pending.
ReceiptPending(m) ==
    /\ m \in Matrix /\ intake[m] = "none"
    /\ intake' = [intake EXCEPT ![m] = "pending"]
    /\ UNCHANGED <<outbox, nextSeq, active, progress, delivery, alive, present,
                   epoch, handed>>

\* The Matrix event is committed and its Host2 receipt recorded.
Receipt(m) ==
    /\ m \in Matrix /\ intake[m] = "none"
    /\ intake' = [intake EXCEPT ![m] = "queued"]
    /\ UNCHANGED <<outbox, nextSeq, active, progress, delivery, alive, present,
                   epoch, handed>>

\* Fault: no too-late check.
CancelTooLate(m) ==
    /\ m \in Matrix /\ intake[m] \in {"queued", "starting"}
    /\ intake' = [intake EXCEPT ![m] = "canceled"]
    /\ UNCHANGED <<outbox, nextSeq, active, progress, delivery, alive, present,
                   epoch, handed>>

\* Cancel on the intake; every other state answers 409 or 200 and changes nothing.
CancelIntake(m) ==
    /\ m \in Matrix /\ intake[m] = "queued"
    /\ intake' = [intake EXCEPT ![m] = "canceled"]
    /\ UNCHANGED <<outbox, nextSeq, active, progress, delivery, alive, present,
                   epoch, handed>>

-----------------------------------------------------------------------------
(* The user's side of the outbox *)

\* A message reaches the session.  A second delivery of a message the outbox
\* still holds finds it by its id and changes nothing.
Enqueue(m) ==
    /\ present /\ outbox[m].state = "absent"
    /\ m \in Matrix => intake[m] # "none"
    /\ nextSeq' = nextSeq + 1
    /\ Drain([outbox EXCEPT ![m] = Fresh("queued", nextSeq)],
             active, progress, delivery)
    /\ UNCHANGED <<alive, present, epoch>>

\* /install_oysterun_skill runs on the Host and never reaches the provider.
RunLocalCommand(m) ==
    /\ present /\ outbox[m].state = "absent"
    /\ m \in Matrix => intake[m] # "none"
    /\ nextSeq' = nextSeq + 1
    /\ \E s \in {"completed", "failed"} :
           NoDrain([outbox EXCEPT ![m] = Fresh(s, nextSeq)],
                   active, progress, delivery)
    /\ UNCHANGED <<alive, present, epoch>>

\* Fault: cancel without looking at the state.
CancelAnyMessage(m) ==
    /\ present /\ m # active /\ outbox[m].state # "absent"
    /\ NoDrain(SetState(outbox, m, "canceled"), active, progress, delivery)
    /\ SameSession

CancelOutboxMessage(m) ==
    /\ present /\ m # active /\ outbox[m].state = "queued"
    /\ NoDrain(SetState(outbox, m, "canceled"), active, progress, delivery)
    /\ SameSession

RetryOutboxMessage(m) ==
    /\ present /\ m = active /\ outbox[m].state = "ambiguous"
    /\ Len(handed) < MaxHandOffs
    /\ Drain(SetState(outbox, m, "queued"), None, FALSE, delivery)
    /\ SameSession

SkipOutboxMessage(m) ==
    /\ present /\ m = active /\ outbox[m].state = "ambiguous"
    /\ Drain(SetState(outbox, m, "canceled"), None, FALSE, delivery)
    /\ SameSession

\* The adapter accepts the interrupt, refuses it (nothing to interrupt) or
\* throws because the process is gone; a refusal resets the state to ready and
\* does not drain.
InterruptSession(accepted) ==
    /\ present /\ delivery # "interrupting"
    /\ NoDrain(outbox, active, progress,
               IF accepted THEN "interrupting" ELSE "ready")
    /\ SameSession

-----------------------------------------------------------------------------
(* What the provider reports *)

\* noteOutboxProgress on the active message.  A final event (assistant text, a
\* control request, a runtime error) satisfies the watch on a claimed message,
\* a tool event reopens it, anything else only shows that the turn is running.
Noted(kind) ==
    IF active = None THEN outbox
    ELSE [outbox EXCEPT ![active] =
            [state |-> "running", seq |-> @.seq, claimed |-> @.claimed,
             final |-> IF ClaimedClaude(outbox, active) /\ kind \in {"final", "tool"}
                       THEN kind = "final" ELSE @.final]]

\* Claimed messages the completion of a turn may still be about.
Unresolved == {m \in Msg : /\ ClaimedClaude(outbox, m) /\ ~outbox[m].final
                           /\ outbox[m].state \notin {"absent", "failed", "canceled"}}

\* Fault: a completion is never checked for a final event.
AttributedNever == None

\* The message a completion event is attributed to: the active one when it is
\* claimed, else the only unresolved one.
Attributed ==
    IF active # None /\ ClaimedClaude(outbox, active) THEN active
    ELSE IF \E m \in Msg : Unresolved = {m} THEN CHOOSE m \in Msg : Unresolved = {m}
    ELSE None

\* m fails for want of a final event, whatever message is active loses its
\* place, and the outbox drains.
FailUnanswered(m) == Drain(SetState(outbox, m, "failed"), None, FALSE, delivery)

ProviderReady ==
    /\ present /\ alive
    /\ Drain(outbox, active, progress, "ready")
    /\ SameSession

\* Codex announces each turn once; the intake record follows.
TurnStarted ==
    /\ present /\ alive /\ Provider = "codex"
    /\ active # None
    /\ active \in Matrix => intake[active] = "starting"
    /\ outbox' = SetState(outbox, active, "running")
    /\ intake' = [m \in Matrix |-> IF m = active THEN "started" ELSE intake[m]]
    /\ progress' = TRUE
    /\ UNCHANGED <<active, delivery, handed>>
    /\ SameSession

ProviderOutput(kind) ==
    /\ present /\ alive /\ active # None
    /\ NoDrain(Noted(kind), active, TRUE, delivery)
    /\ SameSession

\* Fault: the failed message is not followed by a drain.
AuthErrorNoDrain ==
    /\ present /\ alive /\ active \in Matrix
    /\ NoDrain(SetState(outbox, active, "failed"), None, FALSE, delivery)
    /\ SameSession

\* A runtime.error event that reads as an authentication failure ends a Matrix
\* message at once; any other error counts as output.
AuthError ==
    /\ present /\ alive /\ active \in Matrix
    /\ Drain(SetState(outbox, active, "failed"), None, FALSE, delivery)
    /\ SameSession

\* Fault: the delivery stays interrupted.
ResumedNever == delivery

\* The end of a turn ends an interrupt.
Resumed == IF delivery = "interrupting" THEN "ready" ELSE delivery

\* A turn ended.  A claimed message that completes without a final event fails
\* instead; otherwise the completion ends an interrupt and the active message.
TurnCompleted(status) ==
    LET ended == CASE status = "interrupted" -> IF progress THEN "interrupted" ELSE "canceled"
                   [] OTHER -> status
        unanswered == /\ status = "completed" /\ Attributed # None
                      /\ ~outbox[Attributed].final
    IN  /\ present /\ alive
        /\ \/ unanswered /\ FailUnanswered(Attributed)
           \/ /\ ~unanswered /\ active # None
              /\ Drain(SetState(outbox, active, ended), None, FALSE, Resumed)
           \/ /\ ~unanswered /\ active = None
              /\ IF delivery = "interrupting"
                 THEN Drain(outbox, None, progress, Resumed)
                 ELSE NoDrain(outbox, None, progress, delivery)
        /\ SameSession

\* The adapter's error callback (Codex): after progress nobody knows how far
\* the turn got, and the message blocks the outbox until the user decides.  An
\* error of the process itself also ends the session's life, not its entry.
AdapterError(fatal) ==
    LET unsure == SetState(outbox, active, "ambiguous")
        ended  == SetState(outbox, active, "failed")
    IN  /\ present /\ alive /\ Provider = "codex"
        /\ active # None \/ fatal
        /\ alive' = ~fatal
        /\ \/ active = None /\ NoDrain(outbox, active, progress, delivery)
           \/ active # None /\ progress /\ NoDrain(unsure, active, progress, delivery)
           \/ active # None /\ ~progress /\ fatal
                /\ NoDrain(ended, None, FALSE, delivery)
           \/ active # None /\ ~progress /\ ~fatal
                /\ Drain(ended, None, FALSE, delivery)
        /\ UNCHANGED <<nextSeq, present, epoch>>

\* The no-output watchdog (its timers, and every poll of the session) finds m.
WatchdogFires(m) ==
    /\ present /\ m \in Unresolved /\ outbox[m].state # "queued"
    /\ FailUnanswered(m)
    /\ SameSession

-----------------------------------------------------------------------------
(* The session's life *)

\* The process is gone: the active message is left ambiguous and the session is
\* dropped with its outbox, so nobody can retry or skip it any more.
ProviderExit ==
    /\ present
    /\ alive' = FALSE /\ present' = FALSE
    /\ outbox' = IF active = None THEN outbox
                 ELSE [Noted("final") EXCEPT ![active].state = "ambiguous"]
    /\ UNCHANGED <<nextSeq, active, progress, delivery, intake, epoch, handed>>

FirstDelivery == IF Provider = "claude" THEN "ready" ELSE "starting"

\* A new process under the same session id, with an empty outbox.
StartSession ==
    /\ ~present /\ epoch < MaxSessions
    /\ outbox' = [m \in Msg |-> Absent] /\ nextSeq' = 1
    /\ active' = None /\ progress' = FALSE /\ delivery' = FirstDelivery
    /\ alive' = TRUE /\ present' = TRUE /\ epoch' = epoch + 1
    /\ UNCHANGED <<intake, handed>>

-----------------------------------------------------------------------------
Init ==
    /\ outbox = [m \in Msg |-> Absent] /\ nextSeq = 1
    /\ active = None /\ progress = FALSE /\ delivery = FirstDelivery
    /\ alive = FALSE /\ present = FALSE
    /\ intake = [m \in Matrix |-> "none"]
    /\ epoch = 0 /\ handed = <<>>

UserStep ==
    \/ \E m \in Msg : \/ Receipt(m) \/ CancelIntake(m)
                      \/ Enqueue(m) \/ RunLocalCommand(m)
                      \/ CancelOutboxMessage(m)
                      \/ RetryOutboxMessage(m) \/ SkipOutboxMessage(m)
    \/ \E accepted \in BOOLEAN : InterruptSession(accepted)

ProviderStep ==
    \/ ProviderReady \/ TurnStarted \/ AuthError
    \/ \E kind \in {"final", "tool", "other"} : ProviderOutput(kind)
    \/ \E status \in {"completed", "failed", "interrupted"} : TurnCompleted(status)
    \/ \E fatal \in BOOLEAN : AdapterError(fatal)
    \/ \E m \in Msg : WatchdogFires(m)
    \/ ProviderExit

Next == UserStep \/ ProviderStep \/ StartSession

Spec == Init /\ [][Next]_vars

-----------------------------------------------------------------------------
(* Properties *)

\* Every variable keeps its type: the outbox holds only the states
\* buildDeliverySummary counts, and the intake only those a claim can leave.
TypeOK ==
    /\ outbox \in [Msg -> Entry] /\ nextSeq \in Nat \ {0}
    /\ active \in Msg \cup {None} /\ progress \in BOOLEAN
    /\ delivery \in DeliveryStates /\ alive \in BOOLEAN /\ present \in BOOLEAN
    /\ intake \in [Matrix -> IntakeStates]
    /\ epoch \in Nat /\ handed \in Seq(HandOff)

WasHanded(m) == \E i \in DOMAIN handed : handed[i].msg = m

\* A Matrix message reaches the provider at most once, through every retry,
\* cancellation race, restart of the session and redelivery of its event
\* (claimRouteCHost2IntakeForProviderDelivery lets one claim win).
AtMostOnce ==
    \A i, j \in DOMAIN handed :
        handed[i].msg = handed[j].msg /\ handed[i].msg \in Matrix => i = j

\* The outbox and the intake keep the promise: a restart, a redelivery, a retry
\* or a race between cancel and drain never delivers a Matrix message twice,
\* unaccepted or withdrawn.
Fate ==
    [m \in Matrix |-> CASE intake[m] = "none"     -> "unknown"
                        [] intake[m] = "queued"   -> "accepted"
                        [] intake[m] = "canceled" -> "withdrawn"
                        [] OTHER                  -> "delivered"]

Log == [i \in DOMAIN handed |-> handed[i].msg]

Promise == INSTANCE DeliveryPromise
               WITH Message <- Msg, Tracked <- Matrix, fate <- Fate, log <- Log

KeepsPromise == Promise!PromiseSpec

\* Within a session the provider receives messages in the order they were
\* enqueued; only a retry repeats one, before any later message.
InOrder ==
    \A i, j \in DOMAIN handed :
        i < j /\ handed[i].session = handed[j].session => handed[i].seq <= handed[j].seq

\* A message whose cancellation the intake accepted never reaches the
\* provider, however the cancellation raced with the drain.
WithdrawnNeverHanded ==
    \A m \in Matrix : intake[m] = "canceled" => ~WasHanded(m)

\* Claude's delivery can always drain when it may: no handler leaves a queued
\* message behind an idle, ready session (a lost wake-up would strand it).
NoLostWakeup ==
    Provider = "claude" /\ present /\ CanDrain(active, delivery) => Queued(outbox) = {}

\* A claimed Claude message is completed only after a final event; a turn that
\* ends without one must not look answered.
CompletedWasAnswered ==
    \A m \in Msg : ClaimedClaude(outbox, m) /\ outbox[m].state = "completed"
                   => outbox[m].final

\* Completed, failed and canceled are final for the life of the session: no
\* late event, watchdog or drain brings such a message back.
EndedStaysEnded ==
    [][epoch' = epoch =>
         \A m \in Msg : outbox[m].state \in {"completed", "failed", "canceled"}
                        => outbox'[m].state = outbox[m].state]_vars
=============================================================================
