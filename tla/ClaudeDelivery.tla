--------------------------- MODULE ClaudeDelivery ---------------------------
(***************************************************************************)
(* SessionOutbox closed with the Claude adapter                            *)
(* (host-service/adapters/claude-code-adapter.mjs, ClaudeCodeSession).     *)
(*                                                                         *)
(* The adapter queues what the outbox hands over and sends one prompt at a *)
(* time to the ACP process.  Its events run the outbox's handlers          *)
(* synchronously, and those may hand over the next message before the      *)
(* event returns: a step of this system is an outbox step together with    *)
(* what it does to the adapter.  Two promise callbacks emit two events in  *)
(* a row; `due` is the second one, and nothing comes between the two.      *)
(***************************************************************************)
EXTENDS SessionOutbox

ASSUME ClaudeAssumption == Provider = "claude"

VARIABLES
    ready,     \* bootstrap finished: the ACP session exists
    queue,     \* prompts handed over and not yet sent
    prompt,    \* the message whose session/prompt request is open
    cancel,    \* session/cancel was sent for it
    stopping,  \* the process was told to stop
    due        \* the rest of the current callback: an event status, "stop" or "none"

adapter == <<ready, queue, prompt, cancel, stopping, due>>
allVars == <<vars, adapter>>

Idle == due = "none"

-----------------------------------------------------------------------------
(* The adapter's side of an outbox step *)

\* The message this step handed over, if any (adapter.sendMessage).
JustHanded == IF handed' = handed THEN <<>> ELSE <<handed'[Len(handed')].msg>>

\* Fault: the newest prompt goes to the front.
WaitingFirst == JustHanded \o queue

\* The queue once send() has pushed the hand-off.
Waiting == queue \o JustHanded

\* Fault: only a hand-off sends, the end of a prompt does not.
CalledOnHandOff(ended) == JustHanded # <<>>

\* drainPromptQueue runs in send() and when a prompt or the bootstrap has ended.
Called(ended) == ended \/ JustHanded # <<>>

\* It sends the oldest prompt unless one is open.
Feed(ended) ==
    LET open == IF ended THEN None ELSE prompt
    IN  IF ready' /\ open = None /\ Waiting # <<>> /\ Called(ended)
        THEN prompt' = Head(Waiting) /\ queue' = Tail(Waiting) /\ cancel' = FALSE
        ELSE prompt' = open /\ queue' = Waiting /\ cancel' = (cancel /\ open # None)

\* A runtime.error event: an authentication failure of the active Matrix
\* message, or output of whatever is active.
RuntimeError ==
    \/ AuthError
    \/ ProviderOutput("final")
    \/ active = None /\ UNCHANGED vars

-----------------------------------------------------------------------------
(* The process *)

\* initialize, session/new or session/load and the model are through; prompts
\* that were handed over meanwhile start.  stop() does not cancel a bootstrap.
BootstrapReady ==
    /\ Idle /\ alive /\ ~ready
    /\ ready' = TRUE
    /\ UNCHANGED <<stopping, due>>
    /\ ProviderReady /\ Feed(TRUE)

\* The configured model is refused: reported once here, once by the failure.
ModelRefused ==
    /\ Idle /\ alive /\ ~ready /\ ~stopping
    /\ due' = "stop" /\ UNCHANGED <<ready, stopping>>
    /\ RuntimeError /\ Feed(FALSE)

\* The bootstrap fails or its 15 seconds are over: report and stop().
BootstrapFails ==
    /\ due \in {"none", "stop"} /\ alive /\ ~ready /\ ~stopping
    /\ stopping' = TRUE /\ due' = "none" /\ UNCHANGED ready
    /\ RuntimeError /\ Feed(FALSE)

\* The request for the open prompt is answered.  A successful turn may still
\* flush an assistant message first.
PromptFlushed ==
    /\ Idle /\ prompt # None /\ ~cancel
    /\ due' = "completed" /\ UNCHANGED <<ready, stopping>>
    /\ ProviderOutput("final") \/ (active = None /\ UNCHANGED vars)
    /\ Feed(FALSE)

PromptEnds(status) ==
    /\ Idle /\ prompt # None
    /\ cancel => status = "interrupted"
    /\ UNCHANGED <<ready, stopping, due>>
    /\ TurnCompleted(status) /\ Feed(TRUE)

\* The request is rejected: a runtime error, then the end of the turn.
PromptRejected ==
    /\ Idle /\ prompt # None
    /\ due' = "failed" /\ UNCHANGED <<ready, stopping>>
    /\ RuntimeError /\ Feed(FALSE)

\* The second event of the callback.
PromptSettled ==
    /\ due \in {"completed", "failed"}
    /\ due' = "none" /\ UNCHANGED <<ready, stopping>>
    /\ TurnCompleted(due) /\ Feed(TRUE)

Output(kind) ==
    /\ Idle /\ ProviderOutput(kind)
    /\ UNCHANGED adapter

\* SIGTERM from the Host; the process may still answer.
Stop ==
    /\ Idle /\ alive /\ ~stopping
    /\ stopping' = TRUE
    /\ UNCHANGED <<vars, ready, queue, prompt, cancel, due>>

\* The process exits, told to or not, and the session goes with it.  The open
\* request is rejected into a session nobody can reach any more.
Exit ==
    /\ Idle /\ alive
    /\ ProviderExit
    /\ ready' = FALSE /\ queue' = <<>> /\ prompt' = None /\ cancel' = FALSE
    /\ stopping' = FALSE /\ UNCHANGED due

Start ==
    /\ Idle /\ StartSession
    /\ UNCHANGED adapter

-----------------------------------------------------------------------------
(* The Host's side *)

\* The adapter takes an interrupt only for an open prompt.
Interrupt ==
    LET accepted == ready /\ prompt # None
    IN  /\ Idle /\ alive /\ InterruptSession(accepted)
        /\ cancel' = accepted
        /\ UNCHANGED <<ready, queue, prompt, stopping, due>>

\* The watchdog, from its timer or a poll, lets an open prompt run on.
Watchdog(m) ==
    /\ Idle /\ alive /\ prompt = None /\ UNCHANGED <<ready, stopping, due>>
    /\ WatchdogFires(m) /\ Feed(FALSE)

User(m) ==
    /\ Idle /\ UNCHANGED <<ready, stopping, due>>
    /\ Receipt(m) \/ CancelIntake(m) \/ Enqueue(m) \/ RunLocalCommand(m)
                  \/ CancelOutboxMessage(m)
    /\ Feed(FALSE)

-----------------------------------------------------------------------------
ClaudeInit ==
    /\ Init
    /\ ready = FALSE /\ queue = <<>> /\ prompt = None /\ cancel = FALSE
    /\ stopping = FALSE /\ due = "none"

BootstrapEnds == BootstrapReady \/ BootstrapFails

PromptAnswered ==
    \/ PromptFlushed \/ PromptRejected
    \/ \E status \in {"completed", "failed", "interrupted"} : PromptEnds(status)

ClaudeNext ==
    \/ \E m \in Msg : User(m) \/ Watchdog(m)
    \/ Interrupt \/ Stop \/ Start \/ Exit
    \/ ModelRefused \/ BootstrapEnds \/ PromptAnswered \/ PromptSettled
    \/ \E kind \in {"final", "tool", "other"} : Output(kind)

ClaudeSpec == ClaudeInit /\ [][ClaudeNext]_allVars

\* The bootstrap has a timeout; the rest of a callback always runs; Claude
\* answers a prompt in the end, and a process that was told to stop exits.
Fairness ==
    /\ WF_allVars(BootstrapEnds)
    /\ WF_allVars(PromptSettled)
    /\ WF_allVars(PromptAnswered)
    /\ WF_allVars(stopping /\ Exit)

FairSpec == ClaudeSpec /\ Fairness

-----------------------------------------------------------------------------
(* Properties *)

\* What the adapter holds: the open prompt and what waits behind it.
Held == IF prompt = None THEN queue ELSE <<prompt>> \o queue

\* The adapter works through the hand-offs in their order: what it holds are the
\* last hand-offs, all of this session.
AdapterKeepsOrder ==
    LET before == Len(handed) - Len(Held)
    IN  alive => /\ before >= 0
                 /\ \A i \in DOMAIN Held : /\ handed[before + i].msg = Held[i]
                                          /\ handed[before + i].session = epoch

\* A queued message is handed over or ended, or its session ends.
QueuedIsServed ==
    \A m \in Msg : (alive /\ outbox[m].state = "queued")
                       ~> (outbox[m].state # "queued" \/ ~alive)

\* The active message makes room in the end.
ActiveMakesRoom ==
    \A m \in Msg : (alive /\ active = m) ~> (active # m \/ ~alive)

\* An interrupted session becomes ready again.
InterruptEnds == (alive /\ delivery = "interrupting") ~> (delivery = "ready" \/ ~alive)
=============================================================================
