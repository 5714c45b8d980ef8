---------------------------- MODULE CodexDelivery ----------------------------
(***************************************************************************)
(* SessionOutbox closed with the Codex adapter                             *)
(* (host-service/adapters/codex-app-server-adapter.mjs,                    *)
(* CodexAppServerSession).                                                 *)
(*                                                                         *)
(* The adapter queues what the outbox hands over and asks the app-server   *)
(* for one turn at a time.  Its drain awaits the app-server's answers, so  *)
(* it is in several pieces; what is left of one is a microtask that runs   *)
(* when all lines of the current chunk of standard output are dealt with.  *)
(* A chunk may hold any lines, so lines may come before each microtask     *)
(* (also, which the code has not, before one that a user's call left).     *)
(* The turns and their lines are the app-server's: an answer, turn/started *)
(* and turn/completed, in this order.                                      *)
(***************************************************************************)
EXTENDS SessionOutbox

CONSTANTS
    Compact,      \* messages that are the command /compact
    MaxApprovals  \* bound: approvals a turn asks for

ASSUME CodexAssumption ==
    /\ Provider = "codex" /\ Compact \subseteq Msg
    /\ MaxApprovals \in Nat

VARIABLES
    ready,        \* initialize: "starting", "ready" or "failed"
    thread,       \* threadId is known
    queue,        \* _pendingMessages; its head stays until its turn is answered
    step,         \* where the drain awaits (_sending unless "idle")
    activeTurn,   \* activeTurnId, 0 for null
    awaiting,     \* _awaitingTurnStart
    control,      \* the pending approval: asked, sent, released (see below)
    controlTurn,  \* the turn it was answered in
    failedTurns,  \* _failedControlFollowthroughTurnIds
    stopping,     \* stop() closed standard input
    due,          \* the rest of a callback: "error", "control", "accepted" or "none"
    turns,        \* the app-server's turns of this process
    asks          \* turns with an unanswered turn/interrupt

approval == <<control, controlTurn, failedTurns>>
adapter == <<ready, thread, queue, step, activeTurn, awaiting, approval,
             stopping, due, turns, asks>>
allVars == <<vars, adapter>>

\* A turn is over early when its end comes before the rest of its answer (history).
Over == {"over", "early"}
Phases == {"asked", "accepted", "started", "refused"} \cup Over
\* A turn: its message, the approvals it has asked for and, as history, whether
\* the Host gave it up before its turn/started.
Turn == [msg : Msg, phase : Phases, approvals : Nat, cut : BOOLEAN]
NewTurn(m) == [msg |-> m, phase |-> "asked", approvals |-> 0, cut |-> FALSE]
InPhase(t, p) == [turns EXCEPT ![t].phase = p]
\* What it asked for does not count any more.
EndOf(t) ==
    LET p == IF step = "answered" /\ t = Len(turns) THEN "early" ELSE "over"
    IN  [turns EXCEPT ![t] = [@ EXCEPT !.phase = p, !.approvals = 0]]

\* Timers and users come between callbacks, never before a microtask.
Idle == due = "none" /\ step \notin {"begun", "answered", "rejected"}

\* The next line of standard output; a microtask waits for those of its chunk.
Line == due = "none"

-----------------------------------------------------------------------------
(* The drain *)

\* The message an outbox step handed over, if any (adapter.sendMessage).
JustHanded == IF handed' = handed THEN <<>> ELSE <<handed'[Len(handed')].msg>>

\* An approval holds the queue back until it is removed from _pendingControls.
Holds(c) == c \in {"asked", "sent"}

\* drainPendingMessages after a step that left q, the turns ts and the flag aw:
\* unless it is awaiting something (not free) it begins, and asks for a thread
\* if there is none.  A closed standard input throws at once.
Feed(called, free, q, ts, aw) ==
    LET waiting == q \o JustHanded
        go == /\ called \/ JustHanded # <<>>
              /\ free /\ ready' = "ready" /\ alive' /\ waiting # <<>>
              /\ ~Holds(control') /\ ~aw
    IN  /\ queue' = waiting /\ turns' = ts /\ awaiting' = aw
        /\ step' = IF ~go THEN (IF free THEN "idle" ELSE step)
                   ELSE IF thread' THEN "begun"
                   ELSE IF stopping' THEN "rejected" ELSE "thread"

Sending == step # "idle"

\* A handler that ends with a drain, or only hands over, and changes no turn.
Drained   == Feed(TRUE, ~Sending, queue, turns, awaiting)
OnHandOff == Feed(FALSE, ~Sending, queue, turns, awaiting)

\* A runtime.error event: an authentication failure of the active Matrix
\* message, or output of whatever is active.
RuntimeError ==
    \/ AuthError
    \/ ProviderOutput("final")
    \/ active = None /\ UNCHANGED vars

\* An error event of the adapter.
AdapterFails ==
    \/ AuthError
    \/ active # None /\ AdapterError(FALSE)
    \/ active = None /\ UNCHANGED vars

-----------------------------------------------------------------------------
(* Starting *)

\* initialize, and thread/resume or thread/fork when there is one to resume.
Initialized ==
    /\ Idle /\ alive /\ ready = "starting" /\ ~stopping
    /\ ready' = "ready" /\ thread' \in BOOLEAN
    /\ UNCHANGED <<activeTurn, approval, stopping, due, asks>>
    /\ ProviderReady /\ Drained

\* One of them is refused: the error is all there is, the session stays.
InitFails ==
    /\ Idle /\ alive /\ ready = "starting"
    /\ ready' = "failed"
    /\ UNCHANGED <<thread, activeTurn, approval, stopping, due, asks>>
    /\ AdapterFails /\ OnHandOff

\* The process cannot be spawned.
ProcError ==
    /\ Idle /\ alive /\ ready = "starting"
    /\ UNCHANGED <<ready, thread, activeTurn, approval, stopping, due, asks>>
    /\ AdapterError(TRUE) /\ OnHandOff

-----------------------------------------------------------------------------
(* The drain goes on *)

\* thread/start is answered (thread/started says the same): the session is
\* ready once more and the drain goes on.
ThreadAnswered ==
    /\ Idle /\ alive /\ step = "thread"
    /\ thread' = TRUE
    /\ UNCHANGED <<ready, activeTurn, approval, stopping, due, asks>>
    /\ ProviderReady
    /\ Feed(TRUE, TRUE, queue, turns, awaiting)

\* Fault: the drain does not look at the turn that is running.
DrainBegunAnyway ==
    /\ due = "none" /\ step = "begun" /\ ~stopping
    /\ step' = "turn" /\ turns' = Append(turns, NewTurn(Head(queue)))
    /\ awaiting' = (awaiting \/ Head(queue) \in Compact)
    /\ UNCHANGED <<vars, ready, thread, queue, activeTurn, approval, stopping, due, asks>>

\* ensureThreadStarted returns: the drain waits for the turn that is active, or
\* asks for one for the oldest message.
DrainBegun ==
    /\ due = "none" /\ step = "begun"
    /\ \/ activeTurn # 0 /\ step' = "idle" /\ UNCHANGED <<turns, awaiting>>
       \/ /\ activeTurn = 0 /\ ~stopping /\ step' = "turn"
          /\ turns' = Append(turns, NewTurn(Head(queue)))
          /\ awaiting' = (awaiting \/ Head(queue) \in Compact)
    /\ UNCHANGED <<vars, ready, thread, queue, activeTurn, approval, stopping, due, asks>>

\* turn/start, or thread/compact/start, is answered; the drain goes on later.
TurnAnswered ==
    /\ Line /\ alive /\ step = "turn"
    /\ step' = "answered" /\ turns' = InPhase(Len(turns), "accepted")
    /\ UNCHANGED <<vars, ready, thread, queue, activeTurn, awaiting, approval,
                   stopping, due, asks>>

RequestRefused ==
    /\ Line /\ alive /\ step \in {"thread", "turn"}
    /\ step' = "rejected"
    /\ turns' = IF step = "turn" THEN InPhase(Len(turns), "refused") ELSE turns
    /\ UNCHANGED <<vars, ready, thread, queue, activeTurn, awaiting, approval,
                   stopping, due, asks>>

\* Fault: the message is not taken off the queue.
ContinuedKeeping ==
    /\ due = "none" /\ step = "answered"
    /\ activeTurn' = IF Head(queue) \in Compact THEN activeTurn ELSE Len(turns)
    /\ UNCHANGED <<vars, ready, thread, approval, stopping, due, asks>>
    /\ Feed(TRUE, TRUE, queue, turns, awaiting)

\* The rest after an answer: the turn is active, its message leaves the queue.
Continued ==
    /\ due = "none" /\ step = "answered"
    /\ activeTurn' = IF Head(queue) \in Compact THEN activeTurn ELSE Len(turns)
    /\ UNCHANGED <<vars, ready, thread, approval, stopping, due, asks>>
    /\ Feed(TRUE, TRUE, Tail(queue), turns, awaiting)

\* The rest after an error, which a request on a closed standard input throws
\* itself: its message leaves the queue, the Host hears of it, and the drain
\* starts over with what is left.
Rejected ==
    /\ due = "none"
    /\ step = "rejected" \/ (step = "begun" /\ activeTurn = 0 /\ stopping)
    /\ UNCHANGED <<ready, thread, activeTurn, approval, stopping, due, asks>>
    /\ AdapterFails
    /\ Feed(TRUE, TRUE, Tail(queue), turns, FALSE)

-----------------------------------------------------------------------------
(* Lines about a turn *)

TurnStartedLine(t) ==
    /\ Line /\ alive /\ turns[t].phase = "accepted"
    /\ activeTurn' = t /\ awaiting' = FALSE /\ turns' = InPhase(t, "started")
    /\ TurnStarted \/ (active = None /\ UNCHANGED vars)
    /\ UNCHANGED <<ready, thread, queue, step, approval, stopping, due, asks>>

\* Output of a turn, and of the process outside any turn (standard error).
Output(kind) ==
    /\ Line /\ ProviderOutput(kind)
    /\ UNCHANGED adapter

\* thread/compacted ends the wait for a turn/started, and drains nothing.
Compacted ==
    /\ Line /\ alive /\ awaiting
    /\ \E t \in DOMAIN turns : turns[t].msg \in Compact /\ turns[t].phase = "accepted"
    /\ awaiting' = FALSE
    /\ UNCHANGED <<vars, ready, thread, queue, step, activeTurn, approval,
                   stopping, due, turns, asks>>

\* Fault: the turn that ended stays the active one.
NeverCleared(t) == UNCHANGED activeTurn

\* The active turn is over.
Cleared(t) == activeTurn' = IF activeTurn = t THEN 0 ELSE activeTurn

\* turn/completed.  A failure with a text is followed by a runtime.error event;
\* the message that event meets may be the next one by then.
TurnCompletedLine(t, status) ==
    /\ Line /\ alive /\ turns[t].phase = "started"
    /\ status = "interrupted" => t \in asks
    /\ Cleared(t)
    /\ UNCHANGED <<ready, thread, control, controlTurn, stopping, asks>>
    /\ \/ /\ t \notin failedTurns /\ UNCHANGED failedTurns
          /\ TurnCompleted(status)
          /\ \/ /\ due' = "none"
                /\ Feed(TRUE, ~Sending, queue, EndOf(t), FALSE)
             \/ /\ status = "failed" /\ due' = "error"
                /\ Feed(FALSE, ~Sending, queue, EndOf(t), FALSE)
       \/ \* the Host had already given it up
          /\ t \in failedTurns /\ failedTurns' = failedTurns \ {t}
          /\ UNCHANGED <<vars, due>>
          /\ Feed(TRUE, ~Sending, queue, EndOf(t), FALSE)

TurnErrorText ==
    /\ due = "error" /\ due' = "none"
    /\ UNCHANGED <<ready, thread, activeTurn, approval, stopping, asks>>
    /\ RuntimeError /\ Drained

-----------------------------------------------------------------------------
(* Approvals.  Answering an approval of a command or a file change keeps it  *)
(* pending until app-server acknowledges it (sent); other kinds are removed  *)
(* at once (released).                                                       *)

ControlAsked(t) ==
    /\ Line /\ alive /\ control = "none"
    /\ turns[t].phase = "started" /\ turns[t].approvals < MaxApprovals
    /\ control' = "asked" /\ turns' = [turns EXCEPT ![t].approvals = @ + 1]
    /\ ProviderOutput("final") \/ (active = None /\ UNCHANGED vars)
    /\ UNCHANGED <<ready, thread, queue, step, activeTurn, awaiting, controlTurn,
                   failedTurns, stopping, due, asks>>

AnswerControl ==
    /\ Idle /\ alive /\ ~stopping /\ control = "asked"
    /\ control' \in {"sent", "released"} /\ controlTurn' = activeTurn
    /\ UNCHANGED <<vars, ready, thread, queue, step, activeTurn, awaiting,
                   failedTurns, stopping, due, turns, asks>>

\* Fault: the queue is not looked at again.
ControlResolvedQuietly ==
    /\ Line /\ alive /\ control # "none"
    /\ control' = "none"
    /\ UNCHANGED <<vars, ready, thread, activeTurn, controlTurn, failedTurns,
                   stopping, due, asks>>
    /\ OnHandOff

\* serverRequest/resolved; it drains whether the request was known or not.
ControlResolved ==
    /\ Line /\ alive /\ control # "none"
    /\ control' = "none"
    /\ UNCHANGED <<vars, ready, thread, activeTurn, controlTurn, failedTurns,
                   stopping, due, asks>>
    /\ Drained

\* No acknowledgement within 30 seconds, or one with an error: reported here,
\* then the turn is given up.
ControlTimesOut ==
    /\ Idle /\ alive /\ control = "sent"
    /\ due' = "control"
    /\ UNCHANGED <<ready, thread, activeTurn, approval, stopping, asks>>
    /\ RuntimeError /\ OnHandOff

\* The turn ends before an accepted approval was acknowledged and carried out
\* (failPendingAcceptedControlsForTurn): reported, then ended as a failure.
TurnEndsUnderApproval(t) ==
    /\ Line /\ alive /\ turns[t].phase = "started"
    /\ turns[t].approvals > 0 /\ controlTurn = t /\ control \in {"sent", "none"}
    /\ Cleared(t) /\ due' = "accepted"
    /\ UNCHANGED <<ready, thread, approval, stopping, asks>>
    /\ RuntimeError
    /\ Feed(FALSE, ~Sending, queue, EndOf(t), FALSE)

\* The turn the Host gives up, which app-server may not have started yet.
GivenUp == [turns EXCEPT ![controlTurn].cut = @ \/ turns[controlTurn].phase = "accepted"]

\* A turn ends as failed once; a declined request ends none.
ControlFails ==
    /\ due \in {"control", "accepted"} /\ due' = "none"
    /\ control' = "none"
    /\ UNCHANGED <<ready, thread, controlTurn, stopping, asks>>
    /\ \/ /\ controlTurn # 0 /\ controlTurn \notin failedTurns
          /\ failedTurns' = failedTurns \cup {controlTurn}
          /\ Cleared(controlTurn)
          /\ TurnCompleted("failed")
          /\ Feed(TRUE, ~Sending, queue, GivenUp, FALSE)
       \/ /\ due = "control" \/ controlTurn \in failedTurns
          /\ UNCHANGED <<vars, failedTurns, activeTurn>>
          /\ Drained

-----------------------------------------------------------------------------
(* The session and the Host's side *)

\* An interrupt is refused without an active turn; on a closed standard input
\* it throws, and the delivery stays interrupting until the process is gone.
Interrupt ==
    LET running == thread /\ activeTurn # 0
    IN  /\ Idle /\ alive
        /\ InterruptSession(running)
        /\ asks' = IF running /\ ~stopping THEN asks \cup {activeTurn} ELSE asks
        /\ UNCHANGED <<ready, thread, queue, step, activeTurn, awaiting, approval,
                       stopping, due, turns>>

\* turn/interrupt is answered once its turn is over; an error is reported like
\* any other error of the adapter, whatever message is active by then.
InterruptAnswered(t) ==
    /\ Line /\ alive /\ t \in asks /\ turns[t].phase \in Over
    /\ asks' = asks \ {t}
    /\ UNCHANGED <<ready, thread, activeTurn, approval, stopping, due>>
    /\ AdapterFails \/ UNCHANGED vars
    /\ OnHandOff

Stop ==
    /\ Idle /\ alive /\ ~stopping
    /\ stopping' = TRUE
    /\ UNCHANGED <<vars, ready, thread, queue, step, activeTurn, awaiting,
                   approval, due, turns, asks>>

FreshProcess ==
    /\ ready' = "starting" /\ thread' = FALSE /\ queue' = <<>> /\ step' = "idle"
    /\ activeTurn' = 0 /\ awaiting' = FALSE /\ control' = "none"
    /\ controlTurn' = 0 /\ failedTurns' = {} /\ stopping' = FALSE /\ due' = "none"
    /\ turns' = <<>> /\ asks' = {}

\* The process exits; its open requests are rejected into a session nobody can
\* reach any more.
Exit ==
    /\ Idle /\ alive
    /\ ProviderExit /\ FreshProcess

Start ==
    /\ Idle /\ StartSession
    /\ UNCHANGED adapter

User(m) ==
    /\ Idle /\ UNCHANGED <<ready, thread, activeTurn, approval, stopping, due, asks>>
    /\ Receipt(m) \/ CancelIntake(m) \/ Enqueue(m) \/ RunLocalCommand(m)
                  \/ CancelOutboxMessage(m) \/ RetryOutboxMessage(m)
                  \/ SkipOutboxMessage(m)
    /\ OnHandOff

-----------------------------------------------------------------------------
CodexInit ==
    /\ Init
    /\ ready = "starting" /\ thread = FALSE /\ queue = <<>> /\ step = "idle"
    /\ activeTurn = 0 /\ awaiting = FALSE /\ control = "none" /\ controlTurn = 0
    /\ failedTurns = {} /\ stopping = FALSE /\ due = "none" /\ turns = <<>> /\ asks = {}

Startup == Initialized \/ InitFails \/ ProcError
Microtask == DrainBegun \/ Continued \/ Rejected \/ TurnErrorText \/ ControlFails
Answer == ThreadAnswered \/ TurnAnswered \/ RequestRefused
Statuses == {"completed", "failed", "interrupted"}
TurnEnds ==
    \E t \in DOMAIN turns : \/ TurnEndsUnderApproval(t)
                            \/ \E status \in Statuses : TurnCompletedLine(t, status)
ControlSettled == ControlResolved \/ ControlTimesOut

CodexNext ==
    \/ \E m \in Msg : User(m)
    \/ Interrupt \/ Stop \/ Start \/ Exit
    \/ Startup \/ Microtask \/ Answer
    \/ \E t \in DOMAIN turns : \/ TurnStartedLine(t) \/ ControlAsked(t)
                               \/ InterruptAnswered(t)
    \/ TurnEnds \/ Compacted
    \/ \E kind \in {"final", "other"} : Output(kind)
    \/ AnswerControl \/ ControlSettled

CodexSpec == CodexInit /\ [][CodexNext]_allVars

\* Microtasks run; app-server answers a request, starts and ends its turns (an
\* approval nobody answers may hold a turn back for ever) and acknowledges an
\* answer or runs into the 30 seconds; a process that was told to stop exits.
Fairness ==
    /\ WF_allVars(Startup) /\ WF_allVars(Microtask) /\ WF_allVars(Answer)
    /\ WF_allVars(\E t \in DOMAIN turns : TurnStartedLine(t))
    /\ WF_allVars(control # "asked" /\ TurnEnds)
    /\ WF_allVars(control # "asked" /\ ControlSettled)
    /\ WF_allVars(stopping /\ Exit)

FairSpec == CodexSpec /\ Fairness

-----------------------------------------------------------------------------
(* Properties *)

Open(t) == turns[t].phase \in {"asked", "accepted", "started"}

\* Hand-offs that have had no turn: without the one whose request is under way
\* or has failed.
Unplayed == IF step \in {"turn", "answered", "rejected"} THEN Tail(queue) ELSE queue

\* h is a hand-off of m in this session.
Is(h, m) == h.msg = m /\ h.session = epoch

\* Each hand-off gets at most one turn, in the order of the hand-offs, and what
\* waits in the adapter are the last of them, through refused turns, errors and
\* restarts of the drain.
PlayedInOrder ==
    LET before == Len(handed) - Len(Unplayed)
    IN  alive => /\ before >= 0
                 /\ \A i \in DOMAIN Unplayed : Is(handed[before + i], Unplayed[i])
                 /\ \E f \in [DOMAIN turns -> 1 .. before] : \A t \in DOMAIN turns :
                        /\ Is(handed[f[t]], turns[t].msg)
                        /\ \A u \in DOMAIN turns : u < t => f[u] < f[t]

\* A turn whose turn/started may come when the adapter no longer waits for it: a
\* compaction, which is not active before, or a turn the Host gave up before.
Stray(t) == turns[t].cut \/ turns[t].msg \in Compact

\* The Host never asks for a turn while one is open, unless it gave that one up
\* after an approval, as long as no turn strays: the turn/started of one that
\* does makes the adapter forget which turn it had asked for.
OneTurnAtATime ==
    \A t, u \in DOMAIN turns :
        Open(t) /\ Open(u) /\ t < u => t \in failedTurns \/ \E s \in 1 .. t : Stray(s)

\* turn/started of an open turn moves the intake record of the active message
\* to started; the correlator throws, and the Host ends, if it already is.  As
\* long as no turn strays it is not.
StartIsAllowed ==
    /\ alive /\ active \in Matrix
    /\ \E t \in DOMAIN turns : turns[t].phase = "accepted"
    /\ \A t \in DOMAIN turns : ~Stray(t)
    => intake[active] = "starting"

\* The rest of an answer has made a turn active whose end came in the answer's
\* own chunk: nothing will clear it.
Stalled == activeTurn # 0 /\ turns[activeTurn].phase = "early"

\* Messages wait in the adapter only for something still to come: its drain, a
\* turn, an approval.  The one exception is a turn that ends in the chunk that
\* answers its request: drainPendingMessages makes it active when it is over
\* (codex-app-server-adapter.mjs:3511), and the messages wait for the exit.
AdapterNotStalled ==
    alive /\ ready = "ready" /\ queue # <<>>
        => \/ Sending \/ due # "none"
           \/ control # "none"
           \/ \E t \in DOMAIN turns : Open(t)
           \/ Stalled

Pending(m) == \/ \E i \in DOMAIN queue : queue[i] = m
              \/ \E t \in DOMAIN turns : turns[t].msg = m /\ Open(t)

\* The session has ended or waits for its user or for a turn that is over, or the
\* adapter has dropped the active message.
Excused == \/ ~alive \/ ready = "failed" \/ control = "asked" \/ Stalled
           \/ active # None /\ ~Pending(active)

\* A queued message is handed over or ended, unless the session is excused; it
\* is, too, when a turn has ended in the chunk of its answer (Stalled).
CodexQueuedIsServed ==
    \A m \in Msg : (outbox[m].state = "queued")
                       ~> (outbox[m].state # "queued" \/ Excused)

\* The active message makes room in the end, with the same excuses.
CodexActiveMakesRoom == \A m \in Msg : (active = m) ~> (active # m \/ Excused)

=============================================================================
