------------------------ MODULE CodexDeliveryProofs ------------------------
(***************************************************************************)
(* The outbox closed with the Codex adapter: it implements the open        *)
(* outbox, and the adapter itself keeps the order of the hand-offs, one    *)
(* turn at a time and the correlator's start transition, and stalls only   *)
(* behind a turn that ended before its answer was dealt with.              *)
(***************************************************************************)
EXTENDS CodexDelivery, SessionOutboxProofs

-----------------------------------------------------------------------------
(* Every step is a step of the open outbox *)

LEMMA RuntimeErrorIsOutboxStep == RuntimeError => [Next]_vars
BY DEF RuntimeError, Next, ProviderStep

LEMMA AdapterFailsIsOutboxStep == AdapterFails => [Next]_vars
<1> SUFFICES ASSUME AdapterFails PROVE [Next]_vars
  OBVIOUS
<1>1. FALSE \in BOOLEAN
  OBVIOUS
<1> QED
  BY <1>1, Zenon DEF AdapterFails, Next, ProviderStep

LEMMA TurnIsOutboxStep ==
    ASSUME NEW status \in Statuses, TurnCompleted(status) PROVE Next
BY DEF Statuses, Next, ProviderStep

LEMMA CodexStepIsOutboxStep == [CodexNext]_allVars => [Next]_vars
<1> SUFFICES ASSUME [CodexNext]_allVars PROVE [Next]_vars
  OBVIOUS
<1>1. ASSUME NEW m \in Msg, User(m) PROVE [Next]_vars
  BY <1>1 DEF User, Next, UserStep
<1>2. CASE Interrupt
  <2>1. (thread /\ activeTurn # 0) \in BOOLEAN
    OBVIOUS
  <2> QED
    BY <1>2, <2>1, Zenon DEF Interrupt, Next, UserStep
<1>3. CASE \/ Stop \/ TurnAnswered \/ RequestRefused \/ DrainBegun \/ Continued
           \/ Compacted \/ AnswerControl \/ ControlResolved
  BY <1>3 DEF Stop, TurnAnswered, RequestRefused, DrainBegun, Continued, Compacted,
              AnswerControl, ControlResolved
<1>4. CASE Start
  BY <1>4 DEF Start, Next
<1>5. CASE Exit
  BY <1>5 DEF Exit, Next, ProviderStep
<1>6. CASE Initialized \/ ThreadAnswered
  BY <1>6 DEF Initialized, ThreadAnswered, Next, ProviderStep
<1>7. CASE InitFails \/ Rejected
  BY <1>7, AdapterFailsIsOutboxStep DEF InitFails, Rejected
<1>8. CASE ProcError
  <2>1. TRUE \in BOOLEAN
    OBVIOUS
  <2> QED
    BY <1>8, <2>1, Zenon DEF ProcError, Next, ProviderStep
<1>9. CASE TurnErrorText \/ ControlTimesOut
  BY <1>9, RuntimeErrorIsOutboxStep DEF TurnErrorText, ControlTimesOut
<1>10. CASE ControlFails
  BY <1>10, TurnIsOutboxStep DEF ControlFails, Statuses
<1>11. ASSUME NEW t, TurnStartedLine(t) PROVE [Next]_vars
  BY <1>11 DEF TurnStartedLine, Next, ProviderStep
<1>12. ASSUME NEW t, ControlAsked(t) PROVE [Next]_vars
  BY <1>12 DEF ControlAsked, Next, ProviderStep
<1>13. ASSUME NEW t, InterruptAnswered(t) PROVE [Next]_vars
  BY <1>13, AdapterFailsIsOutboxStep DEF InterruptAnswered
<1>14. ASSUME NEW t, TurnEndsUnderApproval(t) PROVE [Next]_vars
  BY <1>14, RuntimeErrorIsOutboxStep DEF TurnEndsUnderApproval
<1>15. ASSUME NEW t, NEW status \in Statuses, TurnCompletedLine(t, status) PROVE [Next]_vars
  BY <1>15, TurnIsOutboxStep DEF TurnCompletedLine
<1>16. ASSUME NEW kind \in {"final", "other"}, Output(kind) PROVE [Next]_vars
  BY <1>16 DEF Output, Next, ProviderStep
<1>17. CASE UNCHANGED allVars
  BY <1>17 DEF allVars, vars
<1> QED
  BY <1>1, <1>2, <1>3, <1>4, <1>5, <1>6, <1>7, <1>8, <1>9, <1>10, <1>11, <1>12, <1>13,
     <1>14, <1>15, <1>16, <1>17
  DEF CodexNext, Startup, Microtask, Answer, TurnEnds, ControlSettled

\* Every behaviour of the outbox with the Codex adapter is one of the outbox.
THEOREM CodexImplementsOutbox == CodexSpec => Spec
<1>1. CodexInit => Init
  BY DEF CodexInit
<1> QED
  BY <1>1, CodexStepIsOutboxStep, PTL DEF CodexSpec, Spec

\* With the Codex adapter, too, a Matrix message is handed over at most once,
\* never after its withdrawal, and the messages of a session in their order.
THEOREM CodexDelivers == CodexSpec => [](AtMostOnce /\ WithdrawnNeverHanded /\ InOrder)
BY CodexImplementsOutbox, HandedAtMostOnce, WithdrawnIsWithheld, HandedInOrder, PTL

-----------------------------------------------------------------------------
(* Every handler of the adapter takes the queue to q, the turns to ts and the *)
(* flag to aw, and leaves the drain awaiting at st; then the drain begins, or *)
(* not.  The invariants below are operators of what the drain starts from.    *)

\* What the drain needs, besides a free slot, to begin.
MayAsk == ready' = "ready" /\ alive' /\ queue' # <<>> /\ ~Holds(control')

Waits(called, st, aw) ==
    step' = st /\ (called => st # "idle" \/ ~MayAsk \/ aw)

\* It begins when there is a thread, and asks for one when there is none, which
\* throws when standard input is closed.
Begins(st, aw) ==
    /\ st = "idle" /\ MayAsk /\ ~aw
    /\ \/ thread' /\ step' = "begun"
       \/ ~thread' /\ step' \in {"thread", "rejected"}

Handler(called, q, st, ts, aw) ==
    /\ queue' = q \o JustHanded /\ turns' = ts /\ awaiting' = aw
    /\ Waits(called, st, aw) \/ Begins(st, aw)

LEMMA FeedHandles ==
    ASSUME NEW called \in BOOLEAN, NEW q, NEW st \in {"idle", step}, NEW ts,
           NEW aw \in BOOLEAN, Feed(called, st = "idle", q, ts, aw)
    PROVE  Handler(called \/ JustHanded # <<>>, q, st, ts, aw)
<1> DEFINE waiting == q \o JustHanded
           go == /\ called \/ JustHanded # <<>>
                 /\ st = "idle" /\ ready' = "ready" /\ alive' /\ waiting # <<>>
                 /\ ~Holds(control') /\ ~aw
<1>1. /\ queue' = waiting /\ turns' = ts
      /\ step' = IF ~go THEN (IF st = "idle" THEN "idle" ELSE step)
                 ELSE IF thread' THEN "begun"
                 ELSE IF stopping' THEN "rejected" ELSE "thread"
  BY DEF Feed
<1>2. awaiting' = aw
  BY Zenon DEF Feed
<1>3. CASE ~go
  <2>1. Waits(called \/ JustHanded # <<>>, st, aw)
    BY <1>1, <1>3 DEF Waits, MayAsk
  <2> HIDE DEF go
  <2> QED
    BY <1>1, <1>2, <2>1, Zenon DEF Handler
<1>4. CASE go
  <2>1. st = "idle" /\ MayAsk /\ ~aw
    BY <1>1, <1>4 DEF MayAsk
  <2>2. \/ thread' /\ step' = "begun"
        \/ ~thread' /\ step' \in {"thread", "rejected"}
    BY <1>1, <1>4
  <2>3. Begins(st, aw)
    BY <2>1, <2>2 DEF Begins
  <2> HIDE DEF go
  <2> QED
    BY <1>1, <1>2, <2>3, Zenon DEF Handler
<1> HIDE DEF go
<1> QED
  BY <1>3, <1>4

\* A handler that hands nothing over and lets the drain be.
LEMMA RestHandles ==
    ASSUME NEW st, NEW ts, NEW aw, queue \in Seq(Msg), handed' = handed,
           queue' = queue, step' = st, turns' = ts, awaiting' = aw
    PROVE  Handler(FALSE, queue, st, ts, aw)
<1>1. JustHanded = <<>> /\ queue' = queue \o <<>>
  BY DEF JustHanded
<1> QED
  BY <1>1 DEF Handler, Waits

\* A step hands over one message, or none.
LEMMA HandedOver ==
    ASSUME TypeOK, [Next]_vars
    PROVE  \/ handed' = handed /\ JustHanded = <<>>
           \/ \E m \in Msg, n \in Nat :
                 /\ handed' = Append(handed, [msg |-> m, session |-> epoch, seq |-> n])
                 /\ JustHanded = <<m>>
BY OneHandOff DEF JustHanded

-----------------------------------------------------------------------------
(* The intake record of the active message *)

ActiveTaken == active \in Matrix => intake[active] \in Taken

\* app-server has announced a turn while this message was active.
Known == active \in Matrix /\ intake[active] = "started"

\* A drain leaves the active message and its record, or takes a message that has
\* not been announced.
LEMMA DrainActive ==
    ASSUME TypeOK, NEW ob, NEW act \in {active, None}, NEW pg, NEW d, Drain(ob, act, pg, d)
    PROVE  /\ Known' => act = active /\ Known
           /\ ActiveTaken => ActiveTaken'
<1> DEFINE next == NextOut(ob, act, d)
<1>1. /\ active' = IF next # None THEN next ELSE act
      /\ intake' = [m \in Matrix |-> IF m = next THEN "starting" ELSE intake[m]]
  BY DEF Drain
<1> HIDE DEF next
<1>2. None \notin Matrix
  BY MsgAssumption
<1>3. CASE next # None
  <2>1. active' \in Matrix => intake'[active'] = "starting"
    BY <1>1, <1>3
  <2> QED
    BY <2>1 DEF Known, ActiveTaken, Taken
<1>4. CASE next = None
  <2>1. active' = act /\ \A m \in Matrix : intake'[m] = intake[m]
    BY <1>1, <1>2, <1>4
  <2> QED
    BY <1>2, <2>1 DEF Known, ActiveTaken
<1> QED
  BY <1>3, <1>4

KnownStays == (Known' => Known) /\ (ActiveTaken => ActiveTaken')

\* Nothing but turn/started announces a turn.
LEMMA KnownKept ==
    ASSUME TypeOK,
           \/ UserStep \/ ProviderReady \/ AuthError \/ UNCHANGED vars
           \/ (\E kind : ProviderOutput(kind)) \/ (\E fatal : AdapterError(fatal))
    PROVE  KnownStays
<1>1. ASSUME UNCHANGED <<active, intake>> PROVE KnownStays
  BY <1>1 DEF KnownStays, Known, ActiveTaken
<1>2. ASSUME NEW m \in Msg, Receipt(m) \/ CancelIntake(m) PROVE KnownStays
  <2>1. m \in Matrix /\ intake[m] \notin Taken /\ active' = active
    BY <1>2 DEF Receipt, CancelIntake, Taken
  <2>2. /\ intake' \in {[intake EXCEPT ![m] = "queued"], [intake EXCEPT ![m] = "canceled"]}
        /\ intake \in [Matrix -> IntakeStates]
    BY <1>2 DEF Receipt, CancelIntake, TypeOK
  <2> QED
    BY <2>1, <2>2 DEF KnownStays, Known, ActiveTaken, Taken
<1>3. ASSUME NEW m \in Msg, Enqueue(m) PROVE KnownStays
  BY <1>3, DrainActive DEF KnownStays, Enqueue
<1>4. ASSUME NEW m \in Msg, RunLocalCommand(m) \/ CancelOutboxMessage(m) PROVE KnownStays
  BY <1>1, <1>4 DEF RunLocalCommand, CancelOutboxMessage, NoDrain
<1>5. ASSUME NEW m \in Msg, RetryOutboxMessage(m) \/ SkipOutboxMessage(m) PROVE KnownStays
  BY <1>5, DrainActive DEF KnownStays, RetryOutboxMessage, SkipOutboxMessage
<1>6. ASSUME NEW accepted \in BOOLEAN, InterruptSession(accepted) PROVE KnownStays
  BY <1>1, <1>6 DEF InterruptSession, NoDrain
<1>7. CASE ProviderReady \/ AuthError
  BY <1>7, DrainActive DEF KnownStays, ProviderReady, AuthError
<1>8. ASSUME NEW kind, ProviderOutput(kind) PROVE KnownStays
  BY <1>1, <1>8 DEF ProviderOutput, NoDrain
<1>9. ASSUME NEW fatal, AdapterError(fatal) PROVE KnownStays
  <2>1. \/ Drain(SetState(outbox, active, "failed"), None, FALSE, delivery)
        \/ active' \in {active, None} /\ intake' = intake
    BY <1>9 DEF AdapterError, NoDrain
  <2>2. None \notin Matrix
    BY MsgAssumption
  <2> QED
    BY <2>1, <2>2, DrainActive DEF KnownStays, Known, ActiveTaken
<1>10. CASE UNCHANGED vars
  BY <1>1, <1>10 DEF vars
<1>11. CASE UserStep
  BY <1>2, <1>3, <1>4, <1>5, <1>6, <1>11 DEF UserStep
<1> QED
  BY <1>7, <1>8, <1>9, <1>10, <1>11

\* After a drain that began without an active message none is announced.
LEMMA DrainUnknown ==
    ASSUME NEW ob, NEW pg, NEW d, Drain(ob, None, pg, d) PROVE ~Known' /\ ActiveTaken'
<1> DEFINE next == NextOut(ob, None, d)
<1>1. None \notin Matrix
  BY MsgAssumption
<1>2. /\ active' = IF next # None THEN next ELSE None
      /\ intake' = [m \in Matrix |-> IF m = next THEN "starting" ELSE intake[m]]
  BY DEF Drain
<1> HIDE DEF next
<1>3. active' \in Matrix => intake'[active'] = "starting"
  BY <1>1, <1>2
<1> QED
  BY <1>3 DEF Known, ActiveTaken, Taken

\* The end of a turn makes room.
LEMMA CompletedUnknown ==
    ASSUME TypeOK, NEW status, TurnCompleted(status)
    PROVE  ~Known' /\ ActiveTaken'
<1> DEFINE ended == CASE status = "interrupted" -> IF progress THEN "interrupted" ELSE "canceled"
                     [] OTHER -> status
<1>1. None \notin Matrix
  BY MsgAssumption
<1>2. \/ Drain(SetState(outbox, Attributed, "failed"), None, FALSE, delivery)
      \/ Drain(SetState(outbox, active, ended), None, FALSE, Resumed)
      \/ Drain(outbox, None, progress, Resumed)
      \/ NoDrain(outbox, None, progress, delivery)
  BY Zenon DEF TurnCompleted, FailUnanswered
<1> HIDE DEF ended
<1>3. ASSUME NEW ob, NEW pg, NEW d, Drain(ob, None, pg, d) PROVE ~Known' /\ ActiveTaken'
  BY <1>3, DrainUnknown
<1>4. CASE NoDrain(outbox, None, progress, delivery)
  BY <1>1, <1>4 DEF NoDrain, Known, ActiveTaken
<1> QED
  BY <1>2, <1>3, <1>4

-----------------------------------------------------------------------------
(* What a handler does to the turns *)

\* ts are the same turns of the same messages; a turn cut short stays so.
SameTurns(ts) ==
    /\ ts \in Seq(Turn) /\ Len(ts) = Len(turns) /\ DOMAIN ts = DOMAIN turns
    /\ \A u \in DOMAIN turns : ts[u].msg = turns[u].msg /\ (turns[u].cut => ts[u].cut)

SamePhases(ts) == \A u \in DOMAIN turns : ts[u].phase = turns[u].phase

LEMMA TurnsUnchanged == turns \in Seq(Turn) => SameTurns(turns) /\ SamePhases(turns)
BY DEF SameTurns, SamePhases

LEMMA PhaseChanges ==
    ASSUME turns \in Seq(Turn), NEW t \in DOMAIN turns, NEW p \in Phases
    PROVE  /\ SameTurns(InPhase(t, p))
           /\ \A u \in DOMAIN turns :
                 InPhase(t, p)[u].phase = IF u = t THEN p ELSE turns[u].phase
<1>1. \A u \in DOMAIN turns : turns[u] \in Turn
  OBVIOUS
<1>2. InPhase(t, p) \in Seq(Turn)
  <2>1. [turns[t] EXCEPT !.phase = p] \in Turn
    BY <1>1 DEF Turn
  <2>2. InPhase(t, p) = [turns EXCEPT ![t] = [turns[t] EXCEPT !.phase = p]]
    BY DEF InPhase
  <2> QED
    BY <2>1, <2>2
<1> QED
  BY <1>1, <1>2 DEF InPhase, SameTurns, Turn

LEMMA ApprovalCounted ==
    ASSUME turns \in Seq(Turn), NEW t \in DOMAIN turns
    PROVE  /\ SameTurns([turns EXCEPT ![t].approvals = @ + 1])
           /\ SamePhases([turns EXCEPT ![t].approvals = @ + 1])
<1> DEFINE ts == [turns EXCEPT ![t].approvals = @ + 1]
<1>1. \A u \in DOMAIN turns : turns[u] \in Turn
  OBVIOUS
<1>2. ts \in Seq(Turn)
  <2>1. [turns[t] EXCEPT !.approvals = @ + 1] \in Turn
    BY <1>1 DEF Turn
  <2>2. ts = [turns EXCEPT ![t] = [turns[t] EXCEPT !.approvals = @ + 1]]
    OBVIOUS
  <2> QED
    BY <2>1, <2>2
<1> QED
  BY <1>1, <1>2 DEF SameTurns, SamePhases, Turn

LEMMA TurnGivenUp ==
    ASSUME turns \in Seq(Turn), controlTurn \in DOMAIN turns
    PROVE  /\ SameTurns(GivenUp) /\ SamePhases(GivenUp)
           /\ turns[controlTurn].phase = "accepted" => GivenUp[controlTurn].cut
<1> DEFINE new == turns[controlTurn].cut \/ turns[controlTurn].phase = "accepted"
<1>1. \A u \in DOMAIN turns : turns[u] \in Turn
  OBVIOUS
<1>2. new \in BOOLEAN
  OBVIOUS
<1>3. GivenUp = [turns EXCEPT ![controlTurn] = [turns[controlTurn] EXCEPT !.cut = new]]
  BY DEF GivenUp
<1>4. turns[controlTurn].cut => new
  OBVIOUS
<1>5. turns[controlTurn].phase = "accepted" => new
  OBVIOUS
<1> HIDE DEF new
<1>6. [turns[controlTurn] EXCEPT !.cut = new] \in Turn
  BY <1>1, <1>2 DEF Turn
<1>7. GivenUp \in Seq(Turn)
  BY <1>3, <1>6
<1> QED
  BY <1>1, <1>3, <1>4, <1>5, <1>7 DEF SameTurns, SamePhases, Turn

-----------------------------------------------------------------------------
(* Types, and what the drain's request is about *)

Steps == {"idle", "thread", "begun", "turn", "answered", "rejected"}

PlainTypes ==
    /\ ready \in {"starting", "ready", "failed"} /\ thread \in BOOLEAN
    /\ control \in {"none", "asked", "sent", "released"}
    /\ stopping \in BOOLEAN /\ due \in {"none", "error", "control", "accepted"}

DrainTypes(q, st, ts, aw) ==
    /\ q \in Seq(Msg) /\ st \in Steps /\ ts \in Seq(Turn) /\ aw \in BOOLEAN
    /\ st = "begun" => ~aw

\* Turns that the adapter names are turns of this process.
NamesTurns(ts, at, ct, ft, rq) ==
    /\ at \in 0 .. Len(ts) /\ ct \in 0 .. Len(ts)
    /\ ft \subseteq DOMAIN ts /\ rq \subseteq DOMAIN ts

\* Nothing happens before the session is ready.
NothingYet(rd, th, co, du, st, ts, aw) ==
    rd # "ready" => /\ ts = <<>> /\ st = "idle" /\ ~th
                    /\ co = "none" /\ du = "none" /\ ~aw

\* A process that is gone left nothing behind.
NothingLeft ==
    /\ ~alive => ready # "ready"
    /\ ~present => ~alive /\ ready = "starting" /\ queue = <<>>

HasAnswer == {"accepted", "started"} \cup Over

\* A request is about the head of the queue, and one for a turn about the last
\* turn; a turn the adapter names was answered.
Requests(q, st, ts, th, at, ct) ==
    /\ ts # <<>> => th
    /\ st = "thread" => ~th
    /\ st = "begun" => th
    /\ st # "idle" => q # <<>>
    /\ st \in {"turn", "answered"} => ts # <<>> /\ ts[Len(ts)].msg = Head(q)
    /\ st = "turn" => ts[Len(ts)].phase = "asked"
    /\ st = "answered" => ts[Len(ts)].phase \in HasAnswer
    /\ \A t \in DOMAIN ts : ts[t].phase = "asked" => t = Len(ts) /\ st = "turn"
    /\ at # 0 => ts[at].phase \in HasAnswer
    /\ ct # 0 => ts[ct].phase \in HasAnswer

Structure ==
    /\ PlainTypes /\ DrainTypes(queue, step, turns, awaiting)
    /\ NamesTurns(turns, activeTurn, controlTurn, failedTurns, asks)
    /\ NothingYet(ready, thread, control, due, step, turns, awaiting)
    /\ NothingLeft
    /\ Requests(queue, step, turns, thread, activeTurn, controlTurn)

\* The structure as a handler leaves it to the drain.
Prepared(q, st, ts, aw) ==
    /\ PlainTypes' /\ DrainTypes(q, st, ts, aw)
    /\ NamesTurns(ts, activeTurn', controlTurn', failedTurns', asks')
    /\ NothingYet(ready', thread', control', due', st, ts, aw)
    /\ Requests(q, st, ts, thread', activeTurn', controlTurn')

LEMMA HandlerTypes ==
    ASSUME TypeOK, [Next]_vars, NEW called, NEW q, NEW st, NEW ts, NEW aw,
           DrainTypes(q, st, ts, aw), Handler(called, q, st, ts, aw)
    PROVE  /\ DrainTypes(queue', step', turns', awaiting')
           /\ queue' # <<>> => Head(queue') \in Msg
           /\ q # <<>> => queue' # <<>> /\ Head(queue') = Head(q)
<1>1. JustHanded \in Seq(Msg)
  <2>1. JustHanded = <<>> \/ \E m \in Msg : JustHanded = <<m>>
    BY HandedOver
  <2>2. <<>> \in Seq(Msg) /\ \A m \in Msg : <<m>> \in Seq(Msg)
    OBVIOUS
  <2> QED
    BY <2>1, <2>2
<1>2. queue' \in Seq(Msg) /\ (queue' # <<>> => Head(queue') \in Msg)
  BY <1>1 DEF Handler, DrainTypes
<1>3. q # <<>> => queue' # <<>> /\ Head(queue') = Head(q)
  BY <1>1 DEF Handler, DrainTypes
<1>4. step' \in Steps
  BY DEF Handler, Waits, Begins, DrainTypes, Steps
<1>5. turns' \in Seq(Turn) /\ awaiting' \in BOOLEAN /\ (step' = "begun" => ~awaiting')
  BY DEF Handler, Waits, Begins, DrainTypes
<1> QED
  BY <1>2, <1>3, <1>4, <1>5 DEF DrainTypes

\* The drain keeps the structure the handler prepared.
LEMMA HandlerStructure ==
    ASSUME TypeOK, [Next]_vars, NEW called, NEW q, NEW st, NEW ts, NEW aw,
           Prepared(q, st, ts, aw), Handler(called, q, st, ts, aw), NothingLeft'
    PROVE  Structure'
<1>1. /\ DrainTypes(queue', step', turns', awaiting')
      /\ queue' # <<>> => Head(queue') \in Msg
      /\ q # <<>> => queue' # <<>> /\ Head(queue') = Head(q)
  BY HandlerTypes DEF Prepared
<1>2. turns' = ts /\ awaiting' = aw
  BY DEF Handler
<1>3. CASE Waits(called, st, aw)
  BY <1>1, <1>2, <1>3 DEF Prepared, Structure, Waits, Requests
<1>4. CASE Begins(st, aw)
  BY <1>1, <1>2, <1>4 DEF Prepared, Structure, Begins, Requests, MayAsk, NothingYet
<1> QED
  BY <1>3, <1>4 DEF Handler

\* What waits behind the request of a drain that awaits at st.
Rest(q, st) == IF st \in {"turn", "answered", "rejected"} THEN Tail(q) ELSE q

\* A handler plays no message, or gives up the one it asked a thread for.
KeepsRest(q, st) ==
    Rest(q, st) = Unplayed \/ (Unplayed # <<>> /\ Rest(q, st) = Tail(Unplayed))

(* What a handler does to the turns and to the active message's record. *)

OpenIn(ts, t) == ts[t].phase \in {"asked", "accepted", "started"}

\* Nothing is announced, and the report that a turn ended under an approval is
\* only taken back by ending the active message.
KeepsStart ==
    /\ Known' => Known
    /\ due' = "accepted" => due = "accepted"
    /\ due = "accepted" /\ controlTurn \notin failedTurns
          => due' = "accepted" /\ controlTurn' = controlTurn

QuietSide ==
    /\ UNCHANGED <<activeTurn, failedTurns>> /\ KeepsStart
    /\ \/ controlTurn' = controlTurn
       \/ controlTurn' = activeTurn /\ step # "answered" /\ due' = "none"
    /\ due' \in {"none", due} \/ Idle

NoTurnMoves(st, ts, aw) ==
    /\ QuietSide /\ SamePhases(ts)
    /\ st = step \/ {st, step} \cap {"turn", "answered"} = {}
    /\ aw => awaiting /\ (step = "rejected" => st = "rejected")

LastIsAnswered(st, ts, aw) ==
    \E p \in {"accepted", "refused"} :
        /\ step = "turn" /\ Line /\ KeepsStart /\ due' = "none"
        /\ UNCHANGED <<activeTurn, controlTurn, failedTurns>>
        /\ ts = InPhase(Len(turns), p)
        /\ st = IF p = "accepted" THEN "answered" ELSE "rejected"
        /\ aw => awaiting

LastIsActive(st, ts, aw) ==
    /\ step = "answered" /\ st = "idle" /\ due = "none" /\ due' = "none" /\ ts = turns
    /\ KeepsStart /\ UNCHANGED <<controlTurn, failedTurns>>
    /\ activeTurn' = IF Head(queue) \in Compact THEN activeTurn ELSE Len(turns)
    /\ aw => awaiting

TurnStarts(t, st, ts, aw) ==
    /\ turns[t].phase = "accepted" /\ Line /\ due' = "none"
    /\ st = step /\ ts = InPhase(t, "started") /\ ~aw
    /\ activeTurn' = t /\ UNCHANGED <<controlTurn, failedTurns>>
    /\ ActiveTaken => ActiveTaken'

TurnIsOver(t, st, ts, aw) ==
    /\ turns[t].phase = "started" /\ Line
    /\ st = step /\ ts = EndOf(t) /\ ~aw
    /\ Cleared(t) /\ UNCHANGED controlTurn
    /\ \/ /\ UNCHANGED failedTurns /\ due' = "accepted" /\ controlTurn = t
          /\ (Known' => Known)
       \/ UNCHANGED failedTurns /\ due' # "accepted" /\ ~Known'
       \/ /\ t \in failedTurns /\ failedTurns' = failedTurns \ {t}
          /\ due' # "accepted" /\ (Known' => Known)

LastIsGivenUp(st, ts, aw) ==
    /\ controlTurn # 0 /\ controlTurn \notin failedTurns /\ due \in {"control", "accepted"}
    /\ st = step /\ ts = GivenUp /\ ~aw /\ due' = "none" /\ ~Known'
    /\ failedTurns' = failedTurns \cup {controlTurn} /\ Cleared(controlTurn)
    /\ UNCHANGED controlTurn

TurnsStep(st, ts, aw) ==
    \/ NoTurnMoves(st, ts, aw) \/ LastIsAnswered(st, ts, aw) \/ LastIsActive(st, ts, aw)
    \/ LastIsGivenUp(st, ts, aw)
    \/ \E t \in DOMAIN turns : TurnStarts(t, st, ts, aw) \/ TurnIsOver(t, st, ts, aw)

\* The drain is called, something else will call it, or there is no more to do
\* than before.
WakeStep(called, st, ts) ==
    \/ called \/ st # "idle" \/ due' # "none" \/ control' # "none" \/ ready' # "ready"
    \/ \E t \in DOMAIN ts : OpenIn(ts, t)
    \/ st = step /\ SamePhases(ts) /\ UNCHANGED <<queue, due, control, ready, activeTurn>>

\* What every step is but the start and the exit of the process and the drain's
\* own that asks for a turn.
Handled ==
    /\ present' = present
    /\ ActiveTaken => ActiveTaken'
    /\ \E called, q, st, ts, aw :
           /\ Handler(called, q, st, ts, aw) /\ Prepared(q, st, ts, aw)
           /\ SameTurns(ts) /\ KeepsRest(q, st)
           /\ TurnsStep(st, ts, aw) /\ WakeStep(called, st, ts)

LEMMA HandledAt ==
    ASSUME NEW called, NEW q, NEW st, NEW ts, NEW aw, Handler(called, q, st, ts, aw),
           Prepared(q, st, ts, aw), SameTurns(ts), KeepsRest(q, st), present' = present,
           TurnsStep(st, ts, aw), WakeStep(called, st, ts), ActiveTaken => ActiveTaken'
    PROVE  Handled
BY DEF Handled

LEMMA SameRest == KeepsRest(queue, step)
BY DEF KeepsRest, Rest, Unplayed

\* A handler that takes nothing off the queue.
LEMMA HandledInPlace ==
    ASSUME NEW called, NEW ts, NEW aw, Handler(called, queue, step, ts, aw),
           Prepared(queue, step, ts, aw), SameTurns(ts), present' = present,
           TurnsStep(step, ts, aw), WakeStep(called, step, ts), ActiveTaken => ActiveTaken'
    PROVE  Handled
BY SameRest, HandledAt

\* A handler that changes no turn either.
LEMMA HandledQuietly ==
    ASSUME Structure, NEW called, NEW aw, Handler(called, queue, step, turns, aw),
           Prepared(queue, step, turns, aw), present' = present,
           aw => awaiting, QuietSide, WakeStep(called, step, turns), ActiveTaken => ActiveTaken'
    PROVE  Handled
<1>1. SameTurns(turns) /\ SamePhases(turns)
  BY TurnsUnchanged DEF Structure, DrainTypes
<1>2. TurnsStep(step, turns, aw)
  BY <1>1 DEF TurnsStep, NoTurnMoves
<1> QED
  BY <1>1, <1>2, HandledInPlace

\* With the drain called, or left alone.
LEMMA QuietlyCalled ==
    ASSUME Structure, Handler(TRUE, queue, step, turns, awaiting),
           Prepared(queue, step, turns, awaiting), present' = present,
           QuietSide, ActiveTaken => ActiveTaken'
    PROVE  Handled
<1>1. PICK called : called = TRUE
  OBVIOUS
<1>2. Handler(called, queue, step, turns, awaiting) /\ WakeStep(called, step, turns)
  BY <1>1 DEF WakeStep
<1>3. awaiting => awaiting
  OBVIOUS
<1> QED
  BY <1>2, <1>3, HandledQuietly

LEMMA QuietlyResting ==
    ASSUME Structure, Handler(FALSE, queue, step, turns, awaiting),
           Prepared(queue, step, turns, awaiting), present' = present,
           WakeStep(FALSE, step, turns), QuietSide, ActiveTaken => ActiveTaken'
    PROVE  Handled
<1>1. PICK called : called = FALSE
  OBVIOUS
<1>2. Handler(called, queue, step, turns, awaiting) /\ WakeStep(called, step, turns)
  BY <1>1
<1>3. awaiting => awaiting
  OBVIOUS
<1> QED
  BY <1>2, <1>3, HandledQuietly

\* Between callbacks nothing is due.
LEMMA QuietSideIdle ==
    ASSUME due = "none", due' # "accepted", KnownStays,
           UNCHANGED <<activeTurn, failedTurns, controlTurn>>, due' = "none" \/ Idle
    PROVE  QuietSide /\ (ActiveTaken => ActiveTaken')
BY DEF QuietSide, KeepsStart, KnownStays

\* A step that hands over, or does nothing the drain looks at.
LEMMA HandOffWakes ==
    ASSUME Structure, Handler(JustHanded # <<>>, queue, step, turns, awaiting),
           UNCHANGED <<due, control, ready, activeTurn>>
    PROVE  WakeStep(JustHanded # <<>>, step, turns)
<1>1. queue \in Seq(Msg) /\ SamePhases(turns)
  BY TurnsUnchanged DEF Structure, DrainTypes
<1>2. JustHanded = <<>> => queue' = queue
  BY <1>1 DEF Handler
<1> QED
  BY <1>1, <1>2 DEF WakeStep

LEMMA RestWakes ==
    ASSUME Structure, UNCHANGED <<queue, due, control, ready, activeTurn>>
    PROVE  WakeStep(FALSE, step, turns)
BY TurnsUnchanged DEF Structure, DrainTypes, WakeStep

\* The drain is free exactly when it awaits nothing.
LEMMA SendingHandles ==
    ASSUME NEW called \in BOOLEAN, NEW q, NEW ts, NEW aw \in BOOLEAN,
           Feed(called, ~Sending, q, ts, aw)
    PROVE  Handler(called \/ JustHanded # <<>>, q, step, ts, aw)
<1>1. (~Sending) = (step = "idle")
  BY DEF Sending
<1>2. Feed(called, step = "idle", q, ts, aw)
  BY <1>1, Zenon
<1> QED
  BY <1>2, FeedHandles

LEMMA HandOffHandles ==
    ASSUME Structure, OnHandOff PROVE Handler(JustHanded # <<>>, queue, step, turns, awaiting)
<1>1. FALSE \in BOOLEAN /\ awaiting \in BOOLEAN /\ Feed(FALSE, ~Sending, queue, turns, awaiting)
  BY DEF OnHandOff, Structure, DrainTypes
<1>2. Handler(FALSE \/ JustHanded # <<>>, queue, step, turns, awaiting)
  BY <1>1, SendingHandles
<1>3. (FALSE \/ JustHanded # <<>>) = (JustHanded # <<>>)
  OBVIOUS
<1> QED
  BY <1>2, <1>3, Zenon

LEMMA TrueHandles ==
    ASSUME NEW q, NEW st, NEW ts, NEW aw,
           Handler(TRUE \/ JustHanded # <<>>, q, st, ts, aw)
    PROVE  Handler(TRUE, q, st, ts, aw)
<1>1. (TRUE \/ JustHanded # <<>>) = TRUE
  OBVIOUS
<1> QED
  BY <1>1, Zenon

LEMMA DrainedHandles ==
    ASSUME Structure, Drained PROVE Handler(TRUE, queue, step, turns, awaiting)
<1>1. TRUE \in BOOLEAN /\ awaiting \in BOOLEAN /\ Feed(TRUE, ~Sending, queue, turns, awaiting)
  BY DEF Drained, Structure, DrainTypes
<1> QED
  BY <1>1, SendingHandles, TrueHandles

\* The drain starts over.
LEMMA StartOverHandles ==
    ASSUME NEW q, NEW ts, NEW aw \in BOOLEAN, Feed(TRUE, TRUE, q, ts, aw)
    PROVE  Handler(TRUE, q, "idle", ts, aw)
<1>1. TRUE = ("idle" = "idle") /\ TRUE \in BOOLEAN /\ "idle" \in {"idle", step}
  OBVIOUS
<1>2. Feed(TRUE, "idle" = "idle", q, ts, aw)
  BY <1>1, Zenon
<1>3. Handler(TRUE \/ JustHanded # <<>>, q, "idle", ts, aw)
  BY <1>1, <1>2, FeedHandles
<1> QED
  BY <1>3, TrueHandles

LEMMA RuntimeErrorLives == RuntimeError => UNCHANGED <<alive, present, epoch>>
BY DEF RuntimeError, AuthError, ProviderOutput, SameSession, vars

LEMMA AdapterFailsLives == alive /\ AdapterFails => UNCHANGED <<alive, present, epoch>>
BY DEF AdapterFails, AuthError, AdapterError, SameSession, vars

\* A session that lives has its process.
LEMMA StillThere ==
    ASSUME Structure, alive, UNCHANGED <<alive, present>> PROVE NothingLeft'
BY DEF Structure, NothingLeft

\* A handler that names no other turn.
LEMMA QuietPrepared ==
    ASSUME Structure,
           UNCHANGED <<ready, thread, activeTurn, approval, stopping, due, asks>>
    PROVE  Prepared(queue, step, turns, awaiting)
BY DEF Structure, Prepared, PlainTypes, approval

\* An error or output announces no turn.
LEMMA RuntimeErrorQuiet == TypeOK /\ RuntimeError => KnownStays
BY KnownKept DEF RuntimeError

LEMMA AdapterFailsQuiet == TypeOK /\ AdapterFails => KnownStays
<1> SUFFICES ASSUME TypeOK, AdapterFails PROVE KnownStays
  OBVIOUS
<1> QED
  BY KnownKept, Zenon DEF AdapterFails

LEMMA NothingQuiet == TypeOK /\ UNCHANGED vars => KnownStays
BY KnownKept

\* The Host's side: none of it names another turn.
LEMMA HostStructure ==
    ASSUME TypeOK, Structure, [Next]_vars,
           (\E m \in Msg : User(m)) \/ Interrupt \/ Stop
    PROVE  Handled /\ NothingLeft'
<1>1. queue \in Seq(Msg)
  BY DEF Structure, DrainTypes
<1>2. ASSUME NEW m \in Msg, User(m) PROVE Handled /\ NothingLeft'
  <2>1. Handler(JustHanded # <<>>, queue, step, turns, awaiting)
    BY <1>2, HandOffHandles DEF User
  <2>2. Prepared(queue, step, turns, awaiting)
    BY <1>2, QuietPrepared DEF User
  <2>3. NothingLeft' /\ present' = present
    <3>1. /\ UNCHANGED <<alive, present, ready>>
          /\ Receipt(m) \/ CancelIntake(m) \/ present
      BY <1>2 DEF User, Receipt, CancelIntake, Enqueue, RunLocalCommand, CancelOutboxMessage,
                  RetryOutboxMessage, SkipOutboxMessage, SameSession
    <3>2. CASE Receipt(m) \/ CancelIntake(m)
      <4>1. JustHanded = <<>>
        BY <3>2 DEF JustHanded, Receipt, CancelIntake
      <4>2. queue' = queue
        BY <1>1, <2>1, <4>1 DEF Handler
      <4> QED
        BY <3>1, <4>2 DEF Structure, NothingLeft
    <3>3. CASE present
      BY <3>1, <3>3 DEF Structure, NothingLeft
    <3> QED
      BY <3>1, <3>2, <3>3
  <2>4. WakeStep(JustHanded # <<>>, step, turns)
    BY <1>2, <2>1, HandOffWakes DEF User, approval
  <2>5. KnownStays
    BY <1>2, KnownKept DEF User, UserStep
  <2>6. QuietSide /\ (ActiveTaken => ActiveTaken')
    BY <1>2, <2>5, QuietSideIdle DEF User, Idle, approval
  <2> QED
    BY <2>1, <2>2, <2>3, <2>4, <2>6, HandledQuietly
<1>3. CASE Interrupt
  <2>1. /\ UNCHANGED <<queue, step, turns, awaiting, activeTurn, approval, handed, alive, present,
                       ready, thread, stopping, due>>
        /\ asks' = asks \/ (activeTurn # 0 /\ asks' = asks \cup {activeTurn})
    BY <1>3 DEF Interrupt, InterruptSession, NoDrain, SameSession
  <2>2. Handler(FALSE, queue, step, turns, awaiting)
    BY <1>1, <2>1, RestHandles
  <2>3. Prepared(queue, step, turns, awaiting)
    BY <2>1 DEF Structure, Prepared, PlainTypes, NamesTurns, approval, DrainTypes
  <2>4. KnownStays
    BY <1>3, KnownKept DEF Interrupt, UserStep
  <2>5. QuietSide /\ (ActiveTaken => ActiveTaken')
    BY <1>3, <2>1, <2>4, QuietSideIdle DEF Interrupt, Idle, approval
  <2>6. WakeStep(FALSE, step, turns)
    BY <2>1, RestWakes DEF approval
  <2>20. NothingLeft' /\ present' = present
    BY <1>3, <2>1, <2>2 DEF Structure, NothingLeft, vars
  <2> QED
    BY <2>1, <2>2, <2>3, <2>5, <2>6, <2>20, QuietlyResting
<1>4. CASE Stop
  <2>1. /\ UNCHANGED <<queue, step, turns, awaiting, activeTurn, approval, handed, alive, present,
                       ready, thread, due, asks>>
        /\ stopping' \in BOOLEAN
    BY <1>4 DEF Stop, vars
  <2>2. Handler(FALSE, queue, step, turns, awaiting)
    BY <1>1, <2>1, RestHandles
  <2>3. Prepared(queue, step, turns, awaiting)
    BY <2>1 DEF Structure, Prepared, PlainTypes, approval
  <2>4. KnownStays
    BY <1>4, NothingQuiet DEF Stop
  <2>5. QuietSide /\ (ActiveTaken => ActiveTaken')
    BY <1>4, <2>1, <2>4, QuietSideIdle DEF Stop, Idle, approval
  <2>6. WakeStep(FALSE, step, turns)
    BY <2>1, RestWakes DEF approval
  <2>20. NothingLeft' /\ present' = present
    BY <1>4, <2>1, <2>2 DEF Structure, NothingLeft, vars
  <2> QED
    BY <2>1, <2>2, <2>3, <2>5, <2>6, <2>20, QuietlyResting
<1> QED
  BY <1>2, <1>3, <1>4

\* A process starts without anything and leaves nothing behind.
LEMMA ProcessStructure ==
    ASSUME Structure, Start \/ Exit PROVE Structure'
<1>1. CASE Start
  <2>1. /\ UNCHANGED adapter /\ ~present /\ present' /\ alive'
    BY <1>1 DEF Start, StartSession
  <2>2. NothingLeft'
    BY <2>1 DEF NothingLeft
  <2>3. UNCHANGED <<ready, thread, queue, step, activeTurn, awaiting, control, controlTurn,
                    failedTurns, stopping, due, turns, asks>>
    BY <2>1 DEF adapter, approval
  <2> QED
    BY <2>2, <2>3 DEF Structure, PlainTypes
<1>2. CASE Exit
  <2>1. FreshProcess /\ ~alive' /\ ~present'
    BY <1>2 DEF Exit, ProviderExit
  <2>2. /\ queue' = <<>> /\ turns' = <<>> /\ step' = "idle" /\ ready' = "starting"
        /\ ~thread' /\ ~awaiting' /\ activeTurn' = 0 /\ controlTurn' = 0
        /\ failedTurns' = {} /\ asks' = {} /\ control' = "none" /\ due' = "none"
        /\ thread' \in BOOLEAN /\ awaiting' \in BOOLEAN /\ stopping' \in BOOLEAN
    BY <2>1 DEF FreshProcess
  <2>3. PlainTypes' /\ DrainTypes(queue', step', turns', awaiting')
    BY <2>2 DEF PlainTypes, DrainTypes, Steps
  <2>4. NamesTurns(turns', activeTurn', controlTurn', failedTurns', asks')
    BY <2>2 DEF NamesTurns
  <2>5. Requests(queue', step', turns', thread', activeTurn', controlTurn')
    BY <2>2 DEF Requests
  <2>6. NothingYet(ready', thread', control', due', step', turns', awaiting') /\ NothingLeft'
    BY <2>1, <2>2 DEF NothingYet, NothingLeft
  <2> QED
    BY <2>3, <2>4, <2>5, <2>6 DEF Structure
<1> QED
  BY <1>1, <1>2

\* Starting, and the answers to the drain's requests.
LEMMA AnswerStructure ==
    ASSUME TypeOK, Structure, [Next]_vars, Startup \/ Answer PROVE Handled /\ NothingLeft'
<1>1. /\ queue \in Seq(Msg) /\ turns \in Seq(Turn) /\ Len(turns) \in Nat
      /\ DOMAIN turns = 1 .. Len(turns)
  BY DEF Structure, DrainTypes
<1>2. CASE Initialized
  <2>1. Handler(TRUE, queue, step, turns, awaiting)
    BY <1>2, DrainedHandles DEF Initialized
  <2>2. Prepared(queue, step, turns, awaiting)
    BY <1>2 DEF Initialized, Structure, Prepared, PlainTypes, approval, NothingYet, Requests
  <2>3. NothingLeft' /\ present' = present
    BY <1>2, StillThere DEF Initialized, ProviderReady, SameSession
  <2>4. KnownStays
    BY <1>2, KnownKept DEF Initialized
  <2>5. QuietSide /\ (ActiveTaken => ActiveTaken')
    BY <1>2, <2>4, QuietSideIdle DEF Initialized, Idle, approval
  <2> QED
    BY <2>1, <2>2, <2>3, <2>5, QuietlyCalled
<1>3. CASE InitFails
  <2>1. Handler(JustHanded # <<>>, queue, step, turns, awaiting)
    BY <1>3, HandOffHandles DEF InitFails
  <2>2. Prepared(queue, step, turns, awaiting)
    BY <1>3 DEF InitFails, Structure, Prepared, PlainTypes, approval, NothingYet
  <2>3. NothingLeft' /\ present' = present
    BY <1>3, AdapterFailsLives, StillThere DEF InitFails
  <2>4. KnownStays
    BY <1>3, AdapterFailsQuiet DEF InitFails
  <2>5. QuietSide /\ (ActiveTaken => ActiveTaken')
    BY <1>3, <2>4, QuietSideIdle DEF InitFails, Idle, approval
  <2>6. WakeStep(JustHanded # <<>>, step, turns)
    BY <1>3 DEF InitFails, WakeStep
  <2> QED
    BY <2>1, <2>2, <2>3, <2>5, <2>6, HandledQuietly
<1>4. CASE ProcError
  <2>1. Handler(JustHanded # <<>>, queue, step, turns, awaiting)
    BY <1>4, HandOffHandles DEF ProcError
  <2>2. Prepared(queue, step, turns, awaiting)
    BY <1>4, QuietPrepared DEF ProcError
  <2>3. NothingLeft' /\ present' = present
    BY <1>4 DEF ProcError, AdapterError, NothingLeft
  <2>4. KnownStays
    BY <1>4, KnownKept DEF ProcError
  <2>5. QuietSide /\ (ActiveTaken => ActiveTaken')
    BY <1>4, <2>4, QuietSideIdle DEF ProcError, Idle, approval
  <2>6. WakeStep(JustHanded # <<>>, step, turns)
    BY <1>4, <2>1, HandOffWakes DEF ProcError, approval
  <2> QED
    BY <2>1, <2>2, <2>3, <2>5, <2>6, HandledQuietly
<1>5. CASE ThreadAnswered
  <2>1. Handler(TRUE, queue, "idle", turns, awaiting)
    <3>1. Feed(TRUE, TRUE, queue, turns, awaiting) /\ awaiting \in BOOLEAN
      BY <1>5 DEF ThreadAnswered, Structure, DrainTypes
    <3> QED
      BY <3>1, StartOverHandles
  <2>2. Prepared(queue, "idle", turns, awaiting)
    BY <1>5 DEF ThreadAnswered, Structure, Prepared, PlainTypes, approval, NothingYet, Requests,
                DrainTypes, Steps
  <2>3. NothingLeft' /\ present' = present
    BY <1>5, StillThere DEF ThreadAnswered, ProviderReady, SameSession
  <2>7. step = "thread" /\ KeepsRest(queue, "idle")
    BY <1>5 DEF ThreadAnswered, KeepsRest, Rest, Unplayed
  <2>8. SameTurns(turns)
    BY <1>1, TurnsUnchanged
  <2>4. KnownStays
    BY <1>5, KnownKept DEF ThreadAnswered
  <2>5. QuietSide /\ (ActiveTaken => ActiveTaken')
    BY <1>5, <2>4, QuietSideIdle DEF ThreadAnswered, Idle, approval
  <2>6. TurnsStep("idle", turns, awaiting) /\ WakeStep(TRUE, "idle", turns)
    BY <2>5, <2>7, <1>1, TurnsUnchanged DEF TurnsStep, NoTurnMoves, WakeStep
  <2> QED
    BY <2>1, <2>2, <2>3, <2>5, <2>6, <2>7, <2>8, HandledAt
<1>6. CASE TurnAnswered
  <2>1. step = "turn" /\ turns # <<>> /\ Len(turns) \in DOMAIN turns
    BY <1>1, <1>6 DEF TurnAnswered, Structure, Requests
  <2>2. /\ SameTurns(InPhase(Len(turns), "accepted"))
        /\ \A u \in DOMAIN turns : InPhase(Len(turns), "accepted")[u].phase
                                    = IF u = Len(turns) THEN "accepted" ELSE turns[u].phase
    BY <1>1, <2>1, PhaseChanges DEF Phases
  <2>3. Handler(FALSE, queue, "answered", InPhase(Len(turns), "accepted"), awaiting)
    BY <1>1, <1>6, RestHandles DEF TurnAnswered, vars
  <2>4. Prepared(queue, "answered", InPhase(Len(turns), "accepted"), awaiting)
    <3> HIDE DEF InPhase
    <3>1. NothingYet(ready', thread', control', due', "answered",
                     InPhase(Len(turns), "accepted"), awaiting)
      BY <1>6, <2>1 DEF TurnAnswered, Structure, NothingYet
    <3>3. UNCHANGED <<ready, thread, activeTurn, approval, stopping, due, asks>>
      BY <1>6 DEF TurnAnswered
    <3>2. Requests(queue, "answered", InPhase(Len(turns), "accepted"), thread',
                   activeTurn', controlTurn')
      <4> DEFINE ts == InPhase(Len(turns), "accepted")
      <4>1. step = "turn"
        BY <1>6 DEF TurnAnswered
      <4> HIDE DEF ts
      <4>2. /\ ts # <<>> /\ Len(ts) = Len(turns) /\ DOMAIN ts = 1 .. Len(turns)
            /\ ts[Len(turns)].phase = "accepted" /\ ts[Len(turns)].msg = Head(queue)
            /\ \A u \in DOMAIN turns : u # Len(turns) => ts[u].phase = turns[u].phase
        BY <1>1, <2>1, <2>2, <4>1 DEF SameTurns, Structure, Requests, ts
      <4>3. thread' /\ queue # <<>>
        BY <2>1, <3>3, <4>1 DEF Structure, Requests
      <4>4. \A u \in DOMAIN ts : ts[u].phase # "asked"
        BY <1>1, <4>2 DEF Structure, Requests
      <4>5. \A u \in {activeTurn', controlTurn'} : u # 0 => ts[u].phase \in HasAnswer
        BY <1>1, <2>1, <3>3, <4>2 DEF Structure, NamesTurns, Requests, HasAnswer, Over, approval
      <4> QED
        BY <4>2, <4>3, <4>4, <4>5 DEF Requests, HasAnswer, ts
    <3> QED
      BY <2>2, <3>1, <3>2, <3>3 DEF Structure, Prepared, PlainTypes, approval, DrainTypes,
                                    Steps, NamesTurns, SameTurns
  <2>5. NothingLeft' /\ present' = present
    BY <1>6, StillThere DEF TurnAnswered, vars
  <2>7. step = "turn" /\ KeepsRest(queue, "answered")
    BY <2>1 DEF KeepsRest, Rest, Unplayed
  <2>8. SameTurns(InPhase(Len(turns), "accepted"))
    BY <2>2
  <2>9. TurnsStep("answered", InPhase(Len(turns), "accepted"), awaiting)
    <3>1. KeepsStart
      BY <1>6, NothingQuiet DEF TurnAnswered, KnownStays, KeepsStart, Line, Idle, approval
    <3> QED
      BY <1>6, <3>1 DEF TurnAnswered, TurnsStep, LastIsAnswered, Line, Idle, approval
  <2>10. WakeStep(FALSE, "answered", InPhase(Len(turns), "accepted")) /\ (ActiveTaken => ActiveTaken')
    BY <1>6 DEF TurnAnswered, WakeStep, ActiveTaken, vars
  <2> QED
    BY <2>3, <2>4, <2>5, <2>7, <2>8, <2>9, <2>10, HandledAt
<1>7. CASE RequestRefused /\ step = "turn"
  <2>1. turns # <<>> /\ Len(turns) \in DOMAIN turns /\ turns[Len(turns)].phase = "asked"
    BY <1>1, <1>7 DEF Structure, Requests
  <2>2. /\ SameTurns(InPhase(Len(turns), "refused"))
        /\ \A u \in DOMAIN turns : InPhase(Len(turns), "refused")[u].phase
                                    = IF u = Len(turns) THEN "refused" ELSE turns[u].phase
    BY <1>1, <2>1, PhaseChanges DEF Phases
  <2>3. Handler(FALSE, queue, "rejected", InPhase(Len(turns), "refused"), awaiting)
    BY <1>1, <1>7, RestHandles DEF RequestRefused, vars
  <2>4. Prepared(queue, "rejected", InPhase(Len(turns), "refused"), awaiting)
    <3> HIDE DEF InPhase
    <3>1. NothingYet(ready', thread', control', due', "rejected",
                     InPhase(Len(turns), "refused"), awaiting)
      BY <1>7, <2>1 DEF RequestRefused, Structure, NothingYet
    <3>3. UNCHANGED <<ready, thread, activeTurn, approval, stopping, due, asks>>
      BY <1>7 DEF RequestRefused
    <3>2. Requests(queue, "rejected", InPhase(Len(turns), "refused"), thread',
                   activeTurn', controlTurn')
      <4> DEFINE ts == InPhase(Len(turns), "refused")
      <4>1. step = "turn"
        BY <1>7 DEF RequestRefused
      <4> HIDE DEF ts
      <4>2. /\ ts # <<>> /\ Len(ts) = Len(turns) /\ DOMAIN ts = 1 .. Len(turns)
            /\ ts[Len(turns)].phase = "refused" /\ ts[Len(turns)].msg = Head(queue)
            /\ \A u \in DOMAIN turns : u # Len(turns) => ts[u].phase = turns[u].phase
        BY <1>1, <2>1, <2>2, <4>1 DEF SameTurns, Structure, Requests, ts
      <4>3. thread' /\ queue # <<>>
        BY <2>1, <3>3, <4>1 DEF Structure, Requests
      <4>4. \A u \in DOMAIN ts : ts[u].phase # "asked"
        BY <1>1, <4>2 DEF Structure, Requests
      <4>5. \A u \in {activeTurn', controlTurn'} : u # 0 => ts[u].phase \in HasAnswer
        BY <1>1, <2>1, <3>3, <4>2 DEF Structure, NamesTurns, Requests, HasAnswer, Over, approval
      <4> QED
        BY <4>2, <4>3, <4>4, <4>5 DEF Requests, HasAnswer, ts
    <3> QED
      BY <2>2, <3>1, <3>2, <3>3 DEF Structure, Prepared, PlainTypes, approval, DrainTypes,
                                    Steps, NamesTurns, SameTurns
  <2>5. NothingLeft' /\ present' = present
    BY <1>7, StillThere DEF RequestRefused, vars
  <2>7. step = "turn" /\ KeepsRest(queue, "rejected")
    BY <1>7 DEF KeepsRest, Rest, Unplayed
  <2>8. SameTurns(InPhase(Len(turns), "refused"))
    BY <2>2
  <2>9. TurnsStep("rejected", InPhase(Len(turns), "refused"), awaiting)
    <3>1. KeepsStart
      BY <1>7, NothingQuiet DEF RequestRefused, KnownStays, KeepsStart, Line, Idle, approval
    <3> QED
      BY <1>7, <3>1 DEF RequestRefused, TurnsStep, LastIsAnswered, Line, Idle, approval
  <2>10. WakeStep(FALSE, "rejected", InPhase(Len(turns), "refused")) /\ (ActiveTaken => ActiveTaken')
    BY <1>7 DEF RequestRefused, WakeStep, ActiveTaken, vars
  <2> QED
    BY <2>3, <2>4, <2>5, <2>7, <2>8, <2>9, <2>10, HandledAt
<1>8. CASE RequestRefused /\ step = "thread"
  <2>1. Handler(FALSE, queue, "rejected", turns, awaiting)
    BY <1>1, <1>8, RestHandles DEF RequestRefused, vars
  <2>2. UNCHANGED <<ready, thread, activeTurn, approval, stopping, due, asks>>
    BY <1>8 DEF RequestRefused
  <2>3. Prepared(queue, "rejected", turns, awaiting)
    BY <1>8, <2>2 DEF Structure, Prepared, PlainTypes, approval, DrainTypes, Steps, NothingYet,
                      Requests
  <2>4. NothingLeft' /\ present' = present
    BY <1>8, StillThere DEF RequestRefused, vars
  <2>7. step = "thread" /\ KeepsRest(queue, "rejected")
    BY <1>8 DEF Structure, Requests, KeepsRest, Rest, Unplayed
  <2>8. SameTurns(turns)
    BY <1>1, TurnsUnchanged
  <2>5. KnownStays
    BY <1>8, NothingQuiet DEF RequestRefused
  <2>6. QuietSide /\ (ActiveTaken => ActiveTaken')
    BY <1>8, <2>5, QuietSideIdle DEF RequestRefused, Line, Idle, approval
  <2>9. TurnsStep("rejected", turns, awaiting) /\ WakeStep(FALSE, "rejected", turns)
    BY <2>6, <2>7, <1>1, TurnsUnchanged DEF TurnsStep, NoTurnMoves, WakeStep
  <2> QED
    BY <2>1, <2>3, <2>4, <2>6, <2>7, <2>8, <2>9, HandledAt
<1> QED
  BY <1>2, <1>3, <1>4, <1>5, <1>6, <1>7, <1>8 DEF Startup, Answer, RequestRefused

\* A handler that only takes answered turns to another answered phase.
Advances(ts) ==
    \A u \in DOMAIN turns :
        \/ ts[u].phase = turns[u].phase
        \/ turns[u].phase \in HasAnswer /\ ts[u].phase \in HasAnswer

LEMMA EditPrepared ==
    ASSUME Structure, NEW ts, SameTurns(ts), Advances(ts), NEW aw \in BOOLEAN, aw => awaiting,
           ready = "ready", UNCHANGED <<ready, thread>>, PlainTypes',
           NamesTurns(turns, activeTurn', controlTurn', failedTurns', asks'),
           activeTurn' # 0 => turns[activeTurn'].phase \in HasAnswer,
           controlTurn' # 0 => turns[controlTurn'].phase \in HasAnswer
    PROVE  Prepared(queue, step, ts, aw)
<1>1. /\ Len(turns) \in Nat /\ DOMAIN turns = 1 .. Len(turns)
      /\ Len(ts) = Len(turns) /\ DOMAIN ts = 1 .. Len(turns)
      /\ ts \in Seq(Turn) /\ queue \in Seq(Msg) /\ step \in Steps
  BY DEF Structure, DrainTypes, SameTurns
<1>2. DrainTypes(queue, step, ts, aw)
  BY <1>1 DEF DrainTypes, Structure
<1>3. NamesTurns(ts, activeTurn', controlTurn', failedTurns', asks')
  BY <1>1 DEF NamesTurns
<1>4. NothingYet(ready', thread', control', due', step, ts, aw)
  BY DEF NothingYet
<1>5. Requests(queue, step, ts, thread', activeTurn', controlTurn')
  <2>1. /\ ts # <<>> => thread'
        /\ step = "thread" => ~thread'
        /\ step = "begun" => thread'
        /\ step # "idle" => queue # <<>>
        /\ step \in {"turn", "answered"} => ts # <<>>
    BY <1>1 DEF Structure, Requests
  <2>2. /\ step \in {"turn", "answered"} => ts[Len(ts)].msg = Head(queue)
        /\ step = "turn" => ts[Len(ts)].phase = "asked"
        /\ step = "answered" => ts[Len(ts)].phase \in HasAnswer
    <3> SUFFICES ASSUME step \in {"turn", "answered"}
                 PROVE  /\ ts[Len(ts)].msg = Head(queue)
                        /\ step = "turn" => ts[Len(ts)].phase = "asked"
                        /\ step = "answered" => ts[Len(ts)].phase \in HasAnswer
      OBVIOUS
    <3>1. Len(turns) \in DOMAIN turns /\ Len(ts) = Len(turns)
      BY <1>1 DEF Structure, Requests
    <3>2. /\ turns[Len(turns)].msg = Head(queue)
          /\ step = "turn" => turns[Len(turns)].phase = "asked"
          /\ step = "answered" => turns[Len(turns)].phase \in HasAnswer
      BY DEF Structure, Requests
    <3>3. ts[Len(turns)].msg = turns[Len(turns)].msg
      BY <3>1 DEF SameTurns
    <3>4. "asked" \notin HasAnswer
      BY DEF HasAnswer, Over
    <3> QED
      BY <3>1, <3>2, <3>3, <3>4 DEF Advances
  <2>3. \A u \in DOMAIN ts : ts[u].phase = "asked" => u = Len(ts) /\ step = "turn"
    BY <1>1 DEF Advances, HasAnswer, Over, Structure, Requests
  <2>4. \A u \in {activeTurn', controlTurn'} : u # 0 => ts[u].phase \in HasAnswer
    BY <1>1 DEF Advances, NamesTurns
  <2> QED
    BY <2>1, <2>2, <2>3, <2>4 DEF Requests
<1> QED
  BY <1>2, <1>3, <1>4, <1>5 DEF Prepared

\* Once a turn exists, or anything of the adapter is under way, it is ready.
LEMMA ReadyThen ==
    ASSUME Structure,
           step # "idle" \/ due # "none" \/ control # "none" \/ awaiting
                         \/ turns # <<>> \/ \E t : t \in DOMAIN turns
    PROVE  ready = "ready" /\ alive
BY DEF Structure, NothingYet, NothingLeft

\* What is left of a callback.
LEMMA MicrotaskStructure ==
    ASSUME TypeOK, Structure, [Next]_vars,
           Continued \/ Rejected \/ TurnErrorText \/ ControlFails
    PROVE  Handled /\ NothingLeft'
<1>1. /\ queue \in Seq(Msg) /\ turns \in Seq(Turn) /\ Len(turns) \in Nat
      /\ DOMAIN turns = 1 .. Len(turns) /\ awaiting \in BOOLEAN
  BY DEF Structure, DrainTypes
<1>2. ready = "ready" /\ alive
  BY ReadyThen DEF Continued, Rejected, TurnErrorText, ControlFails
<1>3. step # "idle" => queue # <<>> /\ Tail(queue) \in Seq(Msg)
  BY <1>1 DEF Structure, Requests
<1>4. CASE Continued
  <2>1. Handler(TRUE, Tail(queue), "idle", turns, awaiting)
    <3>1. Feed(TRUE, TRUE, Tail(queue), turns, awaiting)
      BY <1>4 DEF Continued
    <3> QED
      BY <1>1, <3>1, StartOverHandles
  <2>2. Prepared(Tail(queue), "idle", turns, awaiting)
    <3>1. /\ UNCHANGED <<ready, thread, control, controlTurn, failedTurns, stopping, due, asks>>
          /\ step = "answered" /\ activeTurn' \in {activeTurn, Len(turns)}
      BY <1>4 DEF Continued, approval
    <3>2. PlainTypes' /\ DrainTypes(Tail(queue), "idle", turns, awaiting)
      BY <1>3, <3>1 DEF Structure, PlainTypes, DrainTypes, Steps
    <3>3. NamesTurns(turns, activeTurn', controlTurn', failedTurns', asks')
      BY <1>1, <3>1 DEF Structure, NamesTurns
    <3>4. Requests(Tail(queue), "idle", turns, thread', activeTurn', controlTurn')
      BY <1>1, <3>1 DEF Structure, Requests, NamesTurns
    <3> QED
      BY <1>2, <3>1, <3>2, <3>3, <3>4 DEF Prepared, NothingYet
  <2>3. NothingLeft' /\ present' = present
    BY <1>2, <1>4, StillThere DEF Continued, vars
  <2>7. step = "answered" /\ KeepsRest(Tail(queue), "idle")
    BY <1>4 DEF Continued, KeepsRest, Rest, Unplayed
  <2>8. SameTurns(turns)
    BY <1>1, TurnsUnchanged
  <2>9. TurnsStep("idle", turns, awaiting) /\ WakeStep(TRUE, "idle", turns)
    <3>1. KeepsStart
      BY <1>4, NothingQuiet DEF Continued, KnownStays, KeepsStart, approval
    <3> QED
      BY <1>4, <3>1 DEF Continued, TurnsStep, LastIsActive, approval, WakeStep
  <2>10. ActiveTaken => ActiveTaken'
    BY <1>4 DEF Continued, ActiveTaken, vars
  <2> QED
    BY <2>1, <2>2, <2>3, <2>7, <2>8, <2>9, <2>10, HandledAt
<1>5. CASE Rejected
  <2>1. Handler(TRUE, Tail(queue), "idle", turns, FALSE)
    <3>1. Feed(TRUE, TRUE, Tail(queue), turns, FALSE) /\ FALSE \in BOOLEAN
      BY <1>5 DEF Rejected
    <3> QED
      BY <3>1, StartOverHandles
  <2>2. Prepared(Tail(queue), "idle", turns, FALSE)
    <3>1. /\ UNCHANGED <<ready, thread, activeTurn, control, controlTurn, failedTurns,
                         stopping, due, asks>>
          /\ step \in {"rejected", "begun"}
      BY <1>5 DEF Rejected, approval
    <3>2. PlainTypes' /\ DrainTypes(Tail(queue), "idle", turns, FALSE)
      BY <1>3, <3>1 DEF Structure, PlainTypes, DrainTypes, Steps
    <3>3. NamesTurns(turns, activeTurn', controlTurn', failedTurns', asks')
      BY <1>1, <3>1 DEF Structure, NamesTurns
    <3>4. Requests(Tail(queue), "idle", turns, thread', activeTurn', controlTurn')
      BY <1>1, <3>1 DEF Structure, Requests, NamesTurns
    <3> QED
      BY <1>2, <3>1, <3>2, <3>3, <3>4 DEF Prepared, NothingYet
  <2>3. NothingLeft' /\ present' = present
    BY <1>2, <1>5, AdapterFailsLives, StillThere DEF Rejected
  <2>7. step \in {"rejected", "begun"} /\ KeepsRest(Tail(queue), "idle")
    BY <1>3, <1>5 DEF Rejected, KeepsRest, Rest, Unplayed
  <2>8. SameTurns(turns)
    BY <1>1, TurnsUnchanged
  <2>9. KnownStays
    BY <1>5, AdapterFailsQuiet DEF Rejected
  <2>10. QuietSide /\ (ActiveTaken => ActiveTaken')
    BY <1>5, <2>9 DEF Rejected, QuietSide, KeepsStart, KnownStays, approval
  <2>11. TurnsStep("idle", turns, FALSE) /\ WakeStep(TRUE, "idle", turns)
    BY <2>10, <2>7, <1>1, TurnsUnchanged DEF TurnsStep, NoTurnMoves, WakeStep
  <2> QED
    BY <2>1, <2>2, <2>3, <2>7, <2>8, <2>10, <2>11, HandledAt
<1>6. CASE TurnErrorText
  <2>1. Handler(TRUE, queue, step, turns, awaiting)
    BY <1>6, DrainedHandles DEF TurnErrorText
  <2>2. Prepared(queue, step, turns, awaiting)
    BY <1>2, <1>6 DEF TurnErrorText, Structure, Prepared, PlainTypes, approval, NothingYet
  <2>3. NothingLeft' /\ present' = present
    BY <1>2, <1>6, RuntimeErrorLives, StillThere DEF TurnErrorText
  <2>4. KnownStays
    BY <1>6, RuntimeErrorQuiet DEF TurnErrorText
  <2>5. QuietSide /\ (ActiveTaken => ActiveTaken')
    BY <1>6, <2>4 DEF TurnErrorText, QuietSide, KeepsStart, KnownStays, approval
  <2> QED
    BY <2>1, <2>2, <2>3, <2>5, QuietlyCalled
<1>7. CASE ControlFails
  <2>1. PlainTypes' /\ UNCHANGED <<ready, thread, controlTurn, asks>>
    BY <1>7 DEF ControlFails, Structure, PlainTypes
  <2>2. NothingLeft' /\ present' = present
    <3>1. TurnCompleted("failed") \/ UNCHANGED vars
      BY <1>7 DEF ControlFails
    <3> QED
      BY <1>2, <3>1, StillThere DEF TurnCompleted, SameSession, vars
  <2>3. CASE /\ controlTurn # 0 /\ controlTurn \notin failedTurns
             /\ failedTurns' = failedTurns \cup {controlTurn}
             /\ Cleared(controlTurn) /\ TurnCompleted("failed")
             /\ Feed(TRUE, ~Sending, queue, GivenUp, FALSE)
    <3>1. controlTurn \in DOMAIN turns
      BY <1>1, <2>3 DEF Structure, NamesTurns
    <3>2. SameTurns(GivenUp) /\ Advances(GivenUp)
      BY <1>1, <3>1, TurnGivenUp DEF SamePhases, Advances
    <3>3. Handler(TRUE, queue, step, GivenUp, FALSE)
      <4>1. FALSE \in BOOLEAN /\ TRUE \in BOOLEAN
        OBVIOUS
      <4> QED
        BY <2>3, <4>1, SendingHandles, TrueHandles
    <3>4. activeTurn' \in {0, activeTurn}
      BY <2>3 DEF Cleared
    <3>5. NamesTurns(turns, activeTurn', controlTurn', failedTurns', asks')
      BY <1>1, <2>1, <2>3, <3>1, <3>4 DEF Structure, NamesTurns
    <3>6. Prepared(queue, step, GivenUp, FALSE)
      BY <1>2, <2>1, <3>2, <3>4, <3>5, EditPrepared DEF Structure, Requests
    <3>7. ~Known' /\ ActiveTaken'
      BY <2>3, CompletedUnknown
    <3>8. TurnsStep(step, GivenUp, FALSE) /\ WakeStep(TRUE, step, GivenUp)
      BY <1>7, <2>1, <2>3, <3>7 DEF ControlFails, TurnsStep, LastIsGivenUp, WakeStep
    <3> QED
      BY <2>2, <3>2, <3>3, <3>6, <3>7, <3>8, HandledInPlace
  <2>4. CASE /\ due = "control" \/ controlTurn \in failedTurns
             /\ UNCHANGED <<vars, failedTurns, activeTurn>> /\ Drained
    <3>1. Handler(TRUE, queue, step, turns, awaiting)
      BY <2>4, DrainedHandles
    <3>2. Prepared(queue, step, turns, awaiting)
      BY <1>2, <2>1, <2>4 DEF Structure, Prepared, NothingYet
    <3>3. QuietSide /\ (ActiveTaken => ActiveTaken')
      BY <1>7, <2>1, <2>4, NothingQuiet DEF ControlFails, QuietSide, KeepsStart, KnownStays
    <3> QED
      BY <2>2, <3>1, <3>2, <3>3, QuietlyCalled
  <2> QED
    BY <1>7, <2>3, <2>4 DEF ControlFails
<1> QED
  BY <1>4, <1>5, <1>6, <1>7

\* The turn that is over is not the active one any more.
LEMMA ClearedTurn ==
    ASSUME Structure, NEW t, Cleared(t)
    PROVE  /\ activeTurn' \in {0, activeTurn} /\ activeTurn' \in 0 .. Len(turns)
           /\ activeTurn' # 0 => activeTurn' # t /\ activeTurn' = activeTurn
BY DEF Cleared, Structure, NamesTurns, DrainTypes

LEMMA TurnOver ==
    ASSUME Structure, NEW t \in DOMAIN turns, turns[t].phase = "started"
    PROVE  /\ SameTurns(EndOf(t)) /\ Advances(EndOf(t))
           /\ \E p \in Over :
                 /\ p = "early" <=> step = "answered" /\ t = Len(turns)
                 /\ \A u \in DOMAIN turns :
                       EndOf(t)[u].phase = IF u = t THEN p ELSE turns[u].phase
<1> DEFINE p == IF step = "answered" /\ t = Len(turns) THEN "early" ELSE "over"
<1>1. turns \in Seq(Turn) /\ p \in Over /\ Over \subseteq Phases
  BY DEF Structure, DrainTypes, Phases, Over
<1>2. p = "early" <=> step = "answered" /\ t = Len(turns)
  OBVIOUS
<1> DEFINE new == [turns[t] EXCEPT !.phase = p, !.approvals = 0]
<1>3. /\ SameTurns(EndOf(t))
      /\ \A u \in DOMAIN turns : EndOf(t)[u].phase = IF u = t THEN p ELSE turns[u].phase
  <2>1. EndOf(t) = [turns EXCEPT ![t] = new]
    BY DEF EndOf
  <2> HIDE DEF p
  <2>2. \A u \in DOMAIN turns : turns[u] \in Turn
    BY <1>1
  <2>3. /\ new \in Turn /\ new.phase = p /\ new.msg = turns[t].msg
        /\ new.cut = turns[t].cut
    BY <1>1, <2>2 DEF Turn
  <2> HIDE DEF new
  <2>4. EndOf(t) \in Seq(Turn)
    BY <1>1, <2>1, <2>3
  <2> QED
    BY <1>1, <2>1, <2>2, <2>3, <2>4 DEF SameTurns
<1> HIDE DEF p
<1>4. Advances(EndOf(t))
  BY <1>1, <1>3 DEF Advances, HasAnswer
<1> QED
  BY <1>1, <1>2, <1>3, <1>4

\* How turn/completed and the end of a turn under an approval leave the drain.
LEMMA TurnCompletedHandles ==
    ASSUME Structure, NEW t, NEW status, TurnCompletedLine(t, status)
    PROVE  \E called \in BOOLEAN :
               /\ Handler(called, queue, step, EndOf(t), FALSE)
               /\ called \/ (due' = "error" /\ called = (JustHanded # <<>>))
<1>1. FALSE \in BOOLEAN /\ TRUE \in BOOLEAN
  OBVIOUS
<1>2. CASE Feed(TRUE, ~Sending, queue, EndOf(t), FALSE)
  BY <1>1, <1>2, SendingHandles, TrueHandles
<1>3. CASE due' = "error" /\ Feed(FALSE, ~Sending, queue, EndOf(t), FALSE)
  <2>1. Handler(FALSE \/ JustHanded # <<>>, queue, step, EndOf(t), FALSE)
    BY <1>1, <1>3, SendingHandles
  <2>2. (FALSE \/ JustHanded # <<>>) = (JustHanded # <<>>) /\ (JustHanded # <<>>) \in BOOLEAN
    OBVIOUS
  <2>3. Handler(JustHanded # <<>>, queue, step, EndOf(t), FALSE)
    BY <2>1, <2>2, Zenon
  <2> QED
    BY <1>3, <2>2, <2>3
<1> QED
  BY <1>2, <1>3 DEF TurnCompletedLine

LEMMA TurnEndsHandles ==
    ASSUME Structure, NEW t, TurnEndsUnderApproval(t)
    PROVE  Handler(JustHanded # <<>>, queue, step, EndOf(t), FALSE)
<1>1. FALSE \in BOOLEAN
  OBVIOUS
<1>2. Feed(FALSE, ~Sending, queue, EndOf(t), FALSE)
  BY DEF TurnEndsUnderApproval
<1>3. Handler(FALSE \/ JustHanded # <<>>, queue, step, EndOf(t), FALSE)
  BY <1>1, <1>2, SendingHandles
<1>4. (FALSE \/ JustHanded # <<>>) = (JustHanded # <<>>)
  OBVIOUS
<1> QED
  BY <1>3, <1>4, Zenon

\* Lines about a turn.
LEMMA TurnStructure ==
    ASSUME TypeOK, Structure, [Next]_vars, NEW t \in DOMAIN turns,
           \/ TurnStartedLine(t) \/ ControlAsked(t) \/ InterruptAnswered(t)
           \/ TurnEndsUnderApproval(t) \/ \E status \in Statuses : TurnCompletedLine(t, status)
    PROVE  Handled /\ NothingLeft'
<1>1. /\ queue \in Seq(Msg) /\ turns \in Seq(Turn) /\ Len(turns) \in Nat
      /\ DOMAIN turns = 1 .. Len(turns) /\ awaiting \in BOOLEAN /\ FALSE \in BOOLEAN
  BY DEF Structure, DrainTypes
<1>2. ready = "ready" /\ alive
  BY ReadyThen
<1>3. CASE TurnStartedLine(t)
  <2>1. SameTurns(InPhase(t, "started")) /\ Advances(InPhase(t, "started"))
    <3>1. /\ SameTurns(InPhase(t, "started"))
          /\ \A u \in DOMAIN turns : InPhase(t, "started")[u].phase
                                      = IF u = t THEN "started" ELSE turns[u].phase
      BY <1>1, PhaseChanges DEF Phases
    <3> QED
      BY <1>3, <3>1 DEF TurnStartedLine, Advances, HasAnswer
  <2>2. Handler(FALSE, queue, step, InPhase(t, "started"), FALSE)
    BY <1>1, <1>3, RestHandles DEF TurnStartedLine, TurnStarted, vars
  <2>3. /\ UNCHANGED <<ready, thread, control, controlTurn, failedTurns, stopping, due, asks>>
        /\ activeTurn' = t /\ turns[t].phase \in HasAnswer
    BY <1>3 DEF TurnStartedLine, approval, HasAnswer
  <2>4. PlainTypes' /\ NamesTurns(turns, activeTurn', controlTurn', failedTurns', asks')
    BY <1>1, <2>3 DEF Structure, PlainTypes, NamesTurns
  <2>5. Prepared(queue, step, InPhase(t, "started"), FALSE)
    BY <1>1, <1>2, <2>1, <2>3, <2>4, EditPrepared DEF Structure, Requests
  <2>6. NothingLeft' /\ present' = present
    BY <1>2, <1>3, StillThere DEF TurnStartedLine, TurnStarted, SameSession, vars
  <2>7. ActiveTaken => ActiveTaken'
    BY <1>3 DEF TurnStartedLine, TurnStarted, ActiveTaken, Taken, vars
  <2>8. TurnsStep(step, InPhase(t, "started"), FALSE)
    BY <1>3, <2>3, <2>7 DEF TurnStartedLine, TurnsStep, TurnStarts, Line, Idle
  <2>9. WakeStep(FALSE, step, InPhase(t, "started"))
    <3>1. t \in DOMAIN InPhase(t, "started") /\ InPhase(t, "started")[t].phase = "started"
      BY <1>1, PhaseChanges DEF Phases, SameTurns
    <3> QED
      BY <3>1 DEF WakeStep, OpenIn
  <2> QED
    BY <2>1, <2>2, <2>5, <2>6, <2>7, <2>8, <2>9, HandledInPlace
<1>4. CASE ControlAsked(t)
  <2> DEFINE ts == [turns EXCEPT ![t].approvals = @ + 1]
  <2>1. SameTurns(ts) /\ Advances(ts)
    BY <1>1, ApprovalCounted DEF SamePhases, Advances
  <2>2. /\ UNCHANGED <<ready, thread, queue, step, activeTurn, awaiting, controlTurn,
                       failedTurns, stopping, due, asks>>
        /\ control' = "asked" /\ turns' = ts
    BY <1>4 DEF ControlAsked
  <2> HIDE DEF ts
  <2>3. UNCHANGED <<handed, alive, present>>
    BY <1>4 DEF ControlAsked, ProviderOutput, NoDrain, SameSession, vars
  <2>4. Handler(FALSE, queue, step, ts, awaiting)
    BY <1>1, <2>2, <2>3, RestHandles
  <2>5. PlainTypes' /\ NamesTurns(turns, activeTurn', controlTurn', failedTurns', asks')
    BY <2>2 DEF Structure, PlainTypes
  <2>6. Prepared(queue, step, ts, awaiting)
    BY <1>1, <1>2, <2>1, <2>2, <2>5, EditPrepared DEF Structure, Requests
  <2>7. KnownStays
    BY <1>4, KnownKept DEF ControlAsked
  <2>8. QuietSide /\ (ActiveTaken => ActiveTaken')
    BY <1>4, <2>2, <2>7, QuietSideIdle DEF ControlAsked, Line, Idle
  <2>9. SamePhases(ts)
    BY <1>1, ApprovalCounted DEF ts
  <2>10. TurnsStep(step, ts, awaiting) /\ WakeStep(FALSE, step, ts)
    BY <2>2, <2>8, <2>9 DEF TurnsStep, NoTurnMoves, WakeStep
  <2> QED
    BY <1>2, <2>1, <2>3, <2>4, <2>6, <2>8, <2>10, StillThere, HandledInPlace
<1>5. CASE InterruptAnswered(t)
  <2>1. Handler(JustHanded # <<>>, queue, step, turns, awaiting)
    BY <1>5, HandOffHandles DEF InterruptAnswered
  <2>2. Prepared(queue, step, turns, awaiting)
    BY <1>2, <1>5 DEF InterruptAnswered, Structure, Prepared, PlainTypes, approval, NamesTurns,
                      NothingYet
  <2>3. NothingLeft' /\ present' = present
    BY <1>2, <1>5, AdapterFailsLives, StillThere DEF InterruptAnswered, vars
  <2>4. KnownStays
    BY <1>5, AdapterFailsQuiet, NothingQuiet DEF InterruptAnswered
  <2>5. QuietSide /\ (ActiveTaken => ActiveTaken')
    BY <1>5, <2>4, QuietSideIdle DEF InterruptAnswered, Line, Idle, approval
  <2>6. WakeStep(JustHanded # <<>>, step, turns)
    BY <1>5, <2>1, HandOffWakes DEF InterruptAnswered, approval
  <2> QED
    BY <2>1, <2>2, <2>3, <2>5, <2>6, HandledQuietly
<1>6. CASE TurnEndsUnderApproval(t)
  <2>1. SameTurns(EndOf(t)) /\ Advances(EndOf(t))
    BY <1>6, TurnOver DEF TurnEndsUnderApproval
  <2>2. /\ UNCHANGED <<ready, thread, control, controlTurn, failedTurns, stopping, asks>>
        /\ due' = "accepted" /\ Cleared(t)
    BY <1>6 DEF TurnEndsUnderApproval, approval
  <2>3. PlainTypes' /\ NamesTurns(turns, activeTurn', controlTurn', failedTurns', asks')
    BY <2>2, ClearedTurn DEF Structure, PlainTypes, NamesTurns
  <2>4. Prepared(queue, step, EndOf(t), FALSE)
    BY <1>1, <1>2, <2>1, <2>2, <2>3, ClearedTurn, EditPrepared DEF Structure, Requests
  <2>5. NothingLeft' /\ present' = present
    BY <1>2, <1>6, RuntimeErrorLives, StillThere DEF TurnEndsUnderApproval
  <2>6. KnownStays
    BY <1>6, RuntimeErrorQuiet DEF TurnEndsUnderApproval
  <2>7. /\ TurnsStep(step, EndOf(t), FALSE)
        /\ WakeStep(JustHanded # <<>>, step, EndOf(t))
    BY <1>6, <2>2, <2>6
    DEF TurnEndsUnderApproval, TurnsStep, TurnIsOver, KnownStays, WakeStep
  <2> QED
    BY <1>6, <2>1, <2>4, <2>5, <2>6, <2>7, TurnEndsHandles, HandledInPlace DEF KnownStays
<1>7. ASSUME NEW status \in Statuses, TurnCompletedLine(t, status) PROVE Handled /\ NothingLeft'
  <2>1. SameTurns(EndOf(t)) /\ Advances(EndOf(t))
    BY <1>7, TurnOver DEF TurnCompletedLine
  <2>2. /\ UNCHANGED <<ready, thread, control, controlTurn, stopping, asks>>
        /\ due' \in {due, "none", "error"} /\ Cleared(t)
        /\ failedTurns' \subseteq failedTurns
    BY <1>7 DEF TurnCompletedLine
  <2>3. PlainTypes' /\ NamesTurns(turns, activeTurn', controlTurn', failedTurns', asks')
    BY <2>2, ClearedTurn DEF Structure, PlainTypes, NamesTurns
  <2>4. Prepared(queue, step, EndOf(t), FALSE)
    BY <1>1, <1>2, <2>1, <2>2, <2>3, ClearedTurn, EditPrepared DEF Structure, Requests
  <2>5. NothingLeft' /\ present' = present
    <3>1. TurnCompleted(status) \/ UNCHANGED vars
      BY <1>7 DEF TurnCompletedLine
    <3> QED
      BY <1>2, <3>1, StillThere DEF TurnCompleted, SameSession, vars
  <2>6. PICK called \in BOOLEAN : /\ Handler(called, queue, step, EndOf(t), FALSE)
                                  /\ called \/ due' = "error"
    BY <1>7, TurnCompletedHandles
  <2>7. /\ TurnsStep(step, EndOf(t), FALSE)
        /\ ActiveTaken => ActiveTaken'
    <3>1. /\ Line /\ due = "none" /\ turns[t].phase = "started" /\ Cleared(t)
          /\ UNCHANGED controlTurn
      BY <1>7, <2>2 DEF TurnCompletedLine, Line
    <3>2. CASE /\ UNCHANGED failedTurns /\ TurnCompleted(status)
               /\ due' \in {"none", "error"}
      BY <3>1, <3>2, CompletedUnknown DEF TurnsStep, TurnIsOver
    <3>3. CASE /\ t \in failedTurns /\ failedTurns' = failedTurns \ {t}
               /\ UNCHANGED <<vars, due>>
      BY <3>1, <3>3, NothingQuiet DEF TurnsStep, TurnIsOver, KnownStays
    <3> QED
      BY <1>7, <3>2, <3>3 DEF TurnCompletedLine
  <2>8. WakeStep(called, step, EndOf(t))
    BY <2>6 DEF WakeStep
  <2> QED
    BY <2>1, <2>4, <2>5, <2>6, <2>7, <2>8, HandledInPlace
<1> QED
  BY <1>3, <1>4, <1>5, <1>6, <1>7

\* The rest: lines and timers that name no turn, and the user's answers.
LEMMA OtherStructure ==
    ASSUME TypeOK, Structure, [Next]_vars,
           \/ Compacted \/ AnswerControl \/ ControlSettled
           \/ \E kind \in {"final", "other"} : Output(kind)
    PROVE  Handled /\ NothingLeft'
<1>1. /\ queue \in Seq(Msg) /\ turns \in Seq(Turn) /\ Len(turns) \in Nat
      /\ DOMAIN turns = 1 .. Len(turns)
  BY DEF Structure, DrainTypes
<1>2. CASE Compacted
  <2>1. ready = "ready"
    BY <1>2, ReadyThen DEF Compacted
  <2>2. UNCHANGED <<vars, ready, thread, queue, step, activeTurn, approval, stopping, due, turns,
                    asks>>
    BY <1>2 DEF Compacted
  <2>3. Handler(FALSE, queue, step, turns, FALSE)
    BY <1>1, <1>2, RestHandles DEF Compacted, vars
  <2>4. Prepared(queue, step, turns, FALSE)
    BY <2>1, <2>2 DEF Structure, Prepared, PlainTypes, approval, DrainTypes, NothingYet
  <2>5. QuietSide /\ (ActiveTaken => ActiveTaken')
    BY <1>2, <2>2, NothingQuiet, QuietSideIdle DEF Compacted, Line, Idle, approval
  <2>6. WakeStep(FALSE, step, turns)
    BY <1>2 DEF Compacted, WakeStep, OpenIn
  <2>20. NothingLeft' /\ present' = present
    BY <1>2, <2>1, <2>2 DEF Structure, NothingLeft, vars, Compacted
  <2> QED
    BY <1>2, <2>2, <2>3, <2>4, <2>5, <2>6, <2>20, HandledQuietly DEF Compacted
<1>3. CASE AnswerControl
  <2>1. ready = "ready"
    BY <1>3, ReadyThen DEF AnswerControl
  <2>2. /\ UNCHANGED <<vars, ready, thread, queue, step, activeTurn, awaiting, failedTurns,
                       stopping, due, turns, asks>>
        /\ control' \in {"sent", "released"} /\ controlTurn' = activeTurn
    BY <1>3 DEF AnswerControl
  <2>3. Handler(FALSE, queue, step, turns, awaiting)
    BY <1>1, <2>2, RestHandles DEF vars
  <2>4. Prepared(queue, step, turns, awaiting)
    BY <2>1, <2>2 DEF Structure, Prepared, PlainTypes, NothingYet, NamesTurns, Requests
  <2>5. QuietSide /\ (ActiveTaken => ActiveTaken')
    BY <1>3, <2>2, NothingQuiet DEF AnswerControl, Idle, QuietSide, KeepsStart, KnownStays
  <2>6. WakeStep(FALSE, step, turns)
    BY <2>2 DEF WakeStep
  <2>20. NothingLeft' /\ present' = present
    BY <1>3, <2>1, <2>2 DEF Structure, NothingLeft, vars
  <2> QED
    BY <2>2, <2>3, <2>4, <2>5, <2>6, <2>20, QuietlyResting
<1>4. CASE ControlResolved
  <2>1. ready = "ready" /\ alive
    BY <1>4, ReadyThen DEF ControlResolved
  <2>2. Handler(TRUE, queue, step, turns, awaiting)
    BY <1>4, DrainedHandles DEF ControlResolved
  <2>3. Prepared(queue, step, turns, awaiting)
    BY <1>4, <2>1 DEF ControlResolved, Structure, Prepared, PlainTypes, NothingYet
  <2>4. NothingLeft' /\ present' = present
    BY <1>4, <2>1, StillThere DEF ControlResolved, vars
  <2>5. QuietSide /\ (ActiveTaken => ActiveTaken')
    BY <1>4, NothingQuiet, QuietSideIdle DEF ControlResolved, Line, Idle
  <2> QED
    BY <2>2, <2>3, <2>4, <2>5, QuietlyCalled
<1>5. CASE ControlTimesOut
  <2>1. ready = "ready" /\ alive
    BY <1>5, ReadyThen DEF ControlTimesOut
  <2>2. Handler(JustHanded # <<>>, queue, step, turns, awaiting)
    BY <1>5, HandOffHandles DEF ControlTimesOut
  <2>3. Prepared(queue, step, turns, awaiting)
    BY <1>5, <2>1 DEF ControlTimesOut, Structure, Prepared, PlainTypes, NothingYet, approval
  <2>4. NothingLeft' /\ present' = present
    BY <1>5, <2>1, RuntimeErrorLives, StillThere DEF ControlTimesOut
  <2>5. KnownStays
    BY <1>5, RuntimeErrorQuiet DEF ControlTimesOut
  <2>6. QuietSide /\ (ActiveTaken => ActiveTaken')
    BY <1>5, <2>5, QuietSideIdle DEF ControlTimesOut, Idle, approval
  <2>7. WakeStep(JustHanded # <<>>, step, turns)
    BY <1>5 DEF ControlTimesOut, WakeStep
  <2> QED
    BY <2>2, <2>3, <2>4, <2>6, <2>7, HandledQuietly
<1>6. ASSUME NEW kind, Output(kind) PROVE Handled /\ NothingLeft'
  <2>1. UNCHANGED <<ready, thread, queue, step, activeTurn, awaiting, approval, stopping, due,
                    turns, asks, alive, present, handed>>
    BY <1>6 DEF Output, ProviderOutput, NoDrain, SameSession, adapter
  <2>2. Handler(FALSE, queue, step, turns, awaiting)
    BY <1>1, <2>1, RestHandles
  <2>3. KnownStays
    BY <1>6, KnownKept DEF Output
  <2>4. QuietSide /\ (ActiveTaken => ActiveTaken')
    BY <1>6, <2>1, <2>3, QuietSideIdle DEF Output, Line, Idle, approval
  <2>5. WakeStep(FALSE, step, turns)
    BY <2>1, RestWakes DEF approval
  <2>20. NothingLeft' /\ present' = present
    BY <1>6, <2>1, <2>2 DEF Structure, NothingLeft, vars
  <2> QED
    BY <2>1, <2>2, <2>4, <2>5, <2>20, QuietPrepared, QuietlyResting
<1> QED
  BY <1>2, <1>3, <1>4, <1>5, <1>6 DEF ControlSettled

\* The drain waits for the active turn, or asks for one for the head of the queue.
Leaves == activeTurn # 0 /\ step' = "idle" /\ UNCHANGED <<turns, awaiting>>
Asks(turn) ==
    /\ activeTurn = 0 /\ step' = "turn" /\ turns' = Append(turns, turn)
    /\ turn \in Turn /\ turn.phase = "asked" /\ turn.msg = Head(queue)

LEMMA DrainBegunMoves ==
    ASSUME Structure, DrainBegun
    PROVE  /\ step = "begun" /\ due = "none" /\ thread /\ queue # <<>> /\ Head(queue) \in Msg
           /\ ready = "ready" /\ alive
           /\ UNCHANGED <<vars, ready, thread, queue, activeTurn, approval, stopping, due, asks>>
           /\ (Leaves \/ \E turn : Asks(turn))
           /\ awaiting' \in BOOLEAN
<1>1. /\ step = "begun" /\ due = "none"
      /\ UNCHANGED <<vars, ready, thread, queue, activeTurn, approval, stopping, due, asks>>
  BY DEF DrainBegun
<1>2. thread /\ queue # <<>> /\ Head(queue) \in Msg
  BY <1>1 DEF Structure, Requests, DrainTypes
<1>3. ready = "ready" /\ alive
  BY <1>1, ReadyThen
<1>4. (Leaves \/ \E turn : Asks(turn))
  <2>1. /\ NewTurn(Head(queue)) \in Turn /\ NewTurn(Head(queue)).phase = "asked"
        /\ NewTurn(Head(queue)).msg = Head(queue)
    BY <1>2 DEF NewTurn, Turn, Phases
  <2>2. \/ Leaves
        \/ activeTurn = 0 /\ step' = "turn" /\ turns' = Append(turns, NewTurn(Head(queue)))
    BY DEF DrainBegun, Leaves
  <2> QED
    BY <2>1, <2>2 DEF Asks
<1>5. awaiting' \in BOOLEAN
  <2>1. awaiting \in BOOLEAN /\ (awaiting \/ Head(queue) \in Compact) \in BOOLEAN
    BY DEF Structure, DrainTypes
  <2>2. awaiting' = awaiting \/ awaiting' = (awaiting \/ Head(queue) \in Compact)
    BY DEF DrainBegun
  <2> QED
    BY <2>1, <2>2, Zenon
<1> QED
  BY <1>1, <1>2, <1>3, <1>4, <1>5

\* A turn that is asked for is the last one.
LEMMA TurnAsked ==
    ASSUME Structure, NEW turn, Asks(turn)
    PROVE  /\ turns' \in Seq(Turn) /\ Len(turns) \in Nat /\ Len(turns') = Len(turns) + 1
           /\ DOMAIN turns = 1 .. Len(turns) /\ DOMAIN turns' = 1 .. Len(turns) + 1
           /\ \A t \in DOMAIN turns : turns'[t] = turns[t]
           /\ turns'[Len(turns')] = turn /\ turns' # <<>>
BY DEF Asks, Structure, DrainTypes

LEMMA DrainBegunStructure ==
    ASSUME Structure, DrainBegun PROVE Structure'
<1>1. /\ step = "begun" /\ thread /\ queue # <<>> /\ awaiting' \in BOOLEAN
      /\ ready = "ready" /\ alive /\ (Leaves \/ \E turn : Asks(turn))
      /\ UNCHANGED <<vars, ready, thread, queue, activeTurn, approval, stopping, due, asks>>
  BY DrainBegunMoves
<1>2. UNCHANGED <<alive, present, control, controlTurn, failedTurns>>
  BY <1>1 DEF vars, approval
<1>3. PlainTypes' /\ NothingLeft' /\ ready' = "ready"
  BY <1>1, <1>2, StillThere DEF Structure, PlainTypes
<1>4. CASE Leaves
  BY <1>1, <1>2, <1>3, <1>4 DEF Leaves, Structure, DrainTypes, Steps, Requests, NothingYet
<1>5. ASSUME NEW turn, Asks(turn) PROVE Structure'
  <2>1. /\ turns' \in Seq(Turn) /\ Len(turns) \in Nat /\ Len(turns') = Len(turns) + 1
        /\ DOMAIN turns = 1 .. Len(turns) /\ DOMAIN turns' = 1 .. Len(turns) + 1
        /\ \A t \in DOMAIN turns : turns'[t] = turns[t]
        /\ turns'[Len(turns')] = turn /\ turns' # <<>>
    BY <1>5, TurnAsked
  <2>2. /\ step' = "turn" /\ activeTurn = 0 /\ turn.phase = "asked" /\ turn.msg = Head(queue)
    BY <1>5 DEF Asks
  <2>3. DrainTypes(queue', step', turns', awaiting')
    BY <1>1, <2>1, <2>2 DEF Structure, DrainTypes, Steps
  <2>4. NamesTurns(turns', activeTurn', controlTurn', failedTurns', asks')
    BY <1>1, <1>2, <2>1 DEF Structure, NamesTurns
  <2>5. Requests(queue', step', turns', thread', activeTurn', controlTurn')
    <3>1. controlTurn' # 0 => turns'[controlTurn'].phase \in HasAnswer
      BY <1>2, <2>1 DEF Structure, NamesTurns, Requests
    <3>2. \A t \in DOMAIN turns' : turns'[t].phase = "asked" => t = Len(turns')
      BY <1>1, <2>1 DEF Structure, Requests
    <3> QED
      BY <1>1, <2>1, <2>2, <3>1, <3>2 DEF Requests
  <2> QED
    BY <1>3, <2>3, <2>4, <2>5 DEF Structure, NothingYet
<1> QED
  BY <1>1, <1>4, <1>5

\* Every step starts or ends the process, or is the drain's own, or a handler.
LEMMA CodexSteps ==
    ASSUME TypeOK, Structure, [CodexNext]_allVars
    PROVE  Start \/ Exit \/ DrainBegun \/ (Handled /\ NothingLeft')
<1>1. [Next]_vars
  BY CodexStepIsOutboxStep
<1>2. CASE (\E m \in Msg : User(m)) \/ Interrupt \/ Stop
  BY <1>1, <1>2, HostStructure
<1>3. CASE Startup \/ Answer
  BY <1>1, <1>3, AnswerStructure
<1>4. CASE Microtask
  BY <1>1, <1>4, MicrotaskStructure DEF Microtask
<1>5. ASSUME NEW t \in DOMAIN turns,
             \/ TurnStartedLine(t) \/ ControlAsked(t) \/ InterruptAnswered(t)
             \/ TurnEndsUnderApproval(t)
             \/ \E status \in Statuses : TurnCompletedLine(t, status)
      PROVE  Handled /\ NothingLeft'
  BY <1>1, <1>5, TurnStructure
<1>6. CASE Compacted \/ AnswerControl \/ ControlSettled
           \/ \E kind \in {"final", "other"} : Output(kind)
  BY <1>1, <1>6, OtherStructure
<1>7. CASE UNCHANGED allVars
  <2>1. UNCHANGED <<ready, thread, queue, step, activeTurn, awaiting, approval, stopping, due,
                    turns, asks, alive, present, handed>>
    BY <1>7 DEF allVars, adapter, vars
  <2>2. Handler(FALSE, queue, step, turns, awaiting)
    BY <2>1, RestHandles DEF Structure, DrainTypes
  <2>3. KnownStays /\ WakeStep(FALSE, step, turns)
    BY <1>7, <2>1, NothingQuiet, RestWakes DEF allVars, approval
  <2>4. QuietSide /\ (ActiveTaken => ActiveTaken')
    BY <2>1, <2>3 DEF QuietSide, KeepsStart, KnownStays, approval
  <2>20. NothingLeft' /\ present' = present
    BY <1>7, <2>1, <2>2 DEF Structure, NothingLeft, vars
  <2> QED
    BY <2>1, <2>2, <2>3, <2>4, <2>20, QuietPrepared, QuietlyResting
<1> QED
  BY <1>2, <1>3, <1>4, <1>5, <1>6, <1>7 DEF CodexNext, TurnEnds

LEMMA StructureStep == TypeOK /\ Structure /\ [CodexNext]_allVars => Structure'
BY CodexSteps, CodexStepIsOutboxStep, ProcessStructure, DrainBegunStructure, HandlerStructure
DEF Handled

LEMMA StructureInvariant == CodexSpec => [](TypeOK /\ Structure)
<1>1. CodexInit => TypeOK /\ Structure
  <2> SUFFICES ASSUME CodexInit PROVE TypeOK /\ Structure
    OBVIOUS
  <2>1. TypeOK
    BY InitType DEF CodexInit
  <2>2. PlainTypes /\ DrainTypes(queue, step, turns, awaiting)
    <3>1. <<>> \in Seq(Msg) /\ <<>> \in Seq(Turn)
      OBVIOUS
    <3>2. DrainTypes(queue, step, turns, awaiting)
      BY <3>1 DEF CodexInit, DrainTypes, Steps
    <3> QED
      BY <3>2 DEF CodexInit, PlainTypes
  <2>3. NamesTurns(turns, activeTurn, controlTurn, failedTurns, asks)
    BY DEF CodexInit, NamesTurns
  <2>4. Requests(queue, step, turns, thread, activeTurn, controlTurn)
    BY DEF CodexInit, Requests
  <2>5. NothingYet(ready, thread, control, due, step, turns, awaiting) /\ NothingLeft
    BY DEF CodexInit, NothingYet, NothingLeft, Init
  <2> QED
    BY <2>1, <2>2, <2>3, <2>4, <2>5 DEF Structure
<1>2. TypeOK /\ Structure /\ [CodexNext]_allVars => (TypeOK /\ Structure)'
  BY StructureStep, TypeStep, CodexStepIsOutboxStep
<1> QED
  BY <1>1, <1>2, PTL DEF CodexSpec

-----------------------------------------------------------------------------
(* The order of the turns.  PlayedInOrder of the messages r that wait, the   *)
(* turns ts and the hand-offs hd of session ep.                              *)

Plays(r, ts, hd, ep) ==
    /\ Follows(r, hd, ep)
    /\ \E f \in [DOMAIN ts -> 1 .. Len(hd) - Len(r)] : \A t \in DOMAIN ts :
           /\ hd[f[t]].msg = ts[t].msg /\ hd[f[t]].session = ep
           /\ \A u \in DOMAIN ts : u < t => f[u] < f[t]

LEMMA PlayedIsPlays == PlayedInOrder <=> (alive => Plays(Unplayed, turns, handed, epoch))
BY DEF PlayedInOrder, Plays, Follows, Is

\* A hand-off adds to what waits.
LEMMA PlaysHandOver ==
    ASSUME NEW r \in Seq(Msg), NEW ts \in Seq(Turn), NEW hd \in Seq(HandOff), NEW ep \in Nat,
           NEW m \in Msg, NEW n \in Nat, Plays(r, ts, hd, ep)
    PROVE  Plays(r \o <<m>>, ts, Append(hd, [msg |-> m, session |-> ep, seq |-> n]), ep)
<1> DEFINE rec == [msg |-> m, session |-> ep, seq |-> n]
           more == Append(hd, rec)
           after == r \o <<m>>
           before == Len(hd) - Len(r)
<1>1. /\ Len(r) \in Nat /\ Len(hd) \in Nat /\ before \in Nat /\ DOMAIN hd = 1 .. Len(hd)
  BY DEF Plays, Follows
<1>2. rec \in HandOff
  BY DEF HandOff
<1>3. Follows(after, more, ep)
  BY FollowsHandOver DEF Plays
<1> HIDE DEF rec
<1>4. Len(more) = Len(hd) + 1 /\ \A i \in 1 .. Len(hd) : more[i] = hd[i]
  BY <1>2
<1>5. Len(after) = Len(r) + 1
  OBVIOUS
<1> HIDE DEF more, after
<1>6. Len(more) - Len(after) = before
  BY <1>1, <1>4, <1>5
<1>7. \E f \in [DOMAIN ts -> 1 .. before] : \A t \in DOMAIN ts :
          /\ more[f[t]].msg = ts[t].msg /\ more[f[t]].session = ep
          /\ \A u \in DOMAIN ts : u < t => f[u] < f[t]
  <2>1. PICK f \in [DOMAIN ts -> 1 .. before] : \A t \in DOMAIN ts :
            /\ hd[f[t]].msg = ts[t].msg /\ hd[f[t]].session = ep
            /\ \A u \in DOMAIN ts : u < t => f[u] < f[t]
    BY DEF Plays
  <2>2. \A t \in DOMAIN ts : f[t] \in 1 .. Len(hd)
    BY <1>1
  <2>3. \A t \in DOMAIN ts : more[f[t]] = hd[f[t]]
    BY <1>4, <2>2
  <2> QED
    BY <2>1, <2>3
<1>8. Plays(after, ts, more, ep)
  BY <1>3, <1>6, <1>7 DEF Plays
<1> QED
  BY <1>8 DEF after, more, rec

\* Dropping the first message that waits.
LEMMA PlaysDropped ==
    ASSUME NEW r \in Seq(Msg), r # <<>>, NEW ts \in Seq(Turn), NEW hd \in Seq(HandOff),
           NEW ep \in Nat, Plays(r, ts, hd, ep)
    PROVE  Plays(Tail(r), ts, hd, ep)
<1> DEFINE before == Len(hd) - Len(r)
<1>1. Follows(Tail(r), hd, ep)
  BY FollowsDropped DEF Plays
<1>2. before \in Nat /\ Len(hd) - Len(Tail(r)) = before + 1
  BY DEF Plays, Follows
<1>3. PICK f \in [DOMAIN ts -> 1 .. before] : \A t \in DOMAIN ts :
          /\ hd[f[t]].msg = ts[t].msg /\ hd[f[t]].session = ep
          /\ \A u \in DOMAIN ts : u < t => f[u] < f[t]
  BY DEF Plays
<1>4. f \in [DOMAIN ts -> 1 .. before + 1]
  <2>1. 1 .. before \subseteq 1 .. before + 1
    BY <1>2
  <2> QED
    BY <2>1
<1> QED
  BY <1>1, <1>2, <1>3, <1>4 DEF Plays

\* The turn for the first message that waits.
LEMMA PlaysTurn ==
    ASSUME NEW r \in Seq(Msg), r # <<>>, NEW ts \in Seq(Turn), NEW turn \in Turn,
           turn.msg = Head(r), NEW hd \in Seq(HandOff), NEW ep \in Nat, Plays(r, ts, hd, ep)
    PROVE  Plays(Tail(r), Append(ts, turn), hd, ep)
<1> DEFINE before == Len(hd) - Len(r)
           more == Append(ts, turn)
<1>1. Plays(Tail(r), ts, hd, ep)
  BY PlaysDropped
<1>2. /\ Len(r) \in Nat /\ Len(hd) \in Nat /\ before \in Nat /\ 1 \in DOMAIN r
      /\ Head(r) = r[1] /\ Len(hd) - Len(Tail(r)) = before + 1 /\ Len(ts) \in Nat
      /\ DOMAIN ts = 1 .. Len(ts)
  BY DEF Plays, Follows
<1>3. hd[before + 1].msg = turn.msg /\ hd[before + 1].session = ep
  BY <1>2 DEF Plays, Follows
<1>4. /\ DOMAIN more = 1 .. Len(ts) + 1 /\ more[Len(ts) + 1] = turn
      /\ \A t \in 1 .. Len(ts) : more[t] = ts[t]
  BY <1>2
<1> HIDE DEF more
<1>5. PICK f \in [DOMAIN ts -> 1 .. before] : \A t \in DOMAIN ts :
          /\ hd[f[t]].msg = ts[t].msg /\ hd[f[t]].session = ep
          /\ \A u \in DOMAIN ts : u < t => f[u] < f[t]
  BY DEF Plays
<1> DEFINE g == [t \in 1 .. Len(ts) + 1 |-> IF t = Len(ts) + 1 THEN before + 1 ELSE f[t]]
<1>6. g \in [DOMAIN more -> 1 .. before + 1]
  BY <1>2, <1>4
<1>7. \A t \in DOMAIN more :
          /\ hd[g[t]].msg = more[t].msg /\ hd[g[t]].session = ep
          /\ \A u \in DOMAIN more : u < t => g[u] < g[t]
  <2> SUFFICES ASSUME NEW t \in 1 .. Len(ts) + 1
               PROVE  /\ hd[g[t]].msg = more[t].msg /\ hd[g[t]].session = ep
                      /\ \A u \in DOMAIN more : u < t => g[u] < g[t]
    BY <1>4
  <2>1. \A u \in 1 .. Len(ts) : g[u] = f[u] /\ f[u] \in 1 .. before
    <3>1. \A u \in 1 .. Len(ts) : u \in 1 .. Len(ts) + 1 /\ u # Len(ts) + 1
      BY <1>2
    <3>2. \A u \in 1 .. Len(ts) : f[u] \in 1 .. before
      BY <1>2
    <3> QED
      BY <3>1, <3>2
  <2>2. CASE t = Len(ts) + 1
    <3>1. g[t] = before + 1
      BY <1>2, <2>2
    <3>2. \A u \in DOMAIN more : u < t => g[u] < g[t]
      BY <1>2, <1>4, <2>1, <2>2, <3>1
    <3> QED
      BY <1>3, <1>4, <2>2, <3>1, <3>2
  <2>3. CASE t \in 1 .. Len(ts)
    <3>1. \A u \in DOMAIN more : u < t => u \in 1 .. Len(ts)
      BY <1>2, <1>4, <2>3
    <3> QED
      BY <1>2, <1>4, <1>5, <2>1, <2>3, <3>1
  <2> QED
    BY <1>2, <2>2, <2>3
<1> HIDE DEF g
<1>8. Plays(Tail(r), more, hd, ep)
  BY <1>1, <1>2, <1>6, <1>7 DEF Plays
<1> QED
  BY <1>8 DEF more

\* What a handler leaves to the drain is played in order, and so is what the
\* drain makes of it.
LEMMA HandlerPlays ==
    ASSUME TypeOK, [Next]_vars, epoch' = epoch, NEW called, NEW q, NEW st, NEW ts, NEW aw,
           Handler(called, q, st, ts, aw), Prepared(q, st, ts, aw),
           Plays(Rest(q, st), ts, handed, epoch)
    PROVE  Plays(Unplayed', turns', handed', epoch')
<1> DEFINE r == Rest(q, st)
           w == r \o JustHanded
<1>1. /\ q \in Seq(Msg) /\ ts \in Seq(Turn) /\ handed \in Seq(HandOff) /\ epoch \in Nat
      /\ st # "idle" => q # <<>>
  BY DEF Prepared, DrainTypes, Requests, TypeOK
<1>2. r \in Seq(Msg) /\ (st = "idle" => r = q)
  BY <1>1 DEF Rest
<1>3. Plays(w, ts, handed', epoch) /\ handed' \in Seq(HandOff) /\ JustHanded \in Seq(Msg)
  <2>1. CASE handed' = handed /\ JustHanded = <<>>
    <3>1. w = r /\ <<>> \in Seq(Msg)
      BY <1>2, <2>1
    <3> QED
      BY <1>1, <2>1, <3>1
  <2>2. ASSUME NEW m \in Msg, NEW n \in Nat,
               handed' = Append(handed, [msg |-> m, session |-> epoch, seq |-> n]),
               JustHanded = <<m>>
        PROVE  Plays(w, ts, handed', epoch) /\ handed' \in Seq(HandOff) /\ <<m>> \in Seq(Msg)
    <3>1. [msg |-> m, session |-> epoch, seq |-> n] \in HandOff
      BY <1>1 DEF HandOff
    <3> QED
      BY <1>1, <1>2, <2>2, <3>1, PlaysHandOver
  <2> QED
    BY <2>1, <2>2, HandedOver
<1>4. w \in Seq(Msg) /\ queue' = q \o JustHanded
  BY <1>2, <1>3 DEF Handler
<1>5. st = "idle" => w = queue'
  BY <1>2, <1>4
<1>6. CASE Waits(called, st, aw)
  <2>1. Unplayed' = w
    <3>1. CASE st \in {"turn", "answered", "rejected"}
      <4>1. Tail(q \o JustHanded) = Tail(q) \o JustHanded
        BY <1>1, <1>3, <3>1
      <4> QED
        BY <1>4, <1>6, <3>1, <4>1 DEF Waits, Unplayed, Rest
    <3>2. CASE st \notin {"turn", "answered", "rejected"}
      BY <1>4, <1>6, <3>2 DEF Waits, Unplayed, Rest
    <3> QED
      BY <3>1, <3>2
  <2> QED
    BY <1>3, <2>1 DEF Handler
<1>7. CASE Begins(st, aw) /\ step' = "rejected"
  <2>1. Unplayed' = Tail(w) /\ w # <<>> /\ turns' = ts
    BY <1>5, <1>7 DEF Handler, Begins, MayAsk, Unplayed
  <2> HIDE DEF w
  <2> QED
    BY <1>1, <1>3, <1>4, <2>1, PlaysDropped
<1>8. CASE Begins(st, aw) /\ step' # "rejected"
  BY <1>3, <1>5, <1>8 DEF Handler, Begins, Unplayed
<1> QED
  BY <1>6, <1>7, <1>8 DEF Handler

LEMMA PlayedStep ==
    ASSUME TypeOK, Structure, PlayedInOrder, [CodexNext]_allVars PROVE PlayedInOrder'
<1>1. [Next]_vars
  BY CodexStepIsOutboxStep
<1>2. CASE Exit
  BY <1>2 DEF Exit, ProviderExit, PlayedInOrder
<1>3. CASE Start
  <2>1. ~present /\ UNCHANGED <<queue, step, turns, activeTurn, handed>>
    BY <1>3 DEF Start, StartSession, adapter
  <2>2. queue = <<>> /\ step = "idle" /\ turns = <<>>
    BY <2>1 DEF Structure, NothingLeft, NothingYet
  <2>3. Unplayed' = <<>> /\ turns' = <<>> /\ Len(handed') \in Nat
    BY <2>1, <2>2 DEF Unplayed, TypeOK
  <2>4. DOMAIN <<>> = {} /\ Len(<<>>) = 0
    OBVIOUS
  <2>5. [t \in {} |-> 0] \in [DOMAIN <<>> -> 1 .. Len(handed') - Len(<<>>)]
    BY <2>4
  <2>6. Plays(<<>>, <<>>, handed', epoch')
    <3>1. Follows(<<>>, handed', epoch')
      BY <2>1, NothingFollows DEF TypeOK
    <3> QED
      BY <2>4, <2>5, <3>1, Zenon DEF Plays
  <2>7. (alive => Plays(Unplayed, turns, handed, epoch))'
    BY <2>3, <2>6
  <2> QED
    BY <2>7 DEF PlayedInOrder, Plays, Follows, Is
<1>4. CASE Handled
  <2>0. present' = present
    BY <1>4 DEF Handled
  <2>1. epoch' = epoch /\ (alive' => alive)
    BY <1>1, <2>0, LifeKept
  <2> SUFFICES ASSUME alive' PROVE Plays(Unplayed', turns', handed', epoch')
    BY DEF PlayedInOrder, Plays, Follows, Is
  <2>2. Plays(Unplayed, turns, handed, epoch)
    BY <2>1, PlayedIsPlays
  <2>3. PICK called, q, st, ts, aw :
           /\ Handler(called, q, st, ts, aw) /\ Prepared(q, st, ts, aw)
           /\ SameTurns(ts) /\ KeepsRest(q, st)
    BY <1>4 DEF Handled
  <2>4. /\ Unplayed \in Seq(Msg) /\ turns \in Seq(Turn) /\ handed \in Seq(HandOff)
        /\ epoch \in Nat
    <3>1. queue \in Seq(Msg) /\ (step # "idle" => queue # <<>>)
      BY DEF Structure, DrainTypes, Requests
    <3> QED
      BY <3>1 DEF Structure, DrainTypes, TypeOK, Unplayed
  <2>5. Plays(Rest(q, st), turns, handed, epoch)
    BY <2>2, <2>3, <2>4, PlaysDropped DEF KeepsRest
  <2>6. Plays(Rest(q, st), ts, handed, epoch)
    <3>1. DOMAIN ts = DOMAIN turns /\ \A t \in DOMAIN turns : ts[t].msg = turns[t].msg
      BY <2>3 DEF SameTurns
    <3>2. PICK f \in [DOMAIN turns -> 1 .. Len(handed) - Len(Rest(q, st))] :
             \A t \in DOMAIN turns :
                 /\ handed[f[t]].msg = turns[t].msg /\ handed[f[t]].session = epoch
                 /\ \A u \in DOMAIN turns : u < t => f[u] < f[t]
      BY <2>5 DEF Plays
    <3>3. f \in [DOMAIN ts -> 1 .. Len(handed) - Len(Rest(q, st))]
      BY <3>1
    <3>4. \A t \in DOMAIN ts : /\ handed[f[t]].msg = ts[t].msg /\ handed[f[t]].session = epoch
                              /\ \A u \in DOMAIN ts : u < t => f[u] < f[t]
      BY <3>1, <3>2
    <3> QED
      BY <2>5, <3>3, <3>4, Zenon DEF Plays
  <2> QED
    BY <1>1, <2>1, <2>3, <2>6, HandlerPlays
<1>5. CASE DrainBegun
  <2> SUFFICES ASSUME alive' PROVE Plays(Unplayed', turns', handed', epoch')
    BY DEF PlayedInOrder, Plays, Follows, Is
  <2>1. /\ step = "begun" /\ queue' = queue /\ queue # <<>> /\ queue \in Seq(Msg)
        /\ UNCHANGED <<handed, epoch, alive>> /\ (Leaves \/ \E turn : Asks(turn))
    BY <1>5, DrainBegunMoves DEF vars, Structure, DrainTypes
  <2>2. Plays(queue, turns, handed, epoch)
    BY <2>1, PlayedIsPlays DEF Unplayed
  <2>3. CASE Leaves
    BY <2>1, <2>2, <2>3 DEF Leaves, Unplayed
  <2>4. ASSUME NEW turn, Asks(turn) PROVE Plays(Unplayed', turns', handed', epoch')
    <3>1. Unplayed' = Tail(queue) /\ turns' = Append(turns, turn)
      BY <2>1, <2>4 DEF Asks, Unplayed
    <3>2. turns \in Seq(Turn) /\ handed \in Seq(HandOff) /\ epoch \in Nat
      BY DEF Structure, DrainTypes, TypeOK
    <3>3. Plays(Tail(queue), Append(turns, turn), handed, epoch)
      BY <2>1, <2>2, <2>4, <3>2, PlaysTurn DEF Asks
    <3> QED
      BY <2>1, <3>1, <3>3
  <2> QED
    BY <2>1, <2>3, <2>4
<1> QED
  BY <1>2, <1>3, <1>4, <1>5, CodexSteps

\* Turns follow the hand-offs: each hand-off gets at most one turn, in order, and
\* what waits in the adapter are the last of them, for any number of messages,
\* turns and approvals, however the lines of app-server share chunks.
THEOREM TurnsFollowHandOffs == CodexSpec => []PlayedInOrder
<1>1. CodexInit => PlayedInOrder
  BY DEF CodexInit, Init, PlayedInOrder
<1>2. TypeOK /\ Structure /\ PlayedInOrder /\ [CodexNext]_allVars => PlayedInOrder'
  BY PlayedStep
<1> QED
  BY <1>1, <1>2, StructureInvariant, PTL DEF CodexSpec
-----------------------------------------------------------------------------
(* One turn at a time *)

\* A turn the Host gave up, or one that began after a turn that strays.
Straying(ts, ft, t) == t \in ft \/ \E s \in 1 .. t : ts[s].cut \/ ts[s].msg \in Compact

\* An open turn that does not stray is the last one, and the adapter knows of it;
\* a turn the Host gave up before its turn/started is cut.
OneOpen(st, ts, at, ft) ==
    /\ \A t \in DOMAIN ts : OpenIn(ts, t) /\ ~Straying(ts, ft, t)
           => t = Len(ts) /\ (t = at \/ st \in {"turn", "answered"})
    /\ \A t \in ft : ts[t].phase \in HasAnswer /\ (ts[t].phase = "accepted" => ts[t].cut)

LEMMA StrayingStays ==
    ASSUME Structure, NEW ts, SameTurns(ts), NEW t \in DOMAIN turns, NEW ft,
           Straying(turns, ft, t)
    PROVE  Straying(ts, ft, t)
<1>1. Len(turns) \in Nat /\ DOMAIN turns = 1 .. Len(turns) /\ 1 .. t \subseteq DOMAIN turns
  BY DEF Structure, DrainTypes
<1> QED
  BY <1>1 DEF Straying, SameTurns

\* What the handlers do to the turns.
LEMMA OneOpenTurns ==
    ASSUME Structure, OneOpen(step, turns, activeTurn, failedTurns),
           NEW st, NEW ts, NEW aw, SameTurns(ts), TurnsStep(st, ts, aw)
    PROVE  OneOpen(st, ts, activeTurn', failedTurns')
<1>1. /\ turns \in Seq(Turn) /\ Len(turns) \in Nat /\ DOMAIN turns = 1 .. Len(turns)
      /\ Len(ts) = Len(turns) /\ DOMAIN ts = DOMAIN turns
      /\ failedTurns \subseteq DOMAIN turns
  BY DEF Structure, DrainTypes, NamesTurns, SameTurns
<1>2. \A ft : \A t \in DOMAIN turns : ~Straying(ts, ft, t) => ~Straying(turns, ft, t)
  BY StrayingStays
<1>3. \A t \in failedTurns : /\ turns[t].phase \in HasAnswer
                             /\ turns[t].phase = "accepted" => ts[t].cut
  BY <1>1 DEF OneOpen, SameTurns
<1>4. ASSUME NEW t \in DOMAIN turns, OpenIn(turns, t), ~Straying(ts, failedTurns, t)
      PROVE  t = Len(turns) /\ (t = activeTurn \/ step \in {"turn", "answered"})
  BY <1>2, <1>4 DEF OneOpen
<1>5. CASE NoTurnMoves(st, ts, aw)
  BY <1>1, <1>3, <1>4, <1>5 DEF NoTurnMoves, QuietSide, SamePhases, OneOpen, OpenIn
<1>6. CASE LastIsAnswered(st, ts, aw)
  <2>1. PICK p \in {"accepted", "refused"} :
            /\ step = "turn" /\ UNCHANGED <<activeTurn, failedTurns>>
            /\ ts = InPhase(Len(turns), p)
            /\ st = IF p = "accepted" THEN "answered" ELSE "rejected"
    BY <1>6 DEF LastIsAnswered
  <2>2. turns[Len(turns)].phase = "asked" /\ Len(turns) \in DOMAIN turns
    BY <1>1, <2>1 DEF Structure, Requests
  <2>3. \A u \in DOMAIN turns : ts[u].phase = IF u = Len(turns) THEN p ELSE turns[u].phase
    BY <1>1, <2>1, <2>2, PhaseChanges DEF Phases
  <2>4. \A u \in DOMAIN turns : OpenIn(ts, u) => OpenIn(turns, u)
    BY <2>2, <2>3 DEF OpenIn
  <2>5. Len(turns) \notin failedTurns
    BY <1>3, <2>2 DEF HasAnswer, Over
  <2>6. \A t \in DOMAIN ts : OpenIn(ts, t) /\ ~Straying(ts, failedTurns, t)
           => t = Len(ts) /\ st \in {"turn", "answered"}
    <3>1. ASSUME NEW t \in DOMAIN ts, OpenIn(ts, t), ~Straying(ts, failedTurns, t)
          PROVE  t = Len(ts) /\ st = "answered"
      <4>1. t = Len(turns)
        BY <1>1, <1>4, <2>1, <2>2, <2>4, <3>1
      <4>2. p = "accepted"
        BY <2>3, <2>2, <3>1, <4>1 DEF OpenIn
      <4> QED
        BY <1>1, <2>1, <4>1, <4>2
    <3> QED
      BY <3>1
  <2> QED
    BY <1>1, <1>3, <2>1, <2>3, <2>5, <2>6 DEF OneOpen
<1>7. CASE LastIsActive(st, ts, aw)
  <2>1. /\ step = "answered" /\ ts = turns /\ failedTurns' = failedTurns
        /\ activeTurn' = IF Head(queue) \in Compact THEN activeTurn ELSE Len(turns)
    BY <1>7 DEF LastIsActive
  <2>2. Len(turns) \in DOMAIN turns /\ turns[Len(turns)].msg = Head(queue)
    BY <1>1, <2>1 DEF Structure, Requests
  <2>3. ASSUME NEW t \in DOMAIN turns, OpenIn(turns, t), ~Straying(turns, failedTurns, t)
        PROVE  t = Len(turns) /\ t = activeTurn'
    <3>1. t = Len(turns)
      BY <1>4, <2>1, <2>3
    <3>2. Head(queue) \notin Compact
      BY <1>1, <2>2, <2>3, <3>1 DEF Straying
    <3> QED
      BY <2>1, <3>1, <3>2
  <2> QED
    BY <1>3, <2>1, <2>3 DEF OneOpen
<1>8. ASSUME NEW t \in DOMAIN turns, TurnStarts(t, st, ts, aw)
      PROVE  OneOpen(st, ts, activeTurn', failedTurns')
  <2>1. /\ turns[t].phase = "accepted" /\ st = step /\ ts = InPhase(t, "started")
        /\ activeTurn' = t /\ failedTurns' = failedTurns
    BY <1>8 DEF TurnStarts
  <2>2. \A u \in DOMAIN turns : ts[u].phase = IF u = t THEN "started" ELSE turns[u].phase
    BY <1>1, <2>1, PhaseChanges DEF Phases
  <2>3. \A u \in DOMAIN turns : OpenIn(ts, u) => OpenIn(turns, u)
    BY <2>1, <2>2 DEF OpenIn
  <2>4. ASSUME NEW u \in DOMAIN turns, OpenIn(ts, u), ~Straying(ts, failedTurns, u)
        PROVE  u = Len(turns) /\ (u = t \/ step \in {"turn", "answered"})
    <3>1. u = Len(turns) /\ (u = activeTurn \/ step \in {"turn", "answered"})
      BY <1>4, <2>3, <2>4
    <3>2. t \in 1 .. u /\ 1 .. t \subseteq 1 .. u
      BY <1>1, <3>1
    <3>3. ~ts[t].cut
      BY <2>4, <3>2 DEF Straying
    <3>4. ~Straying(ts, failedTurns, t)
      BY <1>3, <2>1, <2>4, <3>2, <3>3 DEF Straying
    <3>5. OpenIn(turns, t)
      BY <2>1 DEF OpenIn
    <3> QED
      BY <1>4, <3>1, <3>4, <3>5
  <2>5. \A u \in failedTurns : ts[u].phase \in HasAnswer /\ (ts[u].phase = "accepted" => ts[u].cut)
    BY <1>1, <1>3, <2>2 DEF HasAnswer
  <2> QED
    BY <1>1, <2>1, <2>4, <2>5 DEF OneOpen
<1>9. ASSUME NEW t \in DOMAIN turns, TurnIsOver(t, st, ts, aw)
      PROVE  OneOpen(st, ts, activeTurn', failedTurns')
  <2>1. /\ turns[t].phase = "started" /\ st = step /\ ts = EndOf(t) /\ Cleared(t)
        /\ failedTurns' \subseteq failedTurns /\ failedTurns \subseteq failedTurns' \cup {t}
    BY <1>9 DEF TurnIsOver
  <2>2. \E p \in Over :
            \A u \in DOMAIN turns : ts[u].phase = IF u = t THEN p ELSE turns[u].phase
    BY <2>1, TurnOver
  <2>3. ASSUME NEW u \in DOMAIN turns, OpenIn(ts, u), ~Straying(ts, failedTurns', u)
        PROVE  u = Len(turns) /\ (u = activeTurn' \/ step \in {"turn", "answered"})
    <3>1. u # t /\ OpenIn(turns, u)
      BY <2>2, <2>3 DEF OpenIn, Over
    <3>2. ~Straying(ts, failedTurns, u)
      BY <2>1, <2>3, <3>1 DEF Straying
    <3>3. u = Len(turns) /\ (u = activeTurn \/ step \in {"turn", "answered"})
      BY <1>4, <3>1, <3>2
    <3> QED
      BY <2>1, <3>1, <3>3 DEF Cleared
  <2>4. \A u \in failedTurns' : ts[u].phase \in HasAnswer /\ (ts[u].phase = "accepted" => ts[u].cut)
    BY <1>1, <1>3, <2>1, <2>2 DEF HasAnswer, Over
  <2> QED
    BY <1>1, <2>1, <2>3, <2>4 DEF OneOpen
<1>10. CASE LastIsGivenUp(st, ts, aw)
  <2>1. /\ controlTurn # 0 /\ st = step /\ ts = GivenUp /\ Cleared(controlTurn)
        /\ failedTurns' = failedTurns \cup {controlTurn}
    BY <1>10 DEF LastIsGivenUp
  <2>2. controlTurn \in DOMAIN turns /\ turns[controlTurn].phase \in HasAnswer
    BY <1>1, <2>1 DEF Structure, NamesTurns, Requests
  <2>3. SamePhases(ts) /\ (turns[controlTurn].phase = "accepted" => ts[controlTurn].cut)
    BY <1>1, <2>1, <2>2, TurnGivenUp
  <2>4. ASSUME NEW u \in DOMAIN turns, OpenIn(ts, u), ~Straying(ts, failedTurns', u)
        PROVE  u = Len(turns) /\ (u = activeTurn' \/ step \in {"turn", "answered"})
    <3>1. u # controlTurn /\ OpenIn(turns, u) /\ ~Straying(ts, failedTurns, u)
      BY <2>1, <2>3, <2>4 DEF OpenIn, SamePhases, Straying
    <3>2. u = Len(turns) /\ (u = activeTurn \/ step \in {"turn", "answered"})
      BY <1>4, <3>1
    <3> QED
      BY <2>1, <3>1, <3>2 DEF Cleared
  <2>5. \A u \in failedTurns' : ts[u].phase \in HasAnswer /\ (ts[u].phase = "accepted" => ts[u].cut)
    BY <1>1, <1>3, <2>1, <2>2, <2>3 DEF SamePhases
  <2> QED
    BY <1>1, <2>1, <2>4, <2>5 DEF OneOpen
<1> QED
  BY <1>5, <1>6, <1>7, <1>8, <1>9, <1>10 DEF TurnsStep

\* The drain's beginning is no turn.
LEMMA OneOpenDrained ==
    ASSUME NEW called, NEW q, NEW st, NEW ts, NEW aw, Handler(called, q, st, ts, aw),
           OneOpen(st, ts, activeTurn', failedTurns')
    PROVE  OneOpen(step', turns', activeTurn', failedTurns')
<1>1. turns' = ts /\ (step' = st \/ st = "idle")
  BY DEF Handler, Waits, Begins
<1> QED
  BY <1>1 DEF OneOpen

\* The drain asks for a turn only when none is open.
LEMMA OneOpenAsked ==
    ASSUME Structure, OneOpen(step, turns, activeTurn, failedTurns), DrainBegun
    PROVE  OneOpen(step', turns', activeTurn', failedTurns')
<1>1. /\ step = "begun" /\ UNCHANGED <<activeTurn, failedTurns>>
      /\ (Leaves \/ \E turn : Asks(turn))
  BY DrainBegunMoves DEF approval
<1>2. CASE Leaves
  BY <1>1, <1>2 DEF Leaves, OneOpen
<1>3. ASSUME NEW turn, Asks(turn) PROVE OneOpen(step', turns', activeTurn', failedTurns')
  <2>1. /\ Len(turns) \in Nat /\ Len(turns') = Len(turns) + 1
        /\ DOMAIN turns = 1 .. Len(turns) /\ DOMAIN turns' = 1 .. Len(turns) + 1
        /\ \A t \in DOMAIN turns : turns'[t] = turns[t]
        /\ failedTurns \subseteq DOMAIN turns
    BY <1>3, TurnAsked DEF Structure, NamesTurns
  <2>2. step' = "turn" /\ activeTurn = 0
    BY <1>3 DEF Asks
  <2>3. ASSUME NEW t \in DOMAIN turns', OpenIn(turns', t), ~Straying(turns', failedTurns, t)
        PROVE  t = Len(turns')
    <3> SUFFICES ASSUME t \in DOMAIN turns PROVE FALSE
      BY <2>1
    <3>1. OpenIn(turns, t)
      BY <2>1, <2>3 DEF OpenIn
    <3>2. \A s \in 1 .. t : s \in DOMAIN turns
      BY <2>1
    <3>3. ~Straying(turns, failedTurns, t)
      BY <2>1, <2>3, <3>2 DEF Straying
    <3> QED
      BY <1>1, <2>1, <2>2, <3>1, <3>3 DEF OneOpen
  <2>4. \A t \in failedTurns : turns'[t] = turns[t]
    BY <2>1
  <2> QED
    BY <1>1, <2>2, <2>3, <2>4 DEF OneOpen
<1> QED
  BY <1>1, <1>2, <1>3

LEMMA OneOpenStep ==
    ASSUME TypeOK, Structure, OneOpen(step, turns, activeTurn, failedTurns),
           [CodexNext]_allVars
    PROVE  OneOpen(step', turns', activeTurn', failedTurns')
<1>1. [Next]_vars
  BY CodexStepIsOutboxStep
<1>2. CASE Exit
  <2>1. turns' = <<>> /\ failedTurns' = {}
    BY <1>2 DEF Exit, FreshProcess
  <2> QED
    BY <2>1 DEF OneOpen
<1>3. CASE Start
  BY <1>3 DEF Start, adapter, approval
<1>4. CASE Handled
  <2>1. PICK called, q, st, ts, aw :
           /\ Handler(called, q, st, ts, aw) /\ Prepared(q, st, ts, aw)
           /\ SameTurns(ts) /\ TurnsStep(st, ts, aw)
    BY <1>4 DEF Handled
  <2>2. OneOpen(st, ts, activeTurn', failedTurns')
    BY <2>1, OneOpenTurns
  <2> QED
    BY <2>1, <2>2, OneOpenDrained
<1> QED
  BY <1>2, <1>3, <1>4, CodexSteps, OneOpenAsked

OneTurnInv == TypeOK /\ Structure /\ OneOpen(step, turns, activeTurn, failedTurns)

LEMMA OneTurnInvariant == CodexSpec => []OneTurnInv
<1>1. CodexInit => OneOpen(step, turns, activeTurn, failedTurns)
  BY DEF CodexInit, OneOpen
<1>2. /\ TypeOK /\ Structure /\ OneOpen(step, turns, activeTurn, failedTurns)
      /\ [CodexNext]_allVars
      => OneOpen(step, turns, activeTurn, failedTurns)'
  BY OneOpenStep
<1> QED
  BY <1>1, <1>2, StructureInvariant, PTL DEF CodexSpec, OneTurnInv

\* The Host asks for one turn at a time: two turns are open together only when it
\* gave the first one up, or a turn up to it strays.
THEOREM OneTurn == CodexSpec => []OneTurnAtATime
<1>1. OneTurnInv => OneTurnAtATime
  <2> SUFFICES ASSUME OneTurnInv, NEW t \in DOMAIN turns, NEW u \in DOMAIN turns,
                      Open(t), t < u, t \notin failedTurns, \A s \in 1 .. t : ~Stray(s)
               PROVE  FALSE
    BY DEF OneTurnAtATime
  <2>1. OpenIn(turns, t) /\ ~Straying(turns, failedTurns, t)
    BY DEF Open, OpenIn, Stray, Straying
  <2>2. turns \in Seq(Turn)
    BY DEF OneTurnInv, Structure, DrainTypes
  <2> QED
    BY <2>1, <2>2 DEF OneTurnInv, OneOpen
<1> QED
  BY <1>1, OneTurnInvariant, PTL
-----------------------------------------------------------------------------
(* turn/started is a transition the correlator allows *)

NoneStrays(ts) == \A t \in DOMAIN ts : ~ts[t].cut /\ ts[t].msg \notin Compact

\* While no turn strays, a message that was announced belongs to the last turn:
\* that turn is active and has started, or it has just ended under an approval
\* and the report that ends the message is due.
Announced(st, ts, at, ct, ft, du, known) ==
    NoneStrays(ts) =>
        /\ at \notin ft
        /\ st \in {"turn", "answered"} => ct # Len(ts) /\ Len(ts) \notin ft
        /\ du = "accepted" => ct # 0
        /\ known => /\ ts # <<>>
                    /\ \/ at = Len(ts) /\ ts[Len(ts)].phase = "started"
                       \/ du = "accepted" /\ ct \notin ft /\ ts[Len(ts)].phase \in Over

LEMMA NoneStraysBefore ==
    ASSUME NEW ts, SameTurns(ts), NoneStrays(ts) PROVE NoneStrays(turns)
BY DEF NoneStrays, SameTurns

LEMMA AnnouncedTurns ==
    ASSUME Structure, OneOpen(step, turns, activeTurn, failedTurns), alive' => alive,
           Announced(step, turns, activeTurn, controlTurn, failedTurns, due, alive /\ Known),
           NEW st, NEW ts, NEW aw, SameTurns(ts), TurnsStep(st, ts, aw)
    PROVE  Announced(st, ts, activeTurn', controlTurn', failedTurns', due', alive' /\ Known')
<1> SUFFICES ASSUME NoneStrays(ts)
             PROVE  /\ activeTurn' \notin failedTurns'
                    /\ st \in {"turn", "answered"}
                          => controlTurn' # Len(ts) /\ Len(ts) \notin failedTurns'
                    /\ due' = "accepted" => controlTurn' # 0
                    /\ alive' /\ Known' =>
                          /\ ts # <<>>
                          /\ \/ /\ activeTurn' = Len(ts)
                                /\ ts[Len(ts)].phase = "started"
                             \/ /\ due' = "accepted" /\ controlTurn' \notin failedTurns'
                                /\ ts[Len(ts)].phase \in Over
  BY DEF Announced
<1>1. /\ turns \in Seq(Turn) /\ Len(turns) \in Nat /\ DOMAIN turns = 1 .. Len(turns)
      /\ ts \in Seq(Turn) /\ Len(ts) = Len(turns) /\ DOMAIN ts = 1 .. Len(turns)
      /\ failedTurns \subseteq DOMAIN turns
      /\ turns # <<>> => Len(turns) \in DOMAIN turns /\ ts # <<>>
  BY DEF Structure, DrainTypes, NamesTurns, SameTurns
<1>2. NoneStrays(turns)
  BY NoneStraysBefore
<1>3. /\ activeTurn \notin failedTurns
      /\ step \in {"turn", "answered"}
            => controlTurn # Len(turns) /\ Len(turns) \notin failedTurns
      /\ due = "accepted" => controlTurn # 0
  BY <1>2 DEF Announced
<1>4. ASSUME alive', Known' => Known, Known'
      PROVE  /\ turns # <<>>
             /\ \/ activeTurn = Len(turns) /\ turns[Len(turns)].phase = "started"
                \/ /\ due = "accepted" /\ controlTurn \notin failedTurns
                   /\ turns[Len(turns)].phase \in Over
  BY <1>2, <1>4 DEF Announced
<1>5. \A t \in DOMAIN turns : OpenIn(turns, t) /\ t \notin failedTurns => t = Len(turns)
  BY <1>1, <1>2 DEF OneOpen, Straying, NoneStrays
<1>6. step = "turn" => turns # <<>> /\ turns[Len(turns)].phase = "asked"
  BY DEF Structure, Requests
<1>7. CASE NoTurnMoves(st, ts, aw)
  <2>1. /\ UNCHANGED <<activeTurn, failedTurns>> /\ KeepsStart /\ SamePhases(ts)
        /\ st \in {"turn", "answered"} => st = step
        /\ \/ controlTurn' = controlTurn
           \/ controlTurn' = activeTurn /\ step # "answered" /\ due' = "none"
    BY <1>7 DEF NoTurnMoves, QuietSide
  <2>2. step = "turn" => activeTurn # Len(turns)
    BY <1>1, <1>6 DEF Structure, Requests, HasAnswer, Over
  <2>3. st \in {"turn", "answered"} => controlTurn' # Len(ts) /\ Len(ts) \notin failedTurns'
    BY <1>1, <1>3, <2>1, <2>2
  <2>4. due' = "accepted" => controlTurn' # 0
    BY <1>3, <2>1 DEF KeepsStart
  <2>5. ASSUME alive', Known'
        PROVE  /\ ts # <<>>
               /\ \/ activeTurn' = Len(ts) /\ ts[Len(ts)].phase = "started"
                  \/ /\ due' = "accepted" /\ controlTurn' \notin failedTurns'
                     /\ ts[Len(ts)].phase \in Over
    BY <1>1, <1>4, <2>1, <2>5 DEF KeepsStart, SamePhases
  <2> QED
    BY <1>3, <2>1, <2>3, <2>4, <2>5
<1>8. CASE LastIsAnswered(st, ts, aw)
  <2>1. /\ step = "turn" /\ KeepsStart /\ due' = "none"
        /\ UNCHANGED <<activeTurn, controlTurn, failedTurns>>
    BY <1>8 DEF LastIsAnswered
  <2>2. due = "none"
    BY <1>8 DEF LastIsAnswered, Line
  <2>3. ~(alive' /\ Known')
    BY <1>4, <1>6, <2>1, <2>2 DEF KeepsStart
  <2> QED
    BY <1>1, <1>3, <2>1, <2>3
<1>9. CASE LastIsActive(st, ts, aw)
  <2>1. /\ step = "answered" /\ st = "idle" /\ due = "none" /\ due' = "none" /\ ts = turns
        /\ KeepsStart /\ UNCHANGED <<controlTurn, failedTurns>>
        /\ activeTurn' = IF Head(queue) \in Compact THEN activeTurn ELSE Len(turns)
    BY <1>9 DEF LastIsActive
  <2>2. Head(queue) \notin Compact
    BY <1>1, <1>2, <2>1 DEF Structure, Requests, NoneStrays
  <2> QED
    BY <1>3, <1>4, <2>1, <2>2 DEF KeepsStart
<1>10. ASSUME NEW t \in DOMAIN turns, TurnStarts(t, st, ts, aw)
       PROVE  /\ activeTurn' \notin failedTurns' /\ due' # "accepted"
              /\ UNCHANGED <<controlTurn, failedTurns>> /\ st = step
              /\ activeTurn' = Len(turns) /\ ts[Len(turns)].phase = "started" /\ turns # <<>>
  <2>1. /\ turns[t].phase = "accepted" /\ ts = InPhase(t, "started") /\ st = step
        /\ activeTurn' = t /\ UNCHANGED <<controlTurn, failedTurns>> /\ due' = "none"
    BY <1>10 DEF TurnStarts
  <2>2. t \notin failedTurns
    BY <1>2, <2>1 DEF OneOpen, NoneStrays
  <2>3. t = Len(turns)
    BY <1>5, <2>1, <2>2 DEF OpenIn
  <2>4. ts[t].phase = "started"
    BY <1>1, <2>1, PhaseChanges DEF Phases
  <2> QED
    BY <1>1, <2>1, <2>2, <2>3, <2>4
<1>11. ASSUME NEW t \in DOMAIN turns, TurnIsOver(t, st, ts, aw)
       PROVE  /\ activeTurn' \notin failedTurns'
              /\ UNCHANGED controlTurn /\ failedTurns' \subseteq failedTurns /\ st = step
              /\ due' = "accepted" => controlTurn' # 0
              /\ alive' /\ Known' =>
                    /\ turns # <<>>
                    /\ \/ /\ activeTurn' = Len(turns)
                          /\ ts[Len(turns)].phase = "started"
                       \/ /\ due' = "accepted" /\ controlTurn' \notin failedTurns'
                          /\ ts[Len(turns)].phase \in Over
  <2>1. /\ turns[t].phase = "started" /\ due = "none" /\ st = step /\ ts = EndOf(t)
        /\ Cleared(t) /\ UNCHANGED controlTurn /\ failedTurns' \subseteq failedTurns
    BY <1>11 DEF TurnIsOver, Line
  <2>2. \E p \in Over :
            \A u \in DOMAIN turns : ts[u].phase = IF u = t THEN p ELSE turns[u].phase
    BY <2>1, TurnOver
  <2>3. activeTurn' \in {0, activeTurn} /\ (activeTurn # t => activeTurn' = activeTurn)
    BY <2>1 DEF Cleared
  <2>4. 0 \notin failedTurns /\ t # 0
    BY <1>1
  <2>5. ASSUME alive', Known', Known' => Known
        PROVE  turns # <<>> /\ activeTurn = Len(turns) /\ turns[Len(turns)].phase = "started"
    BY <1>4, <2>1, <2>5
  <2>6. CASE /\ UNCHANGED failedTurns /\ due' = "accepted" /\ controlTurn = t /\ (Known' => Known)
    <3>1. ASSUME alive', Known'
          PROVE  /\ turns # <<>>
                 /\ \/ activeTurn' = Len(turns) /\ ts[Len(turns)].phase = "started"
                    \/ /\ controlTurn' \notin failedTurns'
                       /\ ts[Len(turns)].phase \in Over
      <4>1. turns # <<>> /\ activeTurn = Len(turns) /\ turns[Len(turns)].phase = "started"
        BY <2>5, <2>6, <3>1
      <4>2. CASE t = Len(turns)
        BY <1>1, <1>3, <2>1, <2>2, <2>6, <4>1, <4>2
      <4>3. CASE t # Len(turns)
        BY <1>1, <2>2, <2>3, <4>1, <4>3
      <4> QED
        BY <4>2, <4>3
    <3> QED
      BY <1>3, <2>1, <2>3, <2>4, <2>6, <3>1
  <2>7. CASE UNCHANGED failedTurns /\ due' # "accepted" /\ ~Known'
    BY <1>3, <2>1, <2>3, <2>4, <2>7
  <2>8. CASE /\ t \in failedTurns /\ failedTurns' = failedTurns \ {t}
             /\ due' # "accepted" /\ (Known' => Known)
    <3>1. ASSUME alive', Known'
          PROVE  turns # <<>> /\ activeTurn' = Len(turns) /\ ts[Len(turns)].phase = "started"
      <4>1. turns # <<>> /\ activeTurn = Len(turns) /\ turns[Len(turns)].phase = "started"
        BY <2>5, <2>8, <3>1
      <4>2. t # activeTurn
        BY <1>3, <2>8
      <4> QED
        BY <1>1, <2>2, <2>3, <4>1, <4>2
    <3> QED
      BY <1>3, <2>1, <2>3, <2>4, <2>8, <3>1
  <2> QED
    BY <1>11, <2>6, <2>7, <2>8 DEF TurnIsOver
<1>12. CASE LastIsGivenUp(st, ts, aw)
  <2>1. /\ controlTurn # 0 /\ st = step /\ Cleared(controlTurn) /\ due' = "none" /\ ~Known'
        /\ failedTurns' = failedTurns \cup {controlTurn} /\ UNCHANGED controlTurn
    BY <1>12 DEF LastIsGivenUp
  <2>2. activeTurn' \notin failedTurns'
    BY <1>1, <1>3, <2>1 DEF Cleared
  <2> QED
    BY <1>1, <1>3, <2>1, <2>2
<1>13. CASE \E t \in DOMAIN turns : TurnStarts(t, st, ts, aw)
  BY <1>1, <1>3, <1>10, <1>13
<1>14. CASE \E t \in DOMAIN turns : TurnIsOver(t, st, ts, aw)
  BY <1>1, <1>3, <1>11, <1>14
<1> QED
  BY <1>7, <1>8, <1>9, <1>12, <1>13, <1>14 DEF TurnsStep

LEMMA AnnouncedDrained ==
    ASSUME NEW called, NEW q, NEW st, NEW ts, NEW aw, Handler(called, q, st, ts, aw),
           Announced(st, ts, activeTurn', controlTurn', failedTurns', due', alive' /\ Known')
    PROVE  Announced(step', turns', activeTurn', controlTurn', failedTurns', due',
                     alive' /\ Known')
<1>1. turns' = ts /\ (step' = st \/ step' \notin {"turn", "answered"})
  BY DEF Handler, Waits, Begins
<1> QED
  BY <1>1 DEF Announced

\* The message whose turn is asked for is not announced.
LEMMA AnnouncedAsked ==
    ASSUME Structure, DrainBegun,
           Announced(step, turns, activeTurn, controlTurn, failedTurns, due, alive /\ Known)
    PROVE  Announced(step', turns', activeTurn', controlTurn', failedTurns', due',
                     alive' /\ Known')
<1>1. /\ due = "none" /\ (Leaves \/ \E turn : Asks(turn))
      /\ UNCHANGED <<activeTurn, controlTurn, failedTurns, due, alive, active, intake>>
  BY DrainBegunMoves DEF approval, vars
<1>2. (alive' /\ Known') = (alive /\ Known)
  BY <1>1 DEF Known
<1>3. CASE Leaves
  BY <1>1, <1>2, <1>3 DEF Leaves, Announced
<1>4. ASSUME NEW turn, Asks(turn)
      PROVE  Announced(step', turns', activeTurn', controlTurn', failedTurns', due',
                       alive' /\ Known')
  <2>1. /\ Len(turns) \in Nat /\ Len(turns') = Len(turns) + 1
        /\ DOMAIN turns = 1 .. Len(turns) /\ DOMAIN turns' = 1 .. Len(turns) + 1
        /\ \A t \in DOMAIN turns : turns'[t] = turns[t]
        /\ failedTurns \subseteq DOMAIN turns /\ controlTurn \in 0 .. Len(turns)
        /\ turns # <<>> => Len(turns) # 0
    BY <1>4, TurnAsked DEF Structure, NamesTurns
  <2>2. step' = "turn" /\ activeTurn = 0
    BY <1>4 DEF Asks
  <2>3. NoneStrays(turns') => NoneStrays(turns)
    <3>1. \A u \in DOMAIN turns : u \in DOMAIN turns' /\ turns'[u] = turns[u]
      BY <2>1
    <3> QED
      BY <3>1 DEF NoneStrays
  <2>4. NoneStrays(turns) => ~(alive /\ Known)
    BY <1>1, <2>1, <2>2 DEF Announced
  <2>5. controlTurn # Len(turns') /\ Len(turns') \notin failedTurns
    BY <2>1
  <2>6. NoneStrays(turns) => activeTurn \notin failedTurns
    BY DEF Announced
  <2> QED
    BY <1>1, <1>2, <2>3, <2>4, <2>5, <2>6 DEF Announced
<1> QED
  BY <1>1, <1>3, <1>4

StartInv ==
    /\ OneTurnInv /\ ActiveTaken
    /\ Announced(step, turns, activeTurn, controlTurn, failedTurns, due, alive /\ Known)

LEMMA StartStep == StartInv /\ [CodexNext]_allVars => StartInv'
<1> SUFFICES ASSUME StartInv, [CodexNext]_allVars
             PROVE  /\ ActiveTaken'
                    /\ Announced(step', turns', activeTurn', controlTurn', failedTurns', due',
                                 alive' /\ Known')
  BY OneOpenStep, StructureStep, TypeStep, CodexStepIsOutboxStep DEF StartInv, OneTurnInv
<1>1. [Next]_vars /\ TypeOK /\ Structure
  BY CodexStepIsOutboxStep DEF StartInv, OneTurnInv
<1>2. CASE Exit
  <2>1. /\ turns' = <<>> /\ failedTurns' = {} /\ step' = "idle" /\ due' = "none" /\ ~alive'
        /\ UNCHANGED <<active, intake>>
    BY <1>2 DEF Exit, FreshProcess, ProviderExit
  <2> QED
    BY <2>1 DEF Announced, ActiveTaken, StartInv
<1>3. CASE Start
  <2>1. /\ UNCHANGED <<step, turns, activeTurn, controlTurn, failedTurns, due>>
        /\ active' = None /\ ~present
    BY <1>3 DEF Start, StartSession, adapter, approval
  <2>2. ~Known' /\ ActiveTaken'
    BY <2>1, MsgAssumption DEF Known, ActiveTaken
  <2> QED
    BY <2>1, <2>2 DEF Announced, StartInv
<1>4. CASE Handled
  <2>1. present' = present /\ ActiveTaken'
    BY <1>4 DEF Handled, StartInv
  <2>2. alive' => alive
    BY <1>1, <2>1, LifeKept
  <2>3. PICK called, q, st, ts, aw :
           /\ Handler(called, q, st, ts, aw) /\ Prepared(q, st, ts, aw)
           /\ SameTurns(ts) /\ TurnsStep(st, ts, aw)
    BY <1>4 DEF Handled
  <2>4. Announced(st, ts, activeTurn', controlTurn', failedTurns', due', alive' /\ Known')
    BY <2>2, <2>3, AnnouncedTurns DEF StartInv, OneTurnInv
  <2> QED
    BY <2>1, <2>3, <2>4, AnnouncedDrained
<1>5. CASE DrainBegun
  <2>1. UNCHANGED <<active, intake>>
    BY <1>1, <1>5, DrainBegunMoves DEF vars
  <2>2. ActiveTaken'
    BY <2>1 DEF StartInv, ActiveTaken
  <2> QED
    BY <1>1, <1>5, <2>2, AnnouncedAsked DEF StartInv
<1> QED
  BY <1>1, <1>2, <1>3, <1>4, <1>5, CodexSteps

\* As long as no turn strays, the intake record of the active message is not yet
\* "started" when app-server announces a turn: the correlator never throws.
THEOREM StartIsAlwaysAllowed == CodexSpec => []StartIsAllowed
<1>1. CodexInit => ActiveTaken /\ Announced(step, turns, activeTurn, controlTurn, failedTurns,
                                            due, alive /\ Known)
  BY MsgAssumption DEF CodexInit, Init, ActiveTaken, Announced, Known
<1>2. StartInv => StartIsAllowed
  <2> SUFFICES ASSUME StartInv, alive, active \in Matrix, NEW t \in DOMAIN turns,
                      turns[t].phase = "accepted", \A u \in DOMAIN turns : ~Stray(u),
                      intake[active] # "starting"
               PROVE  FALSE
    BY DEF StartIsAllowed
  <2>1. alive /\ Known
    BY DEF StartInv, ActiveTaken, Taken, Known
  <2>2. NoneStrays(turns)
    BY DEF Stray, NoneStrays
  <2>3. turns[Len(turns)].phase \in {"started", "over", "early"}
    BY <2>1, <2>2 DEF StartInv, Announced, Over
  <2>4. turns \in Seq(Turn) /\ DOMAIN turns = 1 .. Len(turns)
    BY DEF StartInv, OneTurnInv, Structure, DrainTypes
  <2>5. t \notin failedTurns
    BY <2>2 DEF StartInv, OneTurnInv, OneOpen, NoneStrays
  <2>6. OpenIn(turns, t) /\ ~Straying(turns, failedTurns, t)
    BY <2>2, <2>4, <2>5 DEF OpenIn, Straying, NoneStrays
  <2>7. t = Len(turns)
    BY <2>6 DEF StartInv, OneTurnInv, OneOpen
  <2> QED
    BY <2>3, <2>7
<1>3. CodexInit => StartInv \/ ~OneTurnInv
  BY <1>1 DEF StartInv
<1>4. CodexSpec => []StartInv
  BY <1>3, StartStep, OneTurnInvariant, PTL DEF CodexSpec
<1> QED
  BY <1>2, <1>4, PTL
-----------------------------------------------------------------------------
(* The adapter stalls only behind a turn that ended before its answer was dealt *)
(* with                                                                         *)

EndedEarly(ts, t) == ts[t].phase = "early"

\* The active turn is open or stalls the adapter, an answered turn is open or
\* ended before the drain went on, and a wait for turn/started is about the last
\* turn.
Waiting(st, ts, at, aw) ==
    /\ at # 0 => OpenIn(ts, at) \/ EndedEarly(ts, at)
    /\ st = "answered" => ts[Len(ts)].phase \in {"accepted", "started", "early"}
    /\ aw => \/ st = "rejected"
             \/ ts # <<>> /\ ts[Len(ts)].phase \in {"asked", "accepted"}

LEMMA WaitingTurns ==
    ASSUME Structure, Waiting(step, turns, activeTurn, awaiting),
           NEW st, NEW ts, NEW aw, SameTurns(ts), TurnsStep(st, ts, aw)
    PROVE  Waiting(st, ts, activeTurn', aw)
<1>1. /\ turns \in Seq(Turn) /\ Len(turns) \in Nat /\ DOMAIN turns = 1 .. Len(turns)
      /\ ts \in Seq(Turn) /\ Len(ts) = Len(turns) /\ DOMAIN ts = 1 .. Len(turns)
      /\ turns # <<>> => Len(turns) \in DOMAIN turns /\ ts # <<>>
      /\ activeTurn \in 0 .. Len(turns)
  BY DEF Structure, DrainTypes, NamesTurns, SameTurns
<1>2. step = "answered" => turns[Len(turns)].phase \in {"accepted", "started", "early"}
  BY DEF Waiting
<1>3. step \in {"turn", "answered"} => turns # <<>>
  BY DEF Structure, Requests
<1>4. activeTurn # 0 => /\ activeTurn \in DOMAIN turns
                        /\ OpenIn(turns, activeTurn) \/ EndedEarly(turns, activeTurn)
  BY <1>1 DEF Waiting
<1>5. CASE NoTurnMoves(st, ts, aw)
  <2>1. /\ activeTurn' = activeTurn /\ SamePhases(ts)
        /\ st \in {"turn", "answered"} => st = step
        /\ aw => awaiting /\ (step = "rejected" => st = "rejected")
    BY <1>5 DEF NoTurnMoves, QuietSide
  <2>2. activeTurn' # 0 => OpenIn(ts, activeTurn') \/ EndedEarly(ts, activeTurn')
    BY <1>4, <2>1 DEF SamePhases, OpenIn, EndedEarly
  <2>3. st = "answered" => ts[Len(ts)].phase \in {"accepted", "started", "early"}
    BY <1>1, <1>2, <1>3, <2>1 DEF SamePhases
  <2>4. aw => \/ st = "rejected"
              \/ ts # <<>> /\ ts[Len(ts)].phase \in {"asked", "accepted"}
    BY <1>1, <2>1 DEF Waiting, SamePhases
  <2> QED
    BY <2>2, <2>3, <2>4 DEF Waiting
<1>6. CASE LastIsAnswered(st, ts, aw)
  <2>1. PICK p \in {"accepted", "refused"} :
            /\ step = "turn" /\ activeTurn' = activeTurn /\ ts = InPhase(Len(turns), p)
            /\ st = IF p = "accepted" THEN "answered" ELSE "rejected"
    BY <1>6 DEF LastIsAnswered
  <2>2. turns[Len(turns)].phase = "asked" /\ Len(turns) \in DOMAIN turns
    BY <1>1, <2>1 DEF Structure, Requests
  <2>3. \A u \in DOMAIN turns : ts[u].phase = IF u = Len(turns) THEN p ELSE turns[u].phase
    BY <1>1, <2>1, <2>2, PhaseChanges DEF Phases
  <2>4. activeTurn # 0 => activeTurn # Len(turns)
    BY <2>2 DEF Structure, Requests, HasAnswer, Over
  <2>5. activeTurn' # 0 => OpenIn(ts, activeTurn') \/ EndedEarly(ts, activeTurn')
    BY <1>4, <2>1, <2>3, <2>4 DEF OpenIn, EndedEarly
  <2> QED
    BY <1>1, <2>1, <2>2, <2>3, <2>5 DEF Waiting
<1>7. CASE LastIsActive(st, ts, aw)
  <2>1. /\ step = "answered" /\ st = "idle" /\ ts = turns /\ (aw => awaiting)
        /\ activeTurn' \in {activeTurn, Len(turns)}
    BY <1>7 DEF LastIsActive
  <2>2. activeTurn' # 0 => OpenIn(ts, activeTurn') \/ EndedEarly(ts, activeTurn')
    BY <1>2, <1>4, <2>1 DEF OpenIn, EndedEarly
  <2> QED
    BY <2>1, <2>2 DEF Waiting
<1>8. ASSUME NEW t \in DOMAIN turns, TurnStarts(t, st, ts, aw)
      PROVE  Waiting(st, ts, activeTurn', aw)
  <2>1. ts = InPhase(t, "started") /\ activeTurn' = t /\ st = step /\ ~aw
    BY <1>8 DEF TurnStarts
  <2>2. \A u \in DOMAIN turns : ts[u].phase = IF u = t THEN "started" ELSE turns[u].phase
    BY <1>1, <2>1, PhaseChanges DEF Phases
  <2>3. st = "answered" => ts[Len(ts)].phase \in {"accepted", "started", "early"}
    BY <1>1, <1>2, <1>3, <2>1, <2>2
  <2> QED
    BY <2>1, <2>2, <2>3 DEF Waiting, OpenIn
<1>9. ASSUME NEW t \in DOMAIN turns, TurnIsOver(t, st, ts, aw)
      PROVE  Waiting(st, ts, activeTurn', aw)
  <2>1. ts = EndOf(t) /\ Cleared(t) /\ st = step /\ ~aw /\ turns[t].phase = "started"
    BY <1>9 DEF TurnIsOver
  <2>2. PICK p \in Over :
            /\ p = "early" <=> step = "answered" /\ t = Len(turns)
            /\ \A u \in DOMAIN turns : ts[u].phase = IF u = t THEN p ELSE turns[u].phase
    BY <2>1, TurnOver
  <2>3. activeTurn' # 0 => activeTurn' = activeTurn /\ activeTurn # t
    BY <2>1 DEF Cleared
  <2>4. activeTurn' # 0 => OpenIn(ts, activeTurn') \/ EndedEarly(ts, activeTurn')
    BY <1>4, <2>2, <2>3 DEF OpenIn, EndedEarly
  <2>5. st = "answered" => ts[Len(ts)].phase \in {"accepted", "started", "early"}
    BY <1>1, <1>2, <1>3, <2>1, <2>2
  <2> QED
    BY <2>1, <2>4, <2>5 DEF Waiting
<1>10. CASE LastIsGivenUp(st, ts, aw)
  <2>1. controlTurn # 0 /\ ts = GivenUp /\ Cleared(controlTurn) /\ st = step /\ ~aw
    BY <1>10 DEF LastIsGivenUp
  <2>2. controlTurn \in DOMAIN turns
    BY <1>1, <2>1 DEF Structure, NamesTurns
  <2>3. SamePhases(ts)
    BY <1>1, <2>1, <2>2, TurnGivenUp
  <2>4. activeTurn' # 0 => activeTurn' = activeTurn
    BY <2>1 DEF Cleared
  <2>5. activeTurn' # 0 => OpenIn(ts, activeTurn') \/ EndedEarly(ts, activeTurn')
    BY <1>4, <2>3, <2>4 DEF OpenIn, EndedEarly, SamePhases
  <2>6. st = "answered" => ts[Len(ts)].phase \in {"accepted", "started", "early"}
    BY <1>1, <1>2, <1>3, <2>1, <2>3 DEF SamePhases
  <2> QED
    BY <2>1, <2>5, <2>6 DEF Waiting
<1> QED
  BY <1>5, <1>6, <1>7, <1>8, <1>9, <1>10 DEF TurnsStep

LEMMA WaitingDrained ==
    ASSUME NEW called, NEW q, NEW st, NEW ts, NEW aw, Handler(called, q, st, ts, aw),
           Waiting(st, ts, activeTurn', aw)
    PROVE  Waiting(step', turns', activeTurn', awaiting')
<1>1. turns' = ts /\ awaiting' = aw
  BY DEF Handler
<1>2. step' = st \/ (~aw /\ step' # "answered")
  BY DEF Handler, Waits, Begins
<1> QED
  BY <1>1, <1>2 DEF Waiting

\* The drain's own step leaves things to the active turn or to the one it asks for.
LEMMA WaitingAsked ==
    ASSUME Structure, DrainBegun, Waiting(step, turns, activeTurn, awaiting)
    PROVE  Waiting(step', turns', activeTurn', awaiting') /\ AdapterNotStalled'
<1>1. /\ step = "begun" /\ activeTurn' = activeTurn
      /\ (Leaves \/ \E turn : Asks(turn))
  BY DrainBegunMoves
<1>2. CASE Leaves
  <2>1. step' = "idle" /\ turns' = turns /\ awaiting' = awaiting /\ activeTurn # 0
    BY <1>2 DEF Leaves
  <2>2. activeTurn \in DOMAIN turns
    BY <2>1 DEF Structure, NamesTurns, DrainTypes
  <2>3. OpenIn(turns, activeTurn) \/ EndedEarly(turns, activeTurn)
    BY <2>1 DEF Waiting
  <2> QED
    BY <1>1, <2>1, <2>2, <2>3
    DEF Waiting, AdapterNotStalled, Stalled, Open, OpenIn, EndedEarly
<1>3. ASSUME NEW turn, Asks(turn)
      PROVE  Waiting(step', turns', activeTurn', awaiting') /\ AdapterNotStalled'
  <2>1. /\ step' = "turn" /\ activeTurn' = 0 /\ turn.phase = "asked"
        /\ turns'[Len(turns')] = turn /\ turns' # <<>>
    BY <1>1, <1>3, TurnAsked DEF Asks
  <2> QED
    BY <2>1 DEF Waiting, AdapterNotStalled, Sending
<1> QED
  BY <1>1, <1>2, <1>3

\* A handler calls the drain, or leaves something that will.
LEMMA AwakeStep ==
    ASSUME Structure, AdapterNotStalled, alive' => alive,
           NEW called, NEW q, NEW st, NEW ts, NEW aw, Handler(called, q, st, ts, aw),
           SameTurns(ts), Prepared(q, st, ts, aw), Waiting(st, ts, activeTurn', aw),
           WakeStep(called, st, ts)
    PROVE  AdapterNotStalled'
<1> SUFFICES ASSUME alive', ready' = "ready", queue' # <<>>, step' = "idle", due' = "none",
                    control' = "none", \A t \in DOMAIN turns' : ~OpenIn(turns', t),
                    activeTurn' # 0 => ~EndedEarly(turns', activeTurn')
             PROVE  FALSE
  BY DEF AdapterNotStalled, Sending, Open, OpenIn, Stalled, EndedEarly
<1>1. Waits(called, st, aw) /\ turns' = ts
  BY DEF Handler, Begins
<1>2. st = "idle" /\ turns' = ts
  BY <1>1 DEF Waits
<1>3. /\ Len(ts) \in Nat /\ DOMAIN ts = 1 .. Len(ts) /\ activeTurn' \in 0 .. Len(ts)
      /\ ts # <<>> => Len(ts) \in DOMAIN ts
  BY DEF Prepared, DrainTypes, NamesTurns
<1>4. ~aw
  BY <1>2, <1>3 DEF Waiting, OpenIn
<1>5. activeTurn' = 0
  BY <1>2, <1>3 DEF Waiting, DrainTypes
<1>6. MayAsk
  BY DEF MayAsk, Holds
<1>7. ~called
  BY <1>1, <1>2, <1>4, <1>6 DEF Waits
<1>8. st = step /\ SamePhases(ts) /\ UNCHANGED <<queue, due, control, ready, activeTurn>>
  BY <1>2, <1>7 DEF WakeStep
<1>9. \A t \in DOMAIN turns : ~OpenIn(turns, t)
  BY <1>2, <1>8 DEF SameTurns, SamePhases, OpenIn
<1> QED
  BY <1>2, <1>5, <1>8, <1>9 DEF AdapterNotStalled, Sending, Open, OpenIn, Stalled

AwakeInv ==
    /\ TypeOK /\ Structure /\ Waiting(step, turns, activeTurn, awaiting)
    /\ AdapterNotStalled

LEMMA AwakeInvStep == AwakeInv /\ [CodexNext]_allVars => AwakeInv'
<1> SUFFICES ASSUME AwakeInv, [CodexNext]_allVars
             PROVE  Waiting(step', turns', activeTurn', awaiting') /\ AdapterNotStalled'
  BY StructureStep, TypeStep, CodexStepIsOutboxStep DEF AwakeInv
<1>1. [Next]_vars /\ TypeOK /\ Structure
  BY CodexStepIsOutboxStep DEF AwakeInv
<1>2. CASE Exit
  <2>1. /\ turns' = <<>> /\ step' = "idle" /\ activeTurn' = 0 /\ ~awaiting' /\ ~alive'
    BY <1>2 DEF Exit, FreshProcess, ProviderExit
  <2> QED
    BY <2>1 DEF Waiting, AdapterNotStalled
<1>3. CASE Start
  <2>1. UNCHANGED <<ready, step, turns, activeTurn, awaiting>> /\ ~present
    BY <1>3 DEF Start, StartSession, adapter
  <2>2. ready' # "ready"
    BY <1>1, <2>1 DEF Structure, NothingLeft
  <2> QED
    BY <2>1, <2>2 DEF Waiting, AdapterNotStalled, AwakeInv
<1>4. CASE Handled
  <2>1. present' = present
    BY <1>4 DEF Handled
  <2>2. alive' => alive
    BY <1>1, <2>1, LifeKept
  <2>3. PICK called, q, st, ts, aw :
           /\ Handler(called, q, st, ts, aw) /\ Prepared(q, st, ts, aw)
           /\ SameTurns(ts) /\ TurnsStep(st, ts, aw) /\ WakeStep(called, st, ts)
    BY <1>4 DEF Handled
  <2>4. Waiting(st, ts, activeTurn', aw)
    BY <2>3, WaitingTurns DEF AwakeInv
  <2> QED
    BY <1>1, <2>2, <2>3, <2>4, WaitingDrained, AwakeStep DEF AwakeInv
<1>5. CASE DrainBegun
  BY <1>1, <1>5, WaitingAsked DEF AwakeInv
<1> QED
  BY <1>1, <1>2, <1>3, <1>4, <1>5, CodexSteps

\* Messages wait in the adapter only for its drain, a turn or an approval, or
\* behind a turn that ended in the chunk that answered its request (Stalled),
\* however app-server cuts its lines into chunks.
THEOREM AdapterIsAwake == CodexSpec => []AdapterNotStalled
<1>1. CodexInit => AwakeInv \/ ~(TypeOK /\ Structure)
  BY DEF CodexInit, AwakeInv, Waiting, AdapterNotStalled
<1>2. AwakeInv => AdapterNotStalled
  BY DEF AwakeInv
<1> QED
  BY <1>1, <1>2, AwakeInvStep, StructureInvariant, PTL DEF CodexSpec
=============================================================================
