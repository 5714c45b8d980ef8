--------------------------- MODULE TelegramBridge ---------------------------
(***************************************************************************)
(* TelegramBridgeManager: one listener of one session, the chat it is      *)
(* bound to, and the transcript between them.                              *)
(*                                                                         *)
(* Two loops share the state of a listener without a lock: the poll, which *)
(* handles the updates of Telegram one by one and then flushes the         *)
(* transcript to the chat, and the typing indicator, whose timer flushes   *)
(* too while a turn is open.  A step runs from one await to the next.      *)
(*                                                                         *)
(* Updates are numbered as Telegram numbers them, and a message is named   *)
(* by its update.  Every provider event names the user event its turn      *)
(* began with, so echo suppression and the guesses for events without a    *)
(* name decide nothing here.  Left out: terminal confirmations, the tool   *)
(* overview (only its deletion, where a turn closes, is an await), the     *)
(* choice of the listening session and changes of its configuration.       *)
(*                                                                         *)
(* A long text is sent in parts.  A call may fail though Telegram has      *)
(* shown the part, its answer being lost; a call that has failed shows     *)
(* nothing afterwards.                                                     *)
(***************************************************************************)
EXTENDS Naturals, Sequences, FiniteSetsExt

CONSTANTS
    MaxUpdates,         \* messages the chat may send
    MaxTexts,           \* assistant messages of a turn
    MaxParts,           \* parts of a message
    MaxFaults,          \* calls that fail
    MaxRestarts         \* restarts of the Host by other causes

ASSUME BoundsAssumption ==
    /\ MaxUpdates \in Nat /\ MaxTexts \in Nat /\ MaxParts \in Nat \ {0}
    /\ MaxFaults \in Nat /\ MaxRestarts \in Nat

Update == 1..MaxUpdates
NoTurn == [src |-> 0, done |-> FALSE]
NoFlush == [step |-> "none", at |-> 0, part |-> 0, upto |-> 0, own |-> 0]
Loop == {"poll", "tick"}
Later(m, n) == IF m < n THEN n ELSE m

VARIABLES
    inbox,              \* updates sent so far
    log,                \* the room's transcript: [turn, kind], by sequence number
    asked,              \* updates the provider was given since the Host started
    offset,             \* state.updateOffset
    polled,             \* last update of the answer being handled
    poll,               \* where the poll stands
    turn,               \* state.currentOutboundTurn, NoTurn when inactive
    seq,                \* state.latestTranscriptSeq
    flush,              \* where the flush of each loop stands
    typing, timer,      \* state.typingIndicator
    acting,             \* ticks that wait for sendChatAction
    fate,               \* history: what became of each update
    sent,               \* history: what the chat shows, message by part
    arrived, failed,    \* history: messages sent to the end, and given up
    cut,                \* history: turns that lost their place
    faults, restarts

listener == <<offset, polled, poll, turn, seq, flush, typing, timer, acting>>
history == <<fate, sent, arrived, failed, cut>>
vars == <<inbox, log, asked, listener, history, faults, restarts>>

Finished(u) == \E i \in DOMAIN log : log[i] = [turn |-> u, kind |-> "done"]
TextsOf(u) == {i \in DOMAIN log : log[i] = [turn |-> u, kind |-> "text"]}

Fault == faults < MaxFaults /\ faults' = faults + 1
Cutting == IF turn = NoTurn THEN cut ELSE cut \cup {turn.src}

-----------------------------------------------------------------------------
(* Telegram and the provider *)

UserSends ==
    /\ inbox < MaxUpdates /\ inbox' = inbox + 1
    /\ UNCHANGED <<log, asked, listener, history, faults, restarts>>

\* The provider plays its messages in order; each event is committed when it comes.
ProviderWrites ==
    \E i \in DOMAIN asked :
        LET u == asked[i] IN
        /\ ~Finished(u) /\ \A j \in 1..(i - 1) : Finished(asked[j])
        /\ \/ Cardinality(TextsOf(u)) < MaxTexts
              /\ log' = Append(log, [turn |-> u, kind |-> "text"])
           \/ log' = Append(log, [turn |-> u, kind |-> "done"])
        /\ UNCHANGED <<inbox, asked, listener, history, faults, restarts>>

-----------------------------------------------------------------------------
(* The typing indicator *)

StopTyping == typing' = FALSE /\ timer' = FALSE

\* scheduleTypingIndicator
ScheduleTyping ==
    \/ typing /\ ~timer /\ turn # NoTurn /\ timer' = TRUE /\ UNCHANGED typing
    \/ typing /\ ~timer /\ turn = NoTurn /\ StopTyping
    \/ (~typing \/ timer) /\ UNCHANGED <<typing, timer>>

\* sendTypingAction returns: sent, failed, or the chat is gone.
TypingSent ==
    \/ ScheduleTyping /\ UNCHANGED faults
    \/ Fault /\ StopTyping

-----------------------------------------------------------------------------
(* The Host *)

\* A Host that starts has no listener state; it skips the backlog of Telegram
\* (primeUpdateOffset) and begins at the end of the transcript.
Restarted ==
    /\ asked' = <<>> /\ offset' = inbox + 1 /\ polled' = 0 /\ poll' = "idle"
    /\ turn' = NoTurn /\ seq' = Len(log)
    /\ flush' = [w \in Loop |-> NoFlush] /\ StopTyping /\ acting' = 0
    /\ fate' = [u \in Update |-> IF u \in offset..inbox /\ fate[u] = "none"
                                 THEN "skipped" ELSE fate[u]]
    /\ cut' = Cutting

Restart ==
    /\ restarts < MaxRestarts /\ restarts' = restarts + 1
    /\ Restarted
    /\ UNCHANGED <<inbox, log, sent, arrived, failed, faults>>

-----------------------------------------------------------------------------
(* Flushing the transcript *)

\* Fault: a flush does not look for another one.
FlushingNever == FALSE

\* flushingOutbound
Flushing == \E w \in Loop : flush[w] # NoFlush

\* Fault: the reader jumps to the end of the transcript.
ReadToTheEnd(to) == Len(log)

ReadTo(to) == to

\* The flush waits for Telegram: for the first part of a message, or to close.
FlushWaits(who, step, at, to) ==
    /\ flush' = [flush EXCEPT ![who] =
                    [step |-> step, at |-> at, part |-> 1, upto |-> to, own |-> turn.src]]
    /\ poll' = IF who = "poll" THEN "flushing" ELSE poll
    /\ UNCHANGED acting

\* The flush is over; a tick goes on if a turn is open.
FlushEnds(who, open, armed) ==
    /\ flush' = [flush EXCEPT ![who] = NoFlush]
    /\ \/ who = "poll" /\ poll' = "idle" /\ timer' = armed /\ UNCHANGED <<typing, acting>>
       \/ who = "tick" /\ open /\ acting' = acting + 1 /\ timer' = armed
            /\ UNCHANGED <<poll, typing>>
       \/ who = "tick" /\ ~open /\ StopTyping /\ UNCHANGED <<poll, acting>>

\* Messages of the current turn among those read and not yet looked at.
Mine(from, to) == {i \in (from + 1)..to : turn # NoTurn /\ log[i].turn = turn.src}

\* flushOutboundTranscript up to its next await: the next assistant message of
\* the current turn, or the closing of a turn whose completion was seen.
Scan(who, from, to, armed) ==
    LET texts == {i \in Mine(from, to) : log[i].kind = "text"}
        last  == IF texts = {} THEN to ELSE Min(texts)
        ended == \/ turn.done
                 \/ \E i \in Mine(from, to) : i <= last /\ log[i].kind = "done"
    IN  /\ turn' = [turn EXCEPT !.done = ended]
        /\ \/ /\ texts # {}
              /\ seq' = Later(seq, last) /\ FlushWaits(who, "html", last, to)
              /\ timer' = armed /\ UNCHANGED typing
           \/ /\ texts = {} /\ ended
              /\ seq' = Later(seq, ReadTo(to)) /\ FlushWaits(who, "close", to, to)
              /\ StopTyping
           \/ /\ texts = {} /\ ~ended
              /\ seq' = Later(seq, ReadTo(to)) /\ FlushEnds(who, turn # NoTurn, armed)

\* The part that a flush sends is in the chat: as HTML, as HTML whose answer is
\* lost, or as plain text.
Shown(who, form) ==
    sent' = Append(sent, [at |-> flush[who].at, part |-> flush[who].part, form |-> form])

NextPart(f) == [f EXCEPT !.step = "html", !.part = f.part + 1]

\* Telegram answers: the next part follows, or the next message.
Sent(who) ==
    /\ flush[who].step \in {"html", "plain"}
    /\ Shown(who, flush[who].step)
    /\ \/ /\ flush[who].part < MaxParts
          /\ flush' = [flush EXCEPT ![who] = NextPart(@)]
          /\ UNCHANGED <<poll, turn, seq, typing, timer, acting, arrived>>
       \/ /\ arrived' = arrived \cup {flush[who].at}
          /\ Scan(who, flush[who].at, flush[who].upto, timer)
    /\ UNCHANGED <<inbox, log, asked, offset, polled, fate, failed, cut, faults, restarts>>

\* The same part again, without a word to Telegram that it is the same.
PlainAgain(who) ==
    flush' = [flush EXCEPT ![who] = [@ EXCEPT !.step = "plain"]]

\* The call throws, whatever Telegram did with it.
HtmlFails(who) ==
    /\ flush[who].step = "html" /\ Fault
    /\ UNCHANGED sent \/ Shown(who, "lost")
    /\ PlainAgain(who)
    /\ UNCHANGED <<inbox, log, asked, offset, polled, poll, turn, seq, typing, timer,
                   acting, fate, arrived, failed, cut, restarts>>

\* clearOutboundTurn clears the turn that is current when the await returns.
Closed(who) ==
    /\ flush[who].step = "close"
    /\ turn' = NoTurn
    /\ cut' = IF turn.src = flush[who].own THEN cut ELSE Cutting
    /\ FlushEnds(who, FALSE, timer)
    /\ UNCHANGED <<inbox, log, asked, offset, polled, seq, fate, sent, arrived, failed,
                   faults, restarts>>

\* The second call, or the closing, throws too.  The poll's timer catches it; a
\* tick is started with void, nobody catches it, and the Host exits.
FlushFails(who) ==
    /\ flush[who].step \in {"plain", "close"} /\ Fault
    /\ \/ UNCHANGED sent
       \/ flush[who].step = "plain" /\ Shown(who, "plain")
    /\ failed' = IF flush[who].step = "plain" THEN failed \cup {flush[who].at} ELSE failed
    /\ \/ who = "tick" /\ Restarted
       \/ who = "poll" /\ flush' = [flush EXCEPT ![who] = NoFlush] /\ poll' = "idle"
            /\ UNCHANGED <<asked, offset, polled, turn, seq, typing, timer, acting, fate, cut>>
    /\ UNCHANGED <<inbox, log, arrived, restarts>>

-----------------------------------------------------------------------------
(* The poll *)

Handled == offset' = offset + 1 /\ poll' = "handling" /\ UNCHANGED polled

\* getUpdates answers; a poll that fails is started again by its timer.
Poll ==
    /\ poll = "idle" /\ poll' = "handling" /\ polled' = inbox
    /\ UNCHANGED <<inbox, log, asked, offset, turn, seq, flush, typing, timer,
                   acting, history, faults, restarts>>

\* A bot, a stranger, another chat, an empty text.
IgnoreUpdate ==
    /\ poll = "handling" /\ offset <= polled
    /\ Handled /\ fate' = [fate EXCEPT ![offset] = "ignored"]
    /\ UNCHANGED <<inbox, log, asked, turn, seq, flush, typing, timer, acting,
                   sent, arrived, failed, cut, faults, restarts>>

\* commitMatrixUserMessage; its transaction is named after the update, so a
\* repeated one finds the event of the first.
Commit ==
    LET event == [turn |-> offset, kind |-> "user"] IN
    /\ poll = "handling" /\ offset <= polled /\ poll' = "committed"
    /\ log' = IF \E i \in DOMAIN log : log[i] = event THEN log ELSE Append(log, event)
    /\ UNCHANGED <<inbox, asked, offset, polled, turn, seq, flush, typing, timer,
                   acting, history, faults, restarts>>

\* Fault: an update whose handler failed is not polled again.
SkipFailed == offset' = offset + 1

KeepFailed == UNCHANGED offset

\* The commit or the delivery throws: the timer polls again, from this update.
HandlerFails ==
    /\ poll = "committed" \/ (poll = "handling" /\ offset <= polled)
    /\ Fault /\ poll' = "idle" /\ KeepFailed
    /\ UNCHANGED <<inbox, log, asked, polled, turn, seq, flush, typing, timer,
                   acting, history, restarts>>

\* The session accepts the message, its turn replaces the current one, and the
\* typing indicator starts unless it runs.
Deliver ==
    /\ poll = "committed"
    /\ asked' = Append(asked, offset)
    /\ fate' = [fate EXCEPT ![offset] = "given"]
    /\ turn' = [src |-> offset, done |-> FALSE]
    /\ cut' = Cutting
    /\ \/ typing /\ Handled /\ UNCHANGED <<typing, timer>>
       \/ ~typing /\ typing' = TRUE /\ timer' = FALSE /\ poll' = "typing"
            /\ UNCHANGED <<offset, polled>>
    /\ UNCHANGED <<inbox, log, seq, flush, acting, sent, arrived, failed, faults, restarts>>

TypingBegins ==
    /\ poll = "typing" /\ TypingSent /\ Handled
    /\ UNCHANGED <<inbox, log, asked, turn, seq, flush, acting, history, restarts>>

\* Every update is handled: flush, unless a tick is flushing.
PollFlushes ==
    /\ poll = "handling" /\ offset > polled
    /\ \/ Flushing /\ poll' = "idle" /\ UNCHANGED <<turn, seq, flush, typing, timer, acting>>
       \/ ~Flushing /\ Scan("poll", seq, Len(log), timer)
    /\ UNCHANGED <<inbox, log, asked, offset, polled, history, faults, restarts>>

PollStep ==
    \/ Poll \/ IgnoreUpdate \/ Commit \/ HandlerFails
    \/ Deliver \/ TypingBegins \/ PollFlushes
-----------------------------------------------------------------------------
(* Ticks of the typing indicator *)

\* Fault: the indicator of a turn that is given up stays on.
TypingGoesOn == timer' = FALSE /\ UNCHANGED typing

TypingEnds == StopTyping

\* tickTypingIndicator: stop without a turn, give up one that is an hour old,
\* flush unless the poll does.
TickFires ==
    /\ timer
    /\ \/ /\ turn = NoTurn /\ TypingEnds
          /\ UNCHANGED <<turn, seq, flush, poll, acting, cut>>
       \/ /\ turn # NoTurn /\ TypingEnds
          /\ turn' = NoTurn /\ cut' = Cutting
          /\ UNCHANGED <<seq, flush, poll, acting>>
       \/ /\ turn # NoTurn /\ Flushing
          /\ timer' = FALSE /\ acting' = acting + 1
          /\ UNCHANGED <<turn, seq, flush, poll, typing, cut>>
       \/ /\ turn # NoTurn /\ ~Flushing
          /\ Scan("tick", seq, Len(log), FALSE) /\ UNCHANGED cut
    /\ UNCHANGED <<inbox, log, asked, offset, polled, fate, sent, arrived, failed, faults,
                   restarts>>

TickActs ==
    /\ acting > 0 /\ acting' = acting - 1 /\ TypingSent
    /\ UNCHANGED <<inbox, log, asked, offset, polled, poll, turn, seq, flush,
                   history, restarts>>

-----------------------------------------------------------------------------
Init ==
    /\ inbox = 0 /\ log = <<>> /\ asked = <<>>
    /\ offset = 1 /\ polled = 0 /\ poll = "idle"
    /\ turn = NoTurn /\ seq = 0 /\ flush = [w \in Loop |-> NoFlush]
    /\ typing = FALSE /\ timer = FALSE /\ acting = 0
    /\ fate = [u \in Update |-> "none"] /\ sent = <<>> /\ arrived = {}
    /\ failed = {} /\ cut = {}
    /\ faults = 0 /\ restarts = 0

FlushStep == \E who \in Loop : Sent(who) \/ HtmlFails(who) \/ Closed(who) \/ FlushFails(who)

Next == \/ UserSends \/ ProviderWrites \/ Restart
        \/ PollStep \/ FlushStep \/ TickFires \/ TickActs

Spec == Init /\ [][Next]_vars

\* Timers fire, and every call to Telegram, the facade or the session returns.
\* The user and the provider owe nothing.
FairSpec ==
    /\ Spec /\ WF_vars(PollStep) /\ WF_vars(FlushStep)
    /\ WF_vars(TickFires) /\ WF_vars(TickActs)

-----------------------------------------------------------------------------
(* Properties *)

\* The offset passes an update only when its message was given to the session
\* or not meant for it, or when it came before the listener: a handler that
\* throws half-way (pollSession moves the offset after handleUpdate) loses
\* nothing.
OffsetIsHonest == \A u \in 1..(offset - 1) : fate[u] # "none"

\* What the chat may show after x: the next part of the message, the first part
\* of a later one, or the same part once more, as plain text, if the answer to x
\* was lost.
Follows(x, y) ==
    \/ y.at = x.at /\ y.part = x.part + 1
    \/ y.at > x.at /\ y.part = 1
    \/ y.at = x.at /\ y.part = x.part /\ x.form = "lost" /\ y.form = "plain"

\* The chat gets the assistant messages in the order of the transcript, the parts
\* of one together and none left out before another, though two loops flush it
\* (flushingOutbound).  Only a part whose answer was lost is there twice, one
\* right after the other: sendTelegramText sends it again with nothing by which
\* Telegram could know it.
SentInOrder ==
    /\ sent # <<>> => sent[1].part = 1
    /\ \A i \in 1..(Len(sent) - 1) : Follows(sent[i], sent[i + 1])

\* An indicator that is on has somebody who will renew it or turn it off; one
\* that nobody drives could never be started again (startTypingIndicator
\* returns at once) and no turn would be given up any more.
TypingIsDriven ==
    typing => \/ timer \/ acting > 0 \/ poll = "typing" \/ flush["tick"] # NoFlush

\* An assistant message of the current turn is sent to its last part, or its
\* sending fails, or the turn loses its place: to a later message, to the closing
\* of the turn before it, to its age or to a restart.  (It lies between a user
\* message and the end of its turn, so neither first nor last of the transcript.)
AnswerArrives ==
    \A i \in 2..(MaxUpdates * (MaxTexts + 2) - 1) :
        (/\ i \in DOMAIN log /\ log[i].kind = "text" /\ seq < i
         /\ turn # NoTurn /\ turn.src = log[i].turn)
        ~> \/ i \in arrived \cup failed
           \/ i \in DOMAIN log /\ log[i].turn \in cut
=============================================================================
