--------------------------- MODULE SemanticBridge ---------------------------
(***************************************************************************)
(* The bridge that writes what a provider says into the Matrix room of its *)
(* session (server.mjs, scheduleRouteCSemanticBridgeWrite): a queue of     *)
(* runtime events per provider turn, flushed in batches; runs of tool      *)
(* events, of which only the first is a Matrix event and the rest goes to  *)
(* large-tool-call-store.mjs; the text deltas matrix-facade.mjs collects   *)
(* until the turn ends; and the side effects of a batch, which run after   *)
(* its last write and feed CompleteNotification.                           *)
(*                                                                         *)
(* One session and room.  An event is [turn, n, kind], the n-th of its     *)
(* turn.  Kinds: "call" and "result" are tool events, "text" an assistant  *)
(* message, "delta" a part of one, "note" any other row (errors, control   *)
(* and lifecycle events), "ok" and "bad" the completion of the turn.  A    *)
(* write commits, is refused, or throws; the last two are faults.          *)
(***************************************************************************)
EXTENDS CompleteNotification, FiniteSets

CONSTANTS
    Turns,              \* provider turns of the session
    Kinds,              \* kinds of events they emit
    MaxBatch,           \* events of a batch (25 in the code)
    MaxEvents,          \* bound: events of all turns
    MaxFaults,          \* bound: refused or throwing writes
    MaxRestarts         \* bound: Host restarts

ASSUME BridgeAssumption ==
    /\ Kinds \subseteq {"call", "result", "text", "delta", "note", "ok", "bad"}
    /\ MaxBatch \in Nat \ {0} /\ MaxEvents \in Nat /\ MaxFaults \in Nat /\ MaxRestarts \in Nat

VARIABLES
    emitted,            \* history: kinds of the events of a turn
    queue,              \* queue.events, as numbers
    timer,              \* turns whose queue has a timer
    flush,              \* the batch of a turn that is being flushed
    state,              \* routeCP82LargeToolRunStates
    runs,               \* tool_runs with their continuations
    deltas,             \* streamedAssistantDeltaBuffers, as numbers
    timeline,           \* Matrix events of a turn, in commit order
    reported,           \* events a bridge failure was broadcast for
    refused,            \* history: rows the storage refused, as <<turn, n>>
    dead,               \* turns of an earlier Host
    faults, restarts    \* bounded counters

queues == <<queue, timer, flush>>
tools == <<state, runs>>
past == <<dead, restarts>>
failures == <<reported, refused, faults>>
vars == <<emitted, queues, tools, deltas, timeline, failures, past, notes>>

Tools == {"call", "result"}
Event(t, n) == [turn |-> t, n |-> n, kind |-> emitted[t][n]]

\* No flush of the queue: flushing is FALSE.
Idle == [events |-> <<>>, at |-> 0, committed |-> FALSE, effects |-> <<>>]
Flushing(t) == flush[t] # Idle

NoState == [count |-> 0, first |-> 0, ref |-> FALSE]

-----------------------------------------------------------------------------
(* Queueing and batches *)

\* flushRouteCP135SemanticBridgeQueue up to its first write
Started(q) ==
    [Idle EXCEPT !.events = SubSeq(q, 1, IF Len(q) < MaxBatch THEN Len(q) ELSE MaxBatch),
                 !.at = 1]

\* Fault: splice is off by one.
LeftOne(q) == SubSeq(q, MaxBatch, Len(q))

Left(q) == SubSeq(q, MaxBatch + 1, Len(q))

FlushNow(t, q) ==
    /\ flush' = [flush EXCEPT ![t] = Started(q)]
    /\ queue' = [queue EXCEPT ![t] = Left(q)]
    /\ timer' = timer \ {t}

Emitted == UNION {{t} \X DOMAIN emitted[t] : t \in Turns}

\* A runtime event of a delivered message: scheduleRouteCSemanticBridgeWrite.
Emit(t, k) ==
    /\ t \notin dead /\ Cardinality(Emitted) < MaxEvents
    /\ \A i \in DOMAIN emitted[t] : emitted[t][i] \notin Completions
    /\ emitted' = [emitted EXCEPT ![t] = Append(@, k)]
    /\ LET q == Append(queue[t], Len(emitted[t]) + 1) IN
       IF ~Flushing(t) /\ (k \in Completions \/ Len(q) >= MaxBatch) THEN FlushNow(t, q)
       ELSE /\ queue' = [queue EXCEPT ![t] = q]
            /\ timer' = IF Flushing(t) THEN timer ELSE timer \cup {t}
            /\ UNCHANGED flush
    /\ UNCHANGED <<tools, deltas, timeline, failures, past, notes>>

TimerFires(t) ==
    /\ t \in timer /\ FlushNow(t, queue[t])
    /\ UNCHANGED <<emitted, tools, deltas, timeline, failures, past, notes>>

\* Fault: the end of a flush forgets what was queued meanwhile.
RescheduledNever(t) == timer

Rescheduled(t) == IF queue[t] = <<>> THEN timer ELSE timer \cup {t}

\* The finally block.
EndFlush(t) ==
    /\ flush' = [flush EXCEPT ![t] = Idle]
    /\ timer' = Rescheduled(t)
    /\ UNCHANGED queue

\* The catch block: all events of the batch are reported, none is retried, and
\* the side effects of those that were committed do not run.
Abort(t) ==
    /\ reported' = reported \cup {Event(t, n) : n \in ToSet(flush[t].events)}
    /\ EndFlush(t)
    /\ UNCHANGED refused

-----------------------------------------------------------------------------
(* Writing an event: routeCP82WriteSemanticBridgeEvent, a step to its await and
   a step after it.  Nothing else of the turn runs between the two. *)

Number(t) == flush[t].events[flush[t].at]
Kind(t) == emitted[t][Number(t)]
Writes(t) == Flushing(t) /\ flush[t].at <= Len(flush[t].events) /\ ~flush[t].committed

Faulty == faults < MaxFaults /\ faults' = faults + 1
Passed(t) == [flush EXCEPT ![t].at = @ + 1, ![t].committed = FALSE]
PassesOver(t) == flush' = Passed(t) /\ UNCHANGED <<queue, timer, reported, refused>>

\* The Matrix rows of a write: "before" are committed ahead of the event's own.
Written(t, before) ==
    \/ LET rows == Append(before, [n |-> Number(t), kind |-> Kind(t), parts |-> {Number(t)}]) IN
       /\ timeline' = [timeline EXCEPT ![t] = @ \o rows]
       /\ flush' = [flush EXCEPT ![t].committed = TRUE, ![t].effects = @ \o rows]
       /\ UNCHANGED <<queue, timer, failures>>
    \/ /\ timeline' = [timeline EXCEPT ![t] = @ \o before]
       /\ Faulty
       /\ \/ /\ flush' = [flush EXCEPT ![t].at = @ + 1, ![t].effects = @ \o before]
             /\ refused' = refused \cup {<<t, Number(t)>>}
             /\ UNCHANGED <<queue, timer, reported>>
          \/ Abort(t)

FirstOfRun(t) ==
    /\ state[t].count = 0 /\ Written(t, <<>>)
    /\ UNCHANGED runs

\* appendToolEvent refuses an event whose run has no Matrix row or misses one.
Appendable(t) ==
    /\ state[t].first # 0
    /\ Len(runs[<<t, state[t].first>>].kept) + 1 = state[t].count

NextOfRun(t) ==
    /\ state[t].count > 0
    /\ \/ /\ Appendable(t)
          /\ runs' = [runs EXCEPT ![<<t, state[t].first>>].kept = Append(@, Number(t))]
          /\ PassesOver(t) /\ UNCHANGED faults
       \/ Abort(t) /\ UNCHANGED runs /\ (IF Appendable(t) THEN Faulty ELSE UNCHANGED faults)
    /\ UNCHANGED timeline

WriteTool(t) ==
    /\ Writes(t) /\ Kind(t) \in Tools
    /\ state' = [state EXCEPT ![t].count = @ + 1]
    /\ (FirstOfRun(t) \/ NextOfRun(t))
    /\ UNCHANGED <<emitted, deltas, past, notes>>

WriteDelta(t) ==
    /\ Writes(t) /\ Kind(t) = "delta"
    /\ deltas' = [deltas EXCEPT ![t] = @ \cup {Number(t)}]
    /\ PassesOver(t)
    /\ UNCHANGED <<emitted, tools, timeline, faults, past, notes>>

WriteRow(t) ==
    /\ Writes(t) /\ Kind(t) \in {"text", "note"}
    /\ Written(t, <<>>)
    /\ UNCHANGED <<emitted, tools, deltas, past, notes>>

Aggregate(t) == <<[n |-> Number(t), kind |-> "text", parts |-> deltas[t]]>>

\* flushClaudeStreamedAssistantDeltaOnCompletion and the completion's own row;
\* what is left of the deltas is dropped when the turn did not succeed.
WriteCompletion(t) ==
    /\ Writes(t) /\ Kind(t) \in Completions
    /\ \/ /\ Written(t, IF Kind(t) = "ok" /\ deltas[t] # {} THEN Aggregate(t) ELSE <<>>)
          /\ deltas' = [deltas EXCEPT ![t] = {}]
       \/ /\ Kind(t) = "ok" /\ deltas[t] # {} /\ Faulty /\ Abort(t)
          /\ UNCHANGED <<deltas, timeline>>
    /\ UNCHANGED <<emitted, tools, past, notes>>

Wrote(t) == Flushing(t) /\ flush[t].committed

\* registerToolRun
Registered(r) ==
    [q \in DOMAIN runs \cup {r} |-> IF q = r THEN [kept |-> <<>>, open |-> TRUE] ELSE runs[q]]

\* The state may have been reset during the await.
ToolWritten(t) ==
    /\ Wrote(t) /\ Kind(t) \in Tools /\ PassesOver(t)
    /\ runs' = Registered(<<t, Number(t)>>)
    /\ state' = [state EXCEPT ![t] = IF @ = NoState THEN @
                                     ELSE [@ EXCEPT !.first = Number(t), !.ref = TRUE]]
    /\ UNCHANGED <<emitted, deltas, timeline, faults, past, notes>>

\* Fault: only a completion ends the tool runs.
ResetsLate(t) == Kind(t) \in Completions

Resets(t) == TRUE

\* Fault: a text keeps the deltas that came before it.
ClearsNot(t) == FALSE

Clears(t) == Kind(t) = "text"

\* routeCP82ResetToolRunState: the runs of every turn of the session end.
RowWritten(t) ==
    /\ Wrote(t) /\ Kind(t) \notin Tools /\ PassesOver(t)
    /\ deltas' = IF Clears(t) THEN [deltas EXCEPT ![t] = {}] ELSE deltas
    /\ IF Resets(t)
       THEN /\ runs' = [r \in DOMAIN runs |->
                           IF state[r[1]].ref /\ state[r[1]].first = r[2]
                           THEN [runs[r] EXCEPT !.open = FALSE] ELSE runs[r]]
            /\ state' = [u \in Turns |-> NoState]
       ELSE UNCHANGED tools
    /\ UNCHANGED <<emitted, timeline, faults, past, notes>>

-----------------------------------------------------------------------------
(* The end of a batch: runRouteCMatrixStorageWriteBatch *)

AllWritten(t) == Flushing(t) /\ flush[t].at > Len(flush[t].events)

\* A deferred side effect: dispatchCommittedMatrixEvent.
Announce(t) ==
    /\ AllWritten(t) /\ flush[t].effects # <<>>
    /\ LET r == Head(flush[t].effects) IN Announced([turn |-> t, n |-> r.n, kind |-> r.kind])
    /\ flush' = [flush EXCEPT ![t].effects = Tail(@)]
    /\ UNCHANGED <<emitted, queue, timer, tools, deltas, timeline, failures, past>>

AnnounceThrows(t) ==
    /\ AllWritten(t) /\ flush[t].effects # <<>> /\ Faulty /\ Abort(t)
    /\ UNCHANGED <<emitted, tools, deltas, timeline, past, notes>>

Finish(t) ==
    /\ AllWritten(t) /\ flush[t].effects = <<>> /\ EndFlush(t)
    /\ UNCHANGED <<emitted, tools, deltas, timeline, failures, past, notes>>

\* The Host starts again: closeInterruptedRunsAfterRestart.
Restart ==
    /\ restarts < MaxRestarts /\ restarts' = restarts + 1
    /\ dead' = {t \in Turns : emitted[t] # <<>>}
    /\ queue' = [t \in Turns |-> <<>>] /\ timer' = {} /\ flush' = [t \in Turns |-> Idle]
    /\ state' = [t \in Turns |-> NoState] /\ deltas' = [t \in Turns |-> {}]
    /\ runs' = [r \in DOMAIN runs |-> [runs[r] EXCEPT !.open = FALSE]]
    /\ NotesForgotten
    /\ UNCHANGED <<emitted, timeline, failures>>

-----------------------------------------------------------------------------
Init ==
    /\ emitted = [t \in Turns |-> <<>>]
    /\ queue = [t \in Turns |-> <<>>] /\ timer = {} /\ flush = [t \in Turns |-> Idle]
    /\ state = [t \in Turns |-> NoState] /\ runs = <<>>
    /\ deltas = [t \in Turns |-> {}] /\ timeline = [t \in Turns |-> <<>>]
    /\ reported = {} /\ refused = {} /\ dead = {} /\ faults = 0 /\ restarts = 0
    /\ NothingAnnounced

Write(t) == WriteTool(t) \/ WriteDelta(t) \/ WriteRow(t) \/ WriteCompletion(t)
AfterWrite(t) == ToolWritten(t) \/ RowWritten(t)
EndOfBatch(t) == Announce(t) \/ AnnounceThrows(t) \/ Finish(t)

Next ==
    \/ \E t \in Turns : (\E k \in Kinds : Emit(t, k)) \/ TimerFires(t)
                        \/ Write(t) \/ AfterWrite(t) \/ EndOfBatch(t)
    \/ Restart

\* Timers fire, writes and posts return: the storage is in the process and a
\* post to the Cloud is given up by fetch.
Fairness ==
    \A t \in Turns : /\ WF_vars(TimerFires(t)) /\ WF_vars(Write(t))
                     /\ WF_vars(AfterWrite(t)) /\ WF_vars(EndOfBatch(t))

Spec == Init /\ [][Next]_vars
FairSpec == Spec /\ Fairness

-----------------------------------------------------------------------------
(* Properties *)

Rising(s) == \A i, j \in DOMAIN s : i < j => s[i] < s[j]
Rows(t, kinds) == {timeline[t][i].n : i \in {j \in DOMAIN timeline[t] : timeline[t][j].kind \in kinds}}
RunsOf(t) == {r \in DOMAIN runs : r[1] = t}
Kept(t) == UNION {ToSet(runs[r].kept) : r \in RunsOf(t)}
Reported(t) == {n \in DOMAIN emitted[t] : Event(t, n) \in reported}

\* An event of a turn is written once, as a row or as a continuation, and in the
\* order the provider emitted it, through batches, timers and failed batches
\* (flushRouteCP135SemanticBridgeQueue).
InOrder ==
    \A t \in Turns :
        /\ Rising([i \in DOMAIN timeline[t] |->
                      2 * timeline[t][i].n + (IF timeline[t][i].kind \in Completions THEN 1 ELSE 0)])
        /\ \A r \in RunsOf(t) : Rising(<<r[2]>> \o runs[r].kept)
        /\ Rows(t, Tools) \cap Kept(t) = {}

\* The continuations of a run follow its Matrix row with nothing of the turn
\* between them that is a row of its own: the client unfolds them there
\* (routeCP82ResetToolRunState, appendToolEvent).
RunsAreConsecutive ==
    \A t \in Turns : \A r \in RunsOf(t) :
        /\ r[2] \in Rows(t, Tools)
        /\ \A n \in ToSet(runs[r].kept) : ~ \E m \in Rows(t, Kinds) : r[2] < m /\ m < n

\* The text of a turn that streams is whole: the row written at its completion
\* has every delta since the last text, or a failure of the bridge was broadcast
\* (flushClaudeStreamedAssistantDeltaOnCompletion).
TextIsWhole ==
    \A t \in Turns : \A i \in DOMAIN timeline[t] :
        LET row == timeline[t][i]
            texts == {m \in Rows(t, {"text"}) : m < row.n}
            due == {n \in DOMAIN emitted[t] :
                       n < row.n /\ emitted[t][n] = "delta" /\ \A m \in texts : m < n}
        IN  row.kind = "text" /\ emitted[t][row.n] = "ok" =>
                row.parts = due \/ (row.parts \subseteq due /\ Reported(t) # {})

\* A notification is about a turn whose success is in the room, about its last
\* output unless a failure was broadcast for it, and there is one for a turn
\* (releaseProviderTurnCompletion).
NotificationIsDue ==
    \A r \in released : LET t == r.event.turn IN
        /\ Rows(t, {"ok"}) # {} /\ r.event.n \in Rows(t, Notifiable)
        /\ \A n \in Rows(t, Notifiable) : n <= r.event.n \/ n \in Reported(t)
        /\ \A q \in released : q.event.turn = t => q = r

Settled(t, n) ==
    n \in Rows(t, Kinds) \cup Kept(t) \cup Reported(t) \/ <<t, n>> \in refused

\* Every event the provider emits but a delta is written, kept, refused or
\* reported, unless the Host stops: a queue is never stuck, whatever was queued
\* while it was flushed (flushRouteCP135SemanticBridgeQueue).  A delta is not
\* settled for itself: see TextIsWhole.
EventSettles ==
    \A t \in Turns : \A n \in 1 .. MaxEvents :
        (n \in DOMAIN emitted[t] /\ emitted[t][n] # "delta")
            ~> (Settled(t, n) \/ restarts > 0)

\* A turn with an output that succeeds is announced once its completion is
\* committed, unless a batch of it failed or the Host stops: as long as the maps
\* do not overflow.
FinishedTurnIsAnnounced ==
    \A t \in Turns :
        Rows(t, {"ok"}) # {} /\ Rows(t, Notifiable) # {}
            ~> \/ \E r \in released : r.event.turn = t
               \/ Reported(t) # {} \/ restarts > 0
=============================================================================
