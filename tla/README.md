# OysterunCore in TLA+

OysterunCore runs coding agents (Claude Code over ACP, Codex over its
app-server) on a person's own machine. A Node process, the *Host*, keeps the
agents' sessions, stores their conversation as Matrix rooms, serves a web chat
and a phone app, runs schedules, and updates itself. This directory holds TLA+
models of the parts of the Host where several things happen at once, the TLC
configurations that check them on small instances, and TLAPS proofs of the
properties that should hold for every instance.

The Host has no automated tests, so the models are also the only place where
the interleavings below are exercised. The code is under `src/host-service/`;
line numbers in `PROJECT.json` and below refer to it.

## The system

| Part | Code | State | Operations | Hard about it |
|---|---|---|---|---|
| Session outbox | `session-manager.mjs` | per session: outbox, active message, delivery state, progress flag | enqueue, drain, cancel, retry, skip, interrupt; handlers of provider events, errors, exit; watchdog | drains run inside handlers; late events; a message may be ended from five sides |
| Intake | `matrix-event-correlator.mjs`, `routec-host2-intake-state.mjs` | a record per Matrix message | receipt, claim, cancel, start, fail | claim and withdrawal race; redelivery and retry |
| Claude adapter | `adapters/claude-code-adapter.mjs` | bootstrap, prompt queue, open prompt | send, prompt, cancel, stop | bootstrap races; two events from one callback |
| Codex adapter | `adapters/codex-app-server-adapter.mjs` | thread, message queue, active turn, approvals | send, turn/start, turn/interrupt, answers | answers are microtasks, notifications are not |
| Matrix storage | `routec-matrix-storage-adapter.mjs`, `routec-matrix-sqlite-store.mjs` | event stream, batches, waiters, tokens | write, batch, sync, long poll | lost wake-ups, tokens that skip |
| Semantic bridge | `server.mjs` 3300-3850, `large-tool-call-store.mjs`, `matrix-facade.mjs` | queue per turn, tool runs, collected deltas | emit, flush, write, continue a run, aggregate | concurrent flushes; partial batches |
| Telegram bridge | `telegram-bridge.mjs`, `matrix-transcript-read-adapter.mjs` | per session: update offset, transcript position, current turn, typing indicator | poll, handle an update, flush, tick | two unlocked loops over one state; an offset that moves late and a position that moves early |
| Completion notifications | `apns-complete-message-dispatcher.mjs`, `complete-message-notification-predicate.mjs` | last output per turn, ended turns, handled keys | a committed event | order of side effects; bounded maps |
| Scheduler | `scheduler-service.mjs`, `-store`, `-runner`, `-rule-model`, `portable-scheduler-definitions.mjs` | definitions file, runtime rows, runs, cache | tick, claim, record, edit, test run | edits and restarts during long runs |
| Host update and restart | `server.mjs` 6100-7290, `host-restart-login-gate.mjs`, `restart-restore-state.mjs` | operation, gate and transaction files | request, hand-off, install, claim, restart, poll, boot | three processes share three files |

How they interact. A user's message comes in as a Matrix event: the storage
commits it, the correlator opens an intake record, the session manager enqueues
it, and the drain claims the record and calls the adapter. The adapter's events
run the session manager's handlers synchronously and go through the semantic
bridge into the room, from where sleeping `/sync` requests are woken and the
phone is notified. The scheduler talks to providers of its own. Update and
restart stop the whole process and come back through the boot sequence. The
Telegram bridge is a client of the same rooms: it commits a chat's messages as a
user would and reads the answers from the transcript.
`PROJECT.json` lists every other part with the reason it is not modelled.

## Modules

| Module | Models | Checked by |
|---|---|---|
| `SessionOutbox` | outbox and intake; the provider is open: any event may come at any time | `MCSessionOutbox` |
| `DeliveryPromise` | abstract: a message is accepted, then withdrawn or delivered, once | as `KeepsPromise` |
| `ClaudeDelivery` | `SessionOutbox` closed with the Claude adapter | `MCClaudeDelivery` |
| `CodexDelivery` | `SessionOutbox` closed with the Codex adapter | `MCCodexDelivery` |
| `RoomSync` | event stream, batches, long polls, tokens | `MCRoomSync` |
| `SemanticBridge` | queues, batches, tool runs, deltas; EXTENDS `CompleteNotification` | `MCSemanticBridge` |
| `TelegramBridge` | one listener: polling, handling, flushing, typing | `MCTelegramBridge` |
| `CompleteNotification` | which event is announced | through `SemanticBridge` |
| `Scheduler` | schedules, runs, restarts | `MCScheduler` |
| `HostUpdate` | update, restart, login gate | `MCHostUpdate` |
| `*Proofs` | theorems of the module they are named after | `tlapm` |

Conventions. Node runs one callback at a time, so a handler up to its next
`await` is one action, including every call it makes; a handler with an `await`
is several actions, and everything else may come between them. Names follow the
code where TLA+ allows it. Time is never measured: a timer fires at any moment
it is armed. Variables named *history* in their comment are not in the code;
properties read them. Definitions whose comment begins with *Fault* are what a
plausible bug would make of the definition after them; they belong to no
specification and document what each property would notice.

### SessionOutbox

`Drain` is the core of the module: the operator that ends most handlers, as
`drainOutbox` does, with the refusals it skips over and at most one hand-off.
Actions are the public methods (`Enqueue`, `CancelOutboxMessage`,
`RetryOutboxMessage`, `SkipOutboxMessage`, `InterruptSession`), the handlers of
provider events (`TurnStarted`, `ProviderOutput`, `TurnCompleted`, `AuthError`,
`AdapterError`, `ProviderExit`), the watchdog and the start of a session.
`intake` is the state of each Matrix message's record; messages from a
WebSocket have none and may be delivered again after a retry. The record
outlives the session but not the Host process; only restarts of a session are
modelled. Delivery states the code defines but never enters ("restarting",
"stalled"), and branches no adapter reaches, are left out.

Abstracted: the three kinds of output stand for what the handlers tell apart (a
final event, a tool event, anything else). `AuthError` needs an active Matrix
message, because the code looks for one.

### ClaudeDelivery and CodexDelivery

Both add the adapter's variables and make every step an outbox step together
with its effect on the adapter (`Feed`). Since adapters emit events
synchronously and the outbox may hand over the next message before the event
returns, `Feed` reads the hand-off of the same step (`JustHanded`). Where a
callback emits two events in a row, `due` holds the second; nothing else can
run between them.

`CodexDelivery` splits the adapter's drain at its awaits (`step`): of
`ensureThreadStarted` ("thread" when it asks for one, "begun" when it returns at
once), of the answer to `turn/start` ("turn"), and of the microtask behind an
answer ("answered", "rejected"). A microtask runs before any timer or user
action, but `consumeStdout` (903) handles every line of a chunk first, and
nothing says how app-server's lines are cut into chunks: so any line may come
before any microtask (`Line`). This permits slightly more than the code, which
runs the microtask of a user's own call before it reads on. A turn whose end
comes before the rest of its own answer is over "early"; the adapter makes it
active when it is over already and stalls (`Stalled`, see Findings). The
app-server's order of lines about a turn (answer, `turn/started`,
`turn/completed`) is external. A turn asks for up to
`MaxApprovals` approvals; one the Host gives up after an approval, before its
`turn/started`, is marked `cut` as history: app-server starts it all the same.
Such a turn, or a compaction, *strays* (`Stray`): its `turn/started` comes when
the adapter no longer waits for it. An approval acknowledged and then never followed through is folded into
`TurnEndsUnderApproval`; answering one while the session stops, and rejections
that arrive for a session that is gone, are left out.

### RoomSync

`stream` is the table of events by `stream_seq`. A batch makes its events
readable one by one and wakes only in `WakeBatch`; a write outside a batch
wakes at once. `Sync` is a poll up to its answer or its registration,
`Register` the three ways that ends (joining a waiter, opening one, being
refused). An answer may be lost on its way (`lost`), which leaves the client at
its old token, and may be cut by the transfer budget (`k`). A failed batch
leaves its events committed and its sleepers asleep until their timers; the
`dropped` history excuses exactly these.

### SemanticBridge and CompleteNotification

One session and one room. A write is one step to its `await` and one after it;
`flushAfterCurrent`, which only shortens a delay, is not kept. A write commits,
is refused, or throws; the last two are counted as faults. The text collected
for a turn and the row of its completion are committed in one step.
`Announce` runs the deferred side effects of a batch one after the other.
Whether a session is muted may differ each time it is asked. Outputs after the
completion of their turn do not occur here, though the code has a branch for
them, which is kept.

### TelegramBridge

One listener of one session, bound to one chat. Updates and the messages they
become are named by their number; the transcript (`log`) is the sequence of
user messages, assistant messages and completions of the room. `poll` is the
program counter of `pollSession`, `acting` counts the ticks that wait in
`sendTypingAction`, and `flush` holds, for each of the two loops, the await
`flushOutboundTranscript` is in: the sending of a part of a message (`at` and
`part`, of a batch read up to `upto`), as HTML or again as plain text, or the
closing of a turn. A call that throws may or may not have reached the chat
(`HtmlFails`, `FlushFails`); what the chat shows is `sent`, part by part, with
"lost" for a part whose call threw after it was shown. A call that has failed is
assumed to show nothing afterwards. `Scan` is the loop between two such
awaits, with the ends of `FlushEnds`. `Restarted` is a new Host:
`primeUpdateOffset` skips what Telegram has, and the position is the end of the
transcript; the listener is there at once, as nothing it does can come earlier.
When the plain call fails too, `FlushFails` separates the loops: a throw in a
poll is caught by its timer, one in a tick is not and ends the process.

Every provider event carries the user event its turn began with, so the
branches for events without a name, and the suppression of echoes, decide
nothing and are left out, as are terminal confirmations, the tool overview, the
choice of the listening session and changes of the configuration while it runs.

### Scheduler

A rule is the set of times it names, a file is the definition of each schedule
or its absence. `EditFile` is any other program; `Define` and `Delete` are the
dashboard. The drain is spread over `Tick`, which lists and claims, and
`FinishRun`, which records and claims the next. How a run ended, dispatched or
failed, decides nothing afterwards and is one status. `View` is the code's
`definitionToSchedule` with the next run it computes for a row that has none.
Between the claimed row and the provider's run the drain and a test run make
the run's mail capability outside their `try`; when that throws (`Denied`,
history `denied`) the row stays claimed and the drain is over. `Stop` may come
at any moment, prepared or not; `Boot` consumes the snapshot
before the index knows any project, in the code's order.

### HostUpdate

`op`, `gate` and `tx` are the three files, `runner` the program counter of each
request's detached shell, `watched` the shells whose exit this Host would hear
of. The installer is not part of the repository: it may leave the installed
version as it was. Every status the code distinguishes is kept; version
comparison is one Boolean (`disk`).

## Runs

| Run | Instance | States | Shows |
|---|---|---|---|
| `outbox` | 2 Matrix messages, 1 WebSocket message, 2 sessions, 3 hand-offs, Claude's rules | 257 000 | types; at most one hand-off; withdrawal; no lost wake-up; completed means answered; refinement of `DeliveryPromise` |
| `outbox_codex` | the same messages, 1 session, Codex' rules | 113 000 | hand-offs in order, also after a retry; what ended stays ended |
| `claude` | the same messages, 1 session, fair | 72 000 | order inside the adapter; every queued message is served, every active one makes room, every interrupt ends |
| `codex_turns` | 3 Matrix messages, 1 session, 3 hand-offs, 1 approval per turn | 1 994 000 | `turn/started` is always allowed; the adapter stalls only behind a turn that was over early |
| `codex_compact` | 1 Matrix message, `/compact`, 2 hand-offs, 2 approvals per turn, fair | 119 000 | order, one turn at a time; messages are served and make room |
| `room` | 1 room, 2 clients, 2 concurrent batches, 2 events, 1 waiter per room, limit 1, fair | 230 000 | honest tokens, sleepers stay listed, none is forgotten or woken for nothing; news arrives without the timer |
| `bridge` | 2 turns, 3 events of 5 kinds, batches of 2, 1 fault, 1 restart, fair | 161 000 | order, tool runs, whole texts, due notifications; every event settles, every finished turn is announced |
| `telegram` | 2 updates, 1 text of 2 parts per answer, 2 faults, 1 restart, fair | 242 000 | no update lost to a throwing handler; the chat in order, a part twice only after a lost answer; the typing indicator has a driver; answers arrive |
| `scheduler` | 2 schedules, 2 rules, a clock of 2, 2 runs, 1 restart, 1 edit, 1 denied claim, fair | 302 000 | no catch-up, claimed runs have an owner, honest cache, due is run |
| `update` | 2 updates, 1 restart, 1 unplanned stop, fair | 56 000 | a gate has an owner, is opened by its own, and opens |
| `scheduler_restart` | 1 schedule, 1 restart | | *violated*: see Findings |
| `update_skip` | 1 update, fair | | *violated*: see Findings |

Why these bounds are enough. Each hazard needs at most two rivals and one that
is overtaken: a message behind another (two messages, a third for what a retry
overtakes), an event behind the limit and one inside it (two events, limit
one), a batch that overlaps a batch, a request that joins and one that leaves,
an answer that is being sent and the message that replaces its turn, a part
whose answer is lost and the part behind it. For `NoCatchUp` the clock reaches
2 and a rule names every time up to 3: a schedule is run twice in order, or its
second time is missed before the tick that runs the first (and must be skipped),
or while that run lasts (and is run late, once). Only one of the schedules can
change its rule: the other is the rival on the timer, and theorems cover the rest.
Counters that would grow for ever are bounded in guards, and named: sessions,
hand-offs (bounds only the user's retries), approvals of a turn, events, faults, restarts, runs,
edits, denied claims, the clock. The watch on the bounds is that every property has a faulty
variant of a definition that TLC refutes within the same bounds. In `bridge` the
notification tables hold more keys than the instance makes, so the eviction of
old ones (`Evicted`) never drops a key there. Symmetry is used for
interchangeable messages, and in safety runs only (`outbox`, `outbox_codex`,
`codex_turns`; their action properties treat all messages alike). Deadlock is not
checked where a bounded instance really ends (all messages served, all events
emitted); in the scheduler, room, update and Telegram models it is checked.

Fairness, and why the code justifies it:

- *Claude*: the bootstrap has a 15-second timeout; the rest of a callback
  always runs; Claude answers a prompt in the end (weak fairness of the answer
  is an assumption about the agent, as the Host has no other way to know); a
  process told to stop exits, being killed otherwise. Nothing is assumed about
  users, output, or the watchdog.
- *Codex*: microtasks run; requests are answered; turns start and end, except
  while an approval waits for the user; an answered approval is acknowledged or
  runs into its 30 seconds.
- *RoomSync*: a batch whose callbacks return goes on. Timers are *not* assumed
  fair: the point is that news arrives without them.
- *SemanticBridge*: timers fire, and writes return, since SQLite is in the
  process and `fetch` gives up.
- *TelegramBridge*: timers fire, and calls to Telegram, the facade and the
  session return or throw. The user and the provider owe nothing.
- *Scheduler*: the timer is armed again in every `finally`, and provider runs
  have a time limit. Edits, tests and restarts are not fair. A claim that throws
  aborts its drain; the model bounds such claims (`MaxDenied`), for one that
  throws at every tick starves the schedules listed after its own.
- *HostUpdate*: the hand-off timer fires, a shell that is not killed goes on,
  and something starts a stopped Host. Polls are not fair.

Liveness properties say what excuses them. For an outbox the session may end.
For Telegram an answer may lose its place (`cut`), or a part of it may fail as
HTML and as plain text, after which the code does not repeat it.
For Codex, `Excused` also names a failed initialization, an approval the user
does not answer, a turn that was over early (`Stalled`) and an active message
the adapter has dropped; the last two are behaviour of the code, not of the
model (see below).

## Proofs

All theorems hold for every value of the constants that satisfies the
assumptions in the modules. TLAPS 1.4.5 checks them with Z3, Zenon and LS4.

- `SessionOutboxProofs`, in this order.
  - Types; `HandedAtMostOnce` and `WithdrawnIsWithheld`. At-most-once is not
    inductive: the step that hands a message over must know that an earlier
    hand-off would have left its mark. `HandOffInv` adds `HandedIsTaken`, that a
    handed-over Matrix message's record is starting or started. Every action is
    first shown to be one of three kinds (`HandOffStep`: nothing changes, the
    intake of a message changes, one message is handed over); the invariant is
    then proved for the three.
  - `HandedInOrder`. The strengthening `Ordered` is stated over the outbox,
    active message and next sequence number a handler is about to drain with,
    because handlers change these before they drain: nothing handed over in this
    session is ahead of a queued or the active message, also after a retry has
    put one back.
  - `OutboxKeepsPromise`, the refinement of `DeliveryPromise` under the mapping
    `Fate`, `Log`. Each of the three kinds of step is a step of the promise or a
    stutter.
  - `CompletedMeansAnswered` and the action property `EndIsFinal`, together: each
    handler is shown to keep what has ended (`EndKept`), for which `EndInv` adds
    that the active message is in flight (`ActiveInFlight`); the watchdog and a
    late completion can then only end what has not ended.
  - `NoWakeupIsLost`, with `NeverStarting`: a refused interrupt resets the
    delivery to ready without a drain, which is harmless because the delivery of
    Claude was ready before.
- `ClaudeDeliveryProofs` and `CodexDeliveryProofs` begin with the refinement of
  the open outbox: every step of the closed system is a step of the outbox or
  leaves it alone (`ClaudeImplementsOutbox`, `CodexImplementsOutbox`), so the
  theorems above carry over (`ClaudeDelivers`, `CodexDelivers`). Both then relate
  what the adapter holds to the history of hand-offs (`Follows`).
  - `PromptsFollowHandOffs` (Claude): the open prompt and the prompt queue are
    the last hand-offs of this session.
  - `TurnsFollowHandOffs` (Codex): the same for the queue and the turns, where
    the queue's head has a turn already while its request is under way.
  - `OneTurn`, `StartIsAlwaysAllowed`, `AdapterIsAwake` (Codex). Because most
    actions end in the drain, each is first reduced to a change of the turns
    followed by a drain from what it leaves (`Handler`, `TurnsStep`, `WakeStep`);
    the invariants are operators of that intermediate state and are proved once
    for the six kinds of `TurnsStep` and once for the drain. `Structure` is what
    all three need: requests are about the head of the queue and the last turn.
    `OneOpen` says that an open turn that does not stray is the last one and known
    to the adapter; `Announced`, that a message whose record is started belongs to
    the last turn, which is active, or has just ended under an approval;
    `Waiting`, that whatever the drain waits for is still to come, unless the
    active turn was over early. The step of the drain that is no handler
    (`DrainBegun`) is dealt with apart. All three hold however lines share
    chunks; `AdapterIsAwake` says that the one stall there is (`Stalled`) is the
    only one.
- `RoomSyncProofs`: types; `HonestTokens` (with: a token never exceeds the
  stream's next number); `NobodyForgotten` and `SleepersListed`, which are
  inductive only together (`Attended`): a waiter that is not listed cannot be
  woken. The action property `WakesBringNews` needs `WaitsAhead` besides: nobody
  waits for an event before its token, and a batch wakes for what it committed.
- `TelegramBridgeProofs`: `OffsetIsHonest`, `SentInOrder` and
  `TypingIsDriven`, from one invariant in four parts. `Polling` adds that an
  update that waits for the typing indicator has been given to the session;
  `Ordered`, that the part a flush waits for comes next after everything the
  chat shows, or once more where the HTML call's answer was lost (`Fits`), and
  that only one loop flushes, which is what the latch `flushingOutbound` is
  for; `Driven`, that a flush of the poll holds the poll. `ScanMoves` says once
  where a flush may stop, for both loops.
- `SchedulerProofs`: `NoCatchUp`, `ClaimedIsInFlight` and `CacheIsCurrent`, for
  any schedules and rules. `MovedOn` carries the first: for every run whose end
  was recorded, the schedule's row, if it is ever listed again, names a later
  time, and so do the views the drain still holds; `Draining` adds that the
  drain runs a schedule once and started after every earlier run. A claim that
  threw has not moved its schedule on and is exempt, like a lost end; that such
  a claim has no owner either is the exception of `ClaimedIsInFlight`. A row that is
  made anew begins at the present (`Fresh`), which is why edits do not matter.
- `HostUpdateProofs`: types; `GateIsOwned`, through `Owned`: while the Host is
  up, the request the gate is closed for has its timer in this process or a
  shell this process listens to. `GateOpensForItsOwn` is the action property.

- `SemanticBridgeProofs`: `InOrder`, `RunsAreConsecutive`, `TextIsWhole` and
  `NotificationIsDue`, with `CompleteNotification` included, from one invariant
  `Inv`. None of the four is inductive, for none says where in its turn the
  bridge stands. `Done` is that position, the number of events dealt with, and
  `Shape` that the events after it are those of the batch and then those of the
  queue. Every step but the restart moves one turn: its position, its rows and
  the side effects that still wait (`Moves`, or `Goes` for a side effect that
  runs), its deltas (`Gathered`) and its tool runs (`Threads`); a lemma per
  action shows this and nothing else. What is owed to the position is then
  shown once for any move. `Timely`: rows lie before the position in
  the order of `Rank`, and the waiting side effects are those of the last rows.
  `Rooted`, `RunsInOrder`: a run can go on only while no row came after it, which
  is what the reset after every row is for. `Collected`: what is held for a turn
  is every delta since its last text, or a part of it once a failure was
  broadcast. `Noted`: a kept candidate is the last output but for rows whose side
  effect is to come or was reported; a turn that has a terminal mark or a
  notification has its completion in the room and nothing left to announce,
  which is why a turn is not announced twice even when the map of handled keys
  overflows. The restart is shown to keep `Inv` by itself.

Every invariant and action property of a passing run is stated by a theorem.
Only model-checked is liveness under fairness, which TLAPS cannot do: the eleven
properties of the runs that say something eventually happens.

## Findings

Two runs show the code departing from what its own texts say.

- `scheduler_restart`. A planned restart snapshots the runs in flight and the
  next Host should mark them ("run was interrupted and not replayed",
  `scheduler-service.mjs:747`) under the policy
  "mark_interrupted_no_duplicate_dispatch" (721). The snapshot is consumed
  before the project index has been scanned (`server.mjs:19385`), so no
  schedule is known and no run is marked; and nothing advances the schedule, so
  the same occurrence is dispatched again. TLC needs seven steps.
- `update_skip`. The dashboard's poll reads the version from the disk and ends
  the operation as soon as the package is installed. If it comes between two
  commands of the shell, the shell's claim is refused, the restart is skipped
  with exit status 0, and the login gate stays closed: sign-in answers "Please
  wait until the Host is ready" (`server.mjs:11577`) until the Host is restarted
  by hand.

Seen with TLC while modelling, and stated here because no run keeps them:

- Two update requests pass the check for a running operation while both wait
  for the registry (`server.mjs:7021`), and two shells install and restart.
- After a restart that did not bring the target version the operation stays
  running: the branch that would end it (`server.mjs:6125`) looks for a status
  the shell has replaced (6642).
- A write that throws drops the rest of its batch and reports the committed
  events of the batch as not committed (`server.mjs:3726-3730`).
- A message the Codex adapter dropped after a refused turn is turned from
  ambiguous to running by any later output (`session-manager.mjs:3258`), and
  then neither retry nor skip is offered and nothing ends it.
- A turn the Host has given up after an approval goes on in app-server and asks
  for a second one. Its answer is booked to the turn that is active by then, and
  when it times out too the Host gives that one up before its `turn/started`.
  The third message is active when that `turn/started` comes; its own then finds
  its record started already, and the correlator throws and ends the Host
  (`codex-app-server-adapter.mjs:3045`, `matrix-event-correlator.mjs:970`).
- A retry the Host offers for an ambiguous Matrix message never delivers it: its
  record is claimed, and the drain ends it as failed (`session-manager.mjs:2898`).
- A claimed row, "running" with `live_run_row: true`
  (`scheduler-service.mjs:1538`, 1548), is stored before
  `createRunScopedMailCapability`, which can throw, and the `try` begins behind
  it (1570; test run: 1769, 1792, 1810). Then the row shows for ever a live run
  that nobody runs, and the schedule, which has not moved on, is claimed again
  for the same time at the next tick, though a failed dispatch is promised "no
  spin retry" (1721). Without `denied` in `ClaimedIsInFlight` and `NoCatchUp` TLC
  finds both within a few steps.
- The end of a test run writes back the next run it read before its provider
  was awaited, over what a scheduled run recorded meanwhile
  (`scheduler-service.mjs:1811`).
- The closing of a Telegram turn waits for the tool overview and then clears
  the turn that is current (`telegram-bridge.mjs:1653`); if a message began a
  new turn meanwhile, that turn is cleared and its answer never sent.
- A tick of the typing indicator is started with `void` (1832). A flush in it
  that throws is an unhandled rejection, and the Host exits (`server.mjs:19538`).
- A second Telegram message replaces the current turn (1393): what is left of the
  first answer is not sent.
- The transcript position moves before a message is sent (1703), so a message
  Telegram refuses is not sent again.
- `sendTelegramText` repeats every failed call as plain text, with nothing that
  tells Telegram it is the same message (`telegram-bridge.mjs:1961`): a part
  whose answer was lost is in the chat twice.
- When `turn/completed` comes in the chunk that answers its `turn/start`,
  `drainPendingMessages` makes the turn active after it is over
  (`codex-app-server-adapter.mjs:3511`); nothing clears it, and the messages
  behind it wait for the exit of the process. Every Codex property but the
  liveness ones and `AdapterNotStalled`, which name this stall, holds without an
  exception for it.

## Not modelled

Parts with one step per request and no protocol: the Matrix HTTP surface beyond
the paths above, credentials and authority, configuration, providers' registry,
transcripts, mail, devices. Parts outside the process: the web client, tunnels,
terminals, the Cloud. Parts that are the same mechanism again: session loops,
which drain like schedules. Within modelled parts: what each component's note in
`PROJECT.json` lists, chiefly control requests other than Codex's approvals,
the loss of intake records with the Host process, payload sizes and the calendar
arithmetic of rules. Messages Telegram receives while the Host is down are
skipped on purpose (`primeUpdateOffset`), which the model keeps as the fate
"skipped".
