----------------------------- MODULE HostUpdate -----------------------------
(***************************************************************************)
(* Updating and restarting the Host from its own dashboard                 *)
(* (host-service/server.mjs, host-restart-login-gate.mjs,                  *)
(* restart-restore-state.mjs).  Three files outlive the process: the       *)
(* update operation, the login gate and the restart transaction.  The Host *)
(* hands off after ten seconds to a detached shell, which installs the     *)
(* package, claims the restart and restarts the Host, while the dashboard  *)
(* polls the operation and the Host can stop at any moment.                *)
(*                                                                         *)
(* The installer is not part of the repository: it may leave the installed *)
(* version as it was.                                                      *)
(***************************************************************************)
EXTENDS Naturals, FiniteSets

CONSTANTS
    Updates,   \* update requests
    Restarts,  \* requests of a plain restart
    None,
    MaxStops   \* bound: times the Host stops by itself

ASSUME HostUpdateAssumption ==
    /\ Updates \cap Restarts = {} /\ None \notin Updates \cup Restarts /\ MaxStops \in Nat

VARIABLES
    op,        \* the update operation file
    gate,      \* the login gate file
    tx,        \* the restart transaction file
    disk,      \* the installed package is the target version
    up,
    stops,
    checking,  \* update requests that wait for the registry
    timers,    \* requests whose handoff timer runs in the Host
    runner,    \* what each request's detached shell does next
    watched    \* shells whose exit the Host listens to

files == <<op, gate, tx>>
host == <<up, stops, checking, timers, watched>>
vars == <<files, disk, host, runner>>

Requests == Updates \cup Restarts

Op(r, status, running) == [id |-> r, status |-> status, running |-> running]
Gate(r, state) == [id |-> r, state |-> state]
Transaction(r, state) == [id |-> r, state |-> state, update |-> r \in Updates]

Used == checking \cup timers \cup {r \in Requests : runner[r] # "unborn"}

-----------------------------------------------------------------------------
(* The operation, as the dashboard sees it *)

\* The restart of this operation was consumed by a Host that came up.
Consumed(o) ==
    /\ o.running /\ o.status = "restart_scheduled"
    /\ tx.state = "consumed" /\ tx.id = o.id /\ tx.update

\* reconcileOysterunUpdateOperation: the version is read from the disk.
Reconciled ==
    IF op.id = None THEN op
    ELSE IF op.running /\ disk THEN Op(op.id, "complete", FALSE)
    ELSE IF Consumed(op) \/ (op.status = "complete" /\ ~disk)
         THEN Op(op.id, "mismatch", FALSE)
    ELSE op

Poll ==
    /\ up /\ op' = Reconciled
    /\ UNCHANGED <<gate, tx, disk, host, runner>>

-----------------------------------------------------------------------------
(* Requests *)

\* An update is refused while one runs; then the registry is asked.
RequestUpdate(r) ==
    /\ up /\ r \notin Used /\ op' = Reconciled /\ ~op'.running
    /\ checking' = checking \cup {r}
    /\ UNCHANGED <<gate, tx, disk, up, stops, timers, watched, runner>>

\* The registry answers: snapshot, operation, gate and timer, in one go.
ScheduleUpdate(r) ==
    /\ up /\ r \in checking /\ checking' = checking \ {r}
    /\ tx' = Transaction(r, "prepared")
    /\ op' = Op(r, "scheduled", TRUE)
    /\ gate' = Gate(r, "blocked")
    /\ timers' = timers \cup {r}
    /\ UNCHANGED <<disk, up, stops, watched, runner>>

\* It does not, there is nothing to install, or no restart command is found.
UpdateRefused(r) ==
    /\ up /\ r \in checking /\ checking' = checking \ {r}
    /\ \/ UNCHANGED <<op, tx>>
       \/ tx' = Transaction(r, "prepared") /\ op' = Op(r, "restart_failed", FALSE)
    /\ runner' = [runner EXCEPT ![r] = "done"]
    /\ UNCHANGED <<gate, disk, up, stops, timers, watched>>

RequestRestart(r) ==
    /\ up /\ r \notin Used
    /\ tx' = Transaction(r, "prepared")
    /\ gate' = Gate(r, "blocked")
    /\ timers' = timers \cup {r}
    /\ UNCHANGED <<op, disk, up, stops, checking, watched, runner>>

\* Fault: whoever fails opens the gate.
ReleasedAny(r) == [gate EXCEPT !.state = "released"]

\* releaseHostRestartLoginGate with the gate's id
Released(r) == IF gate.id = r THEN [gate EXCEPT !.state = "released"] ELSE gate

\* The handoff timer fires: the shell is spawned, or that fails.
Handoff(r) ==
    /\ up /\ r \in timers /\ timers' = timers \ {r}
    /\ \/ /\ runner' = [runner EXCEPT ![r] = IF r \in Updates THEN "start" ELSE "restart"]
          /\ watched' = watched \cup {r} /\ UNCHANGED gate
       \/ /\ runner' = [runner EXCEPT ![r] = "done"]
          /\ gate' = Released(r) /\ UNCHANGED watched
    /\ UNCHANGED <<op, tx, disk, up, stops, checking>>

-----------------------------------------------------------------------------
(* The detached shell *)

Goes(r, from, to) == runner[r] = from /\ runner' = [runner EXCEPT ![r] = to]

MarkInstalling(r) ==
    /\ Goes(r, "start", "install") /\ op' = Op(r, "installing", TRUE)
    /\ UNCHANGED <<gate, tx, disk, host>>

Install(r) ==
    /\ Goes(r, "install", "installed") /\ disk' \in {disk, TRUE}
    /\ UNCHANGED <<files, host>>

InstallFails(r) ==
    /\ Goes(r, "install", "done") /\ disk' \in {disk, TRUE}
    /\ op' = Op(r, "install_failed", FALSE) /\ gate' = Released(r)
    /\ UNCHANGED <<tx, host>>

MarkRestart(r) ==
    /\ Goes(r, "installed", "claim") /\ op' = Op(r, "restart_scheduled", TRUE)
    /\ UNCHANGED <<gate, tx, disk, host>>

Claimed(r) == op.id = r /\ op.status = "restart_scheduled"

Claim(r) ==
    /\ Claimed(r) /\ Goes(r, "claim", "restart")
    /\ op' = Op(r, "runner_started", TRUE)
    /\ UNCHANGED <<gate, tx, disk, host>>

\* The claim fails: the shell skips the restart and exits with 0.
Skip(r) ==
    /\ ~Claimed(r) /\ Goes(r, "claim", "skipped")
    /\ UNCHANGED <<files, disk, host>>

Down == up' = FALSE /\ checking' = {} /\ timers' = {} /\ watched' = {}

\* The Host is stopped by the shell.
StopHost(r) ==
    /\ Goes(r, "restart", "boot") /\ Down
    /\ UNCHANGED <<files, disk, stops>>

\* The restart command fails before or after it stopped the Host.
RestartFails(r) ==
    /\ \E from \in {"restart", "boot"} : Goes(r, from, "done")
    /\ IF r \in Updates
       THEN op' = Op(r, "restart_failed", FALSE) /\ gate' = Released(r)
       ELSE op' = op /\ gate' = IF r \in watched THEN Released(r) ELSE gate
    /\ UNCHANGED <<tx, disk, host>>

\* The shell is killed; a Host that spawned it hears of it.
ShellDies(r) ==
    /\ runner[r] \notin {"unborn", "done", "skipped"} /\ runner' = [runner EXCEPT ![r] = "done"]
    /\ gate' = IF r \in watched THEN Released(r) ELSE gate
    /\ UNCHANGED <<op, tx, disk, host>>

-----------------------------------------------------------------------------
(* The process *)

Stop ==
    /\ up /\ stops < MaxStops /\ stops' = stops + 1 /\ Down
    /\ UNCHANGED <<files, disk, runner>>

\* Fault: the Host listens without a word.
OpenedNot == gate

\* A Host that listens opens whatever gate it finds.
Opened == [gate EXCEPT !.state = "released"]

\* The shell, or the service manager, starts the Host: the transaction is
\* consumed and the gate opened.
Boot ==
    /\ ~up /\ up' = TRUE
    /\ tx' = [tx EXCEPT !.state = IF @ = "prepared" THEN "consumed" ELSE @]
    /\ gate' = Opened
    /\ runner' = [r \in Requests |-> IF runner[r] = "boot" THEN "done" ELSE runner[r]]
    /\ UNCHANGED <<op, disk, stops, checking, timers, watched>>

-----------------------------------------------------------------------------
Init ==
    /\ op = Op(None, "none", FALSE)
    /\ gate = Gate(None, "released")
    /\ tx = [id |-> None, state |-> "none", update |-> FALSE]
    /\ disk = FALSE /\ up = TRUE /\ stops = 0
    /\ checking = {} /\ timers = {} /\ watched = {}
    /\ runner = [r \in Requests |-> "unborn"]

ShellStep(r) ==
    \/ MarkInstalling(r) \/ Install(r) \/ InstallFails(r) \/ MarkRestart(r)
    \/ Claim(r) \/ Skip(r) \/ StopHost(r) \/ RestartFails(r)

Next ==
    \/ Poll \/ Stop \/ Boot
    \/ \E r \in Updates : RequestUpdate(r) \/ ScheduleUpdate(r) \/ UpdateRefused(r)
    \/ \E r \in Restarts : RequestRestart(r)
    \/ \E r \in Requests : Handoff(r) \/ ShellStep(r) \/ ShellDies(r)

Spec == Init /\ [][Next]_vars

\* Timers fire, a shell goes on, and something starts a stopped Host.
FairSpec ==
    /\ Spec /\ WF_vars(Boot)
    /\ \A r \in Requests : WF_vars(Handoff(r)) /\ WF_vars(ShellStep(r))

-----------------------------------------------------------------------------
(* Properties *)

Phases == {"unborn", "start", "install", "installed", "claim", "restart", "boot",
           "skipped", "done"}
Statuses == {"none", "scheduled", "installing", "install_failed", "restart_scheduled",
             "runner_started", "restart_failed", "complete", "mismatch"}
Id == Requests \cup {None}

\* The three files keep the fields and statuses their readers know, whoever of
\* the Host, the shell and the polls wrote them last.
TypeOK ==
    /\ op \in [id : Id, status : Statuses, running : BOOLEAN]
    /\ gate \in [id : Id, state : {"blocked", "released"}]
    /\ tx \in [id : Id, state : {"none", "prepared", "consumed"}, update : BOOLEAN]
    /\ disk \in BOOLEAN /\ up \in BOOLEAN /\ stops \in Nat
    /\ checking \subseteq Updates /\ timers \subseteq Requests /\ watched \subseteq Requests
    /\ runner \in [Requests -> Phases]

\* A gate is opened by a Host that came up, or by the end of the very restart
\* it was closed for: one that fails beside it leaves it closed.
ReleaseIsOwn ==
    [][(gate.state = "blocked" /\ gate'.state = "released") =>
            (~up /\ up') \/ runner'[gate.id] = "done"]_vars

\* A closed gate has somebody who will open it: the timer or the shell of its
\* request, a Host that is down and will come up, or else its shell skipped the
\* restart.
GateHasOwner ==
    gate.state = "blocked" =>
        \/ ~up \/ gate.id \in timers
        \/ runner[gate.id] \notin {"unborn", "done"}

\* A closed gate opens, unless its shell skipped the restart.
LoginComesBack ==
    gate.state = "blocked" ~> (gate.state = "released" \/ \E r \in Updates : runner[r] = "skipped")

\* "Please wait until the Host is ready": a closed gate opens.
LoginReturns == gate.state = "blocked" ~> gate.state = "released"
=============================================================================
