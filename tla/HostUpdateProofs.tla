-------------------------- MODULE HostUpdateProofs --------------------------
(***************************************************************************)
(* The login gate of HostUpdate, for any set of requests.                  *)
(***************************************************************************)
EXTENDS HostUpdate, TLAPS

\* A request that waits for the registry has neither timer nor shell.
Waits == \A r \in checking : runner[r] = "unborn" /\ r \notin timers

\* While the Host is up, the request a gate is closed for has its timer in this
\* process, or a shell whose end this process will hear of.
Owned ==
    (gate.state = "blocked" /\ up) =>
        \/ gate.id \in timers
        \/ gate.id \in watched /\ runner[gate.id] \notin {"unborn", "done"}

GateInv == TypeOK /\ Waits /\ Owned

LEMMA OpTyped ==
    ASSUME NEW r \in Id, NEW status \in Statuses, NEW running \in BOOLEAN
    PROVE  Op(r, status, running) \in [id : Id, status : Statuses, running : BOOLEAN]
BY DEF Op

LEMMA ReconciledTyped ==
    ASSUME TypeOK
    PROVE  Reconciled \in [id : Id, status : Statuses, running : BOOLEAN]
<1>1. op.id \in Id /\ {"complete", "mismatch"} \subseteq Statuses
  BY DEF TypeOK, Statuses
<1> QED
  BY <1>1, OpTyped DEF TypeOK, Reconciled

LEMMA ReleasedTyped ==
    ASSUME TypeOK, NEW r
    PROVE  /\ Released(r) \in [id : Id, state : {"blocked", "released"}]
           /\ Opened \in [id : Id, state : {"blocked", "released"}]
           /\ Opened.state = "released"
           /\ Released(r).id = gate.id
           /\ gate.id = r => Released(r).state = "released"
           /\ gate.id # r => Released(r) = gate
BY DEF TypeOK, Released, Opened

\* What a failing restart and a refused update do, case by case.
LEMMA RestartFailsDoes ==
    ASSUME NEW r \in Requests, RestartFails(r)
    PROVE  /\ runner[r] \in {"restart", "boot"} /\ runner' = [runner EXCEPT ![r] = "done"]
           /\ op' = op \/ op' = Op(r, "restart_failed", FALSE)
           /\ gate' = Released(r) \/ (r \notin watched /\ gate' = gate)
           /\ UNCHANGED <<tx, disk, host>>
<1>1. /\ runner[r] \in {"restart", "boot"} /\ runner' = [runner EXCEPT ![r] = "done"]
      /\ UNCHANGED <<tx, disk, host>>
  BY DEF RestartFails, Goes
<1>2. CASE r \in Updates
  BY <1>1, <1>2 DEF RestartFails
<1>3. CASE r \notin Updates
  BY <1>1, <1>3 DEF RestartFails
<1> QED
  BY <1>2, <1>3

LEMMA UpdateRefusedDoes ==
    ASSUME NEW r \in Updates, UpdateRefused(r)
    PROVE  /\ r \in checking /\ checking' = checking \ {r}
           /\ op' = op \/ op' = Op(r, "restart_failed", FALSE)
           /\ tx' = tx \/ tx' = Transaction(r, "prepared")
           /\ runner' = [runner EXCEPT ![r] = "done"]
           /\ UNCHANGED <<gate, disk, up, stops, timers, watched>>
<1>1. CASE UNCHANGED <<op, tx>>
  BY <1>1 DEF UpdateRefused
<1>2. CASE tx' = Transaction(r, "prepared") /\ op' = Op(r, "restart_failed", FALSE)
  BY <1>2 DEF UpdateRefused
<1> QED
  BY <1>1, <1>2 DEF UpdateRefused

LEMMA GateInitial == Init => GateInv
<1> SUFFICES ASSUME Init PROVE GateInv
  OBVIOUS
<1>1. /\ "none" \in Statuses /\ "unborn" \in Phases /\ None \in Id
  BY DEF Statuses, Phases, Id
<1>2. op \in [id : Id, status : Statuses, running : BOOLEAN]
  BY <1>1, OpTyped DEF Init
<1>3. TypeOK
  BY <1>1, <1>2 DEF Init, TypeOK, Gate
<1>4. Waits /\ Owned
  BY DEF Init, Waits, Owned, Gate
<1> QED
  BY <1>3, <1>4 DEF GateInv

LEMMA TypeStep == TypeOK /\ [Next]_vars => TypeOK'
<1> SUFFICES ASSUME TypeOK, [Next]_vars PROVE TypeOK'
  OBVIOUS
<1> USE DEF TypeOK
<1>1. CASE Poll
  BY <1>1, ReconciledTyped DEF Poll, host
<1>2. CASE Stop
  <2>1. stops' \in Nat
    BY <1>2 DEF Stop
  <2>2. /\ UNCHANGED <<op, gate, tx, disk, runner>>
        /\ up' = FALSE /\ checking' = {} /\ timers' = {} /\ watched' = {}
    BY <1>2 DEF Stop, Down, files
  <2> QED
    BY <2>1, <2>2
<1>3. CASE Boot
  <2>1. tx' = [id |-> tx.id, state |-> IF tx.state = "prepared" THEN "consumed" ELSE tx.state,
               update |-> tx.update]
    BY <1>3 DEF Boot
  <2>2. runner' \in [Requests -> Phases]
    BY <1>3 DEF Boot, Phases
  <2> QED
    BY <1>3, <2>1, <2>2, ReleasedTyped DEF Boot
<1>4. ASSUME NEW r \in Updates, RequestUpdate(r) PROVE TypeOK'
  BY <1>4, ReconciledTyped DEF RequestUpdate
<1>5. ASSUME NEW r \in Updates, ScheduleUpdate(r) PROVE TypeOK'
  <2>1. r \in Requests /\ r \in Id /\ "scheduled" \in Statuses
    BY DEF Requests, Id, Statuses
  <2> QED
    BY <1>5, <2>1, OpTyped DEF ScheduleUpdate, Gate, Transaction
<1>6. ASSUME NEW r \in Updates, UpdateRefused(r) PROVE TypeOK'
  <2>1. r \in Requests /\ r \in Id /\ "restart_failed" \in Statuses /\ "done" \in Phases
    BY DEF Requests, Id, Statuses, Phases
  <2>0. /\ r \in checking /\ checking' = checking \ {r}
        /\ op' = op \/ op' = Op(r, "restart_failed", FALSE)
        /\ tx' = tx \/ tx' = Transaction(r, "prepared")
        /\ runner' = [runner EXCEPT ![r] = "done"]
        /\ UNCHANGED <<gate, disk, up, stops, timers, watched>>
    BY <1>6, UpdateRefusedDoes, Zenon
  <2>2. TypeOK'
    <3>1. op' \in [id : Id, status : Statuses, running : BOOLEAN]
      <4>1. CASE op' = op
        BY <4>1
      <4>2. CASE op' = Op(r, "restart_failed", FALSE)
        BY <4>2, <2>1, OpTyped
      <4> QED
        BY <2>0, <4>1, <4>2
    <3>2. tx' \in [id : Id, state : {"none", "prepared", "consumed"}, update : BOOLEAN]
      <4>1. CASE tx' = tx
        BY <4>1
      <4>2. CASE tx' = Transaction(r, "prepared")
        BY <4>2, <2>1 DEF Transaction
      <4> QED
        BY <2>0, <4>1, <4>2
    <3> QED
      BY <2>0, <2>1, <3>1, <3>2
  <2> QED
    BY <2>2
<1>7. ASSUME NEW r \in Restarts, RequestRestart(r) PROVE TypeOK'
  <2>1. r \in Requests /\ r \in Id
    BY DEF Requests, Id
  <2> QED
    BY <1>7, <2>1 DEF RequestRestart, Gate, Transaction
<1>8. ASSUME NEW r \in Requests, Handoff(r) PROVE TypeOK'
  <2>1. "start" \in Phases /\ "restart" \in Phases /\ "done" \in Phases
    BY DEF Phases
  <2> QED
    BY <1>8, <2>1, ReleasedTyped DEF Handoff
<1>9. ASSUME NEW r \in Requests, ShellStep(r) PROVE TypeOK'
  <2>1. /\ r \in Id
        /\ {"install", "installed", "done", "claim", "restart", "skipped", "boot"} \subseteq Phases
        /\ {"installing", "install_failed", "restart_scheduled", "restart_failed",
             "runner_started"} \subseteq Statuses
    BY DEF Id, Phases, Statuses
  <2>2. CASE MarkInstalling(r)
    BY <2>1, <2>2, OpTyped DEF MarkInstalling, Goes, host
  <2>3. CASE Install(r)
    BY <2>1, <2>3 DEF Install, Goes, files, host
  <2>4. CASE InstallFails(r)
    BY <2>1, <2>4, OpTyped, ReleasedTyped DEF InstallFails, Goes, host
  <2>5. CASE MarkRestart(r)
    BY <2>1, <2>5, OpTyped DEF MarkRestart, Goes, host
  <2>6. CASE Claim(r)
    BY <2>1, <2>6, OpTyped DEF Claim, Goes, host
  <2>7. CASE Skip(r)
    BY <2>1, <2>7 DEF Skip, Goes, files, host
  <2>8. CASE StopHost(r)
    BY <2>1, <2>8 DEF StopHost, Goes, Down, files
  <2>9. CASE RestartFails(r)
    <3>0. /\ runner[r] \in {"restart", "boot"} /\ runner' = [runner EXCEPT ![r] = "done"]
          /\ op' = op \/ op' = Op(r, "restart_failed", FALSE)
          /\ gate' = Released(r) \/ (r \notin watched /\ gate' = gate)
          /\ UNCHANGED <<tx, disk, host>>
      BY <2>9, RestartFailsDoes, Zenon
    <3>1. op' \in [id : Id, status : Statuses, running : BOOLEAN]
      <4>1. CASE op' = op
        BY <4>1
      <4>2. CASE op' = Op(r, "restart_failed", FALSE)
        BY <4>2, <2>1, OpTyped
      <4> QED
        BY <3>0, <4>1, <4>2
    <3>2. gate' \in [id : Id, state : {"blocked", "released"}]
      BY <3>0, ReleasedTyped
    <3> QED
      BY <2>1, <3>0, <3>1, <3>2 DEF host
  <2> QED
    BY <1>9, <2>2, <2>3, <2>4, <2>5, <2>6, <2>7, <2>8, <2>9 DEF ShellStep
<1>10. ASSUME NEW r \in Requests, ShellDies(r) PROVE TypeOK'
  BY <1>10, ReleasedTyped DEF ShellDies, Phases, host
<1>11. CASE UNCHANGED vars
  BY <1>11 DEF vars, files, host
<1> QED
  BY <1>1, <1>2, <1>3, <1>4, <1>5, <1>6, <1>7, <1>8, <1>9, <1>10, <1>11 DEF Next

LEMMA WaitsStep == TypeOK /\ Waits /\ [Next]_vars => Waits'
<1> SUFFICES ASSUME TypeOK, Waits, [Next]_vars PROVE Waits'
  OBVIOUS
<1> USE DEF TypeOK, Waits, host
<1>1. CASE Poll \/ UNCHANGED vars
  BY <1>1 DEF Poll, vars, files
<1>8. CASE Stop
  BY <1>8 DEF Stop, Down
<1>9. CASE Boot
  BY <1>9 DEF Boot, Requests
<1>2. ASSUME NEW r \in Updates, RequestUpdate(r) PROVE Waits'
  BY <1>2 DEF RequestUpdate, Used, Requests
<1>3. ASSUME NEW r \in Updates, ScheduleUpdate(r) PROVE Waits'
  BY <1>3 DEF ScheduleUpdate
<1>10. ASSUME NEW r \in Updates, UpdateRefused(r) PROVE Waits'
  BY <1>10, UpdateRefusedDoes DEF Requests
<1>4. ASSUME NEW r \in Restarts, RequestRestart(r) PROVE Waits'
  BY <1>4 DEF RequestRestart, Used, Requests
<1>5. ASSUME NEW r \in Requests, Handoff(r) PROVE Waits'
  <2>1. r \notin checking /\ checking' = checking /\ timers' = timers \ {r}
    BY <1>5 DEF Handoff
  <2>2. \A q \in checking : runner'[q] = runner[q]
    BY <1>5, <2>1 DEF Handoff, Requests
  <2> QED
    BY <2>1, <2>2
<1>6. ASSUME NEW r \in Requests, ShellStep(r) PROVE Waits'
  <2>1. CASE MarkInstalling(r) \/ Install(r) \/ MarkRestart(r) \/ Claim(r) \/ Skip(r)
    <3>1. /\ runner[r] # "unborn" /\ UNCHANGED host
          /\ \A q \in Requests \ {r} : runner'[q] = runner[q]
      BY <2>1 DEF MarkInstalling, Install, MarkRestart, Claim, Skip, Goes
    <3> QED
      BY <3>1 DEF Requests
  <2>2. CASE InstallFails(r)
    BY <2>2 DEF InstallFails, Goes, Requests
  <2>3. CASE StopHost(r)
    BY <2>3 DEF StopHost, Down
  <2>4. CASE RestartFails(r)
    BY <2>4, RestartFailsDoes DEF Requests
  <2> QED
    BY <1>6, <2>1, <2>2, <2>3, <2>4 DEF ShellStep
<1>7. ASSUME NEW r \in Requests, ShellDies(r) PROVE Waits'
  BY <1>7 DEF ShellDies
<1> QED
  BY <1>1, <1>2, <1>3, <1>4, <1>5, <1>6, <1>7, <1>8, <1>9, <1>10 DEF Next

\* The shell's own steps: it goes on, and who owns the gate goes on owning it,
\* or it ends and its gate opens.
LEMMA OwnedShellStep ==
    ASSUME TypeOK, Owned, NEW r \in Requests, ShellStep(r)
    PROVE  Owned'
<1> USE DEF TypeOK, Owned, host, files
<1>1. CASE MarkInstalling(r) \/ Install(r) \/ MarkRestart(r) \/ Claim(r) \/ Skip(r)
  <2>1. /\ runner'[r] \notin {"unborn", "done"} /\ UNCHANGED <<gate, host>>
        /\ \A q \in Requests \ {r} : runner'[q] = runner[q]
    BY <1>1 DEF MarkInstalling, Install, MarkRestart, Claim, Skip, Goes
  <2> QED
    BY <2>1
<1>2. CASE InstallFails(r)
  BY <1>2, ReleasedTyped DEF InstallFails, Goes
<1>3. CASE StopHost(r)
  BY <1>3 DEF StopHost, Down
<1>4. CASE RestartFails(r)
  <2>0. /\ runner[r] \in {"restart", "boot"} /\ runner' = [runner EXCEPT ![r] = "done"]
        /\ op' = op \/ op' = Op(r, "restart_failed", FALSE)
        /\ gate' = Released(r) \/ (r \notin watched /\ gate' = gate)
        /\ UNCHANGED <<tx, disk, host>>
    BY <1>4, RestartFailsDoes, Zenon
  <2> QED
    BY <2>0, ReleasedTyped
<1> QED
  BY <1>1, <1>2, <1>3, <1>4 DEF ShellStep

LEMMA OwnedStep == GateInv /\ [Next]_vars => Owned'
<1> SUFFICES ASSUME GateInv, [Next]_vars PROVE Owned'
  OBVIOUS
<1> USE DEF GateInv, TypeOK, Waits, Owned
<1>1. CASE Poll \/ UNCHANGED vars
  <2>1. UNCHANGED <<gate, up, timers, watched, runner>>
    BY <1>1 DEF Poll, host, vars, files
  <2> QED
    BY <2>1
<1>2. CASE Stop \/ Boot
  BY <1>2, ReleasedTyped DEF Stop, Boot, Down
<1>3. ASSUME NEW r \in Updates, RequestUpdate(r) PROVE Owned'
  BY <1>3 DEF RequestUpdate
<1>4. ASSUME NEW r \in Updates, ScheduleUpdate(r) PROVE Owned'
  BY <1>4 DEF ScheduleUpdate, Gate
<1>5. ASSUME NEW r \in Updates, UpdateRefused(r) PROVE Owned'
  <2>0. /\ r \in checking /\ checking' = checking \ {r}
        /\ op' = op \/ op' = Op(r, "restart_failed", FALSE)
        /\ tx' = tx \/ tx' = Transaction(r, "prepared")
        /\ runner' = [runner EXCEPT ![r] = "done"]
        /\ UNCHANGED <<gate, disk, up, stops, timers, watched>>
    BY <1>5, UpdateRefusedDoes, Zenon
  <2> QED
    BY <2>0 DEF Requests
<1>6. ASSUME NEW r \in Restarts, RequestRestart(r) PROVE Owned'
  BY <1>6 DEF RequestRestart, Gate
<1>7. ASSUME NEW r \in Requests, Handoff(r) PROVE Owned'
  BY <1>7, ReleasedTyped DEF Handoff
<1>8. ASSUME NEW r \in Requests, ShellStep(r) PROVE Owned'
  BY <1>8, OwnedShellStep
<1>9. ASSUME NEW r \in Requests, ShellDies(r) PROVE Owned'
  BY <1>9, ReleasedTyped DEF ShellDies, host
<1> QED
  BY <1>1, <1>2, <1>3, <1>4, <1>5, <1>6, <1>7, <1>8, <1>9 DEF Next

THEOREM GateInvariant == Spec => []GateInv
<1>1. GateInv /\ [Next]_vars => GateInv'
  BY TypeStep, WaitsStep, OwnedStep DEF GateInv
<1> QED
  BY GateInitial, <1>1, PTL DEF Spec

\* Every file and every table of the update keeps its type.
THEOREM Typing == Spec => []TypeOK
BY GateInvariant, PTL DEF GateInv

\* A closed login gate has somebody who will open it, unless the shell of its
\* request skipped the restart.
THEOREM GateIsOwned == Spec => []GateHasOwner
<1>1. GateInv => GateHasOwner
  BY DEF GateInv, Owned, GateHasOwner
<1> QED
  BY GateInvariant, <1>1, PTL

\* A gate is opened by a Host that came up or by the end of its own restart.
THEOREM GateOpensForItsOwn == Spec => ReleaseIsOwn
<1> DEFINE Opens == gate.state = "blocked" /\ gate'.state = "released"
           Rightly == (~up /\ up') \/ runner'[gate.id] = "done"
<1>1. ASSUME TypeOK, Next, Opens PROVE Rightly
  <2> USE <1>1 DEF TypeOK, host, files
  <2>1. CASE Poll \/ Stop \/ Boot
    BY <2>1 DEF Poll, Stop, Boot
  <2>2. ASSUME NEW r \in Updates, RequestUpdate(r) \/ ScheduleUpdate(r) \/ UpdateRefused(r)
        PROVE  Rightly
    <3>1. gate' = gate \/ gate' = Gate(r, "blocked")
      BY <2>2, UpdateRefusedDoes DEF RequestUpdate, ScheduleUpdate
    <3> QED
      BY <3>1 DEF Gate
  <2>3. ASSUME NEW r \in Restarts, RequestRestart(r) PROVE Rightly
    BY <2>3 DEF RequestRestart, Gate
  <2>4. ASSUME NEW r \in Requests, Handoff(r) PROVE Rightly
    BY <2>4, ReleasedTyped DEF Handoff
  <2>5. ASSUME NEW r \in Requests, ShellStep(r) PROVE Rightly
    <3>1. CASE InstallFails(r) \/ RestartFails(r)
      <4>1. runner' = [runner EXCEPT ![r] = "done"] /\ (gate' = Released(r) \/ gate' = gate)
        BY <3>1, RestartFailsDoes DEF InstallFails, Goes
      <4> QED
        BY <4>1, ReleasedTyped
    <3>2. CASE MarkInstalling(r) \/ Install(r) \/ MarkRestart(r) \/ Claim(r) \/ Skip(r) \/ StopHost(r)
      BY <3>2 DEF MarkInstalling, Install, MarkRestart, Claim, Skip, StopHost
    <3> QED
      BY <2>5, <3>1, <3>2 DEF ShellStep
  <2>6. ASSUME NEW r \in Requests, ShellDies(r) PROVE Rightly
    BY <2>6, ReleasedTyped DEF ShellDies
  <2> QED
    BY <2>1, <2>2, <2>3, <2>4, <2>5, <2>6 DEF Next
<1>2. TypeOK /\ [Next]_vars => [Opens => Rightly]_vars
  BY <1>1
<1> QED
  BY Typing, <1>2, PTL DEF Spec, ReleaseIsOwn
=============================================================================
