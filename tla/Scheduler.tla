----------------------------- MODULE Scheduler -----------------------------
(***************************************************************************)
(* The Host's scheduler (host-service/scheduler-service.mjs,               *)
(* scheduler-runner.mjs, scheduler-store.mjs and                           *)
(* portable-scheduler-definitions.mjs): schedules are defined in a file of *)
(* the project, their progress is a row of the Host's database, and one    *)
(* timer runs what is due, one provider run after the other.               *)
(*                                                                         *)
(* A run takes long.  While it is awaited the file can be edited, by the   *)
(* dashboard or by anyone who writes in the project, the dashboard can     *)
(* start a test run, the project index can lose and find the project, and  *)
(* the Host can be restarted, with or without a prepared snapshot.         *)
(***************************************************************************)
EXTENDS Naturals, Sequences, FiniteSets

CONSTANTS
    Sched,
    Rule,
    Definition, \* what the file can say of each schedule
    Occurs,    \* the times a rule names
    None,
    MaxTime,   \* bound: the clock
    MaxRuns,   \* bound: rows of schedule_runs
    MaxStops,  \* bound: restarts
    MaxEdits,  \* bound: changes of definitions and scans of the index
    MaxDenied  \* bound: claims for which no mail capability can be made

ASSUME OccursAssumption == Occurs \in [Rule -> SUBSET Nat]

Definitions == [rule : Rule, enabled : BOOLEAN]

ASSUME DefinitionAssumption ==
    Definition \in [Sched -> SUBSET Definitions] /\ None \notin Definitions

\* A row of schedule state.
Rows == [def : Definitions, found : Nat, next : Nat \cup {None}, stopped : BOOLEAN]

ASSUME SchedulerNoneAssumption == None \notin Nat /\ None \notin Rows
ASSUME SchedulerBoundAssumption ==
    /\ MaxTime \in Nat /\ MaxRuns \in Nat /\ MaxStops \in Nat /\ MaxEdits \in Nat
    /\ MaxDenied \in Nat

VARIABLES
    clock,
    file,      \* schedulers.json: the definition of each schedule
    row,       \* portable_schedule_runtime_state
    runs,      \* schedule_runs, in order of creation
    indexed,   \* the project is in the Browser Root project index
    cache,     \* cachedSchedules
    tick,      \* the drain in flight: tickInFlight and what it holds
    tests,     \* test runs in flight
    up,        \* the Host process runs
    prepared,  \* a restart snapshot waits to be consumed
    stops,     \* restarts so far
    edits,     \* changes and scans so far
    lost,      \* history: runs whose end was not recorded in the schedule
    cut,       \* history: runs in flight when the Host stopped
    denied,    \* history: runs claimed, but never handed to a provider
    planned,   \* history: runs in flight when a prepared restart stopped the Host
    tested     \* history: schedules on which a test run ended

stores == <<file, row, runs>>
process == <<indexed, cache, tick, tests, up>>
counted == <<stops, edits>>
history == <<lost, cut, denied, planned, tested>>
vars == <<clock, stores, process, prepared, counted, history>>

Edit == edits < MaxEdits /\ edits' = edits + 1

\* The first time after t that rule r names.
NextRun(r, t) ==
    LET later == {n \in Occurs[r] : n > t}
    IN  IF later = {} THEN None ELSE CHOOSE n \in later : \A m \in later : n <= m

-----------------------------------------------------------------------------
(* The schedules as the Host sees them *)

\* A new row, or one whose definition is not the one it was made for.
Fresh(def) == [def |-> def, found |-> clock, next |-> None, stopped |-> FALSE]

\* ensurePortableScheduleRuntimeState for every definition of the file.
Ensured(f, rows) ==
    [s \in Sched |->
        IF f[s] = None THEN rows[s]
        ELSE IF rows[s] = None THEN Fresh(f[s])
        ELSE IF rows[s].def # f[s] THEN Fresh(f[s])
        ELSE rows[s]]

Active(w) == w.def.enabled /\ ~w.stopped

\* definitionToSchedule
View(s, w) ==
    [sch |-> s, rule |-> w.def.rule, active |-> Active(w),
     next |-> IF ~Active(w) THEN None
              ELSE IF w.next # None THEN w.next
              ELSE NextRun(w.def.rule, w.found)]

Views(rows) == {View(s, rows[s]) : s \in {q \in Sched : file[q] # None}}

\* listSchedules: what it returns, and the rows it leaves.
Listed ==
    IF ~indexed THEN {} ELSE IF cache # None THEN cache ELSE Views(Ensured(file, row))

ListedRow == IF indexed /\ cache = None THEN Ensured(file, row) ELSE row

Knows(s) == \E v \in Listed : v.sch = s

List ==
    /\ row' = ListedRow
    /\ cache' = IF indexed THEN Listed ELSE cache

\* The dashboard shows the schedules.
ListSchedules ==
    /\ up /\ List
    /\ UNCHANGED <<clock, file, runs, indexed, tick, tests, up, prepared, counted, history>>

\* Recording the end of a run: the row is written, and the schedules are listed anew.
Record(s, next, stopped) ==
    LET rows == Ensured(file, [ListedRow EXCEPT ![s] = [@ EXCEPT !.next = next,
                                                                 !.stopped = stopped]])
    IN  /\ row' = rows
        /\ cache' = Views(rows)

-----------------------------------------------------------------------------
(* The dashboard, and the project's own file *)

\* Fault: the cache outlives a change.
InvalidateNot == cache' = cache

\* invalidateScheduleCache
Invalidate == cache' = None

\* Creating or changing a definition writes the file and the schedule's row.
Define(s, def) ==
    /\ Edit /\ up /\ indexed /\ (file[s] = None \/ Knows(s))
    /\ file' = [file EXCEPT ![s] = def]
    /\ row' = [ListedRow EXCEPT ![s] = Ensured(file', ListedRow)[s]]
    /\ Invalidate
    /\ UNCHANGED <<clock, runs, indexed, tick, tests, up, prepared, stops, history>>

Delete(s) ==
    /\ Edit /\ up /\ Knows(s)
    /\ file' = [file EXCEPT ![s] = None]
    /\ row' = [ListedRow EXCEPT ![s] = None]
    /\ Invalidate
    /\ UNCHANGED <<clock, runs, indexed, tick, tests, up, prepared, stops, history>>

\* The file is written by another program.
EditFile(s, def) ==
    /\ Edit /\ file' = [file EXCEPT ![s] = def]
    /\ UNCHANGED <<clock, row, runs, process, prepared, stops, history>>

\* The index is scanned again; a failed scan knows no project.
Refresh(found) ==
    /\ Edit /\ up /\ indexed' = found /\ cache' = None
    /\ UNCHANGED <<clock, stores, tick, tests, up, prepared, stops, history>>

-----------------------------------------------------------------------------
(* Runs *)

Claim(v, now, by) ==
    [sch |-> v.sch, for |-> IF v.next # None THEN v.next ELSE now, at |-> now,
     by |-> by, status |-> "claimed"]

\* Whether the provider took the run or it failed makes no difference to what follows.
Ended(rs, i) == [rs EXCEPT ![i] = [@ EXCEPT !.status = "ended"]]

Idle == [now |-> 0, due |-> {}, view |-> None, run |-> 0]

Earliest(due) == {v \in due : \A u \in due : v.next <= u.next}

\* A claim is stored before its mail capability is made, which may throw: the run
\* is nobody's then, and the schedule does not move on.
Denied(i) == Cardinality(denied) < MaxDenied /\ denied' = denied \cup {i}

\* The drain claims a run for the next due schedule and hands it to its provider,
\* or throws in between and leaves what else was due, or is done.
Proceed(rs, now, due) ==
    \/ due = {} /\ runs' = rs /\ tick' = Idle /\ UNCHANGED denied
    \/ \E v \in Earliest(due) :
          /\ runs' = Append(rs, Claim(v, now, "schedule"))
          /\ \/ /\ tick' = [now |-> now, due |-> due \ {v}, view |-> v, run |-> Len(rs) + 1]
                /\ UNCHANGED denied
             \/ tick' = Idle /\ Denied(Len(rs) + 1)

Due == {v \in Listed : v.active /\ v.next # None /\ v.next <= clock}

\* The timer fires and no drain is in flight.
Tick ==
    /\ up /\ tick = Idle /\ Len(runs) + Cardinality(Due) <= MaxRuns
    /\ List
    /\ Proceed(runs, clock, Due)
    /\ UNCHANGED <<clock, file, indexed, tests, up, prepared, counted, lost, cut, planned, tested>>

\* Fault: a failed drain is not forgotten.
AbandonedStuck(rs) == runs' = rs /\ tick' = [tick EXCEPT !.run = 0]

\* Fault: nor is its run ended.
AbandonedOpen(rs) == runs' = runs /\ tick' = Idle

\* The drain throws: what else was due waits for the next tick.
Abandoned(rs) == runs' = rs /\ tick' = Idle

\* Fault: the times missed are caught up, one after the other.
NextAfterDue(v, now) == NextRun(v.rule, v.next)

\* computeNextHostScheduleRun: the times between v.next and now are skipped.
NextAfter(v, now) == NextRun(v.rule, now)

\* The provider run ends.  What comes next is computed from the definition the
\* drain holds; if the schedule is not known any more the drain fails, and so
\* does the run, whatever its provider did.
FinishRun ==
    LET v    == tick.view
        next == NextAfter(v, tick.now)
    IN  /\ up /\ tick.run # 0
        /\ \/ /\ Knows(v.sch)
              /\ Record(v.sch, next, next = None)
              /\ Proceed(Ended(runs, tick.run), tick.now, tick.due)
              /\ UNCHANGED lost
           \/ /\ ~Knows(v.sch)
              /\ List
              /\ Abandoned(Ended(runs, tick.run))
              /\ lost' = lost \cup {tick.run} /\ UNCHANGED denied
        /\ UNCHANGED <<clock, file, indexed, tests, up, prepared, counted, cut, planned, tested>>

\* The dashboard's test run of a schedule.
StartTest(s) ==
    /\ up /\ Len(runs) < MaxRuns
    /\ List
    /\ \E v \in Listed :
          /\ v.sch = s
          /\ runs' = Append(runs, Claim(v, clock, "test"))
          /\ \/ tests' = tests \cup {[view |-> v, run |-> Len(runs) + 1]} /\ UNCHANGED denied
             \/ UNCHANGED tests /\ Denied(Len(runs) + 1)
    /\ UNCHANGED <<clock, file, indexed, tick, up, prepared, counted, lost, cut, planned, tested>>

\* It ends and writes back the next run it saw when it started.
FinishTest(t) ==
    LET s == t.view.sch
    IN  /\ up /\ t \in tests
        /\ tests' = tests \ {t}
        /\ runs' = Ended(runs, t.run)
        /\ \/ Knows(s) /\ Record(s, t.view.next, FALSE) /\ UNCHANGED lost
           \/ ~Knows(s) /\ List /\ lost' = lost \cup {t.run}
        /\ tested' = tested \cup {s}
        /\ UNCHANGED <<clock, file, indexed, tick, up, prepared, counted, cut, denied, planned>>

-----------------------------------------------------------------------------
(* Restarts *)

\* A planned restart writes its snapshot first.
Prepare ==
    /\ up /\ ~prepared /\ stops < MaxStops /\ prepared' = TRUE
    /\ UNCHANGED <<clock, stores, process, counted, history>>

InFlight == {i \in DOMAIN runs : i = tick.run \/ \E t \in tests : t.run = i}

\* The process ends, whatever it was doing.
Stop ==
    /\ up /\ stops < MaxStops
    /\ up' = FALSE /\ stops' = stops + 1
    /\ indexed' = FALSE /\ cache' = None /\ tick' = Idle /\ tests' = {}
    /\ cut' = cut \cup InFlight
    /\ planned' = IF prepared THEN planned \cup InFlight ELSE planned
    /\ UNCHANGED <<clock, stores, prepared, edits, lost, denied, tested>>

\* markHostRestartInterruptedRuns: the claimed runs of the schedules it can list.
Interrupted(rs) ==
    [i \in DOMAIN rs |->
        IF rs[i].status = "claimed" /\ Knows(rs[i].sch)
        THEN [rs[i] EXCEPT !.status = "ended"] ELSE rs[i]]

\* The Host starts: the snapshot is consumed while the index, scanned only
\* afterwards, knows no project yet.
Boot(found) ==
    /\ ~up /\ up' = TRUE /\ indexed' = found /\ cache' = None
    /\ prepared' = FALSE
    /\ runs' = IF prepared THEN Interrupted(runs) ELSE runs
    /\ UNCHANGED <<clock, file, row, tick, tests, counted, history>>

Pass ==
    /\ clock < MaxTime /\ clock' = clock + 1
    /\ UNCHANGED <<stores, process, prepared, counted, history>>

-----------------------------------------------------------------------------
Init ==
    /\ clock = 0
    /\ file \in [Sched -> Definitions \cup {None}]
    /\ \A s \in Sched : file[s] \in Definition[s] \cup {None}
    /\ row = [s \in Sched |-> None]
    /\ runs = <<>> /\ indexed = TRUE /\ cache = None /\ tick = Idle /\ tests = {}
    /\ up = TRUE /\ prepared = FALSE /\ stops = 0 /\ edits = 0
    /\ lost = {} /\ cut = {} /\ denied = {} /\ planned = {} /\ tested = {}

Next ==
    \/ ListSchedules \/ Tick \/ FinishRun \/ Pass \/ Prepare \/ Stop
    \/ \E found \in BOOLEAN : Refresh(found) \/ Boot(found)
    \/ \E s \in Sched : Delete(s) \/ StartTest(s) \/ EditFile(s, None)
    \/ \E s \in Sched : \E def \in Definition[s] : Define(s, def) \/ EditFile(s, def)
    \/ \E t \in tests : FinishTest(t)

Spec == Init /\ [][Next]_vars

\* The timer is armed again after every tick, and provider runs end (they have a
\* time limit of their own).
FairSpec == Spec /\ WF_vars(Tick) /\ WF_vars(FinishRun)

-----------------------------------------------------------------------------
(* Properties *)

Scheduled(i) == runs[i].by = "schedule"

\* No catching up: whatever a run's length, and however its schedule is edited,
\* deleted, restored or paused meanwhile, the next run of the schedule is for a
\* time after the tick that started this one.  So no time is run twice, what was
\* missed before the tick is skipped, and of what is missed while the run lasts
\* the first time alone is run late.  Exempt are runs whose end was lost, claims
\* that no provider got, and schedules that were tested.
NoCatchUp ==
    \A i, j \in DOMAIN runs :
        (/\ i < j /\ Scheduled(i) /\ Scheduled(j) /\ runs[i].sch = runs[j].sch
         /\ i \notin lost \cup cut \cup denied /\ runs[i].sch \notin tested)
            => runs[j].for > runs[i].at

\* A run left "claimed" by nobody was cut off by a restart, or the drain or the
\* test that claimed it threw before it called the provider.
ClaimedIsInFlight ==
    \A i \in DOMAIN runs :
        runs[i].status = "claimed" => i \in InFlight \cup cut \cup denied

\* No cached view hides a change the Host itself made: a row is what the cache
\* shows of it.
CacheIsCurrent ==
    cache # None => \A v \in cache : row[v.sch] # None /\ v = View(v.sch, row[v.sch])

\* A schedule the Host lists as due is run and moves on, behind long runs of
\* others and drains that fail, and however it is edited or tested meanwhile, if
\* claims throw finitely often (MaxDenied): one that throws at every tick starves
\* the schedules that are due after it.
ListedAsDue(s) == up /\ \E v \in Due : v.sch = s

Full == Len(runs) + Cardinality(Due) > MaxRuns

DueIsRun == \A s \in Sched : ListedAsDue(s) ~> (~ListedAsDue(s) \/ Full)

\* "mark_interrupted_no_duplicate_dispatch": a run that a planned restart cut off
\* is marked as ended before its schedule is run again for the same time.
MarkedNotRepeated ==
    \A i \in planned, j \in DOMAIN runs :
        (/\ i < j /\ Scheduled(i) /\ Scheduled(j)
         /\ runs[j].sch = runs[i].sch /\ runs[j].for = runs[i].for)
            => runs[i].status # "claimed"
=============================================================================
