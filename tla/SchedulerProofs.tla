-------------------------- MODULE SchedulerProofs --------------------------
(***************************************************************************)
(* The safety properties of Scheduler, for any schedules and rules.        *)
(***************************************************************************)
EXTENDS Scheduler, WellFoundedInduction, SequenceTheorems, TLAPS

Run == [sch : Sched, for : Nat, at : Nat, by : {"schedule", "test"},
        status : {"claimed", "ended"}]

\* A schedule as the Host lists it.
SeenAs == [sch : Sched, rule : Rule, active : BOOLEAN, next : Nat \cup {None}]

Shape ==
    /\ clock \in Nat
    /\ file \in [Sched -> Definitions \cup {None}]
    /\ row \in [Sched -> Rows \cup {None}]
    /\ runs \in Seq(Run)
    /\ cache \in (SUBSET SeenAs) \cup {None}
    /\ tick \in [now : Nat, due : SUBSET SeenAs, view : SeenAs \cup {None}, run : 0..Len(runs)]
    /\ tests \in SUBSET [view : SeenAs, run : DOMAIN runs]

\* A drain that waits for a run holds its view, and is due to run others.
Draining ==
    /\ tick.run = 0 => tick = Idle
    /\ tick.now <= clock
    /\ \A v, u \in tick.due : v.next \in Nat /\ (v.sch = u.sch => v = u)
    /\ tick.run # 0 =>
          /\ tick.view \in SeenAs
          /\ runs[tick.run].sch = tick.view.sch /\ runs[tick.run].at = tick.now
          /\ \A v \in tick.due : v.sch # tick.view.sch
          /\ \A i \in DOMAIN runs : Scheduled(i) => runs[i].at <= tick.now

\* A run of the schedule whose end the schedule has recorded.
Settled(i) ==
    Scheduled(i) /\ i # tick.run /\ i \notin lost \cup cut \cup denied /\ runs[i].sch \notin tested

\* What a row will name next is later than t.
Past(w, t) ==
    Active(w) => IF w.next # None THEN t < w.next ELSE t <= w.found

\* Rows, and what the drain has still to run, are past every settled run.
MovedOn ==
    /\ \A i \in DOMAIN runs : runs[i].at <= clock
    /\ \A i \in DOMAIN runs : Settled(i) =>
          /\ row[runs[i].sch] # None => Past(row[runs[i].sch], runs[i].at)
          /\ \A v \in tick.due : v.sch = runs[i].sch => runs[i].at < v.next

Inv == Shape /\ CacheIsCurrent /\ Draining /\ ClaimedIsInFlight /\ MovedOn /\ NoCatchUp

-----------------------------------------------------------------------------
LEMMA LeastElement ==
    ASSUME NEW S \in SUBSET Nat, S # {}
    PROVE  \E x \in S : \A y \in S : x <= y
<1> DEFINE R == OpToRel(<, Nat)
<1>1. PICK x \in S : \A y \in S : <<y, x>> \notin R
  <2> HIDE DEF R
  <2>1. IsWellFoundedOn(R, Nat)
    BY NatLessThanWellFounded DEF R
  <2> QED
    BY <2>1, WFMin
<1>2. ASSUME NEW y \in S PROVE x <= y
  <2>1. <<y, x>> \in R <=> y < x
    BY DEF OpToRel
  <2>2. ~(y < x)
    <3> HIDE DEF R
    <3> QED
      BY <1>1, <2>1
  <2> QED
    BY <2>2, x \in Nat, y \in Nat
<1> QED
  BY <1>2

LEMMA NextRunIsLater ==
    ASSUME NEW r \in Rule, NEW t \in Nat
    PROVE  /\ NextRun(r, t) \in Nat \cup {None}
           /\ NextRun(r, t) # None => t < NextRun(r, t)
<1> DEFINE later == {n \in Occurs[r] : n > t}
<1>1. later \subseteq Nat /\ \A n \in later : t < n
  BY OccursAssumption
<1>2. CASE later = {}
  BY <1>2 DEF NextRun
<1>3. CASE later # {}
  <2>1. NextRun(r, t) = CHOOSE n \in later : \A m \in later : n <= m
    BY <1>3 DEF NextRun
  <2> HIDE DEF later
  <2>2. \E n \in later : \A m \in later : n <= m
    BY <1>1, <1>3, LeastElement
  <2>3. NextRun(r, t) \in later
    BY <2>1, <2>2
  <2> QED
    BY <1>1, <2>3
<1> QED
  BY <1>2, <1>3

\* A row is left as it was or made anew from a definition.
Renewed(old, new) == new = old \/ \E def \in Definitions : new = Fresh(def)

LEMMA FreshIsRow ==
    ASSUME Shape, NEW def \in Definitions
    PROVE  Fresh(def) \in Rows /\ Fresh(def) # None
<1>1. Fresh(def) \in Rows
  BY DEF Shape, Fresh, Rows
<1> QED
  BY <1>1, SchedulerNoneAssumption

LEMMA EnsuredRows ==
    ASSUME Shape, NEW f \in [Sched -> Definitions \cup {None}],
           NEW rows \in [Sched -> Rows \cup {None}]
    PROVE  /\ Ensured(f, rows) \in [Sched -> Rows \cup {None}]
           /\ \A s \in Sched : f[s] # None => Ensured(f, rows)[s] # None
           /\ \A s \in Sched : Renewed(rows[s], Ensured(f, rows)[s])
BY FreshIsRow DEF Ensured, Renewed

LEMMA ViewShows ==
    ASSUME NEW s \in Sched, NEW w \in Rows
    PROVE  /\ View(s, w) \in SeenAs /\ View(s, w).sch = s /\ View(s, w).rule \in Rule
           /\ \A t \in Nat : View(s, w).next # None /\ Past(w, t) => t < View(s, w).next
<1>1. w.def.rule \in Rule /\ w.found \in Nat /\ w.next \in Nat \cup {None}
  BY DEF Rows, Definitions
<1>2. Active(w) \in BOOLEAN
  BY DEF Active
<1>3. View(s, w).next \in Nat \cup {None}
  BY <1>1, NextRunIsLater DEF View
<1>4. /\ View(s, w).sch = s /\ View(s, w).rule = w.def.rule
      /\ View(s, w).next # None => Active(w) /\ (w.next # None => View(s, w).next = w.next)
                                  /\ (w.next = None => View(s, w).next = NextRun(w.def.rule, w.found))
  BY DEF View
<1>5. View(s, w) \in SeenAs
  BY <1>1, <1>2, <1>3 DEF View, SeenAs
<1> QED
  BY <1>1, <1>3, <1>4, <1>5, NextRunIsLater DEF Past

-----------------------------------------------------------------------------
\* What the Host lists is what the rows it leaves show.
Shown(views, rows) ==
    \A v \in views : v \in SeenAs /\ rows[v.sch] # None /\ v = View(v.sch, rows[v.sch])

LEMMA EnsuredShown ==
    ASSUME Shape, NEW f \in [Sched -> Definitions \cup {None}],
           NEW rows \in [Sched -> Rows \cup {None}]
    PROVE  Shown({View(s, Ensured(f, rows)[s]) : s \in {q \in Sched : f[q] # None}}, Ensured(f, rows))
<1> DEFINE E == Ensured(f, rows)
<1>1. \A s \in Sched : f[s] # None => E[s] # None /\ E[s] \in Rows
  BY EnsuredRows
<1> HIDE DEF E
<1>2. ASSUME NEW s \in Sched, f[s] # None
      PROVE  View(s, E[s]) \in SeenAs /\ View(s, E[s]).sch = s
  BY <1>1, <1>2, ViewShows
<1>3. Shown({View(s, E[s]) : s \in {q \in Sched : f[q] # None}}, E)
  BY <1>1, <1>2 DEF Shown
<1> QED
  BY <1>3 DEF E

LEMMA ListedIsShown ==
    ASSUME Shape, CacheIsCurrent
    PROVE  /\ ListedRow \in [Sched -> Rows \cup {None}] /\ Shown(Listed, ListedRow)
           /\ \A s \in Sched : Renewed(row[s], ListedRow[s])
<1>1. CASE indexed /\ cache = None
  BY <1>1, EnsuredRows, EnsuredShown DEF Shape, Listed, ListedRow, Views
<1>2. CASE ~indexed
  BY <1>2 DEF Listed, ListedRow, Shown, Shape, Renewed
<1>3. CASE indexed /\ cache # None
  <2>1. cache \in SUBSET SeenAs /\ Listed = cache /\ ListedRow = row
    BY <1>3 DEF Shape, Listed, ListedRow
  <2>2. Shown(cache, row)
    BY <1>3, <2>1 DEF Shown, CacheIsCurrent
  <2> QED
    BY <2>1, <2>2 DEF Shape, Renewed
<1> QED
  BY <1>1, <1>2, <1>3

LEMMA ListDoes ==
    ASSUME Shape, CacheIsCurrent, List
    PROVE  /\ row' \in [Sched -> Rows \cup {None}] /\ cache' \in (SUBSET SeenAs) \cup {None}
           /\ CacheIsCurrent' /\ \A s \in Sched : Renewed(row[s], row'[s])
<1>1. row' = ListedRow
  BY DEF List
<1>2. CASE indexed
  BY <1>1, <1>2, ListedIsShown DEF List, Shown, CacheIsCurrent
<1>3. CASE ~indexed
  BY <1>1, <1>3, ListedIsShown DEF List, ListedRow, Shape, CacheIsCurrent
<1> QED
  BY <1>1, <1>2, <1>3, ListedIsShown

\* What a row of s becomes when the end of a run is recorded.
Recorded(w, next, stopped) == [w EXCEPT !.next = next, !.stopped = stopped]

LEMMA RecordedIsPast ==
    ASSUME NEW w \in Rows, NEW next \in Nat \cup {None}, NEW t \in Nat, next # None => t < next
    PROVE  Past(Recorded(w, next, next = None), t)
<1>1. /\ Recorded(w, next, next = None).next = next
      /\ Recorded(w, next, next = None).stopped = (next = None)
  BY DEF Recorded, Rows
<1> QED
  BY <1>1 DEF Past, Active

LEMMA RecordDoes ==
    ASSUME Shape, CacheIsCurrent, NEW s \in Sched, Knows(s),
           NEW next \in Nat \cup {None}, NEW stopped \in BOOLEAN, Record(s, next, stopped)
    PROVE  /\ row' \in [Sched -> Rows \cup {None}] /\ cache' \in (SUBSET SeenAs) \cup {None}
           /\ CacheIsCurrent'
           /\ \A q \in Sched \ {s} : Renewed(row[q], row'[q])
           /\ ListedRow[s] \in Rows /\ Renewed(Recorded(ListedRow[s], next, stopped), row'[s])
<1> DEFINE base == [ListedRow EXCEPT ![s] = Recorded(@, next, stopped)]
<1>1. ListedRow[s] \in Rows
  BY ListedIsShown DEF Knows, Shown
<1>2. Recorded(ListedRow[s], next, stopped) \in Rows
  BY <1>1 DEF Recorded, Rows
<1>3. base \in [Sched -> Rows \cup {None}]
  BY <1>2, ListedIsShown
<1>4. row' = Ensured(file, base) /\ cache' = Views(row')
  BY DEF Record, Recorded
<1>5. base[s] = Recorded(ListedRow[s], next, stopped)
      /\ \A q \in Sched \ {s} : base[q] = ListedRow[q]
  BY ListedIsShown
<1>6. file \in [Sched -> Definitions \cup {None}]
  BY DEF Shape
<1> HIDE DEF base
<1>7. row' \in [Sched -> Rows \cup {None}] /\ \A q \in Sched : Renewed(base[q], row'[q])
  BY <1>3, <1>4, <1>6, EnsuredRows
<1>8. Shown(cache', row')
  BY <1>3, <1>4, <1>6, EnsuredShown DEF Views
<1>9. \A q \in Sched \ {s} : Renewed(row[q], row'[q])
  BY <1>5, <1>7, ListedIsShown DEF Renewed
<1> QED
  BY <1>1, <1>5, <1>7, <1>8, <1>9 DEF Shown, CacheIsCurrent

-----------------------------------------------------------------------------
(* Runs: what a claim and an end do to them. *)

LEMMA ClaimIsRun ==
    ASSUME NEW v \in SeenAs, NEW now \in Nat, NEW by \in {"schedule", "test"}
    PROVE  /\ Claim(v, now, by) \in Run
           /\ Claim(v, now, by).sch = v.sch /\ Claim(v, now, by).at = now
           /\ Claim(v, now, by).by = by /\ (v.next # None => Claim(v, now, by).for = v.next)
BY DEF Claim, SeenAs, Run

\* A step that only changes how runs ended.
SameRuns(old, new) ==
    /\ new \in Seq(Run) /\ Len(new) = Len(old)
    /\ \A i \in DOMAIN old :
          /\ new[i].sch = old[i].sch /\ new[i].for = old[i].for
          /\ new[i].at = old[i].at /\ new[i].by = old[i].by
          /\ new[i].status = "claimed" => old[i].status = "claimed"

LEMMA EndedIsSame ==
    ASSUME NEW rs \in Seq(Run), NEW i \in DOMAIN rs
    PROVE  SameRuns(rs, Ended(rs, i)) /\ Ended(rs, i)[i].status # "claimed"
<1> DEFINE new == [rs[i] EXCEPT !.status = "ended"]
<1>1. rs[i] \in Run
  BY ElementOfSeq
<1>2. new \in Run /\ new.status = "ended"
      /\ new.sch = rs[i].sch /\ new.for = rs[i].for /\ new.at = rs[i].at /\ new.by = rs[i].by
  BY <1>1 DEF Run
<1>3. Ended(rs, i) = [rs EXCEPT ![i] = new]
  BY DEF Ended
<1> HIDE DEF new
<1>4. Ended(rs, i) \in Seq(Run) /\ Len(Ended(rs, i)) = Len(rs)
      /\ \A j \in 1..Len(rs) : Ended(rs, i)[j] = IF j = i THEN new ELSE rs[j]
  BY <1>2, <1>3, ExceptSeq
<1> QED
  BY <1>2, <1>4 DEF SameRuns

\* The drain claims one more run, or is done.
LEMMA ProceedDoes ==
    ASSUME NEW rs \in Seq(Run), NEW now \in Nat, NEW due \in SUBSET SeenAs,
           Proceed(rs, now, due)
    PROVE  \/ due = {} /\ runs' = rs /\ tick' = Idle /\ denied' = denied
           \/ \E v \in due :
                /\ runs' \in Seq(Run) /\ Len(runs') = Len(rs) + 1
                /\ \A i \in DOMAIN rs : runs'[i] = rs[i]
                /\ runs'[Len(rs) + 1] = Claim(v, now, "schedule")
                /\ \/ tick' = Idle /\ denied' = denied \cup {Len(rs) + 1}
                   \/ /\ denied' = denied
                      /\ tick' = [now |-> now, due |-> due \ {v}, view |-> v, run |-> Len(rs) + 1]
<1>1. ASSUME NEW v \in due, runs' = Append(rs, Claim(v, now, "schedule"))
      PROVE  /\ runs' \in Seq(Run) /\ Len(runs') = Len(rs) + 1
             /\ \A i \in DOMAIN rs : runs'[i] = rs[i]
             /\ runs'[Len(rs) + 1] = Claim(v, now, "schedule")
  <2>1. Claim(v, now, "schedule") \in Run
    BY ClaimIsRun
  <2> QED
    BY <1>1, <2>1, AppendProperties
<1> QED
  BY <1>1 DEF Proceed, Denied, Earliest

-----------------------------------------------------------------------------
LEMMA RenewedIsPast ==
    ASSUME NEW t \in Nat, t <= clock, NEW old, NEW new, Renewed(old, new),
           new # None, old # None => Past(old, t)
    PROVE  Past(new, t)
BY DEF Renewed, Past, Fresh

\* Runs may end, rows be made anew or vanish, and a drain may stop, if its run
\* counts as lost, cut off or denied.
LEMMA EndingsKeep ==
    ASSUME Inv, SameRuns(runs, runs'), clock' \in Nat, clock <= clock',
           lost \subseteq lost', cut \subseteq cut', denied \subseteq denied', tested \subseteq tested',
           tick' = tick \/ (tick' = Idle /\ (tick.run = 0 \/ tick.run \in lost' \cup cut' \cup denied')),
           \A s \in Sched : row'[s] = None \/ Renewed(row[s], row'[s]) \/ s \in tested'
    PROVE  Draining' /\ MovedOn' /\ NoCatchUp'
<1> USE DEF Inv
<1>1. /\ DOMAIN runs' = DOMAIN runs /\ DOMAIN runs \subseteq Nat \ {0}
      /\ \A i \in DOMAIN runs :
            /\ runs'[i].sch = runs[i].sch /\ runs'[i].for = runs[i].for
            /\ runs'[i].at = runs[i].at /\ runs'[i].by = runs[i].by
            /\ runs[i] \in Run
  BY DEF SameRuns, Shape
<1>2. \A i \in DOMAIN runs : runs[i].at \in Nat /\ runs[i].at <= clock /\ runs[i].sch \in Sched
  BY <1>1 DEF MovedOn, Run
<1>3. Idle.run = 0 /\ Idle.due = {} /\ Idle.now = 0
  BY DEF Idle
<1>4. tick.run = 0 \/ tick.run \in DOMAIN runs
  BY DEF Shape
<1>5. Draining'
  <2>1. CASE tick' = tick
    <3>1. tick'.now <= clock'
      BY <2>1 DEF Draining, Shape
    <3>2. tick.run # 0 =>
             /\ runs'[tick.run].sch = tick.view.sch /\ runs'[tick.run].at = tick.now
             /\ \A i \in DOMAIN runs' : Scheduled(i)' => runs'[i].at <= tick.now
      BY <1>1, <1>4 DEF Draining, Scheduled
    <3> QED
      BY <2>1, <3>1, <3>2 DEF Draining
  <2>2. CASE tick' = Idle
    BY <1>3, <2>2 DEF Draining
  <2> QED
    BY <2>1, <2>2
<1>6. \A i \in DOMAIN runs : Settled(i)' => Settled(i)
  BY <1>1, <1>3 DEF Settled, Scheduled
<1>7. MovedOn'
  <2>1. ASSUME NEW i \in DOMAIN runs, Settled(i)', row'[runs[i].sch] # None
        PROVE  Past(row'[runs[i].sch], runs[i].at)
    <3>1. runs[i].sch \notin tested'
      BY <1>1, <2>1 DEF Settled
    <3>2. row[runs[i].sch] # None => Past(row[runs[i].sch], runs[i].at)
      BY <1>6, <2>1 DEF MovedOn
    <3> QED
      BY <1>2, <2>1, <3>1, <3>2, RenewedIsPast
  <2>2. ASSUME NEW i \in DOMAIN runs, Settled(i)', NEW v \in tick'.due, v.sch = runs[i].sch
        PROVE  runs[i].at < v.next
    BY <1>3, <1>6, <2>2 DEF MovedOn
  <2>3. \A i \in DOMAIN runs' : runs'[i].at <= clock'
    BY <1>1, <1>2 DEF Shape
  <2>4. \A i \in DOMAIN runs' : Settled(i)' =>
          /\ row'[runs'[i].sch] # None => Past(row'[runs'[i].sch], runs'[i].at)
          /\ \A v \in tick'.due : v.sch = runs'[i].sch => runs'[i].at < v.next
    BY <1>1, <2>1, <2>2
  <2> QED
    BY <2>3, <2>4 DEF MovedOn, Past, Active
<1>8. NoCatchUp'
  BY <1>1 DEF NoCatchUp, Scheduled
<1> QED
  BY <1>5, <1>7, <1>8

\* A drain claims the next run, or is done.
LEMMA ProceedKeeps ==
    ASSUME NEW rs \in Seq(Run), NEW now \in Nat, NEW due \in SUBSET SeenAs,
           Proceed(rs, now, due), clock \in Nat, clock' = clock, now <= clock,
           \A v, u \in due : v.next \in Nat /\ (v.sch = u.sch => v = u),
           \A k \in DOMAIN rs : rs[k].at <= clock /\ (rs[k].by = "schedule" => rs[k].at <= now),
           \A k \in DOMAIN rs :
               (rs[k].by = "schedule" /\ k \notin lost' \cup cut' \cup denied' /\ rs[k].sch \notin tested') =>
                   /\ row'[rs[k].sch] # None => Past(row'[rs[k].sch], rs[k].at)
                   /\ \A v \in due : v.sch = rs[k].sch => rs[k].at < v.next,
           \A i, j \in DOMAIN rs :
               (/\ i < j /\ rs[i].by = "schedule" /\ rs[j].by = "schedule" /\ rs[i].sch = rs[j].sch
                /\ i \notin lost' \cup cut' \cup denied' /\ rs[i].sch \notin tested') => rs[j].for > rs[i].at,
           \A k \in DOMAIN rs : rs[k].status = "claimed" => k \in cut' \cup denied' \/ \E t \in tests' : t.run = k
    PROVE  /\ runs' \in Seq(Run) /\ Len(rs) <= Len(runs')
           /\ tick' \in [now : Nat, due : SUBSET SeenAs, view : SeenAs \cup {None}, run : 0..Len(runs')]
           /\ Draining' /\ MovedOn' /\ NoCatchUp' /\ ClaimedIsInFlight'
<1>1. CASE due = {} /\ runs' = rs /\ tick' = Idle
  <2>1. Idle = [now |-> 0, due |-> {}, view |-> None, run |-> 0] /\ Len(rs) \in Nat
    BY DEF Idle
  <2>2. tick' \in [now : Nat, due : SUBSET SeenAs, view : SeenAs \cup {None}, run : 0..Len(runs')]
    BY <1>1, <2>1
  <2>3. Draining'
    BY <1>1, <2>1 DEF Draining
  <2>4. MovedOn'
    BY <1>1, <2>1 DEF MovedOn, Settled, Scheduled, Past, Active
  <2>5. NoCatchUp'
    BY <1>1 DEF NoCatchUp, Scheduled
  <2>6. ClaimedIsInFlight'
    BY <1>1 DEF ClaimedIsInFlight, InFlight
  <2> QED
    BY <1>1, <2>1, <2>2, <2>3, <2>4, <2>5, <2>6
<1>2. ASSUME NEW v \in due,
             /\ runs' \in Seq(Run) /\ Len(runs') = Len(rs) + 1
             /\ \A i \in DOMAIN rs : runs'[i] = rs[i]
             /\ runs'[Len(rs) + 1] = Claim(v, now, "schedule")
             /\ \/ tick' = Idle /\ Len(rs) + 1 \in denied'
                \/ tick' = [now |-> now, due |-> due \ {v}, view |-> v, run |-> Len(rs) + 1]
      PROVE  /\ tick' \in [now : Nat, due : SUBSET SeenAs, view : SeenAs \cup {None}, run : 0..Len(runs')]
             /\ Draining' /\ MovedOn' /\ NoCatchUp' /\ ClaimedIsInFlight'
  <2> DEFINE new == Len(rs) + 1
  <2>1. /\ new \in Nat \ {0} /\ DOMAIN rs = 1..Len(rs) /\ Len(rs) \in Nat
        /\ DOMAIN runs' = DOMAIN rs \cup {new}
        /\ \A k \in DOMAIN rs : k # new /\ k < new
    BY <1>2
  <2>2. /\ runs'[new].sch = v.sch /\ runs'[new].at = now /\ runs'[new].by = "schedule"
        /\ runs'[new].for = v.next /\ v.next \in Nat
    <3>1. v.next # None
      BY SchedulerNoneAssumption
    <3> QED
      BY <1>2, <3>1, ClaimIsRun
  <2>3. /\ tick'.due \subseteq due \ {v}
        /\ \/ tick' = Idle /\ tick'.run = 0 /\ tick'.now = 0 /\ new \in denied'
           \/ tick'.now = now /\ tick'.view = v /\ tick'.run = new
    BY <1>2 DEF Idle
  <2>4. \A k \in DOMAIN rs : runs'[k] = rs[k]
    BY <1>2
  <2>5. tick' \in [now : Nat, due : SUBSET SeenAs, view : SeenAs \cup {None}, run : 0..Len(runs')]
    BY <1>2, <2>1 DEF Idle
  <2> HIDE DEF new
  <2>6. Draining'
    <3>1. \A k \in DOMAIN runs' : Scheduled(k)' => runs'[k].at <= now
      BY <2>1, <2>2, <2>4 DEF Scheduled
    <3>2. \A u \in tick'.due : u.sch # v.sch
      BY <2>3
    <3> QED
      BY <2>1, <2>2, <2>3, <3>1, <3>2 DEF Draining
  <2>7. MovedOn'
    <3>1. \A k \in DOMAIN runs' : runs'[k].at <= clock'
      BY <2>1, <2>2, <2>4
    <3>2. \A k \in DOMAIN runs' : Settled(k)' =>
             k \in DOMAIN rs /\ rs[k].by = "schedule" /\ k \notin lost' \cup cut' \cup denied' /\ rs[k].sch \notin tested'
      BY <2>1, <2>3, <2>4 DEF Settled, Scheduled
    <3>3. \A k \in DOMAIN runs' : Settled(k)' =>
             /\ row'[runs'[k].sch] # None => Past(row'[runs'[k].sch], runs'[k].at)
             /\ \A u \in tick'.due : u.sch = runs'[k].sch => runs'[k].at < u.next
      BY <2>3, <2>4, <3>2
    <3> QED
      BY <3>1, <3>3 DEF MovedOn, Past, Active
  <2>8. NoCatchUp'
    <3> SUFFICES ASSUME NEW i \in DOMAIN runs', NEW j \in DOMAIN runs', i < j,
                        runs'[i].by = "schedule", runs'[j].by = "schedule", runs'[i].sch = runs'[j].sch,
                        i \notin lost' \cup cut' \cup denied', runs'[i].sch \notin tested'
                 PROVE  runs'[j].for > runs'[i].at
      BY DEF NoCatchUp, Scheduled
    <3>1. i \in DOMAIN rs
      BY <2>1
    <3>2. CASE j \in DOMAIN rs
      BY <2>4, <3>1, <3>2
    <3>3. CASE j = new
      BY <2>2, <2>4, <3>1, <3>3
    <3> QED
      BY <2>1, <3>2, <3>3
  <2>9. ClaimedIsInFlight'
    BY <2>1, <2>3, <2>4 DEF ClaimedIsInFlight, InFlight
  <2> QED
    BY <2>5, <2>6, <2>7, <2>8, <2>9
<1> QED
  BY <1>1, <1>2, ProceedDoes

-----------------------------------------------------------------------------
(* One lemma per action, for the whole invariant. *)

LEMMA RunsAreThemselves ==
    ASSUME Shape
    PROVE  SameRuns(runs, runs) /\ DOMAIN runs = 1..Len(runs) /\ Len(runs) \in Nat
BY DEF Shape, SameRuns

\* Actions that leave runs and drain alone.
LEMMA QuietKeeps ==
    ASSUME Inv, UNCHANGED <<runs, tick, tests, lost, cut, denied, tested>>,
           clock' \in Nat, clock <= clock',
           file' \in [Sched -> Definitions \cup {None}],
           row' \in [Sched -> Rows \cup {None}], cache' \in (SUBSET SeenAs) \cup {None},
           CacheIsCurrent', \A s \in Sched : row'[s] = None \/ Renewed(row[s], row'[s])
    PROVE  Inv'
<1> USE DEF Inv
<1>1. Shape'
  BY DEF Shape
<1>2. SameRuns(runs, runs')
  BY RunsAreThemselves
<1>3. Draining' /\ MovedOn' /\ NoCatchUp'
  BY <1>2, EndingsKeep
<1>4. ClaimedIsInFlight'
  BY DEF ClaimedIsInFlight, InFlight
<1> QED
  BY <1>1, <1>3, <1>4

LEMMA DefineKeeps ==
    ASSUME Inv, NEW s \in Sched, NEW def \in Definitions, Define(s, def)
    PROVE  Inv'
<1> USE DEF Inv
<1>1. /\ file' = [file EXCEPT ![s] = def] /\ cache' = None
      /\ row' = [ListedRow EXCEPT ![s] = Ensured(file', ListedRow)[s]]
      /\ UNCHANGED <<clock, runs, tick, tests, lost, cut, denied, tested>>
  BY DEF Define, Invalidate, history
<1>2. file' \in [Sched -> Definitions \cup {None}]
  BY <1>1 DEF Shape
<1>3. /\ Ensured(file', ListedRow)[s] \in Rows \cup {None}
      /\ Renewed(ListedRow[s], Ensured(file', ListedRow)[s])
  BY <1>2, ListedIsShown, EnsuredRows
<1>4. /\ row' \in [Sched -> Rows \cup {None}]
      /\ \A q \in Sched : Renewed(row[q], row'[q])
  BY <1>1, <1>3, ListedIsShown DEF Renewed
<1> QED
  <2>1. CacheIsCurrent' /\ cache' \in (SUBSET SeenAs) \cup {None} /\ clock' \in Nat /\ clock <= clock'
    BY <1>1 DEF Shape, CacheIsCurrent
  <2> QED
    BY <1>1, <1>2, <1>4, <2>1, QuietKeeps

LEMMA DeleteKeeps ==
    ASSUME Inv, NEW s \in Sched, Delete(s)
    PROVE  Inv'
<1> USE DEF Inv
<1>1. /\ file' = [file EXCEPT ![s] = None] /\ cache' = None
      /\ row' = [ListedRow EXCEPT ![s] = None]
      /\ UNCHANGED <<clock, runs, tick, tests, lost, cut, denied, tested>>
  BY DEF Delete, Invalidate, history
<1>2. file' \in [Sched -> Definitions \cup {None}]
  BY <1>1 DEF Shape
<1>3. /\ row' \in [Sched -> Rows \cup {None}]
      /\ \A q \in Sched : row'[q] = None \/ Renewed(row[q], row'[q])
  BY <1>1, ListedIsShown
<1> QED
  BY <1>1, <1>2, <1>3, QuietKeeps DEF Shape, CacheIsCurrent

LEMMA OtherWritersKeep ==
    ASSUME Inv,
           \/ ListSchedules \/ Pass \/ Prepare \/ UNCHANGED vars
           \/ \E found \in BOOLEAN : Refresh(found)
           \/ \E s \in Sched, def \in Definitions \cup {None} : EditFile(s, def)
    PROVE  Inv'
<1> USE DEF Inv
<1>1. CASE ListSchedules
  BY <1>1, ListDoes, QuietKeeps DEF ListSchedules, history, Shape
<1>2. ASSUME UNCHANGED <<row, runs, tick, tests, lost, cut, denied, tested>>, clock' \in Nat, clock <= clock',
             file' \in [Sched -> Definitions \cup {None}], cache' \in {cache, None}
      PROVE  Inv'
  <2>1. CacheIsCurrent'
    BY <1>2 DEF CacheIsCurrent, View, Active
  <2>2. \A s \in Sched : Renewed(row[s], row'[s])
    BY <1>2 DEF Renewed
  <2> QED
    BY <1>2, <2>1, <2>2, QuietKeeps DEF Shape
<1>3. CASE Pass
  BY <1>2, <1>3 DEF Pass, stores, process, history, Shape
<1>4. CASE Prepare \/ UNCHANGED vars
  BY <1>2, <1>4 DEF Prepare, vars, stores, process, history, Shape
<1>5. CASE \E found \in BOOLEAN : Refresh(found)
  BY <1>2, <1>5 DEF Refresh, stores, history, Shape
<1>6. CASE \E s \in Sched, def \in Definitions \cup {None} : EditFile(s, def)
  BY <1>2, <1>6 DEF EditFile, process, history, Shape
<1> QED
  BY <1>1, <1>3, <1>4, <1>5, <1>6

LEMMA TickKeeps ==
    ASSUME Inv, Tick
    PROVE  Inv'
<1> USE DEF Inv
<1>1. /\ tick = Idle /\ List /\ Proceed(runs, clock, Due)
      /\ UNCHANGED <<clock, file, tests, lost, cut, tested>> /\ denied \subseteq denied'
  BY DEF Tick, Proceed, Denied
<1>2. /\ row' \in [Sched -> Rows \cup {None}] /\ cache' \in (SUBSET SeenAs) \cup {None}
      /\ CacheIsCurrent' /\ \A s \in Sched : Renewed(row[s], row'[s])
  BY <1>1, ListDoes
<1>3. row' = ListedRow /\ Shown(Listed, ListedRow)
  BY <1>1, ListedIsShown DEF List
<1>4. /\ Due \in SUBSET SeenAs
      /\ \A v \in Due : row'[v.sch] # None /\ v = View(v.sch, row'[v.sch]) /\ v.next # None
      /\ \A v \in Due : v.next \in Nat /\ v.sch \in Sched /\ row'[v.sch] \in Rows
  BY <1>2, <1>3 DEF Due, Shown, SeenAs
<1>5. \A v, u \in Due : v.next \in Nat /\ (v.sch = u.sch => v = u)
  BY <1>4
<1>6. DOMAIN runs = 1..Len(runs) /\ Len(runs) \in Nat /\ tick.run = 0
      /\ \A k \in DOMAIN runs : runs[k] \in Run
  BY <1>1, RunsAreThemselves DEF Idle, Shape
<1>7. \A k \in DOMAIN runs : runs[k].at \in Nat /\ runs[k].at <= clock /\ runs[k].sch \in Sched
  BY <1>6 DEF MovedOn, Run
<1>8. ASSUME NEW k \in DOMAIN runs, runs[k].by = "schedule", k \notin lost' \cup cut' \cup denied', runs[k].sch \notin tested'
      PROVE  /\ row'[runs[k].sch] # None => Past(row'[runs[k].sch], runs[k].at)
             /\ \A v \in Due : v.sch = runs[k].sch => runs[k].at < v.next
  <2>1. Settled(k)
    BY <1>1, <1>6, <1>8 DEF Settled, Scheduled
  <2>2. row'[runs[k].sch] # None => Past(row'[runs[k].sch], runs[k].at)
    BY <1>2, <1>7, <2>1, RenewedIsPast DEF MovedOn
  <2>3. ASSUME NEW v \in Due, v.sch = runs[k].sch PROVE runs[k].at < v.next
    BY <1>4, <1>7, <2>2, <2>3, ViewShows
  <2> QED
    BY <2>2, <2>3
<1>9. \A i, j \in DOMAIN runs :
         (/\ i < j /\ runs[i].by = "schedule" /\ runs[j].by = "schedule" /\ runs[i].sch = runs[j].sch
          /\ i \notin lost' \cup cut' \cup denied' /\ runs[i].sch \notin tested') => runs[j].for > runs[i].at
  BY <1>1 DEF NoCatchUp, Scheduled
<1>10. \A k \in DOMAIN runs : runs[k].status = "claimed" => k \in cut' \cup denied' \/ \E t \in tests' : t.run = k
  BY <1>1, <1>6 DEF ClaimedIsInFlight, InFlight
<1>11. runs \in Seq(Run) /\ clock \in Nat /\ clock' = clock /\ clock <= clock
  BY <1>1 DEF Shape
<1>12. /\ runs' \in Seq(Run) /\ Len(runs) <= Len(runs')
       /\ tick' \in [now : Nat, due : SUBSET SeenAs, view : SeenAs \cup {None}, run : 0..Len(runs')]
       /\ Draining' /\ MovedOn' /\ NoCatchUp' /\ ClaimedIsInFlight'
  <2> HIDE DEF Inv
  <2> QED
    BY <1>1, <1>4, <1>5, <1>7, <1>8, <1>9, <1>10, <1>11, ProceedKeeps
<1>13. tests' \in SUBSET [view : SeenAs, run : DOMAIN runs']
  BY <1>1, <1>6, <1>12 DEF Shape
<1> QED
  BY <1>1, <1>2, <1>11, <1>12, <1>13 DEF Shape

LEMMA FinishRunKeeps ==
    ASSUME Inv, FinishRun
    PROVE  Inv'
<1> USE DEF Inv
<1> DEFINE v == tick.view
           s == v.sch
           next == NextRun(v.rule, tick.now)
           now == tick.now
<1>1. tick.run # 0 /\ UNCHANGED <<clock, file, tests, cut, tested>> /\ denied \subseteq denied'
  BY DEF FinishRun, Proceed, Denied
<1>2. /\ v \in SeenAs /\ s \in Sched /\ v.rule \in Rule /\ now \in Nat /\ now <= clock
      /\ clock \in Nat /\ tick.run \in DOMAIN runs /\ runs \in Seq(Run)
      /\ runs[tick.run].sch = s /\ runs[tick.run].at = now
  BY <1>1 DEF Shape, Draining, SeenAs
<1>3. SameRuns(runs, Ended(runs, tick.run)) /\ Ended(runs, tick.run)[tick.run].status # "claimed"
  BY <1>2, EndedIsSame
<1>4. CASE /\ ~Knows(s) /\ List /\ Abandoned(Ended(runs, tick.run))
           /\ lost' = lost \cup {tick.run}
  <2>1. /\ row' \in [Sched -> Rows \cup {None}] /\ cache' \in (SUBSET SeenAs) \cup {None}
        /\ CacheIsCurrent' /\ \A q \in Sched : Renewed(row[q], row'[q])
    BY <1>4, ListDoes
  <2>2. SameRuns(runs, runs') /\ runs'[tick.run].status # "claimed" /\ tick' = Idle
    BY <1>3, <1>4 DEF Abandoned
  <2>3. Draining' /\ MovedOn' /\ NoCatchUp'
    BY <1>1, <1>2, <1>4, <2>1, <2>2, EndingsKeep
  <2>4. ClaimedIsInFlight'
    BY <1>1, <2>2 DEF SameRuns, ClaimedIsInFlight, InFlight, Shape
  <2>5. Shape'
    BY <1>1, <2>1, <2>2 DEF Shape, SameRuns, Idle
  <2> QED
    BY <2>1, <2>3, <2>4, <2>5
<1>5. CASE /\ Knows(s) /\ Record(s, next, next = None)
           /\ Proceed(Ended(runs, tick.run), now, tick.due) /\ UNCHANGED lost
  <2> DEFINE rs == Ended(runs, tick.run)
  <2>1. next \in Nat \cup {None} /\ (next # None => now < next) /\ (next = None) \in BOOLEAN
    BY <1>2, NextRunIsLater
  <2>2. /\ row' \in [Sched -> Rows \cup {None}] /\ cache' \in (SUBSET SeenAs) \cup {None}
        /\ CacheIsCurrent' /\ \A q \in Sched \ {s} : Renewed(row[q], row'[q])
        /\ ListedRow[s] \in Rows /\ Renewed(Recorded(ListedRow[s], next, next = None), row'[s])
    BY <1>2, <1>5, <2>1, RecordDoes
  <2>3. /\ SameRuns(runs, rs) /\ rs[tick.run].status # "claimed" /\ rs \in Seq(Run)
        /\ DOMAIN rs = DOMAIN runs /\ DOMAIN runs = 1..Len(runs) /\ Len(rs) = Len(runs)
    BY <1>3, <1>2 DEF SameRuns
  <2> HIDE DEF rs
  <2>4. \A k \in DOMAIN rs : /\ rs[k].sch = runs[k].sch /\ rs[k].at = runs[k].at
                             /\ rs[k].by = runs[k].by /\ rs[k].for = runs[k].for
                             /\ rs[k].status = "claimed" => runs[k].status = "claimed"
                             /\ runs[k] \in Run
    BY <1>2, <2>3 DEF SameRuns
  <2>5. \A k \in DOMAIN rs : /\ rs[k].at \in Nat /\ rs[k].at <= clock /\ rs[k].sch \in Sched
                             /\ rs[k].by = "schedule" => rs[k].at <= now
    BY <1>1, <2>3, <2>4 DEF MovedOn, Draining, Scheduled, Run
  <2>6. ASSUME NEW k \in DOMAIN rs, rs[k].by = "schedule", k \notin lost' \cup cut' \cup denied', rs[k].sch \notin tested'
        PROVE  /\ row'[rs[k].sch] # None => Past(row'[rs[k].sch], rs[k].at)
               /\ \A u \in tick.due : u.sch = rs[k].sch => rs[k].at < u.next
    <3>1. k # tick.run => Settled(k)
      BY <1>1, <1>5, <2>3, <2>4, <2>6 DEF Settled, Scheduled
    <3>2. \A u \in tick.due : u.sch = rs[k].sch => rs[k].at < u.next
      BY <1>1, <1>2, <2>3, <2>4, <3>1 DEF MovedOn, Draining
    <3>3. CASE rs[k].sch = s
      <4>1. Past(Recorded(ListedRow[s], next, next = None), rs[k].at)
        <5>1. rs[k].at <= now /\ rs[k].at \in Nat
          BY <2>5, <2>6
        <5>2. next # None => rs[k].at < next
          <6> HIDE DEF next, now
          <6> QED
            BY <1>2, <2>1, <5>1, SchedulerNoneAssumption
        <5> QED
          BY <2>1, <2>2, <5>1, <5>2, RecordedIsPast
      <4> QED
        BY <2>2, <2>5, <3>2, <3>3, <4>1, RenewedIsPast
    <3>4. CASE rs[k].sch # s
      <4>1. Settled(k) /\ rs[k].sch \in Sched \ {s}
        BY <1>2, <2>3, <2>4, <2>5, <3>1, <3>4
      <4>2. row[rs[k].sch] # None => Past(row[rs[k].sch], rs[k].at)
        BY <2>3, <2>4, <4>1 DEF MovedOn
      <4> QED
        BY <2>2, <2>5, <3>2, <4>1, <4>2, RenewedIsPast
    <3> QED
      BY <3>3, <3>4
  <2>7. \A i, j \in DOMAIN rs :
           (/\ i < j /\ rs[i].by = "schedule" /\ rs[j].by = "schedule" /\ rs[i].sch = rs[j].sch
            /\ i \notin lost' \cup cut' \cup denied' /\ rs[i].sch \notin tested') => rs[j].for > rs[i].at
    BY <1>1, <1>5, <2>3, <2>4 DEF NoCatchUp, Scheduled
  <2>8. \A k \in DOMAIN rs : rs[k].status = "claimed" => k \in cut' \cup denied' \/ \E t \in tests' : t.run = k
    BY <1>1, <2>3, <2>4 DEF ClaimedIsInFlight, InFlight
  <2>9. /\ tick.due \in SUBSET SeenAs /\ clock' = clock
         /\ \A u, w \in tick.due : u.next \in Nat /\ (u.sch = w.sch => u = w)
    BY <1>1 DEF Shape, Draining
  <2>10. /\ runs' \in Seq(Run) /\ Len(rs) <= Len(runs')
         /\ tick' \in [now : Nat, due : SUBSET SeenAs, view : SeenAs \cup {None}, run : 0..Len(runs')]
         /\ Draining' /\ MovedOn' /\ NoCatchUp' /\ ClaimedIsInFlight'
    <3>1. Proceed(rs, now, tick.due)
      BY <1>5 DEF rs
    <3> HIDE DEF Inv, now
    <3> QED
      BY <1>2, <2>3, <2>5, <2>6, <2>7, <2>8, <2>9, <3>1, ProceedKeeps
  <2>11. tests' \in SUBSET [view : SeenAs, run : DOMAIN runs']
    BY <1>1, <2>3, <2>10 DEF Shape
  <2> QED
    BY <1>1, <1>2, <2>2, <2>10, <2>11 DEF Shape
<1> QED
  BY <1>4, <1>5 DEF FinishRun, NextAfter

LEMMA StartTestKeeps ==
    ASSUME Inv, NEW s \in Sched, StartTest(s)
    PROVE  Inv'
<1> USE DEF Inv
<1>1. PICK v \in Listed :
         /\ runs' = Append(runs, Claim(v, clock, "test"))
         /\ \/ tests' = tests \cup {[view |-> v, run |-> Len(runs) + 1]} /\ denied' = denied
            \/ tests' = tests /\ denied' = denied \cup {Len(runs) + 1}
  BY DEF StartTest, Denied
<1>2. List /\ UNCHANGED <<clock, file, tick, lost, cut, tested>> /\ denied \subseteq denied'
  BY <1>1 DEF StartTest
<1>3. /\ row' \in [Sched -> Rows \cup {None}] /\ cache' \in (SUBSET SeenAs) \cup {None}
      /\ CacheIsCurrent' /\ \A q \in Sched : Renewed(row[q], row'[q])
  BY <1>2, ListDoes
<1>4. v \in SeenAs /\ clock \in Nat /\ runs \in Seq(Run)
  BY ListedIsShown DEF Shown, Shape
<1>5. Claim(v, clock, "test") \in Run /\ Claim(v, clock, "test").at = clock
      /\ Claim(v, clock, "test").by = "test"
  BY <1>4, ClaimIsRun
<1> DEFINE new == Len(runs) + 1
<1>6. /\ runs' \in Seq(Run) /\ Len(runs') = Len(runs) + 1
      /\ \A i \in DOMAIN runs : runs'[i] = runs[i]
      /\ runs'[new] = Claim(v, clock, "test")
  BY <1>1, <1>4, <1>5, AppendProperties
<1>7. /\ new \in Nat /\ DOMAIN runs = 1..Len(runs) /\ Len(runs) \in Nat
      /\ DOMAIN runs' = DOMAIN runs \cup {new} /\ new \notin DOMAIN runs
  BY <1>4, <1>6
<1>8. runs'[new].by = "test" /\ runs'[new].at = clock
  BY <1>5, <1>6
<1>9. Shape'
  <2>1. tests' \in SUBSET [view : SeenAs, run : DOMAIN runs']
    BY <1>1, <1>4, <1>7 DEF Shape
  <2>2. tick' \in [now : Nat, due : SUBSET SeenAs, view : SeenAs \cup {None}, run : 0..Len(runs')]
    BY <1>2, <1>6, <1>7 DEF Shape
  <2> QED
    BY <1>2, <1>3, <1>6, <2>1, <2>2 DEF Shape
<1>10. \A k \in DOMAIN runs : runs[k].at \in Nat /\ runs[k].at <= clock /\ runs[k].sch \in Sched
  <2>1. \A k \in DOMAIN runs : runs[k] \in Run
    BY <1>4
  <2> QED
    BY <2>1 DEF MovedOn, Run
<1> HIDE DEF new
<1>11. Draining'
  <2>1. tick.run # 0 => tick.run \in DOMAIN runs
    BY <1>7 DEF Shape
  <2>2. tick.run # 0 => runs'[tick.run] = runs[tick.run]
    BY <1>6, <2>1
  <2>3. tick.run # 0 => \A i \in DOMAIN runs' : Scheduled(i)' => runs'[i].at <= tick.now
    BY <1>6, <1>7, <1>8 DEF Scheduled, Draining
  <2> QED
    BY <1>2, <2>2, <2>3 DEF Draining
<1>12. MovedOn'
  <2>1. \A k \in DOMAIN runs' : runs'[k].at <= clock'
    BY <1>2, <1>4, <1>6, <1>7, <1>8, <1>10
  <2>2. \A k \in DOMAIN runs' : Settled(k)' => k \in DOMAIN runs /\ Settled(k)
    BY <1>2, <1>6, <1>7, <1>8 DEF Settled, Scheduled
  <2>3. ASSUME NEW k \in DOMAIN runs', Settled(k)'
        PROVE  /\ row'[runs'[k].sch] # None => Past(row'[runs'[k].sch], runs'[k].at)
               /\ \A u \in tick'.due : u.sch = runs'[k].sch => runs'[k].at < u.next
    <3>1. k \in DOMAIN runs /\ Settled(k) /\ runs'[k] = runs[k]
      BY <1>6, <2>2, <2>3
    <3>2. row'[runs[k].sch] # None => Past(row'[runs[k].sch], runs[k].at)
      BY <1>3, <1>10, <3>1, RenewedIsPast DEF MovedOn
    <3> QED
      BY <1>2, <3>1, <3>2 DEF MovedOn
  <2> QED
    BY <2>1, <2>3 DEF MovedOn, Past, Active
<1>13. NoCatchUp'
  BY <1>2, <1>6, <1>7, <1>8 DEF NoCatchUp, Scheduled
<1>14. ClaimedIsInFlight'
  <2>1. tests \subseteq tests' /\ (new \in denied' \/ \E t \in tests' : t.run = new)
    <3>1. CASE tests' = tests \cup {[view |-> v, run |-> new]}
      <4>1. [view |-> v, run |-> new] \in tests' /\ [view |-> v, run |-> new].run = new
        BY <3>1
      <4> QED
        BY <3>1, <4>1
    <3>2. CASE tests' = tests /\ denied' = denied \cup {new}
      BY <3>2
    <3> QED
      BY <1>1, <3>1, <3>2 DEF new
  <2> QED
    BY <1>2, <1>6, <1>7, <2>1 DEF ClaimedIsInFlight, InFlight
<1> QED
  BY <1>3, <1>9, <1>11, <1>12, <1>13, <1>14

LEMMA FinishTestKeeps ==
    ASSUME Inv, NEW t \in tests, FinishTest(t)
    PROVE  Inv'
<1> USE DEF Inv
<1> DEFINE s == t.view.sch
<1>1. /\ tests' = tests \ {t} /\ tested' = tested \cup {s}
      /\ UNCHANGED <<clock, file, tick, cut, denied>> /\ lost \subseteq lost'
  BY DEF FinishTest
<1>2. /\ t.run \in DOMAIN runs /\ t.view \in SeenAs /\ s \in Sched /\ t.view.next \in Nat \cup {None}
      /\ runs \in Seq(Run)
  BY DEF Shape, SeenAs
<1>3. runs' = Ended(runs, t.run)
  BY DEF FinishTest
<1>4. SameRuns(runs, runs') /\ runs'[t.run].status # "claimed"
  BY <1>2, <1>3, EndedIsSame
<1>5. /\ row' \in [Sched -> Rows \cup {None}] /\ cache' \in (SUBSET SeenAs) \cup {None}
      /\ CacheIsCurrent' /\ \A q \in Sched \ {s} : Renewed(row[q], row'[q])
  <2>1. CASE Knows(s) /\ Record(s, t.view.next, FALSE)
    <3>1. \A stopped \in BOOLEAN : Record(s, t.view.next, stopped) =>
            /\ row' \in [Sched -> Rows \cup {None}] /\ cache' \in (SUBSET SeenAs) \cup {None}
            /\ CacheIsCurrent' /\ \A q \in Sched \ {s} : Renewed(row[q], row'[q])
      BY <1>2, <2>1, RecordDoes
    <3> HIDE DEF s, Inv
    <3> QED
      BY <2>1, <3>1, Zenon
  <2>2. CASE List
    BY <2>2, ListDoes
  <2> QED
    BY <2>1, <2>2 DEF FinishTest
<1>6. Draining' /\ MovedOn' /\ NoCatchUp'
  BY <1>1, <1>4, <1>5, EndingsKeep DEF Shape
<1>7. ClaimedIsInFlight'
  <2>1. DOMAIN runs' = DOMAIN runs
    BY <1>2, <1>4 DEF SameRuns
  <2>2. ASSUME NEW k \in DOMAIN runs, runs'[k].status = "claimed"
        PROVE  k \in cut' \cup denied' \/ k = tick'.run \/ \E u \in tests' : u.run = k
    <3>1. runs[k].status = "claimed" /\ k # t.run
      BY <1>4, <2>2 DEF SameRuns
    <3> QED
      BY <1>1, <3>1 DEF ClaimedIsInFlight, InFlight
  <2> QED
    BY <2>1, <2>2 DEF ClaimedIsInFlight, InFlight
<1>8. Shape'
  BY <1>1, <1>4, <1>5 DEF Shape, SameRuns
<1> QED
  BY <1>5, <1>6, <1>7, <1>8

LEMMA StopKeeps ==
    ASSUME Inv, Stop
    PROVE  Inv'
<1> USE DEF Inv
<1>1. /\ tick' = Idle /\ tests' = {} /\ cache' = None /\ cut' = cut \cup InFlight
      /\ UNCHANGED <<clock, file, row, runs, lost, denied, tested>>
  BY DEF Stop, stores
<1>2. tick.run = 0 \/ tick.run \in cut'
  BY <1>1 DEF InFlight, Shape
<1>3. SameRuns(runs, runs')
  BY <1>1, RunsAreThemselves
<1>4. Draining' /\ MovedOn' /\ NoCatchUp'
  BY <1>1, <1>2, <1>3, EndingsKeep DEF Shape, Renewed
<1>5. ClaimedIsInFlight'
  BY <1>1 DEF ClaimedIsInFlight
<1>6. Shape' /\ CacheIsCurrent'
  BY <1>1, RunsAreThemselves DEF Shape, Idle, CacheIsCurrent
<1> QED
  BY <1>4, <1>5, <1>6

LEMMA BootKeeps ==
    ASSUME Inv, NEW found \in BOOLEAN, Boot(found)
    PROVE  Inv'
<1> USE DEF Inv
<1>1. /\ cache' = None /\ runs' \in {runs, Interrupted(runs)}
      /\ UNCHANGED <<clock, file, row, tick, tests, lost, cut, denied, tested>>
  BY DEF Boot, history
<1>2. DOMAIN runs = 1..Len(runs) /\ Len(runs) \in Nat /\ \A i \in DOMAIN runs : runs[i] \in Run
  BY RunsAreThemselves DEF Shape
<1>3. SameRuns(runs, Interrupted(runs))
  <2> DEFINE new(i) == IF runs[i].status = "claimed" /\ Knows(runs[i].sch)
                       THEN [runs[i] EXCEPT !.status = "ended"] ELSE runs[i]
  <2>1. \A i \in DOMAIN runs :
           /\ new(i) \in Run /\ new(i).sch = runs[i].sch /\ new(i).for = runs[i].for
           /\ new(i).at = runs[i].at /\ new(i).by = runs[i].by
           /\ new(i).status = "claimed" => runs[i].status = "claimed"
    BY <1>2 DEF Run
  <2>2. Interrupted(runs) = [i \in 1..Len(runs) |-> new(i)]
    BY <1>2 DEF Interrupted
  <2> HIDE DEF new
  <2>3. Interrupted(runs) \in Seq(Run) /\ Len(Interrupted(runs)) = Len(runs)
    BY <1>2, <2>1, <2>2
  <2> QED
    BY <1>2, <2>1, <2>2, <2>3 DEF SameRuns
<1>4. SameRuns(runs, runs')
  BY <1>1, <1>3, RunsAreThemselves
<1>5. Draining' /\ MovedOn' /\ NoCatchUp'
  BY <1>1, <1>4, EndingsKeep DEF Shape, Renewed
<1>6. ClaimedIsInFlight'
  BY <1>1, <1>2, <1>4 DEF SameRuns, ClaimedIsInFlight, InFlight
<1>7. Shape' /\ CacheIsCurrent'
  BY <1>1, <1>2, <1>4 DEF Shape, SameRuns, CacheIsCurrent
<1> QED
  BY <1>5, <1>6, <1>7

-----------------------------------------------------------------------------
LEMMA InvInit == Init => Inv
<1> SUFFICES ASSUME Init PROVE Inv
  OBVIOUS
<1> USE DEF Init
<1>1. Shape
  BY DEF Shape, Idle
<1>2. CacheIsCurrent /\ ClaimedIsInFlight /\ MovedOn /\ NoCatchUp
  BY DEF CacheIsCurrent, ClaimedIsInFlight, MovedOn, NoCatchUp
<1>3. Draining
  BY DEF Draining, Idle
<1> QED
  BY <1>1, <1>2, <1>3 DEF Inv

LEMMA InvStep == Inv /\ [Next]_vars => Inv'
<1> SUFFICES ASSUME Inv, [Next]_vars PROVE Inv'
  OBVIOUS
<1>1. CASE ListSchedules \/ Pass \/ Prepare \/ UNCHANGED vars
  BY <1>1, OtherWritersKeep
<1>2. CASE Tick
  BY <1>2, TickKeeps
<1>3. CASE FinishRun
  BY <1>3, FinishRunKeeps
<1>4. CASE Stop
  BY <1>4, StopKeeps
<1>5. ASSUME NEW found \in BOOLEAN, Refresh(found) \/ Boot(found) PROVE Inv'
  BY <1>5, BootKeeps, OtherWritersKeep
<1>6. ASSUME NEW s \in Sched, Delete(s) \/ StartTest(s) \/ EditFile(s, None) PROVE Inv'
  BY <1>6, DeleteKeeps, StartTestKeeps, OtherWritersKeep
<1>7. ASSUME NEW s \in Sched, NEW def \in Definition[s], Define(s, def) \/ EditFile(s, def) PROVE Inv'
  <2>1. def \in Definitions
    BY DefinitionAssumption
  <2> QED
    BY <1>7, <2>1, DefineKeeps, OtherWritersKeep
<1>8. ASSUME NEW t \in tests, FinishTest(t) PROVE Inv'
  BY <1>8, FinishTestKeeps
<1> QED
  BY <1>1, <1>2, <1>3, <1>4, <1>5, <1>6, <1>7, <1>8 DEF Next

\* A run is followed by a run for a later time, though the schedule is edited,
\* deleted, found again or paused while its provider works, whatever the rules
\* and however many schedules wait for the same drain (drainDueSchedules).
THEOREM NoRunCatchesUp == Spec => []NoCatchUp
<1>1. Inv => NoCatchUp
  BY DEF Inv
<1> QED
  BY InvInit, InvStep, <1>1, PTL DEF Spec

\* A run in state "claimed" has a drain or a test that will end it, or the Host was
\* stopped under it, or what claimed it threw before it called the provider
\* (drainSingleHostSchedule, runHostScheduleTestForDashboard).
THEOREM ClaimsHaveOwners == Spec => []ClaimedIsInFlight
<1>1. Inv => ClaimedIsInFlight
  BY DEF Inv
<1> QED
  BY InvInit, InvStep, <1>1, PTL DEF Spec

\* The cache of listSchedules shows the rows as they are, whoever writes them.
THEOREM CacheTellsTheTruth == Spec => []CacheIsCurrent
<1>1. Inv => CacheIsCurrent
  BY DEF Inv
<1> QED
  BY InvInit, InvStep, <1>1, PTL DEF Spec
=============================================================================
