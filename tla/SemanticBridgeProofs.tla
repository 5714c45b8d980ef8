------------------------ MODULE SemanticBridgeProofs ------------------------
(***************************************************************************)
(* The safety properties of SemanticBridge and CompleteNotification, for   *)
(* any number of turns and events, any size of a batch, and any number of  *)
(* failing writes and restarts.                                            *)
(*                                                                         *)
(* The position of the bridge in a turn is the number of its events that   *)
(* are dealt with (Done); the events after it are, in this order, those of *)
(* the batch that is flushed and those of the queue (Shape).  Every step   *)
(* but the restart moves one turn (Moves); what the turn's rows, tool      *)
(* runs, deltas and notes owe to its position is then shown of any move.   *)
(***************************************************************************)
EXTENDS SemanticBridge, SequenceTheorems, TLAPS

AllKinds == Tools \cup {"text", "delta", "note"} \cup Completions
RowKinds == AllKinds \ {"delta"}
Row == [n : Nat, kind : RowKinds, parts : SUBSET Nat]
Batch == [events : Seq(Nat), at : Nat, committed : BOOLEAN, effects : Seq(Row)]
EventOfTurn == [turn : Turns, n : Nat, kind : AllKinds]

Types ==
    /\ emitted \in [Turns -> Seq(Kinds)] /\ queue \in [Turns -> Seq(Nat)]
    /\ timer \subseteq Turns /\ dead \subseteq Turns
    /\ flush \in [Turns -> Batch] /\ timeline \in [Turns -> Seq(Row)]

ToolTypes ==
    /\ deltas \in [Turns -> SUBSET Nat]
    /\ state \in [Turns -> [count : Nat, first : Nat, ref : BOOLEAN]]
    /\ DOMAIN runs \subseteq Turns \X Nat
    /\ runs \in [DOMAIN runs -> [kept : Seq(Nat), open : BOOLEAN]]

NoteTypes ==
    /\ pending \in Seq(EventOfTurn) /\ terminal \in Seq([turn : Turns, ok : BOOLEAN])
    /\ released \subseteq [event : EventOfTurn, how : {"muted", "sent"}]

-----------------------------------------------------------------------------
(* The position in a turn *)

Waiting(t) == flush[t].committed
Effects(t) == flush[t].effects

\* Events of a turn that were dealt with when the batch began, and are now.
Before(t) == Len(emitted[t]) - Len(queue[t]) - Len(flush[t].events)
Done(t) == IF Flushing(t) THEN Before(t) + flush[t].at - 1 ELSE Before(t)

\* A completion is the last event of its turn.
EndsOnce(t) == \A i, j \in DOMAIN emitted[t] : i < j => emitted[t][i] \notin Completions

\* The batch and the queue hold the events that are left, in their order.
Numbered(t) ==
    /\ Before(t) \in Nat
    /\ \A i \in DOMAIN queue[t] : queue[t][i] = Len(emitted[t]) - Len(queue[t]) + i
    /\ \A i \in DOMAIN flush[t].events : flush[t].events[i] = Before(t) + i

\* A queue has a timer or a flush, and nothing when its Host is gone.
Driven(t) ==
    /\ Flushing(t) => /\ t \notin timer /\ flush[t].events # <<>>
                      /\ flush[t].at # 0 /\ flush[t].at <= Len(flush[t].events) + 1
                      /\ Waiting(t) => flush[t].at <= Len(flush[t].events)
    /\ t \in timer => queue[t] # <<>>
    /\ t \in dead => queue[t] = <<>> /\ ~Flushing(t)

Shape(t) == EndsOnce(t) /\ Numbered(t) /\ Driven(t)

\* The place of a row in its turn: the row of a completion follows the text that
\* was collected for it.
Rank(r) == 2 * r.n + (IF r.kind \in Completions THEN 1 ELSE 0)

\* The rows s of the events e, d of which are dealt with; w: the next one is
\* written and its write has not come back.
Placed(e, s, d, w) ==
    \A i \in DOMAIN s :
       /\ s[i].n \in 1 .. d \/ (w /\ s[i].n = d + 1)
       /\ s[i].n \in DOMAIN e
       /\ s[i].kind = e[s[i].n] \/ (s[i].kind = "text" /\ e[s[i].n] = "ok")

Ranked(s) == \A i, j \in DOMAIN s : i < j => Rank(s[i]) < Rank(s[j])

WrittenNext(e, s, d, w) == w => \E i \in DOMAIN s : s[i].n = d + 1 /\ s[i].kind = e[d + 1]

\* The side effects x that have not run are those of the last rows, all of the
\* batch, which began after b events.
LastOf(s, x, b) ==
    /\ Len(x) <= Len(s)
    /\ \A i \in DOMAIN x : x[i] = s[Len(s) - Len(x) + i] /\ x[i].n > b

Timely(t) ==
    /\ Placed(emitted[t], timeline[t], Done(t), Waiting(t))
    /\ Ranked(timeline[t])
    /\ WrittenNext(emitted[t], timeline[t], Done(t), Waiting(t))
    /\ LastOf(timeline[t], Effects(t), Before(t))

-----------------------------------------------------------------------------
(* What depends on the position *)

\* The run that began with event f is open for more only while no other row of its
\* turn came after it.
Follows(e, s, f, d, w) ==
    \A i \in DOMAIN s :
       \/ s[i].n <= f \/ e[s[i].n] \in Completions
       \/ w /\ s[i].n = d + 1 /\ e[s[i].n] \notin Tools

Rooted(t) ==
    /\ state[t].count = 0 => state[t] = NoState
    /\ state[t].first # 0 => /\ <<t, state[t].first>> \in DOMAIN runs
                             /\ Follows(emitted[t], timeline[t], state[t].first, Done(t), Waiting(t))

\* The run that began with event f and keeps the events ks.
InRun(s, f, ks, d) ==
    /\ \E i \in DOMAIN s : s[i].n = f /\ s[i].kind \in Tools
    /\ f <= d
    /\ \A i \in DOMAIN ks : /\ f < ks[i] /\ ks[i] <= d
                            /\ \A j \in DOMAIN s : s[j].n <= f \/ ks[i] < s[j].n
    /\ \A i, j \in DOMAIN ks : i < j => ks[i] < ks[j]

RunsInOrder == \A r \in DOMAIN runs : InRun(timeline[r[1]], r[2], runs[r].kept, Done(r[1]))

\* The deltas since the last text before event n, and before now.
Since(e, s, n) ==
    {m \in DOMAIN e : m < n /\ e[m] = "delta"
                      /\ \A i \in DOMAIN s : s[i].kind = "text" /\ s[i].n < n => s[i].n < m}

\* Deltas are collected as long as nothing ended the text or the turn.
Collecting(e, d, w) ==
    /\ \A n \in DOMAIN e : n <= d => e[n] \notin Completions
    /\ w => e[d + 1] \notin {"text"} \cup Completions

Collected(t) ==
    t \notin dead /\ Collecting(emitted[t], Done(t), Waiting(t)) =>
       /\ deltas[t] \subseteq Since(emitted[t], timeline[t], Done(t) + 1)
       /\ deltas[t] = Since(emitted[t], timeline[t], Done(t) + 1) \/ Reported(t) # {}

\* The text collected for a completion.
Whole(e, s, failed) ==
    \A i \in DOMAIN s :
       s[i].kind = "text" /\ e[s[i].n] = "ok" =>
          \/ s[i].parts = Since(e, s, s[i].n)
          \/ s[i].parts \subseteq Since(e, s, s[i].n) /\ failed

\* The completion of the turn is in the room and its side effect has run or is lost.
Over(t) ==
    /\ Effects(t) = <<>>
    /\ \E i \in DOMAIN timeline[t] : timeline[t][i].kind \in Completions

\* A kept output n is the last of its turn, but for rows whose side effects are
\* still to run or were reported.
LastOutput(s, x, n, told) ==
    /\ \E i \in DOMAIN s : s[i].n = n /\ s[i].kind \in Notifiable
    /\ \A i \in DOMAIN s : \/ s[i].kind \notin Notifiable \/ s[i].n <= n
                           \/ s[i].n \in told \/ \E j \in DOMAIN x : s[i] = x[j]

Noted ==
    /\ \A p \in ToSet(pending) :
          LastOutput(timeline[p.turn], Effects(p.turn), p.n, Reported(p.turn))
    /\ \A r \in ToSet(terminal) : Over(r.turn)
    /\ \A r \in released : Over(r.event.turn)
    /\ NotificationIsDue

Inv ==
    /\ Types /\ ToolTypes /\ NoteTypes
    /\ \A t \in Turns : Shape(t) /\ Timely(t) /\ Rooted(t) /\ Collected(t)
                        /\ Whole(emitted[t], timeline[t], Reported(t) # {})
    /\ RunsInOrder /\ Noted

-----------------------------------------------------------------------------
(* The moves of a turn *)

Same(u) ==
    /\ emitted'[u] = emitted[u] /\ queue'[u] = queue[u] /\ flush'[u] = flush[u]
    /\ timeline'[u] = timeline[u] /\ (u \in timer' <=> u \in timer)

\* The events e become e2, the position d, w becomes d2, w2, and the rows rs are
\* written for the next event.
Advances(e, e2, d, d2, w, w2, rs) ==
    /\ Len(e) <= Len(e2) /\ \A i \in DOMAIN e : e2[i] = e[i]
    /\ d <= d2 /\ (w \/ rs # <<>> => w2 \/ d < d2)
    /\ w2 => d2 = d /\ (w \/ \E i \in DOMAIN rs : rs[i].n = d + 1 /\ rs[i].kind = e[d + 1])
    /\ rs # <<>> => ~w /\ d + 1 \in DOMAIN e /\ Ranked(rs)
    /\ \A i \in DOMAIN rs : /\ rs[i].n = d + 1
                            /\ (w2 /\ rs[i].kind = e[d + 1]) \/ (rs[i].kind = "text" /\ e[d + 1] = "ok")

Keeps(t, rs) == /\ Effects(t)' = Effects(t) \o rs
                /\ Effects(t)' # <<>> => Before(t)' = Before(t)

\* The side effects are lost: what the batch has dealt with is reported.
Loses(t) == /\ Effects(t)' = <<>> /\ ~Waiting(t)'
            /\ \A n \in Nat : Before(t) < n /\ n <= Done(t)' => n \in Reported(t)'

\* A side effect runs.
Drops(t, rs) == /\ rs = <<>> /\ Effects(t) # <<>> /\ Effects(t)' = Tail(Effects(t))
                /\ Before(t)' = Before(t)

Goes(t, rs) ==
    /\ \A u \in Turns \ {t} : Same(u)
    /\ dead' = dead /\ reported \subseteq reported' /\ Shape(t)' /\ rs \in Seq(Row)
    /\ timeline'[t] = timeline[t] \o rs
    /\ Advances(emitted[t], emitted'[t], Done(t), Done(t)', Waiting(t), Waiting(t)', rs)
    /\ Keeps(t, rs) \/ Loses(t) \/ Drops(t, rs)

Moves(t, rs) == Goes(t, rs) /\ (Keeps(t, rs) \/ Loses(t))

\* What becomes of the collected deltas c: nothing but tool events and notes is
\* passed, a delta or a text is, the batch aborts, or the turn ends.
Gathers(e, e2, c, c2, d, d2, w, w2, rs, failed) ==
    \/ /\ c2 = c /\ (w /\ ~w2 => e[d + 1] # "text")
       /\ \A n \in DOMAIN e2 : d < n /\ n <= d2 => e2[n] # "delta"
    \/ c2 = c \cup {d + 1} /\ ~w /\ ~w2 /\ d2 = d + 1 /\ d2 \in DOMAIN e /\ e[d2] = "delta" /\ rs = <<>>
    \/ c2 = {} /\ w /\ ~w2 /\ d2 = d + 1 /\ d2 \in DOMAIN e /\ e[d2] = "text"
    \/ c2 = c /\ ~w /\ ~w2 /\ failed /\ rs = <<>>
    \/ d + 1 \in DOMAIN e /\ e[d + 1] \in Completions /\ (w2 \/ d < d2)

Gathered(t, rs) ==
    /\ \A u \in Turns \ {t} : deltas'[u] = deltas[u]
    /\ Gathers(emitted[t], emitted'[t], deltas[t], deltas'[t], Done(t), Done(t)',
               Waiting(t), Waiting(t)', rs, Reported(t)' # {})
    /\ \A k \in DOMAIN rs : rs[k].kind = "text" /\ emitted[t][Done(t) + 1] = "ok" =>
          rs[k].parts = deltas[t] /\ t \notin dead

\* What becomes of the tool runs: nothing, a run counts one more, goes on or begins,
\* or all runs end.
Threads(t, rs) ==
    \/ /\ UNCHANGED tools /\ (Waiting(t) => Waiting(t)')
       /\ rs # <<>> => emitted[t][Done(t) + 1] \notin Tools
    \/ /\ state' = [state EXCEPT ![t].count = @ + 1] /\ UNCHANGED runs
       /\ ~Waiting(t) /\ (state[t].count = 0 \/ rs = <<>>)
    \/ /\ state' = [state EXCEPT ![t].count = @ + 1] /\ state[t].first # 0
       /\ runs' = [runs EXCEPT ![<<t, state[t].first>>].kept = Append(@, Done(t) + 1)]
       /\ ~Waiting(t) /\ ~Waiting(t)' /\ rs = <<>>
       /\ Done(t)' = Done(t) + 1 /\ Done(t)' \in DOMAIN emitted[t]
    \/ /\ Waiting(t) /\ ~Waiting(t)' /\ Done(t)' = Done(t) + 1 /\ rs = <<>>
       /\ emitted[t][Done(t)'] \in Tools
       /\ runs' = Registered(<<t, Done(t)'>>)
       /\ state' = [state EXCEPT ![t] = IF @ = NoState THEN @
                                        ELSE [@ EXCEPT !.first = Done(t)', !.ref = TRUE]]
    \/ /\ \A u \in Turns : state'[u] = NoState
       /\ DOMAIN runs' = DOMAIN runs /\ \A r \in DOMAIN runs : runs'[r].kept = runs[r].kept
       /\ rs = <<>>

-----------------------------------------------------------------------------
(* Positions *)

LEMMA TurnTypes ==
    ASSUME NEW t \in Turns, Types
    PROVE  /\ emitted[t] \in Seq(Kinds) /\ queue[t] \in Seq(Nat) /\ flush[t] \in Batch
           /\ flush[t].events \in Seq(Nat) /\ flush[t].at \in Nat
           /\ Waiting(t) \in BOOLEAN /\ Effects(t) \in Seq(Row)
           /\ timeline[t] \in Seq(Row)
           /\ Len(emitted[t]) \in Nat /\ Len(queue[t]) \in Nat /\ Len(flush[t].events) \in Nat
           /\ Len(timeline[t]) \in Nat /\ Len(Effects(t)) \in Nat
           /\ DOMAIN emitted[t] = 1 .. Len(emitted[t])
           /\ DOMAIN flush[t].events = 1 .. Len(flush[t].events)
           /\ DOMAIN queue[t] = 1 .. Len(queue[t])
           /\ DOMAIN timeline[t] = 1 .. Len(timeline[t])
           /\ DOMAIN Effects(t) = 1 .. Len(Effects(t))
<1>1. /\ emitted[t] \in Seq(Kinds) /\ queue[t] \in Seq(Nat) /\ flush[t] \in Batch
      /\ timeline[t] \in Seq(Row)
  BY DEF Types
<1>2. /\ flush[t].events \in Seq(Nat) /\ flush[t].at \in Nat
      /\ Waiting(t) \in BOOLEAN /\ Effects(t) \in Seq(Row)
  BY <1>1 DEF Batch, Waiting, Effects
<1> QED
  BY <1>1, <1>2

LEMMA Position ==
    ASSUME NEW t \in Turns, Types, Shape(t)
    PROVE  /\ Before(t) \in Nat /\ Done(t) \in Nat /\ Before(t) <= Done(t)
           /\ Done(t) <= Len(emitted[t])
           /\ Flushing(t) => Done(t) <= Before(t) + Len(flush[t].events)
           /\ ~Flushing(t) => /\ ~Waiting(t) /\ Effects(t) = <<>> /\ flush[t].events = <<>>
                              /\ Before(t) = Len(emitted[t]) - Len(queue[t])
<1>0. /\ emitted \in [Turns -> Seq(Kinds)] /\ queue \in [Turns -> Seq(Nat)]
      /\ flush \in [Turns -> Batch]
      /\ flush[t].events \in Seq(Nat) /\ flush[t].at \in Nat
  BY DEF Types, Batch
<1>1. Before(t) \in Nat /\ (Flushing(t) => flush[t].at # 0 /\ flush[t].at <= Len(flush[t].events) + 1)
  BY DEF Shape, Numbered, Driven
<1>2. ~Flushing(t) => ~Waiting(t) /\ Effects(t) = <<>> /\ flush[t].events = <<>>
  BY DEF Flushing, Idle, Waiting, Effects
<1>3. Before(t) + Len(flush[t].events) <= Len(emitted[t])
  BY <1>0, <1>1 DEF Before
<1>4. CASE Flushing(t)
  BY <1>0, <1>1, <1>3, <1>4 DEF Done
<1>5. CASE ~Flushing(t)
  <2>1. Before(t) = Len(emitted[t]) - Len(queue[t])
    BY <1>0, <1>2, <1>5 DEF Before
  <2> QED
    BY <1>0, <1>1, <1>2, <1>3, <1>5, <2>1 DEF Done
<1> QED
  BY <1>4, <1>5

LEMMA AtEvent ==
    ASSUME NEW t \in Turns, Types, Shape(t), Flushing(t), flush[t].at <= Len(flush[t].events)
    PROVE  /\ Done(t) + 1 \in DOMAIN emitted[t] /\ t \notin dead
           /\ Number(t) = Done(t) + 1 /\ Kind(t) = emitted[t][Done(t) + 1]
           /\ Number(t) \in Nat /\ Kind(t) \in Kinds
           /\ Done(t) + 1 <= Before(t) + Len(flush[t].events)
<1>0. /\ emitted \in [Turns -> Seq(Kinds)] /\ queue \in [Turns -> Seq(Nat)]
      /\ flush \in [Turns -> Batch]
      /\ flush[t].events \in Seq(Nat) /\ flush[t].at \in Nat
  BY DEF Types, Batch
<1>1. /\ Before(t) \in Nat /\ t \notin dead /\ flush[t].at # 0
      /\ \A i \in DOMAIN flush[t].events : flush[t].events[i] = Before(t) + i
  BY DEF Shape, Numbered, Driven
<1>2. flush[t].at \in DOMAIN flush[t].events
  BY <1>0, <1>1
<1>3. Number(t) = Before(t) + flush[t].at
  BY <1>1, <1>2 DEF Number
<1>4. Done(t) + 1 = Before(t) + flush[t].at
  BY <1>0, <1>1 DEF Done
<1>5. Before(t) + Len(flush[t].events) <= Len(emitted[t])
  BY <1>0, <1>1 DEF Before
<1>6. Done(t) + 1 \in DOMAIN emitted[t] /\ Done(t) + 1 <= Before(t) + Len(flush[t].events)
  BY <1>0, <1>1, <1>4, <1>5
<1>7. emitted[t][Done(t) + 1] \in Kinds
  BY <1>0, <1>6
<1> QED
  BY <1>0, <1>1, <1>3, <1>4, <1>6, <1>7 DEF Kind

LEMMA CompletionIsLast ==
    ASSUME NEW t \in Turns, Types, Shape(t), NEW n \in DOMAIN emitted[t],
           emitted[t][n] \in Completions
    PROVE  n = Len(emitted[t])
<1>1. \A i, j \in DOMAIN emitted[t] : i < j => emitted[t][i] \notin Completions
  BY DEF Shape, EndsOnce
<1>2. n \in Nat /\ Len(emitted[t]) \in DOMAIN emitted[t] /\ n <= Len(emitted[t])
  BY TurnTypes
<1> QED
  BY <1>1, <1>2

\* The batch goes on: an event is passed, or its write has come back.
LEMMA BatchGoesOn ==
    ASSUME NEW t \in Turns, Types, Shape(t), Flushing(t), flush' \in [Turns -> Batch],
           emitted' = emitted, queue' = queue, timer' = timer, dead' = dead,
           flush'[t].events = flush[t].events,
           flush'[t].at = flush[t].at \/ flush'[t].at = flush[t].at + 1,
           flush'[t].at <= Len(flush[t].events) + 1,
           Waiting(t)' => flush'[t].at <= Len(flush[t].events)
    PROVE  /\ Shape(t)' /\ Before(t)' = Before(t)
           /\ Done(t)' = Done(t) + (flush'[t].at - flush[t].at)
<1>0. /\ emitted \in [Turns -> Seq(Kinds)] /\ queue \in [Turns -> Seq(Nat)]
      /\ flush \in [Turns -> Batch]
      /\ flush[t].events \in Seq(Nat) /\ flush[t].at \in Nat /\ flush'[t].at \in Nat
  BY DEF Types, Batch
<1>1. /\ Before(t) \in Nat /\ flush[t].at # 0 /\ flush[t].events # <<>> /\ t \notin timer /\ t \notin dead
      /\ \A i \in DOMAIN queue[t] : queue[t][i] = Len(emitted[t]) - Len(queue[t]) + i
      /\ \A i \in DOMAIN flush[t].events : flush[t].events[i] = Before(t) + i
  BY DEF Shape, Numbered, Driven
<1>2. Before(t)' = Before(t)
  BY DEF Before
<1>3. flush'[t].at # 0 /\ Flushing(t)'
  BY <1>0, <1>1 DEF Flushing, Idle
<1>4. Done(t)' = Done(t) + (flush'[t].at - flush[t].at)
  BY <1>0, <1>1, <1>2, <1>3 DEF Done
<1>5. EndsOnce(t)'
  BY DEF Shape, EndsOnce
<1>6. Numbered(t)'
  BY <1>1, <1>2 DEF Numbered
<1>7. Driven(t)'
  BY <1>1, <1>3 DEF Driven
<1> QED
  BY <1>2, <1>4, <1>5, <1>6, <1>7 DEF Shape

\* The flush ends, with whatever is left of the batch.
LEMMA FlushGoes ==
    ASSUME NEW t \in Turns, Types, Shape(t), Flushing(t), EndFlush(t),
           emitted' = emitted, dead' = dead
    PROVE  /\ flush' \in [Turns -> Batch] /\ timer' \subseteq Turns
           /\ \A u \in Turns \ {t} : flush'[u] = flush[u] /\ (u \in timer' <=> u \in timer)
           /\ Shape(t)' /\ ~Waiting(t)' /\ Effects(t)' = <<>>
           /\ Done(t)' = Before(t) + Len(flush[t].events) /\ Before(t) < Done(t)'
<1>0. /\ emitted \in [Turns -> Seq(Kinds)] /\ queue \in [Turns -> Seq(Nat)]
      /\ flush \in [Turns -> Batch] /\ timer \subseteq Turns
      /\ flush[t].events \in Seq(Nat) /\ Idle \in Batch
  BY DEF Types, Batch, Idle
<1>1. /\ Before(t) \in Nat /\ flush[t].events # <<>> /\ t \notin dead /\ t \notin timer
      /\ \A i \in DOMAIN queue[t] : queue[t][i] = Len(emitted[t]) - Len(queue[t]) + i
  BY DEF Shape, Numbered, Driven
<1>2. /\ flush' = [flush EXCEPT ![t] = Idle] /\ queue' = queue
      /\ timer' = IF queue[t] = <<>> THEN timer ELSE timer \cup {t}
  BY DEF EndFlush, Rescheduled
<1>3. /\ flush' \in [Turns -> Batch] /\ timer' \subseteq Turns /\ flush'[t] = Idle
      /\ \A u \in Turns \ {t} : flush'[u] = flush[u] /\ (u \in timer' <=> u \in timer)
  BY <1>0, <1>2
<1>4. ~Flushing(t)' /\ ~Waiting(t)' /\ Effects(t)' = <<>> /\ flush'[t].events = <<>>
  BY <1>3 DEF Flushing, Waiting, Effects, Idle
<1>5. Before(t)' = Len(emitted[t]) - Len(queue[t])
  BY <1>0, <1>2, <1>4 DEF Before
<1>6. Len(emitted[t]) - Len(queue[t]) = Before(t) + Len(flush[t].events)
  BY <1>0, <1>1 DEF Before
<1>7. Done(t)' = Before(t) + Len(flush[t].events) /\ Before(t) < Done(t)'
  <2>1. Done(t)' = Before(t) + Len(flush[t].events)
    BY <1>4, <1>5, <1>6 DEF Done
  <2>2. Len(flush[t].events) \in Nat \ {0}
    BY <1>0, <1>1
  <2> QED
    BY <1>1, <2>1, <2>2
<1>8. EndsOnce(t)'
  BY DEF Shape, EndsOnce
<1>9. Numbered(t)'
  BY <1>0, <1>1, <1>2, <1>4, <1>5, <1>6 DEF Numbered
<1>10. Driven(t)'
  BY <1>1, <1>2, <1>4 DEF Driven
<1> QED
  BY <1>3, <1>4, <1>7, <1>8, <1>9, <1>10 DEF Shape

LEMMA BatchSplits ==
    ASSUME NEW q \in Seq(Nat), q # <<>>
    PROVE  \E b, rest \in Seq(Nat) :
              /\ Started(q) = [events |-> b, at |-> 1, committed |-> FALSE, effects |-> <<>>]
              /\ Left(q) = rest /\ b # <<>> /\ Len(b) + Len(rest) = Len(q)
              /\ \A i \in DOMAIN b : b[i] = q[i]
              /\ \A i \in DOMAIN rest : rest[i] = q[Len(b) + i]
<1>1. /\ MaxBatch \in Nat /\ MaxBatch > 0 /\ Len(q) \in Nat /\ Len(q) > 0
      /\ DOMAIN q = 1 .. Len(q) /\ \A i \in 1 .. Len(q) : q[i] \in Nat
  BY BridgeAssumption
<1>2. PICK n \in Nat : /\ n > 0 /\ n <= Len(q) /\ (n = MaxBatch \/ (n = Len(q) /\ n < MaxBatch))
                       /\ Started(q) = [Idle EXCEPT !.events = SubSeq(q, 1, n), !.at = 1]
  <2>1. CASE Len(q) < MaxBatch
    <3>1. Started(q) = [Idle EXCEPT !.events = SubSeq(q, 1, Len(q)), !.at = 1]
      BY <2>1, Zenon DEF Started
    <3>2. Len(q) \in Nat /\ Len(q) > 0 /\ Len(q) <= Len(q)
      BY <1>1
    <3>3. Len(q) = Len(q) /\ Len(q) < MaxBatch
      BY <2>1, Zenon
    <3> QED
      BY <3>1, <3>2, <3>3, Zenon
  <2>2. CASE ~(Len(q) < MaxBatch)
    <3>1. Started(q) = [Idle EXCEPT !.events = SubSeq(q, 1, MaxBatch), !.at = 1]
      BY <2>2, Zenon DEF Started
    <3>2. MaxBatch \in Nat /\ MaxBatch > 0 /\ MaxBatch <= Len(q)
      BY <1>1, <2>2
    <3> QED
      BY <3>1, <3>2, Zenon
  <2> QED
    BY <2>1, <2>2
<1>3. /\ SubSeq(q, 1, n) \in Seq(Nat) /\ Len(SubSeq(q, 1, n)) = n
      /\ \A i \in 1 .. n : SubSeq(q, 1, n)[i] = q[i]
  BY <1>1, <1>2
<1>4. /\ Left(q) \in Seq(Nat) /\ Len(Left(q)) = Len(q) - n
      /\ \A i \in 1 .. Len(q) - n : Left(q)[i] = q[n + i]
  <2>1. CASE n # MaxBatch \/ n = Len(q)
    <3>1. Left(q) = <<>> /\ Len(q) - n = 0
      BY <1>1, <1>2, <2>1 DEF Left
    <3> QED
      BY <3>1
  <2>2. CASE n = MaxBatch /\ n # Len(q)
    <3>1. n + 1 \in Int /\ Len(q) \in Int /\ \A i \in n + 1 .. Len(q) : q[i] \in Nat
      BY <1>1
    <3>2. /\ SubSeq(q, n + 1, Len(q)) \in Seq(Nat)
          /\ \A i \in 1 .. Len(q) - (n + 1) + 1 : SubSeq(q, n + 1, Len(q))[i] = q[n + 1 + i - 1]
      BY <3>1, SubSeqProperties
    <3>3. Len(SubSeq(q, n + 1, Len(q))) = Len(q) - n
      <4>1. n + 1 <= Len(q) /\ Len(q) - (n + 1) + 1 = Len(q) - n
        BY <1>1, <1>2, <2>2
      <4>2. Len(SubSeq(q, n + 1, Len(q))) = Len(q) - (n + 1) + 1
        BY <3>1, <4>1, SubSeqProperties, Zenon
      <4> QED
        BY <4>1, <4>2
    <3>4. ASSUME NEW i \in 1 .. Len(q) - n PROVE Left(q)[i] = q[n + i]
      <4>1. i \in 1 .. Len(q) - (n + 1) + 1 /\ n + 1 + i - 1 = n + i
        BY <1>1, <1>2
      <4> QED
        BY <2>2, <3>2, <4>1 DEF Left
    <3> QED
      BY <2>2, <3>2, <3>3, <3>4 DEF Left
  <2> QED
    BY <2>1, <2>2
<1>5. Started(q) = [events |-> SubSeq(q, 1, n), at |-> 1, committed |-> FALSE, effects |-> <<>>]
  BY <1>2 DEF Idle
<1> DEFINE b == SubSeq(q, 1, n)
           rest == Left(q)
<1>6. /\ b \in Seq(Nat) /\ rest \in Seq(Nat) /\ Len(b) = n /\ Len(rest) = Len(q) - n
      /\ \A i \in 1 .. n : b[i] = q[i]
      /\ \A i \in 1 .. Len(q) - n : rest[i] = q[n + i]
  BY <1>3, <1>4
<1>7. Started(q) = [events |-> b, at |-> 1, committed |-> FALSE, effects |-> <<>>] /\ Left(q) = rest
  BY <1>5
<1> HIDE DEF b, rest
<1>8. /\ b # <<>> /\ Len(b) + Len(rest) = Len(q)
      /\ \A i \in DOMAIN b : b[i] = q[i]
      /\ \A i \in DOMAIN rest : rest[i] = q[Len(b) + i]
  BY <1>1, <1>2, <1>6
<1> QED
  BY <1>6, <1>7, <1>8

LEMMA FlushBegins ==
    ASSUME NEW t \in Turns, Types, Shape(t), ~Flushing(t), NEW q \in Seq(Nat), q # <<>>,
           FlushNow(t, q), emitted' \in [Turns -> Seq(Kinds)], EndsOnce(t)',
           dead' = dead, t \notin dead,
           Len(q) <= Len(emitted'[t]),
           \A i \in DOMAIN q : q[i] = Len(emitted'[t]) - Len(q) + i
    PROVE  /\ flush' \in [Turns -> Batch] /\ queue' \in [Turns -> Seq(Nat)]
           /\ timer' \subseteq Turns
           /\ \A u \in Turns \ {t} : /\ flush'[u] = flush[u] /\ queue'[u] = queue[u]
                                    /\ (u \in timer' <=> u \in timer)
           /\ Shape(t)' /\ ~Waiting(t)' /\ Effects(t)' = <<>>
           /\ Done(t)' = Len(emitted'[t]) - Len(q)
<1>0. /\ queue \in [Turns -> Seq(Nat)] /\ flush \in [Turns -> Batch] /\ timer \subseteq Turns
  BY DEF Types
<1>1. PICK b, rest \in Seq(Nat) :
        /\ Started(q) = [events |-> b, at |-> 1, committed |-> FALSE, effects |-> <<>>]
        /\ Left(q) = rest /\ b # <<>> /\ Len(b) + Len(rest) = Len(q)
        /\ \A i \in DOMAIN b : b[i] = q[i]
        /\ \A i \in DOMAIN rest : rest[i] = q[Len(b) + i]
  BY BatchSplits
<1> DEFINE start == [events |-> b, at |-> 1, committed |-> FALSE, effects |-> <<>>]
<1>2. /\ flush' = [flush EXCEPT ![t] = start] /\ queue' = [queue EXCEPT ![t] = rest]
      /\ timer' = timer \ {t}
  BY <1>1 DEF FlushNow
<1>3. start \in Batch
  BY DEF Batch
<1>4. /\ flush' \in [Turns -> Batch] /\ queue' \in [Turns -> Seq(Nat)] /\ timer' \subseteq Turns
      /\ flush'[t] = start /\ queue'[t] = rest
      /\ \A u \in Turns \ {t} : /\ flush'[u] = flush[u] /\ queue'[u] = queue[u]
                               /\ (u \in timer' <=> u \in timer)
  BY <1>0, <1>2, <1>3
<1>5. /\ flush'[t].events = b /\ flush'[t].at = 1 /\ flush'[t].committed = FALSE
      /\ flush'[t].effects = <<>>
  BY <1>4
<1>6. Flushing(t)' /\ ~Waiting(t)' /\ Effects(t)' = <<>>
  BY <1>5 DEF Flushing, Idle, Waiting, Effects
<1>e. PICK e \in Seq(Kinds) : e = emitted'[t]
  OBVIOUS
<1>7. Len(q) <= Len(e) /\ \A i \in DOMAIN q : q[i] = Len(e) - Len(q) + i
  BY <1>e, Zenon
<1>8. Before(t)' = Len(e) - Len(rest) - Len(b)
  BY <1>4, <1>5, <1>e DEF Before
<1>9. /\ Len(b) \in Nat /\ Len(e) \in Nat /\ Len(rest) \in Nat /\ Len(q) \in Nat
      /\ DOMAIN b = 1 .. Len(b) /\ DOMAIN rest = 1 .. Len(rest) /\ DOMAIN q = 1 .. Len(q)
  BY <1>7
<1>a. Len(b) > 0
  BY <1>1
<1>b. Len(b) + Len(rest) = Len(q) /\ Len(q) <= Len(e)
  BY <1>1, <1>7, Zenon
<1>d. /\ Len(e) - Len(rest) - Len(b) = Len(e) - Len(q) /\ Len(e) - Len(q) \in Nat
      /\ \A i \in Nat : Len(e) - Len(q) + (Len(b) + i) = Len(e) - Len(rest) + i
  <2>1. PICK k, l, m, n \in Nat : k = Len(e) /\ l = Len(q) /\ m = Len(b) /\ n = Len(rest)
    BY <1>9, Zenon
  <2>2. m + n = l /\ l <= k
    BY <1>b, <2>1, Zenon
  <2>3. /\ k - n - m = k - l /\ k - l \in Nat
        /\ \A i \in Nat : k - l + (m + i) = k - n + i
    BY <2>2
  <2> QED
    BY <2>1, <2>3, Zenon
<1>10. Before(t)' = Len(e) - Len(q) /\ Before(t)' \in Nat
  BY <1>8, <1>d, Zenon
<1>11. Done(t)' = Len(e) - Len(q)
  BY <1>5, <1>6, <1>9, <1>10 DEF Done
<1>12. ASSUME NEW i \in DOMAIN rest PROVE rest[i] = Len(e) - Len(rest) + i
  <2>1. i \in Nat /\ Len(b) + i \in DOMAIN q
    BY <1>9, <1>b
  <2>2. rest[i] = q[Len(b) + i]
    BY <1>1, Zenon
  <2>3. q[Len(b) + i] = Len(e) - Len(q) + (Len(b) + i)
    BY <1>7, <2>1, Zenon
  <2>4. Len(e) - Len(q) + (Len(b) + i) = Len(e) - Len(rest) + i
    BY <1>d, <2>1, Zenon
  <2> QED
    BY <2>2, <2>3, <2>4, Zenon
<1>13. ASSUME NEW i \in DOMAIN b PROVE b[i] = Len(e) - Len(q) + i
  <2>1. i \in DOMAIN q
    BY <1>9, <1>b
  <2> QED
    BY <1>1, <1>7, <2>1, Zenon
<1>14. Numbered(t)'
  BY <1>4, <1>5, <1>10, <1>12, <1>13, <1>e DEF Numbered
<1>15. Driven(t)'
  BY <1>1, <1>2, <1>4, <1>5, <1>6, <1>9, <1>a DEF Driven
<1> QED
  BY <1>4, <1>6, <1>11, <1>14, <1>15, <1>e DEF Shape

-----------------------------------------------------------------------------
(* Rows *)

LEMMA Joined ==
    ASSUME NEW S, NEW s \in Seq(S), NEW rs \in Seq(S)
    PROVE  /\ s \o rs \in Seq(S) /\ Len(s \o rs) = Len(s) + Len(rs)
           /\ \A i \in DOMAIN s : i \in DOMAIN (s \o rs) /\ (s \o rs)[i] = s[i]
           /\ \A k \in DOMAIN rs : /\ Len(s) + k \in DOMAIN (s \o rs)
                                   /\ (s \o rs)[Len(s) + k] = rs[k]
           /\ \A i \in DOMAIN (s \o rs) :
                 \/ i \in DOMAIN s /\ (s \o rs)[i] = s[i]
                 \/ \E k \in DOMAIN rs : i = Len(s) + k /\ (s \o rs)[i] = rs[k]
<1>1. /\ s \o rs \in Seq(S) /\ Len(s \o rs) = Len(s) + Len(rs)
      /\ \A i \in 1 .. Len(s) + Len(rs) :
            (s \o rs)[i] = IF i <= Len(s) THEN s[i] ELSE rs[i - Len(s)]
  BY ConcatProperties
<1>2. /\ Len(s) \in Nat /\ Len(rs) \in Nat /\ DOMAIN s = 1 .. Len(s) /\ DOMAIN rs = 1 .. Len(rs)
      /\ DOMAIN (s \o rs) = 1 .. Len(s) + Len(rs)
  BY <1>1
<1>3. ASSUME NEW i \in DOMAIN s PROVE i \in DOMAIN (s \o rs) /\ (s \o rs)[i] = s[i]
  BY <1>1, <1>2
<1>4. ASSUME NEW k \in DOMAIN rs
      PROVE  Len(s) + k \in DOMAIN (s \o rs) /\ (s \o rs)[Len(s) + k] = rs[k]
  <2>1. /\ Len(s) + k \in 1 .. Len(s) + Len(rs) /\ ~(Len(s) + k <= Len(s))
        /\ Len(s) + k - Len(s) = k
    BY <1>2
  <2> QED
    BY <1>1, <1>2, <2>1
<1>5. ASSUME NEW i \in DOMAIN (s \o rs), i \notin DOMAIN s
      PROVE  \E k \in DOMAIN rs : i = Len(s) + k /\ (s \o rs)[i] = rs[k]
  <2>1. i - Len(s) \in DOMAIN rs /\ i = Len(s) + (i - Len(s))
    BY <1>2, <1>5
  <2>2. (s \o rs)[Len(s) + (i - Len(s))] = rs[i - Len(s)]
    BY <1>4, <2>1
  <2> QED
    BY <2>1, <2>2
<1> QED
  BY <1>1, <1>3, <1>4, <1>5

\* The same of rows, with nothing to find.
LEMMA JoinedRows ==
    ASSUME NEW s \in Seq(Row), NEW rs \in Seq(Row), NEW i \in DOMAIN (s \o rs)
    PROVE  \/ i \in DOMAIN s /\ (s \o rs)[i] = s[i]
           \/ \E k \in DOMAIN rs : i = Len(s) + k /\ (s \o rs)[i] = rs[k]
BY Joined

LEMMA RowTypes ==
    ASSUME NEW s \in Seq(Row), NEW i \in DOMAIN s
    PROVE  s[i] \in Row /\ s[i].n \in Nat /\ s[i].kind \in RowKinds /\ s[i].parts \subseteq Nat
<1>1. s[i] \in Row
  OBVIOUS
<1> QED
  BY <1>1 DEF Row

LEMMA PlacedMoves ==
    ASSUME NEW e \in Seq(AllKinds), NEW e2 \in Seq(AllKinds), NEW s \in Seq(Row), NEW rs \in Seq(Row),
           NEW d \in Nat, NEW d2 \in Nat, NEW w \in BOOLEAN, NEW w2 \in BOOLEAN,
           Placed(e, s, d, w), Advances(e, e2, d, d2, w, w2, rs)
    PROVE  Placed(e2, s \o rs, d2, w2)
<1>1. /\ DOMAIN e \subseteq DOMAIN e2 /\ \A i \in DOMAIN e : e2[i] = e[i]
      /\ d <= d2 /\ (w2 => d2 = d) /\ (w \/ rs # <<>> => w2 \/ d < d2)
      /\ (rs # <<>> => d + 1 \in DOMAIN e)
      /\ \A i \in DOMAIN rs : /\ rs[i].n = d + 1
                              /\ rs[i].kind = e[d + 1] \/ (rs[i].kind = "text" /\ e[d + 1] = "ok")
  BY DEF Advances
<1> SUFFICES ASSUME NEW i \in DOMAIN (s \o rs)
             PROVE  LET r == (s \o rs)[i] IN
                    /\ r.n \in 1 .. d2 \/ (w2 /\ r.n = d2 + 1)
                    /\ r.n \in DOMAIN e2
                    /\ r.kind = e2[r.n] \/ (r.kind = "text" /\ e2[r.n] = "ok")
  BY DEF Placed
<1>2. CASE i \in DOMAIN s /\ (s \o rs)[i] = s[i]
  <2>1. /\ s[i].n \in 1 .. d \/ (w /\ s[i].n = d + 1)
        /\ s[i].n \in DOMAIN e
        /\ s[i].kind = e[s[i].n] \/ (s[i].kind = "text" /\ e[s[i].n] = "ok")
    BY <1>2 DEF Placed
  <2>2. PICK n \in Nat : n = s[i].n
    BY <1>2, RowTypes
  <2>3. n \in 1 .. d2 \/ (w2 /\ n = d2 + 1)
    BY <1>1, <2>1, <2>2
  <2> QED
    BY <1>1, <1>2, <2>1, <2>2, <2>3
<1>3. CASE \E k \in DOMAIN rs : i = Len(s) + k /\ (s \o rs)[i] = rs[k]
  <2>1. PICK k \in DOMAIN rs : (s \o rs)[i] = rs[k]
    BY <1>3
  <2>2. rs # <<>>
    BY <2>1
  <2>3. rs[k].n = d + 1 /\ (d + 1 \in 1 .. d2 \/ (w2 /\ d + 1 = d2 + 1))
    BY <1>1, <2>1, <2>2
  <2> QED
    BY <1>1, <2>1, <2>2, <2>3
<1> QED
  BY <1>2, <1>3, JoinedRows, Zenon

LEMMA RankBounds ==
    ASSUME NEW r \in Row
    PROVE  Rank(r) \in Nat /\ 2 * r.n <= Rank(r) /\ Rank(r) <= 2 * r.n + 1
<1>1. r.n \in Nat
  BY DEF Row
<1>2. CASE r.kind \in Completions
  <2>1. Rank(r) = 2 * r.n + 1
    BY <1>2, Zenon DEF Rank
  <2> QED
    BY <1>1, <2>1
<1>3. CASE r.kind \notin Completions
  <2>1. Rank(r) = 2 * r.n + 0
    BY <1>3, Zenon DEF Rank
  <2> QED
    BY <1>1, <2>1
<1> QED
  BY <1>2, <1>3

LEMMA RankedMoves ==
    ASSUME NEW e \in Seq(AllKinds), NEW e2 \in Seq(AllKinds), NEW s \in Seq(Row), NEW rs \in Seq(Row),
           NEW d \in Nat, NEW d2 \in Nat, NEW w \in BOOLEAN, NEW w2 \in BOOLEAN,
           Placed(e, s, d, w), Ranked(s), Advances(e, e2, d, d2, w, w2, rs)
    PROVE  Ranked(s \o rs)
<1>1. CASE rs = <<>>
  <2>1. s \o rs = s
    BY <1>1, ConcatEmptySeq
  <2> QED
    BY <2>1
<1>2. CASE rs # <<>>
  <2>1. ~w /\ Ranked(rs) /\ \A k \in DOMAIN rs : rs[k].n = d + 1
    BY <1>2 DEF Advances
  <2> SUFFICES ASSUME NEW i \in DOMAIN (s \o rs), NEW j \in DOMAIN (s \o rs), i < j
               PROVE  Rank((s \o rs)[i]) < Rank((s \o rs)[j])
    BY DEF Ranked
  <2>2. /\ i \in Nat /\ j \in Nat /\ Len(s) \in Nat /\ DOMAIN s = 1 .. Len(s)
        /\ DOMAIN rs = 1 .. Len(rs) /\ Len(rs) \in Nat
    BY Joined
  <2>3. CASE i \in DOMAIN s /\ j \in DOMAIN s
    BY <2>3, Joined DEF Ranked
  <2>4. CASE i \in DOMAIN s /\ j \notin DOMAIN s
    <3>1. PICK k \in DOMAIN rs : (s \o rs)[j] = rs[k]
      BY <2>4, JoinedRows, Zenon
    <3>2. s[i].n <= d /\ s[i] \in Row /\ s[i].n \in Nat
      BY <2>1, <2>4, RowTypes DEF Placed
    <3>3. rs[k].n = d + 1 /\ rs[k] \in Row
      BY <2>1, RowTypes
    <3>4. PICK n \in Nat : n = s[i].n
      BY <3>2
    <3>5. PICK l \in Nat : l = Rank(s[i]) /\ l <= 2 * n + 1
      BY <3>2, <3>4, RankBounds
    <3>6. PICK m \in Nat : m = Rank(rs[k]) /\ 2 * (d + 1) <= m
      BY <3>3, RankBounds
    <3>7. n <= d
      BY <3>2, <3>4
    <3>8. l < m
      BY <3>5, <3>6, <3>7
    <3>9. (s \o rs)[i] = s[i]
      BY <2>4, Joined
    <3> QED
      BY <3>1, <3>5, <3>6, <3>8, <3>9, Zenon
  <2>5. CASE i \notin DOMAIN s
    <3>1. PICK k \in DOMAIN rs : i = Len(s) + k /\ (s \o rs)[i] = rs[k]
      BY <2>5, JoinedRows, Zenon
    <3>2. j \notin DOMAIN s
      BY <2>2, <2>5, <3>1
    <3>3. PICK l \in DOMAIN rs : j = Len(s) + l /\ (s \o rs)[j] = rs[l]
      BY <3>2, JoinedRows, Zenon
    <3>4. k < l
      BY <2>2, <3>1, <3>3
    <3> QED
      BY <2>1, <3>1, <3>3, <3>4, Zenon DEF Ranked
  <2> QED
    BY <2>3, <2>4, <2>5
<1> QED
  BY <1>1, <1>2

LEMMA WrittenNextMoves ==
    ASSUME NEW e \in Seq(AllKinds), NEW e2 \in Seq(AllKinds), NEW s \in Seq(Row), NEW rs \in Seq(Row),
           NEW d \in Nat, NEW d2 \in Nat, NEW w \in BOOLEAN, NEW w2 \in BOOLEAN,
           Placed(e, s, d, w), WrittenNext(e, s, d, w), Advances(e, e2, d, d2, w, w2, rs)
    PROVE  WrittenNext(e2, s \o rs, d2, w2)
<1>1. /\ DOMAIN e \subseteq DOMAIN e2 /\ \A i \in DOMAIN e : e2[i] = e[i]
      /\ (w2 => d2 = d /\ (w \/ \E i \in DOMAIN rs : rs[i].n = d + 1 /\ rs[i].kind = e[d + 1]))
      /\ (rs # <<>> => d + 1 \in DOMAIN e)
  BY DEF Advances
<1> SUFFICES ASSUME w2 PROVE \E i \in DOMAIN (s \o rs) :
                (s \o rs)[i].n = d2 + 1 /\ (s \o rs)[i].kind = e2[d2 + 1]
  BY DEF WrittenNext
<1>2. CASE w
  <2>1. PICK i \in DOMAIN s : s[i].n = d + 1 /\ s[i].kind = e[d + 1]
    BY <1>2 DEF WrittenNext
  <2>2. s[i].n \in DOMAIN e
    BY DEF Placed
  <2>3. i \in DOMAIN (s \o rs) /\ (s \o rs)[i] = s[i]
    BY Joined
  <2> QED
    BY <1>1, <2>1, <2>2, <2>3
<1>3. CASE ~w
  <2>1. PICK i \in DOMAIN rs : rs[i].n = d + 1 /\ rs[i].kind = e[d + 1]
    BY <1>1, <1>3
  <2>2. d + 1 \in DOMAIN e
    BY <1>1, <2>1
  <2>3. Len(s) + i \in DOMAIN (s \o rs) /\ (s \o rs)[Len(s) + i] = rs[i]
    BY Joined
  <2> QED
    BY <1>1, <2>1, <2>2, <2>3
<1> QED
  BY <1>2, <1>3

LEMMA LastOfKeeps ==
    ASSUME NEW s \in Seq(Row), NEW rs \in Seq(Row), NEW x \in Seq(Row),
           NEW b \in Nat, NEW d \in Nat, b <= d, LastOf(s, x, b),
           \A k \in DOMAIN rs : rs[k].n = d + 1
    PROVE  LastOf(s \o rs, x \o rs, b)
<1>1. PICK l \in Nat : l = Len(s)
  OBVIOUS
<1>2. PICK m \in Nat : m = Len(x)
  OBVIOUS
<1>3. PICK n \in Nat : n = Len(rs)
  OBVIOUS
<1>4. Len(s \o rs) = l + n /\ Len(x \o rs) = m + n
  BY <1>1, <1>2, <1>3, Joined
<1>5. m <= l /\ \A i \in DOMAIN x : x[i] = s[l - m + i] /\ x[i].n > b
  BY <1>1, <1>2 DEF LastOf
<1>6. l + n - (m + n) = l - m /\ m + n <= l + n
  BY <1>5
<1>7. DOMAIN s = 1 .. l /\ DOMAIN x = 1 .. m /\ DOMAIN rs = 1 .. n
  BY <1>1, <1>2, <1>3
<1>8. ASSUME NEW i \in DOMAIN (x \o rs)
      PROVE  (x \o rs)[i] = (s \o rs)[l - m + i] /\ (x \o rs)[i].n > b
  <2>1. CASE i \in DOMAIN x /\ (x \o rs)[i] = x[i]
    <3>1. l - m + i \in DOMAIN s
      BY <1>5, <1>7, <2>1
    <3>2. (s \o rs)[l - m + i] = s[l - m + i]
      BY <3>1, Joined
    <3> QED
      BY <1>5, <2>1, <3>2
  <2>2. CASE \E k \in DOMAIN rs : i = Len(x) + k /\ (x \o rs)[i] = rs[k]
    <3>1. PICK k \in DOMAIN rs : i = m + k /\ (x \o rs)[i] = rs[k]
      BY <1>2, <2>2
    <3>2. l - m + i = l + k
      BY <1>7, <3>1
    <3>3. (s \o rs)[l + k] = rs[k]
      BY <1>1, Joined
    <3>4. rs[k].n = d + 1 /\ d + 1 > b
      OBVIOUS
    <3> QED
      BY <3>1, <3>2, <3>3, <3>4
  <2> QED
    BY <2>1, <2>2, JoinedRows, Zenon
<1> QED
  BY <1>4, <1>6, <1>8 DEF LastOf

LEMMA LastOfDrops ==
    ASSUME NEW s \in Seq(Row), NEW x \in Seq(Row), x # <<>>, NEW b \in Nat, LastOf(s, x, b)
    PROVE  LastOf(s, Tail(x), b)
<1>1. PICK l \in Nat : l = Len(s)
  OBVIOUS
<1>2. PICK m \in Nat : m = Len(x)
  OBVIOUS
<1>3. m > 0 /\ Len(Tail(x)) = m - 1 /\ DOMAIN Tail(x) = 1 .. m - 1 /\ DOMAIN x = 1 .. m
      /\ \A i \in 1 .. m - 1 : Tail(x)[i] = x[i + 1]
  BY <1>2
<1>4. m <= l /\ \A i \in DOMAIN x : x[i] = s[l - m + i] /\ x[i].n > b
  BY <1>1, <1>2 DEF LastOf
<1>5. ASSUME NEW i \in DOMAIN Tail(x) PROVE Tail(x)[i] = s[l - (m - 1) + i] /\ Tail(x)[i].n > b
  <2>1. i + 1 \in DOMAIN x /\ Tail(x)[i] = x[i + 1] /\ l - m + (i + 1) = l - (m - 1) + i
    BY <1>3
  <2> QED
    BY <1>4, <2>1
<1> QED
  BY <1>1, <1>3, <1>4, <1>5 DEF LastOf

-----------------------------------------------------------------------------
(* Deltas and the text of a turn *)

\* New rows that are not before an event change nothing for its deltas.
LEMMA SinceKept ==
    ASSUME NEW e \in Seq(AllKinds), NEW e2 \in Seq(AllKinds), NEW s \in Seq(Row), NEW rs \in Seq(Row),
           Len(e) <= Len(e2), \A i \in DOMAIN e : e2[i] = e[i],
           NEW n \in DOMAIN e, \A k \in DOMAIN rs : ~(rs[k].n < n)
    PROVE  Since(e2, s \o rs, n) = Since(e, s, n)
<1>1. DOMAIN e \subseteq DOMAIN e2 /\ \A m \in DOMAIN e2 : m < n => m \in DOMAIN e
  OBVIOUS
<1>2. ASSUME NEW m \in DOMAIN e
      PROVE  (\A i \in DOMAIN s : s[i].kind = "text" /\ s[i].n < n => s[i].n < m)
             <=> (\A i \in DOMAIN (s \o rs) : (s \o rs)[i].kind = "text" /\ (s \o rs)[i].n < n
                                                 => (s \o rs)[i].n < m)
  <2>1. ASSUME NEW i \in DOMAIN (s \o rs), (s \o rs)[i].n < n
        PROVE  i \in DOMAIN s /\ (s \o rs)[i] = s[i]
    BY <2>1, JoinedRows, Zenon
  <2>2. \A i \in DOMAIN s : i \in DOMAIN (s \o rs) /\ (s \o rs)[i] = s[i]
    BY Joined
  <2> QED
    BY <2>1, <2>2, Zenon
<1>3. ASSUME NEW m PROVE m \in Since(e2, s \o rs, n) <=> m \in Since(e, s, n)
  BY <1>1, <1>2, Zenon DEF Since
<1> QED
  BY <1>3, Zenon

\* The rows s of the events e, and a move.
Moving(e, e2, s, rs, d, d2, w, w2) ==
    /\ e \in Seq(AllKinds) /\ e2 \in Seq(AllKinds) /\ s \in Seq(Row) /\ rs \in Seq(Row)
    /\ d \in Nat /\ d2 \in Nat /\ w \in BOOLEAN /\ w2 \in BOOLEAN /\ d <= Len(e)
    /\ Placed(e, s, d, w) /\ WrittenNext(e, s, d, w) /\ Advances(e, e2, d, d2, w, w2, rs)

\* The texts among the rows rs, which complete the turn, are whole.
Sums(e, s, d, rs, failed) ==
    \A k \in DOMAIN rs : rs[k].kind = "text" /\ e[d + 1] = "ok" =>
       \/ rs[k].parts = Since(e, s, d + 1)
       \/ rs[k].parts \subseteq Since(e, s, d + 1) /\ failed

LEMMA WholeMoves ==
    ASSUME NEW e, NEW e2, NEW s, NEW rs, NEW d, NEW d2, NEW w, NEW w2,
           Moving(e, e2, s, rs, d, d2, w, w2),
           NEW failed \in BOOLEAN, NEW failed2 \in BOOLEAN, failed => failed2,
           Whole(e, s, failed), Sums(e, s, d, rs, failed)
    PROVE  Whole(e2, s \o rs, failed2)
<1>a. /\ e \in Seq(AllKinds) /\ e2 \in Seq(AllKinds) /\ s \in Seq(Row) /\ rs \in Seq(Row)
      /\ d \in Nat /\ d2 \in Nat /\ w \in BOOLEAN /\ w2 \in BOOLEAN /\ d <= Len(e)
      /\ Placed(e, s, d, w) /\ WrittenNext(e, s, d, w) /\ Advances(e, e2, d, d2, w, w2, rs)
  BY DEF Moving
<1> USE <1>a
<1>1. /\ Len(e) <= Len(e2) /\ \A i \in DOMAIN e : e2[i] = e[i]
      /\ (rs # <<>> => ~w /\ d + 1 \in DOMAIN e)
      /\ \A i \in DOMAIN rs : rs[i].n = d + 1
  BY DEF Advances
<1> SUFFICES ASSUME NEW i \in DOMAIN (s \o rs),
                    (s \o rs)[i].kind = "text", e2[(s \o rs)[i].n] = "ok"
             PROVE  \/ (s \o rs)[i].parts = Since(e2, s \o rs, (s \o rs)[i].n)
                    \/ (s \o rs)[i].parts \subseteq Since(e2, s \o rs, (s \o rs)[i].n) /\ failed2
  BY DEF Whole
<1>2. CASE i \in DOMAIN s /\ (s \o rs)[i] = s[i]
  <2>1. /\ s[i].n \in DOMAIN e /\ (s[i].n \in 1 .. d \/ (w /\ s[i].n = d + 1)) /\ s[i].n \in Nat
    BY <1>2, RowTypes DEF Placed
  <2>2. ASSUME NEW k \in DOMAIN rs PROVE ~(rs[k].n < s[i].n)
    <3>1. rs # <<>>
      OBVIOUS
    <3>2. rs[k].n = d + 1 /\ s[i].n \in 1 .. d
      BY <1>1, <2>1, <3>1
    <3> QED
      BY <3>2
  <2>3. Since(e2, s \o rs, s[i].n) = Since(e, s, s[i].n)
    BY <1>1, <2>1, <2>2, SinceKept
  <2>4. e[s[i].n] = "ok" /\ s[i].kind = "text"
    BY <1>1, <1>2, <2>1
  <2>5. \/ s[i].parts = Since(e, s, s[i].n)
        \/ s[i].parts \subseteq Since(e, s, s[i].n) /\ failed
    BY <1>2, <2>4, Zenon DEF Whole
  <2> QED
    BY <1>2, <2>3, <2>5, Zenon
<1>3. CASE \E k \in DOMAIN rs : i = Len(s) + k /\ (s \o rs)[i] = rs[k]
  <2>1. PICK k \in DOMAIN rs : (s \o rs)[i] = rs[k]
    BY <1>3
  <2>2. rs[k].n = d + 1 /\ d + 1 \in DOMAIN e
    BY <1>1, <2>1
  <2>3. \A l \in DOMAIN rs : ~(rs[l].n < d + 1)
    BY <1>1
  <2>4. Since(e2, s \o rs, d + 1) = Since(e, s, d + 1)
    BY <1>1, <2>2, <2>3, SinceKept
  <2>5. e[d + 1] = "ok" /\ rs[k].kind = "text"
    BY <1>1, <2>1, <2>2
  <2> QED
    BY <2>1, <2>2, <2>4, <2>5, Zenon DEF Sums
<1> QED
  BY <1>2, <1>3, JoinedRows, Zenon

\* The deltas c are those that are collected.
Held(e, s, c, d, w, failed) ==
    Collecting(e, d, w) => /\ c \subseteq Since(e, s, d + 1)
                           /\ c = Since(e, s, d + 1) \/ failed

LEMMA CollectedMoves ==
    ASSUME NEW e, NEW e2, NEW s, NEW rs, NEW d, NEW d2, NEW w, NEW w2,
           Moving(e, e2, s, rs, d, d2, w, w2), NEW c, NEW c2,
           NEW failed \in BOOLEAN, NEW failed2 \in BOOLEAN, failed => failed2,
           Gathers(e, e2, c, c2, d, d2, w, w2, rs, failed2), Held(e, s, c, d, w, failed)
    PROVE  Held(e2, s \o rs, c2, d2, w2, failed2)
<1>a. /\ e \in Seq(AllKinds) /\ e2 \in Seq(AllKinds) /\ s \in Seq(Row) /\ rs \in Seq(Row)
      /\ d \in Nat /\ d2 \in Nat /\ w \in BOOLEAN /\ w2 \in BOOLEAN /\ d <= Len(e)
      /\ Placed(e, s, d, w) /\ WrittenNext(e, s, d, w) /\ Advances(e, e2, d, d2, w, w2, rs)
  BY DEF Moving
<1> USE <1>a
<1> SUFFICES ASSUME Collecting(e2, d2, w2)
             PROVE  /\ c2 \subseteq Since(e2, s \o rs, d2 + 1)
                    /\ c2 = Since(e2, s \o rs, d2 + 1) \/ failed2
  BY DEF Held
<1>0. /\ Collecting(e, d, w) => /\ c \subseteq Since(e, s, d + 1)
                                /\ c = Since(e, s, d + 1) \/ failed
      /\ failed => failed2
  BY DEF Held
<1>1. /\ Len(e) <= Len(e2) /\ DOMAIN e \subseteq DOMAIN e2 /\ \A i \in DOMAIN e : e2[i] = e[i]
      /\ d <= d2 /\ (w \/ rs # <<>> => w2 \/ d < d2) /\ (w2 => d2 = d)
      /\ (rs # <<>> => ~w /\ d + 1 \in DOMAIN e)
      /\ \A i \in DOMAIN rs : /\ rs[i].n = d + 1
                              /\ (w2 /\ rs[i].kind = e[d + 1]) \/ (rs[i].kind = "text" /\ e[d + 1] = "ok")
  BY DEF Advances
<1>2. /\ \A n \in DOMAIN e2 : n <= d2 => e2[n] \notin Completions
      /\ w2 => e2[d2 + 1] # "text" /\ e2[d2 + 1] \notin Completions
  BY DEF Collecting
<1>3. ASSUME d + 1 \in DOMAIN e, w2 \/ d < d2 PROVE e[d + 1] \notin Completions /\ (w2 => e[d + 1] # "text")
  BY <1>1, <1>2, <1>3
<1>4. ASSUME NEW k \in DOMAIN rs PROVE rs[k].kind # "text"
  <2>1. rs # <<>> /\ d + 1 \in DOMAIN e /\ (w2 \/ d < d2)
    BY <1>1
  <2> QED
    BY <1>1, <1>3, <2>1 DEF Completions
<1>5. \A i \in DOMAIN (s \o rs) : (s \o rs)[i].kind = "text" => i \in DOMAIN s /\ (s \o rs)[i] = s[i]
  <2> TAKE i \in DOMAIN (s \o rs)
  <2>1. CASE \E k \in DOMAIN rs : (s \o rs)[i] = rs[k]
    BY <1>4, <2>1
  <2> QED
    BY <2>1, JoinedRows
<1>6. \A i \in DOMAIN s : i \in DOMAIN (s \o rs) /\ (s \o rs)[i] = s[i]
  BY Joined
<1>7. w => d + 1 \in DOMAIN e
  BY DEF WrittenNext, Placed
<1>8. ASSUME ~w \/ w2 \/ e[d + 1] # "text"
      PROVE  /\ Collecting(e, d, w)
             /\ \A i \in DOMAIN s : s[i].kind = "text" => s[i].n <= d /\ s[i].n \in Nat
  <2>1. ASSUME NEW n \in DOMAIN e, n <= d PROVE e[n] \notin Completions
    BY <1>1, <1>2, <2>1
  <2>2. w => e[d + 1] \notin {"text"} \cup Completions
    BY <1>1, <1>3, <1>7, <1>8
  <2>3. ASSUME NEW i \in DOMAIN s, s[i].kind = "text" PROVE s[i].n <= d /\ s[i].n \in Nat
    <3>1. /\ s[i].n \in 1 .. d \/ (w /\ s[i].n = d + 1)
          /\ s[i].kind = e[s[i].n] \/ e[s[i].n] = "ok"
      BY DEF Placed
    <3>2. ~(w /\ s[i].n = d + 1)
      BY <2>2, <2>3, <3>1 DEF Completions
    <3> QED
      BY <3>1, <3>2
  <2> QED
    BY <2>1, <2>2, <2>3 DEF Collecting
<1>9. ASSUME ~w \/ w2 \/ e[d + 1] # "text", NEW m \in DOMAIN e, m <= d
      PROVE  m \in Since(e, s, d + 1) <=> m \in Since(e2, s \o rs, d2 + 1)
  <2>1. m \in DOMAIN e2 /\ e2[m] = e[m] /\ m < d + 1 /\ m < d2 + 1
    BY <1>1, <1>9
  <2>2. \A i \in DOMAIN s : s[i].kind = "text" => s[i].n < d + 1 /\ s[i].n < d2 + 1
    <3> TAKE i \in DOMAIN s
    <3> HAVE s[i].kind = "text"
    <3>1. s[i].n <= d /\ s[i].n \in Nat
      BY <1>8, <1>9
    <3> QED
      BY <1>1, <3>1
  <2>3. (\A i \in DOMAIN s : s[i].kind = "text" /\ s[i].n < d + 1 => s[i].n < m)
        <=> (\A i \in DOMAIN (s \o rs) : (s \o rs)[i].kind = "text" /\ (s \o rs)[i].n < d2 + 1
                                            => (s \o rs)[i].n < m)
    BY <1>5, <1>6, <2>2, Zenon
  <2> QED
    BY <2>1, <2>3, Zenon DEF Since
<1>10. Since(e, s, d + 1) \subseteq {m \in DOMAIN e : m <= d}
  BY DEF Since
<1>11. ASSUME ~w \/ w2 \/ e[d + 1] # "text" PROVE Since(e, s, d + 1) \subseteq Since(e2, s \o rs, d2 + 1)
  BY <1>9, <1>10, <1>11
<1>12. CASE /\ c2 = c /\ (w /\ ~w2 => e[d + 1] # "text")
            /\ \A n \in DOMAIN e2 : d < n /\ n <= d2 => e2[n] # "delta"
  <2>1. ASSUME NEW m \in Since(e2, s \o rs, d2 + 1) PROVE m \in Since(e, s, d + 1)
    <3>1. m \in DOMAIN e2 /\ m < d2 + 1 /\ e2[m] = "delta"
      BY DEF Since
    <3>2. m \in DOMAIN e /\ m <= d
      BY <1>12, <3>1
    <3> QED
      BY <1>9, <1>12, <3>2
  <2>2. Since(e2, s \o rs, d2 + 1) = Since(e, s, d + 1)
    BY <1>11, <1>12, <2>1
  <2> QED
    BY <1>0, <1>8, <1>12, <2>2
<1>13. CASE /\ c2 = c \cup {d + 1} /\ ~w /\ ~w2 /\ d2 = d + 1
            /\ d2 \in DOMAIN e /\ e[d2] = "delta" /\ rs = <<>>
  <2>1. d + 1 \in Since(e2, s \o rs, d2 + 1)
    <3>1. d + 1 \in DOMAIN e2 /\ d + 1 < d2 + 1 /\ e2[d + 1] = "delta"
      BY <1>1, <1>13
    <3>2. \A i \in DOMAIN (s \o rs) : (s \o rs)[i].kind = "text" => (s \o rs)[i].n < d + 1
      BY <1>5, <1>8, <1>13
    <3> QED
      BY <3>1, <3>2 DEF Since
  <2>2. ASSUME NEW m \in Since(e2, s \o rs, d2 + 1), m # d + 1 PROVE m \in Since(e, s, d + 1)
    <3>1. m \in DOMAIN e2 /\ m < d2 + 1 /\ e2[m] = "delta"
      BY DEF Since
    <3>2. m \in DOMAIN e /\ m <= d
      BY <1>13, <2>2, <3>1
    <3> QED
      BY <1>9, <1>13, <3>2
  <2>3. Since(e2, s \o rs, d2 + 1) = Since(e, s, d + 1) \cup {d + 1}
    BY <1>11, <1>13, <2>1, <2>2
  <2> QED
    BY <1>0, <1>8, <1>13, <2>3
<1>14. CASE c2 = {} /\ w /\ ~w2 /\ d2 = d + 1 /\ d2 \in DOMAIN e /\ e[d2] = "text"
  <2>1. PICK i \in DOMAIN s : s[i].n = d + 1 /\ s[i].kind = "text"
    BY <1>14 DEF WrittenNext
  <2>2. i \in DOMAIN (s \o rs) /\ (s \o rs)[i].kind = "text" /\ (s \o rs)[i].n = d + 1
    BY <1>6, <2>1
  <2>3. ASSUME NEW m \in Since(e2, s \o rs, d2 + 1) PROVE FALSE
    <3>1. m \in DOMAIN e2 /\ m < d2 + 1 /\ d + 1 < m
      BY <1>14, <2>2 DEF Since
    <3> QED
      BY <1>14, <3>1
  <2> QED
    BY <1>14, <2>3
<1>15. CASE c2 = c /\ ~w /\ ~w2 /\ failed2 /\ rs = <<>>
  BY <1>0, <1>8, <1>11, <1>15
<1>16. ~(d + 1 \in DOMAIN e /\ e[d + 1] \in Completions /\ (w2 \/ d < d2))
  BY <1>3
<1> QED
  BY <1>12, <1>13, <1>14, <1>15, <1>16, Zenon DEF Gathers

-----------------------------------------------------------------------------
(* Tool runs *)

LEMMA FollowsMoves ==
    ASSUME NEW e, NEW e2, NEW s, NEW rs, NEW d, NEW d2, NEW w, NEW w2,
           Moving(e, e2, s, rs, d, d2, w, w2), NEW f \in Nat, Follows(e, s, f, d, w),
           w => w2, rs # <<>> => e[d + 1] \notin Tools
    PROVE  Follows(e2, s \o rs, f, d2, w2)
<1>a. /\ e \in Seq(AllKinds) /\ e2 \in Seq(AllKinds) /\ s \in Seq(Row) /\ rs \in Seq(Row)
      /\ d \in Nat /\ d2 \in Nat /\ w \in BOOLEAN /\ w2 \in BOOLEAN /\ d <= Len(e)
      /\ Placed(e, s, d, w) /\ WrittenNext(e, s, d, w) /\ Advances(e, e2, d, d2, w, w2, rs)
  BY DEF Moving
<1> USE <1>a
<1>1. /\ DOMAIN e \subseteq DOMAIN e2 /\ \A i \in DOMAIN e : e2[i] = e[i]
      /\ (w2 => d2 = d) /\ (rs # <<>> => d + 1 \in DOMAIN e)
      /\ \A i \in DOMAIN rs : /\ rs[i].n = d + 1
                              /\ (w2 /\ rs[i].kind = e[d + 1]) \/ (rs[i].kind = "text" /\ e[d + 1] = "ok")
  BY DEF Advances
<1> SUFFICES ASSUME NEW i \in DOMAIN (s \o rs)
             PROVE  LET r == (s \o rs)[i] IN
                    r.n <= f \/ e2[r.n] \in Completions \/ (w2 /\ r.n = d2 + 1 /\ e2[r.n] \notin Tools)
  BY DEF Follows
<1>2. CASE i \in DOMAIN s /\ (s \o rs)[i] = s[i]
  <2>1. /\ s[i].n <= f \/ e[s[i].n] \in Completions \/ (w /\ s[i].n = d + 1 /\ e[s[i].n] \notin Tools)
        /\ s[i].n \in DOMAIN e
    BY <1>2 DEF Follows, Placed
  <2>2. e2[s[i].n] = e[s[i].n]
    BY <1>1, <2>1
  <2> QED
    BY <1>1, <1>2, <2>1, <2>2, Zenon
<1>3. CASE \E k \in DOMAIN rs : i = Len(s) + k /\ (s \o rs)[i] = rs[k]
  <2>1. PICK k \in DOMAIN rs : (s \o rs)[i] = rs[k]
    BY <1>3
  <2>2. rs # <<>>
    BY <2>1
  <2>3. rs[k].n = d + 1 /\ e2[d + 1] = e[d + 1] /\ (w2 \/ e[d + 1] = "ok") /\ e[d + 1] \notin Tools
    BY <1>1, <2>1, <2>2
  <2>4. CASE w2
    BY <1>1, <2>1, <2>3, <2>4
  <2>5. CASE e[d + 1] = "ok"
    BY <2>1, <2>3, <2>5 DEF Completions
  <2> QED
    BY <2>3, <2>4, <2>5
<1> QED
  BY <1>2, <1>3, JoinedRows, Zenon

LEMMA InRunMoves ==
    ASSUME NEW s \in Seq(Row), NEW rs \in Seq(Row), NEW d \in Nat, NEW d2 \in Nat, d <= d2,
           NEW f \in Nat, NEW ks \in Seq(Nat), InRun(s, f, ks, d),
           \A k \in DOMAIN rs : rs[k].n = d + 1
    PROVE  InRun(s \o rs, f, ks, d2)
<1>1. /\ f <= d /\ \A i, j \in DOMAIN ks : i < j => ks[i] < ks[j]
      /\ \A i \in DOMAIN ks : f < ks[i] /\ ks[i] <= d
  BY DEF InRun
<1>2. \E i \in DOMAIN (s \o rs) : (s \o rs)[i].n = f /\ (s \o rs)[i].kind \in Tools
  <2>1. PICK i \in DOMAIN s : s[i].n = f /\ s[i].kind \in Tools
    BY DEF InRun
  <2>2. i \in DOMAIN (s \o rs) /\ (s \o rs)[i] = s[i]
    BY Joined
  <2> QED
    BY <2>1, <2>2
<1>3. ASSUME NEW i \in DOMAIN ks, NEW j \in DOMAIN (s \o rs)
      PROVE  (s \o rs)[j].n <= f \/ ks[i] < (s \o rs)[j].n
  <2>1. CASE j \in DOMAIN s /\ (s \o rs)[j] = s[j]
    BY <2>1, Zenon DEF InRun
  <2>2. CASE \E k \in DOMAIN rs : j = Len(s) + k /\ (s \o rs)[j] = rs[k]
    <3>1. (s \o rs)[j].n = d + 1
      BY <2>2
    <3>2. ks[i] \in Nat /\ ks[i] <= d
      BY <1>1
    <3> QED
      BY <3>1, <3>2
  <2> QED
    BY <2>1, <2>2, JoinedRows, Zenon
<1>4. f <= d2 /\ \A i \in DOMAIN ks : f < ks[i] /\ ks[i] <= d2
  <2>1. \A i \in DOMAIN ks : ks[i] \in Nat
    OBVIOUS
  <2> QED
    BY <1>1, <2>1
<1> QED
  BY <1>1, <1>2, <1>3, <1>4, Zenon DEF InRun

\* The next event continues a run that nothing of the turn follows.
LEMMA RunGoesOn ==
    ASSUME NEW e \in Seq(AllKinds), NEW s \in Seq(Row), NEW d \in Nat, NEW f \in Nat,
           NEW ks \in Seq(Nat), InRun(s, f, ks, d), Placed(e, s, d, FALSE), Follows(e, s, f, d, FALSE),
           \A i, j \in DOMAIN e : i < j => e[i] \notin Completions, d + 1 \in DOMAIN e
    PROVE  InRun(s, f, Append(ks, d + 1), d + 1)
<1> DEFINE more == Append(ks, d + 1)
<1>1. /\ f <= d /\ \A i, j \in DOMAIN ks : i < j => ks[i] < ks[j]
      /\ \A i \in DOMAIN ks : f < ks[i] /\ ks[i] <= d /\ ks[i] \in Nat
      /\ \A i \in DOMAIN ks : \A j \in DOMAIN s : s[j].n <= f \/ ks[i] < s[j].n
      /\ \E i \in DOMAIN s : s[i].n = f /\ s[i].kind \in Tools
  BY DEF InRun
<1>2. ASSUME NEW j \in DOMAIN s PROVE s[j].n <= f
  <2>1. s[j].n <= f \/ e[s[j].n] \in Completions
    BY DEF Follows
  <2>2. s[j].n \in DOMAIN e /\ s[j].n < d + 1
    BY DEF Placed
  <2> QED
    BY <2>1, <2>2
<1>3. /\ \A i \in DOMAIN ks : more[i] = ks[i]
      /\ \A i \in DOMAIN more : i \in DOMAIN ks \/ (i = Len(ks) + 1 /\ more[i] = d + 1)
      /\ \A i \in DOMAIN ks : i \in Nat /\ i < Len(ks) + 1
  OBVIOUS
<1>4. ASSUME NEW i \in DOMAIN more PROVE f < more[i] /\ more[i] <= d + 1
  <2>1. CASE i \in DOMAIN ks
    BY <1>1, <1>3, <2>1
  <2>2. CASE i = Len(ks) + 1 /\ more[i] = d + 1
    BY <1>1, <2>2
  <2> QED
    BY <1>3, <2>1, <2>2
<1>5. ASSUME NEW i \in DOMAIN more, NEW j \in DOMAIN more, i < j PROVE more[i] < more[j]
  <2>1. CASE j \in DOMAIN ks
    <3>1. i \in DOMAIN ks
      BY <1>5, <2>1
    <3> QED
      BY <1>1, <1>3, <1>5, <2>1, <3>1
  <2>2. CASE j \notin DOMAIN ks
    <3>1. j = Len(ks) + 1 /\ more[j] = d + 1
      BY <1>3, <2>2
    <3>2. i \in DOMAIN ks
      BY <1>3, <1>5, <3>1
    <3> QED
      BY <1>1, <1>3, <3>1, <3>2
  <2> QED
    BY <2>1, <2>2
<1>6. f <= d + 1
  BY <1>1
<1> HIDE DEF more
<1> QED
  BY <1>1, <1>2, <1>4, <1>5, <1>6, Zenon DEF InRun, more

LEMMA RunBegins ==
    ASSUME NEW s \in Seq(Row), NEW f \in Nat,
           \E i \in DOMAIN s : s[i].n = f /\ s[i].kind \in Tools
    PROVE  InRun(s, f, <<>>, f)
BY DEF InRun

LEMMA BeginsAlone ==
    ASSUME NEW e \in Seq(AllKinds), NEW s \in Seq(Row), NEW d \in Nat, NEW w \in BOOLEAN,
           NEW e2, NEW w2, Placed(e, s, d, w)
    PROVE  Follows(e2, s, d + 1, d + 1, w2)
<1>1. \A i \in DOMAIN s : s[i].n <= d + 1
  BY DEF Placed
<1> QED
  BY <1>1 DEF Follows

-----------------------------------------------------------------------------
(* Outputs and completions *)

LEMMA OutputKept ==
    ASSUME NEW s \in Seq(Row), NEW rs \in Seq(Row), NEW x \in Seq(Row), NEW n \in Nat,
           NEW told, NEW told2, told \subseteq told2, LastOutput(s, x, n, told)
    PROVE  LastOutput(s \o rs, x \o rs, n, told2)
<1>1. \E i \in DOMAIN (s \o rs) : (s \o rs)[i].n = n /\ (s \o rs)[i].kind \in Notifiable
  <2>1. PICK i \in DOMAIN s : s[i].n = n /\ s[i].kind \in Notifiable
    BY DEF LastOutput
  <2>2. i \in DOMAIN (s \o rs) /\ (s \o rs)[i] = s[i]
    BY Joined
  <2> QED
    BY <2>1, <2>2
<1>2. ASSUME NEW i \in DOMAIN (s \o rs)
      PROVE  \/ (s \o rs)[i].kind \notin Notifiable \/ (s \o rs)[i].n <= n
             \/ (s \o rs)[i].n \in told2 \/ \E j \in DOMAIN (x \o rs) : (s \o rs)[i] = (x \o rs)[j]
  <2>1. CASE i \in DOMAIN s /\ (s \o rs)[i] = s[i]
    <3>1. ASSUME NEW j \in DOMAIN x PROVE j \in DOMAIN (x \o rs) /\ (x \o rs)[j] = x[j]
      BY Joined
    <3>2. \/ s[i].kind \notin Notifiable \/ s[i].n <= n
          \/ s[i].n \in told \/ \E j \in DOMAIN x : s[i] = x[j]
      BY <2>1, Zenon DEF LastOutput
    <3> QED
      BY <2>1, <3>1, <3>2, Zenon
  <2>2. CASE \E k \in DOMAIN rs : i = Len(s) + k /\ (s \o rs)[i] = rs[k]
    <3>1. PICK k \in DOMAIN rs : (s \o rs)[i] = rs[k]
      BY <2>2
    <3>2. Len(x) + k \in DOMAIN (x \o rs) /\ (x \o rs)[Len(x) + k] = rs[k]
      BY Joined
    <3> QED
      BY <3>1, <3>2
  <2> QED
    BY <2>1, <2>2, JoinedRows, Zenon
<1> QED
  BY <1>1, <1>2, Zenon DEF LastOutput

\* The side effects are lost, and their rows reported.
LEMMA OutputReported ==
    ASSUME NEW s \in Seq(Row), NEW rs \in Seq(Row), NEW x \in Seq(Row), NEW n \in Nat,
           NEW b \in Nat, NEW d \in Nat, NEW d2 \in Nat, b <= d,
           NEW told, NEW told2, told \subseteq told2,
           LastOutput(s, x, n, told), LastOf(s, x, b),
           \A i \in DOMAIN (s \o rs) : (s \o rs)[i].n <= d2,
           \A k \in DOMAIN rs : rs[k].n = d + 1,
           \A m \in Nat : b < m /\ m <= d2 => m \in told2
    PROVE  LastOutput(s \o rs, <<>>, n, told2)
<1>1. ASSUME NEW i \in DOMAIN (x \o rs) PROVE (x \o rs)[i].n > b
  <2>1. CASE i \in DOMAIN x /\ (x \o rs)[i] = x[i]
    BY <2>1 DEF LastOf
  <2>2. CASE \E k \in DOMAIN rs : (x \o rs)[i] = rs[k]
    BY <2>2
  <2> QED
    BY <2>1, <2>2, JoinedRows, Zenon
<1>2. LastOutput(s \o rs, x \o rs, n, told2)
  BY OutputKept
<1>3. ASSUME NEW i \in DOMAIN (s \o rs), NEW j \in DOMAIN (x \o rs), (s \o rs)[i] = (x \o rs)[j]
      PROVE  (s \o rs)[i].n \in told2
  <2>1. s \o rs \in Seq(Row)
    BY Joined
  <2>2. (s \o rs)[i].n \in Nat
    BY <2>1, RowTypes
  <2> QED
    BY <1>1, <1>3, <2>2
<1>4. /\ \E i \in DOMAIN (s \o rs) : (s \o rs)[i].n = n /\ (s \o rs)[i].kind \in Notifiable
      /\ \A i \in DOMAIN (s \o rs) :
            \/ (s \o rs)[i].kind \notin Notifiable \/ (s \o rs)[i].n <= n \/ (s \o rs)[i].n \in told2
  BY <1>2, <1>3, Zenon DEF LastOutput
<1> QED
  BY <1>4, Zenon DEF LastOutput

LEMMA HeadAndTail ==
    ASSUME NEW x \in Seq(Row), x # <<>>
    PROVE  /\ Head(x) \in Row /\ Tail(x) \in Seq(Row)
           /\ \A j \in DOMAIN x : x[j] = Head(x) \/ \E l \in DOMAIN Tail(x) : x[j] = Tail(x)[l]
<1>1. PICK m \in Nat : m = Len(x)
  OBVIOUS
<1>2. m > 0 /\ DOMAIN Tail(x) = 1 .. m - 1 /\ DOMAIN x = 1 .. m
      /\ \A i \in 1 .. m - 1 : Tail(x)[i] = x[i + 1]
  BY <1>1
<1>3. ASSUME NEW j \in DOMAIN x
      PROVE  x[j] = Head(x) \/ \E l \in DOMAIN Tail(x) : x[j] = Tail(x)[l]
  <2>1. CASE j = 1
    BY <2>1
  <2>2. CASE j # 1
    <3>1. j - 1 \in DOMAIN Tail(x) /\ Tail(x)[j - 1] = x[(j - 1) + 1] /\ (j - 1) + 1 = j
      BY <1>2, <2>2
    <3> QED
      BY <3>1
  <2> QED
    BY <2>1, <2>2
<1> QED
  BY <1>3

\* A side effect that is not about an output changes nothing for it.
LEMMA OutputPassed ==
    ASSUME NEW s \in Seq(Row), NEW x \in Seq(Row), x # <<>>, NEW n, NEW told,
           LastOutput(s, x, n, told), Head(x).kind \notin Notifiable
    PROVE  LastOutput(s, Tail(x), n, told)
<1>1. ASSUME NEW i \in DOMAIN s, NEW j \in DOMAIN x, s[i] = x[j], s[i].kind \in Notifiable
      PROVE  \E l \in DOMAIN Tail(x) : s[i] = Tail(x)[l]
  BY <1>1, HeadAndTail
<1> QED
  BY <1>1, Zenon DEF LastOutput

\* The row of the next side effect, and what is to come.
LEMMA HeadIsRow ==
    ASSUME NEW s \in Seq(Row), NEW x \in Seq(Row), x # <<>>, NEW b \in Nat, LastOf(s, x, b)
    PROVE  \E k \in DOMAIN s :
              /\ s[k] = Head(x) /\ Len(x) = Len(s) - k + 1
              /\ \A i \in DOMAIN s : i > k => \E j \in DOMAIN Tail(x) : s[i] = Tail(x)[j]
<1>1. PICK l \in Nat : l = Len(s)
  OBVIOUS
<1>2. PICK m \in Nat : m = Len(x)
  OBVIOUS
<1>3. m > 0 /\ m <= l /\ DOMAIN Tail(x) = 1 .. m - 1 /\ DOMAIN x = 1 .. m /\ DOMAIN s = 1 .. l
  BY <1>1, <1>2 DEF LastOf
<1>4. /\ \A i \in 1 .. m - 1 : Tail(x)[i] = x[i + 1]
      /\ \A i \in DOMAIN x : x[i] = s[l - m + i]
  BY <1>1, <1>2 DEF LastOf
<1>5. l - m + 1 \in DOMAIN s /\ s[l - m + 1] = Head(x) /\ m = l - (l - m + 1) + 1
  BY <1>3, <1>4
<1>6. ASSUME NEW i \in DOMAIN s, i > l - m + 1
      PROVE  \E j \in DOMAIN Tail(x) : s[i] = Tail(x)[j]
  <2>1. /\ i - (l - m) - 1 \in DOMAIN Tail(x) /\ (i - (l - m) - 1) + 1 \in DOMAIN x
        /\ l - m + ((i - (l - m) - 1) + 1) = i
    BY <1>3, <1>6
  <2>2. Tail(x)[i - (l - m) - 1] = s[i]
    BY <1>3, <1>4, <2>1
  <2> QED
    BY <2>1, <2>2
<1> QED
  BY <1>1, <1>2, <1>5, <1>6

\* The row of the side effect is the last output.
LEMMA OutputKnown ==
    ASSUME NEW s \in Seq(Row), NEW x \in Seq(Row), x # <<>>, NEW b \in Nat, NEW told,
           LastOf(s, x, b), Ranked(s), Head(x).kind \in Notifiable
    PROVE  LastOutput(s, Tail(x), Head(x).n, told)
<1>1. PICK k \in DOMAIN s :
        /\ s[k] = Head(x)
        /\ \A i \in DOMAIN s : i > k => \E j \in DOMAIN Tail(x) : s[i] = Tail(x)[j]
  BY HeadIsRow
<1>2. ASSUME NEW i \in DOMAIN s, ~(i > k), s[i].kind \in Notifiable PROVE s[i].n <= Head(x).n
  <2>1. i = k \/ i < k
    BY <1>2
  <2>2. CASE i = k
    <3>1. s[i].n \in Nat /\ s[i] = Head(x)
      BY <1>1, <2>2, RowTypes
    <3> QED
      BY <3>1
  <2>3. CASE i < k
    <3>1. Rank(s[i]) < Rank(s[k])
      BY <2>3 DEF Ranked
    <3>2. /\ s[i].kind \notin Completions /\ s[k].kind \notin Completions
          /\ s[i].n \in Nat /\ s[k].n \in Nat
      BY <1>1, <1>2, RowTypes DEF Notifiable, Completions
    <3>3. Rank(s[i]) = 2 * s[i].n + 0 /\ Rank(s[k]) = 2 * s[k].n + 0
      BY <3>2, Zenon DEF Rank
    <3>4. s[i].n <= s[k].n
      <4>1. PICK m \in Nat, n \in Nat : m = s[i].n /\ n = s[k].n
        BY <3>2
      <4>2. 2 * m + 0 < 2 * n + 0
        BY <3>1, <3>3, <4>1, Zenon
      <4> QED
        BY <4>1, <4>2
    <3> QED
      BY <1>1, <3>4
  <2> QED
    BY <2>1, <2>2, <2>3
<1>3. \E i \in DOMAIN s : s[i].n = Head(x).n /\ s[i].kind \in Notifiable
  BY <1>1
<1> QED
  BY <1>1, <1>2, <1>3, Zenon DEF LastOutput

\* A completion is the last event of its turn.
LEMMA CompletionRow ==
    ASSUME NEW e \in Seq(AllKinds), NEW s \in Seq(Row), NEW d \in Nat, NEW w \in BOOLEAN,
           Placed(e, s, d, w), \A i, j \in DOMAIN e : i < j => e[i] \notin Completions,
           NEW k \in DOMAIN s, s[k].kind \in Completions
    PROVE  s[k].n = Len(e)
<1>1. s[k].n \in DOMAIN e /\ (s[k].kind = e[s[k].n] \/ s[k].kind = "text")
  BY DEF Placed
<1>2. e[s[k].n] \in Completions
  BY <1>1 DEF Completions
<1>3. PICK n \in DOMAIN e : n = s[k].n
  BY <1>1
<1>4. Len(e) \in DOMAIN e /\ n <= Len(e)
  BY <1>3
<1>5. ~(n < Len(e))
  BY <1>2, <1>3, <1>4
<1> QED
  BY <1>3, <1>4, <1>5

\* Nothing is written after a completion.
LEMMA CompletedIsDone ==
    ASSUME NEW e \in Seq(AllKinds), NEW s \in Seq(Row), NEW d \in Nat, NEW w \in BOOLEAN,
           Placed(e, s, d, w), \A i, j \in DOMAIN e : i < j => e[i] \notin Completions,
           NEW k \in DOMAIN s, s[k].kind \in Completions, ~w
    PROVE  d + 1 \notin DOMAIN e
<1>1. s[k].n = Len(e) /\ s[k].n \in 1 .. d
  BY CompletionRow DEF Placed
<1> QED
  BY <1>1

\* The side effect of a completion is the last one.
LEMMA CompletionEnds ==
    ASSUME NEW e \in Seq(AllKinds), NEW s \in Seq(Row), NEW d \in Nat, NEW w \in BOOLEAN,
           Placed(e, s, d, w), \A i, j \in DOMAIN e : i < j => e[i] \notin Completions,
           NEW x \in Seq(Row), x # <<>>, NEW b \in Nat, LastOf(s, x, b), Ranked(s),
           Head(x).kind \in Completions
    PROVE  /\ Tail(x) = <<>>
           /\ \E k \in DOMAIN s : s[k] = Head(x)
<1>1. PICK k \in DOMAIN s : s[k] = Head(x) /\ Len(x) = Len(s) - k + 1
  BY HeadIsRow
<1>2. s[k].n = Len(e)
  BY <1>1, CompletionRow
<1>3. k = Len(s)
  <2> SUFFICES ASSUME k # Len(s) PROVE FALSE
    OBVIOUS
  <2>1. k + 1 \in DOMAIN s /\ k < k + 1
    OBVIOUS
  <2>2. Rank(s[k]) < Rank(s[k + 1])
    BY <2>1 DEF Ranked
  <2>3. PICK n \in Nat : n = s[k + 1].n /\ n <= Len(e)
    BY <2>1 DEF Placed
  <2>4. Rank(s[k]) = 2 * Len(e) + 1
    BY <1>1, <1>2, Zenon DEF Rank
  <2>5. PICK m \in Nat : m = Rank(s[k + 1]) /\ m <= 2 * n + 1
    BY <2>1, <2>3, RowTypes, RankBounds
  <2>6. PICK l \in Nat : l = Len(e)
    OBVIOUS
  <2>7. 2 * l + 1 < m /\ n <= l
    BY <2>2, <2>3, <2>4, <2>5, <2>6, Zenon
  <2> QED
    BY <2>5, <2>7
<1>4. Len(x) = 1
  BY <1>1, <1>3
<1>5. Tail(x) = <<>>
  <2>1. Tail(x) \in Seq(Row) /\ Len(Tail(x)) = Len(x) - 1
    BY HeadTailProperties
  <2>2. Len(Tail(x)) = 0
    BY <1>4, <2>1
  <2> QED
    BY <2>1, <2>2, EmptySeq
<1> QED
  BY <1>1, <1>5

-----------------------------------------------------------------------------
(* The maps of CompleteNotification *)

LEMMA PartOfSeq ==
    ASSUME NEW S, NEW s \in Seq(S), NEW m \in Nat, NEW n \in Nat, 1 <= m, n <= Len(s)
    PROVE  SubSeq(s, m, n) \in Seq(S) /\ ToSet(SubSeq(s, m, n)) \subseteq ToSet(s)
<1>1. \A i \in m .. n : s[i] \in S
  OBVIOUS
<1>2. /\ SubSeq(s, m, n) \in Seq(S)
      /\ Len(SubSeq(s, m, n)) = IF m <= n THEN n - m + 1 ELSE 0
      /\ \A i \in 1 .. n - m + 1 : SubSeq(s, m, n)[i] = s[m + i - 1]
  BY <1>1, SubSeqProperties
<1>3. DOMAIN SubSeq(s, m, n) = 1 .. Len(SubSeq(s, m, n)) /\ DOMAIN s = 1 .. Len(s)
  BY <1>2
<1>4. ASSUME NEW i \in DOMAIN SubSeq(s, m, n) PROVE SubSeq(s, m, n)[i] \in ToSet(s)
  <2>1. CASE m <= n
    <3>1. Len(SubSeq(s, m, n)) = n - m + 1
      BY <1>2, <2>1, Zenon
    <3>2. i \in 1 .. n - m + 1 /\ m + i - 1 \in 1 .. Len(s)
      BY <1>3, <3>1
    <3> QED
      BY <1>2, <1>3, <3>2 DEF ToSet
  <2>2. CASE ~(m <= n)
    <3>1. Len(SubSeq(s, m, n)) = 0
      BY <1>2, <2>2, Zenon
    <3> QED
      BY <1>3, <3>1
  <2> QED
    BY <2>1, <2>2
<1> QED
  BY <1>2, <1>4 DEF ToSet

LEMMA RememberedHas ==
    ASSUME NEW S, NEW s \in Seq(S), NEW r \in S
    PROVE  /\ Remembered(s, r) \in Seq(S)
           /\ \A x \in ToSet(Remembered(s, r)) : x = r \/ (x \in ToSet(s) /\ x.turn # r.turn)
<1>1. CASE \E i \in DOMAIN s : s[i].turn = r.turn
  <2> DEFINE q == [i \in DOMAIN s |-> IF s[i].turn = r.turn THEN r ELSE s[i]]
  <2>1. Remembered(s, r) = q
    BY <1>1 DEF Remembered
  <2>2. DOMAIN s = 1 .. Len(s) /\ Len(s) \in Nat /\ \A i \in DOMAIN s : s[i] \in S
    OBVIOUS
  <2>3. q \in [1 .. Len(s) -> S]
    BY <2>2
  <2>4. q \in Seq(S)
    BY <2>2, <2>3, SeqDef
  <2>5. ASSUME NEW i \in DOMAIN q PROVE q[i] = r \/ (q[i] \in ToSet(s) /\ q[i].turn # r.turn)
    BY Zenon DEF ToSet
  <2>6. ASSUME NEW x \in ToSet(q) PROVE x = r \/ (x \in ToSet(s) /\ x.turn # r.turn)
    BY <2>5, Zenon DEF ToSet
  <2> QED
    BY <2>1, <2>4, <2>6, Zenon
<1>2. CASE ~ \E i \in DOMAIN s : s[i].turn = r.turn
  <2> DEFINE q == Append(s, r)
             n == IF Len(q) < MaxHandled THEN Len(q) ELSE MaxHandled
  <2>1. Remembered(s, r) = SubSeq(q, Len(q) - n + 1, Len(q))
    BY <1>2 DEF Remembered, Evicted
  <2>2. q \in Seq(S) /\ Len(q) \in Nat /\ MaxHandled \in Nat
    BY HandledAssumption
  <2>3. \A x \in ToSet(q) : x = r \/ x \in ToSet(s)
    BY DEF ToSet
  <2> HIDE DEF q
  <2>4. n \in Nat /\ n <= Len(q)
    BY <2>2
  <2> HIDE DEF n
  <2>5. Len(q) - n + 1 \in Nat /\ 1 <= Len(q) - n + 1
    BY <2>2, <2>4
  <2>6. /\ SubSeq(q, Len(q) - n + 1, Len(q)) \in Seq(S)
        /\ ToSet(SubSeq(q, Len(q) - n + 1, Len(q))) \subseteq ToSet(q)
    BY <2>2, <2>5, PartOfSeq
  <2>7. \A x \in ToSet(s) : x.turn # r.turn
    BY <1>2, Zenon DEF ToSet
  <2> QED
    BY <2>1, <2>3, <2>6, <2>7, Zenon
<1> QED
  BY <1>1, <1>2

LEMMA ForgottenHas ==
    ASSUME NEW S, NEW s \in Seq(S), NEW t
    PROVE  Forgotten(s, t) \in Seq(S) /\ ToSet(Forgotten(s, t)) \subseteq ToSet(s)
<1> DEFINE places == {i \in DOMAIN s : s[i].turn = t}
           k == CHOOSE i \in places : TRUE
<1>1. CASE places = {}
  <2>1. Forgotten(s, t) = s
    BY <1>1 DEF Forgotten
  <2> QED
    BY <2>1
<1>2. CASE places # {}
  <2>1. k \in DOMAIN s
    BY <1>2
  <2>2. Forgotten(s, t) = RemoveAt(s, k)
    BY <1>2 DEF Forgotten
  <2> HIDE DEF k
  <2>3. k - 1 \in Nat /\ k + 1 \in Nat /\ k - 1 <= Len(s) /\ 1 <= k + 1 /\ Len(s) \in Nat
    BY <2>1
  <2> DEFINE p == SubSeq(s, 1, k - 1)
             q == SubSeq(s, k + 1, Len(s))
  <2>4. p \in Seq(S) /\ ToSet(p) \subseteq ToSet(s)
    BY <2>3, PartOfSeq
  <2>5. q \in Seq(S) /\ ToSet(q) \subseteq ToSet(s)
    BY <2>3, PartOfSeq
  <2>6. Forgotten(s, t) = p \o q
    BY <2>2 DEF RemoveAt
  <2> HIDE DEF p, q
  <2>7. p \o q \in Seq(S) /\ ToSet(p \o q) \subseteq ToSet(p) \cup ToSet(q)
    <3>1. ASSUME NEW i \in DOMAIN (p \o q) PROVE (p \o q)[i] \in ToSet(p) \cup ToSet(q)
      BY <2>4, <2>5, Joined DEF ToSet
    <3> QED
      BY <2>4, <2>5, <3>1, Joined DEF ToSet
  <2> QED
    BY <2>4, <2>5, <2>6, <2>7
<1> QED
  BY <1>1, <1>2

-----------------------------------------------------------------------------
(* Every step moves a turn *)

\* Nothing is written and the position is the same.
LEMMA StaysInPlace ==
    ASSUME NEW t \in Turns, Types, Types', Shape(t), Shape(t)',
           Len(emitted[t]) <= Len(emitted'[t]), \A i \in DOMAIN emitted[t] : emitted'[t][i] = emitted[t][i],
           \A u \in Turns \ {t} : Same(u), dead' = dead, reported \subseteq reported', timeline' = timeline,
           Done(t)' = Done(t), Waiting(t)' = Waiting(t),
           Effects(t)' = Effects(t), Effects(t)' # <<>> => Before(t)' = Before(t)
    PROVE  Moves(t, <<>>)
<1>1. Effects(t) \in Seq(Row) /\ timeline[t] \in Seq(Row)
  BY TurnTypes
<1>2. Effects(t)' = Effects(t) \o <<>> /\ timeline'[t] = timeline[t] \o <<>>
  BY <1>1, ConcatEmptySeq
<1>3. Keeps(t, <<>>)
  BY <1>2 DEF Keeps
<1>4. Waiting(t) \in BOOLEAN /\ Done(t) \in Nat
  BY TurnTypes, Position
<1>5. Advances(emitted[t], emitted'[t], Done(t), Done(t)', Waiting(t), Waiting(t)', <<>>)
  BY <1>4 DEF Advances
<1> QED
  BY <1>2, <1>3, <1>5 DEF Moves, Goes

LEMMA StaysAsIs ==
    ASSUME NEW t \in Turns, Types, Types', Shape(t),
           Done(t)' = Done(t), Waiting(t)' = Waiting(t), UNCHANGED <<deltas, tools>>
    PROVE  Gathered(t, <<>>) /\ Threads(t, <<>>)
<1>1. Done(t) \in Nat /\ Waiting(t) \in BOOLEAN
  BY Position, TurnTypes
<1>2. ASSUME NEW e2 \in Seq(Kinds), NEW e, NEW c, NEW failed
      PROVE  Gathers(e, e2, c, c, Done(t), Done(t), Waiting(t), Waiting(t), <<>>, failed)
  <2>1. \A n \in DOMAIN e2 : ~(Done(t) < n /\ n <= Done(t))
    BY <1>1
  <2> QED
    BY <2>1 DEF Gathers
<1>3. Gathered(t, <<>>)
  <2>1. emitted'[t] \in Seq(Kinds)
    BY DEF Types
  <2> QED
    BY <1>2, <2>1 DEF Gathered
<1>4. Threads(t, <<>>)
  BY DEF Threads
<1> QED
  BY <1>3, <1>4

LEMMA EmitMoves ==
    ASSUME NEW t \in Turns, NEW k \in Kinds, Types, ToolTypes, Shape(t), Emit(t, k)
    PROVE  Types' /\ Moves(t, <<>>) /\ Gathered(t, <<>>) /\ Threads(t, <<>>)
<1>0. /\ emitted \in [Turns -> Seq(Kinds)] /\ queue \in [Turns -> Seq(Nat)]
      /\ flush \in [Turns -> Batch] /\ timer \subseteq Turns
  BY DEF Types
<1>1. /\ t \notin dead /\ emitted' = [emitted EXCEPT ![t] = Append(@, k)]
      /\ UNCHANGED <<tools, deltas, timeline, dead, reported>>
      /\ \A i \in DOMAIN emitted[t] : emitted[t][i] \notin Completions
  BY DEF Emit, failures, past
<1>2. PICK e \in Seq(Kinds) : e = emitted[t]
  BY <1>0
<1>3. PICK p \in Seq(Nat) : p = queue[t]
  BY <1>0
<1> DEFINE e2 == Append(e, k)
           q == Append(p, Len(e) + 1)
<1>4. e2 \in Seq(Kinds) /\ q \in Seq(Nat) /\ q # <<>>
  OBVIOUS
<1>5. /\ emitted' \in [Turns -> Seq(Kinds)] /\ emitted'[t] = e2
      /\ \A u \in Turns \ {t} : emitted'[u] = emitted[u]
  BY <1>0, <1>1, <1>2
<1>6. PICK l \in Nat : l = Len(e)
  OBVIOUS
<1>7. PICK m \in Nat : m = Len(p)
  OBVIOUS
<1>8. /\ Len(e2) = l + 1 /\ DOMAIN e = 1 .. l /\ DOMAIN e2 = 1 .. l + 1
      /\ \A i \in 1 .. l : e2[i] = e[i]
      /\ Len(q) = m + 1 /\ DOMAIN p = 1 .. m /\ DOMAIN q = 1 .. m + 1
      /\ q[m + 1] = l + 1 /\ \A i \in 1 .. m : q[i] = p[i]
  BY <1>6, <1>7
<1>9. /\ IF ~Flushing(t) /\ (k \in Completions \/ Len(q) >= MaxBatch) THEN FlushNow(t, q)
         ELSE /\ queue' = [queue EXCEPT ![t] = q]
              /\ timer' = IF Flushing(t) THEN timer ELSE timer \cup {t}
              /\ UNCHANGED flush
  BY <1>2, <1>3, Zenon DEF Emit
<1> HIDE DEF e2, q
<1>10. /\ Before(t) \in Nat /\ Before(t) = l - m - Len(flush[t].events)
       /\ \A i \in DOMAIN p : p[i] = l - m + i
       /\ \A i \in DOMAIN flush[t].events : flush[t].events[i] = Before(t) + i
  BY <1>2, <1>3, <1>6, <1>7 DEF Shape, Numbered, Before
<1>11. flush[t].events \in Seq(Nat)
  BY <1>0 DEF Batch
<1>12. m <= l /\ \A i \in DOMAIN q : q[i] = l + 1 - (m + 1) + i
  <2>1. m <= l
    BY <1>10, <1>11
  <2>2. ASSUME NEW i \in DOMAIN q PROVE q[i] = l + 1 - (m + 1) + i
    <3>1. CASE i = m + 1
      BY <1>8, <2>1, <3>1
    <3>2. CASE i \in 1 .. m
      <4>1. q[i] = l - m + i
        BY <1>8, <1>10, <3>2
      <4> QED
        BY <2>1, <3>2, <4>1
    <3> QED
      BY <1>8, <3>1, <3>2
  <2> QED
    BY <2>1, <2>2
<1>13. EndsOnce(t)'
  <2> SUFFICES ASSUME NEW i \in DOMAIN e2, NEW j \in DOMAIN e2, i < j PROVE e2[i] \notin Completions
    BY <1>5 DEF EndsOnce
  <2>1. i \in 1 .. l
    BY <1>8
  <2> QED
    BY <1>1, <1>2, <1>8, <2>1
<1>14. /\ Done(t) \in Nat
       /\ ~Flushing(t) => /\ ~Waiting(t) /\ Effects(t) = <<>>
                          /\ Before(t) = l - m /\ Done(t) = Before(t)
  <2>1. ~Flushing(t) => Done(t) = Before(t)
    BY DEF Done
  <2> QED
    BY <1>2, <1>3, <1>6, <1>7, <2>1, Position
<1>15. CASE ~Flushing(t) /\ FlushNow(t, q)
  <2>0. Len(q) <= Len(e2) /\ \A i \in DOMAIN q : q[i] = Len(e2) - Len(q) + i
    BY <1>8, <1>12
  <2>1. Len(q) <= Len(emitted'[t]) /\ \A i \in DOMAIN q : q[i] = Len(emitted'[t]) - Len(q) + i
    BY <1>5, <2>0, Zenon
  <2>2. /\ flush' \in [Turns -> Batch] /\ queue' \in [Turns -> Seq(Nat)] /\ timer' \subseteq Turns
        /\ \A u \in Turns \ {t} : /\ flush'[u] = flush[u] /\ queue'[u] = queue[u]
                                  /\ (u \in timer' <=> u \in timer)
        /\ Shape(t)' /\ ~Waiting(t)' /\ Effects(t)' = <<>>
        /\ Done(t)' = Len(emitted'[t]) - Len(q)
    <3>1. dead' = dead
      BY <1>1
    <3> QED
      BY <1>1, <1>4, <1>5, <1>13, <1>15, <2>1, <3>1, FlushBegins, Zenon
  <2>3. Done(t)' = Done(t)
    <3>1. Done(t)' = Len(e2) - Len(q)
      BY <1>5, <2>2, Zenon
    <3> QED
      BY <1>8, <1>14, <1>15, <3>1
  <2>4. Types'
    BY <1>1, <1>5, <2>2 DEF Types
  <2>5. \A u \in Turns \ {t} : Same(u)
    BY <1>1, <1>5, <2>2 DEF Same
  <2>6. Waiting(t)' = Waiting(t) /\ Effects(t)' = Effects(t)
    <3>1. Waiting(t) \in BOOLEAN /\ Waiting(t)' \in BOOLEAN
      BY <2>2, TurnTypes DEF Waiting, Batch
    <3> QED
      BY <1>14, <1>15, <2>2, <3>1
  <2>7. Len(emitted[t]) <= Len(emitted'[t]) /\ \A i \in DOMAIN emitted[t] : emitted'[t][i] = emitted[t][i]
    BY <1>2, <1>5, <1>6, <1>8
  <2>8. Moves(t, <<>>)
    BY <1>1, <2>2, <2>3, <2>4, <2>5, <2>6, <2>7, StaysInPlace
  <2> QED
    BY <1>1, <2>3, <2>4, <2>6, <2>8, StaysAsIs
<1>16. CASE /\ queue' = [queue EXCEPT ![t] = q] /\ flush' = flush
            /\ timer' = IF Flushing(t) THEN timer ELSE timer \cup {t}
  <2>1. /\ queue' \in [Turns -> Seq(Nat)] /\ queue'[t] = q
        /\ \A u \in Turns \ {t} : queue'[u] = queue[u] /\ (u \in timer' <=> u \in timer)
        /\ timer' \subseteq Turns
    BY <1>0, <1>4, <1>16
  <2>2. Before(t)' = Before(t)
    <3>1. Before(t)' = (l + 1) - (m + 1) - Len(flush[t].events)
      BY <1>5, <1>8, <1>16, <2>1 DEF Before
    <3> QED
      BY <1>10, <1>11, <3>1
  <2>3. Flushing(t)' = Flushing(t) /\ Waiting(t)' = Waiting(t) /\ Effects(t)' = Effects(t)
    BY <1>16 DEF Flushing, Waiting, Effects
  <2>4. Done(t)' = Done(t)
    BY <1>16, <2>2, <2>3 DEF Done
  <2>5. Numbered(t)'
    <3>0. \A i \in DOMAIN q : q[i] = Len(e2) - Len(q) + i
      BY <1>8, <1>12
    <3>1. \A i \in DOMAIN queue'[t] : queue'[t][i] = Len(emitted'[t]) - Len(queue'[t]) + i
      BY <1>5, <2>1, <3>0, Zenon
    <3> QED
      BY <1>10, <1>16, <2>2, <3>1 DEF Numbered
  <2>6. Driven(t)'
    <3>1. Driven(t)
      BY DEF Shape
    <3>2. Flushing(t) => t \notin timer'
      BY <1>16, <3>1 DEF Driven
    <3> QED
      BY <1>1, <1>4, <1>16, <2>1, <2>3, <3>1, <3>2 DEF Driven
  <2>7. Shape(t)'
    BY <1>13, <2>5, <2>6 DEF Shape
  <2>8. Types'
    BY <1>0, <1>1, <1>5, <1>16, <2>1 DEF Types
  <2>9. \A u \in Turns \ {t} : Same(u)
    BY <1>1, <1>5, <1>16, <2>1 DEF Same
  <2>10. Len(emitted[t]) <= Len(emitted'[t]) /\ \A i \in DOMAIN emitted[t] : emitted'[t][i] = emitted[t][i]
    BY <1>2, <1>5, <1>6, <1>8
  <2>11. Moves(t, <<>>)
    BY <1>1, <2>2, <2>3, <2>4, <2>7, <2>8, <2>9, <2>10, StaysInPlace
  <2> QED
    BY <1>1, <2>3, <2>4, <2>8, <2>11, StaysAsIs
<1> QED
  BY <1>9, <1>15, <1>16

LEMMA TimerMoves ==
    ASSUME NEW t \in Turns, Types, Shape(t), TimerFires(t)
    PROVE  Types' /\ Moves(t, <<>>) /\ Gathered(t, <<>>) /\ Threads(t, <<>>)
<1>0. /\ emitted \in [Turns -> Seq(Kinds)] /\ queue \in [Turns -> Seq(Nat)]
      /\ flush \in [Turns -> Batch]
  BY DEF Types
<1>1. /\ FlushNow(t, queue[t]) /\ t \in timer
      /\ emitted' = emitted /\ dead' = dead /\ reported' = reported /\ timeline' = timeline
      /\ UNCHANGED <<tools, deltas>>
  BY DEF TimerFires, failures, past
<1>2. ~Flushing(t) /\ queue[t] # <<>> /\ t \notin dead /\ EndsOnce(t)
  BY <1>1 DEF Shape, Driven
<1>3. PICK q \in Seq(Nat) : q = queue[t]
  BY <1>0
<1>4. PICK e \in Seq(Kinds) : e = emitted[t]
  BY <1>0
<1>5. /\ Before(t) = Len(e) - Len(q) /\ Before(t) \in Nat /\ Done(t) = Before(t)
      /\ ~Waiting(t) /\ Effects(t) = <<>>
  BY <1>2, <1>3, <1>4, Position DEF Done
<1>6. Len(q) <= Len(emitted'[t]) /\ \A i \in DOMAIN q : q[i] = Len(emitted'[t]) - Len(q) + i
  <2>1. Len(q) <= Len(e)
    BY <1>5
  <2>2. \A i \in DOMAIN q : q[i] = Len(e) - Len(q) + i
    BY <1>3, <1>4, Zenon DEF Shape, Numbered
  <2> QED
    BY <1>1, <1>4, <2>1, <2>2, Zenon
<1>7. EndsOnce(t)'
  BY <1>1, <1>2 DEF EndsOnce
<1>8. /\ flush' \in [Turns -> Batch] /\ queue' \in [Turns -> Seq(Nat)] /\ timer' \subseteq Turns
      /\ \A u \in Turns \ {t} : /\ flush'[u] = flush[u] /\ queue'[u] = queue[u]
                                /\ (u \in timer' <=> u \in timer)
      /\ Shape(t)' /\ ~Waiting(t)' /\ Effects(t)' = <<>>
      /\ Done(t)' = Len(emitted'[t]) - Len(q)
  <2>1. FlushNow(t, q) /\ q # <<>> /\ emitted' \in [Turns -> Seq(Kinds)]
    BY <1>0, <1>1, <1>2, <1>3
  <2> QED
    BY <1>1, <1>2, <1>6, <1>7, <2>1, FlushBegins, Zenon
<1>9. Done(t)' = Done(t)
  BY <1>1, <1>4, <1>5, <1>8, Zenon
<1>10. Types'
  BY <1>1, <1>8 DEF Types
<1>11. \A u \in Turns \ {t} : Same(u)
  BY <1>1, <1>8 DEF Same
<1>12. Waiting(t)' = Waiting(t) /\ Effects(t)' = Effects(t)
  <2>1. Waiting(t) \in BOOLEAN /\ Waiting(t)' \in BOOLEAN
    BY <1>8, TurnTypes DEF Waiting, Batch
  <2> QED
    BY <1>5, <1>8, <2>1
<1>13. Len(emitted[t]) <= Len(emitted'[t]) /\ \A i \in DOMAIN emitted[t] : emitted'[t][i] = emitted[t][i]
  BY <1>0, <1>1
<1>14. Moves(t, <<>>)
  BY <1>1, <1>8, <1>9, <1>10, <1>11, <1>12, <1>13, StaysInPlace
<1> QED
  BY <1>1, <1>9, <1>10, <1>12, <1>14, StaysAsIs

LEMMA FinishMoves ==
    ASSUME NEW t \in Turns, Types, Shape(t), Finish(t)
    PROVE  Types' /\ Moves(t, <<>>) /\ Gathered(t, <<>>) /\ Threads(t, <<>>)
<1>0. /\ emitted \in [Turns -> Seq(Kinds)] /\ queue \in [Turns -> Seq(Nat)]
      /\ flush \in [Turns -> Batch]
      /\ flush[t].events \in Seq(Nat) /\ flush[t].at \in Nat
  BY DEF Types, Batch
<1>1. /\ EndFlush(t) /\ Flushing(t) /\ flush[t].at > Len(flush[t].events) /\ Effects(t) = <<>>
      /\ emitted' = emitted /\ dead' = dead /\ reported' = reported /\ timeline' = timeline
      /\ queue' = queue /\ UNCHANGED <<tools, deltas>>
  BY DEF Finish, EndFlush, AllWritten, Effects, failures, past
<1>2. /\ flush' \in [Turns -> Batch] /\ timer' \subseteq Turns
      /\ \A u \in Turns \ {t} : flush'[u] = flush[u] /\ (u \in timer' <=> u \in timer)
      /\ Shape(t)' /\ ~Waiting(t)' /\ Effects(t)' = <<>>
      /\ Done(t)' = Before(t) + Len(flush[t].events)
  BY <1>1, FlushGoes
<1>3. flush[t].at = Len(flush[t].events) + 1 /\ ~Waiting(t) /\ Before(t) \in Nat
  BY <1>0, <1>1 DEF Shape, Driven, Numbered
<1>4. Done(t)' = Done(t)
  <2>1. Done(t) = Before(t) + flush[t].at - 1
    BY <1>1 DEF Done
  <2> QED
    BY <1>0, <1>2, <1>3, <2>1
<1>5. Types'
  BY <1>1, <1>2 DEF Types
<1>6. \A u \in Turns \ {t} : Same(u)
  BY <1>1, <1>2 DEF Same
<1>7. Waiting(t)' = Waiting(t) /\ Effects(t)' = Effects(t)
  <2>1. Waiting(t) \in BOOLEAN /\ Waiting(t)' \in BOOLEAN
    BY <1>2, TurnTypes DEF Waiting, Batch
  <2> QED
    BY <1>1, <1>2, <1>3, <2>1
<1>8. Len(emitted[t]) <= Len(emitted'[t]) /\ \A i \in DOMAIN emitted[t] : emitted'[t][i] = emitted[t][i]
  BY <1>0, <1>1
<1>9. Moves(t, <<>>)
  BY <1>1, <1>2, <1>4, <1>5, <1>6, <1>7, <1>8, StaysInPlace
<1> QED
  BY <1>1, <1>4, <1>5, <1>7, <1>9, StaysAsIs

\* A batch that aborts.
LEMMA AbortLoses ==
    ASSUME NEW t \in Turns, Types, Shape(t), Flushing(t), Abort(t), emitted' = emitted, dead' = dead
    PROVE  /\ flush' \in [Turns -> Batch] /\ timer' \subseteq Turns /\ queue' = queue
           /\ \A u \in Turns \ {t} : flush'[u] = flush[u] /\ (u \in timer' <=> u \in timer)
           /\ reported \subseteq reported' /\ Shape(t)' /\ ~Waiting(t)' /\ Loses(t)
           /\ Done(t) <= Done(t)' /\ (flush[t].at <= Len(flush[t].events) => Done(t) < Done(t)')
           /\ Done(t)' \in Nat /\ Done(t)' \in Reported(t)'
<1>0. /\ emitted \in [Turns -> Seq(Kinds)] /\ queue \in [Turns -> Seq(Nat)]
      /\ flush \in [Turns -> Batch]
      /\ flush[t].events \in Seq(Nat) /\ flush[t].at \in Nat
  BY DEF Types, Batch
<1>1. /\ EndFlush(t) /\ queue' = queue
      /\ reported' = reported \cup {Event(t, n) : n \in ToSet(flush[t].events)}
  BY DEF Abort, EndFlush
<1>2. /\ flush' \in [Turns -> Batch] /\ timer' \subseteq Turns
      /\ \A u \in Turns \ {t} : flush'[u] = flush[u] /\ (u \in timer' <=> u \in timer)
      /\ Shape(t)' /\ ~Waiting(t)' /\ Effects(t)' = <<>>
      /\ Done(t)' = Before(t) + Len(flush[t].events) /\ Before(t) < Done(t)'
  BY <1>1, FlushGoes
<1>3. /\ Before(t) \in Nat /\ \A i \in DOMAIN flush[t].events : flush[t].events[i] = Before(t) + i
      /\ flush[t].at # 0 /\ flush[t].at <= Len(flush[t].events) + 1
  BY DEF Shape, Driven, Numbered
<1>4. Before(t) + Len(flush[t].events) <= Len(emitted[t])
  BY <1>0, <1>3 DEF Before
<1>5. ASSUME NEW n \in Nat, Before(t) < n, n <= Done(t)' PROVE n \in Reported(t)'
  <2>1. n - Before(t) \in DOMAIN flush[t].events /\ Before(t) + (n - Before(t)) = n
    BY <1>0, <1>2, <1>3, <1>5
  <2>2. flush[t].events[n - Before(t)] = n
    BY <1>3, <2>1
  <2>3. n \in ToSet(flush[t].events)
    BY <2>1, <2>2 DEF ToSet
  <2>4. Event(t, n)' \in reported'
    BY <1>1, <2>3 DEF Event
  <2>5. n \in DOMAIN emitted'[t]
    BY <1>0, <1>2, <1>3, <1>4, <1>5
  <2> QED
    BY <2>4, <2>5 DEF Reported
<1>6. Loses(t)
  BY <1>2, <1>5 DEF Loses
<1>7. Done(t) = Before(t) + flush[t].at - 1
  BY DEF Done
<1>8. Done(t) <= Done(t)' /\ (flush[t].at <= Len(flush[t].events) => Done(t) < Done(t)') /\ Done(t)' \in Nat
  BY <1>0, <1>2, <1>3, <1>7
<1>9. Done(t)' \in Reported(t)'
  BY <1>2, <1>5, <1>8
<1> QED
  BY <1>1, <1>2, <1>6, <1>8, <1>9

\* What is written for event n of kind k: before, or both of its rows.
RowsOf(n, k, c, before, both) ==
    /\ before \in Seq(Row) /\ both \in Seq(Row) /\ Ranked(before) /\ Ranked(both)
    /\ \A i \in DOMAIN before : before[i].n = n /\ before[i].kind = "text" /\ k = "ok" /\ before[i].parts = c
    /\ \A i \in DOMAIN both : \/ both[i].n = n /\ both[i].kind = k
                              \/ both[i].n = n /\ both[i].kind = "text" /\ k = "ok" /\ both[i].parts = c
    /\ \E i \in DOMAIN both : both[i].n = n /\ both[i].kind = k

LEMMA RowsOfWrite ==
    ASSUME NEW n \in Nat, NEW k \in RowKinds, NEW c \in SUBSET Nat,
           NEW own \in Row, own.n = n, own.kind = k,
           NEW agg \in Row, agg.n = n, agg.kind = "text", agg.parts = c,
           NEW before \in Seq(Row), before = <<>> \/ (k = "ok" /\ before = <<agg>>)
    PROVE  RowsOf(n, k, c, before, Append(before, own))
<1>1. own \in Row
  OBVIOUS
<1>2. CASE before = <<>>
  <2>1. Append(before, own) = <<own>>
    BY <1>2
  <2> QED
    BY <1>1, <1>2, <2>1 DEF Ranked, RowsOf
<1>3. CASE k = "ok" /\ before = <<agg>>
  <2>1. agg \in Row
    OBVIOUS
  <2>2. before = <<agg>>
    BY <1>3
  <2>3. agg.n = n /\ agg.kind = "text" /\ agg.parts = c /\ own.n = n /\ own.kind = "ok"
    BY <1>3
  <2>4. Rank(agg) = 2 * n + 0 /\ Rank(own) = 2 * n + 1
    <3>1. agg.kind \notin Completions /\ own.kind \in Completions
      BY <2>3 DEF Completions
    <3> QED
      BY <2>3, <3>1, Zenon DEF Rank
  <2>5. Rank(agg) < Rank(own)
    BY <2>4
  <2>6. /\ <<agg>> \in Seq(Row) /\ <<agg, own>> \in Seq(Row)
        /\ DOMAIN <<agg>> = {1} /\ DOMAIN <<agg, own>> = {1, 2}
        /\ <<agg>>[1] = agg /\ <<agg, own>>[1] = agg /\ <<agg, own>>[2] = own
    BY <1>1, <2>1
  <2>7. Ranked(<<agg>>) /\ Ranked(<<agg, own>>)
    <3>1. ASSUME NEW i \in {1, 2}, NEW j \in {1, 2}, i < j
          PROVE  Rank(<<agg, own>>[i]) < Rank(<<agg, own>>[j])
      <4>1. i = 1 /\ j = 2
        BY <3>1
      <4> QED
        BY <2>5, <2>6, <4>1, Zenon
    <3>2. \A i, j \in {1} : ~(i < j)
      OBVIOUS
    <3> QED
      BY <2>6, <3>1, <3>2, Zenon DEF Ranked
  <2>8. Append(before, own) = <<agg, own>>
    <3>1. /\ Append(<<agg>>, own) \in Seq(Row) /\ Len(Append(<<agg>>, own)) = Len(<<agg>>) + 1
          /\ \A i \in 1 .. Len(<<agg>>) : Append(<<agg>>, own)[i] = <<agg>>[i]
          /\ Append(<<agg>>, own)[Len(<<agg>>) + 1] = own
      BY <1>1, <2>6, AppendProperties
    <3>2. Len(<<agg>>) = 1 /\ Len(<<agg, own>>) = 2 /\ 1 + 1 = 2 /\ 1 \in 1 .. 1
      OBVIOUS
    <3>3. Append(<<agg>>, own)[1] = agg /\ Append(<<agg>>, own)[2] = own /\ Len(Append(<<agg>>, own)) = 2
      BY <2>6, <3>1, <3>2, Zenon
    <3>4. ASSUME NEW i \in 1 .. 2 PROVE Append(<<agg>>, own)[i] = <<agg, own>>[i]
      <4>1. i = 1 \/ i = 2
        OBVIOUS
      <4> QED
        BY <2>6, <3>3, <4>1, Zenon
    <3> QED
      BY <2>2, <2>6, <3>1, <3>2, <3>3, <3>4, SeqEqual, Zenon
  <2>9. \A i \in DOMAIN before : before[i] = agg
    BY <2>2, <2>6
  <2>10. /\ \A i \in DOMAIN Append(before, own) : Append(before, own)[i] = agg \/ Append(before, own)[i] = own
         /\ 2 \in DOMAIN Append(before, own) /\ Append(before, own)[2] = own
    BY <2>6, <2>8
  <2> QED
    BY <1>3, <2>2, <2>3, <2>6, <2>7, <2>8, <2>9, <2>10, Zenon DEF RowsOf
<1> QED
  BY <1>2, <1>3

LEMMA WrittenMoves ==
    ASSUME NEW t \in Turns, NEW before, Types, ToolTypes, Shape(t), Writes(t), Kind(t) # "delta", Written(t, before),
           before = <<>> \/ (Kind(t) = "ok" /\ before = Aggregate(t)), emitted' = emitted, dead' = dead
    PROVE  /\ ~Waiting(t) /\ t \notin dead /\ Done(t) + 1 \in DOMAIN emitted[t]
           /\ Kind(t) = emitted[t][Done(t) + 1]
           /\ \E rs \in Seq(Row) :
                 /\ Types' /\ Moves(t, rs)
                 /\ Waiting(t)' \/ Done(t) < Done(t)'
                 /\ \A k \in DOMAIN rs : rs[k].kind = "text" /\ Kind(t) = "ok" => rs[k].parts = deltas[t]
                 /\ \/ Waiting(t)' /\ Done(t)' = Done(t)
                    \/ ~Waiting(t)' /\ Done(t)' = Done(t) + 1
                    \/ ~Waiting(t)' /\ Reported(t)' # {} /\ rs = before
<1>0. /\ emitted \in [Turns -> Seq(Kinds)] /\ flush \in [Turns -> Batch]
      /\ timeline \in [Turns -> Seq(Row)] /\ timer \subseteq Turns /\ dead \subseteq Turns
      /\ queue \in [Turns -> Seq(Nat)]
      /\ flush[t].events \in Seq(Nat) /\ flush[t].at \in Nat /\ deltas[t] \in SUBSET Nat
      /\ flush[t].effects \in Seq(Row) /\ flush[t].committed \in BOOLEAN /\ flush[t] \in Batch
  BY DEF Types, ToolTypes, Batch
<1>1. Flushing(t) /\ flush[t].at <= Len(flush[t].events) /\ ~Waiting(t)
  BY DEF Writes, Waiting
<1>2. /\ Done(t) + 1 \in DOMAIN emitted[t] /\ t \notin dead
      /\ Number(t) = Done(t) + 1 /\ Kind(t) = emitted[t][Done(t) + 1]
      /\ Number(t) \in Nat /\ Kind(t) \in Kinds
  BY <1>1, AtEvent
<1>3. Done(t) \in Nat /\ Kind(t) \in RowKinds
  BY <1>2, Position, BridgeAssumption DEF RowKinds, AllKinds, Tools, Completions
<1> DEFINE own == [n |-> Number(t), kind |-> Kind(t), parts |-> {Number(t)}]
           both == Append(before, own)
<1>4. /\ before \in Seq(Row) /\ both \in Seq(Row) /\ Ranked(before) /\ Ranked(both)
      /\ \A i \in DOMAIN before : /\ before[i].n = Number(t) /\ before[i].kind = "text" /\ Kind(t) = "ok"
                                  /\ before[i].parts = deltas[t]
      /\ \A i \in DOMAIN both : \/ both[i].n = Number(t) /\ both[i].kind = Kind(t)
                                \/ /\ both[i].n = Number(t) /\ both[i].kind = "text" /\ Kind(t) = "ok"
                                   /\ both[i].parts = deltas[t]
      /\ \E i \in DOMAIN both : both[i].n = Number(t) /\ both[i].kind = Kind(t)
  <2>1. before = <<>> \/ (Kind(t) = "ok" /\ before = <<[n |-> Number(t), kind |-> "text", parts |-> deltas[t]]>>)
    BY DEF Aggregate
  <2>2. Number(t) \in Nat /\ Kind(t) \in RowKinds /\ deltas[t] \in SUBSET Nat
    BY <1>0, <1>2, <1>3
  <2>3. own \in Row /\ own.n = Number(t) /\ own.kind = Kind(t)
    BY <2>2 DEF Row
  <2> HIDE DEF own
  <2>4. PICK n \in Nat, k \in RowKinds, c \in SUBSET Nat : n = Number(t) /\ k = Kind(t) /\ c = deltas[t]
    BY <2>2
  <2> DEFINE agg == [n |-> n, kind |-> "text", parts |-> c]
  <2>a. agg \in Row /\ agg.n = n /\ agg.kind = "text" /\ agg.parts = c
    BY DEF Row, RowKinds, AllKinds
  <2>5. before = <<>> \/ (k = "ok" /\ before = <<agg>>)
    BY <2>1, <2>4, Zenon
  <2> HIDE DEF agg
  <2>6. own \in Row /\ own.n = n /\ own.kind = k
    BY <2>3, <2>4, Zenon
  <2>7. RowsOf(n, k, c, before, both)
    <3>0. agg \in Row
      BY <2>a
    <3>2. <<agg>> \in Seq(Row) /\ <<>> \in Seq(Row)
      BY <3>0
    <3>1. before \in Seq(Row)
      BY <2>5, <3>2, Zenon
    <3> QED
      BY <2>5, <2>6, <2>a, <3>1, RowsOfWrite, Zenon
  <2> QED
    BY <2>4, <2>7, Zenon DEF RowsOf
<1>5. ASSUME NEW rs \in Seq(Row), rs = before \/ (rs = both /\ Waiting(t)'),
             Waiting(t)' \in BOOLEAN, Waiting(t)' => rs = both /\ Done(t)' = Done(t),
             ~Waiting(t)' => Done(t) < Done(t)', Done(t)' \in Nat
      PROVE  Advances(emitted[t], emitted'[t], Done(t), Done(t)', Waiting(t), Waiting(t)', rs)
  <2>1. /\ Ranked(rs)
        /\ \A i \in DOMAIN rs :
              /\ rs[i].n = Done(t) + 1
              /\ \/ Waiting(t)' /\ rs[i].kind = emitted[t][Done(t) + 1]
                 \/ rs[i].kind = "text" /\ emitted[t][Done(t) + 1] = "ok"
    BY <1>2, <1>4, <1>5, Zenon
  <2>2. Waiting(t)' => \E i \in DOMAIN rs : rs[i].n = Done(t) + 1 /\ rs[i].kind = emitted[t][Done(t) + 1]
    BY <1>2, <1>4, <1>5, Zenon
  <2>3. Done(t) <= Done(t)' /\ (Waiting(t)' \/ Done(t) < Done(t)') /\ (Waiting(t)' => Done(t)' = Done(t))
    BY <1>3, <1>5
  <2>4. Len(emitted[t]) <= Len(emitted'[t]) /\ \A i \in DOMAIN emitted[t] : emitted'[t][i] = emitted[t][i]
    BY <1>0
  <2> QED
    BY <1>1, <1>2, <2>1, <2>2, <2>3, <2>4, Zenon DEF Advances
<1> HIDE DEF both, own
<1>6. CASE /\ timeline' = [timeline EXCEPT ![t] = @ \o both]
           /\ flush' = [flush EXCEPT ![t].committed = TRUE, ![t].effects = @ \o both]
           /\ UNCHANGED <<queue, timer, failures>>
  <2>1. flush[t].effects \o both \in Seq(Row) /\ timeline[t] \o both \in Seq(Row)
    BY <1>0, <1>4, ConcatProperties
  <2>2. /\ flush'[t] = [flush[t] EXCEPT !.committed = TRUE, !.effects = @ \o both]
        /\ \A u \in Turns \ {t} : flush'[u] = flush[u]
    BY <1>0, <1>6
  <2>3. /\ flush'[t].events = flush[t].events /\ flush'[t].at = flush[t].at
        /\ flush'[t].committed = TRUE /\ flush'[t].effects = flush[t].effects \o both
        /\ flush'[t] \in Batch
    BY <1>0, <2>1, <2>2 DEF Batch
  <2>4. flush' \in [Turns -> Batch]
    BY <1>0, <1>6, <2>2, <2>3
  <2>5. timeline' \in [Turns -> Seq(Row)] /\ timeline'[t] = timeline[t] \o both
        /\ \A u \in Turns \ {t} : timeline'[u] = timeline[u]
    BY <1>0, <1>6, <2>1
  <2>6. /\ Shape(t)' /\ Before(t)' = Before(t)
        /\ Done(t)' = Done(t) + (flush'[t].at - flush[t].at)
    <3>1. flush'[t].at <= Len(flush[t].events) + 1 /\ queue' = queue /\ timer' = timer
      BY <1>0, <1>1, <1>6, <2>3
    <3> QED
      BY <1>1, <2>3, <2>4, <3>1, BatchGoesOn
  <2>7. Done(t)' = Done(t) /\ Waiting(t)' = TRUE /\ Effects(t)' = Effects(t) \o both
    BY <1>0, <1>3, <2>3, <2>6 DEF Waiting, Effects
  <2>8. Types'
    BY <1>0, <1>6, <2>4, <2>5 DEF Types
  <2>9. \A u \in Turns \ {t} : Same(u)
    BY <1>6, <2>2, <2>5 DEF Same
  <2>10. Advances(emitted[t], emitted'[t], Done(t), Done(t)', Waiting(t), Waiting(t)', both)
    BY <1>3, <1>4, <1>5, <2>7
  <2>11. Keeps(t, both)
    BY <2>6, <2>7 DEF Keeps
  <2>12. Moves(t, both)
    BY <1>4, <1>6, <2>5, <2>6, <2>9, <2>10, <2>11 DEF Moves, Goes, failures
  <2>13. \A k \in DOMAIN both : both[k].kind = "text" /\ Kind(t) = "ok" => both[k].parts = deltas[t]
    BY <1>4
  <2> QED
    BY <1>1, <1>2, <1>4, <2>7, <2>8, <2>12, <2>13
<1>7. CASE /\ timeline' = [timeline EXCEPT ![t] = @ \o before]
           /\ flush' = [flush EXCEPT ![t].at = @ + 1, ![t].effects = @ \o before]
           /\ UNCHANGED <<queue, timer, reported>>
  <2>1. flush[t].effects \o before \in Seq(Row) /\ timeline[t] \o before \in Seq(Row)
    BY <1>0, <1>4, ConcatProperties
  <2>2. /\ flush'[t] = [flush[t] EXCEPT !.at = @ + 1, !.effects = @ \o before]
        /\ \A u \in Turns \ {t} : flush'[u] = flush[u]
    BY <1>0, <1>7
  <2>3. /\ flush'[t].events = flush[t].events /\ flush'[t].at = flush[t].at + 1
        /\ flush'[t].committed = flush[t].committed /\ flush'[t].effects = flush[t].effects \o before
        /\ flush'[t] \in Batch
    <3>1. flush[t].at + 1 \in Nat
      BY <1>0
    <3>2. flush'[t] = [events |-> flush[t].events, at |-> flush[t].at + 1,
                       committed |-> flush[t].committed, effects |-> flush[t].effects \o before]
      BY <1>0, <2>2 DEF Batch
    <3> QED
      BY <1>0, <2>1, <3>1, <3>2 DEF Batch
  <2>4. flush' \in [Turns -> Batch]
    BY <1>0, <1>7, <2>2, <2>3
  <2>5. timeline' \in [Turns -> Seq(Row)] /\ timeline'[t] = timeline[t] \o before
        /\ \A u \in Turns \ {t} : timeline'[u] = timeline[u]
    BY <1>0, <1>7, <2>1
  <2>6. /\ Shape(t)' /\ Before(t)' = Before(t)
        /\ Done(t)' = Done(t) + (flush'[t].at - flush[t].at)
    <3>1. flush'[t].at <= Len(flush[t].events) + 1 /\ queue' = queue /\ timer' = timer
      BY <1>0, <1>1, <1>7, <2>3
    <3>2. ~Waiting(t)'
      BY <1>1, <2>3 DEF Waiting
    <3> QED
      BY <1>1, <2>3, <2>4, <3>1, <3>2, BatchGoesOn
  <2>7. Done(t)' = Done(t) + 1 /\ Waiting(t)' = FALSE /\ Effects(t)' = Effects(t) \o before
    BY <1>0, <1>1, <1>3, <2>3, <2>6 DEF Waiting, Effects
  <2>8. Types'
    BY <1>0, <1>7, <2>4, <2>5 DEF Types
  <2>9. \A u \in Turns \ {t} : Same(u)
    BY <1>7, <2>2, <2>5 DEF Same
  <2>10. Advances(emitted[t], emitted'[t], Done(t), Done(t)', Waiting(t), Waiting(t)', before)
    <3>1. Waiting(t)' \in BOOLEAN /\ ~Waiting(t)' /\ Done(t) < Done(t)' /\ Done(t)' \in Nat
      <4>1. PICK m \in Nat : m = Done(t)
        BY <1>3
      <4>2. m < m + 1 /\ m + 1 \in Nat
        OBVIOUS
      <4>3. Done(t)' = m + 1
        BY <2>7, <4>1
      <4> QED
        BY <2>7, <4>1, <4>2, <4>3, Zenon
    <3> QED
      BY <1>4, <1>5, <3>1
  <2>11. Keeps(t, before)
    BY <2>6, <2>7 DEF Keeps
  <2>12. Moves(t, before)
    BY <1>4, <1>7, <2>5, <2>6, <2>9, <2>10, <2>11 DEF Moves, Goes
  <2>13. \A k \in DOMAIN before : before[k].kind = "text" /\ Kind(t) = "ok" => before[k].parts = deltas[t]
    BY <1>4
  <2>14. Done(t) < Done(t)'
    BY <1>3, <2>7
  <2> QED
    BY <1>1, <1>2, <1>4, <2>7, <2>8, <2>12, <2>13, <2>14
<1>8. CASE timeline' = [timeline EXCEPT ![t] = @ \o before] /\ Abort(t)
  <2>1. timeline[t] \o before \in Seq(Row)
    BY <1>0, <1>4, ConcatProperties
  <2>2. timeline' \in [Turns -> Seq(Row)] /\ timeline'[t] = timeline[t] \o before
        /\ \A u \in Turns \ {t} : timeline'[u] = timeline[u]
    BY <1>0, <1>8, <2>1
  <2>3. /\ flush' \in [Turns -> Batch] /\ timer' \subseteq Turns /\ queue' = queue
        /\ \A u \in Turns \ {t} : flush'[u] = flush[u] /\ (u \in timer' <=> u \in timer)
        /\ reported \subseteq reported' /\ Shape(t)' /\ ~Waiting(t)' /\ Loses(t)
        /\ Done(t) < Done(t)' /\ Done(t)' \in Nat /\ Done(t)' \in Reported(t)'
    BY <1>1, <1>8, AbortLoses
  <2>4. Types'
    BY <1>0, <2>2, <2>3 DEF Types
  <2>5. \A u \in Turns \ {t} : Same(u)
    BY <2>2, <2>3 DEF Same
  <2>6. Waiting(t)' = FALSE
    BY <2>3 DEF Waiting, Batch
  <2>7. Advances(emitted[t], emitted'[t], Done(t), Done(t)', Waiting(t), Waiting(t)', before)
    BY <1>3, <1>4, <1>5, <2>3, <2>6
  <2>8. Moves(t, before)
    BY <1>4, <2>2, <2>3, <2>5, <2>7 DEF Moves, Goes
  <2>9. \A k \in DOMAIN before : before[k].kind = "text" /\ Kind(t) = "ok" => before[k].parts = deltas[t]
    BY <1>4
  <2> QED
    BY <1>1, <1>2, <1>4, <2>3, <2>4, <2>8, <2>9
<1>9. \/ /\ timeline' = [timeline EXCEPT ![t] = @ \o both]
         /\ flush' = [flush EXCEPT ![t].committed = TRUE, ![t].effects = @ \o both]
         /\ UNCHANGED <<queue, timer, failures>>
      \/ /\ timeline' = [timeline EXCEPT ![t] = @ \o before]
         /\ flush' = [flush EXCEPT ![t].at = @ + 1, ![t].effects = @ \o before]
         /\ UNCHANGED <<queue, timer, reported>>
      \/ timeline' = [timeline EXCEPT ![t] = @ \o before] /\ Abort(t)
  BY Zenon DEF Written, both, own
<1> QED
  BY <1>6, <1>7, <1>8, <1>9

LEMMA PassesMoves ==
    ASSUME NEW t \in Turns, Types, Shape(t), Flushing(t), flush[t].at <= Len(flush[t].events),
           PassesOver(t), emitted' = emitted, timeline' = timeline, dead' = dead
    PROVE  /\ Types' /\ Moves(t, <<>>)
           /\ Done(t) \in Nat /\ Done(t)' = Done(t) + 1 /\ ~Waiting(t)'
           /\ Done(t) + 1 \in DOMAIN emitted[t] /\ t \notin dead
           /\ Number(t) = Done(t) + 1 /\ Kind(t) = emitted[t][Done(t) + 1]
<1>0. /\ emitted \in [Turns -> Seq(Kinds)] /\ flush \in [Turns -> Batch]
      /\ timeline \in [Turns -> Seq(Row)] /\ queue \in [Turns -> Seq(Nat)]
      /\ flush[t].events \in Seq(Nat) /\ flush[t].at \in Nat /\ flush[t] \in Batch
      /\ flush[t].effects \in Seq(Row) /\ timeline[t] \in Seq(Row)
  BY DEF Types, Batch
<1>1. /\ Done(t) + 1 \in DOMAIN emitted[t] /\ t \notin dead
      /\ Number(t) = Done(t) + 1 /\ Kind(t) = emitted[t][Done(t) + 1]
      /\ Done(t) \in Nat
  BY AtEvent, Position
<1>2. /\ flush' = [flush EXCEPT ![t].at = @ + 1, ![t].committed = FALSE]
      /\ queue' = queue /\ timer' = timer /\ reported' = reported
  BY DEF PassesOver, Passed
<1>3. /\ flush'[t].events = flush[t].events /\ flush'[t].at = flush[t].at + 1
      /\ flush'[t].committed = FALSE /\ flush'[t].effects = flush[t].effects
      /\ flush'[t] \in Batch /\ \A u \in Turns \ {t} : flush'[u] = flush[u]
  <2>1. flush[t].at + 1 \in Nat
    BY <1>0
  <2>2. flush'[t] = [events |-> flush[t].events, at |-> flush[t].at + 1,
                     committed |-> FALSE, effects |-> flush[t].effects]
    BY <1>0, <1>2 DEF Batch
  <2>3. \A u \in Turns \ {t} : flush'[u] = flush[u]
    BY <1>0, <1>2
  <2> QED
    BY <1>0, <2>1, <2>2, <2>3 DEF Batch
<1>4. flush' \in [Turns -> Batch]
  BY <1>0, <1>2, <1>3
<1>5. ~Waiting(t)' /\ Waiting(t)' \in BOOLEAN /\ Effects(t)' = Effects(t)
  BY <1>3 DEF Waiting, Effects
<1>6. Shape(t)' /\ Before(t)' = Before(t) /\ Done(t)' = Done(t) + (flush'[t].at - flush[t].at)
  <2>1. flush'[t].at <= Len(flush[t].events) + 1
    BY <1>0, <1>3
  <2> QED
    BY <1>2, <1>3, <1>4, <1>5, <2>1, BatchGoesOn
<1>7. Done(t)' = Done(t) + 1
  BY <1>0, <1>1, <1>3, <1>6
<1>8. Types'
  BY <1>2, <1>4 DEF Types
<1>9. \A u \in Turns \ {t} : Same(u)
  BY <1>2, <1>3 DEF Same
<1>10. Advances(emitted[t], emitted'[t], Done(t), Done(t)', Waiting(t), Waiting(t)', <<>>)
  <2>1. Len(emitted[t]) <= Len(emitted'[t]) /\ \A i \in DOMAIN emitted[t] : emitted'[t][i] = emitted[t][i]
    BY <1>0
  <2>2. Done(t) <= Done(t)' /\ Done(t) < Done(t)'
    BY <1>1, <1>7
  <2> QED
    BY <1>5, <2>1, <2>2 DEF Advances
<1>11. timeline'[t] = timeline[t] \o <<>> /\ Effects(t)' = Effects(t) \o <<>>
  BY <1>0, <1>5, ConcatEmptySeq DEF Effects
<1>12. Moves(t, <<>>)
  BY <1>2, <1>6, <1>9, <1>10, <1>11 DEF Moves, Goes, Keeps
<1> QED
  BY <1>1, <1>5, <1>7, <1>8, <1>12

LEMMA AbortMoves ==
    ASSUME NEW t \in Turns, Types, Shape(t), Flushing(t), Abort(t),
           emitted' = emitted, timeline' = timeline, dead' = dead
    PROVE  /\ Types' /\ Moves(t, <<>>)
           /\ ~Waiting(t)' /\ Reported(t)' # {} /\ Done(t)' \in Nat
           /\ flush[t].at <= Len(flush[t].events) => Done(t) < Done(t)'
<1>0. /\ emitted \in [Turns -> Seq(Kinds)] /\ timeline \in [Turns -> Seq(Row)]
      /\ flush[t].at \in Nat /\ flush[t].events \in Seq(Nat) /\ timeline[t] \in Seq(Row)
      /\ Done(t) \in Nat /\ Waiting(t) \in BOOLEAN
  BY Position, TurnTypes DEF Types
<1>1. /\ flush' \in [Turns -> Batch] /\ timer' \subseteq Turns /\ queue' = queue
      /\ \A u \in Turns \ {t} : flush'[u] = flush[u] /\ (u \in timer' <=> u \in timer)
      /\ reported \subseteq reported' /\ Shape(t)' /\ ~Waiting(t)' /\ Loses(t)
      /\ Done(t) <= Done(t)' /\ (flush[t].at <= Len(flush[t].events) => Done(t) < Done(t)')
      /\ Done(t)' \in Nat /\ Done(t)' \in Reported(t)'
  BY AbortLoses
<1>2. Waiting(t) => Done(t) < Done(t)'
  BY <1>1 DEF Shape, Driven
<1>3. Types'
  BY <1>1 DEF Types
<1>4. \A u \in Turns \ {t} : Same(u)
  BY <1>1 DEF Same
<1>5. Waiting(t)' \in BOOLEAN
  BY <1>1 DEF Waiting, Batch
<1>6. Advances(emitted[t], emitted'[t], Done(t), Done(t)', Waiting(t), Waiting(t)', <<>>)
  <2>1. Len(emitted[t]) <= Len(emitted'[t]) /\ \A i \in DOMAIN emitted[t] : emitted'[t][i] = emitted[t][i]
    BY <1>0
  <2> QED
    BY <1>0, <1>1, <1>2, <1>5, <2>1 DEF Advances
<1>7. timeline'[t] = timeline[t] \o <<>>
  BY <1>0, ConcatEmptySeq
<1>8. Moves(t, <<>>)
  BY <1>1, <1>4, <1>6, <1>7 DEF Moves, Goes
<1> QED
  BY <1>1, <1>3, <1>8

-----------------------------------------------------------------------------
(* The writes *)

\* A write of a row that is not a completion.
LEMMA WrittenGathers ==
    ASSUME NEW t \in Turns, Types, ToolTypes, Shape(t), Writes(t), Written(t, <<>>),
           Kind(t) \notin Completions \cup {"delta"},
           emitted' = emitted, deltas' = deltas, dead' = dead
    PROVE  /\ ~Waiting(t) /\ Kind(t) = emitted[t][Done(t) + 1]
           /\ \E rs \in Seq(Row) : Types' /\ Moves(t, rs) /\ Gathered(t, rs)
<1>1. /\ ~Waiting(t) /\ t \notin dead /\ Done(t) + 1 \in DOMAIN emitted[t]
      /\ Kind(t) = emitted[t][Done(t) + 1]
  BY WrittenMoves
<1>2. PICK rs \in Seq(Row) :
        /\ Types' /\ Moves(t, rs)
        /\ \/ Waiting(t)' /\ Done(t)' = Done(t)
           \/ ~Waiting(t)' /\ Done(t)' = Done(t) + 1
           \/ ~Waiting(t)' /\ Reported(t)' # {} /\ rs = <<>>
  BY WrittenMoves
<1>3. /\ Done(t) \in Nat /\ emitted[t] \in Seq(Kinds)
  BY Position, TurnTypes
<1>4. emitted[t][Done(t) + 1] # "ok" /\ emitted[t][Done(t) + 1] # "delta"
  BY <1>1 DEF Completions
<1>5. Gathers(emitted[t], emitted'[t], deltas[t], deltas'[t], Done(t), Done(t)',
              Waiting(t), Waiting(t)', rs, Reported(t)' # {})
  <2>1. CASE Done(t)' = Done(t)
    <3>1. \A n \in DOMAIN emitted'[t] : ~(Done(t) < n /\ n <= Done(t)')
      BY <1>3, <2>1
    <3> QED
      BY <1>1, <3>1 DEF Gathers
  <2>2. CASE Done(t)' = Done(t) + 1
    <3>1. ASSUME NEW n \in DOMAIN emitted'[t], Done(t) < n, n <= Done(t)'
          PROVE  emitted'[t][n] # "delta"
      <4>1. n = Done(t) + 1
        BY <1>3, <2>2, <3>1
      <4> QED
        BY <1>4, <4>1
    <3> QED
      BY <1>1, <3>1 DEF Gathers
  <2>3. CASE ~Waiting(t)' /\ Reported(t)' # {} /\ rs = <<>>
    BY <1>1, <2>3 DEF Gathers
  <2> QED
    BY <1>2, <2>1, <2>2, <2>3
<1>6. Gathered(t, rs)
  BY <1>4, <1>5 DEF Gathered
<1> QED
  BY <1>1, <1>2, <1>6

LEMMA WriteRowMoves ==
    ASSUME NEW t \in Turns, Types, ToolTypes, Shape(t), WriteRow(t)
    PROVE  Types' /\ \E rs \in Seq(Row) : Moves(t, rs) /\ Gathered(t, rs) /\ Threads(t, rs)
<1>1. /\ Writes(t) /\ Kind(t) \in {"text", "note"} /\ Written(t, <<>>)
      /\ emitted' = emitted /\ deltas' = deltas /\ dead' = dead /\ UNCHANGED tools
  BY DEF WriteRow, past
<1>2. ~Waiting(t) /\ Kind(t) = emitted[t][Done(t) + 1]
  BY <1>1, WrittenGathers DEF Completions
<1>3. PICK rs \in Seq(Row) : Types' /\ Moves(t, rs) /\ Gathered(t, rs)
  BY <1>1, WrittenGathers DEF Completions
<1>4. Threads(t, rs)
  BY <1>1, <1>2 DEF Threads, Tools
<1> QED
  BY <1>3, <1>4

LEMMA WriteToolMoves ==
    ASSUME NEW t \in Turns, Types, ToolTypes, Shape(t), WriteTool(t)
    PROVE  Types' /\ \E rs \in Seq(Row) : Moves(t, rs) /\ Gathered(t, rs) /\ Threads(t, rs)
<1>1. /\ Writes(t) /\ Kind(t) \in Tools /\ state' = [state EXCEPT ![t].count = @ + 1]
      /\ FirstOfRun(t) \/ NextOfRun(t)
      /\ emitted' = emitted /\ deltas' = deltas /\ dead' = dead
  BY DEF WriteTool, past
<1>2. /\ Flushing(t) /\ flush[t].at <= Len(flush[t].events) /\ ~Waiting(t)
      /\ Done(t) + 1 \in DOMAIN emitted[t]
      /\ Number(t) = Done(t) + 1 /\ Kind(t) = emitted[t][Done(t) + 1]
  BY <1>1, AtEvent DEF Writes, Waiting
<1>3. Done(t) \in Nat /\ emitted[t] \in Seq(Kinds)
  BY Position, TurnTypes
<1>4. CASE FirstOfRun(t)
  <2>1. state[t].count = 0 /\ Written(t, <<>>) /\ runs' = runs
    BY <1>4 DEF FirstOfRun
  <2>2. Kind(t) \notin Completions \cup {"delta"}
    BY <1>1 DEF Tools, Completions
  <2>3. PICK rs \in Seq(Row) : Types' /\ Moves(t, rs) /\ Gathered(t, rs)
    BY <1>1, <2>1, <2>2, WrittenGathers
  <2>4. Threads(t, rs)
    BY <1>1, <1>2, <2>1 DEF Threads
  <2> QED
    BY <2>3, <2>4
<1>5. CASE /\ Appendable(t) /\ PassesOver(t) /\ timeline' = timeline
           /\ runs' = [runs EXCEPT ![<<t, state[t].first>>].kept = Append(@, Number(t))]
  <2>1. /\ Types' /\ Moves(t, <<>>) /\ Done(t)' = Done(t) + 1 /\ ~Waiting(t)'
    BY <1>1, <1>2, <1>5, PassesMoves
  <2>2. Gathered(t, <<>>)
    <3>1. ASSUME NEW n \in DOMAIN emitted'[t], Done(t) < n, n <= Done(t)'
          PROVE  emitted'[t][n] # "delta"
      <4>1. n = Done(t) + 1
        BY <1>1, <1>3, <2>1, <3>1
      <4> QED
        BY <1>1, <1>2, <4>1 DEF Tools
    <3>2. Gathers(emitted[t], emitted'[t], deltas[t], deltas'[t], Done(t), Done(t)',
                  Waiting(t), Waiting(t)', <<>>, Reported(t)' # {})
      BY <1>1, <1>2, <3>1 DEF Gathers
    <3> QED
      BY <1>1, <3>2 DEF Gathered
  <2>3. Threads(t, <<>>)
    <3>1. state[t].first # 0
      BY <1>5 DEF Appendable
    <3> QED
      BY <1>1, <1>2, <1>5, <2>1, <3>1 DEF Threads
  <2>4. <<>> \in Seq(Row)
    OBVIOUS
  <2> QED
    BY <2>1, <2>2, <2>3, <2>4
<1>6. CASE Abort(t) /\ runs' = runs /\ timeline' = timeline
  <2>1. /\ Types' /\ Moves(t, <<>>) /\ ~Waiting(t)' /\ Reported(t)' # {}
    BY <1>1, <1>2, <1>6, AbortMoves
  <2>2. Gathered(t, <<>>)
    <3>1. Gathers(emitted[t], emitted'[t], deltas[t], deltas'[t], Done(t), Done(t)',
                  Waiting(t), Waiting(t)', <<>>, Reported(t)' # {})
      BY <1>1, <1>2, <2>1 DEF Gathers
    <3> QED
      BY <1>1, <3>1 DEF Gathered
  <2>3. Threads(t, <<>>)
    BY <1>1, <1>2, <1>6 DEF Threads
  <2>4. <<>> \in Seq(Row)
    OBVIOUS
  <2> QED
    BY <2>1, <2>2, <2>3, <2>4
<1>7. FirstOfRun(t) \/ (/\ Appendable(t) /\ PassesOver(t) /\ timeline' = timeline
                        /\ runs' = [runs EXCEPT ![<<t, state[t].first>>].kept = Append(@, Number(t))])
                    \/ (Abort(t) /\ runs' = runs /\ timeline' = timeline)
  BY <1>1 DEF NextOfRun
<1> QED
  BY <1>4, <1>5, <1>6, <1>7

LEMMA WriteDeltaMoves ==
    ASSUME NEW t \in Turns, Types, ToolTypes, Shape(t), WriteDelta(t)
    PROVE  Types' /\ \E rs \in Seq(Row) : Moves(t, rs) /\ Gathered(t, rs) /\ Threads(t, rs)
<1>1. /\ Writes(t) /\ Kind(t) = "delta" /\ PassesOver(t)
      /\ deltas' = [deltas EXCEPT ![t] = @ \cup {Number(t)}]
      /\ emitted' = emitted /\ timeline' = timeline /\ dead' = dead /\ UNCHANGED tools
  BY DEF WriteDelta, past
<1>2. Flushing(t) /\ flush[t].at <= Len(flush[t].events) /\ ~Waiting(t)
  BY <1>1 DEF Writes, Waiting
<1>3. /\ Types' /\ Moves(t, <<>>)
      /\ Done(t)' = Done(t) + 1 /\ ~Waiting(t)' /\ Done(t) + 1 \in DOMAIN emitted[t]
      /\ Number(t) = Done(t) + 1 /\ Kind(t) = emitted[t][Done(t) + 1]
  BY <1>1, <1>2, PassesMoves
<1>4. deltas'[t] = deltas[t] \cup {Done(t) + 1} /\ \A u \in Turns \ {t} : deltas'[u] = deltas[u]
  BY <1>1, <1>3 DEF ToolTypes
<1>5. Gathers(emitted[t], emitted'[t], deltas[t], deltas'[t], Done(t), Done(t)',
              Waiting(t), Waiting(t)', <<>>, Reported(t)' # {})
  BY <1>1, <1>2, <1>3, <1>4 DEF Gathers
<1>6. Gathered(t, <<>>)
  BY <1>4, <1>5 DEF Gathered
<1>7. Threads(t, <<>>)
  BY <1>1, <1>2 DEF Threads
<1>8. <<>> \in Seq(Row)
  OBVIOUS
<1> QED
  BY <1>3, <1>6, <1>7, <1>8

LEMMA WriteCompletionMoves ==
    ASSUME NEW t \in Turns, Types, ToolTypes, Shape(t), WriteCompletion(t)
    PROVE  Types' /\ \E rs \in Seq(Row) : Moves(t, rs) /\ Gathered(t, rs) /\ Threads(t, rs)
<1>1. /\ Writes(t) /\ Kind(t) \in Completions
      /\ emitted' = emitted /\ dead' = dead /\ UNCHANGED tools
  BY DEF WriteCompletion, past
<1>2. /\ Flushing(t) /\ flush[t].at <= Len(flush[t].events) /\ ~Waiting(t)
      /\ Done(t) + 1 \in DOMAIN emitted[t] /\ t \notin dead
      /\ Kind(t) = emitted[t][Done(t) + 1]
  BY <1>1, AtEvent DEF Writes, Waiting
<1>3. ASSUME NEW rs, Waiting(t)' \/ Done(t) < Done(t)',
             \A u \in Turns \ {t} : deltas'[u] = deltas[u],
             \A k \in DOMAIN rs : rs[k].kind = "text" /\ Kind(t) = "ok" => rs[k].parts = deltas[t]
      PROVE  Gathered(t, rs) /\ Threads(t, rs)
  <2>1. Gathers(emitted[t], emitted'[t], deltas[t], deltas'[t], Done(t), Done(t)',
                Waiting(t), Waiting(t)', rs, Reported(t)' # {})
    BY <1>1, <1>2, <1>3 DEF Gathers
  <2>2. Gathered(t, rs)
    BY <1>2, <1>3, <2>1, Zenon DEF Gathered
  <2>3. Threads(t, rs)
    BY <1>1, <1>2 DEF Threads, Completions, Tools
  <2> QED
    BY <2>2, <2>3
<1>4. CASE /\ Written(t, IF Kind(t) = "ok" /\ deltas[t] # {} THEN Aggregate(t) ELSE <<>>)
           /\ deltas' = [deltas EXCEPT ![t] = {}]
  <2>1. PICK before : /\ Written(t, before)
                      /\ before = <<>> \/ (Kind(t) = "ok" /\ before = Aggregate(t))
    BY <1>4
  <2>2. Kind(t) # "delta"
    BY <1>1 DEF Completions
  <2>3. PICK rs \in Seq(Row) :
          /\ Types' /\ Moves(t, rs)
          /\ Waiting(t)' \/ Done(t) < Done(t)'
          /\ \A k \in DOMAIN rs : rs[k].kind = "text" /\ Kind(t) = "ok" => rs[k].parts = deltas[t]
    BY <1>1, <2>1, <2>2, WrittenMoves
  <2>4. \A u \in Turns \ {t} : deltas'[u] = deltas[u]
    BY <1>4 DEF ToolTypes
  <2> QED
    BY <1>3, <2>3, <2>4
<1>5. CASE Abort(t) /\ UNCHANGED <<deltas, timeline>>
  <2>1. Types' /\ Moves(t, <<>>) /\ Done(t) < Done(t)'
    BY <1>1, <1>2, <1>5, AbortMoves
  <2>2. Gathered(t, <<>>) /\ Threads(t, <<>>)
    BY <1>3, <1>5, <2>1
  <2>3. <<>> \in Seq(Row)
    OBVIOUS
  <2> QED
    BY <2>1, <2>2, <2>3
<1> QED
  BY <1>4, <1>5 DEF WriteCompletion

LEMMA ToolWrittenMoves ==
    ASSUME NEW t \in Turns, Types, ToolTypes, Shape(t), ToolWritten(t)
    PROVE  Types' /\ \E rs \in Seq(Row) : Moves(t, rs) /\ Gathered(t, rs) /\ Threads(t, rs)
<1>1. /\ Wrote(t) /\ Kind(t) \in Tools /\ PassesOver(t)
      /\ runs' = Registered(<<t, Number(t)>>)
      /\ state' = [state EXCEPT ![t] = IF @ = NoState THEN @
                                       ELSE [@ EXCEPT !.first = Number(t), !.ref = TRUE]]
      /\ emitted' = emitted /\ deltas' = deltas /\ timeline' = timeline /\ dead' = dead
  BY DEF ToolWritten, past
<1>2. Flushing(t) /\ flush[t].at <= Len(flush[t].events) /\ Waiting(t)
  BY <1>1 DEF Wrote, Waiting, Shape, Driven
<1>3. /\ Types' /\ Moves(t, <<>>)
      /\ Done(t) \in Nat /\ Done(t)' = Done(t) + 1 /\ ~Waiting(t)'
      /\ Number(t) = Done(t) + 1 /\ Kind(t) = emitted[t][Done(t) + 1]
  BY <1>1, <1>2, PassesMoves
<1>4. ASSUME NEW n \in DOMAIN emitted'[t], Done(t) < n, n <= Done(t)'
      PROVE  emitted'[t][n] # "delta"
  <2>1. emitted[t] \in Seq(Kinds)
    BY TurnTypes
  <2>2. n = Done(t) + 1
    BY <1>1, <1>3, <1>4, <2>1
  <2> QED
    BY <1>1, <1>3, <2>2 DEF Tools
<1>5. Gathers(emitted[t], emitted'[t], deltas[t], deltas'[t], Done(t), Done(t)',
              Waiting(t), Waiting(t)', <<>>, Reported(t)' # {})
  <2>1. emitted[t][Done(t) + 1] # "text"
    BY <1>1, <1>3 DEF Tools
  <2> QED
    BY <1>1, <1>4, <2>1 DEF Gathers
<1>6. Gathered(t, <<>>)
  BY <1>1, <1>5 DEF Gathered
<1>7. Number(t) = Done(t)'
  BY <1>3
<1>8. Threads(t, <<>>)
  BY <1>1, <1>2, <1>3, <1>7 DEF Threads
<1>9. <<>> \in Seq(Row)
  OBVIOUS
<1> QED
  BY <1>3, <1>6, <1>8, <1>9

LEMMA RowWrittenMoves ==
    ASSUME NEW t \in Turns, Types, ToolTypes, Shape(t), Timely(t), RowWritten(t)
    PROVE  Types' /\ \E rs \in Seq(Row) : Moves(t, rs) /\ Gathered(t, rs) /\ Threads(t, rs)
<1>1. /\ Wrote(t) /\ Kind(t) \notin Tools /\ PassesOver(t)
      /\ deltas' = IF Kind(t) = "text" THEN [deltas EXCEPT ![t] = {}] ELSE deltas
      /\ runs' = [r \in DOMAIN runs |->
                     IF state[r[1]].ref /\ state[r[1]].first = r[2]
                     THEN [runs[r] EXCEPT !.open = FALSE] ELSE runs[r]]
      /\ state' = [u \in Turns |-> NoState]
      /\ emitted' = emitted /\ timeline' = timeline /\ dead' = dead
  BY DEF RowWritten, Resets, Clears, past
<1>2. Flushing(t) /\ flush[t].at <= Len(flush[t].events) /\ Waiting(t)
  BY <1>1 DEF Wrote, Waiting, Shape, Driven
<1>3. /\ Types' /\ Moves(t, <<>>) /\ Done(t) + 1 \in DOMAIN emitted[t]
      /\ Done(t) \in Nat /\ Done(t)' = Done(t) + 1 /\ ~Waiting(t)'
      /\ Kind(t) = emitted[t][Done(t) + 1]
  BY <1>1, <1>2, PassesMoves
<1>4. Kind(t) # "delta"
  <2>1. PICK i \in DOMAIN timeline[t] : timeline[t][i].kind = emitted[t][Done(t) + 1]
    BY <1>2 DEF Timely, WrittenNext
  <2>2. timeline[t] \in Seq(Row)
    BY TurnTypes
  <2>3. timeline[t][i].kind \in RowKinds
    BY <2>2, RowTypes
  <2> QED
    BY <1>3, <2>1, <2>3 DEF RowKinds
<1>5. ASSUME NEW n \in DOMAIN emitted'[t], Done(t) < n, n <= Done(t)'
      PROVE  emitted'[t][n] # "delta"
  <2>1. emitted[t] \in Seq(Kinds)
    BY TurnTypes
  <2>2. n = Done(t) + 1
    BY <1>1, <1>3, <1>5, <2>1
  <2> QED
    BY <1>1, <1>3, <1>4, <2>2
<1>6. Gathers(emitted[t], emitted'[t], deltas[t], deltas'[t], Done(t), Done(t)',
              Waiting(t), Waiting(t)', <<>>, Reported(t)' # {})
  <2>1. CASE Kind(t) = "text"
    <3>1. deltas'[t] = {}
      BY <1>1, <2>1 DEF ToolTypes
    <3> QED
      BY <1>2, <1>3, <2>1, <3>1 DEF Gathers
  <2>2. CASE Kind(t) # "text"
    <3>1. deltas' = deltas /\ emitted[t][Done(t) + 1] # "text"
      BY <1>1, <1>3, <2>2
    <3> QED
      BY <1>5, <3>1 DEF Gathers
  <2> QED
    BY <2>1, <2>2
<1>7. Gathered(t, <<>>)
  <2>1. \A u \in Turns \ {t} : deltas'[u] = deltas[u]
    BY <1>1 DEF ToolTypes
  <2> QED
    BY <1>6, <2>1 DEF Gathered
<1>8. Threads(t, <<>>)
  <2>1. DOMAIN runs' = DOMAIN runs /\ \A u \in Turns : state'[u] = NoState
    BY <1>1
  <2>2. ASSUME NEW r \in DOMAIN runs PROVE runs'[r].kept = runs[r].kept
    <3>1. runs[r] \in [kept : Seq(Nat), open : BOOLEAN]
      BY DEF ToolTypes
    <3>2. runs'[r] = runs[r] \/ runs'[r] = [runs[r] EXCEPT !.open = FALSE]
      BY <1>1
    <3> QED
      BY <3>1, <3>2
  <2> QED
    BY <2>1, <2>2 DEF Threads
<1>9. <<>> \in Seq(Row)
  OBVIOUS
<1> QED
  BY <1>3, <1>7, <1>8, <1>9

-----------------------------------------------------------------------------
(* The side effects *)

LEMMA AnnounceMoves ==
    ASSUME NEW t \in Turns, Types, Shape(t), Announce(t)
    PROVE  /\ Types' /\ Goes(t, <<>>) /\ Gathered(t, <<>>) /\ Threads(t, <<>>)
           /\ ~Waiting(t) /\ Drops(t, <<>>)
<1>0. /\ emitted \in [Turns -> Seq(Kinds)] /\ flush \in [Turns -> Batch]
      /\ flush[t].events \in Seq(Nat) /\ flush[t].at \in Nat /\ flush[t] \in Batch
      /\ flush[t].effects \in Seq(Row) /\ timeline[t] \in Seq(Row)
  BY DEF Types, Batch
<1>1. /\ Flushing(t) /\ flush[t].at > Len(flush[t].events) /\ flush[t].effects # <<>>
      /\ flush' = [flush EXCEPT ![t].effects = Tail(@)]
      /\ UNCHANGED <<emitted, queue, timer, state, runs, deltas, timeline, reported, dead>>
  BY DEF Announce, AllWritten, tools, failures, past
<1>2. /\ flush'[t].events = flush[t].events /\ flush'[t].at = flush[t].at
      /\ flush'[t].committed = flush[t].committed /\ flush'[t].effects = Tail(flush[t].effects)
      /\ flush'[t] \in Batch /\ \A u \in Turns \ {t} : flush'[u] = flush[u]
  <2>1. Tail(flush[t].effects) \in Seq(Row)
    BY <1>0, <1>1, HeadTailProperties
  <2>2. flush'[t] = [events |-> flush[t].events, at |-> flush[t].at,
                     committed |-> flush[t].committed, effects |-> Tail(flush[t].effects)]
    BY <1>0, <1>1 DEF Batch
  <2>3. \A u \in Turns \ {t} : flush'[u] = flush[u]
    BY <1>0, <1>1
  <2> QED
    BY <1>0, <2>1, <2>2, <2>3 DEF Batch
<1>3. flush' \in [Turns -> Batch]
  BY <1>0, <1>1, <1>2
<1>4. ~Waiting(t) /\ flush[t].at = Len(flush[t].events) + 1
  BY <1>0, <1>1 DEF Shape, Driven
<1>5. Waiting(t)' = Waiting(t) /\ Effects(t)' = Tail(Effects(t)) /\ Effects(t) # <<>>
  BY <1>1, <1>2 DEF Waiting, Effects
<1>6. Shape(t)' /\ Before(t)' = Before(t) /\ Done(t)' = Done(t) + (flush'[t].at - flush[t].at)
  <2>1. flush'[t].at <= Len(flush[t].events) + 1 /\ ~Waiting(t)'
    BY <1>0, <1>2, <1>4, <1>5
  <2>2. emitted' = emitted /\ queue' = queue /\ timer' = timer /\ dead' = dead
    BY <1>1
  <2> QED
    BY <1>1, <1>2, <1>3, <2>1, <2>2, BatchGoesOn
<1>7. Done(t)' = Done(t) /\ Done(t) \in Nat
  BY <1>0, <1>2, <1>6, Position
<1>8. Types'
  BY <1>1, <1>3 DEF Types
<1>9. \A u \in Turns \ {t} : Same(u)
  BY <1>1, <1>2 DEF Same
<1>10. Advances(emitted[t], emitted'[t], Done(t), Done(t)', Waiting(t), Waiting(t)', <<>>)
  <2>1. Len(emitted[t]) <= Len(emitted'[t]) /\ \A i \in DOMAIN emitted[t] : emitted'[t][i] = emitted[t][i]
    BY <1>0, <1>1
  <2> QED
    BY <1>4, <1>5, <1>7, <2>1 DEF Advances
<1>11. Drops(t, <<>>)
  BY <1>5, <1>6 DEF Drops
<1>12. Goes(t, <<>>)
  <2>1. timeline'[t] = timeline[t] \o <<>>
    BY <1>0, <1>1, ConcatEmptySeq
  <2> QED
    BY <1>1, <1>6, <1>9, <1>10, <1>11, <2>1 DEF Goes
<1>13. Gathered(t, <<>>) /\ Threads(t, <<>>)
  <2>1. UNCHANGED <<deltas, tools>>
    BY <1>1 DEF tools
  <2> QED
    BY <1>5, <1>7, <1>8, <2>1, StaysAsIs
<1> QED
  BY <1>4, <1>8, <1>11, <1>12, <1>13

LEMMA ThrowMoves ==
    ASSUME NEW t \in Turns, Types, Shape(t), AnnounceThrows(t)
    PROVE  Types' /\ Moves(t, <<>>) /\ Gathered(t, <<>>) /\ Threads(t, <<>>)
<1>1. /\ Flushing(t) /\ flush[t].at > Len(flush[t].events) /\ Abort(t)
      /\ UNCHANGED <<emitted, state, runs, deltas, timeline, dead>>
  BY DEF AnnounceThrows, AllWritten, tools, past
<1>2. ~Waiting(t)
  <2>1. flush[t].at \in Nat /\ Len(flush[t].events) \in Nat
    BY TurnTypes
  <2> QED
    BY <1>1, <2>1 DEF Shape, Driven
<1>3. Types' /\ Moves(t, <<>>) /\ ~Waiting(t)' /\ Reported(t)' # {}
  BY <1>1, AbortMoves
<1>4. Gathers(emitted[t], emitted'[t], deltas[t], deltas'[t], Done(t), Done(t)',
              Waiting(t), Waiting(t)', <<>>, Reported(t)' # {})
  BY <1>1, <1>2, <1>3 DEF Gathers
<1>5. Gathered(t, <<>>)
  BY <1>1, <1>4 DEF Gathered
<1>6. Threads(t, <<>>)
  BY <1>1, <1>2 DEF Threads, tools
<1> QED
  BY <1>3, <1>5, <1>6

-----------------------------------------------------------------------------
(* What a move keeps *)

LEMMA SeqOfAllKinds ==
    ASSUME NEW e \in Seq(Kinds)
    PROVE  e \in Seq(AllKinds)
<1>1. Kinds \subseteq AllKinds
  BY BridgeAssumption DEF AllKinds, Tools, Completions
<1>2. e \in [1 .. Len(e) -> AllKinds] /\ Len(e) \in Nat
  BY <1>1
<1> QED
  BY <1>2

LEMMA WellPlaced ==
    ASSUME NEW t \in Turns
    PROVE  Types /\ Shape(t) =>
              /\ emitted[t] \in Seq(AllKinds) /\ timeline[t] \in Seq(Row)
              /\ Effects(t) \in Seq(Row) /\ Waiting(t) \in BOOLEAN
              /\ Before(t) \in Nat /\ Done(t) \in Nat /\ Before(t) <= Done(t)
              /\ Done(t) <= Len(emitted[t])
              /\ \A i, j \in DOMAIN emitted[t] : i < j => emitted[t][i] \notin Completions
<1> SUFFICES ASSUME Types, Shape(t)
             PROVE  /\ emitted[t] \in Seq(AllKinds) /\ timeline[t] \in Seq(Row)
                    /\ Effects(t) \in Seq(Row) /\ Waiting(t) \in BOOLEAN
                    /\ Before(t) \in Nat /\ Done(t) \in Nat /\ Before(t) <= Done(t)
                    /\ Done(t) <= Len(emitted[t])
                    /\ \A i, j \in DOMAIN emitted[t] : i < j => emitted[t][i] \notin Completions
  OBVIOUS
<1>1. emitted[t] \in Seq(AllKinds)
  BY TurnTypes, SeqOfAllKinds
<1>2. /\ timeline[t] \in Seq(Row) /\ Effects(t) \in Seq(Row) /\ Waiting(t) \in BOOLEAN
  BY TurnTypes
<1>3. /\ Before(t) \in Nat /\ Done(t) \in Nat /\ Before(t) <= Done(t)
      /\ Done(t) <= Len(emitted[t])
  BY Position
<1>4. \A i, j \in DOMAIN emitted[t] : i < j => emitted[t][i] \notin Completions
  BY DEF Shape, EndsOnce
<1> QED
  BY <1>1, <1>2, <1>3, <1>4

LEMMA WellPlacedNext ==
    ASSUME NEW t \in Turns
    PROVE  (Types /\ Shape(t) =>
              /\ emitted[t] \in Seq(AllKinds) /\ timeline[t] \in Seq(Row)
              /\ Effects(t) \in Seq(Row) /\ Waiting(t) \in BOOLEAN
              /\ Before(t) \in Nat /\ Done(t) \in Nat /\ Before(t) <= Done(t)
              /\ Done(t) <= Len(emitted[t])
              /\ \A i, j \in DOMAIN emitted[t] : i < j => emitted[t][i] \notin Completions)'
BY WellPlaced, PTL

LEMMA MoveFacts ==
    ASSUME NEW t \in Turns, NEW rs \in Seq(Row), Types, Types', Shape(t), Goes(t, rs)
    PROVE  /\ emitted[t] \in Seq(AllKinds) /\ emitted'[t] \in Seq(AllKinds)
           /\ timeline[t] \in Seq(Row) /\ timeline'[t] = timeline[t] \o rs
           /\ Effects(t) \in Seq(Row) /\ Effects(t)' \in Seq(Row)
           /\ Waiting(t) \in BOOLEAN /\ Waiting(t)' \in BOOLEAN
           /\ Before(t) \in Nat /\ Before(t)' \in Nat /\ Done(t) \in Nat /\ Done(t)' \in Nat
           /\ Before(t) <= Done(t) /\ Done(t) <= Len(emitted[t]) /\ Done(t) <= Done(t)'
           /\ \A i, j \in DOMAIN emitted[t] : i < j => emitted[t][i] \notin Completions
           /\ \A i, j \in DOMAIN emitted'[t] : i < j => emitted'[t][i] \notin Completions
           /\ Advances(emitted[t], emitted'[t], Done(t), Done(t)', Waiting(t), Waiting(t)', rs)
           /\ \A k \in DOMAIN rs : rs[k].n = Done(t) + 1
<1>1. /\ Shape(t)' /\ timeline'[t] = timeline[t] \o rs
      /\ Advances(emitted[t], emitted'[t], Done(t), Done(t)', Waiting(t), Waiting(t)', rs)
  BY DEF Goes
<1>2. Done(t) <= Done(t)' /\ \A k \in DOMAIN rs : rs[k].n = Done(t) + 1
  BY <1>1 DEF Advances
<1> QED
  BY <1>1, <1>2, WellPlaced, WellPlacedNext

LEMMA OthersStay ==
    ASSUME NEW t \in Turns, NEW rs, Goes(t, rs), NEW u \in Turns \ {t}
    PROVE  /\ emitted'[u] = emitted[u] /\ timeline'[u] = timeline[u]
           /\ Done(u)' = Done(u) /\ Waiting(u)' = Waiting(u)
           /\ Effects(u)' = Effects(u) /\ Before(u)' = Before(u)
           /\ Shape(u) => Shape(u)'
           /\ Timely(u) => Timely(u)'
           /\ (u \in dead)' <=> u \in dead
<1>1. /\ emitted'[u] = emitted[u] /\ queue'[u] = queue[u] /\ flush'[u] = flush[u]
      /\ timeline'[u] = timeline[u] /\ (u \in timer' <=> u \in timer) /\ dead' = dead
  BY DEF Goes, Same
<1>2. /\ Waiting(u)' = Waiting(u) /\ Effects(u)' = Effects(u) /\ Before(u)' = Before(u)
      /\ Flushing(u)' <=> Flushing(u)
  BY <1>1 DEF Waiting, Effects, Before, Flushing
<1>3. Done(u)' = Done(u)
  BY <1>1, <1>2 DEF Done
<1>4. Shape(u) => Shape(u)'
  BY <1>1, <1>2 DEF Shape, EndsOnce, Numbered, Driven
<1>5. Timely(u) => Timely(u)'
  BY <1>1, <1>2, <1>3 DEF Timely
<1> QED
  BY <1>1, <1>2, <1>3, <1>4, <1>5

LEMMA ReportedStays ==
    ASSUME NEW t \in Turns, NEW rs \in Seq(Row), Types, Types', Shape(t), Goes(t, rs), NEW u \in Turns
    PROVE  Reported(u) \subseteq Reported(u)'
<1>1. reported \subseteq reported'
  BY DEF Goes
<1>2. \A n \in DOMAIN emitted[u] : n \in DOMAIN emitted'[u] /\ emitted'[u][n] = emitted[u][n]
  <2>1. CASE u = t
    <3>1. /\ emitted[t] \in Seq(AllKinds) /\ emitted'[t] \in Seq(AllKinds)
          /\ Len(emitted[t]) <= Len(emitted'[t]) /\ \A i \in DOMAIN emitted[t] : emitted'[t][i] = emitted[t][i]
      BY MoveFacts DEF Advances
    <3> QED
      BY <2>1, <3>1
  <2>2. CASE u # t
    BY <2>2, OthersStay
  <2> QED
    BY <2>1, <2>2
<1>3. \A n \in DOMAIN emitted[u] : Event(u, n)' = Event(u, n)
  BY <1>2 DEF Event
<1> QED
  BY <1>1, <1>2, <1>3 DEF Reported

LEMMA TimelyMoves ==
    ASSUME NEW t \in Turns, NEW rs \in Seq(Row), Types, Types', Shape(t), Timely(t), Goes(t, rs)
    PROVE  Timely(t)'
<1>1. /\ emitted[t] \in Seq(AllKinds) /\ emitted'[t] \in Seq(AllKinds)
      /\ timeline[t] \in Seq(Row) /\ timeline'[t] = timeline[t] \o rs
      /\ Effects(t) \in Seq(Row) /\ Effects(t)' \in Seq(Row)
      /\ Waiting(t) \in BOOLEAN /\ Waiting(t)' \in BOOLEAN
      /\ Before(t) \in Nat /\ Before(t)' \in Nat /\ Done(t) \in Nat /\ Done(t)' \in Nat
      /\ Before(t) <= Done(t)
      /\ Advances(emitted[t], emitted'[t], Done(t), Done(t)', Waiting(t), Waiting(t)', rs)
      /\ \A k \in DOMAIN rs : rs[k].n = Done(t) + 1
  BY MoveFacts
<1>2. /\ Placed(emitted[t], timeline[t], Done(t), Waiting(t))
      /\ Ranked(timeline[t])
      /\ WrittenNext(emitted[t], timeline[t], Done(t), Waiting(t))
      /\ LastOf(timeline[t], Effects(t), Before(t))
  BY DEF Timely
<1>0. /\ emitted[t] \in Seq(AllKinds) /\ emitted'[t] \in Seq(AllKinds) /\ timeline[t] \in Seq(Row)
      /\ Done(t) \in Nat /\ Done(t)' \in Nat /\ Waiting(t) \in BOOLEAN /\ Waiting(t)' \in BOOLEAN
      /\ Advances(emitted[t], emitted'[t], Done(t), Done(t)', Waiting(t), Waiting(t)', rs)
  BY <1>1
<1>3. Placed(emitted'[t], timeline[t] \o rs, Done(t)', Waiting(t)')
  BY <1>0, <1>2, PlacedMoves, SMT
<1>4. Ranked(timeline[t] \o rs)
  BY <1>0, <1>2, RankedMoves, SMT
<1>5. WrittenNext(emitted'[t], timeline[t] \o rs, Done(t)', Waiting(t)')
  BY <1>0, <1>2, WrittenNextMoves, SMT
<1>6. LastOf(timeline[t] \o rs, Effects(t)', Before(t)')
  <2>1. CASE Effects(t)' = <<>>
    <3>1. timeline[t] \o rs \in Seq(Row)
      BY <1>1
    <3> QED
      BY <2>1, <3>1 DEF LastOf
  <2>2. CASE Effects(t)' # <<>> /\ Keeps(t, rs)
    <3>1. Effects(t)' = Effects(t) \o rs /\ Before(t)' = Before(t)
      BY <2>2 DEF Keeps
    <3>2. LastOf(timeline[t] \o rs, Effects(t) \o rs, Before(t))
      BY <1>1, <1>2, LastOfKeeps
    <3> QED
      BY <3>1, <3>2
  <2>3. CASE Effects(t)' # <<>> /\ Drops(t, rs)
    <3>1. /\ rs = <<>> /\ Effects(t) # <<>> /\ Effects(t)' = Tail(Effects(t)) /\ Before(t)' = Before(t)
      BY <2>3 DEF Drops
    <3>2. timeline[t] \o rs = timeline[t]
      BY <1>1, <3>1, ConcatEmptySeq
    <3> QED
      BY <1>1, <1>2, <3>1, <3>2, LastOfDrops
  <2> QED
    BY <2>1, <2>2, <2>3 DEF Goes, Loses
<1> QED
  BY <1>1, <1>3, <1>4, <1>5, <1>6 DEF Timely

LEMMA MoveIsMoving ==
    ASSUME NEW t \in Turns, NEW rs \in Seq(Row), Types, Types', Shape(t), Timely(t), Goes(t, rs)
    PROVE  Moving(emitted[t], emitted'[t], timeline[t], rs, Done(t), Done(t)', Waiting(t), Waiting(t)')
BY MoveFacts DEF Timely, Moving

LEMMA WholeMonotonic ==
    ASSUME NEW e, NEW s, NEW failed \in BOOLEAN, NEW failed2 \in BOOLEAN, failed => failed2,
           Whole(e, s, failed)
    PROVE  Whole(e, s, failed2)
BY DEF Whole

LEMMA GatheredMoves ==
    ASSUME NEW t \in Turns, NEW rs \in Seq(Row), Types, Types', Shape(t), Timely(t), Goes(t, rs),
           Gathered(t, rs), deltas \in [Turns -> SUBSET Nat], deltas' \in [Turns -> SUBSET Nat],
           Collected(t), Whole(emitted[t], timeline[t], Reported(t) # {})
    PROVE  Collected(t)' /\ Whole(emitted[t], timeline[t], Reported(t) # {})'
<1>1. /\ timeline'[t] = timeline[t] \o rs /\ Done(t) <= Len(emitted[t])
      /\ \A i, j \in DOMAIN emitted[t] : i < j => emitted[t][i] \notin Completions
  BY MoveFacts
<1>2. /\ emitted[t] \in Seq(AllKinds) /\ emitted'[t] \in Seq(AllKinds) /\ timeline[t] \in Seq(Row)
      /\ Done(t) \in Nat /\ Done(t)' \in Nat /\ Waiting(t) \in BOOLEAN /\ Waiting(t)' \in BOOLEAN
      /\ Advances(emitted[t], emitted'[t], Done(t), Done(t)', Waiting(t), Waiting(t)', rs)
  BY MoveFacts
<1>3. /\ Placed(emitted[t], timeline[t], Done(t), Waiting(t))
      /\ WrittenNext(emitted[t], timeline[t], Done(t), Waiting(t))
  BY DEF Timely
<1>4. /\ Gathers(emitted[t], emitted'[t], deltas[t], deltas'[t], Done(t), Done(t)',
                 Waiting(t), Waiting(t)', rs, Reported(t)' # {})
      /\ \A k \in DOMAIN rs : rs[k].kind = "text" /\ emitted[t][Done(t) + 1] = "ok" =>
            rs[k].parts = deltas[t] /\ t \notin dead
  BY DEF Gathered
<1>5. PICK failed \in BOOLEAN : failed <=> Reported(t) # {}
  <2> WITNESS (Reported(t) # {}) \in BOOLEAN
  <2> QED
    OBVIOUS
<1>6. PICK failed2 \in BOOLEAN : failed2 <=> Reported(t)' # {}
  <2> WITNESS (Reported(t)' # {}) \in BOOLEAN
  <2> QED
    OBVIOUS
<1>7. failed => failed2
  BY <1>5, <1>6, ReportedStays
<1>8. t \notin dead => (Collecting(emitted[t], Done(t), Waiting(t)) =>
         /\ deltas[t] \subseteq Since(emitted[t], timeline[t], Done(t) + 1)
         /\ deltas[t] = Since(emitted[t], timeline[t], Done(t) + 1) \/ failed)
  BY <1>5 DEF Collected
<1>9. Whole(emitted'[t], timeline[t] \o rs, failed2)
  <2>1. ASSUME NEW k \in DOMAIN rs, rs[k].kind = "text", emitted[t][Done(t) + 1] = "ok"
        PROVE  \/ rs[k].parts = Since(emitted[t], timeline[t], Done(t) + 1)
               \/ rs[k].parts \subseteq Since(emitted[t], timeline[t], Done(t) + 1) /\ failed
    <3>1. ~Waiting(t) /\ Done(t) + 1 \in DOMAIN emitted[t]
      BY <1>2, <2>1 DEF Advances
    <3>2. \A n \in DOMAIN emitted[t] : n <= Done(t) => emitted[t][n] \notin Completions
      <4> SUFFICES ASSUME NEW n \in DOMAIN emitted[t], n <= Done(t)
                   PROVE  emitted[t][n] \notin Completions
        OBVIOUS
      <4>1. n < Done(t) + 1
        BY <1>2
      <4> QED
        BY <1>1, <3>1, <4>1
    <3>3. Collecting(emitted[t], Done(t), Waiting(t))
      BY <3>1, <3>2 DEF Collecting
    <3> QED
      BY <1>4, <1>8, <2>1, <3>3
  <2>2. Whole(emitted[t], timeline[t], failed)
    BY <1>5, WholeMonotonic
  <2>3. Sums(emitted[t], timeline[t], Done(t), rs, failed)
    BY <2>1 DEF Sums
  <2>4. Moving(emitted[t], emitted'[t], timeline[t], rs, Done(t), Done(t)', Waiting(t), Waiting(t)')
    BY MoveIsMoving
  <2> QED
    BY <1>7, <2>2, <2>3, <2>4, WholeMoves
<1>10. t \notin dead' => Held(emitted'[t], timeline[t] \o rs, deltas'[t], Done(t)', Waiting(t)', failed2)
  <2> SUFFICES ASSUME t \notin dead'
               PROVE  Held(emitted'[t], timeline[t] \o rs, deltas'[t], Done(t)', Waiting(t)', failed2)
    OBVIOUS
  <2>1. t \notin dead
    BY DEF Goes
  <2>2. Held(emitted[t], timeline[t], deltas[t], Done(t), Waiting(t), failed)
    BY <1>8, <2>1 DEF Held
  <2>3. Gathers(emitted[t], emitted'[t], deltas[t], deltas'[t], Done(t), Done(t)',
                Waiting(t), Waiting(t)', rs, failed2)
    BY <1>4, <1>6 DEF Gathers
  <2>4. Moving(emitted[t], emitted'[t], timeline[t], rs, Done(t), Done(t)', Waiting(t), Waiting(t)')
    BY MoveIsMoving
  <2> QED
    BY <1>7, <2>2, <2>3, <2>4, CollectedMoves
<1>11. Collected(t)'
  BY <1>1, <1>6, <1>10 DEF Collected, Held
<1>12. Whole(emitted[t], timeline[t], Reported(t) # {})'
  BY <1>1, <1>6, <1>9, WholeMonotonic
<1> QED
  BY <1>11, <1>12

LEMMA GatheredStays ==
    ASSUME NEW t \in Turns, NEW rs \in Seq(Row), Types, Types', Shape(t), Goes(t, rs),
           Gathered(t, rs), NEW u \in Turns \ {t}
    PROVE  /\ Collected(u) => Collected(u)'
           /\ Whole(emitted[u], timeline[u], Reported(u) # {}) =>
                 Whole(emitted[u], timeline[u], Reported(u) # {})'
<1>1. /\ emitted'[u] = emitted[u] /\ timeline'[u] = timeline[u]
      /\ Done(u)' = Done(u) /\ Waiting(u)' = Waiting(u) /\ ((u \in dead)' <=> u \in dead)
  BY OthersStay
<1>2. deltas'[u] = deltas[u]
  BY DEF Gathered
<1>3. Reported(u) # {} => Reported(u)' # {}
  BY ReportedStays
<1>4. Collected(u) => Collected(u)'
  BY <1>1, <1>2, <1>3 DEF Collected
<1>5. Whole(emitted[u], timeline[u], Reported(u) # {}) =>
         Whole(emitted[u], timeline[u], Reported(u) # {})'
  BY <1>1, <1>3 DEF Whole
<1> QED
  BY <1>4, <1>5

LEMMA RegisteredHas ==
    ASSUME NEW r
    PROVE  /\ DOMAIN Registered(r) = DOMAIN runs \cup {r}
           /\ Registered(r)[r] = [kept |-> <<>>, open |-> TRUE]
           /\ \A q \in DOMAIN runs \ {r} : Registered(r)[q] = runs[q]
BY DEF Registered

\* The run that is open, if any, goes on with no row between.
LEMMA RootedMoves ==
    ASSUME NEW t \in Turns, NEW rs \in Seq(Row), Types, Types', ToolTypes, ToolTypes', Shape(t),
           Timely(t), Goes(t, rs), Threads(t, rs), Rooted(t)
    PROVE  Rooted(t)'
<1>1. /\ emitted[t] \in Seq(AllKinds) /\ emitted'[t] \in Seq(AllKinds) /\ timeline[t] \in Seq(Row)
      /\ Done(t) \in Nat /\ Done(t)' \in Nat /\ Waiting(t) \in BOOLEAN /\ Waiting(t)' \in BOOLEAN
      /\ Advances(emitted[t], emitted'[t], Done(t), Done(t)', Waiting(t), Waiting(t)', rs)
  BY MoveFacts
<1>2. timeline'[t] = timeline[t] \o rs
  BY MoveFacts
<1>3. Placed(emitted[t], timeline[t], Done(t), Waiting(t))
  BY DEF Timely
<1>4. /\ state[t] \in [count : Nat, first : Nat, ref : BOOLEAN]
      /\ state'[t] \in [count : Nat, first : Nat, ref : BOOLEAN]
      /\ state \in [Turns -> [count : Nat, first : Nat, ref : BOOLEAN]]
  BY DEF ToolTypes
<1>5. ASSUME state[t].first # 0, Waiting(t) => Waiting(t)', rs # <<>> => emitted[t][Done(t) + 1] \notin Tools
      PROVE  Follows(emitted'[t], timeline'[t], state[t].first, Done(t)', Waiting(t)')
  <2>1. Follows(emitted[t], timeline[t], state[t].first, Done(t), Waiting(t))
    BY <1>5 DEF Rooted
  <2>2. state[t].first \in Nat
    BY <1>4
  <2>3. Moving(emitted[t], emitted'[t], timeline[t], rs, Done(t), Done(t)', Waiting(t), Waiting(t)')
    BY MoveIsMoving
  <2>4. Follows(emitted'[t], timeline[t] \o rs, state[t].first, Done(t)', Waiting(t)')
    BY <1>5, <2>1, <2>2, <2>3, FollowsMoves
  <2> QED
    BY <1>2, <2>4
<1>6. CASE /\ UNCHANGED tools /\ (Waiting(t) => Waiting(t)')
           /\ rs # <<>> => emitted[t][Done(t) + 1] \notin Tools
  <2>1. state' = state /\ runs' = runs
    BY <1>6 DEF tools
  <2> QED
    BY <1>5, <1>6, <2>1 DEF Rooted
<1>7. ASSUME state' = [state EXCEPT ![t].count = @ + 1], DOMAIN runs' = DOMAIN runs, ~Waiting(t),
             state[t].count = 0 \/ rs = <<>>
      PROVE  Rooted(t)'
  <2>1. state'[t].count = state[t].count + 1 /\ state'[t].first = state[t].first
    BY <1>4, <1>7
  <2>2. CASE state[t].count = 0
    <3>1. state'[t].first = 0
      BY <2>1, <2>2 DEF Rooted, NoState
    <3> QED
      BY <1>4, <2>1, <2>2, <3>1 DEF Rooted
  <2>3. CASE rs = <<>>
    <3>1. state'[t].count # 0
      BY <1>4, <2>1
    <3>2. state[t].first # 0 => <<t, state[t].first>> \in DOMAIN runs
      BY DEF Rooted
    <3> QED
      BY <1>5, <1>7, <2>1, <2>3, <3>1, <3>2 DEF Rooted
  <2> QED
    BY <1>7, <2>2, <2>3
<1>8. CASE /\ state' = [state EXCEPT ![t].count = @ + 1] /\ UNCHANGED runs
           /\ ~Waiting(t) /\ (state[t].count = 0 \/ rs = <<>>)
  BY <1>7, <1>8
<1>9. CASE /\ state' = [state EXCEPT ![t].count = @ + 1]
           /\ runs' = [runs EXCEPT ![<<t, state[t].first>>].kept = Append(@, Done(t) + 1)]
           /\ ~Waiting(t) /\ rs = <<>>
  BY <1>7, <1>9
<1>10. CASE /\ Done(t)' = Done(t) + 1 /\ rs = <<>>
            /\ runs' = Registered(<<t, Done(t)'>>)
            /\ state' = [state EXCEPT ![t] = IF @ = NoState THEN @
                                             ELSE [@ EXCEPT !.first = Done(t)', !.ref = TRUE]]
  <2>1. CASE state[t] = NoState
    <3>1. state'[t] = NoState
      BY <1>4, <1>10, <2>1
    <3> QED
      BY <3>1 DEF Rooted, NoState
  <2>2. CASE state[t] # NoState
    <3>1. state'[t].count = state[t].count /\ state'[t].first = Done(t)'
      BY <1>4, <1>10, <2>2
    <3>2. state[t].count # 0
      BY <2>2 DEF Rooted
    <3>3. <<t, Done(t)'>> \in DOMAIN runs'
      BY <1>10, RegisteredHas
    <3>4. Follows(emitted'[t], timeline[t], Done(t) + 1, Done(t) + 1, Waiting(t)')
      BY <1>1, <1>3, BeginsAlone, SMT
    <3>5. timeline'[t] = timeline[t]
      BY <1>1, <1>2, <1>10, ConcatEmptySeq
    <3> QED
      BY <1>10, <3>1, <3>2, <3>3, <3>4, <3>5 DEF Rooted
  <2> QED
    BY <2>1, <2>2
<1>11. CASE \A u \in Turns : state'[u] = NoState
  BY <1>11 DEF Rooted, NoState
<1> QED
  BY <1>6, <1>8, <1>9, <1>10, <1>11 DEF Threads

LEMMA RootedStays ==
    ASSUME NEW t \in Turns, NEW rs, ToolTypes, Goes(t, rs), Threads(t, rs),
           NEW u \in Turns \ {t}, Rooted(u)
    PROVE  Rooted(u)'
<1>1. /\ emitted'[u] = emitted[u] /\ timeline'[u] = timeline[u]
      /\ Done(u)' = Done(u) /\ Waiting(u)' = Waiting(u)
  BY OthersStay
<1>2. CASE \A v \in Turns : state'[v] = NoState
  BY <1>2 DEF Rooted, NoState
<1>3. CASE state'[u] = state[u] /\ DOMAIN runs \subseteq DOMAIN runs'
  BY <1>1, <1>3 DEF Rooted
<1>4. \/ \A v \in Turns : state'[v] = NoState
      \/ state'[u] = state[u] /\ DOMAIN runs \subseteq DOMAIN runs'
  BY RegisteredHas DEF Threads, tools, ToolTypes
<1> QED
  BY <1>2, <1>3, <1>4

LEMMA RunsMove ==
    ASSUME NEW t \in Turns, NEW rs \in Seq(Row), Types, Types', ToolTypes, ToolTypes', Shape(t),
           Timely(t), Goes(t, rs), Threads(t, rs), Rooted(t), RunsInOrder
    PROVE  RunsInOrder'
<1>1. /\ emitted[t] \in Seq(AllKinds) /\ timeline[t] \in Seq(Row)
      /\ timeline'[t] = timeline[t] \o rs
      /\ Done(t) \in Nat /\ Done(t)' \in Nat /\ Done(t) <= Done(t)' /\ Waiting(t) \in BOOLEAN
      /\ \A k \in DOMAIN rs : rs[k].n = Done(t) + 1
      /\ \A i, j \in DOMAIN emitted[t] : i < j => emitted[t][i] \notin Completions
  BY MoveFacts
<1>2. /\ DOMAIN runs \subseteq Turns \X Nat
      /\ \A r \in DOMAIN runs : runs[r] \in [kept : Seq(Nat), open : BOOLEAN]
      /\ state \in [Turns -> [count : Nat, first : Nat, ref : BOOLEAN]]
  BY DEF ToolTypes
<1>3. \A r \in DOMAIN runs : InRun(timeline[r[1]], r[2], runs[r].kept, Done(r[1]))
  BY DEF RunsInOrder
\* A run that keeps what it had.
<1>4. ASSUME NEW r \in DOMAIN runs
      PROVE  InRun(timeline'[r[1]], r[2], runs[r].kept, Done(r[1])')
  <2>1. r[1] \in Turns /\ r[2] \in Nat /\ runs[r].kept \in Seq(Nat)
    BY <1>2
  <2>2. CASE r[1] = t
    <3>1. InRun(timeline[t], r[2], runs[r].kept, Done(t))
      BY <1>3, <2>2
    <3>2. InRun(timeline[t] \o rs, r[2], runs[r].kept, Done(t)')
      BY <1>1, <2>1, <3>1, InRunMoves
    <3> QED
      BY <1>1, <2>2, <3>2
  <2>3. CASE r[1] # t
    <3>1. timeline'[r[1]] = timeline[r[1]] /\ Done(r[1])' = Done(r[1])
      BY <2>1, <2>3, OthersStay
    <3> QED
      BY <1>3, <3>1
  <2> QED
    BY <2>2, <2>3
<1>5. CASE DOMAIN runs' = DOMAIN runs /\ \A r \in DOMAIN runs : runs'[r].kept = runs[r].kept
  BY <1>4, <1>5 DEF RunsInOrder
<1>6. CASE /\ state[t].first # 0
           /\ runs' = [runs EXCEPT ![<<t, state[t].first>>].kept = Append(@, Done(t) + 1)]
           /\ ~Waiting(t) /\ rs = <<>>
           /\ Done(t)' = Done(t) + 1 /\ Done(t)' \in DOMAIN emitted[t]
  <2> DEFINE f == state[t].first
  <2>1. /\ f \in Nat /\ <<t, f>> \in DOMAIN runs /\ Waiting(t) = FALSE
        /\ Follows(emitted[t], timeline[t], f, Done(t), Waiting(t))
    BY <1>1, <1>2, <1>6 DEF Rooted
  <2>2. /\ Placed(emitted[t], timeline[t], Done(t), FALSE)
        /\ Follows(emitted[t], timeline[t], f, Done(t), FALSE)
    <3>1. Placed(emitted[t], timeline[t], Done(t), Waiting(t))
      BY DEF Timely
    <3> QED
      BY <2>1, <3>1, Zenon
  <2>3. /\ InRun(timeline[t], f, runs[<<t, f>>].kept, Done(t))
        /\ runs[<<t, f>>].kept \in Seq(Nat) /\ Done(t) + 1 \in DOMAIN emitted[t]
    BY <1>2, <1>3, <1>6, <2>1
  <2>4. InRun(timeline[t], f, Append(runs[<<t, f>>].kept, Done(t) + 1), Done(t) + 1)
    BY <1>1, <2>1, <2>2, <2>3, RunGoesOn
  <2>5. /\ DOMAIN runs' = DOMAIN runs
        /\ runs'[<<t, f>>].kept = Append(runs[<<t, f>>].kept, Done(t) + 1)
        /\ \A r \in DOMAIN runs : r # <<t, f>> => runs'[r].kept = runs[r].kept
    BY <1>2, <1>6, <2>1
  <2>6. timeline'[t] = timeline[t]
    BY <1>1, <1>6, ConcatEmptySeq
  <2> SUFFICES ASSUME NEW r \in DOMAIN runs
               PROVE  InRun(timeline'[r[1]], r[2], runs'[r].kept, Done(r[1])')
    BY <2>5 DEF RunsInOrder
  <2>7. CASE r = <<t, f>>
    BY <1>6, <2>4, <2>5, <2>6, <2>7
  <2>8. CASE r # <<t, f>>
    BY <1>4, <2>5, <2>8
  <2> QED
    BY <2>7, <2>8
<1>7. CASE /\ Waiting(t) /\ Done(t)' = Done(t) + 1 /\ rs = <<>>
           /\ emitted[t][Done(t)'] \in Tools
           /\ runs' = Registered(<<t, Done(t)'>>)
  <2>1. PICK i \in DOMAIN timeline[t] :
          timeline[t][i].n = Done(t) + 1 /\ timeline[t][i].kind = emitted[t][Done(t) + 1]
    BY <1>7 DEF Timely, WrittenNext
  <2>2. timeline'[t] = timeline[t]
    BY <1>1, <1>7, ConcatEmptySeq
  <2>3. InRun(timeline'[t], Done(t)', <<>>, Done(t)')
    BY <1>1, <1>7, <2>1, <2>2, RunBegins
  <2>4. /\ DOMAIN runs' = DOMAIN runs \cup {<<t, Done(t)'>>}
        /\ runs'[<<t, Done(t)'>>] = [kept |-> <<>>, open |-> TRUE]
        /\ \A r \in DOMAIN runs \ {<<t, Done(t)'>>} : runs'[r] = runs[r]
    BY <1>7, RegisteredHas
  <2> SUFFICES ASSUME NEW r \in DOMAIN runs'
               PROVE  InRun(timeline'[r[1]], r[2], runs'[r].kept, Done(r[1])')
    BY DEF RunsInOrder
  <2>5. CASE r = <<t, Done(t)'>>
    <3>1. runs'[r].kept = <<>> /\ r[1] = t /\ r[2] = Done(t)'
      BY <2>4, <2>5
    <3> QED
      BY <2>3, <3>1
  <2>6. CASE r # <<t, Done(t)'>>
    BY <1>4, <2>4, <2>6
  <2> QED
    BY <2>5, <2>6
<1>8. \/ DOMAIN runs' = DOMAIN runs /\ \A r \in DOMAIN runs : runs'[r].kept = runs[r].kept
      \/ /\ state[t].first # 0
         /\ runs' = [runs EXCEPT ![<<t, state[t].first>>].kept = Append(@, Done(t) + 1)]
         /\ ~Waiting(t) /\ rs = <<>>
         /\ Done(t)' = Done(t) + 1 /\ Done(t)' \in DOMAIN emitted[t]
      \/ /\ Waiting(t) /\ Done(t)' = Done(t) + 1 /\ rs = <<>>
         /\ emitted[t][Done(t)'] \in Tools
         /\ runs' = Registered(<<t, Done(t)'>>)
  BY DEF Threads, tools
<1> QED
  BY <1>5, <1>6, <1>7, <1>8

-----------------------------------------------------------------------------
(* The steps that announce nothing *)

Plain(t) ==
    \/ (\E k \in Kinds : Emit(t, k)) \/ TimerFires(t) \/ Write(t) \/ AfterWrite(t)
    \/ AnnounceThrows(t) \/ Finish(t)

LEMMA PlainMoves ==
    ASSUME NEW t \in Turns, Types, ToolTypes, Shape(t), Timely(t), Plain(t)
    PROVE  /\ Types' /\ UNCHANGED notes
           /\ \E rs \in Seq(Row) : Moves(t, rs) /\ Gathered(t, rs) /\ Threads(t, rs)
<1>1. UNCHANGED notes
  BY DEF Plain, Emit, TimerFires, Write, WriteTool, WriteDelta, WriteRow, WriteCompletion,
         AfterWrite, ToolWritten, RowWritten, AnnounceThrows, Finish
<1>2. <<>> \in Seq(Row)
  OBVIOUS
<1>3. CASE \E k \in Kinds : Emit(t, k)
  BY <1>1, <1>2, <1>3, EmitMoves
<1>4. CASE TimerFires(t) \/ AnnounceThrows(t) \/ Finish(t)
  BY <1>1, <1>2, <1>4, TimerMoves, ThrowMoves, FinishMoves
<1>5. CASE Write(t)
  BY <1>1, <1>5, WriteToolMoves, WriteDeltaMoves, WriteRowMoves, WriteCompletionMoves DEF Write
<1>6. CASE AfterWrite(t)
  BY <1>1, <1>6, ToolWrittenMoves, RowWrittenMoves DEF AfterWrite
<1> QED
  BY <1>1, <1>3, <1>4, <1>5, <1>6 DEF Plain

LEMMA ToolTypesKept ==
    ASSUME NEW t \in Turns, Types, ToolTypes, Shape(t), Plain(t) \/ Announce(t)
    PROVE  ToolTypes'
<1>0. /\ deltas \in [Turns -> SUBSET Nat]
      /\ state \in [Turns -> [count : Nat, first : Nat, ref : BOOLEAN]]
      /\ DOMAIN runs \subseteq Turns \X Nat
      /\ runs \in [DOMAIN runs -> [kept : Seq(Nat), open : BOOLEAN]]
  BY DEF ToolTypes
<1>1. CASE UNCHANGED <<tools, deltas>>
  BY <1>0, <1>1 DEF ToolTypes, tools
<1>2. (Writes(t) \/ Wrote(t)) => Number(t) \in Nat
  <2>1. (Writes(t) \/ Wrote(t)) => Flushing(t) /\ flush[t].at <= Len(flush[t].events)
    BY DEF Writes, Wrote, Shape, Driven, Waiting
  <2> QED
    BY <2>1, AtEvent
<1>3. CASE WriteTool(t)
  <2>1. /\ state' = [state EXCEPT ![t].count = @ + 1] /\ deltas' = deltas /\ Number(t) \in Nat
        /\ \/ runs' = runs
           \/ runs' = [runs EXCEPT ![<<t, state[t].first>>].kept = Append(@, Number(t))]
    BY <1>2, <1>3 DEF WriteTool, FirstOfRun, NextOfRun
  <2>2. state' \in [Turns -> [count : Nat, first : Nat, ref : BOOLEAN]]
    <3>1. \A x \in [count : Nat, first : Nat, ref : BOOLEAN] :
             [x EXCEPT !.count = @ + 1] \in [count : Nat, first : Nat, ref : BOOLEAN]
      OBVIOUS
    <3>2. state' = [state EXCEPT ![t].count = @ + 1]
      BY <2>1
    <3> QED
      BY <1>0, <3>1, <3>2
  <2>3. CASE runs' = [runs EXCEPT ![<<t, state[t].first>>].kept = Append(@, Number(t))]
    <3>1. ASSUME NEW x \in [kept : Seq(Nat), open : BOOLEAN]
          PROVE  [x EXCEPT !.kept = Append(@, Number(t))] \in [kept : Seq(Nat), open : BOOLEAN]
      <4>1. Append(x.kept, Number(t)) \in Seq(Nat)
        BY <2>1
      <4> QED
        BY <4>1
    <3>2. \A r \in DOMAIN runs :
             runs'[r] = runs[r] \/ runs'[r] = [runs[r] EXCEPT !.kept = Append(@, Number(t))]
      BY <2>3
    <3>3. DOMAIN runs' = DOMAIN runs /\ runs' = [r \in DOMAIN runs |-> runs'[r]]
      BY <2>3
    <3>4. \A r \in DOMAIN runs : runs'[r] \in [kept : Seq(Nat), open : BOOLEAN]
      BY <1>0, <3>1, <3>2
    <3>5. runs' \in [DOMAIN runs -> [kept : Seq(Nat), open : BOOLEAN]]
      BY <3>3, <3>4
    <3> QED
      BY <1>0, <2>1, <2>2, <3>3, <3>5 DEF ToolTypes
  <2> QED
    BY <1>0, <2>1, <2>2, <2>3 DEF ToolTypes
<1>4. CASE WriteDelta(t)
  <2>1. deltas' = [deltas EXCEPT ![t] = @ \cup {Number(t)}] /\ Number(t) \in Nat /\ UNCHANGED tools
    BY <1>2, <1>4 DEF WriteDelta
  <2>2. deltas' \in [Turns -> SUBSET Nat]
    BY <1>0, <2>1
  <2> QED
    BY <1>0, <2>1, <2>2 DEF ToolTypes, tools
<1>5. CASE WriteCompletion(t)
  <2>1. (deltas' = [deltas EXCEPT ![t] = {}] \/ deltas' = deltas) /\ UNCHANGED tools
    BY <1>5 DEF WriteCompletion
  <2>2. deltas' \in [Turns -> SUBSET Nat]
    BY <1>0, <2>1
  <2> QED
    BY <1>0, <2>1, <2>2 DEF ToolTypes, tools
<1>6. CASE ToolWritten(t)
  <2>1. /\ runs' = Registered(<<t, Number(t)>>) /\ deltas' = deltas /\ Number(t) \in Nat
        /\ state' = [state EXCEPT ![t] = IF @ = NoState THEN @
                                         ELSE [@ EXCEPT !.first = Number(t), !.ref = TRUE]]
    BY <1>2, <1>6 DEF ToolWritten
  <2>2. state' \in [Turns -> [count : Nat, first : Nat, ref : BOOLEAN]]
    <3>1. \A x \in [count : Nat, first : Nat, ref : BOOLEAN] :
             [x EXCEPT !.first = Number(t), !.ref = TRUE] \in [count : Nat, first : Nat, ref : BOOLEAN]
      BY <2>1
    <3> QED
      BY <1>0, <2>1, <3>1
  <2>3. DOMAIN runs' = DOMAIN runs \cup {<<t, Number(t)>>}
    BY <2>1, RegisteredHas
  <2>4. <<t, Number(t)>> \in Turns \X Nat
    BY <2>1
  <2>5. runs' \in [DOMAIN runs' -> [kept : Seq(Nat), open : BOOLEAN]]
    BY <1>0, <2>1 DEF Registered
  <2> QED
    BY <1>0, <2>1, <2>2, <2>3, <2>4, <2>5 DEF ToolTypes
<1>7. CASE RowWritten(t)
  <2>1. /\ deltas' = [deltas EXCEPT ![t] = {}] \/ deltas' = deltas
        /\ runs' = [r \in DOMAIN runs |->
                       IF state[r[1]].ref /\ state[r[1]].first = r[2]
                       THEN [runs[r] EXCEPT !.open = FALSE] ELSE runs[r]]
        /\ state' = [u \in Turns |-> NoState]
    BY <1>7 DEF RowWritten, Resets
  <2>2. deltas' \in [Turns -> SUBSET Nat] /\ DOMAIN runs' = DOMAIN runs
    BY <1>0, <2>1
  <2>3. runs' \in [DOMAIN runs -> [kept : Seq(Nat), open : BOOLEAN]]
    BY <1>0, <2>1
  <2>4. state' \in [Turns -> [count : Nat, first : Nat, ref : BOOLEAN]]
    BY <2>1 DEF NoState
  <2> QED
    BY <1>0, <2>1, <2>2, <2>3, <2>4 DEF ToolTypes
<1>8. CASE ~(WriteTool(t) \/ WriteDelta(t) \/ WriteCompletion(t) \/ ToolWritten(t) \/ RowWritten(t))
  <2>1. UNCHANGED <<tools, deltas>>
    BY <1>8 DEF Plain, Emit, TimerFires, Write, WriteRow, AfterWrite, AnnounceThrows, Finish, Announce
  <2> QED
    BY <1>1, <2>1
<1> QED
  BY <1>3, <1>4, <1>5, <1>6, <1>7, <1>8

LEMMA OverStays ==
    ASSUME NEW t \in Turns, NEW rs \in Seq(Row), Types, Types', Shape(t), Timely(t), Goes(t, rs),
           NEW u \in Turns, Over(u)
    PROVE  Over(u)' /\ timeline'[u] = timeline[u]
<1>1. CASE u # t
  BY <1>1, OthersStay DEF Over
<1>2. CASE u = t
  <2>1. /\ emitted[t] \in Seq(AllKinds) /\ timeline[t] \in Seq(Row) /\ timeline'[t] = timeline[t] \o rs
        /\ Done(t) \in Nat /\ Waiting(t) \in BOOLEAN
        /\ \A i, j \in DOMAIN emitted[t] : i < j => emitted[t][i] \notin Completions
    BY MoveFacts
  <2>2. Placed(emitted[t], timeline[t], Done(t), Waiting(t))
    BY DEF Timely
  <2>3. PICK k \in DOMAIN timeline[t] : timeline[t][k].kind \in Completions
    BY <1>2 DEF Over
  <2>4. rs = <<>>
    <3>1. rs # <<>> => ~Waiting(t) /\ Done(t) + 1 \in DOMAIN emitted[t]
      BY DEF Goes, Advances
    <3>2. ~Waiting(t) => Done(t) + 1 \notin DOMAIN emitted[t]
      BY <2>1, <2>2, <2>3, CompletedIsDone
    <3> QED
      BY <3>1, <3>2
  <2>5. timeline'[t] = timeline[t]
    BY <2>1, <2>4, ConcatEmptySeq
  <2>6. Effects(t)' = <<>>
    <3>1. Effects(t) = <<>>
      BY <1>2 DEF Over
    <3>2. Keeps(t, rs) \/ Loses(t)
      BY <3>1 DEF Goes, Drops
    <3> QED
      BY <2>4, <3>1, <3>2 DEF Keeps, Loses
  <2> QED
    BY <1>2, <2>3, <2>5, <2>6 DEF Over
<1> QED
  BY <1>1, <1>2

LEMMA OutputTold ==
    ASSUME NEW s, NEW x, NEW n, NEW told, NEW told2, told \subseteq told2, LastOutput(s, x, n, told)
    PROVE  LastOutput(s, x, n, told2)
BY DEF LastOutput

LEMMA LastOutputMoves ==
    ASSUME NEW t \in Turns, NEW rs \in Seq(Row), Types, Types', Shape(t), Timely(t), Moves(t, rs),
           NEW u \in Turns, NEW n \in Nat, LastOutput(timeline[u], Effects(u), n, Reported(u))
    PROVE  LastOutput(timeline[u], Effects(u), n, Reported(u))'
<1>0. Goes(t, rs)
  BY DEF Moves
<1>1. Reported(u) \subseteq Reported(u)'
  BY <1>0, ReportedStays
<1>2. CASE u # t
  BY <1>0, <1>1, <1>2, OthersStay, OutputTold
<1>3. CASE u = t
  <2>1. /\ timeline[t] \in Seq(Row) /\ Effects(t) \in Seq(Row) /\ timeline'[t] = timeline[t] \o rs
        /\ Before(t) \in Nat /\ Done(t) \in Nat /\ Done(t)' \in Nat /\ Before(t) <= Done(t)
        /\ \A k \in DOMAIN rs : rs[k].n = Done(t) + 1
    BY <1>0, MoveFacts
  <2>2. CASE Keeps(t, rs)
    <3>1. Effects(t)' = Effects(t) \o rs
      BY <2>2 DEF Keeps
    <3>2. LastOutput(timeline[t] \o rs, Effects(t) \o rs, n, Reported(t)')
      BY <1>1, <1>3, <2>1, OutputKept
    <3> QED
      BY <1>3, <2>1, <3>1, <3>2
  <2>3. CASE Loses(t)
    <3>1. /\ Effects(t)' = <<>> /\ ~Waiting(t)'
          /\ \A m \in Nat : Before(t) < m /\ m <= Done(t)' => m \in Reported(t)'
      BY <2>3 DEF Loses
    <3>2. Placed(emitted'[t], timeline'[t], Done(t)', Waiting(t)')
      BY <1>0, TimelyMoves DEF Timely
    <3>3. \A i \in DOMAIN (timeline[t] \o rs) : (timeline[t] \o rs)[i].n <= Done(t)'
      BY <2>1, <3>1, <3>2 DEF Placed
    <3>4. LastOf(timeline[t], Effects(t), Before(t))
      BY DEF Timely
    <3>5. LastOutput(timeline[t], Effects(t), n, Reported(t))
      BY <1>3
    <3>6. LastOutput(timeline[t] \o rs, <<>>, n, Reported(t)')
      BY <1>1, <1>3, <2>1, <3>1, <3>3, <3>4, <3>5, OutputReported
    <3> QED
      BY <1>3, <2>1, <3>1, <3>6
  <2> QED
    BY <2>2, <2>3 DEF Moves
<1> QED
  BY <1>2, <1>3

LEMMA MemberOfSeq ==
    ASSUME NEW S, NEW s \in Seq(S), NEW x \in ToSet(s)
    PROVE  x \in S
BY DEF ToSet

LEMMA NoteMembers ==
    ASSUME NoteTypes
    PROVE  /\ \A p \in ToSet(pending) : p \in EventOfTurn /\ p.turn \in Turns /\ p.n \in Nat
           /\ \A r \in ToSet(terminal) : r.turn \in Turns
           /\ \A r \in released : r.event \in EventOfTurn /\ r.event.turn \in Turns /\ r.event.n \in Nat
<1>1. \A p \in ToSet(pending) : p \in EventOfTurn
  BY MemberOfSeq DEF NoteTypes
<1>2. \A r \in ToSet(terminal) : r \in [turn : Turns, ok : BOOLEAN]
  BY MemberOfSeq, Zenon DEF NoteTypes
<1> QED
  BY <1>1, <1>2 DEF NoteTypes, EventOfTurn

LEMMA NotedStays ==
    ASSUME NEW t \in Turns, NEW rs \in Seq(Row), Types, Types', NoteTypes, Shape(t), Timely(t),
           Moves(t, rs), UNCHANGED notes, Noted
    PROVE  NoteTypes' /\ Noted'
<1>0. /\ pending' = pending /\ terminal' = terminal /\ released' = released /\ Goes(t, rs)
  BY DEF notes, Moves
<1>1. NoteTypes'
  BY <1>0 DEF NoteTypes
<1>2. ASSUME NEW p \in ToSet(pending)
      PROVE  LastOutput(timeline[p.turn], Effects(p.turn), p.n, Reported(p.turn))'
  <2>1. p.turn \in Turns /\ p.n \in Nat
    BY NoteMembers
  <2>2. LastOutput(timeline[p.turn], Effects(p.turn), p.n, Reported(p.turn))
    BY DEF Noted
  <2> QED
    BY <2>1, <2>2, LastOutputMoves
<1>3. \A r \in ToSet(terminal) : Over(r.turn)'
  BY <1>0, NoteMembers, OverStays DEF Noted
<1>4. \A r \in released : Over(r.event.turn)' /\ timeline'[r.event.turn] = timeline[r.event.turn]
  BY <1>0, NoteMembers, OverStays DEF Noted
<1>5. \A r \in released : Reported(r.event.turn) \subseteq Reported(r.event.turn)'
  BY <1>0, NoteMembers, ReportedStays
<1>6. NotificationIsDue'
  <2> SUFFICES ASSUME NEW r \in released
               PROVE  LET u == r.event.turn IN
                      /\ Rows(u, {"ok"})' # {} /\ r.event.n \in Rows(u, Notifiable)'
                      /\ \A n \in Rows(u, Notifiable)' : n <= r.event.n \/ n \in Reported(u)'
                      /\ \A q \in released : q.event.turn = u => q = r
    BY <1>0 DEF NotificationIsDue
  <2> DEFINE u == r.event.turn
  <2>1. /\ Rows(u, {"ok"}) # {} /\ r.event.n \in Rows(u, Notifiable)
        /\ \A n \in Rows(u, Notifiable) : n <= r.event.n \/ n \in Reported(u)
        /\ \A q \in released : q.event.turn = u => q = r
    BY DEF Noted, NotificationIsDue
  <2>2. Rows(u, {"ok"})' = Rows(u, {"ok"}) /\ Rows(u, Notifiable)' = Rows(u, Notifiable)
    BY <1>4 DEF Rows
  <2>3. Reported(u) \subseteq Reported(u)'
    BY <1>5
  <2> QED
    BY <2>1, <2>2, <2>3
<1> QED
  BY <1>0, <1>1, <1>2, <1>3, <1>4, <1>6 DEF Noted

-----------------------------------------------------------------------------
(* An announcement *)

LEMMA AnnounceKeeps ==
    ASSUME NEW t \in Turns, Types, NoteTypes, Shape(t), Timely(t), Announce(t), Noted
    PROVE  /\ timeline' = timeline /\ \A u \in Turns : Reported(u)' = Reported(u)
           /\ Effects(t) \in Seq(Row) /\ Effects(t) # <<>> /\ Effects(t)' = Tail(Effects(t))
           /\ timeline[t] \in Seq(Row)
           /\ LastOf(timeline[t], Effects(t), Before(t)) /\ Ranked(timeline[t]) /\ Before(t) \in Nat
           /\ \A x \in ToSet(terminal) : x.turn # t /\ Over(x.turn)'
           /\ \A q \in released : q.event.turn # t /\ Over(q.event.turn)'
           /\ \A p \in ToSet(pending) : p.turn # t \/ Head(Effects(t)).kind \notin Notifiable =>
                 LastOutput(timeline[p.turn], Effects(p.turn), p.n, Reported(p.turn))'
           /\ Head(Effects(t)).kind \in Notifiable =>
                 LastOutput(timeline[t], Effects(t)', Head(Effects(t)).n, Reported(t))
           /\ Head(Effects(t)).kind \in Completions =>
                 Over(t)' /\ \E k \in DOMAIN timeline[t] : timeline[t][k] = Head(Effects(t))
<1>1. /\ Types' /\ Goes(t, <<>>) /\ Drops(t, <<>>) /\ <<>> \in Seq(Row)
      /\ timeline' = timeline /\ emitted' = emitted /\ reported' = reported
  <2>1. Types' /\ Goes(t, <<>>) /\ Drops(t, <<>>)
    BY AnnounceMoves
  <2>2. <<>> \in Seq(Row)
    OBVIOUS
  <2> QED
    BY <2>1, <2>2 DEF Announce, failures
<1>2. \A u \in Turns : Reported(u)' = Reported(u)
  BY <1>1 DEF Reported, Event
<1>3. /\ emitted[t] \in Seq(AllKinds) /\ timeline[t] \in Seq(Row) /\ Effects(t) \in Seq(Row)
      /\ Done(t) \in Nat /\ Waiting(t) \in BOOLEAN /\ Before(t) \in Nat
      /\ \A i, j \in DOMAIN emitted[t] : i < j => emitted[t][i] \notin Completions
  BY <1>1, MoveFacts
<1>4. Effects(t) # <<>> /\ Effects(t)' = Tail(Effects(t))
  BY <1>1 DEF Drops
<1>5. /\ LastOf(timeline[t], Effects(t), Before(t)) /\ Ranked(timeline[t])
      /\ Placed(emitted[t], timeline[t], Done(t), Waiting(t))
  BY DEF Timely
<1>6. ~Over(t)
  BY <1>4 DEF Over
<1>7. ASSUME NEW u \in Turns, Over(u) PROVE u # t /\ Over(u)'
  BY <1>1, <1>6, <1>7, OverStays
<1>8. /\ \A x \in ToSet(terminal) : x.turn # t /\ Over(x.turn)'
      /\ \A q \in released : q.event.turn # t /\ Over(q.event.turn)'
  BY <1>7, NoteMembers DEF Noted
<1>9. ASSUME NEW p \in ToSet(pending), p.turn # t \/ Head(Effects(t)).kind \notin Notifiable
      PROVE  LastOutput(timeline[p.turn], Effects(p.turn), p.n, Reported(p.turn))'
  <2>1. p.turn \in Turns /\ LastOutput(timeline[p.turn], Effects(p.turn), p.n, Reported(p.turn))
    BY NoteMembers DEF Noted
  <2>2. CASE p.turn # t
    <3>1. Effects(p.turn)' = Effects(p.turn)
      BY <1>1, <2>1, <2>2, OthersStay
    <3> QED
      BY <1>1, <1>2, <2>1, <3>1
  <2>3. CASE p.turn = t
    <3>1. LastOutput(timeline[t], Effects(t), p.n, Reported(t))
      BY <2>1, <2>3
    <3>2. LastOutput(timeline[t], Tail(Effects(t)), p.n, Reported(t))
      BY <1>3, <1>4, <1>9, <2>3, <3>1, OutputPassed
    <3> QED
      BY <1>1, <1>2, <1>4, <2>3, <3>2
  <2> QED
    BY <2>2, <2>3
<1>10. Head(Effects(t)).kind \in Notifiable =>
          LastOutput(timeline[t], Effects(t)', Head(Effects(t)).n, Reported(t))
  BY <1>3, <1>4, <1>5, OutputKnown
<1>11. ASSUME Head(Effects(t)).kind \in Completions
       PROVE  Over(t)' /\ \E k \in DOMAIN timeline[t] : timeline[t][k] = Head(Effects(t))
  <2>1. Tail(Effects(t)) = <<>> /\ \E k \in DOMAIN timeline[t] : timeline[t][k] = Head(Effects(t))
    BY <1>3, <1>4, <1>5, <1>11, CompletionEnds
  <2> QED
    BY <1>1, <1>4, <1>11, <2>1 DEF Over
<1> QED
  BY <1>1, <1>2, <1>3, <1>4, <1>5, <1>8, <1>9, <1>10, <1>11

LEMMA DueStays ==
    ASSUME timeline' = timeline, \A u \in Turns : Reported(u)' = Reported(u), released' = released,
           \A q \in released : q.event.turn \in Turns, NotificationIsDue
    PROVE  NotificationIsDue'
<1>1. \A u : \A kinds : Rows(u, kinds)' = Rows(u, kinds)
  BY DEF Rows
<1> SUFFICES ASSUME NEW r \in released
             PROVE  LET u == r.event.turn IN
                    /\ Rows(u, {"ok"})' # {} /\ r.event.n \in Rows(u, Notifiable)'
                    /\ \A n \in Rows(u, Notifiable)' : n <= r.event.n \/ n \in Reported(u)'
                    /\ \A q \in released : q.event.turn = u => q = r
  BY DEF NotificationIsDue
<1>2. LET u == r.event.turn IN
      /\ Rows(u, {"ok"}) # {} /\ r.event.n \in Rows(u, Notifiable)
      /\ \A n \in Rows(u, Notifiable) : n <= r.event.n \/ n \in Reported(u)
      /\ \A q \in released : q.event.turn = u => q = r
  BY DEF NotificationIsDue
<1> QED
  BY <1>1, <1>2

\* A notification is due that is released when the turn is over.
LEMMA ReleasedIsDue ==
    ASSUME timeline' = timeline, \A u \in Turns : Reported(u)' = Reported(u),
           NotificationIsDue, NEW t \in Turns, NEW c \in EventOfTurn, c.turn = t,
           \A q \in released : q.event.turn # t /\ q.event.turn \in Turns,
           LastOutput(timeline[t], <<>>, c.n, Reported(t)),
           \E k \in DOMAIN timeline[t] : timeline[t][k].kind = "ok",
           NEW h, released' = released \cup {[event |-> c, how |-> h]}
    PROVE  NotificationIsDue'
<1>1. \A u : \A kinds : Rows(u, kinds)' = Rows(u, kinds)
  BY DEF Rows
<1>2. Rows(t, {"ok"}) # {} /\ c.n \in Rows(t, Notifiable)
  BY DEF Rows, LastOutput
<1>3. \A n \in Rows(t, Notifiable) : n <= c.n \/ n \in Reported(t)
  BY DEF Rows, LastOutput
<1> SUFFICES ASSUME NEW r \in released'
             PROVE  LET u == r.event.turn IN
                    /\ Rows(u, {"ok"})' # {} /\ r.event.n \in Rows(u, Notifiable)'
                    /\ \A n \in Rows(u, Notifiable)' : n <= r.event.n \/ n \in Reported(u)'
                    /\ \A q \in released' : q.event.turn = u => q = r
  BY DEF NotificationIsDue
<1>4. CASE r \in released
  <2> DEFINE u == r.event.turn
  <2>1. /\ Rows(u, {"ok"}) # {} /\ r.event.n \in Rows(u, Notifiable)
        /\ \A n \in Rows(u, Notifiable) : n <= r.event.n \/ n \in Reported(u)
        /\ \A q \in released : q.event.turn = u => q = r
    BY <1>4 DEF NotificationIsDue
  <2>2. u # t /\ u \in Turns
    BY <1>4
  <2> QED
    BY <1>1, <2>1, <2>2
<1>5. CASE r = [event |-> c, how |-> h]
  BY <1>1, <1>2, <1>3, <1>5
<1> QED
  BY <1>4, <1>5

LEMMA CompletionNoted ==
    ASSUME NEW t \in Turns, Types, NoteTypes, Shape(t), Timely(t), Announce(t), Noted,
           NEW e \in EventOfTurn, e.turn = t, e.n = Head(Effects(t)).n, e.kind = Head(Effects(t)).kind,
           e.kind \in Completions, CompletionAnnounced(e)
    PROVE  NoteTypes' /\ Noted'
<1>1. /\ timeline' = timeline /\ \A u \in Turns : Reported(u)' = Reported(u)
      /\ Over(t)' /\ \E k \in DOMAIN timeline[t] : timeline[t][k] = Head(Effects(t))
      /\ \A x \in ToSet(terminal) : x.turn # t /\ Over(x.turn)'
      /\ \A q \in released : q.event.turn # t /\ Over(q.event.turn)'
  BY AnnounceKeeps
<1>2. Head(Effects(t)).kind \notin Notifiable
  BY DEF Completions, Notifiable
<1>3. \A p \in ToSet(pending) : LastOutput(timeline[p.turn], Effects(p.turn), p.n, Reported(p.turn))'
  BY <1>2, AnnounceKeeps
<1>4. /\ pending \in Seq(EventOfTurn) /\ terminal \in Seq([turn : Turns, ok : BOOLEAN])
      /\ released \subseteq [event : EventOfTurn, how : {"muted", "sent"}]
  BY DEF NoteTypes
<1>5. PICK x \in [turn : Turns, ok : BOOLEAN] : x = [turn |-> t, ok |-> Succeeded(e)]
  <2>1. PICK b \in BOOLEAN : b = Succeeded(e)
    BY Zenon DEF Succeeded
  <2>2. [turn |-> t, ok |-> b] \in [turn : Turns, ok : BOOLEAN]
    OBVIOUS
  <2> QED
    BY <2>1, <2>2, Zenon
<1>6. /\ terminal' \in Seq([turn : Turns, ok : BOOLEAN])
      /\ \A y \in ToSet(terminal') : y = x \/ y \in ToSet(terminal)
  <2>1. terminal' = Remembered(terminal, x)
    BY <1>5 DEF CompletionAnnounced
  <2> QED
    BY <1>4, <2>1, RememberedHas, Zenon
<1>7. pending' \in Seq(EventOfTurn) /\ ToSet(pending') \subseteq ToSet(pending)
  BY <1>4, ForgottenHas DEF CompletionAnnounced
<1>8. x.turn = t
  BY <1>5
<1>9. \A y \in ToSet(terminal') : Over(y.turn)'
  BY <1>1, <1>6, <1>8
<1>10. \A p \in ToSet(pending)' : LastOutput(timeline[p.turn], Effects(p.turn), p.n, Reported(p.turn))'
  BY <1>3, <1>7
<1>11. CASE UNCHANGED released
  <2>1. NotificationIsDue'
    BY <1>1, <1>11, NoteMembers, DueStays DEF Noted
  <2> QED
    BY <1>1, <1>4, <1>6, <1>7, <1>9, <1>10, <1>11, <2>1 DEF Noted, NoteTypes
<1>12. ASSUME NEW c \in Candidates(e), NEW h \in {"muted", "sent"}, Succeeded(e),
              released' = released \cup {[event |-> c, how |-> h]}
       PROVE  NoteTypes' /\ Noted'
  <2>1. c \in ToSet(pending) /\ c.turn = t
    BY <1>12 DEF Candidates, OfTurn, ToSet
  <2>2. c \in EventOfTurn
    BY <2>1, NoteMembers
  <2>3. LastOutput(timeline[t], <<>>, c.n, Reported(t))
    <3>1. Effects(t)' = <<>>
      BY <1>1 DEF Over
    <3> QED
      BY <1>1, <1>3, <2>1, <3>1
  <2>4. \E k \in DOMAIN timeline[t] : timeline[t][k].kind = "ok"
    BY <1>1, <1>12 DEF Succeeded
  <2>5. NotificationIsDue'
    BY <1>1, <1>12, <2>1, <2>2, <2>3, <2>4, NoteMembers, ReleasedIsDue DEF Noted
  <2>6. \A q \in released' : Over(q.event.turn)'
    BY <1>1, <1>12, <2>1
  <2>7. released' \subseteq [event : EventOfTurn, how : {"muted", "sent"}]
    BY <1>4, <1>12, <2>2
  <2> QED
    BY <1>6, <1>7, <1>9, <1>10, <2>5, <2>6, <2>7 DEF Noted, NoteTypes
<1>13. \/ UNCHANGED released
       \/ \E c \in Candidates(e), h \in {"muted", "sent"} :
             Succeeded(e) /\ released' = released \cup {[event |-> c, how |-> h]}
  BY DEF CompletionAnnounced, Release, NoRelease
<1> QED
  BY <1>11, <1>12, <1>13

LEMMA OutputNoted ==
    ASSUME NEW t \in Turns, Types, NoteTypes, Shape(t), Timely(t), Announce(t), Noted,
           NEW e \in EventOfTurn, e.turn = t, e.n = Head(Effects(t)).n, e.kind = Head(Effects(t)).kind,
           e.kind \in Notifiable, OutputAnnounced(e)
    PROVE  NoteTypes' /\ Noted'
<1>1. /\ timeline' = timeline /\ \A u \in Turns : Reported(u)' = Reported(u)
      /\ \A x \in ToSet(terminal) : x.turn # t /\ Over(x.turn)'
      /\ \A q \in released : q.event.turn # t /\ Over(q.event.turn)'
      /\ LastOutput(timeline[t], Effects(t)', e.n, Reported(t))
      /\ \A p \in ToSet(pending) : p.turn # t =>
            LastOutput(timeline[p.turn], Effects(p.turn), p.n, Reported(p.turn))'
  BY AnnounceKeeps
<1>2. OfTurn(terminal, t) = {}
  BY <1>1 DEF OfTurn, ToSet
<1>3. pending' = Remembered(pending, e) /\ released' = released /\ terminal' = terminal
  BY <1>2 DEF OutputAnnounced, NoRelease
<1>4. /\ pending' \in Seq(EventOfTurn)
      /\ \A p \in ToSet(pending') : p = e \/ (p \in ToSet(pending) /\ p.turn # e.turn)
  <2>1. pending \in Seq(EventOfTurn)
    BY DEF NoteTypes
  <2>2. /\ Remembered(pending, e) \in Seq(EventOfTurn)
        /\ \A p \in ToSet(Remembered(pending, e)) : p = e \/ (p \in ToSet(pending) /\ p.turn # e.turn)
    BY <2>1, RememberedHas
  <2> QED
    BY <1>3, <2>2
<1>5. LastOutput(timeline[e.turn], Effects(e.turn), e.n, Reported(e.turn))'
  BY <1>1
<1>6. \A p \in ToSet(pending)' : LastOutput(timeline[p.turn], Effects(p.turn), p.n, Reported(p.turn))'
  BY <1>1, <1>4, <1>5
<1>7. NotificationIsDue'
  BY <1>1, <1>3, NoteMembers, DueStays DEF Noted
<1>8. NoteTypes'
  BY <1>3, <1>4 DEF NoteTypes
<1> QED
  BY <1>1, <1>3, <1>6, <1>7, <1>8 DEF Noted

LEMMA AnnounceNoted ==
    ASSUME NEW t \in Turns, Types, NoteTypes, Shape(t), Timely(t), Announce(t), Noted
    PROVE  NoteTypes' /\ Noted'
<1>1. /\ timeline' = timeline /\ \A u \in Turns : Reported(u)' = Reported(u)
      /\ Effects(t) \in Seq(Row) /\ Effects(t) # <<>>
      /\ \A x \in ToSet(terminal) : x.turn # t /\ Over(x.turn)'
      /\ \A q \in released : q.event.turn # t /\ Over(q.event.turn)'
      /\ \A p \in ToSet(pending) : Head(Effects(t)).kind \notin Notifiable =>
            LastOutput(timeline[p.turn], Effects(p.turn), p.n, Reported(p.turn))'
  BY AnnounceKeeps
<1>2. PICK e \in EventOfTurn : e = [turn |-> t, n |-> Head(Effects(t)).n, kind |-> Head(Effects(t)).kind]
  <2>1. Head(Effects(t)) \in Row
    BY <1>1, HeadAndTail
  <2>2. Head(Effects(t)).n \in Nat /\ Head(Effects(t)).kind \in AllKinds
    BY <2>1 DEF Row, RowKinds
  <2> QED
    BY <2>2 DEF EventOfTurn
<1>3. /\ e.turn = t /\ e.n = Head(Effects(t)).n /\ e.kind = Head(Effects(t)).kind
      /\ Announced(e)
  <2>1. Announced([turn |-> t, n |-> Head(Effects(t)).n, kind |-> Head(Effects(t)).kind])
    BY DEF Announce, Effects
  <2> QED
    BY <1>2, <2>1
<1>4. CASE e.kind \in Completions /\ CompletionAnnounced(e)
  BY <1>3, <1>4, CompletionNoted
<1>5. CASE e.kind \in Notifiable /\ OutputAnnounced(e)
  BY <1>3, <1>5, OutputNoted
<1>6. CASE e.kind \notin Completions \cup Notifiable /\ UNCHANGED notes
  <2>1. pending' = pending /\ terminal' = terminal /\ released' = released
    BY <1>6 DEF notes
  <2>2. \A p \in ToSet(pending)' : LastOutput(timeline[p.turn], Effects(p.turn), p.n, Reported(p.turn))'
    BY <1>1, <1>3, <1>6, <2>1
  <2>3. NotificationIsDue'
    BY <1>1, <2>1, NoteMembers, DueStays DEF Noted
  <2>4. NoteTypes'
    BY <2>1 DEF NoteTypes
  <2> QED
    BY <1>1, <2>1, <2>2, <2>3, <2>4 DEF Noted
<1> QED
  BY <1>3, <1>4, <1>5, <1>6 DEF Announced

-----------------------------------------------------------------------------
(* The invariant *)

LEMMA Begins ==
    ASSUME Init
    PROVE  Inv
<1>1. /\ emitted = [t \in Turns |-> <<>>] /\ queue = [t \in Turns |-> <<>>]
      /\ timer = {} /\ flush = [t \in Turns |-> Idle] /\ dead = {}
      /\ timeline = [t \in Turns |-> <<>>] /\ deltas = [t \in Turns |-> {}]
      /\ state = [t \in Turns |-> NoState] /\ runs = <<>> /\ reported = {}
      /\ pending = <<>> /\ terminal = <<>> /\ released = {}
  BY DEF Init, NothingAnnounced
<1>2. Types
  <2>1. Idle \in Batch
    BY DEF Idle, Batch
  <2> QED
    BY <1>1, <2>1 DEF Types
<1>3. ToolTypes
  <2>1. NoState \in [count : Nat, first : Nat, ref : BOOLEAN]
    BY DEF NoState
  <2>2. DOMAIN runs = {}
    BY <1>1
  <2>3. runs \in [DOMAIN runs -> [kept : Seq(Nat), open : BOOLEAN]]
    BY <1>1
  <2> QED
    BY <1>1, <2>1, <2>2, <2>3 DEF ToolTypes
<1>4. NoteTypes
  BY <1>1 DEF NoteTypes
<1>5. ASSUME NEW t \in Turns
      PROVE  Shape(t) /\ Timely(t) /\ Rooted(t) /\ Collected(t)
             /\ Whole(emitted[t], timeline[t], Reported(t) # {})
  <2>1. /\ emitted[t] = <<>> /\ queue[t] = <<>> /\ timeline[t] = <<>> /\ flush[t] = Idle
        /\ deltas[t] = {} /\ state[t] = NoState /\ ~Flushing(t)
    BY <1>1 DEF Flushing
  <2>2. Before(t) = 0 /\ Done(t) = 0 /\ Waiting(t) = FALSE /\ Effects(t) = <<>>
    <3>1. Waiting(t) = FALSE /\ Effects(t) = <<>> /\ flush[t].events = <<>>
      BY <2>1 DEF Waiting, Effects, Idle
    <3>2. Before(t) = Len(emitted[t]) - Len(queue[t]) - Len(flush[t].events)
      BY DEF Before
    <3>3. Before(t) = Len(<<>>) - Len(<<>>) - Len(<<>>)
      BY <2>1, <3>1, <3>2, Zenon
    <3>4. Before(t) = 0
      <4>1. Len(<<>>) = 0
        BY EmptySeq
      <4>2. Before(t) = 0 - 0 - 0
        BY <3>3, <4>1, Zenon
      <4> QED
        BY <4>2
    <3> QED
      BY <2>1, <3>1, <3>4 DEF Done
  <2>3. Shape(t)
    BY <1>1, <2>1, <2>2 DEF Shape, EndsOnce, Numbered, Driven, Idle
  <2>4. Timely(t)
    BY <2>1, <2>2 DEF Timely, Placed, Ranked, WrittenNext, LastOf
  <2>5. Rooted(t)
    BY <2>1 DEF Rooted, NoState
  <2>6. Collected(t)
    BY <2>1 DEF Collected, Since
  <2>7. Whole(emitted[t], timeline[t], Reported(t) # {})
    BY <2>1 DEF Whole
  <2> QED
    BY <2>3, <2>4, <2>5, <2>6, <2>7
<1>6. RunsInOrder
  BY <1>1 DEF RunsInOrder
<1>7. Noted
  BY <1>1 DEF Noted, NotificationIsDue, ToSet
<1> QED
  BY <1>2, <1>3, <1>4, <1>5, <1>6, <1>7 DEF Inv

LEMMA TurnSteps ==
    ASSUME Inv, NEW t \in Turns, Plain(t) \/ Announce(t)
    PROVE  Inv'
<1>1. /\ Types /\ ToolTypes /\ NoteTypes /\ RunsInOrder /\ Noted
      /\ \A u \in Turns : Shape(u) /\ Timely(u) /\ Rooted(u) /\ Collected(u)
                          /\ Whole(emitted[u], timeline[u], Reported(u) # {})
  BY DEF Inv
<1>2. PICK rs \in Seq(Row) :
        /\ Types' /\ Goes(t, rs) /\ Gathered(t, rs) /\ Threads(t, rs)
        /\ Announce(t) \/ (Moves(t, rs) /\ UNCHANGED notes)
  <2>1. CASE Plain(t)
    BY <1>1, <2>1, PlainMoves DEF Moves
  <2>2. CASE Announce(t)
    <3>1. <<>> \in Seq(Row)
      OBVIOUS
    <3> QED
      BY <1>1, <2>2, <3>1, AnnounceMoves
  <2> QED
    BY <2>1, <2>2
<1>3. ToolTypes'
  BY <1>1, ToolTypesKept
<1>4. ASSUME NEW u \in Turns
      PROVE  Shape(u)' /\ Timely(u)' /\ Rooted(u)' /\ Collected(u)'
             /\ Whole(emitted[u], timeline[u], Reported(u) # {})'
  <2>1. CASE u = t
    <3>1. Shape(t)'
      BY <1>2 DEF Goes
    <3>2. Timely(t)'
      BY <1>1, <1>2, TimelyMoves
    <3>3. Rooted(t)'
      BY <1>1, <1>2, <1>3, RootedMoves
    <3>4. Collected(t)' /\ Whole(emitted[t], timeline[t], Reported(t) # {})'
      <4>1. deltas \in [Turns -> SUBSET Nat] /\ deltas' \in [Turns -> SUBSET Nat]
        BY <1>1, <1>3 DEF ToolTypes
      <4> QED
        BY <1>1, <1>2, <4>1, GatheredMoves
    <3> QED
      BY <2>1, <3>1, <3>2, <3>3, <3>4
  <2>2. CASE u # t
    <3>1. Shape(u)' /\ Timely(u)'
      BY <1>1, <1>2, <2>2, OthersStay
    <3>2. Rooted(u)'
      BY <1>1, <1>2, <2>2, RootedStays
    <3>3. Collected(u)' /\ Whole(emitted[u], timeline[u], Reported(u) # {})'
      BY <1>1, <1>2, <2>2, GatheredStays
    <3> QED
      BY <3>1, <3>2, <3>3
  <2> QED
    BY <2>1, <2>2
<1>5. RunsInOrder'
  BY <1>1, <1>2, <1>3, RunsMove
<1>6. NoteTypes' /\ Noted'
  <2>1. CASE Announce(t)
    BY <1>1, <2>1, AnnounceNoted
  <2>2. CASE Moves(t, rs) /\ UNCHANGED notes
    BY <1>1, <1>2, <2>2, NotedStays
  <2> QED
    BY <1>2, <2>1, <2>2
<1> QED
  BY <1>2, <1>3, <1>4, <1>5, <1>6 DEF Inv

LEMMA RestartKeeps ==
    ASSUME Inv, Restart
    PROVE  Inv'
<1>1. /\ Types /\ ToolTypes /\ NoteTypes /\ RunsInOrder /\ Noted
      /\ \A u \in Turns : Shape(u) /\ Timely(u) /\ Whole(emitted[u], timeline[u], Reported(u) # {})
  BY DEF Inv
<1>2. /\ dead' = {t \in Turns : emitted[t] # <<>>}
      /\ queue' = [t \in Turns |-> <<>>] /\ timer' = {} /\ flush' = [t \in Turns |-> Idle]
      /\ state' = [t \in Turns |-> NoState] /\ deltas' = [t \in Turns |-> {}]
      /\ runs' = [r \in DOMAIN runs |-> [runs[r] EXCEPT !.open = FALSE]]
      /\ pending' = <<>> /\ terminal' = <<>> /\ released' = released
      /\ emitted' = emitted /\ timeline' = timeline /\ reported' = reported
  BY DEF Restart, NotesForgotten, failures
<1>3. Types'
  <2>1. Idle \in Batch
    BY DEF Idle, Batch
  <2>2. flush' \in [Turns -> Batch] /\ queue' \in [Turns -> Seq(Nat)]
    BY <1>2, <2>1
  <2> QED
    BY <1>1, <1>2, <2>2 DEF Types
<1>4. \A r \in DOMAIN runs : /\ runs'[r].kept = runs[r].kept
                             /\ runs'[r] \in [kept : Seq(Nat), open : BOOLEAN]
  <2> SUFFICES ASSUME NEW r \in DOMAIN runs
               PROVE  /\ runs'[r].kept = runs[r].kept
                      /\ runs'[r] \in [kept : Seq(Nat), open : BOOLEAN]
    OBVIOUS
  <2>1. runs[r] \in [kept : Seq(Nat), open : BOOLEAN]
    BY <1>1 DEF ToolTypes
  <2> QED
    BY <1>2, <2>1
<1>5. ToolTypes'
  <2>1. DOMAIN runs' = DOMAIN runs /\ runs' \in [DOMAIN runs' -> [kept : Seq(Nat), open : BOOLEAN]]
    BY <1>2, <1>4
  <2>2. state' \in [Turns -> [count : Nat, first : Nat, ref : BOOLEAN]] /\ deltas' \in [Turns -> SUBSET Nat]
    BY <1>2 DEF NoState
  <2> QED
    BY <1>1, <2>1, <2>2 DEF ToolTypes
<1>6. NoteTypes'
  BY <1>1, <1>2 DEF NoteTypes
<1>7. ASSUME NEW t \in Turns
      PROVE  /\ Shape(t)' /\ Timely(t)' /\ Rooted(t)' /\ Collected(t)'
             /\ Whole(emitted[t], timeline[t], Reported(t) # {})'
             /\ Done(t)' = Len(emitted[t]) /\ Effects(t)' = <<>> /\ Reported(t)' = Reported(t)
  <2>1. /\ emitted[t] \in Seq(AllKinds) /\ timeline[t] \in Seq(Row) /\ Len(emitted[t]) \in Nat
        /\ DOMAIN emitted[t] = 1 .. Len(emitted[t])
    BY <1>1, WellPlaced
  <2>2. /\ emitted'[t] = emitted[t] /\ queue'[t] = <<>> /\ timeline'[t] = timeline[t]
        /\ flush'[t] = Idle /\ deltas'[t] = {} /\ state'[t] = NoState /\ ~Flushing(t)'
    BY <1>2 DEF Flushing
  <2>3. /\ Before(t)' = Len(emitted[t]) /\ Done(t)' = Len(emitted[t])
        /\ Waiting(t)' = FALSE /\ Effects(t)' = <<>>
    BY <2>1, <2>2 DEF Before, Done, Waiting, Effects, Idle
  <2>4. Shape(t)'
    <3>1. EndsOnce(t)'
      BY <1>1, <2>2 DEF Shape, EndsOnce
    <3>2. Numbered(t)'
      BY <2>1, <2>2, <2>3 DEF Numbered, Idle
    <3>3. Driven(t)'
      BY <1>2, <2>2 DEF Driven
    <3> QED
      BY <3>1, <3>2, <3>3 DEF Shape
  <2>5. Timely(t)'
    <3>1. /\ Placed(emitted[t], timeline[t], Done(t), Waiting(t))
          /\ Ranked(timeline[t])
      BY <1>1 DEF Timely
    <3>2. Placed(emitted[t], timeline[t], Len(emitted[t]), FALSE)
      BY <2>1, <3>1 DEF Placed
    <3>3. /\ WrittenNext(emitted[t], timeline[t], Len(emitted[t]), FALSE)
          /\ LastOf(timeline[t], <<>>, Len(emitted[t]))
      BY <2>1 DEF WrittenNext, LastOf
    <3> QED
      BY <2>2, <2>3, <3>1, <3>2, <3>3 DEF Timely
  <2>6. Rooted(t)'
    BY <2>2 DEF Rooted, NoState
  <2>7. Collected(t)'
    <3>1. t \notin dead' => DOMAIN emitted'[t] = {}
      BY <1>2, <2>2
    <3> QED
      BY <2>2, <3>1 DEF Collected, Since
  <2>8. Reported(t)' = Reported(t)
    BY <1>2 DEF Reported, Event
  <2>9. Whole(emitted[t], timeline[t], Reported(t) # {})'
    BY <1>1, <2>2, <2>8
  <2> QED
    BY <2>3, <2>4, <2>5, <2>6, <2>7, <2>8, <2>9
<1>8. RunsInOrder'
  <2> SUFFICES ASSUME NEW r \in DOMAIN runs
               PROVE  InRun(timeline'[r[1]], r[2], runs'[r].kept, Done(r[1])')
    BY <1>2 DEF RunsInOrder
  <2>1. /\ r[1] \in Turns /\ r[2] \in Nat /\ runs[r].kept \in Seq(Nat)
        /\ InRun(timeline[r[1]], r[2], runs[r].kept, Done(r[1]))
    BY <1>1 DEF ToolTypes, RunsInOrder
  <2>2. /\ Done(r[1]) \in Nat /\ Len(emitted[r[1]]) \in Nat /\ Done(r[1]) <= Len(emitted[r[1]])
        /\ timeline[r[1]] \in Seq(Row)
    BY <1>1, <2>1, WellPlaced
  <2>3. Done(r[1])' = Len(emitted[r[1]])
    BY <1>7, <2>1
  <2>4. \A i \in DOMAIN runs[r].kept : runs[r].kept[i] \in Nat
    BY <2>1
  <2>5. InRun(timeline[r[1]], r[2], runs[r].kept, Len(emitted[r[1]]))
    BY <2>1, <2>2, <2>4 DEF InRun
  <2> QED
    BY <1>2, <1>4, <2>3, <2>5
<1>9. Noted'
  <2>1. NotificationIsDue'
    BY <1>1, <1>2, <1>7, NoteMembers, DueStays DEF Noted
  <2>2. \A r \in released : Over(r.event.turn)'
    <3> SUFFICES ASSUME NEW r \in released PROVE Over(r.event.turn)'
      OBVIOUS
    <3>1. Over(r.event.turn) /\ r.event.turn \in Turns
      BY <1>1, NoteMembers DEF Noted
    <3> QED
      BY <1>2, <1>7, <3>1 DEF Over
  <2> QED
    BY <1>2, <2>1, <2>2 DEF Noted, ToSet
<1> QED
  BY <1>3, <1>5, <1>6, <1>7, <1>8, <1>9 DEF Inv

LEMMA Stutters ==
    ASSUME Inv, UNCHANGED vars
    PROVE  Inv'
<1>1. UNCHANGED <<emitted, queue, timer, flush, state, runs, deltas, timeline, reported, dead,
                  pending, terminal, released>>
  BY DEF vars, queues, tools, failures, past, notes
<1>2. Types' /\ ToolTypes' /\ NoteTypes'
  BY <1>1 DEF Inv, Types, ToolTypes, NoteTypes
<1>3. ASSUME NEW t \in Turns
      PROVE  /\ Shape(t)' /\ Timely(t)' /\ Rooted(t)' /\ Collected(t)'
             /\ Whole(emitted[t], timeline[t], Reported(t) # {})'
             /\ Done(t)' = Done(t) /\ Effects(t)' = Effects(t) /\ Reported(t)' = Reported(t)
  <2>1. /\ Shape(t) /\ Timely(t) /\ Rooted(t) /\ Collected(t)
        /\ Whole(emitted[t], timeline[t], Reported(t) # {})
    BY DEF Inv
  <2>2. /\ Before(t)' = Before(t) /\ Waiting(t)' = Waiting(t) /\ Effects(t)' = Effects(t)
        /\ Reported(t)' = Reported(t) /\ (Flushing(t)' <=> Flushing(t))
    BY <1>1 DEF Before, Waiting, Effects, Reported, Event, Flushing
  <2>3. Done(t)' = Done(t)
    BY <1>1, <2>2 DEF Done
  <2>4. Shape(t)'
    BY <1>1, <2>1, <2>2 DEF Shape, EndsOnce, Numbered, Driven
  <2>5. Timely(t)' /\ Rooted(t)' /\ Collected(t)'
    BY <1>1, <2>1, <2>2, <2>3 DEF Timely, Rooted, Collected
  <2>6. Whole(emitted[t], timeline[t], Reported(t) # {})'
    BY <1>1, <2>1, <2>2
  <2> QED
    BY <2>2, <2>3, <2>4, <2>5, <2>6
<1>4. RunsInOrder'
  <2>1. RunsInOrder /\ DOMAIN runs \subseteq Turns \X Nat
    BY DEF Inv, ToolTypes
  <2> QED
    BY <1>1, <1>3, <2>1 DEF RunsInOrder
<1>5. Noted'
  <2>1. NoteTypes /\ Noted
    BY DEF Inv
  <2>2. NotificationIsDue'
    BY <1>1, <1>3, <2>1, NoteMembers, DueStays DEF Noted
  <2>3. \A u \in Turns : Over(u) => Over(u)'
    BY <1>1, <1>3 DEF Over
  <2> QED
    BY <1>1, <1>3, <2>1, <2>2, <2>3, NoteMembers DEF Noted
<1> QED
  BY <1>2, <1>3, <1>4, <1>5 DEF Inv

LEMMA Invariant == Spec => []Inv
<1>1. Init => Inv
  BY Begins
<1>2. Inv /\ [Next]_vars => Inv'
  <2> SUFFICES ASSUME Inv, [Next]_vars PROVE Inv'
    OBVIOUS
  <2>1. CASE Restart
    BY <2>1, RestartKeeps
  <2>2. CASE UNCHANGED vars
    BY <2>2, Stutters
  <2>3. ASSUME NEW t \in Turns,
               (\E k \in Kinds : Emit(t, k)) \/ TimerFires(t) \/ Write(t) \/ AfterWrite(t) \/ EndOfBatch(t)
        PROVE  Inv'
    <3>1. Plain(t) \/ Announce(t)
      BY <2>3 DEF Plain, EndOfBatch
    <3> QED
      BY <3>1, TurnSteps
  <2> QED
    BY <2>1, <2>2, <2>3 DEF Next
<1> QED
  BY <1>1, <1>2, PTL DEF Spec

-----------------------------------------------------------------------------
(* What the properties say of a turn *)

LEMMA OrderOfRows ==
    ASSUME NEW s \in Seq(Row), Ranked(s)
    PROVE  Rising([i \in DOMAIN s |-> 2 * s[i].n + (IF s[i].kind \in Completions THEN 1 ELSE 0)])
BY DEF Ranked, Rank, Rising

LEMMA OrderOfRun ==
    ASSUME NEW s, NEW f \in Nat, NEW ks \in Seq(Nat), NEW d \in Nat, InRun(s, f, ks, d)
    PROVE  Rising(<<f>> \o ks)
<1>1. <<f>> \in Seq(Nat)
  OBVIOUS
<1> DEFINE all == <<f>> \o ks
<1>2. /\ all \in Seq(Nat) /\ Len(all) = 1 + Len(ks) /\ Len(ks) \in Nat
      /\ \A i \in 1 .. Len(all) : all[i] = IF i = 1 THEN f ELSE ks[i - 1]
  BY <1>1
<1>3. \A i, j \in DOMAIN all : i < j => all[i] < all[j]
  <2> SUFFICES ASSUME NEW i \in DOMAIN all, NEW j \in DOMAIN all, i < j
               PROVE  all[i] < all[j]
    OBVIOUS
  <2>1. i \in 1 .. Len(all) /\ j \in 1 .. Len(all) /\ j - 1 \in DOMAIN ks /\ all[j] = ks[j - 1]
    BY <1>2
  <2>2. CASE i = 1
    BY <1>2, <2>1, <2>2 DEF InRun
  <2>3. CASE i # 1
    <3>1. i - 1 \in DOMAIN ks /\ all[i] = ks[i - 1] /\ i - 1 < j - 1
      BY <1>2, <2>1, <2>3
    <3> QED
      BY <2>1, <3>1 DEF InRun
  <2> QED
    BY <2>2, <2>3
<1> QED
  BY <1>3 DEF Rising

LEMMA RunMembers ==
    ASSUME Inv, NEW t \in Turns, NEW r \in RunsOf(t)
    PROVE  /\ r \in DOMAIN runs /\ r[1] = t /\ r[2] \in Nat /\ runs[r].kept \in Seq(Nat)
           /\ Done(t) \in Nat /\ InRun(timeline[t], r[2], runs[r].kept, Done(t))
<1>1. r \in DOMAIN runs /\ r[1] = t
  BY DEF RunsOf
<1>2. r[2] \in Nat /\ runs[r].kept \in Seq(Nat)
  BY <1>1 DEF Inv, ToolTypes
<1>3. Done(t) \in Nat
  BY WellPlaced DEF Inv
<1>4. InRun(timeline[t], r[2], runs[r].kept, Done(t))
  BY <1>1 DEF Inv, RunsInOrder
<1> QED
  BY <1>1, <1>2, <1>3, <1>4

LEMMA InOrderHolds ==
    ASSUME Inv
    PROVE  InOrder
<1> SUFFICES ASSUME NEW t \in Turns
             PROVE  /\ Rising([i \in DOMAIN timeline[t] |->
                           2 * timeline[t][i].n + (IF timeline[t][i].kind \in Completions THEN 1 ELSE 0)])
                    /\ \A r \in RunsOf(t) : Rising(<<r[2]>> \o runs[r].kept)
                    /\ Rows(t, Tools) \cap Kept(t) = {}
  BY DEF InOrder
<1>1. timeline[t] \in Seq(Row) /\ Ranked(timeline[t])
  BY DEF Inv, Types, Timely
<1>2. Rising([i \in DOMAIN timeline[t] |->
                 2 * timeline[t][i].n + (IF timeline[t][i].kind \in Completions THEN 1 ELSE 0)])
  BY <1>1, OrderOfRows
<1>3. \A r \in RunsOf(t) : Rising(<<r[2]>> \o runs[r].kept)
  BY RunMembers, OrderOfRun
<1>4. ASSUME NEW m \in Rows(t, Tools), m \in Kept(t) PROVE FALSE
  <2>1. PICK j \in DOMAIN timeline[t] : timeline[t][j].n = m
    BY DEF Rows
  <2>2. PICK r \in RunsOf(t) : m \in ToSet(runs[r].kept)
    BY <1>4 DEF Kept
  <2>3. PICK i \in DOMAIN runs[r].kept : runs[r].kept[i] = m
    BY <2>2 DEF ToSet
  <2>4. m \in Nat /\ r[2] \in Nat /\ InRun(timeline[t], r[2], runs[r].kept, Done(t))
    BY <2>2, <2>3, RunMembers
  <2>5. r[2] < m /\ (m <= r[2] \/ m < m)
    BY <2>1, <2>3, <2>4 DEF InRun
  <2> QED
    BY <2>4, <2>5
<1> QED
  BY <1>2, <1>3, <1>4

LEMMA RunsAreConsecutiveHolds ==
    ASSUME Inv
    PROVE  RunsAreConsecutive
<1> SUFFICES ASSUME NEW t \in Turns, NEW r \in RunsOf(t)
             PROVE  /\ r[2] \in Rows(t, Tools)
                    /\ \A n \in ToSet(runs[r].kept) : ~ \E m \in Rows(t, Kinds) : r[2] < m /\ m < n
  BY DEF RunsAreConsecutive
<1>1. /\ r[2] \in Nat /\ runs[r].kept \in Seq(Nat) /\ timeline[t] \in Seq(Row)
      /\ InRun(timeline[t], r[2], runs[r].kept, Done(t))
  BY RunMembers DEF Inv, Types
<1>2. r[2] \in Rows(t, Tools)
  BY <1>1 DEF InRun, Rows
<1>3. ASSUME NEW n \in ToSet(runs[r].kept), NEW m \in Rows(t, Kinds), r[2] < m, m < n
      PROVE  FALSE
  <2>1. PICK j \in DOMAIN timeline[t] : timeline[t][j].n = m
    BY DEF Rows
  <2>2. PICK i \in DOMAIN runs[r].kept : runs[r].kept[i] = n
    BY DEF ToSet
  <2>3. m \in Nat /\ n \in Nat
    BY <1>1, <2>1, <2>2, RowTypes
  <2>4. m <= r[2] \/ n < m
    BY <1>1, <2>1, <2>2 DEF InRun
  <2> QED
    BY <1>1, <1>3, <2>3, <2>4
<1> QED
  BY <1>2, <1>3

LEMMA TextIsWholeHolds ==
    ASSUME Inv
    PROVE  TextIsWhole
<1> SUFFICES ASSUME NEW t \in Turns, NEW i \in DOMAIN timeline[t],
                    timeline[t][i].kind = "text", emitted[t][timeline[t][i].n] = "ok"
             PROVE  LET row == timeline[t][i]
                        texts == {m \in Rows(t, {"text"}) : m < row.n}
                        due == {n \in DOMAIN emitted[t] :
                                   n < row.n /\ emitted[t][n] = "delta" /\ \A m \in texts : m < n}
                    IN  row.parts = due \/ (row.parts \subseteq due /\ Reported(t) # {})
  BY DEF TextIsWhole
<1> DEFINE row == timeline[t][i]
           texts == {m \in Rows(t, {"text"}) : m < row.n}
           due == {n \in DOMAIN emitted[t] :
                      n < row.n /\ emitted[t][n] = "delta" /\ \A m \in texts : m < n}
<1>1. \/ row.parts = Since(emitted[t], timeline[t], row.n)
      \/ row.parts \subseteq Since(emitted[t], timeline[t], row.n) /\ Reported(t) # {}
  BY DEF Inv, Whole
<1>2. due = Since(emitted[t], timeline[t], row.n)
  <2>1. ASSUME NEW n
        PROVE  (\A m \in texts : m < n)
                  <=> \A j \in DOMAIN timeline[t] :
                         timeline[t][j].kind = "text" /\ timeline[t][j].n < row.n => timeline[t][j].n < n
    BY DEF Rows
  <2> QED
    BY <2>1 DEF Since
<1> QED
  BY <1>1, <1>2

-----------------------------------------------------------------------------

\* Whatever batches, timers, failed batches and restarts do, the rows and the kept
\* continuations of a turn are written once and in the order the provider emitted
\* them (flushRouteCP135SemanticBridgeQueue).
THEOREM TurnsAreInOrder == Spec => []InOrder
<1>1. Inv => InOrder
  BY InOrderHolds
<1> QED
  BY <1>1, Invariant, PTL

\* No row of a turn comes between a tool event and the continuations that are kept
\* for it (routeCP82ResetToolRunState, appendToolEvent).
THEOREM ToolRunsAreConsecutive == Spec => []RunsAreConsecutive
<1>1. Inv => RunsAreConsecutive
  BY RunsAreConsecutiveHolds
<1> QED
  BY <1>1, Invariant, PTL

\* The text written at the completion of a turn has every delta since the last text,
\* unless a failure was broadcast (flushClaudeStreamedAssistantDeltaOnCompletion).
THEOREM StreamedTextIsWhole == Spec => []TextIsWhole
<1>1. Inv => TextIsWhole
  BY TextIsWholeHolds
<1> QED
  BY <1>1, Invariant, PTL

\* At most one notification is released for a turn, when its success is in the room,
\* about its last output but for what was reported, whatever the bounded maps of the
\* dispatcher evict (releaseProviderTurnCompletion).
THEOREM NotificationsAreDue == Spec => []NotificationIsDue
<1>1. Inv => NotificationIsDue
  BY DEF Inv, Noted
<1> QED
  BY <1>1, Invariant, PTL
=============================================================================
