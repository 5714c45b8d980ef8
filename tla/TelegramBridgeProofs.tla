------------------------ MODULE TelegramBridgeProofs ------------------------
(***************************************************************************)
(* The safety properties of TelegramBridge, for any number of updates,     *)
(* texts, faults and restarts.                                             *)
(***************************************************************************)
EXTENDS TelegramBridge, WellFoundedInduction, SequenceTheorems, TLAPS

Event == [turn : Nat, kind : {"user", "text", "done"}]
Fates == {"none", "given", "ignored", "skipped"}

Turns == [src : Nat, done : BOOLEAN]
Flushes == [step : {"none", "html", "plain", "close"}, at : Nat, part : Nat, upto : Nat, own : Nat]
Parts == [at : Nat, part : Nat, form : {"html", "plain", "lost"}]

Shape ==
    /\ inbox \in 0..MaxUpdates /\ offset \in 1..(inbox + 1) /\ polled \in 0..inbox
    /\ log \in Seq(Event) /\ asked \in Seq(Nat) /\ sent \in Seq(Parts)
    /\ poll \in {"idle", "handling", "committed", "typing", "flushing"}
    /\ acting \in Nat
    /\ fate \in [Update -> Fates] /\ turn \in Turns /\ flush \in [Loop -> Flushes]

\* An update is passed when its fate is known; one that waits for the typing
\* indicator has been given to the session.
Polling ==
    /\ poll \in {"committed", "typing"} => offset <= polled
    /\ poll = "typing" => fate[offset] = "given"
    /\ OffsetIsHonest

\* What the chat may show next, after what it shows.
Fits(y) == IF sent = <<>> THEN y.part = 1 ELSE Follows(sent[Len(sent)], y)

\* The part a flush sends, as it will be shown.
Piece(w, form) == [at |-> flush[w].at, part |-> flush[w].part, form |-> form]

\* One loop flushes at a time.  What is sent lies behind the reader, and the
\* message a flush waits for is where the reader is; its part may be shown next.
Ordered ==
    /\ seq \in 0..Len(log)
    /\ flush["poll"] = NoFlush \/ flush["tick"] = NoFlush
    /\ \A w \in Loop : flush[w] # NoFlush =>
          /\ flush[w].step \in {"html", "plain", "close"}
          /\ flush[w].step \in {"html", "plain"} =>
                /\ flush[w].at = seq /\ flush[w].upto \in seq..Len(log)
                /\ Fits(Piece(w, flush[w].step))
    /\ sent # <<>> => sent[Len(sent)].at <= seq
    /\ SentInOrder

\* A flush of the poll holds the poll, so the poll cannot be starting the
\* typing indicator meanwhile.
Driven ==
    /\ flush["poll"] # NoFlush => poll = "flushing"
    /\ TypingIsDriven

Inv == Shape /\ Polling /\ Ordered /\ Driven

-----------------------------------------------------------------------------
LEMMA MinIsMember ==
    ASSUME NEW S \in SUBSET Nat, S # {}
    PROVE  Min(S) \in S
<1> DEFINE R == OpToRel(<, Nat)
<1>1. PICK x \in S : \A y \in S : <<y, x>> \notin R
  <2> HIDE DEF R
  <2>1. IsWellFoundedOn(R, Nat)
    BY NatLessThanWellFounded DEF R
  <2> QED
    BY <2>1, WFMin
<1>2. \A y \in S : x <= y
  <2> SUFFICES ASSUME NEW y \in S PROVE x <= y
    OBVIOUS
  <2>1. <<y, x>> \in R <=> y < x
    BY DEF OpToRel
  <2>2. ~(y < x)
    <3> HIDE DEF R
    <3> QED BY <1>1, <2>1
  <2> QED
    BY <2>2, x \in Nat, y \in Nat
<1> QED
  BY <1>2 DEF Min

\* Where a scan stops: at a message, at the closing of a turn, or at its end.
LEMMA ScanDoes ==
    ASSUME NEW who \in Loop, NEW from \in Nat, NEW to \in Nat, NEW armed,
           Scan(who, from, to, armed)
    PROVE  \/ \E at \in (from + 1)..to :
                /\ FlushWaits(who, "html", at, to) /\ seq' = Later(seq, at)
                /\ timer' = armed /\ typing' = typing
           \/ FlushWaits(who, "close", to, to) /\ seq' = Later(seq, to) /\ StopTyping
           \/ \E open : FlushEnds(who, open, armed) /\ seq' = Later(seq, to)
<1> DEFINE texts == {i \in Mine(from, to) : log[i].kind = "text"}
           last  == IF texts = {} THEN to ELSE Min(texts)
           ended == turn.done \/ \E i \in Mine(from, to) : i <= last /\ log[i].kind = "done"
<1>1. texts \subseteq (from + 1)..to
  BY DEF Mine
<1>2. \/ /\ texts # {} /\ seq' = Later(seq, last) /\ FlushWaits(who, "html", last, to)
         /\ timer' = armed /\ UNCHANGED typing
      \/ seq' = Later(seq, to) /\ FlushWaits(who, "close", to, to) /\ StopTyping
      \/ seq' = Later(seq, to) /\ FlushEnds(who, turn # NoTurn, armed)
  BY DEF Scan, ReadTo
<1>3. texts # {} => last \in (from + 1)..to
  BY <1>1, MinIsMember
<1> HIDE DEF texts, last, ended
<1> QED
  BY <1>2, <1>3

\* The flush of one loop moves, the other's stays where it is.
Moves(who) ==
    /\ flush' \in [Loop -> Flushes]
    /\ \A w \in Loop \ {who} : flush'[w] = flush[w]

Awaits(who, step, at, to) ==
    /\ Moves(who) /\ flush'[who] # NoFlush
    /\ flush'[who].step = step /\ flush'[who].at = at /\ flush'[who].upto = to
    /\ flush'[who].part = 1
    /\ who = "poll" => poll' = "flushing"
    /\ who = "tick" => poll' = poll
    /\ acting' = acting

Rests(who, armed) ==
    /\ Moves(who) /\ flush'[who] = NoFlush
    /\ \/ who = "poll" /\ poll' = "idle" /\ timer' = armed /\ UNCHANGED <<typing, acting>>
       \/ who = "tick" /\ acting' = acting + 1 /\ timer' = armed /\ UNCHANGED <<poll, typing>>
       \/ who = "tick" /\ StopTyping /\ UNCHANGED <<poll, acting>>

LEMMA FlushWaitsMoves ==
    ASSUME Shape, NEW who \in Loop, NEW step \in {"html", "close"}, NEW at \in Nat, NEW to \in Nat,
           FlushWaits(who, step, at, to)
    PROVE  Awaits(who, step, at, to)
BY DEF Shape, FlushWaits, Awaits, Moves, NoFlush, Loop, Flushes, Turns

LEMMA FlushEndsMoves ==
    ASSUME Shape, NEW who \in Loop, NEW open, NEW armed, FlushEnds(who, open, armed)
    PROVE  Rests(who, armed)
BY DEF Shape, FlushEnds, Rests, Moves, Loop, NoFlush, Flushes

\* The same for a scan.
LEMMA ScanMoves ==
    ASSUME Shape, NEW who \in Loop, NEW from \in Nat, NEW to \in Nat, NEW armed,
           Scan(who, from, to, armed)
    PROVE  \/ \E at \in (from + 1)..to :
                /\ Awaits(who, "html", at, to) /\ seq' = Later(seq, at)
                /\ timer' = armed /\ typing' = typing
           \/ Awaits(who, "close", to, to) /\ seq' = Later(seq, to) /\ StopTyping
           \/ Rests(who, armed) /\ seq' = Later(seq, to)
<1>1. (from + 1)..to \subseteq Nat
  OBVIOUS
<1> QED
  BY <1>1, ScanDoes, FlushWaitsMoves, FlushEndsMoves

LEMMA ScanKeepsTurn ==
    ASSUME Shape, NEW who, NEW from, NEW to, NEW armed, Scan(who, from, to, armed)
    PROVE  turn' \in Turns
<1>1. PICK ended \in BOOLEAN : turn' = [turn EXCEPT !.done = ended]
  BY DEF Scan
<1> QED
  BY <1>1 DEF Shape, Turns

\* What a flush can change of the types.
Scanned ==
    \E who \in Loop :
        \/ \E step, at, to : Awaits(who, step, at, to)
        \/ \E armed : Rests(who, armed)

LEMMA ScannedShape ==
    ASSUME Shape, Scanned
    PROVE  /\ poll' \in {"idle", "handling", "committed", "typing", "flushing"}
           /\ acting' \in Nat /\ flush' \in [Loop -> Flushes]
<1>1. PICK who \in Loop : (\E step, at, to : Awaits(who, step, at, to)) \/ \E armed : Rests(who, armed)
  BY DEF Scanned
<1>2. CASE \E step, at, to : Awaits(who, step, at, to)
  BY <1>2 DEF Shape, Awaits, Moves, Loop
<1>3. CASE \E armed : Rests(who, armed)
  BY <1>3 DEF Shape, Rests, Moves
<1> QED
  BY <1>1, <1>2, <1>3

LEMMA ScanIsScanned ==
    ASSUME Shape, NEW who \in Loop, NEW from \in Nat, NEW to \in Nat, NEW armed,
           Scan(who, from, to, armed)
    PROVE  Scanned
BY ScanMoves DEF Scanned

\* The flush goes on with the same message.
GoesOn(who) ==
    /\ Moves(who) /\ flush'[who] # NoFlush /\ UNCHANGED <<seq, poll, turn, typing, timer, acting>>
    /\ flush'[who].at = flush[who].at /\ flush'[who].upto = flush[who].upto
    /\ \/ flush'[who].step = "html" /\ flush'[who].part = flush[who].part + 1
       \/ flush'[who].step = "plain" /\ flush'[who].part = flush[who].part

\* What the record of the next part is.
LEMMA NextPartIs ==
    ASSUME NEW f \in Flushes
    PROVE  /\ NextPart(f) \in Flushes /\ NextPart(f).at = f.at /\ NextPart(f).upto = f.upto
           /\ NextPart(f).step = "html" /\ NextPart(f).part = f.part + 1
<1>1. f.part + 1 \in Nat
  BY DEF Flushes
<1> QED
  BY <1>1 DEF NextPart, Flushes

\* The next part of a message.
LEMMA NextPartGoesOn ==
    ASSUME Shape, NEW who \in Loop, flush[who] # NoFlush,
           flush' = [flush EXCEPT ![who] = NextPart(@)],
           UNCHANGED <<seq, poll, turn, typing, timer, acting>>
    PROVE  GoesOn(who) /\ flush'[who].part = flush[who].part + 1
<1> DEFINE next == NextPart(flush[who])
<1>1. flush[who] \in Flushes /\ flush \in [Loop -> Flushes]
  BY DEF Shape
<1>2. /\ next \in Flushes /\ next.at = flush[who].at /\ next.upto = flush[who].upto
      /\ next.step = "html" /\ next.part = flush[who].part + 1
  BY <1>1, NextPartIs
<1>3. flush'[who] = next /\ \A w \in Loop \ {who} : flush'[w] = flush[w]
  BY <1>1
<1>4. flush' \in [Loop -> Flushes]
  BY <1>1, <1>2
<1> HIDE DEF next
<1>5. NoFlush.step = "none"
  BY DEF NoFlush
<1> QED
  BY <1>2, <1>3, <1>4, <1>5 DEF GoesOn, Moves

LEMMA SentMoves ==
    ASSUME Shape, NEW who \in Loop, Sent(who)
    PROVE  /\ flush[who] # NoFlush /\ flush[who].at \in Nat /\ flush[who].upto \in Nat
           /\ GoesOn(who) \/ Scan(who, flush[who].at, flush[who].upto, timer)
<1>1. flush[who] \in Flushes /\ flush[who] # NoFlush
  BY DEF Sent, Shape, NoFlush
<1> QED
  BY <1>1, NextPartGoesOn DEF Sent, Flushes

LEMMA HtmlFailsMoves ==
    ASSUME Shape, NEW who \in Loop, HtmlFails(who)
    PROVE  /\ flush[who] # NoFlush /\ GoesOn(who)
           /\ flush'[who].step = "plain" /\ flush'[who].part = flush[who].part
<1>1. flush[who] \in Flushes /\ flush[who] # NoFlush
  BY DEF HtmlFails, Shape, NoFlush
<1>2. /\ flush' \in [Loop -> Flushes] /\ flush'[who] # NoFlush
      /\ flush'[who].at = flush[who].at /\ flush'[who].upto = flush[who].upto
      /\ flush'[who].step = "plain" /\ flush'[who].part = flush[who].part
      /\ \A w \in Loop \ {who} : flush'[w] = flush[w]
  BY <1>1 DEF HtmlFails, PlainAgain, Shape, Flushes, NoFlush
<1> QED
  BY <1>1, <1>2 DEF HtmlFails, GoesOn, Moves

LEMMA ShownIsPart ==
    ASSUME Shape, NEW who \in Loop, NEW form \in {"html", "plain", "lost"}, Shown(who, form)
    PROVE  /\ sent' \in Seq(Parts) /\ Len(sent') = Len(sent) + 1 /\ sent' # <<>>
           /\ \A i \in 1..Len(sent) : sent'[i] = sent[i]
           /\ sent'[Len(sent) + 1] = Piece(who, form) /\ Len(sent) \in Nat
<1>1. Piece(who, form) \in Parts
  BY DEF Piece, Parts, Shape, Flushes
<1>2. sent' = Append(sent, Piece(who, form))
  BY DEF Shown, Piece
<1>3. /\ sent' \in Seq(Parts) /\ Len(sent') = Len(sent) + 1
      /\ \A i \in 1..Len(sent) : sent'[i] = sent[i]
      /\ sent'[Len(sent) + 1] = Piece(who, form) /\ Len(sent) \in Nat
  BY <1>1, <1>2, AppendProperties DEF Shape
<1>4. sent' # <<>>
  BY <1>3
<1> QED
  BY <1>3, <1>4

\* What a step adds to the chat keeps its type.
LEMMA SentTyped ==
    ASSUME Shape, NEW who \in Loop,
           sent' = sent \/ \E form \in {"html", "plain", "lost"} : Shown(who, form)
    PROVE  sent' \in Seq(Parts)
BY ShownIsPart DEF Shape

LEMMA InvInit == Init => Inv
<1> SUFFICES ASSUME Init PROVE Inv
  OBVIOUS
<1> USE BoundsAssumption DEF Init
<1>1. Shape
  BY DEF Shape, Fates, Loop, NoFlush, NoTurn, Flushes, Turns, Update
<1>2. Polling
  BY DEF Polling, OffsetIsHonest
<1>3. Ordered
  BY DEF Ordered, SentInOrder, Loop
<1>4. Driven
  BY DEF Driven, TypingIsDriven, Loop
<1> QED
  BY <1>1, <1>2, <1>3, <1>4 DEF Inv

LEMMA RestartedShape ==
    ASSUME Shape, Restarted, UNCHANGED inbox
    PROVE  /\ offset' \in 1..(inbox' + 1) /\ polled' \in 0..inbox'
           /\ asked' \in Seq(Nat)
           /\ poll' \in {"idle", "handling", "committed", "typing", "flushing"}
           /\ acting' \in Nat
           /\ fate' \in [Update -> Fates] /\ turn' \in Turns /\ flush' \in [Loop -> Flushes]
<1>1. fate' \in [Update -> Fates]
  BY DEF Shape, Restarted, Fates
<1> QED
  BY <1>1, BoundsAssumption DEF Shape, Restarted, StopTyping, NoTurn, NoFlush, Turns, Flushes

LEMMA ShapeStep ==
    ASSUME Inv, [Next]_vars
    PROVE  Shape'
<1> USE BoundsAssumption DEF Inv
<1>1. CASE UserSends
  BY <1>1 DEF UserSends, Shape, listener, history
<1>2. CASE ProviderWrites
  <2>1. PICK i \in DOMAIN asked, kind \in {"text", "done"} :
            log' = Append(log, [turn |-> asked[i], kind |-> kind])
    BY <1>2 DEF ProviderWrites
  <2>2. asked[i] \in Nat
    BY DEF Shape
  <2>3. [turn |-> asked[i], kind |-> kind] \in Event
    BY <2>2 DEF Event
  <2>4. log' \in Seq(Event)
    BY <2>1, <2>3, AppendProperties DEF Shape
  <2> QED
    BY <1>2, <2>4 DEF ProviderWrites, Shape, listener, history
<1>3. CASE Restart
  BY <1>3, RestartedShape DEF Restart, Shape
<1>4. CASE Poll
  BY <1>4 DEF Poll, Shape, history
<1>5. CASE IgnoreUpdate
  BY <1>5 DEF IgnoreUpdate, Handled, Shape, Fates, Update
<1>6. CASE Commit
  <2>1. [turn |-> offset, kind |-> "user"] \in Event
    BY DEF Event, Shape
  <2>2. log' \in Seq(Event)
    BY <1>6, <2>1, AppendProperties DEF Commit, Shape
  <2> QED
    BY <1>6, <2>2 DEF Commit, Shape, history
<1>7. CASE HandlerFails
  BY <1>7 DEF HandlerFails, KeepFailed, Fault, Shape, history
<1>8. CASE Deliver
  BY <1>8 DEF Deliver, Handled, Shape, Polling, Fates, Update, Turns
<1>9. CASE TypingBegins
  BY <1>9 DEF TypingBegins, Handled, TypingSent, ScheduleTyping, StopTyping,
              Shape, Polling, history
<1>10. CASE PollFlushes
  <2>1. CASE UNCHANGED <<turn, seq, flush, typing, timer, acting>> /\ poll' = "idle"
    BY <1>10, <2>1 DEF PollFlushes, Shape, history
  <2>2. CASE Scan("poll", seq, Len(log), timer)
    <3>1. Scanned
      BY <2>2, ScanIsScanned DEF Shape, Ordered, Loop
    <3> QED
      BY <1>10, <2>2, <3>1, ScannedShape, ScanKeepsTurn DEF PollFlushes, Shape, history
  <2> QED
    BY <1>10, <2>1, <2>2 DEF PollFlushes
<1>11. ASSUME NEW who \in Loop, Sent(who) PROVE Shape'
  <2>1. sent' \in Seq(Parts)
    BY <1>11, SentTyped DEF Sent
  <2>2. CASE GoesOn(who)
    BY <1>11, <2>1, <2>2 DEF Sent, GoesOn, Moves, Shape
  <2>3. CASE Scan(who, flush[who].at, flush[who].upto, timer)
    <3>1. Scanned /\ turn' \in Turns
      BY <1>11, <2>3, SentMoves, ScanIsScanned, ScanKeepsTurn
    <3> QED
      BY <1>11, <2>1, <3>1, ScannedShape DEF Sent, Shape
  <2> QED
    BY <1>11, <2>2, <2>3, SentMoves
<1>17. ASSUME NEW who \in Loop, HtmlFails(who) PROVE Shape'
  <2>1. sent' \in Seq(Parts)
    BY <1>17, SentTyped DEF HtmlFails
  <2> QED
    BY <1>17, <2>1, HtmlFailsMoves DEF HtmlFails, GoesOn, Moves, Shape
<1>12. ASSUME NEW who \in Loop, Closed(who) PROVE Shape'
  <2>1. Scanned
    BY <1>12, FlushEndsMoves DEF Closed, Shape, Scanned
  <2> QED
    BY <1>12, <2>1, ScannedShape DEF Closed, Shape, NoTurn, Turns
<1>13. ASSUME NEW who \in Loop, FlushFails(who) PROVE Shape'
  <2>3. sent' \in Seq(Parts)
    BY <1>13, SentTyped DEF FlushFails
  <2>1. CASE Restarted
    BY <1>13, <2>1, <2>3, RestartedShape DEF FlushFails, Shape
  <2>2. CASE ~Restarted
    <3>1. NoFlush \in Flushes
      BY DEF NoFlush, Flushes
    <3>2. flush' \in [Loop -> Flushes] /\ poll' = "idle"
      BY <1>13, <2>2, <3>1 DEF FlushFails, Shape
    <3> QED
      BY <1>13, <2>2, <2>3, <3>2 DEF FlushFails, Shape
  <2> QED
    BY <2>1, <2>2
<1>14. CASE TickFires
  <2>1. \/ /\ turn' \in {turn, NoTurn} /\ acting' \in {acting, acting + 1}
           /\ UNCHANGED <<flush, poll>>
        \/ Scan("tick", seq, Len(log), FALSE)
    BY <1>14 DEF TickFires
  <2>2. CASE Scan("tick", seq, Len(log), FALSE)
    <3>1. \A armed : Scan("tick", seq, Len(log), armed) => Scanned /\ turn' \in Turns
      BY ScanIsScanned, ScanKeepsTurn DEF Shape, Ordered, Loop
    <3>2. Scanned /\ turn' \in Turns
      BY <2>2, <3>1, Zenon
    <3> QED
      BY <1>14, <3>2, ScannedShape DEF TickFires, Shape
  <2>3. CASE /\ turn' \in {turn, NoTurn} /\ acting' \in {acting, acting + 1}
             /\ UNCHANGED <<flush, poll>>
    <3>1. NoTurn \in Turns
      BY DEF NoTurn, Turns
    <3>2. turn' \in Turns /\ acting' \in Nat
      BY <2>3, <3>1 DEF Shape
    <3> QED
      BY <1>14, <2>3, <3>2 DEF TickFires, Shape
  <2> QED
    BY <2>1, <2>2, <2>3
<1>15. CASE TickActs
  BY <1>15 DEF TickActs, TypingSent, ScheduleTyping, StopTyping, Shape, history
<1>16. CASE UNCHANGED vars
  BY <1>16 DEF vars, listener, history, Shape
<1> QED
  BY <1>1, <1>2, <1>3, <1>4, <1>5, <1>6, <1>7, <1>8, <1>9, <1>10, <1>11, <1>12,
     <1>13, <1>14, <1>15, <1>16, <1>17 DEF Next, PollStep, FlushStep

-----------------------------------------------------------------------------
\* A step that leaves the offset and the fates alone and lets the poll only
\* flush or rest keeps Polling.
LEMMA PollingRests ==
    ASSUME Polling, UNCHANGED <<offset, polled, fate>>,
           poll' \in {poll, "idle", "handling", "flushing"}
    PROVE  Polling'
BY DEF Polling, OffsetIsHonest

LEMMA ScannedPolls ==
    ASSUME Shape, Scanned
    PROVE  poll' \in {poll, "idle", "flushing"}
BY DEF Scanned, Awaits, Rests, Loop

LEMMA RestartedPolling ==
    ASSUME Shape, Polling, Restarted
    PROVE  Polling'
<1>1. poll' = "idle" /\ offset' = inbox + 1
  BY DEF Restarted
<1>2. ASSUME NEW u \in 1..(offset' - 1) PROVE fate'[u] # "none"
  <2>1. u \in Update /\ u \in 1..inbox
    BY <1>1, <1>2, BoundsAssumption DEF Shape, Update
  <2>2. fate'[u] = IF u \in offset..inbox /\ fate[u] = "none" THEN "skipped" ELSE fate[u]
    BY <2>1 DEF Restarted
  <2>3. CASE u \in offset..inbox
    BY <2>2, <2>3
  <2>4. CASE u \notin offset..inbox
    BY <2>1, <2>2, <2>4 DEF Polling, OffsetIsHonest, Shape
  <2> QED
    BY <2>3, <2>4
<1> QED
  BY <1>1, <1>2 DEF Polling, OffsetIsHonest

LEMMA PollingStep ==
    ASSUME Inv, [Next]_vars
    PROVE  Polling'
<1> USE DEF Inv
<1>1. CASE UserSends \/ ProviderWrites \/ TickActs \/ UNCHANGED vars
  BY <1>1, PollingRests DEF UserSends, ProviderWrites, TickActs, vars, listener, history
<1>2. CASE Restart
  BY <1>2, RestartedPolling DEF Restart
<1>3. CASE Poll
  BY <1>3 DEF Poll, history, Polling, OffsetIsHonest
<1>4. CASE IgnoreUpdate
  <2>1. offset \in Update /\ fate' = [fate EXCEPT ![offset] = "ignored"]
    BY <1>4, BoundsAssumption DEF IgnoreUpdate, Shape, Update
  <2>2. Handled
    BY <1>4 DEF IgnoreUpdate
  <2> QED
    BY <2>1, <2>2 DEF Handled, Polling, OffsetIsHonest, Shape
<1>5. CASE Commit
  BY <1>5 DEF Commit, history, Polling, OffsetIsHonest
<1>6. CASE HandlerFails
  BY <1>6 DEF HandlerFails, KeepFailed, history, Polling, OffsetIsHonest
<1>7. CASE Deliver
  <2>1. offset \in Update /\ fate' = [fate EXCEPT ![offset] = "given"] /\ offset <= polled
    BY <1>7, BoundsAssumption DEF Deliver, Polling, Shape, Update
  <2>2. \/ Handled
        \/ poll' = "typing" /\ UNCHANGED <<offset, polled>>
    BY <1>7 DEF Deliver
  <2> QED
    BY <2>1, <2>2 DEF Handled, Polling, OffsetIsHonest, Shape
<1>8. CASE TypingBegins
  BY <1>8 DEF TypingBegins, Handled, history, Polling, OffsetIsHonest, Shape
<1>9. CASE PollFlushes
  <2>1. poll' \in {poll, "idle", "flushing"}
    <3>1. CASE Scan("poll", seq, Len(log), timer)
      BY <3>1, ScanIsScanned, ScannedPolls DEF Shape, Ordered, Loop
    <3> QED
      BY <1>9, <3>1 DEF PollFlushes
  <2> QED
    BY <1>9, <2>1, PollingRests DEF PollFlushes, history
<1>10. ASSUME NEW who \in Loop, Sent(who) PROVE Polling'
  <2>2. poll' \in {poll, "idle", "flushing"}
    BY <1>10, SentMoves, ScanIsScanned, ScannedPolls DEF GoesOn
  <2> QED
    BY <1>10, <2>2, PollingRests DEF Sent
<1>14. ASSUME NEW who \in Loop, HtmlFails(who) PROVE Polling'
  BY <1>14, PollingRests DEF HtmlFails
<1>11. ASSUME NEW who \in Loop, Closed(who) PROVE Polling'
  <2>1. poll' \in {poll, "idle"}
    BY <1>11 DEF Closed, FlushEnds
  <2> QED
    BY <1>11, <2>1, PollingRests DEF Closed
<1>12. ASSUME NEW who \in Loop, FlushFails(who) PROVE Polling'
  BY <1>12, RestartedPolling, PollingRests DEF FlushFails
<1>13. CASE TickFires
  <2>1. \A armed : Scan("tick", seq, Len(log), armed) => poll' \in {poll, "idle", "flushing"}
    BY ScanIsScanned, ScannedPolls DEF Shape, Ordered, Loop
  <2>2. Scan("tick", seq, Len(log), FALSE) => poll' \in {poll, "idle", "flushing"}
    BY <2>1, Zenon
  <2>3. poll' \in {poll, "idle", "flushing"}
    BY <1>13, <2>2 DEF TickFires
  <2> QED
    BY <1>13, <2>3, PollingRests DEF TickFires
<1> QED
  BY <1>1, <1>2, <1>3, <1>4, <1>5, <1>6, <1>7, <1>8, <1>9, <1>10, <1>11, <1>12, <1>13, <1>14
     DEF Next, PollStep, FlushStep

-----------------------------------------------------------------------------
\* A step that moves neither the reader nor a flush keeps Ordered.
LEMMA OrderedRests ==
    ASSUME Shape, Ordered, UNCHANGED <<seq, flush, sent>>, Len(log') \in Nat, Len(log) <= Len(log')
    PROVE  Ordered'
BY DEF Shape, Ordered, SentInOrder, Fits, Follows, Piece

\* What is shown next keeps the order, if it fits.
LEMMA ShownInOrder ==
    ASSUME Shape, SentInOrder, NEW who \in Loop, NEW form \in {"html", "plain", "lost"},
           Shown(who, form), Fits(Piece(who, form))
    PROVE  /\ SentInOrder' /\ sent' \in Seq(Parts) /\ sent' # <<>>
           /\ sent'[Len(sent')] = Piece(who, form)
<1>1. /\ sent' \in Seq(Parts) /\ Len(sent') = Len(sent) + 1 /\ sent' # <<>>
      /\ \A i \in 1..Len(sent) : sent'[i] = sent[i]
      /\ sent'[Len(sent) + 1] = Piece(who, form) /\ Len(sent) \in Nat
  BY ShownIsPart
<1>2. sent = <<>> <=> Len(sent) = 0
  BY DEF Shape
<1>3. sent'[1].part = 1
  BY <1>1, <1>2 DEF SentInOrder, Fits
<1>4. ASSUME NEW i \in 1..(Len(sent') - 1) PROVE Follows(sent'[i], sent'[i + 1])
  <2>1. CASE i = Len(sent)
    BY <1>1, <1>2, <2>1 DEF Fits
  <2>2. CASE i \in 1..(Len(sent) - 1)
    <3>1. i + 1 \in 1..Len(sent) /\ i \in 1..Len(sent)
      BY <1>1, <2>2
    <3> QED
      BY <1>1, <2>2, <3>1 DEF SentInOrder
  <2> QED
    BY <1>1, <1>4, <2>1, <2>2
<1> QED
  BY <1>1, <1>3, <1>4 DEF SentInOrder

LEMMA LastIsPart ==
    ASSUME NEW s \in Seq(Parts), s # <<>>
    PROVE  s[Len(s)].at \in Nat
<1>1. Len(s) \in 1..Len(s) /\ DOMAIN s = 1..Len(s)
  OBVIOUS
<1>2. s[Len(s)] \in Parts
  BY <1>1, ElementOfSeq
<1> QED
  BY <1>2 DEF Parts

\* A flush that ends, or all, keep what lies before the reader in order.
LEMMA OrderedEnds ==
    ASSUME Shape, UNCHANGED log, seq \in 0..Len(log), seq' \in seq..Len(log),
           sent' # <<>> => sent'[Len(sent')].at <= seq, sent' \in Seq(Parts), SentInOrder',
           \A w \in Loop : flush'[w] = NoFlush
    PROVE  Ordered'
<1>1. seq \in Nat /\ seq' \in Nat /\ Len(log) \in Nat /\ seq <= seq'
  BY DEF Shape
<1>2. sent' # <<>> => sent'[Len(sent')].at \in Nat
  BY LastIsPart
<1>3. "poll" \in Loop /\ "tick" \in Loop
  BY DEF Loop
<1> QED
  BY <1>1, <1>2, <1>3 DEF Ordered

\* The scan of the only loop that flushes, from the reader's place.
LEMMA OrderedScans ==
    ASSUME Shape, NEW who \in Loop, NEW to \in seq..Len(log), NEW armed,
           seq \in 0..Len(log), Scan(who, seq, to, armed), log' = log,
           \A w \in Loop \ {who} : flush[w] = NoFlush,
           sent' # <<>> => sent'[Len(sent')].at <= seq, sent' \in Seq(Parts), SentInOrder'
    PROVE  Ordered'
<1>1. seq \in Nat /\ to \in Nat /\ Len(log) \in Nat
  BY DEF Shape
<1>2. sent' # <<>> => sent'[Len(sent')].at \in Nat
  BY LastIsPart
<1>3. CASE \E at \in (seq + 1)..to :
              /\ Awaits(who, "html", at, to) /\ seq' = Later(seq, at)
              /\ timer' = armed /\ typing' = typing
  <2>1. PICK at \in (seq + 1)..to : Awaits(who, "html", at, to) /\ seq' = Later(seq, at)
    BY <1>3
  <2>2. seq' = at /\ at \in Nat /\ seq < at /\ at <= to
    BY <1>1, <2>1 DEF Later
  <2>3. /\ flush'[who].step = "html" /\ flush'[who].at = at /\ flush'[who].upto = to
        /\ flush'[who].part = 1 /\ \A w \in Loop \ {who} : flush'[w] = NoFlush
    BY <2>1 DEF Awaits, Moves
  <2>4. Fits(Piece(who, flush[who].step))'
    BY <1>1, <1>2, <2>2, <2>3 DEF Fits, Follows, Piece
  <2>5. sent' # <<>> => sent'[Len(sent')].at <= seq'
    BY <1>1, <1>2, <2>2
  <2>6. flush'["poll"] = NoFlush \/ flush'["tick"] = NoFlush
    BY <2>3 DEF Loop
  <2> QED
    BY <1>1, <2>2, <2>3, <2>4, <2>5, <2>6 DEF Ordered
<1>4. CASE Awaits(who, "close", to, to) /\ seq' = Later(seq, to)
  <2>1. seq' = to /\ flush'[who].step = "close" /\ \A w \in Loop \ {who} : flush'[w] = NoFlush
    BY <1>1, <1>4 DEF Awaits, Moves, Later
  <2>2. sent' # <<>> => sent'[Len(sent')].at <= seq'
    BY <1>1, <1>2, <2>1
  <2> QED
    BY <1>1, <2>1, <2>2 DEF Ordered, Loop
<1>5. CASE Rests(who, armed) /\ seq' = Later(seq, to)
  <2>1. seq' \in seq..Len(log) /\ \A w \in Loop : flush'[w] = NoFlush
    BY <1>1, <1>5 DEF Rests, Moves, Later
  <2> QED
    BY <2>1, OrderedEnds
<1> QED
  BY <1>1, <1>3, <1>4, <1>5, ScanMoves

\* So does a flush that goes on with the same message.
LEMMA OrderedGoesOn ==
    ASSUME Shape, Ordered, NEW who \in Loop, flush[who] # NoFlush, GoesOn(who), log' = log,
           flush[who].at = seq, flush[who].upto \in seq..Len(log),
           sent' # <<>> => sent'[Len(sent')].at <= seq, SentInOrder',
           Fits(Piece(who, flush[who].step))'
    PROVE  Ordered'
<1>1. \A w \in Loop \ {who} : flush[w] = NoFlush
  BY DEF Ordered, Loop
<1>2. /\ seq' = seq /\ flush'[who].at = seq' /\ flush'[who].upto \in seq'..Len(log')
      /\ flush'[who].step \in {"html", "plain"} /\ \A w \in Loop \ {who} : flush'[w] = NoFlush
  BY <1>1 DEF GoesOn, Moves
<1>3. flush'["poll"] = NoFlush \/ flush'["tick"] = NoFlush
  BY <1>2 DEF Loop
<1> QED
  BY <1>2, <1>3 DEF Ordered

LEMMA OrderedStep ==
    ASSUME Inv, [Next]_vars
    PROVE  Ordered'
<1> USE DEF Inv
<1>1. /\ Len(log) \in Nat /\ seq \in 0..Len(log) /\ SentInOrder /\ sent \in Seq(Parts)
      /\ sent # <<>> => sent[Len(sent)].at <= seq
  BY DEF Shape, Ordered
<1>2. CASE UserSends \/ Poll \/ IgnoreUpdate \/ HandlerFails \/ Deliver \/ TypingBegins
           \/ TickActs \/ UNCHANGED vars
  <2>1. UNCHANGED <<seq, flush, sent, log>>
    BY <1>2 DEF UserSends, Poll, IgnoreUpdate, HandlerFails, Deliver, TypingBegins,
                TickActs, vars, listener, history
  <2> QED
    BY <1>1, <2>1, OrderedRests
<1>3. CASE ProviderWrites \/ Commit
  <2>1. UNCHANGED <<seq, flush, sent>>
    BY <1>3 DEF ProviderWrites, Commit, listener, history
  <2>2. log' = log \/ \E e : log' = Append(log, e)
    BY <1>3 DEF ProviderWrites, Commit
  <2>3. Len(log') \in Nat /\ Len(log) <= Len(log')
    BY <1>1, <2>2 DEF Shape
  <2> QED
    BY <2>1, <2>3, OrderedRests
\* A step that ends the flushes, whatever it adds at the reader's place.
<1>4. ASSUME UNCHANGED log, seq' \in seq..Len(log), \A w \in Loop : flush'[w] = NoFlush,
             \/ UNCHANGED sent
             \/ \E who \in Loop : Shown(who, "plain") /\ flush[who].step = "plain"
      PROVE  Ordered'
  <2>1. CASE UNCHANGED sent
    <3>1. SentInOrder'
      BY <1>1, <2>1 DEF SentInOrder, Follows
    <3> QED
      BY <1>1, <1>4, <2>1, <3>1, OrderedEnds
  <2>2. CASE \E who \in Loop : Shown(who, "plain") /\ flush[who].step = "plain"
    <3>1. PICK who \in Loop : Shown(who, "plain") /\ flush[who].step = "plain"
      BY <2>2
    <3>2. flush[who].at = seq /\ Fits(Piece(who, "plain"))
      BY <3>1 DEF Ordered, NoFlush
    <3>3. /\ SentInOrder' /\ sent' \in Seq(Parts) /\ sent'[Len(sent')] = Piece(who, "plain")
      BY <1>1, <3>1, <3>2, ShownInOrder
    <3>4. sent'[Len(sent')].at <= seq
      BY <1>1, <3>2, <3>3 DEF Piece
    <3> QED
      BY <1>1, <1>4, <3>3, <3>4, OrderedEnds
  <2> QED
    BY <1>4, <2>1, <2>2
<1>5. CASE Restart
  <2>1. seq' = Len(log) /\ \A w \in Loop : flush'[w] = NoFlush
    BY <1>5 DEF Restart, Restarted
  <2> QED
    BY <1>1, <1>4, <1>5, <2>1 DEF Restart
<1>6. CASE PollFlushes
  <2>1. UNCHANGED <<log, sent>>
    BY <1>6 DEF PollFlushes, history
  <2>2. CASE UNCHANGED <<seq, flush>>
    BY <1>1, <2>1, <2>2, OrderedRests
  <2>3. CASE ~Flushing /\ Scan("poll", seq, Len(log), timer)
    <3>1. SentInOrder'
      BY <1>1, <2>1 DEF SentInOrder, Follows
    <3>2. /\ "poll" \in Loop /\ \A w \in Loop : flush[w] = NoFlush
          /\ Len(log) \in seq..Len(log) /\ (sent' # <<>> => sent'[Len(sent')].at <= seq)
      BY <1>1, <2>1, <2>3 DEF Flushing, Loop
    <3> QED
      BY <1>1, <2>1, <2>3, <3>1, <3>2, OrderedScans
  <2> QED
    BY <1>6, <2>2, <2>3 DEF PollFlushes
<1>7. ASSUME NEW who \in Loop, Sent(who) PROVE Ordered'
  <2>1. flush[who].step \in {"html", "plain"} /\ Shown(who, flush[who].step) /\ log' = log
    BY <1>7 DEF Sent
  <2>2. flush[who] # NoFlush
    BY <2>1 DEF NoFlush
  <2>3. /\ flush[who].at = seq /\ flush[who].upto \in seq..Len(log)
        /\ Fits(Piece(who, flush[who].step))
    BY <2>1, <2>2 DEF Ordered
  <2>4. \A w \in Loop \ {who} : flush[w] = NoFlush
    BY <2>2 DEF Ordered, Loop
  <2>5. /\ SentInOrder' /\ sent' \in Seq(Parts) /\ sent' # <<>>
        /\ sent'[Len(sent')] = Piece(who, flush[who].step)
    BY <1>1, <2>1, <2>3, ShownInOrder
  <2>6. sent'[Len(sent')].at <= seq
    BY <1>1, <2>3, <2>5 DEF Piece
  <2>7. CASE Scan(who, flush[who].at, flush[who].upto, timer)
    BY <1>1, <2>1, <2>3, <2>4, <2>5, <2>6, <2>7, OrderedScans
  <2>8. CASE /\ flush[who].part < MaxParts
             /\ flush' = [flush EXCEPT ![who] = NextPart(@)]
             /\ UNCHANGED <<poll, turn, seq, typing, timer, acting>>
    <3>1. GoesOn(who) /\ flush'[who].at = flush[who].at /\ flush'[who].part = flush[who].part + 1
      BY <2>2, <2>8, NextPartGoesOn DEF GoesOn
    <3>2. Fits(Piece(who, flush[who].step))'
      BY <2>5, <3>1 DEF Fits, Follows, Piece
    <3> QED
      BY <2>1, <2>2, <2>3, <2>5, <2>6, <3>1, <3>2, OrderedGoesOn
  <2> QED
    BY <1>7, <2>7, <2>8 DEF Sent
<1>11. ASSUME NEW who \in Loop, HtmlFails(who) PROVE Ordered'
  <2>1. /\ flush[who] # NoFlush /\ GoesOn(who) /\ flush'[who].step = "plain"
        /\ flush'[who].part = flush[who].part /\ flush'[who].at = flush[who].at
    BY <1>11, HtmlFailsMoves DEF GoesOn
  <2>2. flush[who].step = "html" /\ log' = log /\ (sent' = sent \/ Shown(who, "lost"))
    BY <1>11 DEF HtmlFails
  <2>3. /\ flush[who].at = seq /\ flush[who].upto \in seq..Len(log) /\ Fits(Piece(who, "html"))
    BY <2>1, <2>2 DEF Ordered
  <2>4. CASE sent' = sent
    <3>1. Fits(Piece(who, flush[who].step))'
      BY <2>1, <2>3, <2>4 DEF Fits, Follows, Piece
    <3>2. SentInOrder'
      BY <1>1, <2>4 DEF SentInOrder, Follows
    <3> QED
      BY <1>1, <2>1, <2>2, <2>3, <2>4, <3>1, <3>2, OrderedGoesOn
  <2>5. CASE Shown(who, "lost")
    <3>1. Fits(Piece(who, "lost"))
      BY <2>3 DEF Fits, Follows, Piece
    <3>2. /\ SentInOrder' /\ sent' \in Seq(Parts) /\ sent' # <<>>
          /\ sent'[Len(sent')] = Piece(who, "lost")
      BY <1>1, <2>5, <3>1, ShownInOrder
    <3>3. Fits(Piece(who, flush[who].step))'
      BY <2>1, <3>2 DEF Fits, Follows, Piece
    <3>4. sent'[Len(sent')].at <= seq
      BY <1>1, <2>3, <3>2 DEF Piece
    <3> QED
      BY <2>1, <2>2, <2>3, <3>2, <3>3, <3>4, OrderedGoesOn
  <2> QED
    BY <2>2, <2>4, <2>5
<1>8. ASSUME NEW who \in Loop, Closed(who) PROVE Ordered'
  <2>1. UNCHANGED <<log, sent, seq>> /\ flush[who] # NoFlush
    BY <1>8 DEF Closed, NoFlush
  <2>2. Rests(who, timer)
    BY <1>8, FlushEndsMoves DEF Closed
  <2>3. \A w \in Loop : flush'[w] = NoFlush
    BY <2>1, <2>2 DEF Rests, Moves, Ordered, Loop
  <2> QED
    BY <1>1, <1>4, <2>1, <2>3
<1>9. ASSUME NEW who \in Loop, FlushFails(who) PROVE Ordered'
  <2>1. /\ UNCHANGED log /\ flush[who] # NoFlush
        /\ UNCHANGED sent \/ (flush[who].step = "plain" /\ Shown(who, "plain"))
    BY <1>9 DEF FlushFails, NoFlush
  <2>2. \A w \in Loop \ {who} : flush[w] = NoFlush
    BY <2>1 DEF Ordered, Loop
  <2>3. /\ seq' \in seq..Len(log) /\ \A w \in Loop : flush'[w] = NoFlush
    <3>1. CASE Restarted
      BY <1>1, <3>1 DEF Restarted
    <3>2. CASE flush' = [flush EXCEPT ![who] = NoFlush] /\ UNCHANGED seq
      BY <1>1, <2>2, <3>2 DEF Shape
    <3> QED
      BY <1>9, <3>1, <3>2 DEF FlushFails
  <2> QED
    BY <1>4, <2>1, <2>3
<1>10. CASE TickFires
  <2>1. UNCHANGED <<log, sent>>
    BY <1>10 DEF TickFires
  <2>2. CASE UNCHANGED <<seq, flush>>
    BY <1>1, <2>1, <2>2, OrderedRests
  <2>3. ASSUME ~Flushing PROVE \A armed : Scan("tick", seq, Len(log), armed) => Ordered'
    <3>1. SentInOrder'
      BY <1>1, <2>1 DEF SentInOrder, Follows
    <3>2. /\ "tick" \in Loop /\ \A w \in Loop : flush[w] = NoFlush
          /\ Len(log) \in seq..Len(log) /\ (sent' # <<>> => sent'[Len(sent')].at <= seq)
      BY <1>1, <2>1, <2>3 DEF Flushing, Loop
    <3> QED
      BY <1>1, <2>1, <3>1, <3>2, OrderedScans
  <2>4. ~Flushing /\ Scan("tick", seq, Len(log), FALSE) => Ordered'
    BY <2>3, Zenon
  <2> QED
    BY <1>10, <2>2, <2>4 DEF TickFires
<1> QED
  BY <1>2, <1>3, <1>5, <1>6, <1>7, <1>8, <1>9, <1>10, <1>11 DEF Next, PollStep, FlushStep

-----------------------------------------------------------------------------
\* A scan leaves the indicator to its timer, to the tick that scans, or to the
\* tick that acts after it.
LEMMA DrivenScans ==
    ASSUME Shape, Driven, NEW who \in Loop, NEW from \in Nat, NEW to \in Nat, NEW armed,
           Scan(who, from, to, armed),
           who = "poll" => armed = timer /\ poll # "typing"
    PROVE  Driven'
<1>1. Moves(who) /\ "poll" \in Loop /\ "tick" \in Loop
  BY ScanMoves DEF Awaits, Rests, Loop
<1>2. CASE \E at \in (from + 1)..to :
              /\ Awaits(who, "html", at, to)
              /\ timer' = armed /\ typing' = typing
  <2>1. CASE who = "poll"
    BY <1>1, <1>2, <2>1 DEF Awaits, Moves, Driven, TypingIsDriven
  <2>2. CASE who = "tick"
    BY <1>1, <1>2, <2>2 DEF Awaits, Moves, Driven, TypingIsDriven
  <2> QED
    BY <2>1, <2>2 DEF Loop
<1>3. CASE Awaits(who, "close", to, to) /\ StopTyping
  BY <1>1, <1>3 DEF Awaits, Moves, Driven, TypingIsDriven, StopTyping, Loop
<1>4. CASE Rests(who, armed)
  BY <1>1, <1>4 DEF Rests, Moves, Driven, TypingIsDriven, StopTyping, Shape, Loop
<1> QED
  BY <1>2, <1>3, <1>4, ScanMoves

\* The poll's own flush is over: it held the poll, which was not starting the
\* typing indicator.
LEMMA DrivenPollRests ==
    ASSUME Driven, flush["poll"] # NoFlush,
           flush'["poll"] = NoFlush, flush'["tick"] = flush["tick"],
           UNCHANGED <<typing, timer, acting>>
    PROVE  Driven'
<1>1. poll # "typing"
  BY DEF Driven
<1>2. TypingIsDriven'
  BY <1>1 DEF Driven, TypingIsDriven
<1> QED
  BY <1>2 DEF Driven

LEMMA DrivenStep ==
    ASSUME Inv, [Next]_vars
    PROVE  Driven'
<1> USE DEF Inv
<1>1. "poll" \in Loop /\ "tick" \in Loop /\ seq \in Nat /\ Len(log) \in Nat
  BY DEF Loop, Shape, Ordered
<1>2. CASE UserSends \/ ProviderWrites \/ UNCHANGED vars
  <2>1. UNCHANGED <<flush, poll, typing, timer, acting>>
    BY <1>2 DEF UserSends, ProviderWrites, vars, listener
  <2> QED
    BY <2>1 DEF Driven, TypingIsDriven
<1>3. ASSUME Restarted PROVE Driven'
  BY <1>1, <1>3 DEF Restarted, StopTyping, Driven, TypingIsDriven
<1>4. CASE Poll
  BY <1>4 DEF Poll, Driven, TypingIsDriven
<1>5. CASE IgnoreUpdate
  BY <1>5 DEF IgnoreUpdate, Handled, Driven, TypingIsDriven
<1>6. CASE Commit
  BY <1>6 DEF Commit, Driven, TypingIsDriven
<1>7. CASE HandlerFails
  BY <1>7 DEF HandlerFails, Driven, TypingIsDriven
<1>8. CASE Deliver
  BY <1>8 DEF Deliver, Handled, Driven, TypingIsDriven
<1>9. ASSUME TypingSent PROVE typing' => timer'
  <2>1. CASE typing' = FALSE
    BY <2>1
  <2>2. CASE timer' = TRUE
    BY <2>2
  <2>3. CASE (~typing \/ timer) /\ typing' = typing /\ timer' = timer
    BY <2>3, SMT
  <2> QED
    BY <1>9, <2>1, <2>2, <2>3 DEF TypingSent, ScheduleTyping, StopTyping
<1>10. CASE TypingBegins
  BY <1>9, <1>10 DEF TypingBegins, Handled, Driven, TypingIsDriven
<1>11. CASE PollFlushes
  <2>1. CASE Scan("poll", seq, Len(log), timer)
    BY <1>1, <1>11, <2>1, DrivenScans DEF PollFlushes
  <2>2. CASE Flushing /\ poll' = "idle" /\ UNCHANGED <<flush, typing, timer, acting>>
    BY <1>11, <2>2 DEF PollFlushes, Driven, TypingIsDriven
  <2> QED
    BY <1>11, <2>1, <2>2 DEF PollFlushes
<1>17. ASSUME NEW who \in Loop, flush[who] # NoFlush, GoesOn(who) PROVE Driven'
  BY <1>1, <1>17 DEF GoesOn, Moves, Driven, TypingIsDriven, Loop
<1>12. ASSUME NEW who \in Loop, Sent(who) PROVE Driven'
  <2>1. flush[who] # NoFlush /\ flush[who].at \in Nat /\ flush[who].upto \in Nat
    BY <1>12, SentMoves
  <2>2. who = "poll" => poll # "typing"
    BY <2>1 DEF Driven
  <2>3. CASE GoesOn(who)
    BY <1>17, <2>1, <2>3
  <2> QED
    BY <1>12, <2>1, <2>2, <2>3, SentMoves, DrivenScans
<1>18. ASSUME NEW who \in Loop, HtmlFails(who) PROVE Driven'
  BY <1>17, <1>18, HtmlFailsMoves
<1>13. ASSUME NEW who \in Loop, Closed(who) PROVE Driven'
  <2>1. flush[who] # NoFlush
    BY <1>13 DEF Closed, NoFlush
  <2>2. Rests(who, timer)
    BY <1>13, FlushEndsMoves DEF Closed
  <2> QED
    <3>1. acting \in Nat
      BY DEF Shape
    <3>2. CASE who = "poll"
      <4>1. flush["poll"] # NoFlush /\ flush'["poll"] = NoFlush
        BY <2>1, <2>2, <3>2 DEF Rests
      <4>2. flush'["tick"] = flush["tick"] /\ UNCHANGED <<typing, timer, acting>>
        BY <1>13, <1>1, <2>2, <3>2 DEF Rests, Moves, Closed, FlushEnds
      <4> QED
        BY <4>1, <4>2, DrivenPollRests
    <3>3. CASE who = "tick"
      BY <1>1, <2>2, <3>1, <3>3 DEF Rests, Moves, Driven, TypingIsDriven, StopTyping
    <3> QED
      BY <3>2, <3>3 DEF Loop
<1>14. ASSUME NEW who \in Loop, FlushFails(who) PROVE Driven'
  <2>1. CASE /\ who = "poll" /\ flush' = [flush EXCEPT ![who] = NoFlush] /\ poll' = "idle"
             /\ UNCHANGED <<typing, timer, acting>>
    <3>1. flush["poll"] # NoFlush
      BY <1>14, <2>1 DEF FlushFails, NoFlush
    <3>2. flush'["poll"] = NoFlush /\ flush'["tick"] = flush["tick"]
      BY <1>1, <2>1 DEF Shape
    <3> QED
      BY <2>1, <3>1, <3>2, DrivenPollRests
  <2> QED
    BY <1>3, <1>14, <2>1 DEF FlushFails
<1>15. CASE TickFires
  <2>1. \A armed : Scan("tick", seq, Len(log), armed) => Driven'
    BY <1>1, DrivenScans
  <2>2. Scan("tick", seq, Len(log), FALSE) => Driven'
    BY <2>1, Zenon
  <2>3. \/ StopTyping /\ UNCHANGED <<flush, poll, acting>>
        \/ acting' = acting + 1 /\ UNCHANGED <<flush, poll>>
        \/ Scan("tick", seq, Len(log), FALSE)
    BY <1>15 DEF TickFires, TypingEnds
  <2>4. CASE StopTyping /\ UNCHANGED <<flush, poll, acting>>
    BY <2>4 DEF StopTyping, Driven, TypingIsDriven
  <2>5. CASE acting' = acting + 1 /\ UNCHANGED <<flush, poll>>
    BY <2>5 DEF Driven, TypingIsDriven, Shape
  <2> QED
    BY <2>2, <2>3, <2>4, <2>5
<1>16. CASE TickActs
  BY <1>9, <1>16 DEF TickActs, Driven, TypingIsDriven
<1> QED
  BY <1>2, <1>3, <1>4, <1>5, <1>6, <1>7, <1>8, <1>10, <1>11, <1>12, <1>13, <1>14,
     <1>15, <1>16, <1>18 DEF Next, PollStep, FlushStep, Restart

-----------------------------------------------------------------------------
LEMMA InvHolds == Spec => []Inv
<1>1. Inv /\ [Next]_vars => Inv'
  BY ShapeStep, PollingStep, OrderedStep, DrivenStep DEF Inv
<1> QED
  BY InvInit, <1>1, PTL DEF Spec

\* The offset of the poll passes no message whose handler has not come to its
\* end, however often handlers throw and the Host restarts (pollSession).
THEOREM NoUpdateIsLost == Spec => []OffsetIsHonest
<1>1. Inv => OffsetIsHonest
  BY DEF Inv, Polling
<1> QED
  BY InvHolds, <1>1, PTL

\* The chat gets the parts of the assistant messages in the order of the
\* transcript, however they fail and though the poll and the ticks of the typing
\* indicator both flush it (flushOutboundTranscript); none twice but one that
\* Telegram showed without its answer coming back, which is repeated at once, as
\* plain text (sendTelegramText).
THEOREM ChatIsInOrder == Spec => []SentInOrder
<1>1. Inv => SentInOrder
  BY DEF Inv, Ordered
<1> QED
  BY InvHolds, <1>1, PTL

\* A typing indicator that is on will be renewed or turned off by somebody
\* (tickTypingIndicator, startTypingIndicator).
THEOREM TypingHasADriver == Spec => []TypingIsDriven
<1>1. Inv => TypingIsDriven
  BY DEF Inv, Driven
<1> QED
  BY InvHolds, <1>1, PTL
=============================================================================
