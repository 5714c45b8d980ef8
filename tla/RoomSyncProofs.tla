--------------------------- MODULE RoomSyncProofs ---------------------------
(***************************************************************************)
(* Theorems of RoomSync, for any rooms, clients, batches and bounds: its   *)
(* types, that a client's token is honest, that no sleeping request is     *)
(* forgotten, and that a wake-up brings news.                              *)
(***************************************************************************)
EXTENDS RoomSync, TLAPS

BatchType == [room : Room \cup {None}, writing : BOOLEAN]
WaiterType == [since : Nat, wake : Nat]

(* What an answer and a departure do, whoever is answered. *)

\* A page is part of what was not read yet.
LEMMA PageIsUnread ==
    ASSUME NEW s, NEW c \in Client, NEW k
    PROVE  NewestOf(Unread(s, c), k) \subseteq Unread(s, c)
BY DEF NewestOf

\* What is unread has numbers of the stream.
LEMMA UnreadInStream ==
    ASSUME NEW s \in Seq(Event), NEW c \in Client
    PROVE  /\ Unread(s, c) \subseteq Nat
           /\ Missing(s, c, {}) \subseteq Nat
           /\ Next1(s) \in Nat
BY DEF Unread, Missing, Timeline, Next1

\* Answering keeps the types of what it changes.
LEMMA AnswerTypes ==
    ASSUME TypeOK, NEW s \in Seq(Event), NEW S \in SUBSET Client, NEW lost,
           NEW k, Answer(s, S, lost, k)
    PROVE  /\ since' \in [Client -> Nat] /\ served' \in [Room -> Nat]
           /\ seen' \in [Client -> SUBSET Nat] /\ gap' \in [Client -> SUBSET Nat]
<1> DEFINE page == [c \in S |-> NewestOf(Unread(s, c), k)]
<1>1. Next1(s) \in Nat
  BY DEF Next1
<1>2. \A c \in S : page[c] \subseteq Nat /\ Missing(s, c, page[c]) \subseteq Nat
  BY PageIsUnread, UnreadInStream DEF Missing
<1>3. since' \in [Client -> Nat] /\ served' \in [Room -> Nat]
  BY <1>1 DEF Answer, TypeOK
<1>4. seen' \in [Client -> SUBSET Nat]
  <2>1. seen' = [c \in Client |-> IF c \in S \ lost THEN seen[c] \cup page[c] ELSE seen[c]]
    BY DEF Answer
  <2>. HIDE DEF page
  <2>. QED  BY <2>1, <1>2 DEF TypeOK
<1>5. gap' \in [Client -> SUBSET Nat]
  <2>1. gap' = [c \in Client |-> IF c \in S \ lost THEN gap[c] \cup Missing(s, c, page[c])
                                 ELSE gap[c]]
    BY DEF Answer
  <2>. HIDE DEF page
  <2>. QED  BY <2>1, <1>2 DEF TypeOK
<1>. QED  BY <1>3, <1>4, <1>5

\* Leaving keeps the types of what it changes.
LEMMA LeaveTypes ==
    ASSUME TypeOK, NEW S, Leave(S)
    PROVE  at' \in [Client -> Waiter \cup {None}] /\ listed' \in [Room -> SUBSET Waiter]
BY DEF Leave, TypeOK

\* Those who are woken are clients.
LEMMA SleepersAreClients ==
    ASSUME NEW s, NEW news
    PROVE  Sleepers(s, news) \in SUBSET Client
BY DEF Sleepers

\* A new event keeps the stream a sequence of events, and the old ones.
LEMMA Appended ==
    ASSUME TypeOK, NEW r \in Room, NEW state \in BOOLEAN, Commits(r, state)
    PROVE  /\ stream' \in Seq(Event) /\ Len(stream') = Len(stream) + 1
           /\ \A n \in DOMAIN stream : n \in DOMAIN stream' /\ stream'[n] = stream[n]
           /\ \A n \in DOMAIN stream' : n \in DOMAIN stream \/ n = Len(stream) + 1
BY DEF Commits, TypeOK, Event

-----------------------------------------------------------------------------
\* Waking keeps the types of what it changes.
LEMMA WakeTypes ==
    ASSUME TypeOK, NEW s \in Seq(Event), NEW news, Wake(s, news)
    PROVE  /\ since' \in [Client -> Nat] /\ served' \in [Room -> Nat]
           /\ seen' \in [Client -> SUBSET Nat] /\ gap' \in [Client -> SUBSET Nat]
           /\ at' \in [Client -> Waiter \cup {None}] /\ listed' \in [Room -> SUBSET Waiter]
           /\ waiter' = waiter
<1>1. PICK lost \in SUBSET Sleepers(s, news), k \in Pages :
           Answer(s, Sleepers(s, news), lost, k)
  BY DEF Wake
<1>2. Leave(Sleepers(s, news)) /\ waiter' = waiter
  BY DEF Wake
<1>. QED  BY <1>1, <1>2, AnswerTypes, LeaveTypes, SleepersAreClients

\* A batch that writes has a room.
LEMMA WritingHasRoom ==
    ASSUME TypeOK, NEW b \in Batch, batch[b].writing
    PROVE  batch[b].room \in Room /\ wakes[b] \subseteq Nat
<1>1. batch[b] \in [room : Room, writing : BOOLEAN] \cup {Idle}
  BY DEF TypeOK
<1>. QED  BY <1>1 DEF Idle, TypeOK

LEMMA TypeStep == TypeOK /\ [Next]_vars => TypeOK'
<1> SUFFICES ASSUME TypeOK, [Next]_vars PROVE TypeOK'
  OBVIOUS
<1>1. ASSUME NEW r \in Room, NEW state \in BOOLEAN, Write(r, state) PROVE TypeOK'
  <2>1. stream' \in Seq(Event)
    BY <1>1, Appended DEF Write
  <2>2. Wake(stream', {Next1(stream)})
    BY <1>1 DEF Write
  <2>. QED  BY <1>1, <2>1, <2>2, WakeTypes DEF Write, TypeOK
<1>2. ASSUME NEW b \in Batch, NEW r \in Room, OpenBatch(b, r) PROVE TypeOK'
  BY <1>2 DEF OpenBatch, TypeOK, polling, clients
<1>3. ASSUME NEW b \in Batch, BatchWrite(b) PROVE TypeOK'
  <2>1. batch[b].room \in Room /\ wakes[b] \subseteq Nat
    BY <1>3, WritingHasRoom DEF BatchWrite
  <2>2. stream' \in Seq(Event)
    BY <1>3, <2>1, Appended DEF BatchWrite
  <2>3. wakes' \in [Batch -> SUBSET Nat]
    BY <1>3, <2>1 DEF BatchWrite, TypeOK, Next1
  <2>. QED  BY <1>3, <2>2, <2>3 DEF BatchWrite, TypeOK, polling, clients
<1>4. ASSUME NEW b \in Batch, CloseBatch(b) PROVE TypeOK'
  <2>1. batch[b] \in [room : Room, writing : BOOLEAN]
    BY <1>4 DEF CloseBatch, TypeOK, Idle
  <2>2. [batch[b] EXCEPT !.writing = FALSE] \in [room : Room, writing : BOOLEAN]
    BY <2>1
  <2>3. batch' = [batch EXCEPT ![b] = [batch[b] EXCEPT !.writing = FALSE]]
    BY <1>4 DEF CloseBatch
  <2>. QED  BY <1>4, <2>2, <2>3 DEF CloseBatch, TypeOK, polling, clients
<1>5. ASSUME NEW b \in Batch, WakeBatch(b) PROVE TypeOK'
  <2>1. Wake(stream, wakes[b]) /\ stream \in Seq(Event)
    BY <1>5 DEF WakeBatch, TypeOK
  <2>. QED  BY <1>5, <2>1, WakeTypes DEF WakeBatch, TypeOK
<1>6. ASSUME NEW b \in Batch, FailBatch(b) PROVE TypeOK'
  BY <1>6 DEF FailBatch, TypeOK, polling, clients
<1>7. ASSUME NEW c \in Client, Sync(c) PROVE TypeOK'
  <2>1. CASE Respond(c)
    <3>1. PICK lost \in SUBSET {c}, k \in Pages : Answer(stream, {c}, lost, k)
      BY <2>1 DEF Respond
    <3>2. stream \in Seq(Event)
      BY DEF TypeOK
    <3>. QED  BY <1>7, <2>1, <3>1, <3>2, AnswerTypes DEF Respond, Sync, TypeOK, storage
  <2>2. ASSUME NEW wake \in Nat, Register(c, wake) PROVE TypeOK'
    <3>1. [since |-> since[c], wake |-> wake] \in [since : Nat, wake : Nat]
      BY DEF TypeOK
    <3>2. Home[c] \in Room
      BY HomeAssumption
    <3>3. Joinable(c, wake) \subseteq Waiter
      BY <3>2 DEF Joinable, TypeOK
    <3>4. at' \in [Client -> Waiter \cup {None}]
      BY <2>2, <3>3 DEF Register, TypeOK
    <3>5. waiter' \in [Waiter -> [since : Nat, wake : Nat]]
      BY <2>2, <3>1 DEF Register, TypeOK
    <3>6. listed' \in [Room -> SUBSET Waiter]
      BY <2>2, <3>2 DEF Register, TypeOK
    <3>7. UNCHANGED <<storage, served, clients>>
      BY <1>7, <2>2 DEF Register, Sync
    <3>. QED  BY <3>4, <3>5, <3>6, <3>7 DEF TypeOK, storage, clients
  <2>3. Next1(stream) \in Nat /\ since[c] \in Nat
    BY DEF TypeOK, Next1
  <2>. QED  BY <1>7, <2>1, <2>2, <2>3 DEF Sync
<1>8. ASSUME NEW c \in Client, Timeout(c) PROVE TypeOK'
  <2>1. PICK lost \in SUBSET {c}, k \in Pages : Answer(stream, {c}, lost, k)
    BY <1>8 DEF Timeout
  <2>2. stream \in Seq(Event) /\ Leave({c})
    BY <1>8 DEF TypeOK, Timeout
  <2>3. /\ since' \in [Client -> Nat] /\ served' \in [Room -> Nat]
        /\ seen' \in [Client -> SUBSET Nat] /\ gap' \in [Client -> SUBSET Nat]
    BY <2>1, <2>2, AnswerTypes
  <2>4. at' \in [Client -> Waiter \cup {None}] /\ listed' \in [Room -> SUBSET Waiter]
    BY <2>2, LeaveTypes
  <2>. QED  BY <1>8, <2>3, <2>4 DEF Timeout, TypeOK, storage
<1>9. ASSUME NEW c \in Client, Hangup(c) PROVE TypeOK'
  <2>1. at' \in [Client -> Waiter \cup {None}] /\ listed' \in [Room -> SUBSET Waiter]
    BY <1>9, LeaveTypes DEF Hangup
  <2>. QED  BY <1>9, <2>1 DEF Hangup, TypeOK, storage, clients
<1>10. CASE UNCHANGED vars
  BY <1>10 DEF vars, storage, polling, clients, TypeOK
<1>. QED  BY <1>1, <1>2, <1>3, <1>4, <1>5, <1>6, <1>7, <1>8, <1>9, <1>10 DEF Next

\* Every variable keeps its type.
THEOREM Typing == Spec => []TypeOK
<1>1. Init => TypeOK
  BY DEF Init, TypeOK, Idle
<1>. QED  BY <1>1, TypeStep, PTL DEF Spec

-----------------------------------------------------------------------------
(* Tokens are honest. *)

\* A token never runs ahead of the stream, and what was read is accounted for.
Honest == TokenIsHonest /\ \A c \in Client : since[c] <= Next1(stream)

\* The events of a page and those reported missing are the unread ones, once.
LEMMA PageAndMissing ==
    ASSUME NEW s, NEW c \in Client, NEW k
    PROVE  LET page == NewestOf(Unread(s, c), k)
           IN  /\ page \cup Missing(s, c, page) = Unread(s, c)
               /\ page \cap Missing(s, c, page) = {}
BY DEF NewestOf, Missing

\* A longer stream has the same events before a token that was not ahead of it.
LEMMA SamePast ==
    ASSUME TypeOK, Honest, NEW r \in Room, NEW state \in BOOLEAN, Commits(r, state),
           NEW c \in Client
    PROVE  /\ {n \in Timeline(stream', Home[c]) : n < since[c]}
                = {n \in Timeline(stream, Home[c]) : n < since[c]}
           /\ since[c] <= Next1(stream')
<1>1. Len(stream) \in Nat /\ since[c] \in Nat /\ since[c] <= Len(stream) + 1
  BY DEF TypeOK, Honest, Next1
<1>2. /\ DOMAIN stream = 1 .. Len(stream) /\ DOMAIN stream' = 1 .. (Len(stream) + 1)
      /\ Len(stream') = Len(stream) + 1
      /\ \A n \in DOMAIN stream : stream'[n] = stream[n]
  BY DEF Commits, TypeOK
<1>. QED  BY <1>1, <1>2 DEF Timeline, Next1

\* An answer from a stream that holds the client's past leaves its token honest.
LEMMA AnswerHonest ==
    ASSUME TypeOK, NEW s \in Seq(Event), NEW S \in SUBSET Client, NEW lost,
           NEW k, Answer(s, S, lost, k), NEW c \in Client, since[c] <= Next1(s),
           seen[c] \cup gap[c] = {n \in Timeline(s, Home[c]) : n < since[c]},
           seen[c] \cap gap[c] = {}
    PROVE  /\ seen'[c] \cup gap'[c] = {n \in Timeline(s, Home[c]) : n < since'[c]}
           /\ seen'[c] \cap gap'[c] = {}
           /\ since'[c] <= Next1(s)
<1> DEFINE page == NewestOf(Unread(s, c), k)
<1>1. CASE c \notin S \ lost
  BY <1>1 DEF Answer, TypeOK
<1>2. CASE c \in S \ lost
  <2>1. since'[c] = Next1(s) /\ seen'[c] = seen[c] \cup page
        /\ gap'[c] = gap[c] \cup Missing(s, c, page)
    BY <1>2 DEF Answer
  <2>2. page \cup Missing(s, c, page) = Unread(s, c) /\ page \cap Missing(s, c, page) = {}
    BY PageAndMissing
  <2>3. Next1(s) \in Nat /\ since[c] \in Nat /\ \A n \in Timeline(s, Home[c]) : n \in Nat /\ n < Next1(s)
    BY DEF Next1, Timeline, TypeOK
  <2>4. Unread(s, c) = {n \in Timeline(s, Home[c]) : n >= since[c]}
    BY DEF Unread
  <2>. HIDE DEF page
  <2>5. seen'[c] \cup gap'[c] = (seen[c] \cup gap[c]) \cup Unread(s, c)
    BY <2>1, <2>2
  <2>6. (seen[c] \cup gap[c]) \cap Unread(s, c) = {}
    BY <2>3, <2>4
  <2>7. seen'[c] \cap gap'[c] = {}
    BY <2>1, <2>2, <2>6
  <2>8. seen'[c] \cup gap'[c] = {n \in Timeline(s, Home[c]) : n < since'[c]}
    BY <2>1, <2>3, <2>4, <2>5
  <2>. QED  BY <2>1, <2>3, <2>7, <2>8
<1>. QED  BY <1>1, <1>2

LEMMA HonestStep == TypeOK /\ Honest /\ [Next]_vars => Honest'
<1> SUFFICES ASSUME TypeOK, Honest, [Next]_vars PROVE Honest'
  OBVIOUS
<1>0. /\ stream \in Seq(Event)
      /\ \A c \in Client : /\ since[c] <= Next1(stream)
                           /\ seen[c] \cup gap[c] = {n \in Timeline(stream, Home[c]) : n < since[c]}
                           /\ seen[c] \cap gap[c] = {}
  BY DEF Honest, TokenIsHonest, TypeOK
\* Answering from the present stream.
<1>1. ASSUME NEW S \in SUBSET Client, NEW lost, NEW k, Answer(stream, S, lost, k),
             stream' = stream
      PROVE  Honest'
  BY <1>0, <1>1, AnswerHonest DEF Honest, TokenIsHonest
<1>2. ASSUME NEW r \in Room, NEW state \in BOOLEAN, Commits(r, state) PROVE stream' \in Seq(Event)
  BY <1>2, Appended
<1>3. ASSUME NEW r \in Room, NEW state \in BOOLEAN, Write(r, state) PROVE Honest'
  <2>1. Commits(r, state)
    BY <1>3 DEF Write
  <2>2. PICK lost \in SUBSET Sleepers(stream', {Next1(stream)}), k \in Pages :
           Answer(stream', Sleepers(stream', {Next1(stream)}), lost, k)
    BY <1>3 DEF Write, Wake
  <2>3. Sleepers(stream', {Next1(stream)}) \in SUBSET Client /\ stream' \in Seq(Event)
    BY <1>2, <2>1, SleepersAreClients
  <2>4. \A c \in Client : /\ since[c] <= Next1(stream')
                         /\ seen[c] \cup gap[c] = {n \in Timeline(stream', Home[c]) : n < since[c]}
                         /\ seen[c] \cap gap[c] = {}
    BY <1>0, <2>1, SamePast
  <2>. QED  BY <2>2, <2>3, <2>4, AnswerHonest DEF Honest, TokenIsHonest
<1>4. ASSUME UNCHANGED <<stream, clients>> PROVE Honest'
  BY <1>4 DEF Honest, TokenIsHonest, clients
<1>5. ASSUME NEW b \in Batch, BatchWrite(b) PROVE Honest'
  <2>1. batch[b].room \in Room /\ Commits(batch[b].room, FALSE) /\ UNCHANGED clients
    BY <1>5, WritingHasRoom DEF BatchWrite
  <2>2. \A c \in Client : /\ since[c] <= Next1(stream')
                         /\ {n \in Timeline(stream', Home[c]) : n < since[c]}
                              = {n \in Timeline(stream, Home[c]) : n < since[c]}
    BY <2>1, SamePast
  <2>. QED  BY <1>0, <2>1, <2>2 DEF Honest, TokenIsHonest, clients
<1>6. ASSUME NEW b \in Batch, WakeBatch(b) PROVE Honest'
  <2>1. PICK lost \in SUBSET Sleepers(stream, wakes[b]), k \in Pages :
           Answer(stream, Sleepers(stream, wakes[b]), lost, k)
    BY <1>6 DEF WakeBatch, Wake
  <2>. QED  BY <1>1, <1>6, <2>1, SleepersAreClients DEF WakeBatch
<1>7. ASSUME NEW c \in Client, Sync(c) PROVE Honest'
  <2>1. CASE Respond(c)
    <3>1. PICK lost \in SUBSET {c}, k \in Pages : Answer(stream, {c}, lost, k)
      BY <2>1 DEF Respond
    <3>. QED  BY <1>1, <1>7, <3>1 DEF Sync, storage
  <2>2. CASE ~Respond(c)
    BY <1>4, <1>7, <2>2 DEF Sync, Register, storage
  <2>. QED  BY <2>1, <2>2
<1>8. ASSUME NEW c \in Client, Timeout(c) PROVE Honest'
  <2>1. PICK lost \in SUBSET {c}, k \in Pages : Answer(stream, {c}, lost, k)
    BY <1>8 DEF Timeout
  <2>. QED  BY <1>1, <1>8, <2>1 DEF Timeout, storage
<1>. QED  BY <1>3, <1>4, <1>5, <1>6, <1>7, <1>8
          DEF Next, OpenBatch, CloseBatch, FailBatch, Hangup, vars, storage, clients

\* A client's token is honest, for any rooms, clients, limits and batches.
THEOREM HonestTokens == Spec => []TokenIsHonest
<1>1. Init => Honest
  BY DEF Init, Honest, TokenIsHonest, Timeline, Next1
<1>2. Honest => TokenIsHonest
  BY DEF Honest
<1>. QED  BY <1>1, <1>2, HonestStep, Typing, PTL DEF Spec

-----------------------------------------------------------------------------
(* No sleeping request is forgotten. *)

Attended == SleepersAreListed /\ NoSleeperForgotten

\* Clients that do not leave stay listed, and their waiters are the same.
LEMMA LeaveListedRest ==
    ASSUME TypeOK, SleepersAreListed, NEW S \in SUBSET Client, Leave(S), waiter' = waiter,
           NEW c \in Client, at'[c] # None
    PROVE  c \notin S /\ at'[c] = at[c] /\ at[c] # None /\ at'[c] \in listed'[Home[c]]
BY HomeAssumption DEF Leave, SleepersAreListed, TypeOK

\* Only the clients answered get another token.
LEMMA AnswerOthers ==
    ASSUME TypeOK, NEW s, NEW S, NEW lost, NEW k, Answer(s, S, lost, k),
           NEW c \in Client, c \notin S
    PROVE  since'[c] = since[c]
BY DEF Answer

\* After a wake-up by news, those still asleep do not wait for it, and are listed.
LEMMA WakeAttended ==
    ASSUME TypeOK, SleepersAreListed, NEW s, NEW news, Wake(s, news),
           NEW c \in Client, at'[c] # None
    PROVE  /\ at'[c] = at[c] /\ at[c] # None /\ waiter' = waiter
           /\ at'[c] \in listed'[Home[c]] /\ waiter'[at'[c]].since = since'[c]
           /\ \A n \in news : s[n].room = Home[c] => ~(n >= waiter[at[c]].wake)
<1>1. PICK lost \in SUBSET Sleepers(s, news), k \in Pages :
           Answer(s, Sleepers(s, news), lost, k)
  BY DEF Wake
<1>2. Leave(Sleepers(s, news)) /\ waiter' = waiter
  BY DEF Wake
<1>3. /\ c \notin Sleepers(s, news) /\ at'[c] = at[c] /\ at[c] # None
      /\ at'[c] \in listed'[Home[c]]
  BY <1>2, LeaveListedRest, SleepersAreClients
<1>4. at[c] \in listed[Home[c]] /\ waiter[at[c]].since = since[c]
  BY <1>3 DEF SleepersAreListed
<1>5. since'[c] = since[c]
  BY <1>1, <1>3, AnswerOthers
<1>6. \A n \in news : s[n].room = Home[c] => ~(n >= waiter[at[c]].wake)
  BY <1>3, <1>4 DEF Sleepers
<1>. QED  BY <1>2, <1>3, <1>4, <1>5, <1>6

LEMMA AttendedStep == TypeOK /\ Attended /\ [Next]_vars => Attended'
<1> SUFFICES ASSUME TypeOK, Attended, [Next]_vars PROVE Attended'
  OBVIOUS
<1>0. /\ SleepersAreListed
      /\ \A c \in Client, n \in DOMAIN stream :
            at[c] # None /\ stream[n].room = Home[c] /\ n >= waiter[at[c]].wake
              => n \in dropped \/ \E b \in Batch : n \in wakes[b]
  BY DEF Attended, NoSleeperForgotten, Waits
<1>1. ASSUME NEW r \in Room, NEW state \in BOOLEAN, Write(r, state) PROVE Attended'
  <2>1. Wake(stream', {Next1(stream)}) /\ Commits(r, state) /\ UNCHANGED <<wakes, dropped>>
    BY <1>1 DEF Write
  <2>2. /\ Len(stream') = Len(stream) + 1
        /\ \A n \in DOMAIN stream : n \in DOMAIN stream' /\ stream'[n] = stream[n]
        /\ \A n \in DOMAIN stream' : n \in DOMAIN stream \/ n = Next1(stream)
    BY <2>1, Appended DEF Next1
  <2>3. SleepersAreListed'
    BY <1>0, <2>1, WakeAttended DEF SleepersAreListed
  <2>4. ASSUME NEW c \in Client, NEW n \in DOMAIN stream', at'[c] # None,
               stream'[n].room = Home[c], n >= waiter'[at'[c]].wake
        PROVE  n \in dropped' \/ \E b \in Batch : n \in wakes'[b]
    <3>1. /\ at'[c] = at[c] /\ at[c] # None /\ waiter' = waiter
          /\ \A m \in {Next1(stream)} : stream'[m].room = Home[c] => ~(m >= waiter[at[c]].wake)
      BY <1>0, <2>1, <2>4, WakeAttended
    <3>2. n \in DOMAIN stream /\ stream'[n] = stream[n]
      BY <2>2, <2>4, <3>1
    <3>. QED  BY <1>0, <2>1, <2>4, <3>1, <3>2
  <2>. QED  BY <2>3, <2>4 DEF Attended, NoSleeperForgotten, Waits
<1>2. ASSUME NEW b \in Batch, BatchWrite(b) PROVE Attended'
  <2>1. /\ batch[b].room \in Room /\ Commits(batch[b].room, FALSE)
        /\ UNCHANGED <<dropped, polling, clients>>
        /\ wakes' = [wakes EXCEPT ![b] = @ \cup {Next1(stream)}]
    BY <1>2, WritingHasRoom DEF BatchWrite
  <2>2. /\ \A n \in DOMAIN stream : n \in DOMAIN stream' /\ stream'[n] = stream[n]
        /\ \A n \in DOMAIN stream' : n \in DOMAIN stream \/ n = Next1(stream)
    BY <2>1, Appended DEF Next1
  <2>3. SleepersAreListed'
    BY <1>0, <2>1 DEF SleepersAreListed, polling, clients
  <2>4. Next1(stream) \in wakes'[b] /\ \A q \in Batch : wakes[q] \subseteq wakes'[q]
    BY <2>1 DEF TypeOK
  <2>. QED  BY <1>0, <2>1, <2>2, <2>3, <2>4 DEF Attended, NoSleeperForgotten, Waits, polling
<1>3. ASSUME NEW b \in Batch, WakeBatch(b) PROVE Attended'
  <2>1. /\ Wake(stream, wakes[b]) /\ UNCHANGED <<stream, dropped>>
        /\ wakes' = [wakes EXCEPT ![b] = {}]
    BY <1>3 DEF WakeBatch
  <2>2. SleepersAreListed'
    BY <1>0, <2>1, WakeAttended DEF SleepersAreListed
  <2>3. ASSUME NEW c \in Client, NEW n \in DOMAIN stream', at'[c] # None,
               stream'[n].room = Home[c], n >= waiter'[at'[c]].wake
        PROVE  n \in dropped' \/ \E q \in Batch : n \in wakes'[q]
    <3>1. /\ at'[c] = at[c] /\ at[c] # None /\ waiter' = waiter
          /\ \A m \in wakes[b] : stream[m].room = Home[c] => ~(m >= waiter[at[c]].wake)
      BY <1>0, <2>1, <2>3, WakeAttended
    <3>2. n \notin wakes[b]
      BY <2>1, <2>3, <3>1
    <3>3. \A q \in Batch : n \in wakes[q] => n \in wakes'[q]
      BY <2>1, <3>2 DEF TypeOK
    <3>. QED  BY <1>0, <2>1, <2>3, <3>1, <3>3
  <2>. QED  BY <2>2, <2>3 DEF Attended, NoSleeperForgotten, Waits
<1>4. ASSUME NEW b \in Batch, FailBatch(b) PROVE Attended'
  <2>1. /\ dropped' = dropped \cup wakes[b] /\ UNCHANGED <<stream, polling, clients>>
        /\ wakes' = [wakes EXCEPT ![b] = {}]
    BY <1>4 DEF FailBatch
  <2>2. SleepersAreListed'
    BY <1>0, <2>1 DEF SleepersAreListed, polling, clients
  <2>3. \A q \in Batch : q = b \/ wakes'[q] = wakes[q]
    BY <2>1 DEF TypeOK
  <2>. QED  BY <1>0, <2>1, <2>2, <2>3 DEF Attended, NoSleeperForgotten, Waits, polling
<1>5. ASSUME NEW c \in Client, Sync(c) PROVE Attended'
  <2>1. at[c] = None /\ UNCHANGED <<stream, wakes, dropped>>
    BY <1>5 DEF Sync, storage
  <2>2. CASE Respond(c)
    <3>1. PICK lost \in SUBSET {c}, k \in Pages : Answer(stream, {c}, lost, k)
      BY <2>2 DEF Respond
    <3>2. UNCHANGED <<waiter, listed, at>>
      BY <2>2 DEF Respond
    <3>3. \A q \in Client : at[q] # None => since'[q] = since[q]
      BY <2>1, <3>1, AnswerOthers
    <3>4. SleepersAreListed'
      BY <1>0, <3>2, <3>3 DEF SleepersAreListed
    <3>. QED  BY <1>0, <2>1, <3>2, <3>4 DEF Attended, NoSleeperForgotten, Waits
  <2>3. CASE Register(c, Next1(stream))
    <3>1. UNCHANGED since
      BY <2>3 DEF Register, clients
    <3>2. ASSUME NEW w \in Waiter, w \in listed[Home[c]], UNCHANGED <<waiter, listed>>,
                 waiter[w] = [since |-> since[c], wake |-> Next1(stream)],
                 at' = [at EXCEPT ![c] = w]
          PROVE  Attended'
      <4>1. SleepersAreListed'
        BY <1>0, <3>1, <3>2 DEF SleepersAreListed, TypeOK
      <4>2. \A n \in DOMAIN stream : ~(n >= Next1(stream))
        BY DEF Next1, TypeOK
      <4>3. waiter[w].wake = Next1(stream)
        BY <3>2
      <4>. QED  BY <1>0, <2>1, <3>2, <4>1, <4>2, <4>3 DEF Attended, NoSleeperForgotten, Waits, TypeOK
    <3>3. ASSUME NEW w \in Waiter \ UNION {listed[q] : q \in Room},
                 waiter' = [waiter EXCEPT ![w] = [since |-> since[c], wake |-> Next1(stream)]],
                 listed' = [listed EXCEPT ![Home[c]] = @ \cup {w}],
                 at' = [at EXCEPT ![c] = w]
          PROVE  Attended'
      <4>1. Home[c] \in Room /\ \A q \in Client : Home[q] \in Room
        BY HomeAssumption
      <4>2. \A q \in Client : at[q] # None => at[q] # w /\ at[q] \in Waiter
        <5>1. \A q \in Client : at[q] # None => at[q] \in listed[Home[q]]
          BY <1>0 DEF SleepersAreListed
        <5>2. \A q \in Client : w \notin listed[Home[q]]
          BY <3>3, <4>1
        <5>3. \A q \in Client : at[q] # None => at[q] \in Waiter
          BY DEF TypeOK
        <5>. QED  BY <5>1, <5>2, <5>3
      <4>3. at'[c] = w /\ waiter'[w].since = since[c] /\ waiter'[w].wake = Next1(stream)
            /\ w \in listed'[Home[c]]
        BY <3>3, <4>1 DEF TypeOK
      <4>4. \A q \in Client \ {c} : at'[q] = at[q]
        BY <3>3 DEF TypeOK
      <4>5. \A v \in Waiter \ {w} : waiter'[v] = waiter[v]
        BY <3>3 DEF TypeOK
      <4>6. \A q \in Room : listed[q] \subseteq listed'[q]
        BY <3>3 DEF TypeOK
      <4>7. SleepersAreListed'
        BY <1>0, <3>1, <4>1, <4>2, <4>3, <4>4, <4>5, <4>6 DEF SleepersAreListed
      <4>8. \A n \in DOMAIN stream : ~(n >= Next1(stream))
        BY DEF Next1, TypeOK
      <4>. QED  BY <1>0, <2>1, <4>2, <4>3, <4>4, <4>5, <4>7, <4>8
                DEF Attended, NoSleeperForgotten, Waits
    <3>4. CASE UNCHANGED <<waiter, listed, at>>
      <4>1. SleepersAreListed'
        BY <1>0, <3>1, <3>4 DEF SleepersAreListed
      <4>. QED  BY <1>0, <2>1, <3>4, <4>1 DEF Attended, NoSleeperForgotten, Waits
    <3>5. Joinable(c, Next1(stream)) \subseteq
             {w \in Waiter : /\ w \in listed[Home[c]]
                             /\ waiter[w] = [since |-> since[c], wake |-> Next1(stream)]}
      BY HomeAssumption DEF Joinable, TypeOK
    <3>. QED  BY <2>3, <3>2, <3>3, <3>4, <3>5 DEF Register
  <2>4. Respond(c) \/ Register(c, Next1(stream))
    BY <1>5 DEF Sync
  <2>. QED  BY <2>2, <2>3, <2>4
\* A client that stops waiting.
<1>6. ASSUME NEW c \in Client, Leave({c}), UNCHANGED <<storage, waiter>>,
             \A q \in Client \ {c} : since'[q] = since[q]
      PROVE  Attended'
  <2>1. \A q \in Client : at'[q] # None => /\ q # c /\ at'[q] = at[q] /\ at[q] # None
                                          /\ at'[q] \in listed'[Home[q]]
    BY <1>0, <1>6, LeaveListedRest
  <2>2. SleepersAreListed'
    BY <1>0, <1>6, <2>1 DEF SleepersAreListed
  <2>. QED  BY <1>0, <1>6, <2>1, <2>2 DEF Attended, NoSleeperForgotten, Waits, storage
<1>7. ASSUME NEW c \in Client, Timeout(c) PROVE Attended'
  <2>1. PICK lost \in SUBSET {c}, k \in Pages : Answer(stream, {c}, lost, k)
    BY <1>7 DEF Timeout
  <2>2. \A q \in Client \ {c} : since'[q] = since[q]
    BY <2>1, AnswerOthers
  <2>. QED  BY <1>6, <1>7, <2>2 DEF Timeout
<1>8. ASSUME NEW c \in Client, Hangup(c) PROVE Attended'
  BY <1>6, <1>8 DEF Hangup, clients
<1>9. ASSUME UNCHANGED <<stream, wakes, dropped, polling, clients>> PROVE Attended'
  BY <1>9 DEF Attended, SleepersAreListed, NoSleeperForgotten, Waits, polling, clients
<1>. QED  BY <1>1, <1>2, <1>3, <1>4, <1>5, <1>7, <1>8, <1>9
          DEF Next, OpenBatch, CloseBatch, vars, storage

\* A request sleeps past an event it waits for only while the event's batch
\* runs or when that batch failed, and a commit always finds it.
THEOREM NobodyForgotten == Spec => []NoSleeperForgotten
<1>1. Init => Attended
  BY DEF Init, Attended, SleepersAreListed, NoSleeperForgotten, Waits
<1>2. Attended => NoSleeperForgotten
  BY DEF Attended
<1>. QED  BY <1>1, <1>2, AttendedStep, Typing, PTL DEF Spec

\* A sleeping request stays in a waiter that commits look at.
THEOREM SleepersListed == Spec => []SleepersAreListed
<1>1. Init => Attended
  BY DEF Init, Attended, SleepersAreListed, NoSleeperForgotten, Waits
<1>2. Attended => SleepersAreListed
  BY DEF Attended
<1>. QED  BY <1>1, <1>2, AttendedStep, Typing, PTL DEF Spec

-----------------------------------------------------------------------------
(* A wake-up brings news. *)

\* A request does not wait for what its client has read, and a batch wakes for
\* what it has committed.
WaitsAhead ==
    /\ \A c \in Client : at[c] # None => since[c] <= waiter[at[c]].wake
    /\ \A b \in Batch : wakes[b] \subseteq DOMAIN stream

\* Those still asleep after a wake-up wait for what they waited for.
LEMMA WakeKeepsWaits ==
    ASSUME TypeOK, Attended, WaitsAhead, NEW s, NEW news, Wake(s, news),
           NEW c \in Client, at'[c] # None
    PROVE  since'[c] <= waiter'[at'[c]].wake
<1>1. /\ at'[c] = at[c] /\ at[c] # None /\ waiter' = waiter
      /\ waiter'[at'[c]].since = since'[c]
  BY WakeAttended DEF Attended
<1>2. waiter[at[c]].since = since[c]
  BY <1>1 DEF Attended, SleepersAreListed
<1>. QED  BY <1>1, <1>2 DEF WaitsAhead

\* A request that registers waits for events its client has not read.
LEMMA RegisterAhead ==
    ASSUME TypeOK, Attended, WaitsAhead, NEW c \in Client, NEW wake \in Nat,
           since[c] <= wake, Register(c, wake), at[c] = None
    PROVE  \A q \in Client : at'[q] # None => since'[q] <= waiter'[at'[q]].wake
<1>1. UNCHANGED since /\ Home[c] \in Room /\ \A q \in Client : Home[q] \in Room
  BY HomeAssumption DEF Register, clients
<1>2. \A q \in Client : at[q] # None => at[q] \in Waiter /\ at[q] \in listed[Home[q]]
  BY DEF Attended, SleepersAreListed, TypeOK
<1>3. CASE \E w \in Joinable(c, wake) : at' = [at EXCEPT ![c] = w] /\ UNCHANGED <<waiter, listed>>
  <2>1. PICK w \in Joinable(c, wake) : at' = [at EXCEPT ![c] = w] /\ UNCHANGED <<waiter, listed>>
    BY <1>3
  <2>2. waiter[w].wake = wake
    BY <2>1 DEF Joinable
  <2>3. at'[c] = w /\ \A q \in Client \ {c} : at'[q] = at[q]
    BY <2>1 DEF TypeOK
  <2>. QED  BY <1>1, <2>1, <2>2, <2>3 DEF WaitsAhead
<1>4. CASE \E w \in Waiter \ UNION {listed[q] : q \in Room} :
              /\ waiter' = [waiter EXCEPT ![w] = [since |-> since[c], wake |-> wake]]
              /\ at' = [at EXCEPT ![c] = w]
  <2>1. PICK w \in Waiter \ UNION {listed[q] : q \in Room} :
              /\ waiter' = [waiter EXCEPT ![w] = [since |-> since[c], wake |-> wake]]
              /\ at' = [at EXCEPT ![c] = w]
    BY <1>4
  <2>2. waiter'[w].wake = wake /\ \A v \in Waiter \ {w} : waiter'[v] = waiter[v]
    BY <2>1 DEF TypeOK
  <2>3. at'[c] = w /\ \A q \in Client \ {c} : at'[q] = at[q]
    BY <2>1 DEF TypeOK
  <2>4. \A q \in Client : at[q] # None => at[q] # w
    BY <1>1, <1>2, <2>1
  <2>. QED  BY <1>1, <1>2, <2>2, <2>3, <2>4 DEF WaitsAhead
<1>5. CASE UNCHANGED <<waiter, listed, at>>
  BY <1>1, <1>5 DEF WaitsAhead
<1>. QED  BY <1>3, <1>4, <1>5 DEF Register

LEMMA WaitsAheadStep == TypeOK /\ Attended /\ WaitsAhead /\ [Next]_vars => WaitsAhead'
<1> SUFFICES ASSUME TypeOK, Attended, WaitsAhead, [Next]_vars PROVE WaitsAhead'
  OBVIOUS
<1>0. SleepersAreListed
  BY DEF Attended
<1>1. ASSUME NEW r \in Room, NEW state \in BOOLEAN, Write(r, state) PROVE WaitsAhead'
  <2>1. Wake(stream', {Next1(stream)}) /\ Commits(r, state) /\ wakes' = wakes
    BY <1>1 DEF Write
  <2>2. DOMAIN stream \subseteq DOMAIN stream'
    BY <2>1, Appended
  <2>3. \A c \in Client : at'[c] # None => since'[c] <= waiter'[at'[c]].wake
    BY <2>1, WakeKeepsWaits
  <2>. QED  BY <2>1, <2>2, <2>3 DEF WaitsAhead
<1>2. ASSUME NEW b \in Batch, BatchWrite(b) PROVE WaitsAhead'
  <2>1. /\ batch[b].room \in Room /\ Commits(batch[b].room, FALSE)
        /\ UNCHANGED <<polling, clients>>
        /\ wakes' = [wakes EXCEPT ![b] = @ \cup {Next1(stream)}]
    BY <1>2, WritingHasRoom DEF BatchWrite
  <2>2. DOMAIN stream \subseteq DOMAIN stream' /\ Next1(stream) \in DOMAIN stream'
    BY <2>1 DEF Commits, Next1, TypeOK
  <2>3. \A q \in Batch : wakes'[q] \subseteq wakes[q] \cup {Next1(stream)}
    BY <2>1 DEF TypeOK
  <2>. QED  BY <2>1, <2>2, <2>3 DEF WaitsAhead, polling, clients
<1>3. ASSUME NEW b \in Batch, WakeBatch(b) PROVE WaitsAhead'
  <2>1. Wake(stream, wakes[b]) /\ stream' = stream /\ wakes' = [wakes EXCEPT ![b] = {}]
    BY <1>3 DEF WakeBatch
  <2>2. \A c \in Client : at'[c] # None => since'[c] <= waiter'[at'[c]].wake
    BY <2>1, WakeKeepsWaits
  <2>. QED  BY <2>1, <2>2 DEF WaitsAhead, TypeOK
<1>4. ASSUME NEW b \in Batch, FailBatch(b) PROVE WaitsAhead'
  BY <1>4 DEF FailBatch, WaitsAhead, polling, clients, TypeOK
<1>5. ASSUME NEW c \in Client, Sync(c) PROVE WaitsAhead'
  <2>1. at[c] = None /\ UNCHANGED <<stream, wakes>>
    BY <1>5 DEF Sync, storage
  <2>2. since[c] \in Nat /\ Next1(stream) \in Nat
    BY DEF TypeOK, Next1
  <2>3. CASE Respond(c)
    <3>1. PICK lost \in SUBSET {c}, k \in Pages : Answer(stream, {c}, lost, k)
      BY <2>3 DEF Respond
    <3>2. \A q \in Client : at[q] # None => since'[q] = since[q]
      BY <2>1, <3>1, AnswerOthers
    <3>. QED  BY <2>1, <2>3, <3>2 DEF Respond, WaitsAhead
  <2>4. CASE since[c] <= Next1(stream) /\ Register(c, Next1(stream))
    BY <2>1, <2>2, <2>4, RegisterAhead DEF WaitsAhead
  <2>. QED  BY <1>5, <2>2, <2>3, <2>4 DEF Sync
\* A client that stops waiting.
<1>6. ASSUME NEW c \in Client, Leave({c}), UNCHANGED <<storage, waiter>>,
             \A q \in Client \ {c} : since'[q] = since[q]
      PROVE  WaitsAhead'
  <2>1. \A q \in Client : at'[q] # None => q # c /\ at'[q] = at[q] /\ at[q] # None
    BY <1>0, <1>6, LeaveListedRest
  <2>. QED  BY <1>6, <2>1 DEF WaitsAhead, storage
<1>7. ASSUME NEW c \in Client, Timeout(c) PROVE WaitsAhead'
  <2>1. PICK lost \in SUBSET {c}, k \in Pages : Answer(stream, {c}, lost, k)
    BY <1>7 DEF Timeout
  <2>2. \A q \in Client \ {c} : since'[q] = since[q]
    BY <2>1, AnswerOthers
  <2>. QED  BY <1>6, <1>7, <2>2 DEF Timeout
<1>8. ASSUME NEW c \in Client, Hangup(c) PROVE WaitsAhead'
  BY <1>6, <1>8 DEF Hangup, clients
<1>9. ASSUME UNCHANGED <<stream, wakes, polling, clients>> PROVE WaitsAhead'
  BY <1>9 DEF WaitsAhead, polling, clients
<1>. QED  BY <1>1, <1>2, <1>3, <1>4, <1>5, <1>7, <1>8, <1>9
          DEF Next, OpenBatch, CloseBatch, vars, storage

\* Who is ended by a wake-up slept for one of the events it is for, and is
\* answered with a token behind it.
LEMMA WakeIsNews ==
    ASSUME TypeOK, WaitsAhead, NEW s \in Seq(Event), NEW news \in SUBSET DOMAIN s,
           Wake(s, news), NEW c \in Client, at[c] # None, at'[c] = None
    PROVE  served'[Home[c]] > since[c]
<1>1. PICK lost \in SUBSET Sleepers(s, news), k \in Pages :
           Answer(s, Sleepers(s, news), lost, k)
  BY DEF Wake
<1>2. c \in Sleepers(s, news)
  BY DEF Wake, Leave
<1>3. PICK n \in news : n >= waiter[at[c]].wake
  BY <1>2 DEF Sleepers
<1>4. served'[Home[c]] = Next1(s)
  BY <1>1, <1>2, HomeAssumption DEF Answer
<1>5. since[c] <= waiter[at[c]].wake /\ since[c] \in Nat /\ waiter[at[c]].wake \in Nat
  BY DEF WaitsAhead, TypeOK
<1>6. n \in Nat /\ n < Next1(s) /\ Next1(s) \in Nat
  BY DEF Next1
<1>. QED  BY <1>3, <1>4, <1>5, <1>6

\* A request that a commit or a batch ends is answered with a later token than it
\* came with, whoever shares its waiter and whatever it registered to wait for.
THEOREM NewsForTheWoken == Spec => WakesBringNews
<1> DEFINE Rewarded ==
    \A c \in Client :
       at[c] # None /\ at'[c] = None /\ (stream' # stream \/ batch' # batch)
           => served'[Home[c]] > since[c]
<1>1. TypeOK /\ WaitsAhead /\ [Next]_vars => [Rewarded]_vars
  <2> SUFFICES ASSUME TypeOK, WaitsAhead, Next PROVE Rewarded
    OBVIOUS
  <2>1. ASSUME NEW r \in Room, NEW state \in BOOLEAN, Write(r, state) PROVE Rewarded
    <3>1. Commits(r, state) /\ Wake(stream', {Next1(stream)})
      BY <2>1 DEF Write
    <3>2. stream' \in Seq(Event) /\ {Next1(stream)} \in SUBSET DOMAIN stream'
      BY <3>1, Appended DEF Commits, Next1, TypeOK
    <3>. QED  BY <3>1, <3>2, WakeIsNews
  <2>2. ASSUME NEW b \in Batch, WakeBatch(b) PROVE Rewarded
    <3>1. Wake(stream, wakes[b]) /\ stream \in Seq(Event) /\ wakes[b] \in SUBSET DOMAIN stream
      BY <2>2 DEF WakeBatch, WaitsAhead, TypeOK
    <3>. QED  BY <3>1, WakeIsNews
  <2>3. ASSUME UNCHANGED at \/ UNCHANGED <<stream, batch>> PROVE Rewarded
    BY <2>3
  <2>. QED  BY <2>1, <2>2, <2>3
            DEF Next, OpenBatch, BatchWrite, CloseBatch, FailBatch, Sync, Timeout, Hangup,
                storage, polling
<1>2. Init => Attended /\ WaitsAhead
  BY DEF Init, Attended, SleepersAreListed, NoSleeperForgotten, Waits, WaitsAhead
<1>3. Spec => [](TypeOK /\ Attended /\ WaitsAhead)
  BY <1>2, AttendedStep, WaitsAheadStep, Typing, PTL DEF Spec
<1>. QED  BY <1>1, <1>3, PTL DEF Spec, WakesBringNews
=============================================================================
