------------------------------ MODULE RoomSync ------------------------------
(***************************************************************************)
(* How clients follow a room: the Host's own Matrix storage                *)
(* (host-service/routec-matrix-storage-adapter.mjs), its event stream and  *)
(* the long-polling /sync requests that wait on it.                        *)
(*                                                                         *)
(* Every event of every room gets the next number of one stream.  A client *)
(* keeps the number it has read up to and asks for what came after; when   *)
(* there is nothing, its request sleeps in a waiter until an event of the  *)
(* room is committed.  Writes outside a batch wake the waiters at once; a  *)
(* batch (the provider's output, server.mjs) makes its events readable one *)
(* by one and wakes only when all its callbacks are through.               *)
(***************************************************************************)
EXTENDS Naturals, Sequences, FiniteSets

CONSTANTS
    Room,
    Client,      \* browser tabs and apps, each with one /sync request at a time
    Home,        \* the room each client follows
    Batch,       \* write batches that may run at the same time
    Waiter,      \* identities of waiters
    None,
    Limit,       \* timeline limit of a request
    MaxWaiters,  \* waiters per room (MAX_MATRIX_SYNC_LONG_POLL_WAITERS_PER_ROOM)
    MaxSeq       \* bound: events in the stream

ASSUME HomeAssumption == Home \in [Client -> Room]
ASSUME NoneAssumption == None \notin Waiter \cup Room
ASSUME LimitAssumption == Limit \in Nat \ {0} /\ MaxWaiters \in Nat \ {0} /\ MaxSeq \in Nat

VARIABLES
    stream,  \* the committed events: matrix_events by stream_seq
    batch,   \* the room each batch writes to, and whether it is still writing
    wakes,   \* syncWakeCandidates of each batch
    waiter,  \* since and wakeSeq of each waiter
    listed,  \* routeCMatrixSyncWaitersByKey: the waiters a commit looks at
    at,      \* the waiter each client's request sleeps in
    served,  \* routeCMatrixSyncLastServedNextSeqByKey
    since,   \* the client's token; 0 before its first answer
    seen,    \* history: events the client was given
    gap,     \* history: events the client was told it was not given
    dropped  \* history: events of batches that failed after committing them

storage == <<stream, batch, wakes, dropped>>
polling == <<waiter, listed, at, served>>
clients == <<since, seen, gap>>
vars == <<storage, polling, clients>>

Event == [room : Room, state : BOOLEAN]

Next1(s) == Len(s) + 1

\* Timeline events of a room in the stream (state events are not among them).
Timeline(s, r) == {n \in DOMAIN s : s[n].room = r /\ ~s[n].state}

-----------------------------------------------------------------------------
(* Answering a request *)

\* Fault: the event the token names is skipped.
UnreadAfter(s, c) == {n \in Timeline(s, Home[c]) : n > since[c]}

\* Timeline events at or after the client's token.
Unread(s, c) == {n \in Timeline(s, Home[c]) : n >= since[c]}

\* The newest events of S, at most k of them.
NewestOf(S, k) == {n \in S : Cardinality({i \in S : i > n}) < k}

\* Fault: a full page is never reported as limited.
NeverMissing(s, c, page) == {}

\* What the answer tells the client it does not hold (limited, prev_batch).
Missing(s, c, page) == Unread(s, c) \ page

\* The size of the page: the request's limit, or less when the answer would
\* exceed the transfer budget.
Pages == 1 .. Limit

\* The requests of the clients in S are answered from the stream s; the
\* connections of those in lost break before they read it.
Answer(s, S, lost, k) ==
    LET page == [c \in S |-> NewestOf(Unread(s, c), k)]
        got  == S \ lost
    IN  /\ since' = [c \in Client |-> IF c \in got THEN Next1(s) ELSE since[c]]
        /\ seen' = [c \in Client |-> IF c \in got THEN seen[c] \cup page[c] ELSE seen[c]]
        /\ gap' = [c \in Client |-> IF c \in got THEN gap[c] \cup Missing(s, c, page[c])
                                    ELSE gap[c]]
        /\ served' = [r \in Room |-> IF \E c \in S : Home[c] = r THEN Next1(s)
                                     ELSE served[r]]

\* Fault: the waiter is forgotten with the first request that leaves it.
LeaveListed(S) ==
    /\ at' = [c \in Client |-> IF c \in S THEN None ELSE at[c]]
    /\ listed' = [r \in Room |-> listed[r] \ {at[c] : c \in S}]

\* The requests of S leave their waiters; an empty waiter is forgotten.
Leave(S) ==
    /\ at' = [c \in Client |-> IF c \in S THEN None ELSE at[c]]
    /\ listed' = [r \in Room |-> {w \in listed[r] : \E c \in Client \ S : at[c] = w}]

\* Fault: an event wakes the waiters of its room whatever they wait for.
SleepersAny(s, news) ==
    {c \in Client : /\ at[c] \in listed[Home[c]]
                    /\ \E n \in news : s[n].room = Home[c]}

\* Fault: the event a waiter waits for does not wake it.
SleepersAfter(s, news) ==
    {c \in Client : /\ at[c] \in listed[Home[c]]
                    /\ \E n \in news : s[n].room = Home[c] /\ n > waiter[at[c]].wake}

\* Who is woken by the events news.
Sleepers(s, news) ==
    {c \in Client : /\ at[c] \in listed[Home[c]]
                    /\ \E n \in news : s[n].room = Home[c] /\ n >= waiter[at[c]].wake}

\* Waking answers every request in the waiters the events reach.
Wake(s, news) ==
    LET woken == Sleepers(s, news)
    IN  /\ \E lost \in SUBSET woken, k \in Pages : Answer(s, woken, lost, k)
        /\ Leave(woken)
        /\ UNCHANGED waiter

-----------------------------------------------------------------------------
(* Writing *)

Commits(r, state) == stream' = Append(stream, [room |-> r, state |-> state])

\* A write outside a batch is a transaction; its waiters wake right after it.
Write(r, state) ==
    /\ Len(stream) < MaxSeq
    /\ Commits(r, state)
    /\ Wake(stream', {Next1(stream)})
    /\ UNCHANGED <<batch, wakes, dropped>>

Idle == [room |-> None, writing |-> FALSE]

\* runRouteCMatrixStorageWriteBatch starts.
OpenBatch(b, r) ==
    /\ batch[b] = Idle
    /\ batch' = [batch EXCEPT ![b] = [room |-> r, writing |-> TRUE]]
    /\ UNCHANGED <<stream, wakes, dropped, polling, clients>>

\* One write of a batch: committed and readable, but nobody is woken yet.
BatchWrite(b) ==
    /\ batch[b].writing /\ Len(stream) < MaxSeq
    /\ Commits(batch[b].room, FALSE)
    /\ wakes' = [wakes EXCEPT ![b] = @ \cup {Next1(stream)}]
    /\ UNCHANGED <<batch, dropped, polling, clients>>

\* All writes are through; the callbacks follow, a request to the Cloud among them.
CloseBatch(b) ==
    /\ batch[b].writing
    /\ batch' = [batch EXCEPT ![b].writing = FALSE]
    /\ UNCHANGED <<stream, wakes, dropped, polling, clients>>

\* The callbacks are through.
WakeBatch(b) ==
    /\ batch[b].room # None /\ ~batch[b].writing
    /\ Wake(stream, wakes[b])
    /\ batch' = [batch EXCEPT ![b] = Idle]
    /\ wakes' = [wakes EXCEPT ![b] = {}]
    /\ UNCHANGED <<stream, dropped>>

\* A write or a callback throws: what was committed stays, the rest of the
\* batch is not written, and nobody is woken.
FailBatch(b) ==
    /\ batch[b].room # None
    /\ dropped' = dropped \cup wakes[b]
    /\ batch' = [batch EXCEPT ![b] = Idle]
    /\ wakes' = [wakes EXCEPT ![b] = {}]
    /\ UNCHANGED <<stream, polling, clients>>

-----------------------------------------------------------------------------
(* Polling *)

Respond(c) ==
    /\ \E lost \in SUBSET {c}, k \in Pages : Answer(stream, {c}, lost, k)
    /\ UNCHANGED <<waiter, listed, at>>

HasRoom(r) == Cardinality(listed[r]) < MaxWaiters

\* Waiters another request with the same since and wakeSeq may join.
Joinable(c, wake) ==
    {w \in listed[Home[c]] : waiter[w] = [since |-> since[c], wake |-> wake]}

\* registerRouteCMatrixSyncLongPoll: join a recent waiter, or open one, or be
\* refused (429).
Register(c, wake) ==
    LET r == Home[c]
    IN  /\ UNCHANGED <<served, clients>>
        /\ \/ \E w \in Joinable(c, wake) :
                  /\ at' = [at EXCEPT ![c] = w]
                  /\ UNCHANGED <<waiter, listed>>
           \/ /\ HasRoom(r)
              /\ \E w \in Waiter \ UNION {listed[q] : q \in Room} :
                    /\ waiter' = [waiter EXCEPT ![w] = [since |-> since[c], wake |-> wake]]
                    /\ listed' = [listed EXCEPT ![r] = @ \cup {w}]
                    /\ at' = [at EXCEPT ![c] = w]
           \/ ~HasRoom(r) /\ UNCHANGED <<waiter, listed, at>>

\* A client that just caught up and is already behind by recent events waits a
\* moment for more of them.
SmallLag(c) == served[Home[c]] = since[c] /\ Unread(stream, c) # {}

\* GET /sync: a first request and one that does not want to wait are answered
\* at once, and so is one with a stale token unless it lags only a little.
Sync(c) ==
    /\ at[c] = None
    /\ UNCHANGED storage
    /\ \/ Respond(c)
       \/ /\ since[c] # 0 /\ since[c] < Next1(stream) /\ SmallLag(c)
          /\ Register(c, Next1(stream))
       \/ /\ since[c] = Next1(stream)
          /\ Register(c, since[c])

\* The request's timer fires.
Timeout(c) ==
    /\ at[c] # None
    /\ \E lost \in SUBSET {c}, k \in Pages : Answer(stream, {c}, lost, k)
    /\ Leave({c})
    /\ UNCHANGED <<storage, waiter>>

\* The client goes away while its request waits.
Hangup(c) ==
    /\ at[c] # None
    /\ Leave({c})
    /\ UNCHANGED <<storage, waiter, served, clients>>

-----------------------------------------------------------------------------
Init ==
    /\ stream = <<>>
    /\ batch = [b \in Batch |-> Idle] /\ wakes = [b \in Batch |-> {}]
    /\ waiter = [w \in Waiter |-> [since |-> 0, wake |-> 0]]
    /\ listed = [r \in Room |-> {}] /\ at = [c \in Client |-> None]
    /\ served = [r \in Room |-> 0]
    /\ since = [c \in Client |-> 0]
    /\ seen = [c \in Client |-> {}] /\ gap = [c \in Client |-> {}]
    /\ dropped = {}

Next ==
    \/ \E r \in Room, state \in BOOLEAN : Write(r, state)
    \/ \E b \in Batch, r \in Room : OpenBatch(b, r)
    \/ \E b \in Batch : BatchWrite(b) \/ CloseBatch(b) \/ WakeBatch(b) \/ FailBatch(b)
    \/ \E c \in Client : Sync(c) \/ Timeout(c) \/ Hangup(c)

Spec == Init /\ [][Next]_vars

\* A batch whose callbacks return goes on; timers are not relied on.
FairSpec == Spec /\ \A b \in Batch : WF_vars(CloseBatch(b)) /\ WF_vars(WakeBatch(b))

-----------------------------------------------------------------------------
(* Properties *)

\* Every variable keeps its type, an idle batch writes to no room, and no
\* waiter is listed that does not exist.
TypeOK ==
    /\ stream \in Seq(Event)
    /\ batch \in [Batch -> [room : Room, writing : BOOLEAN] \cup {Idle}]
    /\ wakes \in [Batch -> SUBSET Nat] /\ dropped \in SUBSET Nat
    /\ waiter \in [Waiter -> [since : Nat, wake : Nat]]
    /\ listed \in [Room -> SUBSET Waiter] /\ at \in [Client -> Waiter \cup {None}]
    /\ served \in [Room -> Nat] /\ since \in [Client -> Nat]
    /\ seen \in [Client -> SUBSET Nat] /\ gap \in [Client -> SUBSET Nat]

\* A token is honest: of everything before it in its room, each event was given
\* to the client or reported missing, never both, through lost answers, limits,
\* batches, wakes and timeouts.
TokenIsHonest ==
    \A c \in Client :
        /\ seen[c] \cup gap[c] = {n \in Timeline(stream, Home[c]) : n < since[c]}
        /\ seen[c] \cap gap[c] = {}

Waits(c, n) == at[c] # None /\ stream[n].room = Home[c] /\ n >= waiter[at[c]].wake

\* No lost wake-up: a request sleeps past an event it waits for only while the
\* batch that committed the event is still running, or when it failed.
NoSleeperForgotten ==
    \A c \in Client, n \in DOMAIN stream :
        Waits(c, n) => n \in dropped \/ \E b \in Batch : n \in wakes[b]

\* A sleeping request stays where a commit will find it, with others that have
\* read as far as it has, however requests joined, left and timed out.
SleepersAreListed ==
    \A c \in Client :
        at[c] # None => /\ at[c] \in listed[Home[c]]
                        /\ waiter[at[c]].since = since[c]

\* A wake-up is never for nothing: a request ended by a commit or a batch is
\* answered with a later token than it came with.
WakesBringNews ==
    [][\A c \in Client :
          at[c] # None /\ at'[c] = None /\ (stream' # stream \/ batch' # batch)
              => served'[Home[c]] > since[c]]_vars

\* Output that a batch wrote reaches the clients that sleep for it without the
\* help of their timers, unless the batch fails.
NewsArrives ==
    \A c \in Client, n \in 1 .. MaxSeq :
        (n \in DOMAIN stream /\ Waits(c, n))
            ~> (n \in dropped \/ at[c] = None)
=============================================================================
