------------------------ MODULE CompleteNotification ------------------------
(***************************************************************************)
(* ApnsCompleteMessageDispatcher: which committed Matrix event of a        *)
(* provider turn is announced to the phone.  The last output of a turn is  *)
(* kept until the completion of the turn is committed; both maps and the   *)
(* set of handled keys are bounded and evict their oldest entry.           *)
(*                                                                         *)
(* An event is a record with its turn, its number in the turn and its      *)
(* kind.  Whether a session is muted is read when the notification is due  *)
(* and may differ each time; what the Cloud answers changes nothing here.  *)
(***************************************************************************)
EXTENDS Naturals, SequencesExt

CONSTANTS
    MaxHandled          \* MAX_HANDLED_KEYS, at least 1

ASSUME HandledAssumption == MaxHandled \in Nat \ {0}

VARIABLES
    pending,            \* last output of each unfinished turn, oldest turn first
    terminal,           \* how finished turns ended, oldest first
    handled,            \* events a notification was released for, oldest first
    released            \* history: [event, how] of every release

notes == <<pending, terminal, handled, released>>

Notifiable == {"text", "result"}
Completions == {"ok", "bad"}

-----------------------------------------------------------------------------
Evicted(s) == SubSeq(s, Len(s) - (IF Len(s) < MaxHandled THEN Len(s) ELSE MaxHandled) + 1, Len(s))

\* Map.set on a map from turns: an entry that exists keeps its place.
Remembered(s, r) ==
    IF \E i \in DOMAIN s : s[i].turn = r.turn
    THEN [i \in DOMAIN s |-> IF s[i].turn = r.turn THEN r ELSE s[i]]
    ELSE Evicted(Append(s, r))

OfTurn(s, t) == {s[i] : i \in {j \in DOMAIN s : s[j].turn = t}}

\* Map.delete: a turn has at most one entry.
Forgotten(s, t) ==
    LET places == {i \in DOMAIN s : s[i].turn = t}
    IN  IF places = {} THEN s ELSE RemoveAt(s, CHOOSE i \in places : TRUE)

\* dispatchNotifiableProviderOutputNotificationCandidate
Release(e) ==
    \/ /\ released' = released \cup {[event |-> e, how |-> "muted"]}
       /\ UNCHANGED handled
    \/ /\ e \notin ToSet(handled)
       /\ handled' = Evicted(Append(handled, e))
       /\ released' = released \cup {[event |-> e, how |-> "sent"]}
    \/ /\ e \in ToSet(handled)
       /\ UNCHANGED <<handled, released>>

NoRelease == UNCHANGED <<handled, released>>

\* Fault: how the turn ended is not looked at.
WhateverEnded(e) == TRUE

\* Fault: the candidate is deleted before it is read.
CandidatesDeleted(e) == OfTurn(Forgotten(pending, e.turn), e.turn)

Succeeded(e) == e.kind = "ok"

Candidates(e) == OfTurn(pending, e.turn)

\* releaseProviderTurnCompletion
CompletionAnnounced(e) ==
    /\ terminal' = Remembered(terminal, [turn |-> e.turn, ok |-> Succeeded(e)])
    /\ pending' = Forgotten(pending, e.turn)
    /\ IF Succeeded(e) /\ Candidates(e) # {}
       THEN \E c \in Candidates(e) : Release(c)
       ELSE NoRelease

\* dispatchCommittedProviderOutputMatrixEvent
OutputAnnounced(e) ==
    /\ UNCHANGED terminal
    /\ IF OfTurn(terminal, e.turn) = {}
       THEN pending' = Remembered(pending, e) /\ NoRelease
       ELSE /\ UNCHANGED pending
            /\ IF \E r \in OfTurn(terminal, e.turn) : r.ok THEN Release(e) ELSE NoRelease

\* dispatchCommittedMatrixEvent
Announced(e) ==
    \/ e.kind \in Completions /\ CompletionAnnounced(e)
    \/ e.kind \in Notifiable /\ OutputAnnounced(e)
    \/ e.kind \notin Completions \cup Notifiable /\ UNCHANGED notes

NothingAnnounced ==
    pending = <<>> /\ terminal = <<>> /\ handled = <<>> /\ released = {}

\* A Host that starts has forgotten everything but what it sent.
NotesForgotten ==
    pending' = <<>> /\ terminal' = <<>> /\ handled' = <<>> /\ UNCHANGED released
=============================================================================
