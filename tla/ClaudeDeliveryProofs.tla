------------------------ MODULE ClaudeDeliveryProofs ------------------------
(***************************************************************************)
(* The outbox closed with the Claude adapter implements the open outbox,   *)
(* so everything proved about the outbox holds with the adapter.           *)
(***************************************************************************)
EXTENDS ClaudeDelivery, SessionOutboxProofs

LEMMA RuntimeErrorIsOutboxStep == RuntimeError => [Next]_vars
BY DEF RuntimeError, Next, ProviderStep

LEMMA TurnIsOutboxStep ==
    ASSUME NEW status \in {"completed", "failed", "interrupted"}, TurnCompleted(status)
    PROVE  Next
BY DEF Next, ProviderStep

LEMMA ClaudeStepIsOutboxStep == [ClaudeNext]_allVars => [Next]_vars
<1> SUFFICES ASSUME [ClaudeNext]_allVars PROVE [Next]_vars
  OBVIOUS
<1>1. ASSUME NEW m \in Msg, User(m) PROVE [Next]_vars
  BY <1>1 DEF User, Next, UserStep
<1>2. ASSUME NEW m \in Msg, Watchdog(m) PROVE [Next]_vars
  BY <1>2 DEF Watchdog, Next, ProviderStep
<1>3. CASE Interrupt
  <2>1. (ready /\ prompt # None) \in BOOLEAN
    OBVIOUS
  <2> QED
    BY <1>3, <2>1, Zenon DEF Interrupt, Next, UserStep
<1>4. CASE Stop
  BY <1>4 DEF Stop, vars
<1>5. CASE Start
  BY <1>5 DEF Start, Next
<1>6. CASE Exit
  BY <1>6 DEF Exit, Next, ProviderStep
<1>7. CASE ModelRefused \/ BootstrapFails \/ PromptRejected
  BY <1>7, RuntimeErrorIsOutboxStep DEF ModelRefused, BootstrapFails, PromptRejected
<1>8. CASE BootstrapReady
  BY <1>8 DEF BootstrapReady, Next, ProviderStep
<1>9. CASE PromptFlushed
  BY <1>9 DEF PromptFlushed, Next, ProviderStep
<1>10. ASSUME NEW status \in {"completed", "failed", "interrupted"}, PromptEnds(status)
       PROVE  [Next]_vars
  BY <1>10, TurnIsOutboxStep DEF PromptEnds
<1>11. CASE PromptSettled
  BY <1>11, TurnIsOutboxStep DEF PromptSettled
<1>12. ASSUME NEW kind \in {"final", "tool", "other"}, Output(kind) PROVE [Next]_vars
  BY <1>12 DEF Output, Next, ProviderStep
<1>13. CASE UNCHANGED allVars
  BY <1>13 DEF allVars, vars
<1> QED
  BY <1>1, <1>2, <1>3, <1>4, <1>5, <1>6, <1>7, <1>8, <1>9, <1>10, <1>11, <1>12, <1>13
  DEF ClaudeNext, BootstrapEnds, PromptAnswered

\* Every behaviour of the outbox with the Claude adapter is one of the outbox.
THEOREM ClaudeImplementsOutbox == ClaudeSpec => Spec
<1>1. ClaudeInit => Init
  BY DEF ClaudeInit
<1> QED
  BY <1>1, ClaudeStepIsOutboxStep, PTL DEF ClaudeSpec, Spec

\* With the Claude adapter, too, a Matrix message is handed over at most once
\* and the messages of a session in their order.
THEOREM ClaudeDelivers == ClaudeSpec => [](AtMostOnce /\ InOrder)
BY ClaudeImplementsOutbox, HandedAtMostOnce, HandedInOrder, PTL

-----------------------------------------------------------------------------
(* The order of the prompts *)

\* What an adapter holds with p open and q behind it.
Holding(p, q) == IF p = None THEN q ELSE <<p>> \o q

\* What is left of an open prompt after its end.
StillOpen(ended) == IF ended THEN None ELSE prompt

AdapterTypes ==
    /\ queue \in Seq(Msg) /\ prompt \in Msg \cup {None}
    /\ ~present => ~alive /\ queue = <<>> /\ prompt = None

HoldingInv == TypeOK /\ AdapterTypes /\ (alive => Follows(Held, handed, epoch))

LEMMA HoldingIsOrder == AdapterKeepsOrder <=> (alive => Follows(Held, handed, epoch))
BY DEF AdapterKeepsOrder, Follows

LEMMA HoldingType ==
    ASSUME NEW p \in Msg \cup {None}, NEW q \in Seq(Msg)
    PROVE  Holding(p, q) \in Seq(Msg)
<1>1. CASE p = None
  BY <1>1 DEF Holding
<1>2. CASE p # None
  <2>1. <<p>> \in Seq(Msg) /\ Holding(p, q) = <<p>> \o q
    BY <1>2 DEF Holding
  <2> QED
    BY <2>1
<1> QED
  BY <1>1, <1>2

LEMMA MessageHanded ==
    ASSUME TypeOK, [Next]_vars
    PROVE  \/ handed' = handed /\ JustHanded = <<>>
           \/ \E m \in Msg, n \in Nat :
                 /\ handed' = Append(handed, [msg |-> m, session |-> epoch, seq |-> n])
                 /\ JustHanded = <<m>>
BY OneHandOff DEF JustHanded

\* What the step hands over joins what is held; the drain only moves its head.
LEMMA FeedHolds ==
    ASSUME TypeOK, [Next]_vars, AdapterTypes, NEW ended \in BOOLEAN, Feed(ended)
    PROVE  /\ queue' \in Seq(Msg) /\ prompt' \in Msg \cup {None}
           /\ Holding(prompt', queue') = Holding(StillOpen(ended), queue) \o JustHanded
<1> DEFINE open == StillOpen(ended)
<1>1. JustHanded \in Seq(Msg)
  <2>1. JustHanded = <<>> \/ \E m \in Msg : JustHanded = <<m>>
    BY MessageHanded
  <2>2. <<>> \in Seq(Msg) /\ \A m \in Msg : <<m>> \in Seq(Msg)
    OBVIOUS
  <2> QED
    BY <2>1, <2>2
<1>2. open \in Msg \cup {None} /\ queue \in Seq(Msg) /\ Waiting \in Seq(Msg)
  BY <1>1 DEF AdapterTypes, StillOpen, Waiting
<1>3. None \notin Msg
  BY MsgAssumption
<1>4. \/ /\ open = None /\ Waiting # <<>>
         /\ prompt' = Head(Waiting) /\ queue' = Tail(Waiting)
      \/ prompt' = open /\ queue' = Waiting
  BY DEF Feed, StillOpen
<1> HIDE DEF open
<1>5. CASE prompt' = open /\ queue' = Waiting
  <2>1. CASE open = None
    BY <1>2, <1>5, <2>1 DEF Holding, Waiting, open
  <2>2. CASE open # None
    <3>1. <<open>> \in Seq(Msg)
      BY <1>2, <2>2
    <3>2. (<<open>> \o queue) \o JustHanded = <<open>> \o (queue \o JustHanded)
      BY <1>1, <1>2, <3>1
    <3> QED
      BY <1>2, <1>5, <2>2, <3>2 DEF Holding, Waiting, open
  <2> QED
    BY <2>1, <2>2
<1>6. CASE /\ open = None /\ Waiting # <<>>
           /\ prompt' = Head(Waiting) /\ queue' = Tail(Waiting)
  <2>1. Head(Waiting) \in Msg /\ Tail(Waiting) \in Seq(Msg)
    BY <1>2, <1>6
  <2>2. <<Head(Waiting)>> \o Tail(Waiting) = Waiting
    BY <1>2, <1>6
  <2>3. prompt' # None
    BY <1>3, <1>6, <2>1
  <2> QED
    BY <1>6, <2>1, <2>2, <2>3 DEF Holding, Waiting, open
<1> QED
  BY <1>4, <1>5, <1>6

\* The end of the open prompt takes it from what is held.
LEMMA FeedKeepsOrder ==
    ASSUME HoldingInv, [Next]_vars, NEW ended \in BOOLEAN, Feed(ended),
           present' = present, alive' => alive, epoch' = epoch,
           present \/ (JustHanded = <<>> /\ ~ended)
    PROVE  HoldingInv'
<1>1. /\ queue \in Seq(Msg) /\ prompt \in Msg \cup {None} /\ handed \in Seq(HandOff)
      /\ epoch \in Nat /\ TypeOK
  BY DEF HoldingInv, AdapterTypes, TypeOK
<1>2. /\ queue' \in Seq(Msg) /\ prompt' \in Msg \cup {None}
      /\ Holding(prompt', queue') = Holding(StillOpen(ended), queue) \o JustHanded
  BY <1>1, FeedHolds DEF HoldingInv
<1>3. AdapterTypes'
  <2>1. CASE present
    BY <1>2, <2>1 DEF AdapterTypes
  <2>2. CASE ~present
    <3>1. JustHanded = <<>> /\ ~ended /\ queue = <<>> /\ prompt = None /\ ~alive
      BY <2>2 DEF HoldingInv, AdapterTypes
    <3>2. Waiting = <<>>
      BY <3>1 DEF Waiting
    <3>3. queue' = <<>> /\ prompt' = None
      BY <3>1, <3>2 DEF Feed
    <3> QED
      BY <1>2, <3>1, <3>3 DEF AdapterTypes
  <2> QED
    BY <2>1, <2>2
<1>4. ASSUME alive' PROVE Follows(Held', handed', epoch')
  <2> DEFINE kept == Holding(StillOpen(ended), queue)
  <2>1. Follows(Holding(prompt, queue), handed, epoch)
    BY <1>4 DEF HoldingInv, Held, Holding
  <2>2. StillOpen(ended) \in Msg \cup {None}
    BY <1>1 DEF StillOpen
  <2>3. kept \in Seq(Msg)
    BY <1>1, <2>2, HoldingType
  <2>4. Follows(kept, handed, epoch)
    <3>1. CASE StillOpen(ended) = prompt
      BY <2>1, <3>1
    <3>2. CASE StillOpen(ended) = None /\ prompt # None
      <4>1. /\ <<prompt>> \o queue \in Seq(Msg) /\ <<prompt>> \o queue # <<>>
            /\ Tail(<<prompt>> \o queue) = queue
        <5>1. prompt \in Msg
          BY <1>1, <3>2
        <5> QED
          BY <1>1, <5>1
      <4>2. Holding(prompt, queue) = <<prompt>> \o queue /\ kept = queue
        BY <3>2 DEF Holding
      <4> HIDE DEF kept
      <4> QED
        BY <1>1, <2>1, <4>1, <4>2, FollowsDropped
    <3> QED
      BY <3>1, <3>2 DEF StillOpen
  <2>5. Follows(kept \o JustHanded, handed', epoch)
    <3> HIDE DEF kept
    <3>1. CASE handed' = handed /\ JustHanded = <<>>
      <4>1. kept \o <<>> = kept
        BY <2>3
      <4> QED
        BY <2>4, <3>1, <4>1
    <3>2. ASSUME NEW m \in Msg, NEW n \in Nat,
                 handed' = Append(handed, [msg |-> m, session |-> epoch, seq |-> n]),
                 JustHanded = <<m>>
          PROVE  Follows(kept \o JustHanded, handed', epoch)
      BY <1>1, <2>3, <2>4, <3>2, FollowsHandOver
    <3> QED
      BY <1>1, <3>1, <3>2, MessageHanded
  <2>6. Held' = kept \o JustHanded
    BY <1>2 DEF Held, Holding
  <2> QED
    BY <2>5, <2>6
<1> QED
  BY <1>1, <1>3, <1>4, TypeStep DEF HoldingInv

LEMMA RestKeepsOrder ==
    ASSUME HoldingInv, [Next]_vars,
           UNCHANGED <<queue, prompt, handed, present, alive, epoch>>
    PROVE  HoldingInv'
<1>1. TypeOK'
  BY TypeStep DEF HoldingInv
<1> QED
  BY <1>1 DEF HoldingInv, AdapterTypes, Held

LEMMA RuntimeErrorLives == RuntimeError => UNCHANGED <<alive, present, epoch>>
BY DEF RuntimeError, AuthError, ProviderOutput, SameSession, vars

LEMMA HoldingStep == HoldingInv /\ [ClaudeNext]_allVars => HoldingInv'
<1> SUFFICES ASSUME HoldingInv, [ClaudeNext]_allVars PROVE HoldingInv'
  OBVIOUS
<1>1. [Next]_vars
  BY ClaudeStepIsOutboxStep
<1>2. TRUE \in BOOLEAN /\ FALSE \in BOOLEAN
  OBVIOUS
<1>3. alive \/ prompt # None => present
  BY DEF HoldingInv, AdapterTypes
<1>4. ASSUME NEW m \in Msg, User(m) PROVE HoldingInv'
  <2>1. Feed(FALSE) /\ UNCHANGED <<alive, present, epoch>>
    BY <1>4 DEF User, Receipt, CancelIntake, Enqueue, RunLocalCommand, CancelOutboxMessage,
                SameSession
  <2>2. present \/ JustHanded = <<>>
    BY <1>4 DEF User, Receipt, CancelIntake, Enqueue, RunLocalCommand, CancelOutboxMessage,
                JustHanded
  <2> QED
    BY <1>1, <1>2, <2>1, <2>2, FeedKeepsOrder
<1>5. ASSUME NEW m \in Msg, Watchdog(m) PROVE HoldingInv'
  <2>1. Feed(FALSE) /\ UNCHANGED <<alive, present, epoch>> /\ present
    BY <1>5 DEF Watchdog, WatchdogFires, SameSession
  <2> QED
    BY <1>1, <1>2, <2>1, FeedKeepsOrder
<1>6. CASE Interrupt \/ Stop \/ \E kind \in {"final", "tool", "other"} : Output(kind)
  <2>1. UNCHANGED <<queue, prompt, handed, present, alive, epoch>>
    BY <1>6 DEF Interrupt, InterruptSession, Stop, Output, ProviderOutput, NoDrain, SameSession,
                adapter, vars
  <2> QED
    BY <1>1, <2>1, RestKeepsOrder
<1>7. CASE Start
  <2>1. ~present /\ UNCHANGED <<queue, prompt, handed>> /\ present' /\ TypeOK'
    BY <1>1, <1>7, TypeStep DEF Start, StartSession, adapter, HoldingInv
  <2>2. queue' = <<>> /\ prompt' = None
    BY <2>1 DEF HoldingInv, AdapterTypes
  <2>3. Held' = <<>> /\ handed' \in Seq(HandOff) /\ <<>> \in Seq(Msg)
    BY <2>1, <2>2 DEF Held, TypeOK
  <2>4. Follows(Held', handed', epoch')
    BY <2>3, NothingFollows
  <2> QED
    BY <2>1, <2>2, <2>3, <2>4 DEF HoldingInv, AdapterTypes
<1>8. CASE Exit
  <2>1. queue' = <<>> /\ prompt' = None /\ ~alive' /\ <<>> \in Seq(Msg) /\ TypeOK'
    BY <1>1, <1>8, TypeStep DEF Exit, ProviderExit, HoldingInv
  <2> QED
    BY <2>1 DEF HoldingInv, AdapterTypes
<1>9. CASE ModelRefused \/ BootstrapFails \/ PromptRejected
  <2>1. Feed(FALSE) /\ UNCHANGED <<alive, present, epoch>> /\ present
    BY <1>3, <1>9, RuntimeErrorLives DEF ModelRefused, BootstrapFails, PromptRejected
  <2> QED
    BY <1>1, <1>2, <2>1, FeedKeepsOrder
<1>10. CASE PromptFlushed
  <2>1. Feed(FALSE) /\ UNCHANGED <<alive, present, epoch>> /\ present
    BY <1>3, <1>10 DEF PromptFlushed, ProviderOutput, SameSession, vars
  <2> QED
    BY <1>1, <1>2, <2>1, FeedKeepsOrder
<1>11. CASE BootstrapReady
  <2>1. Feed(TRUE) /\ UNCHANGED <<alive, present, epoch>> /\ present
    BY <1>11 DEF BootstrapReady, ProviderReady, SameSession
  <2> QED
    BY <1>1, <1>2, <2>1, FeedKeepsOrder
<1>12. ASSUME NEW status, TurnCompleted(status), Feed(TRUE) PROVE HoldingInv'
  <2>1. Feed(TRUE) /\ UNCHANGED <<alive, present, epoch>> /\ present
    BY <1>12 DEF TurnCompleted, SameSession
  <2> QED
    BY <1>1, <1>2, <2>1, FeedKeepsOrder
<1>13. CASE UNCHANGED allVars
  <2>1. UNCHANGED <<queue, prompt, handed, present, alive, epoch>>
    BY <1>13 DEF allVars, adapter, vars
  <2> QED
    BY <1>1, <2>1, RestKeepsOrder
<1> QED
  BY <1>4, <1>5, <1>6, <1>7, <1>8, <1>9, <1>10, <1>11, <1>12, <1>13
  DEF ClaudeNext, BootstrapEnds, PromptAnswered, PromptEnds, PromptSettled

\* The prompts follow the hand-offs: what the adapter holds are the last messages
\* it was handed in this session, in their order, for any number of messages and
\* sessions.
THEOREM PromptsFollowHandOffs == ClaudeSpec => []AdapterKeepsOrder
<1>1. ClaudeInit => HoldingInv
  <2> SUFFICES ASSUME ClaudeInit PROVE HoldingInv
    OBVIOUS
  <2>1. TypeOK /\ <<>> \in Seq(Msg)
    BY InitType DEF ClaudeInit
  <2> QED
    BY <2>1 DEF ClaudeInit, Init, HoldingInv, AdapterTypes
<1>2. HoldingInv => AdapterKeepsOrder
  BY HoldingIsOrder DEF HoldingInv
<1> QED
  BY <1>1, <1>2, HoldingStep, PTL DEF ClaudeSpec
=============================================================================
