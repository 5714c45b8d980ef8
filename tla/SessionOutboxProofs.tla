------------------------ MODULE SessionOutboxProofs ------------------------
(***************************************************************************)
(* Theorems of SessionOutbox, for every set of messages, either provider   *)
(* and any bounds: types; hand-off at most once and withdrawal; the order  *)
(* of hand-offs; the refinement of DeliveryPromise; that an ended message  *)
(* stays ended and was answered; that no drain is missed.                  *)
(***************************************************************************)
EXTENDS SessionOutbox, TLAPS, SequenceTheorems, WellFoundedInduction

-----------------------------------------------------------------------------
(* Facts about the helpers *)

\* What a drain hands over: one queued message the intake lets pass, behind no
\* other such message, and only when nothing is active.
LEMMA NextOutFact ==
    ASSUME NEW ob, NEW act, NEW d, NextOut(ob, act, d) # None
    PROVE  /\ NextOut(ob, act, d) \in Queued(ob)
           /\ Claimable(NextOut(ob, act, d))
           /\ act = None
           /\ \A m \in Queued(ob) :
                 Claimable(m) => ob[NextOut(ob, act, d)].seq <= ob[m].seq
<1> DEFINE first == First(ob, {m \in Queued(ob) : Claimable(m)})
<1>1. CanDrain(act, d) /\ first # {} /\ NextOut(ob, act, d) = CHOOSE m \in first : TRUE
  BY DEF NextOut
<1>2. NextOut(ob, act, d) \in first
  BY <1>1
<1> QED
  BY <1>1, <1>2 DEF First, CanDrain

\* The message a completion is attributed to is a message, or none.
LEMMA AttributedType == TypeOK => Attributed \in Msg \cup {None}
BY DEF Attributed, TypeOK

-----------------------------------------------------------------------------
(* Types *)

LEMMA SetStateType ==
    ASSUME NEW ob \in [Msg -> Entry], NEW m, NEW s \in MsgStates
    PROVE  SetState(ob, m, s) \in [Msg -> Entry]
BY DEF SetState, Entry, MsgStates

LEMMA DrainType ==
    ASSUME TypeOK, NEW ob \in [Msg -> Entry], NEW act \in Msg \cup {None},
           NEW pg \in BOOLEAN, NEW d \in DeliveryStates, Drain(ob, act, pg, d)
    PROVE  /\ outbox' \in [Msg -> Entry] /\ active' \in Msg \cup {None}
           /\ progress' \in BOOLEAN /\ delivery' \in DeliveryStates
           /\ intake' \in [Matrix -> IntakeStates] /\ handed' \in Seq(HandOff)
<1> DEFINE next == NextOut(ob, act, d)
           out  == Refused(ob, act, d)
<1>1. next \in Msg \cup {None}
  BY NextOutFact DEF Queued
<1>2. \A m \in Msg : ob[m] \in Entry /\ Dispatched(ob, m) \in Entry /\ Turned(ob, m) \in Entry
  BY DEF Dispatched, Turned, Entry, MsgStates
<1>3. outbox' \in [Msg -> Entry]
  BY <1>2 DEF Drain
<1>4. active' \in Msg \cup {None}
  BY <1>1 DEF Drain
<1>5. progress' \in BOOLEAN /\ delivery' \in DeliveryStates
  BY DEF Drain
<1>6. intake' \in [Matrix -> IntakeStates]
  BY DEF Drain, TypeOK, IntakeStates
<1>7. handed' \in Seq(HandOff)
  <2>1. CASE next = None
    BY <2>1 DEF Drain, TypeOK
  <2>2. CASE next # None
    <3>1. [msg |-> next, session |-> epoch, seq |-> ob[next].seq] \in HandOff
      BY <1>1, <2>2 DEF HandOff, TypeOK, Entry
    <3> QED
      BY <2>2, <3>1 DEF Drain, TypeOK
  <2> QED
    BY <2>1, <2>2
<1> QED
  BY <1>3, <1>4, <1>5, <1>6, <1>7

LEMMA NoDrainType ==
    ASSUME TypeOK, NEW ob \in [Msg -> Entry], NEW act \in Msg \cup {None},
           NEW pg \in BOOLEAN, NEW d \in DeliveryStates, NoDrain(ob, act, pg, d)
    PROVE  /\ outbox' \in [Msg -> Entry] /\ active' \in Msg \cup {None}
           /\ progress' \in BOOLEAN /\ delivery' \in DeliveryStates
           /\ intake' \in [Matrix -> IntakeStates] /\ handed' \in Seq(HandOff)
BY DEF NoDrain, TypeOK

LEMMA NotedType == ASSUME TypeOK, NEW kind PROVE Noted(kind) \in [Msg -> Entry]
BY DEF Noted, TypeOK, Entry, MsgStates

LEMMA SameSessionType ==
    ASSUME TypeOK, SameSession
    PROVE  /\ nextSeq' \in Nat \ {0} /\ alive' \in BOOLEAN /\ present' \in BOOLEAN
           /\ epoch' \in Nat
BY DEF TypeOK, SameSession

LEMMA FailUnansweredType ==
    ASSUME TypeOK, NEW m, FailUnanswered(m)
    PROVE  /\ outbox' \in [Msg -> Entry] /\ active' \in Msg \cup {None}
           /\ progress' \in BOOLEAN /\ delivery' \in DeliveryStates
           /\ intake' \in [Matrix -> IntakeStates] /\ handed' \in Seq(HandOff)
<1>1. SetState(outbox, m, "failed") \in [Msg -> Entry]
  BY SetStateType DEF TypeOK, MsgStates
<1> QED
  BY <1>1, DrainType DEF FailUnanswered, TypeOK

LEMMA InitType == Init => TypeOK
<1> SUFFICES ASSUME Init PROVE TypeOK
  OBVIOUS
<1>1. outbox \in [Msg -> Entry] /\ nextSeq \in Nat \ {0}
  BY DEF Init, Absent, Fresh, Entry, MsgStates
<1>2. /\ active \in Msg \cup {None} /\ progress \in BOOLEAN
      /\ alive \in BOOLEAN /\ present \in BOOLEAN /\ epoch \in Nat
  BY DEF Init
<1>3. delivery \in DeliveryStates
  BY DEF Init, DeliveryStates, FirstDelivery
<1>4. intake \in [Matrix -> IntakeStates] /\ handed \in Seq(HandOff)
  BY DEF Init, IntakeStates
<1> QED
  BY <1>1, <1>2, <1>3, <1>4 DEF TypeOK

LEMMA UserType == TypeOK /\ UserStep => TypeOK'
<1> SUFFICES ASSUME TypeOK, UserStep PROVE TypeOK'
  OBVIOUS
<1>1. ASSUME NEW m \in Msg, Receipt(m) \/ CancelIntake(m) PROVE TypeOK'
  BY <1>1 DEF Receipt, CancelIntake, TypeOK, IntakeStates
<1>2. ASSUME NEW m \in Msg, Enqueue(m) PROVE TypeOK'
  <2>1. [outbox EXCEPT ![m] = Fresh("queued", nextSeq)] \in [Msg -> Entry]
    BY DEF TypeOK, Fresh, Entry, MsgStates
  <2>2. Drain([outbox EXCEPT ![m] = Fresh("queued", nextSeq)], active, progress, delivery)
    BY <1>2 DEF Enqueue
  <2>3. active \in Msg \cup {None} /\ progress \in BOOLEAN /\ delivery \in DeliveryStates
    BY DEF TypeOK
  <2>4. nextSeq' \in Nat \ {0} /\ UNCHANGED <<alive, present, epoch>>
    BY <1>2 DEF Enqueue, TypeOK
  <2> QED
    BY <2>1, <2>2, <2>3, <2>4, DrainType DEF TypeOK
<1>3. ASSUME NEW m \in Msg, RunLocalCommand(m) PROVE TypeOK'
  <2>1. PICK s \in {"completed", "failed"} :
           NoDrain([outbox EXCEPT ![m] = Fresh(s, nextSeq)], active, progress, delivery)
    BY <1>3 DEF RunLocalCommand
  <2>2. [outbox EXCEPT ![m] = Fresh(s, nextSeq)] \in [Msg -> Entry]
    BY DEF TypeOK, Fresh, Entry, MsgStates
  <2>3. active \in Msg \cup {None} /\ progress \in BOOLEAN /\ delivery \in DeliveryStates
    BY DEF TypeOK
  <2>4. nextSeq' \in Nat \ {0} /\ UNCHANGED <<alive, present, epoch>>
    BY <1>3 DEF RunLocalCommand, TypeOK
  <2> QED
    BY <2>1, <2>2, <2>3, <2>4, NoDrainType DEF TypeOK
<1>4. ASSUME NEW m \in Msg, CancelOutboxMessage(m) PROVE TypeOK'
  <2>1. SetState(outbox, m, "canceled") \in [Msg -> Entry]
    BY SetStateType DEF TypeOK, MsgStates
  <2> QED
    BY <1>4, <2>1, NoDrainType, SameSessionType DEF CancelOutboxMessage, TypeOK
<1>5. ASSUME NEW m \in Msg, RetryOutboxMessage(m) \/ SkipOutboxMessage(m) PROVE TypeOK'
  <2>1. SetState(outbox, m, "queued") \in [Msg -> Entry]
    BY SetStateType DEF TypeOK, MsgStates
  <2>2. SetState(outbox, m, "canceled") \in [Msg -> Entry]
    BY SetStateType DEF TypeOK, MsgStates
  <2> QED
    BY <1>5, <2>1, <2>2, DrainType, SameSessionType
    DEF RetryOutboxMessage, SkipOutboxMessage, TypeOK
<1>6. ASSUME NEW accepted \in BOOLEAN, InterruptSession(accepted) PROVE TypeOK'
  BY <1>6, NoDrainType, SameSessionType DEF InterruptSession, TypeOK, DeliveryStates
<1> QED
  BY <1>1, <1>2, <1>3, <1>4, <1>5, <1>6 DEF UserStep

LEMMA ProviderType == TypeOK /\ ProviderStep => TypeOK'
<1> SUFFICES ASSUME TypeOK, ProviderStep PROVE TypeOK'
  OBVIOUS
<1> USE DEF DeliveryStates
<1>1. CASE ProviderReady
  BY <1>1, DrainType, SameSessionType DEF ProviderReady, TypeOK
<1>2. CASE TurnStarted
  <2>1. SetState(outbox, active, "running") \in [Msg -> Entry]
    BY SetStateType DEF TypeOK, MsgStates
  <2>2. [m \in Matrix |-> IF m = active THEN "started" ELSE intake[m]]
          \in [Matrix -> IntakeStates]
    BY DEF TypeOK, IntakeStates
  <2> QED
    BY <1>2, <2>1, <2>2, SameSessionType DEF TurnStarted, TypeOK
<1>3. CASE AuthError
  <2>1. SetState(outbox, active, "failed") \in [Msg -> Entry]
    BY SetStateType DEF TypeOK, MsgStates
  <2> QED
    BY <1>3, <2>1, DrainType, SameSessionType DEF AuthError, TypeOK
<1>4. ASSUME NEW kind, ProviderOutput(kind) PROVE TypeOK'
  <2>1. Noted(kind) \in [Msg -> Entry]
    BY NotedType
  <2>2. NoDrain(Noted(kind), active, TRUE, delivery) /\ SameSession
    BY <1>4 DEF ProviderOutput
  <2> QED
    BY <2>1, <2>2, NoDrainType, SameSessionType DEF TypeOK
<1>5. ASSUME NEW status \in {"completed", "failed", "interrupted"}, TurnCompleted(status)
      PROVE  TypeOK'
  <2> DEFINE ended == CASE status = "interrupted" ->
                               IF progress THEN "interrupted" ELSE "canceled"
                        [] OTHER -> status
  <2>1. SetState(outbox, active, ended) \in [Msg -> Entry]
    <3>1. ended \in MsgStates
      BY DEF MsgStates
    <3> QED
      BY <3>1, SetStateType DEF TypeOK
  <2>2. Resumed \in DeliveryStates
    BY DEF TypeOK, Resumed
  <2>3. SameSession /\ \/ FailUnanswered(Attributed)
                       \/ Drain(SetState(outbox, active, ended), None, FALSE, Resumed)
                       \/ Drain(outbox, None, progress, Resumed)
                       \/ active = None /\ NoDrain(outbox, None, progress, delivery)
    BY <1>5, Zenon DEF TurnCompleted
  <2>4. CASE FailUnanswered(Attributed)
    BY <2>3, <2>4, FailUnansweredType, SameSessionType DEF TypeOK
  <2>5. CASE Drain(SetState(outbox, active, ended), None, FALSE, Resumed)
    <3> HIDE DEF ended
    <3>1. /\ outbox' \in [Msg -> Entry] /\ active' \in Msg \cup {None}
          /\ progress' \in BOOLEAN /\ delivery' \in DeliveryStates
          /\ intake' \in [Matrix -> IntakeStates] /\ handed' \in Seq(HandOff)
      BY <2>1, <2>2, <2>5, DrainType
    <3> QED
      BY <2>3, <3>1, SameSessionType DEF TypeOK
  <2>6. CASE Drain(outbox, None, progress, Resumed)
    BY <2>2, <2>3, <2>6, DrainType, SameSessionType DEF TypeOK
  <2>7. CASE NoDrain(outbox, None, progress, delivery)
    BY <2>3, <2>7, NoDrainType, SameSessionType DEF TypeOK
  <2> QED
    BY <2>3, <2>4, <2>5, <2>6, <2>7
<1>6. ASSUME NEW fatal \in BOOLEAN, AdapterError(fatal) PROVE TypeOK'
  <2>1. /\ SetState(outbox, active, "ambiguous") \in [Msg -> Entry]
        /\ SetState(outbox, active, "failed") \in [Msg -> Entry]
    BY SetStateType DEF TypeOK, MsgStates
  <2>2. alive' \in BOOLEAN /\ UNCHANGED <<nextSeq, present, epoch>>
    BY <1>6 DEF AdapterError
  <2>3. \/ NoDrain(outbox, active, progress, delivery)
        \/ NoDrain(SetState(outbox, active, "ambiguous"), active, progress, delivery)
        \/ NoDrain(SetState(outbox, active, "failed"), None, FALSE, delivery)
        \/ Drain(SetState(outbox, active, "failed"), None, FALSE, delivery)
    BY <1>6 DEF AdapterError
  <2>4. CASE Drain(SetState(outbox, active, "failed"), None, FALSE, delivery)
    BY <2>1, <2>2, <2>4, DrainType DEF TypeOK
  <2> QED
    BY <2>1, <2>2, <2>3, <2>4, NoDrainType DEF TypeOK
<1>7. ASSUME NEW m \in Msg, WatchdogFires(m) PROVE TypeOK'
  BY <1>7, FailUnansweredType, SameSessionType DEF WatchdogFires, TypeOK
<1>8. CASE ProviderExit
  <2>1. Noted("final") \in [Msg -> Entry]
    BY NotedType
  <2>2. outbox' \in [Msg -> Entry]
    <3>1. SetState(Noted("final"), active, "ambiguous") \in [Msg -> Entry]
      BY <2>1, SetStateType DEF MsgStates
    <3> QED
      BY <1>8, <3>1 DEF ProviderExit, SetState, TypeOK
  <2> QED
    BY <1>8, <2>2 DEF ProviderExit, TypeOK
<1> QED
  BY <1>1, <1>2, <1>3, <1>4, <1>5, <1>6, <1>7, <1>8 DEF ProviderStep

LEMMA TypeStep == TypeOK /\ [Next]_vars => TypeOK'
<1> SUFFICES ASSUME TypeOK, [Next]_vars PROVE TypeOK'
  OBVIOUS
<1>1. CASE StartSession
  <2>1. outbox' \in [Msg -> Entry]
    BY <1>1 DEF StartSession, Absent, Fresh, Entry, MsgStates
  <2>2. delivery' \in DeliveryStates
    BY <1>1 DEF StartSession, FirstDelivery, DeliveryStates
  <2>3. /\ nextSeq' \in Nat \ {0} /\ active' = None /\ progress' = FALSE
        /\ alive' = TRUE /\ present' = TRUE
    BY <1>1 DEF StartSession
  <2>4. epoch' \in Nat /\ UNCHANGED <<intake, handed>>
    BY <1>1 DEF StartSession, TypeOK
  <2> QED
    BY <2>1, <2>2, <2>3, <2>4 DEF TypeOK
<1>2. CASE UNCHANGED vars
  BY <1>2 DEF vars, TypeOK
<1> QED
  BY <1>1, <1>2, UserType, ProviderType DEF Next

\* Type correctness of the outbox, the intake records and the hand-off history.
THEOREM Typing == Spec => []TypeOK
BY InitType, TypeStep, PTL DEF Spec

-----------------------------------------------------------------------------
(* At most once.  The intake of every message ever handed over stays claimed: *)
(* nothing in the system puts it back to "queued" or to "canceled".           *)

Taken == {"starting", "started"}

HandedIsTaken ==
    \A i \in DOMAIN handed : handed[i].msg \in Matrix => intake[handed[i].msg] \in Taken

HandOffInv == TypeOK /\ HandedIsTaken /\ AtMostOnce

\* The ways a step can treat the intake and the hand-offs: no message changes
\* its fate, the intake accepts or withdraws one, or the outbox hands one over.
SameFate ==
    /\ handed' = handed
    /\ \A m \in Matrix : intake'[m] = intake[m] \/ {intake[m], intake'[m]} \subseteq Taken

IntakeStep == \E m \in Msg : Receipt(m) \/ CancelIntake(m)

HandsOver(n) ==
    /\ n \in Msg /\ Claimable(n)
    /\ intake' = [m \in Matrix |-> IF m = n THEN "starting" ELSE intake[m]]
    /\ \E q \in Nat : handed' = Append(handed, [msg |-> n, session |-> epoch, seq |-> q])

HandOffStep == SameFate \/ IntakeStep \/ \E n : HandsOver(n)

LEMMA DrainHandOff ==
    ASSUME TypeOK, NEW ob \in [Msg -> Entry], NEW act, NEW pg, NEW d, Drain(ob, act, pg, d)
    PROVE  HandOffStep
<1> DEFINE next == NextOut(ob, act, d)
<1>1. CASE next = None
  <2>1. handed' = handed /\ intake' = [m \in Matrix |-> intake[m]]
    BY <1>1, MsgAssumption DEF Drain
  <2> QED
    BY <2>1 DEF HandOffStep, SameFate
<1>2. CASE next # None
  <2>1. next \in Msg /\ Claimable(next)
    BY <1>2, NextOutFact DEF Queued
  <2>2. ob[next].seq \in Nat
    BY <2>1 DEF Entry
  <2>3. HandsOver(next)
    BY <1>2, <2>1, <2>2 DEF HandsOver, Drain
  <2> QED
    BY <2>3 DEF HandOffStep
<1> QED
  BY <1>1, <1>2

LEMMA UnchangedHandOff ==
    ASSUME handed' = handed, intake' = intake PROVE HandOffStep
BY DEF HandOffStep, SameFate

LEMMA UserHandOff == TypeOK /\ UserStep => HandOffStep
<1> SUFFICES ASSUME TypeOK, UserStep PROVE HandOffStep
  OBVIOUS
<1>1. ASSUME NEW m \in Msg, Receipt(m) \/ CancelIntake(m) PROVE HandOffStep
  BY <1>1 DEF HandOffStep, IntakeStep
<1>2. ASSUME NEW m \in Msg, Enqueue(m) PROVE HandOffStep
  <2>1. [outbox EXCEPT ![m] = Fresh("queued", nextSeq)] \in [Msg -> Entry]
    BY DEF TypeOK, Fresh, Entry, MsgStates
  <2> QED
    BY <1>2, <2>1, DrainHandOff DEF Enqueue
<1>3. ASSUME NEW m \in Msg, RunLocalCommand(m) \/ CancelOutboxMessage(m) PROVE HandOffStep
  BY <1>3, UnchangedHandOff DEF RunLocalCommand, CancelOutboxMessage, NoDrain
<1>4. ASSUME NEW m \in Msg, RetryOutboxMessage(m) \/ SkipOutboxMessage(m) PROVE HandOffStep
  <2>1. /\ SetState(outbox, m, "queued") \in [Msg -> Entry]
        /\ SetState(outbox, m, "canceled") \in [Msg -> Entry]
    BY SetStateType DEF TypeOK, MsgStates
  <2> QED
    BY <1>4, <2>1, DrainHandOff DEF RetryOutboxMessage, SkipOutboxMessage
<1>5. ASSUME NEW accepted \in BOOLEAN, InterruptSession(accepted) PROVE HandOffStep
  BY <1>5, UnchangedHandOff DEF InterruptSession, NoDrain
<1> QED
  BY <1>1, <1>2, <1>3, <1>4, <1>5 DEF UserStep

LEMMA ProviderHandOff == TypeOK /\ ProviderStep => HandOffStep
<1> SUFFICES ASSUME TypeOK, ProviderStep PROVE HandOffStep
  OBVIOUS
<1>1. /\ outbox \in [Msg -> Entry]
      /\ \A m : SetState(outbox, m, "failed") \in [Msg -> Entry]
  BY SetStateType DEF TypeOK, MsgStates
<1>2. CASE ProviderReady
  BY <1>1, <1>2, DrainHandOff DEF ProviderReady
<1>3. CASE TurnStarted
  BY <1>3 DEF TurnStarted, HandOffStep, SameFate, Taken
<1>4. CASE AuthError
  BY <1>1, <1>4, DrainHandOff DEF AuthError
<1>5. ASSUME NEW kind, ProviderOutput(kind) PROVE HandOffStep
  BY <1>5, UnchangedHandOff DEF ProviderOutput, NoDrain
<1>6. ASSUME NEW status \in {"completed", "failed", "interrupted"}, TurnCompleted(status)
      PROVE  HandOffStep
  <2> DEFINE ended == CASE status = "interrupted" ->
                               IF progress THEN "interrupted" ELSE "canceled"
                        [] OTHER -> status
  <2>1. SetState(outbox, active, ended) \in [Msg -> Entry]
    <3>1. ended \in MsgStates
      BY DEF MsgStates
    <3> QED
      BY <3>1, SetStateType DEF TypeOK
  <2>2. \/ Drain(SetState(outbox, Attributed, "failed"), None, FALSE, delivery)
        \/ Drain(SetState(outbox, active, ended), None, FALSE, Resumed)
        \/ Drain(outbox, None, progress, Resumed)
        \/ NoDrain(outbox, None, progress, delivery)
    BY <1>6, Zenon DEF TurnCompleted, FailUnanswered
  <2> HIDE DEF ended
  <2> QED
    BY <1>1, <2>1, <2>2, DrainHandOff, UnchangedHandOff DEF NoDrain
<1>7. ASSUME NEW fatal \in BOOLEAN, AdapterError(fatal) PROVE HandOffStep
  <2>1. \/ Drain(SetState(outbox, active, "failed"), None, FALSE, delivery)
        \/ handed' = handed /\ intake' = intake
    BY <1>7 DEF AdapterError, NoDrain
  <2> QED
    BY <1>1, <2>1, DrainHandOff, UnchangedHandOff
<1>8. ASSUME NEW m \in Msg, WatchdogFires(m) PROVE HandOffStep
  BY <1>1, <1>8, DrainHandOff DEF WatchdogFires, FailUnanswered
<1>9. CASE ProviderExit
  BY <1>9, UnchangedHandOff DEF ProviderExit
<1> QED
  BY <1>2, <1>3, <1>4, <1>5, <1>6, <1>7, <1>8, <1>9 DEF ProviderStep

LEMMA StepHandOff == TypeOK /\ [Next]_vars => HandOffStep
<1> SUFFICES ASSUME TypeOK, [Next]_vars PROVE HandOffStep
  OBVIOUS
<1>1. CASE StartSession
  BY <1>1, UnchangedHandOff DEF StartSession
<1>2. CASE UNCHANGED vars
  BY <1>2, UnchangedHandOff DEF vars
<1> QED
  BY <1>1, <1>2, UserHandOff, ProviderHandOff DEF Next

LEMMA HandOffPreserved ==
    ASSUME HandOffInv, HandOffStep, TypeOK' PROVE HandOffInv'
<1>1. CASE SameFate \/ IntakeStep
  <2>1. handed' = handed /\ \A m \in Matrix : intake[m] \in Taken => intake'[m] \in Taken
    BY <1>1 DEF SameFate, IntakeStep, Receipt, CancelIntake, Taken, HandOffInv, TypeOK
  <2> QED
    BY <2>1 DEF HandOffInv, HandedIsTaken, AtMostOnce
<1>2. ASSUME NEW n, HandsOver(n) PROVE HandOffInv'
  <2>1. PICK q \in Nat : handed' = Append(handed, [msg |-> n, session |-> epoch, seq |-> q])
    BY <1>2 DEF HandsOver
  <2> DEFINE last == [msg |-> n, session |-> epoch, seq |-> q]
  <2>2. /\ handed \in Seq(HandOff) /\ last \in HandOff
    BY <1>2 DEF HandOffInv, TypeOK, HandsOver, HandOff
  <2>3. /\ Len(handed') = Len(handed) + 1 /\ DOMAIN handed' = 1..(Len(handed) + 1)
        /\ \A i \in 1..Len(handed) : handed'[i] = handed[i]
        /\ handed'[Len(handed) + 1] = last
    BY <2>1, <2>2
  <2>4. DOMAIN handed = 1..Len(handed) /\ Len(handed) \in Nat
    BY <2>2
  \* A claimed message is not claimable: n is not in the history yet.
  <2>5. n \in Matrix => \A i \in DOMAIN handed : handed[i].msg # n
    BY <1>2 DEF HandOffInv, HandedIsTaken, HandsOver, Claimable, Taken
  <2>6. HandedIsTaken'
    <3> SUFFICES ASSUME NEW i \in DOMAIN handed', handed'[i].msg \in Matrix
                 PROVE  intake'[handed'[i].msg] \in Taken
      BY DEF HandedIsTaken
    <3>1. CASE i = Len(handed) + 1
      BY <1>2, <2>3, <3>1 DEF HandsOver, Taken
    <3>2. CASE i \in DOMAIN handed
      BY <1>2, <2>3, <2>4, <3>2 DEF HandOffInv, HandedIsTaken, HandsOver, Taken
    <3> QED
      BY <2>3, <2>4, <3>1, <3>2
  <2>7. AtMostOnce'
    <3> SUFFICES ASSUME NEW i \in DOMAIN handed', NEW j \in DOMAIN handed',
                        handed'[i].msg = handed'[j].msg, handed'[i].msg \in Matrix
                 PROVE  i = j
      BY DEF AtMostOnce
    <3>1. CASE i \in DOMAIN handed /\ j \in DOMAIN handed
      BY <2>3, <2>4, <3>1 DEF HandOffInv, AtMostOnce
    <3>2. CASE i = Len(handed) + 1 \/ j = Len(handed) + 1
      BY <2>3, <2>4, <2>5, <3>2
    <3> QED
      BY <2>3, <2>4, <3>1, <3>2
  <2> QED
    BY <2>6, <2>7 DEF HandOffInv
<1> QED
  BY <1>1, <1>2 DEF HandOffStep

LEMMA HandOffInvariant == Spec => []HandOffInv
<1>1. Init => HandOffInv
  BY InitType DEF Init, HandOffInv, HandedIsTaken, AtMostOnce
<1>2. HandOffInv /\ [Next]_vars => HandOffInv'
  <2>1. HandOffInv /\ [Next]_vars => HandOffStep /\ TypeOK'
    BY StepHandOff, TypeStep DEF HandOffInv
  <2> QED
    BY <2>1, HandOffPreserved
<1> QED
  BY <1>1, <1>2, PTL DEF Spec

\* A Matrix message reaches the provider at most once: the hand-over claims its
\* intake record, and a claimed record never becomes claimable again.
THEOREM HandedAtMostOnce == Spec => []AtMostOnce
<1>1. HandOffInv => AtMostOnce
  BY DEF HandOffInv
<1> QED
  BY <1>1, HandOffInvariant, PTL

\* Once the intake has accepted a cancellation the provider never sees the
\* message, and it had not seen it before.
THEOREM WithdrawnIsWithheld == Spec => []WithdrawnNeverHanded
<1>1. HandOffInv => WithdrawnNeverHanded
  BY DEF HandOffInv, HandedIsTaken, WithdrawnNeverHanded, WasHanded, Taken
<1> QED
  BY <1>1, HandOffInvariant, PTL

-----------------------------------------------------------------------------
(* The order of hand-offs: within a session the provider receives messages  *)
(* in the order the outbox enqueued them.  InOrder alone is not inductive:   *)
(* the step that hands a message over must know that nothing behind it was   *)
(* handed over before, also after a retry has put a message back.  The       *)
(* strengthening is over the outbox ob, active message act and next sequence *)
(* number n that a handler is about to drain with.                           *)

\* Sequence numbers in use are below the next one.
Numbered(ob, n) == \A m \in Msg : ob[m].seq < n

\* Nothing handed over in this session is ahead of a queued or active message.
Behind(ob, act, n) ==
    \A i \in DOMAIN handed :
        /\ handed[i].session <= epoch
        /\ handed[i].session = epoch =>
              /\ handed[i].seq < n
              /\ \A m \in Queued(ob) : handed[i].seq <= ob[m].seq
              /\ act # None => handed[i].seq <= ob[act].seq

Ordered(ob, act, n) == Numbered(ob, n) /\ Behind(ob, act, n)

OrderInv == TypeOK /\ Ordered(outbox, active, nextSeq) /\ InOrder

\* What a handler that neither drains nor starts a session leaves alone.
SameHistory == UNCHANGED <<handed, epoch>>

LEMMA HistoryType ==
    TypeOK => \A i \in DOMAIN handed : handed[i].session \in Nat /\ handed[i].seq \in Nat
<1> SUFFICES ASSUME TypeOK
             PROVE  \A i \in DOMAIN handed : handed[i].session \in Nat /\ handed[i].seq \in Nat
  OBVIOUS
<1>1. handed \in Seq(HandOff)
  BY DEF TypeOK
<1>2. \A i \in DOMAIN handed : handed[i] \in HandOff
  BY <1>1
<1> QED
  BY <1>2 DEF HandOff

-----------------------------------------------------------------------------
(* Preparing the outbox *)

\* Ending, restating or clearing a message never brings it ahead.
LEMMA SetStateOrdered ==
    ASSUME TypeOK, Ordered(outbox, active, nextSeq), NEW m, NEW s, NEW act,
           s # "queued" \/ m = active, act \in {active, None}
    PROVE  Ordered(SetState(outbox, m, s), act, nextSeq)
<1> DEFINE ob == SetState(outbox, m, s)
<1>1. \A k \in Msg : ob[k].seq = outbox[k].seq
  BY DEF SetState, TypeOK, Entry
<1>2. \A k \in Queued(ob) : k \in Queued(outbox) \/ k = active
  BY DEF Queued, SetState, TypeOK, Entry
<1>3. active \in Msg \cup {None} /\ None \notin Msg
  BY MsgAssumption DEF TypeOK
<1>4. Numbered(ob, nextSeq)
  BY <1>1 DEF Ordered, Numbered
<1>5. Behind(ob, act, nextSeq)
  <2> SUFFICES ASSUME NEW i \in DOMAIN handed
               PROVE  /\ handed[i].session <= epoch
                      /\ handed[i].session = epoch =>
                            /\ handed[i].seq < nextSeq
                            /\ \A k \in Queued(ob) : handed[i].seq <= ob[k].seq
                            /\ act # None => handed[i].seq <= ob[act].seq
    BY DEF Behind
  <2> HIDE DEF ob
  <2>1. Queued(ob) \subseteq Msg
    BY DEF Queued
  <2> QED
    BY <1>1, <1>2, <1>3, <2>1 DEF Ordered, Behind
<1> QED
  BY <1>4, <1>5 DEF Ordered

\* A fresh entry gets the next number, which is above everything handed over.
LEMMA FreshOrdered ==
    ASSUME TypeOK, Ordered(outbox, active, nextSeq), NEW m \in Msg, NEW s
    PROVE  Ordered([outbox EXCEPT ![m] = Fresh(s, nextSeq)], active, nextSeq + 1)
<1> DEFINE ob == [outbox EXCEPT ![m] = Fresh(s, nextSeq)]
<1>1. \A k \in Msg : ob[k].seq = IF k = m THEN nextSeq ELSE outbox[k].seq
  BY DEF Fresh, TypeOK
<1>2. \A k \in Queued(ob) : k \in Msg /\ (k \in Queued(outbox) \/ k = m)
  BY DEF Queued, TypeOK
<1>3. \A k \in Msg : outbox[k].seq \in Nat
  BY DEF TypeOK, Entry
<1>4. nextSeq \in Nat /\ active \in Msg \cup {None}
  BY DEF TypeOK
<1>5. \A i \in DOMAIN handed : handed[i].seq \in Nat
  BY HistoryType
<1> HIDE DEF ob
<1>6. Numbered(ob, nextSeq + 1)
  BY <1>1, <1>3, <1>4 DEF Ordered, Numbered
<1>7. Behind(ob, active, nextSeq + 1)
  BY <1>1, <1>2, <1>3, <1>4, <1>5 DEF Ordered, Behind
<1> QED
  BY <1>6, <1>7 DEF Ordered, ob

LEMMA NotedOrdered ==
    ASSUME TypeOK, Ordered(outbox, active, nextSeq), NEW kind
    PROVE  Ordered(Noted(kind), active, nextSeq)
<1>1. \A k \in Msg : Noted(kind)[k].seq = outbox[k].seq
  BY DEF Noted, TypeOK, Entry
<1>2. \A k \in Queued(Noted(kind)) : k \in Queued(outbox)
  BY DEF Noted, Queued, TypeOK, Entry
<1>3. active \in Msg \cup {None} /\ Queued(Noted(kind)) \subseteq Msg
  BY DEF TypeOK, Queued
<1>4. Numbered(Noted(kind), nextSeq)
  BY <1>1 DEF Ordered, Numbered
<1>5. Behind(Noted(kind), active, nextSeq)
  BY <1>1, <1>2, <1>3 DEF Ordered, Behind
<1> QED
  BY <1>4, <1>5 DEF Ordered

-----------------------------------------------------------------------------
(* Draining *)

\* What a drain leaves queued was queued before it, with the same number.
LEMMA DrainKeepsNumbers ==
    ASSUME NEW ob \in [Msg -> Entry], NEW act, NEW pg, NEW d, Drain(ob, act, pg, d)
    PROVE  /\ \A m \in Msg : outbox'[m].seq = ob[m].seq
           /\ Queued(outbox)' \subseteq Queued(ob)
<1>1. \A m \in Msg : Dispatched(ob, m).seq = ob[m].seq /\ Turned(ob, m).seq = ob[m].seq
  BY DEF Dispatched, Turned
<1>2. \A m \in Msg : Dispatched(ob, m).state # "queued" /\ Turned(ob, m).state # "queued"
  BY DEF Dispatched, Turned
<1>3. \A m \in Msg : outbox'[m] \in {Dispatched(ob, m), Turned(ob, m), ob[m]}
  BY DEF Drain
<1> QED
  BY <1>1, <1>2, <1>3 DEF Queued

\* Whatever a drain hands over comes first among the messages left queued.
LEMMA DrainFirst ==
    ASSUME NEW ob \in [Msg -> Entry], NEW act, NEW pg, NEW d, Drain(ob, act, pg, d),
           NextOut(ob, act, d) # None
    PROVE  \A m \in Queued(outbox)' : ob[NextOut(ob, act, d)].seq <= ob[m].seq
<1> DEFINE next == NextOut(ob, act, d)
<1>1. next \in Msg /\ act = None /\ CanDrain(act, d)
  BY NextOutFact DEF Queued, NextOut
<1>2. ASSUME NEW m \in Queued(outbox)' PROVE ob[next].seq <= ob[m].seq
  <2>1. m \in Msg /\ m \in Queued(ob)
    BY DrainKeepsNumbers DEF Queued
  <2>2. CASE Claimable(m)
    BY <2>1, <2>2, NextOutFact
  <2>3. CASE ~Claimable(m)
    <3>1. outbox'[m].state = "queued"
      BY DEF Queued
    <3>2. Turned(ob, m).state # "queued" /\ Dispatched(ob, m).state # "queued"
      BY DEF Turned, Dispatched
    <3>3. m \notin Refused(ob, act, d)
      BY <2>1, <3>1, <3>2 DEF Drain
    <3>4. ~(ob[m].seq < ob[next].seq)
      BY <1>1, <2>1, <2>3, <3>3 DEF Refused
    <3>5. ob[m].seq \in Nat /\ ob[next].seq \in Nat
      BY <1>1, <2>1 DEF Entry
    <3> QED
      BY <3>4, <3>5
  <2> QED
    BY <2>2, <2>3
<1> QED
  BY <1>2

LEMMA DrainOrdered ==
    ASSUME TypeOK, InOrder, NEW ob \in [Msg -> Entry], NEW act \in Msg \cup {None},
           NEW pg, NEW d, NEW n \in Nat, Ordered(ob, act, n), Drain(ob, act, pg, d),
           nextSeq' = n, epoch' = epoch
    PROVE  Ordered(outbox, active, nextSeq)' /\ InOrder'
<1> DEFINE next == NextOut(ob, act, d)
           last == [msg |-> next, session |-> epoch, seq |-> ob[next].seq]
<1>1. /\ \A m \in Msg : outbox'[m].seq = ob[m].seq
      /\ Queued(outbox)' \subseteq Queued(ob) /\ Queued(ob) \subseteq Msg
  BY DrainKeepsNumbers DEF Queued
<1>2. None \notin Msg /\ epoch \in Nat /\ \A m \in Msg : ob[m].seq \in Nat
  BY MsgAssumption DEF TypeOK, Entry
<1>3. Numbered(outbox, nextSeq)'
  BY <1>1 DEF Ordered, Numbered
<1>4. CASE next = None
  <2>1. handed' = handed /\ active' = act
    BY <1>4 DEF Drain
  <2>2. Behind(outbox, active, nextSeq)'
    BY <1>1, <1>2, <2>1 DEF Ordered, Behind
  <2>3. InOrder'
    BY <2>1 DEF InOrder
  <2> QED
    BY <1>3, <2>2, <2>3 DEF Ordered
<1>5. CASE next # None
  <2>1. next \in Queued(ob) /\ next \in Msg
    BY <1>1, <1>5, NextOutFact
  <2>2. handed' = Append(handed, last) /\ active' = next
    BY <1>5 DEF Drain
  <2>3. /\ DOMAIN handed = 1..Len(handed) /\ Len(handed) \in Nat
        /\ DOMAIN handed' = 1..(Len(handed) + 1)
        /\ \A i \in 1..Len(handed) : handed'[i] = handed[i] /\ handed[i] \in HandOff
        /\ handed'[Len(handed) + 1] = last
    BY <2>2 DEF TypeOK
  \* Everything handed over in this session is at or before the new one.
  <2>4. \A i \in DOMAIN handed :
           handed[i].session <= epoch
           /\ (handed[i].session = epoch =>
                 handed[i].seq <= ob[next].seq /\ handed[i].seq < n
                 /\ \A m \in Queued(ob) : handed[i].seq <= ob[m].seq)
    BY <2>1 DEF Ordered, Behind
  <2>5. ob[next].seq < n /\ \A m \in Queued(outbox)' : ob[next].seq <= ob[m].seq
    BY <1>5, <2>1, DrainFirst DEF Ordered, Numbered
  <2>6. Behind(outbox, active, nextSeq)'
    <3> SUFFICES ASSUME NEW i \in DOMAIN handed'
                 PROVE  /\ handed'[i].session <= epoch
                        /\ handed'[i].session = epoch =>
                              /\ handed'[i].seq < n
                              /\ \A m \in Queued(outbox)' : handed'[i].seq <= ob[m].seq
                              /\ handed'[i].seq <= ob[next].seq
      BY <1>1, <2>1, <2>2 DEF Behind
    <3>1. CASE i = Len(handed) + 1
      <4>1. handed'[i].session = epoch /\ handed'[i].seq = ob[next].seq
        BY <2>3, <3>1
      <4> QED
        BY <1>2, <2>1, <2>5, <4>1
    <3>2. CASE i \in DOMAIN handed
      BY <1>1, <2>3, <2>4, <3>2
    <3> QED
      BY <2>3, <3>1, <3>2
  <2>7. InOrder'
    <3> SUFFICES ASSUME NEW i \in DOMAIN handed', NEW j \in DOMAIN handed', i < j,
                        handed'[i].session = handed'[j].session
                 PROVE  handed'[i].seq <= handed'[j].seq
      BY DEF InOrder
    <3>1. i \in DOMAIN handed
      BY <2>3
    <3>2. CASE j \in DOMAIN handed
      BY <2>3, <3>1, <3>2 DEF InOrder
    <3>3. CASE j = Len(handed) + 1
      <4>1. handed'[j].session = epoch /\ handed'[j].seq = ob[next].seq
        BY <2>3, <3>3
      <4> QED
        BY <2>3, <2>4, <3>1, <4>1
    <3> QED
      BY <2>3, <3>2, <3>3
  <2> QED
    BY <1>3, <2>6, <2>7 DEF Ordered
<1> QED
  BY <1>4, <1>5

\* A handler that hands nothing over keeps the order if it leaves one.
LEMMA QuietOrdered ==
    ASSUME InOrder, NEW ob, NEW act, NEW n, Ordered(ob, act, n), SameHistory,
           outbox' = ob, active' = act, nextSeq' = n
    PROVE  Ordered(outbox, active, nextSeq)' /\ InOrder'
<1>1. Numbered(outbox, nextSeq)' /\ InOrder'
  BY DEF Ordered, Numbered, InOrder, SameHistory
<1>2. Queued(outbox)' = Queued(ob)
  BY DEF Queued
<1>3. Behind(outbox, active, nextSeq)'
  BY <1>2 DEF Ordered, Behind, SameHistory
<1> QED
  BY <1>1, <1>3 DEF Ordered

-----------------------------------------------------------------------------
(* Every step *)

OrderKept == Ordered(outbox, active, nextSeq)' /\ InOrder'

LEMMA UserOrdered == OrderInv /\ UserStep => OrderKept
<1> SUFFICES ASSUME OrderInv, UserStep PROVE OrderKept
  OBVIOUS
<1>1. TypeOK /\ Ordered(outbox, active, nextSeq) /\ InOrder
  BY DEF OrderInv
<1>2. active \in Msg \cup {None} /\ nextSeq \in Nat /\ None \in Msg \cup {None}
  BY DEF TypeOK, OrderInv
<1>3. ASSUME NEW m \in Msg, Receipt(m) \/ CancelIntake(m) PROVE OrderKept
  BY <1>1, <1>3, QuietOrdered DEF Receipt, CancelIntake, OrderKept, SameHistory
<1>4. ASSUME NEW m \in Msg, Enqueue(m) PROVE OrderKept
  <2> DEFINE ob == [outbox EXCEPT ![m] = Fresh("queued", nextSeq)]
  <2>1. ob \in [Msg -> Entry]
    BY <1>1 DEF TypeOK, Fresh, Entry, MsgStates
  <2>2. Ordered(ob, active, nextSeq + 1)
    BY <1>1, FreshOrdered
  <2>3. /\ Drain(ob, active, progress, delivery)
        /\ nextSeq' = nextSeq + 1 /\ epoch' = epoch /\ nextSeq + 1 \in Nat
    BY <1>2, <1>4 DEF Enqueue
  <2> HIDE DEF ob
  <2> QED
    BY <1>1, <1>2, <2>1, <2>2, <2>3, DrainOrdered DEF OrderKept
<1>5. ASSUME NEW m \in Msg, RunLocalCommand(m) PROVE OrderKept
  <2>1. PICK s \in {"completed", "failed"} :
           NoDrain([outbox EXCEPT ![m] = Fresh(s, nextSeq)], active, progress, delivery)
    BY <1>5 DEF RunLocalCommand
  <2>2. Ordered([outbox EXCEPT ![m] = Fresh(s, nextSeq)], active, nextSeq + 1)
    BY <1>1, FreshOrdered
  <2> QED
    BY <1>1, <1>5, <2>1, <2>2, QuietOrdered
    DEF RunLocalCommand, NoDrain, OrderKept, SameHistory
<1>6. ASSUME NEW m \in Msg, CancelOutboxMessage(m) PROVE OrderKept
  <2>1. Ordered(SetState(outbox, m, "canceled"), active, nextSeq)
    BY <1>1, SetStateOrdered
  <2> QED
    BY <1>1, <1>6, <2>1, QuietOrdered
    DEF CancelOutboxMessage, NoDrain, SameSession, OrderKept, SameHistory
<1>7. ASSUME NEW m \in Msg, NEW s \in {"queued", "canceled"}, m = active, SameSession,
             Drain(SetState(outbox, m, s), None, FALSE, delivery)
      PROVE  OrderKept
  <2>1. Ordered(SetState(outbox, m, s), None, nextSeq)
    BY <1>1, <1>7, SetStateOrdered
  <2>2. SetState(outbox, m, s) \in [Msg -> Entry]
    BY <1>1, SetStateType DEF TypeOK, MsgStates
  <2> QED
    BY <1>1, <1>2, <1>7, <2>1, <2>2, DrainOrdered DEF SameSession, OrderKept
<1>8. ASSUME NEW m \in Msg, RetryOutboxMessage(m) \/ SkipOutboxMessage(m) PROVE OrderKept
  BY <1>7, <1>8 DEF RetryOutboxMessage, SkipOutboxMessage
<1>9. ASSUME NEW accepted \in BOOLEAN, InterruptSession(accepted) PROVE OrderKept
  BY <1>1, <1>9, QuietOrdered
  DEF InterruptSession, NoDrain, SameSession, OrderKept, SameHistory
<1> QED
  BY <1>3, <1>4, <1>5, <1>6, <1>8, <1>9 DEF UserStep

LEMMA ProviderOrdered == OrderInv /\ ProviderStep => OrderKept
<1> SUFFICES ASSUME OrderInv, ProviderStep PROVE OrderKept
  OBVIOUS
<1>1. TypeOK /\ Ordered(outbox, active, nextSeq) /\ InOrder
  BY DEF OrderInv
<1>2. /\ active \in Msg \cup {None} /\ nextSeq \in Nat /\ None \in Msg \cup {None}
      /\ outbox \in [Msg -> Entry]
  BY DEF TypeOK, OrderInv
\* The shape of a handler that drains after ending the active message.
<1>3. ASSUME NEW m, NEW s \in MsgStates \ {"queued"}, NEW d, SameSession,
             Drain(SetState(outbox, m, s), None, FALSE, d)
      PROVE  OrderKept
  <2>1. Ordered(SetState(outbox, m, s), None, nextSeq)
    BY <1>1, SetStateOrdered
  <2>2. SetState(outbox, m, s) \in [Msg -> Entry]
    BY <1>2, SetStateType
  <2> QED
    BY <1>1, <1>2, <1>3, <2>1, <2>2, DrainOrdered DEF SameSession, OrderKept
<1>4. /\ "failed" \in MsgStates \ {"queued"}
  BY DEF MsgStates
<1>5. CASE ProviderReady
  BY <1>1, <1>2, <1>5, DrainOrdered DEF ProviderReady, SameSession, OrderKept
<1>6. CASE TurnStarted
  <2>1. Ordered(SetState(outbox, active, "running"), active, nextSeq)
    BY <1>1, SetStateOrdered
  <2> QED
    BY <1>1, <1>6, <2>1, QuietOrdered DEF TurnStarted, SameSession, OrderKept, SameHistory
<1>7. CASE AuthError
  BY <1>3, <1>4, <1>7 DEF AuthError
<1>8. ASSUME NEW kind, ProviderOutput(kind) PROVE OrderKept
  <2>1. Ordered(Noted(kind), active, nextSeq)
    BY <1>1, NotedOrdered
  <2> QED
    BY <1>1, <1>8, <2>1, QuietOrdered
    DEF ProviderOutput, NoDrain, SameSession, OrderKept, SameHistory
<1>9. ASSUME NEW status \in {"completed", "failed", "interrupted"}, TurnCompleted(status)
      PROVE  OrderKept
  <2> DEFINE ended == CASE status = "interrupted" ->
                               IF progress THEN "interrupted" ELSE "canceled"
                        [] OTHER -> status
  <2>1. ended \in MsgStates \ {"queued"}
    BY DEF MsgStates
  <2>2. SameSession
        /\ \/ Drain(SetState(outbox, Attributed, "failed"), None, FALSE, delivery)
           \/ Drain(SetState(outbox, active, ended), None, FALSE, Resumed)
           \/ active = None /\ Drain(outbox, None, progress, Resumed)
           \/ active = None /\ NoDrain(outbox, None, progress, delivery)
    BY <1>9, Zenon DEF TurnCompleted, FailUnanswered
  <2> HIDE DEF ended
  <2>3. CASE active = None /\ Drain(outbox, None, progress, Resumed)
    BY <1>1, <1>2, <2>2, <2>3, DrainOrdered DEF SameSession, OrderKept
  <2>4. CASE active = None /\ NoDrain(outbox, None, progress, delivery)
    BY <1>1, <2>2, <2>4, QuietOrdered DEF NoDrain, SameSession, SameHistory, OrderKept
  <2> QED
    BY <1>3, <1>4, <2>1, <2>2, <2>3, <2>4
<1>10. ASSUME NEW fatal \in BOOLEAN, AdapterError(fatal) PROVE OrderKept
  <2>1. /\ Ordered(SetState(outbox, active, "ambiguous"), active, nextSeq)
        /\ Ordered(SetState(outbox, active, "failed"), None, nextSeq)
    BY <1>1, SetStateOrdered
  <2>2. SetState(outbox, active, "failed") \in [Msg -> Entry]
    BY <1>2, <1>4, SetStateType
  <2>3. UNCHANGED <<nextSeq, epoch>>
        /\ \/ NoDrain(outbox, active, progress, delivery)
           \/ NoDrain(SetState(outbox, active, "ambiguous"), active, progress, delivery)
           \/ NoDrain(SetState(outbox, active, "failed"), None, FALSE, delivery)
           \/ Drain(SetState(outbox, active, "failed"), None, FALSE, delivery)
    BY <1>10 DEF AdapterError
  <2>4. CASE Drain(SetState(outbox, active, "failed"), None, FALSE, delivery)
    BY <1>1, <1>2, <2>1, <2>2, <2>3, <2>4, DrainOrdered DEF OrderKept
  <2>5. CASE NoDrain(outbox, active, progress, delivery)
    BY <1>1, <2>3, <2>5, QuietOrdered DEF NoDrain, OrderKept, SameHistory
  <2>6. CASE NoDrain(SetState(outbox, active, "ambiguous"), active, progress, delivery)
    BY <1>1, <2>1, <2>3, <2>6, QuietOrdered DEF NoDrain, OrderKept, SameHistory
  <2>7. CASE NoDrain(SetState(outbox, active, "failed"), None, FALSE, delivery)
    BY <1>1, <2>1, <2>3, <2>7, QuietOrdered DEF NoDrain, OrderKept, SameHistory
  <2> QED
    BY <2>3, <2>4, <2>5, <2>6, <2>7
<1>11. ASSUME NEW m \in Msg, WatchdogFires(m) PROVE OrderKept
  BY <1>3, <1>4, <1>11 DEF WatchdogFires, FailUnanswered
<1>12. CASE ProviderExit
  <2>1. CASE active = None
    BY <1>1, <1>12, <2>1, QuietOrdered DEF ProviderExit, OrderKept, SameHistory
  <2>2. CASE active # None
    <3> DEFINE ob == [Noted("final") EXCEPT ![active].state = "ambiguous"]
    <3>1. Noted("final") \in [Msg -> Entry] /\ Ordered(Noted("final"), active, nextSeq)
      BY <1>1, NotedType, NotedOrdered
    <3>2. \A k \in Msg : ob[k].seq = Noted("final")[k].seq
      BY <3>1 DEF Entry
    <3>3. Queued(ob) \subseteq Queued(Noted("final")) /\ Queued(ob) \subseteq Msg
      BY <3>1 DEF Queued, Entry
    <3>4. outbox' = ob
      BY <1>12, <2>2 DEF ProviderExit
    <3> HIDE DEF ob
    <3>5. Numbered(ob, nextSeq)
      BY <3>1, <3>2 DEF Ordered, Numbered
    <3>6. Behind(ob, active, nextSeq)
      BY <1>2, <3>1, <3>2, <3>3 DEF Ordered, Behind
    <3> QED
      BY <1>1, <1>12, <3>4, <3>5, <3>6, QuietOrdered
      DEF ProviderExit, Ordered, OrderKept, SameHistory
  <2> QED
    BY <2>1, <2>2
<1> QED
  BY <1>5, <1>6, <1>7, <1>8, <1>9, <1>10, <1>11, <1>12 DEF ProviderStep

\* A started session has a number above those of all earlier hand-offs.
LEMMA StartOrdered == OrderInv /\ StartSession => OrderKept
<1> SUFFICES ASSUME OrderInv, StartSession PROVE OrderKept
  OBVIOUS
<1>1. InOrder'
  BY DEF OrderInv, InOrder, StartSession
<1>2. Numbered(outbox, nextSeq)'
  BY DEF Numbered, StartSession, Absent, Fresh
<1>3. epoch \in Nat /\ epoch' = epoch + 1 /\ handed' = handed
  BY DEF OrderInv, TypeOK, StartSession
<1>4. \A i \in DOMAIN handed : handed[i].session \in Nat /\ handed[i].session <= epoch
  <2>1. \A i \in DOMAIN handed : handed[i].session \in Nat
    BY HistoryType DEF OrderInv
  <2> QED
    BY <2>1 DEF OrderInv, Ordered, Behind
<1>5. Behind(outbox, active, nextSeq)'
  BY <1>3, <1>4 DEF Behind
<1> QED
  BY <1>1, <1>2, <1>5 DEF OrderKept, Ordered

LEMMA OrderInvariant == Spec => []OrderInv
<1>1. Init => OrderInv
  <2> SUFFICES ASSUME Init PROVE OrderInv
    OBVIOUS
  <2>1. Numbered(outbox, nextSeq)
    <3>1. ASSUME NEW m \in Msg PROVE outbox[m].seq < nextSeq
      BY DEF Init, Absent, Fresh
    <3> QED
      BY <3>1 DEF Numbered
  <2>2. Behind(outbox, active, nextSeq) /\ InOrder
    BY DEF Init, Behind, InOrder
  <2> QED
    BY <2>1, <2>2, InitType DEF OrderInv, Ordered
<1>2. OrderInv /\ [Next]_vars => OrderInv'
  <2> SUFFICES ASSUME OrderInv, [Next]_vars PROVE OrderInv'
    OBVIOUS
  <2>1. TypeOK'
    BY TypeStep DEF OrderInv
  <2>2. CASE UNCHANGED vars
    <3>1. SameHistory /\ outbox' = outbox /\ active' = active /\ nextSeq' = nextSeq
      BY <2>2 DEF vars, SameHistory
    <3> QED
      BY <2>1, <3>1, QuietOrdered DEF OrderInv
  <2>3. OrderKept
    BY <2>2, UserOrdered, ProviderOrdered, StartOrdered DEF Next, OrderInv, OrderKept
  <2> QED
    BY <2>1, <2>3 DEF OrderKept, OrderInv
<1> QED
  BY <1>1, <1>2, PTL DEF Spec

\* Hand-offs follow the order of the outbox in every session, through retries,
\* refusals by the intake and failures that drain from inside a handler.
THEOREM HandedInOrder == Spec => []InOrder
<1>1. OrderInv => InOrder
  BY DEF OrderInv
<1> QED
  BY <1>1, OrderInvariant, PTL

-----------------------------------------------------------------------------
(* SessionOutbox implements DeliveryPromise: every step of the outbox is a   *)
(* step of the promise or leaves fates and deliveries alone.                 *)

LEMMA HandsOverDelivers ==
    ASSUME TypeOK, NEW n, HandsOver(n)
    PROVE  \/ n \in Matrix /\ Promise!Deliver(n)
           \/ n \in Msg \ Matrix /\ Promise!DeliverUntracked(n)
<1>1. PICK q \in Nat : handed' = Append(handed, [msg |-> n, session |-> epoch, seq |-> q])
  BY DEF HandsOver
<1> DEFINE last == [msg |-> n, session |-> epoch, seq |-> q]
<1>2. Log' = Append(Log, n)
  <2>1. handed \in Seq(HandOff) /\ last \in HandOff /\ n \in Msg
    BY DEF TypeOK, HandsOver, HandOff
  <2>2. /\ Len(handed') = Len(handed) + 1 /\ DOMAIN handed' = 1..(Len(handed) + 1)
        /\ \A i \in 1..Len(handed) : handed'[i] = handed[i]
        /\ handed'[Len(handed) + 1] = last
    BY <1>1, <2>1
  <2>3. DOMAIN handed = 1..Len(handed) /\ Len(handed) \in Nat
    BY <2>1
  <2>4. Log \in Seq(Msg) /\ Len(Log) = Len(handed)
    <3>1. \A i \in 1..Len(handed) : handed[i] \in HandOff
      BY <2>1
    <3>2. \A i \in 1..Len(handed) : handed[i].msg \in Msg
      BY <3>1 DEF HandOff
    <3>3. Log = [i \in 1..Len(handed) |-> handed[i].msg]
      BY <2>3 DEF Log
    <3> QED
      BY <2>3, <3>2, <3>3
  <2>5. Log' = [i \in 1..(Len(handed) + 1) |-> IF i = Len(handed) + 1 THEN n ELSE Log[i]]
    BY <2>2, <2>3 DEF Log
  <2>6. /\ Log' \in Seq(Msg) /\ Len(Log') = Len(handed) + 1
        /\ \A i \in 1..(Len(handed) + 1) :
              Log'[i] = IF i = Len(handed) + 1 THEN n ELSE Log[i]
    <3>1. \A i \in 1..(Len(handed) + 1) :
             (IF i = Len(handed) + 1 THEN n ELSE Log[i]) \in Msg
      BY <2>1, <2>3, <2>4
    <3> QED
      BY <2>3, <2>5, <3>1
  <2>7. /\ Append(Log, n) \in Seq(Msg) /\ Len(Append(Log, n)) = Len(handed) + 1
        /\ \A i \in 1..(Len(handed) + 1) :
              Append(Log, n)[i] = IF i = Len(handed) + 1 THEN n ELSE Log[i]
    BY <2>1, <2>3, <2>4
  <2>8. Len(Log') = Len(Append(Log, n))
        /\ \A i \in 1..Len(Log') : Log'[i] = Append(Log, n)[i]
    BY <2>6, <2>7
  <2> QED
    BY <2>6, <2>7, <2>8, SeqEqual, Zenon
<1>3. CASE n \in Matrix
  <2>1. intake[n] = "queued"
    BY <1>3 DEF HandsOver, Claimable
  <2>2. Fate[n] = "accepted"
    BY <1>3, <2>1 DEF Fate
  <2>3. Fate' = [Fate EXCEPT ![n] = "delivered"]
    BY <1>3 DEF HandsOver, Fate
  <2> QED
    BY <1>2, <1>3, <2>2, <2>3 DEF Promise!Deliver
<1>4. CASE n \notin Matrix
  <2>1. Fate' = Fate
    BY <1>4 DEF HandsOver, Fate
  <2> QED
    BY <1>2, <1>4, <2>1 DEF Promise!DeliverUntracked, HandsOver
<1> QED
  BY <1>3, <1>4

LEMMA IntakeKeepsPromise ==
    ASSUME TypeOK, IntakeStep
    PROVE  \E m \in Matrix : Promise!Accept(m) \/ Promise!Withdraw(m)
<1>1. PICK m \in Msg : Receipt(m) \/ CancelIntake(m)
  BY DEF IntakeStep
<1>2. Log' = Log
  BY <1>1 DEF Receipt, CancelIntake, Log
<1>3. CASE Receipt(m)
  <2>1. m \in Matrix /\ Fate[m] = "unknown" /\ Fate' = [Fate EXCEPT ![m] = "accepted"]
    BY <1>3 DEF Receipt, Fate, TypeOK
  <2> QED
    BY <1>2, <2>1 DEF Promise!Accept
<1>4. CASE CancelIntake(m)
  <2>1. m \in Matrix /\ Fate[m] = "accepted" /\ Fate' = [Fate EXCEPT ![m] = "withdrawn"]
    BY <1>4 DEF CancelIntake, Fate, TypeOK
  <2> QED
    BY <1>2, <2>1 DEF Promise!Withdraw
<1> QED
  BY <1>1, <1>3, <1>4

LEMMA SameFateKeepsPromise == SameFate => UNCHANGED <<Fate, Log>>
BY DEF SameFate, Taken, Fate, Log

\* The outbox implements the promise for every set of messages, either provider
\* and any number of sessions.
THEOREM OutboxKeepsPromise == Spec => KeepsPromise
<1>1. Init => Promise!PromiseInit
  BY DEF Init, Promise!PromiseInit, Fate, Log
<1>2. TypeOK /\ [Next]_vars => [Promise!PromiseNext]_<<Fate, Log>>
  <2> SUFFICES ASSUME TypeOK, [Next]_vars
               PROVE  [Promise!PromiseNext]_<<Fate, Log>>
    OBVIOUS
  <2>1. SameFate \/ IntakeStep \/ \E n : HandsOver(n)
    BY StepHandOff DEF HandOffStep
  <2>2. CASE SameFate
    BY <2>2, SameFateKeepsPromise
  <2>3. CASE IntakeStep
    BY <2>3, IntakeKeepsPromise DEF Promise!PromiseNext
  <2>4. ASSUME NEW n, HandsOver(n) PROVE Promise!PromiseNext
    BY <2>4, HandsOverDelivers DEF Promise!PromiseNext
  <2> QED
    BY <2>1, <2>2, <2>3, <2>4
<1> QED
  BY <1>1, <1>2, Typing, PTL DEF Spec, KeepsPromise, Promise!PromiseSpec

-----------------------------------------------------------------------------
(* Endings.  What ends a message names it as the active one, as a queued one  *)
(* or as one whose completion is unresolved; an ended message is none of them *)
(* because the active message is always under way and a completed one was     *)
(* answered.                                                                  *)

InFlight == {"dispatching", "running", "ambiguous"}
Ended == {"completed", "failed", "canceled"}

ActiveInFlight(ob, act) == act # None => ob[act].state \in InFlight

Answered(ob) ==
    \A m \in Msg : ClaimedClaude(ob, m) /\ ob[m].state = "completed" => ob[m].final

EndInv == TypeOK /\ ActiveInFlight(outbox, active) /\ CompletedWasAnswered

\* A handler takes the outbox to ob without touching what has ended.
KeepsEnded(ob) == \A m \in Msg : outbox[m].state \in Ended => ob[m].state = outbox[m].state

\* What is shown of each step of a session.
EndKept ==
    /\ ActiveInFlight(outbox, active)' /\ Answered(outbox)'
    /\ \A m \in Msg : outbox[m].state \in Ended => outbox'[m].state = outbox[m].state

LEMMA DrainEnds ==
    ASSUME TypeOK, NEW ob \in [Msg -> Entry], NEW act \in Msg \cup {None}, NEW pg, NEW d,
           Drain(ob, act, pg, d), ActiveInFlight(ob, act), Answered(ob), KeepsEnded(ob)
    PROVE  EndKept
<1> DEFINE next == NextOut(ob, act, d)
           out  == Refused(ob, act, d)
<1>1. next # None => next \in Queued(ob) /\ act = None
  BY NextOutFact
<1>2. out \subseteq Queued(ob) /\ \A m \in out : act = None
  BY DEF Refused, CanDrain
<1>3. None \notin Msg /\ Queued(ob) \subseteq Msg
  BY MsgAssumption DEF Queued
<1>4. \A m \in Msg : outbox'[m] = IF m = next THEN Dispatched(ob, m)
                                  ELSE IF m \in out THEN Turned(ob, m) ELSE ob[m]
  BY DEF Drain
<1>5. active' = IF next # None THEN next ELSE act
  BY DEF Drain
<1> HIDE DEF next, out
<1>6. ActiveInFlight(outbox, active)'
  <2>1. CASE next # None
    <3>1. next \in Msg /\ outbox'[next] = Dispatched(ob, next)
      BY <1>1, <1>3, <1>4, <2>1
    <3>2. Dispatched(ob, next).state = "dispatching"
      BY DEF Dispatched
    <3> QED
      BY <1>5, <2>1, <3>1, <3>2 DEF ActiveInFlight, InFlight
  <2>2. CASE next = None
    <3>1. act # None => outbox'[act] = ob[act]
      BY <1>2, <1>3, <1>4, <2>2
    <3> QED
      BY <1>5, <2>2, <3>1 DEF ActiveInFlight
  <2> QED
    BY <2>1, <2>2
<1>7. Answered(outbox)'
  <2> SUFFICES ASSUME NEW m \in Msg, ClaimedClaude(outbox', m), outbox'[m].state = "completed"
               PROVE  outbox'[m].final
    BY DEF Answered, ClaimedClaude
  <2>1. Dispatched(ob, m).state # "completed" /\ Turned(ob, m).state # "completed"
    BY DEF Dispatched, Turned
  <2>2. outbox'[m] = ob[m]
    BY <1>4, <2>1
  <2> QED
    BY <2>2 DEF Answered, ClaimedClaude
<1>8. ASSUME NEW m \in Msg, outbox[m].state \in Ended PROVE outbox'[m].state = outbox[m].state
  <2>1. ob[m].state = outbox[m].state /\ m \notin Queued(ob)
    BY <1>8 DEF KeepsEnded, Queued, Ended
  <2> QED
    BY <1>1, <1>2, <1>3, <1>4, <2>1
<1> QED
  BY <1>6, <1>7, <1>8 DEF EndKept

LEMMA NoDrainEnds ==
    ASSUME NEW ob, NEW act, NEW pg, NEW d, NoDrain(ob, act, pg, d),
           ActiveInFlight(ob, act), Answered(ob), KeepsEnded(ob)
    PROVE  EndKept
BY DEF NoDrain, EndKept, ActiveInFlight, Answered, ClaimedClaude, KeepsEnded

\* Giving a message that has not ended a state, and making it or the active one
\* lose its place.
LEMMA SetStateEnds ==
    ASSUME EndInv, NEW m, NEW s \in MsgStates, NEW act \in {active, None},
           m \in Msg => outbox[m].state \notin Ended,
           s = "completed" => m \in Msg /\ (ClaimedClaude(outbox, m) => outbox[m].final),
           m = act /\ m # None => s \in InFlight
    PROVE  /\ SetState(outbox, m, s) \in [Msg -> Entry]
           /\ ActiveInFlight(SetState(outbox, m, s), act)
           /\ Answered(SetState(outbox, m, s)) /\ KeepsEnded(SetState(outbox, m, s))
<1> DEFINE ob == SetState(outbox, m, s)
<1>1. outbox \in [Msg -> Entry] /\ active \in Msg \cup {None} /\ None \notin Msg
  BY MsgAssumption DEF EndInv, TypeOK
<1>2. ob \in [Msg -> Entry]
  BY <1>1, SetStateType
<1>3. \A k \in Msg : /\ ob[k].claimed = outbox[k].claimed /\ ob[k].final = outbox[k].final
                    /\ ob[k].state = IF k = m THEN s ELSE outbox[k].state
  BY <1>1 DEF SetState, Entry
<1> HIDE DEF ob
<1>4. ActiveInFlight(ob, act)
  BY <1>1, <1>3 DEF EndInv, ActiveInFlight
<1>5. Answered(ob)
  BY <1>3 DEF EndInv, CompletedWasAnswered, Answered, ClaimedClaude
<1>6. KeepsEnded(ob)
  BY <1>3 DEF KeepsEnded
<1> QED
  BY <1>2, <1>4, <1>5, <1>6 DEF ob

LEMMA FreshEnds ==
    ASSUME EndInv, NEW m \in Msg, outbox[m].state = "absent", NEW s \in MsgStates
    PROVE  LET ob == [outbox EXCEPT ![m] = Fresh(s, nextSeq)]
           IN  ob \in [Msg -> Entry] /\ ActiveInFlight(ob, active)
               /\ Answered(ob) /\ KeepsEnded(ob)
<1> DEFINE ob == [outbox EXCEPT ![m] = Fresh(s, nextSeq)]
<1>1. outbox \in [Msg -> Entry] /\ active \in Msg \cup {None} /\ nextSeq \in Nat
  BY DEF EndInv, TypeOK
<1>2. ob \in [Msg -> Entry]
  BY <1>1 DEF Fresh, Entry
<1>3. \A k \in Msg : ob[k] = IF k = m THEN Fresh(s, nextSeq) ELSE outbox[k]
  BY <1>1
<1>4. Fresh(s, nextSeq).claimed = FALSE /\ m # active
  BY MsgAssumption DEF Fresh, EndInv, ActiveInFlight, InFlight
<1> HIDE DEF ob
<1>5. ActiveInFlight(ob, active)
  BY <1>1, <1>3, <1>4 DEF EndInv, ActiveInFlight
<1>6. Answered(ob)
  BY <1>3, <1>4 DEF EndInv, CompletedWasAnswered, Answered, ClaimedClaude
<1>7. KeepsEnded(ob)
  BY <1>3 DEF KeepsEnded, Ended
<1> QED
  BY <1>2, <1>5, <1>6, <1>7 DEF ob

LEMMA NotedEnds ==
    ASSUME EndInv, NEW kind
    PROVE  /\ Noted(kind) \in [Msg -> Entry]
           /\ ActiveInFlight(Noted(kind), active)
           /\ Answered(Noted(kind)) /\ KeepsEnded(Noted(kind))
<1>1. outbox \in [Msg -> Entry] /\ active \in Msg \cup {None} /\ None \notin Msg
  BY MsgAssumption DEF EndInv, TypeOK
<1>2. Noted(kind) \in [Msg -> Entry]
  BY NotedType DEF EndInv
<1>3. \A k \in Msg : IF k = active THEN Noted(kind)[k].state = "running"
                    ELSE Noted(kind)[k] = outbox[k]
  BY <1>1 DEF Noted
<1>4. active # None => active \in Msg /\ outbox[active].state \in InFlight
  BY <1>1 DEF EndInv, ActiveInFlight
<1>5. ActiveInFlight(Noted(kind), active)
  BY <1>3, <1>4 DEF ActiveInFlight, InFlight
<1>6. Answered(Noted(kind))
  BY <1>3 DEF EndInv, CompletedWasAnswered, Answered, ClaimedClaude
<1>7. KeepsEnded(Noted(kind))
  <2> SUFFICES ASSUME NEW k \in Msg, outbox[k].state \in Ended
               PROVE  Noted(kind)[k].state = outbox[k].state
    BY DEF KeepsEnded
  <2>1. k # active
    BY <1>1, <1>4 DEF Ended, InFlight
  <2> QED
    BY <1>3, <2>1
<1> QED
  BY <1>2, <1>5, <1>6, <1>7

LEMMA UnchangedEnds == EndInv /\ UNCHANGED <<outbox, active>> => EndKept
BY DEF EndInv, EndKept, CompletedWasAnswered, Answered, ActiveInFlight, ClaimedClaude

-----------------------------------------------------------------------------

LEMMA UserEnds == EndInv /\ UserStep => EndKept
<1> SUFFICES ASSUME EndInv, UserStep PROVE EndKept
  OBVIOUS
<1>1. TypeOK /\ active \in Msg \cup {None} /\ outbox \in [Msg -> Entry] /\ None \notin Msg
  BY MsgAssumption DEF EndInv, TypeOK
<1>2. ActiveInFlight(outbox, active) /\ Answered(outbox) /\ KeepsEnded(outbox)
  BY DEF EndInv, CompletedWasAnswered, Answered, KeepsEnded
<1>3. ASSUME NEW m \in Msg, Receipt(m) \/ CancelIntake(m) PROVE EndKept
  BY <1>3, UnchangedEnds DEF Receipt, CancelIntake
<1>4. ASSUME NEW m \in Msg, Enqueue(m) PROVE EndKept
  <2> DEFINE ob == [outbox EXCEPT ![m] = Fresh("queued", nextSeq)]
  <2>1. ob \in [Msg -> Entry] /\ ActiveInFlight(ob, active) /\ Answered(ob) /\ KeepsEnded(ob)
    BY <1>4, FreshEnds DEF Enqueue, MsgStates
  <2>2. Drain(ob, active, progress, delivery)
    BY <1>4 DEF Enqueue
  <2> HIDE DEF ob
  <2> QED
    BY <1>1, <2>1, <2>2, DrainEnds
<1>5. ASSUME NEW m \in Msg, RunLocalCommand(m) PROVE EndKept
  <2>1. PICK s \in {"completed", "failed"} :
           NoDrain([outbox EXCEPT ![m] = Fresh(s, nextSeq)], active, progress, delivery)
    BY <1>5 DEF RunLocalCommand
  <2> DEFINE ob == [outbox EXCEPT ![m] = Fresh(s, nextSeq)]
  <2>2. ActiveInFlight(ob, active) /\ Answered(ob) /\ KeepsEnded(ob)
    BY <1>5, FreshEnds DEF RunLocalCommand, MsgStates
  <2> HIDE DEF ob
  <2> QED
    BY <2>1, <2>2, NoDrainEnds DEF ob
<1>6. ASSUME NEW m \in Msg, CancelOutboxMessage(m) PROVE EndKept
  <2> DEFINE ob == SetState(outbox, m, "canceled")
  <2>1. m # active /\ outbox[m].state = "queued" /\ NoDrain(ob, active, progress, delivery)
    BY <1>6 DEF CancelOutboxMessage
  <2>2. ActiveInFlight(ob, active) /\ Answered(ob) /\ KeepsEnded(ob)
    BY <2>1, SetStateEnds DEF MsgStates, Ended
  <2> HIDE DEF ob
  <2> QED
    BY <2>1, <2>2, NoDrainEnds
<1>7. ASSUME NEW m \in Msg, RetryOutboxMessage(m) \/ SkipOutboxMessage(m) PROVE EndKept
  <2>1. PICK s \in {"queued", "canceled"} :
           Drain(SetState(outbox, m, s), None, FALSE, delivery)
    BY <1>7 DEF RetryOutboxMessage, SkipOutboxMessage
  <2>2. outbox[m].state = "ambiguous"
    BY <1>7 DEF RetryOutboxMessage, SkipOutboxMessage
  <2> DEFINE ob == SetState(outbox, m, s)
  <2>3. /\ ob \in [Msg -> Entry] /\ ActiveInFlight(ob, None) /\ Answered(ob)
        /\ KeepsEnded(ob)
    BY <1>1, <2>2, SetStateEnds DEF MsgStates, Ended
  <2> HIDE DEF ob
  <2> QED
    BY <1>1, <2>1, <2>3, DrainEnds DEF ob
<1>8. ASSUME NEW accepted \in BOOLEAN, InterruptSession(accepted) PROVE EndKept
  BY <1>8, UnchangedEnds DEF InterruptSession, NoDrain
<1> QED
  BY <1>3, <1>4, <1>5, <1>6, <1>7, <1>8 DEF UserStep

LEMMA AttributedEnds ==
    ASSUME EndInv, Attributed # None, ~outbox[Attributed].final
    PROVE  Attributed \in Msg /\ outbox[Attributed].state \notin Ended
<1>1. active \in Msg \cup {None}
  BY DEF EndInv, TypeOK
<1>2. CASE Attributed = active
  BY <1>1, <1>2 DEF EndInv, ActiveInFlight, InFlight, Ended
<1>3. CASE Attributed # active
  <2>1. Attributed \in Unresolved
    BY <1>3 DEF Attributed
  <2> QED
    BY <2>1 DEF Unresolved, EndInv, CompletedWasAnswered, Ended
<1> QED
  BY <1>2, <1>3

LEMMA ProviderEnds == EndInv /\ ProviderStep => EndKept
<1> SUFFICES ASSUME EndInv, ProviderStep PROVE EndKept
  OBVIOUS
<1>1. TypeOK /\ active \in Msg \cup {None} /\ outbox \in [Msg -> Entry] /\ None \notin Msg
  BY MsgAssumption DEF EndInv, TypeOK
<1>2. ActiveInFlight(outbox, active) /\ Answered(outbox) /\ KeepsEnded(outbox)
  BY DEF EndInv, CompletedWasAnswered, Answered, KeepsEnded
<1>3. active \in Msg => outbox[active].state \notin Ended
  BY <1>1 DEF EndInv, ActiveInFlight, InFlight, Ended
\* The shape of a handler that ends a message and drains.
<1>4. ASSUME NEW m, NEW s \in MsgStates, NEW d, Drain(SetState(outbox, m, s), None, FALSE, d),
             m \in Msg => outbox[m].state \notin Ended,
             s = "completed" => m \in Msg /\ (ClaimedClaude(outbox, m) => outbox[m].final)
      PROVE  EndKept
  <2> DEFINE ob == SetState(outbox, m, s)
  <2>1. ob \in [Msg -> Entry] /\ ActiveInFlight(ob, None) /\ Answered(ob) /\ KeepsEnded(ob)
    BY <1>4, SetStateEnds
  <2> HIDE DEF ob
  <2> QED
    BY <1>1, <1>4, <2>1, DrainEnds DEF ob
<1>5. "failed" \in MsgStates /\ "running" \in MsgStates /\ "ambiguous" \in MsgStates
      /\ "running" \in InFlight /\ "ambiguous" \in InFlight
  BY DEF MsgStates, InFlight
<1>6. CASE ProviderReady
  BY <1>1, <1>2, <1>6, DrainEnds DEF ProviderReady
<1>7. CASE TurnStarted
  <2> DEFINE ob == SetState(outbox, active, "running")
  <2>1. ActiveInFlight(ob, active) /\ Answered(ob) /\ KeepsEnded(ob)
    BY <1>3, <1>5, SetStateEnds
  <2>2. outbox' = ob /\ active' = active
    BY <1>7 DEF TurnStarted
  <2> HIDE DEF ob
  <2> QED
    BY <2>1, <2>2 DEF EndKept, ActiveInFlight, Answered, ClaimedClaude, KeepsEnded
<1>8. CASE AuthError
  BY <1>3, <1>4, <1>5, <1>8 DEF AuthError
<1>9. ASSUME NEW kind, ProviderOutput(kind) PROVE EndKept
  BY <1>9, NotedEnds, NoDrainEnds DEF ProviderOutput
<1>10. ASSUME NEW status \in {"completed", "failed", "interrupted"}, TurnCompleted(status)
       PROVE  EndKept
  <2> DEFINE ended == CASE status = "interrupted" ->
                               IF progress THEN "interrupted" ELSE "canceled"
                        [] OTHER -> status
  <2>1. ended \in MsgStates /\ (ended = "completed" => status = "completed")
    BY DEF MsgStates
  <2>2. \/ /\ Attributed # None /\ ~outbox[Attributed].final
           /\ FailUnanswered(Attributed)
        \/ /\ active # None /\ Drain(SetState(outbox, active, ended), None, FALSE, Resumed)
           /\ ~ (status = "completed" /\ Attributed # None /\ ~outbox[Attributed].final)
        \/ active = None /\ Drain(outbox, None, progress, Resumed)
        \/ active = None /\ NoDrain(outbox, None, progress, delivery)
    BY <1>10, Zenon DEF TurnCompleted
  <2> HIDE DEF ended
  <2>3. CASE Attributed # None /\ ~outbox[Attributed].final /\ FailUnanswered(Attributed)
    BY <1>4, <1>5, <2>3, AttributedEnds DEF FailUnanswered
  <2>4. CASE /\ active # None /\ Drain(SetState(outbox, active, ended), None, FALSE, Resumed)
             /\ ~ (status = "completed" /\ Attributed # None /\ ~outbox[Attributed].final)
    <3>1. active \in Msg
      BY <1>1, <2>4
    <3>2. ended = "completed" /\ ClaimedClaude(outbox, active) => outbox[active].final
      BY <2>1, <2>4 DEF Attributed
    <3> QED
      BY <1>3, <1>4, <2>1, <2>4, <3>1, <3>2
  <2>5. CASE active = None /\ Drain(outbox, None, progress, Resumed)
    BY <1>1, <1>2, <2>5, DrainEnds
  <2>6. CASE active = None /\ NoDrain(outbox, None, progress, delivery)
    BY <1>2, <2>6, NoDrainEnds
  <2> QED
    BY <2>2, <2>3, <2>4, <2>5, <2>6
<1>11. ASSUME NEW fatal \in BOOLEAN, AdapterError(fatal) PROVE EndKept
  <2> DEFINE ob == SetState(outbox, active, "failed")
             unsure == SetState(outbox, active, "ambiguous")
  <2>1. ActiveInFlight(ob, None) /\ Answered(ob) /\ KeepsEnded(ob)
    BY <1>1, <1>3, <1>5, SetStateEnds
  <2>2. ActiveInFlight(unsure, active) /\ Answered(unsure) /\ KeepsEnded(unsure)
    BY <1>3, <1>5, SetStateEnds
  <2>3. \/ NoDrain(outbox, active, progress, delivery)
        \/ NoDrain(unsure, active, progress, delivery)
        \/ NoDrain(ob, None, FALSE, delivery)
        \/ Drain(ob, None, FALSE, delivery)
    BY <1>11 DEF AdapterError
  <2>4. CASE Drain(ob, None, FALSE, delivery)
    BY <1>3, <1>4, <1>5, <2>4
  <2> HIDE DEF ob, unsure
  <2> QED
    BY <1>2, <2>1, <2>2, <2>3, <2>4, NoDrainEnds
<1>12. ASSUME NEW m \in Msg, WatchdogFires(m) PROVE EndKept
  <2>1. outbox[m].state \notin Ended
    BY <1>12 DEF WatchdogFires, Unresolved, EndInv, CompletedWasAnswered, Ended
  <2> QED
    BY <1>4, <1>5, <1>12, <2>1 DEF WatchdogFires, FailUnanswered
<1>13. CASE ProviderExit
  <2>1. CASE active = None
    BY <1>13, <2>1, UnchangedEnds DEF ProviderExit
  <2>2. CASE active # None
    <3> DEFINE ob == [Noted("final") EXCEPT ![active].state = "ambiguous"]
    <3>1. /\ Noted("final") \in [Msg -> Entry] /\ Answered(Noted("final"))
          /\ KeepsEnded(Noted("final")) /\ active \in Msg
      BY <1>1, <2>2, NotedEnds
    <3>2. \A k \in Msg : IF k = active THEN ob[k].state = "ambiguous"
                        ELSE ob[k] = Noted("final")[k]
      BY <3>1 DEF Entry
    <3>3. outbox' = ob /\ active' = active
      BY <1>13, <2>2 DEF ProviderExit
    <3> HIDE DEF ob
    <3>4. ActiveInFlight(ob, active)
      BY <1>5, <3>1, <3>2 DEF ActiveInFlight
    <3>5. Answered(ob)
      BY <3>1, <3>2 DEF Answered, ClaimedClaude
    <3>6. KeepsEnded(ob)
      BY <1>3, <3>1, <3>2 DEF KeepsEnded
    <3> QED
      BY <3>3, <3>4, <3>5, <3>6 DEF EndKept, ActiveInFlight, Answered, ClaimedClaude, KeepsEnded
  <2> QED
    BY <2>1, <2>2
<1> QED
  BY <1>6, <1>7, <1>8, <1>9, <1>10, <1>11, <1>12, <1>13 DEF ProviderStep

LEMMA EndsStep == EndInv /\ [Next]_vars => EndInv' /\ (epoch' = epoch => EndKept)
<1> SUFFICES ASSUME EndInv, [Next]_vars PROVE EndInv' /\ (epoch' = epoch => EndKept)
  OBVIOUS
<1>1. TypeOK'
  BY TypeStep DEF EndInv
<1>2. CASE EndKept
  BY <1>1, <1>2 DEF EndInv, EndKept, CompletedWasAnswered, Answered
<1>3. CASE StartSession
  <2>1. epoch' # epoch
    BY <1>3 DEF StartSession, EndInv, TypeOK
  <2>2. active' = None /\ \A m \in Msg : outbox'[m].claimed = FALSE
    BY <1>3 DEF StartSession, Absent, Fresh
  <2>3. ActiveInFlight(outbox, active)' /\ CompletedWasAnswered'
    BY <2>2 DEF ActiveInFlight, CompletedWasAnswered, ClaimedClaude
  <2> QED
    BY <1>1, <2>1, <2>3 DEF EndInv
<1>4. CASE UNCHANGED vars
  BY <1>2, <1>4, UnchangedEnds DEF vars
<1> QED
  BY <1>2, <1>3, <1>4, UserEnds, ProviderEnds DEF Next

LEMMA EndInvariant == Spec => []EndInv
<1>1. Init => EndInv
  BY InitType DEF Init, EndInv, ActiveInFlight, CompletedWasAnswered, ClaimedClaude, Absent, Fresh
<1> QED
  BY <1>1, EndsStep, PTL DEF Spec

\* A message claimed for Claude that stands as completed had a final event, and
\* nothing that came after it took that event back.
THEOREM CompletedMeansAnswered == Spec => []CompletedWasAnswered
<1>1. EndInv => CompletedWasAnswered
  BY DEF EndInv
<1> QED
  BY <1>1, EndInvariant, PTL

\* Within a session no handler, late event or drain moves a message that has
\* completed, failed or been canceled to another state.
THEOREM EndIsFinal == Spec => EndedStaysEnded
<1> DEFINE Final == epoch' = epoch =>
                      \A m \in Msg : outbox[m].state \in {"completed", "failed", "canceled"}
                                     => outbox'[m].state = outbox[m].state
<1>1. EndInv /\ [Next]_vars => Final
  BY EndsStep DEF EndKept, Ended
<1>2. EndInv /\ [Next]_vars => [Final]_vars
  BY <1>1
<1> QED
  BY <1>2, EndInvariant, PTL DEF Spec, EndedStaysEnded

-----------------------------------------------------------------------------
(* No lost wake-up.  A drain that may go on leaves nothing queued: it hands    *)
(* over the first claimable message, or there is none and it refuses the rest. *)

LEMMA NatMin == ASSUME NEW S, S \subseteq Nat, S # {} PROVE \E x \in S : \A y \in S : x <= y
<1>1. PICK x \in S : \A y \in S : ~ (<<y, x>> \in OpToRel(<, Nat))
  BY NatLessThanWellFounded, WFMin
<1>2. \A y \in S : ~ (y < x)
  BY <1>1 DEF OpToRel
<1> QED
  BY <1>2

LEMMA FirstExists ==
    ASSUME NEW ob \in [Msg -> Entry], NEW S, S \subseteq Msg, S # {} PROVE First(ob, S) # {}
<1> DEFINE N == {ob[m].seq : m \in S}
<1>1. N \subseteq Nat /\ N # {}
  BY DEF Entry
<1>2. PICK x \in N : \A y \in N : x <= y
  BY <1>1, NatMin
<1>3. PICK m \in S : ob[m].seq = x
  OBVIOUS
<1> QED
  BY <1>2, <1>3 DEF First

LEMMA DrainWakes ==
    ASSUME NEW ob \in [Msg -> Entry], NEW act, NEW pg, NEW d, Drain(ob, act, pg, d),
           CanDrain(act, d), active' = None
    PROVE  Queued(outbox)' = {}
<1> DEFINE next == NextOut(ob, act, d)
           claimable == {m \in Queued(ob) : Claimable(m)}
<1>1. next = None
  BY DEF Drain
<1>2. claimable = {}
  <2> SUFFICES ASSUME claimable # {} PROVE FALSE
    OBVIOUS
  <2>1. First(ob, claimable) # {}
    BY FirstExists DEF Queued
  <2>2. next \in First(ob, claimable)
    BY <2>1 DEF NextOut
  <2>3. next \in Msg
    BY <2>2 DEF First, Queued
  <2> QED
    BY <1>1, <2>3, MsgAssumption
<1>3. ASSUME NEW m \in Queued(ob) PROVE m \in Refused(ob, act, d)
  BY <1>1, <1>2 DEF Refused
<1>4. ASSUME NEW m \in Msg PROVE outbox'[m].state # "queued"
  <2>1. CASE m \in Queued(ob)
    BY <1>1, <1>3, <2>1, MsgAssumption DEF Drain, Turned
  <2>2. CASE m \notin Queued(ob)
    <3>1. outbox'[m] \in {ob[m], Turned(ob, m), Dispatched(ob, m)}
      BY DEF Drain
    <3> QED
      BY <2>2, <3>1 DEF Queued, Turned, Dispatched
  <2> QED
    BY <2>1, <2>2
<1> QED
  BY <1>4 DEF Queued

\* Claude's delivery is never "starting", so that a refused interrupt, which
\* resets it to ready without a drain, finds it ready.
NeverStarting == Provider = "claude" => delivery # "starting"

WakeInv == TypeOK /\ NeverStarting /\ NoLostWakeup

WakeKept == NeverStarting' /\ NoLostWakeup'

LEMMA DrainKeepsWake ==
    ASSUME NEW ob \in [Msg -> Entry], NEW act, NEW pg, NEW d, Drain(ob, act, pg, d),
           Provider = "claude" => d # "starting", alive' = alive
    PROVE  WakeKept
<1>1. NeverStarting'
  BY DEF NeverStarting, Drain
<1>2. NoLostWakeup'
  <2> SUFFICES ASSUME CanDrain(active, delivery)' PROVE Queued(outbox)' = {}
    BY DEF NoLostWakeup
  <2>1. alive' /\ delivery' = "ready" /\ active' = None
    BY DEF CanDrain
  <2>2. delivery' = d /\ (active' = act \/ act = None)
    BY NextOutFact DEF Drain
  <2>3. CanDrain(act, d)
    BY <2>1, <2>2 DEF CanDrain
  <2> QED
    BY <2>1, <2>3, DrainWakes
<1> QED
  BY <1>1, <1>2 DEF WakeKept

LEMMA QuietKeepsWake ==
    ASSUME WakeInv, Queued(outbox)' \subseteq Queued(outbox), active' = active,
           delivery' = delivery \/ (delivery # "interrupting" /\ delivery' # "starting"),
           alive' = alive, present' = present
    PROVE  WakeKept
<1>1. delivery \in DeliveryStates
  BY DEF WakeInv, TypeOK
<1>2. NeverStarting'
  BY DEF NeverStarting, WakeInv
<1>3. NoLostWakeup'
  BY <1>1 DEF NoLostWakeup, WakeInv, NeverStarting, CanDrain, DeliveryStates
<1> QED
  BY <1>2, <1>3 DEF WakeKept

LEMMA UserWakes == WakeInv /\ UserStep => WakeKept
<1> SUFFICES ASSUME WakeInv, UserStep PROVE WakeKept
  OBVIOUS
<1>1. TypeOK /\ outbox \in [Msg -> Entry] /\ (Provider = "claude" => delivery # "starting")
  BY DEF WakeInv, TypeOK, NeverStarting
<1>2. ASSUME NEW m \in Msg, Receipt(m) \/ CancelIntake(m) PROVE WakeKept
  BY <1>2, QuietKeepsWake DEF Receipt, CancelIntake, Queued
<1>3. ASSUME NEW m \in Msg, Enqueue(m) PROVE WakeKept
  <2>1. [outbox EXCEPT ![m] = Fresh("queued", nextSeq)] \in [Msg -> Entry]
    BY <1>1 DEF TypeOK, Fresh, Entry, MsgStates
  <2> QED
    BY <1>1, <1>3, <2>1, DrainKeepsWake DEF Enqueue
<1>4. ASSUME NEW m \in Msg, RunLocalCommand(m) PROVE WakeKept
  <2>1. PICK s \in {"completed", "failed"} :
           NoDrain([outbox EXCEPT ![m] = Fresh(s, nextSeq)], active, progress, delivery)
    BY <1>4 DEF RunLocalCommand
  <2>2. Queued(outbox)' \subseteq Queued(outbox)
    BY <1>1, <2>1 DEF NoDrain, Queued, Fresh
  <2> QED
    BY <1>4, <2>1, <2>2, QuietKeepsWake DEF NoDrain, RunLocalCommand
<1>5. ASSUME NEW m \in Msg, CancelOutboxMessage(m) PROVE WakeKept
  <2>1. Queued(outbox)' \subseteq Queued(outbox)
    BY <1>1, <1>5 DEF CancelOutboxMessage, NoDrain, Queued, SetState, Entry
  <2> QED
    BY <1>5, <2>1, QuietKeepsWake DEF CancelOutboxMessage, NoDrain, SameSession
<1>6. ASSUME NEW m \in Msg, RetryOutboxMessage(m) \/ SkipOutboxMessage(m) PROVE WakeKept
  <2>1. /\ SetState(outbox, m, "queued") \in [Msg -> Entry]
        /\ SetState(outbox, m, "canceled") \in [Msg -> Entry]
    BY <1>1, SetStateType DEF MsgStates
  <2> QED
    BY <1>1, <1>6, <2>1, DrainKeepsWake
    DEF RetryOutboxMessage, SkipOutboxMessage, SameSession
<1>7. ASSUME NEW accepted \in BOOLEAN, InterruptSession(accepted) PROVE WakeKept
  BY <1>7, QuietKeepsWake DEF InterruptSession, NoDrain, SameSession, Queued
<1> QED
  BY <1>2, <1>3, <1>4, <1>5, <1>6, <1>7 DEF UserStep

LEMMA ProviderWakes == WakeInv /\ ProviderStep => WakeKept
<1> SUFFICES ASSUME WakeInv, ProviderStep PROVE WakeKept
  OBVIOUS
<1>1. TypeOK /\ outbox \in [Msg -> Entry] /\ (Provider = "claude" => delivery # "starting")
  BY DEF WakeInv, TypeOK, NeverStarting
<1>2. \A m : \A s \in MsgStates : SetState(outbox, m, s) \in [Msg -> Entry]
  BY <1>1, SetStateType
<1>3. "failed" \in MsgStates
  BY DEF MsgStates
<1>4. CASE ProviderReady
  BY <1>1, <1>4, DrainKeepsWake DEF ProviderReady, SameSession
<1>5. CASE TurnStarted \/ \E fatal \in BOOLEAN : AdapterError(fatal)
  <2>1. Provider # "claude"
    BY <1>5 DEF TurnStarted, AdapterError
  <2> QED
    BY <2>1 DEF WakeKept, NeverStarting, NoLostWakeup
<1>6. CASE AuthError
  BY <1>1, <1>2, <1>3, <1>6, DrainKeepsWake DEF AuthError, SameSession
<1>7. ASSUME NEW kind, ProviderOutput(kind) PROVE WakeKept
  <2>1. Queued(outbox)' \subseteq Queued(outbox)
    BY <1>1, <1>7 DEF ProviderOutput, NoDrain, Queued, Noted, Entry
  <2> QED
    BY <1>7, <2>1, QuietKeepsWake DEF ProviderOutput, NoDrain, SameSession
<1>8. ASSUME NEW status \in {"completed", "failed", "interrupted"}, TurnCompleted(status)
      PROVE  WakeKept
  <2> DEFINE ended == CASE status = "interrupted" ->
                               IF progress THEN "interrupted" ELSE "canceled"
                        [] OTHER -> status
  <2>1. ended \in MsgStates
    BY DEF MsgStates
  <2>2. SameSession
        /\ \/ Drain(SetState(outbox, Attributed, "failed"), None, FALSE, delivery)
           \/ Drain(SetState(outbox, active, ended), None, FALSE, Resumed)
           \/ Drain(outbox, None, progress, Resumed)
           \/ active = None /\ NoDrain(outbox, None, progress, delivery)
    BY <1>8, Zenon DEF TurnCompleted, FailUnanswered
  <2>3. Provider = "claude" => Resumed # "starting"
    BY <1>1 DEF Resumed
  <2>4. SetState(outbox, active, ended) \in [Msg -> Entry]
    BY <1>2, <2>1
  <2> HIDE DEF ended
  <2>5. CASE active = None /\ NoDrain(outbox, None, progress, delivery)
    BY <2>2, <2>5, QuietKeepsWake DEF NoDrain, SameSession, Queued
  <2> QED
    BY <1>1, <1>2, <1>3, <2>2, <2>3, <2>4, <2>5, DrainKeepsWake DEF SameSession
<1>9. ASSUME NEW m \in Msg, WatchdogFires(m) PROVE WakeKept
  BY <1>1, <1>2, <1>3, <1>9, DrainKeepsWake DEF WatchdogFires, FailUnanswered, SameSession
<1>10. CASE ProviderExit
  BY <1>10 DEF ProviderExit, WakeKept, NoLostWakeup, NeverStarting, WakeInv
<1> QED
  BY <1>4, <1>5, <1>6, <1>7, <1>8, <1>9, <1>10 DEF ProviderStep

LEMMA WakeInvariant == Spec => []WakeInv
<1>1. Init => WakeInv
  BY InitType DEF Init, WakeInv, NeverStarting, NoLostWakeup, FirstDelivery
<1>2. WakeInv /\ [Next]_vars => WakeInv'
  <2> SUFFICES ASSUME WakeInv, [Next]_vars PROVE WakeInv'
    OBVIOUS
  <2>1. TypeOK'
    BY TypeStep DEF WakeInv
  <2>2. CASE StartSession
    <3>1. NeverStarting'
      BY <2>2 DEF StartSession, NeverStarting, FirstDelivery
    <3>2. Queued(outbox)' = {}
      BY <2>2 DEF StartSession, Queued, Absent, Fresh
    <3> QED
      BY <2>1, <3>1, <3>2 DEF WakeInv, NoLostWakeup
  <2>3. CASE UNCHANGED vars
    BY <2>1, <2>3, QuietKeepsWake DEF vars, Queued, WakeInv, WakeKept
  <2> QED
    BY <2>1, <2>2, <2>3, UserWakes, ProviderWakes DEF Next, WakeInv, WakeKept
<1> QED
  BY <1>1, <1>2, PTL DEF Spec

\* No handler leaves a queued message behind an idle session of Claude, whichever
\* of them frees the session.
THEOREM NoWakeupIsLost == Spec => []NoLostWakeup
<1>1. WakeInv => NoLostWakeup
  BY DEF WakeInv
<1> QED
  BY <1>1, WakeInvariant, PTL
-----------------------------------------------------------------------------
(* What an adapter holds, for the proofs about the adapters *)

\* Only a start begins a session, or brings one to life.
LEMMA LifeKept ==
    ASSUME [Next]_vars, present' = present PROVE epoch' = epoch /\ (alive' => alive)
<1>1. CASE UserStep
  <2>1. ASSUME NEW m \in Msg, Receipt(m) \/ CancelIntake(m) \/ Enqueue(m) \/ RunLocalCommand(m)
        PROVE  UNCHANGED <<epoch, alive>>
    BY <2>1 DEF Receipt, CancelIntake, Enqueue, RunLocalCommand
  <2>2. ASSUME NEW m \in Msg,
               CancelOutboxMessage(m) \/ RetryOutboxMessage(m) \/ SkipOutboxMessage(m)
        PROVE  UNCHANGED <<epoch, alive>>
    BY <2>2 DEF CancelOutboxMessage, RetryOutboxMessage, SkipOutboxMessage, SameSession
  <2>3. ASSUME NEW accepted \in BOOLEAN, InterruptSession(accepted)
        PROVE  UNCHANGED <<epoch, alive>>
    BY <2>3 DEF InterruptSession, SameSession
  <2> QED
    BY <1>1, <2>1, <2>2, <2>3 DEF UserStep
<1>2. CASE ProviderStep
  <2>1. CASE ProviderReady \/ TurnStarted \/ AuthError
    BY <2>1 DEF ProviderReady, TurnStarted, AuthError, SameSession
  <2>2. ASSUME NEW kind, ProviderOutput(kind) PROVE epoch' = epoch /\ (alive' => alive)
    BY <2>2 DEF ProviderOutput, SameSession
  <2>3. ASSUME NEW status, TurnCompleted(status) PROVE epoch' = epoch /\ (alive' => alive)
    BY <2>3 DEF TurnCompleted, SameSession
  <2>4. ASSUME NEW fatal, AdapterError(fatal) PROVE epoch' = epoch /\ (alive' => alive)
    BY <2>4 DEF AdapterError
  <2>5. ASSUME NEW m, WatchdogFires(m) PROVE epoch' = epoch /\ (alive' => alive)
    BY <2>5 DEF WatchdogFires, SameSession
  <2>6. CASE ProviderExit
    BY <2>6 DEF ProviderExit
  <2> QED
    BY <1>2, <2>1, <2>2, <2>3, <2>4, <2>5, <2>6 DEF ProviderStep
<1>3. CASE StartSession
  BY <1>3 DEF StartSession
<1>4. CASE UNCHANGED vars
  BY <1>4 DEF vars
<1> QED
  BY <1>1, <1>2, <1>3, <1>4 DEF Next

\* A step hands over one message of this session, or none.
LEMMA OneHandOff ==
    ASSUME TypeOK, [Next]_vars
    PROVE  \/ handed' = handed
           \/ \E m \in Msg, n \in Nat :
                 /\ handed' = Append(handed, [msg |-> m, session |-> epoch, seq |-> n])
                 /\ handed' # handed /\ handed'[Len(handed')].msg = m
<1>1. handed' = handed \/ \E m : HandsOver(m)
  BY StepHandOff DEF HandOffStep, SameFate, IntakeStep, Receipt, CancelIntake
<1>2. ASSUME NEW m, HandsOver(m)
      PROVE  \E n \in Nat :
                 /\ handed' = Append(handed, [msg |-> m, session |-> epoch, seq |-> n])
                 /\ handed' # handed /\ handed'[Len(handed')].msg = m
  <2>1. PICK n \in Nat : handed' = Append(handed, [msg |-> m, session |-> epoch, seq |-> n])
    BY <1>2 DEF HandsOver
  <2>2. handed \in Seq(HandOff) /\ [msg |-> m, session |-> epoch, seq |-> n] \in HandOff
    BY <1>2 DEF HandsOver, TypeOK, HandOff
  <2>3. /\ Len(handed') = Len(handed) + 1 /\ Len(handed) \in Nat
        /\ handed'[Len(handed')] = [msg |-> m, session |-> epoch, seq |-> n]
    BY <2>1, <2>2
  <2> QED
    BY <2>1, <2>3
<1> QED
  BY <1>1, <1>2 DEF HandsOver

\* The messages r are the last ones of the hand-offs hd, all of session ep.
Follows(r, hd, ep) ==
    LET before == Len(hd) - Len(r)
    IN  /\ before >= 0
        /\ \A i \in DOMAIN r : hd[before + i].msg = r[i] /\ hd[before + i].session = ep

LEMMA NothingFollows == ASSUME NEW hd \in Seq(HandOff), NEW ep PROVE Follows(<<>>, hd, ep)
<1>1. Len(<<>>) = 0 /\ DOMAIN <<>> = {} /\ Len(hd) \in Nat
  OBVIOUS
<1> QED
  BY <1>1 DEF Follows

\* A hand-off adds to what an adapter holds.
LEMMA FollowsHandOver ==
    ASSUME NEW r \in Seq(Msg), NEW hd \in Seq(HandOff), NEW ep \in Nat,
           NEW m \in Msg, NEW n \in Nat, Follows(r, hd, ep)
    PROVE  Follows(r \o <<m>>, Append(hd, [msg |-> m, session |-> ep, seq |-> n]), ep)
<1> DEFINE rec == [msg |-> m, session |-> ep, seq |-> n]
           more == Append(hd, rec)
           after == r \o <<m>>
           before == Len(hd) - Len(r)
<1>1. /\ Len(r) \in Nat /\ Len(hd) \in Nat /\ before \in Nat
      /\ DOMAIN r = 1 .. Len(r) /\ DOMAIN hd = 1 .. Len(hd)
  BY DEF Follows
<1>2. rec \in HandOff /\ rec.msg = m /\ rec.session = ep
  BY DEF HandOff
<1> HIDE DEF rec
<1>3. /\ Len(more) = Len(hd) + 1 /\ more[Len(hd) + 1] = rec
      /\ \A i \in 1 .. Len(hd) : more[i] = hd[i]
  BY <1>2
<1>4. /\ Len(after) = Len(r) + 1 /\ after[Len(r) + 1] = m /\ DOMAIN after = 1 .. Len(r) + 1
      /\ \A i \in 1 .. Len(r) : after[i] = r[i]
  OBVIOUS
<1> HIDE DEF more, after
<1>5. Len(more) - Len(after) = before
  BY <1>1, <1>3, <1>4
<1>6. \A i \in DOMAIN after : /\ more[before + i].msg = after[i]
                              /\ more[before + i].session = ep
  <2> SUFFICES ASSUME NEW i \in 1 .. Len(r) + 1
               PROVE  more[before + i].msg = after[i] /\ more[before + i].session = ep
    BY <1>4
  <2>1. CASE i = Len(r) + 1
    <3>1. before + i = Len(hd) + 1
      BY <1>1, <2>1
    <3> QED
      BY <1>2, <1>3, <1>4, <2>1, <3>1
  <2>2. CASE i \in 1 .. Len(r)
    <3>1. before + i \in 1 .. Len(hd)
      BY <1>1, <2>2
    <3>2. hd[before + i].msg = r[i] /\ hd[before + i].session = ep
      BY <1>1, <2>2 DEF Follows
    <3> QED
      BY <1>3, <1>4, <2>2, <3>1, <3>2
  <2> QED
    BY <1>1, <2>1, <2>2
<1>7. Follows(after, more, ep)
  BY <1>1, <1>5, <1>6 DEF Follows
<1> QED
  BY <1>7 DEF after, more, rec

\* The first message leaves.
LEMMA FollowsDropped ==
    ASSUME NEW r \in Seq(Msg), r # <<>>, NEW hd \in Seq(HandOff), NEW ep,
           Follows(r, hd, ep)
    PROVE  Follows(Tail(r), hd, ep)
<1> DEFINE before == Len(hd) - Len(r)
           after == Tail(r)
<1>1. /\ Len(r) \in Nat /\ Len(hd) \in Nat /\ before \in Nat /\ DOMAIN r = 1 .. Len(r)
      /\ Len(after) = Len(r) - 1 /\ DOMAIN after = 1 .. Len(r) - 1
      /\ \A i \in 1 .. Len(r) - 1 : after[i] = r[i + 1]
  BY DEF Follows
<1> HIDE DEF after
<1>2. Len(hd) - Len(after) = before + 1
  BY <1>1
<1>3. \A i \in DOMAIN after : /\ hd[before + 1 + i].msg = after[i]
                              /\ hd[before + 1 + i].session = ep
  <2> SUFFICES ASSUME NEW i \in 1 .. Len(r) - 1
               PROVE  hd[before + 1 + i].msg = after[i] /\ hd[before + 1 + i].session = ep
    BY <1>1
  <2>1. i + 1 \in DOMAIN r /\ before + 1 + i = before + (i + 1)
    BY <1>1
  <2>2. hd[before + (i + 1)].msg = r[i + 1] /\ hd[before + (i + 1)].session = ep
    BY <2>1 DEF Follows
  <2> QED
    BY <1>1, <2>1, <2>2
<1>4. before + 1 >= 0
  BY <1>1
<1>5. Follows(after, hd, ep)
  BY <1>2, <1>3, <1>4 DEF Follows
<1> QED
  BY <1>5 DEF after
=============================================================================
