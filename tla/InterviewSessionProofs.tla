----------------------- MODULE InterviewSessionProofs -----------------------
(***************************************************************************)
(* TypeOK is inductive, and with it each of the three safety properties    *)
(* is, for any queries and rounds and any number of answers on their way.  *)
(***************************************************************************)
EXTENDS InterviewSession, TLAPS

LoopPlace == {"new", "ready", "init", "summary", "result", "over"}
RoundState == {"unasked", "waiting"} \cup Results
RevisingStep == {"no", "reading", "recording"}

LEMMA InitTyped == InterviewInit => InterviewTypeOK
<1> SUFFICES ASSUME InterviewInit PROVE InterviewTypeOK
  OBVIOUS
<1>1. /\ status \in Status /\ claude \in BOOLEAN /\ starting \in BOOLEAN
      /\ current \in Query \cup {NoQuery}
      /\ aborted \subseteq Query /\ displaced \subseteq Query /\ asking \subseteq Query
      /\ answered \subseteq Round /\ answeredRounds \in Nat
      /\ revision \in BOOLEAN /\ converging \in BOOLEAN /\ stopped \in BOOLEAN
  BY DEF InterviewInit, Status
<1>2. /\ loop \in [Query -> LoopPlace] /\ round \in [Round -> RoundState]
      /\ asker \in [Round -> Query \cup {NoQuery}] /\ answering \in [Round -> Nat]
      /\ revising \in [Round -> RevisingStep]
  BY DEF InterviewInit, LoopPlace, RoundState, RevisingStep
<1> QED
  BY <1>1, <1>2 DEF InterviewTypeOK, LoopPlace, RoundState, RevisingStep

\* A turn, or the start, puts a query of the model in place and no other.
LEMMA RunQueryTyped ==
  ASSUME InterviewTypeOK, NEW q \in Query, RunQuery(q)
  PROVE  /\ current' \in Query \cup {NoQuery} /\ aborted' \subseteq Query
         /\ loop' \in [Query -> LoopPlace]
BY DEF RunQuery, InterviewTypeOK, LoopPlace

LEMMA PushTurnTyped ==
  ASSUME InterviewTypeOK, PushTurn
  PROVE  /\ status' \in Status /\ current' \in Query \cup {NoQuery}
         /\ loop' \in [Query -> LoopPlace]
         /\ aborted' \subseteq Query /\ displaced' \subseteq Query
<1>1. status' \in Status /\ displaced' \subseteq Query
  BY DEF PushTurn, InterviewTypeOK, Status
<1>2. LiveInput
  BY DEF PushTurn
<1>3. CASE UNCHANGED <<current, loop, aborted>>
  BY <1>1, <1>3 DEF InterviewTypeOK, LoopPlace
<1>4. CASE \E q \in Query : RunQuery(q)
  BY <1>1, <1>4, RunQueryTyped
<1> QED
  BY <1>2, <1>3, <1>4 DEF LiveInput

LEMMA StepTyped == InterviewTypeOK /\ [InterviewNext]_interviewVars => InterviewTypeOK'
<1> SUFFICES ASSUME InterviewTypeOK, [InterviewNext]_interviewVars PROVE InterviewTypeOK'
  OBVIOUS
<1>1. CASE StartGoesOn
  <2>1. PICK q \in Query : RunQuery(q)
    BY <1>1 DEF StartGoesOn
  <2> QED
    BY <1>1, <2>1, RunQueryTyped
    DEF StartGoesOn, InterviewTypeOK, LoopPlace, roundVars, answerVars, turnVars
<1>2. CASE SendMessage
  BY <1>2, PushTurnTyped
  DEF SendMessage, InterviewTypeOK, LoopPlace, roundVars, answerVars, turnVars
<1>3. CASE Converge
  BY <1>3 DEF Converge, InterviewTypeOK, queryVars, roundVars, answerVars
<1>4. CASE ConvergeGoesOn
  <2>1. CASE PushTurn
    BY <1>4, <2>1, PushTurnTyped
    DEF ConvergeGoesOn, InterviewTypeOK, LoopPlace, roundVars, answerVars
  <2>2. CASE UNCHANGED <<status, queryVars>>
    BY <1>4, <2>2 DEF ConvergeGoesOn, InterviewTypeOK, queryVars, roundVars, answerVars
  <2> QED
    BY <1>4, <2>1, <2>2 DEF ConvergeGoesOn
<1>5. CASE Stop
  BY <1>5 DEF Stop, Settle, Aborted, InterviewTypeOK, Status, Results, answerVars, turnVars
<1>6. ASSUME NEW q \in Query, InitMessage(q) PROVE InterviewTypeOK'
  BY <1>6 DEF InitMessage, At, InterviewTypeOK, Status, roundVars, answerVars, turnVars
<1>7. ASSUME NEW q \in Query, AssistantMessage(q) PROVE InterviewTypeOK'
  BY <1>7 DEF AssistantMessage, At, InterviewTypeOK, Status, roundVars, answerVars
<1>8. ASSUME NEW q \in Query, ResultMessage(q) PROVE InterviewTypeOK'
  BY <1>8 DEF ResultMessage, IdleUnlessPending, At, InterviewTypeOK, Status, roundVars, answerVars
<1>9. ASSUME NEW q \in Query, MessageGoesOn(q) PROVE InterviewTypeOK'
  <2>1. status' \in Status
    BY <1>9 DEF MessageGoesOn, IdleUnlessPending, InterviewTypeOK, Status
  <2> QED
    BY <1>9, <2>1 DEF MessageGoesOn, At, InterviewTypeOK, roundVars, answerVars, turnVars
<1>10. ASSUME NEW q \in Query, QueryEnds(q) PROVE InterviewTypeOK'
  BY <1>10 DEF QueryEnds, Finally, At, InterviewTypeOK, Status, roundVars, answerVars, turnVars
<1>11. ASSUME NEW q \in Query, AskUserQuestion(q) PROVE InterviewTypeOK'
  <2>1. CASE Asked(q)
    BY <1>11, <2>1
    DEF AskUserQuestion, Asked, InterviewTypeOK, Status, Results, queryVars, answerVars
  <2>2. CASE UNCHANGED <<round, asker, status>>
    BY <1>11, <2>2 DEF AskUserQuestion, InterviewTypeOK, queryVars, answerVars
  <2> QED
    BY <1>11, <2>1, <2>2 DEF AskUserQuestion
<1>12. ASSUME NEW q \in Query, AskGoesOn(q) PROVE InterviewTypeOK'
  <2>1. CASE Asked(q)
    BY <1>12, <2>1
    DEF AskGoesOn, Asked, InterviewTypeOK, Status, Results, queryVars, answerVars, turnVars
  <2>2. CASE UNCHANGED <<round, asker, status>>
    BY <1>12, <2>2 DEF AskGoesOn, InterviewTypeOK, queryVars, answerVars, turnVars
  <2> QED
    BY <1>12, <2>1, <2>2 DEF AskGoesOn
<1>13. ASSUME NEW r \in Round, AnswerRound(r) PROVE InterviewTypeOK'
  BY <1>13 DEF AnswerRound, InterviewTypeOK, queryVars, roundVars, turnVars
<1>14. ASSUME NEW r \in Round, AnswerGoesOn(r) PROVE InterviewTypeOK'
  BY <1>14 DEF AnswerGoesOn, Settle, InterviewTypeOK, Status, Results, queryVars, turnVars
<1>15. ASSUME NEW r \in Round, Revise(r) PROVE InterviewTypeOK'
  BY <1>15 DEF Revise, InterviewTypeOK, queryVars, roundVars, answerVars
<1>16. ASSUME NEW r \in Round, RevisionRead(r) PROVE InterviewTypeOK'
  BY <1>16 DEF RevisionRead, InterviewTypeOK, queryVars, roundVars, answerVars
<1>17. ASSUME NEW r \in Round, RevisionRecorded(r) PROVE InterviewTypeOK'
  <2>1. CASE PushTurn
    BY <1>17, <2>1, PushTurnTyped DEF RevisionRecorded, InterviewTypeOK, LoopPlace, roundVars
  <2>2. CASE UNCHANGED <<status, queryVars>>
    BY <1>17, <2>2 DEF RevisionRecorded, InterviewTypeOK, queryVars, roundVars
  <2> QED
    BY <1>17, <2>1, <2>2 DEF RevisionRecorded
<1>18. ASSUME NEW r \in Round, RevisionFails(r) PROVE InterviewTypeOK'
  BY <1>18 DEF RevisionFails, InterviewTypeOK, queryVars, roundVars, answerVars
<1>19. CASE UNCHANGED interviewVars
  BY <1>19 DEF InterviewTypeOK, interviewVars, queryVars, roundVars, answerVars, turnVars
<1> QED
  BY <1>1, <1>2, <1>3, <1>4, <1>5, <1>6, <1>7, <1>8, <1>9, <1>10, <1>11, <1>12,
     <1>13, <1>14, <1>15, <1>16, <1>17, <1>18, <1>19 DEF InterviewNext

\* Every reachable state is well typed.
THEOREM TypeCorrect == InterviewSpec => []InterviewTypeOK
BY InitTyped, StepTyped, PTL DEF InterviewSpec

-----------------------------------------------------------------------------
\* A new query is current; the one it displaced is aborted, or was none.
LEMMA LiveInputHidesNothing ==
  ASSUME InterviewTypeOK, NoHiddenQuery, LiveInput, displaced' = displaced
  PROVE  NoHiddenQuery'
<1>1. CASE UNCHANGED <<current, loop, aborted>>
  BY <1>1 DEF NoHiddenQuery, Live
<1>2. ASSUME NEW q \in Query, RunQuery(q), current = NoQuery \/ current \in aborted
      PROVE  NoHiddenQuery'
  BY <1>2, InterviewAssumption DEF RunQuery, InterviewTypeOK, NoHiddenQuery, Live
<1> QED
  BY <1>1, <1>2 DEF LiveInput

\* A query of which nothing is running any more, or which runs on, hides nothing.
LEMMA LoopHidesNothing ==
  ASSUME InterviewTypeOK, NoHiddenQuery, UNCHANGED <<aborted, displaced>>,
         NEW q \in Query, NEW place, At(q, place),
         \/ place = "over" /\ Finally(q)
         \/ Live(q) /\ UNCHANGED current
  PROVE  NoHiddenQuery'
<1>1. ASSUME NEW p \in Query, p # q PROVE loop'[p] = loop[p]
  BY <1>1 DEF At, InterviewTypeOK
<1>2. loop'[q] = place
  BY DEF At, InterviewTypeOK
<1>3. CASE place = "over" /\ Finally(q)
  BY <1>1, <1>2, <1>3 DEF Finally, NoHiddenQuery, Live
<1>4. CASE Live(q) /\ UNCHANGED current
  BY <1>1, <1>2, <1>4 DEF NoHiddenQuery, Live
<1> QED
  BY <1>3, <1>4

LEMMA StepHidesNothing ==
  InterviewTypeOK /\ NoHiddenQuery /\ [InterviewNext]_interviewVars => NoHiddenQuery'
<1> SUFFICES ASSUME InterviewTypeOK, NoHiddenQuery, [InterviewNext]_interviewVars
  PROVE NoHiddenQuery'
  OBVIOUS
<1>1. CASE UNCHANGED queryVars
  BY <1>1 DEF NoHiddenQuery, Live, queryVars
<1>2. ASSUME PushTurn PROVE NoHiddenQuery'
  BY <1>2, LiveInputHidesNothing DEF PushTurn
<1>3. CASE StartGoesOn
  <2>1. PICK q \in Query : RunQuery(q)
    BY <1>3 DEF StartGoesOn
  <2>2. displaced' = IF current = NoQuery THEN displaced ELSE displaced \cup {current}
    BY <1>3 DEF StartGoesOn
  <2> QED
    BY <2>1, <2>2, InterviewAssumption DEF RunQuery, InterviewTypeOK, NoHiddenQuery, Live
<1>4. CASE SendMessage
  BY <1>2, <1>4 DEF SendMessage
<1>5. CASE Converge
  BY <1>1, <1>5 DEF Converge
<1>6. CASE ConvergeGoesOn
  BY <1>1, <1>2, <1>6 DEF ConvergeGoesOn, queryVars
<1>7. CASE Stop
  BY <1>7 DEF Stop, Aborted, NoHiddenQuery, Live
<1>8. ASSUME NEW q \in Query, InitMessage(q) PROVE NoHiddenQuery'
  <2>1. CASE At(q, "init")
    BY <1>8, <2>1, LoopHidesNothing DEF InitMessage, Yields, Live
  <2> QED
    BY <1>1, <1>8, <2>1 DEF InitMessage, queryVars
<1>9. ASSUME NEW q \in Query, AssistantMessage(q) PROVE NoHiddenQuery'
  <2>1. CASE At(q, "summary")
    BY <1>9, <2>1, LoopHidesNothing DEF AssistantMessage, Yields, Live
  <2> QED
    BY <1>1, <1>9, <2>1 DEF AssistantMessage, queryVars
<1>10. ASSUME NEW q \in Query, ResultMessage(q) PROVE NoHiddenQuery'
  <2>1. CASE At(q, "result")
    BY <1>10, <2>1, LoopHidesNothing DEF ResultMessage, Yields, Live
  <2> QED
    BY <1>1, <1>10, <2>1 DEF ResultMessage, queryVars
<1>11. ASSUME NEW q \in Query, MessageGoesOn(q) PROVE NoHiddenQuery'
  BY <1>11, LoopHidesNothing DEF MessageGoesOn, Live
<1>12. ASSUME NEW q \in Query, QueryEnds(q) PROVE NoHiddenQuery'
  BY <1>12, LoopHidesNothing DEF QueryEnds
<1>13. ASSUME NEW q \in Query, AskUserQuestion(q) \/ AskGoesOn(q) PROVE NoHiddenQuery'
  BY <1>1, <1>13 DEF AskUserQuestion, AskGoesOn
<1>14. ASSUME NEW r \in Round, AnswerRound(r) \/ AnswerGoesOn(r) PROVE NoHiddenQuery'
  BY <1>1, <1>14 DEF AnswerRound, AnswerGoesOn
<1>15. ASSUME NEW r \in Round, Revise(r) \/ RevisionRead(r) \/ RevisionFails(r)
       PROVE  NoHiddenQuery'
  BY <1>1, <1>15 DEF Revise, RevisionRead, RevisionFails
<1>16. ASSUME NEW r \in Round, RevisionRecorded(r) PROVE NoHiddenQuery'
  BY <1>1, <1>2, <1>16 DEF RevisionRecorded, queryVars
<1>17. CASE UNCHANGED interviewVars
  BY <1>1, <1>17 DEF interviewVars
<1> QED
  BY <1>3, <1>4, <1>5, <1>6, <1>7, <1>8, <1>9, <1>10, <1>11, <1>12, <1>13, <1>14,
     <1>15, <1>16, <1>17 DEF InterviewNext

\* Whichever query ends or is aborted first, every other that runs and that start()
\* did not displace is the one a stop aborts.
THEOREM NoQueryIsHidden == InterviewSpec => []NoHiddenQuery
<1>1. InterviewInit => NoHiddenQuery
  BY DEF InterviewInit, NoHiddenQuery, Live
<1> QED
  BY <1>1, StepHidesNothing, TypeCorrect, PTL DEF InterviewSpec

-----------------------------------------------------------------------------
\* A turn leaves a waiting session waiting.
LEMMA PushTurnWaits ==
  ASSUME WaitingHasARound, PushTurn, UNCHANGED round PROVE WaitingHasARound'
BY DEF PushTurn, WaitingHasARound, Pending

\* A question makes its round pending.
LEMMA AskedWaits ==
  ASSUME InterviewTypeOK, NEW q \in Query, Asked(q) PROVE WaitingHasARound'
BY DEF Asked, InterviewTypeOK, WaitingHasARound, Pending

LEMMA StepWaits ==
  InterviewTypeOK /\ WaitingHasARound /\ [InterviewNext]_interviewVars => WaitingHasARound'
<1> SUFFICES ASSUME InterviewTypeOK, WaitingHasARound, [InterviewNext]_interviewVars
  PROVE WaitingHasARound'
  OBVIOUS
<1>1. ASSUME UNCHANGED round, status' = status \/ status' # "waiting-for-answer"
      PROVE  WaitingHasARound'
  BY <1>1 DEF WaitingHasARound, Pending
<1>2. CASE StartGoesOn
  BY <1>1, <1>2 DEF StartGoesOn, roundVars
<1>3. CASE SendMessage
  BY <1>3, PushTurnWaits DEF SendMessage, roundVars
<1>4. CASE Converge
  BY <1>1, <1>4 DEF Converge, roundVars
<1>5. CASE ConvergeGoesOn
  BY <1>1, <1>5, PushTurnWaits DEF ConvergeGoesOn, roundVars
<1>6. CASE Stop
  BY <1>6 DEF Stop, WaitingHasARound
<1>7. ASSUME NEW q \in Query, InitMessage(q) \/ AssistantMessage(q) PROVE WaitingHasARound'
  BY <1>1, <1>7 DEF InitMessage, AssistantMessage, roundVars
<1>8. ASSUME NEW q \in Query, ResultMessage(q) PROVE WaitingHasARound'
  BY <1>1, <1>8 DEF ResultMessage, IdleUnlessPending, roundVars
<1>9. ASSUME NEW q \in Query, MessageGoesOn(q) PROVE WaitingHasARound'
  BY <1>1, <1>9 DEF MessageGoesOn, IdleUnlessPending, roundVars
<1>10. ASSUME NEW q \in Query, QueryEnds(q) PROVE WaitingHasARound'
  BY <1>1, <1>10 DEF QueryEnds, roundVars
<1>11. ASSUME NEW q \in Query, AskUserQuestion(q) \/ AskGoesOn(q) PROVE WaitingHasARound'
  BY <1>1, <1>11, AskedWaits DEF AskUserQuestion, AskGoesOn
<1>12. ASSUME NEW r \in Round, AnswerRound(r) PROVE WaitingHasARound'
  BY <1>1, <1>12 DEF AnswerRound, roundVars
<1>13. ASSUME NEW r \in Round, AnswerGoesOn(r) PROVE WaitingHasARound'
  BY <1>13 DEF AnswerGoesOn, WaitingHasARound
<1>14. ASSUME NEW r \in Round, Revise(r) \/ RevisionRead(r) \/ RevisionFails(r)
       PROVE  WaitingHasARound'
  BY <1>1, <1>14 DEF Revise, RevisionRead, RevisionFails, roundVars
<1>15. ASSUME NEW r \in Round, RevisionRecorded(r) PROVE WaitingHasARound'
  BY <1>1, <1>15, PushTurnWaits DEF RevisionRecorded, roundVars
<1>16. CASE UNCHANGED interviewVars
  BY <1>1, <1>16 DEF interviewVars, roundVars
<1> QED
  BY <1>2, <1>3, <1>4, <1>5, <1>6, <1>7, <1>8, <1>9, <1>10, <1>11, <1>12, <1>13, <1>14,
     <1>15, <1>16 DEF InterviewNext

\* While the session's status waits for an answer, a round is there to be answered.
THEOREM WaitsForSomething == InterviewSpec => []WaitingHasARound
<1>1. InterviewInit => WaitingHasARound
  BY DEF InterviewInit, WaitingHasARound
<1> QED
  BY <1>1, StepWaits, TypeCorrect, PTL DEF InterviewSpec

-----------------------------------------------------------------------------
LEMMA StepSettlesOnce ==
  InterviewTypeOK /\ [InterviewNext]_interviewVars
    => \A r \in Round : round[r] \in Results => round'[r] = round[r]
<1> SUFFICES ASSUME InterviewTypeOK, [InterviewNext]_interviewVars,
                    NEW r \in Round, round[r] \in Results
             PROVE  round'[r] = round[r]
  OBVIOUS
<1>1. ASSUME NEW rs, NEW result, Settle(rs, result) PROVE round'[r] = round[r]
  BY <1>1 DEF Settle, Pending, Results
<1>2. ASSUME NEW q \in Query, Asked(q) PROVE round'[r] = round[r]
  BY <1>2 DEF Asked, InterviewTypeOK, Results
<1>3. CASE StartGoesOn \/ SendMessage \/ Converge \/ ConvergeGoesOn
  BY <1>3 DEF StartGoesOn, SendMessage, Converge, ConvergeGoesOn, roundVars
<1>4. CASE Stop
  BY <1>1, <1>4 DEF Stop
<1>5. ASSUME NEW q \in Query,
             InitMessage(q) \/ AssistantMessage(q) \/ ResultMessage(q) \/ MessageGoesOn(q)
               \/ QueryEnds(q)
      PROVE  round'[r] = round[r]
  BY <1>5 DEF InitMessage, AssistantMessage, ResultMessage, MessageGoesOn, QueryEnds, roundVars
<1>6. ASSUME NEW q \in Query, AskUserQuestion(q) \/ AskGoesOn(q) PROVE round'[r] = round[r]
  BY <1>2, <1>6 DEF AskUserQuestion, AskGoesOn
<1>7. ASSUME NEW s \in Round, AnswerGoesOn(s) PROVE round'[r] = round[r]
  BY <1>1, <1>7 DEF AnswerGoesOn
<1>8. ASSUME NEW s \in Round,
             AnswerRound(s) \/ Revise(s) \/ RevisionRead(s) \/ RevisionRecorded(s)
               \/ RevisionFails(s)
      PROVE  round'[r] = round[r]
  BY <1>8 DEF AnswerRound, Revise, RevisionRead, RevisionRecorded, RevisionFails, roundVars
<1>9. CASE UNCHANGED interviewVars
  BY <1>9 DEF interviewVars, roundVars
<1> QED
  BY <1>3, <1>4, <1>5, <1>6, <1>7, <1>8, <1>9 DEF InterviewNext

\* A tool call is settled once, however answers and stops cross.
THEOREM CallsSettleOnce == InterviewSpec => SettledOnce
<1>1. InterviewTypeOK /\ [InterviewNext]_interviewVars
        => [\A r \in Round : round[r] \in Results => round'[r] = round[r]]_interviewVars
  BY StepSettlesOnce
<1> QED
  BY <1>1, TypeCorrect, PTL DEF InterviewSpec, SettledOnce
=============================================================================
