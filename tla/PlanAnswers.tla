---------------------------- MODULE PlanAnswers ----------------------------
(***************************************************************************)
(* What the answers of interviews leave in the plan of their repository    *)
(* (answerRound and reviseAnswer of bridge/sessionManager.ts with          *)
(* recordAnswers and the decision writes of store/fsPlanStore.ts).  A call *)
(* appends its answers to its session's log in one write, then works off   *)
(* what follows from them: PARKED.md and RISKS.md, one awaited write each. *)
(* A revision first reads which decisions rest on the question and marks   *)
(* them stale, while Claude records decisions and parks items itself.      *)
(* Every session has a log of its own and numbers its questions from Q1;   *)
(* the plan's files are one for all, and know questions by their number.   *)
(* The writes of one file are atomic (PlanStore); calls interleave between *)
(* them, fail and die.                                                     *)
(***************************************************************************)
EXTENDS Naturals, FiniteSets, SequencesExt

CONSTANTS
  Questions,          \* the questions of the sessions' rounds
  SessionOf,          \* question -> the session that asked it
  NumberOf,           \* question -> n of its id, Q<n>
  NoQuestion,         \* of an item no answer parked, and of one that names no question
  RoundAnswers,       \* bound: how rounds are answered, question -> modifier
  DecisionIds,        \* bound: decisions of DECISIONS.md
  MaxCallsAtOnce,     \* bound: calls under way at once
  MaxAnswerCalls,     \* bound: rounds answered and answers revised
  MaxDecisionWrites,  \* bound: decisions recorded
  MaxParks,           \* bound: items Claude parks
  MaxAnswerFaults     \* bound: calls that throw, crashes

AnswerCallers == 1..MaxCallsAtOnce

VARIABLES
  answerLog,      \* the sessions' logs, in the order of their writes: [question, modifier], with,
                  \* as history, whether it revises and what its call had seen of the decisions
  parkedItems,    \* PARKED.md: [number, open], with, as history, the question whose answer parked it
  riskItems,      \* RISKS.md: the entry each tentative risk was added for
  restingOn,      \* DECISIONS.md: decision -> what it cites, its status, or NoDecision
  answerCalls,    \* caller -> its call
  roundWaits,     \* session -> its round is "pending", "orphaned" by a restart, or waits no more
  answerCounts,   \* calls, decision writes, parks and faults so far
  troubled,       \* history: questions with follow-ups lost or overtaken
  namesakeResolved \* history: questions whose items another session's question of the same
                  \* number has resolved since they were last parked

answerVars == <<answerLog, parkedItems, riskItems, restingOn, answerCalls, roundWaits,
                answerCounts, troubled, namesakeResolved>>

Modifiers == {"none", "parked", "tentative"}
Sessions == {SessionOf[q] : q \in Questions}
QuestionsOf(session) == {q \in Questions : SessionOf[q] = session}
QuestionNumbers == {NumberOf[q] : q \in Questions}
Namesakes(q) == {other \in Questions \ {q} : NumberOf[other] = NumberOf[q]}
ASSUME AnswersAssumption ==
  /\ IsFiniteSet(Questions) /\ NoQuestion \notin Questions \cup QuestionNumbers
  /\ RoundAnswers \subseteq [Questions -> Modifiers]
  \* toRound and restoreLive: no number is given twice in one session.
  /\ \A q \in Questions : \A other \in Namesakes(q) : SessionOf[other] # SessionOf[q]

NoDecision == [status |-> "none", questionIds |-> {}, dependsOn |-> {}, written |-> 0]
\* The steps of a call; found: the dependents read; followUps: writes still to do.
\* History: decision writes before the dependents were read.
NoCall == [at |-> "idle", session |-> NoQuestion, revises |-> FALSE, answers |-> << >>, found |-> {},
           followUps |-> << >>, readAt |-> 0]

AnswersInit ==
  /\ answerLog = << >> /\ parkedItems = << >> /\ riskItems = << >>
  /\ restingOn = [d \in DecisionIds |-> NoDecision]
  /\ answerCalls = [c \in AnswerCallers |-> NoCall]
  /\ roundWaits = [session \in Sessions |-> "pending"]
  /\ answerCounts = [calls |-> 0, decisions |-> 0, parks |-> 0, faults |-> 0]
  /\ troubled = {} /\ namesakeResolved = {}

\* Calls under way are told apart by a number, the least that is free.
Free(c) == answerCalls[c] = NoCall /\ \A d \in 1..(c - 1) : answerCalls[d] # NoCall

CountAnswer(what, max) ==
  answerCounts[what] < max /\ answerCounts' = [answerCounts EXCEPT ![what] = @ + 1]

-----------------------------------------------------------------------------
\* plan_record_decision: a new decision, or one under its id again, active.
RecordDecision(d, questionIds, dependsOn) ==
  /\ CountAnswer("decisions", MaxDecisionWrites)
  /\ restingOn' = [restingOn EXCEPT ![d] =
       [status |-> "active", questionIds |-> questionIds, dependsOn |-> dependsOn,
        written |-> answerCounts.decisions + 1]]
  /\ UNCHANGED <<answerLog, parkedItems, riskItems, answerCalls, roundWaits, troubled,
                 namesakeResolved>>

Parked(number, q) == [number |-> number, open |-> TRUE, question |-> q]
\* plan_park: an item of Claude's own, which may name a question.
PlanPark(number) ==
  /\ CountAnswer("parks", MaxParks)
  /\ parkedItems' = Append(parkedItems, Parked(number, NoQuestion))
  /\ UNCHANGED <<answerLog, riskItems, restingOn, answerCalls, roundWaits, troubled,
                 namesakeResolved>>

-----------------------------------------------------------------------------
\* answerRound: while the first call awaits its writes a pending round still
\* waits, so a second answer to it is recorded as well.
AnswerRound(c, session, modifier) ==
  /\ roundWaits[session] # "no"
  /\ roundWaits' = [roundWaits EXCEPT ![session] = IF @ = "orphaned" THEN "no" ELSE @]
  /\ Free(c) /\ CountAnswer("calls", MaxAnswerCalls)
  /\ LET order == SetToSeq(QuestionsOf(session))
     IN answerCalls' = [answerCalls EXCEPT ![c] =
          [NoCall EXCEPT !.at = "recording", !.session = session,
             !.answers = [k \in DOMAIN order |->
                            [question |-> order[k], modifier |-> modifier[order[k]]]]]]
  /\ UNCHANGED <<answerLog, parkedItems, riskItems, restingOn, troubled, namesakeResolved>>

\* reviseAnswer: of a question its session asked, at any time.
ReviseAnswer(c, q, modifier) ==
  /\ Free(c) /\ CountAnswer("calls", MaxAnswerCalls)
  /\ answerCalls' = [answerCalls EXCEPT ![c] =
       [NoCall EXCEPT !.at = "reading", !.session = SessionOf[q], !.revises = TRUE,
                      !.answers = <<[question |-> q, modifier |-> modifier]>>]]
  /\ UNCHANGED <<answerLog, parkedItems, riskItems, restingOn, roundWaits, troubled,
                 namesakeResolved>>

\* Slip: only what a decision cites as its questions counts.
RestsOn_QuestionIds(d, q) == NumberOf[q] \in restingOn[d].questionIds
\* deriveIndex: the questions a decision cites, and those it depends on, by their
\* numbers, whichever session asked them.
RestsOn(d, q) == NumberOf[q] \in restingOn[d].questionIds \cup restingOn[d].dependsOn

\* dependentDecisions: of the file as it is.
ReadDependents(c) ==
  /\ answerCalls[c].at = "reading"
  /\ answerCalls' = [answerCalls EXCEPT ![c].at = "marking",
       ![c].found = {d \in DecisionIds : /\ restingOn[d].status = "active"
                                         /\ RestsOn(d, answerCalls[c].answers[1].question)},
       ![c].readAt = answerCounts.decisions]
  /\ UNCHANGED <<answerLog, parkedItems, riskItems, restingOn, roundWaits, answerCounts, troubled,
                 namesakeResolved>>

\* markDecisionsStale: in one write, whatever became of them since.
MarkDecisionsStale(c) ==
  /\ answerCalls[c].at = "marking"
  /\ restingOn' = [d \in DecisionIds |-> IF d \in answerCalls[c].found
                                         THEN [restingOn[d] EXCEPT !.status = "stale"]
                                         ELSE restingOn[d]]
  /\ answerCalls' = [answerCalls EXCEPT ![c].at = "recording", ![c].found = {}]
  /\ UNCHANGED <<answerLog, parkedItems, riskItems, roundWaits, answerCounts, troubled, namesakeResolved>>

-----------------------------------------------------------------------------
LatestIn(log, q) == SelectLastInSeq(log, LAMBDA entry : entry.question = q)
WasParked(log, q) == LatestIn(log, q) # 0 /\ log[LatestIn(log, q)].modifier = "parked"

Step(write, entry, q) == [write |-> write, entry |-> entry, question |-> q]

\* Slip: a question parked before is resolved, parked again or not.
FollowUps_Always(entry, answer, wasParked) ==
  (IF answer.modifier = "parked" THEN <<Step("park", entry, answer.question)>> ELSE << >>)
  \o (IF wasParked THEN <<Step("resolve", entry, answer.question)>> ELSE << >>)
  \o (IF answer.modifier = "tentative" THEN <<Step("risk", entry, answer.question)>> ELSE << >>)

\* recordAnswers: what one answer, recorded as A<entry>, is followed by.
FollowUps(entry, answer, wasParked) ==
  (IF answer.modifier = "parked" THEN <<Step("park", entry, answer.question)>>
   ELSE IF wasParked THEN <<Step("resolve", entry, answer.question)>> ELSE << >>)
  \o (IF answer.modifier = "tentative" THEN <<Step("risk", entry, answer.question)>> ELSE << >>)

\* What is left of a call once its answers are in the log.
Following(call, followUps) ==
  IF followUps = << >> THEN NoCall
  ELSE [NoCall EXCEPT !.at = "following", !.session = call.session, !.revises = call.revises,
                      !.followUps = followUps]
\* With its last write it ends, failed or not, and an answered round waits no more.
WithCall(c, call) ==
  /\ answerCalls' = [answerCalls EXCEPT ![c] = call]
  /\ roundWaits' = IF call = NoCall /\ ~answerCalls[c].revises
                   THEN [roundWaits EXCEPT ![answerCalls[c].session] = "no"] ELSE roundWaits
Awaited(call) == {step.question : step \in ToSet(call.followUps)}

\* The write of the log, with every answer of the call.  History: answers
\* recorded while the follow-ups of older ones are still to come.
RecordAnswersOf(c) ==
  LET call == answerCalls[c]
      inRound == {answer.question : answer \in ToSet(call.answers)}
  IN /\ call.at = "recording"
     /\ answerLog' = answerLog \o [k \in DOMAIN call.answers |->
          [question |-> call.answers[k].question, modifier |-> call.answers[k].modifier,
           revises |-> call.revises, readAt |-> call.readAt]]
     /\ WithCall(c, Following(call, FlattenSeq([k \in DOMAIN call.answers |->
          FollowUps(Len(answerLog) + k, call.answers[k],
                    WasParked(answerLog, call.answers[k].question))])))
     /\ troubled' = troubled \cup {q \in inRound : \E d \in AnswerCallers : q \in Awaited(answerCalls[d])}
     /\ UNCHANGED <<parkedItems, riskItems, restingOn, answerCounts, namesakeResolved>>

\* resolveParked: every item of the file that names a question of this number.
ResolveParked(q) ==
  [k \in DOMAIN parkedItems |-> IF parkedItems[k].number = NumberOf[q]
                                THEN [parkedItems[k] EXCEPT !.open = FALSE] ELSE parkedItems[k]]
\* park, resolveParked or addRisk: the first of the follow-ups.
FollowUp(c) ==
  LET step == Head(answerCalls[c].followUps)
  IN /\ answerCalls[c].at = "following"
     /\ parkedItems' =
          CASE step.write = "park" ->
                 Append(parkedItems, Parked(NumberOf[step.question], step.question))
            [] step.write = "resolve" -> ResolveParked(step.question)
            [] step.write = "risk" -> parkedItems
     /\ namesakeResolved' =
          CASE step.write = "park" -> namesakeResolved \ {step.question}
            [] step.write = "resolve" -> namesakeResolved \cup Namesakes(step.question)
            [] step.write = "risk" -> namesakeResolved
     /\ riskItems' = IF step.write = "risk" THEN Append(riskItems, step.entry) ELSE riskItems
     /\ WithCall(c, Following(answerCalls[c], Tail(answerCalls[c].followUps)))
     /\ UNCHANGED <<answerLog, restingOn, answerCounts, troubled>>

-----------------------------------------------------------------------------
\* A write, or the read of the index after it, throws: an error is shown and
\* what the call had still to do is not done.
AnswerCallThrows(c) ==
  /\ answerCalls[c] # NoCall /\ CountAnswer("faults", MaxAnswerFaults)
  /\ WithCall(c, NoCall)
  /\ troubled' = troubled \cup Awaited(answerCalls[c])
  /\ UNCHANGED <<answerLog, parkedItems, riskItems, restingOn, namesakeResolved>>

\* A round is restored unanswered if its transcript holds no answer; what then
\* happens to one that holds it is part of what happens to one that does not.
AnswersCrash ==
  /\ CountAnswer("faults", MaxAnswerFaults)
  /\ answerCalls' = [c \in AnswerCallers |-> NoCall]
  /\ roundWaits' = [session \in Sessions |-> "orphaned"]
  /\ troubled' = troubled \cup UNION {Awaited(answerCalls[c]) : c \in AnswerCallers}
  /\ UNCHANGED <<answerLog, parkedItems, riskItems, restingOn, namesakeResolved>>

AnswersNext ==
  \/ \E d \in DecisionIds, questionIds, dependsOn \in SUBSET QuestionNumbers :
       RecordDecision(d, questionIds, dependsOn)
  \/ \E number \in QuestionNumbers \cup {NoQuestion} : PlanPark(number)
  \/ \E c \in AnswerCallers :
       \/ \E session \in Sessions, modifier \in RoundAnswers : AnswerRound(c, session, modifier)
       \/ \E q \in Questions, modifier \in Modifiers : ReviseAnswer(c, q, modifier)
       \/ ReadDependents(c) \/ MarkDecisionsStale(c) \/ RecordAnswersOf(c)
       \/ FollowUp(c) \/ AnswerCallThrows(c)
  \/ AnswersCrash
AnswersSpec == AnswersInit /\ [][AnswersNext]_answerVars

-----------------------------------------------------------------------------
FollowedUp(q) == \A c \in AnswerCallers : q \notin Awaited(answerCalls[c])
IsOpen(q) == \E k \in DOMAIN parkedItems : parkedItems[k] = Parked(NumberOf[q], q)

\* Once what follows from the answers of a question is done, an item it parked is
\* open exactly if its latest answer parks it and no answer to another session's
\* question of the same number has resolved it since; and it has one risk for each
\* of its answers marked tentative.  Excused are questions of which a call failed on
\* the way, or a second one recorded an answer before the first was through.
FollowUpsMatchTheLog ==
  \A q \in Questions \ troubled : FollowedUp(q) =>
      /\ IsOpen(q) <=> WasParked(answerLog, q) /\ q \notin namesakeResolved
      /\ \A n \in DOMAIN answerLog : answerLog[n].question = q =>
           Cardinality({k \in DOMAIN riskItems : riskItems[k] = n})
             = IF answerLog[n].modifier = "tentative" THEN 1 ELSE 0

\* What fsPlanStore.ts:436 says, "A parked question that now has a real answer: its
\* PARKED.md item is resolved": a question that is parked in its session's log, and
\* has no real answer, keeps its item open.
ParkedUntilAnswered ==
  \A q \in Questions \ troubled : FollowedUp(q) /\ WasParked(answerLog, q) => IsOpen(q)

\* When the log holds a revised answer, no decision that rests on the question
\* is active, but for those Claude recorded after the revision had looked for
\* them; whatever calls it met, failed beside it or died with it.
RevisionsLeaveNoActiveDecision ==
  \A n \in DOMAIN answerLog : answerLog[n].revises =>
    \A d \in DecisionIds :
      /\ restingOn[d].written <= answerLog[n].readAt
      /\ NumberOf[answerLog[n].question] \in restingOn[d].questionIds \cup restingOn[d].dependsOn
      => restingOn[d].status # "active"
=============================================================================
