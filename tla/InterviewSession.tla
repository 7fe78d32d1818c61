-------------------------- MODULE InterviewSession --------------------------
(***************************************************************************)
(* One session of Octoplan's session manager between a start and the next  *)
(* restart of the server: its Claude queries, the question rounds they     *)
(* ask, and the browser's requests, each cut at its awaits.  A query is    *)
(* the Agent SDK's, external: it yields messages, calls canUseTool, ends   *)
(* or throws, and yields nothing once it is aborted.                       *)
(***************************************************************************)
EXTENDS Naturals, FiniteSets

CONSTANTS
  Query,       \* bound: the queries a behaviour may run
  NoQuery,     \* null
  Round,       \* bound: the rounds a behaviour may ask
  MaxAnswers   \* bound: answers on their way for one round

ASSUME InterviewAssumption == NoQuery \notin Query /\ MaxAnswers \in Nat

VARIABLES
  status,          \* session.status
  claude,          \* session.claudeSessionId is known
  starting,        \* start() has registered the session and not yet begun its query
  current,         \* live.input and live.abort, which are set and cleared together
  loop,            \* where the message loop of each query is
  aborted,         \* queries aborted, their input closed
  displaced,       \* queries whose place start() took (history)
  asking,          \* queries whose canUseTool call awaits the revision card
  round,           \* rounds: not asked, pending, or settled one way or the other
  asker,           \* the query whose tool call waits on the round
  answered,        \* rounds in live.answers, by an answer or a revision
  answering,       \* answerRound calls that await the store, per round
  answeredRounds,  \* live.answeredRounds
  revision,        \* pendingRevision is set
  revising,        \* reviseAnswer of a round: "no", "reading" or "recording"
  converging,      \* converge awaits its snapshot
  stopped          \* stopped, and not asked to converge since (history)

queryVars == <<current, loop, aborted, displaced>>
roundVars == <<round, asker, asking>>
answerVars == <<answered, answering, answeredRounds>>
turnVars == <<revision, revising, converging>>
interviewVars == <<status, claude, starting, queryVars, roundVars, answerVars, turnVars, stopped>>

Status == {"starting", "running", "waiting-for-answer", "idle", "ended", "error"}
Results == {"allowed", "denied"}

Live(q) == loop[q] \notin {"new", "over"}

\* start() has registered the session and broadcast it: requests can name it.
InterviewInit ==
  /\ status = "starting" /\ claude = FALSE /\ starting = TRUE
  /\ current = NoQuery /\ loop = [q \in Query |-> "new"]
  /\ aborted = {} /\ displaced = {}
  /\ asking = {}
  /\ round = [r \in Round |-> "unasked"] /\ asker = [r \in Round |-> NoQuery]
  /\ answered = {} /\ answering = [r \in Round |-> 0] /\ answeredRounds = 0
  /\ revision = FALSE /\ revising = [r \in Round |-> "no"] /\ converging = FALSE
  /\ stopped = FALSE

-----------------------------------------------------------------------------
\* runQuery: a new query becomes the session's.
RunQuery(q) ==
  /\ loop[q] = "new"
  /\ loop' = [loop EXCEPT ![q] = "ready"] /\ current' = q
  /\ UNCHANGED aborted

\* liveInput: the open input if there is one, else a query that resumes.
LiveInput ==
  IF current # NoQuery /\ current \notin aborted THEN UNCHANGED <<current, loop, aborted>>
  ELSE \E q \in Query : RunQuery(q)

\* pushTurn.
PushTurn ==
  /\ LiveInput
  /\ status' = IF status = "waiting-for-answer" THEN status ELSE "running"
  /\ UNCHANGED displaced

\* start() goes on after it read the plan, whatever happened to the session.
StartGoesOn ==
  /\ starting /\ starting' = FALSE
  /\ \E q \in Query : RunQuery(q)
  /\ displaced' = IF current = NoQuery THEN displaced ELSE displaced \cup {current}
  /\ UNCHANGED <<status, claude, roundVars, answerVars, turnVars, stopped>>

SendMessage ==
  /\ status # "ended" /\ PushTurn
  /\ UNCHANGED <<claude, starting, roundVars, answerVars, turnVars, stopped>>

-----------------------------------------------------------------------------
\* The message loop.  A message finds it ready; some make it wait for the store.
Yields(q) == loop[q] = "ready" /\ q \notin aborted

At(q, place) == loop' = [loop EXCEPT ![q] = place]

InitMessage(q) ==
  /\ Yields(q)
  /\ \/ claude' = TRUE /\ At(q, "init") /\ UNCHANGED status
     \/ claude /\ status' = "running" /\ UNCHANGED <<claude, loop>>
  /\ UNCHANGED <<starting, current, aborted, displaced, roundVars, answerVars, turnVars, stopped>>

\* Text and tool calls, perhaps Claude's own revision card, perhaps the summary.
AssistantMessage(q) ==
  /\ Yields(q)
  /\ revision' \in {revision, FALSE}
  /\ \/ At(q, "summary") /\ UNCHANGED status
     \/ status' = (IF status = "waiting-for-answer" THEN status ELSE "running")
        /\ UNCHANGED loop
  /\ UNCHANGED <<claude, starting, current, aborted, displaced, roundVars, answerVars,
                 revising, converging, stopped>>

Pending == {r \in Round : round[r] = "waiting"}

IdleUnlessPending == IF Pending = {} THEN "idle" ELSE status

\* The end of a turn; a revision without a card is summed up first.
ResultMessage(q) ==
  /\ Yields(q)
  /\ revision' = FALSE
  /\ IF revision THEN At(q, "result") /\ UNCHANGED status
                 ELSE status' = IdleUnlessPending /\ UNCHANGED loop
  /\ UNCHANGED <<claude, starting, current, aborted, displaced, roundVars, answerVars,
                 revising, converging, stopped>>

\* handleMessage goes on after its await, also when the session was stopped.
MessageGoesOn(q) ==
  /\ loop[q] \in {"init", "summary", "result"}
  /\ At(q, "ready")
  /\ status' = CASE loop[q] = "init"    -> "running"
                 [] loop[q] = "summary" -> IF status = "waiting-for-answer" THEN status
                                           ELSE "running"
                 [] loop[q] = "result"  -> IdleUnlessPending
  /\ UNCHANGED <<claude, starting, current, aborted, displaced, roundVars, answerVars,
                 turnVars, stopped>>

\* Slip: the finally block clears whatever query is current.
Finally_Any(q) == current' = NoQuery

\* The finally block of a query that a newer one has replaced leaves that alone.
Finally(q) == current' = IF current = q THEN NoQuery ELSE current

\* The query ends, or throws; a throw after an abort is ignored.
QueryEnds(q) ==
  /\ loop[q] = "ready" /\ At(q, "over") /\ Finally(q)
  /\ \/ status' = IF status = "ended" THEN status ELSE "idle"
     \/ status' = IF q \in aborted THEN status ELSE "error"
  /\ UNCHANGED <<claude, starting, aborted, displaced, roundVars, answerVars, turnVars,
                 stopped>>

-----------------------------------------------------------------------------
\* The part of canUseTool after the revision card: the round is pending from now.
\* The abort listener of a signal aborted before never fires.
Asked(q) ==
  \E r \in Round :
    /\ round[r] = "unasked"
    /\ round' = [round EXCEPT ![r] = "waiting"]
    /\ asker' = [asker EXCEPT ![r] = q]
    /\ status' = "waiting-for-answer"

AskUserQuestion(q) ==
  /\ Live(q) /\ q \notin aborted \cup asking
  /\ revision' = FALSE
  /\ IF revision THEN asking' = asking \cup {q} /\ UNCHANGED <<round, asker, status>>
                 ELSE Asked(q) /\ UNCHANGED asking
  /\ UNCHANGED <<claude, starting, queryVars, answerVars, revising, converging, stopped>>

AskGoesOn(q) ==
  /\ q \in asking /\ asking' = asking \ {q}
  /\ Asked(q) \/ UNCHANGED <<round, asker, status>>
  /\ UNCHANGED <<claude, starting, queryVars, answerVars, turnVars, stopped>>

-----------------------------------------------------------------------------
\* Slip: settle does not ask whether the round is still pending.
Settle_Again(rs, result) ==
  round' = [r \in Round |-> IF r \in rs /\ round[r] # "unasked" THEN result ELSE round[r]]

\* settle: only a pending round is settled.
Settle(rs, result) ==
  round' = [r \in Round |-> IF r \in rs \cap Pending THEN result ELSE round[r]]

\* answerRound up to its first await; the answers are broadcast.
AnswerRound(r) ==
  /\ r \in Pending /\ answering[r] < MaxAnswers
  /\ answered' = answered \cup {r}
  /\ answering' = [answering EXCEPT ![r] = @ + 1]
  /\ UNCHANGED <<status, claude, starting, queryVars, roundVars, answeredRounds, turnVars,
                 stopped>>

\* Slip: the tool call is settled and the status left to the next message.
AnswerGoesOn_Quiet(r) ==
  /\ answering[r] > 0
  /\ answering' = [answering EXCEPT ![r] = @ - 1]
  /\ answeredRounds' = answeredRounds + 1
  /\ Settle({r}, "allowed")
  /\ UNCHANGED <<status, claude, starting, queryVars, asker, asking, answered, turnVars, stopped>>

\* answerRound after the store took the answers, or failed to.
AnswerGoesOn(r) ==
  /\ answering[r] > 0
  /\ answering' = [answering EXCEPT ![r] = @ - 1]
  /\ answeredRounds' = answeredRounds + 1
  /\ status' = "running"
  /\ Settle({r}, "allowed")
  /\ UNCHANGED <<claude, starting, queryVars, asker, asking, answered, turnVars, stopped>>

\* reviseAnswer of an asked round: it reads the dependents and marks them stale,
\* records the answer, and sends a turn.
Revise(r) ==
  /\ revising[r] = "no" /\ round[r] # "unasked"
  /\ revising' = [revising EXCEPT ![r] = "reading"]
  /\ UNCHANGED <<status, claude, starting, queryVars, roundVars, answerVars, revision,
                 converging, stopped>>

RevisionRead(r) ==
  /\ revising[r] = "reading"
  /\ revising' = [revising EXCEPT ![r] = "recording"] /\ revision' = TRUE
  /\ UNCHANGED <<status, claude, starting, queryVars, roundVars, answerVars, converging, stopped>>

RevisionRecorded(r) ==
  /\ revising[r] = "recording" /\ revising' = [revising EXCEPT ![r] = "no"]
  /\ answered' = answered \cup {r}
  /\ IF status = "ended" THEN UNCHANGED <<status, queryVars>> ELSE PushTurn
  /\ UNCHANGED <<claude, starting, roundVars, answering, answeredRounds, revision, converging,
                 stopped>>

\* A store call of reviseAnswer fails: reported, and nothing more is done.
RevisionFails(r) ==
  /\ revising[r] # "no" /\ revising' = [revising EXCEPT ![r] = "no"]
  /\ UNCHANGED <<status, claude, starting, queryVars, roundVars, answerVars, revision,
                 converging, stopped>>

\* converge: an ended session may be taken up again, if Claude ever started.
Converge ==
  /\ ~converging /\ ~(status = "ended" /\ ~claude)
  /\ converging' = TRUE /\ stopped' = FALSE
  /\ UNCHANGED <<status, claude, starting, queryVars, roundVars, answerVars, revision, revising>>

\* After its snapshot, with a starred idea or without one.
ConvergeGoesOn ==
  /\ converging /\ converging' = FALSE
  /\ PushTurn \/ UNCHANGED <<status, queryVars>>
  /\ UNCHANGED <<claude, starting, roundVars, answerVars, revision, revising, stopped>>

Aborted == IF current = NoQuery THEN aborted ELSE aborted \cup {current}

\* stop: pending rounds are denied, the current query is aborted and its input closed.
Stop ==
  /\ Settle(Round, "denied")
  /\ aborted' = Aborted
  /\ status' = "ended" /\ stopped' = TRUE
  /\ UNCHANGED <<claude, starting, current, loop, displaced, asker, asking, answerVars, turnVars>>

-----------------------------------------------------------------------------
InterviewNext ==
  \/ StartGoesOn \/ SendMessage \/ Converge \/ ConvergeGoesOn \/ Stop
  \/ \E q \in Query :
       \/ InitMessage(q) \/ AssistantMessage(q) \/ ResultMessage(q) \/ MessageGoesOn(q)
       \/ QueryEnds(q) \/ AskUserQuestion(q) \/ AskGoesOn(q)
  \/ \E r \in Round :
       \/ AnswerRound(r) \/ AnswerGoesOn(r)
       \/ Revise(r) \/ RevisionRead(r) \/ RevisionRecorded(r) \/ RevisionFails(r)

InterviewSpec == InterviewInit /\ [][InterviewNext]_interviewVars

-----------------------------------------------------------------------------
InterviewTypeOK ==
  /\ status \in Status /\ claude \in BOOLEAN /\ starting \in BOOLEAN
  /\ current \in Query \cup {NoQuery}
  /\ loop \in [Query -> {"new", "ready", "init", "summary", "result", "over"}]
  /\ aborted \subseteq Query /\ displaced \subseteq Query
  /\ asking \subseteq Query
  /\ round \in [Round -> {"unasked", "waiting"} \cup Results]
  /\ asker \in [Round -> Query \cup {NoQuery}]
  /\ answered \subseteq Round /\ answering \in [Round -> Nat] /\ answeredRounds \in Nat
  /\ revision \in BOOLEAN /\ revising \in [Round -> {"no", "reading", "recording"}]
  /\ converging \in BOOLEAN /\ stopped \in BOOLEAN

\* Every query that runs is the one a stop would abort, but for the one whose
\* place start() took: neither a resumed query nor the end of an old one ever
\* leaves a query that nobody can reach.
NoHiddenQuery ==
  \A q \in Query : Live(q) /\ q \notin aborted \cup displaced => q = current

\* The session never waits for an answer that nobody can give: while the status
\* says so, a round is pending.
WaitingHasARound == status = "waiting-for-answer" => Pending # {}

\* A tool call gets one result: an answer that was on its way when the session
\* was stopped does not turn the denial, nor the other way round.
SettledOnce ==
  [][\A r \in Round : round[r] \in Results => round'[r] = round[r]]_interviewVars

-----------------------------------------------------------------------------
\* docs/octoplan/tentacles/bridge/todo.md: the runner "runs one Agent SDK `query()`
\* per session".
OneQueryPerSession ==
  \A p, q \in Query : Live(p) /\ Live(q) /\ {p, q} \cap aborted = {} => p = q

\* tests/bridge/sessionManager.test.ts: stopping "denies it with interrupt and ends
\* the session".
StoppedSessionsStayEnded == stopped => status = "ended"

\* docs/octoplan/tentacles/bridge/todo.md: "The abort signal and `stop-session` reject
\* a pending round cleanly."
StopRejectsEveryRound == stopped => Pending = {}

\* docs/octoplan/SPEC.md: "Answering a round resumes Claude".
AnswersReachClaude ==
  [][\A r \in Round : round[r] = "waiting" /\ round'[r] = "allowed" => Live(asker[r])]_interviewVars

\* sessionManager.ts: answeredRounds is the "rounds answered so far".
CountsAnsweredRounds == answeredRounds <= Cardinality(answered)

\* docs/octoplan/tentacles/bridge/todo.md, of the turn that tells Claude a revision:
\* "If the session has ended, resume it [...] before pushing the turn."
RevisionsReachClaude ==
  [][\A r \in Round :
       RevisionRecorded(r) => current' # NoQuery /\ current' \notin aborted']_interviewVars
=============================================================================
