--------------------------- MODULE SessionStream ---------------------------
(***************************************************************************)
(* What one Octoplan session becomes outside the session manager: every    *)
(* broadcast goes to the open browser sockets and, behind the appends      *)
(* before it, to the session's transcript, from which a restarted server   *)
(* rebuilds the session; a browser that says hello is replayed what the    *)
(* server holds and folds both streams with planClientReducer.  Which      *)
(* broadcasts follow one another is InterviewSession's; here any may.      *)
(***************************************************************************)
EXTENDS Naturals, FiniteSets, SequencesExt, Positions

CONSTANTS
  Viewers,          \* browser pages
  RoundIds,         \* bound: the round numbers of a session, 1..n
  QuietStatus,      \* bound: the statuses that messages and results of Claude set
  MaxBroadcasts,    \* bound: events broadcast, over all lives of the server
  MaxStreamFaults   \* bound: crashes and failed appends

ASSUME StreamAssumption == RoundIds \subseteq Nat \ {0}

VARIABLES
  live,           \* the LiveSession, or NoSession while the server is down or knows none
  serving,        \* the server listens
  chain,          \* transcriptChains: the events broadcast since the last start
  transcript,     \* the lines of the .jsonl file at the last start
  page,           \* page: "closed", "open" (in wss.clients) or "greeted" (its hello replayed)
  inFlight,       \* page: events sent on its socket and not yet reduced
  shown,          \* page: the client's copy
  broadcasts, asked, streamFaults,   \* history: counts
  appendFailed,   \* history: an append failed
  ownerless       \* history: numbers whose answers the last start found without their round

streamVars == <<live, serving, chain, transcript, page, inFlight, shown, broadcasts, asked,
                streamFaults, appendFailed, ownerless>>

NoSession == [known |-> FALSE]
Known == live.known

\* The events a session's stream is made of: an id, and what is said of it.
StatusIs(s) == [type |-> "session-updated", id |-> 0, value |-> s]
BlockIs(n) == [type |-> "block", id |-> n, value |-> 0]
RoundIs(r, ask) == [type |-> "question-round", id |-> r, value |-> ask]
AnswersAre(r, version) == [type |-> "round-answered", id |-> r, value |-> version]
SessionsAre(s) == [type |-> "sessions", id |-> 0, value |-> s]

NoRoundShown == [ask |-> 0, answers |-> 0]
NothingShown ==
  [status |-> "none", blocks |-> {}, rounds |-> [r \in RoundIds |-> NoRoundShown],
   early |-> [r \in RoundIds |-> 0]]

\* newLive and register: the session's first event is on its way to its file.
NewLive ==
  [known |-> TRUE, status |-> "starting", blocks |-> {}, blockCount |-> 0, rounds |-> << >>,
   answers |-> [r \in RoundIds |-> 0], pending |-> {}, orphaned |-> {}]

StreamInit ==
  /\ live = NewLive /\ serving = TRUE
  /\ chain = <<StatusIs("starting")>> /\ transcript = << >>
  /\ page = [c \in Viewers |-> "closed"]
  /\ inFlight = [c \in Viewers |-> << >>] /\ shown = [c \in Viewers |-> NothingShown]
  /\ broadcasts = 1 /\ asked = 0 /\ streamFaults = 0 /\ appendFailed = FALSE
  /\ ownerless = {}

-----------------------------------------------------------------------------
\* broadcast: to every open socket at once, to the transcript in its turn.
Broadcast(events) ==
  /\ broadcasts + Len(events) <= MaxBroadcasts
  /\ broadcasts' = broadcasts + Len(events)
  /\ inFlight' = [c \in Viewers |-> IF page[c] = "closed" THEN << >> ELSE inFlight[c] \o events]
  /\ chain' = chain \o events
  /\ UNCHANGED <<serving, transcript, page, shown, streamFaults, appendFailed>>

\* setStatus, by whatever calls it.
SetStatus(s) ==
  /\ Known /\ s # live.status
  /\ live' = [live EXCEPT !.status = s] /\ Broadcast(<<StatusIs(s)>>)
  /\ UNCHANGED <<asked, ownerless>>

\* addBlock: a user turn, a section, a tool line or a revision card.
AddBlock ==
  /\ Known
  /\ LET n == live.blockCount + 1
     IN /\ live' = [live EXCEPT !.blocks = @ \cup {n}, !.blockCount = n]
        /\ Broadcast(<<BlockIs(n)>>)
  /\ UNCHANGED <<asked, ownerless>>

\* canUseTool of AskUserQuestion: the round and its card, and the status, also
\* of a session that was stopped while the question waited for the revision card.
AskRound ==
  /\ Known /\ Len(live.rounds) + 1 \in RoundIds
  /\ LET n == live.blockCount + 1
         r == Len(live.rounds) + 1
     IN /\ live' = [live EXCEPT !.blocks = @ \cup {n}, !.blockCount = n,
                                !.rounds = Append(@, [id |-> r, ask |-> asked + 1]),
                                !.pending = @ \cup {r}, !.status = "waiting-for-answer"]
        /\ Broadcast(<<BlockIs(n), RoundIs(r, asked + 1)>>
                       \o IF live.status = "waiting-for-answer" THEN << >>
                          ELSE <<StatusIs("waiting-for-answer")>>)
  /\ asked' = asked + 1
  /\ UNCHANGED ownerless

\* recordRoundAnswers of a round that waits, or of one restored unanswered;
\* and the history a revision sets.
Answerable(r) ==
  \/ r \in live.pending \cup live.orphaned
  \/ \E k \in DOMAIN live.rounds : live.rounds[k].id = r /\ live.answers[r] > 0
RecordAnswers(r) ==
  /\ Known /\ Answerable(r)
  /\ live' = [live EXCEPT !.answers[r] = @ + 1, !.orphaned = @ \ {r}]
  /\ Broadcast(<<AnswersAre(r, live.answers[r] + 1)>>)
  /\ ownerless' = ownerless \ {r}
  /\ UNCHANGED asked

\* The tool call of an answered round goes on.
SettleRound(r) ==
  /\ Known /\ r \in live.pending /\ live.answers[r] > 0
  /\ live' = [live EXCEPT !.pending = @ \ {r}, !.status = "running"]
  /\ IF live.status = "running" THEN UNCHANGED <<broadcasts, inFlight, chain, serving, transcript,
                                                 page, shown, streamFaults, appendFailed>>
     ELSE Broadcast(<<StatusIs("running")>>)
  /\ UNCHANGED <<asked, ownerless>>

\* stop: what waited is denied, and what was orphaned is let go.
StopStream ==
  /\ Known /\ live.status # "ended"
  /\ live' = [live EXCEPT !.pending = {}, !.orphaned = {}, !.status = "ended"]
  /\ Broadcast(<<StatusIs("ended")>>)
  /\ UNCHANGED <<asked, ownerless>>

-----------------------------------------------------------------------------
\* Slip: appends are not queued behind one another, and end in another order.
Written_Unqueued(n, failed) ==
  LET kept == Ascending((1..n) \ failed)
  IN [k \in DOMAIN kept |-> chain[kept[Len(kept) + 1 - k]]]

\* append, one after another: nothing reads the file before the next start,
\* so only what had ended by then shows.  Of the first n appends those in
\* failed wrote no line that a load reads.
Written(n, failed) ==
  LET kept == Ascending((1..n) \ failed)
  IN [k \in DOMAIN kept |-> chain[kept[k]]]

\* The server dies: the appends behind the first n with it, and every socket.
Crash(n, failed) ==
  /\ serving /\ serving' = FALSE /\ n <= Len(chain)
  /\ streamFaults + 1 + Cardinality(failed) <= MaxStreamFaults
  /\ streamFaults' = streamFaults + 1 + Cardinality(failed)
  /\ appendFailed' = (appendFailed \/ failed # {})
  /\ transcript' = transcript \o Written(n, failed)
  /\ live' = NoSession /\ chain' = << >>
  /\ page' = [c \in Viewers |-> "closed"] /\ inFlight' = [c \in Viewers |-> << >>]
  /\ UNCHANGED <<shown, broadcasts, asked, ownerless>>

Lines(type, id) == {i \in DOMAIN transcript : transcript[i].type = type /\ transcript[i].id = id}
LastSaid(type, id, none) ==
  IF Lines(type, id) = {} THEN none ELSE transcript[Max(Lines(type, id))].value

\* The rounds of the file in order, a number read again replacing the round it names.
RestoredRounds ==
  LET first == {i \in DOMAIN transcript :
                  /\ transcript[i].type = "question-round"
                  /\ \A j \in Lines("question-round", transcript[i].id) : i <= j}
      at == Ascending(first)
  IN [k \in DOMAIN at |->
        LET r == transcript[at[k]].id IN [id |-> r, ask |-> LastSaid("question-round", r, 0)]]

\* restoreLive: nothing waits but a last round without an answer.
RestoreLive ==
  LET blocks == {e.id : e \in {f \in ToSet(transcript) : f.type = "block"}}
      answers == [r \in RoundIds |-> LastSaid("round-answered", r, 0)]
      status == LastSaid("session-updated", 0, "none")
      open == status \notin {"ended", "error"}
      waits == {r \in RoundIds : /\ open /\ RestoredRounds # << >>
                                 /\ r = Last(RestoredRounds).id /\ answers[r] = 0}
  IN [known |-> TRUE, blocks |-> blocks, blockCount |-> IF blocks = {} THEN 0 ELSE Max(blocks),
      rounds |-> RestoredRounds, answers |-> answers, pending |-> {}, orphaned |-> waits,
      status |-> IF ~open THEN status
                 ELSE IF waits # {} THEN "waiting-for-answer" ELSE "idle"]

\* restore: a file without a session line is no session; the server listens after.
Restart ==
  /\ ~serving /\ serving' = TRUE
  /\ live' = IF Lines("session-updated", 0) = {} THEN NoSession ELSE RestoreLive
  /\ ownerless' = {r \in RoundIds : Lines("round-answered", r) # {} /\ Lines("question-round", r) = {}}
  /\ UNCHANGED <<chain, transcript, page, inFlight, shown, broadcasts, asked, streamFaults,
                 appendFailed>>

-----------------------------------------------------------------------------
\* The page loads and its socket joins wss.clients; there is no reconnect.
OpenPage(c) ==
  /\ serving /\ page[c] = "closed"
  /\ page' = [page EXCEPT ![c] = "open"] /\ shown' = [shown EXCEPT ![c] = NothingShown]
  /\ UNCHANGED <<live, serving, chain, transcript, inFlight, broadcasts, asked, streamFaults,
                 appendFailed, ownerless>>

\* Slip: only the rounds are replayed, as the browser that asks knows the answers.
RoundReplay_NoAnswers ==
  [k \in DOMAIN live.rounds |-> RoundIs(live.rounds[k].id, live.rounds[k].ask)]

\* replay: the sessions, then the session's cards, rounds and answers: every round
\* (2k - 1), and behind it its answers (2k) if it has any.
RoundReplay ==
  LET rounds == live.rounds
      answered == {k \in DOMAIN rounds : live.answers[rounds[k].id] # 0}
      said == Ascending({2 * k - 1 : k \in DOMAIN rounds} \cup {2 * k : k \in answered})
  IN [i \in DOMAIN said |->
        LET round == rounds[(said[i] + 1) \div 2]
        IN IF said[i] % 2 = 1 THEN RoundIs(round.id, round.ask)
           ELSE AnswersAre(round.id, live.answers[round.id])]
Replay ==
  IF ~Known THEN <<SessionsAre("none")>>
  ELSE <<SessionsAre(live.status)>> \o SetToSeq({BlockIs(n) : n \in live.blocks}) \o RoundReplay

\* The page's hello is handled, with no await before the last round is sent.
Hello(c) ==
  /\ page[c] = "open" /\ page' = [page EXCEPT ![c] = "greeted"]
  /\ inFlight' = [inFlight EXCEPT ![c] = @ \o Replay]
  /\ UNCHANGED <<live, serving, chain, transcript, shown, broadcasts, asked, streamFaults,
                 appendFailed, ownerless>>

\* planClientReducer.
Reduced(s, e) ==
  CASE e.type \in {"sessions", "session-updated"} -> [s EXCEPT !.status = e.value]
    [] e.type = "block" -> [s EXCEPT !.blocks = @ \cup {e.id}]
    [] e.type = "question-round" ->
         [s EXCEPT !.rounds[e.id] = [ask |-> e.value,
                                     answers |-> IF s.early[e.id] > 0 THEN s.early[e.id]
                                                 ELSE @.answers],
                   !.early[e.id] = 0]
    [] e.type = "round-answered" ->
         IF s.rounds[e.id].ask = 0 THEN [s EXCEPT !.early[e.id] = e.value]
         ELSE [s EXCEPT !.rounds[e.id].answers = e.value]

Receive(c) ==
  /\ inFlight[c] # << >>
  /\ shown' = [shown EXCEPT ![c] = Reduced(@, Head(inFlight[c]))]
  /\ inFlight' = [inFlight EXCEPT ![c] = Tail(@)]
  /\ UNCHANGED <<live, serving, chain, transcript, page, broadcasts, asked, streamFaults,
                 appendFailed, ownerless>>

StreamNext ==
  \/ \E s \in QuietStatus : SetStatus(s)
  \/ AddBlock \/ AskRound \/ StopStream
  \/ \E r \in RoundIds : RecordAnswers(r) \/ SettleRound(r)
  \/ \E n \in 0..MaxBroadcasts : \E failed \in SUBSET (1..n) : Crash(n, failed)
  \/ Restart
  \/ \E c \in Viewers : OpenPage(c) \/ Hello(c) \/ Receive(c)
StreamSpec == StreamInit /\ [][StreamNext]_streamVars

-----------------------------------------------------------------------------
CaughtUp(c) == page[c] = "greeted" /\ inFlight[c] = << >>
NewestRound(r) == Max({0} \cup {k \in DOMAIN live.rounds : live.rounds[k].id = r})
\* A page that was replayed and has reduced all it was sent shows the session
\* of the server, also when broadcasts came before the replay, whatever the
\* transcript lost before a restart: its status, its cards, of every round the
\* last asked under its number and its answers.  Only answers whose round the
\* transcript lost, and which the server counts for the next round it asks
\* under that number, may be missing there until they are given again.
CaughtUpPagesShowTheSession ==
  \A c \in Viewers : CaughtUp(c) =>
    IF ~Known THEN shown[c].status = "none"
    ELSE /\ shown[c].status = live.status /\ shown[c].blocks = live.blocks
         /\ \A r \in RoundIds :
              IF NewestRound(r) = 0 THEN shown[c].rounds[r] = NoRoundShown
              ELSE /\ shown[c].rounds[r].ask = live.rounds[NewestRound(r)].ask
                   /\ \/ shown[c].rounds[r].answers = live.answers[r]
                      \/ r \in ownerless /\ shown[c].rounds[r].answers = 0

\* Unless an append failed, no round takes the number of another, over
\* restarts too: pages, answers and the plan's log know it by that number.
RoundsKeepTheirNumbers ==
  Known /\ ~appendFailed => \A k \in DOMAIN live.rounds : live.rounds[k].id = k
=============================================================================
