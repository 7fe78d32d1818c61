-------------------------- MODULE ConversationsView --------------------------
(***************************************************************************)
(* Conversations: the two files the API keeps of a session, the transcript *)
(* the session appends to and the turns its agent's Stop hook stores, and  *)
(* the page that lists, searches, shows and removes them                   *)
(* (useConversationsRuntime), whose requests and answers may overtake one  *)
(* another.  The page is mounted once; leaving it drops its state.         *)
(***************************************************************************)
EXTENDS Naturals, Sequences

CONSTANTS
  Conversations,     \* the sessions
  Nobody,            \* no session: null
  MaxPageRequests,   \* bound: lists, searches and removals the page asks for
  MaxDetailReads,    \* bound: reads of one session before the last click
  MaxTranscriptSteps,\* bound: what the sessions do meanwhile
  MaxPageFaults      \* bound: requests that fail

ASSUME NobodyIsNoSession == Nobody \notin Conversations

VARIABLES
  transcripts,   \* the sessions with a transcript, the last to append first
  turned,        \* the sessions whose turns are stored
  appending,     \* the live sessions whose stream still writes to that file
  liveSessions,  \* the sessions that run
  listed,        \* the page: the listed sessions, newest first
  selected,      \* selectedSessionId
  shownSession,  \* the session of selectedSession
  loading,       \* isLoadingSelectedSession
  requestRef,    \* selectedSessionRequestRef
  details,       \* the reads of one session under way: [id, of, reply]
  lists,         \* the reads of the list: [id, reply], the reply a list
  searches,      \* the searches: [id, reply], the reply sessions with a hit
  hits,          \* the sessions of searchHits
  removals,      \* the DELETEs of a session, or of Nobody for all: [id, of, done]
  pageRequests, transcriptSteps, pageFaults

transcriptVars == <<transcripts, turned, appending, liveSessions, transcriptSteps>>
selectionVars == <<selected, shownSession, loading, requestRef, details>>
viewVars == <<transcriptVars, listed, selectionVars, lists, searches, hits, removals,
              pageRequests, pageFaults>>

Asked == "asked"
\* Every session but c, in the same order.
Except(s, c) == SelectSeq(s, LAMBDA d : d # c)
Newly(s, c) == <<c>> \o Except(s, c)
InList(c, s) == \E n \in DOMAIN s : s[n] = c
FirstIn(s) == IF s = << >> THEN Nobody ELSE s[1]
\* listConversationSessions leaves out what has no stored turns.
Listing == SelectSeq(transcripts, LAMBDA c : c \in turned)

ViewInit ==
  /\ transcripts \in {<<c>> : c \in Conversations} /\ turned = {transcripts[1]}
  /\ liveSessions = {} /\ appending = {} /\ transcriptSteps = 0
  /\ listed = << >> /\ hits = {}
  /\ selected = Nobody /\ shownSession = Nobody /\ loading = FALSE
  /\ requestRef = 0 /\ details = {}
  \* The mount asks for the list.
  /\ lists = {[id |-> 0, reply |-> <<Nobody>>]} /\ searches = {} /\ removals = {}
  /\ pageRequests = 0 /\ pageFaults = 0

-----------------------------------------------------------------------------
TranscriptStep ==
  /\ transcriptSteps < MaxTranscriptSteps /\ transcriptSteps' = transcriptSteps + 1
  /\ UNCHANGED <<listed, selectionVars, lists, searches, hits, removals, pageRequests, pageFaults>>
\* startSession opens the file to append, or makes it.
SessionStarts(c) ==
  /\ TranscriptStep /\ c \notin liveSessions /\ liveSessions' = liveSessions \cup {c}
  /\ appending' = appending \cup {c} /\ transcripts' = Newly(transcripts, c)
  /\ UNCHANGED turned
\* What goes to a removed file is lost.
SessionAppends(c) ==
  /\ TranscriptStep /\ c \in liveSessions \cap appending /\ transcripts' = Newly(transcripts, c)
  /\ UNCHANGED <<turned, appending, liveSessions>>
SessionEnds(c) ==
  /\ TranscriptStep /\ c \in liveSessions /\ liveSessions' = liveSessions \ {c}
  /\ appending' = appending \ {c}
  /\ transcripts' = IF c \in appending THEN Newly(transcripts, c) ELSE transcripts
  /\ UNCHANGED turned
\* The turns are stored whether or not the transcript is there.
StopHook(c) ==
  /\ TranscriptStep /\ c \in liveSessions /\ turned' = turned \cup {c}
  /\ UNCHANGED <<transcripts, appending, liveSessions>>

-----------------------------------------------------------------------------
\* setSelectedSessionId(c), and the effect on a selection that changed.
Select(c) ==
  /\ selected' = c
  /\ IF c = selected THEN UNCHANGED <<loading, requestRef, details>>
     ELSE IF c = Nobody THEN UNCHANGED <<loading, requestRef, details>>
     ELSE /\ requestRef' = requestRef + 1 /\ loading' = TRUE
          /\ details' = details \cup {[id |-> requestRef + 1, of |-> c, reply |-> Asked]}
ShownAfter(c) == IF c = Nobody /\ selected # Nobody THEN Nobody ELSE shownSession

ReadDetail(d) ==
  /\ d.reply = Asked
  /\ details' = (details \ {d}) \cup
       {[d EXCEPT !.reply = IF InList(d.of, transcripts) THEN "found" ELSE "missing"]}
  /\ UNCHANGED <<transcriptVars, listed, selected, shownSession, loading, requestRef, lists,
                 searches, hits, removals, pageRequests, pageFaults>>
\* Slip: any answer counts.
IsLatest_Any(d) == d \in details
IsLatest(d) == d.id = requestRef
\* An answer that is not the latest request's is dropped; "missing" is an error
\* as a failed request is.
Answered(d, found) ==
  /\ details' = details \ {d}
  /\ IF IsLatest(d) THEN /\ shownSession' = IF found THEN d.of ELSE Nobody
                         /\ loading' = FALSE
     ELSE UNCHANGED <<shownSession, loading>>
  /\ UNCHANGED <<transcriptVars, listed, selected, requestRef, lists, searches, hits, removals,
                 pageRequests>>
DetailAnswered(d) == d.reply # Asked /\ Answered(d, d.reply = "found") /\ UNCHANGED pageFaults

PageFault == pageFaults < MaxPageFaults /\ pageFaults' = pageFaults + 1
DetailFails(d) == PageFault /\ Answered(d, FALSE)

\* A click on a listed session or on a hit.
SelectSession(c) ==
  /\ InList(c, listed) \/ c \in hits
  /\ c # selected /\ requestRef < MaxDetailReads
  /\ Select(c) /\ shownSession' = shownSession
  /\ UNCHANGED <<transcriptVars, listed, lists, searches, hits, removals, pageRequests, pageFaults>>

-----------------------------------------------------------------------------
PageRequest == pageRequests < MaxPageRequests /\ pageRequests' = pageRequests + 1
Pending == <<Nobody>>
RefreshSessions ==
  /\ PageRequest /\ lists' = lists \cup {[id |-> pageRequests', reply |-> Pending]}
  /\ UNCHANGED <<transcriptVars, listed, selectionVars, searches, hits, removals, pageFaults>>
ReadList(r) ==
  /\ r.reply = Pending /\ lists' = (lists \ {r}) \cup {[r EXCEPT !.reply = Listing]}
  /\ UNCHANGED <<transcriptVars, listed, selectionVars, searches, hits, removals, pageRequests,
                 pageFaults>>
\* The selection stays if it is listed, and else goes to the first.
ListAnswered(r) ==
  LET next == IF InList(selected, r.reply) THEN selected ELSE FirstIn(r.reply) IN
  /\ r.reply # Pending /\ lists' = lists \ {r} /\ listed' = r.reply
  /\ Select(next) /\ shownSession' = ShownAfter(next)
  /\ UNCHANGED <<transcriptVars, searches, hits, removals, pageRequests, pageFaults>>
ListFails(r) ==
  /\ PageFault /\ lists' = lists \ {r}
  /\ UNCHANGED <<transcriptVars, listed, selectionVars, searches, hits, removals, pageRequests>>

\* The search reads the stored turns of the transcripts that are there; which of
\* them match is the query's.
Search ==
  /\ PageRequest
  /\ \E matching \in SUBSET Conversations :
       searches' = searches \cup {[id |-> pageRequests', reply |-> {c \in matching \cap turned : InList(c, transcripts)}]}
  /\ UNCHANGED <<transcriptVars, listed, selectionVars, lists, hits, removals, pageFaults>>
\* The last answer to come counts, whatever was typed since.
SearchAnswered(r) ==
  /\ searches' = searches \ {r} /\ hits' = r.reply
  /\ UNCHANGED <<transcriptVars, listed, selectionVars, lists, removals, pageRequests, pageFaults>>
ClearSearch ==
  /\ hits # {} /\ hits' = {}
  /\ UNCHANGED <<transcriptVars, listed, selectionVars, lists, searches, removals, pageRequests,
                 pageFaults>>

-----------------------------------------------------------------------------
\* The button of the conversation on screen, and that of the list.
DeleteSession ==
  /\ PageRequest /\ shownSession # Nobody /\ ~loading /\ selected # Nobody
  /\ removals' = removals \cup {[id |-> pageRequests', of |-> selected, done |-> FALSE]}
  /\ UNCHANGED <<transcriptVars, listed, selectionVars, lists, searches, hits, pageFaults>>
ClearAllSessions ==
  /\ PageRequest
  /\ removals' = removals \cup {[id |-> pageRequests', of |-> Nobody, done |-> FALSE]}
  /\ UNCHANGED <<transcriptVars, listed, selectionVars, lists, searches, hits, pageFaults>>
\* deleteConversation, deleteAllConversations: a live session's stream keeps the
\* removed file.
RemoveFiles(r) ==
  /\ ~r.done /\ removals' = (removals \ {r}) \cup {[r EXCEPT !.done = TRUE]}
  /\ IF r.of = Nobody THEN transcripts' = << >> /\ turned' = {} /\ appending' = {}
     ELSE /\ transcripts' = Except(transcripts, r.of)
          /\ turned' = turned \ {r.of} /\ appending' = appending \ {r.of}
  /\ UNCHANGED <<liveSessions, transcriptSteps, listed, selectionVars, lists, searches, hits,
                 pageRequests, pageFaults>>
\* The closure holds the selection of the click, which was the removed session:
\* the selection goes to the first of the rest, wherever it went since.
DeleteAnswered(r) ==
  LET remaining == Except(listed, r.of) IN
  /\ r.of # Nobody /\ listed' = remaining
  /\ Select(FirstIn(remaining))
  /\ shownSession' = IF remaining = << >> THEN Nobody ELSE shownSession
ClearAnswered(r) ==
  /\ r.of = Nobody /\ listed' = << >> /\ Select(Nobody) /\ shownSession' = Nobody
RemovalAnswered(r) ==
  /\ r.done /\ removals' = removals \ {r}
  /\ DeleteAnswered(r) \/ ClearAnswered(r)
  /\ UNCHANGED <<transcriptVars, lists, searches, hits, pageRequests, pageFaults>>
RemovalFails(r) ==
  /\ PageFault /\ removals' = removals \ {r}
  /\ UNCHANGED <<transcriptVars, listed, selectionVars, lists, searches, hits, pageRequests>>

ViewNext ==
  \/ \E c \in Conversations :
       SessionStarts(c) \/ SessionAppends(c) \/ SessionEnds(c) \/ StopHook(c) \/ SelectSession(c)
  \/ \E d \in details : ReadDetail(d) \/ DetailAnswered(d) \/ DetailFails(d)
  \/ RefreshSessions \/ Search \/ ClearSearch \/ DeleteSession \/ ClearAllSessions
  \/ \E r \in lists : ReadList(r) \/ ListAnswered(r) \/ ListFails(r)
  \/ \E r \in searches : SearchAnswered(r)
  \/ \E r \in removals : RemoveFiles(r) \/ RemovalAnswered(r) \/ RemovalFails(r)
ViewSpec == ViewInit /\ [][ViewNext]_viewVars

-----------------------------------------------------------------------------
\* While a session is selected and nothing is loading, the page shows that
\* session or none: never the answer to an earlier selection.
SelectionIsShown == selected # Nobody /\ ~loading => shownSession \in {Nobody, selected}
=============================================================================
