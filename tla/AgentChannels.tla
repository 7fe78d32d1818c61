---------------------------- MODULE AgentChannels ----------------------------
(***************************************************************************)
(* What the agents' hooks, their output and the channel between terminals  *)
(* do to a session: the agent state that its clients are shown, and the    *)
(* messages typed into it.  How sessions come and go, and their timers, is *)
(* TerminalRuntime's subject; here they open and end at any time.          *)
(***************************************************************************)
EXTENDS Naturals, Sequences, FiniteSets

CONSTANTS
  Terminal,      \* terminal ids
  MaxMessages,   \* bound: messages sent in a behaviour
  MaxRecords,    \* bound: records created under one id
  NoSession,     \* no entry in the sessions map
  Nobody         \* no client is attached

ASSUME ConstantsAssumption == MaxMessages \in Nat /\ MaxRecords \in Nat

VARIABLES
  record,   \* the registry's record of each terminal
  created,  \* how many records each id has had (history)
  session,  \* the sessions map
  queue,    \* channelQueues
  sent,     \* channelMessageCounter
  typed     \* ids of the messages typed into the sessions of each id (history)

vars == <<record, created, session, queue, sent, typed>>

State == {"idle", "processing", "waiting_for_permission", "waiting_for_user"}

\* registered; an initial prompt is set; where the name comes from.
Record == [registered : BOOLEAN, prompt : BOOLEAN, nameOrigin : {"generated", "prompt", "user"}]

Registered(t) == record[t].registered
Open(t) == session[t] # NoSession

Init ==
  /\ record = [t \in Terminal |->
                 [registered |-> FALSE, prompt |-> FALSE, nameOrigin |-> "generated"]]
  /\ created = [t \in Terminal |-> 0]
  /\ session = [t \in Terminal |-> NoSession]
  /\ queue = [t \in Terminal |-> <<>>]
  /\ sent = 0
  /\ typed = [t \in Terminal |-> <<>>]

-----------------------------------------------------------------------------
\* A session just spawned and bootstrapped: its tracker starts idle.
Spawned(t) ==
  [agent |-> "idle", tracker |-> "idle", shown |-> Nobody,
   keepAlive |-> record[t].prompt, turn |-> FALSE,
   boot |-> IF record[t].prompt THEN "booting" ELSE "done", tty |-> <<>>]

\* What the attached clients are sent.
Told(s, state) == IF s.shown = Nobody THEN s ELSE [s EXCEPT !.shown = state]

\* emitStateIfChanged: compares with the session, not with the tracker.
Emitted(s, state) ==
  IF state = s.agent THEN s ELSE Told([s EXCEPT !.agent = state], state)

\* enterProcessing reports nothing when the tracker is processing already.
EnteredProcessing(s) ==
  IF s.tracker = "processing" THEN s
  ELSE Emitted([s EXCEPT !.tracker = "processing"], "processing")

\* Slip: the hook sets the session's state and leaves the tracker's.
Forced_SessionOnly(s, state) == Told([s EXCEPT !.agent = state], state)

\* A hook forces both.
Forced(s, state) == Told([s EXCEPT !.agent = state, !.tracker = state], state)

\* poll, when the idle deadline has passed.
Polled(s) ==
  IF s.tracker # "processing" THEN s ELSE Emitted([s EXCEPT !.tracker = "idle"], "idle")

Put(t, s) == session' = [session EXCEPT ![t] = s]

-----------------------------------------------------------------------------
\* The positions in P, in order.
InOrder(P) ==
  CHOOSE at \in [1..Cardinality(P) -> P] : \A i, j \in DOMAIN at : i < j => at[i] < at[j]

Undelivered(q) ==
  LET at == InOrder({i \in DOMAIN q : ~q[i].delivered})
  IN  [k \in DOMAIN at |-> q[at[k]]]

Ids(q) == [i \in DOMAIN q |-> q[i].id]
Lines(q) == [i \in DOMAIN q |-> "message"]
Marked(q) == [i \in DOMAIN q |-> [q[i] EXCEPT !.delivered = TRUE]]

\* Slip: only the newest message is composed into the prompt.
Delivered_LastOnly(t, s, q) ==
  LET u == Undelivered(q)
  IN  IF u = <<>> THEN /\ Put(t, s) /\ queue' = [queue EXCEPT ![t] = q] /\ UNCHANGED typed
      ELSE /\ Put(t, EnteredProcessing([s EXCEPT !.tty = @ \o <<"message", "enter">>]))
           /\ queue' = [queue EXCEPT ![t] = Marked(q)]
           /\ typed' = [typed EXCEPT ![t] = Append(@, u[Len(u)].id)]

\* Slip: only an idle agent is given messages, whatever hook asks for it.
Delivered_IdleOnly(t, s, q) ==
  LET u == Undelivered(q)
  IN  IF u = <<>> \/ s.agent # "idle"
      THEN /\ Put(t, s) /\ queue' = [queue EXCEPT ![t] = q] /\ UNCHANGED typed
      ELSE /\ Put(t, EnteredProcessing([s EXCEPT !.tty = @ \o Lines(u) \o <<"enter">>]))
           /\ queue' = [queue EXCEPT ![t] = Marked(q)]
           /\ typed' = [typed EXCEPT ![t] = @ \o Ids(u)]

\* deliverChannelMessages, to a session s of t with the queue q: all that is
\* undelivered is marked and typed as one prompt, which is a submit.
Delivered(t, s, q) ==
  LET u == Undelivered(q)
  IN  IF u = <<>> THEN /\ Put(t, s) /\ queue' = [queue EXCEPT ![t] = q] /\ UNCHANGED typed
      ELSE /\ Put(t, EnteredProcessing([s EXCEPT !.tty = @ \o Lines(u) \o <<"enter">>]))
           /\ queue' = [queue EXCEPT ![t] = Marked(q)]
           /\ typed' = [typed EXCEPT ![t] = @ \o Ids(u)]

\* sendChannelMessage: refused without a record; delivered with what is queued
\* when there is a session and it is idle.
Send(t) ==
  /\ Registered(t) /\ sent < MaxMessages
  /\ sent' = sent + 1
  /\ LET q == Append(queue[t], [id |-> sent + 1, to |-> created[t], delivered |-> FALSE])
     IN  IF Open(t) /\ session[t].agent = "idle" THEN Delivered(t, session[t], q)
         ELSE queue' = [queue EXCEPT ![t] = q] /\ UNCHANGED <<session, typed>>
  /\ UNCHANGED <<record, created>>

-----------------------------------------------------------------------------
\* notification hooks.
PermissionPrompt(t) ==
  /\ Open(t) /\ Put(t, Forced(session[t], "waiting_for_permission"))
  /\ UNCHANGED <<record, created, queue, sent, typed>>

IdlePrompt(t) ==
  /\ Open(t) /\ Delivered(t, Forced(session[t], "idle"), queue[t])
  /\ UNCHANGED <<record, created, sent>>

\* The pre-tool-use hook of the tool that asks the user.
AskUserQuestion(t) ==
  /\ Open(t) /\ Put(t, Forced(session[t], "waiting_for_user"))
  /\ UNCHANGED <<record, created, queue, sent, typed>>

\* The user-prompt-submit hook; a generated name gives way to one from the prompt.
UserPromptSubmit(t) ==
  /\ Registered(t)
  /\ IF Open(t) THEN Put(t, [Forced(session[t], "processing") EXCEPT !.turn = TRUE])
                ELSE UNCHANGED session
  /\ record' = IF record[t].nameOrigin = "generated"
               THEN [record EXCEPT ![t].nameOrigin = "prompt"] ELSE record
  /\ UNCHANGED <<created, queue, sent, typed>>

\* The stop hook, at the end of an agent's turn, delivers; if there is nothing
\* to deliver it releases the keep-alive.  The agent state stays as it is.
Stop(t) ==
  /\ Open(t)
  /\ Delivered(t, [session[t] EXCEPT !.turn = FALSE,
                                     !.keepAlive = @ /\ Undelivered(queue[t]) # <<>>],
               queue[t])
  /\ UNCHANGED <<record, created, sent>>

-----------------------------------------------------------------------------
\* Input with a newline, from a client or over HTTP.
Submit(t) ==
  /\ Open(t) /\ Put(t, EnteredProcessing(session[t]))
  /\ UNCHANGED <<record, created, queue, sent, typed>>

\* A chunk of output that shows the agent at work ("esc to interrupt").
WorkingChunk(t) ==
  /\ Open(t) /\ Put(t, EnteredProcessing(session[t]))
  /\ UNCHANGED <<record, created, queue, sent, typed>>

\* The state poll finds the idle deadline passed.
StatePoll(t) ==
  /\ Open(t) /\ Put(t, Polled(session[t]))
  /\ UNCHANGED <<record, created, queue, sent, typed>>

\* The prompt's timers: pasted, then submitted; neither goes through writeInput.
PastePrompt(t) ==
  /\ Open(t) /\ session[t].boot = "booting"
  /\ Put(t, [session[t] EXCEPT !.boot = "pasted", !.tty = Append(@, "prompt")])
  /\ UNCHANGED <<record, created, queue, sent, typed>>

SubmitPrompt(t) ==
  /\ Open(t) /\ session[t].boot = "pasted"
  /\ Put(t, [session[t] EXCEPT !.boot = "done", !.tty = Append(@, "enter")])
  /\ UNCHANGED <<record, created, queue, sent, typed>>

-----------------------------------------------------------------------------
\* createTerminal; with an initial prompt the session starts at once.
Create(t, prompt) ==
  /\ ~Registered(t) /\ created[t] < MaxRecords
  /\ record' = [record EXCEPT ![t] =
                  [registered |-> TRUE, prompt |-> prompt, nameOrigin |-> "generated"]]
  /\ created' = [created EXCEPT ![t] = @ + 1]
  /\ session' = IF prompt
                THEN [session EXCEPT ![t] =
                        [Spawned(t) EXCEPT !.keepAlive = TRUE, !.boot = "booting"]]
                ELSE session
  /\ UNCHANGED <<queue, sent, typed>>

\* A client attaches, which opens a session if there is none, and is sent the
\* state.
Attach(t) ==
  /\ Registered(t)
  /\ LET s == IF Open(t) THEN session[t] ELSE Spawned(t)
     IN  Put(t, [s EXCEPT !.shown = s.agent])
  /\ UNCHANGED <<record, created, queue, sent, typed>>

Detach(t) ==
  /\ Open(t) /\ Put(t, [session[t] EXCEPT !.shown = Nobody])
  /\ UNCHANGED <<record, created, queue, sent, typed>>

\* renameTerminal.
Rename(t) ==
  /\ Registered(t) /\ record' = [record EXCEPT ![t].nameOrigin = "user"]
  /\ UNCHANGED <<created, session, queue, sent, typed>>

\* The session ends: the shell exits, is stopped, or nobody watches it.
EndSession(t) ==
  /\ Open(t) /\ Put(t, NoSession)
  /\ UNCHANGED <<record, created, queue, sent, typed>>

\* A deleted or pruned terminal takes its session along, and leaves its queue.
Remove(t) ==
  /\ Registered(t) /\ Put(t, NoSession)
  /\ record' = [record EXCEPT ![t].registered = FALSE]
  /\ UNCHANGED <<created, queue, sent, typed>>

\* The API restarts: records survive, sessions and queues do not.
Restart ==
  /\ session' = [t \in Terminal |-> NoSession]
  /\ queue' = [t \in Terminal |-> <<>>]
  /\ typed' = [t \in Terminal |-> <<>>]
  /\ sent' = 0
  /\ UNCHANGED <<record, created>>

Next ==
  \/ \E t \in Terminal :
       \/ Send(t)
       \/ PermissionPrompt(t) \/ IdlePrompt(t) \/ AskUserQuestion(t)
       \/ UserPromptSubmit(t) \/ Stop(t)
       \/ Submit(t) \/ WorkingChunk(t) \/ StatePoll(t)
       \/ PastePrompt(t) \/ SubmitPrompt(t)
       \/ \E prompt \in BOOLEAN : Create(t, prompt)
       \/ Attach(t) \/ Detach(t) \/ Rename(t) \/ EndSession(t) \/ Remove(t)
  \/ Restart

Spec == Init /\ [][Next]_vars

\* An agent at work ends its turn, and its stop hook arrives.
Fairness == \A t \in Terminal : WF_vars(Open(t) /\ session[t].turn /\ Stop(t))

FairSpec == Spec /\ Fairness

-----------------------------------------------------------------------------
SessionRecord ==
  [agent : State, tracker : State, shown : State \cup {Nobody},
   keepAlive : BOOLEAN, turn : BOOLEAN, boot : {"booting", "pasted", "done"},
   tty : Seq({"prompt", "message", "enter"})]

Message == [id : Nat, to : Nat, delivered : BOOLEAN]

TypeOK ==
  /\ record \in [Terminal -> Record]
  /\ created \in [Terminal -> Nat]
  /\ session \in [Terminal -> SessionRecord \cup {NoSession}]
  /\ queue \in [Terminal -> Seq(Message)]
  /\ sent \in Nat
  /\ typed \in [Terminal -> Seq(Nat)]

\* The session, its tracker and the attached clients agree on the agent's state,
\* though hooks set all of them and emitStateIfChanged compares only two.
StatesAgree ==
  \A t \in Terminal : Open(t) =>
    /\ session[t].agent = session[t].tracker
    /\ session[t].shown \in {Nobody, session[t].agent}

\* Whatever hooks, sends and sessions come and go, the messages of an id are
\* typed in the order they were sent, each once, and "delivered" is said of
\* exactly those that were.
TypedOnceInOrder ==
  \A t \in Terminal :
    /\ Len(typed[t]) <= Len(queue[t])
    /\ \A i \in DOMAIN queue[t] :
         /\ queue[t][i].delivered <=> i <= Len(typed[t])
         /\ i <= Len(typed[t]) => typed[t][i] = queue[t][i].id

\* An agent that waits for the user or for a permission is not taken for idle
\* because its terminal is quiet.
WaitingOutlastsThePoll ==
  [][\A t \in Terminal :
       StatePoll(t) /\ session[t].agent \in {"waiting_for_permission", "waiting_for_user"}
         => session'[t].agent = session[t].agent]_vars

\* A message that waits while the agent is at work is typed when its turn ends,
\* unless the session ends first.
DeliveredAtTurnsEnd ==
  \A t \in Terminal :
    (Open(t) /\ session[t].turn /\ Undelivered(queue[t]) # <<>>)
      ~> (Undelivered(queue[t]) = <<>> \/ ~Open(t))

-----------------------------------------------------------------------------
\* docs/guides/inter-agent-messaging.md: "the message waits in memory until that
\* session exists and becomes idle".
IdleSessionsHaveTheirMessages ==
  \A t \in Terminal :
    Open(t) /\ session[t].agent = "idle" => Undelivered(queue[t]) = <<>>

\* docs/guides/inter-agent-messaging.md: "injects pending messages into the target
\* PTY".  A message is typed into a session of the terminal it was sent to.
MessagesReachTheirTarget ==
  [][\A t \in Terminal : \A i \in DOMAIN queue[t] \cap DOMAIN queue'[t] :
       queue'[t][i].delivered /\ ~queue[t][i].delivered
         => queue[t][i].to = created[t]]_vars

\* docs/concepts/runtime-and-api.md: the start of a PTY "optionally pastes and
\* submits an initial prompt": what follows the paste is the key that submits it.
PromptIsSubmittedAlone ==
  \A t \in Terminal : Open(t) =>
    \A i \in DOMAIN session[t].tty :
      session[t].tty[i] = "prompt" /\ i < Len(session[t].tty)
        => session[t].tty[i + 1] = "enter"
=============================================================================
