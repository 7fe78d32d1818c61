------------------------- MODULE AgentChannelsProofs -------------------------
(***************************************************************************)
(* Theorems about AgentChannels, for any set of terminals and any bounds:  *)
(* what is known of an agent's state agrees, an agent that waits is not    *)
(* taken for idle, and messages are typed once and in their order.         *)
(***************************************************************************)
EXTENDS AgentChannels, WellFoundedInduction, FiniteSetTheorems, SequenceTheorems, TLAPS

Agree(s) ==
  /\ {"agent", "tracker", "shown"} \subseteq DOMAIN s
  /\ s.agent = s.tracker
  /\ s.shown \in {Nobody, s.agent}

IInv ==
  /\ DOMAIN session = Terminal
  /\ \A t \in Terminal : Open(t) => Agree(session[t])

-----------------------------------------------------------------------------
\* What the operators on sessions preserve.
LEMMA ToldAgrees ==
  ASSUME NEW s, NEW state, {"agent", "tracker", "shown"} \subseteq DOMAIN s,
         s.agent = state, s.tracker = state
  PROVE  Agree(Told(s, state))
  BY DEF Told, Agree

LEMMA ForcedAgrees ==
  ASSUME NEW s, NEW state, Agree(s) PROVE Agree(Forced(s, state))
  <1> DEFINE r == [s EXCEPT !.agent = state, !.tracker = state]
  <1>1. {"agent", "tracker", "shown"} \subseteq DOMAIN r /\ r.agent = state /\ r.tracker = state
    BY DEF Agree
  <1> HIDE DEF r
  <1>2. Agree(Told(r, state))
    BY <1>1, ToldAgrees
  <1> QED  BY <1>2 DEF Forced, r

\* The tracker moved to state, and the session follows.
LEMMA EmittedAgrees ==
  ASSUME NEW s, NEW state, Agree(s), state # s.tracker
  PROVE  Agree(Emitted([s EXCEPT !.tracker = state], state))
  <1> DEFINE r == [s EXCEPT !.tracker = state]
             q == [r EXCEPT !.agent = state]
  <1>1. /\ {"agent", "tracker", "shown"} \subseteq DOMAIN r
        /\ r.agent = s.agent /\ r.tracker = state
    BY DEF Agree
  <1>2. r.agent # state
    BY <1>1 DEF Agree
  <1> HIDE DEF r
  <1>3. {"agent", "tracker", "shown"} \subseteq DOMAIN q /\ q.agent = state /\ q.tracker = state
    BY <1>1
  <1>4. Emitted(r, state) = Told(q, state)
    BY <1>2 DEF Emitted
  <1> HIDE DEF q
  <1> QED  BY <1>3, <1>4, ToldAgrees DEF r

LEMMA EnteredProcessingAgrees ==
  ASSUME NEW s, Agree(s) PROVE Agree(EnteredProcessing(s))
  BY EmittedAgrees DEF EnteredProcessing

LEMMA PolledAgrees ==
  ASSUME NEW s, Agree(s) PROVE Agree(Polled(s))
  BY EmittedAgrees DEF Polled

\* Fields the agreement does not speak of.
LEMMA OtherFieldsAgree ==
  ASSUME NEW s, NEW x, Agree(s)
  PROVE  /\ Agree([s EXCEPT !.tty = x]) /\ Agree([s EXCEPT !.turn = x])
         /\ Agree([s EXCEPT !.keepAlive = x]) /\ Agree([s EXCEPT !.boot = x])
  BY DEF Agree

LEMMA PutKeepsIInv ==
  ASSUME IInv, NEW t \in Terminal, NEW s, Put(t, s), s # NoSession => Agree(s)
  PROVE  IInv'
  BY DEF IInv, Open, Put

LEMMA DeliveredKeepsIInv ==
  ASSUME IInv, NEW t \in Terminal, NEW s, NEW q, Agree(s), Delivered(t, s, q)
  PROVE  IInv'
  <1> DEFINE u == Undelivered(q)
             r == [s EXCEPT !.tty = @ \o Lines(u) \o <<"enter">>]
  <1>1. CASE u = <<>>
    <2>1. Put(t, s)  BY <1>1 DEF Delivered
    <2> QED  BY <2>1, PutKeepsIInv
  <1>2. CASE u # <<>>
    <2>1. Put(t, EnteredProcessing(r))  BY <1>2 DEF Delivered
    <2>2. Agree(r)  BY OtherFieldsAgree
    <2>3. Agree(EnteredProcessing(r))  BY <2>2, EnteredProcessingAgrees
    <2> QED  BY <2>1, <2>3, PutKeepsIInv
  <1> QED  BY <1>1, <1>2

-----------------------------------------------------------------------------
LEMMA SpawnedAgrees == ASSUME NEW t PROVE Agree(Spawned(t))
  BY DEF Agree, Spawned

LEMMA CreateKeepsIInv ==
  ASSUME IInv, NEW t \in Terminal, NEW prompt, Create(t, prompt) PROVE IInv'
  <1> DEFINE s == [Spawned(t) EXCEPT !.keepAlive = TRUE, !.boot = "booting"]
  <1>1. Agree(s)
    BY DEF Agree, Spawned
  <1>2. CASE prompt
    <2>1. Put(t, s)  BY <1>2 DEF Create, Put
    <2> QED  BY <1>1, <2>1, PutKeepsIInv
  <1>3. CASE ~prompt
    BY <1>3 DEF Create, IInv, Open
  <1> QED  BY <1>2, <1>3

LEMMA AttachKeepsIInv ==
  ASSUME IInv, NEW t \in Terminal, Attach(t) PROVE IInv'
  <1> DEFINE s == IF Open(t) THEN session[t] ELSE Spawned(t)
             r == [s EXCEPT !.shown = s.agent]
  <1>1. Agree(s)
    BY SpawnedAgrees DEF IInv
  <1>2. Put(t, r)
    BY DEF Attach
  <1> HIDE DEF s
  <1>3. Agree(r)
    BY <1>1 DEF Agree
  <1> QED  BY <1>2, <1>3, PutKeepsIInv

LEMMA StopKeepsIInv ==
  ASSUME IInv, NEW t \in Terminal, Stop(t) PROVE IInv'
  <1> DEFINE r == [session[t] EXCEPT !.turn = FALSE,
                                     !.keepAlive = @ /\ Undelivered(queue[t]) # <<>>]
  <1>1. Agree(session[t])  BY DEF Stop, IInv
  <1>2. Agree(r)  BY <1>1 DEF Agree
  <1>3. Delivered(t, r, queue[t])  BY DEF Stop
  <1> HIDE DEF r
  <1> QED  BY <1>2, <1>3, DeliveredKeepsIInv

LEMMA StepKeepsIInv ==
  ASSUME IInv, NEW t \in Terminal,
         \/ Send(t) \/ PermissionPrompt(t) \/ IdlePrompt(t) \/ AskUserQuestion(t)
         \/ UserPromptSubmit(t) \/ Submit(t) \/ WorkingChunk(t) \/ StatePoll(t)
         \/ PastePrompt(t) \/ SubmitPrompt(t) \/ Detach(t)
  PROVE  IInv'
  <1>1. Open(t) => Agree(session[t])  BY DEF IInv
  <1>2. ASSUME Send(t) PROVE IInv'
    <2> DEFINE q == Append(queue[t], [id |-> sent + 1, to |-> created[t], delivered |-> FALSE])
    <2>1. CASE Open(t) /\ session[t].agent = "idle"
      <3>1. Delivered(t, session[t], q)  BY <1>2, <2>1 DEF Send
      <3> QED  BY <1>1, <2>1, <3>1, DeliveredKeepsIInv
    <2>2. CASE ~(Open(t) /\ session[t].agent = "idle")
      <3>1. session' = session  BY <1>2, <2>2 DEF Send
      <3> QED  BY <3>1 DEF IInv, Open
    <2> QED  BY <2>1, <2>2
  <1>3. ASSUME PermissionPrompt(t) PROVE IInv'
    BY <1>1, <1>3, ForcedAgrees, PutKeepsIInv DEF PermissionPrompt
  <1>4. ASSUME IdlePrompt(t) PROVE IInv'
    <2>1. Agree(Forced(session[t], "idle"))  BY <1>1, <1>4, ForcedAgrees DEF IdlePrompt
    <2> QED  BY <1>4, <2>1, DeliveredKeepsIInv DEF IdlePrompt
  <1>5. ASSUME AskUserQuestion(t) PROVE IInv'
    BY <1>1, <1>5, ForcedAgrees, PutKeepsIInv DEF AskUserQuestion
  <1>6. ASSUME UserPromptSubmit(t) PROVE IInv'
    <2> DEFINE f == Forced(session[t], "processing")
    <2>1. CASE Open(t)
      <3>1. Agree(f)  BY <1>1, <2>1, ForcedAgrees
      <3>2. Put(t, [f EXCEPT !.turn = TRUE])  BY <1>6, <2>1 DEF UserPromptSubmit
      <3> HIDE DEF f
      <3> QED  BY <3>1, <3>2, OtherFieldsAgree, PutKeepsIInv
    <2>2. CASE ~Open(t)
      <3>1. session' = session  BY <1>6, <2>2 DEF UserPromptSubmit
      <3> QED  BY <3>1 DEF IInv, Open
    <2> QED  BY <2>1, <2>2
  <1>7. ASSUME Submit(t) \/ WorkingChunk(t) PROVE IInv'
    BY <1>1, <1>7, EnteredProcessingAgrees, PutKeepsIInv DEF Submit, WorkingChunk
  <1>8. ASSUME StatePoll(t) PROVE IInv'
    BY <1>1, <1>8, PolledAgrees, PutKeepsIInv DEF StatePoll
  <1>9. ASSUME PastePrompt(t) \/ SubmitPrompt(t) \/ Detach(t) PROVE IInv'
    <2>1. Open(t) /\ Agree(session[t])
      BY <1>1, <1>9 DEF PastePrompt, SubmitPrompt, Detach
    <2>2. ASSUME PastePrompt(t) PROVE IInv'
      <3> DEFINE r == [session[t] EXCEPT !.boot = "pasted", !.tty = Append(@, "prompt")]
      <3>1. Put(t, r)  BY <2>2 DEF PastePrompt
      <3>2. Agree(r)  BY <2>1 DEF Agree
      <3> QED  BY <3>1, <3>2, PutKeepsIInv
    <2>3. ASSUME SubmitPrompt(t) PROVE IInv'
      <3> DEFINE r == [session[t] EXCEPT !.boot = "done", !.tty = Append(@, "enter")]
      <3>1. Put(t, r)  BY <2>3 DEF SubmitPrompt
      <3>2. Agree(r)  BY <2>1 DEF Agree
      <3> QED  BY <3>1, <3>2, PutKeepsIInv
    <2>4. ASSUME Detach(t) PROVE IInv'
      <3> DEFINE r == [session[t] EXCEPT !.shown = Nobody]
      <3>1. Put(t, r)  BY <2>4 DEF Detach
      <3>2. Agree(r)  BY <2>1 DEF Agree
      <3> QED  BY <3>1, <3>2, PutKeepsIInv
    <2> QED  BY <1>9, <2>2, <2>3, <2>4
  <1> QED  BY <1>2, <1>3, <1>4, <1>5, <1>6, <1>7, <1>8, <1>9

LEMMA NextKeepsIInv == IInv /\ [Next]_vars => IInv'
  <1> SUFFICES ASSUME IInv, [Next]_vars PROVE IInv'
    OBVIOUS
  <1>1. ASSUME NEW t \in Terminal, Rename(t) \/ EndSession(t) \/ Remove(t) PROVE IInv'
    <2>1. session' = session \/ Put(t, NoSession)
      BY <1>1 DEF Rename, EndSession, Remove
    <2>2. CASE session' = session
      BY <2>2 DEF IInv, Open
    <2>3. CASE Put(t, NoSession)
      BY <2>3, PutKeepsIInv
    <2> QED  BY <2>1, <2>2, <2>3
  <1>2. ASSUME Restart PROVE IInv'
    BY <1>2 DEF Restart, IInv, Open
  <1>3. ASSUME UNCHANGED vars PROVE IInv'
    BY <1>3 DEF vars, IInv, Open
  <1> QED
    BY <1>1, <1>2, <1>3, StepKeepsIInv, StopKeepsIInv, CreateKeepsIInv, AttachKeepsIInv
    DEF Next

LEMMA AlwaysIInv == Spec => []IInv
  <1>1. Init => IInv  BY DEF Init, IInv, Open
  <1> QED  BY <1>1, NextKeepsIInv, PTL DEF Spec

-----------------------------------------------------------------------------
\* hookProcessor.ts and emitStateIfChanged: the session, its tracker and the
\* attached client agree on the agent's state after every handler.
THEOREM StatesAlwaysAgree == Spec => []StatesAgree
  <1>1. IInv => StatesAgree  BY DEF IInv, StatesAgree, Agree
  <1> QED  BY <1>1, AlwaysIInv, PTL

\* statePollTimer: the poll never takes a waiting agent for an idle one.
THEOREM WaitingSurvivesThePoll == Spec => WaitingOutlastsThePoll
  <1> DEFINE A == \A t \in Terminal :
       StatePoll(t) /\ session[t].agent \in {"waiting_for_permission", "waiting_for_user"}
         => session'[t].agent = session[t].agent
  <1>1. IInv => A
    <2> SUFFICES ASSUME IInv, NEW t \in Terminal, StatePoll(t),
                        session[t].agent \in {"waiting_for_permission", "waiting_for_user"}
                 PROVE  session'[t].agent = session[t].agent
      OBVIOUS
    <2>1. Polled(session[t]) = session[t]
      BY DEF IInv, Agree, StatePoll, Polled
    <2>2. session'[t] = session[t]
      BY <2>1 DEF StatePoll, Put, IInv
    <2> QED  BY <2>2
  <1>2. IInv /\ [Next]_vars => [A]_vars
    BY <1>1
  <1> QED  BY <1>2, AlwaysIInv, PTL DEF Spec, WaitingOutlastsThePoll

-----------------------------------------------------------------------------
\* What is undelivered is the end of the queue: everything is delivered at once.
LEMMA LeastNumber ==
  ASSUME NEW T, T \subseteq Nat, T # {}
  PROVE  \E m \in T : \A n \in T : m <= n
  <1> DEFINE R == OpToRel(<, Nat)
  <1>1. IsWellFoundedOn(R, Nat)
    BY NatLessThanWellFounded
  <1>2. \A n, m \in Nat : n < m => <<n, m>> \in R
    BY DEF OpToRel
  <1> HIDE DEF R
  <1>3. PICK x \in T : \A y \in T : ~(<<y, x>> \in R)
    BY <1>1, WFMin
  <1>4. \A y \in T : ~(y < x)
    BY <1>2, <1>3
  <1> QED  BY <1>4

LEMMA IntervalInOrder ==
  ASSUME NEW n \in Nat, NEW m \in Nat, n <= m
  PROVE  InOrder((n + 1)..m) = [k \in 1..(m - n) |-> n + k]
  <1> DEFINE P == (n + 1)..m
             c == m - n
             line == [k \in 1..c |-> n + k]
             Increasing(f) == \A i, j \in DOMAIN f : i < j => f[i] < f[j]
  <1>1. c \in Nat /\ IsFiniteSet(P) /\ Cardinality(P) = c
    <2>1. IsFiniteSet(P) /\ Cardinality(P) = IF n + 1 > m THEN 0 ELSE m - (n + 1) + 1
      <3>1. n + 1 \in Int /\ m \in Int
        OBVIOUS
      <3> QED  BY <3>1, FS_Interval
    <2> HIDE DEF P
    <2> QED  BY <2>1
  <1>2. IsFiniteSet(1..c) /\ Cardinality(1..c) = c
    BY <1>1, FS_Interval
  <1>3. line \in [1..c -> P] /\ Increasing(line)
    OBVIOUS
  <1>4. ASSUME NEW f \in [1..c -> P], Increasing(f) PROVE f = line
    <2>1. \A i, j \in 1..c : i < j => f[i] < f[j]
      BY <1>4
    <2>2. \A i \in 1..c : f[i] \in P
      OBVIOUS
    <2>3. f \in Injection(1..c, P)
      <3>1. \A i, j \in 1..c : f[i] = f[j] => i = j
        BY <2>1, <2>2
      <3> QED  BY <3>1 DEF Injection, IsInjective
    <2>4. f \in Surjection(1..c, P)
      <3> HIDE DEF P
      <3> QED  BY <1>1, <1>2, <2>3, FS_Injection
    <2>5. \A p \in P : \E j \in 1..c : f[j] = p
      BY <2>4 DEF Surjection
    <2> DEFINE Bad == {k \in 1..c : f[k] # n + k}
    <2>6. CASE Bad # {}
      <3>1. PICK k \in Bad : \A b \in Bad : k <= b
        <4>1. Bad \subseteq Nat
          OBVIOUS
        <4> HIDE DEF Bad
        <4> QED  BY <2>6, <4>1, LeastNumber
      <3>2. k \in 1..c /\ f[k] # n + k
        OBVIOUS
      <3>3. \A i \in 1..c : i < k => f[i] = n + i
        BY <3>1, <3>2
      <3>4. n + k \in P
        BY <3>2
      <3>5. PICK j \in 1..c : f[j] = n + k
        BY <2>5, <3>4
      <3>6. j > k
        BY <3>2, <3>3, <3>5
      <3>7. f[k] < n + k /\ f[k] >= n + 1
        BY <2>1, <2>2, <3>2, <3>5, <3>6
      <3>8. f[k] - n \in 1..c /\ f[k] - n < k
        BY <2>2, <3>2, <3>7
      <3>9. f[f[k] - n] = f[k]
        BY <2>2, <3>2, <3>3, <3>8
      <3> QED  BY <2>1, <2>2, <3>2, <3>8, <3>9
    <2>7. CASE Bad = {}
      <3>1. \A k \in 1..c : f[k] = line[k]
        BY <2>7
      <3> QED  BY <1>3, <3>1
    <2> QED  BY <2>6, <2>7
  <1>5. InOrder(P) = CHOOSE f \in [1..c -> P] : Increasing(f)
    BY <1>1 DEF InOrder
  <1> HIDE DEF line, Increasing, P, c
  <1>6. InOrder(P) = line
    BY <1>3, <1>4, <1>5
  <1> QED  BY <1>6 DEF line, P, c

LEMMA TheRestIsUndelivered ==
  ASSUME NEW q \in Seq(Message), NEW n \in 0..Len(q),
         \A i \in DOMAIN q : q[i].delivered <=> i <= n
  PROVE  Undelivered(q) = [k \in 1..(Len(q) - n) |-> q[n + k]]
  <1>1. {i \in DOMAIN q : ~q[i].delivered} = (n + 1)..Len(q)
    OBVIOUS
  <1>2. InOrder((n + 1)..Len(q)) = [k \in 1..(Len(q) - n) |-> n + k]
    BY IntervalInOrder
  <1> DEFINE line == [k \in 1..(Len(q) - n) |-> n + k]
  <1>3. Undelivered(q) = [k \in DOMAIN line |-> q[line[k]]]
    BY <1>1, <1>2 DEF Undelivered
  <1> QED  BY <1>3

-----------------------------------------------------------------------------
\* The queue q holds what was typed, and then what was not.
Accounts(q, log) ==
  /\ q \in Seq(Message) /\ log \in Seq(Nat)
  /\ Len(log) <= Len(q)
  /\ \A i \in DOMAIN q : /\ q[i].delivered <=> i <= Len(log)
                         /\ i <= Len(log) => log[i] = q[i].id

QueueInv ==
  /\ sent \in Nat /\ created \in [Terminal -> Nat]
  /\ DOMAIN queue = Terminal /\ DOMAIN typed = Terminal
  /\ \A t \in Terminal : Accounts(queue[t], typed[t])

\* Everything undelivered is typed and marked.
LEMMA AllTyped ==
  ASSUME NEW q, NEW log, Accounts(q, log)
  PROVE  /\ Undelivered(q) = <<>> <=> Len(log) = Len(q)
         /\ Accounts(Marked(q), log \o Ids(Undelivered(q)))
  <1> DEFINE n == Len(log)
             c == Len(q) - n
             u == [k \in 1..c |-> q[n + k]]
             ids == [k \in 1..c |-> q[n + k].id]
             all == log \o ids
             marked == Marked(q)
  <1>1. n \in 0..Len(q) /\ c \in Nat /\ n + c = Len(q) /\ DOMAIN q = 1..Len(q)
    BY DEF Accounts
  <1>2. Undelivered(q) = u
    <2>1. \A i \in DOMAIN q : q[i].delivered <=> i <= n
      BY DEF Accounts
    <2>2. q \in Seq(Message)
      BY DEF Accounts
    <2> HIDE DEF n
    <2> QED  BY <1>1, <2>1, <2>2, TheRestIsUndelivered
  <1>3. u = <<>> <=> c = 0
    <2>1. u \in Seq(Message) /\ Len(u) = c
      <3>1. \A k \in 1..c : q[n + k] \in Message
        BY <1>1 DEF Accounts
      <3> HIDE DEF c, n
      <3> QED  BY <1>1, <3>1
    <2> HIDE DEF u, c
    <2> QED  BY <2>1, EmptySeq
  <1>4. \A i \in 1..Len(q) : q[i] \in Message /\ q[i].id \in Nat
    <2>1. \A i \in 1..Len(q) : q[i] \in Message
      BY DEF Accounts
    <2> QED  BY <2>1 DEF Message
  <1>5. ids \in Seq(Nat) /\ Len(ids) = c /\ Ids(u) = ids
    BY <1>1, <1>4 DEF Ids
  <1>6. /\ marked \in Seq(Message) /\ Len(marked) = Len(q)
        /\ \A i \in 1..Len(q) : marked[i].delivered = TRUE /\ marked[i].id = q[i].id
    <2>1. \A i \in 1..Len(q) : LET m == [q[i] EXCEPT !.delivered = TRUE]
                               IN  m \in Message /\ m.delivered = TRUE /\ m.id = q[i].id
      BY <1>4 DEF Message
    <2> HIDE DEF c
    <2>2. marked = [i \in 1..Len(q) |-> [q[i] EXCEPT !.delivered = TRUE]]
      BY <1>1 DEF Marked
    <2> HIDE DEF marked
    <2>3. \A i \in 1..Len(q) : marked[i] \in Message /\ marked[i].delivered = TRUE
                                /\ marked[i].id = q[i].id
      BY <2>1, <2>2
    <2>4. marked \in Seq(Message) /\ Len(marked) = Len(q)
      BY <1>1, <2>2, <2>3
    <2> QED  BY <2>3, <2>4
  <1> HIDE DEF u, ids, marked
  <1>7. log \in Seq(Nat)
    BY DEF Accounts
  <1>8. /\ all \in Seq(Nat) /\ Len(all) = Len(q)
        /\ \A i \in 1..Len(q) : all[i] = IF i <= n THEN log[i] ELSE ids[i - n]
    <2>1. all \in Seq(Nat) /\ Len(all) = n + Len(ids)
      BY <1>5, <1>7, ConcatProperties
    <2>2. \A i \in 1..(n + Len(ids)) : all[i] = IF i <= n THEN log[i] ELSE ids[i - n]
      BY <1>5, <1>7, ConcatProperties
    <2> QED  BY <1>1, <1>5, <2>1, <2>2
  <1>9. \A i \in 1..Len(q) : all[i] = q[i].id
    <2>1. \A i \in 1..Len(q) : i <= n => log[i] = q[i].id
      BY <1>1 DEF Accounts
    <2>2. \A i \in 1..Len(q) : i > n => ids[i - n] = q[i].id
      BY <1>1 DEF ids
    <2> QED  BY <1>1, <1>8, <2>1, <2>2
  <1> HIDE DEF all, n, c
  <1>10. Accounts(marked, all)
    BY <1>1, <1>6, <1>8, <1>9 DEF Accounts
  <1>11. c = 0 <=> n = Len(q)
    BY <1>1 DEF c
  <1> QED  BY <1>2, <1>3, <1>5, <1>10, <1>11 DEF marked, all, n

LEMMA DeliveredAccounts ==
  ASSUME QueueInv, NEW t \in Terminal, NEW s, NEW q, Accounts(q, typed[t]), Delivered(t, s, q),
         sent' \in Nat, UNCHANGED created
  PROVE  QueueInv'
  <1>1. CASE Undelivered(q) = <<>>
    BY <1>1 DEF Delivered, QueueInv
  <1>2. CASE Undelivered(q) # <<>>
    <2>1. /\ queue' = [queue EXCEPT ![t] = Marked(q)]
          /\ typed' = [typed EXCEPT ![t] = @ \o Ids(Undelivered(q))]
      BY <1>2 DEF Delivered
    <2>2. Accounts(Marked(q), typed[t] \o Ids(Undelivered(q)))
      BY AllTyped
    <2> QED  BY <2>1, <2>2 DEF QueueInv
  <1> QED  BY <1>1, <1>2

LEMMA SendAccounts == ASSUME QueueInv, NEW t \in Terminal, Send(t) PROVE QueueInv'
  <1> DEFINE m == [id |-> sent + 1, to |-> created[t], delivered |-> FALSE]
             q == Append(queue[t], m)
  <1>1. sent' \in Nat /\ UNCHANGED created
    BY DEF Send, QueueInv
  <1>2. m \in Message /\ m.delivered = FALSE
    BY DEF QueueInv, Message
  <1>3. queue[t] \in Seq(Message) /\ typed[t] \in Seq(Nat) /\ Accounts(queue[t], typed[t])
    BY DEF QueueInv, Accounts
  <1>4. Accounts(q, typed[t])
    <2> HIDE DEF m
    <2>1. /\ q \in Seq(Message) /\ Len(q) = Len(queue[t]) + 1 /\ q[Len(queue[t]) + 1] = m
          /\ \A i \in 1..Len(queue[t]) : q[i] = queue[t][i]
      BY <1>2, <1>3
    <2> HIDE DEF q
    <2>2. Len(queue[t]) \in Nat /\ Len(typed[t]) \in Nat /\ DOMAIN q = 1..Len(q)
          /\ DOMAIN queue[t] = 1..Len(queue[t])
      BY <1>3, <2>1
    <2>3. \A i \in DOMAIN q : i \in 1..Len(queue[t]) \/ i = Len(queue[t]) + 1
      BY <2>1, <2>2
    <2> QED  BY <1>2, <1>3, <2>1, <2>2, <2>3 DEF Accounts
  <1> HIDE DEF q
  <1>5. CASE Open(t) /\ session[t].agent = "idle"
    BY <1>1, <1>4, <1>5, DeliveredAccounts DEF Send, q
  <1>6. CASE ~(Open(t) /\ session[t].agent = "idle")
    <2>1. queue' = [queue EXCEPT ![t] = q] /\ UNCHANGED typed
      BY <1>6 DEF Send, q
    <2> QED  BY <1>1, <1>4, <2>1 DEF QueueInv
  <1> QED  BY <1>5, <1>6

LEMMA QueueNext == QueueInv /\ [Next]_vars => QueueInv'
  <1> SUFFICES ASSUME QueueInv, [Next]_vars PROVE QueueInv'
    OBVIOUS
  <1>1. UNCHANGED <<created, queue, sent, typed>> => QueueInv'
    BY DEF QueueInv
  <1>2. ASSUME NEW t \in Terminal, IdlePrompt(t) \/ Stop(t) PROVE QueueInv'
    BY <1>2, DeliveredAccounts DEF IdlePrompt, Stop, QueueInv
  <1>3. ASSUME NEW t \in Terminal, NEW prompt, Create(t, prompt) PROVE QueueInv'
    BY <1>3 DEF Create, QueueInv
  <1>4. ASSUME Restart PROVE QueueInv'
    <2>1. Accounts(<<>>, <<>>)
      BY DEF Accounts
    <2> QED  BY <1>4, <2>1 DEF Restart, QueueInv
  <1>5. ASSUME NEW t \in Terminal,
               \/ PermissionPrompt(t) \/ AskUserQuestion(t) \/ UserPromptSubmit(t)
               \/ Submit(t) \/ WorkingChunk(t) \/ StatePoll(t) \/ PastePrompt(t) \/ SubmitPrompt(t)
               \/ Attach(t) \/ Detach(t) \/ Rename(t) \/ EndSession(t) \/ Remove(t)
        PROVE QueueInv'
    BY <1>1, <1>5 DEF PermissionPrompt, AskUserQuestion, UserPromptSubmit, Submit, WorkingChunk,
       StatePoll, PastePrompt, SubmitPrompt, Attach, Detach, Rename, EndSession, Remove
  <1>6. CASE UNCHANGED vars
    BY <1>1, <1>6 DEF vars
  <1> QED  BY <1>2, <1>3, <1>4, <1>5, <1>6, SendAccounts DEF Next

\* deliverChannelMessages: however hooks, sends, sessions and restarts interleave, the
\* messages to an id are typed in the order they were sent, each once, and marked then.
THEOREM MessagesTypedOnce == Spec => []TypedOnceInOrder
  <1>1. Init => QueueInv
    <2>1. Accounts(<<>>, <<>>)
      BY DEF Accounts
    <2> QED  BY <2>1 DEF Init, QueueInv
  <1>2. QueueInv => TypedOnceInOrder
    BY DEF QueueInv, Accounts, TypedOnceInOrder
  <1> QED  BY <1>1, <1>2, QueueNext, PTL DEF Spec
=============================================================================
