--------------------------- MODULE DeckTentacles ---------------------------
(* One tentacle of the deck: its folder, its todo.md and the marked blocks   *)
(* of its CONTEXT.md (src/apps/api/src/deck/readDeckTentacles.ts), the HTTP  *)
(* requests that edit it and start agents for its items                      *)
(* (createApiServer/deckRoutes.ts), and Octoplan, another process, which writes *)
(* plans into the same files (octoplan/server/integrations).  The handlers   *)
(* of the deck are synchronous once the body is read; a solve or swarm waits *)
(* once more, for its prompt file.  Octoplan waits at every file.            *)
(* A todo line is a pair <<key, stamp>>: octogentExport.ts compares keys.    *)
EXTENDS Naturals, Sequences, FiniteSets

CONSTANTS
  HandLines,       \* lines people add on the deck
  PlanLines,       \* lines Octoplan exports
  Plans,           \* the exports of Octoplan
  PlanTasks,       \* Plans -> sequence of PlanLines
  DeckRequests,    \* POST solve and POST swarm requests
  Skills,          \* values of the suggested-skills block
  MaxChildrenPerParent,
  MaxTodo,         \* bound of the model: items of todo.md
  MaxAgents        \* bound of the model: terminals of the tentacle

DeckKey(line) == line[1]

ASSUME DeckAssumption ==
  /\ \A line \in HandLines \cup PlanLines : line = <<line[1], line[2]>>
  /\ \A h \in HandLines, p \in PlanLines : DeckKey(h) # DeckKey(p)
  /\ PlanTasks \in [Plans -> Seq(PlanLines)]
  /\ MaxChildrenPerParent \in Nat /\ MaxTodo \in Nat /\ MaxAgents \in Nat

VARIABLES
  deckMade,     \* which of the folder, CONTEXT.md and todo.md exist
  deckEntry,    \* is the tentacle in deck.json
  contextFile,  \* CONTEXT.md: the blocks that two programs rewrite
  todoFile,     \* todo.md: the checkbox lines, in file order
  deckAgents,   \* the terminals started for its items, in the order of creation
  deckRequest,  \* what each solve or swarm request has read so far
  deckExport    \* what each export of Octoplan has read so far

deckVars == <<deckMade, deckEntry, contextFile, todoFile, deckAgents, deckRequest, deckExport>>

NoContext == [skills |-> "none", plan |-> "none"]
Item == [line : HandLines \cup PlanLines, done : BOOLEAN]
Context == [skills : Skills \cup {"none"}, plan : Plans \cup {"none"}]
Incomplete(todo) == {i \in DOMAIN todo : ~todo[i].done}
Keys(todo) == {DeckKey(todo[i].line) : i \in DOMAIN todo}

Unread == [at |-> "idle", items |-> {}]
Unstarted == [at |-> "idle", context |-> NoContext, had |-> FALSE, todo |-> <<>>]
Made == {"folder", "context", "todo"}

DeckInit ==
  /\ deckMade = {} /\ deckEntry = FALSE
  /\ contextFile = NoContext /\ todoFile = <<>>
  /\ deckAgents = <<>>
  /\ deckRequest = [r \in DeckRequests |-> Unread]
  /\ deckExport = [x \in Plans |-> Unstarted]

deckFiles == <<deckMade, deckEntry, contextFile, todoFile>>
-----------------------------------------------------------------------------
(* The folder and the items. *)

CreateDeckTentacle(skills) ==
  /\ "folder" \notin deckMade
  /\ deckMade' = Made /\ deckEntry' = TRUE
  /\ contextFile' = [skills |-> skills, plan |-> "none"]
  /\ todoFile' = <<>>

CreateRequest(skills) == CreateDeckTentacle(skills) /\ UNCHANGED <<deckAgents, deckRequest, deckExport>>

DeleteDeckTentacle ==
  /\ "folder" \in deckMade
  /\ deckMade' = {} /\ deckEntry' = FALSE
  /\ contextFile' = NoContext /\ todoFile' = <<>>
  /\ UNCHANGED <<deckAgents, deckRequest, deckExport>>

UpdateSkills(skills) ==
  /\ "context" \in deckMade
  /\ contextFile' = [contextFile EXCEPT !.skills = skills]
  /\ UNCHANGED <<deckMade, deckEntry, todoFile, deckAgents, deckRequest, deckExport>>

WriteTodo(todo) ==
  /\ "todo" \in deckMade
  /\ todoFile' = todo
  /\ UNCHANGED <<deckMade, deckEntry, contextFile, deckAgents, deckRequest, deckExport>>

ToggleTodoItem(i, done) == WriteTodo([todoFile EXCEPT ![i].done = done])

EditTodoItem(i, line) == WriteTodo([todoFile EXCEPT ![i].line = line])

AddTodoItem(line) ==
  /\ Len(todoFile) < MaxTodo
  /\ WriteTodo(Append(todoFile, [line |-> line, done |-> FALSE]))

DeleteTodoItem(i) ==
  WriteTodo(SubSeq(todoFile, 1, i - 1) \o SubSeq(todoFile, i + 1, Len(todoFile)))
-----------------------------------------------------------------------------
(* Agents.  createTerminal gives a caller whose id is taken another id.     *)

Registered(id, index) ==
  \E a \in DOMAIN deckAgents : deckAgents[a].id = id /\ deckAgents[a].index = index

NewAgent(id, index, works, spawns) ==
  IF Registered(id, index)
    THEN [id |-> "other", index |-> index, works |-> works, spawns |-> spawns]
    ELSE [id |-> id, index |-> index, works |-> works, spawns |-> spawns]

CreateTerminal(id, index, works, spawns) ==
  /\ Len(deckAgents) < MaxAgents
  /\ deckAgents' = Append(deckAgents, NewAgent(id, index, works, spawns))

SolveChecks(r, i) ==
  /\ deckRequest[r].at = "idle"
  /\ "todo" \in deckMade /\ i \in Incomplete(todoFile)
  /\ ~Registered("todo", i)
  /\ deckRequest' = [deckRequest EXCEPT ![r] = [at |-> "solvePrompt", items |-> {i}]]
  /\ UNCHANGED <<deckFiles, deckAgents, deckExport>>

SolveCreates(r) ==
  /\ deckRequest[r].at = "solvePrompt"
  /\ \E i \in deckRequest[r].items : CreateTerminal("todo", i, "solve", {})
  /\ deckRequest' = [deckRequest EXCEPT ![r] = Unread]
  /\ UNCHANGED <<deckFiles, deckExport>>

(* The swarm reads todo.md before it reads its body. *)
SwarmReads(r) ==
  /\ deckRequest[r].at = "idle"
  /\ "todo" \in deckMade /\ Incomplete(todoFile) # {}
  /\ deckRequest' = [deckRequest EXCEPT ![r] = [at |-> "body", items |-> Incomplete(todoFile)]]
  /\ UNCHANGED <<deckFiles, deckAgents, deckExport>>

SwarmIsActive == \E a \in DOMAIN deckAgents : deckAgents[a].id \in {"worker", "parent"}

FirstOf(items, n) == {i \in items : Cardinality({j \in items : j < i}) < n}

SwarmChecks(r, requested) ==
  LET targets == deckRequest[r].items \cap requested
      started == targets # {} /\ ~SwarmIsActive
  IN /\ deckRequest[r].at = "body"
     /\ deckRequest' = [deckRequest EXCEPT ![r] =
          IF started
            THEN [at |-> "swarmPrompt", items |-> FirstOf(targets, MaxChildrenPerParent)]
            ELSE Unread]
     /\ UNCHANGED <<deckFiles, deckAgents, deckExport>>

(* One item: its worker.  Several: a coordinator told which to create.      *)
SwarmCreates(r) ==
  LET items == deckRequest[r].items
  IN /\ deckRequest[r].at = "swarmPrompt"
     /\ IF Cardinality(items) = 1
          THEN \E i \in items : CreateTerminal("worker", i, "work", {})
          ELSE CreateTerminal("parent", 0, "coordinate", items)
     /\ deckRequest' = [deckRequest EXCEPT ![r] = Unread]
     /\ UNCHANGED <<deckFiles, deckExport>>

(* The coordinator runs the commands of its prompt: POST /api/terminals.    *)
CoordinatorSpawns(a, i) ==
  /\ i \in deckAgents[a].spawns
  /\ Len(deckAgents) < MaxAgents
  /\ deckAgents' = Append([deckAgents EXCEPT ![a].spawns = @ \ {i}], NewAgent("worker", i, "work", {}))
  /\ UNCHANGED <<deckFiles, deckRequest, deckExport>>

AgentDeleted(a) ==
  /\ deckAgents' = SubSeq(deckAgents, 1, a - 1) \o SubSeq(deckAgents, a + 1, Len(deckAgents))
  /\ UNCHANGED <<deckFiles, deckRequest, deckExport>>
-----------------------------------------------------------------------------
(* Octoplan's export: exportToTentacle, and applyHandoff's loop body.       *)

ExportAt(x, before, after) ==
  /\ deckExport[x].at = before
  /\ deckExport' = [deckExport EXCEPT ![x].at = after]

EnsureTentacle(x) ==
  /\ ExportAt(x, "idle", IF "folder" \in deckMade THEN "context" ELSE "create")
  /\ UNCHANGED <<deckFiles, deckAgents, deckRequest>>

(* `octogent tentacle create`: refused when the folder appeared meanwhile.  *)
ExportCreates(x) ==
  /\ deckExport[x].at = "create"
  /\ \/ /\ CreateDeckTentacle("none")
        /\ deckExport' = [deckExport EXCEPT ![x].at = "context"]
     \/ /\ "folder" \in deckMade
        /\ deckExport' = [deckExport EXCEPT ![x] = Unstarted]
        /\ UNCHANGED deckFiles
  /\ UNCHANGED <<deckAgents, deckRequest>>

(* mkdir brings a folder deleted meanwhile back, without deck.json.         *)
ExportReadsContext(x) ==
  /\ deckExport[x].at = "context"
  /\ deckMade' = deckMade \cup {"folder"}
  /\ deckExport' = [deckExport EXCEPT ![x].at = "writeContext", ![x].context = contextFile]
  /\ UNCHANGED <<deckEntry, contextFile, todoFile, deckAgents, deckRequest>>

(* Only the plan's own block changes in what was read.                      *)
ExportWritesContext(x) ==
  /\ deckExport[x].at = "writeContext"
  /\ \/ /\ "folder" \in deckMade
        /\ deckMade' = deckMade \cup {"context"}
        /\ contextFile' = [deckExport[x].context EXCEPT !.plan = x]
        /\ deckExport' = [deckExport EXCEPT ![x].at = "todo"]
     \/ /\ "folder" \notin deckMade
        /\ deckExport' = [deckExport EXCEPT ![x] = Unstarted]
        /\ UNCHANGED <<deckMade, contextFile>>
  /\ UNCHANGED <<deckEntry, todoFile, deckAgents, deckRequest>>

ExportReadsTodo(x) ==
  /\ deckExport[x].at = "todo"
  /\ deckExport' = [deckExport EXCEPT ![x].at = "writeTodo",
                                            ![x].had = "todo" \in deckMade,
                                            ![x].todo = todoFile]
  /\ UNCHANGED <<deckFiles, deckAgents, deckRequest>>

(* Slip: only open items count as being there. *)
Seen_Unticked(todo) == {DeckKey(todo[i].line) : i \in Incomplete(todo)}

Seen(todo) == Keys(todo)

(* appendTodos: the first line of each key that the file does not have.     *)
Fresh(tasks, todo) ==
  {tasks[i] : i \in {j \in DOMAIN tasks :
     /\ DeckKey(tasks[j]) \notin Seen(todo)
     /\ \A k \in 1..(j - 1) : DeckKey(tasks[k]) # DeckKey(tasks[j])}}

(* Where they go depends on headings the model leaves out: any place, any   *)
(* order of theirs.                                                         *)
AppendTodos(todo, fresh, at) ==
  SubSeq(todo, 1, at) \o [i \in DOMAIN fresh |-> [line |-> fresh[i], done |-> FALSE]]
    \o SubSeq(todo, at + 1, Len(todo))

Orders(lines) ==
  {f \in [1..Cardinality(lines) -> lines] : \A i, j \in DOMAIN f : f[i] = f[j] => i = j}

(* Nothing is written when nothing is missing; the file is made otherwise.  *)
ExportWritesTodo(x) ==
  LET read == deckExport[x].todo
  IN /\ deckExport[x].at = "writeTodo"
     /\ \E fresh \in Orders(Fresh(PlanTasks[x], read)), at \in 0..Len(read) :
          /\ Len(read) + Len(fresh) <= MaxTodo
          /\ IF "folder" \in deckMade /\ (fresh # <<>> \/ ~deckExport[x].had)
               THEN /\ deckMade' = deckMade \cup {"todo"}
                    /\ todoFile' = AppendTodos(read, fresh, at)
               ELSE UNCHANGED <<deckMade, todoFile>>
     /\ deckExport' = [deckExport EXCEPT ![x] = Unstarted]
     /\ UNCHANGED <<deckEntry, contextFile, deckAgents, deckRequest>>
-----------------------------------------------------------------------------
DeckEdits ==
  \/ \E s \in Skills : CreateRequest(s) \/ UpdateSkills(s)
  \/ DeleteDeckTentacle
  \/ \E i \in DOMAIN todoFile : DeleteTodoItem(i) \/ \E done \in BOOLEAN : ToggleTodoItem(i, done)
  \/ \E h \in HandLines : AddTodoItem(h) \/ \E i \in DOMAIN todoFile : EditTodoItem(i, h)

DeckAgentSteps ==
  \/ \E r \in DeckRequests :
       \/ \E i \in DOMAIN todoFile : SolveChecks(r, i)
       \/ SolveCreates(r)
       \/ SwarmReads(r)
       \/ \E requested \in SUBSET (1..MaxTodo) : SwarmChecks(r, requested)
       \/ SwarmCreates(r)
  \/ \E a \in DOMAIN deckAgents :
       AgentDeleted(a) \/ \E i \in deckAgents[a].spawns : CoordinatorSpawns(a, i)

DeckExportSteps ==
  \E x \in Plans :
    \/ EnsureTentacle(x) \/ ExportCreates(x)
    \/ ExportReadsContext(x) \/ ExportWritesContext(x)
    \/ ExportReadsTodo(x) \/ ExportWritesTodo(x)

DeckNext == DeckEdits \/ DeckAgentSteps \/ DeckExportSteps
DeckSpec == DeckInit /\ [][DeckNext]_deckVars
-----------------------------------------------------------------------------
(* "Applying twice adds nothing" (applyHandoff.ts:3), whatever the deck and  *)
(* other exports do between the read and the write of todo.md: no two lines *)
(* of todo.md have the key of one exported task, ticked off or not.         *)
TasksOnce(todo) ==
  \A i, j \in DOMAIN todo :
    todo[i].line \in PlanLines /\ DeckKey(todo[i].line) = DeckKey(todo[j].line) => i = j

PlanTasksOnce == TasksOnce(todoFile)

(* "A solve agent is already active for this todo item." (deckRoutes.ts:453)*)
(* An item has at most one agent that a solve request started for it.       *)
OneSolveAgentPerItem ==
  \A a, b \in DOMAIN deckAgents :
    /\ deckAgents[a].works = "solve" /\ deckAgents[b].works = "solve"
    /\ deckAgents[a].index = deckAgents[b].index
    => a = b
=============================================================================
