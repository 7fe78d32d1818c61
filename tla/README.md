# A TLA+ development for Octogent and Octoplan

Octogent runs coding agents in terminals: an API server (`apps/api`) keeps a
registry of terminals, spawns their shells on PTYs, types the agent's command and
prompt into them, receives the agents' hooks, passes messages between them and
serves a web console (`apps/web`). Octoplan (`apps/octoplan`) interviews the user
through Claude sessions, writes what was decided to markdown files under
`docs/plan` and hands the plan over to Octogent. Both servers are single Node
processes: a handler runs to its next `await` without interruption, and what
interleaves is requests, socket and PTY callbacks, timers, hooks and
continuations. The models take exactly those pieces as their actions.

## 1. Inventory

| component | state | operations | what is hard |
|---|---|---|---|
| Terminal runtime (`terminalRuntime.ts`, `sessionRuntime.ts`) | registry map, sessions map, per session its clients, listeners, timers, prompt flags | create, rename, stop, kill, prune, delete (cascade), attach, detach, direct listener, PTY exit, idle close, restart | timers and sockets that outlive their session, deletes that fail half way, id reuse |
| Hooks and agent state (`hookProcessor.ts`, `agentStateDetection.ts`) | per session the agent state and its tracker, pending tool and transcript reads | session-start, user-prompt-submit, pre-tool-use, notification, stop | hooks name a terminal, not a session; output and hooks both set the state |
| Channel messaging (`channelMessaging.ts`) | a queue per target terminal | send, deliver | marked delivered before the write, queues of gone terminals |
| Registry persistence (`registry.ts`) | pending text, debounce timer, write loop, last text written | schedulePersist, flush, load | coalescing, a failed write, a crash during a write |
| Worktrees and git (`worktreeManager.ts`, `gitOperations.ts`) | directories and branches | create, remove, lookup, commit, push, sync, pull request, merge | who owns a directory; agents and other people change the same branches |
| Deck and swarms (`deckRoutes.ts`, `readDeckTentacles.ts`) | folders, CONTEXT.md and todo.md of tentacles | solve a todo, swarm, edit todos | check, await, act; Octoplan, another process, edits the same files |
| Conversations (`conversations.ts`, `claudeTranscript.ts`) | a transcript and a file of turns per session | append, list, read, search, clear, delete, export | files removed while their session lives; answers of the API that overtake one another |
| Routes (`createApiServer/*`) | none of their own | parse, check, forward | order of checks |
| Usage, monitor, GitHub (`claudeUsage.ts`, `monitor/*`) | caches and snapshots | refresh, read, capture the CLI's usage view, patch the configuration | concurrent refreshes, caches written by whoever ends last, five timers in one capture |
| CLI and setup (`cli.ts`, `setupState.ts`, `projectPersistence.ts`) | project files, runtime.json | start, init, port search | a server that is already running |
| Interview sessions (`bridge/sessionManager.ts`, `inputQueue.ts`) | live sessions, pending rounds, answers, input queues, transcript chains | start, message, answer, revise, stop, branch, converge, restore | state read before an await and used after it |
| Plan operations (`planOps.ts`, `modes/*`, `ingest/*`) | locks on imports, harvests and launches; drafts; stage files | import, apply, harvest, cut stages, hand off, launch | crash and retry between writes, a status that locks others out |
| Plan store (`store/*`) | markdown files, known hashes, write queue, parsed index, emit timer, watcher | mutate, refresh, emit, watch, record answers, resolve harvest | slow reads, hand edits against the store's own writes, several files per operation |
| Integrations and pop-outs (`integrations/*`, `bridge/popOut.ts`) | PTYs, child processes | open, close, launch, poll | timeouts against late answers |
| Protocol (`packages/octoplan-protocol`) | none: pure functions | parse, serialise, next step, digest | round trips, ids that must not repeat |
| Web clients (`apps/web`, `apps/octoplan/web`) | stores fed by snapshots and events, the layout, a terminal's screen | merge, save, select, reconnect, draft | late answers, replays, debounced saves |

The components call each other as follows. Routes and the two WebSocket
servers call the runtime and the session manager. The runtime owns the session
runtime and gives it callbacks (session started, session ended), owns the
channel messaging and the hook processor, and persists through the registry
writer after each change. Hooks reach the runtime over HTTP from the agents that
run inside its own shells. Octoplan's session manager and plan operations share
one plan store per repository, which serialises single mutations and nothing
longer. The web clients hold copies kept up by events.

What would make each component correct is stated as properties where a module
exists (section 3), and as hazards in `PROJECT.json` where it is still planned:
each hazard names the line where it bites and the property that covers it.

## 2. Plan

In this order, the most important behaviour first:

1. `TerminalRuntime` (done): the registry with its sessions, timers and
   worktrees; `TerminalEvents` composes it with the subscribers of the events
   stream; `TerminalRuntimeProofs` proves its invariants.
2. `RegistryPersistence` (done): the debounced writer against `WriteBehind`, an
   abstract register, with crashes and failed writes, refined and proved.
3. `AgentChannels` (done): hooks, states and deliveries over the lives of
   sessions. Left: its composition with the runtime.
4. `InterviewSession` (done): one Octoplan session over its awaits;
   `SessionStream` (done): its transcript, the restart and the pages that are
   replayed it; `PlanAnswers` (done): what its answers leave in the plan. Left:
   `InputQueue`, the turns pushed to a query and what becomes of them, and branches.
5. `PlanStore` (done): the files, the index and the watcher under hand edits;
   `PlanImport`, `PlanHarvest`, `PlanHandoff`, `PlanPipeline` (done): operations on
   several files, over crashes. Left: the idea board, removals of records.
6. `PersistedUiState`, `ConversationsView`, `TerminalScreen` (done): the pages
   against late answers, lost connections and restarts. Left: the store of
   terminals, whose snapshots and events may overtake one another.
7. `TentacleGit`, `DeckTentacles`, `UsageCache`, `CliCapture`, `MonitorService`,
   `OctogentLaunch` (done): the API's other handlers and the CLI's processes. Left:
   `PopOut`, Codex's usage and the session scanner, and the pure functions of the
   protocol against reference definitions.

Modules about which something is to be proved take their parameters as
CONSTANTS with a named ASSUME, have one action per operation, state invariants
as conjunctions of named parts and use no RECURSIVE operator. Every safety
invariant a run checks is a theorem of section 4. Worth proving beyond them: what
the modules left above will say, and that `InterviewSession` broadcasts what
`SessionStream` lets happen.

## 3. Modules and runs

### TerminalRuntime

Sessions are objects on a heap (`session`), apart from the map that finds them
by terminal (`sessions`), because sockets, listeners and timeouts close over the
object and may run when the map already holds a successor (`attached`,
`timeouts`). The registry record keeps what the properties need: the lifecycle,
the parent, the workspace mode, the effective id (`worktreeId ?? tentacleId`), what
is typed at the start, and `ahead`, the terminals of the same effective id that come
before it in the map. A shell's directory is looked up as in
`getTentacleWorkspaceCwd`: the first terminal in the map with the effective id says
by its mode whether it is the worktree or the workspace (`InWorktree`), and the
session keeps where its shell was started (`cwd`). `worktrees` is by worktree id:
absent, directory and branch, or, after a delete that got half way, the branch. `timeouts` are
the idle timeouts Node still has pending, whether or not the session remembers
their handle: leaking one is thus expressible. The timers of the prompt
live in the session, as in the code (`session.promptTimers`).

| action | code |
|---|---|
| `AttachClient`, `ConnectDirect` | `handleUpgrade`, `connectDirect`, with `ensureSession` and `ensureAgentBootstrapped` |
| `SocketClosed`, `DisposeDirect`, `ReleaseKeepAlive` | the detaching callbacks and `releaseSessionKeepAlive`, with `scheduleIdleCloseIfNeeded` |
| `IdleExpire` | the idle timeout, which closes by terminal id |
| `PastePrompt`, `SubmitPrompt`, `PasteDraft` | the prompt timers |
| `PtyExit`, `StopTerminal` | the exit callback; `stopTerminal` and `killTerminal` |
| `CreateTerminal`, `PruneTerminals` | the same in `terminalRuntime.ts` |
| `DeleteTerminal`, `DeleteFails` | `deleteTerminal`, when every removal works and when one throws |
| `Restart`, `Crash` | `close()` and a new process; a process that dies, with `reconcilePersistedLifecycle` |

Abstracted: names, providers, cwd strings, scrollback, resize and input bytes;
`stopTerminal` and `killTerminal` are one action (signal and reason differ); a
spawn that fails leaves the state as it was and is a stutter. The registry on
disk is taken to be up to date at a crash; `RegistryPersistence` is about how far
it may be behind. The operating system's processes are not modelled.

| run | shows | bounds |
|---|---|---|
| `terminal` | ownership of sessions, exact idle timeouts, order of what is typed, that ended sessions are final; the shell of a worktree terminal does not lose its directory | two terminals, two session objects, one client, one listener, a limit of one session: enough for a successor on the same id, for a second terminal refused by the limit, and for a callback of the first session under the second; requests in both modes that name the worktree or tentacle id of either terminal, so that one may hide or hold the other's worktree. `InBounds` keeps the two apart: either the terminals are plain, or nothing is typed and no listener attaches |
| `terminal_liveness` | an unwatched session ends; a prompt is submitted | one terminal, shared or with a worktree, one session after another |
| `terminal_registry` | lifecycle equals having a session; a delete takes exactly the descendants; subscribers know the registered terminals | three terminals with worktrees and any parent relation, cycles included, so that a cascade has a middle; one session, opened by a client; runs the specification of `TerminalEvents` |

Session objects and timer handles are the only artificial bounds (`SessionId`,
`TimerHandle`): a behaviour creates at most that many sessions. Two sessions on
one id are enough for every stale callback, since a callback refers to one
object and the map holds one other.

Fairness: the timers only (`Fairness`). Node fires a timeout that stays pending,
and nothing else is assumed: clients need not leave, agents need not exit and no
operator acts. `UnwatchedSessionsEnd` excuses the one re-arming that may recur
for ever, a Stop hook.

### TerminalEvents

Adds `told`, what a subscriber of `/api/terminal-events` holds of each terminal
after the events sent so far, to the steps of `TerminalRuntime`.
`SubscribersKnowTheRegistry` holds of the set of terminals. What an event says
of the lifecycle is another matter: `teardownSession` calls `onSessionEnd`
before it drops the session from the map, so `toTerminalSnapshot` reports the
terminal as running, and a client that relies on the events shows it running
until its next full fetch.

### RegistryPersistence and WriteBehind

The registry as a whole is one value; what is in it is `TerminalRuntime`'s
subject. `Mutate` is any change followed by `schedulePersist`, with its early
returns (`Redundant`); `DebounceFires`, `WriteSucceeds`, `WriteFails` and
`LoopSettles` are the write loop cut at its `await` and at its `finally`
callback, which Node runs as a microtask (no timer or request comes between);
`Close` and `Exit` are the graceful stop, `Crash` any other end, `Start` the load
with its reconciliation. A write under way at a crash leaves the old file, the new
or a torn one, since `writeFile` truncates in place.

| run | shows | bounds |
|---|---|---|
| `registry` | a graceful stop is durable, `WriteBehind` is implemented, the file catches up | three states: one on disk, one on its way, one to come |

Fairness: Node fires a timer that stays set and runs to its end what it has
begun. `EventuallyOnDisk` asks nothing of runs with failed writes.

`WriteBehind` has the memory, the snapshot on its way and the disk; a step of the
writer is a step of it or a stutter. Its actions leave open how often a snapshot
is taken and whether a write fails, and exclude what matters: the disk never
holds anything but a snapshot, and never an older one after a newer.

### AgentChannels

Sessions come and go at any time here, which covers every way `TerminalRuntime`
has of opening and ending them. A session has its agent state, the tracker's
copy and what an attached client was shown; `queue` is the channel queue of an
id, which outlives terminals. Hooks are actions that may come at any time, as
the agents are external. `tty` records prompt, messages and Enter keys in the
order they reached the PTY.

| run | shows | bounds |
|---|---|---|
| `channels` | messages are typed once and in order; a waiting agent is not taken for idle; a message that waits during a turn is typed at its end | one terminal (terminals share only the message counter), three messages: one delivered, one queued, one to come; one record per id |

Fairness: only that an agent at work ends its turn and its stop hook arrives,
which is the agent's contract; without it nothing is promised.

### InterviewSession

One session between two starts of the server. Its queries are external: each is
a message loop (`loop`) that is ready, waits for the store in the middle of a
message, or is over. `current` is `live.input` and `live.abort`, set and cleared
together; an aborted query's input is closed. Every handler is cut at its awaits:
`start` (`StartGoesOn`), `canUseTool` at the revision card (`AskUserQuestion`,
`AskGoesOn`), `answerRound` (`AnswerRound`, `AnswerGoesOn`), `reviseAnswer`
(`Revise`, `RevisionRead`, `RevisionRecorded`, `RevisionFails`), `converge`
(`Converge`, `ConvergeGoesOn`) and `handleMessage` (`MessageGoesOn`). Questions,
answers, cards and digests are not modelled, nor what is broadcast.

| run | shows | bounds |
|---|---|---|
| `plan_service` | a waiting session has a round; a tool call is settled once; a stop reaches every query but one that `start` displaced (and what `PlanStore` is to show, below) | two queries, so that one may replace the other; one round, two answers on their way. More queries and rounds are covered by the proofs |
| `interview_onequery` | `start` and an early message each begin a query | two queries, one round |

`MCPlanService` puts the session and the plan store of the next section in one run, as
`MCHandlers` does with the handlers below: they share no state, and the initial state
picks whose steps are taken. `Query`, `Round`, `MaxAnswers` and one question in flight
per query are bounds; a behaviour that has used them up goes on without. No fairness is
assumed: what the session owes the user depends on Claude.

### PlanStore

A plan file is `NoFile` or a set of records, `[id, by]`, `by` being the tool that
added it or the user's hand. `disk` also counts the changes of a file, which the
code does not keep: `index` and `sent` carry the count of what they were read from,
so that going back to an old text can be told from a change. A hash stands for the
text it is of. `tasks` is the index's promise chain: every load, who waits for it
(`emit`: a refresh that schedules an emit; `plan`: the plan event of a session
that starts; `peek`: an operation's own look) and what its reads returned. Loads
read their files at once and in any order; `PlanIndex.loaded`, which the code sets
when the first load begins, is set here when it ends, which nothing can tell since
loads are serialised.

| action | code |
|---|---|
| `Request`, `MutateReads`, `MutateChanges`, `RenameLands`, `WriteFails` | `FileWriter.mutate` cut at its awaits: queued, reads, changes and records the hash, renamed or given up, with `addItem` and `afterWrite` |
| `LoadReads`, `LoadEnds`, `Snapshot` | `PlanIndex.load`, `refresh` and `sync` |
| `Emit` | the 20 ms timer of `scheduleEmit` |
| `Note`, `FlushBegins`, `FlushReads`, `FlushCompares` | the watcher's `note` and `flush`, the latter cut at its reads, with `onExternalChange` |
| `Edit` | the user adds a record, takes one out or deletes the file, on the text as it is (an editor that saves a stale buffer undoes the store's writes by itself) |

Listeners are taken to be there from the start, with the watcher up. `afterWrite`
is the same for a change that turns out empty. The history variables say what the
properties must excuse: `kept` are the items the store reported as added and the
user has not taken out; `blind[f]` marks that the watcher cannot tell the file from
what it knows, by an edit that takes the file back to the text its hash is of or by
a failed write whose restored hash is not what the clients show or what the file
holds by then, until the index next reads it.

| run | shows | bounds |
|---|---|---|
| `plan_service` | what was added stays; quiet means known; the plan never goes back (and what `InterviewSession` is to show, above) | two mutations of one file of two, so that one waits for the other and a partial load leaves a file unread; two turns: hand edits, failed writes, snapshots; the file starts missing or with one record |
| `plan_listeners` | listeners come to show every file; the queues do not block | a mutation of each file, one turn |

`MaxTurns` bounds the user, the failures and the snapshots together; `Flushers` is
one flush at a time in the runs: a flush reads a few small files and the debounce
before the next is 150 ms, so that overlapping ones are possible and rare. The
theorems hold of any number of them. Fairness: reads, renames, timers and file
events end; nothing is assumed of the user, of the tools or of writes succeeding.

### The handlers, pages and plan operations: runs `handlers` and `plan_bridge`

Fifteen modules model parts of the two servers and their pages that share no state
with one another. Each has its own `Init`, `Next` and specification; `MCHandlers`
puts those of Octogent in one run and `MCPlanBridge` those of Octoplan, whose
initial state picks the component (`subject`) whose steps are taken while the others
stay at their start. The reachable states are thus
the sum of the components' and not their product, and every property holds of every
component as if it had a run of its own: what a component does depends on no other.
`DeckTentacles` is picked twice, once with the deck's agents and once with
Octoplan's exports; the second leaves out lines that people add, whose keys no
export looks at. So is `PlanImport`: once with two imports, a save and one apply at a
time while nobody else writes `GOAL.md`, once with two applies at once beside the
interview's goal, one import and one fault. The bounds end every behaviour, hence
`CHECK_DEADLOCK FALSE`; no fairness is assumed, all properties are safety.

**`DeckTentacles`**: one tentacle's folder, its entry on the deck, `CONTEXT.md` with
the marked block of suggested skills and `todo.md`, a sequence of lines with their
ticks. The deck's handlers are atomic once the body is read, except that solve and
swarm wait for a prompt file between their checks and `createTerminal`. Octoplan's
`writeTentacle` is cut at every file: it reads `todo.md`, waits, and writes back
what it read with its tasks added. `PlanTasksOnce`: however these interleave, a task
of a plan is in `todo.md` once. *Bounds*: two exports of one task, reworded by the
second and twice in the first, two requests, two lines, two agents: a coordinator
and one worker of two.

**`TentacleGit`**: the worktree directories and branches by id, the terminals map in
its order with the directory each shell was started in, origin's branches and main,
pull requests. Handlers are synchronous, so every action is a whole request, but for
the swarm's, which decides on the workers' base before it waits for their prompt
(`SwarmBaseRead`, `SwarmWorkerCreated`). A new branch starts at the base asked for:
the workspace's HEAD, or for a swarm the branch `octogent/<tentacleId>`. Agents edit
in the directory of their shell, resolve conflicts and go on with a rebase by
themselves, and others push to main. Contents are sets of pieces of work; as history,
`madeIn` is the directory a piece was done in, `gone` what a delete was asked to
remove, and `lineage` which branches a branch was started from or synced with.
`WorkStaysInItsWorktree`: what was done in a directory stays in it or on main until
that directory is asked to go, and is in another directory, the workspace included,
only over main or by its lineage, also when a shared terminal has a worktree's id.
*Bounds*: families of parents and children; one piece of work and one of others, two
terminals over two ids, one of them a swarm's, one swarm request past its check, eight
steps: create, edit, commit, sync with a conflict, push, request, merge, delete. Of
the agents' own git commands only the end of a stopped rebase is modelled: an agent may
merge or check out any branch by itself, and a coordinator is told to. The workers of
a swarm with a coordinator are created by it through the CLI, whose requests name no
base, so only the one worker of a single item has one.

**`UsageCache`**: the snapshot in memory, the file, `refreshInFlight`, and the
refreshes that run whether or not it still names them. `RefreshesAreFew`: there are
at most one more than hooks invalidated the cache. *Bounds*: three refreshes, one
read, one invalidation, a clock of two. **`CliCapture`**: the buffers, the counters
and the five timers of one capture; output is the set of needles it contains.
`SettlesOnTheUsageView`: the timer that ends the capture runs only over a whole
usage view. It has no bounds but those of the code.

**`MonitorService`**: configuration and cache, both files, with reads of the feed
and a patch cut at their awaits. `CleanFeedIsTrue`: a feed without an error shows
posts for the terms and the time it names. *Bounds*: two reads, one patch, two lists
of terms, a clock of two.

**`OctogentLaunch`**: `launchOctogent` with its lock, its polls and its time-out,
the processes it starts (port search, listening, shutdown, crash), `runtime.json`
and people who start and stop Octogent as well. `LiveInstancesAreFew`: besides one,
as many processes live as people started and launches timed out. *Bounds*: three
processes, two requests, two ports, one surprise.

**`PlanImport`**: `INGEST.md` with its status, the import, a save, applies and the
interview's `plan_write_goal`, cut at their awaits; crashes and throws. An apply reads
the goals (`ApplyReadsGoals`), waits, and writes the whole `GOAL.md` from that read
(`ApplyWritesGoals`): goals written in between are lost. `missed` and `goalsReplaced`
follow them. `StatusIsTrue`: "running", which locks saves and applies out, is said only
of an import in flight, or of one that a crash or a failed write orphaned; "applied"
only of items that are in the plan, or of goals that a later `GOAL.md` took out.
*Bounds*: two items, one of them a goal, two imports, a save, two applies, a goal of
the interview's, two faults, split as said above.

**`PlanHarvest`**: `HARVEST.md` (candidates and mark), the decisions made of them,
one pass and the queue of accepts and rejects; decisions deleted by hand, a mark that
git does not know any more. The log a pass reads lists the newest commits after the
mark, at most `FirstRunCommits` without a mark and `HarvestMaxCommits` with one (20 and
50 in the code), and the mark then goes to the newest of them: what was cut off is
passed (`harvestCut`) and never shown to Claude. `HarvestedOnce`: a title is asked about
once, a candidate has one decision (one more per call that died half way), and the mark
passes a commit whose proposals were not stored only if a full log cut it off. *Bounds*:
three commits on two branches, logs of one and two commits, so that both cut, two
titles, two resolves, one fault.

**`PlanHandoff`**: the queue of generate, save and apply, `HANDOFF.md`, `OCTOPUS.md`
and what Octogent was handed. `HandsOverTheLastSave`: an apply hands over the last
plan made before it was asked for, the status and the prompt file agree with it.
*Bounds*: five requests, two faults.

**`PlanPipeline`**: `GOAL.md`, the active decisions with their waves, the stage
files, written one by one, and the handoff's tentacles with their todos. It contains
the pure functions on the way (`buildGoalDoc`, the cut into waves or chunks, the
fallback handoff, merging and renaming of tentacles) over texts that are model
values; which texts match which pattern is given by constants. What a filter or a
deduplication leaves of a list is stated by the positions it keeps (`Only`, `Of` and
`Dedupe` of the module `Positions`).
`HandoffCarriesTheWork`: a handoff made of complete stages has every goal and done
item of theirs that is not worded like a generic check as one todo of one tentacle,
and its tentacles have ids of their own.
*Bounds*: `MCPlanPipeline`: four goals, with and without waves, three states of the
deck, two changes of the plan, plans of at most four stages (`MaxStages`).

**`SessionStream`**: what the session manager broadcasts, the chain of appends to
the transcript, the server's restart from it and a page that connects, says hello,
is replayed the session and reduces what it is sent (`planClientReducer`).
`CaughtUpPagesShowTheSession`: status, cards, rounds and answers of a page that has
reduced all are the server's, but for answers whose round the transcript lost
(`ownerless`); `RoundsKeepTheirNumbers`: unless an append failed no number is given
twice. What a restart finds in the file and what a replay sends are sequences over
`Ascending` sets of positions (`Positions`). *Bounds*: one page (pages do not meet), two
rounds, six broadcasts, two crashes or failed appends.

**`PlanAnswers`**: the sessions of one repository with their logs, and what they
share: `PARKED.md`, `RISKS.md` and the decisions that rest on answers. Rounds are
answered and answers revised, cut at each write, with throws and crashes, while Claude
records decisions and parks items of its own (`PlanPark`; those of an apply name no
question either). Every session numbers its questions from Q1 (`NumberOf`), and
`resolveParked` goes by the number alone: an answer resolves the items of the other
sessions' questions of that number (`Namesakes`), which `namesakeResolved` remembers.
`FollowUpsMatchTheLog`: a question's item is open exactly if its latest answer parks it
and no namesake's answer has resolved it since, and there is a risk per tentative
answer; `RevisionsLeaveNoActiveDecision`: no decision that the revision could see stays
active. *Bounds*: `MCPlanAnswers`: two sessions with two questions and one, whose first
have one number; two calls at once, three in all, or two beside a decision or an item
of Claude's, one fault. What the log does to questions out of the round
(`syncCoverage`) is left out.

**`PersistedUiState`**: the console's layout, a setting and the open panels, its
copy in the registry, the debounced PATCHes and their late answers.
`QuietPageIsSaved`: without timers and PATCHes under way the registry has what the
page shows, but for the cases listed in `unsaved` (section 5). *Bounds*: one
terminal, three changes, one failed request.

**`ConversationsView`**: the transcript and the turns of a session, the page that
lists, searches, shows and removes conversations. `SelectionIsShown`: with nothing
loading the page shows the selected conversation or none. A search looks into conversations
whose transcript is there. *Bounds*: two sessions,
two requests and two reads under way, one failure.

**`TerminalScreen`**: the scrollback of a session, the messages on a panel's socket,
what is held back until xterm is loaded, and what xterm was given. Output is
numbered in units, a chunk is an interval. `ScreenShowsTheSession`: a panel that
caught up shows each unit once and in order, without a gap from the scrollback's
start. *Bounds*: five units in chunks of one and three over a scrollback of two (a
chunk longer than it, one that drops others, one that fits), two sessions, two lost
connections.

Two more runs take these modules with a property the code does not have:

| run | shows | bounds |
|---|---|---|
| `deck_solve` | two solve requests for one item both pass the check and start two agents | one item, two requests |
| `plan_reimport` | an item applied once and carried over by a second import is written again | one item, two imports, nothing fails |

## 4. What is proved

`TerminalRuntimeProofs` proves, for any sets of terminals, clients, listeners,
session objects and handles, from `ConstantsAssumption` alone:

- `TypeCorrect`: `Spec => []TypeOK`.
- `Ownership`, `LifecycleAgrees`, `TimeoutsAreExact`: three invariants that are not
  inductive apart. The idle timeout closes by terminal id, so that it ends its own
  session follows from ownership; that a pruned terminal has no session follows from
  the lifecycle; and a session is not closed while a timeout of it is pending because
  the timeouts are exact. `IInv` is `TypeOK` with the three, the timeouts stated per
  session and handle (`TimeoutsOf`), which is the form the provers can use;
  `TimeoutsExact` turns it back.
- `IdleExpirySparesWatched`, `EndedStaysEnded`: action properties, from `IInv`.
- `SessionsAreLimited`, `WorktreesOutliveSessions`: by a lemma (`LiveNext`) that says
  what any step may do to the set of live sessions. For the second `Placed` adds to the
  property what it rests on: no two worktree terminals have one effective id, since the
  directory or the branch of the first refuses the second until its delete, and the
  shell of a worktree terminal runs in the worktree of that id or in the workspace. It
  is not said of shared terminals, of which it is false (`SharedShellsAreInTheWorkspace`,
  section 5).
- `TypesInOrder`: `OnScript` lists how far a session may be in what it types, and for
  each stage the flags it has set and the timers it may still have: an Enter is due
  only after the paste, and nothing is due once the flag of the next stage is set.
- `EventsKeepUp`: `IInv` holds of `EventSpec` as well, whose steps are steps of
  `Next`; with it a session that ends leaves a registered terminal, so that its event
  announces nothing that is gone.
- `DeletesTheSubtree`: the cascade is exactly the terminals with a path of parent
  links to the root. It is followed by distance (`Within`, a recursive function on
  numbers); that it has settled before the terminals run out is a pigeonhole argument.
  The inductions are over the set of numbers a claim holds of (`LeastNumber`,
  `AllUpTo`), since schemes with an operator parameter are out of the provers' reach.

`SequenceLemmas` has the facts about numbers and sequences several of the modules
below need. Induction over data goes by the least counterexample here too: that way
the recursive function behind `FlattenSeq` is shown to hold each item of each list
once, in one place and in order (`FlattenComes`), and `Ascending` to enumerate a finite
set, from which follows what `Of` and `Dedupe` hold (`OfHolds`, `DedupeHolds`).
`SelectSeq` and the folds have no such definition the provers can open, and the modules
do without them.

The persistence part of `ServiceProofs`, for any set of registry states: `TypeCorrect`,
`ScheduledStatesAreTaken`, `LatestIsKept`, `StopsAreDurable` and `WritesBehind`, the
refinement of `WriteBehind`. `IInv` adds to the types that the loop holds a value
exactly while it writes, that the last persisted state is the file's while nothing
failed, and the two state invariants; `LatestIsOnItsWay` alone is not inductive,
because the early return compares with `last` and not with the file.

`AgentChannelsProofs`, for any terminals and bounds: `StatesAlwaysAgree` and
`WaitingSurvivesThePoll`. `IInv` says of every session that state, tracker and
client agree; each operator on sessions has a lemma that it preserves that, and the
actions cite them. `MessagesTypedOnce`: `QueueInv` accounts for every queue
(`Accounts`): the messages delivered are a first part of it and are what was typed, so
that what `Undelivered` filters out is the rest, in order; `InOrder` is the order of
a filter, as an increasing enumeration of positions.

`InterviewSessionProofs`, for any queries, rounds and number of answers:
`TypeCorrect`, and from it `NoQueryIsHidden`, `WaitsForSomething` and
`CallsSettleOnce`, each of which is inductive once the types are known. For the
first the argument is that a query becomes current only when the one before it is
gone, aborted or, in `start`, counted as displaced, and that the end of a query
clears the place only if it is its own.

`PlanStoreProofs`, for any files, tools, texts and edits: `TypeCorrect`,
`AddedStays`, `IdsDoNotRepeat`, `PlanGoesForward` and `QuietIsTold`. The types need the texts to be
finite and what is written to be what was read with one more record, or `nextId`
would have no maximum to take and no number would be new. `InHand` strengthens
`AddedItemsStay`: a mutation under way has read every item that is in its file for
good, since the queue lets no other mutation write after its read and the user only
takes items out. `Ahead` orders the versions: what was sent, the index, what the
head of the load queue read, the file. That a finite set of numbers has a maximum is
induction, which the provers cannot instantiate as a scheme; it is proved by
minimality instead, from the well-foundedness of inclusion on finite sets
(`MinimalFiniteSet`). For `QuietIsTold` the invariant names, for each file, everything
under way that will bring it to the clients: a load that has still to read it or has
read it as it is, an emit, a file event or a flush that has still to find it changed
(`Told`). Each step hands the file on from one of these to the next.

`PlanBridgeProofs`, for any finite set of questions, any rounds, decisions, calls
and faults: `RevisedIsStale`. Decisions are numbered as they are written.
`AnswersInv` says that every decision was written by one of the writes counted
(`DecisionsOK`), that what a revision found active when it read bounds what is
active of that age (`CallsOK`), and the property itself of every entry of the log
(`LogOK`); it is inductive because a decision becomes active only by being written
anew, with a later number.

`FollowUpsMatch`, of the same module: `FollowUpsInv` says of each question no write
failed for that at most one call has still to write for it, that its parked item is open
or resolved as its last answer in the log asks and as answers to its namesakes have left
it, unless that call will see to it, and that for each tentative answer a risk is there
or to come. What a call writes is read off the joined lists of its answers by where each
entry comes from (`FlattenComes`).

`WorkIsHandedOver`, for any goals, decisions, waves and decks: `PipelineInv` says that
while the files are written they carry no one plan's work (`stagesWork` is empty) and
the writer has all of it, that files with a work have each text of it in some stage,
and that the draft's tentacles have ids and todos of their own, with each text of the
work in one place. The property counts positions; the invariant speaks of values
(`Lands`, `InOnePlace`), because merging tentacles and removing duplicates keep
those: that the stages take every goal and done item is `StagesTakeAll`, that a text
goes to its earliest stage and with that to one owner `FallbackOnce`, that
normalising, each time it is done, keeps it in one place `NormalizeKeeps`.

The same module, for any items, calls, applies at once and faults: `IngestStatusIsTrue`
and `AppliesWhatWasSaved`. `ImportInv` adds to the types that a pass which finds
"running" in the file finds an orphaned one's, that an apply under way has written what
it has left behind, and that one which is about to write `GOAL.md` has read, or
`missed`, every goal of the plan (`WrittenInv`): so what it writes over is counted as
replaced. `HandoffInv` adds that requests wait in their order (`InOrder`), that the file
holds the last plan that did not fail (`PlansAccounted`), and what the running task and
the prompt file hold at each step: the queue alone would not do, since a task may throw
after its first write. And `HarvestsOnce`, for any commits, log limits, titles, calls
and faults: `HarvestInv` adds what a pass has read, left out and holds back (`PassInv`),
and that a candidate has, apart from the decision it is linked to or about to be, no
more decisions than there were faults (`LinksHold`).

And `PagesCatchUp` and `NumbersAreKept`, for any pages, rounds, broadcasts and faults,
from `StreamInv`. A queue is read by what it ends with (`Ends`): the last of its events
about a thing, or else what was said of it before. Of a page `PageOK` says that, after
what is still in flight, its status, the cards, each round and the answers it holds,
early ones included (`Held`), will be the server's, or are not yet told of because the
page has not said hello. `NumbersHold` reads the numbers off the file and the appends
under way together, of which a crash keeps a prefix when none failed, and `LiveOK` says
that answers belong to a round or are `ownerless`. Of the replay it is shown that it
ends, about everything, with what the session holds, and of a start that it finds every
number once, as last asked. The proof corrected the property: see §5, *Sessions and
pages*.

`ServiceProofs`, for any number of requests, processes, items and terminals:

- `FeedIsTrue`: the posts that a read may write back are true as well (`TruePosts`).
- `CaptureSettles`: once the timer runs on what `/usage` printed, it was typed and its
  closing line is there, so neither the ready screen nor the retry types it again.
- `RefreshesStayFew`: of the refreshes at work all but the one in flight were
  forgotten by an invalidation, one each (`Forgotten`).
- `LaunchedOnce`: between launches all live processes but the one `runtime.json` names
  are surprises; a launch goes on only when it names none, and no other begins
  meanwhile (`CountsHold`, `OneLaunch`).
- `TasksAreThereOnce`: what an export read of `todo.md` may be old, but has each task
  once as well, and so has what it writes back (`DeckInv`).
- `WorktreesAreApart`: every worktree terminal has a worktree no other worktree
  terminal has (`OwnTrees`), where there is neither directory nor branch there is no
  work (`NothingElsewhere`), so that a delete that stops half way takes the work of the
  terminals it removed and no more, and what a branch of origin has comes from where its
  history says (`PushedWork`), so that a sync or a merge brings no other. For any ids,
  bases and swarms' ids; cascades have two generations, as in the module.

`ConsoleProofs`, for any sessions, layouts, terminals and requests:
`ShownIsSelected` and `LayoutIsSaved`. `SelectionInv` says that requests are
numbered upwards, so only the last has the number the page compares answers with,
and that the last asked for what is selected. `UiInv` says that a timer carries the
layout on screen, that without one the last PATCH does (`UnderWay`), and that with
neither the page knows what is saved (`AtRest`); none of these is inductive alone.
`ScreenShows`, for any chunks, scrollback, losses and sessions: `ScreenInv` says that
the scrollback is a run of units that ends with the last one printed (`EndsAt`), that
what the panel was given (`GivenTo`) and what is on its way (`OnWire`) together cover
the session from some scrollback's start (`Seen`), and that what is on its way is later
than what was given, unless a history that starts the screen anew comes first
(`WireOK`). Which connection is open needs no part of its own.

Proved but in no run: that the session limit holds, that idle expiry spares watched
sessions, that what is scheduled is taken, that the newest of queue, write and file
is the registry in memory (`LatestIsKept`), that session, tracker and client agree
(`StatesAlwaysAgree`) and that ids do not repeat.

Only model-checked: the liveness properties `UnwatchedSessionsEnd`,
`PromptIsSubmitted`, `EventuallyOnDisk`, `DeliveredAtTurnsEnd` and `EditsReachListeners`,
since fairness and ENABLED are out of the prover's reach; and the three runs that are
to find a violation.

## 5. Stated, and not so

Some definitions at the end of the modules state what a document or a test says of
the program and the code does not do. Those that a run refutes are under "findings"
in `PROJECT.json`. These are stated too, each refuted by TLC when it is put in the
place of the property of a run of its module:

- `FailedDeleteKeepsTerminals`: a cascade whose second worktree cannot be removed has
  already dropped the first record (the test deletes one terminal only).
- `EventsTellTheLifecycle`: the event of an ending session says "running".
- `CrashLeavesAReadableFile`: a crash during the in-place write leaves a file the next
  start cannot parse.
- `IdleSessionsHaveTheirMessages`: neither a start nor the state poll delivers what
  waits for an idle session.
- `PromptIsSubmittedAlone`: a message may be typed between the paste of the prompt and
  its Enter.
- `AnswersReachClaude`: a query that fails leaves its rounds pending, and their
  answers settle a call nobody awaits.
- `CountsAnsweredRounds`: a round answered twice while the store writes counts twice.
- `RevisionsReachClaude`: a revision in a stopped session is recorded and its turn
  dropped.
- `StoppedSessionsStayEnded`: an answer, a `converge` or a message under way sets a
  stopped session's status back.
- `StopRejectsEveryRound`: a question that waited for the revision card is asked after
  the stop, on a signal that has already fired, and waits for ever (needs two rounds).
- `StopKeepsTheRegistry`: a request served after the flush and before the HTTP server
  closed is lost, against "Terminal records survive API restarts."
- `MessagesReachTheirTarget`: a successor on the same id is given its predecessor's
  messages.
- `HandEditsAreSeen`: a file deleted by hand before the store wrote or saw it is not
  reported.
- `HandEditsWin`: a hand edit saved between the read and the rename of the store's own
  write is overwritten, against "Hand edits win."
- `SharedShellsAreInTheWorkspace`: a shared terminal created under the id of a worktree
  that is there runs in the worktree, against README.md:103 ("Shared terminals run in
  the main workspace") and docs/concepts/mental-model.md:52.
- `AppliesMergeGoals`: of two applies at once the second writes `GOAL.md` from goals it
  read before the first wrote its own, which are "merged into an existing goal rather
  than replacing it" (applyIngest.ts:3-4) and gone.
- `ParkedUntilAnswered`: a real answer to one session's Q1 resolves the item that another
  session's Q1 is parked in, against "A parked question that now has a real answer: its
  PARKED.md item is resolved" (fsPlanStore.ts:436).

What the properties of runs `handlers` and `plan_bridge` have to excuse, or do not
speak of, because the code is not so:

- *Sessions and pages.* Blocks broadcast between a page's connect and its hello come
  first in its list. Numbers of questions and rounds are given again after a failed
  append; answers are shown before they are on disk. When the append of a round failed
  and that of its answers did not, a restarted server has answers without a round and
  counts them for the next round of that number, which pages show unanswered; this
  takes more broadcasts than the run has, and was met in the proof. Of rounds asked in parallel a
  restart keeps the last unanswered one; an earlier one is shown pending and cannot be
  answered. The page does not connect again by itself.
- *Answers.* A round answered while an earlier call's follow-ups wait may leave a
  parked item open, against fsPlanStore.ts:436; parking again leaves the older item
  open; a failure drops the follow-ups that remain. A decision recorded between a
  revision's read and its log entry stays active, and so do indirect dependents. A
  second answer to a round that is being recorded is recorded as well.
  An answer in one session resolves the parked items of other sessions' questions of its
  number, and items Claude parked under that number.
- *Imports.* Goals that another apply, or the interview, wrote after an apply read
  `GOAL.md` are written over, and "applied" is said of them all the same.
- *Harvests.* Commits beyond the newest 20 of a first pass, or 50 of a later one, are
  never shown to Claude: the mark passes them. A mark that git lost starts over at 20.
- *Handoffs.* A done item worded like a generic check is dropped from the fallback
  handoff. A handoff made while stages are written, or after a write failed, mixes old
  and new stages; one made of stages older than the goal lacks what was added since.
- *Worktrees.* A shared terminal whose effective id is a worktree's id hides the
  worktree if it came first: shells and commits meant for it go to the workspace. One
  that came after runs in the worktree, against README.md:103 and
  docs/concepts/mental-model.md:52, and loses it with a delete of the other
  (terminalRuntime.ts:737-742). A swarm's worker starts from the branch of its tentacle's id, not
  yet on main, and from a branch that is another's if the tentacle's terminal found has
  a worktree of another id. A failed sync leaves
  a rebase in progress that no action ends, and commit does not look for conflicts. A
  sync of a pushed branch makes the next push fail. The console's
  `openTentacleGitActions` and `useTentacleGitLifecycle` are not reached.
- *Layout.* A failed read of the terminals at load shows the defaults, which are then
  saved over the layout. A change undone while its PATCH is under way stays saved. A
  failed PATCH is not tried again; two pages overwrite each other.
- *Conversations.* After a clear or delete a late answer shows a cleared conversation
  when nothing is selected; a delete moves the selection even if the user moved on
  meanwhile; a late answer of a search replaces a newer one's. A session that lives
  goes on writing to a removed file and its Stop hook stores turns again, which nothing
  lists or finds until the transcript is there. What is shown is not read again.
- *Terminal panels.* After a reconnect to a restarted session no resize is sent, for
  the panel's size did not change, and the new PTY keeps its default; a resize lost
  with the connection is lost. The exit line is not in the scrollback. A new session
  without output sends no history, so that the old one's output stays above.
  `stripBrokenLeadingAnsi` takes "[I" from text that begins with "[INFO", cut or not.
- *Idea board.* `updateIdea` and `converge` write records they read before an await;
  edits made meanwhile are lost (not modelled, a hazard without a property).

## 6. Not modelled

Listed with reasons under "components" of `PROJECT.json`. Left out of modelled
components: branches, retries and the input queue of interview sessions; the idea
board, new projects and conventions; pop-out terminals, drift and git graphs; the
session scanner, Codex's usage and the GitHub summary; assembling an event log into
turns; the console's store of terminals, whose snapshots may overtake events, its
polling and its canvas, a numeric simulation. The protocol package and the routes
are pure functions and tables over strings, which their tests cover by round trips.
Most of the repository's lines are views: rendering, styles, videos, packaging and
documentation hold no state to check, and the map's share of all lines is small for
that reason. Calls to git, gh, Claude and X are external: their outcomes enter as
choices.
