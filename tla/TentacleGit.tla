---------------------------- MODULE TentacleGit ----------------------------
(***************************************************************************)
(* The worktrees of tentacles and the git actions of their API             *)
(* (worktreeManager, gitOperations, systemClients, gitRoutes).  A terminal *)
(* of mode "worktree" has a directory and a branch of its effective id,    *)
(* worktreeId ?? tentacleId; agents edit there, and the actions commit,    *)
(* push, rebase, open and merge.  Handlers are synchronous, but for the    *)
(* swarm's, which waits for a prompt; git and gh are modelled by what a    *)
(* call leaves behind.  Contents are sets of pieces of work; directory 0   *)
(* is the workspace, branch 0 of origin its main.                          *)
(***************************************************************************)
EXTENDS Naturals, FiniteSets, FiniteSetsExt, SequencesExt

CONSTANTS
  Pieces,         \* pieces of work an agent does
  OtherPieces,    \* pieces that reach origin's main from elsewhere
  AskedIds,       \* bound: ids and bases that requests name, 0 is none
  SwarmIds,       \* tentacle -> the ids "<tentacle>-swarm-<n>" of its workers
  MaxTerminals,   \* bound: terminals at a time
  MaxGitSteps     \* bound: steps

ASSUME GitAssumption ==
  /\ MaxTerminals \in Nat /\ AskedIds \subseteq 0..MaxTerminals + 1
  /\ SwarmIds \in [1..MaxTerminals + 1 -> SUBSET (1..MaxTerminals + 1)]

VARIABLES
  gitTerminals,   \* the terminals map, in insertion order
  shellIn,        \* id -> the directory its shell was started in, or NoDirectory
  swarmRequest,   \* the swarm whose prompt is read, or NoRequest (bound: one)
  checkout,       \* id -> its directory and branch
  remoteBranch,   \* id -> origin's branch [exists, has, from, rewritten]
  pull,           \* id -> its pull request [state, base]
  originMain,     \* origin's main
  madeIn,         \* history: piece -> the directory it was done in, or NotMade
  gone,           \* history: pieces that a delete was asked to remove
  lineage,        \* history: id -> what its branch was started from or synced with
  gitSteps

servedVars == <<gitTerminals, shellIn, swarmRequest>>
historyVars == <<madeIn, gone, lineage>>
gitVars == <<servedVars, checkout, remoteBranch, pull, originMain, historyVars, gitSteps>>

Numbers == 1..MaxTerminals + 1
Workspace == 0
Places == Numbers \cup {Workspace}
NotMade == MaxTerminals + 2
NoDirectory == MaxTerminals + 2
NoRequest == [id |-> 0]
\* While a rebase is stopped the branch is still at `before`.
NoCheckout == [dir |-> FALSE, branch |-> FALSE, dirty |-> {}, head |-> {}, rebase |-> FALSE,
               todo |-> {}, before |-> {}]
NoRemote == [exists |-> FALSE, has |-> {}, from |-> {}, rewritten |-> FALSE]

GitInit ==
  /\ gitTerminals = << >>
  /\ checkout = [p \in Places |-> [NoCheckout EXCEPT !.dir = p = Workspace,
                                                     !.branch = p = Workspace]]
  /\ shellIn = [id \in Numbers |-> NoDirectory] /\ swarmRequest = NoRequest
  /\ remoteBranch = [p \in Numbers |-> NoRemote]
  /\ pull = [p \in Numbers |-> [state |-> "none", base |-> Workspace]]
  /\ originMain = {} /\ madeIn = [w \in Pieces |-> NotMade] /\ gone = {}
  /\ lineage = [p \in Places |-> {}] /\ gitSteps = 0

GitStep == gitSteps < MaxGitSteps /\ gitSteps' = gitSteps + 1

-----------------------------------------------------------------------------
RegisteredIds == {t.id : t \in ToSet(gitTerminals)}
\* getTentacleWorkspaceCwd: the first terminal of this effective id decides.
CwdIn(terminals, id) ==
  LET first == SelectInSeq(terminals, LAMBDA t : t.effective = id)
  IN IF terminals[first].mode = "worktree" THEN id ELSE Workspace
\* The terminals at these positions of the map, in its order.
TerminalsAt(positions) ==
  LET size == Cardinality(positions)
      at == CHOOSE f \in [1..size -> positions] : \A i, k \in 1..size : i < k => f[i] < f[k]
  IN [i \in 1..size |-> gitTerminals[at[i]]]

\* The commits of a branch.
Tip(p) == IF checkout[p].rebase THEN checkout[p].before ELSE checkout[p].head

\* allocateTerminalId: neither a terminal nor a directory has it.
AllocateTerminalId ==
  Min({n \in Numbers : n \notin RegisteredIds \cup UNION Range(SwarmIds) /\ ~checkout[n].dir})

\* createTerminal: the id asked for if no terminal has it; the directory first, off
\* the base asked for or the workspace's HEAD: a path or a branch that exists, or a
\* base that does not, fails it.  A prompt starts the shell.
\* Bound: a parent has no parent, that of a gone terminal whose id is reused included.
CreateGitTerminal(request) ==
  /\ GitStep /\ Len(gitTerminals) < MaxTerminals
  /\ \E n \in Numbers : n \notin RegisteredIds \cup UNION Range(SwarmIds) /\ ~checkout[n].dir
  /\ request.parent = 0 \/ \E t \in ToSet(gitTerminals) : t.id = request.parent /\ t.parent = 0
  /\ LET id == IF request.id = 0 \/ request.id \in RegisteredIds THEN AllocateTerminalId
               ELSE request.id
         joined == IF request.tentacle = 0 THEN id ELSE request.tentacle
         ownTree == request.mode = "worktree"
         effective == IF request.worktree # 0 THEN request.worktree
                      ELSE IF ownTree THEN id ELSE joined
     IN /\ request.parent # 0 => \A t \in ToSet(gitTerminals) : t.parent # id
        /\ ownTree => ~checkout[effective].dir /\ ~checkout[effective].branch
                        /\ checkout[request.base].branch
        /\ gitTerminals' = Append(gitTerminals,
             [id |-> id, tentacle |-> joined, parent |-> request.parent, effective |-> effective,
              mode |-> request.mode])
        /\ IF ownTree
           THEN /\ checkout' = [checkout EXCEPT ![effective] =
                     [NoCheckout EXCEPT !.dir = TRUE, !.branch = TRUE,
                        !.head = IF request.base = Workspace THEN checkout[Workspace].head
                                 ELSE Tip(request.base)]]
                /\ lineage' = [lineage EXCEPT ![effective] =
                                 {request.base} \cup lineage[request.base]]
           ELSE UNCHANGED <<checkout, lineage>>
        /\ \E cwd \in {NoDirectory, CwdIn(gitTerminals', effective)} :
             /\ cwd # NoDirectory => checkout'[cwd].dir
             /\ shellIn' = [shellIn EXCEPT ![id] = cwd]
  /\ UNCHANGED <<remoteBranch, pull, originMain, madeIn, gone>>

\* The requests of the console and the CLI name no base.
CreateAsked(id, tentacle, worktree, parent, mode) ==
  /\ CreateGitTerminal([id |-> id, tentacle |-> tentacle, worktree |-> worktree,
                        parent |-> parent, mode |-> mode, base |-> Workspace])
  /\ UNCHANGED swarmRequest

\* The swarm route on one open item: no terminal of a swarm of the tentacle; the
\* branch of the tentacle's id if any of its terminals has a worktree.
SwarmBaseRead(tentacle, id, mode) ==
  LET hasWorktree == \E t \in ToSet(gitTerminals) : t.tentacle = tentacle /\ t.mode = "worktree"
  IN /\ GitStep /\ swarmRequest = NoRequest
     /\ id \in SwarmIds[tentacle] /\ SwarmIds[tentacle] \cap RegisteredIds = {}
     /\ swarmRequest' = [id |-> id, tentacle |-> tentacle, parent |-> 0, mode |-> mode,
                         worktree |-> IF mode = "worktree" THEN id ELSE 0,
                         base |-> IF mode = "worktree" /\ hasWorktree THEN tentacle ELSE Workspace]
     /\ UNCHANGED <<gitTerminals, shellIn, checkout, remoteBranch, pull, originMain, historyVars>>
\* The prompt is read; createTerminal may fail it.
SwarmWorkerCreated ==
  /\ swarmRequest # NoRequest /\ swarmRequest' = NoRequest
  /\ \/ CreateGitTerminal(swarmRequest)
     \/ /\ GitStep
        /\ UNCHANGED <<gitTerminals, shellIn, checkout, remoteBranch, pull, originMain, historyVars>>

\* ensureSession: in the directory of the effective id, which has to be there.
StartShell(t) ==
  /\ GitStep /\ shellIn[t.id] = NoDirectory
  /\ checkout[CwdIn(gitTerminals, t.effective)].dir
  /\ shellIn' = [shellIn EXCEPT ![t.id] = CwdIn(gitTerminals, t.effective)]
  /\ UNCHANGED <<gitTerminals, swarmRequest, checkout, remoteBranch, pull, originMain, historyVars>>
AgentShellEnds(t) ==
  /\ GitStep /\ shellIn[t.id] # NoDirectory /\ shellIn' = [shellIn EXCEPT ![t.id] = NoDirectory]
  /\ UNCHANGED <<gitTerminals, swarmRequest, checkout, remoteBranch, pull, originMain, historyVars>>

\* collectTerminalCascade.
GitCascade(t) ==
  <<t>> \o TerminalsAt({i \in DOMAIN gitTerminals : gitTerminals[i].parent = t.id})
WorktreeOf_Tentacle(t) == t.tentacle
\* Which worktree deleteTerminal removes with a terminal.
WorktreeOf(t) == t.effective

\* removeTentacleWorktree of each terminal of the cascade in turn: directory and
\* branch, both forced; a branch on origin stays, no longer an ancestor.
WorktreesOf(terminals) ==
  {WorktreeOf(t) : t \in {u \in ToSet(terminals) : u.mode = "worktree"}}
Rewritten(dirs) ==
  [p \in Numbers |-> IF p \in dirs /\ ~(remoteBranch[p].has \subseteq originMain)
                     THEN [remoteBranch[p] EXCEPT !.rewritten = TRUE] ELSE remoteBranch[p]]
Removed(terminals) ==
  /\ gitTerminals' = TerminalsAt({i \in DOMAIN gitTerminals :
                                    gitTerminals[i] \notin ToSet(terminals)})
  /\ remoteBranch' = Rewritten(WorktreesOf(terminals))
Without(dirs) == [p \in Places |-> IF p \in dirs THEN NoCheckout ELSE checkout[p]]
\* closeSession of each.
ShellsClosed(terminals) ==
  shellIn' = [id \in Numbers |-> IF \E t \in ToSet(terminals) : t.id = id
                                 THEN NoDirectory ELSE shellIn[id]]
\* History: what was done in these directories was to go.
AskedToGo(terminals, more) ==
  gone' = gone \cup more \cup
            {w \in Pieces : \E t \in ToSet(terminals) : t.mode = "worktree" /\ madeIn[w] = t.effective}

DeleteGitTerminal(t) ==
  /\ GitStep
  /\ Removed(GitCascade(t)) /\ ShellsClosed(GitCascade(t)) /\ AskedToGo(GitCascade(t), {})
  /\ checkout' = Without(WorktreesOf(GitCascade(t)))
  /\ UNCHANGED <<swarmRequest, pull, originMain, madeIn, lineage>>
\* git fails to remove the n-th: those before it are gone and it stays, with its
\* directory or with the branch only.
DeleteGitTerminalFails(t, n) ==
  LET done == SubSeq(GitCascade(t), 1, n - 1)
      failing == GitCascade(t)[n]
      p == WorktreeOf(failing)
  IN /\ GitStep /\ n <= Len(GitCascade(t)) /\ failing.mode = "worktree"
     /\ Removed(done) /\ ShellsClosed(SubSeq(GitCascade(t), 1, n))
     /\ \/ checkout' = Without(WorktreesOf(done)) /\ AskedToGo(done, {})
        \/ /\ checkout' = [Without(WorktreesOf(done)) EXCEPT
                             ![p] = [NoCheckout EXCEPT !.branch = TRUE,
                                                       !.head = Tip(p)]]
           /\ AskedToGo(done, {w \in Pieces : madeIn[w] = failing.effective
                                                /\ w \notin Tip(failing.effective)})
     /\ UNCHANGED <<swarmRequest, pull, originMain, madeIn, lineage>>

\* pruneTerminals, of one without a session, leaves the directories.
PruneGitTerminal(t) ==
  /\ GitStep /\ shellIn[t.id] = NoDirectory
  /\ gitTerminals' = TerminalsAt({i \in DOMAIN gitTerminals : gitTerminals[i] # t})
  /\ UNCHANGED <<shellIn, swarmRequest, checkout, remoteBranch, pull, originMain, historyVars>>

-----------------------------------------------------------------------------
\* An agent works in the directory its shell was started in.
AgentWorks(t, w) ==
  LET p == shellIn[t.id]
  IN /\ GitStep /\ madeIn[w] = NotMade /\ p # NoDirectory /\ checkout[p].dir
     /\ madeIn' = [madeIn EXCEPT ![w] = p]
     /\ checkout' = [checkout EXCEPT ![p].dirty = @ \cup {w}]
     /\ UNCHANGED <<servedVars, remoteBranch, pull, originMain, gone, lineage>>
\* It ends a rebase that stopped.
AgentContinues(p) ==
  /\ GitStep /\ checkout[p].rebase
  /\ checkout' = [checkout EXCEPT ![p].rebase = FALSE, ![p].todo = {}, ![p].dirty = {},
                                  ![p].before = {},
                                  ![p].head = @ \cup checkout[p].todo \cup checkout[p].dirty]
  /\ UNCHANGED <<servedVars, remoteBranch, pull, originMain, historyVars>>

OthersPush(w) ==
  /\ GitStep /\ w \notin originMain /\ originMain' = originMain \cup {w}
  /\ UNCHANGED <<servedVars, checkout, remoteBranch, pull, historyVars>>
PullRequestChanges(p, state) ==
  /\ GitStep /\ pull[p].state \in {"open", "draft"} /\ state # pull[p].state
  /\ pull' = [pull EXCEPT ![p].state = state]
  /\ UNCHANGED <<servedVars, checkout, remoteBranch, originMain, historyVars>>

-----------------------------------------------------------------------------
\* resolveWorktreeTentacleContext: the first terminal of the tentacle, if it is
\* of mode "worktree", and the directory of its effective id.
ActsIn(tentacle, p) ==
  LET first == SelectInSeq(gitTerminals, LAMBDA t : t.tentacle = tentacle)
  IN /\ GitStep /\ first # 0 /\ gitTerminals[first].mode = "worktree"
     /\ p = CwdIn(gitTerminals, gitTerminals[first].effective) /\ checkout[p].dir

\* readWorktreeStatus, taken by every action that looks before it acts.
IsDirty(p) == checkout[p].dirty # {} \/ checkout[p].rebase
\* readCurrentBranchPullRequest: a draft is open.
HasOpenPullRequest(p) == p # Workspace /\ pull[p].state \in {"open", "draft"}

\* commitAll: git add --all, conflict markers too.
CommitAll(p) ==
  checkout' = [checkout EXCEPT ![p].head = @ \cup checkout[p].dirty, ![p].dirty = {}]
\* Nothing to commit fails.
CommitWorktree(tentacle, p) ==
  /\ ActsIn(tentacle, p) /\ checkout[p].dirty # {} /\ CommitAll(p)
  /\ UNCHANGED <<servedVars, remoteBranch, pull, originMain, historyVars>>

\* pushCurrentBranch: never with force, and not from the detached head of a rebase.
PushCurrentBranch(p) ==
  /\ ~checkout[p].rebase
  /\ IF p = Workspace
     THEN /\ originMain \subseteq checkout[p].head /\ originMain' = checkout[p].head
          /\ UNCHANGED remoteBranch
     ELSE /\ ~remoteBranch[p].rewritten
          /\ remoteBranch' = [remoteBranch EXCEPT ![p] =
                                [exists |-> TRUE, has |-> checkout[p].head,
                                 from |-> {p} \cup lineage[p], rewritten |-> FALSE]]
          /\ UNCHANGED originMain
PushWorktree(tentacle, p) ==
  /\ ActsIn(tentacle, p) /\ PushCurrentBranch(p)
  /\ UNCHANGED <<servedVars, checkout, pull, historyVars>>

\* A branch of origin that a request may name, and what is on it.
OnOrigin(base) == base # Workspace => remoteBranch[base].exists
OriginHas(base) == IF base = Workspace THEN originMain ELSE remoteBranch[base].has

\* syncWithBase: the commits are rewritten on origin's base, or the rebase stops
\* with one of `todo` in conflict in the worktree, and nothing aborts it.
SyncWithBase(p, base, todo) ==
  LET moved == ~(OriginHas(base) \subseteq checkout[p].head)
  IN /\ OnOrigin(base) /\ (moved \/ todo = {})
     /\ \E conflict \in {{w} : w \in todo} \cup IF todo = {} THEN {{}} ELSE {} :
          checkout' = [checkout EXCEPT ![p].head = (@ \cup OriginHas(base)) \ todo,
                                       ![p].todo = todo \ conflict, ![p].dirty = conflict,
                                       ![p].rebase = todo # {},
                                       ![p].before = IF todo = {} THEN {} ELSE checkout[p].head]
     /\ lineage' = [lineage EXCEPT ![p] = @ \cup IF base = Workspace THEN {}
                                               ELSE remoteBranch[base].from]
     /\ remoteBranch' = IF ~moved THEN remoteBranch
                        ELSE IF p = base /\ p # Workspace
                        THEN [remoteBranch EXCEPT ![p].rewritten = FALSE]
                        ELSE Rewritten({p})
\* syncTentacleWorktree: of a clean worktree only.
SyncWorktree(tentacle, p, base, todo) ==
  /\ ActsIn(tentacle, p) /\ ~IsDirty(p)
  /\ todo \subseteq checkout[p].head \ OriginHas(base) /\ SyncWithBase(p, base, todo)
  /\ UNCHANGED <<servedVars, pull, originMain, madeIn, gone>>

\* createTentaclePullRequest: no open one, no conflicts, and gh wants the branches
\* on origin.
CreatePullRequest(tentacle, p, base) ==
  /\ ActsIn(tentacle, p) /\ p # Workspace /\ ~HasOpenPullRequest(p)
  /\ ~checkout[p].rebase /\ remoteBranch[p].exists /\ base # p /\ OnOrigin(base)
  /\ pull' = [pull EXCEPT ![p] = [state |-> "open", base |-> base]]
  /\ UNCHANGED <<servedVars, checkout, remoteBranch, originMain, historyVars>>

\* mergeCurrentBranchPullRequest: squashed on its base, the branch is kept.
SquashMerge(p) ==
  LET base == pull[p].base
  IN /\ pull' = [pull EXCEPT ![p].state = "merged"]
     /\ IF base = Workspace
        THEN originMain' = originMain \cup remoteBranch[p].has /\ UNCHANGED remoteBranch
        ELSE /\ remoteBranch' = [remoteBranch EXCEPT
                                   ![base].has = @ \cup remoteBranch[p].has,
                                   ![base].from = @ \cup remoteBranch[p].from,
                                   ![base].rewritten = TRUE]
             /\ UNCHANGED originMain
\* mergeTentaclePullRequest: an open one that is no draft.
MergePullRequest(tentacle, p) ==
  /\ ActsIn(tentacle, p) /\ HasOpenPullRequest(p) /\ pull[p].state # "draft" /\ SquashMerge(p)
  /\ UNCHANGED <<servedVars, checkout, historyVars>>

GitRequest(tentacle, p) ==
  \/ CommitWorktree(tentacle, p) \/ PushWorktree(tentacle, p)
  \/ \E base \in AskedIds, todo \in SUBSET (Pieces \cup OtherPieces) :
       SyncWorktree(tentacle, p, base, todo)
PullRequestRequest(tentacle, p) ==
  \/ \E base \in AskedIds : CreatePullRequest(tentacle, p, base)
  \/ MergePullRequest(tentacle, p)

GitNext ==
  \/ \E id, tentacle, worktree, parent \in AskedIds, mode \in {"shared", "worktree"} :
       CreateAsked(id, tentacle, worktree, parent, mode)
  \/ \E tentacle, id \in Numbers, mode \in {"shared", "worktree"} : SwarmBaseRead(tentacle, id, mode)
  \/ SwarmWorkerCreated
  \/ \E t \in ToSet(gitTerminals) :
       \/ StartShell(t) \/ AgentShellEnds(t) \/ DeleteGitTerminal(t) \/ PruneGitTerminal(t)
       \/ \E n \in 1..MaxTerminals : DeleteGitTerminalFails(t, n)
       \/ \E w \in Pieces : AgentWorks(t, w)
  \/ \E w \in OtherPieces : OthersPush(w)
  \/ \E p \in Numbers, state \in {"open", "draft", "closed"} : PullRequestChanges(p, state)
  \/ \E p \in Places : AgentContinues(p)
  \/ \E tentacle \in Numbers, p \in Places :
       GitRequest(tentacle, p) \/ PullRequestRequest(tentacle, p)
GitSpec == GitInit /\ [][GitNext]_gitVars

-----------------------------------------------------------------------------
In(p) == checkout[p].dirty \cup checkout[p].head \cup checkout[p].todo

\* What an agent did stays in the directory it was done in, or on origin's main,
\* until the worktree of that directory is asked to go, whatever else is created,
\* deleted, pruned, synced or merged, and however far a delete gets.  What was done
\* in one directory reaches another only by origin's main, or if the other's branch
\* was started from the first's (a swarm's worker) or synced with it by request,
\* directly or over others: also when a shared terminal with the effective id of a
\* worktree sends shells and git actions elsewhere.
WorkStaysInItsWorktree ==
  \A w \in Pieces :
    /\ madeIn[w] # NotMade /\ w \notin gone => w \in In(madeIn[w]) \cup originMain
    /\ \A p \in Places : w \in In(p) => madeIn[w] \in {p} \cup lineage[p] \/ w \in originMain
=============================================================================
