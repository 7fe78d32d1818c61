---------------------------- MODULE PlanPipeline ----------------------------
(***************************************************************************)
(* From the goal to the handoff (octoplan/server/modes): Claude writes     *)
(* GOAL.md, its definition of done and goals are cut into build stages, by *)
(* the waves the active decisions define or into chunks, the stages are    *)
(* written file by file, and a handoff turns what they list under "Done    *)
(* when" into todos of tentacles, which the wizard may save again.  Texts  *)
(* are values; what the code matches in them is given by the constants.    *)
(***************************************************************************)
EXTENDS Naturals, FiniteSets, FiniteSetsExt, SequencesExt, Positions

CONSTANTS
  Stems,          \* text of a goal or done item, decision, wave item -> its stemmed words
  Cites,          \* text -> the ids of decisions it names
  TitleIds,       \* text -> slugId of the short title made of it, <<"title", n>>
  Mentions,       \* text, decision or wave item -> the folders it names
  CheckableTexts, GateTexts, GenericTexts,   \* those that match the three patterns
  PlanDecisions,  \* bound: sets of active decisions
  DeckStates,     \* bound: sequences of the tentacles in the workspace, [id, owns]
  Proposals,      \* bound: the tentacles Claude proposes
  GoalInputs,     \* bound: the goals Claude writes, [goals, done]
  MaxStages, MaxPlanEdits   \* bounds: stage files, changes of the plan

\* What Claude writes and what the deck holds are lists.
Texts == DOMAIN Cites
Waves == [number : Nat, items : Seq(DOMAIN Stems)]
Decisions == [id : Nat, deps : SUBSET Nat, waves : Seq(Waves)]
IsList(s) == s \in Seq(ToSet(s))
ASSUME PipelineAssumption ==
  /\ \A active \in PlanDecisions :
       /\ active \subseteq Decisions /\ IsFiniteSet(active)
       /\ \A d, e \in active : d.id = e.id => d = e
  /\ GoalInputs \subseteq [goals : Seq(Texts), done : Seq(Texts)]
  /\ \A tentacles \in DeckStates : IsList(tentacles)
  /\ \A proposed \in Proposals : IsList(proposed) /\ \A t \in ToSet(proposed) : IsList(t.todos)
  /\ MaxStages \in Nat

VARIABLES
  planGoal,       \* GOAL.md
  activeDecisions,
  stageFiles,     \* docs/plan/stages: index -> stage, or NoStage
  stageWriter,    \* the generateStages under way: files to write and to remove
  stagesWork,     \* history: the work the files carry, {} when they are a mixture
  deckTentacles,  \* the tentacles in the workspace
  handoffDraft,   \* HANDOFF.md
  handedWork,     \* history: the work of the stages it was made of
  planEdits

pipelineVars == <<planGoal, activeDecisions, stageFiles, stageWriter, stagesWork, deckTentacles,
                  handoffDraft, handedWork, planEdits>>

MaxBuildStages == 4
NoGoalDoc == [goals |-> << >>, done |-> << >>]
NoStage == [title |-> <<"none", 0>>, items |-> << >>, decisionIds |-> {}, mentions |-> {}]
NoStageWriter == [at |-> "idle", write |-> << >>, remove |-> {}, work |-> {}]
NoHandoffDraft == [source |-> "none", tentacles |-> << >>]
StageIndexes == 1..MaxStages

WordsOf(texts) == UNION {Stems[t] : t \in texts}
CitedBy(texts) == UNION {Cites[t] : t \in texts}
MentionedBy(texts) == UNION {Mentions[t] : t \in texts}

-----------------------------------------------------------------------------
\* buildGoalDoc: texts once each; a goal without a checkable definition of done
\* is refused, and Claude is asked to call again.
BuildGoalDoc(input) == [goals |-> Dedupe(input.goals), done |-> Dedupe(input.done)]
WriteGoal(input) ==
  /\ planEdits < MaxPlanEdits /\ planEdits' = planEdits + 1
  /\ input.done # << >> /\ ToSet(input.done) \subseteq CheckableTexts
  /\ planGoal' = BuildGoalDoc(input)
  /\ UNCHANGED <<activeDecisions, stageFiles, stageWriter, stagesWork, deckTentacles, handoffDraft,
                 handedWork>>

DecisionsChange(decisions) ==
  /\ planEdits < MaxPlanEdits /\ planEdits' = planEdits + 1
  /\ decisions # activeDecisions /\ activeDecisions' = decisions
  /\ UNCHANGED <<planGoal, stageFiles, stageWriter, stagesWork, deckTentacles, handoffDraft,
                 handedWork>>

-----------------------------------------------------------------------------
\* withDependsOn, below its cap of twelve.
Ids(active) == {d.id : d \in active}
WithDependsOn(ids, active) ==
  LET direct == {d \in active : d.id \in ids}
  IN Ids(active) \cap (Ids(direct) \cup UNION {d.deps : d \in direct})
RelevantIds(texts, active) ==
  LET alike == {d \in active : Stems[d.id] \cap WordsOf(texts) # {}}
  IN IF CitedBy(texts) \cap Ids(active) # {} THEN WithDependsOn(CitedBy(texts), active)
     ELSE IF alike # {} THEN Ids(alike) ELSE Ids(active)

\* parseWaves: by number, the definition in the last decision counts.
PlanWaves[active \in PlanDecisions] ==
  LET ids == Ascending(Ids(active))
      ordered == [k \in DOMAIN ids |-> CHOOSE d \in active : d.id = ids[k]]
      lines == FlattenSeq([k \in DOMAIN ordered |-> ordered[k].waves])
      numbers == Ascending({w.number : w \in ToSet(lines)})
      last(number) == Max({k \in DOMAIN lines : lines[k].number = number})
  IN [i \in DOMAIN numbers |-> lines[last(numbers[i])]]

\* The decisions whose title has two words of an item of the wave, or its only one.
Named(wave, active) ==
  {d.id : d \in {e \in active : \E item \in ToSet(wave.items) :
     /\ Stems[item] # {}
     /\ Cardinality(Stems[item] \cap Stems[e.id]) >= IF Cardinality(Stems[item]) = 1 THEN 1 ELSE 2}}

\* bestWave: the first of the waves with the greatest score, 0 when none reaches 2.
Score(text, wave, active) ==
  Cardinality(Stems[text] \cap WordsOf(ToSet(wave.items)))
    + 2 * Cardinality(Cites[text] \cap Named(wave, active))
FirstBest(scores) ==
  LET best == {i \in DOMAIN scores :
                 scores[i] > 1 /\ \A k \in DOMAIN scores : scores[k] <= scores[i]}
  IN IF best = {} THEN 0 ELSE Min(best)
BestWaves(texts, waves, active) ==
  [t \in texts |-> FirstBest([i \in DOMAIN waves |-> Score(t, waves[i], active)])]

\* What a stage's prompt names: in its own part, its decisions and the goals.
StageOf(title, items, decisionIds, said, goal) ==
  [title |-> title, items |-> items, decisionIds |-> decisionIds,
   mentions |-> MentionedBy(said \cup decisionIds \cup ToSet(goal.goals))]

\* chunkSpecs: contiguous parts of the definition of done, as even as can be.
ChunkStages(goal, active) ==
  LET n == Len(goal.done)
      count == Min({n, MaxBuildStages})
      end(i) == i * (n \div count) + Min({i, n % count})
      items(i) == Only(goal.done, {k \in DOMAIN goal.done : end(i - 1) < k /\ k <= end(i)})
  IN [i \in 1..count |-> StageOf(TitleIds[items(i)[1]], items(i),
                                 RelevantIds(ToSet(items(i)), active), ToSet(items(i)), goal)]

\* waveSpecs: what no wave scores on goes to one more stage, what only a
\* finished product can pass waits for the last one.
WaveStages(goal, active, waves, best) ==
  LET in(i) == {t \in DOMAIN best : best[t] = i}
      goals(i) == Of(goal.goals, in(i))
      done(i) == Of(goal.done, in(i) \ GateTexts)
      \* A decision that a goal cites goes to the first wave naming it, else with the goal.
      namedAt(id) == SelectInSeq(waves, LAMBDA w : id \in Named(w, active))
      sentTo(i) == {id \in CitedBy(ToSet(goal.goals)) :
                      \/ i > 0 /\ namedAt(id) = i
                      \/ namedAt(id) = 0 /\ id \in CitedBy(ToSet(goals(i)))}
      ids(i) == sentTo(i) \cup CitedBy(ToSet(done(i)))
      ofWave(i) == StageOf(<<"wave", waves[i].number>>, done(i) \o goals(i),
                           WithDependsOn(ids(i) \cup Named(waves[i], active), active),
                           ToSet(done(i)) \cup ToSet(waves[i].items), goal)
      rest == done(0) \o goals(0)
      leftover == StageOf(<<"remaining", 0>>, rest,
                          IF ids(0) = {} THEN RelevantIds(ToSet(rest), active)
                          ELSE WithDependsOn(ids(0), active), ToSet(rest), goal)
  IN [i \in DOMAIN waves |-> ofWave(i)] \o IF rest = << >> THEN << >> ELSE <<leftover>>

FinalStage(goal, active, waves) ==
  LET gates == Of(goal.done, GateTexts)
      checked == IF waves = << >> \/ gates = << >> THEN goal.done ELSE gates
  IN StageOf(<<"final", 0>>, goal.done, RelevantIds(ToSet(checked), active), ToSet(goal.done), goal)

BuildStages(goal, active) ==
  LET waves == PlanWaves[active]
      texts == ToSet(goal.goals) \cup ToSet(goal.done)
  IN Append(IF waves = << >> THEN ChunkStages(goal, active)
            ELSE WaveStages(goal, active, waves, BestWaves(texts, waves, active)),
            FinalStage(goal, active, waves))
\* What there is to do: in chunks the goals are context only.
WorkToDo ==
  (ToSet(planGoal.done)
     \cup IF PlanWaves[activeDecisions] = << >> THEN {} ELSE ToSet(planGoal.goals)) \ GenericTexts

\* generateStages: without a goal it fails; buildStages throws without a definition of done.
GenerateStages ==
  /\ stageWriter = NoStageWriter /\ planGoal.done # << >>
  /\ LET stages == BuildStages(planGoal, activeDecisions)
     IN /\ Len(stages) <= MaxStages
        /\ stageWriter' = [at |-> "writing", write |-> stages,
                           remove |-> StageIndexes \ DOMAIN stages, work |-> WorkToDo]
  /\ stagesWork' = {}
  /\ UNCHANGED <<planGoal, activeDecisions, stageFiles, deckTentacles, handoffDraft, handedWork,
                 planEdits>>

\* writeStages: the files are written side by side, the others then removed.
StageWritten(i) ==
  /\ stageWriter.at = "writing" /\ i \in DOMAIN stageWriter.write
  /\ stageFiles[i] # stageWriter.write[i]
  /\ stageFiles' = [stageFiles EXCEPT ![i] = stageWriter.write[i]]
  /\ UNCHANGED <<planGoal, activeDecisions, stageWriter, stagesWork, deckTentacles, handoffDraft,
                 handedWork, planEdits>>
LeftoversRemoved ==
  /\ stageWriter.at = "writing"
  /\ \A i \in DOMAIN stageWriter.write : stageFiles[i] = stageWriter.write[i]
  /\ stageFiles' = [i \in StageIndexes |-> IF i \in stageWriter.remove THEN NoStage
                                           ELSE stageFiles[i]]
  /\ stagesWork' = stageWriter.work /\ stageWriter' = NoStageWriter
  /\ UNCHANGED <<planGoal, activeDecisions, deckTentacles, handoffDraft, handedWork, planEdits>>
\* A write fails, or the server dies: the files are left as they are.
WriteStagesFails ==
  /\ stageWriter.at = "writing" /\ stageWriter' = NoStageWriter
  /\ UNCHANGED <<planGoal, activeDecisions, stageFiles, stagesWork, deckTentacles, handoffDraft,
                 handedWork, planEdits>>

-----------------------------------------------------------------------------
\* Tentacles are made and deleted on the deck.
DeckChanges(tentacles) ==
  /\ planEdits < MaxPlanEdits /\ planEdits' = planEdits + 1
  /\ tentacles # deckTentacles /\ deckTentacles' = tentacles
  /\ UNCHANGED <<planGoal, activeDecisions, stageFiles, stageWriter, stagesWork, handoffDraft,
                 handedWork>>

ReadStages == Only(stageFiles, {i \in StageIndexes : stageFiles[i] # NoStage})

\* stageDoneItems: nothing but generic lines leaves the stage's own goal.
StageDoneItems(stage) ==
  LET items == Of(stage.items, ToSet(stage.items) \ GenericTexts)
  IN IF items = << >> THEN <<(<<"goal of", stage.title>>)>> ELSE items

\* Slip: an item counts as seen in its own stage only.
StageTodos_PerStage(stages, i) ==
  LET texts == Dedupe(StageDoneItems(stages[i]))
  IN [k \in DOMAIN texts |-> [text |-> texts[k], wave |-> stages[i].title]]

\* The last stage repeats the whole definition of done: each item lands once, in
\* its earliest stage.
StageTodos(stages, i) ==
  LET items == StageDoneItems(stages[i])
      seen == UNION {ToSet(StageDoneItems(stages[k])) : k \in 1..(i - 1)}
      texts == Dedupe(Of(items, ToSet(items) \ seen))
  IN [k \in DOMAIN texts |-> [text |-> texts[k], wave |-> stages[i].title]]

\* fallbackHandoff: a stage that names a folder of an existing tentacle is its work.
Tentacle(id, owns, existing, todos) ==
  [id |-> id, owns |-> owns, existing |-> existing, todos |-> todos]
FallbackHandoff(stages) ==
  LET named(i) == {d \in DOMAIN deckTentacles : deckTentacles[d].owns \cap stages[i].mentions # {}}
      owner(i) == IF named(i) = {} THEN 0 ELSE Min(named(i))
      share(d) == FlattenSeq([i \in DOMAIN stages |->
                                IF owner(i) = d THEN StageTodos(stages, i) ELSE << >>])
      old == [d \in DOMAIN deckTentacles |->
                Tentacle(deckTentacles[d].id, deckTentacles[d].owns, TRUE, share(d))]
      new == [i \in DOMAIN stages |->
                Tentacle(stages[i].title, {}, FALSE,
                         IF owner(i) = 0 THEN StageTodos(stages, i) ELSE << >>)]
  IN old \o Of(new, {t \in ToSet(new) : t.todos # << >>})

\* normalizeHandoff: one tentacle per id with the todos of all of them, a todo
\* once per wave; a tentacle without todos only when it exists.
NormalizeHandoff(tentacles) ==
  LET ids == Dedupe([i \in DOMAIN tentacles |-> tentacles[i].id])
      owns(id) == UNION {t.owns : t \in {u \in ToSet(tentacles) : u.id = id}}
      todos(id) == FlattenSeq([i \in DOMAIN tentacles |->
                                 IF tentacles[i].id = id THEN tentacles[i].todos ELSE << >>])
      found(id) == {t \in ToSet(deckTentacles) : t.id = id}
      merged(id) == Tentacle(id,
                             IF owns(id) = {} THEN UNION {t.owns : t \in found(id)} ELSE owns(id),
                             found(id) # {}, Dedupe(todos(id)))
      all == [k \in DOMAIN ids |-> merged(ids[k])]
  IN Of(all, {t \in ToSet(all) : t.todos # << >> \/ t.existing})

\* generateHandoff: Claude proposes, or fails to, and nothing proposed is the stages.
GenerateHandoff(proposed) ==
  /\ planGoal # NoGoalDoc
  /\ LET usable == NormalizeHandoff(proposed)
     IN IF usable # << >>
        THEN handoffDraft' = [source |-> "claude", tentacles |-> usable]
        ELSE handoffDraft' = [source |-> "fallback",
                              tentacles |-> NormalizeHandoff(FallbackHandoff(ReadStages))]
  /\ handedWork' = stagesWork
  /\ UNCHANGED <<planGoal, activeDecisions, stageFiles, stageWriter, stagesWork, deckTentacles,
                 planEdits>>

\* saveHandoff of the draft as it is.
SaveHandoff ==
  /\ handoffDraft # NoHandoffDraft
  /\ handoffDraft' = [handoffDraft EXCEPT !.tentacles = NormalizeHandoff(@)]
  /\ UNCHANGED <<planGoal, activeDecisions, stageFiles, stageWriter, stagesWork, deckTentacles,
                 handedWork, planEdits>>

PipelineInit ==
  /\ planGoal = NoGoalDoc /\ activeDecisions \in PlanDecisions /\ deckTentacles \in DeckStates
  /\ stageFiles = [i \in StageIndexes |-> NoStage] /\ stageWriter = NoStageWriter
  /\ stagesWork = {} /\ handoffDraft = NoHandoffDraft /\ handedWork = {} /\ planEdits = 0

PipelineNext ==
  \/ \E input \in GoalInputs : WriteGoal(input)
  \/ \E decisions \in PlanDecisions : DecisionsChange(decisions)
  \/ \E tentacles \in DeckStates : DeckChanges(tentacles)
  \/ GenerateStages \/ LeftoversRemoved \/ WriteStagesFails
  \/ \E i \in StageIndexes : StageWritten(i)
  \/ \E proposed \in Proposals : GenerateHandoff(proposed)
  \/ SaveHandoff
PipelineSpec == PipelineInit /\ [][PipelineNext]_pipelineVars

-----------------------------------------------------------------------------
Todos(tentacles) ==
  UNION {{i} \X DOMAIN tentacles[i].todos : i \in DOMAIN tentacles}
\* A handoff made of complete stages carries every goal and done item of theirs
\* that is not worded like a generic check, as one todo of one tentacle, and
\* still does after saves and whatever was made or deleted on the deck between;
\* no two tentacles of a handoff, Claude's too, have one id.
HandoffCarriesTheWork ==
  LET tentacles == handoffDraft.tentacles
  IN /\ \A i, j \in DOMAIN tentacles : tentacles[i].id = tentacles[j].id => i = j
     /\ handoffDraft.source = "fallback" =>
          \A t \in handedWork :
            Cardinality({at \in Todos(tentacles) : tentacles[at[1]].todos[at[2]].text = t}) = 1
=============================================================================
