---------------------------- MODULE MCPlanBridge ----------------------------
\* What the bridge does with a plan beside the interview's turns: the components
\* share no state with one another here and are checked in one run, the initial
\* state picks the one whose steps are taken.
EXTENDS PlanImport, PlanHarvest, PlanHandoff, MCPlanPipeline, SessionStream, MCPlanAnswers

VARIABLE subject

planVars == <<importVars, harvestVars, handoffVars, pipelineVars>>
interviewVars == <<streamVars, answerVars>>
bridgeVars == <<subject, planVars, interviewVars>>

\* Harvest: three commits, the second on another branch.
TwoBranches == <<1, 2, 1>>

\* Import: "imports" has one apply at a time and nobody else who writes GOAL.md,
\* "applies" several, the interview, one import, no save and one fault.
OneApply == Cardinality({call \in ApplyCalls : ingestApply[call] # NoApply}) <= 1
ImportsWithin == OneApply /\ importCounts.goals = 0
AppliesWithin == importCounts.imports <= 1 /\ importCounts.saves = 0 /\ importCounts.faults <= 1

\* Answers: a decision or an item of Claude's meets two calls; three meet one another.
AnswersWithin ==
  \/ answerCounts.decisions + answerCounts.parks = 0
  \/ answerCounts.decisions + answerCounts.parks = 1 /\ answerCounts.calls <= 2

BridgeInit ==
  /\ subject \in {"imports", "applies", "harvest", "handoff", "pipeline", "stream", "answers"}
  /\ ImportInit /\ HarvestInit /\ HandoffInit /\ PipelineInit
  /\ StreamInit /\ AnswersInit
  /\ subject # "pipeline" => activeDecisions = Unordered /\ deckTentacles = << >>

ButImport == <<subject, harvestVars, handoffVars, pipelineVars, interviewVars>>
ButHarvest == <<subject, importVars, handoffVars, pipelineVars, interviewVars>>
ButHandoff == <<subject, importVars, harvestVars, pipelineVars, interviewVars>>
ButPipeline == <<subject, importVars, harvestVars, handoffVars, interviewVars>>
ButStream == <<subject, planVars, answerVars>>
ButAnswers == <<subject, planVars, streamVars>>

BridgeNext ==
  \/ subject = "imports" /\ ImportNext /\ ImportsWithin' /\ UNCHANGED ButImport
  \/ subject = "applies" /\ ImportNext /\ AppliesWithin' /\ UNCHANGED ButImport
  \/ subject = "harvest" /\ HarvestNext /\ UNCHANGED ButHarvest
  \/ subject = "handoff" /\ HandoffNext /\ UNCHANGED ButHandoff
  \/ subject = "pipeline" /\ PipelineNext /\ UNCHANGED ButPipeline
  \/ subject = "stream" /\ StreamNext /\ UNCHANGED ButStream
  \/ subject = "answers" /\ AnswersNext /\ AnswersWithin' /\ UNCHANGED ButAnswers

BridgeSpec == BridgeInit /\ [][BridgeNext]_bridgeVars
=============================================================================
