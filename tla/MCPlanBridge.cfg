\* Two imports or two applies at once, three commits over logs of one and two, five
\* handoff requests, two interviews with a question Q1 each.
SPECIFICATION BridgeSpec
CONSTANTS
  Titles = {t1, t2}
  GoalTitles = {t2}
  ApplyCalls = {a1, a2}
  MaxImports = 2
  MaxSaves = 1
  MaxGoalWrites = 1
  MaxImportFaults = 2
  MaxCopies = 2
  HarvestTitles = {h1, h2}
  MaxCommits = 3
  BranchOf <- TwoBranches
  FirstRunCommits = 1
  HarvestMaxCommits = 2
  MaxHarvestPerRun = 2
  MaxCandidates = 2
  MaxResolves = 2
  MaxHarvestFaults = 1
  MaxHandoffs = 5
  MaxHandoffFaults = 2
  build = build
  ship = ship
  suite = suite
  aim = aim
  parser = parser
  screen = screen
  web = web
  api = api
  Stems <- TextWords
  Cites <- TextCites
  TitleIds <- TextTitles
  Mentions <- TextMentions
  CheckableTexts = {build, ship, suite}
  GateTexts = {ship}
  GenericTexts = {suite}
  PlanDecisions <- SomeDecisions
  DeckStates <- SomeDecks
  Proposals <- SomeProposals
  GoalInputs <- SomeGoals
  MaxStages = 4
  MaxPlanEdits = 2
  Viewers = {1}
  RoundIds = {1, 2}
  QuietStatus = {"running"}
  MaxBroadcasts = 6
  MaxStreamFaults = 2
  s1 = s1
  s2 = s2
  z1 = z1
  interviewA = interviewA
  interviewB = interviewB
  Questions = {s1, s2, z1}
  SessionOf <- AskedIn
  NumberOf <- IdsOf
  NoQuestion = NoQuestion
  RoundAnswers <- TwoRounds
  DecisionIds = {d1}
  MaxCallsAtOnce = 2
  MaxAnswerCalls = 3
  MaxDecisionWrites = 1
  MaxParks = 1
  MaxAnswerFaults = 1
INVARIANTS
  StatusIsTrue
  HarvestedOnce
  HandsOverTheLastSave
  HandoffCarriesTheWork
  CaughtUpPagesShowTheSession
  RoundsKeepTheirNumbers
  FollowUpsMatchTheLog
  RevisionsLeaveNoActiveDecision
CHECK_DEADLOCK FALSE
