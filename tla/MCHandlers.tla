----------------------------- MODULE MCHandlers -----------------------------
\* The handlers, pages and operations that share no state with one another,
\* checked in one run: the initial state picks the component whose steps are taken.
EXTENDS MCDeckTentacles, UsageCache, CliCapture, MonitorService, OctogentLaunch,
        TentacleGit, PersistedUiState, ConversationsView, TerminalScreen

VARIABLE subject

agentServiceVars == <<deckVars, usageVars, capVars, monitorVars, launchVars>>
consoleVars == <<gitVars, uiVars, viewVars, screenVars>>
allVars == <<subject, agentServiceVars, consoleVars>>

\* Git: one swarm worker, of the first tentacle.
OneSwarm == [t \in 1..MaxTerminals + 1 |-> IF t = 1 THEN {2} ELSE {}]

HandlersInit ==
  /\ subject \in {"deck agents", "deck exports", "usage", "capture", "monitor", "launch",
                  "git", "ui", "view", "screen"}
  /\ DeckInit /\ CapInit /\ GitInit /\ ScreenInit
  /\ UsageInit /\ (subject # "usage" => usageFile = 0)
  /\ MonitorInit
  /\ subject # "monitor" => monitorConfig = [terms |-> NoTerms, credentials |-> FALSE]
  /\ LaunchInit /\ (subject # "launch" => ~projectJson)
  /\ UiInit /\ (subject # "ui" => savedUi = NothingSaved)
  /\ ViewInit /\ (subject # "view" => transcripts = <<CHOOSE c \in Conversations : TRUE>>)

ButDeck == <<subject, usageVars, capVars, monitorVars, launchVars, consoleVars>>
ButUsage == <<subject, deckVars, capVars, monitorVars, launchVars, consoleVars>>
ButCapture == <<subject, deckVars, usageVars, monitorVars, launchVars, consoleVars>>
ButMonitor == <<subject, deckVars, usageVars, capVars, launchVars, consoleVars>>
ButLaunch == <<subject, deckVars, usageVars, capVars, monitorVars, consoleVars>>
ButGit == <<subject, uiVars, viewVars, screenVars, agentServiceVars>>
ButUi == <<subject, gitVars, viewVars, screenVars, agentServiceVars>>
ButView == <<subject, gitVars, uiVars, screenVars, agentServiceVars>>
ButScreen == <<subject, gitVars, uiVars, viewVars, agentServiceVars>>

\* The lines people add are left to "deck agents": no export looks at their keys.
OnlyPlanLines == \A i \in DOMAIN todoFile : todoFile[i].line \in PlanLines

HandlersNext ==
  \/ subject = "deck agents" /\ (DeckEdits \/ DeckAgentSteps) /\ UNCHANGED ButDeck
  \/ subject = "deck exports" /\ (DeckEdits \/ DeckExportSteps) /\ OnlyPlanLines'
     /\ UNCHANGED ButDeck
  \/ subject = "usage" /\ UsageNext /\ UNCHANGED ButUsage
  \/ subject = "capture" /\ CapNext /\ UNCHANGED ButCapture
  \/ subject = "monitor" /\ MonitorNext /\ UNCHANGED ButMonitor
  \/ subject = "launch" /\ LaunchNext /\ UNCHANGED ButLaunch
  \/ subject = "git" /\ GitNext /\ UNCHANGED ButGit
  \/ subject = "ui" /\ UiNext /\ UNCHANGED ButUi
  \/ subject = "view" /\ ViewNext /\ UNCHANGED ButView
  \/ subject = "screen" /\ ScreenNext /\ UNCHANGED ButScreen

HandlersSpec == HandlersInit /\ [][HandlersNext]_allVars
=============================================================================
