----------------------------- MODULE CliCapture -----------------------------
(* spawnCliAndCapture of src/apps/api/src/claudeUsage.ts: the Claude CLI is *)
(* run in a terminal, /usage is typed when its screen is ready and what it  *)
(* prints after that is the result.  Five timers, the output and the exit   *)
(* of the process race; the first to finish wins.                           *)
EXTENDS Naturals

(* What the code looks for in the output: the trust question, a ready       *)
(* screen, the header of the usage view, one of its closing lines.          *)
Needles == {"trust", "ready", "usage", "stop"}

VARIABLES
  capPhase,    \* phase
  capBuffer,   \* buffer: the needles in all output so far
  capUsage,    \* usageBuffer: the needles in the output of the last /usage
  capGrace,    \* did the grace period of the last /usage pass
  capSends,    \* usageSendCount
  capReady,    \* the delay between the ready screen and /usage runs
  capRetry,    \* usageRetryTimer is armed
  capSettle,   \* what armed settleTimer: output before, or after, /usage was typed
  capEnters,   \* intervals that press Enter; the code remembers the last
  capResult    \* how the capture finished: done

capVars == <<capPhase, capBuffer, capUsage, capGrace, capSends, capReady, capRetry, capSettle,
             capEnters, capResult>>

CapInit ==
  /\ capPhase = "waiting"
  /\ capBuffer = {} /\ capUsage = {}
  /\ capGrace = TRUE        \* usageSentAt = 0: long ago
  /\ capSends = 0 /\ capEnters = 0
  /\ capReady = FALSE /\ capRetry = FALSE /\ capSettle = "off"
  /\ capResult = "none"

Done == capResult # "none"

(* finish: clears what it knows of, once. *)
Finish(result) ==
  /\ capResult' = IF Done THEN capResult ELSE result
  /\ capSettle' = IF Done THEN capSettle ELSE "off"
  /\ capRetry' = IF Done THEN capRetry ELSE FALSE
  /\ capEnters' = IF ~Done /\ capSends > 0 THEN capEnters - 1 ELSE capEnters

SendUsageCommand ==
  /\ capPhase' = "capturing"
  /\ capUsage' = {} /\ capGrace' = FALSE
  /\ capSends' = capSends + 1
  /\ \/ /\ capEnters' = capEnters + 1
        /\ capRetry' = TRUE
        /\ UNCHANGED <<capSettle, capResult>>
     \/ Finish("failed")       \* the terminal is gone
  /\ UNCHANGED capBuffer

(* onData: some output, with some of the needles; the timer is armed once.  *)
Output(needles) ==
  LET buffer == capBuffer \cup needles
      usage == IF capPhase = "capturing" THEN capUsage \cup needles ELSE capUsage
      becomesReady == "trust" \notin buffer /\ capPhase = "waiting" /\ "ready" \in buffer
      settles == /\ "trust" \notin buffer /\ capPhase = "capturing"
                 /\ capGrace /\ {"usage", "stop"} \subseteq usage
  IN /\ capBuffer' = buffer
     /\ capUsage' = IF becomesReady THEN {} ELSE usage
     /\ capPhase' = IF becomesReady THEN "capturing" ELSE capPhase
     /\ capReady' = (capReady \/ becomesReady)
     /\ capSettle' = IF capSettle # "off" \/ ~settles THEN capSettle
                     ELSE IF capSends = 0 THEN "startup" ELSE "usage"
     /\ UNCHANGED <<capGrace, capSends, capRetry, capEnters, capResult>>

GraceElapses ==
  /\ ~capGrace
  /\ capGrace' = TRUE
  /\ UNCHANGED <<capPhase, capBuffer, capUsage, capSends, capReady, capRetry, capSettle, capEnters,
                 capResult>>

ReadyDelayEnds ==
  /\ capReady
  /\ capReady' = FALSE
  /\ IF ~Done /\ capSends = 0
       THEN SendUsageCommand
       ELSE UNCHANGED <<capPhase, capBuffer, capUsage, capGrace, capSends, capRetry, capSettle,
                        capEnters, capResult>>

(* Slip: the usage view may be there already. *)
RetryTimerEnds_Always ==
  /\ capRetry
  /\ IF ~Done /\ capSends < 2
       THEN SendUsageCommand
       ELSE /\ capRetry' = FALSE
            /\ UNCHANGED <<capPhase, capBuffer, capUsage, capGrace, capSends, capSettle, capEnters,
                           capResult>>
  /\ UNCHANGED capReady

RetryTimerEnds ==
  /\ capRetry
  /\ IF ~Done /\ capSends < 2 /\ "stop" \notin capUsage
       THEN SendUsageCommand
       ELSE /\ capRetry' = FALSE
            /\ UNCHANGED <<capPhase, capBuffer, capUsage, capGrace, capSends, capSettle, capEnters,
                           capResult>>
  /\ UNCHANGED capReady

CaptureEnds(result) ==
  /\ ~Done
  /\ Finish(result)
  /\ UNCHANGED <<capPhase, capBuffer, capUsage, capGrace, capSends, capReady>>

SettleTimerEnds == capSettle # "off" /\ CaptureEnds("settled")
DeadlineOrExit == CaptureEnds("deadline") \/ CaptureEnds("exit")

CapNext ==
  \/ \E needles \in SUBSET Needles : Output(needles)
  \/ GraceElapses \/ ReadyDelayEnds \/ RetryTimerEnds
  \/ SettleTimerEnds \/ DeadlineOrExit

CapSpec == CapInit /\ [][CapNext]_capVars
-----------------------------------------------------------------------------
(* "Capture only the latest /usage render, not the startup shell"           *)
(* (claudeUsage.ts:542): once output after /usage armed the timer that ends *)
(* the capture, what the capture will return holds a usage view, header and *)
(* closing line: no retry types /usage again and empties it meanwhile.      *)
SettlesOnTheUsageView == capSettle = "usage" => {"usage", "stop"} \subseteq capUsage
=============================================================================
