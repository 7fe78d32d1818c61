----------------------------- MODULE UsageCache -----------------------------
(* The cache of Claude's usage numbers (src/apps/api/src/claudeUsage.ts):   *)
(* reads answer from the cache, or from the file of the last good numbers,  *)
(* and leave the refresh to the background, one at a time; a hook of an     *)
(* agent that starts or stops invalidates the cache (miscRoutes.ts).  Two   *)
(* routes refresh by themselves, outside that rule.                         *)
EXTENDS Naturals, FiniteSets

CONSTANTS
  UsageReads,        \* GET /api/claude/usage, and the reads of hooks
  Refreshes,         \* refreshes that may run at once
  NoRefresh,
  UsageTtl,          \* CACHE_TTL_MS
  MaxUsageTime,      \* bound of the model: the clock
  MaxInvalidations   \* bound of the model: hooks

ASSUME UsageAssumption ==
  /\ UsageTtl \in Nat /\ MaxUsageTime \in Nat /\ MaxInvalidations \in Nat
  /\ NoRefresh \notin Refreshes /\ IsFiniteSet(Refreshes)

NoNumbers == [taken |-> 0, at |-> 0]

VARIABLES
  usageClock,          \* starts at UsageTtl: what is cached as of time 0 is stale
  usageCache,          \* cachedSnapshot: when its numbers were taken, fetchedAt
  usageFile,           \* claude-usage.json: when its numbers were taken, 0 for no file
  usageInFlight,       \* refreshInFlight
  usageRefresh,        \* where each refresh stands, when it began, whose it is
  usageRead,           \* which reads wait for the file
  usageInvalidations   \* how often the cache was invalidated

usageVars == <<usageClock, usageCache, usageFile, usageInFlight, usageRefresh, usageRead,
               usageInvalidations>>

NotRunning == [at |-> "idle", now |-> 0, tracked |-> FALSE]

UsageInit ==
  /\ usageClock = UsageTtl
  /\ usageCache = NoNumbers
  /\ usageFile \in {0, 1}
  /\ usageInFlight = NoRefresh
  /\ usageRefresh = [f \in Refreshes |-> NotRunning]
  /\ usageRead = [r \in UsageReads |-> "idle"]
  /\ usageInvalidations = 0

UsageTick ==
  /\ usageClock < MaxUsageTime
  /\ usageClock' = usageClock + 1
  /\ UNCHANGED <<usageCache, usageFile, usageInFlight, usageRefresh, usageRead, usageInvalidations>>
-----------------------------------------------------------------------------
Cached == usageCache.taken > 0
FreshEnough == Cached /\ usageClock - usageCache.at < UsageTtl

(* A refresh that a slot of the model is free for. *)
Begins(f, step, tracked) ==
  /\ usageRefresh[f].at = "idle"
  /\ usageRefresh' = [usageRefresh EXCEPT ![f] =
       [at |-> step, now |-> usageClock, tracked |-> tracked]]

(* Slip: the refresh in flight is not looked at. *)
StartBackgroundRefresh_Always ==
  \E f \in Refreshes : Begins(f, "cli", TRUE) /\ usageInFlight' = f

StartBackgroundRefresh ==
  IF usageInFlight # NoRefresh
    THEN UNCHANGED <<usageInFlight, usageRefresh>>
    ELSE \E f \in Refreshes : Begins(f, "cli", TRUE) /\ usageInFlight' = f

(* readClaudeUsageSnapshot: from the cache, or after the file was read.     *)
ReadUsage(r) ==
  /\ usageRead[r] = "idle"
  /\ \/ /\ FreshEnough
        /\ UNCHANGED <<usageRead, usageInFlight, usageRefresh>>
     \/ /\ Cached /\ ~FreshEnough
        /\ StartBackgroundRefresh
        /\ UNCHANGED usageRead
     \/ /\ ~Cached
        /\ usageRead' = [usageRead EXCEPT ![r] = "file"]
        /\ UNCHANGED <<usageInFlight, usageRefresh>>
  /\ UNCHANGED <<usageClock, usageCache, usageFile, usageInvalidations>>

(* The file's numbers replace what a refresh may have cached meanwhile.     *)
ReadUsageGoesOn(r) ==
  /\ usageRead[r] = "file"
  /\ usageCache' = IF usageFile > 0 THEN [taken |-> usageFile, at |-> 0] ELSE usageCache
  /\ StartBackgroundRefresh
  /\ usageRead' = [usageRead EXCEPT ![r] = "idle"]
  /\ UNCHANGED <<usageClock, usageFile, usageInvalidations>>

(* The hooks session-start and stop: invalidateUsageCache, then a read.     *)
HookInvalidates(r) ==
  /\ usageInvalidations < MaxInvalidations
  /\ usageRead[r] = "idle"
  /\ usageCache' = NoNumbers
  /\ usageInFlight' = NoRefresh
  /\ usageRead' = [usageRead EXCEPT ![r] = "file"]
  /\ usageInvalidations' = usageInvalidations + 1
  /\ UNCHANGED <<usageClock, usageFile, usageRefresh>>

(* GET /api/claude/usage/cli and /oauth. *)
RefreshesDirectly(f) ==
  /\ \E step \in {"cli", "oauth"} : Begins(f, step, FALSE)
  /\ UNCHANGED <<usageClock, usageCache, usageFile, usageInFlight, usageRead, usageInvalidations>>

(* cacheOkSnapshot, up to the write of the file. *)
CacheOk(f) ==
  /\ usageCache' = [taken |-> usageRefresh[f].now, at |-> usageClock]
  /\ usageRefresh' = [usageRefresh EXCEPT ![f].at = "file"]
  /\ UNCHANGED <<usageClock, usageFile, usageInFlight, usageRead, usageInvalidations>>

(* finally: whichever refresh is in flight, it is forgotten. *)
RefreshEnds(f) ==
  /\ usageRefresh' = [usageRefresh EXCEPT ![f] = NotRunning]
  /\ usageInFlight' = IF usageRefresh[f].tracked THEN NoRefresh ELSE usageInFlight
  /\ UNCHANGED <<usageClock, usageCache, usageRead, usageInvalidations>>

(* The capture yields numbers, or the OAuth API is asked instead.           *)
CliAnswers(f) ==
  /\ usageRefresh[f].at = "cli"
  /\ \/ CacheOk(f)
     \/ /\ usageRefresh[f].tracked
        /\ usageRefresh' = [usageRefresh EXCEPT ![f].at = "oauth"]
        /\ UNCHANGED <<usageClock, usageCache, usageFile, usageInFlight, usageRead,
                       usageInvalidations>>
     \/ ~usageRefresh[f].tracked /\ RefreshEnds(f) /\ UNCHANGED usageFile

OauthAnswers(f) ==
  /\ usageRefresh[f].at = "oauth"
  /\ CacheOk(f) \/ (RefreshEnds(f) /\ UNCHANGED usageFile)

PersistOkSnapshot(f) ==
  /\ usageRefresh[f].at = "file"
  /\ usageFile' = usageRefresh[f].now
  /\ RefreshEnds(f)

UsageNext ==
  \/ UsageTick
  \/ \E r \in UsageReads : ReadUsage(r) \/ ReadUsageGoesOn(r) \/ HookInvalidates(r)
  \/ \E f \in Refreshes :
       \/ RefreshesDirectly(f)
       \/ CliAnswers(f) \/ OauthAnswers(f) \/ PersistOkSnapshot(f)

UsageSpec == UsageInit /\ [][UsageNext]_usageVars
-----------------------------------------------------------------------------
(* "prevents rate-limit storms" (claudeUsage.ts:881): the reads start one   *)
(* refresh at a time, but each invalidation forgets the one in flight, and  *)
(* a forgotten one forgets its successor when it ends.  However they race,  *)
(* the refreshes at work are at most one more than the invalidations.       *)
Tracked == {f \in Refreshes : usageRefresh[f].tracked}

RefreshesAreFew == Cardinality(Tracked) <= usageInvalidations + 1
=============================================================================
