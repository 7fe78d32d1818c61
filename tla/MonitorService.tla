--------------------------- MODULE MonitorService ---------------------------
(* The monitor of posts on X (src/apps/api/src/monitor/service.ts).  A read *)
(* of the feed takes the configuration and the cache, both files, and       *)
(* writes the cache after its fetch; a patch of the configuration reads it, *)
(* waits for its credentials to be validated and writes it whole.           *)
EXTENDS Naturals

CONSTANTS
  Terms,            \* lists of query terms; the empty list is NoTerms
  NoTerms,
  FeedReads,        \* GET /api/monitor/feed, POST /api/monitor/refresh
  ConfigPatches,    \* PATCH /api/monitor/config
  MaxCacheAge,      \* refreshPolicy.maxCacheAgeMs
  MaxMonitorTime    \* bound of the model: the clock

ASSUME MonitorAssumption ==
  /\ NoTerms \in Terms /\ MaxCacheAge \in Nat /\ MaxMonitorTime \in Nat

VARIABLES
  monitorClock,     \* starts at 1: 0 stands for "never"
  monitorConfig,    \* the file of the configuration
  monitorCache,     \* the file of the cache: what it says of its posts, and
                    \* for which terms and when they were really fetched
  feedRead,         \* what each read of the feed waits with
  configPatch       \* what each patch waits with

monitorVars == <<monitorClock, monitorConfig, monitorCache, feedRead, configPatch>>

Config == [terms : Terms, credentials : BOOLEAN]
Cache == [terms : Terms, at : Nat, error : BOOLEAN, postsFor : Terms, postsAt : Nat]

NoPosts == [terms |-> NoTerms, at |-> 0, error |-> FALSE, postsFor |-> NoTerms, postsAt |-> 0]
NoRead == [busy |-> FALSE, config |-> [terms |-> NoTerms, credentials |-> FALSE],
           cache |-> NoPosts, now |-> 0]
NoPatch == [busy |-> FALSE, config |-> [terms |-> NoTerms, credentials |-> FALSE]]

MonitorInit ==
  /\ monitorClock = 1
  /\ monitorConfig \in Config
  /\ monitorCache = NoPosts
  /\ feedRead = [r \in FeedReads |-> NoRead]
  /\ configPatch = [p \in ConfigPatches |-> NoPatch]

MonitorTick ==
  /\ monitorClock < MaxMonitorTime
  /\ monitorClock' = monitorClock + 1
  /\ UNCHANGED <<monitorConfig, monitorCache, feedRead, configPatch>>
-----------------------------------------------------------------------------
IsMonitorCacheStale(now, cache, config) ==
  cache.terms # config.terms \/ cache.at = 0 \/ now - cache.at >= MaxCacheAge

(* Slip: the error is not written down. *)
WithError_Silent(cache, config) == [cache EXCEPT !.terms = config.terms]

(* { ...cache, queryTerms, lastError }: the old posts under the new terms.  *)
WithError(cache, config) == [cache EXCEPT !.terms = config.terms, !.error = TRUE]

Fetched(config, now) ==
  [terms |-> config.terms, at |-> now, error |-> FALSE, postsFor |-> config.terms, postsAt |-> now]

ReadFeed(r, force) ==
  /\ ~feedRead[r].busy
  /\ force \/ IsMonitorCacheStale(monitorClock, monitorCache, monitorConfig)
  /\ IF monitorConfig.credentials /\ monitorConfig.terms # NoTerms
       THEN /\ feedRead' = [feedRead EXCEPT ![r] =
                 [busy |-> TRUE, config |-> monitorConfig, cache |-> monitorCache,
                  now |-> monitorClock]]
            /\ UNCHANGED monitorCache
       ELSE /\ monitorCache' = WithError(monitorCache, monitorConfig)
            /\ UNCHANGED feedRead
  /\ UNCHANGED <<monitorClock, monitorConfig, configPatch>>

FetchEnds(r) ==
  LET read == feedRead[r]
  IN /\ read.busy
     /\ \/ monitorCache' = Fetched(read.config, read.now)
        \/ monitorCache' = WithError(read.cache, read.config)
     /\ feedRead' = [feedRead EXCEPT ![r] = NoRead]
     /\ UNCHANGED <<monitorClock, monitorConfig, configPatch>>

(* A patch brings terms, at least one, or credentials, or both; credentials *)
(* are validated first unless it asks for none.                             *)
PatchConfig(p, patched) ==
  /\ ~configPatch[p].busy
  /\ patched.terms \in {monitorConfig.terms} \cup (Terms \ {NoTerms})
  /\ monitorConfig.credentials => patched.credentials
  /\ \/ /\ monitorConfig' = patched
        /\ UNCHANGED configPatch
     \/ /\ patched.credentials
        /\ configPatch' = [configPatch EXCEPT ![p] = [busy |-> TRUE, config |-> patched]]
        /\ UNCHANGED monitorConfig
  /\ UNCHANGED <<monitorClock, monitorCache, feedRead>>

(* What was read before the validation is written back, or nothing is.      *)
CredentialsValidated(p) ==
  /\ configPatch[p].busy
  /\ \/ monitorConfig' = configPatch[p].config
     \/ UNCHANGED monitorConfig
  /\ configPatch' = [configPatch EXCEPT ![p] = NoPatch]
  /\ UNCHANGED <<monitorClock, monitorCache, feedRead>>

MonitorNext ==
  \/ MonitorTick
  \/ \E r \in FeedReads : FetchEnds(r) \/ \E force \in BOOLEAN : ReadFeed(r, force)
  \/ \E p \in ConfigPatches : CredentialsValidated(p) \/ \E c \in Config : PatchConfig(p, c)

MonitorSpec == MonitorInit /\ [][MonitorNext]_monitorVars
-----------------------------------------------------------------------------
(* A feed that reports no error (toFeedSnapshot, service.ts:138) shows posts *)
(* that were fetched for the terms it names at the time it names, whichever *)
(* reads failed, finished late or ran while the terms were changed.         *)
CleanFeedIsTrue ==
  ~monitorCache.error =>
    monitorCache.postsFor = monitorCache.terms /\ monitorCache.postsAt = monitorCache.at
=============================================================================
