---------------------------- MODULE ServiceProofs ----------------------------
(***************************************************************************)
(* The API's services, for any number of requests and any order of their   *)
(* ends: a feed without an error is true, a capture settles on the usage   *)
(* view, refreshes are few, a workspace is not launched twice, a task of a *)
(* plan is in todo.md once, the work of a tentacle stays in its worktree,  *)
(* and the registry of terminals is written behind, its newest state last. *)
(***************************************************************************)
EXTENDS MonitorService, CliCapture, UsageCache, OctogentLaunch, DeckTentacles, TentacleGit,
        RegistryPersistence, SequenceLemmas, FiniteSetTheorems, SequenceTheorems, TLAPS

-----------------------------------------------------------------------------
\* The monitor.  A read may write back the posts it began with, so those have to be
\* true as well, however old they are.
TruePosts(cache) ==
  ~cache.error => cache.postsFor = cache.terms /\ cache.postsAt = cache.at

Waits == [busy : BOOLEAN, config : Config, cache : Cache, now : Nat]
ValidPatches == [busy : BOOLEAN, config : Config]

MonitorInv ==
  /\ monitorClock \in Nat
  /\ monitorConfig \in Config
  /\ monitorCache \in Cache
  /\ feedRead \in [FeedReads -> Waits]
  /\ configPatch \in [ConfigPatches -> ValidPatches]
  /\ TruePosts(monitorCache)
  /\ \A r \in FeedReads : TruePosts(feedRead[r].cache)

LEMMA WithErrorIsTrue ==
  ASSUME NEW cache \in Cache, NEW config \in Config
  PROVE  WithError(cache, config) \in Cache /\ TruePosts(WithError(cache, config))
  BY DEF WithError, Cache, Config, TruePosts

LEMMA FetchedIsTrue ==
  ASSUME NEW config \in Config, NEW now \in Nat
  PROVE  Fetched(config, now) \in Cache /\ TruePosts(Fetched(config, now))
  BY DEF Fetched, Cache, Config, TruePosts

LEMMA NothingReadIsTrue ==
  NoRead \in Waits /\ NoPatch \in ValidPatches /\ NoPosts \in Cache /\ TruePosts(NoPosts)
  /\ NoRead.cache = NoPosts
  BY MonitorAssumption DEF NoRead, NoPatch, NoPosts, Waits, ValidPatches, Cache, Config, TruePosts

LEMMA MonitorStart == MonitorInit => MonitorInv
  BY NothingReadIsTrue DEF MonitorInit, MonitorInv

LEMMA ReadFeedKeeps ==
  ASSUME MonitorInv, NEW r \in FeedReads, NEW force \in BOOLEAN, ReadFeed(r, force)
  PROVE  MonitorInv'
  <1>1. CASE monitorConfig.credentials /\ monitorConfig.terms # NoTerms
    <2> DEFINE wait == [busy |-> TRUE, config |-> monitorConfig, cache |-> monitorCache,
                        now |-> monitorClock]
    <2>1. wait \in Waits /\ wait.cache = monitorCache
      BY DEF MonitorInv, Waits
    <2>2. feedRead' = [feedRead EXCEPT ![r] = wait]
      BY <1>1 DEF ReadFeed
    <2> QED
      BY <1>1, <2>1, <2>2 DEF ReadFeed, MonitorInv
  <1>2. CASE ~(monitorConfig.credentials /\ monitorConfig.terms # NoTerms)
    BY <1>2, WithErrorIsTrue DEF ReadFeed, MonitorInv
  <1> QED
    BY <1>1, <1>2

LEMMA FetchEndsKeeps ==
  ASSUME MonitorInv, NEW r \in FeedReads, FetchEnds(r)
  PROVE  MonitorInv'
  <1>1. /\ feedRead[r].config \in Config
        /\ feedRead[r].cache \in Cache
        /\ feedRead[r].now \in Nat
    BY DEF MonitorInv, Waits
  <1>2. monitorCache' \in Cache /\ TruePosts(monitorCache')
    BY <1>1, WithErrorIsTrue, FetchedIsTrue DEF FetchEnds
  <1>3. feedRead' \in [FeedReads -> Waits] /\ \A s \in FeedReads : TruePosts(feedRead'[s].cache)
    BY NothingReadIsTrue DEF FetchEnds, MonitorInv
  <1> QED
    BY <1>2, <1>3 DEF FetchEnds, MonitorInv

LEMMA PatchesKeep ==
  ASSUME MonitorInv, NEW p \in ConfigPatches,
         CredentialsValidated(p) \/ \E c \in Config : PatchConfig(p, c)
  PROVE  MonitorInv'
  <1>1. CASE CredentialsValidated(p)
    BY <1>1, NothingReadIsTrue DEF CredentialsValidated, MonitorInv, ValidPatches
  <1>2. ASSUME NEW c \in Config, PatchConfig(p, c)
        PROVE  MonitorInv'
    <2>1. [busy |-> TRUE, config |-> c] \in ValidPatches
      BY DEF ValidPatches
    <2> QED
      BY <1>2, <2>1 DEF PatchConfig, MonitorInv
  <1> QED
    BY <1>1, <1>2

LEMMA MonitorStep == MonitorInv /\ [MonitorNext]_monitorVars => MonitorInv'
  <1> SUFFICES ASSUME MonitorInv, [MonitorNext]_monitorVars
               PROVE  MonitorInv'
    OBVIOUS
  <1>1. CASE MonitorTick
    BY <1>1 DEF MonitorTick, MonitorInv
  <1>2. CASE UNCHANGED monitorVars
    BY <1>2 DEF monitorVars, MonitorInv
  <1> QED
    BY <1>1, <1>2, ReadFeedKeeps, FetchEndsKeeps, PatchesKeep DEF MonitorNext

\* A feed that reports no error shows posts fetched for the terms and at the time it
\* names, for any terms, reads and patches (service.ts:138).
THEOREM FeedIsTrue == MonitorSpec => []CleanFeedIsTrue
  <1>1. MonitorInv => CleanFeedIsTrue
    BY DEF MonitorInv, TruePosts, CleanFeedIsTrue
  <1> QED
    BY <1>1, MonitorStart, MonitorStep, PTL DEF MonitorSpec

-----------------------------------------------------------------------------
\* The capture.  Once the timer runs on what /usage printed, nothing types it again:
\* not the delay after the ready screen, for it was typed, and not the retry, for its
\* closing line is there; and no screen is taken for the ready one any more.
CaptureInv ==
  /\ capSends \in Nat
  /\ capSends > 0 => capPhase = "capturing"
  /\ capSettle = "usage" => capSends > 0
  /\ SettlesOnTheUsageView

LEMMA OutputKeeps ==
  ASSUME CaptureInv, NEW needles \in SUBSET Needles, Output(needles)
  PROVE  CaptureInv'
  BY DEF CaptureInv, Output, SettlesOnTheUsageView

LEMMA SendKeeps ==
  ASSUME CaptureInv, capSettle # "usage", SendUsageCommand
  PROVE  CaptureInv'
  <1>1. capSettle' # "usage"
    BY DEF SendUsageCommand, Finish
  <1>2. capSends' \in Nat /\ capPhase' = "capturing"
    BY DEF CaptureInv, SendUsageCommand
  <1> QED
    BY <1>1, <1>2 DEF CaptureInv, SettlesOnTheUsageView

LEMMA TimersKeep ==
  ASSUME CaptureInv, GraceElapses \/ ReadyDelayEnds \/ RetryTimerEnds
  PROVE  CaptureInv'
  <1>1. CASE GraceElapses
    BY <1>1 DEF CaptureInv, GraceElapses, SettlesOnTheUsageView
  <1>2. CASE ReadyDelayEnds
    BY <1>2, SendKeeps DEF CaptureInv, ReadyDelayEnds, SettlesOnTheUsageView
  <1>3. CASE RetryTimerEnds
    BY <1>3, SendKeeps DEF CaptureInv, RetryTimerEnds, SettlesOnTheUsageView
  <1> QED
    BY <1>1, <1>2, <1>3

LEMMA EndKeeps ==
  ASSUME CaptureInv, NEW result, CaptureEnds(result)
  PROVE  CaptureInv'
  BY DEF CaptureInv, CaptureEnds, Finish, SettlesOnTheUsageView

LEMMA CaptureStep == CaptureInv /\ [CapNext]_capVars => CaptureInv'
  <1> SUFFICES ASSUME CaptureInv, [CapNext]_capVars
               PROVE  CaptureInv'
    OBVIOUS
  <1>1. CASE SettleTimerEnds \/ DeadlineOrExit
    BY <1>1, EndKeeps DEF SettleTimerEnds, DeadlineOrExit
  <1>2. CASE UNCHANGED capVars
    BY <1>2 DEF capVars, CaptureInv, SettlesOnTheUsageView
  <1> QED
    BY <1>1, <1>2, OutputKeeps, TimersKeep DEF CapNext

\* "Capture only the latest /usage render, not the startup shell"
\* (claudeUsage.ts:542), whatever the process prints and whichever timer is first.
THEOREM CaptureSettles == CapSpec => []SettlesOnTheUsageView
  <1>1. CapInit => CaptureInv
    BY DEF CapInit, CaptureInv, SettlesOnTheUsageView
  <1>2. CaptureInv => SettlesOnTheUsageView
    BY DEF CaptureInv
  <1> QED
    BY <1>1, <1>2, CaptureStep, PTL DEF CapSpec

-----------------------------------------------------------------------------
\* The usage cache.  Of the refreshes that count as background ones, all but the one
\* in flight were forgotten by an invalidation: a forgotten one that ends and lets the
\* one in flight be forgotten as well takes its place among them.
RefreshStates == [at : {"idle", "cli", "oauth", "file"}, now : Nat, tracked : BOOLEAN]

Forgotten == Tracked \ {usageInFlight}

UsageInv ==
  /\ usageClock \in Nat
  /\ usageInvalidations \in Nat
  /\ usageRefresh \in [Refreshes -> RefreshStates]
  /\ usageInFlight # NoRefresh => usageInFlight \in Tracked
  /\ \A f \in Refreshes : usageRefresh[f].at = "idle" => ~usageRefresh[f].tracked
  /\ Cardinality(Forgotten) <= usageInvalidations

LEMMA TrackedAreFinite == IsFiniteSet(Tracked) /\ IsFiniteSet(Forgotten)
  BY UsageAssumption, FS_Subset DEF Tracked, Forgotten

LEMMA ForgottenAreFew == UsageInv => RefreshesAreFew
  <1> SUFFICES ASSUME UsageInv
               PROVE  Cardinality(Tracked) <= usageInvalidations + 1
    BY DEF RefreshesAreFew
  <1> QED
    BY TrackedAreFinite, FS_RemoveElement, FS_CardinalityType DEF UsageInv, Forgotten

\* A step that keeps what is tracked and the one in flight keeps the count.
LEMMA UsageFrame ==
  ASSUME UsageInv, usageClock' \in Nat, usageRefresh' \in [Refreshes -> RefreshStates],
         \A f \in Refreshes :
           /\ usageRefresh'[f].tracked = usageRefresh[f].tracked
           /\ usageRefresh'[f].at = "idle" => ~usageRefresh[f].tracked,
         usageInFlight' = usageInFlight, usageInvalidations' = usageInvalidations
  PROVE  UsageInv'
  <1>1. Tracked' = Tracked
    BY DEF Tracked
  <1> QED
    BY <1>1 DEF UsageInv, Forgotten

LEMMA StartKeeps ==
  ASSUME UsageInv, StartBackgroundRefresh,
         usageClock' = usageClock, usageInvalidations' = usageInvalidations
  PROVE  UsageInv'
  <1>1. CASE usageInFlight # NoRefresh
    BY <1>1, UsageFrame DEF StartBackgroundRefresh, UsageInv
  <1>2. CASE usageInFlight = NoRefresh
    <2>1. PICK f \in Refreshes : Begins(f, "cli", TRUE) /\ usageInFlight' = f
      BY <1>2 DEF StartBackgroundRefresh
    <2>2. usageRefresh' \in [Refreshes -> RefreshStates]
      BY <2>1 DEF Begins, UsageInv, RefreshStates
    <2>3. Tracked' = Tracked \cup {f}
      BY <2>1 DEF Begins, UsageInv, RefreshStates, Tracked
    <2>4. Forgotten' = Tracked /\ Forgotten = Tracked
      BY <1>2, <2>1, <2>3, UsageAssumption DEF Begins, UsageInv, Forgotten, Tracked
    <2>5. \A g \in Refreshes : usageRefresh'[g].at = "idle" => ~usageRefresh'[g].tracked
      BY <2>1 DEF Begins, UsageInv, RefreshStates
    <2> QED
      BY <2>1, <2>2, <2>3, <2>4, <2>5 DEF UsageInv
  <1> QED
    BY <1>1, <1>2

LEMMA UsageReadKeeps ==
  ASSUME UsageInv, NEW r \in UsageReads, ReadUsage(r) \/ ReadUsageGoesOn(r)
  PROVE  UsageInv'
  <1>1. CASE UNCHANGED <<usageInFlight, usageRefresh>>
    BY <1>1, UsageFrame DEF ReadUsage, ReadUsageGoesOn, UsageInv
  <1>2. CASE StartBackgroundRefresh
    BY <1>2, StartKeeps DEF ReadUsage, ReadUsageGoesOn
  <1> QED
    BY <1>1, <1>2 DEF ReadUsage, ReadUsageGoesOn

LEMMA HookKeeps ==
  ASSUME UsageInv, NEW r \in UsageReads, HookInvalidates(r)
  PROVE  UsageInv'
  <1>1. Tracked' = Tracked /\ usageInFlight' = NoRefresh
    BY DEF HookInvalidates, Tracked
  <1>2. Forgotten' = Tracked
    BY <1>1, UsageAssumption DEF Forgotten, Tracked
  <1>3. Cardinality(Tracked) <= usageInvalidations + 1
    BY ForgottenAreFew DEF RefreshesAreFew
  <1> QED
    BY <1>1, <1>2, <1>3 DEF HookInvalidates, UsageInv

LEMMA DirectKeeps ==
  ASSUME UsageInv, NEW f \in Refreshes, RefreshesDirectly(f)
  PROVE  UsageInv'
  <1>1. PICK step \in {"cli", "oauth"} : Begins(f, step, FALSE)
    BY DEF RefreshesDirectly
  <1>2. usageRefresh' \in [Refreshes -> RefreshStates]
    BY <1>1 DEF Begins, UsageInv, RefreshStates
  <1>3. \A g \in Refreshes :
          /\ usageRefresh'[g].tracked = usageRefresh[g].tracked
          /\ usageRefresh'[g].at = "idle" => ~usageRefresh[g].tracked
    BY <1>1 DEF Begins, UsageInv, RefreshStates
  <1> QED
    BY <1>2, <1>3, UsageFrame DEF RefreshesDirectly, UsageInv

\* The answer is cached, or another source is asked: the refresh stays what it is.
LEMMA GoesOnKeeps ==
  ASSUME UsageInv, NEW f \in Refreshes, NEW step \in {"oauth", "file"},
         usageRefresh' = [usageRefresh EXCEPT ![f].at = step],
         usageClock' = usageClock, usageInFlight' = usageInFlight,
         usageInvalidations' = usageInvalidations, usageRefresh[f].at # "idle"
  PROVE  UsageInv'
  <1>1. usageRefresh' \in [Refreshes -> RefreshStates]
    BY DEF UsageInv, RefreshStates
  <1>2. \A g \in Refreshes :
          /\ usageRefresh'[g].tracked = usageRefresh[g].tracked
          /\ usageRefresh'[g].at = "idle" => ~usageRefresh[g].tracked
    BY DEF UsageInv, RefreshStates
  <1> QED
    BY <1>1, <1>2, UsageFrame DEF UsageInv

LEMMA RefreshEndKeeps ==
  ASSUME UsageInv, NEW f \in Refreshes, RefreshEnds(f)
  PROVE  UsageInv'
  <1>1. usageRefresh' \in [Refreshes -> RefreshStates]
    BY DEF RefreshEnds, UsageInv, RefreshStates, NotRunning
  <1>2. Tracked' = Tracked \ {f}
    BY DEF RefreshEnds, UsageInv, Tracked, NotRunning
  <1>3. \A g \in Refreshes : usageRefresh'[g].at = "idle" => ~usageRefresh'[g].tracked
    BY DEF RefreshEnds, UsageInv, NotRunning
  <1>4. CASE f \notin Tracked
    BY <1>1, <1>2, <1>3, <1>4 DEF RefreshEnds, UsageInv, Forgotten, Tracked
  <1>5. CASE f \in Tracked
    <2>1. usageInFlight' = NoRefresh
      BY <1>5 DEF RefreshEnds, Tracked
    <2>2. Forgotten' = Tracked \ {f}
      BY <1>2, <2>1, UsageAssumption DEF Forgotten, Tracked
    <2>3. Cardinality(Tracked \ {f}) <= usageInvalidations
      <3>1. CASE usageInFlight = NoRefresh
        <4>1. Forgotten = Tracked
          BY <3>1, UsageAssumption DEF Forgotten, Tracked
        <4>2. Cardinality(Tracked \ {f}) = Cardinality(Tracked) - 1 /\ Cardinality(Tracked) \in Nat
          BY <1>5, TrackedAreFinite, FS_RemoveElement, FS_CardinalityType
        <4> QED
          BY <4>1, <4>2 DEF UsageInv
      <3>2. CASE usageInFlight # NoRefresh
        <4>1. usageInFlight \in Tracked
          BY <3>2 DEF UsageInv
        <4>2. Cardinality(Forgotten) = Cardinality(Tracked) - 1
          BY <4>1, TrackedAreFinite, FS_RemoveElement DEF Forgotten
        <4>3. Cardinality(Tracked \ {f}) = Cardinality(Tracked) - 1
          BY <1>5, TrackedAreFinite, FS_RemoveElement
        <4> QED
          BY <4>2, <4>3 DEF UsageInv
      <3> QED
        BY <3>1, <3>2
    <2> QED
      BY <1>1, <1>3, <2>1, <2>2, <2>3 DEF RefreshEnds, UsageInv
  <1> QED
    BY <1>4, <1>5

LEMMA AnswersKeep ==
  ASSUME UsageInv, NEW f \in Refreshes,
         CliAnswers(f) \/ OauthAnswers(f) \/ PersistOkSnapshot(f)
  PROVE  UsageInv'
  <1>1. usageRefresh[f].at # "idle"
    BY DEF CliAnswers, OauthAnswers, PersistOkSnapshot
  <1>2. CASE CacheOk(f)
    BY <1>1, <1>2, GoesOnKeeps DEF CacheOk
  <1>3. CASE RefreshEnds(f)
    BY <1>3, RefreshEndKeeps
  <1>4. CASE CliAnswers(f) /\ ~CacheOk(f) /\ ~RefreshEnds(f)
    BY <1>1, <1>4, GoesOnKeeps DEF CliAnswers
  <1> QED
    BY <1>2, <1>3, <1>4 DEF CliAnswers, OauthAnswers, PersistOkSnapshot

LEMMA UsageStep == UsageInv /\ [UsageNext]_usageVars => UsageInv'
  <1> SUFFICES ASSUME UsageInv, [UsageNext]_usageVars
               PROVE  UsageInv'
    OBVIOUS
  <1>1. CASE UsageTick \/ UNCHANGED usageVars
    BY <1>1, UsageFrame DEF UsageTick, usageVars, UsageInv
  <1> QED
    BY <1>1, UsageReadKeeps, HookKeeps, DirectKeeps, AnswersKeep DEF UsageNext

\* "prevents rate-limit storms" (claudeUsage.ts:881): for any number of reads and
\* refreshes, those at work in the background are at most one more than the
\* invalidations there were.
THEOREM RefreshesStayFew == UsageSpec => []RefreshesAreFew
  <1>1. UsageInit => UsageInv
    <2> SUFFICES ASSUME UsageInit
                 PROVE  UsageInv
      OBVIOUS
    <2>1. Tracked = {} /\ Forgotten = {}
      BY DEF UsageInit, NotRunning, Tracked, Forgotten
    <2> QED
      BY <2>1, UsageAssumption, FS_EmptySet
         DEF UsageInit, UsageInv, NotRunning, RefreshStates
  <1> QED
    BY <1>1, ForgottenAreFew, UsageStep, PTL DEF UsageSpec

-----------------------------------------------------------------------------
\* The launch.  Between launches all live processes but the one that runtime.json
\* names are surprises.  A launch goes on only when the file names no live one, so
\* then all of them are; and until it is over no other launch begins.
Processes == [at : {"off", "probing", "listening", "up", "stopping"}, port : Nat,
              inProject : BOOLEAN]
UnderWay == {"status", "init", "terminal", "polling"}

Unregistered == Live \ {runtimeJson.pid}

LaunchTypes ==
  /\ projectJson \in BOOLEAN
  /\ runtimeJson \in [pid : Instances \cup {NoInstance}, port : Nat]
  /\ instance \in [Instances -> Processes]
  /\ launching \in BOOLEAN
  /\ launch \in [LaunchRequests -> {"idle", "resolving"} \cup UnderWay]
  /\ surprises \in Nat

OneLaunch ==
  \A r \in LaunchRequests : launch[r] \in UnderWay =>
    launching /\ \A other \in LaunchRequests : launch[other] \in UnderWay => other = r

\* Who is named in the file is of the project, and not about to clear the file.
NamedInProject ==
  /\ \A i \in Instances : instance[i].inProject => projectJson
  /\ runtimeJson.pid # NoInstance =>
       /\ projectJson
       /\ instance[runtimeJson.pid].at # "stopping"
       /\ Alive(runtimeJson.pid) => instance[runtimeJson.pid].inProject

CountsHold ==
  /\ (\A r \in LaunchRequests : launch[r] # "polling") => Cardinality(Unregistered) <= surprises
  /\ (\E r \in LaunchRequests : launch[r] \in {"init", "terminal"}) => Cardinality(Live) <= surprises
  /\ Cardinality(Live) <= surprises + 1

LaunchInv == LaunchTypes /\ OneLaunch /\ NamedInProject /\ CountsHold

LEMMA LiveAreFinite ==
  /\ IsFiniteSet(Live) /\ Cardinality(Live) \in Nat
  /\ IsFiniteSet(Unregistered) /\ Cardinality(Unregistered) \in Nat
  /\ Cardinality(Unregistered) <= Cardinality(Live)
  /\ Cardinality(Live) <= Cardinality(Unregistered) + 1
  /\ runtimeJson.pid \notin Live => Unregistered = Live
  <1>1. IsFiniteSet(Live) /\ IsFiniteSet(Unregistered)
    BY LaunchAssumption, FS_Subset DEF Live, Unregistered
  <1>2. runtimeJson.pid \notin Live => Unregistered = Live
    BY DEF Unregistered
  <1>3. runtimeJson.pid \in Live => Cardinality(Unregistered) = Cardinality(Live) - 1
    BY <1>1, FS_RemoveElement DEF Unregistered
  <1>4. Cardinality(Live) \in Nat /\ Cardinality(Unregistered) \in Nat
    BY <1>1, FS_CardinalityType
  <1> QED
    BY <1>1, <1>2, <1>3, <1>4

\* A process that registers, ends or clears the file leaves no more unregistered.
LEMMA FewerKeep ==
  ASSUME CountsHold, LaunchTypes, UNCHANGED <<launch, surprises>>,
         Cardinality(Live') <= Cardinality(Live),
         Cardinality(Unregistered') <= Cardinality(Unregistered),
         Cardinality(Live') \in Nat, Cardinality(Unregistered') \in Nat
  PROVE  CountsHold'
  BY LiveAreFinite DEF CountsHold, LaunchTypes

LEMMA LiveSubsets ==
  ASSUME NEW S \in SUBSET Instances, NEW T \in SUBSET S
  PROVE  /\ Cardinality(S) \in Nat /\ Cardinality(T) \in Nat
         /\ Cardinality(T) <= Cardinality(S)
  BY LaunchAssumption, FS_Subset, FS_CardinalityType

LEMMA FindOpenPortKeeps ==
  ASSUME LaunchInv, NEW i \in Instances, FindOpenPort(i)
  PROVE  LaunchInv'
  <1>1. PICK port \in Ports :
          instance' = [instance EXCEPT ![i].at = "listening", ![i].port = port]
    BY DEF FindOpenPort
  <1>2. LaunchTypes'
    <2>1. port \in Nat
      BY LaunchAssumption
    <2>2. [instance[i] EXCEPT !.at = "listening", !.port = port] \in Processes
      BY <2>1 DEF LaunchInv, LaunchTypes, Processes
    <2>3. instance' = [instance EXCEPT ![i] = [instance[i] EXCEPT !.at = "listening", !.port = port]]
      BY <1>1 DEF LaunchInv, LaunchTypes
    <2>4. instance' \in [Instances -> Processes]
      BY <2>2, <2>3 DEF LaunchInv, LaunchTypes
    <2> QED
      BY <2>4 DEF FindOpenPort, LaunchInv, LaunchTypes
  <1>3. Live' = Live
    BY <1>1 DEF FindOpenPort, LaunchInv, LaunchTypes, Live
  <1>4. Unregistered' = Unregistered
    BY <1>3 DEF FindOpenPort, Unregistered
  <1>5. NamedInProject'
    BY <1>1 DEF FindOpenPort, LaunchInv, LaunchTypes, NamedInProject, Alive
  <1> QED
    BY <1>2, <1>3, <1>4, <1>5 DEF FindOpenPort, LaunchInv, CountsHold, OneLaunch

LEMMA ListensKeeps ==
  ASSUME LaunchInv, NEW i \in Instances, Listens(i)
  PROVE  LaunchInv'
  <1>1. LaunchTypes'
    <2>1. instance[i].port \in Nat
      BY DEF LaunchInv, LaunchTypes, Processes
    <2>2. Off \in Processes /\ [instance[i] EXCEPT !.at = "up"] \in Processes
      BY DEF LaunchInv, LaunchTypes, Processes, Off
    <2>3. instance' = [instance EXCEPT ![i] = [instance[i] EXCEPT !.at = "up"]]
            \/ instance' = [instance EXCEPT ![i] = Off]
      BY DEF Listens, LaunchInv, LaunchTypes
    <2>4. instance' \in [Instances -> Processes]
      BY <2>2, <2>3 DEF LaunchInv, LaunchTypes
    <2>5. runtimeJson' \in [pid : Instances \cup {NoInstance}, port : Nat]
      BY <2>1 DEF Listens, LaunchInv, LaunchTypes
    <2> QED
      BY <2>4, <2>5 DEF Listens, LaunchInv, LaunchTypes
  <1>2. OneLaunch'
    BY DEF Listens, LaunchInv, OneLaunch
  <1>3. CASE instance'[i].at = "up" /\ instance[i].inProject /\ runtimeJson'.pid = i
    <2>1. Live' = Live /\ i \in Live
      BY <1>3 DEF Listens, LaunchInv, LaunchTypes, Live, Off
    <2>2. Unregistered' = Live \ {i}
      BY <1>3, <2>1 DEF Unregistered
    <2>3. Cardinality(Live \ {i}) = Cardinality(Live) - 1
      BY <2>1, LiveAreFinite, FS_RemoveElement
    <2>4. Cardinality(Live \ {i}) \in Nat
      BY LiveSubsets DEF Live
    <2>5. CountsHold'
      BY <2>1, <2>2, <2>3, <2>4, LiveAreFinite, FewerKeep DEF Listens, LaunchInv
    <2>6. NamedInProject'
      <3>1. \A j \in Instances : instance'[j].inProject = instance[j].inProject
        BY <1>3 DEF Listens, LaunchInv, LaunchTypes, Processes, Off
      <3>2. projectJson' /\ instance'[i].inProject
        BY <1>3, <3>1 DEF Listens, LaunchInv, NamedInProject
      <3> QED
        BY <1>3, <3>1, <3>2 DEF Listens, LaunchInv, NamedInProject
    <2> QED
      BY <1>1, <1>2, <2>5, <2>6 DEF LaunchInv
  <1>4. CASE UNCHANGED runtimeJson
    <2>1. Live' \subseteq Live
      BY DEF Listens, LaunchInv, LaunchTypes, Live, Off
    <2>2. Unregistered' \subseteq Unregistered
      BY <1>4, <2>1 DEF Unregistered
    <2>3. CountsHold'
      BY <2>1, <2>2, LiveSubsets, FewerKeep DEF Listens, LaunchInv, Live, Unregistered
    <2>4. NamedInProject'
      BY <1>4 DEF Listens, LaunchInv, LaunchTypes, NamedInProject, Alive, Processes, Off
    <2> QED
      BY <1>1, <1>2, <2>3, <2>4 DEF LaunchInv
  <1> QED
    BY <1>3, <1>4 DEF Listens, LaunchInv, LaunchTypes, Processes

LEMMA ShutdownKeeps ==
  ASSUME LaunchInv, NEW i \in Instances, Shutdown(i)
  PROVE  LaunchInv'
  <1>1. LaunchTypes'
    BY LaunchAssumption DEF Shutdown, LaunchInv, LaunchTypes, Processes, NoRuntime
  <1>2. OneLaunch'
    BY DEF Shutdown, LaunchInv, OneLaunch
  <1>3. Live' = Live \ {i} /\ i \in Live
    BY DEF Shutdown, LaunchInv, LaunchTypes, Live
  <1>4. \A j \in Instances : instance'[j].inProject = instance[j].inProject
    BY DEF Shutdown, LaunchInv, LaunchTypes, Processes
  <1>5. CASE instance[i].inProject
    <2>1. runtimeJson' = NoRuntime
      BY <1>5 DEF Shutdown
    <2>2. Unregistered' \subseteq Live \ {i}
      BY <1>3 DEF Unregistered
    <2>3. Cardinality(Live \ {i}) = Cardinality(Live) - 1
      BY <1>3, LiveAreFinite, FS_RemoveElement
    <2>4. Cardinality(Unregistered') <= Cardinality(Live) - 1 /\ Cardinality(Unregistered') \in Nat
      BY <2>2, <2>3, LiveSubsets DEF Live
    <2>5. CountsHold'
      BY <1>3, <2>3, <2>4, LiveAreFinite, FewerKeep DEF Shutdown, LaunchInv
    <2> QED
      BY <1>1, <1>2, <1>4, <2>1, <2>5 DEF Shutdown, LaunchInv, NamedInProject, NoRuntime
  <1>6. CASE ~instance[i].inProject
    <2>1. UNCHANGED runtimeJson
      BY <1>6 DEF Shutdown
    <2>2. Unregistered' \subseteq Unregistered
      BY <1>3, <2>1 DEF Unregistered
    <2>3. CountsHold'
      BY <1>3, <2>2, LiveSubsets, FewerKeep DEF Shutdown, LaunchInv, Live, Unregistered
    <2>4. NamedInProject'
      BY <1>6, <2>1 DEF Shutdown, LaunchInv, LaunchTypes, NamedInProject, Alive, Processes
    <2> QED
      BY <1>1, <1>2, <2>3, <2>4 DEF LaunchInv
  <1> QED
    BY <1>5, <1>6

LEMMA ExitsKeeps ==
  ASSUME LaunchInv, NEW i \in Instances, Exits(i)
  PROVE  LaunchInv'
  <1>1. LaunchTypes'
    BY DEF Exits, LaunchInv, LaunchTypes, Processes, Off
  <1>2. OneLaunch'
    BY DEF Exits, LaunchInv, OneLaunch
  <1>3. Live' \subseteq Live /\ Unregistered' \subseteq Unregistered
    BY DEF Exits, LaunchInv, LaunchTypes, Live, Off, Unregistered
  <1>4. CountsHold'
    BY <1>3, LiveSubsets, FewerKeep DEF Exits, LaunchInv, Live, Unregistered
  <1>5. NamedInProject'
    BY DEF Exits, LaunchInv, LaunchTypes, NamedInProject, Alive, Processes, Off
  <1> QED
    BY <1>1, <1>2, <1>4, <1>5 DEF LaunchInv

\* A process that starts is one more.
LEMMA StartsOneMore ==
  ASSUME LaunchTypes, NamedInProject, NEW i \in Instances, StartOctogent(i),
         UNCHANGED <<projectJson, runtimeJson>>
  PROVE  /\ instance' \in [Instances -> Processes]
         /\ NamedInProject'
         /\ Cardinality(Live') = Cardinality(Live) + 1
         /\ Cardinality(Unregistered') \in Nat
         /\ Cardinality(Unregistered') <= Cardinality(Unregistered) + 1
  <1>1. instance' \in [Instances -> Processes]
    BY DEF StartOctogent, LaunchTypes, Processes
  <1>2. NamedInProject'
    BY DEF StartOctogent, LaunchTypes, NamedInProject, Alive, Processes
  <1>3. Live' = Live \cup {i} /\ i \notin Live
    BY DEF StartOctogent, LaunchTypes, Live
  <1>4. Cardinality(Live') = Cardinality(Live) + 1
    BY <1>3, LiveAreFinite, FS_AddElement
  <1>5. Unregistered' \subseteq Unregistered \cup {i} /\ i \notin Unregistered
    BY <1>3 DEF Unregistered
  <1>6. Cardinality(Unregistered \cup {i}) = Cardinality(Unregistered) + 1
    BY <1>5, LiveAreFinite, FS_AddElement
  <1>7. Unregistered \cup {i} \in SUBSET Instances
    BY DEF Unregistered, Live
  <1> QED
    BY <1>1, <1>2, <1>4, <1>5, <1>6, <1>7, LiveSubsets

LEMMA PersonKeeps ==
  ASSUME LaunchInv, PersonInitializes \/ \E i \in Instances : PersonStarts(i)
  PROVE  LaunchInv'
  <1>1. CASE PersonInitializes
    BY <1>1 DEF PersonInitializes, LaunchInv, LaunchTypes, OneLaunch, NamedInProject, Alive,
                CountsHold, Live, Unregistered
  <1>2. ASSUME NEW i \in Instances, PersonStarts(i)
        PROVE  LaunchInv'
    <2>1. /\ instance' \in [Instances -> Processes]
          /\ NamedInProject'
          /\ Cardinality(Live') = Cardinality(Live) + 1
          /\ Cardinality(Unregistered') \in Nat
          /\ Cardinality(Unregistered') <= Cardinality(Unregistered) + 1
      BY <1>2, StartsOneMore DEF PersonStarts, LaunchInv
    <2>2. CountsHold'
      BY <1>2, <2>1, LiveAreFinite DEF PersonStarts, LaunchInv, LaunchTypes, CountsHold
    <2> QED
      BY <1>2, <2>1, <2>2 DEF PersonStarts, LaunchInv, LaunchTypes, OneLaunch
  <1> QED
    BY <1>1, <1>2

\* A step of a launch: the processes and the file are as they were.
LEMMA LaunchFrame ==
  ASSUME LaunchInv, UNCHANGED <<runtimeJson, instance, surprises>>,
         projectJson \in BOOLEAN, projectJson' = projectJson \/ projectJson' = TRUE,
         NEW r \in LaunchRequests, NEW step \in {"idle", "resolving"} \cup UnderWay,
         launch' = [launch EXCEPT ![r] = step],
         launching' \in BOOLEAN,
         step \in UnderWay => launching',
         step \in UnderWay =>
           \A other \in LaunchRequests : launch[other] \in UnderWay => other = r,
         launching' \/ launch[r] \in UnderWay \/ ~launching,
         step \in {"init", "terminal"} => Cardinality(Live) <= surprises,
         step # "polling" /\ launch[r] = "polling" => Cardinality(Unregistered) <= surprises
  PROVE  LaunchInv'
  <1>1. Live' = Live /\ Unregistered' = Unregistered
    BY DEF Live, Unregistered
  <1>2. LaunchTypes'
    BY DEF LaunchInv, LaunchTypes
  <1>3. NamedInProject'
    BY DEF LaunchInv, NamedInProject, Alive
  <1>4. OneLaunch'
    BY DEF LaunchInv, LaunchTypes, OneLaunch
  <1>5. CountsHold'
    BY <1>1, LiveAreFinite DEF LaunchInv, LaunchTypes, CountsHold, UnderWay
  <1> QED
    BY <1>2, <1>3, <1>4, <1>5 DEF LaunchInv

LEMMA RequestsKeep ==
  ASSUME LaunchInv, NEW r \in LaunchRequests, RequestLaunch(r) \/ ClaimLaunch(r)
  PROVE  LaunchInv'
  <1>1. CASE RequestLaunch(r)
    BY <1>1, LaunchFrame
       DEF RequestLaunch, At, Goes, LaunchInv, LaunchTypes, OneLaunch, UnderWay
  <1>2. CASE ClaimLaunch(r)
    BY <1>2, LaunchFrame
       DEF ClaimLaunch, At, Goes, LaunchInv, LaunchTypes, OneLaunch, UnderWay
  <1> QED
    BY <1>1, <1>2

\* A launch that ends leaves every process but one accounted for.
LEMMA OverKeeps ==
  ASSUME LaunchInv, NEW r \in LaunchRequests, launch[r] \in UnderWay, LaunchOver(r),
         UNCHANGED <<projectJson, runtimeJson, instance, surprises>>,
         launch[r] = "polling" => Cardinality(Unregistered) <= surprises
  PROVE  LaunchInv'
  BY LaunchFrame DEF LaunchOver, Goes, LaunchInv, LaunchTypes, UnderWay

\* Nothing alive is named: whatever lives is a surprise.
LEMMA NothingNamed ==
  ASSUME LaunchInv, ~RuntimeAlive
  PROVE  Unregistered = Live
  <1>1. runtimeJson.pid \notin Live
    BY LaunchAssumption
       DEF RuntimeAlive, Initialized, LaunchInv, NamedInProject, Alive, Live, LaunchTypes
  <1> QED
    BY <1>1, LiveAreFinite

LEMMA ReadStatusKeeps ==
  ASSUME LaunchInv, NEW r \in LaunchRequests, ReadStatus(r)
  PROVE  LaunchInv'
  <1>1. CASE LaunchOver(r)
    BY <1>1, OverKeeps DEF ReadStatus, At, UnderWay
  <1>2. CASE ~RuntimeAlive /\ ~LaunchOver(r)
    <2>1. Unregistered = Live
      BY <1>2, NothingNamed
    <2>2. \A other \in LaunchRequests : launch[other] # "polling"
      BY DEF ReadStatus, At, LaunchInv, OneLaunch, UnderWay
    <2>3. Cardinality(Live) <= surprises
      BY <2>1, <2>2 DEF LaunchInv, CountsHold
    <2> QED
      BY <1>2, <2>2, <2>3, LaunchFrame
         DEF ReadStatus, At, Goes, LaunchInv, LaunchTypes, OneLaunch, UnderWay
  <1> QED
    BY <1>1, <1>2 DEF ReadStatus

LEMMA OctogentInitKeeps ==
  ASSUME LaunchInv, NEW r \in LaunchRequests, OctogentInit(r)
  PROVE  LaunchInv'
  <1>1. CASE LaunchOver(r) /\ UNCHANGED projectJson
    BY <1>1, OverKeeps DEF OctogentInit, At, UnderWay
  <1>2. CASE projectJson' = TRUE /\ Goes(r, "terminal") /\ UNCHANGED launching
    <2>1. Cardinality(Live) <= surprises
      BY DEF OctogentInit, At, LaunchInv, CountsHold
    <2> QED
      BY <1>2, <2>1, LaunchFrame
         DEF OctogentInit, At, Goes, LaunchInv, LaunchTypes, OneLaunch, UnderWay
  <1> QED
    BY <1>1, <1>2 DEF OctogentInit

LEMMA OpenTerminalKeeps ==
  ASSUME LaunchInv, NEW r \in LaunchRequests, OpenTerminal(r)
  PROVE  LaunchInv'
  <1>1. CASE LaunchOver(r) /\ UNCHANGED instance
    BY <1>1, OverKeeps DEF OpenTerminal, At, UnderWay
  <1>2. CASE Goes(r, "polling") /\ UNCHANGED <<instance, launching>>
    BY <1>2, LaunchFrame
       DEF OpenTerminal, At, Goes, LaunchInv, LaunchTypes, OneLaunch, UnderWay
  <1>3. ASSUME NEW i \in Instances, StartOctogent(i), Goes(r, "polling"), UNCHANGED launching
        PROVE  LaunchInv'
    <2>1. /\ instance' \in [Instances -> Processes]
          /\ NamedInProject'
          /\ Cardinality(Live') = Cardinality(Live) + 1
      BY <1>3, StartsOneMore DEF OpenTerminal, LaunchInv
    <2>2. Cardinality(Live) <= surprises
      BY DEF OpenTerminal, At, LaunchInv, CountsHold
    <2>3. \A other \in LaunchRequests : launch'[other] \in UnderWay => other = r
      BY <1>3 DEF OpenTerminal, At, Goes, LaunchInv, LaunchTypes, OneLaunch, UnderWay
    <2>4. launch'[r] = "polling"
      BY <1>3 DEF Goes, LaunchInv, LaunchTypes
    <2>5. LaunchTypes'
      BY <1>3, <2>1 DEF OpenTerminal, Goes, LaunchInv, LaunchTypes, UnderWay
    <2>6. OneLaunch'
      BY <1>3, <2>3 DEF OpenTerminal, At, LaunchInv, OneLaunch, UnderWay
    <2>7. CountsHold'
      BY <2>1, <2>2, <2>3, <2>4, LiveAreFinite
         DEF OpenTerminal, LaunchInv, LaunchTypes, CountsHold, UnderWay
    <2> QED
      BY <2>1, <2>5, <2>6, <2>7 DEF LaunchInv
  <1> QED
    BY <1>1, <1>2, <1>3 DEF OpenTerminal

\* Seen running, the process that the file names is the one this launch may add.
LEMMA PollKeeps ==
  ASSUME LaunchInv, NEW r \in LaunchRequests, PollSeesRunning(r) \/ PollTimesOut(r)
  PROVE  LaunchInv'
  <1>1. CASE PollSeesRunning(r)
    <2>1. runtimeJson.pid \in Live
      BY <1>1 DEF PollSeesRunning, RuntimeAlive, LaunchInv, LaunchTypes, NamedInProject, Alive,
                  Live, Processes
    <2>2. Cardinality(Unregistered) = Cardinality(Live) - 1
      BY <2>1, LiveAreFinite, FS_RemoveElement DEF Unregistered
    <2>3. Cardinality(Unregistered) <= surprises
      BY <2>2, LiveAreFinite DEF LaunchInv, LaunchTypes, CountsHold
    <2> QED
      BY <1>1, <2>3, OverKeeps DEF PollSeesRunning, At, UnderWay
  <1>2. CASE PollTimesOut(r)
    <2>1. Live' = Live /\ Unregistered' = Unregistered
      BY <1>2 DEF PollTimesOut, Live, Unregistered
    <2>2. launch' = [launch EXCEPT ![r] = "idle"] /\ launching' = FALSE
      BY <1>2 DEF PollTimesOut, LaunchOver, Goes
    <2>3. \A other \in LaunchRequests : launch'[other] \notin UnderWay
      <3>1. \A other \in LaunchRequests : launch[other] \in UnderWay => other = r
        BY <1>2 DEF PollTimesOut, At, LaunchInv, OneLaunch, UnderWay
      <3>2. "idle" \notin UnderWay
        BY DEF UnderWay
      <3> QED
        BY <2>2, <3>1, <3>2 DEF LaunchInv, LaunchTypes
    <2>4. LaunchTypes'
      <3>1. launch' \in [LaunchRequests -> {"idle", "resolving"} \cup UnderWay]
        BY <2>2 DEF LaunchInv, LaunchTypes
      <3>2. surprises' \in Nat
        BY <1>2 DEF PollTimesOut, LaunchInv, LaunchTypes
      <3> QED
        BY <1>2, <2>2, <3>1, <3>2 DEF PollTimesOut, LaunchInv, LaunchTypes
    <2>5. CountsHold'
      BY <1>2, <2>1, <2>3, LiveAreFinite
         DEF PollTimesOut, LaunchInv, LaunchTypes, CountsHold, UnderWay
    <2>6. NamedInProject' /\ OneLaunch'
      BY <1>2, <2>3 DEF PollTimesOut, LaunchInv, NamedInProject, OneLaunch, Alive
    <2> QED
      BY <2>4, <2>5, <2>6 DEF LaunchInv
  <1> QED
    BY <1>1, <1>2

LEMMA LaunchStep == LaunchInv /\ [LaunchNext]_launchVars => LaunchInv'
  <1> SUFFICES ASSUME LaunchInv, [LaunchNext]_launchVars
               PROVE  LaunchInv'
    OBVIOUS
  <1>1. CASE UNCHANGED launchVars
    BY <1>1 DEF launchVars, LaunchInv, LaunchTypes, OneLaunch, NamedInProject, CountsHold, Alive,
                Live, Unregistered
  <1> QED
    BY <1>1, PersonKeeps, FindOpenPortKeeps, ListensKeeps, ShutdownKeeps, ExitsKeeps,
       RequestsKeep, ReadStatusKeeps, OctogentInitKeeps, OpenTerminalKeeps, PollKeeps
       DEF LaunchNext

\* "A workspace that already has a live Octogent is never launched twice"
\* (octogentLaunch.ts:3): for any number of processes, requests and ports, the live
\* ones are at most one more than the starts and time-outs nobody can rule out.
THEOREM LaunchedOnce == LaunchSpec => []LiveInstancesAreFew
  <1>1. LaunchInit => LaunchInv
    <2> SUFFICES ASSUME LaunchInit
                 PROVE  LaunchInv
      OBVIOUS
    <2>1. Live = {} /\ Unregistered = {}
      BY DEF LaunchInit, Live, Unregistered, Off
    <2>2. LaunchTypes
      BY DEF LaunchInit, LaunchTypes, NoRuntime, Off, Processes
    <2> QED
      BY <2>1, <2>2, FS_EmptySet
         DEF LaunchInit, LaunchInv, OneLaunch, NamedInProject, CountsHold, NoRuntime, Off, UnderWay
  <1>2. LaunchInv => LiveInstancesAreFew
    BY LiveAreFinite DEF LaunchInv, LaunchTypes, CountsHold, LiveInstancesAreFew
  <1> QED
    BY <1>1, <1>2, LaunchStep, PTL DEF LaunchSpec

-----------------------------------------------------------------------------
\* The deck.  What an export read of todo.md may be older than the file, but has each
\* task once as well, and so has it with the tasks added that it has not.
DeckTodosOK(todo) == todo \in Seq(Item) /\ TasksOnce(todo)

ExportFields == {"at", "context", "had", "todo"}

DeckInv ==
  /\ DeckTodosOK(todoFile)
  /\ DOMAIN deckExport = Plans
  /\ \A x \in Plans :
       DOMAIN deckExport[x] = ExportFields /\ DeckTodosOK(deckExport[x].todo)

\* Lines that stand at other lines' places, each at its own, are there once as well.
LEMMA TakenFromKeepsOnce ==
  ASSUME NEW todo, TasksOnce(todo), NEW new, NEW from,
         \A i \in DOMAIN new :
           from[i] \in DOMAIN todo /\ new[i].line = todo[from[i]].line,
         \A i, j \in DOMAIN new : from[i] = from[j] => i = j
  PROVE  TasksOnce(new)
  BY DEF TasksOnce

LEMMA EmptyTodo == DeckTodosOK(<< >>)
  BY DEF DeckTodosOK, TasksOnce

LEMMA ToggleKeepsOnce ==
  ASSUME NEW todo, DeckTodosOK(todo), NEW i \in DOMAIN todo, NEW done \in BOOLEAN
  PROVE  DeckTodosOK([todo EXCEPT ![i].done = done])
  <1> DEFINE item == [todo[i] EXCEPT !.done = done]
             new == [todo EXCEPT ![i] = item]
  <1>0. todo \in Seq(Item) /\ i \in 1..Len(todo) /\ todo[i] \in Item
    BY ElementOfSeq DEF DeckTodosOK
  <1>1. item \in Item /\ item.line = todo[i].line
    BY <1>0 DEF Item
  <1>2. new \in Seq(Item)
    BY <1>0, <1>1, ExceptSeq
  <1>3. \A j \in DOMAIN new : j \in DOMAIN todo /\ new[j].line = todo[j].line
    BY <1>1 DEF DeckTodosOK
  <1>4. TasksOnce(new)
    BY <1>3 DEF DeckTodosOK, TasksOnce
  <1> QED
    BY <1>2, <1>4 DEF DeckTodosOK

\* A line of people has the key of no task.
LEMMA HandLinesAreOther ==
  ASSUME NEW h \in HandLines
  PROVE  h \notin PlanLines /\ \A p \in PlanLines : DeckKey(p) # DeckKey(h)
  BY DeckAssumption

LEMMA EditKeepsOnce ==
  ASSUME NEW todo, DeckTodosOK(todo), NEW i \in DOMAIN todo, NEW h \in HandLines
  PROVE  DeckTodosOK([todo EXCEPT ![i].line = h])
  <1> DEFINE item == [todo[i] EXCEPT !.line = h]
             new == [todo EXCEPT ![i] = item]
  <1>0. todo \in Seq(Item) /\ i \in 1..Len(todo) /\ todo[i] \in Item
    BY ElementOfSeq DEF DeckTodosOK
  <1>1. item \in Item /\ item.line = h
    BY <1>0 DEF Item
  <1>2. new \in Seq(Item)
    BY <1>0, <1>1, ExceptSeq
  <1>3. DOMAIN new = DOMAIN todo
        /\ \A j \in DOMAIN new : new[j].line = IF j = i THEN h ELSE todo[j].line
    BY <1>1 DEF DeckTodosOK
  <1> HIDE DEF new
  <1>4. TasksOnce(new)
    BY <1>3, HandLinesAreOther DEF DeckTodosOK, TasksOnce
  <1> QED
    BY <1>2, <1>4 DEF DeckTodosOK, new

LEMMA AddKeepsOnce ==
  ASSUME NEW todo, DeckTodosOK(todo), NEW h \in HandLines
  PROVE  DeckTodosOK(Append(todo, [line |-> h, done |-> FALSE]))
  <1> DEFINE item == [line |-> h, done |-> FALSE]
             new == Append(todo, item)
  <1>1. item \in Item /\ item.line = h
    BY DEF Item
  <1>2. /\ new \in Seq(Item) /\ Len(new) = Len(todo) + 1 /\ Len(todo) \in Nat
        /\ DOMAIN todo = 1..Len(todo) /\ DOMAIN new = 1..Len(new)
    BY <1>1, AppendProperties, LenProperties DEF DeckTodosOK
  <1>3. \A j \in DOMAIN new : j \in DOMAIN todo \/ j = Len(todo) + 1
    BY <1>2
  <1>4. /\ \A j \in DOMAIN todo : new[j] = todo[j]
        /\ new[Len(todo) + 1] = item
    BY <1>1, <1>2, AppendProperties DEF DeckTodosOK
  <1> HIDE DEF new, item
  <1>5. TasksOnce(new)
    BY <1>1, <1>3, <1>4, HandLinesAreOther DEF DeckTodosOK, TasksOnce
  <1> QED
    BY <1>2, <1>5 DEF DeckTodosOK, new, item

\* The facts about a part of a sequence that both of the next two need.
LEMMA PartOf ==
  ASSUME NEW S, NEW s \in Seq(S), NEW m \in 0..Len(s)
  PROVE  /\ SubSeq(s, 1, m) \in Seq(S) /\ Len(SubSeq(s, 1, m)) = m
         /\ \A i \in 1..m : SubSeq(s, 1, m)[i] = s[i]
         /\ SubSeq(s, m + 1, Len(s)) \in Seq(S)
         /\ Len(SubSeq(s, m + 1, Len(s))) = Len(s) - m
         /\ \A i \in 1..(Len(s) - m) : SubSeq(s, m + 1, Len(s))[i] = s[m + i]
  <1> DEFINE before == SubSeq(s, 1, m)
             after == SubSeq(s, m + 1, Len(s))
  <1>1. Len(s) \in Nat /\ \A i \in 1..Len(s) : s[i] \in S
    BY LenProperties, ElementOfSeq
  <1>2. /\ before \in Seq(S) /\ Len(before) = IF 1 <= m THEN m - 1 + 1 ELSE 0
        /\ \A i \in 1..(m - 1 + 1) : before[i] = s[1 + i - 1]
    BY <1>1, SubSeqProperties
  <1>3. /\ after \in Seq(S) /\ Len(after) = IF m + 1 <= Len(s) THEN Len(s) - (m + 1) + 1 ELSE 0
        /\ \A i \in 1..(Len(s) - (m + 1) + 1) : after[i] = s[(m + 1) + i - 1]
    BY <1>1, SubSeqProperties
  <1> HIDE DEF before, after
  <1>4. Len(before) = m /\ \A i \in 1..m : before[i] = s[i]
    BY <1>1, <1>2
  <1>5. Len(after) = Len(s) - m /\ \A i \in 1..(Len(s) - m) : after[i] = s[m + i]
    BY <1>1, <1>3
  <1> QED
    BY <1>2, <1>3, <1>4, <1>5 DEF before, after

LEMMA DeleteKeepsOnce ==
  ASSUME NEW todo, DeckTodosOK(todo), NEW d \in DOMAIN todo
  PROVE  DeckTodosOK(SubSeq(todo, 1, d - 1) \o SubSeq(todo, d + 1, Len(todo)))
  <1> DEFINE before == SubSeq(todo, 1, d - 1)
             after == SubSeq(todo, d + 1, Len(todo))
             new == before \o after
             from == [i \in DOMAIN new |-> IF i < d THEN i ELSE i + 1]
  <1>1. todo \in Seq(Item) /\ Len(todo) \in Nat /\ d \in 1..Len(todo) /\ DOMAIN todo = 1..Len(todo)
    BY LenProperties DEF DeckTodosOK
  <1>2. /\ before \in Seq(Item) /\ Len(before) = d - 1
        /\ \A i \in 1..(d - 1) : before[i] = todo[i]
    BY <1>1, PartOf
  <1>3. /\ after \in Seq(Item) /\ Len(after) = Len(todo) - d
        /\ \A i \in 1..(Len(todo) - d) : after[i] = todo[d + i]
    <2>1. d \in 0..Len(todo)
      BY <1>1
    <2> QED
      BY <1>1, <2>1, PartOf
  <1> HIDE DEF before, after
  <1>4. /\ new \in Seq(Item) /\ Len(new) = Len(before) + Len(after)
        /\ \A i \in 1..(Len(before) + Len(after)) :
             new[i] = IF i <= Len(before) THEN before[i] ELSE after[i - Len(before)]
    BY <1>2, <1>3, ConcatProperties
  <1>5. DOMAIN new = 1..(Len(todo) - 1)
    <2>1. DOMAIN new = 1..Len(new)
      BY <1>4, LenProperties
    <2>2. Len(new) = Len(todo) - 1
      BY <1>1, <1>2, <1>3, <1>4
    <2> QED
      BY <2>1, <2>2
  <1> HIDE DEF new
  <1>6. ASSUME NEW i \in 1..(Len(todo) - 1)
        PROVE  new[i] = todo[IF i < d THEN i ELSE i + 1]
    <2>1. CASE i < d
      BY <1>1, <1>2, <1>3, <1>4, <2>1
    <2>2. CASE ~(i < d)
      <3>1. /\ i \in 1..(Len(before) + Len(after)) /\ ~(i <= Len(before))
            /\ i - Len(before) = i - (d - 1) /\ i - (d - 1) \in 1..(Len(todo) - d)
            /\ d + (i - (d - 1)) = i + 1
        BY <1>1, <1>2, <1>3, <2>2
      <3>2. new[i] = after[i - (d - 1)]
        BY <1>4, <3>1
      <3> QED
        BY <1>3, <2>2, <3>1, <3>2
    <2> QED
      BY <2>1, <2>2
  <1>7. \A i \in DOMAIN new : from[i] \in DOMAIN todo /\ new[i].line = todo[from[i]].line
    BY <1>1, <1>5, <1>6
  <1>8. \A i, j \in DOMAIN new : from[i] = from[j] => i = j
    BY <1>1, <1>5
  <1>9. TasksOnce(todo)
    BY DEF DeckTodosOK
  <1> HIDE DEF from
  <1>10. TasksOnce(new)
    BY <1>7, <1>8, <1>9, TakenFromKeepsOnce
  <1> QED
    BY <1>4, <1>10 DEF DeckTodosOK, new, before, after

LEMMA FreshLinesAreNew ==
  ASSUME NEW tasks \in Seq(PlanLines), NEW todo
  PROVE  /\ IsFiniteSet(Fresh(tasks, todo)) /\ Fresh(tasks, todo) \subseteq PlanLines
         /\ \A l \in Fresh(tasks, todo) : \A i \in DOMAIN todo : DeckKey(todo[i].line) # DeckKey(l)
         /\ \A l, m \in Fresh(tasks, todo) : DeckKey(l) = DeckKey(m) => l = m
  <1> DEFINE firsts == {j \in DOMAIN tasks :
                          /\ DeckKey(tasks[j]) \notin Seen(todo)
                          /\ \A k \in 1..(j - 1) : DeckKey(tasks[k]) # DeckKey(tasks[j])}
             line == [j \in firsts |-> tasks[j]]
  <1>1. DOMAIN tasks = 1..Len(tasks) /\ Len(tasks) \in Nat
    BY LenProperties
  <1>2. IsFiniteSet(firsts)
    <2>1. IsFiniteSet(1..Len(tasks)) /\ firsts \subseteq 1..Len(tasks)
      BY <1>1, FS_Interval
    <2> HIDE DEF firsts
    <2> QED
      BY <2>1, FS_Subset
  <1>3. Fresh(tasks, todo) = {line[j] : j \in firsts}
    BY DEF Fresh
  <1>4. IsFiniteSet({line[j] : j \in firsts})
    <2> HIDE DEF firsts
    <2>1. line \in Surjection(firsts, {line[j] : j \in firsts})
      BY DEF Surjection
    <2> QED
      BY <1>2, <2>1, FS_Surjection
  <1>5. \A l \in Fresh(tasks, todo) : \E j \in firsts : l = tasks[j]
    BY <1>3
  <1>6. \A j \in firsts : tasks[j] \in PlanLines
    BY <1>1, ElementOfSeq
  <1>7. \A j \in firsts : \A i \in DOMAIN todo : DeckKey(todo[i].line) # DeckKey(tasks[j])
    BY DEF Seen, Keys
  <1>8. ASSUME NEW j \in firsts, NEW k \in firsts, DeckKey(tasks[j]) = DeckKey(tasks[k])
        PROVE  j = k
    <2>1. j \in Nat /\ k \in Nat /\ j >= 1 /\ k >= 1
      BY <1>1
    <2>2. ~(j < k) /\ ~(k < j)
      <3>1. j < k => j \in 1..(k - 1)
        BY <2>1
      <3>2. k < j => k \in 1..(j - 1)
        BY <2>1
      <3> QED
        BY <1>8, <3>1, <3>2
    <2> QED
      BY <2>1, <2>2
  <1> HIDE DEF firsts
  <1> QED
    BY <1>3, <1>4, <1>5, <1>6, <1>7, <1>8

LEMMA ExportKeepsOnce ==
  ASSUME NEW tasks \in Seq(PlanLines), NEW todo, DeckTodosOK(todo),
         NEW fresh \in Orders(Fresh(tasks, todo)), NEW at \in 0..Len(todo)
  PROVE  DeckTodosOK(AppendTodos(todo, fresh, at))
  <1> DEFINE lines == Fresh(tasks, todo)
             n == Cardinality(lines)
             before == SubSeq(todo, 1, at)
             added == [i \in DOMAIN fresh |-> [line |-> fresh[i], done |-> FALSE]]
             after == SubSeq(todo, at + 1, Len(todo))
             new == before \o added \o after
  <1>1. todo \in Seq(Item) /\ Len(todo) \in Nat /\ DOMAIN todo = 1..Len(todo) /\ TasksOnce(todo)
    BY LenProperties DEF DeckTodosOK
  <1>2. /\ IsFiniteSet(lines) /\ lines \subseteq PlanLines
        /\ \A l \in lines : \A i \in DOMAIN todo : DeckKey(todo[i].line) # DeckKey(l)
        /\ \A l, m \in lines : DeckKey(l) = DeckKey(m) => l = m
    BY FreshLinesAreNew
  <1>3. n \in Nat
    BY <1>2, FS_CardinalityType
  <1>4. /\ fresh \in [1..n -> lines]
        /\ \A i, j \in DOMAIN fresh : fresh[i] = fresh[j] => i = j
    BY DEF Orders
  <1> HIDE DEF lines, n
  <1>5. /\ before \in Seq(Item) /\ Len(before) = at /\ \A i \in 1..at : before[i] = todo[i]
        /\ after \in Seq(Item) /\ Len(after) = Len(todo) - at
        /\ \A i \in 1..(Len(todo) - at) : after[i] = todo[at + i]
    BY <1>1, PartOf
  <1>6. added \in [1..n -> Item] /\ \A i \in 1..n : added[i].line = fresh[i]
    BY <1>2, <1>4 DEF Item
  <1> HIDE DEF before, added, after
  <1>7. added \in Seq(Item) /\ Len(added) = n
    <2>1. added \in Seq(Item)
      BY <1>3, <1>6, SeqDef
    <2> QED
      BY <1>3, <1>6, <2>1, LenProperties
  <1>8. /\ before \o added \in Seq(Item) /\ Len(before \o added) = at + n
        /\ \A i \in 1..(at + n) :
             (before \o added)[i] = IF i <= at THEN before[i] ELSE added[i - at]
    <2> DEFINE size == Len(before)
               rest == Len(added)
    <2>1. /\ before \o added \in Seq(Item) /\ Len(before \o added) = size + rest
          /\ \A i \in 1..(size + rest) :
               (before \o added)[i] = IF i <= size THEN before[i] ELSE added[i - size]
      BY <1>5, <1>7, ConcatProperties
    <2> HIDE DEF size, rest
    <2>2. size = at /\ rest = n
      BY <1>5, <1>7 DEF size, rest
    <2> QED
      BY <2>1, <2>2
  <1> DEFINE most == before \o added
  <1> HIDE DEF most
  <1>9. /\ most \o after \in Seq(Item) /\ Len(most \o after) = at + n + (Len(todo) - at)
        /\ \A i \in 1..(at + n + (Len(todo) - at)) :
             (most \o after)[i] = IF i <= at + n THEN most[i] ELSE after[i - (at + n)]
    <2>1. most \in Seq(Item) /\ Len(most) = at + n /\ after \in Seq(Item)
          /\ Len(after) = Len(todo) - at
      BY <1>5, <1>8 DEF most
    <2> DEFINE size == Len(most)
               rest == Len(after)
    <2>2. /\ most \o after \in Seq(Item) /\ Len(most \o after) = size + rest
          /\ \A i \in 1..(size + rest) :
               (most \o after)[i] = IF i <= size THEN most[i] ELSE after[i - size]
      BY <2>1, ConcatProperties
    <2> HIDE DEF size, rest
    <2>3. size = at + n /\ rest = Len(todo) - at
      BY <2>1 DEF size, rest
    <2> QED
      BY <2>2, <2>3
  <1>10. new = most \o after
    BY DEF most
  <1> HIDE DEF new
  <1>11. DOMAIN new = 1..(Len(todo) + n) /\ new \in Seq(Item)
    <2>1. DOMAIN new = 1..Len(new)
      BY <1>9, <1>10, LenProperties
    <2>2. Len(new) = at + n + (Len(todo) - at)
      BY <1>9, <1>10
    <2>3. Len(new) = Len(todo) + n
      BY <1>1, <1>3, <2>2
    <2> QED
      BY <1>9, <1>10, <2>1, <2>3
  <1>12. ASSUME NEW i \in 1..(Len(todo) + n)
         PROVE  /\ i <= at => new[i] = todo[i]
                /\ at < i /\ i <= at + n => new[i].line = fresh[i - at]
                /\ at + n < i => new[i] = todo[i - n]
    <2>0. at \in Nat /\ i \in Nat /\ i >= 1
      BY <1>1, <1>3
    <2>1. CASE i <= at
      <3>1. i \in 1..at /\ i \in 1..(at + n) /\ i \in 1..(at + n + (Len(todo) - at)) /\ i <= at + n
        BY <1>1, <1>3, <2>0, <2>1
      <3>2. new[i] = todo[i]
        BY <1>5, <1>8, <1>9, <1>10, <2>1, <3>1 DEF most
      <3> QED
        BY <1>1, <1>3, <2>0, <2>1, <3>2
    <2>2. CASE at < i /\ i <= at + n
      <3>1. /\ i \in 1..(at + n) /\ i \in 1..(at + n + (Len(todo) - at)) /\ ~(i <= at)
            /\ i - at \in 1..n
        BY <1>1, <1>3, <2>0, <2>2
      <3>2. new[i].line = fresh[i - at]
        BY <1>6, <1>8, <1>9, <1>10, <2>2, <3>1 DEF most
      <3> QED
        BY <1>1, <1>3, <2>0, <2>2, <3>2
    <2>3. CASE at + n < i
      <3>1. /\ i \in 1..(at + n + (Len(todo) - at)) /\ ~(i <= at + n)
            /\ i - (at + n) \in 1..(Len(todo) - at) /\ at + (i - (at + n)) = i - n
        BY <1>1, <1>3, <2>0, <2>3
      <3>2. new[i] = todo[i - n]
        BY <1>5, <1>9, <1>10, <3>1
      <3> QED
        BY <1>1, <1>3, <2>0, <2>3, <3>2
    <2> QED
      BY <1>3, <2>0, <2>1, <2>2, <2>3
  <1> DEFINE from == [i \in DOMAIN new |-> IF i <= at THEN i ELSE i - n]
             Old(i) == i <= at \/ at + n < i
  <1>13. ASSUME NEW i \in DOMAIN new, NEW j \in DOMAIN new,
                new[i].line \in PlanLines, DeckKey(new[i].line) = DeckKey(new[j].line)
         PROVE  i = j
    <2>0. at \in Nat /\ i \in 1..(Len(todo) + n) /\ j \in 1..(Len(todo) + n)
      BY <1>1, <1>11
    <2>1. ASSUME NEW k \in DOMAIN new, Old(k)
          PROVE  from[k] \in DOMAIN todo /\ new[k] = todo[from[k]]
      <3>1. k \in 1..(Len(todo) + n)
        BY <1>11
      <3>2. from[k] = IF k <= at THEN k ELSE k - n
        OBVIOUS
      <3>3. CASE k <= at
        <4>1. k \in 1..Len(todo)
          BY <1>1, <2>0, <3>1, <3>3
        <4> QED
          BY <1>1, <1>12, <3>1, <3>2, <3>3, <4>1
      <3>4. CASE at + n < k
        <4>1. k - n \in 1..Len(todo) /\ ~(k <= at)
          BY <1>1, <1>3, <2>0, <3>1, <3>4
        <4> QED
          BY <1>1, <1>12, <3>1, <3>2, <3>4, <4>1
      <3> QED
        BY <2>1, <3>3, <3>4
    <2>2. ASSUME NEW k \in DOMAIN new, ~Old(k)
          PROVE  k - at \in 1..n /\ new[k].line = fresh[k - at] /\ fresh[k - at] \in lines
      <3>1. k \in 1..(Len(todo) + n)
        BY <1>11
      <3>2. at < k /\ k <= at + n /\ k - at \in 1..n
        BY <1>1, <1>3, <2>0, <2>2, <3>1
      <3> QED
        BY <1>4, <1>12, <3>1, <3>2
    <2>3. CASE Old(i) /\ Old(j)
      <3>1. from[i] = from[j]
        <4> HIDE DEF from, Old
        <4> QED
          BY <1>1, <1>13, <2>1, <2>3 DEF TasksOnce
      <3> QED
        BY <1>3, <1>11, <2>0, <2>3, <3>1
    <2>4. CASE ~Old(i) /\ ~Old(j)
      <3>1. fresh[i - at] = fresh[j - at]
        <4> HIDE DEF Old
        <4> QED
          BY <1>2, <1>13, <2>2, <2>4
      <3>2. i - at = j - at
        BY <1>4, <2>2, <2>4, <3>1
      <3> QED
        BY <2>0, <3>2
    <2>5. CASE (Old(i) /\ ~Old(j)) \/ (~Old(i) /\ Old(j))
      <3> HIDE DEF from, Old
      <3> QED
        BY <1>2, <1>13, <2>1, <2>2, <2>5
    <2> QED
      BY <2>3, <2>4, <2>5
  <1>14. TasksOnce(new)
    BY <1>13 DEF TasksOnce
  <1> QED
    BY <1>11, <1>14 DEF DeckTodosOK, AppendTodos, new, before, added, after

\* The steps: most leave todo.md and what the exports read of it alone.
LEMMA DeckFrame ==
  ASSUME DeckInv, UNCHANGED <<todoFile, deckExport>>
  PROVE  DeckInv'
  BY DEF DeckInv

LEMMA TodoWritten ==
  ASSUME DeckInv, DeckTodosOK(todoFile'), UNCHANGED deckExport
  PROVE  DeckInv'
  BY DEF DeckInv

LEMMA DeckEditsKeep == DeckInv /\ DeckEdits => DeckInv'
  <1> SUFFICES ASSUME DeckInv, DeckEdits
               PROVE  DeckInv'
    OBVIOUS
  <1>0. DeckTodosOK(todoFile)
    BY DEF DeckInv
  <1>1. ASSUME NEW s \in Skills, CreateRequest(s) \/ UpdateSkills(s)
        PROVE  DeckInv'
    BY <1>1, EmptyTodo, DeckFrame, TodoWritten DEF CreateRequest, CreateDeckTentacle, UpdateSkills
  <1>2. CASE DeleteDeckTentacle
    BY <1>2, EmptyTodo, TodoWritten DEF DeleteDeckTentacle
  <1>3. ASSUME NEW i \in DOMAIN todoFile, DeleteTodoItem(i)
        PROVE  DeckInv'
    BY <1>0, <1>3, DeleteKeepsOnce, TodoWritten DEF DeleteTodoItem, WriteTodo
  <1>4. ASSUME NEW i \in DOMAIN todoFile, NEW done \in BOOLEAN, ToggleTodoItem(i, done)
        PROVE  DeckInv'
    BY <1>0, <1>4, ToggleKeepsOnce, TodoWritten DEF ToggleTodoItem, WriteTodo
  <1>5. ASSUME NEW h \in HandLines, AddTodoItem(h)
        PROVE  DeckInv'
    BY <1>0, <1>5, AddKeepsOnce, TodoWritten DEF AddTodoItem, WriteTodo
  <1>6. ASSUME NEW h \in HandLines, NEW i \in DOMAIN todoFile, EditTodoItem(i, h)
        PROVE  DeckInv'
    BY <1>0, <1>6, EditKeepsOnce, TodoWritten DEF EditTodoItem, WriteTodo
  <1> QED
    BY <1>1, <1>2, <1>3, <1>4, <1>5, <1>6 DEF DeckEdits

LEMMA DeckAgentsKeep == DeckInv /\ DeckAgentSteps => DeckInv'
  BY DeckFrame DEF DeckAgentSteps, SolveChecks, SolveCreates, SwarmReads, SwarmChecks, SwarmCreates,
     AgentDeleted, CoordinatorSpawns, deckFiles

LEMMA ExportRecords ==
  ASSUME DeckInv, NEW x \in Plans, NEW record,
         DOMAIN record = ExportFields, DeckTodosOK(record.todo),
         deckExport' = [deckExport EXCEPT ![x] = record], DeckTodosOK(todoFile')
  PROVE  DeckInv'
  BY DEF DeckInv

LEMMA DeckExportsKeep == DeckInv /\ DeckExportSteps => DeckInv'
  <1> SUFFICES ASSUME DeckInv, NEW x \in Plans,
                      \/ EnsureTentacle(x) \/ ExportCreates(x)
                      \/ ExportReadsContext(x) \/ ExportWritesContext(x)
                      \/ ExportReadsTodo(x) \/ ExportWritesTodo(x)
               PROVE  DeckInv'
    BY DEF DeckExportSteps
  <1>0. /\ DeckTodosOK(todoFile) /\ DeckTodosOK(deckExport[x].todo) /\ DOMAIN deckExport = Plans
        /\ DOMAIN deckExport[x] = ExportFields
        /\ DeckTodosOK(Unstarted.todo) /\ DOMAIN Unstarted = ExportFields
    BY EmptyTodo DEF DeckInv, Unstarted, ExportFields
  <1>1. CASE EnsureTentacle(x)
    BY <1>0, <1>1 DEF EnsureTentacle, ExportAt, deckFiles, DeckInv, ExportFields
  <1>2. CASE ExportCreates(x)
    BY <1>0, <1>2, EmptyTodo DEF ExportCreates, CreateDeckTentacle, deckFiles, DeckInv, ExportFields
  <1>3. CASE ExportReadsContext(x)
    BY <1>0, <1>3 DEF ExportReadsContext, DeckInv, ExportFields
  <1>4. CASE ExportWritesContext(x)
    BY <1>0, <1>4 DEF ExportWritesContext, DeckInv, ExportFields
  <1>5. CASE ExportReadsTodo(x)
    BY <1>0, <1>5 DEF ExportReadsTodo, deckFiles, DeckInv, ExportFields
  <1>6. CASE ExportWritesTodo(x)
    <2> DEFINE read == deckExport[x].todo
    <2>1. PICK fresh \in Orders(Fresh(PlanTasks[x], read)), at \in 0..Len(read) :
            todoFile' \in {AppendTodos(read, fresh, at), todoFile}
      BY <1>6 DEF ExportWritesTodo
    <2>2. DeckTodosOK(todoFile')
      BY <1>0, <2>1, ExportKeepsOnce, DeckAssumption
    <2> QED
      BY <1>0, <1>6, <2>2, ExportRecords DEF ExportWritesTodo
  <1> QED
    BY <1>1, <1>2, <1>3, <1>4, <1>5, <1>6

LEMMA DeckStep == DeckInv /\ [DeckNext]_deckVars => DeckInv'
  <1>1. DeckInv /\ UNCHANGED deckVars => DeckInv'
    BY DeckFrame DEF deckVars
  <1> QED
    BY <1>1, DeckEditsKeep, DeckAgentsKeep, DeckExportsKeep DEF DeckNext

\* "Applying twice adds nothing" (applyHandoff.ts:3), for any plans, exports and edits
\* of the deck in between.
THEOREM TasksAreThereOnce == DeckSpec => []PlanTasksOnce
  <1>1. DeckInit => DeckInv
    BY EmptyTodo DEF DeckInit, DeckInv, Unstarted, ExportFields
  <1>2. DeckInv => PlanTasksOnce
    BY DEF DeckInv, DeckTodosOK, PlanTasksOnce
  <1> QED
    BY <1>1, <1>2, DeckStep, PTL DEF DeckSpec

-----------------------------------------------------------------------------
(* The worktrees.  Every worktree terminal has a worktree that no other     *)
(* worktree terminal has, so a delete that stops half way takes with it the *)
(* work of the terminals it removed and no more.  What origin's branches    *)
(* have comes from where their history says, so a sync brings no other.     *)

GitTerminal == [id : Numbers, tentacle : Numbers, parent : Places, effective : Numbers,
                mode : {"shared", "worktree"}]
GitAsk == [id : Places, tentacle : Places, worktree : Places, parent : Places, base : Places,
           mode : {"shared", "worktree"}]
Work == Pieces \cup OtherPieces
Checkout == [dir : BOOLEAN, branch : BOOLEAN, dirty : SUBSET Work, head : SUBSET Work,
             rebase : BOOLEAN, todo : SUBSET Work, before : SUBSET Work]
Remote == [exists : BOOLEAN, has : SUBSET Work, from : SUBSET Places, rewritten : BOOLEAN]
PullRequest == [state : {"none", "open", "draft", "closed", "merged"}, base : Places]
ServedTypes ==
  /\ shellIn \in [Numbers -> Places \cup {NoDirectory}]
  /\ swarmRequest # NoRequest => swarmRequest \in GitAsk
  /\ pull \in [Numbers -> PullRequest]
GitTypes ==
  /\ ServedTypes
  /\ gitTerminals \in Seq(GitTerminal)
  /\ checkout \in [Places -> Checkout]
  /\ remoteBranch \in [Numbers -> Remote]
  /\ originMain \in SUBSET Work
  /\ madeIn \in [Pieces -> Places \cup {NotMade}]
  /\ lineage \in [Places -> SUBSET Places]
OwnTrees ==
  /\ \A i, k \in DOMAIN gitTerminals : gitTerminals[i].id = gitTerminals[k].id => i = k
  /\ \A t \in ToSet(gitTerminals) : t.parent # t.id
  /\ \A t, u \in ToSet(gitTerminals) :
       t.mode = "worktree" /\ u.mode = "worktree" /\ t.effective = u.effective => t = u
  /\ \A t \in ToSet(gitTerminals) :
       t.mode = "worktree" => checkout[t.effective].dir \/ checkout[t.effective].branch
NothingElsewhere ==
  \A p \in Places : /\ ~checkout[p].dir /\ ~checkout[p].branch => In(p) = {}
                    /\ ~checkout[p].rebase => checkout[p].todo = {}
                    /\ checkout[p].before \subseteq In(p)
PushedWork ==
  \A q \in Numbers, w \in Pieces :
    w \in remoteBranch[q].has => madeIn[w] \in remoteBranch[q].from \/ w \in originMain
GitInv == GitTypes /\ OwnTrees /\ NothingElsewhere /\ PushedWork /\ WorkStaysInItsWorktree

Increasing(f, size) == \A i, k \in 1..size : i < k => f[i] < f[k]

\* Positions can be put in order.
LEMMA PositionsInOrder ==
  ASSUME NEW len \in Nat, NEW P \in SUBSET (1..len)
  PROVE  /\ Cardinality(P) \in Nat
         /\ \E f \in [1..Cardinality(P) -> P] : Increasing(f, Cardinality(P))
  <1> DEFINE Ordered(Q) == \E f \in [1..Cardinality(Q) -> Q] : Increasing(f, Cardinality(Q))
             S == {n \in 0..len : \A Q \in SUBSET (1..n) : Ordered(Q)}
  <1>1. \A n \in Nat : \A Q \in SUBSET (1..n) : IsFiniteSet(Q) /\ Cardinality(Q) \in Nat
    <2> TAKE n \in Nat
    <2>1. IsFiniteSet(1..n)
      BY FS_Interval
    <2> QED
      BY <2>1, FS_Subset, FS_CardinalityType
  <1>2. 0 \in S
    <2>1. ASSUME NEW Q \in SUBSET (1..0) PROVE Ordered(Q)
      <3>1. Q = {}
        OBVIOUS
      <3>2. Cardinality(Q) = 0
        BY <3>1, FS_EmptySet
      <3> DEFINE f == [i \in 1..0 |-> 0]
      <3>3. f \in [1..0 -> {}] /\ Increasing(f, 0)
        BY DEF Increasing
      <3> QED
        BY <3>1, <3>2, <3>3
    <2> QED
      BY <2>1
  <1>3. ASSUME NEW n \in 0..len, n \in S, n < len PROVE n + 1 \in S
    <2>1. ASSUME NEW Q \in SUBSET (1..(n + 1)) PROVE Ordered(Q)
      <3> DEFINE R == Q \ {n + 1}
                 c == Cardinality(R)
      <3>1. R \in SUBSET (1..n) /\ n \in Nat
        OBVIOUS
      <3>2. IsFiniteSet(R) /\ c \in Nat
        BY <1>1, <3>1
      <3>3. PICK f \in [1..c -> R] : Increasing(f, c)
        BY <1>3, <3>1
      <3>4. CASE n + 1 \notin Q
        <4>1. R = Q
          BY <3>4
        <4> QED
          BY <3>3, <4>1
      <3>5. CASE n + 1 \in Q
        <4>1. Q = R \cup {n + 1} /\ n + 1 \notin R
          BY <3>5
        <4> HIDE DEF R
        <4>2. Cardinality(Q) = c + 1
          BY <3>2, <4>1, FS_AddElement
        <4> HIDE DEF c
        <4> DEFINE g == [i \in 1..(c + 1) |-> IF i = c + 1 THEN n + 1 ELSE f[i]]
        <4>3. \A i \in 1..(c + 1) : i # c + 1 => i \in 1..c
          BY <3>2
        <4>4. \A i \in 1..c : f[i] \in R /\ f[i] \in 1..n
          BY <3>1, <3>3
        <4>5. g \in [1..(c + 1) -> Q]
          BY <3>3, <4>1, <4>3
        <4>6. ASSUME NEW i \in 1..(c + 1), NEW k \in 1..(c + 1), i < k PROVE g[i] < g[k]
          <5>1. i \in 1..c /\ g[i] = f[i] /\ f[i] <= n
            BY <3>2, <4>4, <4>6
          <5>2. CASE k = c + 1
            BY <3>1, <4>4, <5>1, <5>2
          <5>3. CASE k # c + 1
            BY <3>3, <4>3, <4>6, <5>1, <5>3 DEF Increasing
          <5> QED
            BY <5>2, <5>3
        <4> HIDE DEF g
        <4> QED
          BY <4>2, <4>5, <4>6 DEF Increasing
      <3> QED
        BY <3>4, <3>5
    <2> QED
      BY <1>3, <2>1
  <1> HIDE DEF S
  <1>4. len \in S
    BY <1>2, <1>3, AllUpTo
  <1> QED
    BY <1>1, <1>4 DEF S

\* What the terminals at some positions are.
LEMMA ChosenTerminals ==
  ASSUME gitTerminals \in Seq(GitTerminal), NEW P \in SUBSET DOMAIN gitTerminals
  PROVE  /\ TerminalsAt(P) \in Seq(GitTerminal)
         /\ ToSet(TerminalsAt(P)) = {gitTerminals[i] : i \in P}
         /\ \A j, k \in DOMAIN TerminalsAt(P) : j # k =>
              \E a, b \in P : a # b /\ TerminalsAt(P)[j] = gitTerminals[a]
                                    /\ TerminalsAt(P)[k] = gitTerminals[b]
  <1> DEFINE n == Cardinality(P)
             at == CHOOSE f \in [1..n -> P] : \A i, k \in 1..n : i < k => f[i] < f[k]
             line == [i \in 1..n |-> gitTerminals[at[i]]]
  <1>1. Len(gitTerminals) \in Nat /\ P \in SUBSET (1..Len(gitTerminals))
        /\ \A i \in P : i \in Nat /\ gitTerminals[i] \in GitTerminal
    OBVIOUS
  <1>2. n \in Nat /\ IsFiniteSet(P) /\ \E f \in [1..n -> P] : Increasing(f, n)
    <2>1. IsFiniteSet(1..Len(gitTerminals))
      BY <1>1, FS_Interval
    <2>2. IsFiniteSet(P)
      BY <1>1, <2>1, FS_Subset
    <2> HIDE DEF n
    <2>3. Cardinality(P) \in Nat
          /\ \E f \in [1..Cardinality(P) -> P] : Increasing(f, Cardinality(P))
      BY <1>1, PositionsInOrder
    <2> QED
      BY <2>2, <2>3 DEF n
  <1>3. at \in [1..n -> P] /\ \A i, k \in 1..n : i < k => at[i] < at[k]
    BY <1>2 DEF Increasing
  <1>4. TerminalsAt(P) = line
    BY DEF TerminalsAt
  <1> HIDE DEF at
  <1>5. \A i, k \in 1..n : i # k => at[i] # at[k]
    <2> TAKE i, k \in 1..n
    <2>1. at[i] \in Nat /\ at[k] \in Nat /\ i \in Nat /\ k \in Nat
      BY <1>1, <1>2, <1>3
    <2>2. i < k => at[i] < at[k]
      BY <1>3
    <2>3. k < i => at[k] < at[i]
      BY <1>3
    <2> QED
      BY <2>1, <2>2, <2>3
  <1>6. \A p \in P : \E i \in 1..n : at[i] = p
    <2>1. at \in Injection(1..n, P)
      BY <1>3, <1>5 DEF Injection, IsInjective
    <2>2. Cardinality(1..n) = n
      BY <1>2, FS_Interval
    <2>3. at \in Surjection(1..n, P)
      BY <1>2, <2>1, <2>2, FS_Injection
    <2> QED
      BY <2>3 DEF Surjection
  <1>7. line \in Seq(GitTerminal) /\ DOMAIN line = 1..n
        /\ \A i \in 1..n : line[i] = gitTerminals[at[i]] /\ at[i] \in P
    <2>1. \A i \in 1..n : at[i] \in P /\ gitTerminals[at[i]] \in GitTerminal
      BY <1>1, <1>3
    <2> QED
      BY <1>2, <2>1
  <1> HIDE DEF line, n
  <1>8. ToSet(line) = {gitTerminals[i] : i \in P}
    BY <1>6, <1>7 DEF ToSet
  <1> QED
    BY <1>4, <1>5, <1>7, <1>8

\* The cascade of a terminal: registered terminals, each once.
LEMMA CascadeOnce ==
  ASSUME GitTypes, OwnTrees, NEW t \in ToSet(gitTerminals)
  PROVE  /\ GitCascade(t) \in Seq(GitTerminal)
         /\ ToSet(GitCascade(t)) \subseteq ToSet(gitTerminals)
         /\ \A j, k \in DOMAIN GitCascade(t) : j # k => GitCascade(t)[j] # GitCascade(t)[k]
  <1> DEFINE P == {i \in DOMAIN gitTerminals : gitTerminals[i].parent = t.id}
             rest == TerminalsAt(P)
             all == <<t>> \o rest
  <1>1. gitTerminals \in Seq(GitTerminal) /\ P \in SUBSET DOMAIN gitTerminals /\ t \in GitTerminal
    BY DEF GitTypes, ToSet
  <1>2. GitCascade(t) = all
    BY DEF GitCascade
  <1>3. /\ rest \in Seq(GitTerminal) /\ ToSet(rest) = {gitTerminals[i] : i \in P}
        /\ \A j, k \in DOMAIN rest : j # k =>
             \E a, b \in P : a # b /\ rest[j] = gitTerminals[a] /\ rest[k] = gitTerminals[b]
    <2> HIDE DEF P
    <2> QED
      BY <1>1, ChosenTerminals
  <1>4. \A i \in DOMAIN rest : rest[i] \in ToSet(gitTerminals) /\ rest[i] # t
    <2> TAKE i \in DOMAIN rest
    <2>1. rest[i] \in ToSet(rest)
      BY DEF ToSet
    <2>2. PICK a \in P : rest[i] = gitTerminals[a]
      BY <1>3, <2>1
    <2>3. rest[i] \in ToSet(gitTerminals) /\ rest[i].parent = t.id
      BY <2>2 DEF ToSet
    <2> QED
      BY <2>3 DEF OwnTrees
  <1>5. \A j, k \in DOMAIN rest : j # k => rest[j] # rest[k]
    <2> TAKE j, k \in DOMAIN rest
    <2> HAVE j # k
    <2>1. PICK a, b \in P : a # b /\ rest[j] = gitTerminals[a] /\ rest[k] = gitTerminals[b]
      BY <1>3
    <2> QED
      BY <2>1 DEF OwnTrees
  <1> HIDE DEF P, rest
  <1>6. <<t>> \in Seq(GitTerminal) /\ Len(<<t>>) = 1 /\ <<t>>[1] = t /\ Len(rest) \in Nat
        /\ DOMAIN rest = 1..Len(rest)
    BY <1>1, <1>3
  <1>7. /\ all \in Seq(GitTerminal) /\ DOMAIN all = 1..(1 + Len(rest)) /\ all[1] = t
        /\ \A i \in 1..(1 + Len(rest)) : i # 1 => i - 1 \in DOMAIN rest /\ all[i] = rest[i - 1]
    BY <1>1, <1>3, <1>6
  <1> HIDE DEF all
  <1>8. \A i \in DOMAIN all : all[i] \in ToSet(gitTerminals)
    BY <1>4, <1>7
  <1>9. ASSUME NEW j \in DOMAIN all, NEW k \in DOMAIN all, j # k PROVE all[j] # all[k]
    <2>1. CASE j = 1
      BY <1>4, <1>7, <1>9, <2>1
    <2>2. CASE k = 1
      BY <1>4, <1>7, <1>9, <2>2
    <2>3. CASE j # 1 /\ k # 1
      <3>1. j - 1 \in DOMAIN rest /\ k - 1 \in DOMAIN rest /\ all[j] = rest[j - 1]
            /\ all[k] = rest[k - 1]
        BY <1>7, <2>3
      <3>2. j - 1 # k - 1
        BY <1>6, <1>7, <1>9
      <3> QED
        BY <1>5, <3>1, <3>2
    <2> QED
      BY <2>1, <2>2, <2>3
  <1> QED
    BY <1>2, <1>7, <1>8, <1>9 DEF ToSet

LEMMA PlacesApart ==
  /\ Numbers \subseteq Nat /\ Workspace \notin Numbers /\ NotMade \notin Places
  /\ Numbers \subseteq Places /\ Workspace \in Places /\ AskedIds \subseteq Places
  /\ NoDirectory \notin Places /\ \A p \in Places : p # 0 => p \in Numbers
  BY GitAssumption DEF Numbers, Workspace, Places, NotMade, NoDirectory

LEMMA RegisteredTerminals ==
  ASSUME NEW q \in Seq(GitTerminal)
  PROVE  \A t \in ToSet(q) : /\ t \in GitTerminal /\ t.effective \in Numbers
                              /\ t.id \in Numbers /\ \E i \in DOMAIN q : q[i] = t
  <1> SUFFICES ASSUME NEW t \in ToSet(q)
               PROVE  t \in GitTerminal /\ \E i \in DOMAIN q : q[i] = t
    BY DEF GitTerminal
  <1>1. PICK i \in DOMAIN q : t = q[i]
    BY DEF ToSet
  <1> QED
    BY <1>1

\* Where a piece of work is in some checkouts.
Holds(c, q) == c[q].dirty \cup c[q].head \cup c[q].todo

LEMMA InHolds == \A q : In(q) = Holds(checkout, q) /\ In(q)' = Holds(checkout', q)
  BY DEF In, Holds

\* One directory changes, and is still there.
LEMMA OnePlaceChanges ==
  ASSUME GitTypes, OwnTrees, NothingElsewhere, NEW p \in Places, NEW r \in Checkout,
         checkout' = [checkout EXCEPT ![p] = r], gitTerminals' = gitTerminals,
         r.dir = checkout[p].dir, r.branch = checkout[p].branch,
         ~r.dir /\ ~r.branch => r.dirty \cup r.head \cup r.todo = {},
         ~r.rebase => r.todo = {}, r.before \subseteq r.dirty \cup r.head \cup r.todo
  PROVE  /\ checkout' \in [Places -> Checkout] /\ OwnTrees' /\ NothingElsewhere'
         /\ Holds(checkout', p) = r.dirty \cup r.head \cup r.todo
         /\ \A q \in Places : q # p => Holds(checkout', q) = Holds(checkout, q)
  <1>1. checkout' \in [Places -> Checkout] /\ checkout'[p] = r
        /\ \A q \in Places : q # p => checkout'[q] = checkout[q]
    BY DEF GitTypes
  <1>2. \A q \in Places : checkout'[q].dir = checkout[q].dir
                          /\ checkout'[q].branch = checkout[q].branch
    BY <1>1
  <1>3. \A t \in ToSet(gitTerminals) : t.effective \in Places
    BY PlacesApart, RegisteredTerminals DEF GitTypes
  <1>4. OwnTrees'
    BY <1>2, <1>3 DEF OwnTrees
  <1>5. Holds(checkout', p) = r.dirty \cup r.head \cup r.todo
        /\ \A q \in Places : q # p => Holds(checkout', q) = Holds(checkout, q)
    BY <1>1 DEF Holds
  <1>6. NothingElsewhere'
    BY <1>1, <1>5, InHolds DEF NothingElsewhere
  <1> QED
    BY <1>1, <1>4, <1>5, <1>6

LEMMA WorkAfter ==
  ASSUME \A w \in Pieces :
           /\ madeIn'[w] # NotMade /\ w \notin gone' =>
                w \in Holds(checkout', madeIn'[w]) \cup originMain'
           /\ \A q \in Places : w \in Holds(checkout', q) =>
                madeIn'[w] \in {q} \cup lineage'[q] \/ w \in originMain'
  PROVE  WorkStaysInItsWorktree'
  BY DEF WorkStaysInItsWorktree, In, Holds

\* Work that stays where it was done, or is asked to go, and comes to a place from
\* origin's main or from what the place is said to be based on.
LEMMA WorkOnlyMoves ==
  ASSUME WorkStaysInItsWorktree, GitTypes, madeIn' = madeIn, originMain \subseteq originMain',
         gone \subseteq gone',
         \A q \in Places, w \in Pieces :
           /\ madeIn[w] = q /\ w \in Holds(checkout, q) =>
                w \in Holds(checkout', q) \cup originMain' \cup gone'
           /\ w \in Holds(checkout', q) =>
                \/ w \in Holds(checkout, q) /\ lineage[q] \subseteq lineage'[q]
                \/ w \in originMain' \/ madeIn[w] \in {q} \cup lineage'[q]
  PROVE  WorkStaysInItsWorktree'
  <1>1. \A w \in Pieces : madeIn[w] \in Places \cup {NotMade}
    BY DEF GitTypes
  <1>2. \A w \in Pieces :
          /\ madeIn[w] # NotMade /\ w \notin gone =>
               w \in Holds(checkout, madeIn[w]) \cup originMain
          /\ \A q \in Places : w \in Holds(checkout, q) =>
               madeIn[w] \in {q} \cup lineage[q] \/ w \in originMain
    BY InHolds DEF WorkStaysInItsWorktree
  <1>3. \A w \in Pieces :
          /\ madeIn[w] # NotMade /\ w \notin gone' =>
               w \in Holds(checkout', madeIn[w]) \cup originMain'
          /\ \A q \in Places : w \in Holds(checkout', q) =>
               madeIn[w] \in {q} \cup lineage'[q] \/ w \in originMain'
    BY <1>1, <1>2
  <1> QED
    BY <1>3, WorkAfter

\* Origin's branches have what they had, from where they had it.
LEMMA PushedStays ==
  ASSUME PushedWork, madeIn' = madeIn, originMain \subseteq originMain',
         \A q \in Numbers : remoteBranch'[q].has = remoteBranch[q].has
                            /\ remoteBranch'[q].from = remoteBranch[q].from
  PROVE  PushedWork'
  BY DEF PushedWork

LEMMA RewrittenBranches ==
  ASSUME GitTypes, NEW D
  PROVE  /\ Rewritten(D) \in [Numbers -> Remote]
         /\ \A q \in Numbers : Rewritten(D)[q].has = remoteBranch[q].has
                               /\ Rewritten(D)[q].from = remoteBranch[q].from
  <1>1. \A q \in Numbers : remoteBranch[q] \in Remote
    BY DEF GitTypes
  <1>2. ASSUME NEW b \in Remote
        PROVE  LET c == [b EXCEPT !.rewritten = TRUE]
               IN c \in Remote /\ c.has = b.has /\ c.from = b.from
    BY DEF Remote
  <1> QED
    BY <1>1, <1>2 DEF Rewritten

\* What is removed with some terminals.
LEMMA RemovedTerminals ==
  ASSUME GitInv, NEW done \in Seq(GitTerminal), ToSet(done) \subseteq ToSet(gitTerminals),
         Removed(done)
  PROVE  /\ gitTerminals' \in Seq(GitTerminal)
         /\ ToSet(gitTerminals)' = ToSet(gitTerminals) \ ToSet(done)
         /\ \A i, k \in DOMAIN gitTerminals' : gitTerminals'[i].id = gitTerminals'[k].id => i = k
         /\ remoteBranch' \in [Numbers -> Remote]
         /\ \A q \in Numbers : remoteBranch'[q].has = remoteBranch[q].has
                               /\ remoteBranch'[q].from = remoteBranch[q].from
         /\ WorktreesOf(done) \subseteq Numbers
         /\ \A u \in ToSet(gitTerminals)' :
              u.mode = "worktree" => u.effective \notin WorktreesOf(done)
  <1> DEFINE P == {i \in DOMAIN gitTerminals : gitTerminals[i] \notin ToSet(done)}
             D == WorktreesOf(done)
  <1>1. gitTerminals \in Seq(GitTerminal) /\ P \in SUBSET DOMAIN gitTerminals
        /\ gitTerminals' = TerminalsAt(P) /\ remoteBranch' = Rewritten(D)
    BY DEF GitInv, GitTypes, Removed
  <1>2. /\ gitTerminals' \in Seq(GitTerminal) /\ ToSet(gitTerminals') = {gitTerminals[i] : i \in P}
        /\ \A j, k \in DOMAIN gitTerminals' : j # k =>
             \E a, b \in P : a # b /\ gitTerminals'[j] = gitTerminals[a]
                                   /\ gitTerminals'[k] = gitTerminals[b]
    <2> HIDE DEF P
    <2> QED
      BY <1>1, ChosenTerminals
  <1>3. ToSet(gitTerminals)' = ToSet(gitTerminals) \ ToSet(done)
    <2>1. ToSet(gitTerminals)' = {gitTerminals[i] : i \in P}
      <3> HIDE DEF P
      <3> QED
        BY <1>2 DEF ToSet
    <2>2. \A x : x \in ToSet(gitTerminals) <=> \E i \in DOMAIN gitTerminals : gitTerminals[i] = x
      BY DEF ToSet
    <2> QED
      BY <2>1, <2>2
  <1>4. ASSUME NEW i \in DOMAIN gitTerminals', NEW k \in DOMAIN gitTerminals', i # k
        PROVE  gitTerminals'[i].id # gitTerminals'[k].id
    <2>1. PICK a, b \in P : a # b /\ gitTerminals'[i] = gitTerminals[a]
                                  /\ gitTerminals'[k] = gitTerminals[b]
      BY <1>2, <1>4
    <2> QED
      BY <2>1 DEF GitInv, OwnTrees
  <1>5. /\ remoteBranch' \in [Numbers -> Remote]
        /\ \A q \in Numbers : remoteBranch'[q].has = remoteBranch[q].has
                              /\ remoteBranch'[q].from = remoteBranch[q].from
    <2> HIDE DEF P
    <2> QED
      BY <1>1, RewrittenBranches DEF GitInv
  <1>6. D \subseteq Numbers
    BY RegisteredTerminals DEF WorktreesOf, WorktreeOf
  <1>7. ASSUME NEW u \in ToSet(gitTerminals)', u.mode = "worktree" PROVE u.effective \notin D
    <2>1. u \in ToSet(gitTerminals) /\ u \notin ToSet(done)
      BY <1>3
    <2> QED
      BY <1>7, <2>1 DEF WorktreesOf, WorktreeOf, GitInv, OwnTrees
  <1> QED
    BY <1>2, <1>3, <1>4, <1>5, <1>6, <1>7

LEMMA SameCheckouts ==
  ASSUME GitInv, UNCHANGED <<gitTerminals, checkout, madeIn, gone, lineage>>, ServedTypes',
         originMain' \in SUBSET Work, originMain \subseteq originMain',
         remoteBranch' \in [Numbers -> Remote], PushedWork'
  PROVE  GitInv'
  <1>1. GitTypes'
    BY DEF GitInv, GitTypes
  <1>2. OwnTrees' /\ NothingElsewhere'
    BY DEF GitInv, OwnTrees, NothingElsewhere, In
  <1>3. WorkStaysInItsWorktree'
    BY WorkOnlyMoves DEF GitInv
  <1> QED
    BY <1>1, <1>2, <1>3 DEF GitInv

\* Only what is served changes.
LEMMA SameGit ==
  ASSUME GitInv, ServedTypes',
         UNCHANGED <<gitTerminals, checkout, remoteBranch, originMain, historyVars>>
  PROVE  GitInv'
  <1>1. UNCHANGED <<gitTerminals, checkout, madeIn, gone, lineage>>
        /\ originMain' = originMain /\ remoteBranch' = remoteBranch
    BY DEF historyVars
  <1>2. PushedWork'
    BY <1>1, PushedStays DEF GitInv
  <1>3. originMain' \in SUBSET Work /\ remoteBranch' \in [Numbers -> Remote]
    BY <1>1 DEF GitInv, GitTypes
  <1> QED
    BY <1>1, <1>2, <1>3, SameCheckouts

LEMMA InPlaceKeeps ==
  ASSUME GitInv, UNCHANGED <<servedVars, pull, madeIn, gone, originMain>>,
         NEW p \in Places, NEW r \in Checkout, checkout' = [checkout EXCEPT ![p] = r],
         r.dir = checkout[p].dir, r.branch = checkout[p].branch,
         ~r.dir /\ ~r.branch => r.dirty \cup r.head \cup r.todo = {},
         ~r.rebase => r.todo = {}, r.before \subseteq r.dirty \cup r.head \cup r.todo,
         Holds(checkout, p) \subseteq r.dirty \cup r.head \cup r.todo,
         \A w \in Pieces : w \in r.dirty \cup r.head \cup r.todo =>
           w \in Holds(checkout, p) \cup originMain \/ madeIn[w] \in lineage'[p],
         lineage' \in [Places -> SUBSET Places],
         \A q \in Places : lineage[q] \subseteq lineage'[q],
         remoteBranch' \in [Numbers -> Remote],
         \A q \in Numbers : remoteBranch'[q].has = remoteBranch[q].has
                            /\ remoteBranch'[q].from = remoteBranch[q].from
  PROVE  GitInv'
  <1>1. /\ checkout' \in [Places -> Checkout] /\ OwnTrees' /\ NothingElsewhere'
        /\ Holds(checkout', p) = r.dirty \cup r.head \cup r.todo
        /\ \A q \in Places : q # p => Holds(checkout', q) = Holds(checkout, q)
    BY OnePlaceChanges DEF GitInv, servedVars
  <1>2. GitTypes'
    BY <1>1 DEF GitInv, GitTypes, ServedTypes, servedVars
  <1>3. \A q \in Places, w \in Pieces :
          /\ madeIn[w] = q /\ w \in Holds(checkout, q) =>
               w \in Holds(checkout', q) \cup originMain' \cup gone'
          /\ w \in Holds(checkout', q) =>
               \/ w \in Holds(checkout, q) /\ lineage[q] \subseteq lineage'[q]
               \/ w \in originMain' \/ madeIn[w] \in {q} \cup lineage'[q]
    <2> TAKE q \in Places, w \in Pieces
    <2>1. CASE q = p
      BY <1>1, <2>1
    <2>2. CASE q # p
      BY <1>1, <2>2
    <2> QED
      BY <2>1, <2>2
  <1>4. WorkStaysInItsWorktree'
    BY <1>3, WorkOnlyMoves DEF GitInv
  <1>5. PushedWork'
    BY PushedStays DEF GitInv
  <1> QED
    BY <1>1, <1>2, <1>4, <1>5 DEF GitInv

LEMMA CommitKeeps ==
  ASSUME GitInv, NEW p \in Places, checkout[p].dir, CommitAll(p),
         UNCHANGED <<servedVars, remoteBranch, pull, originMain, historyVars>>
  PROVE  GitInv'
  <1> DEFINE c == checkout[p]
             more == c.head \cup c.dirty
             r == [c EXCEPT !.head = more, !.dirty = {}]
  <1>1. c \in Checkout /\ more \in SUBSET Work
    BY DEF GitInv, GitTypes, Checkout
  <1>2. checkout' = [checkout EXCEPT ![p] = r]
    BY DEF CommitAll
  <1>3. more \cup c.todo = Holds(checkout, p)
    BY DEF Holds
  <1>4. (~c.rebase => c.todo = {}) /\ c.before \subseteq Holds(checkout, p)
    BY InHolds DEF GitInv, NothingElsewhere
  <1> HIDE DEF more, c
  <1>5. /\ r \in Checkout /\ r.dir = c.dir /\ r.branch = c.branch /\ r.rebase = c.rebase
        /\ r.todo = c.todo /\ r.dirty = {} /\ r.head = more /\ r.before = c.before
    BY <1>1 DEF Checkout
  <1>6. /\ lineage' = lineage /\ lineage' \in [Places -> SUBSET Places]
        /\ remoteBranch' = remoteBranch /\ remoteBranch' \in [Numbers -> Remote]
        /\ UNCHANGED <<servedVars, pull, madeIn, gone, originMain>>
    BY DEF GitInv, GitTypes, historyVars
  <1> HIDE DEF r
  <1>7. /\ r.dir = checkout[p].dir /\ r.branch = checkout[p].branch /\ r.dir
        /\ ~r.rebase => r.todo = {}
        /\ r.dirty \cup r.head \cup r.todo = Holds(checkout, p)
        /\ r.before \subseteq Holds(checkout, p)
    BY <1>3, <1>4, <1>5 DEF c
  <1> QED
    BY <1>2, <1>5, <1>6, <1>7, InPlaceKeeps

LEMMA ContinueKeeps ==
  ASSUME GitInv, NEW p \in Places, AgentContinues(p)
  PROVE  GitInv'
  <1> DEFINE c == checkout[p]
             more == c.head \cup c.todo \cup c.dirty
             r == [c EXCEPT !.rebase = FALSE, !.todo = {}, !.dirty = {}, !.before = {},
                            !.head = more]
  <1>1. c \in Checkout /\ more \in SUBSET Work
    BY DEF GitInv, GitTypes, Checkout
  <1>2. checkout' = [checkout EXCEPT ![p] = r]
    BY DEF AgentContinues
  <1>3. more = Holds(checkout, p)
    BY DEF Holds
  <1>4. ~c.dir /\ ~c.branch => Holds(checkout, p) = {}
    BY InHolds DEF GitInv, NothingElsewhere
  <1> HIDE DEF more, c
  <1>5. /\ r \in Checkout /\ r.dir = c.dir /\ r.branch = c.branch /\ ~r.rebase
        /\ r.todo = {} /\ r.dirty = {} /\ r.head = more /\ r.before = {}
    BY <1>1 DEF Checkout
  <1>6. /\ lineage' = lineage /\ lineage' \in [Places -> SUBSET Places]
        /\ remoteBranch' = remoteBranch /\ remoteBranch' \in [Numbers -> Remote]
        /\ UNCHANGED <<servedVars, pull, madeIn, gone, originMain>>
    BY DEF GitInv, GitTypes, AgentContinues, historyVars
  <1> HIDE DEF r
  <1>7. /\ r.dir = checkout[p].dir /\ r.branch = checkout[p].branch
        /\ ~r.dir /\ ~r.branch => r.dirty \cup r.head \cup r.todo = {}
        /\ r.dirty \cup r.head \cup r.todo = Holds(checkout, p)
    BY <1>3, <1>4, <1>5 DEF c
  <1> QED
    BY <1>2, <1>5, <1>6, <1>7, InPlaceKeeps

LEMMA OriginTypes ==
  ASSUME GitInv, NEW base \in Places
  PROVE  /\ OriginHas(base) \in SUBSET Work
         /\ base # Workspace => remoteBranch[base].from \in SUBSET Places
         /\ \A w \in Pieces : w \in OriginHas(base) =>
              w \in originMain \/ (base # Workspace /\ madeIn[w] \in remoteBranch[base].from)
  <1>1. CASE base = Workspace
    BY <1>1 DEF OriginHas, GitInv, GitTypes
  <1>2. CASE base # Workspace
    <2>1. base \in Numbers
      BY <1>2, PlacesApart DEF Workspace
    <2>2. remoteBranch[base] \in Remote /\ OriginHas(base) = remoteBranch[base].has
      BY <1>2, <2>1 DEF GitInv, GitTypes, OriginHas
    <2>3. remoteBranch[base].has \in SUBSET Work /\ remoteBranch[base].from \in SUBSET Places
      BY <2>2 DEF Remote
    <2> QED
      BY <1>2, <2>1, <2>2, <2>3 DEF GitInv, PushedWork
  <1> QED
    BY <1>1, <1>2

LEMMA SyncKeeps ==
  ASSUME GitInv, NEW p \in Places, NEW base \in Places, NEW todo \in SUBSET Work,
         checkout[p].dir, ~IsDirty(p),
         todo \subseteq checkout[p].head \ OriginHas(base), SyncWithBase(p, base, todo),
         UNCHANGED <<servedVars, pull, originMain, madeIn, gone>>
  PROVE  GitInv'
  <1> DEFINE c == checkout[p]
             has == OriginHas(base)
             onBase == (c.head \cup has) \ todo
             conflicts == {{w} : w \in todo} \cup IF todo = {} THEN {{}} ELSE {}
             before == IF todo = {} THEN {} ELSE c.head
             brought == IF base = Workspace THEN {} ELSE remoteBranch[base].from
  <1>1. c \in Checkout /\ has \in SUBSET Work /\ brought \in SUBSET Places
        /\ \A w \in Pieces : w \in has => w \in originMain \/ madeIn[w] \in brought
    BY OriginTypes DEF GitInv, GitTypes
  <1>2. c.dirty = {} /\ ~c.rebase /\ c.todo = {}
    BY DEF IsDirty, GitInv, NothingElsewhere
  <1>3. /\ lineage' = [lineage EXCEPT ![p] = @ \cup brought]
        /\ \/ remoteBranch' = remoteBranch \/ remoteBranch' = Rewritten({p})
           \/ p \in Numbers /\ remoteBranch' = [remoteBranch EXCEPT ![p].rewritten = FALSE]
    BY PlacesApart DEF SyncWithBase, Workspace
  <1>4. PICK conflict \in conflicts :
          checkout' = [checkout EXCEPT ![p].head = (@ \cup has) \ todo,
                                       ![p].todo = todo \ conflict, ![p].dirty = conflict,
                                       ![p].rebase = todo # {}, ![p].before = before]
    BY DEF SyncWithBase
  <1>5. conflict \subseteq todo /\ (todo = {} => conflict = {})
    OBVIOUS
  <1> HIDE DEF conflicts, has, brought
  <1> DEFINE stopped == todo # {}
             later == todo \ conflict
             r == [c EXCEPT !.head = onBase, !.todo = later, !.dirty = conflict,
                            !.rebase = stopped, !.before = before]
  <1>6. stopped \in BOOLEAN /\ onBase \in SUBSET Work /\ conflict \in SUBSET Work
        /\ later \in SUBSET Work /\ before \in SUBSET Work
    BY <1>1, <1>5 DEF Checkout
  <1>7. checkout' = [checkout EXCEPT ![p] = r]
    BY <1>4
  <1>8. ~stopped => later = {}
    OBVIOUS
  <1>9. conflict \cup onBase \cup later = c.head \cup has /\ before \subseteq c.head
    BY <1>5 DEF has
  <1>10. Holds(checkout, p) = c.head
    BY <1>2 DEF Holds
  <1> HIDE DEF stopped, onBase, later, before, c
  <1>11. /\ r \in Checkout /\ r.dir = c.dir /\ r.branch = c.branch /\ r.rebase = stopped
         /\ r.todo = later /\ r.dirty = conflict /\ r.head = onBase /\ r.before = before
    BY <1>1, <1>6 DEF Checkout
  <1>12. /\ remoteBranch' \in [Numbers -> Remote]
         /\ \A q \in Numbers : remoteBranch'[q].has = remoteBranch[q].has
                               /\ remoteBranch'[q].from = remoteBranch[q].from
    <2>0. GitTypes /\ remoteBranch \in [Numbers -> Remote]
      BY DEF GitInv, GitTypes
    <2>1. CASE remoteBranch' = remoteBranch
      BY <2>0, <2>1
    <2>2. CASE remoteBranch' = Rewritten({p})
      BY <2>0, <2>2, RewrittenBranches
    <2>3. CASE p \in Numbers /\ remoteBranch' = [remoteBranch EXCEPT ![p].rewritten = FALSE]
      BY <2>0, <2>3 DEF Remote
    <2> QED
      BY <1>3, <2>1, <2>2, <2>3
  <1>13. /\ lineage' \in [Places -> SUBSET Places] /\ brought \subseteq lineage'[p]
         /\ \A q \in Places : lineage[q] \subseteq lineage'[q]
    <2>1. lineage \in [Places -> SUBSET Places]
      BY DEF GitInv, GitTypes
    <2> QED
      BY <1>1, <1>3, <2>1
  <1> HIDE DEF r
  <1>14. /\ r.dir = checkout[p].dir /\ r.branch = checkout[p].branch /\ r.dir
         /\ ~r.rebase => r.todo = {}
         /\ r.dirty \cup r.head \cup r.todo = c.head \cup has
         /\ r.before \subseteq r.dirty \cup r.head \cup r.todo
         /\ Holds(checkout, p) \subseteq r.dirty \cup r.head \cup r.todo
    BY <1>8, <1>9, <1>10, <1>11 DEF c
  <1>15. \A w \in Pieces : w \in r.dirty \cup r.head \cup r.todo =>
           w \in Holds(checkout, p) \cup originMain \/ madeIn[w] \in lineage'[p]
    BY <1>1, <1>10, <1>13, <1>14
  <1> QED
    BY <1>7, <1>11, <1>12, <1>13, <1>14, <1>15, InPlaceKeeps

LEMMA AgentWorksKeeps ==
  ASSUME GitInv, NEW t \in ToSet(gitTerminals), NEW w \in Pieces, AgentWorks(t, w)
  PROVE  GitInv'
  <1> DEFINE p == shellIn[t.id]
             c == checkout[p]
             more == c.dirty \cup {w}
             r == [c EXCEPT !.dirty = more]
  <1>1. p \in Places
    <2>1. t.id \in Numbers
      BY RegisteredTerminals DEF GitInv, GitTypes
    <2> QED
      BY <2>1 DEF GitInv, GitTypes, ServedTypes, AgentWorks
  <1>2. /\ madeIn[w] = NotMade /\ c.dir /\ madeIn' = [madeIn EXCEPT ![w] = p]
        /\ UNCHANGED <<servedVars, pull, remoteBranch, originMain, gone, lineage>>
        /\ checkout' = [checkout EXCEPT ![p].dirty = @ \cup {w}]
    BY DEF AgentWorks
  <1> HIDE DEF p
  <1>3. checkout' = [checkout EXCEPT ![p] = r]
    BY <1>2
  <1>4. c \in Checkout /\ more \in SUBSET Work
    BY <1>1 DEF GitInv, GitTypes, Checkout, Work
  <1>5. c.dir /\ (~c.rebase => c.todo = {}) /\ c.before \subseteq Holds(checkout, p)
    BY <1>1, <1>2, InHolds DEF GitInv, NothingElsewhere
  <1>6. more \cup c.head \cup c.todo = Holds(checkout, p) \cup {w}
    BY DEF Holds
  <1> HIDE DEF more, c
  <1>7. /\ r \in Checkout /\ r.dir = c.dir /\ r.branch = c.branch /\ r.rebase = c.rebase
        /\ r.todo = c.todo /\ r.dirty = more /\ r.head = c.head /\ r.before = c.before
    BY <1>4 DEF Checkout
  <1> HIDE DEF r
  <1>8. /\ checkout' \in [Places -> Checkout] /\ OwnTrees' /\ NothingElsewhere'
        /\ Holds(checkout', p) = Holds(checkout, p) \cup {w}
        /\ \A q \in Places : q # p => Holds(checkout', q) = Holds(checkout, q)
    <2>1. gitTerminals' = gitTerminals
      BY <1>2 DEF servedVars
    <2>2. GitTypes /\ OwnTrees /\ NothingElsewhere
      BY DEF GitInv
    <2>3. r.dirty \cup r.head \cup r.todo = Holds(checkout, p) \cup {w}
      BY <1>6, <1>7
    <2>4. r.dir = checkout[p].dir /\ r.branch = checkout[p].branch
          /\ (~r.dir /\ ~r.branch => r.dirty \cup r.head \cup r.todo = {})
          /\ (~r.rebase => r.todo = {}) /\ r \in Checkout
          /\ r.before \subseteq r.dirty \cup r.head \cup r.todo
      BY <1>5, <1>7, <2>3 DEF c
    <2> QED
      BY <1>1, <1>3, <2>1, <2>2, <2>3, <2>4, OnePlaceChanges
  <1>9. GitTypes'
    BY <1>1, <1>2, <1>8 DEF GitInv, GitTypes, ServedTypes, servedVars
  <1>10. madeIn[w] \in Places \cup {NotMade} /\ madeIn'[w] = p
         /\ \A v \in Pieces : v # w => madeIn'[v] = madeIn[v]
    BY <1>2 DEF GitInv, GitTypes
  <1>11. WorkStaysInItsWorktree'
    <2> SUFFICES ASSUME NEW v \in Pieces
                 PROVE  /\ madeIn'[v] # NotMade /\ v \notin gone' =>
                             v \in Holds(checkout', madeIn'[v]) \cup originMain'
                        /\ \A q \in Places : v \in Holds(checkout', q) =>
                             madeIn'[v] \in {q} \cup lineage'[q] \/ v \in originMain'
      BY WorkAfter
    <2>1. /\ madeIn[v] # NotMade /\ v \notin gone =>
               v \in Holds(checkout, madeIn[v]) \cup originMain
          /\ \A q \in Places : v \in Holds(checkout, q) =>
               madeIn[v] \in {q} \cup lineage[q] \/ v \in originMain
          /\ madeIn[v] \in Places \cup {NotMade}
      BY InHolds DEF GitInv, GitTypes, WorkStaysInItsWorktree
    <2>2. CASE v = w
      <3>1. \A q \in Places : lineage[q] \subseteq Places
        BY DEF GitInv, GitTypes
      <3>2. \A q \in Places : v \in Holds(checkout, q) => v \in originMain
        BY <1>2, <2>1, <2>2, <3>1, PlacesApart
      <3> QED
        BY <1>1, <1>2, <1>8, <1>10, <2>2, <3>2
    <2>3. CASE v # w
      <3>1. madeIn'[v] = madeIn[v] /\ gone' = gone /\ lineage' = lineage
            /\ originMain' = originMain
        BY <1>2, <1>10, <2>3
      <3>2. \A q \in Places : v \in Holds(checkout', q) <=> v \in Holds(checkout, q)
        BY <1>8, <2>3
      <3> QED
        BY <2>1, <3>1, <3>2
    <2> QED
      BY <2>2, <2>3
  <1>12. PushedWork'
    <2> SUFFICES ASSUME NEW q \in Numbers, NEW v \in Pieces, v \in remoteBranch[q].has
                 PROVE  madeIn'[v] \in remoteBranch[q].from \/ v \in originMain
      BY <1>2 DEF PushedWork
    <2>1. madeIn[v] \in remoteBranch[q].from \/ v \in originMain
      BY DEF GitInv, PushedWork
    <2>2. remoteBranch[q].from \subseteq Places
      BY DEF GitInv, GitTypes, Remote
    <2> QED
      BY <1>2, <1>10, <2>1, <2>2, PlacesApart
  <1> QED
    BY <1>8, <1>9, <1>11, <1>12 DEF GitInv

\* Fewer terminals, of which the worktree terminals keep their directory or branch.
LEMMA FewerTerminals ==
  ASSUME OwnTrees, ToSet(gitTerminals)' \subseteq ToSet(gitTerminals),
         \A i, k \in DOMAIN gitTerminals' : gitTerminals'[i].id = gitTerminals'[k].id => i = k,
         \A u \in ToSet(gitTerminals)' : u.mode = "worktree" =>
            checkout'[u.effective].dir \/ checkout'[u.effective].branch
  PROVE  OwnTrees'
  <1>1. \A t \in ToSet(gitTerminals)' : t.parent # t.id
    BY DEF OwnTrees
  <1>2. \A t, u \in ToSet(gitTerminals)' :
          t.mode = "worktree" /\ u.mode = "worktree" /\ t.effective = u.effective => t = u
    BY DEF OwnTrees
  <1> QED
    BY <1>1, <1>2 DEF OwnTrees

LEMMA PruneKeeps ==
  ASSUME GitInv, NEW t \in ToSet(gitTerminals), PruneGitTerminal(t)
  PROVE  GitInv'
  <1> DEFINE P == {i \in DOMAIN gitTerminals : gitTerminals[i] # t}
  <1>1. gitTerminals \in Seq(GitTerminal) /\ P \in SUBSET DOMAIN gitTerminals
        /\ gitTerminals' = TerminalsAt(P)
        /\ UNCHANGED <<shellIn, swarmRequest, pull, checkout, remoteBranch, originMain, madeIn,
                       gone, lineage>>
    BY DEF GitInv, GitTypes, PruneGitTerminal, historyVars
  <1>2. /\ gitTerminals' \in Seq(GitTerminal) /\ ToSet(gitTerminals') = {gitTerminals[i] : i \in P}
        /\ \A j, k \in DOMAIN gitTerminals' : j # k =>
             \E a, b \in P : a # b /\ gitTerminals'[j] = gitTerminals[a]
                                   /\ gitTerminals'[k] = gitTerminals[b]
    <2> HIDE DEF P
    <2> QED
      BY <1>1, ChosenTerminals
  <1>3. ToSet(gitTerminals)' \subseteq ToSet(gitTerminals)
    <2>1. ToSet(gitTerminals)' = {gitTerminals[i] : i \in P}
      <3> HIDE DEF P
      <3> QED
        BY <1>2 DEF ToSet
    <2> QED
      BY <2>1 DEF ToSet
  <1>4. ASSUME NEW i \in DOMAIN gitTerminals', NEW k \in DOMAIN gitTerminals', i # k
        PROVE  gitTerminals'[i].id # gitTerminals'[k].id
    <2>1. PICK a, b \in P : a # b /\ gitTerminals'[i] = gitTerminals[a]
                                  /\ gitTerminals'[k] = gitTerminals[b]
      BY <1>2, <1>4
    <2> QED
      BY <2>1 DEF GitInv, OwnTrees
  <1>5. \A u \in ToSet(gitTerminals)' : u.mode = "worktree" =>
          checkout'[u.effective].dir \/ checkout'[u.effective].branch
    BY <1>1, <1>3 DEF GitInv, OwnTrees
  <1>6. OwnTrees'
    BY <1>3, <1>4, <1>5, FewerTerminals DEF GitInv
  <1>7. NothingElsewhere' /\ WorkStaysInItsWorktree' /\ PushedWork'
    BY <1>1 DEF GitInv, NothingElsewhere, WorkStaysInItsWorktree, In, PushedWork
  <1> QED
    BY <1>1, <1>2, <1>6, <1>7 DEF GitInv, GitTypes, ServedTypes

\* The directories of some terminals are gone.
LEMMA WithoutDirectories ==
  ASSUME GitInv, NEW D \in SUBSET Numbers
  PROVE  /\ Without(D) \in [Places -> Checkout]
         /\ \A q \in D : Without(D)[q] = NoCheckout /\ Holds(Without(D), q) = {}
         /\ \A q \in Places : q \notin D => Without(D)[q] = checkout[q]
                                           /\ Holds(Without(D), q) = Holds(checkout, q)
  <1>1. NoCheckout \in Checkout
    BY DEF NoCheckout, Checkout
  <1>2. Without(D) \in [Places -> Checkout]
    BY <1>1 DEF Without, GitInv, GitTypes
  <1>3. \A q \in D : Without(D)[q] = NoCheckout
    BY PlacesApart DEF Without
  <1>4. \A q \in Places : q \notin D => Without(D)[q] = checkout[q]
    BY DEF Without
  <1>5. \A q \in D : Holds(Without(D), q) = {}
    BY <1>3 DEF Holds, NoCheckout
  <1> QED
    BY <1>2, <1>3, <1>4, <1>5 DEF Holds

\* What was done in the directories that go is asked to go.
LEMMA AskedToGoIsGone ==
  ASSUME NEW done \in Seq(GitTerminal), NEW more, AskedToGo(done, more)
  PROVE  /\ gone \subseteq gone' /\ more \subseteq gone'
         /\ \A w \in Pieces : madeIn[w] \in WorktreesOf(done) => w \in gone'
  BY DEF AskedToGo, WorktreesOf, WorktreeOf

LEMMA ClosedShells ==
  ASSUME GitTypes, NEW done, ShellsClosed(done)
  PROVE  shellIn' \in [Numbers -> Places \cup {NoDirectory}]
  BY DEF ShellsClosed, GitTypes, ServedTypes

LEMMA DeleteKeeps ==
  ASSUME GitInv, NEW t \in ToSet(gitTerminals), DeleteGitTerminal(t)
  PROVE  GitInv'
  <1> DEFINE done == GitCascade(t)
             D == WorktreesOf(done)
  <1>1. done \in Seq(GitTerminal) /\ ToSet(done) \subseteq ToSet(gitTerminals)
    BY CascadeOnce DEF GitInv
  <1>2. /\ Removed(done) /\ AskedToGo(done, {}) /\ checkout' = Without(D) /\ ShellsClosed(done)
        /\ UNCHANGED <<swarmRequest, pull, originMain, madeIn, lineage>>
    BY DEF DeleteGitTerminal
  <1> HIDE DEF done
  <1>3. /\ gitTerminals' \in Seq(GitTerminal)
        /\ ToSet(gitTerminals)' = ToSet(gitTerminals) \ ToSet(done)
        /\ \A i, k \in DOMAIN gitTerminals' : gitTerminals'[i].id = gitTerminals'[k].id => i = k
        /\ remoteBranch' \in [Numbers -> Remote]
        /\ \A q \in Numbers : remoteBranch'[q].has = remoteBranch[q].has
                              /\ remoteBranch'[q].from = remoteBranch[q].from
        /\ D \subseteq Numbers
        /\ \A u \in ToSet(gitTerminals)' : u.mode = "worktree" => u.effective \notin D
    BY <1>1, <1>2, RemovedTerminals
  <1>4. gone \subseteq gone' /\ \A w \in Pieces : madeIn[w] \in D => w \in gone'
    BY <1>1, <1>2, AskedToGoIsGone
  <1> HIDE DEF D
  <1>5. /\ checkout' \in [Places -> Checkout]
        /\ \A q \in D : checkout'[q] = NoCheckout /\ Holds(checkout', q) = {}
        /\ \A q \in Places : q \notin D => checkout'[q] = checkout[q]
                                          /\ Holds(checkout', q) = Holds(checkout, q)
    BY <1>2, <1>3, WithoutDirectories
  <1>6. GitTypes'
    <2>1. ServedTypes'
      BY <1>2, ClosedShells DEF GitInv, GitTypes, ServedTypes
    <2> QED
      BY <1>2, <1>3, <1>5, <2>1 DEF GitInv, GitTypes
  <1>7. OwnTrees'
    <2>1. ASSUME NEW u \in ToSet(gitTerminals)', u.mode = "worktree"
          PROVE  checkout'[u.effective].dir \/ checkout'[u.effective].branch
      <3>1. u.effective \in Places /\ u.effective \notin D /\ u \in ToSet(gitTerminals)
        BY <1>3, <2>1, RegisteredTerminals, PlacesApart DEF GitInv, GitTypes
      <3> QED
        BY <1>5, <2>1, <3>1 DEF GitInv, OwnTrees
    <2> QED
      BY <1>3, <2>1, FewerTerminals DEF GitInv
  <1>8. NothingElsewhere'
    BY <1>5, InHolds DEF GitInv, NothingElsewhere, NoCheckout
  <1>9. WorkStaysInItsWorktree'
    <2>1. \A q \in Places, w \in Pieces :
            /\ madeIn[w] = q /\ w \in Holds(checkout, q) =>
                 w \in Holds(checkout', q) \cup originMain' \cup gone'
            /\ w \in Holds(checkout', q) =>
                 \/ w \in Holds(checkout, q) /\ lineage[q] \subseteq lineage'[q]
                 \/ w \in originMain' \/ madeIn[w] \in {q} \cup lineage'[q]
      BY <1>2, <1>4, <1>5
    <2> QED
      BY <1>2, <1>4, <2>1, WorkOnlyMoves DEF GitInv
  <1>10. PushedWork'
    BY <1>2, <1>3, PushedStays DEF GitInv
  <1> QED
    BY <1>6, <1>7, <1>8, <1>9, <1>10 DEF GitInv

\* A removal that fails: the branch of the one it fails at is there still.
LEMMA DeleteFailsKeeps ==
  ASSUME GitInv, NEW t \in ToSet(gitTerminals), NEW n \in Nat \ {0}, DeleteGitTerminalFails(t, n)
  PROVE  GitInv'
  <1> DEFINE all == GitCascade(t)
             done == SubSeq(all, 1, n - 1)
             failing == all[n]
             p == failing.effective
             D == WorktreesOf(done)
             left == [NoCheckout EXCEPT !.branch = TRUE, !.head = Tip(p)]
             more == {w \in Pieces : madeIn[w] = p /\ w \notin Tip(p)}
  <1>1. /\ all \in Seq(GitTerminal) /\ ToSet(all) \subseteq ToSet(gitTerminals)
        /\ \A j, k \in DOMAIN all : j # k => all[j] # all[k]
    BY CascadeOnce DEF GitInv
  <1>2. /\ n <= Len(all) /\ failing.mode = "worktree" /\ Removed(done)
        /\ ShellsClosed(SubSeq(all, 1, n))
        /\ UNCHANGED <<swarmRequest, pull, originMain, madeIn, lineage>>
        /\ \/ checkout' = Without(D) /\ AskedToGo(done, {})
           \/ checkout' = [Without(D) EXCEPT ![p] = left] /\ AskedToGo(done, more)
    BY DEF DeleteGitTerminalFails, WorktreeOf
  <1> HIDE DEF all
  <1>3. n \in DOMAIN all /\ n - 1 \in Nat /\ n - 1 <= Len(all)
    BY <1>1, <1>2
  <1>4. done \in Seq(GitTerminal) /\ Len(done) = n - 1 /\ \A i \in 1..(n - 1) : done[i] = all[i]
    BY <1>1, <1>3
  <1>5. \A i \in 1..(n - 1) : i \in DOMAIN all /\ i # n
    BY <1>1, <1>3
  <1> HIDE DEF done
  <1>6. \A x \in ToSet(done) : \E i \in 1..(n - 1) : x = all[i]
    BY <1>4 DEF ToSet
  <1>7. ToSet(done) \subseteq ToSet(gitTerminals) /\ failing \notin ToSet(done)
    <2>1. \A i \in DOMAIN all : all[i] \in ToSet(gitTerminals)
      BY <1>1 DEF ToSet
    <2> QED
      BY <1>1, <1>3, <1>5, <1>6, <2>1
  <1>8. failing \in ToSet(gitTerminals) /\ p \in Numbers
    <2>1. failing \in ToSet(gitTerminals)
      BY <1>1, <1>3 DEF ToSet
    <2> QED
      BY <2>1, RegisteredTerminals DEF GitInv, GitTypes
  <1>9. /\ gitTerminals' \in Seq(GitTerminal)
        /\ ToSet(gitTerminals)' = ToSet(gitTerminals) \ ToSet(done)
        /\ \A i, k \in DOMAIN gitTerminals' : gitTerminals'[i].id = gitTerminals'[k].id => i = k
        /\ remoteBranch' \in [Numbers -> Remote]
        /\ \A q \in Numbers : remoteBranch'[q].has = remoteBranch[q].has
                              /\ remoteBranch'[q].from = remoteBranch[q].from
        /\ D \subseteq Numbers
        /\ \A u \in ToSet(gitTerminals)' : u.mode = "worktree" => u.effective \notin D
    BY <1>2, <1>4, <1>7, RemovedTerminals
  <1>10. p \notin D
    BY <1>2, <1>7, <1>8, <1>9
  <1> HIDE DEF D, failing, p
  <1>11. /\ Without(D) \in [Places -> Checkout]
         /\ \A q \in D : Without(D)[q] = NoCheckout /\ Holds(Without(D), q) = {}
         /\ \A q \in Places : q \notin D => Without(D)[q] = checkout[q]
                                           /\ Holds(Without(D), q) = Holds(checkout, q)
    BY <1>9, WithoutDirectories
  <1>12. PICK extra \in {{}, more} :
           /\ \/ checkout' = Without(D) /\ extra = {}
              \/ checkout' = [Without(D) EXCEPT ![p] = left] /\ extra = more
           /\ AskedToGo(done, extra)
    BY <1>2
  <1>13. /\ gone \subseteq gone' /\ extra \subseteq gone'
         /\ \A w \in Pieces : madeIn[w] \in D => w \in gone'
    BY <1>4, <1>12, AskedToGoIsGone DEF D
  <1>14. /\ p \in Places /\ checkout[p] \in Checkout
         /\ Tip(p) \in SUBSET Work /\ Tip(p) \subseteq Holds(checkout, p)
    <2>1. p \in Places /\ checkout[p] \in Checkout
      BY <1>8, PlacesApart DEF GitInv, GitTypes
    <2>2. checkout[p].before \subseteq Holds(checkout, p)
      BY <2>1, InHolds DEF GitInv, NothingElsewhere
    <2> QED
      BY <2>1, <2>2 DEF Tip, Holds, Checkout
  <1>15. /\ left \in Checkout /\ left.branch /\ left.todo = {} /\ left.dirty = {}
         /\ left.before = {} /\ left.head = Tip(p)
    <2> DEFINE h == Tip(p)
               none == NoCheckout
    <2>1. h \in SUBSET Work /\ none \in Checkout /\ none.todo = {} /\ none.dirty = {}
          /\ none.before = {}
      BY <1>14 DEF Checkout, NoCheckout
    <2> HIDE DEF h, none
    <2> DEFINE r == [none EXCEPT !.branch = TRUE, !.head = h]
    <2>2. r \in Checkout /\ r.branch /\ r.todo = none.todo /\ r.dirty = none.dirty /\ r.head = h
          /\ r.before = none.before
      BY <2>1 DEF Checkout
    <2>3. left = r
      BY DEF none, h
    <2> HIDE DEF r, left
    <2> QED
      BY <2>1, <2>2, <2>3 DEF h
  <1> HIDE DEF left
  \* Whichever way it failed: what the directories hold after it.
  <1>16. /\ checkout' \in [Places -> Checkout]
         /\ \A q \in D : checkout'[q] = NoCheckout /\ Holds(checkout', q) = {}
         /\ \A q \in Places : q \notin D /\ q # p => checkout'[q] = checkout[q]
                                           /\ Holds(checkout', q) = Holds(checkout, q)
         /\ \/ checkout'[p] = checkout[p] /\ extra = {}
            \/ checkout'[p] = left /\ extra = more
    <2>1. CASE checkout' = Without(D) /\ extra = {}
      BY <1>10, <1>11, <1>14, <2>1
    <2>2. CASE checkout' = [Without(D) EXCEPT ![p] = left] /\ extra = more
      <3>1. checkout' \in [Places -> Checkout] /\ checkout'[p] = left
            /\ \A q \in Places : q # p => checkout'[q] = Without(D)[q]
        BY <1>11, <1>14, <1>15, <2>2
      <3>2. \A q \in Places : q # p => Holds(checkout', q) = Holds(Without(D), q)
        BY <3>1 DEF Holds
      <3>3. \A q \in D : q \in Places /\ q # p
        BY <1>9, <1>10, PlacesApart
      <3> QED
        BY <1>11, <2>2, <3>1, <3>2, <3>3
    <2> QED
      BY <1>12, <2>1, <2>2
  <1>17. GitTypes'
    <2>1. ServedTypes'
      BY <1>2, ClosedShells DEF GitInv, GitTypes, ServedTypes
    <2> QED
      BY <1>2, <1>9, <1>16, <2>1 DEF GitInv, GitTypes
  <1>18. checkout'[p].dir \/ checkout'[p].branch
    <2>1. checkout[p].dir \/ checkout[p].branch
      BY <1>2, <1>8 DEF GitInv, OwnTrees, p, failing
    <2> QED
      BY <1>15, <1>16, <2>1
  <1>19. OwnTrees'
    <2>1. ASSUME NEW u \in ToSet(gitTerminals)', u.mode = "worktree"
          PROVE  checkout'[u.effective].dir \/ checkout'[u.effective].branch
      <3>1. u.effective \in Places /\ u.effective \notin D /\ u \in ToSet(gitTerminals)
        BY <1>9, <2>1, RegisteredTerminals, PlacesApart DEF GitInv, GitTypes
      <3>2. checkout[u.effective].dir \/ checkout[u.effective].branch
        BY <2>1, <3>1 DEF GitInv, OwnTrees
      <3> QED
        BY <1>16, <1>18, <3>1, <3>2
    <2> QED
      BY <1>9, <2>1, FewerTerminals DEF GitInv
  <1>20. NothingElsewhere'
    <2> SUFFICES ASSUME NEW q \in Places
                 PROVE  /\ ~checkout'[q].dir /\ ~checkout'[q].branch => Holds(checkout', q) = {}
                        /\ ~checkout'[q].rebase => checkout'[q].todo = {}
                        /\ checkout'[q].before \subseteq Holds(checkout', q)
      BY InHolds DEF NothingElsewhere
    <2>1. /\ ~checkout[q].dir /\ ~checkout[q].branch => Holds(checkout, q) = {}
          /\ ~checkout[q].rebase => checkout[q].todo = {}
          /\ checkout[q].before \subseteq Holds(checkout, q)
      BY InHolds DEF GitInv, NothingElsewhere
    <2>2. CASE q \in D
      BY <1>16, <2>2 DEF NoCheckout
    <2>3. CASE q = p
      <3>1. CASE checkout'[p] = checkout[p]
        BY <1>18, <2>1, <2>3, <3>1 DEF Holds
      <3>2. CASE checkout'[p] = left
        BY <1>15, <2>3, <3>2
      <3> QED
        BY <1>16, <3>1, <3>2
    <2>4. CASE q \notin D /\ q # p
      BY <1>16, <2>1, <2>4
    <2> QED
      BY <2>2, <2>3, <2>4
  <1>21. \/ extra = {} /\ Holds(checkout', p) = Holds(checkout, p)
         \/ extra = more /\ Holds(checkout', p) = Tip(p)
    BY <1>15, <1>16 DEF Holds
  <1>22. WorkStaysInItsWorktree'
    <2>1. \A q \in Places : Holds(checkout', q) \subseteq Holds(checkout, q)
      BY <1>14, <1>16, <1>21
    <2>2. ASSUME NEW q \in Places, NEW w \in Pieces, madeIn[w] = q, w \in Holds(checkout, q)
          PROVE  w \in Holds(checkout', q) \cup gone'
      <3>1. CASE q \in D
        BY <1>13, <2>2, <3>1
      <3>2. CASE q = p
        BY <1>13, <1>21, <2>2, <3>2
      <3>3. CASE q \notin D /\ q # p
        BY <1>16, <2>2, <3>3
      <3> QED
        BY <3>1, <3>2, <3>3
    <2> HIDE DEF more
    <2>3. \A q \in Places, w \in Pieces :
            /\ madeIn[w] = q /\ w \in Holds(checkout, q) =>
                 w \in Holds(checkout', q) \cup originMain' \cup gone'
            /\ w \in Holds(checkout', q) =>
                 \/ w \in Holds(checkout, q) /\ lineage[q] \subseteq lineage'[q]
                 \/ w \in originMain' \/ madeIn[w] \in {q} \cup lineage'[q]
      BY <1>2, <2>1, <2>2
    <2> QED
      BY <1>2, <1>13, <2>3, WorkOnlyMoves DEF GitInv
  <1>23. PushedWork'
    BY <1>2, <1>9, PushedStays DEF GitInv
  <1> QED
    BY <1>17, <1>19, <1>20, <1>22, <1>23 DEF GitInv

LEMMA FreeTerminalId ==
  ASSUME GitTypes,
         \E n \in Numbers : n \notin RegisteredIds \cup UNION Range(SwarmIds) /\ ~checkout[n].dir
  PROVE  AllocateTerminalId \in Numbers /\ AllocateTerminalId \notin RegisteredIds
  <1> DEFINE T == {n \in Numbers : n \notin RegisteredIds \cup UNION Range(SwarmIds)
                                   /\ ~checkout[n].dir}
  <1>1. T \subseteq Nat /\ T # {}
    BY PlacesApart
  <1>2. \E m \in T : \A n \in T : m <= n
    <2> HIDE DEF T
    <2> QED
      BY <1>1, LeastNumber
  <1>3. Min(T) \in T
    <2> HIDE DEF T
    <2> QED
      BY <1>2 DEF Min
  <1> QED
    BY <1>3 DEF AllocateTerminalId

LEMMA CreateKeeps ==
  ASSUME GitInv, NEW request \in GitAsk, CreateGitTerminal(request),
         swarmRequest' = swarmRequest \/ swarmRequest' = NoRequest
  PROVE  GitInv'
  <1> DEFINE id == IF request.id = 0 \/ request.id \in RegisteredIds THEN AllocateTerminalId
                   ELSE request.id
             joined == IF request.tentacle = 0 THEN id ELSE request.tentacle
             ownTree == request.mode = "worktree"
             e == IF request.worktree # 0 THEN request.worktree
                  ELSE IF ownTree THEN id ELSE joined
             b == request.base
             start == IF b = Workspace THEN checkout[Workspace].head ELSE Tip(b)
             t == [id |-> id, tentacle |-> joined, parent |-> request.parent, effective |-> e,
                   mode |-> request.mode]
             fresh == [NoCheckout EXCEPT !.dir = TRUE, !.branch = TRUE, !.head = start]
  <1>1. /\ request.parent = 0 \/ \E u \in ToSet(gitTerminals) : u.id = request.parent
        /\ ownTree => ~checkout[e].dir /\ ~checkout[e].branch /\ checkout[b].branch
        /\ gitTerminals' = Append(gitTerminals, t)
        /\ IF ownTree THEN checkout' = [checkout EXCEPT ![e] = fresh]
                           /\ lineage' = [lineage EXCEPT ![e] = {b} \cup lineage[b]]
                      ELSE UNCHANGED <<checkout, lineage>>
        /\ \E cwd \in {NoDirectory, CwdIn(gitTerminals', e)} : shellIn' = [shellIn EXCEPT ![id] = cwd]
        /\ UNCHANGED <<remoteBranch, pull, originMain, madeIn, gone>>
    BY DEF CreateGitTerminal
  <1>2. id \in Numbers /\ id \notin RegisteredIds
    <2>1. AllocateTerminalId \in Numbers /\ AllocateTerminalId \notin RegisteredIds
      BY FreeTerminalId DEF GitInv, CreateGitTerminal
    <2> QED
      BY <2>1, PlacesApart DEF GitAsk
  <1> HIDE DEF id
  <1>3. joined \in Numbers /\ e \in Numbers /\ e \in Places /\ b \in Places
    BY <1>2, PlacesApart DEF GitAsk
  <1>4. ownTree = (request.mode = "worktree") /\ ownTree \in BOOLEAN
    OBVIOUS
  <1> HIDE DEF joined, e, b, ownTree
  <1>5. t \in GitTerminal /\ t.id = id /\ t.parent = request.parent /\ t.effective = e
        /\ t.mode = request.mode
    BY <1>2, <1>3 DEF GitTerminal, GitAsk
  <1> HIDE DEF t
  <1>6. /\ gitTerminals \in Seq(GitTerminal) /\ checkout \in [Places -> Checkout]
        /\ checkout[Workspace] \in Checkout /\ checkout[b] \in Checkout
        /\ lineage \in [Places -> SUBSET Places]
    BY <1>3, PlacesApart DEF GitInv, GitTypes
  <1>7. /\ start \in SUBSET Work /\ start \subseteq Holds(checkout, b)
    <2>1. checkout[b].before \subseteq Holds(checkout, b)
      BY <1>3, InHolds DEF GitInv, NothingElsewhere
    <2> QED
      BY <1>6, <2>1 DEF Holds, Tip, Checkout
  <1> HIDE DEF start
  <1>8. /\ fresh \in Checkout /\ fresh.dir /\ ~fresh.rebase /\ fresh.todo = {}
        /\ fresh.dirty = {} /\ fresh.before = {} /\ fresh.head = start
    <2> DEFINE none == NoCheckout
    <2>1. none \in Checkout /\ none.todo = {} /\ none.dirty = {} /\ none.before = {}
          /\ none.rebase = FALSE
      BY DEF Checkout, NoCheckout
    <2> HIDE DEF none
    <2> DEFINE r == [none EXCEPT !.dir = TRUE, !.branch = TRUE, !.head = start]
    <2>2. r \in Checkout /\ r.dir /\ r.todo = none.todo /\ r.dirty = none.dirty
          /\ r.head = start /\ r.rebase = none.rebase /\ r.before = none.before
      BY <1>7, <2>1 DEF Checkout
    <2>3. fresh = r
      BY DEF none
    <2> HIDE DEF r, fresh
    <2> QED
      BY <2>1, <2>2, <2>3
  <1> HIDE DEF fresh
  <1>9. /\ gitTerminals' \in Seq(GitTerminal) /\ Len(gitTerminals) \in Nat
        /\ DOMAIN gitTerminals = 1..Len(gitTerminals)
        /\ DOMAIN gitTerminals' = 1..(Len(gitTerminals) + 1)
        /\ gitTerminals'[Len(gitTerminals) + 1] = t
        /\ \A i \in 1..(Len(gitTerminals) + 1) : i # Len(gitTerminals) + 1 =>
             i \in DOMAIN gitTerminals /\ gitTerminals'[i] = gitTerminals[i]
    BY <1>1, <1>5, <1>6
  <1>10. \A x \in ToSet(gitTerminals)' : x = t \/ x \in ToSet(gitTerminals)
    BY <1>9 DEF ToSet
  <1>11. \A u \in ToSet(gitTerminals) : u.id # id /\ u.effective \in Places
    BY <1>2, <1>6, RegisteredTerminals, PlacesApart DEF RegisteredIds
  <1>12. checkout' \in [Places -> Checkout]
         /\ \A q \in Places : q # e \/ ~ownTree => checkout'[q] = checkout[q]
    BY <1>1, <1>3, <1>6, <1>8
  <1>13. ownTree => checkout'[e] = fresh /\ ~checkout[e].dir /\ ~checkout[e].branch
                    /\ checkout[b].branch
    BY <1>1, <1>3, <1>6
  <1>14. /\ lineage' \in [Places -> SUBSET Places]
         /\ \A q \in Places : q # e \/ ~ownTree => lineage'[q] = lineage[q]
         /\ ownTree => lineage'[e] = {b} \cup lineage[b]
    BY <1>1, <1>3, <1>6
  <1>15. GitTypes'
    <2>1. CwdIn(gitTerminals', e) \in Places
      BY <1>3, PlacesApart DEF CwdIn
    <2>2. shellIn' \in [Numbers -> Places \cup {NoDirectory}]
      BY <1>1, <1>2, <2>1 DEF GitInv, GitTypes, ServedTypes
    <2>3. ServedTypes'
      BY <1>1, <2>2 DEF GitInv, GitTypes, ServedTypes
    <2> QED
      BY <1>1, <1>9, <1>12, <1>14, <2>3 DEF GitInv, GitTypes
  <1>16. OwnTrees'
    <2>1. ASSUME NEW i \in DOMAIN gitTerminals', NEW k \in DOMAIN gitTerminals',
                 gitTerminals'[i].id = gitTerminals'[k].id
          PROVE  i = k
      <3> DEFINE newest == Len(gitTerminals) + 1
      <3>1. \A j \in DOMAIN gitTerminals : gitTerminals[j].id # id
        BY <1>11 DEF ToSet
      <3>2. CASE i = newest /\ k # newest
        BY <1>5, <1>9, <2>1, <3>1, <3>2
      <3>3. CASE i # newest /\ k = newest
        BY <1>5, <1>9, <2>1, <3>1, <3>3
      <3>4. CASE i # newest /\ k # newest
        BY <1>9, <2>1, <3>4 DEF GitInv, OwnTrees
      <3> QED
        BY <3>2, <3>3, <3>4
    <2>2. request.parent # id
      BY <1>1, <1>2, <1>11, PlacesApart DEF Workspace
    <2>3. \A u \in ToSet(gitTerminals)' : u.parent # u.id
      BY <1>5, <1>10, <2>2 DEF GitInv, OwnTrees
    <2>4. ASSUME ownTree, NEW u \in ToSet(gitTerminals), u.mode = "worktree"
          PROVE  u.effective # e
      BY <1>13, <2>4 DEF GitInv, OwnTrees
    <2>5. \A u, v \in ToSet(gitTerminals)' :
            u.mode = "worktree" /\ v.mode = "worktree" /\ u.effective = v.effective => u = v
      BY <1>4, <1>5, <1>10, <2>4 DEF GitInv, OwnTrees
    <2>6. ASSUME NEW u \in ToSet(gitTerminals)', u.mode = "worktree"
          PROVE  checkout'[u.effective].dir \/ checkout'[u.effective].branch
      <3>1. CASE u = t
        BY <1>4, <1>5, <1>8, <1>13, <2>6, <3>1
      <3>2. CASE u \in ToSet(gitTerminals) /\ (u.effective # e \/ ~ownTree)
        BY <1>11, <1>12, <2>6, <3>2 DEF GitInv, OwnTrees
      <3>3. CASE u.effective = e /\ ownTree
        BY <1>8, <1>13, <3>3
      <3> QED
        BY <1>4, <1>10, <3>1, <3>2, <3>3
    <2> QED
      BY <2>1, <2>3, <2>5, <2>6 DEF OwnTrees
  <1>17. NothingElsewhere'
    <2> SUFFICES ASSUME NEW q \in Places
                 PROVE  /\ ~checkout'[q].dir /\ ~checkout'[q].branch => Holds(checkout', q) = {}
                        /\ ~checkout'[q].rebase => checkout'[q].todo = {}
                        /\ checkout'[q].before \subseteq Holds(checkout', q)
      BY InHolds DEF NothingElsewhere
    <2>1. /\ ~checkout[q].dir /\ ~checkout[q].branch => Holds(checkout, q) = {}
          /\ ~checkout[q].rebase => checkout[q].todo = {}
          /\ checkout[q].before \subseteq Holds(checkout, q)
      BY InHolds DEF GitInv, NothingElsewhere
    <2>2. CASE q = e /\ ownTree
      BY <1>8, <1>13, <2>2
    <2>3. CASE q # e \/ ~ownTree
      BY <1>12, <2>1, <2>3 DEF Holds
    <2> QED
      BY <1>4, <2>2, <2>3
  <1>18. WorkStaysInItsWorktree'
    <2>1. \A q \in Places : q # e \/ ~ownTree => Holds(checkout', q) = Holds(checkout, q)
      BY <1>12 DEF Holds
    <2>2. ownTree => Holds(checkout, e) = {} /\ Holds(checkout', e) = start
      <3>1. ownTree => Holds(checkout, e) = {}
        BY <1>3, <1>13, InHolds DEF GitInv, NothingElsewhere
      <3>2. ownTree => Holds(checkout', e) = start
        BY <1>8, <1>13 DEF Holds
      <3> QED
        BY <3>1, <3>2
    <2>3. \A w \in Pieces : w \in start => madeIn[w] \in {b} \cup lineage[b] \/ w \in originMain
      BY <1>3, <1>7, InHolds DEF GitInv, WorkStaysInItsWorktree
    <2>4. \A q \in Places, w \in Pieces :
            /\ madeIn[w] = q /\ w \in Holds(checkout, q) =>
                 w \in Holds(checkout', q) \cup originMain' \cup gone'
            /\ w \in Holds(checkout', q) =>
                 \/ w \in Holds(checkout, q) /\ lineage[q] \subseteq lineage'[q]
                 \/ w \in originMain' \/ madeIn[w] \in {q} \cup lineage'[q]
      <3> TAKE q \in Places, w \in Pieces
      <3>1. CASE q = e /\ ownTree
        BY <1>1, <1>14, <2>2, <2>3, <3>1
      <3>2. CASE q # e \/ ~ownTree
        BY <1>14, <2>1, <3>2
      <3> QED
        BY <1>4, <3>1, <3>2
    <2> QED
      BY <1>1, <2>4, WorkOnlyMoves DEF GitInv
  <1>19. PushedWork'
    BY <1>1, PushedStays DEF GitInv
  <1> QED
    BY <1>15, <1>16, <1>17, <1>18, <1>19 DEF GitInv

LEMMA SwarmBaseReadKeeps ==
  ASSUME GitInv, NEW tentacle \in Numbers, NEW id \in Numbers,
         NEW mode \in {"shared", "worktree"}, SwarmBaseRead(tentacle, id, mode)
  PROVE  GitInv'
  <1> DEFINE w == IF mode = "worktree" THEN id ELSE 0
  <1>1. PICK b \in {tentacle, Workspace} :
          swarmRequest' = [id |-> id, tentacle |-> tentacle, parent |-> 0, mode |-> mode,
                           worktree |-> w, base |-> b]
    BY DEF SwarmBaseRead
  <1>2. w \in Places /\ b \in Places /\ id \in Places /\ tentacle \in Places /\ 0 \in Places
    BY PlacesApart DEF Workspace
  <1> HIDE DEF w
  <1>3. swarmRequest' \in GitAsk
    BY <1>1, <1>2 DEF GitAsk
  <1>4. UNCHANGED <<gitTerminals, shellIn, checkout, remoteBranch, pull, originMain, historyVars>>
    BY DEF SwarmBaseRead
  <1>5. ServedTypes'
    BY <1>3, <1>4 DEF GitInv, GitTypes, ServedTypes
  <1> QED
    BY <1>4, <1>5, SameGit

LEMMA SwarmWorkerCreatedKeeps ==
  ASSUME GitInv, SwarmWorkerCreated
  PROVE  GitInv'
  <1>1. swarmRequest \in GitAsk /\ swarmRequest' = NoRequest
    BY DEF GitInv, GitTypes, ServedTypes, SwarmWorkerCreated
  <1>2. CASE CreateGitTerminal(swarmRequest)
    BY <1>1, <1>2, CreateKeeps
  <1>3. CASE UNCHANGED <<gitTerminals, shellIn, checkout, remoteBranch, pull, originMain, historyVars>>
    <2>1. ServedTypes'
      BY <1>1, <1>3 DEF GitInv, GitTypes, ServedTypes
    <2> QED
      BY <1>3, <2>1, SameGit
  <1> QED
    BY <1>2, <1>3 DEF SwarmWorkerCreated

LEMMA ShellsKeep ==
  ASSUME GitInv, NEW t \in ToSet(gitTerminals), StartShell(t) \/ AgentShellEnds(t)
  PROVE  GitInv'
  <1>1. /\ UNCHANGED <<gitTerminals, swarmRequest, checkout, remoteBranch, pull, originMain,
                       historyVars>>
        /\ \E cwd \in {NoDirectory, CwdIn(gitTerminals, t.effective)} :
             shellIn' = [shellIn EXCEPT ![t.id] = cwd]
    BY DEF StartShell, AgentShellEnds
  <1>2. t.effective \in Places /\ t.id \in Numbers
    BY PlacesApart, RegisteredTerminals DEF GitInv, GitTypes
  <1>3. CwdIn(gitTerminals, t.effective) \in Places
    BY <1>2, PlacesApart DEF CwdIn
  <1>4. shellIn' \in [Numbers -> Places \cup {NoDirectory}]
    BY <1>1, <1>3 DEF GitInv, GitTypes, ServedTypes
  <1>5. ServedTypes'
    BY <1>1, <1>4 DEF GitInv, GitTypes, ServedTypes
  <1> QED
    BY <1>1, <1>5, SameGit

LEMMA PushKeeps ==
  ASSUME GitInv, NEW tentacle, NEW p \in Places, PushWorktree(tentacle, p)
  PROVE  GitInv'
  <1>1. UNCHANGED <<servedVars, checkout, pull, historyVars>> /\ PushCurrentBranch(p)
    BY DEF PushWorktree
  <1>2. ServedTypes' /\ checkout[p].head \in SUBSET Work
        /\ UNCHANGED <<gitTerminals, checkout, madeIn, gone, lineage>>
    BY <1>1 DEF GitInv, GitTypes, ServedTypes, servedVars, historyVars, Checkout
  <1>3. CASE p = Workspace
    <2>1. originMain' \in SUBSET Work /\ originMain \subseteq originMain'
          /\ remoteBranch' = remoteBranch
      BY <1>1, <1>2, <1>3 DEF PushCurrentBranch
    <2>2. PushedWork' /\ remoteBranch' \in [Numbers -> Remote]
      BY <1>2, <2>1, PushedStays DEF GitInv, GitTypes
    <2> QED
      BY <1>2, <2>1, <2>2, SameCheckouts
  <1>4. CASE p # Workspace
    <2> DEFINE pushed == [exists |-> TRUE, has |-> checkout[p].head,
                          from |-> {p} \cup lineage[p], rewritten |-> FALSE]
    <2>1. p \in Numbers
      BY <1>4, PlacesApart DEF Workspace
    <2>2. lineage[p] \in SUBSET Places /\ remoteBranch \in [Numbers -> Remote]
      BY DEF GitInv, GitTypes
    <2>3. pushed \in Remote /\ pushed.has = checkout[p].head
          /\ pushed.from = {p} \cup lineage[p]
      BY <1>2, <2>2 DEF Remote
    <2>4. remoteBranch' = [remoteBranch EXCEPT ![p] = pushed] /\ originMain' = originMain
      BY <1>1, <1>4 DEF PushCurrentBranch
    <2> HIDE DEF pushed
    <2>5. remoteBranch' \in [Numbers -> Remote] /\ remoteBranch'[p] = pushed
          /\ \A q \in Numbers : q # p => remoteBranch'[q] = remoteBranch[q]
      BY <2>1, <2>2, <2>3, <2>4
    <2>6. \A w \in Pieces : w \in checkout[p].head =>
            madeIn[w] \in {p} \cup lineage[p] \/ w \in originMain
      BY DEF GitInv, WorkStaysInItsWorktree, In
    <2>7. PushedWork'
      BY <1>2, <2>3, <2>4, <2>5, <2>6 DEF GitInv, PushedWork
    <2>8. originMain' \in SUBSET Work
      BY <2>4 DEF GitInv, GitTypes
    <2> QED
      BY <1>2, <2>4, <2>5, <2>7, <2>8, SameCheckouts
  <1> QED
    BY <1>3, <1>4

LEMMA CreatePullKeeps ==
  ASSUME GitInv, NEW tentacle, NEW p \in Places, NEW base \in Places,
         CreatePullRequest(tentacle, p, base)
  PROVE  GitInv'
  <1> DEFINE asked == [state |-> "open", base |-> base]
  <1>1. /\ UNCHANGED <<servedVars, checkout, remoteBranch, originMain, historyVars>>
        /\ pull' = [pull EXCEPT ![p] = asked]
    BY DEF CreatePullRequest
  <1>2. asked \in PullRequest
    BY DEF PullRequest
  <1> HIDE DEF asked
  <1>3. ServedTypes'
    BY <1>1, <1>2 DEF GitInv, GitTypes, ServedTypes, servedVars
  <1> QED
    BY <1>1, <1>3, SameGit DEF servedVars

LEMMA MergeKeeps ==
  ASSUME GitInv, NEW tentacle, NEW p \in Places, MergePullRequest(tentacle, p)
  PROVE  GitInv'
  <1> DEFINE base == pull[p].base
             b == remoteBranch[base]
             more == b.has \cup remoteBranch[p].has
             origins == b.from \cup remoteBranch[p].from
             merged == [b EXCEPT !.has = more, !.from = origins, !.rewritten = TRUE]
  <1>1. p \in Numbers
    BY DEF MergePullRequest, HasOpenPullRequest, Places
  <1>2. /\ UNCHANGED <<servedVars, checkout, historyVars>>
        /\ pull' = [pull EXCEPT ![p].state = "merged"]
        /\ IF base = Workspace
           THEN originMain' = originMain \cup remoteBranch[p].has /\ remoteBranch' = remoteBranch
           ELSE remoteBranch' = [remoteBranch EXCEPT ![base] = merged]
                /\ originMain' = originMain
    BY DEF MergePullRequest, SquashMerge
  <1>3. remoteBranch[p] \in Remote /\ pull[p] \in PullRequest
        /\ pull \in [Numbers -> PullRequest] /\ remoteBranch \in [Numbers -> Remote]
        /\ originMain \in SUBSET Work
    BY <1>1 DEF GitInv, GitTypes, ServedTypes
  <1>4. base \in Places /\ remoteBranch[p].has \in SUBSET Work
        /\ remoteBranch[p].from \in SUBSET Places
    BY <1>3 DEF PullRequest, Remote
  <1> HIDE DEF base
  <1>5. pull' \in [Numbers -> PullRequest]
    BY <1>1, <1>2, <1>3 DEF PullRequest
  <1>6. ServedTypes' /\ UNCHANGED <<gitTerminals, checkout, madeIn, gone, lineage>>
    BY <1>2, <1>5 DEF GitInv, GitTypes, ServedTypes, servedVars, historyVars
  <1>7. CASE base = Workspace
    <2>1. originMain' \in SUBSET Work /\ originMain \subseteq originMain'
          /\ remoteBranch' = remoteBranch
      BY <1>2, <1>3, <1>4, <1>7
    <2>2. PushedWork'
      BY <1>6, <2>1, PushedStays DEF GitInv
    <2> QED
      BY <1>3, <1>6, <2>1, <2>2, SameCheckouts
  <1>8. CASE base # Workspace
    <2>1. base \in Numbers
      BY <1>4, <1>8, PlacesApart DEF Workspace
    <2>2. b \in Remote
      BY <1>3, <2>1
    <2>3. more \in SUBSET Work /\ origins \in SUBSET Places
      BY <1>4, <2>2 DEF Remote
    <2>4. more = remoteBranch[base].has \cup remoteBranch[p].has
          /\ origins = remoteBranch[base].from \cup remoteBranch[p].from
      OBVIOUS
    <2>5. remoteBranch' = [remoteBranch EXCEPT ![base] = merged] /\ originMain' = originMain
      BY <1>2, <1>8
    <2> HIDE DEF more, origins, b
    <2>6. merged \in Remote /\ merged.has = more /\ merged.from = origins
      BY <2>2, <2>3 DEF Remote
    <2> HIDE DEF merged
    <2>7. remoteBranch' \in [Numbers -> Remote] /\ remoteBranch'[base] = merged
          /\ \A q \in Numbers : q # base => remoteBranch'[q] = remoteBranch[q]
      BY <1>3, <2>1, <2>5, <2>6
    <2>8. PushedWork'
      <3> SUFFICES ASSUME NEW q \in Numbers, NEW w \in Pieces, w \in remoteBranch'[q].has
                   PROVE  madeIn[w] \in remoteBranch'[q].from \/ w \in originMain
        BY <1>6, <2>5 DEF PushedWork
      <3>1. \A x \in Numbers : w \in remoteBranch[x].has =>
              madeIn[w] \in remoteBranch[x].from \/ w \in originMain
        BY DEF GitInv, PushedWork
      <3>2. CASE q = base
        BY <1>1, <2>1, <2>4, <2>6, <2>7, <3>1, <3>2
      <3>3. CASE q # base
        BY <2>7, <3>1, <3>3
      <3> QED
        BY <3>2, <3>3
    <2> QED
      BY <1>3, <1>6, <2>5, <2>7, <2>8, SameCheckouts
  <1> QED
    BY <1>7, <1>8

LEMMA GitRequestKeeps ==
  ASSUME GitInv, NEW tentacle \in Numbers, NEW p \in Places,
         GitRequest(tentacle, p) \/ PullRequestRequest(tentacle, p)
  PROVE  GitInv'
  <1>1. CASE CommitWorktree(tentacle, p)
    BY <1>1, CommitKeeps DEF CommitWorktree, ActsIn
  <1>2. CASE PushWorktree(tentacle, p)
    BY <1>2, PushKeeps
  <1>3. ASSUME NEW base \in Places, NEW todo \in SUBSET Work,
               SyncWorktree(tentacle, p, base, todo)
        PROVE  GitInv'
    BY <1>3, SyncKeeps DEF SyncWorktree, ActsIn
  <1>4. ASSUME NEW base \in Places, CreatePullRequest(tentacle, p, base)
        PROVE  GitInv'
    BY <1>4, CreatePullKeeps
  <1>5. CASE MergePullRequest(tentacle, p)
    BY <1>5, MergeKeeps
  <1> QED
    BY <1>1, <1>2, <1>3, <1>4, <1>5, PlacesApart DEF GitRequest, PullRequestRequest, Work

LEMMA GitStart == GitInit => GitInv
  <1> SUFFICES ASSUME GitInit PROVE GitInv
    OBVIOUS
  <1>1. gitTerminals \in Seq(GitTerminal) /\ ToSet(gitTerminals) = {} /\ DOMAIN gitTerminals = {}
    <2>1. gitTerminals = << >>
      BY DEF GitInit
    <2>2. gitTerminals \in Seq(GitTerminal) /\ Len(gitTerminals) = 0
      BY <2>1, EmptySeq
    <2>3. DOMAIN gitTerminals = 1..0
      BY <2>2
    <2> QED
      BY <2>2, <2>3 DEF ToSet
  <1>2. /\ NoCheckout \in Checkout /\ NoCheckout.dirty = {} /\ NoCheckout.head = {}
        /\ NoCheckout.todo = {} /\ NoCheckout.before = {}
    BY DEF NoCheckout, Checkout
  <1>3. \A b \in BOOLEAN : LET c == [NoCheckout EXCEPT !.dir = b, !.branch = b]
                           IN c \in Checkout /\ c.dirty = {} /\ c.head = {} /\ c.todo = {}
                              /\ c.before = {}
    <2> HIDE DEF NoCheckout
    <2> QED
      BY <1>2 DEF Checkout
  <1>4. \A p \in Places : checkout[p] \in Checkout /\ Holds(checkout, p) = {}
                          /\ checkout[p].todo = {} /\ checkout[p].before = {}
    <2> TAKE p \in Places
    <2> DEFINE b == p = Workspace
    <2>1. checkout[p] = [NoCheckout EXCEPT !.dir = b, !.branch = b] /\ b \in BOOLEAN
      BY DEF GitInit
    <2> HIDE DEF b
    <2> QED
      BY <1>3, <2>1 DEF Holds
  <1>5. NoRemote \in Remote /\ NoRemote.has = {}
        /\ [state |-> "none", base |-> Workspace] \in PullRequest
    BY PlacesApart DEF NoRemote, Remote, PullRequest
  <1>6. ServedTypes
    BY <1>5 DEF GitInit, ServedTypes
  <1>7. GitTypes
    BY <1>1, <1>4, <1>5, <1>6 DEF GitInit, GitTypes
  <1>8. OwnTrees
    BY <1>1 DEF OwnTrees
  <1>9. NothingElsewhere /\ WorkStaysInItsWorktree /\ PushedWork
    BY <1>4, <1>5, InHolds DEF NothingElsewhere, WorkStaysInItsWorktree, PushedWork, GitInit
  <1> QED
    BY <1>7, <1>8, <1>9 DEF GitInv

LEMMA GitInvariance == GitInv /\ [GitNext]_gitVars => GitInv'
  <1> SUFFICES ASSUME GitInv, [GitNext]_gitVars PROVE GitInv'
    OBVIOUS
  <1>1. CASE UNCHANGED gitVars
    BY <1>1, SameGit DEF gitVars, servedVars, GitInv, GitTypes, ServedTypes
  <1>2. ASSUME NEW id \in AskedIds, NEW tentacle \in AskedIds, NEW worktree \in AskedIds,
               NEW parent \in AskedIds, NEW mode \in {"shared", "worktree"},
               CreateAsked(id, tentacle, worktree, parent, mode)
        PROVE  GitInv'
    <2> DEFINE request == [id |-> id, tentacle |-> tentacle, worktree |-> worktree,
                           parent |-> parent, mode |-> mode, base |-> Workspace]
    <2>1. request \in GitAsk
      BY PlacesApart DEF GitAsk
    <2>2. CreateGitTerminal(request) /\ swarmRequest' = swarmRequest
      BY <1>2 DEF CreateAsked
    <2> HIDE DEF request
    <2> QED
      BY <2>1, <2>2, CreateKeeps
  <1>3. ASSUME NEW t \in ToSet(gitTerminals), NEW n \in 1..MaxTerminals,
               DeleteGitTerminalFails(t, n)
        PROVE  GitInv'
    BY <1>3, DeleteFailsKeeps
  <1>4. ASSUME NEW w \in OtherPieces, OthersPush(w)
        PROVE  GitInv'
    <2>1. /\ UNCHANGED <<gitTerminals, checkout, madeIn, gone, lineage, remoteBranch>>
          /\ originMain' = originMain \cup {w}
      BY <1>4 DEF OthersPush, servedVars, historyVars
    <2>2. ServedTypes'
      BY <1>4 DEF OthersPush, servedVars, GitInv, GitTypes, ServedTypes
    <2>3. originMain' \in SUBSET Work /\ remoteBranch' \in [Numbers -> Remote]
      BY <2>1 DEF GitInv, GitTypes, Work
    <2>4. PushedWork'
      BY <2>1, PushedStays DEF GitInv
    <2> QED
      BY <2>1, <2>2, <2>3, <2>4, SameCheckouts
  <1>5. ASSUME NEW p \in Numbers, NEW state \in {"open", "draft", "closed"},
               PullRequestChanges(p, state)
        PROVE  GitInv'
    <2>1. pull' = [pull EXCEPT ![p].state = state]
          /\ UNCHANGED <<servedVars, checkout, remoteBranch, originMain, historyVars>>
      BY <1>5 DEF PullRequestChanges
    <2>2. ServedTypes'
      BY <2>1 DEF GitInv, GitTypes, ServedTypes, servedVars, PullRequest
    <2> QED
      BY <2>1, <2>2, SameGit DEF servedVars
  <1> QED
    BY <1>1, <1>2, <1>3, <1>4, <1>5, SwarmBaseReadKeeps, SwarmWorkerCreatedKeeps, ShellsKeep,
       DeleteKeeps, PruneKeeps, AgentWorksKeeps, ContinueKeeps, GitRequestKeeps DEF GitNext

\* What an agent did stays in its directory or on origin's main until its worktree is
\* asked to go, and reaches other directories by origin's main or by the branches they
\* were started from and synced with only: for any number of terminals, any ids and
\* bases that requests name, any pieces of work and any deletes that fail half way.
THEOREM WorktreesAreApart == GitSpec => []WorkStaysInItsWorktree
  <1>1. GitInv => WorkStaysInItsWorktree
    BY DEF GitInv
  <1> QED
    BY <1>1, GitStart, GitInvariance, PTL DEF GitSpec


-----------------------------------------------------------------------------
\* The registry of terminals, for any set of its states.
\* The loop is writing exactly when it holds something to write.
LoopMatches == loop = "writing" <=> writing # None

\* What waits is never older than the memory.
PendingIsCurrent == pending # None => pending = mem

\* The early return of schedulePersist trusts what it remembers of the file.
LastIsOnDisk == last # None /\ ~failed => file = last

\* A process that is gone left nothing but the file.
DownIsEmpty ==
  phase = "down" =>
    pending = None /\ ~timer /\ loop = "idle" /\ writing = None /\ last = None

\* While the flush is awaited the loop runs; after its last round, and once the
\* flush resolved, only a change made since can be waiting.
ClosingRuns == phase = "closing" => loop # "idle"
FlushedOut ==
  ~late => /\ phase = "closing" /\ loop = "settling" => pending = None
           /\ phase = "exiting" => pending = None /\ loop = "idle"

IInv ==
  /\ TypeOK
  /\ NothingIsForgotten
  /\ LatestIsOnItsWay
  /\ LoopMatches
  /\ PendingIsCurrent
  /\ LastIsOnDisk
  /\ DownIsEmpty
  /\ ClosingRuns
  /\ FlushedOut

-----------------------------------------------------------------------------
LEMMA InitIInv == Init => IInv
  BY ConstantsAssumption
  DEF Init, IInv, TypeOK, Phase, NothingIsForgotten, LatestIsOnItsWay, LoopMatches,
      PendingIsCurrent, LastIsOnDisk, DownIsEmpty, ClosingRuns, FlushedOut

LEMMA MutateIInv == ASSUME IInv, NEW v \in Value, Mutate(v) PROVE IInv'
  <1> USE ConstantsAssumption
          DEF IInv, TypeOK, Phase, Mutate, SchedulePersist, Redundant
  <1>1. TypeOK'  OBVIOUS
  <1>2. NothingIsForgotten'  BY DEF NothingIsForgotten
  <1>3. LatestIsOnItsWay'
    BY DEF LatestIsOnItsWay, LastIsOnDisk, LoopMatches
  <1>4. PendingIsCurrent'  BY DEF PendingIsCurrent
  <1>5. LoopMatches' /\ LastIsOnDisk' /\ DownIsEmpty' /\ ClosingRuns'
    BY DEF LoopMatches, LastIsOnDisk, DownIsEmpty, ClosingRuns
  <1>6. FlushedOut'  BY DEF FlushedOut
  <1> QED  BY <1>1, <1>2, <1>3, <1>4, <1>5, <1>6

LEMMA DebounceFiresIInv == ASSUME IInv, DebounceFires PROVE IInv'
  <1> USE ConstantsAssumption DEF IInv, TypeOK, Phase, DebounceFires, RunWriteLoop
  <1>1. TypeOK'  OBVIOUS
  <1>2. NothingIsForgotten' /\ PendingIsCurrent' /\ LoopMatches'
    BY DEF NothingIsForgotten, PendingIsCurrent, LoopMatches
  <1>3. LatestIsOnItsWay'
    BY DEF LatestIsOnItsWay, PendingIsCurrent, LoopMatches
  <1>4. LastIsOnDisk' /\ DownIsEmpty' /\ ClosingRuns' /\ FlushedOut'
    BY DEF LastIsOnDisk, DownIsEmpty, ClosingRuns, FlushedOut
  <1> QED  BY <1>1, <1>2, <1>3, <1>4

LEMMA WriteSucceedsIInv == ASSUME IInv, WriteSucceeds PROVE IInv'
  <1> USE ConstantsAssumption DEF IInv, TypeOK, Phase, WriteSucceeds, NextWrite
  <1>1. TypeOK'  BY DEF LoopMatches
  <1>2. NothingIsForgotten' /\ PendingIsCurrent' /\ LoopMatches'
    BY DEF NothingIsForgotten, PendingIsCurrent, LoopMatches
  <1>3. LatestIsOnItsWay'
    BY DEF LatestIsOnItsWay, PendingIsCurrent, LoopMatches
  <1>4. LastIsOnDisk' /\ DownIsEmpty' /\ ClosingRuns' /\ FlushedOut'
    BY DEF LastIsOnDisk, DownIsEmpty, ClosingRuns, FlushedOut
  <1> QED  BY <1>1, <1>2, <1>3, <1>4

LEMMA WriteFailsIInv == ASSUME IInv, WriteFails PROVE IInv'
  <1> USE ConstantsAssumption DEF IInv, TypeOK, Phase, WriteFails, NextWrite
  <1>1. TypeOK'  OBVIOUS
  <1>2. NothingIsForgotten' /\ PendingIsCurrent' /\ LoopMatches'
    BY DEF NothingIsForgotten, PendingIsCurrent, LoopMatches
  <1>3. LatestIsOnItsWay' /\ LastIsOnDisk'
    BY DEF LatestIsOnItsWay, LastIsOnDisk
  <1>4. DownIsEmpty' /\ ClosingRuns' /\ FlushedOut'
    BY DEF DownIsEmpty, ClosingRuns, FlushedOut
  <1> QED  BY <1>1, <1>2, <1>3, <1>4

LEMMA LoopSettlesIInv == ASSUME IInv, LoopSettles PROVE IInv'
  <1> USE ConstantsAssumption DEF IInv, TypeOK, Phase, LoopSettles
  <1>1. TypeOK'  OBVIOUS
  <1>2. NothingIsForgotten' /\ PendingIsCurrent' /\ LoopMatches'
    BY DEF NothingIsForgotten, PendingIsCurrent, LoopMatches
  <1>3. LatestIsOnItsWay'
    BY DEF LatestIsOnItsWay, PendingIsCurrent, LoopMatches
  <1>4. LastIsOnDisk' /\ DownIsEmpty' /\ ClosingRuns' /\ FlushedOut'
    BY DEF LastIsOnDisk, DownIsEmpty, ClosingRuns, FlushedOut
  <1> QED  BY <1>1, <1>2, <1>3, <1>4

LEMMA CloseIInv == ASSUME IInv, NEW v \in Value, Close(v) PROVE IInv'
  <1> DEFINE p == IF Redundant(v) THEN pending ELSE v
  <1> USE ConstantsAssumption DEF IInv
  <1>1. p \in Value \cup {None} /\ (p # None => p = v)
    BY DEF TypeOK, Redundant
  <1>2. p = None => loop = "idle" /\ pending = None /\ v = last
    BY DEF Redundant
  <1>3. /\ phase = "up" /\ loop # "settling" /\ mem' = v
        /\ RunWriteLoop(p)
        /\ phase' = (IF loop = "idle" /\ p = None THEN "exiting" ELSE "closing")
        /\ timer' = FALSE
        /\ UNCHANGED <<last, file, failed, late>>
    BY DEF Close
  <1> HIDE DEF p
  <1> USE <1>1, <1>2, <1>3 DEF RunWriteLoop, TypeOK, Phase
  <1>4. TypeOK'  OBVIOUS
  <1>5. NothingIsForgotten' /\ PendingIsCurrent' /\ LoopMatches'
    BY DEF NothingIsForgotten, PendingIsCurrent, LoopMatches
  <1>6. LatestIsOnItsWay'
    BY DEF LatestIsOnItsWay, LastIsOnDisk, LoopMatches
  <1>7. LastIsOnDisk' /\ DownIsEmpty' /\ ClosingRuns' /\ FlushedOut'
    BY DEF LastIsOnDisk, DownIsEmpty, ClosingRuns, FlushedOut
  <1> QED  BY <1>4, <1>5, <1>6, <1>7

LEMMA GoDownIInv == ASSUME IInv, GoDown PROVE IInv'
  BY ConstantsAssumption
  DEF IInv, TypeOK, Phase, GoDown, NothingIsForgotten, LatestIsOnItsWay, LoopMatches,
      PendingIsCurrent, LastIsOnDisk, DownIsEmpty, ClosingRuns, FlushedOut

LEMMA StartIInv == ASSUME IInv, NEW v \in Value, Start(v) PROVE IInv'
  BY ConstantsAssumption
  DEF IInv, TypeOK, Phase, Start, NothingIsForgotten, LatestIsOnItsWay, LoopMatches,
      PendingIsCurrent, LastIsOnDisk, DownIsEmpty, ClosingRuns, FlushedOut

LEMMA NextIInv == IInv /\ [Next]_vars => IInv'
  <1> SUFFICES ASSUME IInv, [Next]_vars PROVE IInv'
    OBVIOUS
  <1>1. CASE UNCHANGED vars
    BY <1>1
    DEF vars, IInv, TypeOK, NothingIsForgotten, LatestIsOnItsWay, LoopMatches,
        PendingIsCurrent, LastIsOnDisk, DownIsEmpty, ClosingRuns, FlushedOut
  <1>2. CASE \E v \in Value : Mutate(v) \/ Close(v) \/ Start(v)
    BY <1>2, MutateIInv, CloseIInv, StartIInv
  <1>3. CASE DebounceFires  BY <1>3, DebounceFiresIInv
  <1>4. CASE WriteSucceeds  BY <1>4, WriteSucceedsIInv
  <1>5. CASE WriteFails  BY <1>5, WriteFailsIInv
  <1>6. CASE LoopSettles  BY <1>6, LoopSettlesIInv
  <1>7. CASE Exit \/ Crash  BY <1>7, GoDownIInv DEF Exit, Crash
  <1> QED  BY <1>1, <1>2, <1>3, <1>4, <1>5, <1>6, <1>7 DEF Next

LEMMA AlwaysIInv == Spec => []IInv
  BY InitIInv, NextIInv, PTL DEF Spec

-----------------------------------------------------------------------------
\* The variables of the writer keep the types of registry.ts.
THEOREM TypeCorrect == Spec => []TypeOK
  <1>1. IInv => TypeOK  BY DEF IInv
  <1> QED  BY <1>1, AlwaysIInv, PTL

\* createTerminalRegistryPersistence: a scheduled state always has a timer, or a
\* running write loop, that will take it.
THEOREM ScheduledStatesAreTaken == Spec => []NothingIsForgotten
  <1>1. IInv => NothingIsForgotten  BY DEF IInv
  <1> QED  BY <1>1, AlwaysIInv, PTL

\* schedulePersist and runWriteLoop: whatever is coalesced or dropped, the
\* newest of queue, write under way and file is the registry in memory.
THEOREM LatestIsKept == Spec => []LatestIsOnItsWay
  <1>1. IInv => LatestIsOnItsWay  BY DEF IInv
  <1> QED  BY <1>1, AlwaysIInv, PTL

\* close() and stop(): a process that exits after a flush of which no write
\* failed, with no change made since the stop began, left its registry on disk.
THEOREM StopsAreDurable == Spec => GracefulStopIsDurable
  <1> DEFINE A == Exit /\ phase = "exiting" /\ ~failed /\ ~late => file' = mem
  <1>1. IInv /\ [Next]_vars => [A]_vars
    <2> SUFFICES ASSUME IInv, Exit, ~failed, ~late PROVE file' = mem
      OBVIOUS
    <2>1. pending = None /\ writing = None
      BY DEF Exit, IInv, FlushedOut, LoopMatches
    <2>2. mem = file
      BY <2>1 DEF Exit, IInv, LatestIsOnItsWay
    <2> QED  BY <2>1, <2>2 DEF Exit, GoDown
  <1> QED  BY <1>1, AlwaysIInv, PTL DEF Spec, GracefulStopIsDurable

-----------------------------------------------------------------------------
\* The writer maps to the write-behind register step by step.
LEMMA StepRefines == ASSUME IInv, Next PROVE [WB!Next]_WB!wbvars
  <1> USE DEF WB!Next, WB!wbvars, IInv
  <1>1. ASSUME NEW v \in Value, Mutate(v) PROVE WB!Change
    BY <1>1 DEF Mutate, WB!Change
  <1>2. ASSUME NEW v \in Value, Close(v) PROVE WB!Next
    <2> DEFINE p == IF Redundant(v) THEN pending ELSE v
    <2>1. p # None => p = v
      BY DEF Redundant
    <2>2. RunWriteLoop(p) /\ mem' = v /\ UNCHANGED file
      BY <1>2 DEF Close
    <2> HIDE DEF p
    <2>3. CASE loop = "idle" /\ p # None
      BY <2>1, <2>2, <2>3 DEF RunWriteLoop, LoopMatches, WB!ChangeAndTake
    <2>4. CASE ~(loop = "idle" /\ p # None)
      BY <2>2, <2>4 DEF RunWriteLoop, WB!Change
    <2> QED  BY <2>3, <2>4
  <1>3. ASSUME NEW v \in Value, Start(v) PROVE WB!Up
    BY <1>3 DEF Start, DownIsEmpty, WB!Up
  <1>4. ASSUME DebounceFires PROVE WB!Take \/ UNCHANGED WB!wbvars
    BY <1>4
    DEF DebounceFires, RunWriteLoop, LoopMatches, PendingIsCurrent, WB!Take
  <1>5. ASSUME WriteSucceeds PROVE WB!Take \/ WB!Install
    BY <1>5
    DEF WriteSucceeds, NextWrite, LoopMatches, PendingIsCurrent, WB!Take, WB!Install
  <1>6. ASSUME WriteFails PROVE WB!GiveUp \/ WB!GiveUpAndTake
    BY <1>6
    DEF WriteFails, NextWrite, LoopMatches, PendingIsCurrent, WB!GiveUp, WB!GiveUpAndTake
  <1>7. ASSUME LoopSettles PROVE WB!Take \/ UNCHANGED WB!wbvars
    BY <1>7 DEF LoopSettles, LoopMatches, PendingIsCurrent, WB!Take
  <1>8. ASSUME GoDown PROVE WB!Down
    BY <1>8 DEF GoDown, WB!Down
  <1> QED
    BY <1>1, <1>2, <1>3, <1>4, <1>5, <1>6, <1>7, <1>8 DEF Next, Exit, Crash

\* The registry writer implements the write-behind register: each write installs
\* a snapshot of the memory as it was after the write before it was installed
\* or given up, so no older state ever overwrites a newer one.
THEOREM WritesBehind == Spec => RefinesWriteBehind
  <1>1. Init => WB!Init
    BY DEF Init, WB!Init
  <1>2. IInv /\ [Next]_vars => [WB!Next]_WB!wbvars
    <2>1. CASE UNCHANGED vars
      BY <2>1 DEF vars, WB!wbvars
    <2>2. CASE Next
      BY <2>2, StepRefines
    <2> QED  BY <2>1, <2>2
  <1> QED  BY <1>1, <1>2, AlwaysIInv, PTL DEF Spec, WB!Spec, RefinesWriteBehind
=============================================================================
