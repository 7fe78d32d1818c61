--------------------------- MODULE OctogentLaunch ---------------------------
(* "Run Octogent" of Octoplan for one workspace: launchOctogent of          *)
(* octoplan/server/planOps.ts with integrations/octogentLaunch.ts and       *)
(* octogentRuntime.ts, together with the Octogent processes it watches:     *)
(* start, shutdown and crash in apps/api/src/cli.ts, and the runtime.json   *)
(* by which the two programs know of each other.  People start and stop     *)
(* Octogent as well.                                                        *)
EXTENDS Naturals, FiniteSets

CONSTANTS
  Instances,        \* processes of Octogent in the workspace, by pid
  NoInstance,
  LaunchRequests,   \* requests to launch that the server handles
  Ports,            \* the ports findOpenPort tries, from its first
  MaxSurprises      \* bound of the model: starts by people, and time-outs

ASSUME LaunchAssumption ==
  /\ NoInstance \notin Instances /\ IsFiniteSet(Instances)
  /\ Ports \subseteq Nat \ {0} /\ MaxSurprises \in Nat

VARIABLES
  projectJson,     \* has the workspace a .octogent/project.json
  runtimeJson,     \* pid and port in runtime.json of the project, if there is one
  instance,        \* each process: its step, its port, whether the project was
                   \* set up when it started, so that its runtime.json is the project's
  launching,       \* the set `launching` holds the workspace
  launch,          \* where each request stands
  surprises        \* starts by people and launches that timed out

launchVars == <<projectJson, runtimeJson, instance, launching, launch, surprises>>

NoRuntime == [pid |-> NoInstance, port |-> 0]
Off == [at |-> "off", port |-> 0, inProject |-> FALSE]

LaunchInit ==
  /\ projectJson \in BOOLEAN
  /\ runtimeJson = NoRuntime
  /\ instance = [i \in Instances |-> Off]
  /\ launching = FALSE
  /\ launch = [r \in LaunchRequests |-> "idle"]
  /\ surprises = 0

Alive(i) == instance[i].at # "off"
Listening(port) == \E i \in Instances : instance[i].at = "up" /\ instance[i].port = port
-----------------------------------------------------------------------------
(* A process of Octogent. *)

StartOctogent(i) ==
  /\ instance[i].at = "off"
  /\ instance' = [instance EXCEPT ![i] =
       [at |-> "probing", port |-> 0, inProject |-> projectJson]]

(* A start by a person is one surprise for a launch. *)
PersonStarts(i) ==
  /\ surprises < MaxSurprises
  /\ StartOctogent(i)
  /\ surprises' = surprises + 1
  /\ UNCHANGED <<projectJson, runtimeJson, launching, launch>>

PersonInitializes ==
  /\ ~projectJson
  /\ projectJson' = TRUE
  /\ UNCHANGED <<runtimeJson, instance, launching, launch, surprises>>

(* findOpenPort: the first port nobody listens on; then createApiServer.    *)
FindOpenPort(i) ==
  /\ instance[i].at = "probing"
  /\ \E port \in Ports :
       /\ ~Listening(port)
       /\ \A lower \in Ports : lower < port => Listening(lower)
       /\ instance' = [instance EXCEPT ![i].at = "listening", ![i].port = port]
  /\ UNCHANGED <<projectJson, runtimeJson, launching, launch, surprises>>

(* start, then writeRuntimeMetadata; the port may have been taken meanwhile. *)
Listens(i) ==
  /\ instance[i].at = "listening"
  /\ \/ /\ ~Listening(instance[i].port)
        /\ instance' = [instance EXCEPT ![i].at = "up"]
        /\ runtimeJson' = IF instance[i].inProject
                            THEN [pid |-> i, port |-> instance[i].port] ELSE runtimeJson
     \/ /\ Listening(instance[i].port)
        /\ instance' = [instance EXCEPT ![i] = Off]
        /\ UNCHANGED runtimeJson
  /\ UNCHANGED <<projectJson, launching, launch, surprises>>

(* shutdown clears the file, whoever wrote it, before it stops.             *)
Shutdown(i) ==
  /\ instance[i].at \in {"listening", "up"}
  /\ runtimeJson' = IF instance[i].inProject THEN NoRuntime ELSE runtimeJson
  /\ instance' = [instance EXCEPT ![i].at = "stopping"]
  /\ UNCHANGED <<projectJson, launching, launch, surprises>>

(* A process ends after its shutdown, or crashes and leaves the file.       *)
Exits(i) ==
  /\ Alive(i)
  /\ instance' = [instance EXCEPT ![i] = Off]
  /\ UNCHANGED <<projectJson, runtimeJson, launching, launch, surprises>>
-----------------------------------------------------------------------------
(* A launch.  Each step ends at an await. *)

At(r, step) == launch[r] = step
Goes(r, step) == launch' = [launch EXCEPT ![r] = step]

(* finally: launching.delete(key) *)
LaunchOver(r) == Goes(r, "idle") /\ launching' = FALSE

RequestLaunch(r) ==
  /\ At(r, "idle") /\ Goes(r, "resolving")
  /\ UNCHANGED <<projectJson, runtimeJson, instance, launching, surprises>>

(* Slip: nobody looks whether a launch is under way. *)
ClaimLaunch_NoLock(r) ==
  /\ At(r, "resolving") /\ Goes(r, "status") /\ launching' = TRUE
  /\ UNCHANGED <<projectJson, runtimeJson, instance, surprises>>

(* The workspace is resolved: "Octogent is already starting..." or go on.     *)
ClaimLaunch(r) ==
  /\ At(r, "resolving")
  /\ IF launching THEN Goes(r, "idle") /\ UNCHANGED launching
                  ELSE Goes(r, "status") /\ launching' = TRUE
  /\ UNCHANGED <<projectJson, runtimeJson, instance, surprises>>

(* readOctogentRuntime: a pid that is alive counts, answering or not.       *)
Initialized == projectJson
RuntimeAlive == Initialized /\ runtimeJson.pid # NoInstance /\ Alive(runtimeJson.pid)

(* The status is not up, or the CLI is not installed.                       *)
ReadStatus(r) ==
  /\ At(r, "status")
  /\ \/ LaunchOver(r)
     \/ /\ ~RuntimeAlive
        /\ Goes(r, IF Initialized THEN "terminal" ELSE "init")
        /\ UNCHANGED launching
  /\ UNCHANGED <<projectJson, runtimeJson, instance, surprises>>

OctogentInit(r) ==
  /\ At(r, "init")
  /\ \/ /\ projectJson' = TRUE
        /\ Goes(r, "terminal")
        /\ UNCHANGED launching
     \/ LaunchOver(r) /\ UNCHANGED projectJson
  /\ UNCHANGED <<runtimeJson, instance, surprises>>

(* A terminal opens and octogent may start in it; or none opens.            *)
OpenTerminal(r) ==
  /\ At(r, "terminal")
  /\ \/ /\ Goes(r, "polling")
        /\ \/ \E i \in Instances : StartOctogent(i)
           \/ UNCHANGED instance
        /\ UNCHANGED launching
     \/ LaunchOver(r) /\ UNCHANGED instance
  /\ UNCHANGED <<projectJson, runtimeJson, surprises>>

PollSeesRunning(r) ==
  /\ At(r, "polling")
  /\ RuntimeAlive /\ Listening(runtimeJson.port)
  /\ LaunchOver(r)
  /\ UNCHANGED <<projectJson, runtimeJson, instance, surprises>>

PollTimesOut(r) ==
  /\ surprises < MaxSurprises
  /\ At(r, "polling")
  /\ LaunchOver(r)
  /\ surprises' = surprises + 1
  /\ UNCHANGED <<projectJson, runtimeJson, instance>>

LaunchNext ==
  \/ PersonInitializes
  \/ \E i \in Instances :
       \/ PersonStarts(i) \/ FindOpenPort(i) \/ Listens(i) \/ Shutdown(i) \/ Exits(i)
  \/ \E r \in LaunchRequests :
       \/ RequestLaunch(r) \/ ClaimLaunch(r) \/ ReadStatus(r)
       \/ OctogentInit(r) \/ OpenTerminal(r) \/ PollSeesRunning(r) \/ PollTimesOut(r)

LaunchSpec == LaunchInit /\ [][LaunchNext]_launchVars
-----------------------------------------------------------------------------
(* "A workspace that already has a live Octogent is never launched twice"   *)
(* (octogentLaunch.ts:3), as far as it can hold: besides one process, the   *)
(* workspace has as many live ones as people started and as launches were   *)
(* given up, whatever crashes, shuts down, loses its port or clears the     *)
(* runtime.json of another.                                                 *)
Live == {i \in Instances : instance[i].at \in {"probing", "listening", "up"}}

LiveInstancesAreFew == Cardinality(Live) <= 1 + surprises
=============================================================================
