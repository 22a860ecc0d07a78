------------------------------- MODULE Deploy -------------------------------
(***************************************************************************)
(* A deploy of one app (provision/docker/provisioner.go GitDeploy,        *)
(* ArchiveDeploy and dockerProvisioner.deploy; docker.go deploy):          *)
(*                                                                         *)
(*  1. deploy() runs the build pipeline [insertEmptyContainerInDB,         *)
(*     createContainer, startContainer, updateContainerInDB,               *)
(*     followLogsAndCommit] for a build container b (ContainerActions);    *)
(*     its error is returned at once;                                      *)
(*  2. p.deploy lists the app's containers: none -> the create-units       *)
(*     pipeline with one unit; otherwise the replace-units pipeline with  *)
(*     as many new units as listed containers, which are replaced          *)
(*     (UnitsPipeline).                                                    *)
(***************************************************************************)
EXTENDS UnitsPipeline

CONSTANT InitRoutes   \* the existing containers the router serves at first

ASSUME Cardinality(Builds) = 1 /\ InitRoutes \subseteq Existing

Build == CHOOSE b \in Builds : TRUE

InitDb == [c \in Conts |-> IF c \in Existing THEN Started ELSE Absent]
InitDocker == [c \in Conts |-> IF c \in Existing THEN "running" ELSE "absent"]

\* The app before the deploy: its units are started and running.
Init ==
  /\ db = InitDb
  /\ docker = InitDocker
  /\ routes = InitRoutes
  /\ image = "deployed"
  /\ unit = [u \in Units \cup Builds |-> "idle"]
  /\ created = {}
  /\ caller = "deploy"
  /\ added = {}
  /\ removed = {}
  /\ toRemove = {}
  /\ pending = {}
  /\ removing = {}

\* GitDeploy / ArchiveDeploy: deploy() runs the build pipeline.
deploy ==
  /\ caller = "deploy"
  /\ unit' = [unit EXCEPT ![Build] = "insert"]
  /\ caller' = "build"
  /\ UNCHANGED <<db, docker, routes, image, created, added, removed, toRemove, pending, removing>>

\* Once deploy() returns: its error is returned; otherwise p.deploy lists
\* the app's containers (every record of the app) and runs the
\* create-units pipeline with one unit when there is none, else the
\* replace-units pipeline for all of them.  The listing's error is
\* dropped: a failed listing yields no containers.
provisionerDeploy ==
  /\ caller = "build"
  /\ unit[Build] \in {"built", "failed"}
  /\ IF unit[Build] = "failed"
       THEN /\ caller' = "error"
            /\ UNCHANGED <<unit, toRemove>>
       ELSE \E listOk \in Outcomes("list") :
            LET listed == IF listOk THEN {c \in Conts : db[c] # Absent} ELSE {}
                n == IF listed = {} THEN 1 ELSE Cardinality(listed)
            IN /\ n <= Cardinality(Units)
               /\ RunPipeline(CHOOSE S \in SUBSET Units : Cardinality(S) = n, listed)
  /\ UNCHANGED <<db, docker, routes, image, created, added, removed, pending, removing>>

\* One step of the build or of a start() goroutine.
GoroutineStep(u) ==
  /\ \/ insertEmptyContainerInDB(u)
     \/ createContainer(u)
     \/ startContainer(u)
     \/ updateContainerInDB(u)
     \/ setNetworkInfo(u)
     \/ setImage(u)
     \/ setStatus(u)
     \/ followLogsAndCommit(u)
     \/ commit(u)
     \/ pushImage(u)
     \/ removeBuild(u)
     \/ startContainerBackward(u)
     \/ createContainerBackward(u)
     \/ insertEmptyContainerInDBBackward(u)
  /\ UNCHANGED <<caller, added, removed, toRemove, pending, removing>>

Returned == caller \in {"ok", "error"}

Next ==
  \/ deploy
  \/ provisionerDeploy
  \/ addContainersWithHostJoin
  \/ addContainersWithHostCleanup
  \/ addNewRoutes
  \/ addNewRoutesUndo
  \/ removeOldRoutes
  \/ removeOldRoutesUndo
  \/ addNewRoutesBackward
  \/ provisionRemoveOldUnits
  \/ provisionAddUnitsToHostBackward
  \/ \E u \in Units \cup Builds : GoroutineStep(u)
  \/ Returned /\ UNCHANGED vars

Spec == Init /\ [][Next]_vars

-----------------------------------------------------------------------------
TypeOK ==
  /\ db \in [Conts -> Records \cup {Absent}]
  /\ docker \in [Conts -> DockerStates]
  /\ routes \subseteq Conts
  /\ image \in Images
  /\ unit \in [Units \cup Builds -> UnitLabels]
  /\ caller \in PipelineLabels \cup {"deploy", "build"}
  /\ created \subseteq Units /\ added \subseteq Units
  /\ removed \subseteq Conts /\ toRemove \subseteq Conts
  /\ pending \subseteq Conts /\ removing \subseteq Conts

\* Routing continuity (spec 4.5.2 and 4.5.6: new routes are added before
\* old ones are removed): an app that had units keeps at least one route
\* at every point of the deploy, and the router never serves a container
\* that is not running -- through the build, the replace pipeline, and
\* every rollback path of addNewRoutes and removeOldRoutes.
RoutedRunning ==
  InitRoutes # {} =>
    /\ routes # {}
    /\ \A c \in routes : docker[c] = "running"

\* Rollback law (spec section 8; rollback is local to each pipeline): a
\* deploy that returns an error leaves the metadata store, the docker nodes
\* and the router as they were -- the build container and its record are
\* gone, and so are the new units -- and, when the build pipeline is the
\* one that failed, the app's image tag too.
RollbackLaw ==
  caller = "error" =>
    /\ db = InitDb
    /\ docker = InitDocker
    /\ routes = InitRoutes
    /\ unit[Build] = "failed" => image = "deployed"

\* A deploy that succeeds has replaced every old unit: the old containers
\* and the build container have no record, no docker container and no
\* route; as many new units as old ones (one on a first deploy) are
\* started, running and routed, from the committed image.
DeployReplaces ==
  caller = "ok" =>
    /\ image = "committed"
    /\ \A c \in Existing \cup Builds :
         db[c] = Absent /\ docker[c] = "absent" /\ c \notin routes
    /\ Cardinality(created) = IF Existing = {} THEN 1 ELSE Cardinality(Existing)
    /\ \A u \in created : db[u] = Started /\ docker[u] = "running" /\ u \in routes

=============================================================================
