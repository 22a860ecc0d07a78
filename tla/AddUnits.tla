------------------------------ MODULE AddUnits ------------------------------
(***************************************************************************)
(* The docker provisioner's AddUnits (provision/docker/provisioner.go):    *)
(* count the app's containers, then run the create-units pipeline         *)
(* [provisionAddUnitsToHost, addNewRoutes] (UnitsPipeline) with one       *)
(* start() goroutine per new unit (ContainerActions).  No build container *)
(* takes part (Builds = {}) and nothing is replaced (toRemove = {}).       *)
(***************************************************************************)
EXTENDS UnitsPipeline

ASSUME Units # {} /\ Builds = {}

\* The app before AddUnits: its units are started, running and routed.
Init ==
  /\ db = [c \in Conts |-> IF c \in Existing THEN Started ELSE Absent]
  /\ docker = [c \in Conts |-> IF c \in Existing THEN "running" ELSE "absent"]
  /\ routes = Existing
  /\ image = "deployed"
  /\ unit = [u \in Units |-> "idle"]
  /\ created = {}
  /\ caller = "count"
  /\ added = {}
  /\ removed = {}
  /\ toRemove = {}
  /\ pending = {}
  /\ removing = {}

\* AddUnits: getContainerCountForAppName; units can only be added after the
\* first deployment.  Then runCreateUnitsPipeline, whose
\* addContainersWithHost launches one goroutine per unit.
AddUnits ==
  /\ caller = "count"
  /\ IF \E c \in Conts : db[c] # Absent
       THEN RunPipeline(Units, {})
       ELSE /\ caller' = "error"
            /\ UNCHANGED <<unit, toRemove>>
  /\ UNCHANGED <<db, docker, routes, image, created, added, removed, pending, removing>>

\* One step of a start() goroutine.
StartStep(u) ==
  /\ \/ insertEmptyContainerInDB(u)
     \/ createContainer(u)
     \/ startContainer(u)
     \/ updateContainerInDB(u)
     \/ setNetworkInfo(u)
     \/ setImage(u)
     \/ setStatus(u)
     \/ startContainerBackward(u)
     \/ createContainerBackward(u)
     \/ insertEmptyContainerInDBBackward(u)
  /\ UNCHANGED <<caller, added, removed, toRemove, pending, removing>>

Returned == caller \in {"ok", "error"}

Next ==
  \/ AddUnits
  \/ addContainersWithHostJoin
  \/ addContainersWithHostCleanup
  \/ addNewRoutes
  \/ addNewRoutesUndo
  \/ provisionAddUnitsToHostBackward
  \/ \E u \in Units : StartStep(u)
  \/ Returned /\ UNCHANGED vars

Spec == Init /\ [][Next]_vars

-----------------------------------------------------------------------------
TypeOK ==
  /\ db \in [Conts -> Records \cup {Absent}]
  /\ docker \in [Conts -> DockerStates]
  /\ routes \subseteq Conts
  /\ image \in Images
  /\ unit \in [Units -> UnitLabels]
  /\ caller \in PipelineLabels \cup {"count"}
  /\ created \subseteq Units /\ added \subseteq Units
  /\ pending \subseteq Units /\ removing \subseteq Units

\* Rollback law (spec section 8): when AddUnits returns an error, the
\* metadata store, the docker hosts and the router are as they were before
\* it ran.  It depends on every start() goroutine, the join's cleanup,
\* addNewRoutes' undo and provisionAddUnitsToHost's backward together.
RollbackLaw ==
  caller = "error" =>
    /\ db = [c \in Conts |-> IF c \in Existing THEN Started ELSE Absent]
    /\ docker = [c \in Conts |-> IF c \in Existing THEN "running" ELSE "absent"]
    /\ routes = Existing

\* Once a start() goroutine has finished, its unit either has both a record
\* and a docker container or neither, unless a removeContainer on it is
\* between RemoveContainer and the record's removal: the start pipeline's
\* backward chain and removeContainer never leave an orphan container
\* nobody lists, nor a record pointing to no container.
UnitsConsistent ==
  \A u \in Units :
    unit[u] \in {"started", "failed"} /\ u \notin removing =>
      (db[u] = Absent <=> docker[u] = "absent")

\* When AddUnits returns success, every new unit is recorded as started
\* with its network info, runs on its node and is routed, and the existing
\* units are untouched.
AddedUnitsServe ==
  caller = "ok" =>
    /\ \A u \in Units : db[u] = Started /\ docker[u] = "running" /\ u \in routes
    /\ \A e \in Existing : db[e] = Started /\ docker[e] = "running" /\ e \in routes

=============================================================================
