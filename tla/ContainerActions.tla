-------------------------- MODULE ContainerActions --------------------------
(***************************************************************************)
(* The per-container action pipelines of provision/docker                  *)
(* (actions.go, docker.go), one goroutine per container:                   *)
(*                                                                         *)
(*  - start(): [insertEmptyContainerInDB, createContainer, startContainer, *)
(*    updateContainerInDB, setNetworkInfo], then setImage and              *)
(*    setStatus("started");  run for every container in Units;             *)
(*  - deploy(): [insertEmptyContainerInDB, createContainer, startContainer,*)
(*    updateContainerInDB, followLogsAndCommit];  run for every build      *)
(*    container in Builds.                                                 *)
(*                                                                         *)
(* A failing forward step jumps to the backward of the step before it:    *)
(* the action pipeline runs the backwards k-1 .. 0 in reverse and returns *)
(* the error (updateContainerInDB's backward is empty).  It also holds     *)
(* removeContainer, the stop-then-remove of a container that the callers  *)
(* run when no goroutine touches it.                                       *)
(*                                                                         *)
(* Shared state: the metadata store (db), the docker nodes (docker), the  *)
(* edge router (routes) and the app's image tag in docker (image).  Each  *)
(* external call that may fail is named in FailPoints; compensation calls *)
(* fail only when CleanupMayFail.                                          *)
(***************************************************************************)
EXTENDS Naturals, FiniteSets

CONSTANTS
  Existing,        \* containers of the app before the operation starts
  Units,           \* containers created by a start() goroutine
  Builds,          \* build containers created by deploy()
  FailPoints,      \* forward calls that may return an error
  CleanupMayFail   \* whether backward/cleanup calls may return an error

Conts == Existing \cup Units \cup Builds

ASSUME Existing \cap Units = {} /\ Builds \cap (Existing \cup Units) = {}
ASSUME FailPoints \subseteq
         {"insert", "create", "start", "update", "netinfo", "setImage",
          "setStatus", "build", "commit", "push", "addRoute", "removeRoute",
          "list"}
ASSUME CleanupMayFail \in BOOLEAN

\* A container record: its status, whether updateContainerInDB stored the
\* docker ID, and whether the network info (HostPort, IP) was persisted.
\* Absent stands for "no record in the collection".
Absent == [status |-> "absent", id |-> FALSE, net |-> FALSE]
Records == [status : {"created", "started", "stopped"}, id : BOOLEAN, net : BOOLEAN]
Started == [status |-> "started", id |-> TRUE, net |-> TRUE]
DockerStates == {"absent", "created", "running", "stopped"}
\* The app's image tag (assembleImageName(app)): the last deployed build,
\* or a newer commit.
Images == {"deployed", "committed"}

VARIABLES
  db,        \* Conts -> Records \cup {Absent}: the docker collection
  docker,    \* Conts -> DockerStates: the container on its docker node
  routes,    \* set of containers whose address the router serves
  image,     \* what the app's image tag points at
  unit,      \* Units \cup Builds -> label: where each goroutine is
  created    \* the createdContainers channel: units whose start() succeeded

cvars == <<db, docker, routes, image, unit, created>>

Forward  == {"insert", "create", "start", "update", "netinfo", "setImage",
             "setStatus", "follow", "commit", "push", "removeBuild"}
Backward == {"undoStart", "undoCreate", "undoInsert"}
UnitLabels == {"idle", "started", "built", "failed"} \cup Forward \cup Backward

\* A call either succeeds or, if it is a fail point, returns an error.
Outcomes(point) == IF point \in FailPoints THEN {TRUE, FALSE} ELSE {TRUE}
CleanupOutcomes == IF CleanupMayFail THEN {TRUE, FALSE} ELSE {TRUE}

Goto(u, to) == unit' = [unit EXCEPT ![u] = to]

\* The step after updateContainerInDB: setNetworkInfo in start(),
\* followLogsAndCommit in deploy().
AfterUpdate(u) == IF u \in Builds THEN "follow" ELSE "netinfo"

-----------------------------------------------------------------------------
(* The action pipeline steps.                                              *)

\* Mutant of insertEmptyContainerInDB: the record is inserted as "building".
insertEmptyAsBuilding(u) ==
  /\ unit[u] = "insert"
  /\ db' = [db EXCEPT ![u] = [status |-> "building", id |-> FALSE, net |-> FALSE]]
  /\ Goto(u, "create")
  /\ UNCHANGED <<docker, routes, image, created>>

\* insertEmptyContainerInDB: insert {Name, Status: "created"} with no ID.
insertEmptyContainerInDB(u) ==
  /\ unit[u] = "insert"
  /\ \E ok \in Outcomes("insert") :
       IF ok THEN /\ db' = [db EXCEPT ![u] = [status |-> "created", id |-> FALSE, net |-> FALSE]]
                  /\ Goto(u, "create")
             ELSE /\ Goto(u, "failed")
                  /\ UNCHANGED db
  /\ UNCHANGED <<docker, routes, image, created>>

\* Mutant of insertEmptyContainerInDBBackward: the record is removed by ID,
\* which is still empty unless updateContainerInDB stored it.
insertEmptyBackwardByID(u) ==
  /\ unit[u] = "undoInsert"
  /\ \E ok \in CleanupOutcomes :
       db' = IF ok /\ db[u].id THEN [db EXCEPT ![u] = Absent] ELSE db
  /\ Goto(u, "failed")
  /\ UNCHANGED <<docker, routes, image, created>>

\* Backward of insertEmptyContainerInDB: remove the record by name.
insertEmptyContainerInDBBackward(u) ==
  /\ unit[u] = "undoInsert"
  /\ \E ok \in CleanupOutcomes :
       db' = IF ok THEN [db EXCEPT ![u] = Absent] ELSE db
  /\ Goto(u, "failed")
  /\ UNCHANGED <<docker, routes, image, created>>

\* createContainer: the scheduler picks a node and the container is created.
createContainer(u) ==
  /\ unit[u] = "create"
  /\ \E ok \in Outcomes("create") :
       IF ok THEN /\ docker' = [docker EXCEPT ![u] = "created"]
                  /\ Goto(u, "start")
             ELSE /\ Goto(u, "undoInsert")
                  /\ UNCHANGED docker
  /\ UNCHANGED <<db, routes, image, created>>

\* Mutant of createContainerBackward: the backward forgets RemoveContainer.
createContainerBackwardKeeps(u) ==
  /\ unit[u] = "undoCreate"
  /\ Goto(u, "undoInsert")
  /\ UNCHANGED <<db, docker, routes, image, created>>

\* Backward of createContainer: RemoveContainer on the cluster.
createContainerBackward(u) ==
  /\ unit[u] = "undoCreate"
  /\ \E ok \in CleanupOutcomes :
       docker' = IF ok THEN [docker EXCEPT ![u] = "absent"] ELSE docker
  /\ Goto(u, "undoInsert")
  /\ UNCHANGED <<db, routes, image, created>>

\* startContainer: StartContainer with the port bindings.
startContainer(u) ==
  /\ unit[u] = "start"
  /\ \E ok \in Outcomes("start") :
       IF ok THEN /\ docker' = [docker EXCEPT ![u] = "running"]
                  /\ Goto(u, "update")
             ELSE /\ Goto(u, "undoCreate")
                  /\ UNCHANGED docker
  /\ UNCHANGED <<db, routes, image, created>>

\* Backward of startContainer: StopContainer (the container is not removed
\* here; createContainer's backward removes it).
startContainerBackward(u) ==
  /\ unit[u] = "undoStart"
  /\ \E ok \in CleanupOutcomes :
       docker' = IF ok /\ docker[u] = "running"
                   THEN [docker EXCEPT ![u] = "stopped"] ELSE docker
  /\ Goto(u, "undoCreate")
  /\ UNCHANGED <<db, routes, image, created>>

\* updateContainerInDB: Update by name, storing ID, HostAddr and User.
updateContainerInDB(u) ==
  /\ unit[u] = "update"
  /\ \E ok \in Outcomes("update") :
       IF ok THEN /\ db' = [db EXCEPT ![u].id = TRUE]
                  /\ Goto(u, AfterUpdate(u))
             ELSE /\ Goto(u, "undoStart")
                  /\ UNCHANGED db
  /\ UNCHANGED <<docker, routes, image, created>>

\* setNetworkInfo: InspectContainer; fails when the HTTP port is not mapped.
\* The info is kept in the in-memory container only.
setNetworkInfo(u) ==
  /\ unit[u] = "netinfo"
  /\ \E ok \in Outcomes("netinfo") :
       Goto(u, IF ok THEN "setImage" ELSE "undoStart")
  /\ UNCHANGED <<db, docker, routes, image, created>>

\* start(), after the pipeline: c.setImage(imageId) writes the whole
\* in-memory container, network info included; on error start() returns
\* the error and nothing is undone.
setImage(u) ==
  /\ unit[u] = "setImage"
  /\ \E ok \in Outcomes("setImage") :
       IF ok THEN /\ db' = [db EXCEPT ![u].net = TRUE]
                  /\ Goto(u, "setStatus")
             ELSE /\ Goto(u, "failed")
                  /\ UNCHANGED db
  /\ UNCHANGED <<docker, routes, image, created>>

\* start(), last step: c.setStatus("started"); on error nothing is undone.
\* On success the goroutine sends the container on createdContainers.
setStatus(u) ==
  /\ unit[u] = "setStatus"
  /\ \E ok \in Outcomes("setStatus") :
       IF ok THEN /\ db' = [db EXCEPT ![u].status = "started"]
                  /\ Goto(u, "started")
                  /\ created' = created \cup {u}
             ELSE /\ Goto(u, "failed")
                  /\ UNCHANGED <<db, created>>
  /\ UNCHANGED <<docker, routes, image>>

\* followLogsAndCommit, first part: c.logs streams the build output until
\* the container exits, WaitContainer returns its exit status, and a
\* non-zero status is an error.  A failure of logs or WaitContainer may
\* leave the build still running.
followLogsAndCommit(u) ==
  /\ unit[u] = "follow"
  /\ \E ok \in Outcomes("build") :
       IF ok THEN /\ docker' = [docker EXCEPT ![u] = "stopped"]
                  /\ Goto(u, "commit")
             ELSE /\ \E st \in {docker[u], "stopped"} :
                       docker' = [docker EXCEPT ![u] = st]
                  /\ Goto(u, "undoStart")
  /\ UNCHANGED <<db, routes, image, created>>

\* Mutant of commit: the platform's repository is tagged instead of the
\* app's.
commitPlatformTag(u) ==
  /\ unit[u] = "commit"
  /\ \E ok \in Outcomes("commit") :
       IF ok THEN /\ image' = "platform"
                  /\ Goto(u, "push")
             ELSE /\ Goto(u, "undoStart")
                  /\ UNCHANGED image
  /\ UNCHANGED <<db, docker, routes, created>>

\* c.commit(), first part: CommitContainer tags the app's repository
\* (assembleImageName) with the build.
commit(u) ==
  /\ unit[u] = "commit"
  /\ \E ok \in Outcomes("commit") :
       IF ok THEN /\ image' = "committed"
                  /\ Goto(u, "push")
             ELSE /\ Goto(u, "undoStart")
                  /\ UNCHANGED image
  /\ UNCHANGED <<db, docker, routes, created>>

\* c.commit(), second part: pushImage to the registry, when one is
\* configured; an error fails the step, the tag stays.
pushImage(u) ==
  /\ unit[u] = "push"
  /\ \E ok \in Outcomes("push") :
       Goto(u, IF ok THEN "removeBuild" ELSE "undoStart")
  /\ UNCHANGED <<db, docker, routes, image, created>>

\* followLogsAndCommit, last part: c.remove() of the exited build
\* container (RemoveContainer, removeHost, remove the record by ID,
\* RemoveRoute, which finds no route); errors are logged and the step
\* returns the image.
removeBuild(u) ==
  /\ unit[u] = "removeBuild"
  /\ \E rmOk, delOk \in CleanupOutcomes :
       /\ docker' = IF rmOk THEN [docker EXCEPT ![u] = "absent"] ELSE docker
       /\ db' = IF delOk THEN [db EXCEPT ![u] = Absent] ELSE db
  /\ Goto(u, "built")
  /\ UNCHANGED <<routes, image, created>>

\* Every goroutine has returned.
Joined(S) == \A u \in S : unit[u] \in {"idle", "started", "built", "failed"}

-----------------------------------------------------------------------------
(* removeContainer(c), in two steps: c.stop() -- unless the copy is      *)
(* already "stopped": StopContainer, setStatus("stopped") -- and           *)
(* RemoveContainer (without Force); then the rest of c.remove(): remove    *)
(* the record by ID and RemoveRoute.  Errors are logged.  Callers run it   *)
(* on containers no start() goroutine touches.                             *)

\* c.stop(), then c.remove() up to RemoveContainer, which docker refuses
\* for a container still running.
removeContainerDocker(c) ==
  \E stopOk, setOk, rmOk \in CleanupOutcomes :
    LET skip == db[c].status = "stopped"
        stopped == IF skip \/ docker[c] # "running" \/ ~stopOk
                     THEN docker[c] ELSE "stopped"
    IN /\ docker' = [docker EXCEPT ![c] =
                       IF rmOk /\ stopped # "running" THEN "absent" ELSE stopped]
       /\ db' = IF setOk /\ ~skip /\ db[c] # Absent
                  THEN [db EXCEPT ![c].status = "stopped"] ELSE db
       /\ UNCHANGED routes

\* The rest of c.remove(): removeHost, remove the record by ID,
\* RemoveRoute (ErrRouteNotFound is logged like any error).
removeContainerRecord(c) ==
  \E delOk, unrouteOk \in CleanupOutcomes :
    /\ db' = IF delOk THEN [db EXCEPT ![c] = Absent] ELSE db
    /\ routes' = IF unrouteOk THEN routes \ {c} ELSE routes
    /\ UNCHANGED docker

=============================================================================
