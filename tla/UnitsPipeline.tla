--------------------------- MODULE UnitsPipeline ---------------------------
(***************************************************************************)
(* The change-units pipelines of provision/docker (actions.go):            *)
(*                                                                         *)
(*  create-units:  [provisionAddUnitsToHost, addNewRoutes]                 *)
(*  replace-units: [provisionAddUnitsToHost, addNewRoutes,                 *)
(*                  removeOldRoutes, provisionRemoveOldUnits]              *)
(*                                                                         *)
(* provisionAddUnitsToHost runs addContainersWithHost (provisioner.go),    *)
(* which starts one start() goroutine per new unit (ContainerActions),     *)
(* waits for all of them and, if one failed, removes every unit that did  *)
(* start.  The caller of the pipeline is a single goroutine whose program *)
(* counter is `caller`; the loops over containers are taken one container *)
(* per step, in any order.  toRemove holds the containers being replaced  *)
(* ({} for the create-units pipeline).                                     *)
(***************************************************************************)
EXTENDS ContainerActions

VARIABLES
  caller,    \* program counter of the pipeline's caller
  added,     \* addNewRoutes' addedContainers
  removed,   \* removeOldRoutes' removedConts
  toRemove,  \* args.toRemove: the containers the pipeline replaces
  pending,   \* containers the current loop of the caller has still to visit
  removing   \* containers whose removeContainer has removed the container
             \* but not yet the record and the route

vars == <<db, docker, routes, image, unit, created,
          caller, added, removed, toRemove, pending, removing>>

PipelineLabels == {"provision", "cleanup", "routes", "unroute", "rollback",
                   "removeRoutes", "reroute", "unrouteNew", "removeOld",
                   "ok", "error"}

\* Start the change-units pipeline with the start() goroutines of S.
RunPipeline(S, old) ==
  /\ unit' = [u \in DOMAIN unit |-> IF u \in S THEN "insert" ELSE unit[u]]
  /\ caller' = "provision"
  /\ toRemove' = old

\* One step of a loop that runs removeContainer on each container of
\* pending: the first part on a container of pending, or the second part on
\* a container in removing.  A sequential loop starts the next container
\* only when the last one is done; parallel goroutines do not wait.
RemoveStep(parallel) ==
  \/ /\ parallel \/ removing = {}
     /\ \E c \in pending :
          /\ removeContainerDocker(c)
          /\ pending' = pending \ {c}
          /\ removing' = removing \cup {c}
  \/ \E c \in removing :
       /\ removeContainerRecord(c)
       /\ removing' = removing \ {c}
       /\ UNCHANGED pending

\* The loop is over.
RemoveDone == pending = {} /\ removing = {}

-----------------------------------------------------------------------------
(* provisionAddUnitsToHost                                                 *)

\* Mutant of addContainersWithHostJoin: on error the created containers are
\* not removed before returning.
joinWithoutCleanup ==
  /\ caller = "provision"
  /\ Joined(Units)
  /\ caller' = IF \E u \in Units : unit[u] = "failed" THEN "error" ELSE "routes"
  /\ pending' = created
  /\ UNCHANGED <<db, docker, routes, image, unit, created, added, removed, toRemove, removing>>

\* addContainersWithHost after wg.Wait(): if the errors channel holds an
\* error, remove every created container and return it; otherwise
\* provisionAddUnitsToHost hands the containers to addNewRoutes.
addContainersWithHostJoin ==
  /\ caller = "provision"
  /\ Joined(Units)
  /\ caller' = IF \E u \in Units : unit[u] = "failed" THEN "cleanup" ELSE "routes"
  /\ pending' = created
  /\ UNCHANGED <<db, docker, routes, image, unit, created, added, removed, toRemove, removing>>

\* The cleanup loop of addContainersWithHost: removeContainer on each
\* created container in turn; then the error is returned.
addContainersWithHostCleanup ==
  /\ caller = "cleanup"
  /\ IF RemoveDone
       THEN /\ caller' = "error"
            /\ UNCHANGED <<db, docker, routes, pending, removing>>
       ELSE /\ RemoveStep(FALSE)
            /\ UNCHANGED caller
  /\ UNCHANGED <<image, unit, created, added, removed, toRemove>>

\* Backward of provisionAddUnitsToHost: removeContainer on every new unit
\* in turn; then the pipeline returns the error.
provisionAddUnitsToHostBackward ==
  /\ caller = "rollback"
  /\ IF RemoveDone
       THEN /\ caller' = "error"
            /\ UNCHANGED <<db, docker, routes, pending, removing>>
       ELSE /\ RemoveStep(FALSE)
            /\ UNCHANGED caller
  /\ UNCHANGED <<image, unit, created, added, removed, toRemove>>

-----------------------------------------------------------------------------
(* addNewRoutes                                                            *)

\* Mutant of addNewRoutes: an AddRoute error is ignored and the loop goes on.
addNewRoutesIgnoringErrors ==
  /\ caller = "routes"
  /\ IF pending = {}
       THEN /\ caller' = IF toRemove = {} THEN "ok" ELSE "removeRoutes"
            /\ pending' = toRemove
            /\ UNCHANGED <<routes, added>>
       ELSE \E c \in pending, ok \in Outcomes("addRoute") :
              /\ routes' = IF ok THEN routes \cup {c} ELSE routes
              /\ added' = added \cup {c}
              /\ pending' = pending \ {c}
              /\ UNCHANGED caller
  /\ UNCHANGED <<db, docker, image, unit, created, removed, toRemove, removing>>

\* addNewRoutes: AddRoute for each new container; on the first error the
\* step fails (and removes the routes it added, below).  On success the
\* pipeline ends, or goes on to removeOldRoutes over toRemove.
addNewRoutes ==
  /\ caller = "routes"
  /\ IF pending = {}
       THEN /\ caller' = IF toRemove = {} THEN "ok" ELSE "removeRoutes"
            /\ pending' = toRemove
            /\ UNCHANGED <<routes, added>>
       ELSE \E c \in pending, ok \in Outcomes("addRoute") :
              IF ok THEN /\ routes' = routes \cup {c}
                         /\ added' = added \cup {c}
                         /\ pending' = pending \ {c}
                         /\ UNCHANGED caller
                    ELSE /\ caller' = "unroute"
                         /\ UNCHANGED <<routes, added, pending>>
  /\ UNCHANGED <<db, docker, image, unit, created, removed, toRemove, removing>>

\* Mutant of addNewRoutesUndo: the executor also runs the backward of the
\* action that failed, addNewRoutes' own, instead of its error path.
addNewRoutesUndoRunsOwnBackward ==
  /\ caller = "unroute"
  /\ caller' = "unrouteNew"
  /\ UNCHANGED <<db, docker, routes, image, unit, created, added, removed, toRemove, pending, removing>>

\* addNewRoutes' error path: RemoveRoute for every added container (errors
\* ignored); then the pipeline runs provisionAddUnitsToHost's backward.
addNewRoutesUndo ==
  /\ caller = "unroute"
  /\ \E unrouted \in SUBSET added :
       /\ CleanupMayFail \/ unrouted = added
       /\ routes' = routes \ unrouted
  /\ caller' = "rollback"
  /\ pending' = created
  /\ UNCHANGED <<db, docker, image, unit, created, added, removed, toRemove, removing>>

\* Mutant of addNewRoutesBackward: an empty backward, the new routes stay.
addNewRoutesBackwardForgets ==
  /\ caller = "unrouteNew"
  /\ caller' = "rollback"
  /\ pending' = created
  /\ UNCHANGED <<db, docker, routes, image, unit, created, added, removed, toRemove, removing>>

\* Backward of addNewRoutes, run when removeOldRoutes fails: RemoveRoute
\* for every new container (errors logged); then provisionAddUnitsToHost's
\* backward.
addNewRoutesBackward ==
  /\ caller = "unrouteNew"
  /\ \E unrouted \in SUBSET created :
       /\ CleanupMayFail \/ unrouted = created
       /\ routes' = routes \ unrouted
  /\ caller' = "rollback"
  /\ pending' = created
  /\ UNCHANGED <<db, docker, image, unit, created, added, removed, toRemove, removing>>

-----------------------------------------------------------------------------
(* removeOldRoutes and provisionRemoveOldUnits (replace-units only)         *)

\* removeOldRoutes: RemoveRoute for each container of toRemove.
\* ErrRouteNotFound is not an error: the container counts as removed.  On
\* another error the step fails (and re-adds what it removed, below).
removeOldRoutes ==
  /\ caller = "removeRoutes"
  /\ IF pending = {}
       THEN /\ caller' = "removeOld"
            /\ pending' = toRemove
            /\ UNCHANGED <<routes, removed>>
       ELSE \E c \in pending, ok \in Outcomes("removeRoute") :
              IF ok \/ c \notin routes
                THEN /\ routes' = routes \ {c}
                     /\ removed' = removed \cup {c}
                     /\ pending' = pending \ {c}
                     /\ UNCHANGED caller
                ELSE /\ caller' = "reroute"
                     /\ UNCHANGED <<routes, removed, pending>>
  /\ UNCHANGED <<db, docker, image, unit, created, added, toRemove, removing>>

\* Mutant of removeOldRoutesUndo: the removed routes are not added back.
removeOldRoutesUndoForgets ==
  /\ caller = "reroute"
  /\ caller' = "unrouteNew"
  /\ UNCHANGED <<db, docker, routes, image, unit, created, added, removed, toRemove, pending, removing>>

\* removeOldRoutes' error path: AddRoute for every container in
\* removedConts, errors ignored; then the pipeline runs addNewRoutes'
\* backward.
removeOldRoutesUndo ==
  /\ caller = "reroute"
  /\ \E readded \in SUBSET removed :
       /\ CleanupMayFail \/ readded = removed
       /\ routes' = routes \cup readded
  /\ caller' = "unrouteNew"
  /\ UNCHANGED <<db, docker, image, unit, created, added, removed, toRemove, pending, removing>>

\* Mutant of provisionRemoveOldUnits: the step returns without waiting for
\* the removal goroutines.
provisionRemoveOldUnitsNoWait ==
  /\ caller = "removeOld"
  /\ \/ /\ caller' = "ok"
        /\ UNCHANGED <<db, docker, routes, pending, removing>>
     \/ /\ RemoveStep(TRUE)
        /\ UNCHANGED caller
  /\ UNCHANGED <<image, unit, created, added, removed, toRemove>>

\* provisionRemoveOldUnits: one goroutine per old container runs
\* removeContainer on the listed copy; errors are ignored and the step
\* never fails.  The goroutines run in parallel; the step returns once the
\* channel is drained, when all have run.
provisionRemoveOldUnits ==
  /\ caller = "removeOld"
  /\ IF RemoveDone
       THEN /\ caller' = "ok"
            /\ UNCHANGED <<db, docker, routes, pending, removing>>
       ELSE /\ RemoveStep(TRUE)
            /\ UNCHANGED caller
  /\ UNCHANGED <<image, unit, created, added, removed, toRemove>>

=============================================================================
