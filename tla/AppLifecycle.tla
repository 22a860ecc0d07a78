---------------------------- MODULE AppLifecycle ----------------------------
(***************************************************************************)
(* Start, Stop and Restart of one application (provision/docker/           *)
(* provisioner.go), each a fan-out over the app's containers:             *)
(*                                                                         *)
(*  - Start(app): listContainersByApp, then one goroutine per listed copy *)
(*    c: c.start() (StartContainer); on error send it to errCh and        *)
(*    return; else c.setStatus("started"), then networkInfo/fixContainer. *)
(*  - Stop(app): the same fan-out of c.stop(): nothing when the listed    *)
(*    copy is "stopped"; else StopContainer (its error only logged), then *)
(*    c.setStatus("stopped"); stop() always returns nil.                  *)
(*  - Restart(app): Stop, and Start unless Stop returned an error.        *)
(*  - RemoveUnits(app, 1): listContainersByAppOrderedByStatus; refuse to  *)
(*    remove the last unit; one goroutine runs removeContainer on the     *)
(*    first: c.stop() as above, then c.remove(): RemoveContainer (no      *)
(*    Force; its error only logged) and the record's removal.             *)
(*  - RemoveUnit(unit): getContainer, then removeContainer on it.         *)
(*  - Destroy(app): removeContainer on every listed container, wait,      *)
(*    removeImage (best effort), then RemoveBackend, whose error Destroy  *)
(*    returns.  The image is not tracked.                                 *)
(*                                                                         *)
(* Each call waits for its goroutines (wg.Wait) and returns the first     *)
(* error in errCh.  Several callers (API requests) may run calls on the   *)
(* same app at once: nothing serialises them.  A record is reduced to its *)
(* status or Absent; fixContainer only rewrites IP/HostPort and the      *)
(* route, and remove() ends with removeHost and RemoveRoute, none of      *)
(* which this module tracks.                                              *)
(***************************************************************************)
EXTENDS Naturals, FiniteSets

CONSTANTS
  Containers,    \* the app's containers
  Callers,       \* concurrent API callers
  CallOps,       \* Callers -> the calls each caller may make
  MaxCalls,      \* calls per caller
  StartMayFail,  \* whether StartContainer on a stopped container may fail
  StopMayFail    \* whether StopContainer on a running container may fail

Ops == {"start", "stop", "restart", "removeUnits", "removeUnit", "destroy"}

ASSUME Containers # {} /\ CallOps \in [Callers -> SUBSET Ops]
ASSUME MaxCalls \in Nat /\ StartMayFail \in BOOLEAN /\ StopMayFail \in BOOLEAN

Statuses == {"started", "stopped", "error"}
Absent == "absent"

\* listContainersByAppOrderedByStatus: error first, then stopped, then
\* started (ties by LastStatusUpdate, which this module does not track).
StatusRank(s) == CASE s = "error" -> 0 [] s = "stopped" -> 2 [] s = "started" -> 3
\* A record and its container agree at first; a unit agent may have
\* reported "error" for a running unit.
DockerOf(s) == IF s = "stopped" THEN "stopped" ELSE "running"

VARIABLES
  db,      \* Containers -> status of the record
  docker,  \* Containers -> "running" | "stopped" | "absent"
  call,    \* Callers -> the call in progress
  gor,     \* Callers -> Containers -> program counter of its goroutine
  backend  \* whether the router has the app's backend

vars == <<db, docker, call, gor, backend>>

GoLabels == {"none", "startDocker", "setStarted", "stopDocker", "setStopped",
             "removeDocker", "removeRecord", "done"}
Calls == [pc : {"idle", "wait"}, op : {"start", "stop", "remove", "destroy"}, restart : BOOLEAN,
          listed : [Containers -> Statuses \cup {Absent}], err : BOOLEAN,
          result : {"none", "ok", "error"}, n : 0..MaxCalls]

Init ==
  /\ db \in [Containers -> Statuses]
  /\ docker = [c \in Containers |-> DockerOf(db[c])]
  /\ call = [p \in Callers |-> [pc |-> "idle", op |-> "start", restart |-> FALSE,
                                listed |-> db, err |-> FALSE, result |-> "none", n |-> 0]]
  /\ gor = [p \in Callers |-> [c \in Containers |-> "none"]]
  /\ backend = TRUE

Records == {c \in Containers : db[c] # Absent}

\* The fan-out over the copies listContainersByApp returned: one goroutine
\* per listed container.
Launch(p, op) ==
  gor' = [gor EXCEPT ![p] = [c \in Containers |->
                               IF c \notin Records THEN "done"
                               ELSE IF op = "start" THEN "startDocker" ELSE "stopDocker"]]

\* A goroutine that runs removeContainer on the listed copy of v alone.
LaunchRemove(p, v) ==
  gor' = [gor EXCEPT ![p] = [c \in Containers |-> IF c = v THEN "stopDocker" ELSE "done"]]

\* The caller's call is now waiting on its goroutines.
Waiting(p, op, restart) ==
  call' = [call EXCEPT ![p] = [pc |-> "wait", op |-> op, restart |-> restart,
                               listed |-> db, err |-> FALSE, result |-> "none",
                               n |-> call[p].n + 1]]

\* The call returns at once.
Returns(p, result) ==
  /\ call' = [call EXCEPT ![p].result = result, ![p].n = call[p].n + 1]
  /\ UNCHANGED gor

\* Start, Stop or Restart (which begins with Stop) lists the app's
\* containers and fans out.
Call(p) ==
  /\ call[p].pc = "idle"
  /\ call[p].n < MaxCalls
  /\ \E op \in CallOps[p] \cap {"start", "stop", "restart"} :
       LET first == IF op = "restart" THEN "stop" ELSE op
       IN /\ Waiting(p, first, op = "restart")
          /\ Launch(p, first)
  /\ UNCHANGED <<db, docker, backend>>

\* RemoveUnits(app, 1): the first container in status order is removed,
\* unless it is the app's only one.
RemoveUnits(p) ==
  /\ call[p].pc = "idle"
  /\ call[p].n < MaxCalls
  /\ "removeUnits" \in CallOps[p]
  /\ IF 1 >= Cardinality(Records)
       THEN Returns(p, "error")
       ELSE \E v \in Records :
              /\ \A c \in Records : StatusRank(db[v]) <= StatusRank(db[c])
              /\ Waiting(p, "remove", FALSE)
              /\ LaunchRemove(p, v)
  /\ UNCHANGED <<db, docker, backend>>

\* RemoveUnit(unit): getContainer fails for a unit without a record;
\* otherwise removeContainer runs on it.
RemoveUnit(p) ==
  /\ call[p].pc = "idle"
  /\ call[p].n < MaxCalls
  /\ "removeUnit" \in CallOps[p]
  /\ \E v \in Containers :
       IF v \notin Records
         THEN Returns(p, "error")
         ELSE /\ Waiting(p, "remove", FALSE)
              /\ LaunchRemove(p, v)
  /\ UNCHANGED <<db, docker, backend>>

\* Destroy(app): removeContainer on every listed container, in parallel.
Destroy(p) ==
  /\ call[p].pc = "idle"
  /\ call[p].n < MaxCalls
  /\ "destroy" \in CallOps[p]
  /\ Waiting(p, "destroy", FALSE)
  /\ Launch(p, "stop")
  /\ UNCHANGED <<db, docker, backend>>

\* StartContainer on a running container fails (TestContainerStartStartedUnits:
\* a second start() returns an error), and so does it on a removed one.
StartOutcomes(c) ==
  CASE docker[c] \in {"absent", "running"} -> {FALSE}
    [] StartMayFail -> {TRUE, FALSE}
    [] OTHER -> {TRUE}

\* c.start(): StartContainer; an error goes to errCh and ends the goroutine.
startContainer(p, c) ==
  /\ gor[p][c] = "startDocker"
  /\ \E ok \in StartOutcomes(c) :
       /\ docker' = [docker EXCEPT ![c] = IF ok THEN "running" ELSE @]
       /\ gor' = [gor EXCEPT ![p][c] = IF ok THEN "setStarted" ELSE "done"]
       /\ call' = IF ok THEN call ELSE [call EXCEPT ![p].err = TRUE]
  /\ UNCHANGED <<db, backend>>

\* Mutant of setStarted: a status outside those the app's records hold.
setStartedBuilding(p, c) ==
  /\ gor[p][c] = "setStarted"
  /\ db' = [db EXCEPT ![c] = "building"]
  /\ gor' = [gor EXCEPT ![p][c] = "done"]
  /\ UNCHANGED <<docker, call, backend>>

\* container.setStatus: Update by ID, which finds nothing once the record
\* has been removed.
SetStatus(c, s) == db' = IF db[c] = Absent THEN db ELSE [db EXCEPT ![c] = s]

\* c.setStatus("started"); networkInfo and fixContainer follow.
setStarted(p, c) ==
  /\ gor[p][c] = "setStarted"
  /\ SetStatus(c, "started")
  /\ gor' = [gor EXCEPT ![p][c] = "done"]
  /\ UNCHANGED <<docker, call, backend>>

\* StopContainer on a removed container fails.
StopOutcomes(c) ==
  CASE docker[c] = "absent" -> {FALSE}
    [] StopMayFail -> {TRUE, FALSE}
    [] OTHER -> {TRUE}

\* Where c.stop() returns to: Stop's goroutine ends, removeContainer goes
\* on with c.remove().
AfterStop(p) == IF call[p].op \in {"remove", "destroy"} THEN "removeDocker" ELSE "done"

\* c.stop(): nothing when the listed copy says "stopped"; otherwise
\* StopContainer (an error, e.g. on a stopped container, is only logged).
stopContainer(p, c) ==
  /\ gor[p][c] = "stopDocker"
  /\ IF call[p].listed[c] = "stopped"
       THEN /\ gor' = [gor EXCEPT ![p][c] = AfterStop(p)]
            /\ UNCHANGED docker
       ELSE /\ \E ok \in StopOutcomes(c) :
                 docker' = [docker EXCEPT ![c] = IF ok THEN "stopped" ELSE @]
            /\ gor' = [gor EXCEPT ![p][c] = "setStopped"]
  /\ UNCHANGED <<db, call, backend>>

\* c.stop(): c.setStatus("stopped") whatever StopContainer returned.
setStopped(p, c) ==
  /\ gor[p][c] = "setStopped"
  /\ SetStatus(c, "stopped")
  /\ gor' = [gor EXCEPT ![p][c] = AfterStop(p)]
  /\ UNCHANGED <<docker, call, backend>>

\* Mutant of removeContainerDocker: the RemoveContainer call is missing.
removeContainerDockerSkipped(p, c) ==
  /\ gor[p][c] = "removeDocker"
  /\ gor' = [gor EXCEPT ![p][c] = "removeRecord"]
  /\ UNCHANGED <<db, docker, call, backend>>

\* c.remove(): RemoveContainer without Force, which docker refuses for a
\* running container; the error is only logged.
removeContainerDocker(p, c) ==
  /\ gor[p][c] = "removeDocker"
  /\ docker' = [docker EXCEPT ![c] = IF @ = "running" THEN @ ELSE "absent"]
  /\ gor' = [gor EXCEPT ![p][c] = "removeRecord"]
  /\ UNCHANGED <<db, call, backend>>

\* c.remove(): the record is removed by ID (removeHost before it and
\* RemoveRoute after it are not tracked).
removeContainerRecord(p, c) ==
  /\ gor[p][c] = "removeRecord"
  /\ db' = [db EXCEPT ![c] = Absent]
  /\ gor' = [gor EXCEPT ![p][c] = "done"]
  /\ UNCHANGED <<docker, call, backend>>

\* Mutant of Join: the call returns without wg.Wait().
JoinNoWait(p) ==
  /\ call[p].pc = "wait"
  /\ IF call[p].restart /\ call[p].op = "stop" /\ ~call[p].err
       THEN /\ call' = [call EXCEPT ![p].op = "start", ![p].listed = db]
            /\ Launch(p, "start")
       ELSE /\ call' = [call EXCEPT ![p].pc = "idle",
                                    ![p].result = IF call[p].err THEN "error" ELSE "ok"]
            /\ gor' = [gor EXCEPT ![p] = [c \in Containers |-> "none"]]
  /\ UNCHANGED <<db, docker, backend>>

\* wg.Wait(); return <-errCh.  Restart goes on with Start when Stop
\* returned nil.
Join(p) ==
  /\ call[p].pc = "wait"
  /\ call[p].op # "destroy"
  /\ \A c \in Containers : gor[p][c] = "done"
  /\ IF call[p].restart /\ call[p].op = "stop" /\ ~call[p].err
       THEN /\ call' = [call EXCEPT ![p].op = "start", ![p].listed = db]
            /\ Launch(p, "start")
       ELSE /\ call' = [call EXCEPT ![p].pc = "idle",
                                    ![p].result = IF call[p].err THEN "error" ELSE "ok"]
            /\ gor' = [gor EXCEPT ![p] = [c \in Containers |-> "none"]]
  /\ UNCHANGED <<db, docker, backend>>

\* Mutant of DestroyJoin: Destroy goes on without containersGroup.Wait().
DestroyJoinNoWait(p) ==
  /\ call[p].pc = "wait"
  /\ call[p].op = "destroy"
  /\ \E ok \in BOOLEAN :
       /\ backend' = (backend /\ ~ok)
       /\ call' = [call EXCEPT ![p].pc = "idle", ![p].result = IF ok THEN "ok" ELSE "error"]
  /\ UNCHANGED <<db, docker, gor>>

\* Destroy: containersGroup.Wait(), removeImage (its error only logged),
\* then getRouter and RemoveBackend, whose error Destroy returns; the
\* removeContainer errors are only logged.
DestroyJoin(p) ==
  /\ call[p].pc = "wait"
  /\ call[p].op = "destroy"
  /\ \A c \in Containers : gor[p][c] = "done"
  /\ \E ok \in BOOLEAN :
       /\ backend' = (backend /\ ~ok)
       /\ call' = [call EXCEPT ![p].pc = "idle", ![p].result = IF ok THEN "ok" ELSE "error"]
  /\ gor' = [gor EXCEPT ![p] = [c \in Containers |-> "none"]]
  /\ UNCHANGED <<db, docker>>

Idle == \A p \in Callers : call[p].pc = "idle"

Next ==
  \/ \E p \in Callers :
       \/ Call(p)
       \/ RemoveUnits(p)
       \/ RemoveUnit(p)
       \/ Join(p)
       \/ Destroy(p)
       \/ DestroyJoin(p)
       \/ \E c \in Containers :
            \/ startContainer(p, c)
            \/ setStarted(p, c)
            \/ stopContainer(p, c)
            \/ setStopped(p, c)
            \/ removeContainerDocker(p, c)
            \/ removeContainerRecord(p, c)
  \/ Idle /\ \A p \in Callers : call[p].n = MaxCalls /\ UNCHANGED vars

Spec == Init /\ [][Next]_vars

-----------------------------------------------------------------------------
TypeOK ==
  /\ db \in [Containers -> Statuses \cup {Absent}]
  /\ docker \in [Containers -> {"running", "stopped", "absent"}]
  /\ call \in [Callers -> Calls]
  /\ gor \in [Callers -> [Containers -> GoLabels]]
  /\ backend \in BOOLEAN

\* The record is the source of truth (spec section 5): once no call is in
\* flight, a record says "started" only of a running container and
\* "stopped" only of a stopped one.  Each goroutine writes the status in a
\* step of its own after its docker call.
RecordMatchesDocker ==
  Idle =>
    \A c \in Containers :
      /\ db[c] = "started" => docker[c] = "running"
      /\ db[c] = "stopped" => docker[c] = "stopped"

\* A Start or Restart that returned nil has started every container of the
\* app that still has a record, and recorded it as started.
StartReturnsStarted ==
  \A p \in Callers :
    call[p].pc = "idle" /\ call[p].result = "ok" /\ call[p].op = "start" =>
      \A c \in Records : docker[c] = "running" /\ db[c] = "started"

\* Once no call is in flight, no container runs without a record: a unit
\* that removeContainer took away from the store is gone from docker too,
\* so nothing lists, stops or removes it any more.  removeContainer stops
\* the container only if its listed copy is not "stopped", and c.remove()
\* drops the record even when RemoveContainer failed.
NoOrphanContainer ==
  Idle => \A c \in Containers : db[c] = Absent => docker[c] = "absent"

\* A Destroy that returned nil has left nothing of the app behind: no
\* record, no docker container and no router backend.  Destroy waits for
\* its removeContainer goroutines before it removes the backend, and each
\* of them stops the container before removing it.
DestroyRemovesApp ==
  \A p \in Callers :
    call[p].pc = "idle" /\ call[p].result = "ok" /\ call[p].op = "destroy" =>
      /\ Records = {}
      /\ \A c \in Containers : docker[c] = "absent"
      /\ ~backend

=============================================================================
