------------------------------ MODULE AppUnits ------------------------------
(***************************************************************************)
(* The units of one application under concurrent scale-down and status   *)
(* reports (provision/docker/provisioner.go).                             *)
(*                                                                         *)
(*  - RemoveUnits(a, units): lists the app's containers ordered by status *)
(*    (removable states first, then by LastStatusUpdate), refuses to      *)
(*    remove all of them, then runs removeContainer on the first `units`  *)
(*    in parallel goroutines and waits for them.                          *)
(*  - removeContainer(c): c.stop() -- unless the listed copy is already   *)
(*    "stopped": StopContainer, then c.setStatus("stopped") -- then       *)
(*    c.remove(): RemoveContainer, remove the record, RemoveRoute.        *)
(*  - SetUnitStatus(unit, status), called for the unit agents: reads the  *)
(*    record with getContainer, then c.setStatus(status).                 *)
(*                                                                         *)
(* setStatus stamps LastStatusUpdate with the current time and writes the *)
(* whole in-memory copy with Update({"id": c.ID}), which does nothing     *)
(* (and returns "not found") when the record is gone.                     *)
(*                                                                         *)
(*  - AddUnits(a, 1), racing with them: the unit's start() pipeline        *)
(*    inserts its record with no ID (insertEmptyContainerInDB), creates   *)
(*    and starts the container, and stores the ID only at                 *)
(*    updateContainerInDB (Update by name).  A copy listed in between has *)
(*    ID "", and its stop and remove match {"id": ""}.                    *)
(***************************************************************************)
EXTENDS Naturals, FiniteSets, SequencesExt

CONSTANTS
  Containers,  \* the app's containers at the start
  Removers,    \* concurrent RemoveUnits calls
  MaxRemove,   \* largest `units` argument of RemoveUnits
  MaxReports,  \* number of SetUnitStatus calls the unit agents make
  StopMayFail, \* whether StopContainer may return an error (node unreachable)
  NewUnits,    \* the unit a concurrent AddUnits(a, 1) adds, or none
  StartMayFail \* whether StartContainer of the new unit may fail

ASSUME Containers # {} /\ MaxRemove \in Nat /\ MaxReports \in Nat
ASSUME StopMayFail \in BOOLEAN /\ StartMayFail \in BOOLEAN
ASSUME Cardinality(NewUnits) <= 1 /\ NewUnits \cap Containers = {}

AllUnits == Containers \cup NewUnits

\* provision.Status values a record can hold here, and those the unit
\* agents report.
Statuses == {"created", "started", "stopped", "error", "down", "unreachable"}
Reported == {"started", "error", "down", "unreachable"}
\* Statuses the app's records start in: one of each rank class that the
\* listing orders differently (removable, stopped, started).
InitStatuses == {"started", "stopped", "error"}

\* listContainersByAppOrderedByStatus: building, down and error first, then
\* unreachable, stopped and started; ties broken by the oldest
\* LastStatusUpdate.  insertEmptyContainerInDB's record is the in-flight
\* one the spec calls building: it ranks first.
StatusRank(s) ==
  CASE s \in {"building", "created", "down", "error"} -> 0
    [] s = "unreachable" -> 1
    [] s = "stopped" -> 2
    [] s = "started" -> 3

Absent == [status |-> "absent", lsu |-> 0, id |-> FALSE]
NoUnit == "none"

VARIABLES
  db,       \* AllUnits -> [status, lsu, id] or Absent: the records
  docker,   \* AllUnits -> {"running", "stopped", "absent"}
  routes,   \* containers whose address the router serves
  clock,    \* time.Now(), as a counter: the next LastStatusUpdate
  rm,       \* Removers -> state of each RemoveUnits call
  gor,      \* Removers -> AllUnits -> state of its removeContainer goroutine
  rep,      \* the SetUnitStatus call in flight
  reports,  \* SetUnitStatus calls made so far
  add       \* NewUnits -> where the new unit's AddUnits call is

vars == <<db, docker, routes, clock, rm, gor, rep, reports, add>>
rmVars == <<rm, gor, rep, reports>>

RmLabels == {"idle", "list", "wait", "done", "error"}
GoLabels == {"none", "stopDocker", "stopStatus", "remove", "done"}
AddLabels == {"idle", "insert", "create", "start", "update", "setStarted",
              "route", "rollback", "done", "error"}

\* A record's LastStatusUpdate lies in the past (0: never set).
Records == [status : Statuses, lsu : 0..(clock - 1), id : BOOLEAN]

Init ==
  /\ \E order \in Bijection(Containers, 1..Cardinality(Containers)),
        status \in [Containers -> InitStatuses] :
       db = [c \in AllUnits |->
               IF c \in Containers
                 THEN [status |-> status[c], lsu |-> order[c], id |-> TRUE]
                 ELSE Absent]
  /\ docker = [c \in AllUnits |->
                 CASE c \in NewUnits -> "absent"
                   [] db[c].status = "stopped" -> "stopped"
                   [] OTHER -> "running"]
  /\ routes = Containers
  /\ clock = Cardinality(Containers) + 1
  /\ rm = [r \in Removers |-> [pc |-> "idle", units |-> 0, noID |-> {}]]
  /\ gor = [r \in Removers |-> [c \in AllUnits |-> "none"]]
  /\ rep = [pc |-> "idle", c |-> NoUnit, status |-> "started"]
  /\ reports = 0
  /\ add = [n \in NewUnits |-> "idle"]

Units == {c \in AllUnits : db[c] # Absent}

\* Mutant of setStatus: Upsert instead of Update, recreating a removed
\* record.
setStatusUpsert(c, s) ==
  /\ db' = [db EXCEPT ![c] = [status |-> s, lsu |-> clock, id |-> TRUE]]
  /\ clock' = clock + 1

\* Mutant of setStatus: the stamp is taken but the clock does not advance
\* (two updates within one tick of the stored time).
setStatusSameStamp(c, s) ==
  /\ db' = IF db[c] # Absent
             THEN [db EXCEPT ![c].status = s, ![c].lsu = clock]
             ELSE db
  /\ UNCHANGED clock

\* container.setStatus: stamp the time, Update by ID; a missing record is
\* left missing.
setStatus(c, s) ==
  /\ db' = IF db[c] # Absent
             THEN [db EXCEPT ![c].status = s, ![c].lsu = clock]
             ELSE db
  /\ clock' = clock + 1

\* The records {"id": ""} matches: those whose ID is not stored yet.
NoIDRecords == {c \in Units : ~db[c].id}

\* container.setStatus on a copy listed before its ID was stored: the
\* Update matches {"id": ""}, i.e. whichever record still has no ID.
setStatusByEmptyID(s) ==
  /\ db' = [c \in AllUnits |->
             IF c \in NoIDRecords THEN [db[c] EXCEPT !.status = s, !.lsu = clock]
                                  ELSE db[c]]
  /\ clock' = clock + 1

\* listContainersByAppOrderedByStatus: a copy of each record, sorted.
listContainersByAppOrderedByStatus ==
  SetToSortSeq({[id |-> c, status |-> db[c].status, lsu |-> db[c].lsu, hasID |-> db[c].id]
                  : c \in Units},
               LAMBDA x, y : \/ StatusRank(x.status) < StatusRank(y.status)
                             \/ /\ StatusRank(x.status) = StatusRank(y.status)
                                /\ x.lsu < y.lsu)

-----------------------------------------------------------------------------
(* RemoveUnits                                                              *)

\* The call starts with its `units` argument; units < 1 is refused.
RemoveUnitsCall(r) ==
  /\ rm[r].pc = "idle"
  /\ \E n \in 0..MaxRemove :
       rm' = [rm EXCEPT ![r].pc = IF n < 1 THEN "error" ELSE "list",
                        ![r].units = n]
  /\ UNCHANGED <<db, docker, routes, clock, gor, rep, reports, add>>

\* Start one removeContainer goroutine per victim; stop() returns at once
\* when the listed copy is "stopped".  Remember the copies with no ID.
LaunchRemovals(r, victims) ==
  /\ rm' = [rm EXCEPT ![r].pc = "wait",
                      ![r].noID = {v.id : v \in {x \in victims : ~x.hasID}}]
  /\ gor' = [gor EXCEPT ![r] =
       [c \in AllUnits |->
          IF \E v \in victims : v.id = c
            THEN IF (CHOOSE v \in victims : v.id = c).status = "stopped"
                   THEN "remove" ELSE "stopDocker"
            ELSE "none"]]

\* Mutant of RemoveUnits: the guard is off by one (units > len).
RemoveUnitsOffByOne(r) ==
  /\ rm[r].pc = "list"
  /\ LET listed == listContainersByAppOrderedByStatus
         victims == {listed[i] : i \in 1..Min({rm[r].units, Len(listed)})}
     IN IF rm[r].units > Len(listed)
          THEN /\ rm' = [rm EXCEPT ![r].pc = "error"]
               /\ UNCHANGED gor
          ELSE LaunchRemovals(r, victims)
  /\ UNCHANGED <<db, docker, routes, clock, rep, reports, add>>

\* List the containers ordered by status; refuse to remove all of them;
\* start one removeContainer goroutine per victim (the first `units`).
RemoveUnits(r) ==
  /\ rm[r].pc = "list"
  /\ LET listed == listContainersByAppOrderedByStatus
         victims == {listed[i] : i \in 1..rm[r].units}
     IN IF rm[r].units >= Len(listed)
          THEN /\ rm' = [rm EXCEPT ![r].pc = "error"]
               /\ UNCHANGED gor
          ELSE LaunchRemovals(r, victims)
  /\ UNCHANGED <<db, docker, routes, clock, rep, reports, add>>

\* wg.Wait(): the call returns once every goroutine is done.
RemoveUnitsReturn(r) ==
  /\ rm[r].pc = "wait"
  /\ \A c \in AllUnits : gor[r][c] \in {"none", "done"}
  /\ rm' = [rm EXCEPT ![r].pc = "done"]
  /\ UNCHANGED <<db, docker, routes, clock, gor, rep, reports, add>>

\* c.stop(): StopContainer(c.ID, 10); an error is logged and stop() goes on.
\* StopContainer("") finds no container.
stopContainer(r, c) ==
  /\ gor[r][c] = "stopDocker"
  /\ \E ok \in IF StopMayFail THEN BOOLEAN ELSE {TRUE} :
       docker' = [docker EXCEPT ![c] =
                    IF ok /\ @ = "running" /\ c \notin rm[r].noID THEN "stopped" ELSE @]
  /\ gor' = [gor EXCEPT ![r][c] = "stopStatus"]
  /\ UNCHANGED <<db, routes, clock, rm, rep, reports, add>>

\* c.stop(), continued: c.setStatus("stopped").
stopSetStatus(r, c) ==
  /\ gor[r][c] = "stopStatus"
  /\ IF c \in rm[r].noID THEN setStatusByEmptyID("stopped") ELSE setStatus(c, "stopped")
  /\ gor' = [gor EXCEPT ![r][c] = "remove"]
  /\ UNCHANGED <<docker, routes, rm, rep, reports, add>>

\* c.remove(): RemoveContainer, removeHost, remove the record by ID,
\* RemoveRoute; every error is logged and nil is returned.  RemoveContainer
\* is sent without Force, which docker refuses for a running container.
\* A copy with no ID removes no container, removes whichever record
\* matches {"id": ""} and no route (its address has no host).
remove(r, c) ==
  /\ gor[r][c] = "remove"
  /\ IF c \in rm[r].noID
       THEN /\ db' = [x \in AllUnits |-> IF x \in NoIDRecords THEN Absent ELSE db[x]]
            /\ UNCHANGED <<docker, routes>>
       ELSE /\ docker' = [docker EXCEPT ![c] = IF @ = "running" THEN "running" ELSE "absent"]
            /\ db' = [db EXCEPT ![c] = Absent]
            /\ routes' = routes \ {c}
  /\ gor' = [gor EXCEPT ![r][c] = "done"]
  /\ UNCHANGED <<clock, rm, rep, reports, add>>

-----------------------------------------------------------------------------
(* SetUnitStatus                                                            *)

\* getContainer(unit.Name): a unit without a record is an error.
SetUnitStatusRead ==
  /\ rep.pc = "idle"
  /\ reports < MaxReports
  /\ \E c \in {u \in Units : db[u].id}, s \in Reported :
       rep' = [pc |-> "write", c |-> c, status |-> s]
  /\ reports' = reports + 1
  /\ UNCHANGED <<db, docker, routes, clock, rm, gor, add>>

\* container.setStatus(status) on the copy read before.
SetUnitStatus ==
  /\ rep.pc = "write"
  /\ setStatus(rep.c, rep.status)
  /\ rep' = [rep EXCEPT !.pc = "idle"]
  /\ UNCHANGED <<docker, routes, rm, gor, reports, add>>

-----------------------------------------------------------------------------
(* AddUnits(a, 1): the new unit's start() and the create-units pipeline    *)

\* getContainerCountForAppName must be at least 1; the pipeline starts.
AddUnits(n) ==
  /\ add[n] = "idle"
  /\ add' = [add EXCEPT ![n] = IF Units # {} THEN "insert" ELSE "error"]
  /\ UNCHANGED <<db, docker, routes, clock, rmVars>>

\* insertEmptyContainerInDB: the record, in status "created", with no ID
\* and no LastStatusUpdate.
insertEmptyContainerInDB(n) ==
  /\ add[n] = "insert"
  /\ db' = [db EXCEPT ![n] = [status |-> "created", lsu |-> 0, id |-> FALSE]]
  /\ add' = [add EXCEPT ![n] = "create"]
  /\ UNCHANGED <<docker, routes, clock, rmVars>>

\* createContainer: docker creates the container (not running yet).
createContainer(n) ==
  /\ add[n] = "create"
  /\ docker' = [docker EXCEPT ![n] = "stopped"]
  /\ add' = [add EXCEPT ![n] = "start"]
  /\ UNCHANGED <<db, routes, clock, rmVars>>

\* startContainer: StartContainer; on an error the backwards of
\* createContainer and insertEmptyContainerInDB run.
startContainer(n) ==
  /\ add[n] = "start"
  /\ \E ok \in IF StartMayFail THEN BOOLEAN ELSE {TRUE} :
       /\ docker' = [docker EXCEPT ![n] = IF ok THEN "running" ELSE @]
       /\ add' = [add EXCEPT ![n] = IF ok THEN "update" ELSE "rollback"]
  /\ UNCHANGED <<db, routes, clock, rmVars>>

\* updateContainerInDB: Update({"name": n}, cont) writes the whole
\* in-memory record, ID included, with status "created" and no
\* LastStatusUpdate; a missing record is "not found" and rolls the pipeline
\* back.  setNetworkInfo only fills the in-memory copy.
updateContainerInDB(n) ==
  /\ add[n] = "update"
  /\ IF db[n] = Absent
       THEN /\ add' = [add EXCEPT ![n] = "rollback"]
            /\ UNCHANGED db
       ELSE /\ db' = [db EXCEPT ![n] = [status |-> "created", lsu |-> 0, id |-> TRUE]]
            /\ add' = [add EXCEPT ![n] = "setStarted"]
  /\ UNCHANGED <<docker, routes, clock, rmVars>>

\* The backwards in reverse: StopContainer and RemoveContainer of the new
\* container, then Remove({"name": n}).  AddUnits returns the error.
startPipelineBackward(n) ==
  /\ add[n] = "rollback"
  /\ docker' = [docker EXCEPT ![n] = "absent"]
  /\ db' = [db EXCEPT ![n] = Absent]
  /\ add' = [add EXCEPT ![n] = "error"]
  /\ UNCHANGED <<routes, clock, rmVars>>

\* start()'s tail: setImage, then setStatus("started"), both Update by ID;
\* a missing record is an error that nothing rolls back.
setStarted(n) ==
  /\ add[n] = "setStarted"
  /\ setStatus(n, "started")
  /\ add' = [add EXCEPT ![n] = IF db[n] = Absent THEN "error" ELSE "route"]
  /\ UNCHANGED <<docker, routes, rmVars>>

\* addNewRoutes: AddRoute for the new unit.
addNewRoutes(n) ==
  /\ add[n] = "route"
  /\ routes' = routes \cup {n}
  /\ add' = [add EXCEPT ![n] = "done"]
  /\ UNCHANGED <<db, docker, clock, rmVars>>

-----------------------------------------------------------------------------
Quiescent ==
  /\ \A r \in Removers : rm[r].pc \in {"done", "error"}
  /\ rep.pc = "idle" /\ reports = MaxReports
  /\ \A n \in NewUnits : add[n] \in {"done", "error"}

Next ==
  \/ \E r \in Removers :
       \/ RemoveUnitsCall(r) \/ RemoveUnits(r) \/ RemoveUnitsReturn(r)
       \/ \E c \in AllUnits :
            stopContainer(r, c) \/ stopSetStatus(r, c) \/ remove(r, c)
  \/ SetUnitStatusRead
  \/ SetUnitStatus
  \/ \E n \in NewUnits :
       \/ AddUnits(n) \/ insertEmptyContainerInDB(n) \/ createContainer(n)
       \/ startContainer(n) \/ updateContainerInDB(n) \/ startPipelineBackward(n)
       \/ setStarted(n) \/ addNewRoutes(n)
  \/ Quiescent /\ UNCHANGED vars

Spec == Init /\ [][Next]_vars

-----------------------------------------------------------------------------
TypeOK ==
  /\ db \in [AllUnits -> Records \cup {Absent}]
  /\ docker \in [AllUnits -> {"running", "stopped", "absent"}]
  /\ routes \subseteq AllUnits
  /\ clock \in Nat \ {0}
  /\ \A r \in Removers : /\ rm[r].pc \in RmLabels /\ rm[r].units \in 0..MaxRemove
                         /\ rm[r].noID \subseteq NewUnits
  /\ gor \in [Removers -> [AllUnits -> GoLabels]]
  /\ rep.pc \in {"idle", "write"} /\ rep.c \in AllUnits \cup {NoUnit} /\ rep.status \in Reported
  /\ reports \in 0..MaxReports
  /\ add \in [NewUnits -> AddLabels]

\* RemoveUnits refuses to remove all units of an app ("remove units: cannot
\* remove all units from app"): the app always keeps a unit, whatever
\* statuses the unit agents report and whatever a concurrent AddUnits does
\* meanwhile.
NeverRemoveAllUnits == Units # {}

\* When RemoveUnits returns, each of the app's existing units it chose has
\* no record, no docker container and no route, even if a status report
\* raced with it.
RemovedUnitsGone ==
  \A r \in Removers :
    rm[r].pc = "done" =>
      \A c \in Containers :
        gor[r][c] = "done" => db[c] = Absent /\ docker[c] = "absent" /\ c \notin routes

\* Once every call has returned, every unit a RemoveUnits call removed is
\* gone (record, container and route), also when it was a unit a
\* concurrent AddUnits was still creating when RemoveUnits listed it.
VictimsGoneOnceSettled ==
  Quiescent =>
    \A r \in Removers, c \in AllUnits :
      gor[r][c] = "done" => db[c] = Absent /\ docker[c] = "absent" /\ c \notin routes

=============================================================================
