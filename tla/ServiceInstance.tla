--------------------------- MODULE ServiceInstance ---------------------------
(***************************************************************************)
(* The service-instance pipeline of service/actions.go:                    *)
(*                                                                         *)
(*   [createServiceInstance, insertServiceInstance]                        *)
(*                                                                         *)
(* createServiceInstance asks the service's "production" endpoint to      *)
(* create the instance; its backward asks it to destroy it (every error   *)
(* ignored).  insertServiceInstance inserts the instance's record.  Each  *)
(* caller (an API request) runs the pipeline for an instance of its own;  *)
(* the executor runs the backward of createServiceInstance when the       *)
(* insert fails, and never the backward of the last action.               *)
(***************************************************************************)
EXTENDS Naturals, FiniteSets

CONSTANTS
  Callers,         \* concurrent CreateServiceInstance requests
  InstanceOf,      \* Callers -> the name of the instance each one creates
  FailPoints,      \* calls that may fail: "getClient", "create", "conn", "insert"
  CleanupMayFail   \* whether getClient or Destroy may fail in the backward

Names == {InstanceOf[p] : p \in Callers}

ASSUME InstanceOf \in [Callers -> Names]
ASSUME FailPoints \subseteq {"getClient", "create", "conn", "insert"}

Outcomes(point) == IF point \in FailPoints THEN {TRUE, FALSE} ELSE {TRUE}
CleanupOutcomes == IF CleanupMayFail THEN {TRUE, FALSE} ELSE {TRUE}

VARIABLES
  endpoint,  \* the instances the service's API holds
  records,   \* the names in the service_instances collection
  pc         \* Callers -> where its pipeline is

vars == <<endpoint, records, pc>>

Labels == {"idle", "create", "insert", "undoCreate", "ok", "error"}

Init ==
  /\ endpoint = {}
  /\ records = {}
  /\ pc = [p \in Callers |-> "idle"]

\* The request runs the pipeline.
Execute(p) ==
  /\ pc[p] = "idle"
  /\ pc' = [pc EXCEPT ![p] = "create"]
  /\ UNCHANGED <<endpoint, records>>

\* createServiceInstance forward: getClient("production"), then
\* endpoint.Create; an error of either fails the action.
createServiceInstance(p) ==
  /\ pc[p] = "create"
  /\ \E client \in Outcomes("getClient"), created \in Outcomes("create") :
       /\ endpoint' = IF client /\ created THEN endpoint \cup {InstanceOf[p]} ELSE endpoint
       /\ pc' = [pc EXCEPT ![p] = IF client /\ created THEN "insert" ELSE "error"]
  /\ UNCHANGED records

\* Mutant of insertServiceInstance: it inserts the first parameter (the
\* request's service) instead of the second (the instance).
insertServiceInstanceWrongParam(p) ==
  /\ pc[p] = "insert"
  /\ \E conn \in Outcomes("conn"), inserted \in Outcomes("insert") :
       /\ records' = IF conn /\ inserted THEN records \cup {p} ELSE records
       /\ pc' = [pc EXCEPT ![p] = IF conn /\ inserted THEN "ok" ELSE "undoCreate"]
  /\ UNCHANGED endpoint

\* insertServiceInstance forward: db.Conn, then Insert; an error of either
\* fails the action and the executor rolls createServiceInstance back.
insertServiceInstance(p) ==
  /\ pc[p] = "insert"
  /\ \E conn \in Outcomes("conn"), inserted \in Outcomes("insert") :
       /\ records' = IF conn /\ inserted THEN records \cup {InstanceOf[p]} ELSE records
       /\ pc' = [pc EXCEPT ![p] = IF conn /\ inserted THEN "ok" ELSE "undoCreate"]
  /\ UNCHANGED endpoint

\* Mutant of createServiceInstanceBackward: the instance is not destroyed.
createServiceInstanceBackwardKeeps(p) ==
  /\ pc[p] = "undoCreate"
  /\ pc' = [pc EXCEPT ![p] = "error"]
  /\ UNCHANGED <<endpoint, records>>

\* createServiceInstance backward: getClient("production"), then
\* endpoint.Destroy; errors are ignored.  The pipeline returns the error.
createServiceInstanceBackward(p) ==
  /\ pc[p] = "undoCreate"
  /\ \E client, destroyed \in CleanupOutcomes :
       endpoint' = IF client /\ destroyed THEN endpoint \ {InstanceOf[p]} ELSE endpoint
  /\ pc' = [pc EXCEPT ![p] = "error"]
  /\ UNCHANGED records

Done == \A p \in Callers : pc[p] \in {"ok", "error"}

Next ==
  \/ \E p \in Callers :
       \/ Execute(p)
       \/ createServiceInstance(p)
       \/ insertServiceInstance(p)
       \/ createServiceInstanceBackward(p)
  \/ Done /\ UNCHANGED vars

Spec == Init /\ [][Next]_vars

-----------------------------------------------------------------------------
TypeOK ==
  /\ endpoint \subseteq Names
  /\ records \subseteq Names
  /\ pc \in [Callers -> Labels]

\* Rollback law (spec section 8) for service instances: a request that
\* returned an error leaves neither an instance at the service nor a record
\* of it, whatever the other requests do meanwhile; one that succeeded
\* leaves both.
InstanceRollback ==
  \A p \in Callers :
    /\ pc[p] = "error" => InstanceOf[p] \notin endpoint \cup records
    /\ pc[p] = "ok" => InstanceOf[p] \in endpoint \cap records

=============================================================================
