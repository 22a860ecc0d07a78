# TLA+ models of the tsuru docker provisioner

This directory holds TLA+ models of the docker provisioner in this repository,
together with the TLC configurations that check them. The provisioner lives in
`src/provision/docker/provisioner.go`,
`src/src/github.com/globocom/tsuru/provision/docker/{docker.go,actions.go,handlers.go}`,
`src/io/flushing_writer.go` and `src/src/github.com/globocom/tsuru/service/actions.go`.
`PROJECT.json` lists:
- every component,
- every run with its expected outcome,
- the mutants that show each property can fail,
- the map from each TLA+ definition to the Go lines it translates,
- the findings,
- the hazards.

## The system

An application runs as *units*, and each unit is a docker container on some docker node. The provisioner keeps three pieces of shared state consistent:

- **the metadata store** (MongoDB collection `docker`): one record per container, holding its name, ID, app, host address and port, status and `LastStatusUpdate`;
- **the docker nodes**: the containers themselves (created, running, stopped);
- **the edge router**: the set of container addresses that serve the app.

The operations that change this state are listed below.

| Operation | Code | What it does |
|---|---|---|
| `start()` | docker.go:318 | Runs an *action pipeline* `[insertEmptyContainerInDB, createContainer, startContainer, updateContainerInDB, setNetworkInfo]` (actions.go). It then calls `setImage` and `setStatus("started")`. |
| `AddUnits` | provisioner.go:265 | Counts the containers, then runs the create-units pipeline `[provisionAddUnitsToHost, addNewRoutes]`. `provisionAddUnitsToHost` calls `addContainersWithHost`, which starts one goroutine per new unit, each running `start()`. After the join, if any goroutine failed, it removes every container that did start. |
| `RemoveUnits` | provisioner.go:284 | Lists the containers ordered by status and refuses to remove all of them. It then runs `removeContainer` on the first *n* in parallel goroutines. |
| `removeContainer` | provisioner.go:318 | Calls `stop()` (`StopContainer`, then `setStatus("stopped")`), then `remove()` (`RemoveContainer`, remove the record, `RemoveRoute`). Errors are logged. |
| `SetUnitStatus` | provisioner.go:330 | Called on behalf of the unit agents. It reads the record and `setStatus`es it. |
| `GitDeploy`/`ArchiveDeploy` | provisioner.go:138, docker.go:294 | Runs the build pipeline `[insertEmptyContainerInDB, createContainer, startContainer, updateContainerInDB, followLogsAndCommit]`, which commits and pushes the image. `p.deploy` then lists the containers and runs the create-units pipeline (no containers) or the replace-units pipeline `[provisionAddUnitsToHost, addNewRoutes, removeOldRoutes, provisionRemoveOldUnits]`. |
| `Start`/`Stop`/`Restart` | provisioner.go:84-136 | One goroutine per listed container, the join, and concurrent callers. |
| `Destroy` | provisioner.go:164 | Lists the containers and runs `removeContainer` on each in its own goroutine. After `wg.Wait()` it removes the image (errors logged) and the router backend, whose error it returns. |
| `RemoveUnit` | provisioner.go:310 | Gets the container by ID and runs `removeContainer` on it. |
| service instance pipeline | service/actions.go | `[createServiceInstance, insertServiceInstance]`: ask the service's endpoint to create the instance, then insert its record. On an insert failure, the backward of `createServiceInstance` destroys the instance, ignoring errors. |
| `SetCName` | | A pass-through to the router. It is listed in PROJECT.json. |

The action pipeline (package `action`, not in this repository) runs forward steps in order. When step *k* fails, it runs the backward steps of *k-1 .. 0* in reverse and returns the error. The model takes these semantics from the spec. A failing forward step jumps to the backward of the step before it.

## Modules

The pipelines are split the way the code is split:
- `ContainerActions` holds the steps that one goroutine runs on one container.
- `UnitsPipeline` (EXTENDS ContainerActions) holds the change-units pipelines that callers run around those goroutines.
- `AddUnits` and `Deploy` (EXTENDS UnitsPipeline) are the two entry points.
- `AppLifecycle` (Start, Stop, Restart, RemoveUnits(app, 1), RemoveUnit) and `ServiceInstance` stand alone.

### `ContainerActions.tla`: the per-container pipelines of actions.go and docker.go

**State.**
- `db`, `docker` and `routes` are the three stores, per container.
- `image` is what the app's image tag `assembleImageName(app)` points at: the last deployed build, or a newer commit.
- `unit[u]` is the program counter of the goroutine running container `u`'s pipeline:
  - `Units` run `start()`;
  - `Builds` run `deploy()`'s build pipeline.
- `created` is the `createdContainers` channel.

**Actions.** There is one action per forward step and per backward step:
- `insertEmptyContainerInDB`, `createContainer`, `startContainer`, `updateContainerInDB`, `setNetworkInfo`, with their backwards;
- `setImage` and `setStatus` (the tail of `start()`, with no rollback);
- `followLogsAndCommit`, `commit`, `pushImage` and `removeBuild` (the build's last step).

A failing forward step jumps to the backward of the step before it. This is the action pipeline's semantics, taken from the spec because package `action` is not in this repository.

Each external call that can fail is named in the constant `FailPoints`, and the model picks its outcome with `\E ok`. Compensation calls fail only when `CleanupMayFail` is TRUE.

`removeContainer` is two actions, because `remove()` deletes the container before the record and the route, and a property can see that window:
- `removeContainerDocker`: `stop()`, then `RemoveContainer` without Force, which is refused for a running container;
- `removeContainerRecord`: remove the record by ID, then `RemoveRoute`.

Records are abstracted to status, whether the ID is stored, and whether the network info is stored.

### `UnitsPipeline.tla`: provisionAddUnitsToHost, addNewRoutes, removeOldRoutes, provisionRemoveOldUnits

**State.** `caller` is the program counter of the pipeline's caller. The remaining variables are the code's local lists:
- `added`: `addedContainers`;
- `removed`: `removedConts`;
- `toRemove`: `args.toRemove`;
- `pending`: the containers the current loop still has to visit;
- `removing`: containers whose removeContainer is halfway.

**Actions.**
- the join and the cleanup loop of `addContainersWithHost`;
- `addNewRoutes` with its in-forward undo and its backward;
- `removeOldRoutes`, where ErrRouteNotFound counts as removed, with its in-forward undo;
- `provisionRemoveOldUnits`: parallel removal goroutines, drained before returning;
- the backward of `provisionAddUnitsToHost`.

The sequential loops run removeContainer one container at a time. `provisionRemoveOldUnits` interleaves them.

### `AddUnits.tla`

`AddUnits`: the container count check, then the create-units pipeline with one `start()` goroutine per new unit. Existing units start as started, running and routed.

### `Deploy.tla`

- `deploy`: GitDeploy/ArchiveDeploy start the build pipeline for the build container.
- `provisionerDeploy`: returns the build's error. Otherwise it lists the app's records and runs the pipelines below. The listing may fail (fail point `list`). `p.deploy` overwrites the listing's error, so a failed listing counts as no records:
  - the create-units pipeline with one unit, when there are no records;
  - otherwise the replace-units pipeline with as many new units as listed containers.

`InitRoutes` is the set of old units the router serves at first. Every run routes all of them.

### `AppUnits.tla`: RemoveUnits, removeContainer and SetUnitStatus

**State.**
- `db[c]` is `[status, lsu]` (lsu is `LastStatusUpdate`) or `Absent`.
- `docker[c]` and `routes` are as in AddUnits.
- `clock` stands for `time.Now()` and grows on every `setStatus`.
- `rm[r]` is the state of RemoveUnits call `r`.
- `gor[r][c]` is the state of its removeContainer goroutine for `c`.
- `rep` is the SetUnitStatus call in flight, and `reports` counts such calls.
- `add[n]` is where AddUnits(app, 1) is in the start() pipeline for the new unit `n` of `NewUnits`. A record's `id` flag says whether its `ID` field is set yet.

**Actions.**
- `RemoveUnitsCall`: the `units < 1` check.
- `RemoveUnits`: the listing, the guard and the goroutine launch. A goroutine starts at `remove` if the listed copy is `stopped`, which is `stop()`'s early return.
- `RemoveUnitsReturn`: `wg.Wait()`.
- `stopContainer`, `stopSetStatus` and `remove`: the steps of removeContainer.
- `SetUnitStatusRead` and `SetUnitStatus`: the read and the write of a status report.
- `AddUnits`, `insertEmptyContainerInDB`, `createContainer`, `startContainer`, `updateContainerInDB` (with setNetworkInfo), `startPipelineBackward`, `setStarted` and `addNewRoutes`: one new unit going through start() and addNewRoutes. insertEmptyContainerInDB inserts the record with status `created` and no ID. The ID is stored only by updateContainerInDB, which replaces the whole record by name.

A removal goroutine works on the copy it listed. When that copy has no ID, `StopContainer("")` and `RemoveContainer("")` reach no container, and `setStatus` and `Remove` act on `{"id": ""}`. That selector matches the records that still have no ID (`NoIDRecords`), and none at all once updateContainerInDB has run.

`setStatus` is a helper. It does `Update({"id"}, whole doc)`, which leaves a missing record missing. The listing is `SetToSortSeq` with the spec's order: created/building/down/error < unreachable < stopped < started, with ties broken by the oldest `LastStatusUpdate`. `remove` keeps a running container, because `RemoveContainer` is sent without `Force`.

### `AppLifecycle.tla`: Start, Stop, Restart, Destroy, RemoveUnits and RemoveUnit

Every record is reduced to its status or `Absent`, and every container to running, stopped or absent. A call in `call[p]` keeps three things:
- its phase;
- the copies that `listContainersByApp` returned (`listed`);
- whether an error reached `errCh`.

The actions of a call:
- `Call` lists and fans out. A Restart fans out its Stop first.
- `startContainer` and `setStarted` are the Start goroutine.
- `stopContainer` and `setStopped` are the Stop goroutine. Stop skips a container whose *listed* copy says stopped.
- `RemoveUnits` (with one unit) refuses when the app has at most one record. Otherwise it lists by status order, takes a record of the lowest rank and starts its removeContainer goroutine. `RemoveUnit` picks any container ID and returns an error when there is no record of it.
- The removal goroutine runs `stopContainer`/`setStopped` (the same `stop()`, with the same skip of a listed copy that says stopped), then `removeContainerDocker` (`RemoveContainer` without Force, refused for a running container, error only logged), then `removeContainerRecord` (the record removed by ID). `setStatus` of a removed record leaves it removed, as `Update` by ID does.
- `Destroy` fans out a removal goroutine per listed container, the same as RemoveUnits runs. `DestroyJoin` waits for all of them, then `RemoveBackend`, which may fail. `backend` says whether the router still has the app. The image is removed with its error logged, and it is not tracked.
- `Join` is `wg.Wait(); return <-errCh`. A Restart whose Stop returned nil fans out its Start. Stop never returns an error: `stop()` always returns nil, even when StopContainer fails, and a listing error of Stop is dropped as well (provisioner.go:107-111).

Starting a container that is already running fails, as TestContainerStartStartedUnits shows (a second start() returns an error); starting a removed one fails too. fixContainer only rewrites IP/HostPort and the route, so it is left out. Several callers may act on the same app at once.

### MC modules

`MCAppLifecycle` declares `c1`, `c2` and the callers `p1`, `p2`, with the calls each caller may make: all of them in sequence (`SequentialOps`), a Start racing a Stop (`MixedOps`), or a Start racing a RemoveUnits (`StartRemoveOps`). `MCServiceInstance` declares three requests `q1`..`q3` and their instances `mysql1`, `mysql2`, `redis1`. `MCAddUnits`, `MCAppUnits` and `MCDeploy` declare model values for the containers:
- `e1`, `u1`, `u2`;
- `c1`..`c3`;
- `o1`, `o2`, `u1`, `u2`, and `b` (the build container).

They also declare the removers (`r1`, `r2`), the sets of fail points and the container symmetry. Symmetry is used only in AppUnits. It is sound there because `Init` enumerates every order of `LastStatusUpdate` and every status.

## Runs

| Run | Config | Expect | What it shows |
|---|---|---|---|
| addunits_failures | MCAddUnits_all.cfg | pass | Every pipeline step of two concurrent `start()`s and every AddRoute may fail. A finished goroutine never leaves a record without a container or the reverse (`UnitsConsistent`). A successful AddUnits leaves every new unit started, persisted and routed, with the old units intact (`AddedUnitsServe`). An AddUnits that returns an error leaves store, docker and router exactly as before (`RollbackLaw`); this needs the backward chain, the join's cleanup, the route undo and the pipeline backward together. |
| addunits_leak | MCAddUnits_leak.cfg | violation | If `setImage` or `setStatus` may also fail, `RollbackLaw` fails: start() returns the error without undoing its pipeline. The join only removes the containers that succeeded, so a running container with a `created` record stays behind. |
| removeunits | MCAppUnits_remove.cfg | pass | One RemoveUnits of 0..3 units, racing a status report and an AddUnits(app, 1) whose start may fail, never removes the last unit (`NeverRemoveAllUnits`). Every existing unit it removes has no record, no container and no route when it returns (`RemovedUnitsGone`), even when a status write lands after the removal. |
| removeunits_addunits_inflight | MCAppUnits_inflight.cfg | violation | RemoveUnits(app, 1) lists the unit a concurrent AddUnits has just inserted without an ID. updateContainerInDB then stores the ID. The removal's StopContainer, setStatus and Remove by the empty ID miss it, so RemoveUnits returns nil while the unit ends started, recorded and routed (`VictimsGoneOnceSettled`). |
| removeunits_race | MCAppUnits_race.cfg | violation | Two RemoveUnits calls, one listing before a status report and one after it, pick disjoint victims and together remove all units. |
| deploy_replace | MCDeploy_replace.cfg | pass | This is a deploy of an app with two units. Every call of the build and of the replace-units pipeline may fail, except setImage/setStatus and push, which have their own runs. At every step the app is routed, and only to running containers (`RoutedRunning`). This needs new routes added before old ones are removed, and new routes removed before new containers are. An error leaves store, docker and router as before, and also the image tag when the build failed (`RollbackLaw`). Success leaves two new started, routed units from the committed image, with no trace of the old units or of the build container (`DeployReplaces`). |
| deploy_list_failure | MCDeploy_list.cfg | violation | The build succeeds and listContainersByApp fails. p.deploy drops the error and runs the create-units pipeline. The deploy returns nil with one new unit, while the old units keep running and routed on the previous build (`DeployReplaces`). |
| deploy_push_failure | MCDeploy_push.cfg | violation | A pushImage failure after CommitContainer rolls the build container back, but the app's image tag stays on the failed build. The next AddUnits starts it. |
| lifecycle_sequential | MCAppLifecycle_seq.cfg | pass | One caller makes three Start/Stop/Restart/RemoveUnits/RemoveUnit/Destroy calls in sequence, and RemoveBackend may fail. Once no call is in flight, no container is left without a record (`NoOrphanContainer`). The two containers start as started, stopped or error, and StartContainer may fail. A Start or Restart that returns nil has started and recorded every container (`StartReturnsStarted`). A Destroy that returns nil leaves no record, no container and no router backend (`DestroyRemovesApp`): this needs its wait for every removal goroutine. Nothing is claimed of a Stop that returns nil: Stop returns nil after a failed StopContainer or a failed listing too, so such a property would only say that StopContainer never fails. |
| lifecycle_start_stop_race | MCAppLifecycle_race.cfg | violation | A Stop and a Start of the same app interleave on c1 (`RecordMatchesDocker`, once no call is in flight). Stop's goroutine stops c1, Start's goroutine starts it and records it started, and Stop's setStatus(stopped) lands last: the record says stopped while the container runs. |
| lifecycle_start_remove_orphan | MCAppLifecycle_orphan.cfg | violation | RemoveUnits lists a unit as stopped while a concurrent Start starts it. stop() trusts the stale copy and skips StopContainer, docker refuses the unforced RemoveContainer, and the record is removed anyway: a running container with no record. |
| service_instance_pipeline | MCServiceInstance.cfg | pass | Three concurrent requests each create an instance of their own, and getClient, Create, db.Conn and Insert may each fail. A failed request leaves neither an instance at the service nor a record, and a successful one leaves both (`InstanceRollback`). |

**Bounds.**
- AddUnits uses one existing unit and two new units. Two units are the least that show a partial success, where one goroutine fails and the other must be cleaned up. All eight fail points are in play.
- AppUnits uses three containers, which gives all three rank classes. It allows up to 3 units per call, so the `>=` guard is reached at its boundary. The pass run has one status report and one new unit whose start may fail; the race run has two reports, enough to reorder the listing between two callers. The in-flight run needs two containers, one remover and the new unit.
- Deploy uses two old units, two new units and one build container. Two old units let removeOldRoutes fail after one route was removed, so the undo and the backward of addNewRoutes both act on a non-empty set.
- AppLifecycle uses two containers (the least that gives a partial failure) and three calls, so every pair of Start, Stop and Restart follows one another. The race run needs only one call per caller.
- ServiceInstance uses three requests. They share no state (each has its own instance and record), so the run shows that each request's pipeline rolls back on its own; a third request only adds interleavings that cannot interact.
- The pass runs reach 302 (addunits_failures), about 1.3 million (removeunits, 30 s), 367 (deploy_replace), 2084 (lifecycle_sequential) and 216 (service_instance_pipeline) distinct states, and the others finish in seconds.

**Fairness.** No run assumes fairness, and no run checks a liveness property. Each module ends in a terminal stuttering step once all calls have returned, so deadlock checking stays on.

The waits of the code (`wg.Wait`, `<-errCh`, the drain of `removedContainers` after `close`) are modelled as completion flags: a join is enabled once every goroutine's flag is set, and every docker, store and router call is a step that may fail but is always enabled. Under weak fairness every call would then return by the shape of the model, whatever the code does, so such a property would show nothing. A hang of those waits (a goroutine that never sends, a channel that is never closed) and timeouts of the calls are not modelled; they are listed as hazards.

## Findings

See `findings` in PROJECT.json:
- **addunits_leak:** start()'s unrolled tail leaks a running container.
- **removeunits_race:** the remove-all guard is a check-then-act on a snapshot.
- **deploy_list_failure:** p.deploy drops listContainersByApp's error, so a failed listing turns a deploy into a scale-up that leaves the old build running.
- **deploy_push_failure:** a push failure leaves the app's image tag on the failed build.
- **removeunits_addunits_inflight:** a unit listed before its ID is stored cannot be removed: every removal step is keyed by the empty ID.
- **lifecycle_start_stop_race:** a concurrent Stop and Start can leave a record saying stopped for a running container. No order of the two calls gives that outcome.
- **lifecycle_start_remove_orphan:** stop() trusts the status RemoveUnits listed (docker.go:509). A unit started since is neither stopped nor removed, but its record is.

## Plan for the following sittings

1. **Deploy:** add two concurrent deploys (one caller each) racing on the listing.
2. **Composition:** compose Destroy (AppLifecycle) with AddUnits' start pipeline (AppUnits), so that a unit added during a Destroy can be checked. (Destroy and the empty-ID window of RemoveUnits are done.)
3. **Refinement.** An abstract `Units` specification, in which units are added and removed atomically, should be refined through a mapping from `db`/`docker`/`routes`. A refinement of the action executor is not planned: the action package is not in the repository, so both sides would be written from the spec.
4. **Service instance faults:** a Create that times out after the service created the instance, and two requests for one name. Both are listed as hazards; each would break `InstanceRollback`.

## Not modelled

- **SSH and exec transport** (`ssh`, `legacySSH`, `shell`, `dialSSH`, `removeHost`): pure I/O.
- **The cluster handle** `dockerCluster()`: a lazy initialisation from configuration.
- **The node handlers:** JSON pass-through to docker-cluster.
- **The schedulers:** not in the repository.
- **FlushingWriter** (io/flushing_writer.go): `Write` sets `wrote` and writes and flushes under the package-wide `writeMutex`, and `WriteHeader` sets `wrote` without it. No code in the repository writes to one FlushingWriter from two goroutines, and the HTTP handlers that create one are not in the repository, so there is nothing to interleave.
- **insertServiceInstance's backward:** the executor never runs the backward of a pipeline's last action, so no code path of the repository calls it. The caller `CreateServiceInstance`, which checks instance names, is not in the repository either. Each modelled request has an instance of its own, and the same-name race is listed as a hazard.
- **Image naming** (`getImage`, `usePlatformImage`, `assembleImageName`): string building over configuration. The deploy model keeps the effect that matters, the app's image tag. `usePlatformImage` returns false for 0 deploys, as its test says; spec rule 6 says true. This only decides the base image of a first deploy, and `getImage` already takes the platform image when the app has no container. The hazard of this code, an app named like a platform sharing its image, depends on name checks in packages that are not in the repository.
- **A failing StopContainer in removeContainer.** AppUnits keeps `StopMayFail`, but no run enables it. It ends in the same unforced RemoveContainer of a running container, with the record dropped, that lifecycle_start_remove_orphan shows.
- **Liveness and the action executor.** The action package is not in the repository, so an executor refinement would compare the spec with itself; the waits are completion flags (see Fairness), so a liveness property would hold by construction.
- **Logs and formatting.**
- **Test files.**
