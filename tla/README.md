# ChainLaunch in TLA+

ChainLaunch is one Go server process (`src/cmd/serve/serve.go`) that manages
blockchain nodes: an HTTP API over services in `src/pkg/*`, a SQLite database, the
docker daemon, and a few goroutines of its own (a cron scheduler, monitoring
workers, audit workers).  It has no lock per managed object.  Almost every hard
question about it is the same question: **a row says one thing, docker, cron or a
restic repository holds another, and several requests, failures and restarts move
both in separate steps**.  These modules model that.

- [1 Inventory](#1-inventory)
- [2 What every module assumes about the process](#2-what-every-module-assumes-about-the-process)
- [3 NodeGroups](#3-nodegroups)
- [4 PeerNode](#4-peernode)
- [5 ManagedPostgres](#5-managedpostgres)
- [6 Backups](#6-backups)
- [7 Monitoring, disk space and notifications](#7-monitoring-disk-space-and-notifications)
- [8 ChaincodeDeploy](#8-chaincodedeploy)
- [9 The audit log and what it implements](#9-the-audit-log-and-what-it-implements)
- [10 Plugins](#10-plugins)
- [11 FabricXNetwork](#11-fabricxnetwork)
- [12 Organizations](#12-organizations)
- [13 Runs and bounds](#13-runs-and-bounds)
- [14 Findings and disagreements](#14-findings-and-disagreements)
- [15 Proofs](#15-proofs)
- [16 Not modelled](#16-not-modelled)
- [17 Plan](#17-plan)

To check a run: `tlc -config ng_serial.cfg MCNodes.tla`.  To check a proof:
`tlapm NodeGroups_proofs.tla`.

## 1 Inventory

Each component with its state, its operations, who it talks to, what is hard about
it, and what makes it correct.  Paths are below `src/pkg`.

**Node groups** (`nodegroups/service`).  State: a `node_groups` row (status, shared
`deployment_config`, certificates) and one `nodes` row per role.  Operations:
create, delete, `InitOrdererGroup`, `StartGroup`, `StopGroup`, `RestartGroup`, attach
and detach a postgres service.  Calls the nodes service per child and, for a
committer group, the postgres client.  Hard: every operation is many SQL statements
and docker calls, requests on one group overlap, children can be started or deleted
one by one behind the group's back, requests are cancelled with their client.
Correct when: a transient status always has an owner; a child is linked only when it
can be started; one child per role; RUNNING is the truth; roles go up and down in
order.  → `NodeGroups`.

**Nodes service** (`nodes/service`, with `nodes/fabricx`, `nodes/peer`,
`nodes/orderer`, `nodes/besu`).  State: `nodes` rows, `node_events`, files, containers
or system services.  Operations: create, start, stop, restart, delete, renew
certificates, update.  Hard: the row, the directory, the key and the container of a node
move in separate steps; read-modify-write of `deployment_config` by several handlers; a
rollback after a failed start.  Correct when: the status follows the container, and a
running node has the configuration and the certificate its row says.  → `PeerNode` for a
Fabric peer in docker, `NodeGroups` for the children of a group.

**Postgres services** (`services/service`, `services/postgres`).  State: a `services`
row (name, status, `deployment_config`) and one container of that name.  Operations:
create, update, delete, start, stop, and connect or disconnect a network.  Used by
the services API and by committer groups, several of which share one container.
Hard: check-then-act on the container, a start that times out with the container up,
a teardown that must not hurt the other groups.  Correct when: a group that started
reaches postgres until somebody decides otherwise; pointers resolve; RUNNING is the
truth.  → `ManagedPostgres`.

**Backups** (`backups/service`).  State: targets, schedules and backups in the
database; a cron entry per enabled schedule and a goroutine per backup in memory; a
restic repository per target.  Operations: CRUD of the three, enable and disable,
cron firing, the backup itself, restart of the process.  Hard: row and entry written
apart, entries that capture a row and outlive it, deletion while a backup runs.
Correct when: what runs is what the rows say; a backup's status is the truth; a
completed backup can be restored.  → `BackupLife` (the promise), `Backups`.

**Monitoring** (`monitoring/service.go`, `diskspace.go`).  State: the watched nodes,
their failure counts, the set being checked, last results; the time of the last disk
warning.  Workers tick, copy the due nodes under a read lock, check each and record the
result.  Hard: several workers with stale copies, two maps under two mutexes, a count read
after its lock; a warning that fails against its cooldown.  Correct when: the two maps
agree, an alert means consecutive failures, a node that stays down is reported, a
warning that failed is sent again.  → `Monitoring`, `DiskSpace`.

**Notifications** (`notifications/service`).  State: provider rows with their topics, one of
them the default.  Hard: a save unsets the old default and writes the new one in two
statements.  Correct when: at most one default.  → `Notifications`.

**Audit log** (`audit`).  A middleware, a channel of 1000 events, workers that insert them.
Hard: full, lost with the process, raced for.  Correct when: an event is stored at most
once and lost for a known reason only.  → `AuditEvents` (the promise), `AuditLog`.

**Ports and chaincode deployment** (`common/ports`, `chainlaunchdeploy`).  An in-memory set
of reserved ports; definitions with a stored address; packages on peers; containers.
Hard: install, approve and deploy each compute the package anew; two requests on a
definition without an address; the reservations are lost with the process and the
addresses are not.  Correct when: ports are apart, what is installed is what the row
says, a deploy leaves one container.  → `ChaincodeDeploy`.

**Networks** (`networks/service`).  Networks, their nodes and channels; a Fabric-X network
verifies itself when its last node has joined, by creating a namespace.  Hard: the last
joins race, verifications race, the record and the ledger disagree.  Correct when: the
last join verifies, one transaction per record, "running" means confirmed.
→ `FabricXNetwork`.  Fabric and Besu networks are not modelled.

**Plugins** (`plugin`).  A row and a docker compose project each, without a lock.  Hard:
overlapping calls, statuses written with a cancelled context.  Correct when: the status
is served and tells the truth about the containers.  → `Plugins`.

**Projects** (`scai/projects`, `scai/projectrunner`).  A row, a container found by name when
it is replaced and by id when it is stopped, a port looked for before it is taken, and on
Fabric a chaincode definition: each organization approves a package that holds this port, and
a commit without a package puts what was approved in force.  No lock, no step undone.  Hard: a
stop against a start, a call that fails half way, two starts that find one port free, an
approval whose error is dropped.  Correct when: a project that runs is up under the id and port
of its row, the peers of each organization whose approval went through dial that port, and what
is not running is not up.  → `Projects`.

**Organizations and keys** (`fabric/service`, `keymanagement`, with the publication of
revocation lists in `networks/service/fabric`).  State: organization rows, each with five
keys; key rows that name the key they were signed with; revoked serial numbers; the list in
the channel.  Operations: create an organization (nine steps, each with its own rollback)
or a member key, sign, delete, revoke, publish.  Hard: rollbacks that run into foreign keys
and ignore it, a list read before the configuration it is put into, MSP ids nothing makes
unique.  Correct when: a create that fails leaves no member of an organization, and what was
published as revoked stays so.  → `Organizations`.

**Metrics** (`metrics`).  A Prometheus container and its configuration.  Not modelled.

**Authentication, settings, logs, AI assistant, helpers, command line.**  Sequential handlers of a statement or two,
cryptography, or I/O; `PROJECT.json` says for each why it is left out.

## 2 What every module assumes about the process

- `net/http` runs each request in its own goroutine.  A request in flight is a record
  `req[h]` with a program counter; each step is one action.
- `db/connect.go` gives the pool one connection and turns foreign keys on.  One SQL
  statement is therefore atomic, two are not, and the constraints in
  `db/migrations` are guards: `UNIQUE` on names and slugs, `ON DELETE CASCADE`
  where a migration says so and nothing elsewhere.  An `UPDATE` of a row that is gone
  changes nothing; whether it is an error depends on the query (`:one` or `:exec`)
  and the steps differ accordingly.
- Ids are `AUTOINCREMENT`: a deleted id does not return.
- A docker call is atomic; a step that makes two of them can be cut between them.
- Requests pass their context on: a client that goes away cancels the request,
  whose later SQL and docker calls then all fail, its error handling included.  This
  is `Abort`, and for rows and containers it is indistinguishable from killing the
  process.  Rows left by it are put in the history variable `interrupted`.
- Nothing at start-up repairs rows; memory is lost (cron entries, the maps of
  the monitor, the allocated ports, the audit channel).

History variables (`interrupted`, `joined`, `cut`, `made`, `raced`, `overlapped`, `told`,
`owned`, `sure`, `tidy`, `left`, `seen`, `sent`, `lostTo`, `undisturbed`, `kept`, `promised`, `trusted`, `heard`, and
the fields `alone`, `clean`, `raced`, `must` of a call) are written and never read by a guard, but for `sent.deleted`, which is
bounded; properties use them to say which promise still binds.

## 3 NodeGroups

| model | code |
| --- | --- |
| `grp[g]` | `node_groups`: `status`; `dep` names the Init that wrote `deployment_config` |
| `node[n]` | a `nodes` row: group, role, `linked` (`node_group_id` set), `dep`, status |
| `up` | names of running role containers |
| `BeginInit` … `LinkRow` | `InitOrdererGroup`: guards on a snapshot; `og.Init`; `UpdateNodeGroup`; then `CreateNode`, `UpdateNodeDeploymentConfig`, `UpdateNodeGroupID` for each role |
| `BeginAddCommitter`, `InitNode`, `CommitterCreated` | `NodeService.CreateNode` of a committer in a group, with its rollback |
| `StartGroup`, `Prepare`, `List`, `SkipChild`, `MarkChild`, `Effect`, `Settle`, `EndGroup` | `StartGroup` / `StopGroup` and, per child, `startNode` / `StopNode` |
| `RestartGroup`, `RestartStart` | stop, pause, start |
| `DeleteNode`, `StopFirst`, `RemoveNode` | `NodeService.DeleteNode` |
| `CreateGroup`, `DeleteGroup` | one statement each |

A container is identified by the slug of group name and role, as in docker: a
group deleted and created again under the same name meets the containers of the first.
The list of children is read once and used for the whole fan-out, as in the code.

Properties: `GroupStatusOwned`, `NodeStatusOwned` (a transient status has a request at
work or one that was cut off), `LinkedChildComplete`, `OneChildPerRole`,
`NoResurrection`, `RunningMeansUp` and `DependencyOrder` (when no two requests drive groups of one name at once),
`EveryRequestEnds` and `GroupSettles` (liveness).

*What does not hold, and is not claimed.*  With overlapping requests RUNNING does not
mean up: a `StopNode` on a child between its start and the end of `StartGroup` is
enough.  `RunningMeansUp` is therefore claimed while each name has one request at a time, with every
failure and interruption; the run has one client, the proof any number (section 15).  `StopGroup` reports STOPPED although the errors of its children
were only logged, so the mirror property (STOPPED means down) is false.

## 4 PeerNode

One slug names a row, a directory, a key and a container; each request is a script of steps
over them (`Script`), and the steps are the actions.

| model | code |
| --- | --- |
| `peerRow` | the `nodes` row: id, status, which `node_config`, whether `deployment_config` is there, the certificate in it |
| `disk` | `peers/<slug>`: whether it exists, which configuration `core.yaml` is from, the certificate |
| `box` | external: the docker container of the name, what it was created with and what it read when it started |
| `issued` | the last certificate issued for the key |
| `BeginCreate`, `Initialize`, `WriteDeployment`, `Connect` | `CreateNode`, `initializeNode`, `LocalPeer.Init`, the probe after it and its second attempt |
| `MarkStatus`, `CreateBox`, `StartBox`, `SettleStatus`, `MarkError` | `startNode`, `StopNode`, `updateNodeStatus`, `LocalPeer.Start` |
| `RemoveBox` | `LocalPeer.Stop`: an error is only logged |
| `RenewCertificates`, `PersistCertificate` | certificate renewal, in the peer and in the row |
| `WriteConfig`, `Synchronize` | `UpdateFabricPeer` and `SynchronizePeerConfig` |
| `Cleanup`, `DeleteRow` | `cleanupNodeResources` and `DeleteNode` |
| `BreakOffPeer` | the client goes away or the process is killed |

`Rewriting` calls (all but start, stop and restart) change more than a status.  `hist.sure` says
that since a call that ended well on its own none overlapped or broke off, and none left a
status that denies the container: an error or a given up renewal with the container up, an
update that started a stopped peer, one that failed after it took a running peer down
(`Strands`), or a container docker did not remove.  `hist.tidy` says the same of rewriting calls only; `hist.left` that the writer of the
present status is gone.

Properties: `PeerStatusServed` (a status in between has a request that will still write one,
whatever overlaps), `StatusIsContainer` (RUNNING if and only if the container runs, after
requests one at a time, failed ones too, but for those that `hist.sure` names), `ContainerIsRow` (through updates and renewals, with starts and
stops racing between them, a running peer has the configuration and certificate of its
row, its directory and the last one issued).

*What does not hold, and is not claimed.*  Starting a peer that runs fails on the container
name and leaves ERROR over a running container; deleting a node in ERROR leaves that
container, and the slug can then not be created again.  `CreateNode`'s rollback says it
stops "any partially started containers" and leaves the created one.  An update of a
stopped peer starts it and leaves STOPPED in the row.  An update stops the peer and starts it
again without writing a status (`nodes/service/fabric.go:683`): when the start fails, the row says
RUNNING and there is no container, until a later start, stop or renewal ends well.  A container
that docker does not remove is only logged, and a stop then writes STOPPED over one that
runs.  `RenewCertificates` of a node without
`deployment_config` returns after it wrote UPDATING (`nodes/service/service.go:2014`), and a
renewed certificate that cannot be stored in the row is only logged.  A delete cut off
after its cleanup leaves a row, RUNNING perhaps, without a directory.  A change of the
peer's *mode* (docker, service) starts the peer in the old mode (`nodes/service/fabric.go:691`
passes the row read before the update); service mode is not modelled.

## 5 ManagedPostgres

| model | code |
| --- | --- |
| `grp[g].pg`, `svc[s].owner` | `node_groups.postgres_service_id` and the legacy `services.node_group_id` |
| `svc[s]` | `services`: name, status, `dep` = the container `deployment_config` names |
| `box[name]` | the container of that name: none, up or down, and its networks |
| `StartPostgres`, `MarkStarting`, `RemoveOld`, `Run`, `WaitReady`, `PersistEndpoint`, `MarkRunning`, `MarkServiceError` | `services.Service.StartPostgres` and the cold path of `startManagedPostgresForCommitter`: the same sequence, on another network |
| `StartGroup`, `IsRunning`, `ConnectNetwork`, `Resolve` | `prepareGroup` of a committer group |
| `StopGroup`, `DisconnectNetwork` | `stopManagedPostgresForCommitter` |
| `StopService` … `MarkStopped` | `Stop`, whose docker errors are dropped |
| `BeginUpdate`, `UpdatePostgres`, `BeginDelete`, `DeleteService` | guards on the row as read, then one statement |
| `CreatePostgresService`, `Point`, `AttachPostgresService`, `DetachPostgresService`, `DeleteGroup` | rows and pointers |

Committer groups start out configured (their `deployment_config` is `NodeGroups`'
subject), each with its own bridge network.  A request works on the row it first
read, so it uses the name the row had then.

Properties: `ServiceStatusOwned`, `PointersResolve`, `TeardownIsLocal` (an action
property: no step takes a running container off a network but the stop of that network's
group, and no group stop removes the container), `RunningMeansServed` and
`SharedReachable` (while no two requests work against each other on one container: one client
in the run, any number in the proof, section 15).  `SharedReachable` with two cold starts and
`EndpointResolved` after a timeout are findings (section 14).

*What does not hold.*  `UpdatePostgres` racing a start writes back the
`deployment_config` it read before and loses the endpoint; a `Stop` whose docker calls
fail still ends STOPPED; a service in ERROR can be deleted with its container up.  The
first is why `RunningMeansServed` is claimed only while no two requests change one container at once.

## 6 Backups

| model | code |
| --- | --- |
| `sched[s]`, `bk[b]`, `tgt[t]` | the three tables |
| `entry[s]` | the entry of `scheduleEntries`, with the row its closure captured |
| `due[s]` | a cron goroutine between firing and its INSERT |
| `job[b]` | `performBackup` with its program counter |
| `repo[t]` | external: the snapshots of the target's restic repository, in order |
| `CreateBackupSchedule`, `SwitchRow`, `BeginUpdate`, `UpdateBackupSchedule` | the row; `Unschedule`, `ScheduleBackup` the entry, under `mu` |
| `Fire`, `CreateScheduledBackup` | `createScheduledBackup` |
| `BeginBackup` … `Notify` | `performBackup`, `performS3Backup`, `markBackupFailed`, the notifications |
| `BeginDelete`, `FindLatest`, `ForgetSnapshot`, `DeleteBackup` | `DeleteBackup`, `deleteS3BackupFile` |
| `Restart` | the process dies and `NewBackupService` loads the schedules |

Properties: `BackupStatusOwned`, `StatusIsTruth`, `RowsResolve`, `ScheduleInSync`, and
`ImplementsBackupLife`.  `BackupLife` is the promise, without tables and goroutines: a backup
is asked for, begun once, and completed after its snapshot or failed; nothing rewrites an outcome
or brings a deleted backup back, and the end of the process cuts off those that had no outcome, for
good.  It is worth stating because `performBackup` writes the row without looking at the status
it has, and a row can be deleted under it.  `LifeOf` reads a life off the row and off whether its
goroutine died.
`ScheduleInSync` binds a schedule unless two requests overlapped on it since the last
start: two that do can leave it disabled with a live entry, because each of them
writes the row and then the entry, and the two pairs interleave.  `CompletedRestorable` is a
finding.

Modelled by what they do: an expression the parser rejects schedules nothing and is only
logged; `getBackupSize` asks for the latest snapshot whoever made it; a deleted schedule
keeps its entry, whose INSERTs the foreign key then rejects; restic may write its
snapshot and still fail.  restic has no timeout in the code, so no liveness is claimed.

## 7 Monitoring, disk space and notifications

`Monitoring` and `DiskSpace` both extend `Notifications`: a mail goes to a default provider
that takes the topic, and the providers change under the monitors.

| model | code |
| --- | --- |
| `provider[p]`, `save[h]` | `notification_providers` rows; a create or update in flight |
| `UnsetDefault`, `WriteProvider`, `SaveFails`, `DeleteProvider` | `CreateProvider`, `UpdateProvider`: the two statements, the failure between them; `DeleteProvider` |
| `Receivers`, `Delivered`, `SendFails` | `GetDefaultNotificationProviderForType` and the `Send` functions; no receiver is no error |
| `watched`, `mon[n]`, `results[n]`, `checking` | the maps of the monitoring service, each under a mutex of its own |
| `recent` | `LastChecked` less than the interval ago: of a timestamp only that matters |
| `ListNodes`, `AddNode` | `cmd/serve` five seconds after the start: nothing when the query of the Fabric nodes fails, the Fabric nodes alone when that of the Besu nodes does |
| `Tick`, `CheckNode`, `Probe`, `Record`, `Store`, `Notify`, `Release` | a worker: the copy of the due nodes, the guard, the probe, the two writes, the alert, the deferred release |
| `CheckDiskSpace`, `SendDiskSpaceAlert`, `CooldownPasses` | the loop of `diskspace.go` |

Properties: `OneDefault`; `StatusServed` (the two maps differ only during the check that
writes them), `ReportIsCurrent` (the count read without a lock is the one the check led to),
`ReportedAfterThreshold`, `DownIsReported` (liveness: a node that stays down is reported while
mail works); `FailedWarningIsRetried` (liveness).

*Worth knowing.*  `SetMonitoringService` has no caller in the server, so a deleted node stays
watched (`nodes/service/service.go:1579`), is found down and reported; `Stop` is never reached
either, as its caller waits for a channel no signal is registered on (`cmd/serve/serve.go:354`).  The downtime in a recovery mail is always zero (`monitoring/service.go:462`
overwrites the start of the downtime before line 480 subtracts it).  A disk warning without any provider starts the cooldown all the same,
as the notification service reports no error for it.  A save that fails after the old
default was unset leaves none (`notifications/service/service.go:45`).

## 8 ChaincodeDeploy

| model | code |
| --- | --- |
| `defn[d]` | a definition row and its `chaincode_address` (0: none) |
| `allocated` | the map of `common/ports`, lost by `RestartServer` |
| `installed`, `container` | external: packages on the peers; containers with a definition's label |
| `GetFreePort`, `NoFreePort`, `StoreAddress` | the first free port of the range, written to the row |
| `InstallPackage`, `PeerFails` | one peer after the other, one that fails does not stop the rest |
| `RemoveContainers`, `CreateContainer`, `StartContainer` | deploy and undeploy |

Properties: `PortsApart` (addresses one process allocated never clash), `InstalledIsOfRow`
(after a successful install every peer has the package a later step computes from the row),
`DeploymentIsExact` (a successful deploy leaves exactly one container, with the row's address
and package; a removal none).  The second and third bind a request whose definition nobody
else wrote meanwhile: two installs of a definition without an address do install different
packages.

*Worth knowing.*  An approve before any install approves the package of the empty address;
after a restart the ports of definitions without a running container are given away again.

## 9 The audit log and what it implements

`AuditEvents` is the promise: the event of a request is open, then pending, then stored or
refused; only a full backlog turns one away; only a panic of the handler or the end of the
process lose one; a pending event settles.  `AuditLog` is the code: handlers that hand an
event to a bounded channel after they answered (`LogEventAsync`), workers that take one and
insert it (`TakeEvent`, `CreateAuditLog`, `InsertFails`), a process that is killed with what
waits (`KillAudit`; `Close` has no caller).  `FateOf` reads the fate of an event off the
channel, the workers and the rows, a second row or a row for a lost event being no fate at
all, and `ImplementsAuditEvents` is the whole of `AuditEvents`, fairness included.

A panicking handler leaves no event because the audit middleware (`cmd/serve/serve.go:633`)
sits inside `Recoverer` (line 611) and does not defer.

## 10 Plugins and projects

`plugin[p]` is the row (status, whether parameters were stored), `project[p]` the containers
of its compose project (`part`: some), `call[r]` a request.  `Validate`, `MarkDeploying`, `Up`,
`UpFails`, `UpdateDeploymentMetadata`, `MarkDeployed`, `MarkFailed` are `DeployPlugin` and
`ResumePlugin`; `ReadParameters`, `Down`, `DownFails`, `MarkStopped` are `StopPlugin`;
`DeletePlugin` goes on after a stop that failed; `BreakOff` ends a call with its context.

Properties: `DeployingIsServed` (a row says "deploying" only while a call is going to say how
it ended, unless one broke off), `StatusIsProject` (a row nothing cast doubt on tells the
truth about the containers, also after a delete).

*Worth knowing.*  A delete leaves containers behind when a deploy or stop failed before it,
although its description says "will stop it first if running" (`plugin/handler.go:241`); a
first deploy that fails stores no parameters, so that a stop is not possible; the status
"failed" is written with the cancelled context and so is lost.

`Projects` in the same way: `prow[p]` is the row, `slot[p]` the container of the project's name,
`approved[p][o]` the port organization `o` approved for the definition to come, `channel[p][o]` the
port its peers dial under the one in force, `pcall[r]` a request.

| model | code |
| --- | --- |
| `FindAvailablePort` | `StartProjectServer`: the first port that can be listened on |
| `Approve` | one turn of the loop in the hook of a Fabric network, `PreStart`, before the container exists: an organization installs the package with the address and approves it; it can go through, fail with the error dropped (whatever it did), or replace the package of a definition that is in force |
| `Commit` | the commit after the loop, which names no package: a majority must have approved, each organization gets what it approved itself, in this start or an earlier one, and the answer can be lost |
| `ContainerInspect`, `ContainerRemove`, `ContainerCreate`, `ContainerStart`, `MarkProjectRunning` | `Runner.Start`; an image that cannot be pulled fails as a create does |
| `ReadProject`, `ContainerStop`, `MarkProjectStopped`, `PostStop` | `Runner.Stop` and the hook after it, which clears id and port |
| `DeleteProject` | the DELETE after a stop, whose error is only logged |
| `ProjectCallFails` | an error at any step, a client that goes away, a process that stops: nothing is undone |

`trusted[p]`: no call on `p` overlapped or failed since one that ended well; `heard[p]`: the
organizations whose approval the last start saw go through.  Property:
`ProjectIsServed` (a trusted project without a request is up if and only if its row says
running, under the id and the port of the row, and on a Fabric network the peers of each
organization in `heard` dial that port), whatever the calls before left behind: a start that
ends well repairs all of it but a dropped approval, a stop that ends well what it found.  The
package of an approval is abstracted to the address in it, and the sequence of a
definition to whether it is in force.  The port of a container that crashes and is restarted by docker, and
other programs that listen on a port, are not modelled.

*Worth knowing.*  The error of an approval is dropped
(`scai/projects/fabric_lifecycle.go:326`-`344`) and the commit needs a majority only, so a start can
succeed and leave an organization on the address of an earlier start that failed, or on
none: of such an organization nothing is claimed.  A start whose request is cancelled during the two seconds it sleeps leaves
the container up and the row as it was, and a stop then reports success and does
nothing.  A start that fails after it removed the old container leaves a running row,
whose stop fails until a start succeeds.  `conversations.project_id` has no `ON DELETE`
clause and each project is given a conversation when it is created (`service.go:170`), so
with foreign keys on `DeleteProject` stops the project and then fails, where its comment
(`service.go:236`) says it "deletes a project and its associated files"; only a project
whose conversation could not be stored is deleted (`talks` in the model).

## 11 FabricXNetwork

| model | code |
| --- | --- |
| `network`, `member[n]` | the `networks` row; `network_nodes` rows |
| `record`, `ledger` | the `fabricx_namespaces` row of the healthcheck namespace; external: that namespace on the channel |
| `creator`, `CreateNetworkRow` … `UpdateNetworkStatus`, `DeleteNetwork` | `CreateNetwork` with its rollback, `DeleteNetwork` |
| `join[j]`, `BeginJoin` … `CheckJoins`, `JoinCut` | `JoinFabricXNodeToNetwork`, `allFabricXNodesJoined` |
| `verify[v]`, `ListNamespacesMerged` … `WriteVerdict`, `VerifyCut` | `VerifyNetwork` and `CreateNamespace` in it; `DeleteNamespaceRecord` |

Properties: `LastJoinVerifies` (however joins race, a network whose joins all came to their
check has a verification), `OneTransactionPerRecord` (however verifications race, each record
pays for one transaction at most).  `RunningIsConfirmed` is a finding.

*Worth knowing.*  A last node whose start fails, or whose client goes away before the check,
leaves all rows joined and nothing verified (`seen.missed`).  A failed write of "joined" is
only logged.  A record that failed blocks a retry until it is deleted
(`UNIQUE(network_id, name)`); a finality timeout leaves "failed" although the transaction may
commit; without a committer sidecar nobody waits for the ledger.

## 12 Organizations

| model | code |
| --- | --- |
| `org[o]` | `fabric_organizations`: whether the row is there, and its `msp_id` |
| `key[k]` | `keys`: whether the row is there, `signing_key_id`, and whether its certificate is that of an authority; `k` names the organization and the role the key was made for |
| `revoked[o]` | `fabric_revoked_certificates`, which go with the organization (`ON DELETE CASCADE`) |
| `posted[m]` | the revocation list of an MSP id in the channel configuration (external) |
| `CreateSteps` | `CreateOrganization` as a table: make a key, or sign one, or insert the row; with each step the keys its error path deletes, in the order of the code |
| `MemberSteps` | `OrganizationService.CreateKey` and `createKeyWithRole`, likewise |
| `MakeKey`, `IssueCertificate`, `CreateFabricOrganization` | one step that succeeds |
| `OrgStepFails`, `UndoOrgStep` | a step that fails, and the deletes of its rollback one by one; the error of each is dropped, as in the code |
| `CutOffOrgCall` | the client goes away or the process ends: the rollback cannot run either |
| `DeleteKeyRequest`, `SignCertificateRequest` | the keys API on any key, with any authority |
| `RevokeCertificate`, `DeleteRevokedCertificate`, `DeleteOrganization` | the handlers of these names |
| `BeginPublish`, `GetCRL`, `GetChannelConfig`, `SaveChannelConfig` | `UpdateOrganizationCRL`: the rows, the list, the channel configuration, the update sent |
| `KeyInUse` | the foreign keys on `keys(id)` that refuse a delete |
| `Accepted`, `AfterSend` | the orderer refuses an update of a configuration that has moved on (external) |

`NoOrphanMember`: a create that was not cut off leaves no signed key behind that does not
belong to a call that ended well, whichever step failed and whoever else deletes keys or
organizations meanwhile.  `PublishedIsRevoked`: what was revoked before a publication that
ran alone and reported success, and was not taken back, is in the channel after any later
publications, revocations and failures, as long as no other organization has the MSP id.

*Worth knowing.*  What the code does and no property forbids:

- A rollback deletes the authority before the keys it signed.  The foreign key refuses that
  and the error is dropped, so a create that fails after its first signature leaves its
  authorities behind (`organization_service.go:376`): `NoOrphanMember` is about members.
- When signing the admin key fails, the rollback (`:271`) deletes the authority and forgets
  the admin key, which has no certificate then; it stays in the table.
- `DeleteOrganization` leaves its keys.
- The MSP id is looked up and then inserted with no unique index: two creates at once both
  succeed, and each publication of one replaces the list of the other.
- The status in the answer of the orderer is not looked at, so a refused publication is
  reported as a success (`peer.go:2310`).  A publication that runs alone is not refused in the
  model; whatever else changes the channel can refuse it in the program.
- Two publications that overlap can leave the older list: the list is read first, the
  configuration second, and the orderer only guards the configuration.
- `RenewCertificate` checks its CA type and signs with the authority in the row whatever it
  says.

## 13 Runs and bounds

| run | instance | shows |
| --- | --- | --- |
| `ng_concurrent` | 1 group, 2 roles, 2 rows, two clients {Init, Start} and {Init, Stop, delete}, failures and aborts | status ownership, complete links, one child per role, no resurrection under interleaving |
| `ng_serial` | scene *group*: 1 group, 3 roles, 4 rows, one client of {Init, AddCommitter, Start, Stop, Restart}, failures and aborts; scene *peer*: requests on a peer one after the other, 2 configurations, 3 certificates, 2 rows; scene *peers*: two requests at once, 1 configuration, 2 certificates; scene *project*: 2 requests on 1 project, 2 organizations, a Fabric project started once at a time and each approval heard; scene *projects*: a Fabric project, one of whose 2 organizations may refuse or be misheard, and another that is started beside it, a request for each, 2 ports | RUNNING is the truth, dependency order; the three properties of a peer; that of projects |
| `ng_live` | 1 group, {Init, Restart} against a client of the nodes API, `FairSpec` | every request ends, a group settles |
| `ng_init_race` | two Init requests | finding |
| `pg_concurrent` | 2 groups, 2 services that reuse one name, services API against a group client, every docker step can fail, aborts | status ownership, pointers, teardown is local |
| `pg_serial` | 2 groups, 2 services, 2 names, one client, readiness failures and aborts | RUNNING is served, a started group keeps its postgres |
| `pg_cold_start` | 2 groups, 1 service, two starters, no failure | finding |
| `pg_retry` | 2 groups, 1 service, one client, readiness can fail | finding |
| `bk_concurrent` | scene *backups*: 1 schedule, 1 target, 2 backups, 3 expressions of which one does not parse, two clients, restic failures, restarts; scene *keys*: 1 organization, a create and member keys that fail anywhere, deletes by the keys API and one key clients sign; scene *twins*: two creates at once for one MSP id; scene *crl*: 1 organization, 2 serials, 2 publications | the five properties of `Backups`; the two of `Organizations` |
| `bk_delete` | one client, 2 backups, nothing fails | finding |
| `server` | the eleven scenes below | the properties of sections 7 to 11 |
| `fx_verify` | scene *verify* alone, one verification, broadcasts can fail | finding |

*Scenes.*  `MCNodes`, `MCServer` and `MCRecords` put components into one run.  `Server` is the composition of the
six services of `MCServer` as they run in one process: a step of the server is a step of one of them,
and the two monitors share the notification providers.  All its interleavings are out of TLC's reach, so `MCServer`
restricts its steps by scenes (what holds of all of them is proved, section 15): a variable
`scene`, chosen at the start, says which of them moves, so that their states add up
instead of multiplying.  The scenes of `server`:

| scene | instance |
| --- | --- |
| nodes | 2 watched nodes, a Fabric node that comes and goes and a Besu node, 2 workers, threshold 2, a fixed default provider |
| alerts | 1 node, which can be deleted, 2 workers, one provider that is changed and deleted, mail that fails |
| disk | the disk space monitor with such a provider |
| providers | 2 requests over 2 providers |
| ports | 2 definitions, 2 ports, a request for each, no peer fails |
| install | 2 installs of one definition that clients edit |
| deploy | 2 requests that deploy or undeploy one definition |
| audit | 4 events, a channel of 1 slot, 2 workers, kills |
| plugins | 2 calls on 1 plugin |
| join | 2 nodes, 2 joins, verifications only begun |
| verify | a created network, 2 verifications, every fault, 1 deletion of the record |

*Why these bounds are enough to be interesting.*  Two requests are needed for a race, and
every race in the code is between two handlers over one object.  Two roles are the least
for which an order, a partial Init and a child lost in mid fan-out exist; three
give a middle role that can fail between two others (`ng_serial`).  A unique name shared
by two successive rows needs two ids and one name (`pg_concurrent`, the peer scenes);
sharing needs two groups.  Two backups are the least for "the latest is another's".  Two
workers and two nodes make a stale copy of the due nodes; a channel of one slot with two
workers fills, drains out of order and drops; threshold 2 separates "failed" from "failed
often enough"; two ports for two definitions can run out, and two projects that look for one at once find the same;
four container ids are those that rows, names and requests can hold; two organizations of which
one approves and one does not leave one on a stale address after a start that succeeds, and
are a majority only together, so that a commit without both waits for an earlier approval.  The bounds are constants:
`MaxNodes`, `MaxServices`, `MaxBackups`, `MaxIds`, `MaxCerts` (rows and certificates ever made;
at `MaxNodes` the INSERT fails, an error path of the code), `MaxRecords`, `Requests`, `Calls`,
`PeerCalls`, `ProjectCalls`, `RunnerPorts`, `Containers`, `PeerOrgs`, `Clients`, `CcRequests`, `Joins`, `Verifiers`, and `Ops`, which splits the
operations over the clients so that each run stays in reach.  `FxFaults` names the faults a
run of the network has.  Aborts, kills and restarts are not bounded in number.

Symmetry (`pg_*`: groups and names, `bk_concurrent`: parsing expressions) is used in
safety runs only, over sets nothing in the model tells apart: the clients have different
operations and are not symmetric.  Runs with `CHECK_DEADLOCK FALSE` stop when
the bounded ids are used up or the group is gone and no client has anything left to ask.

A behaviour of `ng_serial` whose row ids are used up, or whose one project is deleted, stutters
(`NoMoreRows`): a limit of the model, not of the program, and so the run checks deadlock
otherwise; `NoMoreIds` is the same of the organizations in `bk_concurrent`.

The type invariants of the modules of `server` are in its run; those of `NodeGroups`, `PeerNode`,
`Projects`, `ManagedPostgres`, `Backups` and `Organizations` were checked in the same way and are
theorems now, for every instance, so their runs leave them out.  `ServerTypeOK` is a theorem too; its
run keeps it, as the scenes are where an unbound value would show first.

*Fairness.*  `FairSpec` is weak fairness of `Work(h)` for each request: a goroutine whose
next statement can be executed gets to it, since each SQL statement returns and the docker
calls of starts and stops have timeouts.  Nothing is assumed of clients: no `Begin`, no
`Abort`, no create or delete of a group is fair.  In `ng_live` nothing fails and nothing is
cut off; with `MayAbort` the properties speak of `interrupted` rows.
`MonitoringFairness` is weak fairness of each worker, of the passing of an interval and of
the loop of `cmd/serve` that adds nodes; `DiskSpaceFairness` of the disk goroutine;
`AuditFairness` of each audit worker: goroutines that sleep on a ticker or a channel, with
timeouts on every network call.  Nothing is assumed of nodes, providers, mail or requests;
the liveness properties say "while" of them.

Every property of a passing run has a mutant in `PROJECT.json`, a definition next to the
original changed as a plausible bug would (`SlugTakenNoIndex`, `FastPathCreated`,
`AfterResticUnchecked`, …), with which TLC finds it violated.

## 14 Findings and disagreements

Runs that TLC finds violated, each with the line of the repository that says otherwise:

1. `ng_init_race`, `InitOnce` — `nodegroups/service/init_orderer.go:57`.  Two concurrent
   Init requests pass the guards on a row both read before either wrote; the second
   replaces the configuration and keys of the first.  It is the only way (`InitStaysOnce`).  The comments at `init_orderer.go:43` and
   `nodes/fabricx/orderergroup.go:82` call it idempotent.
2. `pg_cold_start`, `SharedReachable` — `nodegroups/service/service.go:783`.  Two groups
   sharing a stopped service start together; both take the cold path and the second start
   force-removes the container the first is attached to.
3. `pg_retry`, `EndpointResolved` — `nodegroups/service/service.go:787`.  After a start
   whose readiness wait timed out, the container is up and the endpoint was never stored;
   the retry takes the fast path and never stores it.
4. `bk_delete`, `CompletedRestorable` — `backups/service/service.go:991`.  Deleting a
   backup forgets the newest snapshot of the repository, not its own.
5. `fx_verify`, `RunningIsConfirmed` — `networks/service/fabricx/deployer.go:460`.  A second
   verification takes the record of an attempt whose broadcast failed for a confirmed
   namespace and marks the network running with nothing on the ledger.  The comment at
   line 512 says it is called only after the namespace is confirmed.

Smaller disagreements met while modelling are under *Worth knowing* and *What does not
hold* in the sections of the modules.

## 15 Proofs

All theorems hold for every value of the constants that satisfies the assumption of the
module: any number of groups, services, schedules, nodes, workers, requests, any assignment
of operations, failures on or off.  The assumptions type the constants (`ConstantsAssumption`,
`MonitoringAssumption`: a positive threshold, `FabricXAssumption`: finitely many verifications,
`AuditAssumption`: finitely many events, a capacity in `Nat`, `ChaincodeAssumption`: ports are
positive, 0 is no port, `PeerAssumption`: room for one row and one certificate), say that the
orderer roles are different node types (`RolesDistinct`) and keep "none" apart from the
ids (`OrganizationsAssumption` too); TLC evaluates each in a run.

Nine theorems have a condition beside that.  Without it their properties are false, as sections 3, 5
and 14 say, so it is part of the theorem, and it is a condition on the behaviour (`Spec /\ []C => []P`) and, but
for what is said of docker's inspect and of Fabric-X below, not on the constants: any number of requests may overlap, as long as these do not.

- `RunningAlwaysUp`, `OrderAlwaysKept`: `Apart`, the groups of one name are driven by one request
  (Init, Start, Stop, Restart) at a time, and no request of the nodes API acts on one of their roles.  What
  goes on at the same time is every request about other names, committers and their groups,
  and creating and deleting any group.  `NameAlwaysServed` says it of one name (`Alone(nm)`), whatever races around the others.
- `RunningAlwaysServed`: `Apart`, while a request changes what one container name stands for (from the read of the
  row to the status that ends it: an update, a start, a stop), no other does so or is about to.
  Group stops, deletes, attaches, detaches, and everything about other containers overlap freely.
- `JoinedAlwaysReachable`: `AllSteady`, nobody replaces a container while another request relies on it, and no
  group is stopped while it is being brought to it; so any number of groups start, stop and share
  one container at once.  `NameAlwaysReached` says it of one container (`Steady(nm)`).  Both also assume that docker's
  inspect does not fail.
- `InitStaysOnce`: `OneInit`, no two Inits of one group are between the read of its row and the write of its
  configuration.  Everything else overlaps.
- `CompletedStaysRestorable`: `ForgetsOwn`, the snapshot a deletion found to be the newest is of the backup
  it deletes, and `DeletesWhole`, the process does not die between that snapshot and its row.  Deletions, backups
  and crashes overlap otherwise as they like.
- `RunningStaysConfirmed`: `LooksAlone`, no verification reads the records while another one waits for its block, and
  `Reliable`, which is a condition on the constants: sidecars, broadcasts and the wait for finality do not fail
  and no verification is cut off.  Joins may still be.

The last three are about properties that section 14 shows false: they say when the code keeps
what its comments say, so a behaviour that breaks one of them breaks a condition above.

`OneClientIsApart` and `OneIsApart` prove that constants with one request at a time meet the
first two conditions, `OneInitClient` that one Init at a time meets `OneInit`; the former
are the instances of `pg_serial` and of the *group* scene of `ng_serial`.  That overlapping requests
can meet all of them was checked with TLC, together with the properties, on instances of two or three requests.

| module | theorem | property |
| --- | --- | --- |
| `NodeGroups_proofs` | `TypeCorrect` | `TypeOK` |
| | `GroupStatusAlwaysOwned`, `NodeStatusAlwaysOwned` | `GroupStatusOwned`, `NodeStatusOwned` |
| | `RunningAlwaysUp`, `OrderAlwaysKept` | `RunningMeansUp`, `DependencyOrder` |
| | `NameAlwaysServed` | both, of one name |
| | `InitStaysOnce` | `InitOnce` |
| | `OneChild`, `DeletedStaysDeleted`, `LinkedComplete` | `OneChildPerRole`, `NoResurrection`, `LinkedChildComplete` |
| `ManagedPostgres_proofs` | `PostgresTypeCorrect` | `TypeOK` |
| | `ServiceStatusAlwaysOwned`, `PointersAlwaysResolve` | `ServiceStatusOwned`, `PointersResolve` |
| | `TeardownAlwaysLocal` | `TeardownIsLocal` |
| | `RunningAlwaysServed`, `JoinedAlwaysReachable` | `RunningMeansServed`, `SharedReachable` |
| | `NameAlwaysReached` | the second, of one container |
| `Backups_proofs` | `BackupsTypeCorrect`, `BackupStatusAlwaysOwned`, `StatusAlwaysTrue`, `RowsAlwaysResolve` | `TypeOK`, `BackupStatusOwned`, `StatusIsTruth`, `RowsResolve` |
| | `ScheduleAlwaysInSync` | `ScheduleInSync` |
| | `BackupRefinement` | `ImplementsBackupLife` |
| | `CompletedStaysRestorable` | `CompletedRestorable` |
| `ChaincodeDeploy_proofs` | `ChaincodeTypeCorrect` | `ChaincodeTypeOK` (in TLC: a part of `ServerTypeOK`) |
| | `PortsStayApart`, `InstalledAlwaysOfRow`, `DeploymentAlwaysExact` | `PortsApart`, `InstalledIsOfRow`, `DeploymentIsExact` |
| `PeerNode_proofs` | `PeerTypeCorrect` | `PeerTypeOK` |
| | `PeerStatusAlwaysServed`, `StatusAlwaysContainer`, `ContainerAlwaysRow` | `PeerStatusServed`, `StatusIsContainer`, `ContainerIsRow` |
| `Organizations_proofs` | `OrganizationsTypeCorrect`, `NoMemberOrphaned`, `PublishedStaysRevoked` | `OrganizationsTypeOK`, `NoOrphanMember`, `PublishedIsRevoked` |
| `AuditLog_proofs` | `AuditInvariant`, `AuditRefinement` | every step of `AuditLog` is one of `AuditEvents` or a stutter: the safety half of `ImplementsAuditEvents` |
| `Server_proofs` | `ServerTypeCorrect` | `ServerTypeOK` |
| | `ServicesDoNotInterfere` | the eleven safety properties of the run `server`, in their composition |
| | `ServerKeepsEvents` | the safety half of `ImplementsAuditEvents`, in their composition |
| | `OneDefaultAlways` | `OneDefault` |
| | `StatusAlwaysServed`, `ReportAlwaysCurrent`, `ReportsFollowThreshold` | `StatusServed`, `ReportIsCurrent`, `ReportedAfterThreshold` |
| | `DeployingAlwaysServed`, `StatusTellsProject` | `DeployingIsServed`, `StatusIsProject` |
| | `LastJoinAlwaysVerifies`, `OneTransaction` | `LastJoinVerifies`, `OneTransactionPerRecord` |
| | `RunningStaysConfirmed` | `RunningIsConfirmed` |
| | `ProjectsTypeCorrect`, `ProjectAlwaysServed` | `ProjectsTypeOK`, `ProjectIsServed` |

*Type correctness.*  `TypeOK` is not inductive: a step uses the ids in `req[h]`, and
only the program counter says which of them are set.  `TypeInv` adds `Shape(req[h])`,
one implication per program counter.  Each action preserves it in a lemma of its own;
`NextType` puts them together.

*Status ownership* (`GroupStatusOwned`, `NodeStatusOwned`, `ServiceStatusOwned`) is
inductive over `TypeInv`.  The argument is local: a step of request *h* changes no
other request, so a row keeps its owner unless *h* owned it, and then *h* either
writes a final status, still owns it, or is recorded as cut off.  `GroupAccounted` and
`NodeAccounted` say this of one step, `GroupStep` and `NodeStep` turn it into the invariant.

*One child per role* rests on `UniqueSlugs`: among all rows, linked or not, a slug
occurs once.  Links are never checked against each other; that they cannot clash follows
from the slug index alone.

*Linked children are complete* needs what Init knows between its statements: `Creating(h)`
says that from its `Persist` on, the group of an Init has a configuration or is
gone, and that from `ConfigRow` on the row it is about to link has one or is gone.

*A node group with one client at a time* (`SerialInv(nm)`).  `RunningMeansUp` and `DependencyOrder` say nothing
of a start or a stop half way through the roles, and the model lets the group be deleted, and
another be created under its name, while one is.  `HoldsGroup`: the group keeps the status the
request gave it, unless it is gone, and no other group of its name has got past CREATED.
`KnowsKids`: the list read at the beginning is still the group's, since only deletion takes a
child off it.  `AtChild`: the row in hand is that of the role the loop is at.  `DoneInOrder` is the
loop invariant: the roles a start has been through are RUNNING with their containers up unless
one failed, and none of them is CREATED or STOPPED; the roles a stop has been through are not
RUNNING.  `SetsUp`: Init touches children that were never started.  Order is kept because a start
goes on only past a role that it did not leave stopped, and it needs `RolesDistinct`.  TLC checked
`SerialInv` on instances of one and of two names before it was proved.  A name is served by at
most one request, so all this is said of that one (`Client`), and a step of any other request is *beside*
the name (`GroupsBeside`, `RowsBeside`, `UpBeside`): slugs carry the name of the group, which
is why it changes none of its rows or containers.

*Init once.*  Two statements change a configuration (`ConfigurationStep`): `Persist` and the deletion of the group.
`Fresh`: the group of an Init that has yet to write has none.  A second writer would have to be at
`Persist` too, which `OneInit` excludes.

*Pointers resolve* needs `DeadGroups`: a deleted group points at nothing, or the foreign
key, which only looks at rows that exist, would not protect the pointer.

*Teardown* needs to know who is at which statement: `Kind` says which program counters an
operation passes through, so that a disconnect is a group's and a removal is not.  Each docker
call is then looked at once, and all other steps leave the containers alone.

*Postgres, one container at a time.*  What a step does to a row, a container and a group's join is first
said once for all actions (`RowEffect`, `BoxEffect`, `JoinEffect`): a request writes the row it read and
the container of the name it read, and nothing else.  `OwnRow`: the row a request read keeps its name, is not RUNNING while
the request changes its container, and has the container up from its readiness on.  Names are
unique among rows that exist (`PointersResolve`), so a request with another name is about
another row.  `OwnBox`: no group is joined to a container that is about to be removed or stopped, and a start
past its connect has its own network on it.  Inspect must not fail: an inspect that fails reads
as *not running*, the start takes the cold path, and removes a container other groups are on,
which is the second finding reached with a single client.

*Backups.*  `Sound(row, pc, …)` ties a row to the program counter of its goroutine: an active
row has one still to write, one past restic has its snapshot, nothing was notified
before the end.  It gives `BackupStatusOwned` and `StatusIsTruth` together.
`RowsResolve` is inductive by itself over the types.

*The life of a backup.*  `Alive` ties the row to the goroutine in the other direction than `Sound`: a
row that is still there has the status its goroutine left, a snapshot is written by a goroutine that has
none yet, a goroutine that runs was not cut off, and an id not given out yet has no past.
`WasThere`: a deletion is of a row that was there.  Each action is then an action of `BackupLife`
or a stutter, the writes to a row that is gone among the latter.

*Completed backups.*  `HeldInv`: the goroutine of a backup writes to the target of its row, and a snapshot
that was made is in that repository until a deletion of its backup has forgotten it and is about
to delete the row.  `ForgetTakes` is the one step that shortens a repository.

*Schedules.*  `SyncRow`: while a lone request works on a schedule, what it has still to do brings
the cron entry to what the row will say (`OnItsWay`); of a schedule requests raced on, nothing is
claimed; with none at work, row and entry agree.  An id nobody has been given yet has no entry (`Untouched`).

*The audit log.*  `AuditInv` says where an event can be: with its handler, once in the channel
(`QueueOnce`), with one worker (`HoldOnce`), in one row, or lost, and never in two of these
(`OpenInv`, `WaitInv`, `ApartInv`, `OnceInv`).  With it each action changes the `FateOf` of the
events it touches as an action of `AuditEvents` does; that a full channel is a full backlog
(`FullBacklog`) needs that the queue holds no event twice.

*Providers.*  `CleanSave`: between the two statements of a save that nobody raced there is no
default at all, so its second statement makes one.

*The monitor.*  The guard is the whole argument: `HoldsNode` and `AloneAt` say that a worker
between guard and release has its node in `checking` and is the only one at it.  The count
and the status it left in the record are then still its own when it reads them without
the lock, which is `ReportIsCurrent`, and the other two follow with it.

*Chaincode.*  `Reserved`: a port of the map belongs to a row with an address, and no two rows share
one.  `Pending` and `Sound(r)` follow a request: the definition it works on (`CallNamed`), which
operation is at which statement (`CallKind`), the address it took from the row, which no other
request can have changed since (`AddressKnown`), what it has installed by then (`Progress`) and,
if nothing disturbed it, the containers it leaves (`Exact`).

*Peers.*  The requests are scripts, so the proof does not go by statement but by what a step of a
script may follow (`Follows`).  `Served`: a status in between belongs to a request whose
script has still to write (`Owner`), or one was cut off.  `AloneCall`: a lone request finds the
container as it left it.  `SureCall` and `SureQuiet` say when RUNNING and the container agree
(`Match`), as long as the history promises it: at rest, and where a script may end without
writing the status.  `TidyCall` and `TidyRest` do
so for configuration and certificate of row, directory and container: `Wrote` is what a
creation, renewal or update has written so far, and the rest of its script brings the others to it.

*Plugins.*  `AloneOnly` says that a call that is alone is the only one on its plugin, and that
any other casts doubt on it; `AloneDid` what a lone call has done to the containers so far.
A step is local to one call and one plugin (`Local`, `LocalRow`, `LocalProject`), and `LocalInv`
turns what it does there into the invariant.

*Projects.*  The same argument: `OnlyRequest`, `HasDone` (the container a lone start made carries
its id and port, and what the organizations in `heard` approved, then what the channel has in force for them, is
this port), and `TrustedServed`, which lasts until a call
has gone past the steps that change nothing (`Untouched`).

*Fabric-X.*  `LastIsChecking`: once all rows say joined, the join that wrote the last of them is
on the way to its check, or was cut off, or a verification began.  `PaidFor` counts: the
transactions sent and the verifications that still hold a record to send for are together
no more than the records there were.  The second statement of two that looked fails on the
unique index, which is the only thing that keeps the sum down.

*Running networks.*  `Confirmed`: a record stands for a namespace on the ledger or for a verification that
waits for it, and a verification past its wait has it on the ledger.  A failed broadcast or a
cut leaves a record that stands for nothing, which the next verification cannot tell from
the other kind.

*Organizations.*  `StepFits` is proved of every row of the two tables once: what a saga has
`Signed` by then, its rollback covers, and no rollback step is needed for a key that is not.
`SignedAccounted` carries it through: a signed key belongs to a call that ended well, or a
call still `Covered` it, by the step it is at or by the rest of its rollback.  That no delete
of a member is refused needs that only authorities sign (`IssuersSign`) and that the row is
inserted last (`Unfinished`).  *Publication:* `ListsComplete` (past `GetCRL`, a publication lists all
that is promised and all it has to), `AloneIsAlone` (nobody publishes beside a lone one, so its
configuration is fresh) and `PromisesRevoked`; a send then replaces the list by one that is not
smaller where it matters.

*The server.*  Each component's invariant is inductive under its own next-state relation and
says nothing of another's variables; a step of the server is one component's step and leaves the
others' variables unchanged (`ServerNext`), so the conjunction is inductive.  Notifications are the exception: both
monitors read providers and neither writes them.
The same step argument turns every step of the server into one of `AuditEvents` or a stutter.

*Only model-checked:* `EveryRequestEnds`, `GroupSettles`, `DownIsReported`,
`FailedWarningIsRetried` and the fairness half of `ImplementsAuditEvents`: liveness is beyond the
proof system.  The five properties of section 14 are false as they
stand.  Four have a theorem that says when they hold; `EndpointResolved` has none: what it would
need (among others that no wait for readiness fails and no start is cut off) leaves little of it.

## 16 Not modelled

Inside the modelled components: database errors other than cancellation and constraints
(a full disk); column updates that no property tells apart (`Update` of a group's addresses,
`UpdateBackupTarget`, `CreatePostgresDatabases`, `UpdatePlugin`); events and logs; the content of
certificates, container specs and configuration files; the second-resolution name of the
copied database file in a backup; `UpdateFabricXCommitter` and certificate renewal of
Fabric-X nodes, which read, change and write back the group's `deployment_config`.  A committer
child is not part of the fan-out of `StartGroup`, which is how the code has it (`ChildRoles` of
`nodegroups/types` lists the classic roles).  `UpdateNodeEnvironment` reads a configuration
its query never fills and always fails.  The service mode of a peer (systemd, launchd).

Orderer and Besu nodes are created, started, stopped and deleted through the status writes
`PeerNode` models for a peer; what differs is which files and containers they are made of,
which the model abstracts from.  Creation and updates of Fabric and Besu networks are
transformations of channel configurations.  Authentication, settings,
logs and the AI assistant are handlers of a statement or two, cryptography or I/O.
Metrics is one container and would be modelled like plugins.  Of a project, its files and
their commits, the commands run in its container and changes of its endorsement policy
are left out.  Of organizations and keys: `UpdateOrganization` (a description), key material,
providers, and the directories of certificates on disk.

Most lines of the repository are not behaviour of this kind: API documentation
(`docs/docs.go`) and queries (`db/queries.sql.go`) are generated, and the largest sources
(`fabric/deployer.go`, `peer/peer.go`, `prometheus.go`, the HTTP handlers) are mainly calls to
SDKs, docker and cryptography, templates, and conversions between requests and rows.  The
modules name the lines they stand for in `PROJECT.json`.

## 17 Plan

In order of importance.

1. `UpdateFabricXCommitter` and certificate renewal as readers and writers of the group's
   configuration, in `NodeGroups`.
2. An abstract *managed object* (stopped, moving, running, error; every move has an owner)
   that the rows of `NodeGroups`, `PeerNode` and `ManagedPostgres` each implement,
   in the way `Backups` implements `BackupLife`; the owners of the proofs are its refinement
   mapping.
3. Metrics, in the shape of `Plugins`.
