-------------------------- MODULE ManagedPostgres --------------------------
(***************************************************************************)
(* POSTGRES services and the committer groups that share them              *)
(* (pkg/services/service, pkg/services/postgres, and the postgres half of  *)
(* pkg/nodegroups/service).                                                *)
(*                                                                         *)
(* A services row names one container.  A committer group points at the    *)
(* row it needs; the first StartGroup starts the container on the group's  *)
(* bridge network, the others attach their networks to it.  The services   *)
(* API starts and stops the same container by itself.  As in NodeGroups,   *)
(* one SQL statement or docker call is atomic and nothing else is: there   *)
(* is no lock per service.                                                 *)
(***************************************************************************)
EXTENDS Integers, FiniteSets

CONSTANTS
    Groups,      \* committer groups, each also standing for its bridge network
    MaxServices, \* BOUND: rows ever inserted into services
    Names,       \* BOUND: the names clients give to services
    OpsNetwork,  \* the network POST /services/{id}/start is called with
    Requests,    \* BOUND: requests the server handles at the same time
    Ops,         \* BOUND: the operations each of those requests can be
    CanFail,     \* the docker steps that can fail
    MayAbort,    \* a request can be cancelled, the process can be killed
    None

Services    == 1..MaxServices
Networks    == Groups \cup {OpsNetwork}
AllOps      == {"Create", "Attach", "Detach", "Update", "Delete", "Start", "Stop",
                "CreateFor", "GroupStart", "GroupStop", "GroupDelete"}
DockerSteps == {"inspect", "connect", "disconnect", "remove", "create", "start", "ready", "stop"}

ASSUME ConstantsAssumption ==
    /\ MaxServices \in Nat
    /\ OpsNetwork \notin Groups
    /\ Ops \in [Requests -> SUBSET AllOps]
    /\ CanFail \subseteq DockerSteps
    /\ MayAbort \in BOOLEAN
    /\ None \notin Services \cup Groups \cup Names

VARIABLES
    grp,         \* node_groups rows: whether there, and postgres_service_id
    svc,         \* services rows
    box,         \* docker: the container of each name and the networks it is on
    req,         \* local state of each request in flight
    joined,      \* history: the container name a group's last StartGroup joined
    interrupted  \* history: services a lifecycle request left when it was cut off

vars == <<grp, svc, box, req, joined, interrupted>>

Status    == {"CREATED", "STARTING", "RUNNING", "STOPPING", "STOPPED", "ERROR"}
Transient == {"STARTING", "STOPPING"}
Gone      == {"unborn", "deleted"}
Row(status, name, owner) == [status |-> status, name |-> name, dep |-> None, owner |-> owner]
NoRow     == Row("unborn", None, None)
Deleted   == Row("deleted", None, None)
NoBox     == [state |-> "none", nets |-> {}]
Idle      == [op |-> "none", g |-> None, s |-> None, name |-> None, dep |-> None,
              new |-> None, pc |-> "idle"]

Present(s) == svc[s].status \notin Gone
Allowed(h, op) == op \in Ops[h] /\ req[h].pc = "idle"
NetworkOf(h) == IF req[h].g = None THEN OpsNetwork ELSE req[h].g
Finish(h)  == req' = [req EXCEPT ![h] = Idle]
Goto(h, l) == req' = [req EXCEPT ![h].pc = l]

Init ==
    /\ grp = [g \in Groups |-> [there |-> TRUE, pg |-> None]]
    /\ svc = [s \in Services |-> NoRow]
    /\ box = [n \in Names |-> NoBox]
    /\ req = [h \in Requests |-> Idle]
    /\ joined = [g \in Groups |-> None]
    /\ interrupted = {}

-----------------------------------------------------------------------------
(* SQL statements.                                                         *)

\* services.name is UNIQUE.
NameFree(s, name) == \A t \in Services : Present(t) /\ svc[t].name = name => t = s

\* UpdateServiceStatus and UpdateServiceStatusWithError: an error when the
\* row is gone, which every caller only logs.
WriteStatus(s, status) ==
    svc' = [svc EXCEPT ![s].status = IF @ \in Gone THEN @ ELSE status]

\* Mutant: postgres_service_id without its foreign key.
ReferencedNoFK(s, others) == FALSE

\* node_groups.postgres_service_id has no ON DELETE action: a referenced row stays.
Referenced(s, others) == \E g \in others : grp[g].there /\ grp[g].pg = s

\* findPostgresService: the pointer, else the first row that still has the
\* legacy services.node_group_id of the group.
Attached(g, s) ==
    /\ Present(s)
    /\ \/ grp[g].pg = s
       \/ /\ grp[g].pg = None /\ svc[s].owner = g
          /\ \A t \in Services : Present(t) /\ svc[t].owner = g => s <= t

Insert(s, name, owner) ==
    /\ \A t \in Services : svc[t].status = "unborn" <=> t >= s
    /\ NameFree(s, name)
    /\ svc' = [svc EXCEPT ![s] = Row("CREATED", name, owner)]

-----------------------------------------------------------------------------
(* Rows and pointers.                                                      *)

CreatePostgres(h, s, name) ==
    /\ Allowed(h, "Create")
    /\ Insert(s, name, None)
    /\ UNCHANGED <<grp, box, req, joined, interrupted>>

\* POST /node-groups/{id}/services/postgres: an INSERT, then the pointer.
CreatePostgresService(h, g, s, name) ==
    /\ Allowed(h, "CreateFor") /\ grp[g].there
    /\ Insert(s, name, g)
    /\ req' = [req EXCEPT ![h] = [Idle EXCEPT !.op = "CreateFor", !.g = g, !.s = s,
                                              !.pc = "point"]]
    /\ UNCHANGED <<grp, box, joined, interrupted>>

\* The group or the service can be gone by now; the error is only logged.
Point(h) ==
    /\ req[h].pc = "point"
    /\ grp' = [grp EXCEPT ![req[h].g].pg =
                 IF grp[req[h].g].there /\ Present(req[h].s) THEN req[h].s ELSE @]
    /\ Finish(h)
    /\ UNCHANGED <<svc, box, joined, interrupted>>

AttachPostgresService(h, g, s) ==
    /\ Allowed(h, "Attach") /\ grp[g].there /\ Present(s)
    /\ grp' = [grp EXCEPT ![g].pg = s]
    /\ UNCHANGED <<svc, box, req, joined, interrupted>>

DetachPostgresService(h, g) ==
    /\ Allowed(h, "Detach") /\ grp[g].there
    /\ grp' = [grp EXCEPT ![g].pg = None]
    /\ UNCHANGED <<svc, box, req, joined, interrupted>>

(* DELETE /node-groups/{id}: services.node_group_id cascades, unless another *)
(* group points at one of those services, which fails the statement.        *)
DeleteGroup(h, g) ==
    LET owned == {s \in Services : Present(s) /\ svc[s].owner = g} IN
    /\ Allowed(h, "GroupDelete") /\ grp[g].there
    /\ \A s \in owned : ~Referenced(s, Groups \ {g})
    /\ grp' = [grp EXCEPT ![g] = [there |-> FALSE, pg |-> None]]
    /\ svc' = [s \in Services |-> IF s \in owned THEN Deleted ELSE svc[s]]
    /\ joined' = [joined EXCEPT ![g] = None]
    /\ UNCHANGED <<box, req, interrupted>>

\* A request on a services row starts with GetService, and keeps to what it
\* read: the container is the one of the name the row had then.
Read(h, op, s, new, pc) ==
    /\ Allowed(h, op) /\ Present(s)
    /\ req' = [req EXCEPT ![h] = [op |-> op, g |-> None, s |-> s, name |-> svc[s].name,
                                  dep |-> IF op = "Update" THEN svc[s].dep ELSE None,
                                  new |-> new, pc |-> pc]]

\* UpdatePostgres: guards on the row as read, then one UPDATE that writes
\* back every column but the status, deployment_config included.
BeginUpdate(h, s, name) ==
    /\ Read(h, "Update", s, name, "update")
    /\ svc[s].status \notin {"RUNNING", "STARTING"}
    /\ UNCHANGED <<grp, svc, box, joined, interrupted>>

\* Mutant: services.name without its UNIQUE index.
UpdateRejectedNoIndex(h) == ~Present(req[h].s)

UpdateRejected(h) == ~Present(req[h].s) \/ ~NameFree(req[h].s, req[h].new)

UpdatePostgres(h) ==
    /\ req[h].pc = "update"
    /\ \/ UpdateRejected(h) /\ UNCHANGED svc
       \/ /\ ~UpdateRejected(h)
          /\ svc' = [svc EXCEPT ![req[h].s].name = req[h].new, ![req[h].s].dep = req[h].dep]
    /\ Finish(h)
    /\ UNCHANGED <<grp, box, joined, interrupted>>

BeginDelete(h, s) ==
    /\ Read(h, "Delete", s, None, "delete")
    /\ svc[s].status \notin {"RUNNING", "STARTING", "STOPPING"}
    /\ UNCHANGED <<grp, svc, box, joined, interrupted>>

DeleteService(h) ==
    /\ req[h].pc = "delete"
    /\ \/ Referenced(req[h].s, Groups) /\ UNCHANGED svc
       \/ ~Referenced(req[h].s, Groups) /\ svc' = [svc EXCEPT ![req[h].s] = Deleted]
    /\ Finish(h)
    /\ UNCHANGED <<grp, box, joined, interrupted>>

-----------------------------------------------------------------------------
(* The start sequence, shared by StartPostgres and by the cold path of     *)
(* startManagedPostgresForCommitter.  It works on the row as first read.   *)

\* The groups on this container lose it, and it is an operator's decision.
Release(name) == joined' = [g \in Groups |-> IF joined[g] = name THEN None ELSE joined[g]]

StartPostgres(h, s) ==
    /\ Read(h, "Start", s, None, "starting")
    /\ Release(svc[s].name)
    /\ UNCHANGED <<grp, svc, box, interrupted>>

MarkStarting(h) ==
    /\ req[h].pc = "starting"
    /\ WriteStatus(req[h].s, "STARTING")
    /\ Goto(h, "remove")
    /\ UNCHANGED <<grp, box, joined, interrupted>>

\* Pull the image, ensure the network, force-remove the container of that
\* name (an error of the removal is dropped).
RemoveOld(h) ==
    /\ req[h].pc = "remove"
    /\ \/ box' = [box EXCEPT ![req[h].name] = NoBox] /\ Goto(h, "create")
       \/ "remove" \in CanFail /\ UNCHANGED box /\ \E l \in {"create", "error"} : Goto(h, l)
    /\ UNCHANGED <<grp, svc, joined, interrupted>>

\* ContainerCreate and ContainerStart: docker refuses a name in use.
Run(h) ==
    LET name == req[h].name IN
    /\ req[h].pc = "create"
    /\ \/ /\ box[name] = NoBox
          /\ box' = [box EXCEPT ![name] = [state |-> "up", nets |-> {NetworkOf(h)}]]
          /\ Goto(h, "ready")
       \/ /\ "start" \in CanFail /\ box[name] = NoBox
          /\ box' = [box EXCEPT ![name] = [state |-> "down", nets |-> {NetworkOf(h)}]]
          /\ Goto(h, "error")
       \/ /\ "create" \in CanFail \/ box[name] # NoBox
          /\ UNCHANGED box /\ Goto(h, "error")
    /\ UNCHANGED <<grp, svc, joined, interrupted>>

\* WaitReady: 30 seconds of pg_isready; the container stays when it fails.
WaitReady(h) ==
    LET name == req[h].name IN
    /\ req[h].pc = "ready"
    /\ \/ box[name].state = "up" /\ Goto(h, "persist")
       \/ ("ready" \in CanFail \/ box[name].state # "up") /\ Goto(h, "error")
    /\ UNCHANGED <<grp, svc, box, joined, interrupted>>

\* UpdateServiceDeploymentConfig: an error when the row is gone.
PersistEndpoint(h) ==
    /\ req[h].pc = "persist"
    /\ IF Present(req[h].s)
         THEN /\ svc' = [svc EXCEPT ![req[h].s].dep = req[h].name]
              /\ Goto(h, "running")
         ELSE Goto(h, "error") /\ UNCHANGED svc
    /\ UNCHANGED <<grp, box, joined, interrupted>>

MarkRunning(h) ==
    /\ req[h].pc = "running"
    /\ WriteStatus(req[h].s, "RUNNING")
    /\ interrupted' = interrupted \ {req[h].s}
    /\ \/ req[h].op = "GroupStart" /\ Goto(h, "resolve")
       \/ req[h].op = "Start" /\ Finish(h)
    /\ UNCHANGED <<grp, box, joined>>

\* Mutant: the error is returned without markServiceError.
ErrorStatusUnmarked(h) == svc[req[h].s].status

ErrorStatus(h) == "ERROR"

\* markServiceError, and the error goes up.
MarkServiceError(h) ==
    /\ req[h].pc = "error"
    /\ WriteStatus(req[h].s, ErrorStatus(h))
    /\ interrupted' = interrupted \ {req[h].s}
    /\ Finish(h)
    /\ UNCHANGED <<grp, box, joined>>

-----------------------------------------------------------------------------
(* POST /services/{id}/stop.  Errors of docker's stop and remove are       *)
(* dropped; only a client that cannot be built is an error.                *)

StopService(h, s) ==
    /\ Read(h, "Stop", s, None, "stopping")
    /\ Release(svc[s].name)
    /\ UNCHANGED <<grp, svc, box, interrupted>>

MarkStopping(h) ==
    /\ req[h].pc = "stopping"
    /\ WriteStatus(req[h].s, "STOPPING")
    /\ Goto(h, "halt")
    /\ UNCHANGED <<grp, box, joined, interrupted>>

StopContainer(h) ==
    /\ req[h].pc = "halt"
    /\ \/ box' = [box EXCEPT ![req[h].name] = NoBox] /\ Goto(h, "stopped")
       \/ "stop" \in CanFail /\ UNCHANGED box /\ \E l \in {"stopped", "error"} : Goto(h, l)
    /\ UNCHANGED <<grp, svc, joined, interrupted>>

MarkStopped(h) ==
    /\ req[h].pc = "stopped"
    /\ WriteStatus(req[h].s, "STOPPED")
    /\ interrupted' = interrupted \ {req[h].s}
    /\ Finish(h)
    /\ UNCHANGED <<grp, box, joined>>

-----------------------------------------------------------------------------
(* A committer group starts: prepareGroup finds the attached service and    *)
(* makes it reachable on the group's network.                              *)

ReadForGroup(h, op, g, s, pc) ==
    /\ Allowed(h, op) /\ grp[g].there /\ Attached(g, s)
    /\ req' = [req EXCEPT ![h] = [op |-> op, g |-> g, s |-> s, name |-> svc[s].name,
                                  dep |-> None, new |-> None, pc |-> pc]]

StartGroup(h, g, s) ==
    /\ ReadForGroup(h, "GroupStart", g, s, "inspect")
    /\ UNCHANGED <<grp, svc, box, joined, interrupted>>

\* Mutant: a container that is not running is taken for a running one.
FastPathCreated(name) == box[name] # NoBox

FastPath(name) == box[name].state = "up"

\* IsRunning: an inspect that fails reads as "not running".
IsRunning(h) ==
    LET name == req[h].name IN
    /\ req[h].pc = "inspect"
    /\ \/ FastPath(name) /\ Goto(h, "connect")
       \/ ("inspect" \in CanFail \/ ~FastPath(name)) /\ Goto(h, "starting")
    /\ UNCHANGED <<grp, svc, box, joined, interrupted>>

\* ConnectNetwork: inspects again, and is a no-op on a member.
ConnectNetwork(h) ==
    LET name == req[h].name IN
    /\ req[h].pc = "connect"
    /\ \/ /\ box[name] # NoBox
          /\ box' = [box EXCEPT ![name].nets = @ \cup {NetworkOf(h)}]
          /\ Goto(h, "resolve")
       \/ /\ "connect" \in CanFail \/ box[name] = NoBox
          /\ UNCHANGED box /\ Goto(h, "error")
    /\ UNCHANGED <<grp, svc, joined, interrupted>>

\* resolveManagedPostgres, and the role configs that PrepareCommitterStart
\* writes for the endpoint.
Resolve(h) ==
    /\ req[h].pc = "resolve"
    /\ joined' = [joined EXCEPT ![req[h].g] = req[h].name]
    /\ Finish(h)
    /\ UNCHANGED <<grp, svc, box, interrupted>>

(* A committer group stops: its network leaves the container.              *)

StopGroup(h, g, s) ==
    /\ ReadForGroup(h, "GroupStop", g, s, "disconnect")
    /\ joined' = [joined EXCEPT ![g] = None]
    /\ UNCHANGED <<grp, svc, box, interrupted>>

\* Mutant: the teardown of a group stops the container.
LeaveStopping(b, net) == NoBox

Leave(b, net) == [b EXCEPT !.nets = @ \ {net}]

DisconnectNetwork(h) ==
    LET name == req[h].name IN
    /\ req[h].pc = "disconnect"
    /\ \/ box' = [box EXCEPT ![name] = Leave(@, NetworkOf(h))]
       \/ "disconnect" \in CanFail /\ UNCHANGED box
    /\ Finish(h)
    /\ UNCHANGED <<grp, svc, joined, interrupted>>

-----------------------------------------------------------------------------
\* Between the first and the last status update of a service.
AtWork(h) == req[h].pc \in {"remove", "create", "ready", "persist", "running",
                            "error", "halt", "stopped"}

(* The client goes away or the process is killed; docker may have done half *)
(* of a two-call step: created and not started, stopped and not removed.    *)
Abort(h) ==
    LET name == req[h].name IN
    /\ MayAbort /\ req[h].pc # "idle"
    /\ \/ UNCHANGED box
       \/ /\ req[h].pc = "create" /\ box[name] = NoBox
          /\ box' = [box EXCEPT ![name] = [state |-> "down", nets |-> {NetworkOf(h)}]]
       \/ /\ req[h].pc = "halt" /\ box[name] # NoBox
          /\ box' = [box EXCEPT ![name].state = "down"]
    /\ interrupted' = interrupted \cup (IF AtWork(h) THEN {req[h].s} ELSE {})
    /\ Finish(h)
    /\ UNCHANGED <<grp, svc, joined>>

Begin(h) ==
    \/ \E s \in Services :
         \/ \E name \in Names : \/ CreatePostgres(h, s, name) \/ BeginUpdate(h, s, name)
                                \/ \E g \in Groups : CreatePostgresService(h, g, s, name)
         \/ \E g \in Groups : \/ AttachPostgresService(h, g, s)
                              \/ StartGroup(h, g, s) \/ StopGroup(h, g, s)
         \/ BeginDelete(h, s) \/ StartPostgres(h, s) \/ StopService(h, s)
    \/ \E g \in Groups : DetachPostgresService(h, g) \/ DeleteGroup(h, g)

Work(h) ==
    \/ Point(h) \/ UpdatePostgres(h) \/ DeleteService(h)
    \/ MarkStarting(h) \/ RemoveOld(h) \/ Run(h) \/ WaitReady(h) \/ PersistEndpoint(h)
    \/ MarkRunning(h) \/ MarkServiceError(h)
    \/ MarkStopping(h) \/ StopContainer(h) \/ MarkStopped(h)
    \/ IsRunning(h) \/ ConnectNetwork(h) \/ Resolve(h) \/ DisconnectNetwork(h)

Next == \E h \in Requests : Begin(h) \/ Work(h) \/ Abort(h)

Spec == Init /\ [][Next]_vars

-----------------------------------------------------------------------------
Pcs == {"idle", "point", "update", "delete", "starting", "remove", "create", "ready",
        "persist", "running", "error", "stopping", "halt", "stopped", "inspect",
        "connect", "resolve", "disconnect"}

Rows   == [status : Status \cup Gone, name : Names \cup {None},
           dep : Names \cup {None}, owner : Groups \cup {None}]
Boxes  == [state : {"none", "up", "down"}, nets : SUBSET Networks]
Locals == [op : AllOps \cup {"none"}, g : Groups \cup {None}, s : Services \cup {None},
           name : Names \cup {None}, dep : Names \cup {None}, new : Names \cup {None},
           pc : Pcs]

(* Every variable has its type; a row that is there has a name, and its     *)
(* container has been given no name of another kind.                        *)
TypeOK ==
    /\ grp \in [Groups -> [there : BOOLEAN, pg : Services \cup {None}]]
    /\ svc \in [Services -> Rows]
    /\ box \in [Names -> Boxes]
    /\ req \in [Requests -> Locals]
    /\ joined \in [Groups -> Names \cup {None}]
    /\ interrupted \subseteq Services
    /\ \A s \in Services : Present(s) <=> svc[s].name # None
    /\ \A n \in Names : box[n].state = "none" => box[n].nets = {}

(* A service is STARTING or STOPPING only while a request that will still   *)
(* write its final status is at work on it, or because one was cut off:     *)
(* every error path of the two start sequences and of Stop ends in a status *)
(* write, whatever other requests do to the row.                            *)
ServiceStatusOwned ==
    \A s \in Services : svc[s].status \in Transient =>
        \/ \E h \in Requests : AtWork(h) /\ req[h].s = s
        \/ s \in interrupted

(* A group never points at a service that is gone, in whatever order        *)
(* services and groups are created, attached and deleted; and two services  *)
(* never share a name, so never a container.                                *)
PointersResolve ==
    /\ \A g \in Groups : grp[g].pg # None => Present(grp[g].pg)
    /\ \A s, t \in Services : Present(s) /\ Present(t) /\ svc[s].name = svc[t].name => s = t

(* A running container goes as a whole only in a start or a stop of a        *)
(* service, and leaves a network only in the StopGroup of that network's    *)
(* group.                                                                  *)
KeepsNetworks ==
    \A n \in Names : box[n].state = "up" =>
        /\ box'[n].state # "up" =>
             \E h \in Requests : req[h].op \in {"Start", "Stop", "GroupStart"} /\ req[h] # req'[h]
        /\ box'[n].state = "up" =>
             \A net \in box[n].nets \ box'[n].nets :
                \E h \in Requests : req[h].op = "GroupStop" /\ req[h].g = net

(* A group's teardown is its own affair: a step takes a running container    *)
(* away from one of its networks only if it is the StopGroup of that very   *)
(* network's group, or removes the container as a whole; and no StopGroup   *)
(* removes one.                                                             *)
TeardownIsLocal == [][KeepsNetworks]_vars

-----------------------------------------------------------------------------
(* When requests do not overlap.                                           *)

Quiet == \A h \in Requests : req[h].pc = "idle"

(* A service reported RUNNING is: the container of its name is up, and its  *)
(* deployment_config names that container, whatever start, stop or update   *)
(* failed or was cut off before.                                            *)
RunningMeansServed ==
    Quiet => \A s \in Services : svc[s].status = "RUNNING" =>
                 box[svc[s].name].state = "up" /\ svc[s].dep = svc[s].name

(* A group whose StartGroup returned keeps reaching postgres on its network  *)
(* until it is stopped or an operator starts or stops the service by hand.  *)
SharedReachable ==
    Quiet => \A g \in Groups : joined[g] # None =>
                 box[joined[g]].state = "up" /\ g \in box[joined[g]].nets

-----------------------------------------------------------------------------
(* What comments of the repository say of the code.                        *)

(* nodegroups/service/service.go:753 "Called from prepareGroup before ... so *)
(* the resolved endpoint is available to resolveManagedPostgres": once the   *)
(* attached service is reachable, resolveManagedPostgres has an endpoint.    *)
EndpointResolved ==
    \A h \in Requests : req[h].pc = "resolve" /\ Attached(req[h].g, req[h].s) =>
        svc[req[h].s].dep # None
=============================================================================
