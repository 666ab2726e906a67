----------------------------- MODULE NodeGroups -----------------------------
(***************************************************************************)
(* Node groups of ChainLaunch and the coordinator that drives them         *)
(* (pkg/nodegroups/service, with the node service calls it makes).         *)
(*                                                                         *)
(* A node_groups row owns one child nodes row per role.  The HTTP server   *)
(* runs every request in a goroutine of its own and there is no lock per   *)
(* group or per node: two requests interleave between any two SQL          *)
(* statements or docker calls.  One SQL statement is atomic (the database  *)
(* has a single connection).  A request whose client goes away is          *)
(* cancelled: from then on each of its SQL and docker calls fails, so it   *)
(* changes nothing more.  A killed process does the same to all requests.  *)
(***************************************************************************)
EXTENDS Integers, Sequences, FiniteSets

CONSTANTS
    Groups,     \* ids a node_groups row can get (AUTOINCREMENT: never reused)
    Committers, \* the groups created with type FABRICX_COMMITTER
    NameOf,     \* the name each group is created with
    Roles,      \* child roles in the order StartGroup uses
    InitRoles,  \* child roles in the order InitOrdererGroup inserts them
    MaxNodes,   \* BOUND: rows ever inserted into nodes
    Requests,   \* BOUND: requests the server handles at the same time
    Ops,        \* BOUND: the operations each of those requests can be
    MayFail,    \* docker, disk and key-management calls can fail
    MayAbort,   \* a request can be cancelled, the process can be killed
    None

RoleSet   == {Roles[k] : k \in DOMAIN Roles}
Committer == "FABRICX_COMMITTER"
NodeIds   == 1..MaxNodes
AllOps    == {"Init", "Start", "Stop", "Restart", "AddCommitter",
              "NodeStart", "NodeStop", "NodeDelete", "GroupDelete"}

ASSUME ConstantsAssumption ==
    /\ Committers \subseteq Groups
    /\ NameOf \in [Groups -> STRING]
    /\ Roles \in Seq(STRING) /\ InitRoles \in Seq(STRING)
    /\ Committer \notin RoleSet
    /\ {InitRoles[k] : k \in DOMAIN InitRoles} = RoleSet
    /\ MaxNodes \in Nat
    /\ Ops \in [Requests -> SUBSET AllOps]
    /\ MayFail \in BOOLEAN /\ MayAbort \in BOOLEAN
    /\ None \notin NodeIds /\ None \notin Groups /\ None \notin Requests

\* The orderer roles are four different node types.
ASSUME RolesDistinct == \A j, k \in DOMAIN Roles : Roles[j] = Roles[k] => j = k

VARIABLES
    grp,         \* node_groups rows: status, and the Init that wrote deployment_config
    node,        \* nodes rows that belong to a group
    lastNode,    \* last id handed out by nodes' AUTOINCREMENT
    up,          \* names of the role containers docker is running
    req,         \* local state of each request in flight
    interrupted  \* history: rows a lifecycle request left when it was cut off

vars == <<grp, node, lastNode, up, req, interrupted>>

GroupStatus == {"CREATED", "STARTING", "RUNNING", "STOPPING", "STOPPED", "ERROR"}
NodeStatus  == GroupStatus \cup {"PENDING"}
Gone        == {"unborn", "deleted"}

Exists(g)  == grp[g].status \notin Gone
Present(n) == node[n].status # "absent"

\* The members of interrupted.
GroupRow(g) == <<"node_groups", g>>
NodeRow(n)  == <<"nodes", n>>

\* The docker container name, and the nodes.slug, of a role of a group.
Slug(g, role) == <<NameOf[g], role>>
SlugOf(row)   == Slug(row.group, row.role)

NoNode == [group |-> None, role |-> "none", linked |-> FALSE,
           dep |-> None, status |-> "absent"]
Idle   == [op |-> "none", g |-> None, n |-> None, row |-> NoNode, pc |-> "idle",
           verb |-> "none", i |-> 1, kids |-> [r \in RoleSet |-> None],
           dep |-> FALSE, ok |-> TRUE, err |-> FALSE]

Init ==
    /\ grp = [g \in Groups |-> [status |-> "unborn", dep |-> None]]
    /\ node = [n \in NodeIds |-> NoNode]
    /\ lastNode = 0
    /\ up = {}
    /\ req = [h \in Requests |-> Idle]
    /\ interrupted = {}

-----------------------------------------------------------------------------
(* SQL statements.  An UPDATE of a row that is gone changes nothing.       *)

WriteGroup(g, s) ==
    grp' = [grp EXCEPT ![g].status = IF @ \in Gone THEN @ ELSE s]

\* Mutant: an upsert instead of an UPDATE.
WriteNodeUpsert(n, s) == node' = [node EXCEPT ![n].status = s]

WriteNode(n, s) ==
    node' = [node EXCEPT ![n].status = IF @ = "absent" THEN @ ELSE s]

\* ListNodesByGroup, indexed by node type as StartGroup and StopGroup do.
Children(g) ==
    [r \in RoleSet |->
        LET rows == {n \in NodeIds : /\ Present(n) /\ node[n].linked
                                     /\ node[n].group = g /\ node[n].role = r}
        IN  IF rows = {} THEN None ELSE CHOOSE n \in rows : \A m \in rows : m <= n]

\* Mutant: nodes.slug without its UNIQUE index.
SlugTakenNoIndex(g, role) == FALSE

SlugTaken(g, role) == \E n \in NodeIds : Present(n) /\ SlugOf(node[n]) = Slug(g, role)

Finish(h) == req' = [req EXCEPT ![h] = Idle]

-----------------------------------------------------------------------------
(* POST /node-groups: names are UNIQUE among the existing rows.            *)

CreateGroup(g) ==
    /\ grp[g].status = "unborn"
    /\ \A k \in Groups : Exists(k) => NameOf[k] # NameOf[g]
    /\ grp' = [grp EXCEPT ![g].status = "CREATED"]
    /\ UNCHANGED <<node, lastNode, up, req, interrupted>>

(* DELETE /node-groups/{id}: one DELETE; nodes.node_group_id is declared   *)
(* ON DELETE CASCADE, so the linked child rows go with it.  No container   *)
(* is touched.                                                             *)
DeleteGroup(g) ==
    /\ \E h \in Requests : "GroupDelete" \in Ops[h]
    /\ Exists(g)
    /\ grp' = [grp EXCEPT ![g] = [status |-> "deleted", dep |-> None]]
    /\ node' = [n \in NodeIds |->
                  IF node[n].linked /\ node[n].group = g THEN NoNode ELSE node[n]]
    /\ UNCHANGED <<lastNode, up, req, interrupted>>

-----------------------------------------------------------------------------
(* InitOrdererGroup: guards on a snapshot, key generation, then one row    *)
(* per role in three statements each.  An error returns at once and        *)
(* leaves behind what was already written.                                 *)

BeginInit(h, g) ==
    /\ "Init" \in Ops[h] /\ req[h].pc = "idle"
    /\ Exists(g) /\ g \notin Committers /\ grp[g].dep = None
    /\ \A n \in NodeIds : ~(node[n].linked /\ node[n].group = g)
    /\ req' = [req EXCEPT ![h] = [Idle EXCEPT !.op = "Init", !.g = g, !.pc = "generate"]]
    /\ UNCHANGED <<grp, node, lastNode, up, interrupted>>

\* og.Init(): keys, certificates and files; a failure marks the group ERROR.
Generate(h) ==
    /\ req[h].pc = "generate"
    /\ \/ /\ req' = [req EXCEPT ![h].pc = "persist"]
          /\ UNCHANGED <<grp, interrupted>>
       \/ /\ MayFail
          /\ WriteGroup(req[h].g, "ERROR")
          /\ interrupted' = interrupted \ {GroupRow(req[h].g)}
          /\ Finish(h)
    /\ UNCHANGED <<node, lastNode, up>>

\* UpdateNodeGroup with the new deployment_config; the row may be gone.
Persist(h) ==
    /\ req[h].pc = "persist"
    /\ IF Exists(req[h].g)
         THEN /\ grp' = [grp EXCEPT ![req[h].g].dep = h]
              /\ req' = [req EXCEPT ![h].pc = "insert"]
         ELSE Finish(h) /\ UNCHANGED grp
    /\ UNCHANGED <<node, lastNode, up, interrupted>>

\* The role whose row the request inserts now.
NewRole(h) == IF req[h].op = "Init" THEN InitRoles[req[h].i] ELSE Committer

\* The unique index on nodes.slug rejects a second row for the same role; at
\* the bound on rows the INSERT fails too.
InsertRejected(h) == SlugTaken(req[h].g, NewRole(h)) \/ lastNode = MaxNodes

\* CreateNode: status CREATED for a role, PENDING for a committer.
InsertRow(h) ==
    /\ req[h].pc = "insert"
    /\ IF (req[h].op = "Init" /\ req[h].i > Len(InitRoles)) \/ InsertRejected(h)
         THEN Finish(h) /\ UNCHANGED <<node, lastNode>>
         ELSE /\ lastNode' = lastNode + 1
              /\ node' = [node EXCEPT ![lastNode + 1] =
                            [group |-> req[h].g, role |-> NewRole(h), linked |-> FALSE,
                             dep |-> None,
                             status |-> IF req[h].op = "Init" THEN "CREATED" ELSE "PENDING"]]
              /\ req' = [req EXCEPT ![h].n = lastNode + 1,
                           ![h].pc = IF req[h].op = "Init" THEN "config" ELSE "initNode"]
    /\ UNCHANGED <<grp, up, interrupted>>

\* UpdateNodeDeploymentConfig: an error when the row is gone.
ConfigRow(h) ==
    /\ req[h].pc = "config"
    /\ IF Present(req[h].n)
         THEN /\ node' = [node EXCEPT ![req[h].n].dep = h]
              /\ req' = [req EXCEPT ![h].pc = "link"]
         ELSE Finish(h) /\ UNCHANGED node
    /\ UNCHANGED <<grp, lastNode, up, interrupted>>

\* Mutant: a connection without _foreign_keys=on.
LinkRejectedNoFK(h) == FALSE

\* UpdateNodeGroupID: the foreign key rejects a group that is gone; a row
\* that is gone is no error (:exec).
LinkRejected(h) == Present(req[h].n) /\ ~Exists(req[h].g)

LinkRow(h) ==
    /\ req[h].pc = "link"
    /\ IF LinkRejected(h)
         THEN Finish(h) /\ UNCHANGED node
         ELSE /\ node' = [node EXCEPT ![req[h].n].linked = Present(req[h].n)]
              /\ req' = [req EXCEPT ![h].pc = IF req[h].op = "Init" THEN "insert" ELSE "created",
                           ![h].i = @ + 1]
    /\ UNCHANGED <<grp, lastNode, up, interrupted>>

-----------------------------------------------------------------------------
(* CreateNode of a FABRICX_COMMITTER child under a group: the row is       *)
(* inserted PENDING, initialised (rolled back on failure), linked, and     *)
(* left STOPPED until it joins a network.  Nothing checks the group before *)
(* the link statement does.                                                *)

BeginAddCommitter(h, g) ==
    /\ "AddCommitter" \in Ops[h] /\ req[h].pc = "idle"
    /\ grp[g].status # "unborn"
    /\ ~SlugTaken(g, Committer)
    /\ req' = [req EXCEPT ![h] = [Idle EXCEPT !.op = "AddCommitter", !.g = g, !.pc = "insert"]]
    /\ UNCHANGED <<grp, node, lastNode, up, interrupted>>

InitNode(h) ==
    /\ req[h].pc = "initNode"
    /\ \/ req' = [req EXCEPT ![h].pc = "config"] /\ UNCHANGED node
       \/ /\ MayFail
          /\ node' = [node EXCEPT ![req[h].n] = NoNode]
          /\ Finish(h)
    /\ UNCHANGED <<grp, lastNode, up, interrupted>>

CommitterCreated(h) ==
    /\ req[h].pc = "created"
    /\ WriteNode(req[h].n, "STOPPED")
    /\ interrupted' = interrupted \ {NodeRow(req[h].n)}
    /\ Finish(h)
    /\ UNCHANGED <<grp, lastNode, up>>

-----------------------------------------------------------------------------
(* StartGroup.  The row is read and marked STARTING; the deployment_config *)
(* read then is the one prepareGroup uses.                                 *)

BeginStart(h, g, op) ==
    /\ grp' = [grp EXCEPT ![g].status = "STARTING"]
    /\ req' = [req EXCEPT ![h] = [Idle EXCEPT !.op = op, !.g = g, !.pc = "prepare",
                                              !.verb = "start", !.dep = grp[g].dep # None]]
    /\ UNCHANGED <<node, lastNode, up, interrupted>>

StartGroup(h, g) ==
    /\ "Start" \in Ops[h] /\ req[h].pc = "idle" /\ Exists(g)
    /\ BeginStart(h, g, "Start")

\* prepareGroup; a failure marks the group ERROR.
Prepare(h) ==
    /\ req[h].pc = "prepare"
    /\ \/ /\ req[h].dep
          /\ req' = [req EXCEPT ![h].pc = "list"]
          /\ UNCHANGED <<grp, interrupted>>
       \/ /\ MayFail \/ ~req[h].dep
          /\ WriteGroup(req[h].g, "ERROR")
          /\ interrupted' = interrupted \ {GroupRow(req[h].g)}
          /\ Finish(h)
    /\ UNCHANGED <<node, lastNode, up>>

(* StopGroup.  The row is marked STOPPING, then the children are listed and *)
(* stopped in reverse order.                                               *)

BeginStop(h, g, op) ==
    /\ grp' = [grp EXCEPT ![g].status = "STOPPING"]
    /\ req' = [req EXCEPT ![h] = [Idle EXCEPT !.op = op, !.g = g, !.pc = "list",
                                              !.verb = "stop"]]
    /\ UNCHANGED <<node, lastNode, up, interrupted>>

StopGroup(h, g) ==
    /\ "Stop" \in Ops[h] /\ req[h].pc = "idle" /\ Exists(g)
    /\ BeginStop(h, g, "Stop")

(* RestartGroup: a stop, a pause, a start; the start reads the row again.  *)

RestartGroup(h, g) ==
    /\ "Restart" \in Ops[h] /\ req[h].pc = "idle" /\ Exists(g)
    /\ BeginStop(h, g, "Restart")

RestartStart(h) ==
    /\ req[h].pc = "paused"
    /\ IF Exists(req[h].g)
         THEN BeginStart(h, req[h].g, "Restart")
         ELSE Finish(h) /\ UNCHANGED <<grp, node, lastNode, up, interrupted>>

(* The fan-out: StartNode or StopNode on each child of the list as it was. *)

List(h) ==
    /\ req[h].pc = "list"
    /\ req' = [req EXCEPT ![h].kids = Children(req[h].g), ![h].pc = "child"]
    /\ UNCHANGED <<grp, node, lastNode, up, interrupted>>

\* Mutant: a stop in the order of a start.
RoleNowForward(h) == Roles[req[h].i]

RoleNow(h) == IF req[h].verb = "start" THEN Roles[req[h].i]
                                       ELSE Roles[Len(Roles) + 1 - req[h].i]

Transient(verb) == IF verb = "start" THEN "STARTING" ELSE "STOPPING"
Settled(verb)   == IF verb = "start" THEN "RUNNING" ELSE "STOPPED"

\* Mutant: the loop does not go on to the next role.
SkipChildStays(h) ==
    /\ req[h].pc = "child" /\ req[h].i <= Len(Roles)
    /\ req[h].kids[RoleNow(h)] = None
    /\ UNCHANGED vars

\* A role without a row is skipped.
SkipChild(h) ==
    /\ req[h].pc = "child" /\ req[h].i <= Len(Roles)
    /\ req[h].kids[RoleNow(h)] = None
    /\ req' = [req EXCEPT ![h].i = @ + 1]
    /\ UNCHANGED <<grp, node, lastNode, up, interrupted>>

\* GetNode and the first status update of StartNode and StopNode; a row
\* that is gone is an error of this child.
MarkChild(h) ==
    LET n == req[h].kids[RoleNow(h)] IN
    /\ req[h].pc = "child" /\ req[h].i <= Len(Roles)
    /\ n # None
    /\ IF Present(n)
         THEN /\ WriteNode(n, Transient(req[h].verb))
              /\ req' = [req EXCEPT ![h].n = n, ![h].row = node[n], ![h].pc = "effect"]
         ELSE /\ req' = [req EXCEPT ![h].i = @ + 1, ![h].err = TRUE]
              /\ UNCHANGED node
    /\ UNCHANGED <<grp, lastNode, up, interrupted>>

\* Mutants: a start that met an error returns before its last update; the
\* error of a child is forgotten.
FinalStatusEarlyReturn(h) == IF req[h].verb = "stop" THEN "STOPPED"
                             ELSE IF req[h].err THEN grp[req[h].g].status ELSE "RUNNING"
FinalStatusNoErr(h)  == Settled(req[h].verb)

\* A start that met an error ends in ERROR; a stop ends in STOPPED whatever
\* its children did.
FinalStatus(h) == IF req[h].verb = "stop" THEN "STOPPED"
                  ELSE IF req[h].err THEN "ERROR" ELSE "RUNNING"

EndGroup(h) ==
    /\ req[h].pc = "child" /\ req[h].i > Len(Roles)
    /\ WriteGroup(req[h].g, FinalStatus(h))
    /\ interrupted' = interrupted \ {GroupRow(req[h].g)}
    /\ IF req[h].op = "Restart" /\ req[h].verb = "stop"
         THEN req' = [req EXCEPT ![h] = [Idle EXCEPT !.op = "Restart", !.g = req[h].g,
                                                     !.pc = "paused"]]
         ELSE Finish(h)
    /\ UNCHANGED <<node, lastNode, up>>

-----------------------------------------------------------------------------
(* The node service, on behalf of a group request or of POST               *)
(* /nodes/{id}/start, /stop and DELETE /nodes/{id}.                        *)

MarkNode(h, n, op, verb) ==
    /\ WriteNode(n, Transient(verb))
    /\ req' = [req EXCEPT ![h] = [Idle EXCEPT !.op = op, !.n = n, !.row = node[n],
                                              !.pc = "effect", !.verb = verb]]

BeginNodeOp(h, n, op, verb) ==
    /\ op \in Ops[h] /\ req[h].pc = "idle" /\ Present(n)
    /\ MarkNode(h, n, op, verb)
    /\ UNCHANGED <<grp, lastNode, up, interrupted>>

StartNode(h, n) == BeginNodeOp(h, n, "NodeStart", "start")
StopNode(h, n)  == BeginNodeOp(h, n, "NodeStop", "stop")

\* DeleteNode stops the node only if the row it read says RUNNING.
StopsFirst(row) == row.status = "RUNNING"

DeleteNode(h, n) ==
    /\ "NodeDelete" \in Ops[h] /\ req[h].pc = "idle" /\ Present(n)
    /\ req' = [req EXCEPT ![h] = [Idle EXCEPT !.op = "NodeDelete", !.n = n,
                  !.row = node[n],
                  !.pc = IF StopsFirst(node[n]) THEN "stopFirst" ELSE "remove"]]
    /\ UNCHANGED <<grp, node, lastNode, up, interrupted>>

\* A failure of this stop is logged and the deletion goes on.
StopFirst(h) ==
    /\ req[h].pc = "stopFirst"
    /\ IF Present(req[h].n)
         THEN MarkNode(h, req[h].n, "NodeDelete", "stop")
         ELSE req' = [req EXCEPT ![h].pc = "remove"] /\ UNCHANGED node
    /\ UNCHANGED <<grp, lastNode, up, interrupted>>

\* cleanupNodeResources stops the containers of a committer; for a child
\* role it does nothing.  Then the row is deleted.
RemoveNode(h) ==
    /\ req[h].pc = "remove"
    /\ \/ req[h].row.role = Committer /\ up' = up \ {SlugOf(req[h].row)}
       \/ (MayFail \/ req[h].row.role # Committer) /\ UNCHANGED up
    /\ node' = [node EXCEPT ![req[h].n] = NoNode]
    /\ interrupted' = interrupted \ {NodeRow(req[h].n)}
    /\ Finish(h)
    /\ UNCHANGED <<grp, lastNode>>

(* What startNode and StopNode do to the container of the row they read.   *)
(* The start replaces any container of that name; a failed start may leave *)
(* the old one, none, or one that comes up late.  Stop and remove errors   *)
(* of docker are dropped, so a stop that did nothing still succeeds.       *)

\* The configuration a start or stop needs: the row's own, and for a role
\* the deployment_config of the group row as it is now.
Configured(row) ==
    /\ row.dep # None
    /\ row.role # Committer => grp[row.group].dep # None

Outcome(h, ok, running) ==
    /\ up' = IF running THEN up \cup {SlugOf(req[h].row)} ELSE up \ {SlugOf(req[h].row)}
    /\ req' = [req EXCEPT ![h].ok = ok, ![h].pc = "settle"]

Effect(h) ==
    LET running == SlugOf(req[h].row) \in up IN
    /\ req[h].pc = "effect"
    /\ \/ ~Configured(req[h].row) /\ Outcome(h, FALSE, running)
       \/ /\ Configured(req[h].row)
          /\ \/ Outcome(h, TRUE, req[h].verb = "start")
             \/ /\ MayFail /\ req[h].verb = "start"
                /\ \E late \in BOOLEAN : Outcome(h, FALSE, late)
             \/ MayFail /\ req[h].verb = "stop" /\ \E ok \in BOOLEAN : Outcome(h, ok, running)
    /\ UNCHANGED <<grp, node, lastNode, interrupted>>

\* Mutant: no update after an error.
NodeFinalNoErr(h) == IF req[h].ok THEN Settled(req[h].verb) ELSE Transient(req[h].verb)

NodeFinal(h) == IF req[h].ok THEN Settled(req[h].verb) ELSE "ERROR"

\* The last status update of startNode and StopNode.  A row that is gone
\* makes a start that succeeded an error for its caller.
Settle(h) ==
    LET n == req[h].n IN
    /\ req[h].pc = "settle"
    /\ WriteNode(n, NodeFinal(h))
    /\ interrupted' = interrupted \ {NodeRow(n)}
    /\ \/ /\ req[h].g # None
          /\ req' = [req EXCEPT ![h].pc = "child", ![h].i = @ + 1, ![h].n = None,
                       ![h].row = NoNode, ![h].ok = TRUE,
                       ![h].err = @ \/ ~req[h].ok \/ ~Present(n)]
       \/ /\ req[h].g = None /\ req[h].op = "NodeDelete"
          /\ req' = [req EXCEPT ![h].pc = "remove"]
       \/ /\ req[h].g = None /\ req[h].op # "NodeDelete"
          /\ Finish(h)
    /\ UNCHANGED <<grp, lastNode, up>>

-----------------------------------------------------------------------------
\* A request between the first and the last status update of a row.
OnGroup(h) == req[h].g # None /\ req[h].pc \in {"prepare", "list", "child", "effect", "settle"}
OnNode(h)  == req[h].pc \in {"effect", "settle"}

(* The client goes away, or the process is killed: docker may be anywhere   *)
(* between the calls of a start (remove, create) or of a stop.             *)

Abort(h) ==
    /\ MayAbort /\ req[h].pc # "idle"
    /\ LET slug == SlugOf(req[h].row) IN
          \/ UNCHANGED up
          \/ req[h].pc = "effect" /\ Configured(req[h].row) /\ up' = up \ {slug}
          \/ /\ req[h].pc = "effect" /\ Configured(req[h].row)
             /\ req[h].verb = "start" /\ up' = up \cup {slug}
    /\ interrupted' = interrupted
         \cup (IF OnGroup(h) THEN {GroupRow(req[h].g)} ELSE {})
         \cup (IF OnNode(h) THEN {NodeRow(req[h].n)} ELSE {})
    /\ Finish(h)
    /\ UNCHANGED <<grp, node, lastNode>>

Begin(h) ==
    \/ \E g \in Groups : \/ BeginInit(h, g) \/ BeginAddCommitter(h, g)
                         \/ StartGroup(h, g) \/ StopGroup(h, g) \/ RestartGroup(h, g)
    \/ \E n \in NodeIds : StartNode(h, n) \/ StopNode(h, n) \/ DeleteNode(h, n)

Work(h) ==
    \/ Generate(h) \/ Persist(h) \/ InsertRow(h) \/ ConfigRow(h) \/ LinkRow(h)
    \/ InitNode(h) \/ CommitterCreated(h)
    \/ Prepare(h) \/ RestartStart(h) \/ List(h)
    \/ SkipChild(h) \/ MarkChild(h) \/ EndGroup(h)
    \/ StopFirst(h) \/ Effect(h) \/ Settle(h) \/ RemoveNode(h)

Next ==
    \/ \E g \in Groups : CreateGroup(g) \/ DeleteGroup(g)
    \/ \E h \in Requests : Begin(h) \/ Work(h) \/ Abort(h)

Spec == Init /\ [][Next]_vars

(* A goroutine that can go on does: the Go scheduler and the timeouts of   *)
(* the docker calls (10s stop, 30s wait) justify weak fairness of Work.    *)
FairSpec == Spec /\ \A h \in Requests : WF_vars(Work(h))

-----------------------------------------------------------------------------
Pcs == {"idle", "generate", "persist", "insert", "config", "link", "initNode",
        "created", "prepare", "list", "child", "effect", "settle", "paused",
        "stopFirst", "remove"}

Rows == [group : Groups, role : RoleSet \cup {Committer}, linked : BOOLEAN,
         dep : Requests \cup {None}, status : NodeStatus] \cup {NoNode}

Locals == [op : AllOps \cup {"none"}, g : Groups \cup {None}, n : NodeIds \cup {None},
           row : Rows, pc : Pcs, verb : {"none", "start", "stop"}, i : Nat \ {0},
           kids : [RoleSet -> NodeIds \cup {None}],
           dep : BOOLEAN, ok : BOOLEAN, err : BOOLEAN]

(* Every variable has its type; ids above the last one handed out have no   *)
(* row, and a group without a row has no configuration.                     *)
TypeOK ==
    /\ grp \in [Groups -> [status : GroupStatus \cup Gone, dep : Requests \cup {None}]]
    /\ node \in [NodeIds -> Rows]
    /\ lastNode \in 0..MaxNodes
    /\ up \subseteq {Slug(g, role) : g \in Groups, role \in RoleSet \cup {Committer}}
    /\ req \in [Requests -> Locals]
    /\ \A n \in NodeIds : Present(n) => n <= lastNode
    /\ \A g \in Groups : ~Exists(g) => grp[g].dep = None

(* A group is STARTING or STOPPING only while a request that wrote it is    *)
(* still at work, or because one was cut off: every error path of           *)
(* StartGroup and StopGroup writes a final status, and no interleaving of   *)
(* two requests leaves a transient status behind.                           *)
GroupStatusOwned ==
    \A g \in Groups, v \in {"start", "stop"} :
        grp[g].status = Transient(v) =>
            \/ \E h \in Requests : OnGroup(h) /\ req[h].g = g /\ req[h].verb = v
            \/ GroupRow(g) \in interrupted

(* The same of a node row and of startNode and StopNode.                    *)
NodeStatusOwned ==
    \A n \in NodeIds, v \in {"start", "stop"} :
        node[n].status = Transient(v) =>
            \/ \E h \in Requests : OnNode(h) /\ req[h].n = n /\ req[h].verb = v
            \/ NodeRow(n) \in interrupted

(* A child row is linked to a group only when it can be started: it has its *)
(* own deployment_config, its group is there, and a role child's group has  *)
(* its deployment_config.  InitOrdererGroup and CreateNode write the three  *)
(* in separate statements that others interleave with, and can fail between *)
(* them.                                                                    *)
LinkedChildComplete ==
    \A n \in NodeIds : node[n].linked =>
        /\ node[n].dep # None
        /\ Exists(node[n].group)
        /\ node[n].role # Committer => grp[node[n].group].dep # None

(* Two Init requests of one group, or two creations of one committer, never *)
(* leave a group with two children of one type: StartGroup and StopGroup    *)
(* would each drive only one of them.                                       *)
OneChildPerRole ==
    \A m, n \in NodeIds :
        /\ node[m].linked /\ node[n].linked
        /\ node[m].group = node[n].group /\ node[m].role = node[n].role
        => m = n

(* A request that writes the status of a row deleted under it does not      *)
(* bring the row back.                                                      *)
NoResurrection ==
    [][ /\ \A g \in Groups : grp[g].status = "deleted" => grp'[g].status = "deleted"
        /\ \A n \in 1..lastNode : ~Present(n) => node'[n] = NoNode ]_vars

-----------------------------------------------------------------------------
(* When requests do not overlap, whatever failed or was cut off before.     *)

RoleChild(n, g) == node[n].linked /\ node[n].group = g /\ node[n].role # Committer

(* A group reported RUNNING has every role child RUNNING with its container *)
(* up: the status that StartGroup writes is the truth.                      *)
RunningMeansUp ==
    \A g \in Groups : grp[g].status = "RUNNING" =>
        \A n \in NodeIds : RoleChild(n, g) =>
            node[n].status = "RUNNING" /\ SlugOf(node[n]) \in up

(* A role is not reported RUNNING while a role it depends on is stopped or  *)
(* was never started: StartGroup follows the canonical order, StopGroup the *)
(* reverse one ("so sidecar/router drain before coordinator/consenter"),    *)
(* and a stop or a start cut off half way keeps to it.                      *)
DependencyOrder ==
    \A g \in Groups : \A m, n \in {c \in NodeIds : RoleChild(c, g)} :
        /\ \E j, k \in DOMAIN Roles : j < k /\ node[m].role = Roles[j] /\ node[n].role = Roles[k]
        /\ node[n].status = "RUNNING"
        => node[m].status \notin {"CREATED", "STOPPED"}

-----------------------------------------------------------------------------
(* Every request comes to its end, whatever other requests do to the rows   *)
(* it works on.                                                             *)
EveryRequestEnds == \A h \in Requests : req[h].pc # "idle" ~> req[h].pc = "idle"

(* A group does not stay STARTING or STOPPING unless its request was cut    *)
(* off.                                                                     *)
GroupSettles ==
    \A g \in Groups :
        grp[g].status \in {"STARTING", "STOPPING"} ~>
            \/ grp[g].status \notin {"STARTING", "STOPPING"}
            \/ GroupRow(g) \in interrupted

-----------------------------------------------------------------------------
(* What comments and documents of the repository say of the code.          *)

(* nodegroups/service/init_orderer.go:43 "Idempotency: if the group already  *)
(* has deployment_config set and children exist, Init returns an error": the *)
(* configuration of a group, with its keys, is written once                  *)
(* (nodes/fabricx/orderergroup.go:82).                                       *)
InitOnce ==
    [][ \A g \in Groups : grp[g].dep # None /\ Exists(g)' => grp'[g].dep = grp[g].dep ]_vars

=============================================================================
