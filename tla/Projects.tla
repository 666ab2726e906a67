------------------------------ MODULE Projects ------------------------------
(***************************************************************************)
(* Chaincode projects (pkg/scai/projects, pkg/scai/projectrunner): a row   *)
(* per project, and the container that runs its code, found by its name    *)
(* when it is replaced and by the id in the row when it is stopped.  On a  *)
(* Fabric network each organization approves a package with the address    *)
(* before the container exists, and a commit puts what was approved in     *)
(* force.  Requests work without a lock, and no step is ever undone.       *)
(***************************************************************************)
EXTENDS Integers, FiniteSets

CONSTANTS
    ProjectIds,   \* projects
    PeerOrgs,     \* organizations of a channel, each with a peer
    ProjectCalls, \* BOUND: requests handled at the same time
    RunnerPorts,  \* BOUND: the ports tried from 40000 on
    Containers    \* BOUND: ids docker gives to containers

ASSUME ProjectsAssumption ==
    /\ "none" \notin ProjectIds \cup Containers
    /\ RunnerPorts \subseteq Nat \ {0}

VARIABLES
    prow,     \* chaincode_projects rows
    slot,     \* external: the container of the project's name
    approved, \* external: the port each organization approved for the next definition
    channel,  \* external: the port its peers dial under the definition in force
    trusted,  \* history: no call overlapped or failed since one that ended well
    heard,    \* history: organizations whose approval the last start saw go through
    pcall     \* local state of each request

projectVars == <<prow, slot, approved, channel, trusted, heard, pcall>>

Unborn   == [row |-> "unborn", fabric |-> FALSE, talks |-> FALSE,
             status |-> "none", cid |-> "none", port |-> 0]
NoPort   == [o \in PeerOrgs |-> 0]
NoSlot   == [id |-> "none", port |-> 0, up |-> FALSE]
CallNone == [p |-> "none", op |-> "none", pc |-> "idle", alone |-> TRUE,
             port |-> 0, id |-> "none", asked |-> {}]

ProjectsTypeOK ==
    /\ prow \in [ProjectIds ->
          [row : {"unborn", "present", "deleted"}, fabric : BOOLEAN, talks : BOOLEAN,
           status : {"none", "running", "stopped"},
           cid : Containers \cup {"none"}, port : RunnerPorts \cup {0}]]
    /\ slot \in [ProjectIds ->
          [id : Containers \cup {"none"}, port : RunnerPorts \cup {0}, up : BOOLEAN]]
    /\ {approved, channel} \subseteq [ProjectIds -> [PeerOrgs -> RunnerPorts \cup {0}]]
    /\ trusted \in [ProjectIds -> BOOLEAN] /\ heard \in [ProjectIds -> SUBSET PeerOrgs]
    /\ pcall \in [ProjectCalls ->
          [p : ProjectIds \cup {"none"}, op : {"none", "start", "stop", "delete"},
           pc : {"idle", "port", "approve", "inspect", "remove", "create", "start",
                 "running", "read", "halt", "stopped", "poststop", "row"},
           alone : BOOLEAN, port : RunnerPorts \cup {0}, id : Containers \cup {"none"},
           asked : SUBSET PeerOrgs]]

ProjectsInit ==
    /\ prow = [p \in ProjectIds |-> Unborn]
    /\ slot = [p \in ProjectIds |-> NoSlot]
    /\ approved = [p \in ProjectIds |-> NoPort] /\ channel = approved
    /\ trusted = [p \in ProjectIds |-> TRUE] /\ heard = [p \in ProjectIds |-> {}]
    /\ pcall = [r \in ProjectCalls |-> CallNone]

-----------------------------------------------------------------------------
\* "talks": the default conversation, whose failure is only logged.
CreateProject(p, fabric, talks) ==
    /\ prow[p].row = "unborn"
    /\ prow' = [prow EXCEPT ![p] =
           [row |-> "present", fabric |-> fabric, talks |-> talks,
            status |-> "none", cid |-> "none", port |-> 0]]
    /\ UNCHANGED <<slot, approved, channel, trusted, heard, pcall>>

\* The handler's GetProject; a delete stops first.
BeginProjectCall(r, op, p) ==
    LET busy == \E k \in ProjectCalls \ {r} : pcall[k].p = p IN
    /\ pcall[r].pc = "idle"
    /\ prow[p].row = "present"
    /\ pcall' = [k \in ProjectCalls |->
           IF k = r
           THEN [p |-> p, op |-> op, alone |-> ~busy, port |-> 0, id |-> "none", asked |-> {},
                 pc |-> IF op = "start" THEN "port" ELSE "read"]
           ELSE IF pcall[k].p = p THEN [pcall[k] EXCEPT !.alone = FALSE] ELSE pcall[k]]
    /\ trusted' = [trusted EXCEPT ![p] = @ /\ ~busy]
    /\ UNCHANGED <<prow, slot, approved, channel, heard>>

ProjectStep(r, pc) == pcall' = [pcall EXCEPT ![r].pc = pc]
EndProjectCall(r)  == pcall' = [pcall EXCEPT ![r] = CallNone]
Earned(r)          == trusted' = [trusted EXCEPT ![pcall[r].p] = @ \/ pcall[r].alone]

\* Any step fails, the client goes away or the server stops: the call returns as
\* it is.  A delete only logs the error of its stop and goes on.
ProjectCallFails(r) ==
    /\ pcall[r].pc # "idle"
    /\ trusted' = [trusted EXCEPT ![pcall[r].p] = FALSE]
    /\ \/ EndProjectCall(r)
       \/ pcall[r].op = "delete" /\ pcall[r].pc # "row" /\ ProjectStep(r, "row")
    /\ UNCHANGED <<prow, slot, approved, channel, heard>>

-----------------------------------------------------------------------------
(* Start.                                                                  *)

Bound(port) == \E p \in ProjectIds : slot[p].up /\ slot[p].port = port

\* The first port that can be listened on; the listener is closed again.
FindAvailablePort(r) ==
    /\ pcall[r].pc = "port"
    /\ prow[pcall[r].p].row = "present"
    /\ \E port \in RunnerPorts :
           /\ ~Bound(port)
           /\ \A lower \in RunnerPorts : lower < port => Bound(lower)
           /\ pcall' = [pcall EXCEPT ![r].port = port,
                                     ![r].pc = IF prow[pcall[r].p].fabric THEN "approve" ELSE "inspect"]
    /\ heard' = [heard EXCEPT ![pcall[r].p] = {}]
    /\ UNCHANGED <<prow, slot, approved, channel, trusted>>

\* One turn of the loop over the organizations: the package, which holds the
\* address, is installed and approved.  An error of the approval is dropped, and says
\* nothing of what it did.  An approval with a sequence that is committed - the query
\* before it failed, or another start was faster - replaces the package in force.
Approve(r) ==
    LET p == pcall[r].p IN
    /\ pcall[r].pc = "approve"
    /\ \E o \in PeerOrgs \ pcall[r].asked :
           LET with(ports) == [ports EXCEPT ![p][o] = pcall[r].port] IN
           /\ pcall' = [pcall EXCEPT ![r].asked = @ \cup {o}]
           /\ \/ approved' = with(approved) /\ channel' = channel
                 /\ heard' = [heard EXCEPT ![p] = @ \cup {o}]
              \/ approved' \in {approved, with(approved)} /\ UNCHANGED <<channel, heard>>
              \/ channel[p] # NoPort /\ channel' = with(channel) /\ UNCHANGED <<approved, heard>>
    /\ UNCHANGED <<prow, slot, trusted>>

\* The lifecycle endorsement policy of a channel: MAJORITY Endorsement.
Majority(orgs) == 2 * Cardinality(orgs) > Cardinality(PeerOrgs)

\* The commit carries no package: an organization's peers dial what it approved
\* itself, by this start or an earlier one, and nothing if it approved nothing.
\* The answer can be lost after the commit took effect.
Commit(r) ==
    LET p == pcall[r].p IN
    /\ pcall[r].pc = "approve" /\ pcall[r].asked = PeerOrgs
    /\ Majority({o \in PeerOrgs : approved[p][o] # 0})
    /\ channel' = [channel EXCEPT ![p] = approved[p]]
    /\ approved' = [approved EXCEPT ![p] = NoPort]
    /\ \/ ProjectStep(r, "inspect") /\ UNCHANGED trusted
       \/ EndProjectCall(r) /\ trusted' = [trusted EXCEPT ![p] = FALSE]
    /\ UNCHANGED <<prow, slot, heard>>

ContainerInspect(r) ==
    LET p == pcall[r].p IN
    /\ pcall[r].pc = "inspect"
    /\ pcall' = [pcall EXCEPT ![r].id = slot[p].id,
                              ![r].pc = IF slot[p].id = "none" THEN "create" ELSE "remove"]
    /\ UNCHANGED <<prow, slot, approved, channel, trusted, heard>>

\* Forced, and its error ignored.
ContainerRemove(r) ==
    LET p == pcall[r].p IN
    /\ pcall[r].pc = "remove"
    /\ slot' \in {slot, [slot EXCEPT ![p] = IF @.id = pcall[r].id THEN NoSlot ELSE @]}
    /\ pcall' = [pcall EXCEPT ![r].id = "none", ![r].pc = "create"]
    /\ UNCHANGED <<prow, approved, channel, trusted, heard>>

\* Ids that something still holds.
HeldIds == {prow[p].cid : p \in ProjectIds} \cup {slot[p].id : p \in ProjectIds}
            \cup {pcall[r].id : r \in ProjectCalls}

\* A name is taken once.
ContainerCreate(r) ==
    LET p == pcall[r].p IN
    /\ pcall[r].pc = "create"
    /\ slot[p].id = "none"
    /\ \E id \in Containers \ HeldIds :
           /\ slot' = [slot EXCEPT ![p] = [id |-> id, port |-> pcall[r].port, up |-> FALSE]]
           /\ pcall' = [pcall EXCEPT ![r].id = id, ![r].pc = "start"]
    /\ UNCHANGED <<prow, approved, channel, trusted, heard>>

ContainerStart(r) ==
    LET p == pcall[r].p IN
    /\ pcall[r].pc = "start"
    /\ slot[p].id = pcall[r].id
    /\ slot[p].up \/ ~Bound(pcall[r].port)
    /\ slot' = [slot EXCEPT ![p].up = TRUE]
    /\ ProjectStep(r, "running")
    /\ UNCHANGED <<prow, approved, channel, trusted, heard>>

\* :exec, a missing row is not an error.
UpdateProjectContainerInfo(p, status, cid, port) ==
    prow' = IF prow[p].row # "present" THEN prow
            ELSE [prow EXCEPT ![p].status = status, ![p].cid = cid, ![p].port = port]

MarkProjectRunning(r) ==
    /\ pcall[r].pc = "running"
    /\ UpdateProjectContainerInfo(pcall[r].p, "running", pcall[r].id, pcall[r].port)
    /\ EndProjectCall(r)
    /\ Earned(r)
    /\ UNCHANGED <<slot, approved, channel, heard>>

-----------------------------------------------------------------------------
(* Stop and delete.                                                        *)

AfterStop(r) == IF pcall[r].op = "delete" THEN ProjectStep(r, "row") ELSE EndProjectCall(r)
AfterHalt(r) == IF prow[pcall[r].p].fabric THEN ProjectStep(r, "poststop") ELSE AfterStop(r)

\* A project that is not running is left as it is.
ReadProject(r) ==
    LET p == pcall[r].p IN
    /\ pcall[r].pc = "read"
    /\ prow[p].row = "present"
    /\ IF prow[p].status = "running"
       THEN pcall' = [pcall EXCEPT ![r].pc = "halt", ![r].id = prow[p].cid]
       ELSE AfterHalt(r)
    /\ UNCHANGED <<prow, slot, approved, channel, trusted, heard>>

\* Mutant: the error of docker is ignored.
ContainerStopIgnored(r) ==
    LET p == pcall[r].p IN
    /\ pcall[r].pc = "halt"
    /\ slot' = IF slot[p].id = pcall[r].id THEN [slot EXCEPT ![p].up = FALSE] ELSE slot
    /\ ProjectStep(r, "stopped")
    /\ UNCHANGED <<prow, approved, channel, trusted, heard>>

\* An id docker does not know is an error.
ContainerStop(r) ==
    LET p == pcall[r].p IN
    /\ pcall[r].pc = "halt"
    /\ slot[p].id = pcall[r].id
    /\ slot' = [slot EXCEPT ![p].up = FALSE]
    /\ ProjectStep(r, "stopped")
    /\ UNCHANGED <<prow, approved, channel, trusted, heard>>

MarkProjectStopped(r) ==
    /\ pcall[r].pc = "stopped"
    /\ UpdateProjectContainerInfo(pcall[r].p, "stopped", pcall[r].id, 0)
    /\ AfterHalt(r)
    /\ Earned(r)
    /\ UNCHANGED <<slot, approved, channel, heard>>

\* The hook gives neither id nor port, and its error is only logged.
PostStop(r) ==
    /\ pcall[r].pc = "poststop"
    /\ \/ UpdateProjectContainerInfo(pcall[r].p, "stopped", "none", 0)
       \/ prow' = prow
    /\ AfterStop(r)
    /\ UNCHANGED <<slot, approved, channel, trusted, heard>>

\* Foreign keys are on and a conversation refers to its project: such a row
\* cannot be deleted, and the call ends with that error.
DeleteProject(r) ==
    LET p == pcall[r].p IN
    /\ pcall[r].pc = "row"
    /\ prow' = IF prow[p].talks \/ prow[p].row # "present" THEN prow
               ELSE [prow EXCEPT ![p] = [Unborn EXCEPT !.row = "deleted"]]
    /\ EndProjectCall(r)
    /\ UNCHANGED <<slot, approved, channel, trusted, heard>>

ProjectCallStep(r) ==
    \/ FindAvailablePort(r) \/ Approve(r) \/ Commit(r)
    \/ ContainerInspect(r) \/ ContainerRemove(r) \/ ContainerCreate(r) \/ ContainerStart(r)
    \/ MarkProjectRunning(r)
    \/ ReadProject(r) \/ ContainerStop(r) \/ MarkProjectStopped(r) \/ PostStop(r)
    \/ DeleteProject(r) \/ ProjectCallFails(r)

ProjectsNext ==
    \/ \E p \in ProjectIds, fabric, talks \in BOOLEAN : CreateProject(p, fabric, talks)
    \/ \E r \in ProjectCalls :
           \/ \E p \in ProjectIds, op \in {"start", "stop", "delete"} : BeginProjectCall(r, op, p)
           \/ ProjectCallStep(r)

ProjectsSpec == ProjectsInit /\ [][ProjectsNext]_projectVars

-----------------------------------------------------------------------------
(* Where calls on a project did not overlap and none failed since one that *)
(* ended well, and whatever happened before: a running project has a       *)
(* container that is up under the id and the port of its row; on a Fabric  *)
(* network the peers of every organization whose approval that start saw   *)
(* go through dial this port - an organization whose approval it dropped   *)
(* an error of can be left with an address of before, or none; and any     *)
(* other project, a deleted one too, has no container that is up.          *)
ProjectIsServed ==
    \A p \in ProjectIds :
        trusted[p] /\ (\A r \in ProjectCalls : pcall[r].p # p) =>
            IF prow[p].status = "running"
            THEN /\ slot[p] = [id |-> prow[p].cid, port |-> prow[p].port, up |-> TRUE]
                 /\ prow[p].fabric => \A o \in heard[p] : channel[p][o] = prow[p].port
            ELSE ~slot[p].up
=============================================================================
