------------------------------ MODULE PeerNode ------------------------------
(***************************************************************************)
(* A Fabric peer that runs in docker (pkg/nodes/service, pkg/nodes/peer):  *)
(* its nodes row, its directory, its key and its container, all named by   *)
(* one slug.  Create, start, stop, delete, certificate renewal and update  *)
(* are sequences of statements, file writes and docker calls that nothing  *)
(* keeps apart; docker is called with a context that no client ends.       *)
(*                                                                         *)
(* Of the node configuration only matters which one it is; of the          *)
(* deployment configuration whether it is there and which certificate it   *)
(* holds.  A restart through the API is a stop and then a start.           *)
(***************************************************************************)
EXTENDS Integers, Sequences, FiniteSets

CONSTANTS
    Configs,   \* node configurations a client asks for
    PeerCalls, \* BOUND: requests handled at the same time
    MaxIds,    \* BOUND: rows created under the slug
    MaxCerts   \* BOUND: certificates issued

ASSUME PeerAssumption == {MaxIds, MaxCerts} \subseteq Nat \ {0}

VARIABLES
    peerRow,  \* the nodes row with this slug, id 0 where there is none
    disk,     \* peers/<slug>: whether it is there, core.yaml, the certificate
    box,      \* external: the docker container of that name
    issued,   \* the last certificate issued for the peer, the last id of a row
    peerCall, \* local state of each request
    hist      \* history, see below

peerVars == <<peerRow, disk, box, issued, peerCall, hist>>

\* What each request does, step by step.  "halt" is the delete of a running
\* peer, "restart" the second attempt of a create that got no connection.
Script ==
    [create  |-> <<"init", "deploy", "mark", "box", "run", "done", "probe">>,
     restart |-> <<"down", "mark", "box", "run", "done">>,
     start   |-> <<"read", "mark", "box", "run", "done">>,
     stop    |-> <<"read", "mark", "down", "done">>,
     delete  |-> <<"read", "cleanup", "row">>,
     halt    |-> <<"read", "mark", "down", "done", "cleanup", "row">>,
     renew   |-> <<"read", "mark", "renew", "down", "box", "run", "persist", "done">>,
     update  |-> <<"read", "config", "deploy", "sync", "down", "box", "run">>]

PeerOps    == {"start", "stop", "delete", "renew", "update"}
InBetween  == {"PENDING", "STARTING", "STOPPING", "UPDATING"}
NoPeerRow  == [id |-> 0, status |-> "none", cfg |-> "none", deployed |-> FALSE, cert |-> 0]
NoBox      == [state |-> "none", cfg |-> "none", core |-> "none", cert |-> 0, by |-> "none"]
NoDisk     == [dir |-> FALSE, core |-> "none", cert |-> 0]
NoPeerCall == [op |-> "none", at |-> 0, id |-> 0, cfg |-> "none", deployed |-> FALSE,
               cert |-> 0, alone |-> TRUE]

\* sure: since a call that ended well none overlapped or broke off, none left a
\* status that denies the container (ERROR or UPDATING while it runs, RUNNING after
\* a failed update took it down), and no container resisted its removal.  tidy: since
\* the row was created nothing but a start or a stop was overlapped, failed or broke
\* off.  left: who wrote the status is gone.
PeerTypeOK ==
    /\ peerRow \in [id : 0..MaxIds, cfg : Configs \cup {"none"}, deployed : BOOLEAN, cert : 0..MaxCerts,
                    status : InBetween \cup {"none", "RUNNING", "STOPPED", "ERROR"}]
    /\ disk \in [dir : BOOLEAN, core : Configs \cup {"none"}, cert : 0..MaxCerts]
    /\ box \in [state : {"none", "created", "up"}, cfg : Configs \cup {"none"},
                core : Configs \cup {"none"}, cert : 0..MaxCerts, by : PeerCalls \cup {"none"}]
    /\ issued \in [cert : 0..MaxCerts, id : 0..MaxIds]
    /\ hist \in [sure : BOOLEAN, tidy : BOOLEAN, left : BOOLEAN]
    /\ peerCall \in [PeerCalls -> [op : DOMAIN Script \cup {"none"}, at : 0..8, id : 0..MaxIds,
                                   cfg : Configs \cup {"none"}, deployed : BOOLEAN,
                                   cert : 0..MaxCerts, alone : BOOLEAN]]

PeerInit ==
    /\ peerRow = NoPeerRow
    /\ disk = NoDisk
    /\ box = NoBox
    /\ issued = [cert |-> 0, id |-> 0]
    /\ peerCall = [r \in PeerCalls |-> NoPeerCall]
    /\ hist = [sure |-> TRUE, tidy |-> TRUE, left |-> FALSE]

-----------------------------------------------------------------------------
\* The step a request is at; "failed" is the write of ERROR that can follow any.
Step(r) == LET c == peerCall[r] IN
           IF c.op = "none" THEN "idle" ELSE IF c.at = 0 THEN "failed" ELSE Script[c.op][c.at]

\* The row it works on is still there: a new row of the slug has another id.
Has(r) == peerRow.id # 0 /\ peerRow.id = peerCall[r].id

Become(r, c)  == peerCall' = [peerCall EXCEPT ![r] = c]
Proceed(r, c) == Become(r, IF c.at < Len(Script[c.op]) THEN [c EXCEPT !.at = @ + 1] ELSE NoPeerCall)

\* Calls that write more of the row, the directory or the key than a status.
Rewriting(op) == op \notin {"start", "stop", "restart"}

\* An update writes no status: once it has taken a running peer down, an error
\* leaves RUNNING in the row and no container.
Strands(r) == peerCall[r].op = "update" /\ Step(r) \in {"box", "run"} /\ peerRow.status = "RUNNING"
Untidy(r)  == hist' = [hist EXCEPT !.tidy = @ /\ ~Rewriting(peerCall[r].op), !.sure = @ /\ ~Strands(r)]

\* An error without a status: a create takes back what it made, a delete goes on.
GiveUp(r) ==
    LET c == peerCall[r] IN
    Become(r, CASE c.op = "create" -> [c EXCEPT !.op = "delete", !.at = 2]
                [] c.op = "halt"   -> [c EXCEPT !.at = 5]
                [] OTHER           -> NoPeerCall)

\* Mutant: an error is returned without a status.
FailSilently(r) == GiveUp(r) /\ Untidy(r)

\* An error after which startNode, StopNode and RenewCertificates write ERROR.
Fail(r) ==
    LET c == peerCall[r] IN
    /\ IF c.op = "update" \/ (c.op = "restart" /\ c.at = 1)
       THEN GiveUp(r) ELSE Become(r, [c EXCEPT !.at = 0])
    /\ Untidy(r)

\* History: the calls in flight overlap with one that begins.
Enter(r, c) ==
    LET others == {k \in PeerCalls \ {r} : peerCall[k].op # "none"}
        clash  == others # {} /\ \E k \in others : Rewriting(c.op) \/ Rewriting(peerCall[k].op)
    IN  /\ peerCall[r].op = "none"
        /\ peerCall' = [k \in PeerCalls |->
               IF k = r THEN [c EXCEPT !.alone = others = {}]
               ELSE IF k \in others THEN [peerCall[k] EXCEPT !.alone = FALSE] ELSE NoPeerCall]
        /\ hist' = [sure |-> hist.sure /\ others = {},
                    tidy |-> (hist.tidy \/ c.op = "create") /\ ~clash,
                    left |-> hist.left /\ c.op # "create"]

-----------------------------------------------------------------------------
\* The INSERT: UNIQUE(slug), whatever the look for the slug before it found.
BeginCreate(r, cfg) ==
    LET id == issued.id + 1 IN
    /\ peerRow.id = 0 /\ id <= MaxIds
    /\ issued' = [issued EXCEPT !.id = id]
    /\ peerRow' = [NoPeerRow EXCEPT !.id = id, !.status = "PENDING", !.cfg = cfg]
    /\ Enter(r, [NoPeerCall EXCEPT !.op = "create", !.at = 1, !.id = id, !.cfg = cfg])
    /\ UNCHANGED <<disk, box>>

BeginPeerCall(r, op, cfg) ==
    /\ peerRow.id # 0
    /\ Enter(r, [NoPeerCall EXCEPT !.op = op, !.at = 1, !.id = peerRow.id, !.cfg = cfg])
    /\ UNCHANGED <<peerRow, disk, box, issued>>

\* Mutant: only a node that is starting is stopped before it is deleted.
ToHaltNever(status) == status = "STARTING"

\* DeleteNode stops what its row says is running.
ToHalt(status) == status = "RUNNING"

\* The row is read once and the request works on that copy; StopNode reads it again.
ReadRow(r) ==
    LET c    == peerCall[r]
        copy == IF c.op = "update" THEN [c EXCEPT !.deployed = peerRow.deployed, !.cert = peerRow.cert]
                ELSE [c EXCEPT !.deployed = peerRow.deployed, !.cfg = peerRow.cfg]
    IN  /\ Step(r) = "read"
        /\ IF ~Has(r) \/ (c.op = "update" /\ ~peerRow.deployed) THEN GiveUp(r)
           ELSE IF c.op = "delete" /\ ToHalt(peerRow.status) THEN Become(r, [copy EXCEPT !.op = "halt"])
           ELSE Proceed(r, copy)
        /\ UNCHANGED <<peerRow, disk, box, issued, hist>>

\* Keys, certificates, directories, files.  An error takes back the row only.
Initialize(r) ==
    LET c    == peerCall[r]
        cert == issued.cert + 1
        made == [dir |-> TRUE, core |-> c.cfg, cert |-> cert]
    IN  /\ Step(r) = "init" /\ cert <= MaxCerts
        /\ issued' = [issued EXCEPT !.cert = cert]
        /\ \/ disk' = made /\ Proceed(r, [c EXCEPT !.cert = cert])
           \/ disk' \in {disk, made} /\ Become(r, [c EXCEPT !.op = "delete", !.at = 3])
        /\ UNCHANGED <<peerRow, box, hist>>

\* The deployment configuration, with the certificate the request knows of.
WriteDeployment(r) ==
    LET c == peerCall[r] IN
    /\ Step(r) = "deploy"
    /\ IF Has(r)
       THEN /\ peerRow' = [peerRow EXCEPT !.deployed = TRUE, !.cert = c.cert]
            /\ Proceed(r, [c EXCEPT !.deployed = TRUE])
            /\ UNCHANGED hist
       ELSE Become(r, NoPeerCall) /\ Untidy(r) /\ UNCHANGED peerRow
    /\ UNCHANGED <<disk, box, issued>>

WriteConfig(r) ==
    LET c == peerCall[r] IN
    /\ Step(r) = "config"
    /\ IF Has(r)
       THEN peerRow' = [peerRow EXCEPT !.cfg = c.cfg] /\ Proceed(r, c) /\ UNCHANGED hist
       ELSE GiveUp(r) /\ Untidy(r) /\ UNCHANGED peerRow
    /\ UNCHANGED <<disk, box, issued>>

\* Without a deployment configuration a renewal ends here, and UPDATING stays.
MarkStatus(r) ==
    LET c == peerCall[r] IN
    /\ Step(r) = "mark"
    /\ IF Has(r)
       THEN /\ peerRow' = [peerRow EXCEPT !.status =
                   CASE c.op \in {"stop", "halt"} -> "STOPPING" [] c.op = "renew" -> "UPDATING"
                     [] OTHER -> "STARTING"]
            /\ LET lost == c.op = "renew" /\ ~c.deployed
               IN  /\ IF lost THEN Become(r, NoPeerCall) ELSE Proceed(r, c)
                   /\ hist' = [hist EXCEPT !.left = lost, !.tidy = @ /\ ~lost, !.sure = @ /\ ~lost]
       ELSE GiveUp(r) /\ Untidy(r) /\ UNCHANGED peerRow
    /\ UNCHANGED <<disk, box, issued>>

\* The key gets a new certificate, then the directory gets it.
RenewCertificates(r) ==
    LET c    == peerCall[r]
        cert == issued.cert + 1
    IN  /\ Step(r) = "renew"
        /\ \/ /\ cert <= MaxCerts /\ disk.dir
              /\ issued' = [issued EXCEPT !.cert = cert]
              /\ disk' = [disk EXCEPT !.cert = cert]
              /\ Proceed(r, c) /\ UNCHANGED hist
           \/ /\ issued' \in {issued} \cup (IF cert <= MaxCerts THEN {[issued EXCEPT !.cert = cert]} ELSE {})
              /\ Fail(r) /\ UNCHANGED disk
        /\ UNCHANGED <<peerRow, box>>

\* Mutant: the files are written and the peer is left alone.
SynchronizeFilesOnly(r) ==
    LET c == peerCall[r] IN
    /\ Step(r) = "sync"
    /\ IF Has(r) /\ disk.dir
       THEN disk' = [disk EXCEPT !.core = peerRow.cfg] /\ Become(r, NoPeerCall) /\ UNCHANGED hist
       ELSE GiveUp(r) /\ Untidy(r) /\ UNCHANGED disk
    /\ UNCHANGED <<peerRow, box, issued>>

\* The row is read again, core.yaml written from it; stop and start follow.
Synchronize(r) ==
    LET c == peerCall[r] IN
    /\ Step(r) = "sync"
    /\ IF Has(r) /\ disk.dir
       THEN disk' = [disk EXCEPT !.core = peerRow.cfg] /\ Proceed(r, [c EXCEPT !.cfg = peerRow.cfg])
            /\ UNCHANGED hist
       ELSE GiveUp(r) /\ Untidy(r) /\ UNCHANGED disk
    /\ UNCHANGED <<peerRow, box, issued>>

\* A container that cannot be removed is only logged.
RemoveBox(r) ==
    /\ Step(r) = "down"
    /\ \/ box' = NoBox /\ Proceed(r, peerCall[r]) /\ UNCHANGED hist
       \/ /\ box.state # "none" /\ box' = box
          /\ Proceed(r, [peerCall[r] EXCEPT !.alone = FALSE])
          /\ hist' = [hist EXCEPT !.sure = FALSE]
       \/ Fail(r) /\ box' = box
    /\ UNCHANGED <<peerRow, disk, issued>>

\* docker refuses a name that is taken and a directory that is not there.
CreateBox(r) ==
    LET c == peerCall[r] IN
    /\ Step(r) = "box"
    /\ \/ /\ c.deployed /\ disk.dir /\ box.state = "none"
          /\ box' = [NoBox EXCEPT !.state = "created", !.cfg = c.cfg, !.by = r]
          /\ Proceed(r, c) /\ UNCHANGED hist
       \/ Fail(r) /\ box' = box
    /\ UNCHANGED <<peerRow, disk, issued>>

\* The peer reads its files when it starts.  A container that does not start stays.
StartBox(r) ==
    LET c == peerCall[r] IN
    /\ Step(r) = "run"
    /\ \/ /\ box.state = "created" /\ box.by = r /\ disk.dir
          /\ box' = [box EXCEPT !.state = "up", !.core = disk.core, !.cert = disk.cert]
          /\ Proceed(r, c)
          /\ hist' = [hist EXCEPT !.sure = @ /\ (c.op = "update" => peerRow.status = "RUNNING")]
       \/ Fail(r) /\ box' = box
    /\ UNCHANGED <<peerRow, disk, issued>>

\* A renewal whose certificate cannot be stored in the row is a success.
PersistCertificate(r) ==
    /\ Step(r) = "persist"
    /\ \/ Has(r) /\ peerRow' = [peerRow EXCEPT !.cert = issued.cert] /\ UNCHANGED hist
       \/ peerRow' = peerRow /\ hist' = [hist EXCEPT !.tidy = FALSE]
    /\ Proceed(r, peerCall[r])
    /\ UNCHANGED <<disk, box, issued>>

SettleStatus(r) ==
    LET c == peerCall[r] IN
    /\ Step(r) = "done"
    /\ IF Has(r)
       THEN /\ peerRow' = [peerRow EXCEPT !.status = IF c.op \in {"stop", "halt"} THEN "STOPPED" ELSE "RUNNING"]
            /\ Proceed(r, c)
            /\ hist' = [hist EXCEPT !.left = FALSE, !.sure = @ \/ c.alone]
       ELSE GiveUp(r) /\ Untidy(r) /\ UNCHANGED peerRow
    /\ UNCHANGED <<disk, box, issued>>

MarkError(r) ==
    /\ Step(r) = "failed"
    /\ IF Has(r)
       THEN /\ peerRow' = [peerRow EXCEPT !.status = "ERROR"]
            /\ hist' = [hist EXCEPT !.left = FALSE, !.sure = @ /\ box.state # "up"]
       ELSE UNCHANGED <<peerRow, hist>>
    /\ GiveUp(r)
    /\ UNCHANGED <<disk, box, issued>>

\* No connection within 30 seconds, and a restart, or the end of the create.
Connect(r) ==
    /\ Step(r) = "probe"
    /\ \/ Become(r, NoPeerCall)
       \/ Become(r, [peerCall[r] EXCEPT !.op = "restart", !.at = 1])
    /\ UNCHANGED <<peerRow, disk, box, issued, hist>>

\* cleanupNodeResources: the directories of a peer, not its container.
Cleanup(r) ==
    /\ Step(r) = "cleanup"
    /\ disk' = IF peerCall[r].deployed THEN NoDisk ELSE disk
    /\ Proceed(r, peerCall[r])
    /\ UNCHANGED <<peerRow, box, issued, hist>>

DeleteRow(r) ==
    /\ Step(r) = "row"
    /\ peerRow' = IF Has(r) THEN NoPeerRow ELSE peerRow
    /\ Proceed(r, peerCall[r])
    /\ UNCHANGED <<disk, box, issued, hist>>

\* The client goes away, the database fails or the process is killed: the next
\* statement of the request fails, and every later one.
BreakOffPeer(r) ==
    LET c == peerCall[r] IN
    /\ c.op # "none"
    /\ Become(r, NoPeerCall)
    /\ hist' = [sure |-> FALSE,
                tidy |-> hist.tidy /\ ~Rewriting(c.op),
                left |-> hist.left \/ (Has(r) /\ peerRow.status \in InBetween)]
    /\ UNCHANGED <<peerRow, disk, box, issued>>

PeerStep(r) ==
    \/ \E cfg \in Configs : BeginCreate(r, cfg)
    \/ \E op \in PeerOps, cfg \in Configs : BeginPeerCall(r, op, cfg)
    \/ ReadRow(r) \/ Initialize(r) \/ WriteDeployment(r) \/ WriteConfig(r) \/ MarkStatus(r)
    \/ RenewCertificates(r) \/ Synchronize(r) \/ RemoveBox(r) \/ CreateBox(r) \/ StartBox(r)
    \/ PersistCertificate(r) \/ SettleStatus(r) \/ MarkError(r) \/ Connect(r)
    \/ Cleanup(r) \/ DeleteRow(r) \/ BreakOffPeer(r)

PeerNext == \E r \in PeerCalls : PeerStep(r)

PeerSpec == PeerInit /\ [][PeerNext]_peerVars

-----------------------------------------------------------------------------
\* A request that will still write a status of its own or take the row away.
WillSettle(r) ==
    LET c == peerCall[r] IN
    /\ c.op # "none" /\ Step(r) # "read"
    /\ c.at = 0 \/ \E i \in c.at..Len(Script[c.op]) : Script[c.op][i] \in {"done", "row"}

(* A peer is PENDING, STARTING, STOPPING or UPDATING only while a request  *)
(* on it is going to write how it ended, unless one broke off there:       *)
(* whichever requests overlap, fail, or lose the row to a delete.          *)
PeerStatusServed ==
    peerRow.status \in InBetween /\ ~hist.left =>
        \E r \in PeerCalls : Has(r) /\ WillSettle(r)

Quiet == \A r \in PeerCalls : peerCall[r].op = "none"

(* After requests that did not overlap or break off, a peer's row says     *)
(* RUNNING exactly when its container runs, and no container runs without  *)
(* a row - after failed creates, starts, stops and deletes too, and after  *)
(* updates that failed before they took the peer down.  Where the code     *)
(* leaves it otherwise it is claimed from the next request on that ends    *)
(* well: an update that failed later than that, one of a stopped peer, an  *)
(* error or a given up renewal with the container up, and a container that *)
(* docker did not remove.                                                  *)
StatusIsContainer ==
    Quiet /\ hist.sure => (peerRow.status = "RUNNING" <=> box.state = "up")

(* Through any updates and renewals that ended well one after the other,   *)
(* with starts and stops racing and failing between them, a running peer   *)
(* has the configuration and certificate that its row and its directory    *)
(* have, and the last one issued.                                          *)
ContainerIsRow ==
    Quiet /\ hist.tidy /\ peerRow.id # 0 /\ box.state = "up" =>
        /\ box.cfg = peerRow.cfg /\ box.core = peerRow.cfg /\ disk.core = peerRow.cfg
        /\ box.cert = peerRow.cert /\ disk.cert = peerRow.cert /\ peerRow.cert = issued.cert
=============================================================================
