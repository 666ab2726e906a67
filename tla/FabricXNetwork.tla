--------------------------- MODULE FabricXNetwork ---------------------------
(***************************************************************************)
(* A Fabric-X network (pkg/networks/service): its row and the rows that    *)
(* tie nodes to it, nodes that join at the same time, and the verification *)
(* that follows when all have joined.  A verification asks the ledger for  *)
(* a healthcheck namespace and creates it if it is not there; it can run   *)
(* twice at once and break off anywhere, and the record of its transaction *)
(* and the ledger can disagree.  Deleting a node is in NodeGroups.         *)
(***************************************************************************)
EXTENDS Integers, FiniteSets

CONSTANTS
    FxNodes,    \* the nodes the organizations of the network bring
    Joins,      \* BOUND: join requests at the same time
    Verifiers,  \* BOUND: verifications at the same time
    MaxRecords, \* BOUND: how often the record of the namespace is deleted
    FxFaults    \* BOUND: what can fail, see below

ASSUME FabricXAssumption == MaxRecords \in Nat /\ IsFiniteSet(Verifiers)

VARIABLES
    network, \* the networks row
    member,  \* network_nodes rows, "none" where there is no row
    record,  \* the fabricx_namespaces row of the healthcheck namespace
    ledger,  \* external: that namespace on the channel
    sent,    \* history: its transactions handed to the router, records deleted
    seen,    \* history: a join ended between its joined row and its check, and
             \* a verification was asked for
    creator, \* how far CreateNetwork is
    join,    \* local state of each join request
    verify   \* local state of each verification

networkRows == <<network, member>>
ledgerVars  == <<record, ledger, sent>>
fabricxVars == <<networkRows, ledgerVars, seen, creator, join, verify>>

\* "rows", "genesis": CreateNetwork; "start": StartNode; "cut": a context that ends;
\* "insert", "sidecar", "broadcast", "finality": CreateNamespace; "query": the ledger query.
Faulty(f) == f \in FxFaults

FabricXTypeOK ==
    /\ network \in [row : {"unborn", "present", "deleted"}, genesis : BOOLEAN,
                    status : {"creating", "genesis_block_created", "running", "verification_failed"}]
    /\ member \in [FxNodes -> {"none", "pending", "joined"}]
    /\ record \in {"none", "pending", "failed", "broadcast", "committed"}
    /\ ledger \in {"absent", "ordered", "committed"}
    /\ sent \in [tx : Nat, deleted : 0..MaxRecords]
    /\ seen \in [missed : BOOLEAN, begun : BOOLEAN]
    /\ creator \in {"rows", "genesis", "status", "rollback", "done"}
    /\ join \in [Joins -> [node : FxNodes \cup {"none"},
                           pc : {"idle", "disk", "joined", "start", "check"}]]
    /\ verify \in [Verifiers -> {"idle", "list", "insert", "open", "broadcast", "await",
                                 "unconfirmed", "committed", "failed", "running", "verification_failed"}]

FabricXInit ==
    /\ network = [row |-> "unborn", genesis |-> FALSE, status |-> "creating"]
    /\ member = [n \in FxNodes |-> "none"]
    /\ record = "none" /\ ledger = "absent"
    /\ sent = [tx |-> 0, deleted |-> 0]
    /\ seen = [missed |-> FALSE, begun |-> FALSE]
    /\ creator = "rows"
    /\ join = [j \in Joins |-> [node |-> "none", pc |-> "idle"]]
    /\ verify = [v \in Verifiers |-> "idle"]

-----------------------------------------------------------------------------
(* CreateNetwork                                                           *)

CreateNetworkRow ==
    /\ network.row = "unborn"
    /\ network' = [network EXCEPT !.row = "present"]
    /\ UNCHANGED <<member, ledgerVars, seen, creator, join, verify>>

\* One INSERT per node, organization after organization.
AssociateNode(n) ==
    /\ creator = "rows" /\ network.row = "present"
    /\ member[n] = "none"
    /\ member' = [member EXCEPT ![n] = "pending"]
    /\ creator' = IF \A k \in FxNodes \ {n} : member[k] # "none" THEN "genesis" ELSE "rows"
    /\ UNCHANGED <<network, ledgerVars, seen, join, verify>>

UpdateNetworkGenesisBlock ==
    /\ creator = "genesis" /\ network.row = "present"
    /\ network' = [network EXCEPT !.genesis = TRUE]
    /\ creator' = "status"
    /\ UNCHANGED <<member, ledgerVars, seen, join, verify>>

\* The nodes may be joining, and the network verified, before this last write.
UpdateNetworkStatus ==
    /\ creator = "status" /\ network.row = "present"
    /\ network' = [network EXCEPT !.status = "genesis_block_created"]
    /\ creator' = "done"
    /\ UNCHANGED <<member, ledgerVars, seen, join, verify>>

CreateNetworkFails ==
    /\ Faulty("genesis")
    /\ network.row = "present" /\ creator \in {"rows", "genesis", "status"}
    /\ creator' = "rollback"
    /\ UNCHANGED <<networkRows, ledgerVars, seen, join, verify>>

\* ON DELETE CASCADE takes network_nodes and fabricx_namespaces along; the
\* rollback of CreateNetwork and the request to delete are one statement.
DeleteNetwork ==
    /\ network.row = "present"
    /\ network' = [network EXCEPT !.row = "deleted", !.genesis = FALSE]
    /\ member' = [n \in FxNodes |-> "none"]
    /\ record' = "none"
    /\ creator' = "done"
    /\ UNCHANGED <<ledger, sent, seen, join, verify>>

-----------------------------------------------------------------------------
(* JoinFabricXNodeToNetwork                                                *)

JoinTo(j, pc) == join' = [join EXCEPT ![j].pc = pc]
EndJoin(j)    == join' = [join EXCEPT ![j] = [node |-> "none", pc |-> "idle"]]
At(j, pc)     == join[j].pc = pc

BeginJoin(j, n) ==
    /\ At(j, "idle")
    /\ network.row = "present" /\ network.genesis
    /\ join' = [join EXCEPT ![j] = [node |-> n, pc |-> "disk"]]
    /\ UNCHANGED <<networkRows, ledgerVars, seen, creator, verify>>

SetFabricXGenesisBlock(j) ==
    /\ At(j, "disk")
    /\ JoinTo(j, "joined") \/ EndJoin(j)
    /\ UNCHANGED <<networkRows, ledgerVars, seen, creator, verify>>

\* A failed write, and a row that is gone, are only logged.
UpdateNetworkNodeStatus(j) ==
    /\ At(j, "joined")
    /\ \/ /\ member[join[j].node] # "none"
          /\ member' = [member EXCEPT ![join[j].node] = "joined"]
       \/ member' = member
    /\ JoinTo(j, "start")
    /\ UNCHANGED <<network, ledgerVars, seen, creator, verify>>

StartNode(j) ==
    /\ At(j, "start")
    /\ JoinTo(j, "check")
    /\ UNCHANGED <<networkRows, ledgerVars, seen, creator, verify>>

\* Mutant: a transient error of docker ends the request without the check.
StartNodeFailsAtOnce(j) ==
    /\ Faulty("start") /\ At(j, "start")
    /\ EndJoin(j)
    /\ seen' \in {seen, [seen EXCEPT !.missed = TRUE]}
    /\ UNCHANGED <<networkRows, ledgerVars, creator, verify>>

\* A transient mount error of docker counts as joined, any other ends the request.
StartNodeFails(j) ==
    /\ Faulty("start") /\ At(j, "start")
    /\ \/ JoinTo(j, "check") /\ seen' = seen
       \/ EndJoin(j) /\ seen' = [seen EXCEPT !.missed = TRUE]
    /\ UNCHANGED <<networkRows, ledgerVars, creator, verify>>

AllFabricXNodesJoined ==
    /\ \E n \in FxNodes : member[n] # "none"
    /\ \A n \in FxNodes : member[n] # "pending"

\* The verification is a goroutine of its own.
Verify(v) ==
    /\ verify[v] = "idle"
    /\ verify' = [verify EXCEPT ![v] = "list"]
    /\ seen' = [seen EXCEPT !.begun = TRUE]

CheckJoins(j) ==
    /\ At(j, "check")
    /\ EndJoin(j)
    /\ IF AllFabricXNodesJoined THEN \E v \in Verifiers : Verify(v) ELSE UNCHANGED <<verify, seen>>
    /\ UNCHANGED <<networkRows, ledgerVars, creator>>

\* The process is killed, or the client went away and the rows cannot be read.
JoinCut(j) ==
    /\ Faulty("cut") /\ ~At(j, "idle")
    /\ EndJoin(j)
    /\ seen' = [seen EXCEPT !.missed = @ \/ join[j].pc \in {"start", "check"}]
    /\ UNCHANGED <<networkRows, ledgerVars, creator, verify>>

-----------------------------------------------------------------------------
(* VerifyNetwork, and CreateNamespace in it                                *)

VerifyTo(v, pc) == verify' = [verify EXCEPT ![v] = pc]

VerifyFabricXNetwork(v) ==
    /\ network.row = "present"
    /\ Verify(v)
    /\ UNCHANGED <<networkRows, ledgerVars, creator, join>>

\* The merged list holds what is on the ledger and what has a record; without
\* the ledger it holds the records, and without the database nothing.
ListNamespacesMerged(v) ==
    /\ verify[v] = "list"
    /\ \E listed \in IF Faulty("query") THEN {{}, {"db"}, {"db", "chain"}} ELSE {{"db", "chain"}} :
           VerifyTo(v, IF network.row # "present" THEN "idle"
                       ELSE IF \/ "db" \in listed /\ record # "none"
                               \/ "chain" \in listed /\ ledger = "committed"
                            THEN "running" ELSE "insert")
    /\ UNCHANGED <<networkRows, ledgerVars, seen, creator, join>>

\* Mutant: a record of an earlier attempt is replaced.
CreateRecordReplaces(v) ==
    /\ verify[v] = "insert"
    /\ IF network.row = "present"
       THEN record' = "pending" /\ VerifyTo(v, "open")
       ELSE record' = record /\ VerifyTo(v, "verification_failed")
    /\ UNCHANGED <<networkRows, ledger, sent, seen, creator, join>>

\* UNIQUE(network_id, name)
CreateRecord(v) ==
    /\ verify[v] = "insert"
    /\ IF network.row = "present" /\ record = "none"
       THEN record' = "pending" /\ VerifyTo(v, "open")
       ELSE record' = record /\ VerifyTo(v, "verification_failed")
    /\ UNCHANGED <<networkRows, ledger, sent, seen, creator, join>>

\* Keys, identity or the orderer of the submitter: before there is a record.
CreateNamespaceFails(v) ==
    /\ Faulty("insert") /\ verify[v] = "insert"
    /\ VerifyTo(v, "verification_failed")
    /\ UNCHANGED <<networkRows, ledgerVars, seen, creator, join>>

Broadcast(v) ==
    /\ verify[v] \in {"open", "broadcast"}
    /\ sent' = [sent EXCEPT !.tx = @ + 1]
    /\ ledger' = IF ledger = "absent" THEN "ordered" ELSE ledger
    \* Without a committer sidecar nobody waits for the ledger.
    /\ VerifyTo(v, IF verify[v] = "open" THEN "await" ELSE "unconfirmed")
    /\ UNCHANGED <<networkRows, record, seen, creator, join>>

NoSidecar(v) ==
    /\ Faulty("sidecar") /\ verify[v] = "open"
    /\ VerifyTo(v, "broadcast")
    /\ UNCHANGED <<networkRows, ledgerVars, seen, creator, join>>

\* The router may have taken the transaction all the same.
BroadcastFails(v) ==
    /\ Faulty("broadcast") /\ verify[v] \in {"open", "broadcast"}
    /\ \/ UNCHANGED <<ledger, sent>>
       \/ /\ sent' = [sent EXCEPT !.tx = @ + 1]
          /\ ledger' = IF ledger = "absent" THEN "ordered" ELSE ledger
    /\ VerifyTo(v, "failed")
    /\ UNCHANGED <<networkRows, record, seen, creator, join>>

\* External: the channel orders, validates and commits.
CommitBlock ==
    /\ ledger = "ordered"
    /\ ledger' = "committed"
    /\ UNCHANGED <<networkRows, record, sent, seen, creator, join, verify>>

WaitForCommit(v) ==
    /\ verify[v] = "await" /\ ledger = "committed"
    /\ VerifyTo(v, "committed")
    /\ UNCHANGED <<networkRows, ledgerVars, seen, creator, join>>

FinalityTimeout(v) ==
    /\ Faulty("finality") /\ verify[v] = "await"
    /\ VerifyTo(v, "failed")
    /\ UNCHANGED <<networkRows, ledgerVars, seen, creator, join>>

\* A record that is gone is an error of the success path only.
UpdateFabricXNamespaceStatus(v) ==
    /\ verify[v] \in {"unconfirmed", "committed", "failed"}
    /\ record' = IF record = "none" THEN "none"
                 ELSE IF verify[v] = "unconfirmed" THEN "broadcast" ELSE verify[v]
    /\ VerifyTo(v, IF verify[v] = "failed" \/ record = "none"
                   THEN "verification_failed" ELSE "running")
    /\ UNCHANGED <<networkRows, ledger, sent, seen, creator, join>>

WriteVerdict(v) ==
    /\ verify[v] \in {"running", "verification_failed"}
    /\ network' = IF network.row = "present" THEN [network EXCEPT !.status = verify[v]] ELSE network
    /\ VerifyTo(v, "idle")
    /\ UNCHANGED <<member, ledgerVars, seen, creator, join>>

\* Five minutes for the goroutine, the client for the request: every later
\* statement of this verification fails too.
VerifyCut(v) ==
    /\ Faulty("cut") /\ verify[v] # "idle"
    /\ VerifyTo(v, "idle")
    /\ UNCHANGED <<networkRows, ledgerVars, seen, creator, join>>

DeleteNamespaceRecord ==
    /\ record # "none" /\ sent.deleted < MaxRecords
    /\ record' = "none"
    /\ sent' = [sent EXCEPT !.deleted = @ + 1]
    /\ UNCHANGED <<networkRows, ledger, seen, creator, join, verify>>

-----------------------------------------------------------------------------
FabricXJoin(j) ==
    \/ \E n \in FxNodes : BeginJoin(j, n)
    \/ SetFabricXGenesisBlock(j) \/ UpdateNetworkNodeStatus(j)
    \/ StartNode(j) \/ StartNodeFails(j) \/ CheckJoins(j) \/ JoinCut(j)

FabricXVerify(v) ==
    \/ VerifyFabricXNetwork(v) \/ ListNamespacesMerged(v)
    \/ CreateRecord(v) \/ CreateNamespaceFails(v) \/ NoSidecar(v)
    \/ Broadcast(v) \/ BroadcastFails(v) \/ WaitForCommit(v) \/ FinalityTimeout(v)
    \/ UpdateFabricXNamespaceStatus(v) \/ WriteVerdict(v) \/ VerifyCut(v)

FabricXNext ==
    \/ CreateNetworkRow \/ UpdateNetworkGenesisBlock \/ UpdateNetworkStatus
    \/ CreateNetworkFails \/ DeleteNetwork
    \/ \E n \in FxNodes : AssociateNode(n)
    \/ \E j \in Joins : FabricXJoin(j)
    \/ \E v \in Verifiers : FabricXVerify(v)
    \/ CommitBlock \/ DeleteNamespaceRecord

FabricXSpec == FabricXInit /\ [][FabricXNext]_fabricxVars

-----------------------------------------------------------------------------
(* "mark network running: called only after the healthcheck namespace is   *)
(* confirmed on-chain" (markNetworkVerified).                              *)
RunningIsConfirmed ==
    network.row = "present" /\ network.status = "running" => ledger = "committed"

(* Whichever nodes join at the same time, the last to be marked joined     *)
(* finds all of them joined, so a network whose joins all came to their    *)
(* check has a verification: two nodes cannot each leave it to the other.  *)
LastJoinVerifies ==
    /\ AllFabricXNodesJoined /\ ~seen.missed
    /\ \A j \in Joins : join[j].pc \notin {"start", "check"}
    => seen.begun

(* However verifications race, the ledger is asked for the namespace at    *)
(* most once per record of it: looking and inserting are two statements,   *)
(* and the second of two that looked loses on the UNIQUE constraint.       *)
OneTransactionPerRecord == sent.tx <= 1 + sent.deleted
=============================================================================
