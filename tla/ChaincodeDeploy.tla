--------------------------- MODULE ChaincodeDeploy ---------------------------
(***************************************************************************)
(* Chaincode as a service (pkg/chainlaunchdeploy): definitions in the      *)
(* database, the host port each is given (pkg/common/ports), the packages  *)
(* installed on the peers and the docker containers that serve them.       *)
(*                                                                         *)
(* The package says which address the peer has to call, and its id is a    *)
(* hash over label and address.  Install, approve and deploy each compute  *)
(* it anew, from the row or from the address just allocated.  Requests     *)
(* interleave between any two SQL statements, peer or docker calls.  The   *)
(* set of allocated ports lives in the process, the addresses in the       *)
(* database, containers and packages outlive both.                         *)
(***************************************************************************)
EXTENDS Integers, FiniteSets

CONSTANTS
    Definitions, \* ids a fabric_chaincode_definitions row can get
    LabelOf,     \* the chaincode of each definition, whose name is the label
    PortRange,   \* host ports of DefaultPortRanges["fabric-chaincode"]
    Peers,       \* the peers an install is asked for
    CcRequests   \* BOUND: requests handled at the same time

ASSUME ChaincodeAssumption == PortRange \subseteq Nat \ {0}

VARIABLES
    defn,      \* definition rows: the port of chaincode_address, 0 when it is empty
    allocated, \* ports.allocatedPorts
    owned,     \* history: definitions whose address this process allocated
    installed, \* external: packages on the peers
    container, \* external: docker containers that carry a definition's label
    cc         \* local state of each request

chaincodeVars == <<defn, allocated, owned, installed, container, cc>>

Labels        == {LabelOf[d] : d \in Definitions}
Addresses     == PortRange \cup {0}
Package(d, a) == <<LabelOf[d], a>>
Packages      == Labels \X Addresses
CcIdle == [op |-> "none", d |-> "none", addr |-> 0, pc |-> "idle", todo |-> {},
           failed |-> FALSE, clean |-> TRUE]

ChaincodeTypeOK ==
    /\ defn \in [Definitions -> [row : {"unborn", "present", "deleted"}, addr : Addresses]]
    /\ allocated \subseteq PortRange /\ owned \subseteq Definitions
    /\ installed \subseteq Peers \X Packages
    /\ container \subseteq [d : Definitions, pkg : Packages, port : PortRange,
                            up : BOOLEAN, by : CcRequests]
    /\ cc \in [CcRequests ->
          [op : {"none", "install", "deploy", "undeploy"}, d : Definitions \cup {"none"},
           addr : Addresses, todo : SUBSET Peers, failed : BOOLEAN, clean : BOOLEAN,
           pc : {"idle", "read", "allocate", "store", "install", "installed",
                 "remove", "create", "start", "deployed", "removed"}]]

ChaincodeInit ==
    /\ defn = [d \in Definitions |-> [row |-> "unborn", addr |-> 0]]
    /\ allocated = {} /\ owned = {} /\ installed = {} /\ container = {}
    /\ cc = [r \in CcRequests |-> CcIdle]

\* History: the requests on these definitions no longer run alone.
Disturb(D) ==
    [r \in CcRequests |-> IF cc[r].d \in D THEN [cc[r] EXCEPT !.clean = FALSE] ELSE cc[r]]

-----------------------------------------------------------------------------
(* The rows.  A client can give an address or leave it empty.              *)

CreateDefinition(d, a) ==
    /\ defn[d].row = "unborn"
    /\ defn' = [defn EXCEPT ![d] = [row |-> "present", addr |-> a]]
    /\ UNCHANGED <<allocated, owned, installed, container, cc>>

UpdateDefinition(d, a) ==
    /\ defn[d].row = "present"
    /\ defn' = [defn EXCEPT ![d].addr = a]
    /\ owned' = owned \ {d}
    /\ cc' = Disturb({d})
    /\ UNCHANGED <<allocated, installed, container>>

Drop(D) ==
    /\ defn' = [d \in Definitions |->
                   IF d \in D THEN [row |-> "deleted", addr |-> 0] ELSE defn[d]]
    /\ owned' = owned \ D
    /\ UNCHANGED <<allocated, installed, container, cc>>

\* The containers of a definition stay when its row goes.
DeleteDefinition(d) == defn[d].row = "present" /\ Drop({d})

\* ON DELETE CASCADE takes the definitions along.
DeleteChaincode(l) ==
    LET D == {d \in Definitions : defn[d].row = "present" /\ LabelOf[d] = l}
    IN  D # {} /\ Drop(D)

-----------------------------------------------------------------------------
BeginCc(r, op, d) ==
    /\ cc[r].pc = "idle"
    /\ defn[d].row = "present"
    /\ cc' = [cc EXCEPT ![r] = [CcIdle EXCEPT !.op = op, !.d = d, !.pc = "read"]]
    /\ UNCHANGED <<defn, allocated, owned, installed, container>>

\* The request reads its definition once and works on that copy.
ReadDefinition(r) ==
    LET d == cc[r].d
        a == defn[d].addr
        next == CASE cc[r].op = "install"  -> IF a = 0 THEN "allocate" ELSE "install"
                  [] cc[r].op = "deploy"   -> IF a = 0 THEN "idle" ELSE "remove"
                  [] cc[r].op = "undeploy" -> "remove"
    IN  /\ cc[r].pc = "read"
        /\ cc' = [cc EXCEPT ![r] = IF defn[d].row # "present" \/ next = "idle" THEN CcIdle
                                   ELSE [@ EXCEPT !.addr = a, !.pc = next, !.todo = Peers]]
        /\ UNCHANGED <<defn, allocated, owned, installed, container>>

Listening == {c.port : c \in {k \in container : k.up}}

\* Mutant: the port is only probed, not looked up in the map.
GetFreePortProbing(r) ==
    LET free == PortRange \ Listening
        port == CHOOSE p \in free : \A q \in free : p <= q
    IN  /\ cc[r].pc = "allocate"
        /\ free # {}
        /\ allocated' = allocated \cup {port}
        /\ cc' = [cc EXCEPT ![r].addr = port, ![r].pc = "store"]
        /\ UNCHANGED <<defn, owned, installed, container>>

\* Under portMutex: the first port of the range that nobody has and that can be listened on.
GetFreePort(r) ==
    LET free == PortRange \ (allocated \cup Listening)
        port == CHOOSE p \in free : \A q \in free : p <= q
    IN  /\ cc[r].pc = "allocate"
        /\ free # {}
        /\ allocated' = allocated \cup {port}
        /\ cc' = [cc EXCEPT ![r].addr = port, ![r].pc = "store"]
        /\ UNCHANGED <<defn, owned, installed, container>>

NoFreePort(r) ==
    /\ cc[r].pc = "allocate"
    /\ PortRange \subseteq allocated \cup Listening
    /\ cc' = [cc EXCEPT ![r] = CcIdle]
    /\ UNCHANGED <<defn, allocated, owned, installed, container>>

\* Mutant: the address is not written back.
StoreAddressNever(r) ==
    /\ cc[r].pc = "store"
    /\ owned' = owned \cup {cc[r].d}
    /\ cc' = [cc EXCEPT ![r].pc = "install"]
    /\ UNCHANGED <<defn, allocated, installed, container>>

\* :exec - a row that has gone is not an error.  Another address is overwritten.
StoreAddress(r) ==
    LET d == cc[r].d IN
    /\ cc[r].pc = "store"
    /\ IF defn[d].row = "present"
       THEN /\ defn' = [defn EXCEPT ![d].addr = cc[r].addr]
            /\ owned' = owned \cup {d}
       ELSE UNCHANGED <<defn, owned>>
    /\ cc' = [Disturb({d}) EXCEPT ![r] = [cc[r] EXCEPT !.pc = "install"]]
    /\ UNCHANGED <<allocated, installed, container>>

\* One peer after the other; one that fails does not stop the rest.
InstallPackage(r, p) ==
    LET d == cc[r].d IN
    /\ cc[r].pc = "install" /\ p \in cc[r].todo
    /\ installed' = installed \cup {<<p, Package(d, cc[r].addr)>>}
    /\ cc' = [cc EXCEPT ![r].todo = @ \ {p}, ![r].pc = IF cc[r].todo = {p} THEN "installed" ELSE @]
    /\ UNCHANGED <<defn, allocated, owned, container>>

PeerFails(r, p) ==
    /\ cc[r].pc = "install" /\ p \in cc[r].todo
    /\ cc' = [cc EXCEPT ![r].todo = @ \ {p}, ![r].failed = TRUE,
                        ![r].pc = IF cc[r].todo = {p} THEN "installed" ELSE @]
    /\ UNCHANGED <<defn, allocated, owned, installed, container>>

-----------------------------------------------------------------------------
(* The containers.  The name is made of package and port, and the label is *)
(* the definition.                                                         *)

Named(r) == {c \in container : c.pkg = Package(cc[r].d, cc[r].addr) /\ c.port = cc[r].addr}
Of(d)    == {c \in container : c.d = d}

\* Mutant: by name only.
DoomedByName(r) == Named(r)

\* What a deploy removes before it creates, or an undeploy has to remove.
Doomed(r) == IF cc[r].op = "deploy" THEN Of(cc[r].d) \cup Named(r) ELSE Of(cc[r].d)

\* Deploy removes by label and by name and ignores failures; RemoveDeployment
\* removes by label and stops at the first failure.  Listing and removing is
\* one step: a container created in between is one created after it.
RemoveContainers(r) ==
    /\ cc[r].pc = "remove"
    /\ \E kept \in SUBSET Doomed(r) :
           /\ container' = container \ (Doomed(r) \ kept)
           /\ cc' = [Disturb({c.d : c \in Doomed(r) \ kept}) EXCEPT ![r] =
                        IF cc[r].op = "deploy"
                        THEN [cc[r] EXCEPT !.pc = "create", !.clean = @ /\ kept = {}]
                        ELSE IF kept = {} THEN [cc[r] EXCEPT !.pc = "removed"] ELSE CcIdle]
    /\ UNCHANGED <<defn, allocated, owned, installed>>

\* docker refuses a name that is taken.
CreateContainer(r) ==
    LET d == cc[r].d IN
    /\ cc[r].pc = "create"
    /\ IF Named(r) = {}
       THEN /\ container' = container \cup {[d |-> d, pkg |-> Package(d, cc[r].addr),
                                            port |-> cc[r].addr, up |-> FALSE, by |-> r]}
            /\ cc' = [Disturb({d}) EXCEPT ![r] = [cc[r] EXCEPT !.pc = "start"]]
       ELSE container' = container /\ cc' = [cc EXCEPT ![r] = CcIdle]
    /\ UNCHANGED <<defn, allocated, owned, installed>>

\* docker refuses a port that is bound; the container that was created stays.
StartContainer(r) ==
    LET mine == {c \in Named(r) : c.d = cc[r].d /\ c.by = r} IN
    /\ cc[r].pc = "start"
    /\ IF mine # {} /\ cc[r].addr \notin Listening
       THEN /\ container' = (container \ mine) \cup {[c EXCEPT !.up = TRUE] : c \in mine}
            /\ cc' = [cc EXCEPT ![r].pc = "deployed"]
       ELSE container' = container /\ cc' = [cc EXCEPT ![r] = CcIdle]
    /\ UNCHANGED <<defn, allocated, owned, installed>>

FinishCc(r) ==
    /\ cc[r].pc \in {"installed", "deployed", "removed"}
    /\ cc' = [cc EXCEPT ![r] = CcIdle]
    /\ UNCHANGED <<defn, allocated, owned, installed, container>>

\* An error of a call.  Deploy runs with a context of its own: its client
\* going away does not stop it.
CcFails(r) ==
    /\ cc[r].pc \in {"read", "store", "create", "start"}
    /\ cc' = [cc EXCEPT ![r] = CcIdle]
    /\ UNCHANGED <<defn, allocated, owned, installed, container>>

\* The process is killed and started again: the map of ports is empty.
RestartServer ==
    /\ allocated' = {} /\ owned' = {}
    /\ cc' = [r \in CcRequests |-> CcIdle]
    /\ UNCHANGED <<defn, installed, container>>

CcStep(r) ==
    \/ \E d \in Definitions, op \in {"install", "deploy", "undeploy"} : BeginCc(r, op, d)
    \/ ReadDefinition(r) \/ GetFreePort(r) \/ NoFreePort(r) \/ StoreAddress(r)
    \/ \E p \in Peers : InstallPackage(r, p) \/ PeerFails(r, p)
    \/ RemoveContainers(r) \/ CreateContainer(r) \/ StartContainer(r)
    \/ FinishCc(r) \/ CcFails(r)

ChaincodeNext ==
    \/ \E d \in Definitions :
           \/ \E a \in Addresses : CreateDefinition(d, a) \/ UpdateDefinition(d, a)
           \/ DeleteDefinition(d)
    \/ \E l \in Labels : DeleteChaincode(l)
    \/ \E r \in CcRequests : CcStep(r)
    \/ RestartServer

ChaincodeSpec == ChaincodeInit /\ [][ChaincodeNext]_chaincodeVars

-----------------------------------------------------------------------------
(* Two definitions whose addresses this process allocated never share a    *)
(* port, however many installs race, whichever of them were lost, and with *)
(* ports of containers coming and going.  After a restart it no longer     *)
(* holds: the map starts empty and the address of a definition without a   *)
(* running container is given away again.                                  *)
PortsApart ==
    \A d, e \in owned : d # e => defn[d].addr # defn[e].addr

(* An install that reported success, while nobody else wrote the address   *)
(* of its definition, left on every peer the package a later approve or    *)
(* deploy computes from the row.                                           *)
InstalledIsOfRow ==
    \A r \in CcRequests :
        cc[r].pc = "installed" /\ ~cc[r].failed /\ cc[r].clean =>
            LET row == defn[cc[r].d] IN
            row.row = "present" =>
                \A p \in Peers : <<p, Package(cc[r].d, row.addr)>> \in installed

(* A deploy that reported success without another request on its           *)
(* definition leaves one container of it, running at the row's address     *)
(* with the row's package; a clean removal leaves none.                    *)
DeploymentIsExact ==
    \A r \in CcRequests :
        LET d == cc[r].d IN
        cc[r].pc \in {"deployed", "removed"} /\ cc[r].clean =>
            IF cc[r].pc = "removed" THEN Of(d) = {}
            ELSE defn[d].row = "present" =>
                     Of(d) = {[d |-> d, pkg |-> Package(d, defn[d].addr),
                               port |-> defn[d].addr, up |-> TRUE, by |-> r]}
=============================================================================
