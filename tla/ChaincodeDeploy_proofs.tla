----------------------- MODULE ChaincodeDeploy_proofs -----------------------
(* Proofs about ChaincodeDeploy for any number of definitions, ports,      *)
(* peers and requests.                                                     *)
EXTENDS ChaincodeDeploy, WellFoundedInduction, TLAPS

-----------------------------------------------------------------------------
(* The inductive invariant.                                                *)

CcPc     == {"idle", "read", "allocate", "store", "install", "installed",
             "remove", "create", "start", "deployed", "removed"}
CcRecord == [op : {"none", "install", "deploy", "undeploy"}, d : Definitions \cup {"none"},
             addr : Addresses, todo : SUBSET Peers, failed : BOOLEAN, clean : BOOLEAN, pc : CcPc]
CcContainer == [d : Definitions, pkg : Packages, port : PortRange, up : BOOLEAN, by : CcRequests]
DefnRow  == [row : {"unborn", "present", "deleted"}, addr : Addresses]

\* What a request is about while it is at work.
CallNamed(r) == cc[r].pc # "idle" => cc[r].d \in Definitions /\ defn[cc[r].d].row # "unborn"
CallKind(r) ==
    /\ cc[r].pc # "idle" => cc[r].op # "none"
    /\ cc[r].pc \in {"allocate", "store"} => cc[r].todo = Peers
    /\ cc[r].pc = "installed" => cc[r].todo = {}
    /\ cc[r].pc \in {"remove", "create", "start"} /\ cc[r].op # "undeploy" => cc[r].addr \in PortRange
    /\ cc[r].pc \in {"create", "start", "deployed"} => cc[r].op = "deploy"

\* A port is given once: to an address that is written, or to a request about to write it.
Reserved == PortsApart /\ \A d \in owned : defn[d].row = "present" /\ defn[d].addr \in allocated
Pending  == \A r \in CcRequests : cc[r].pc = "store" =>
                /\ cc[r].addr \in allocated
                /\ \A d \in owned : defn[d].addr # cc[r].addr
                /\ \A k \in CcRequests \ {r} : cc[k].pc = "store" => cc[k].addr # cc[r].addr

\* A request nobody disturbed works on the address its row has.
AddressKnown(r) ==
    cc[r].clean /\ cc[r].pc \notin {"idle", "read", "allocate", "store"} /\ defn[cc[r].d].row = "present" =>
        defn[cc[r].d].addr = cc[r].addr

\* An install without a failure has served the peers that are not left to do.
Progress(r) ==
    cc[r].pc \in {"install", "installed"} /\ ~cc[r].failed =>
        \A p \in Peers \ cc[r].todo : <<p, Package(cc[r].d, cc[r].addr)>> \in installed

\* The containers a request nobody disturbed has left of its definition.
Placed(r, up) == [d |-> cc[r].d, pkg |-> Package(cc[r].d, cc[r].addr), port |-> cc[r].addr,
                  up |-> up, by |-> r]
Exact(r) == cc[r].clean =>
    /\ cc[r].pc \in {"create", "removed"} => Of(cc[r].d) = {}
    /\ cc[r].pc = "start" => Of(cc[r].d) = {Placed(r, FALSE)}
    /\ cc[r].pc = "deployed" => Of(cc[r].d) = {Placed(r, TRUE)}

Sound(r) == CallNamed(r) /\ CallKind(r) /\ AddressKnown(r) /\ Progress(r) /\ Exact(r)

ChaincodeInv == ChaincodeTypeOK /\ Reserved /\ Pending /\ \A r \in CcRequests : Sound(r)

LEMMA ChaincodeInitInv == ChaincodeInit => ChaincodeInv
<1>. SUFFICES ASSUME ChaincodeInit PROVE ChaincodeInv
    OBVIOUS
<1>1. CcIdle \in CcRecord /\ CcIdle.pc = "idle"
    BY DEF CcIdle, CcRecord, CcPc, Addresses
<1>2. [row |-> "unborn", addr |-> 0] \in DefnRow
    BY DEF DefnRow, Addresses
<1>3. ChaincodeTypeOK
    BY <1>1, <1>2 DEF ChaincodeInit, ChaincodeTypeOK, CcRecord, CcPc, DefnRow
<1>4. Reserved /\ Pending
    BY <1>1 DEF ChaincodeInit, Reserved, PortsApart, Pending
<1>5. ASSUME NEW r \in CcRequests PROVE Sound(r)
    BY <1>1 DEF ChaincodeInit, Sound, CallNamed, CallKind, AddressKnown, Progress, Exact
<1>. QED BY <1>3, <1>4, <1>5 DEF ChaincodeInv

-----------------------------------------------------------------------------
(* What a step leaves alone.                                               *)

LEMMA CcTyped ==
    ASSUME ChaincodeTypeOK
    PROVE  /\ cc \in [CcRequests -> CcRecord] /\ defn \in [Definitions -> DefnRow]
           /\ \A r \in CcRequests : cc[r] \in CcRecord
BY DEF ChaincodeTypeOK, CcRecord, CcPc, DefnRow

\* A step of r that concerns no other request.
LEMMA MovedAlone ==
    ASSUME ChaincodeTypeOK, NEW r \in CcRequests, NEW x \in CcRecord, cc' = [cc EXCEPT ![r] = x]
    PROVE  /\ cc' \in [CcRequests -> CcRecord] /\ cc'[r] = x
           /\ \A k \in CcRequests \ {r} : cc'[k] = cc[k]
BY CcTyped

LEMMA DisturbTyped ==
    ASSUME ChaincodeTypeOK, NEW D
    PROVE  /\ Disturb(D) \in [CcRequests -> CcRecord]
           /\ \A k \in CcRequests : Disturb(D)[k] = IF cc[k].d \in D THEN [cc[k] EXCEPT !.clean = FALSE] ELSE cc[k]
<1>1. \A k \in CcRequests : [cc[k] EXCEPT !.clean = FALSE] \in CcRecord
    BY CcTyped DEF CcRecord
<1>. QED BY <1>1, CcTyped DEF Disturb

\* A step of r that disturbs the requests on the definitions D.
LEMMA MovedDisturbing ==
    ASSUME ChaincodeTypeOK, NEW r \in CcRequests, NEW x \in CcRecord, NEW D,
           cc' = [Disturb(D) EXCEPT ![r] = x]
    PROVE  /\ cc' \in [CcRequests -> CcRecord] /\ cc'[r] = x
           /\ \A k \in CcRequests \ {r} :
                  cc'[k] = IF cc[k].d \in D THEN [cc[k] EXCEPT !.clean = FALSE] ELSE cc[k]
BY DisturbTyped

\* A step of r that disturbs the requests on its own definition.
LEMMA MovedDisturbingOwn ==
    ASSUME ChaincodeTypeOK, NEW r \in CcRequests, NEW x \in CcRecord, NEW d,
           cc' = [Disturb({d}) EXCEPT ![r] = x]
    PROVE  /\ cc' \in [CcRequests -> CcRecord] /\ cc'[r] = x
           /\ \A k \in CcRequests \ {r} :
                  cc'[k] = IF cc[k].d = d THEN [cc[k] EXCEPT !.clean = FALSE] ELSE cc[k]
<1>. DEFINE D == {d}
<1>1. cc' = [Disturb(D) EXCEPT ![r] = x]
    OBVIOUS
<1>2. \A e : e \in D <=> e = d
    OBVIOUS
<1>. HIDE DEF D
<1>3. /\ cc' \in [CcRequests -> CcRecord] /\ cc'[r] = x
      /\ \A k \in CcRequests \ {r} : cc'[k] = IF cc[k].d \in D THEN [cc[k] EXCEPT !.clean = FALSE] ELSE cc[k]
    BY <1>1, MovedDisturbing
<1>. QED BY <1>2, <1>3

\* Request k after a step of the world or of another request.
LEMMA StaysSound ==
    ASSUME ChaincodeTypeOK, NEW k \in CcRequests, Sound(k),
           cc'[k] = cc[k] \/ cc'[k] = [cc[k] EXCEPT !.clean = FALSE],
           installed \subseteq installed',
           cc[k].pc # "idle" =>
               /\ defn'[cc[k].d].row # "unborn"
               /\ cc'[k].clean /\ defn'[cc[k].d].row = "present" =>
                      defn[cc[k].d].row = "present" /\ defn'[cc[k].d].addr = defn[cc[k].d].addr
               /\ cc'[k].clean /\ cc[k].pc \in {"create", "start", "deployed", "removed"} =>
                      Of(cc[k].d)' = Of(cc[k].d)
    PROVE  Sound(k)'
<1>0. cc[k] \in CcRecord
    BY CcTyped
<1>1. /\ cc'[k].pc = cc[k].pc /\ cc'[k].d = cc[k].d /\ cc'[k].op = cc[k].op /\ cc'[k].addr = cc[k].addr
      /\ cc'[k].todo = cc[k].todo /\ cc'[k].failed = cc[k].failed
      /\ cc'[k].clean => cc[k].clean
    BY <1>0 DEF CcRecord
<1>2. CallNamed(k)' /\ CallKind(k)'
    BY <1>1 DEF Sound, CallNamed, CallKind
<1>3. AddressKnown(k)'
    BY <1>1 DEF Sound, AddressKnown
<1>4. Progress(k)'
    BY <1>1 DEF Sound, Progress, Package
<1>5. Exact(k)'
    <2>. SUFFICES ASSUME cc'[k].clean PROVE Exact(k)'
        BY DEF Exact
    <2>1. cc[k].clean /\ (cc[k].pc \in {"create", "start", "deployed", "removed"} =>
                              Of(cc[k].d)' = Of(cc[k].d))
        BY <1>1
    <2>2. Placed(k, TRUE)' = Placed(k, TRUE) /\ Placed(k, FALSE)' = Placed(k, FALSE)
        BY <1>1 DEF Placed, Package
    <2>. QED BY <1>1, <2>1, <2>2 DEF Sound, Exact
<1>. QED BY <1>2, <1>3, <1>4, <1>5 DEF Sound

\* Ports after a step that gives none.
LEMMA PortsKept ==
    ASSUME Reserved, Pending, allocated \subseteq allocated', owned' \subseteq owned,
           \A d \in owned' : defn'[d] = defn[d],
           \A k \in CcRequests : cc'[k].pc = "store" => cc[k].pc = "store" /\ cc'[k].addr = cc[k].addr
    PROVE  (Reserved /\ Pending)'
<1>1. Reserved'
    BY DEF Reserved, PortsApart
<1>2. Pending'
    BY DEF Pending
<1>. QED BY <1>1, <1>2

-----------------------------------------------------------------------------
(* The rows.                                                               *)

LEMMA CreateDefinitionInv ==
    ASSUME ChaincodeInv, NEW d \in Definitions, NEW a \in Addresses, CreateDefinition(d, a)
    PROVE  ChaincodeInv'
<1>. USE DEF ChaincodeInv
<1>0. /\ defn[d].row = "unborn" /\ defn' = [defn EXCEPT ![d] = [row |-> "present", addr |-> a]]
      /\ UNCHANGED <<allocated, owned, installed, container, cc>>
    BY DEF CreateDefinition
<1>1. defn' \in [Definitions -> DefnRow] /\ \A e \in Definitions \ {d} : defn'[e] = defn[e]
    BY <1>0, CcTyped DEF DefnRow
<1>2. ChaincodeTypeOK'
    BY <1>0, <1>1 DEF ChaincodeTypeOK, DefnRow
<1>3. d \notin owned
    BY <1>0 DEF Reserved
<1>4. (Reserved /\ Pending)'
    BY <1>0, <1>1, <1>3, PortsKept DEF ChaincodeTypeOK
<1>5. ASSUME NEW k \in CcRequests PROVE Sound(k)'
    <2>1. cc[k].pc # "idle" => cc[k].d \in Definitions \ {d}
        BY <1>0 DEF Sound, CallNamed
    <2>2. cc[k].pc # "idle" => defn'[cc[k].d] = defn[cc[k].d] /\ defn[cc[k].d].row # "unborn"
        BY <1>1, <2>1 DEF Sound, CallNamed
    <2>3. Of(cc[k].d)' = Of(cc[k].d)
        BY <1>0 DEF Of
    <2>. QED BY <1>0, <2>2, <2>3, StaysSound
<1>. QED BY <1>2, <1>4, <1>5

LEMMA UpdateDefinitionInv ==
    ASSUME ChaincodeInv, NEW d \in Definitions, NEW a \in Addresses, UpdateDefinition(d, a)
    PROVE  ChaincodeInv'
<1>. USE DEF ChaincodeInv
<1>0. /\ defn[d].row = "present" /\ defn' = [defn EXCEPT ![d].addr = a] /\ owned' = owned \ {d}
      /\ cc' = Disturb({d}) /\ UNCHANGED <<allocated, installed, container>>
    BY DEF UpdateDefinition
<1>1. /\ defn' \in [Definitions -> DefnRow] /\ defn'[d].row = "present"
      /\ \A e \in Definitions \ {d} : defn'[e] = defn[e]
    BY <1>0, CcTyped DEF DefnRow
<1>2. /\ cc' \in [CcRequests -> CcRecord]
      /\ \A k \in CcRequests : cc'[k] = IF cc[k].d = d THEN [cc[k] EXCEPT !.clean = FALSE] ELSE cc[k]
    BY <1>0, DisturbTyped
<1>3. ChaincodeTypeOK'
    BY <1>0, <1>1, <1>2 DEF ChaincodeTypeOK, DefnRow, CcRecord, CcPc
<1>4. ASSUME NEW k \in CcRequests
      PROVE  cc'[k].pc = cc[k].pc /\ cc'[k].addr = cc[k].addr /\ (cc'[k].clean => cc[k].d # d)
    BY <1>2, CcTyped DEF CcRecord
<1>5. (Reserved /\ Pending)'
    BY <1>0, <1>1, <1>4, PortsKept DEF ChaincodeTypeOK
<1>6. ASSUME NEW k \in CcRequests PROVE Sound(k)'
    <2>1. cc[k].pc # "idle" => cc[k].d \in Definitions /\ defn'[cc[k].d].row # "unborn"
        BY <1>1 DEF Sound, CallNamed
    <2>2. cc[k].pc # "idle" /\ cc'[k].clean => defn'[cc[k].d] = defn[cc[k].d]
        BY <1>1, <1>4, <2>1
    <2>3. Of(cc[k].d)' = Of(cc[k].d)
        <3>1. cc'[k].d = cc[k].d
            BY <1>2, CcTyped DEF CcRecord
        <3>. QED BY <1>0, <3>1 DEF Of
    <2>. QED BY <1>0, <1>2, <2>1, <2>2, <2>3, StaysSound
<1>. QED BY <1>3, <1>5, <1>6

LEMMA DropInv ==
    ASSUME ChaincodeInv, NEW D \in SUBSET Definitions, \A d \in D : defn[d].row = "present", Drop(D)
    PROVE  ChaincodeInv'
<1>. USE DEF ChaincodeInv
<1>0. /\ defn' = [d \in Definitions |-> IF d \in D THEN [row |-> "deleted", addr |-> 0] ELSE defn[d]]
      /\ owned' = owned \ D /\ UNCHANGED <<allocated, installed, container, cc>>
    BY DEF Drop
<1>1. defn' \in [Definitions -> DefnRow]
    BY <1>0, CcTyped DEF DefnRow, Addresses
<1>2. ChaincodeTypeOK'
    BY <1>0, <1>1 DEF ChaincodeTypeOK, DefnRow
<1>3. (Reserved /\ Pending)'
    BY <1>0, PortsKept DEF ChaincodeTypeOK
<1>4. ASSUME NEW k \in CcRequests PROVE Sound(k)'
    <2>1. cc[k].pc # "idle" => cc[k].d \in Definitions /\ defn[cc[k].d].row # "unborn"
        BY DEF Sound, CallNamed
    <2>2. cc[k].pc # "idle" =>
              /\ defn'[cc[k].d].row # "unborn"
              /\ defn'[cc[k].d].row = "present" => defn'[cc[k].d] = defn[cc[k].d]
        BY <1>0, <2>1
    <2>3. Of(cc[k].d)' = Of(cc[k].d)
        BY <1>0 DEF Of
    <2>. QED BY <1>0, <2>2, <2>3, StaysSound
<1>. QED BY <1>2, <1>3, <1>4

LEMMA RestartServerInv ==
    ASSUME ChaincodeInv, RestartServer
    PROVE  ChaincodeInv'
<1>1. CcIdle \in CcRecord /\ CcIdle.pc = "idle"
    BY DEF CcIdle, CcRecord, CcPc, Addresses
<1>2. cc' = [r \in CcRequests |-> CcIdle] /\ allocated' = {} /\ owned' = {} /\ UNCHANGED <<defn, installed, container>>
    BY DEF RestartServer
<1>3. ChaincodeTypeOK'
    BY <1>1, <1>2 DEF ChaincodeInv, ChaincodeTypeOK, CcRecord, CcPc
<1>4. (Reserved /\ Pending)'
    BY <1>1, <1>2 DEF Reserved, PortsApart, Pending
<1>5. ASSUME NEW r \in CcRequests PROVE Sound(r)'
    BY <1>1, <1>2 DEF Sound, CallNamed, CallKind, AddressKnown, Progress, Exact
<1>. QED BY <1>3, <1>4, <1>5 DEF ChaincodeInv

-----------------------------------------------------------------------------
(* The steps of a request up to its install.                               *)

LEMMA EndSound ==
    ASSUME NEW r \in CcRequests, cc'[r].pc = "idle"
    PROVE  Sound(r)'
BY DEF Sound, CallNamed, CallKind, AddressKnown, Progress, Exact

LEMMA IdleTyped == CcIdle \in CcRecord /\ CcIdle.pc = "idle"
BY DEF CcIdle, CcRecord, CcPc, Addresses

\* The other requests, after a step that leaves rows and containers alone.
LEMMA OthersSound ==
    ASSUME ChaincodeInv, NEW r \in CcRequests, NEW x \in CcRecord, cc' = [cc EXCEPT ![r] = x],
           UNCHANGED <<defn, container>>, installed \subseteq installed'
    PROVE  \A k \in CcRequests \ {r} : Sound(k)'
<1>. USE DEF ChaincodeInv
<1>. SUFFICES ASSUME NEW k \in CcRequests \ {r} PROVE Sound(k)'
    OBVIOUS
<1>1. cc'[k] = cc[k] /\ Sound(k)
    BY MovedAlone
<1>2. cc[k].pc # "idle" => defn[cc[k].d].row # "unborn"
    BY <1>1 DEF Sound, CallNamed
<1>3. Of(cc[k].d)' = Of(cc[k].d)
    BY <1>1 DEF Of
<1>. QED BY <1>1, <1>2, <1>3, StaysSound

\* A step that only moves r, not to "store".
LEMMA QuietStep ==
    ASSUME ChaincodeInv, NEW r \in CcRequests, NEW x \in CcRecord, cc' = [cc EXCEPT ![r] = x],
           UNCHANGED <<defn, allocated, owned, container>>,
           installed \subseteq installed', installed' \subseteq Peers \X Packages,
           x.pc # "store", Sound(r)'
    PROVE  ChaincodeInv'
<1>. USE DEF ChaincodeInv
<1>1. cc' \in [CcRequests -> CcRecord] /\ cc'[r] = x /\ \A k \in CcRequests \ {r} : cc'[k] = cc[k]
    BY MovedAlone
<1>2. ChaincodeTypeOK'
    BY <1>1 DEF ChaincodeTypeOK, CcRecord, CcPc
<1>3. (Reserved /\ Pending)'
    BY <1>1, PortsKept
<1>. QED BY <1>1, <1>2, <1>3, OthersSound

\* The end of a request.
LEMMA EndStep ==
    ASSUME ChaincodeInv, NEW r \in CcRequests, cc' = [cc EXCEPT ![r] = CcIdle],
           UNCHANGED <<defn, allocated, owned, installed, container>>
    PROVE  ChaincodeInv'
<1>1. cc'[r] = CcIdle
    BY IdleTyped, MovedAlone DEF ChaincodeInv
<1>2. installed' \subseteq Peers \X Packages
    BY DEF ChaincodeInv, ChaincodeTypeOK
<1>. QED BY <1>1, <1>2, IdleTyped, EndSound, QuietStep

LEMMA BeginCcInv ==
    ASSUME ChaincodeInv, NEW r \in CcRequests, NEW d \in Definitions,
           NEW op \in {"install", "deploy", "undeploy"}, BeginCc(r, op, d)
    PROVE  ChaincodeInv'
<1>. DEFINE x == [CcIdle EXCEPT !.op = op, !.d = d, !.pc = "read"]
<1>1. x \in CcRecord /\ x.pc = "read" /\ x.d = d /\ x.op = op
    BY DEF CcIdle, CcRecord, CcPc, Addresses
<1>2. /\ cc' = [cc EXCEPT ![r] = x] /\ defn[d].row = "present"
      /\ UNCHANGED <<defn, allocated, owned, installed, container>>
    BY DEF BeginCc
<1>3. cc'[r] = x
    BY <1>1, <1>2, MovedAlone DEF ChaincodeInv
<1>4. Sound(r)'
    BY <1>1, <1>2, <1>3 DEF Sound, CallNamed, CallKind, AddressKnown, Progress, Exact
<1>5. installed' \subseteq Peers \X Packages
    BY <1>2 DEF ChaincodeInv, ChaincodeTypeOK
<1>. HIDE DEF x
<1>. QED BY <1>1, <1>2, <1>4, <1>5, QuietStep

LEMMA ReadDefinitionInv ==
    ASSUME ChaincodeInv, NEW r \in CcRequests, ReadDefinition(r)
    PROVE  ChaincodeInv'
<1>. DEFINE d == cc[r].d
            a == defn[d].addr
            To(pc) == [cc[r] EXCEPT !.addr = a, !.pc = pc, !.todo = Peers]
<1>0. /\ cc[r] \in CcRecord /\ cc[r].pc = "read" /\ cc[r].op \in {"install", "deploy", "undeploy"}
      /\ d \in Definitions /\ defn[d].row # "unborn" /\ a \in Addresses
      /\ UNCHANGED <<defn, allocated, owned, installed, container>>
      /\ installed' \subseteq Peers \X Packages
    BY CcTyped DEF ChaincodeInv, ChaincodeTypeOK, Sound, CallNamed, CallKind, ReadDefinition, CcRecord, DefnRow
<1>1. \/ cc' = [cc EXCEPT ![r] = CcIdle]
      \/ \E pc \in {"allocate", "install", "remove"} :
             /\ cc' = [cc EXCEPT ![r] = To(pc)]
             /\ pc = "remove" /\ cc[r].op # "undeploy" => a # 0
    BY <1>0 DEF ReadDefinition
<1>2. CASE cc' = [cc EXCEPT ![r] = CcIdle]
    BY <1>0, <1>2, EndStep
<1>3. ASSUME NEW pc \in {"allocate", "install", "remove"}, cc' = [cc EXCEPT ![r] = To(pc)],
             pc = "remove" /\ cc[r].op # "undeploy" => a # 0
      PROVE  ChaincodeInv'
    <2>1. /\ To(pc) \in CcRecord /\ To(pc).pc = pc /\ To(pc).d = d /\ To(pc).op = cc[r].op
          /\ To(pc).addr = a /\ To(pc).todo = Peers
        BY <1>0 DEF CcRecord, CcPc
    <2>2. cc'[r] = To(pc)
        BY <1>3, <2>1, MovedAlone DEF ChaincodeInv
    <2>. HIDE DEF To
    <2>3. CallNamed(r)'
        BY <1>0, <2>1, <2>2 DEF CallNamed
    <2>4. CallKind(r)'
        BY <1>0, <1>3, <2>1, <2>2 DEF CallKind, Addresses
    <2>5. AddressKnown(r)' /\ Progress(r)' /\ Exact(r)'
        BY <1>0, <2>1, <2>2 DEF AddressKnown, Progress, Exact
    <2>. QED BY <1>0, <1>3, <2>1, <2>3, <2>4, <2>5, QuietStep DEF Sound
<1>. QED BY <1>1, <1>2, <1>3

\* The port the loop finds: a set of ports has a first one.
LEMMA FirstPort ==
    ASSUME NEW free \in SUBSET PortRange, free # {}
    PROVE  (CHOOSE p \in free : \A q \in free : p <= q) \in free
<1>1. free \subseteq Nat
    BY ChaincodeAssumption DEF ChaincodeAssumption
<1>. DEFINE Less == {ss \in Nat \X Nat : ss[1] < ss[2]}
<1>2. IsWellFoundedOn(Less, Nat)
    BY NatLessThanWellFounded, Zenon DEF OpToRel
<1>. HIDE DEF Less
<1>3. PICK p \in free : \A q \in free : ~(<<q, p>> \in Less)
    BY <1>1, <1>2, WFMin
<1>4. \A q \in Nat : q < p => <<q, p>> \in Less
    BY <1>1 DEF Less
<1>5. ASSUME NEW q \in free PROVE p <= q
    <2>1. p \in Nat /\ q \in Nat
        BY <1>1
    <2>2. ~(q < p)
        BY <1>3, <1>4, <2>1
    <2>. QED BY <2>1, <2>2
<1>. QED BY <1>5

LEMMA GetFreePortInv ==
    ASSUME ChaincodeInv, NEW r \in CcRequests, GetFreePort(r)
    PROVE  ChaincodeInv'
<1>. USE DEF ChaincodeInv
<1>1. PICK port \in PortRange \ allocated :
          /\ cc' = [cc EXCEPT ![r] = [cc[r] EXCEPT !.addr = port, !.pc = "store"]]
          /\ allocated' = allocated \cup {port}
    <2>. DEFINE free == PortRange \ (allocated \cup Listening)
                port == CHOOSE p \in free : \A q \in free : p <= q
    <2>1. free # {} /\ allocated' = allocated \cup {port}
          /\ cc' = [cc EXCEPT ![r].addr = port, ![r].pc = "store"]
        BY DEF GetFreePort
    <2>2. port \in free
        BY <2>1, FirstPort
    <2>. HIDE DEF port
    <2>3. cc' = [cc EXCEPT ![r] = [cc[r] EXCEPT !.addr = port, !.pc = "store"]]
        BY <2>1, CcTyped
    <2>. QED BY <2>1, <2>2, <2>3
<1>. DEFINE x == [cc[r] EXCEPT !.addr = port, !.pc = "store"]
<1>2. x \in CcRecord /\ x.addr = port /\ x.pc = "store" /\ x.d = cc[r].d /\ x.op = cc[r].op /\ x.todo = cc[r].todo
    BY CcTyped DEF CcRecord, CcPc, Addresses
<1>3. cc[r].pc = "allocate" /\ UNCHANGED <<defn, owned, installed, container>>
    BY DEF GetFreePort
<1>4. cc' \in [CcRequests -> CcRecord] /\ cc'[r] = x /\ \A k \in CcRequests \ {r} : cc'[k] = cc[k]
    BY <1>1, <1>2, MovedAlone
<1>. HIDE DEF x
<1>5. ChaincodeTypeOK'
    BY <1>1, <1>3, <1>4 DEF ChaincodeTypeOK, CcRecord, CcPc
<1>6. Reserved'
    BY <1>1, <1>3 DEF Reserved, PortsApart
<1>7. Pending'
    BY <1>1, <1>2, <1>3, <1>4 DEF Pending, Reserved
<1>8. Sound(r)'
    BY <1>2, <1>3, <1>4 DEF Sound, CallNamed, CallKind, AddressKnown, Progress, Exact
<1>9. \A k \in CcRequests \ {r} : Sound(k)'
    BY <1>1, <1>2, <1>3, OthersSound DEF x
<1>. QED BY <1>5, <1>6, <1>7, <1>8, <1>9

LEMMA StoreAddressInv ==
    ASSUME ChaincodeInv, NEW r \in CcRequests, StoreAddress(r)
    PROVE  ChaincodeInv'
<1>. USE DEF ChaincodeInv
<1>. DEFINE d == cc[r].d
            a == cc[r].addr
            x == [cc[r] EXCEPT !.pc = "install"]
<1>0. /\ cc[r].pc = "store" /\ d \in Definitions /\ defn[d].row # "unborn" /\ a \in allocated
      /\ a \in Addresses /\ cc[r].todo = Peers /\ cc[r].op # "none"
      /\ cc' = [Disturb({d}) EXCEPT ![r] = x] /\ UNCHANGED <<allocated, installed, container>>
    BY CcTyped DEF StoreAddress, Sound, CallNamed, CallKind, Pending, CcRecord
<1>1. \/ defn[d].row = "present" /\ defn' = [defn EXCEPT ![d].addr = a] /\ owned' = owned \cup {d}
      \/ defn[d].row # "present" /\ UNCHANGED <<defn, owned>>
    BY DEF StoreAddress
<1>2. /\ x \in CcRecord /\ x.pc = "install" /\ x.d = d /\ x.addr = a /\ x.todo = Peers /\ x.op = cc[r].op
    BY <1>0, CcTyped DEF CcRecord, CcPc
<1>. HIDE DEF x
<1>3. /\ cc' \in [CcRequests -> CcRecord] /\ cc'[r] = x
      /\ \A k \in CcRequests \ {r} : cc'[k] = IF cc[k].d = d THEN [cc[k] EXCEPT !.clean = FALSE] ELSE cc[k]
    BY <1>0, <1>2, MovedDisturbingOwn
<1>4. ASSUME NEW k \in CcRequests \ {r}
      PROVE  /\ cc'[k].pc = cc[k].pc /\ cc'[k].addr = cc[k].addr /\ cc'[k].d = cc[k].d
             /\ cc'[k].clean => cc[k].d # d
    BY <1>3, CcTyped DEF CcRecord
<1>5. /\ defn' \in [Definitions -> DefnRow] /\ owned' \subseteq Definitions
      /\ \A e \in Definitions : defn'[e].row = defn[e].row
      /\ \A e \in Definitions \ {d} : defn'[e] = defn[e]
      /\ defn[d].row = "present" => defn'[d].addr = a
    BY <1>0, <1>1, CcTyped DEF DefnRow, ChaincodeTypeOK
<1>6. ChaincodeTypeOK'
    BY <1>0, <1>3, <1>5 DEF ChaincodeTypeOK, CcRecord, CcPc, DefnRow
<1>7. Reserved'
    <2>1. \A e \in owned : e \in Definitions /\ defn[e].addr # a
        BY <1>0 DEF Pending, ChaincodeTypeOK
    <2>2. PortsApart'
        BY <1>1, <1>5, <2>1 DEF Reserved, PortsApart
    <2>3. \A e \in owned' : defn'[e].row = "present" /\ defn'[e].addr \in allocated
        BY <1>0, <1>1, <1>5, <2>1 DEF Reserved
    <2>. QED BY <1>0, <2>2, <2>3 DEF Reserved
<1>8. Pending'
    <2>. SUFFICES ASSUME NEW k \in CcRequests, cc'[k].pc = "store"
                  PROVE  /\ cc'[k].addr \in allocated'
                         /\ \A e \in owned' : defn'[e].addr # cc'[k].addr
                         /\ \A j \in CcRequests \ {k} : cc'[j].pc = "store" => cc'[j].addr # cc'[k].addr
        BY DEF Pending
    <2>1. k # r /\ cc[k].pc = "store" /\ cc'[k].addr = cc[k].addr
        BY <1>2, <1>3, <1>4
    <2>2. /\ cc[k].addr \in allocated /\ cc[k].addr # a
          /\ \A e \in owned : defn[e].addr # cc[k].addr
          /\ \A j \in CcRequests \ {k} : cc[j].pc = "store" => cc[j].addr # cc[k].addr
        BY <1>0, <2>1 DEF Pending
    <2>3. \A e \in owned' : defn'[e].addr # cc'[k].addr
        BY <1>0, <1>1, <1>5, <2>1, <2>2 DEF ChaincodeTypeOK
    <2>4. \A j \in CcRequests \ {k} : cc'[j].pc = "store" => cc'[j].addr # cc'[k].addr
        BY <1>2, <1>3, <1>4, <2>1, <2>2
    <2>5. cc'[k].addr \in allocated'
        BY <1>0, <2>1, <2>2
    <2>. QED BY <2>3, <2>4, <2>5
<1>9. Sound(r)'
    BY <1>0, <1>2, <1>3, <1>5 DEF Sound, CallNamed, CallKind, AddressKnown, Progress, Exact
<1>10. ASSUME NEW k \in CcRequests \ {r} PROVE Sound(k)'
    <2>1. cc[k].pc # "idle" => cc[k].d \in Definitions /\ defn'[cc[k].d].row # "unborn"
        BY <1>5 DEF Sound, CallNamed
    <2>2. cc[k].pc # "idle" /\ cc'[k].clean => defn'[cc[k].d] = defn[cc[k].d]
        BY <1>4, <1>5, <2>1
    <2>3. Of(cc[k].d)' = Of(cc[k].d)
        BY <1>0, <1>4 DEF Of
    <2>. QED BY <1>0, <1>3, <2>1, <2>2, <2>3, StaysSound
<1>. QED BY <1>6, <1>7, <1>8, <1>9, <1>10

\* One peer is done with, served or not.
LEMMA PeerDone ==
    ASSUME ChaincodeInv, NEW r \in CcRequests, NEW p \in cc[r].todo, NEW failed \in BOOLEAN,
           cc[r].pc = "install",
           cc' = [cc EXCEPT ![r] = [cc[r] EXCEPT !.todo = @ \ {p}, !.failed = failed,
                                                 !.pc = IF cc[r].todo = {p} THEN "installed" ELSE "install"]],
           UNCHANGED <<defn, allocated, owned, container>>,
           ~failed => ~cc[r].failed /\ <<p, Package(cc[r].d, cc[r].addr)>> \in installed',
           installed \subseteq installed', installed' \subseteq Peers \X Packages
    PROVE  ChaincodeInv'
<1>. DEFINE pc == IF cc[r].todo = {p} THEN "installed" ELSE "install"
            x  == [cc[r] EXCEPT !.todo = @ \ {p}, !.failed = failed, !.pc = pc]
<1>0. cc[r] \in CcRecord /\ Sound(r)
    BY CcTyped DEF ChaincodeInv
<1>1. /\ x \in CcRecord /\ x.pc = pc /\ x.d = cc[r].d /\ x.addr = cc[r].addr /\ x.todo = cc[r].todo \ {p}
      /\ x.op = cc[r].op /\ x.failed = failed /\ x.clean = cc[r].clean
    BY <1>0 DEF CcRecord, CcPc
<1>2. cc' = [cc EXCEPT ![r] = x]
    OBVIOUS
<1>3. cc'[r] = x
    BY <1>1, <1>2, MovedAlone DEF ChaincodeInv
<1>. HIDE DEF x
<1>4. CallNamed(r)' /\ CallKind(r)'
    BY <1>0, <1>1, <1>3 DEF Sound, CallNamed, CallKind
<1>5. AddressKnown(r)' /\ Exact(r)'
    BY <1>0, <1>1, <1>3 DEF Sound, AddressKnown, Exact
<1>6. Progress(r)'
    BY <1>0, <1>1, <1>3 DEF Sound, Progress, Package
<1>. QED BY <1>1, <1>2, <1>4, <1>5, <1>6, QuietStep DEF Sound

LEMMA InstallPackageInv ==
    ASSUME ChaincodeInv, NEW r \in CcRequests, NEW p \in Peers, InstallPackage(r, p)
    PROVE  ChaincodeInv'
<1>1. /\ cc[r] \in CcRecord /\ cc[r].failed \in BOOLEAN /\ cc[r].pc = "install" /\ p \in cc[r].todo
      /\ cc[r].d \in Definitions /\ cc[r].addr \in Addresses
    BY CcTyped DEF InstallPackage, ChaincodeInv, Sound, CallNamed, CcRecord
<1>2. /\ installed' = installed \cup {<<p, Package(cc[r].d, cc[r].addr)>>}
      /\ UNCHANGED <<defn, allocated, owned, container>>
    BY DEF InstallPackage
<1>3. cc' = [cc EXCEPT ![r] = [cc[r] EXCEPT !.todo = @ \ {p}, !.failed = cc[r].failed,
                                           !.pc = IF cc[r].todo = {p} THEN "installed" ELSE "install"]]
    BY <1>1, CcTyped DEF InstallPackage, ChaincodeInv, CcRecord
<1>4. installed' \subseteq Peers \X Packages
    BY <1>1, <1>2 DEF ChaincodeInv, ChaincodeTypeOK, Packages, Package, Labels
<1>. QED BY <1>1, <1>2, <1>3, <1>4, PeerDone

LEMMA PeerFailsInv ==
    ASSUME ChaincodeInv, NEW r \in CcRequests, NEW p \in Peers, PeerFails(r, p)
    PROVE  ChaincodeInv'
<1>1. /\ cc[r] \in CcRecord /\ cc[r].pc = "install" /\ p \in cc[r].todo
      /\ UNCHANGED <<defn, allocated, owned, installed, container>>
    BY CcTyped DEF PeerFails, ChaincodeInv
<1>2. cc' = [cc EXCEPT ![r] = [cc[r] EXCEPT !.todo = @ \ {p}, !.failed = TRUE,
                                           !.pc = IF cc[r].todo = {p} THEN "installed" ELSE "install"]]
    BY <1>1, CcTyped DEF PeerFails, ChaincodeInv, CcRecord
<1>3. installed' \subseteq Peers \X Packages
    BY <1>1 DEF ChaincodeInv, ChaincodeTypeOK
<1>. QED BY <1>1, <1>2, <1>3, PeerDone

-----------------------------------------------------------------------------
(* The containers.                                                         *)

LEMMA RemoveContainersInv ==
    ASSUME ChaincodeInv, NEW r \in CcRequests, RemoveContainers(r)
    PROVE  ChaincodeInv'
<1>. USE DEF ChaincodeInv
<1>1. PICK kept \in SUBSET Doomed(r) :
          /\ container' = container \ (Doomed(r) \ kept)
          /\ cc' = [Disturb({c.d : c \in Doomed(r) \ kept}) EXCEPT ![r] =
                       IF cc[r].op = "deploy"
                       THEN [cc[r] EXCEPT !.pc = "create", !.clean = @ /\ kept = {}]
                       ELSE IF kept = {} THEN [cc[r] EXCEPT !.pc = "removed"] ELSE CcIdle]
    BY DEF RemoveContainers
<1>. DEFINE gone == Doomed(r) \ kept
            D    == {c.d : c \in gone}
            x    == IF cc[r].op = "deploy"
                    THEN [cc[r] EXCEPT !.pc = "create", !.clean = @ /\ kept = {}]
                    ELSE IF kept = {} THEN [cc[r] EXCEPT !.pc = "removed"] ELSE CcIdle
<1>0. /\ cc[r].pc = "remove" /\ cc[r] \in CcRecord /\ cc[r].d \in Definitions /\ defn[cc[r].d].row # "unborn"
      /\ cc[r].op # "none" /\ (cc[r].op # "undeploy" => cc[r].addr \in PortRange)
      /\ UNCHANGED <<defn, allocated, owned, installed>>
    BY CcTyped DEF RemoveContainers, Sound, CallNamed, CallKind
<1>2. /\ x \in CcRecord /\ x.pc \in {"create", "removed", "idle"}
      /\ x.pc # "idle" => /\ x.d = cc[r].d /\ x.op = cc[r].op /\ x.addr = cc[r].addr
                          /\ x.clean => cc[r].clean /\ kept = {}
      /\ x.pc = "create" => x.op = "deploy"
    <2>1. CASE cc[r].op = "deploy"
        BY <1>0, <2>1 DEF CcRecord, CcPc
    <2>2. CASE cc[r].op # "deploy" /\ kept = {}
        BY <1>0, <2>2 DEF CcRecord, CcPc
    <2>3. CASE cc[r].op # "deploy" /\ kept # {}
        BY <2>3, IdleTyped
    <2>. QED BY <2>1, <2>2, <2>3
<1>. HIDE DEF x
<1>3. /\ cc' \in [CcRequests -> CcRecord] /\ cc'[r] = x
      /\ \A k \in CcRequests \ {r} : cc'[k] = IF cc[k].d \in D THEN [cc[k] EXCEPT !.clean = FALSE] ELSE cc[k]
    <2>1. cc' = [Disturb(D) EXCEPT ![r] = x]
        BY <1>1 DEF x
    <2>. HIDE DEF D
    <2>. QED BY <1>2, <2>1, MovedDisturbing
<1>4. ASSUME NEW k \in CcRequests \ {r}
      PROVE  /\ cc'[k].pc = cc[k].pc /\ cc'[k].addr = cc[k].addr /\ cc'[k].d = cc[k].d
             /\ cc'[k].clean => cc[k].d \notin D
    <2>. HIDE DEF D
    <2>. QED BY <1>3, CcTyped DEF CcRecord
<1>5. ChaincodeTypeOK'
    <2>1. container' \subseteq container
        BY <1>1
    <2>. QED BY <1>0, <1>3, <2>1 DEF ChaincodeTypeOK, CcRecord, CcPc
<1>6. (Reserved /\ Pending)'
    BY <1>0, <1>2, <1>3, <1>4, PortsKept
<1>7. Sound(r)'
    <2>1. CallNamed(r)' /\ CallKind(r)' /\ AddressKnown(r)' /\ Progress(r)'
        BY <1>0, <1>2, <1>3 DEF Sound, CallNamed, CallKind, AddressKnown, Progress
    <2>2. Exact(r)'
        <3>. SUFFICES ASSUME x.clean, x.pc # "idle" PROVE Of(cc[r].d)' = {}
            BY <1>2, <1>3 DEF Exact
        <3>1. container' = container \ Doomed(r) /\ cc'[r].d = cc[r].d
            BY <1>1, <1>2, <1>3
        <3>. QED BY <3>1 DEF Of, Doomed
    <2>. QED BY <2>1, <2>2 DEF Sound
<1>8. ASSUME NEW k \in CcRequests \ {r} PROVE Sound(k)'
    <2>1. cc[k].pc # "idle" => defn[cc[k].d].row # "unborn"
        BY DEF Sound, CallNamed
    <2>2. cc'[k].clean => Of(cc[k].d)' = Of(cc[k].d)
        BY <1>1, <1>4 DEF Of
    <2>. QED BY <1>0, <1>3, <2>1, <2>2, StaysSound
<1>. QED BY <1>5, <1>6, <1>7, <1>8

LEMMA ContainerUp ==
    ASSUME NEW c \in CcContainer, NEW e \in CcContainer, e.up = TRUE,
           e.d = c.d, e.pkg = c.pkg, e.port = c.port, e.by = c.by
    PROVE  [c EXCEPT !.up = TRUE] = e
BY DEF CcContainer

LEMMA PlacedTyped ==
    ASSUME NEW r \in CcRequests, NEW up \in BOOLEAN, cc[r].d \in Definitions, cc[r].addr \in PortRange
    PROVE  Placed(r, up) \in CcContainer
BY DEF Placed, Package, Packages, Labels, Addresses, CcContainer

LEMMA PlacedUp ==
    ASSUME NEW r \in CcRequests, cc[r].d \in Definitions, cc[r].addr \in PortRange
    PROVE  [Placed(r, FALSE) EXCEPT !.up = TRUE] = Placed(r, TRUE)
<1>1. Placed(r, TRUE) \in CcContainer /\ Placed(r, FALSE) \in CcContainer
    BY PlacedTyped
<1>2. /\ Placed(r, TRUE).up = TRUE /\ Placed(r, TRUE).d = Placed(r, FALSE).d
      /\ Placed(r, TRUE).pkg = Placed(r, FALSE).pkg /\ Placed(r, TRUE).port = Placed(r, FALSE).port
      /\ Placed(r, TRUE).by = Placed(r, FALSE).by
    BY DEF Placed
<1>. QED BY <1>1, <1>2, ContainerUp

LEMMA CreateContainerInv ==
    ASSUME ChaincodeInv, NEW r \in CcRequests, CreateContainer(r)
    PROVE  ChaincodeInv'
<1>. USE DEF ChaincodeInv
<1>. DEFINE d == cc[r].d
            x == [cc[r] EXCEPT !.pc = "start"]
<1>0. /\ cc[r].pc = "create" /\ cc[r] \in CcRecord /\ d \in Definitions /\ defn[d].row # "unborn"
      /\ cc[r].op = "deploy" /\ cc[r].addr \in PortRange
      /\ UNCHANGED <<defn, allocated, owned, installed>>
    BY CcTyped DEF CreateContainer, Sound, CallNamed, CallKind
<1>1. CASE Named(r) # {}
    BY <1>0, <1>1, EndStep DEF CreateContainer
<1>2. CASE Named(r) = {}
    <2>1. /\ container' = container \cup {Placed(r, FALSE)}
          /\ cc' = [Disturb({d}) EXCEPT ![r] = x]
        BY <1>2 DEF CreateContainer, Placed
    <2>2. /\ x \in CcRecord /\ x.pc = "start" /\ x.d = d /\ x.op = "deploy" /\ x.addr = cc[r].addr
          /\ x.clean = cc[r].clean
        BY <1>0 DEF CcRecord, CcPc
    <2>. HIDE DEF x
    <2>3. /\ cc' \in [CcRequests -> CcRecord] /\ cc'[r] = x
          /\ \A k \in CcRequests \ {r} : cc'[k] = IF cc[k].d = d THEN [cc[k] EXCEPT !.clean = FALSE] ELSE cc[k]
        BY <2>1, <2>2, MovedDisturbingOwn
    <2>4. ASSUME NEW k \in CcRequests \ {r}
          PROVE  /\ cc'[k].pc = cc[k].pc /\ cc'[k].addr = cc[k].addr /\ cc'[k].d = cc[k].d
                 /\ cc'[k].clean => cc[k].d # d
        BY <2>3, CcTyped DEF CcRecord
    <2>5. ChaincodeTypeOK'
        <3>1. Placed(r, FALSE) \in CcContainer
            BY <1>0, PlacedTyped
        <3>2. container' \subseteq CcContainer
            BY <2>1, <3>1 DEF ChaincodeTypeOK, CcContainer
        <3>. QED BY <1>0, <2>3, <3>2 DEF ChaincodeTypeOK, CcRecord, CcPc, CcContainer
    <2>6. (Reserved /\ Pending)'
        BY <1>0, <2>2, <2>3, <2>4, PortsKept
    <2>7. Sound(r)'
        <3>1. CallNamed(r)' /\ CallKind(r)' /\ AddressKnown(r)' /\ Progress(r)'
            BY <1>0, <2>2, <2>3 DEF Sound, CallNamed, CallKind, AddressKnown, Progress
        <3>2. Exact(r)'
            <4>. SUFFICES ASSUME cc[r].clean PROVE Of(cc[r].d)' = {Placed(r, FALSE)'}
                BY <2>2, <2>3 DEF Exact
            <4>1. Of(d) = {}
                BY <1>0 DEF Sound, Exact
            <4>2. Placed(r, FALSE)' = Placed(r, FALSE) /\ Placed(r, FALSE).d = d
                BY <2>2, <2>3 DEF Placed, Package
            <4>. QED BY <2>1, <2>2, <2>3, <4>1, <4>2, ZenonT(40) DEF Of
        <3>. QED BY <3>1, <3>2 DEF Sound
    <2>8. ASSUME NEW k \in CcRequests \ {r} PROVE Sound(k)'
        <3>1. cc[k].pc # "idle" => defn[cc[k].d].row # "unborn"
            BY DEF Sound, CallNamed
        <3>2. Placed(r, FALSE).d = d
            BY DEF Placed
        <3>3. cc'[k].clean => Of(cc[k].d)' = Of(cc[k].d)
            <4>. SUFFICES ASSUME cc'[k].clean PROVE Of(cc[k].d)' = Of(cc[k].d)
                OBVIOUS
            <4>1. cc[k].d # d /\ cc'[k].d = cc[k].d
                BY <2>4
            <4>2. {c \in container' : c.d = cc[k].d} = Of(cc[k].d)
                BY <2>1, <3>2, <4>1 DEF Of
            <4>. QED BY <4>1, <4>2 DEF Of
        <3>. QED BY <1>0, <2>3, <3>1, <3>3, StaysSound
    <2>. QED BY <2>5, <2>6, <2>7, <2>8
<1>. QED BY <1>1, <1>2

LEMMA StartContainerInv ==
    ASSUME ChaincodeInv, NEW r \in CcRequests, StartContainer(r)
    PROVE  ChaincodeInv'
<1>. USE DEF ChaincodeInv
<1>. DEFINE d    == cc[r].d
            mine == {c \in Named(r) : c.d = d /\ c.by = r}
            x    == [cc[r] EXCEPT !.pc = "deployed"]
<1>0. /\ cc[r].pc = "start" /\ cc[r] \in CcRecord /\ d \in Definitions /\ defn[d].row # "unborn"
      /\ cc[r].op = "deploy" /\ cc[r].addr \in PortRange
      /\ UNCHANGED <<defn, allocated, owned, installed>>
    BY CcTyped DEF StartContainer, Sound, CallNamed, CallKind
<1>1. CASE ~(mine # {} /\ cc[r].addr \notin Listening)
    BY <1>0, <1>1, EndStep DEF StartContainer
<1>2. CASE mine # {} /\ cc[r].addr \notin Listening
    <2>1. /\ container' = (container \ mine) \cup {[c EXCEPT !.up = TRUE] : c \in mine}
          /\ cc' = [cc EXCEPT ![r] = x]
        BY <1>2 DEF StartContainer
    <2>2. /\ x \in CcRecord /\ x.pc = "deployed" /\ x.d = d /\ x.op = "deploy" /\ x.addr = cc[r].addr
          /\ x.clean = cc[r].clean
        BY <1>0 DEF CcRecord, CcPc
    <2>. HIDE DEF x
    <2>3. /\ cc' \in [CcRequests -> CcRecord] /\ cc'[r] = x /\ \A k \in CcRequests \ {r} : cc'[k] = cc[k]
        BY <2>1, <2>2, MovedAlone
    <2>4. \A c \in container : /\ c \in CcContainer /\ [c EXCEPT !.up = TRUE] \in CcContainer
                               /\ [c EXCEPT !.up = TRUE].d = c.d
        BY DEF ChaincodeTypeOK, CcContainer
    <2>5. mine \subseteq container
        BY DEF Named
    <2>6. ChaincodeTypeOK'
        <3>1. container' \subseteq CcContainer
            BY <2>1, <2>4, <2>5
        <3>. QED BY <1>0, <2>3, <3>1 DEF ChaincodeTypeOK, CcRecord, CcPc, CcContainer
    <2>7. (Reserved /\ Pending)'
        BY <1>0, <2>2, <2>3, PortsKept
    <2>8. \A e \in Definitions \ {d} : {c \in container' : c.d = e} = Of(e)
        <3>. DEFINE Up(c) == [c EXCEPT !.up = TRUE]
        <3>1. container' = (container \ mine) \cup {Up(c) : c \in mine}
            BY <2>1
        <3>2. \A c \in mine : c.d = d /\ Up(c).d = d
            BY <2>4, <2>5
        <3>. HIDE DEF Up, mine
        <3>. QED BY <2>5, <3>1, <3>2 DEF Of
    <2>9. Sound(r)'
        <3>1. CallNamed(r)' /\ CallKind(r)' /\ AddressKnown(r)' /\ Progress(r)'
            BY <1>0, <2>2, <2>3 DEF Sound, CallNamed, CallKind, AddressKnown, Progress
        <3>2. Exact(r)'
            <4>. SUFFICES ASSUME cc[r].clean PROVE Of(cc[r].d)' = {Placed(r, TRUE)'}
                BY <2>2, <2>3 DEF Exact
            <4>1. Of(d) = {Placed(r, FALSE)}
                BY <1>0 DEF Sound, Exact
            <4>2. mine = {Placed(r, FALSE)}
                <5>1. mine \subseteq Of(d)
                    BY DEF Of, Named
                <5>. QED BY <1>2, <4>1, <5>1
            <4>3. Placed(r, FALSE).d = d /\ Placed(r, TRUE).d = d
                BY DEF Placed
            <4>4. Placed(r, TRUE)' = Placed(r, TRUE)
                BY <2>2, <2>3 DEF Placed, Package
            <4>5. container' = (container \ {Placed(r, FALSE)}) \cup {Placed(r, TRUE)}
                <5>. DEFINE Up(c) == [c EXCEPT !.up = TRUE]
                <5>1. container' = (container \ mine) \cup {Up(c) : c \in mine}
                    BY <2>1
                <5>2. Up(Placed(r, FALSE)) = Placed(r, TRUE)
                    BY <1>0, PlacedUp
                <5>. HIDE DEF Up, mine
                <5>. QED BY <4>2, <5>1, <5>2
            <4>6. {c \in container' : c.d = d} = {Placed(r, TRUE)}
                BY <4>1, <4>3, <4>5 DEF Of
            <4>. QED BY <2>2, <2>3, <4>4, <4>6 DEF Of
        <3>. QED BY <3>1, <3>2 DEF Sound
    <2>10. ASSUME NEW k \in CcRequests \ {r} PROVE Sound(k)'
        <3>1. cc[k].pc # "idle" => cc[k].d \in Definitions /\ defn[cc[k].d].row # "unborn"
            BY DEF Sound, CallNamed
        <3>2. ASSUME cc[k].clean, cc[k].pc \in {"create", "start", "deployed", "removed"}, cc[k].d = d PROVE FALSE
            <4>1. PICK c \in mine : TRUE
                BY <1>2
            <4>2. c \in container /\ c.d = d /\ c.by = r
                BY <4>1, <2>5
            <4>3. Of(d) = {} \/ Of(d) = {Placed(k, FALSE)} \/ Of(d) = {Placed(k, TRUE)}
                BY <3>2 DEF Sound, Exact
            <4>4. Placed(k, FALSE).by = k /\ Placed(k, TRUE).by = k
                BY DEF Placed
            <4>. QED BY <4>2, <4>3, <4>4 DEF Of
        <3>3. cc[k].clean /\ cc[k].pc \in {"create", "start", "deployed", "removed"} => Of(cc[k].d)' = Of(cc[k].d)
            BY <2>3, <2>8, <3>1, <3>2 DEF Of
        <3>. QED BY <1>0, <2>3, <3>1, <3>3, StaysSound
    <2>. QED BY <2>6, <2>7, <2>9, <2>10
<1>. QED BY <1>1, <1>2

LEMMA FinishCcInv ==
    ASSUME ChaincodeInv, NEW r \in CcRequests, FinishCc(r)
    PROVE  ChaincodeInv'
BY EndStep DEF FinishCc

LEMMA CcFailsInv ==
    ASSUME ChaincodeInv, NEW r \in CcRequests, CcFails(r)
    PROVE  ChaincodeInv'
BY EndStep DEF CcFails

LEMMA NoFreePortInv ==
    ASSUME ChaincodeInv, NEW r \in CcRequests, NoFreePort(r)
    PROVE  ChaincodeInv'
BY EndStep DEF NoFreePort

-----------------------------------------------------------------------------
(* Every step.                                                             *)

LEMMA CcStepInv ==
    ASSUME ChaincodeInv, NEW r \in CcRequests, CcStep(r)
    PROVE  ChaincodeInv'
<1>1. ASSUME NEW d \in Definitions, NEW op \in {"install", "deploy", "undeploy"}, BeginCc(r, op, d)
      PROVE  ChaincodeInv'
    BY <1>1, BeginCcInv
<1>2. ASSUME NEW p \in Peers, InstallPackage(r, p) \/ PeerFails(r, p) PROVE ChaincodeInv'
    BY <1>2, InstallPackageInv, PeerFailsInv
<1>3. CASE ReadDefinition(r)
    BY <1>3, ReadDefinitionInv
<1>4. CASE GetFreePort(r) \/ NoFreePort(r) \/ StoreAddress(r)
    BY <1>4, GetFreePortInv, NoFreePortInv, StoreAddressInv
<1>5. CASE RemoveContainers(r) \/ CreateContainer(r) \/ StartContainer(r)
    BY <1>5, RemoveContainersInv, CreateContainerInv, StartContainerInv
<1>6. CASE FinishCc(r) \/ CcFails(r)
    BY <1>6, FinishCcInv, CcFailsInv
<1>. QED BY <1>1, <1>2, <1>3, <1>4, <1>5, <1>6 DEF CcStep

LEMMA StutterInv ==
    ASSUME ChaincodeInv, UNCHANGED chaincodeVars
    PROVE  ChaincodeInv'
<1>1. UNCHANGED <<defn, allocated, owned, installed, container, cc>>
    BY DEF chaincodeVars
<1>2. ChaincodeTypeOK'
    BY <1>1 DEF ChaincodeInv, ChaincodeTypeOK
<1>3. (Reserved /\ Pending)'
    BY <1>1 DEF ChaincodeInv, Reserved, PortsApart, Pending
<1>4. ASSUME NEW r \in CcRequests PROVE Sound(r)'
    <2>1. Of(cc[r].d)' = Of(cc[r].d)
        BY <1>1 DEF Of
    <2>2. Sound(r) /\ (cc[r].pc # "idle" => defn[cc[r].d].row # "unborn")
        BY DEF ChaincodeInv, Sound, CallNamed
    <2>. QED BY <1>1, <2>1, <2>2, StaysSound DEF ChaincodeInv
<1>. QED BY <1>2, <1>3, <1>4 DEF ChaincodeInv

LEMMA ChaincodeStep == ChaincodeInv /\ [ChaincodeNext]_chaincodeVars => ChaincodeInv'
<1>. SUFFICES ASSUME ChaincodeInv, [ChaincodeNext]_chaincodeVars PROVE ChaincodeInv'
    OBVIOUS
<1>1. ASSUME NEW d \in Definitions, NEW a \in Addresses, CreateDefinition(d, a) \/ UpdateDefinition(d, a)
      PROVE  ChaincodeInv'
    BY <1>1, CreateDefinitionInv, UpdateDefinitionInv
<1>2. ASSUME NEW d \in Definitions, DeleteDefinition(d) PROVE ChaincodeInv'
    BY <1>2, DropInv DEF DeleteDefinition
<1>3. ASSUME NEW l \in Labels, DeleteChaincode(l) PROVE ChaincodeInv'
    <2>. DEFINE D == {d \in Definitions : defn[d].row = "present" /\ LabelOf[d] = l}
    <2>1. D \in SUBSET Definitions /\ (\A d \in D : defn[d].row = "present") /\ Drop(D)
        BY <1>3 DEF DeleteChaincode
    <2>. HIDE DEF D
    <2>. QED BY <2>1, DropInv
<1>4. ASSUME NEW r \in CcRequests, CcStep(r) PROVE ChaincodeInv'
    BY <1>4, CcStepInv
<1>. QED BY <1>1, <1>2, <1>3, <1>4, RestartServerInv, StutterInv DEF ChaincodeNext

-----------------------------------------------------------------------------
(* What holds in every behaviour.                                          *)

LEMMA InvInstalled == ChaincodeInv => InstalledIsOfRow
<1>. SUFFICES ASSUME ChaincodeInv, NEW r \in CcRequests, cc[r].pc = "installed", ~cc[r].failed,
                     cc[r].clean, defn[cc[r].d].row = "present"
              PROVE  \A p \in Peers : <<p, Package(cc[r].d, defn[cc[r].d].addr)>> \in installed
    BY DEF InstalledIsOfRow
<1>1. cc[r].todo = {} /\ defn[cc[r].d].addr = cc[r].addr
    BY DEF ChaincodeInv, Sound, CallKind, AddressKnown
<1>. QED BY <1>1 DEF ChaincodeInv, Sound, Progress

LEMMA InvDeployment == ChaincodeInv => DeploymentIsExact
<1>. SUFFICES ASSUME ChaincodeInv, NEW r \in CcRequests, cc[r].pc \in {"deployed", "removed"}, cc[r].clean
              PROVE  IF cc[r].pc = "removed" THEN Of(cc[r].d) = {}
                     ELSE defn[cc[r].d].row = "present" =>
                              Of(cc[r].d) = {[d |-> cc[r].d, pkg |-> Package(cc[r].d, defn[cc[r].d].addr),
                                              port |-> defn[cc[r].d].addr, up |-> TRUE, by |-> r]}
    BY DEF DeploymentIsExact
<1>1. Exact(r) /\ AddressKnown(r)
    BY DEF ChaincodeInv, Sound
<1>2. CASE cc[r].pc = "removed"
    BY <1>1, <1>2 DEF Exact
<1>3. CASE cc[r].pc = "deployed"
    <2>1. Of(cc[r].d) = {Placed(r, TRUE)} /\ (defn[cc[r].d].row = "present" => defn[cc[r].d].addr = cc[r].addr)
        BY <1>1, <1>3 DEF Exact, AddressKnown
    <2>. QED BY <1>3, <2>1 DEF Placed
<1>. QED BY <1>2, <1>3

LEMMA InvParts == ChaincodeInv => ChaincodeTypeOK /\ PortsApart
BY DEF ChaincodeInv, Reserved

(* Rows, ports, packages, containers and requests always have their type.  *)
THEOREM ChaincodeTypeCorrect == ChaincodeSpec => []ChaincodeTypeOK
BY ChaincodeInitInv, ChaincodeStep, InvParts, PTL DEF ChaincodeSpec

(* Two definitions whose addresses this process allocated never share a    *)
(* port, whatever the number of installs that race for one and whatever    *)
(* else goes on: GetFreePort looks ports up in the map under portMutex, and *)
(* a port once in the map is never given again.                            *)
THEOREM PortsStayApart == ChaincodeSpec => []PortsApart
BY ChaincodeInitInv, ChaincodeStep, InvParts, PTL DEF ChaincodeSpec

(* An install that reported success undisturbed has left on every peer the *)
(* package that a later approve or deploy computes from the row.           *)
THEOREM InstalledAlwaysOfRow == ChaincodeSpec => []InstalledIsOfRow
BY ChaincodeInitInv, ChaincodeStep, InvInstalled, PTL DEF ChaincodeSpec

(* A deploy that reported success undisturbed leaves one container of its  *)
(* definition, running at the row's address with the row's package; an     *)
(* undisturbed removal leaves none.                                        *)
THEOREM DeploymentAlwaysExact == ChaincodeSpec => []DeploymentIsExact
BY ChaincodeInitInv, ChaincodeStep, InvDeployment, PTL DEF ChaincodeSpec
=============================================================================
