------------------------- MODULE NodeGroups_proofs -------------------------
(* Proofs about NodeGroups for every set of groups, roles, requests and    *)
(* operations, and every bound on the rows: its types, that a transient    *)
(* status has an owner, what becomes of the rows of nodes, and, for a name *)
(* whose groups have one client at a time, that a group reported RUNNING   *)
(* is up and that the order of its roles is kept.                          *)
EXTENDS NodeGroups, TLAPS

\* What the fields of a request hold at each of its program counters.
Shape(r) ==
        /\ r.pc \in {"generate", "persist", "insert", "config", "link", "initNode",
                          "created", "prepare", "list", "child", "paused"} => r.g \in Groups
        /\ r.pc \in {"config", "link", "initNode", "created", "effect", "settle",
                          "stopFirst", "remove"} => r.n \in NodeIds
        /\ r.pc \in {"effect", "settle", "stopFirst", "remove"} => r.row # NoNode
        /\ r.pc \in {"prepare", "list", "child", "effect", "settle"} =>
               r.verb \in {"start", "stop"}

ReqOK  == /\ req \in [Requests -> Locals]
          /\ \A h \in Requests : Shape(req[h])
GrpOK  == /\ grp \in [Groups -> [status : GroupStatus \cup Gone, dep : Requests \cup {None}]]
          /\ \A g \in Groups : ~Exists(g) => grp[g].dep = None
NodeOK == /\ node \in [NodeIds -> Rows]
          /\ lastNode \in 0..MaxNodes
          /\ \A n \in NodeIds : Present(n) => n <= lastNode
Slugs  == {Slug(g, role) : g \in Groups, role \in RoleSet \cup {Committer}}
UpOK   == up \subseteq Slugs

\* The inductive strengthening of TypeOK.
TypeInv == GrpOK /\ NodeOK /\ UpOK /\ ReqOK

LEMMA NoneFresh == None \notin NodeIds /\ None \notin Groups /\ None \notin Requests
BY ConstantsAssumption

LEMMA NoNodeRow == NoNode \in Rows
BY DEF Rows

LEMMA IdleType == Idle \in Locals
BY NoNodeRow DEF Idle, Locals, Pcs

LEMMA RoleFacts ==
    /\ Len(Roles) \in Nat /\ Len(InitRoles) \in Nat
    /\ \A k \in 1..Len(Roles) : Roles[k] \in RoleSet
    /\ \A k \in 1..Len(InitRoles) : InitRoles[k] \in RoleSet
    /\ \A r \in RoleSet : r \in STRING /\ r # Committer
    /\ \A g \in Groups : NameOf[g] \in STRING
<1>1. Len(Roles) \in Nat /\ Len(InitRoles) \in Nat
      /\ DOMAIN Roles = 1..Len(Roles) /\ DOMAIN InitRoles = 1..Len(InitRoles)
      /\ \A k \in 1..Len(Roles) : Roles[k] \in STRING
  BY ConstantsAssumption DEF ConstantsAssumption
<1>2. RoleSet = {InitRoles[k] : k \in DOMAIN InitRoles} /\ Committer \notin RoleSet
      /\ NameOf \in [Groups -> STRING]
  BY ConstantsAssumption DEF ConstantsAssumption
<1>3. \A k \in 1..Len(InitRoles) : InitRoles[k] \in RoleSet
  BY <1>1, <1>2
<1> QED
  BY <1>1, <1>2, <1>3 DEF RoleSet

LEMMA ChildrenType ==
    ASSUME NEW g \in Groups
    PROVE  Children(g) \in [RoleSet -> NodeIds \cup {None}]
BY DEF Children



LEMMA IdleShape == Shape(Idle)
BY DEF Shape, Idle

\* A row that is not NoNode is a row of a group.
LEMMA RowFields ==
    ASSUME NEW row \in Rows, row # NoNode
    PROVE  /\ row.group \in Groups /\ row.role \in RoleSet \cup {Committer}
           /\ row.status \in NodeStatus /\ row.linked \in BOOLEAN
           /\ row.dep \in Requests \cup {None}
           /\ SlugOf(row) \in Slugs
<1>1. row.group \in Groups /\ row.role \in RoleSet \cup {Committer}
      /\ row.status \in NodeStatus /\ row.linked \in BOOLEAN
      /\ row.dep \in Requests \cup {None}
  BY DEF Rows
<1> QED
  BY <1>1 DEF SlugOf, Slugs

LEMMA PresentRow ==
    ASSUME NodeOK, NEW n \in NodeIds, Present(n)
    PROVE  node[n] \in Rows /\ node[n] # NoNode
BY DEF NodeOK, Present, NoNode

LEMMA AbsentRow ==
    ASSUME NodeOK, NEW n \in NodeIds, ~Present(n)
    PROVE  node[n] = NoNode
BY RowFields DEF NodeOK, Present, NodeStatus, GroupStatus

\* Changing one column of a row gives a row.
LEMMA RowUpdate ==
    ASSUME NEW row \in Rows, row # NoNode
    PROVE  /\ \A s \in NodeStatus : [row EXCEPT !.status = s] \in Rows
           /\ \A b \in BOOLEAN : [row EXCEPT !.linked = b] \in Rows
           /\ \A d \in Requests \cup {None} : [row EXCEPT !.dep = d] \in Rows
BY DEF Rows

LEMMA NoNodeSame ==
    [NoNode EXCEPT !.linked = FALSE] = NoNode /\ [NoNode EXCEPT !.status = "absent"] = NoNode
<1>1. NoNode \in [group : {None}, role : {"none"}, linked : BOOLEAN, dep : {None},
                  status : {"absent"}]
  BY DEF NoNode
<1> QED
  BY <1>1 DEF NoNode

LEMMA WriteGroupOK ==
    ASSUME GrpOK, NEW g \in Groups, NEW s \in GroupStatus, WriteGroup(g, s)
    PROVE  GrpOK'
BY DEF GrpOK, WriteGroup, Exists, Gone, GroupStatus

LEMMA WriteNodeOK ==
    ASSUME NodeOK, NEW n \in NodeIds, NEW s \in NodeStatus, WriteNode(n, s),
           UNCHANGED lastNode
    PROVE  NodeOK'
<1>1. node[n] \in Rows
  BY DEF NodeOK
<1>2. CASE Present(n)
  <2>1. node' = [node EXCEPT ![n] = [node[n] EXCEPT !.status = s]]
    BY <1>2 DEF WriteNode, NodeOK, Present
  <2>2. [node[n] EXCEPT !.status = s] \in Rows
    BY <1>2, PresentRow, RowUpdate
  <2> QED
    BY <1>2, <2>1, <2>2 DEF NodeOK, Present
<1>3. CASE ~Present(n)
  <2>1. node[n] = NoNode
    BY <1>3, AbsentRow
  <2>2. node' = [node EXCEPT ![n] = [NoNode EXCEPT !.status = "absent"]]
    BY <1>3, <2>1 DEF WriteNode, NodeOK, Present
  <2> QED
    BY <2>1, <2>2, NoNodeSame, NoNodeRow DEF NodeOK, Present
<1> QED
  BY <1>2, <1>3

LEMMA RemoveRowOK ==
    ASSUME NodeOK, NEW n \in NodeIds, node' = [node EXCEPT ![n] = NoNode],
           UNCHANGED lastNode
    PROVE  NodeOK'
BY NoNodeRow DEF NodeOK, Present, NoNode

\* One request moves; its new local state is well shaped.
LEMMA ReqStep ==
    ASSUME ReqOK, NEW h \in Requests, req' = [req EXCEPT ![h] = req'[h]],
           req'[h] \in Locals, Shape(req'[h])
    PROVE  ReqOK'
BY DEF ReqOK

LEMMA NewReq ==
    ASSUME ReqOK, NEW h \in Requests, NEW r \in Locals, Shape(r),
           req' = [req EXCEPT ![h] = r]
    PROVE  ReqOK'
BY DEF ReqOK

LEMMA FinishOK ==
    ASSUME ReqOK, NEW h \in Requests, Finish(h)
    PROVE  ReqOK'
BY IdleType, IdleShape DEF ReqOK, Finish

LEMMA SameGrp  == GrpOK /\ UNCHANGED grp => GrpOK'
BY DEF GrpOK, Exists
LEMMA SameNode == NodeOK /\ UNCHANGED <<node, lastNode>> => NodeOK'
BY DEF NodeOK, Present
LEMMA SameUp   == UpOK /\ UNCHANGED up => UpOK'
BY DEF UpOK
LEMMA SameReq  == ReqOK /\ UNCHANGED req => ReqOK'
BY DEF ReqOK

LEMMA MarkNodeOK ==
    ASSUME TypeInv, NEW h \in Requests, NEW n \in NodeIds, Present(n),
           NEW op \in AllOps, NEW verb \in {"start", "stop"}, MarkNode(h, n, op, verb),
           UNCHANGED lastNode
    PROVE  NodeOK' /\ ReqOK'
<1>1. NodeOK'
  BY WriteNodeOK DEF MarkNode, Transient, TypeInv, NodeStatus, GroupStatus
<1>2. node[n] \in Rows /\ node[n] # NoNode
  BY PresentRow DEF TypeInv
<1> DEFINE r == [Idle EXCEPT !.op = op, !.n = n, !.row = node[n], !.pc = "effect", !.verb = verb]
<1>3. req' = [req EXCEPT ![h] = r]
  BY DEF MarkNode
<1>4. r \in Locals /\ Shape(r)
  BY <1>2, IdleType DEF Locals, Shape, Idle, Pcs
<1> HIDE DEF r
<1> QED
  BY <1>1, <1>3, <1>4, NewReq DEF TypeInv

LEMMA BeginStartOK ==
    ASSUME TypeInv, NEW h \in Requests, NEW g \in Groups, Exists(g),
           NEW op \in AllOps, BeginStart(h, g, op)
    PROVE  GrpOK' /\ ReqOK' /\ UNCHANGED <<node, lastNode, up>>
<1>1. GrpOK'
  BY DEF BeginStart, GrpOK, Exists, Gone, GroupStatus, TypeInv
<1> DEFINE dep == grp[g].dep # None
           r   == [Idle EXCEPT !.op = op, !.g = g, !.pc = "prepare", !.verb = "start", !.dep = dep]
<1>2. req' = [req EXCEPT ![h] = r]
  BY DEF BeginStart
<1>3. dep \in BOOLEAN
  OBVIOUS
<1> HIDE DEF dep
<1>4. r \in Locals /\ Shape(r)
  BY <1>3, IdleType DEF Locals, Shape, Idle, Pcs
<1> HIDE DEF r
<1>5. ReqOK'
  BY <1>2, <1>4, NewReq DEF TypeInv
<1> QED
  BY <1>1, <1>5 DEF BeginStart

LEMMA BeginStopOK ==
    ASSUME TypeInv, NEW h \in Requests, NEW g \in Groups, Exists(g),
           NEW op \in AllOps, BeginStop(h, g, op)
    PROVE  GrpOK' /\ ReqOK' /\ UNCHANGED <<node, lastNode, up>>
<1>1. GrpOK'
  BY DEF BeginStop, GrpOK, Exists, Gone, GroupStatus, TypeInv
<1> DEFINE r == [Idle EXCEPT !.op = op, !.g = g, !.pc = "list", !.verb = "stop"]
<1>2. req' = [req EXCEPT ![h] = r]
  BY DEF BeginStop
<1>3. r \in Locals /\ Shape(r)
  BY IdleType DEF Locals, Shape, Idle, Pcs
<1> HIDE DEF r
<1>4. ReqOK'
  BY <1>2, <1>3, NewReq DEF TypeInv
<1> QED
  BY <1>1, <1>4 DEF BeginStop

LEMMA CreateGroupType ==
    ASSUME TypeInv, NEW g \in Groups, CreateGroup(g)
    PROVE  TypeInv'
<1>1. GrpOK'
  BY DEF CreateGroup, GrpOK, Exists, Gone, GroupStatus, TypeInv
<1> QED
  BY <1>1, SameNode, SameUp, SameReq DEF TypeInv, CreateGroup

LEMMA DeleteGroupType ==
    ASSUME TypeInv, NEW g \in Groups, DeleteGroup(g)
    PROVE  TypeInv'
<1>1. GrpOK'
  BY DEF DeleteGroup, GrpOK, Exists, Gone, GroupStatus, TypeInv
<1>2. NodeOK'
  BY NoNodeRow DEF DeleteGroup, NodeOK, TypeInv, Present, NoNode
<1> QED
  BY <1>1, <1>2, SameUp, SameReq DEF TypeInv, DeleteGroup

LEMMA BeginInitType ==
    ASSUME TypeInv, NEW h \in Requests, NEW g \in Groups, BeginInit(h, g)
    PROVE  TypeInv'
<1> DEFINE r == [Idle EXCEPT !.op = "Init", !.g = g, !.pc = "generate"]
<1>1. req' = [req EXCEPT ![h] = r]
  BY DEF BeginInit
<1>2. r \in Locals /\ Shape(r)
  BY IdleType DEF Locals, Shape, Idle, Pcs, AllOps
<1> HIDE DEF r
<1>3. ReqOK'
  BY <1>1, <1>2, NewReq DEF TypeInv
<1> QED
  BY <1>3, SameGrp, SameNode, SameUp DEF TypeInv, BeginInit

LEMMA BeginAddCommitterType ==
    ASSUME TypeInv, NEW h \in Requests, NEW g \in Groups, BeginAddCommitter(h, g)
    PROVE  TypeInv'
<1> DEFINE r == [Idle EXCEPT !.op = "AddCommitter", !.g = g, !.pc = "insert"]
<1>1. req' = [req EXCEPT ![h] = r]
  BY DEF BeginAddCommitter
<1>2. r \in Locals /\ Shape(r)
  BY IdleType DEF Locals, Shape, Idle, Pcs, AllOps
<1> HIDE DEF r
<1>3. ReqOK'
  BY <1>1, <1>2, NewReq DEF TypeInv
<1> QED
  BY <1>3, SameGrp, SameNode, SameUp DEF TypeInv, BeginAddCommitter

LEMMA GenerateType ==
    ASSUME TypeInv, NEW h \in Requests, Generate(h)
    PROVE  TypeInv'
<1>1. GrpOK'
  BY WriteGroupOK, SameGrp DEF Generate, TypeInv, ReqOK, Shape, GroupStatus
<1>2. ReqOK'
  <2>1. CASE req' = [req EXCEPT ![h].pc = "persist"]
    <3> DEFINE r == [req[h] EXCEPT !.pc = "persist"]
    <3>1. req' = [req EXCEPT ![h] = r]
      BY <2>1 DEF ReqOK, TypeInv
    <3>2. r \in Locals
      BY DEF Locals, Pcs, ReqOK, TypeInv
    <3>3. Shape(r)
      BY DEF Generate, Locals, Shape, ReqOK, TypeInv
    <3> HIDE DEF r
    <3> QED BY <3>1, <3>2, <3>3, NewReq DEF TypeInv
  <2>2. CASE Finish(h)
    BY <2>2, FinishOK DEF TypeInv
  <2> QED BY <2>1, <2>2 DEF Generate
<1> QED
  BY <1>1, <1>2, SameNode, SameUp DEF TypeInv, Generate

LEMMA PersistType ==
    ASSUME TypeInv, NEW h \in Requests, Persist(h)
    PROVE  TypeInv'
<1>1. CASE Exists(req[h].g)
  <2>1. GrpOK'
    BY <1>1 DEF Persist, GrpOK, Exists, Gone, TypeInv, ReqOK, Shape
  <2>2. req'[h] \in Locals /\ Shape(req'[h]) /\ req' = [req EXCEPT ![h] = req'[h]]
    BY <1>1 DEF Persist, Locals, Shape, ReqOK, TypeInv, Pcs
  <2> QED
    BY <2>1, <2>2, ReqStep, SameNode, SameUp DEF TypeInv, Persist
<1>2. CASE ~Exists(req[h].g)
  BY <1>2, FinishOK, SameGrp, SameNode, SameUp DEF TypeInv, Persist
<1> QED
  BY <1>1, <1>2

LEMMA InsertRowType ==
    ASSUME TypeInv, NEW h \in Requests, InsertRow(h)
    PROVE  TypeInv'
<1>1. CASE Finish(h) /\ UNCHANGED <<node, lastNode>>
  BY <1>1, FinishOK, SameGrp, SameNode, SameUp DEF TypeInv, InsertRow
<1>2. CASE ~((req[h].op = "Init" /\ req[h].i > Len(InitRoles)) \/ InsertRejected(h))
  <2> DEFINE row == [group |-> req[h].g, role |-> NewRole(h), linked |-> FALSE, dep |-> None,
                     status |-> IF req[h].op = "Init" THEN "CREATED" ELSE "PENDING"]
  <2>1. lastNode < MaxNodes /\ lastNode + 1 \in NodeIds /\ lastNode \in 0..MaxNodes
    BY <1>2, ConstantsAssumption DEF ConstantsAssumption, InsertRejected, NodeIds, TypeInv, NodeOK
  <2>2. req[h].g \in Groups /\ req[h].i \in Nat \ {0}
    BY DEF InsertRow, TypeInv, ReqOK, Shape, Locals
  <2>3. NewRole(h) \in RoleSet \cup {Committer}
    BY <1>2, <2>2, RoleFacts DEF NewRole
  <2>4. row \in Rows
    BY <2>2, <2>3 DEF Rows, NodeStatus, GroupStatus
  <2>5. node' = [node EXCEPT ![lastNode + 1] = row] /\ lastNode' = lastNode + 1
    BY <1>2 DEF InsertRow
  <2> HIDE DEF row
  <2>6. NodeOK'
    BY <2>1, <2>4, <2>5 DEF NodeOK, TypeInv, Present, NodeIds
  <2>7. req'[h] \in Locals /\ Shape(req'[h]) /\ req' = [req EXCEPT ![h] = req'[h]]
    BY <1>2, <2>1, <2>2 DEF InsertRow, Locals, Shape, ReqOK, TypeInv, Pcs
  <2> QED
    BY <2>6, <2>7, ReqStep, SameGrp, SameUp DEF TypeInv, InsertRow
<1> QED
  BY <1>1, <1>2 DEF InsertRow

LEMMA ConfigRowType ==
    ASSUME TypeInv, NEW h \in Requests, ConfigRow(h)
    PROVE  TypeInv'
<1>1. CASE Present(req[h].n)
  <2>1. req[h].n \in NodeIds
    BY DEF ConfigRow, TypeInv, ReqOK, Shape
  <2>2. node'[req[h].n] \in Rows
    BY <1>1, <2>1, PresentRow, RowFields DEF ConfigRow, TypeInv, NodeOK, Rows
  <2>3. NodeOK'
    BY <1>1, <2>1, <2>2 DEF ConfigRow, NodeOK, TypeInv, Present
  <2>4. ReqOK'
    <3> DEFINE r == [req[h] EXCEPT !.pc = "link"]
    <3>1. req' = [req EXCEPT ![h] = r]
      BY <1>1 DEF ConfigRow, ReqOK, TypeInv
    <3>2. r \in Locals
      BY DEF Locals, Pcs, ReqOK, TypeInv
    <3>3. Shape(r)
      BY DEF ConfigRow, Locals, Shape, ReqOK, TypeInv
    <3> HIDE DEF r
    <3> QED BY <3>1, <3>2, <3>3, NewReq DEF TypeInv
  <2> QED
    BY <2>3, <2>4, SameGrp, SameUp DEF TypeInv, ConfigRow
<1>2. CASE ~Present(req[h].n)
  BY <1>2, FinishOK, SameGrp, SameNode, SameUp DEF TypeInv, ConfigRow
<1> QED
  BY <1>1, <1>2

LEMMA LinkRowType ==
    ASSUME TypeInv, NEW h \in Requests, LinkRow(h)
    PROVE  TypeInv'
<1>1. CASE LinkRejected(h)
  BY <1>1, FinishOK, SameGrp, SameNode, SameUp DEF TypeInv, LinkRow
<1>2. CASE ~LinkRejected(h)
  <2> DEFINE n == req[h].n
             new == [node[n] EXCEPT !.linked = Present(n)]
  <2>1. n \in NodeIds /\ req[h].i \in Nat \ {0}
    BY DEF LinkRow, TypeInv, ReqOK, Shape, Locals
  <2>2. node' = [node EXCEPT ![n] = new] /\ UNCHANGED lastNode
    BY <1>2, <2>1 DEF LinkRow, TypeInv, NodeOK
  <2>3. NodeOK'
    <3>1. CASE Present(n)
      <4>1. new \in Rows
        BY <2>1, <3>1, PresentRow, RowUpdate DEF TypeInv
      <4> HIDE DEF n, new
      <4> QED
        BY <2>1, <2>2, <3>1, <4>1 DEF NodeOK, Present, TypeInv
    <3>2. CASE ~Present(n)
      <4>1. node[n] = NoNode
        BY <2>1, <3>2, AbsentRow DEF TypeInv
      <4>2. Present(n) = FALSE
        BY <3>2 DEF Present
      <4>3. new = NoNode
        BY <4>1, <4>2, NoNodeSame
      <4> HIDE DEF n, new
      <4> QED
        BY <2>1, <2>2, <4>1, <4>3, NoNodeRow DEF NodeOK, Present, TypeInv
    <3> QED BY <3>1, <3>2
  <2>4. req'[h] \in Locals /\ Shape(req'[h]) /\ req' = [req EXCEPT ![h] = req'[h]]
    BY <1>2, <2>1 DEF LinkRow, Locals, Shape, ReqOK, TypeInv, Pcs
  <2> QED
    BY <2>3, <2>4, ReqStep, SameGrp, SameUp DEF TypeInv, LinkRow
<1> QED
  BY <1>1, <1>2

LEMMA InitNodeType ==
    ASSUME TypeInv, NEW h \in Requests, InitNode(h)
    PROVE  TypeInv'
<1>1. CASE req' = [req EXCEPT ![h].pc = "config"] /\ UNCHANGED node
  <2>1. req'[h] \in Locals /\ Shape(req'[h]) /\ req' = [req EXCEPT ![h] = req'[h]]
    BY <1>1 DEF InitNode, Locals, Shape, ReqOK, TypeInv, Pcs
  <2> QED
    BY <1>1, <2>1, ReqStep, SameGrp, SameNode, SameUp DEF TypeInv, InitNode
<1>2. CASE node' = [node EXCEPT ![req[h].n] = NoNode] /\ Finish(h)
  <2>1. req[h].n \in NodeIds
    BY DEF InitNode, TypeInv, ReqOK, Shape
  <2> QED
    BY <1>2, <2>1, FinishOK, RemoveRowOK, SameGrp, SameUp DEF TypeInv, InitNode
<1> QED
  BY <1>1, <1>2 DEF InitNode

LEMMA CommitterCreatedType ==
    ASSUME TypeInv, NEW h \in Requests, CommitterCreated(h)
    PROVE  TypeInv'
<1>1. req[h].n \in NodeIds
  BY DEF CommitterCreated, TypeInv, ReqOK, Shape
<1>2. NodeOK'
  BY <1>1, WriteNodeOK DEF CommitterCreated, TypeInv, NodeStatus, GroupStatus
<1> QED
  BY <1>2, FinishOK, SameGrp, SameUp DEF TypeInv, CommitterCreated

LEMMA StartGroupType ==
    ASSUME TypeInv, NEW h \in Requests, NEW g \in Groups, StartGroup(h, g)
    PROVE  TypeInv'
<1>1. Exists(g) /\ BeginStart(h, g, "Start") /\ "Start" \in AllOps
  BY DEF StartGroup, AllOps
<1> QED
  BY <1>1, BeginStartOK, SameNode, SameUp DEF TypeInv

LEMMA StopGroupType ==
    ASSUME TypeInv, NEW h \in Requests, NEW g \in Groups, StopGroup(h, g)
    PROVE  TypeInv'
<1>1. Exists(g) /\ BeginStop(h, g, "Stop") /\ "Stop" \in AllOps
  BY DEF StopGroup, AllOps
<1> QED
  BY <1>1, BeginStopOK, SameNode, SameUp DEF TypeInv

LEMMA RestartGroupType ==
    ASSUME TypeInv, NEW h \in Requests, NEW g \in Groups, RestartGroup(h, g)
    PROVE  TypeInv'
<1>1. Exists(g) /\ BeginStop(h, g, "Restart") /\ "Restart" \in AllOps
  BY DEF RestartGroup, AllOps
<1> QED
  BY <1>1, BeginStopOK, SameNode, SameUp DEF TypeInv

LEMMA PrepareType ==
    ASSUME TypeInv, NEW h \in Requests, Prepare(h)
    PROVE  TypeInv'
<1>1. req[h].g \in Groups
  BY DEF Prepare, TypeInv, ReqOK, Shape
<1>2. CASE req' = [req EXCEPT ![h].pc = "list"] /\ UNCHANGED grp
  <2>1. req'[h] \in Locals /\ Shape(req'[h]) /\ req' = [req EXCEPT ![h] = req'[h]]
    BY <1>2 DEF Prepare, Locals, Shape, ReqOK, TypeInv, Pcs
  <2> QED
    BY <1>2, <2>1, ReqStep, SameGrp, SameNode, SameUp DEF TypeInv, Prepare
<1>3. CASE WriteGroup(req[h].g, "ERROR") /\ Finish(h)
  <2>1. GrpOK'
    BY <1>1, <1>3, WriteGroupOK DEF TypeInv, GroupStatus
  <2> QED
    BY <1>3, <2>1, FinishOK, SameNode, SameUp DEF TypeInv, Prepare
<1> QED
  BY <1>2, <1>3 DEF Prepare

LEMMA RestartStartType ==
    ASSUME TypeInv, NEW h \in Requests, RestartStart(h)
    PROVE  TypeInv'
<1>1. req[h].g \in Groups /\ "Restart" \in AllOps
  BY DEF RestartStart, TypeInv, ReqOK, Shape, AllOps
<1>2. CASE Exists(req[h].g)
  BY <1>1, <1>2, BeginStartOK, SameNode, SameUp DEF RestartStart, TypeInv
<1>3. CASE ~Exists(req[h].g)
  BY <1>3, FinishOK, SameGrp, SameNode, SameUp DEF TypeInv, RestartStart
<1> QED
  BY <1>2, <1>3

LEMMA ListType ==
    ASSUME TypeInv, NEW h \in Requests, List(h)
    PROVE  TypeInv'
<1>1. Children(req[h].g) \in [RoleSet -> NodeIds \cup {None}]
  BY ChildrenType DEF List, TypeInv, ReqOK, Shape
<1>2. req'[h] \in Locals /\ Shape(req'[h]) /\ req' = [req EXCEPT ![h] = req'[h]]
  BY <1>1 DEF List, Locals, Shape, ReqOK, TypeInv, Pcs
<1> QED
  BY <1>2, ReqStep, SameGrp, SameNode, SameUp DEF TypeInv, List

LEMMA SkipChildType ==
    ASSUME TypeInv, NEW h \in Requests, SkipChild(h)
    PROVE  TypeInv'
<1> DEFINE r == [req[h] EXCEPT !.i = @ + 1]
<1>1. req' = [req EXCEPT ![h] = r]
  BY DEF SkipChild, ReqOK, TypeInv
<1>2. r \in Locals
  BY DEF Locals, ReqOK, TypeInv
<1>3. Shape(r)
  BY DEF SkipChild, Locals, Shape, ReqOK, TypeInv
<1> HIDE DEF r
<1>4. ReqOK'
  BY <1>1, <1>2, <1>3, NewReq DEF TypeInv
<1> QED
  BY <1>4, SameGrp, SameNode, SameUp DEF TypeInv, SkipChild

LEMMA MarkChildType ==
    ASSUME TypeInv, NEW h \in Requests, MarkChild(h)
    PROVE  TypeInv'
<1> DEFINE n == req[h].kids[RoleNow(h)]
<1>1. req[h] \in Locals /\ Shape(req[h]) /\ req[h].i \in 1..Len(Roles) /\ n # None
      /\ req[h].verb \in {"start", "stop"} /\ req[h].pc = "child"
  BY RoleFacts DEF MarkChild, TypeInv, ReqOK, Shape, Locals
<1>2. RoleNow(h) \in RoleSet
  BY <1>1, RoleFacts DEF RoleNow
<1>3. n \in NodeIds
  BY <1>1, <1>2 DEF Locals
<1> HIDE DEF n
<1>4. CASE Present(n)
  <2>1. NodeOK'
    BY <1>1, <1>3, <1>4, WriteNodeOK
       DEF MarkChild, n, Transient, TypeInv, NodeStatus, GroupStatus
  <2>2. node[n] \in Rows /\ node[n] # NoNode
    BY <1>3, <1>4, PresentRow DEF TypeInv
  <2>3. req' = [req EXCEPT ![h] = [req[h] EXCEPT !.n = n, !.row = node[n], !.pc = "effect"]]
    BY <1>1, <1>4 DEF MarkChild, n, TypeInv, ReqOK
  <2>4. req'[h] \in Locals /\ Shape(req'[h]) /\ req' = [req EXCEPT ![h] = req'[h]]
    BY <1>1, <1>3, <2>2, <2>3 DEF Locals, Shape, ReqOK, TypeInv, Pcs
  <2> QED
    BY <2>1, <2>4, ReqStep, SameGrp, SameUp DEF TypeInv, MarkChild
<1>5. CASE ~Present(n)
  <2>1. req'[h] \in Locals /\ Shape(req'[h]) /\ req' = [req EXCEPT ![h] = req'[h]]
        /\ UNCHANGED node
    BY <1>1, <1>5 DEF MarkChild, n, Locals, Shape, ReqOK, TypeInv, Pcs
  <2> QED
    BY <2>1, ReqStep, SameGrp, SameNode, SameUp DEF TypeInv, MarkChild
<1> QED
  BY <1>4, <1>5

LEMMA EndGroupType ==
    ASSUME TypeInv, NEW h \in Requests, EndGroup(h)
    PROVE  TypeInv'
<1>1. req[h].g \in Groups
  BY DEF EndGroup, TypeInv, ReqOK, Shape
<1>2. GrpOK'
  BY <1>1, WriteGroupOK DEF EndGroup, FinalStatus, TypeInv, GroupStatus
<1>3. ReqOK'
  <2>1. CASE Finish(h)
    BY <2>1, FinishOK DEF TypeInv
  <2>2. CASE ~Finish(h)
    <3> DEFINE r == [Idle EXCEPT !.op = "Restart", !.g = req[h].g, !.pc = "paused"]
    <3>1. req' = [req EXCEPT ![h] = r]
      BY <2>2 DEF EndGroup
    <3>2. r \in Locals /\ Shape(r)
      BY <1>1, IdleType DEF Locals, Shape, Idle, Pcs, AllOps
    <3> HIDE DEF r
    <3> QED BY <3>1, <3>2, NewReq DEF TypeInv
  <2> QED BY <2>1, <2>2
<1> QED
  BY <1>2, <1>3, SameNode, SameUp DEF TypeInv, EndGroup

LEMMA StartNodeType ==
    ASSUME TypeInv, NEW h \in Requests, NEW n \in NodeIds, StartNode(h, n)
    PROVE  TypeInv'
<1>1. BeginNodeOp(h, n, "NodeStart", "start") /\ "NodeStart" \in AllOps
  BY DEF StartNode, AllOps
<1>2. Present(n) /\ MarkNode(h, n, "NodeStart", "start") /\ UNCHANGED <<grp, lastNode, up>>
  BY <1>1 DEF BeginNodeOp
<1> QED
  BY <1>1, <1>2, MarkNodeOK, SameGrp, SameUp DEF TypeInv

LEMMA StopNodeType ==
    ASSUME TypeInv, NEW h \in Requests, NEW n \in NodeIds, StopNode(h, n)
    PROVE  TypeInv'
<1>1. BeginNodeOp(h, n, "NodeStop", "stop") /\ "NodeStop" \in AllOps
  BY DEF StopNode, AllOps
<1>2. Present(n) /\ MarkNode(h, n, "NodeStop", "stop") /\ UNCHANGED <<grp, lastNode, up>>
  BY <1>1 DEF BeginNodeOp
<1> QED
  BY <1>1, <1>2, MarkNodeOK, SameGrp, SameUp DEF TypeInv

LEMMA DeleteNodeType ==
    ASSUME TypeInv, NEW h \in Requests, NEW n \in NodeIds, DeleteNode(h, n)
    PROVE  TypeInv'
<1>1. node[n] \in Rows /\ node[n] # NoNode
  BY PresentRow DEF DeleteNode, TypeInv
<1> DEFINE pc == IF StopsFirst(node[n]) THEN "stopFirst" ELSE "remove"
           r  == [Idle EXCEPT !.op = "NodeDelete", !.n = n, !.row = node[n], !.pc = pc]
<1>2. req' = [req EXCEPT ![h] = r]
  BY DEF DeleteNode
<1>3. pc \in {"stopFirst", "remove"}
  OBVIOUS
<1> HIDE DEF pc
<1>4. r \in Locals /\ Shape(r)
  BY <1>1, <1>3, IdleType DEF Locals, Shape, Idle, Pcs, AllOps
<1> HIDE DEF r
<1>5. ReqOK'
  BY <1>2, <1>4, NewReq DEF TypeInv
<1> QED
  BY <1>5, SameGrp, SameNode, SameUp DEF TypeInv, DeleteNode

LEMMA StopFirstType ==
    ASSUME TypeInv, NEW h \in Requests, StopFirst(h)
    PROVE  TypeInv'
<1>1. req[h].n \in NodeIds /\ "NodeDelete" \in AllOps
  BY DEF StopFirst, TypeInv, ReqOK, Shape, AllOps
<1>2. CASE Present(req[h].n)
  <2>1. MarkNode(h, req[h].n, "NodeDelete", "stop") /\ UNCHANGED <<grp, lastNode, up>>
    BY <1>2 DEF StopFirst
  <2> QED
    BY <1>1, <1>2, <2>1, MarkNodeOK, SameGrp, SameUp DEF TypeInv
<1>3. CASE ~Present(req[h].n)
  <2>1. req'[h] \in Locals /\ Shape(req'[h]) /\ req' = [req EXCEPT ![h] = req'[h]]
    BY <1>3 DEF StopFirst, Locals, Shape, ReqOK, TypeInv, Pcs
  <2> QED
    BY <1>3, <2>1, ReqStep, SameGrp, SameNode, SameUp DEF TypeInv, StopFirst
<1> QED
  BY <1>2, <1>3

LEMMA RemoveNodeType ==
    ASSUME TypeInv, NEW h \in Requests, RemoveNode(h)
    PROVE  TypeInv'
<1>1. req[h].n \in NodeIds
  BY DEF RemoveNode, TypeInv, ReqOK, Shape
<1>2. UpOK'
  BY DEF RemoveNode, TypeInv, UpOK
<1>3. NodeOK'
  BY <1>1, RemoveRowOK DEF RemoveNode, TypeInv
<1> QED
  BY <1>2, <1>3, FinishOK, SameGrp DEF TypeInv, RemoveNode

LEMMA EffectType ==
    ASSUME TypeInv, NEW h \in Requests, Effect(h)
    PROVE  TypeInv'
<1>1. PICK ok \in BOOLEAN, running \in BOOLEAN : Outcome(h, ok, running)
  <2> DEFINE was == SlugOf(req[h].row) \in up
  <2>1. was \in BOOLEAN /\ (req[h].verb = "start") \in BOOLEAN
    OBVIOUS
  <2>2. CASE Outcome(h, FALSE, was)
    BY <2>1, <2>2
  <2>3. CASE Outcome(h, TRUE, req[h].verb = "start")
    BY <2>1, <2>3
  <2>4. CASE \E late \in BOOLEAN : Outcome(h, FALSE, late)
    BY <2>4
  <2>5. CASE \E ok \in BOOLEAN : Outcome(h, ok, was)
    BY <2>1, <2>5
  <2> QED BY <2>2, <2>3, <2>4, <2>5 DEF Effect
<1>2. SlugOf(req[h].row) \in Slugs
  BY RowFields DEF Effect, TypeInv, ReqOK, Shape, Locals
<1>3. UpOK'
  BY <1>1, <1>2 DEF Outcome, TypeInv, UpOK
<1> DEFINE r == [req[h] EXCEPT !.ok = ok, !.pc = "settle"]
<1>4. req' = [req EXCEPT ![h] = r]
  BY <1>1 DEF Outcome, ReqOK, TypeInv
<1>5. r \in Locals
  <2>1. req[h] \in Locals
    BY DEF ReqOK, TypeInv
  <2> QED BY <2>1 DEF Locals, Pcs
<1>6. Shape(r)
  BY DEF Effect, Locals, Shape, ReqOK, TypeInv
<1> HIDE DEF r
<1>7. ReqOK'
  BY <1>4, <1>5, <1>6, NewReq DEF TypeInv
<1> QED
  BY <1>3, <1>7, SameGrp, SameNode DEF TypeInv, Effect

LEMMA SettleType ==
    ASSUME TypeInv, NEW h \in Requests, Settle(h)
    PROVE  TypeInv'
<1>1. req[h].n \in NodeIds
  BY DEF Settle, TypeInv, ReqOK, Shape
<1>2. NodeOK'
  BY <1>1, WriteNodeOK DEF Settle, NodeFinal, Settled, TypeInv, NodeStatus, GroupStatus
<1>3. ReqOK'
  <2>1. CASE req[h].g # None
    <3>1. req'[h] \in Locals /\ Shape(req'[h]) /\ req' = [req EXCEPT ![h] = req'[h]]
      BY <2>1, NoNodeRow DEF Settle, Locals, Shape, ReqOK, TypeInv, Pcs
    <3> QED BY <3>1, ReqStep DEF TypeInv
  <2>2. CASE req[h].g = None /\ req[h].op = "NodeDelete"
    <3>1. req'[h] \in Locals /\ Shape(req'[h]) /\ req' = [req EXCEPT ![h] = req'[h]]
      BY <2>2 DEF Settle, Locals, Shape, ReqOK, TypeInv, Pcs
    <3> QED BY <3>1, ReqStep DEF TypeInv
  <2>3. CASE req[h].g = None /\ req[h].op # "NodeDelete"
    BY <2>3, FinishOK DEF Settle, TypeInv
  <2> QED BY <2>1, <2>2, <2>3
<1> QED
  BY <1>2, <1>3, SameGrp, SameUp DEF TypeInv, Settle

LEMMA AbortType ==
    ASSUME TypeInv, NEW h \in Requests, Abort(h)
    PROVE  TypeInv'
<1>1. req[h].pc = "effect" => SlugOf(req[h].row) \in Slugs
  BY RowFields DEF TypeInv, ReqOK, Shape, Locals
<1>2. UpOK'
  BY <1>1 DEF Abort, TypeInv, UpOK
<1> QED
  BY <1>2, FinishOK, SameGrp, SameNode DEF TypeInv, Abort

LEMMA InitTypeInv == Init => TypeInv
<1> SUFFICES ASSUME Init PROVE TypeInv
  OBVIOUS
<1>1. GrpOK
  BY DEF Init, GrpOK, Exists, Gone
<1>2. NodeOK
  <2>1. \A n \in NodeIds : ~Present(n)
    BY DEF Init, Present, NoNode
  <2>2. 0 \in 0..MaxNodes
    BY ConstantsAssumption DEF ConstantsAssumption
  <2> QED
    BY <2>1, <2>2, NoNodeRow DEF Init, NodeOK
<1>3. UpOK /\ ReqOK
  BY IdleType, IdleShape DEF Init, UpOK, ReqOK
<1> QED
  BY <1>1, <1>2, <1>3 DEF TypeInv

LEMMA TypeInvTypeOK == TypeInv => TypeOK
BY DEF TypeInv, TypeOK, GrpOK, NodeOK, UpOK, Slugs, ReqOK

LEMMA NextType == TypeInv /\ [Next]_vars => TypeInv'
<1> SUFFICES ASSUME TypeInv, [Next]_vars PROVE TypeInv'
  OBVIOUS
<1>1. CASE UNCHANGED vars
  BY <1>1, SameGrp, SameNode, SameUp, SameReq DEF vars, TypeInv
<1>2. ASSUME NEW g \in Groups, CreateGroup(g) \/ DeleteGroup(g) PROVE TypeInv'
  BY <1>2, CreateGroupType, DeleteGroupType
<1>3. ASSUME NEW h \in Requests, Begin(h) PROVE TypeInv'
  BY <1>3, BeginInitType, BeginAddCommitterType, StartGroupType, StopGroupType,
     RestartGroupType, StartNodeType, StopNodeType, DeleteNodeType DEF Begin
<1>4. ASSUME NEW h \in Requests, Work(h) PROVE TypeInv'
  BY <1>4, GenerateType, PersistType, InsertRowType, ConfigRowType, LinkRowType,
     InitNodeType, CommitterCreatedType, PrepareType, RestartStartType, ListType,
     SkipChildType, MarkChildType, EndGroupType, StopFirstType, EffectType, SettleType,
     RemoveNodeType DEF Work
<1>5. ASSUME NEW h \in Requests, Abort(h) PROVE TypeInv'
  BY <1>5, AbortType
<1> QED
  BY <1>1, <1>2, <1>3, <1>4, <1>5 DEF Next

\* What a request knows when it has begun.
LEMMA Moved ==
    ASSUME TypeInv, NEW h \in Requests, NEW r, req' = [req EXCEPT ![h] = r]
    PROVE  req'[h] = r
BY DEF TypeInv, ReqOK

LEMMA BegunInit ==
    ASSUME TypeInv, NEW h \in Requests, NEW g \in Groups, BeginInit(h, g)
    PROVE  req'[h].op = "Init" /\ req'[h].g = g /\ req'[h].pc = "generate"
<1>1. req'[h] = [Idle EXCEPT !.op = "Init", !.g = g, !.pc = "generate"]
  BY Moved DEF BeginInit
<1> QED
  BY <1>1 DEF Idle

LEMMA BegunCommitter ==
    ASSUME TypeInv, NEW h \in Requests, NEW g \in Groups, BeginAddCommitter(h, g)
    PROVE  req'[h].op = "AddCommitter" /\ req'[h].pc = "insert"
<1>1. req'[h] = [Idle EXCEPT !.op = "AddCommitter", !.g = g, !.pc = "insert"]
  BY Moved DEF BeginAddCommitter
<1> QED
  BY <1>1 DEF Idle

LEMMA BegunMove ==
    ASSUME TypeInv, NEW h \in Requests, NEW g, NEW op, BeginStart(h, g, op) \/ BeginStop(h, g, op)
    PROVE  req'[h].op = op /\ req'[h].g = g /\ req'[h].pc \in {"prepare", "list"}
<1>1. CASE BeginStart(h, g, op)
  <2>1. req'[h] = [Idle EXCEPT !.op = op, !.g = g, !.pc = "prepare", !.verb = "start",
                               !.dep = grp[g].dep # None]
    BY <1>1, Moved DEF BeginStart
  <2> QED
    BY <2>1 DEF Idle
<1>2. CASE BeginStop(h, g, op)
  <2>1. req'[h] = [Idle EXCEPT !.op = op, !.g = g, !.pc = "list", !.verb = "stop"]
    BY <1>2, Moved DEF BeginStop
  <2> QED
    BY <2>1 DEF Idle
<1> QED
  BY <1>1, <1>2

LEMMA BegunNode ==
    ASSUME TypeInv, NEW h \in Requests, NEW n \in NodeIds,
           StartNode(h, n) \/ StopNode(h, n) \/ DeleteNode(h, n)
    PROVE  req'[h].pc \in {"effect", "stopFirst", "remove"}
<1>1. ASSUME NEW op, NEW verb, BeginNodeOp(h, n, op, verb) PROVE req'[h].pc = "effect"
  <2>1. req'[h] = [Idle EXCEPT !.op = op, !.n = n, !.row = node[n], !.pc = "effect", !.verb = verb]
    BY <1>1, Moved DEF BeginNodeOp, MarkNode
  <2> QED
    BY <2>1 DEF Idle
<1>2. CASE DeleteNode(h, n)
  <2>1. PICK pc \in {"stopFirst", "remove"} :
            req' = [req EXCEPT ![h] = [Idle EXCEPT !.op = "NodeDelete", !.n = n, !.row = node[n], !.pc = pc]]
    BY <1>2 DEF DeleteNode
  <2>2. req'[h] = [Idle EXCEPT !.op = "NodeDelete", !.n = n, !.row = node[n], !.pc = pc]
    BY <2>1, Moved
  <2> QED
    BY <2>2 DEF Idle
<1> QED
  BY <1>1, <1>2 DEF StartNode, StopNode

(* Every variable keeps its type in every behaviour, for every choice of    *)
(* groups, roles, requests and bounds: the request handlers only ever read  *)
(* ids and rows that their earlier steps have set.                          *)
THEOREM TypeCorrect == Spec => []TypeOK
<1>1. Spec => []TypeInv
  BY InitTypeInv, NextType, PTL DEF Spec
<1> QED
  BY <1>1, TypeInvTypeOK, PTL

-----------------------------------------------------------------------------
(* Transient statuses.  GroupStatusOwned and NodeStatusOwned are inductive *)
(* once the variables have their types: a step of request h has to account *)
(* for the transient status of every row it leaves behind.                 *)

Owned == GroupStatusOwned /\ NodeStatusOwned
Moving == {"STARTING", "STOPPING"}

OthersSame(h) == \A k \in Requests : k # h => req'[k] = req[k]

\* Why group g may have a transient status after a step of h: it had it and
\* its owner still holds it or is on record as cut off, or h has just begun.
GroupAccounted(h, g) ==
    \/ grp'[g].status \notin Moving
    \/ /\ grp'[g].status = grp[g].status
       /\ GroupRow(g) \in interrupted => GroupRow(g) \in interrupted'
       /\ OnGroup(h) /\ req[h].g = g =>
              \/ GroupRow(g) \in interrupted'
              \/ OnGroup(h)' /\ req'[h].g = g /\ req'[h].verb = req[h].verb
    \/ /\ OnGroup(h)' /\ req'[h].g = g /\ req'[h].verb \in {"start", "stop"}
       /\ grp'[g].status = Transient(req'[h].verb)

\* The same for node n.
NodeAccounted(h, n) ==
    \/ node'[n].status \notin Moving
    \/ /\ node'[n].status = node[n].status
       /\ NodeRow(n) \in interrupted => NodeRow(n) \in interrupted'
       /\ OnNode(h) /\ req[h].n = n =>
              \/ NodeRow(n) \in interrupted'
              \/ OnNode(h)' /\ req'[h].n = n /\ req'[h].verb = req[h].verb
    \/ /\ OnNode(h)' /\ req'[h].n = n /\ req'[h].verb \in {"start", "stop"}
       /\ node'[n].status = Transient(req'[h].verb)

LEMMA GroupStep ==
    ASSUME GroupStatusOwned, NEW h \in Requests, OthersSame(h),
           \A g \in Groups : GroupAccounted(h, g)
    PROVE  GroupStatusOwned'
<1> SUFFICES ASSUME NEW g \in Groups, NEW v \in {"start", "stop"},
                    grp'[g].status = Transient(v)
             PROVE  \/ \E k \in Requests : OnGroup(k)' /\ req'[k].g = g /\ req'[k].verb = v
                    \/ GroupRow(g) \in interrupted'
  BY DEF GroupStatusOwned, GroupRow
<1>1. grp'[g].status \in Moving
  BY DEF Transient, Moving
<1>2. CASE grp'[g].status = grp[g].status
           /\ (GroupRow(g) \in interrupted => GroupRow(g) \in interrupted')
           /\ (OnGroup(h) /\ req[h].g = g =>
                  \/ GroupRow(g) \in interrupted'
                  \/ OnGroup(h)' /\ req'[h].g = g /\ req'[h].verb = req[h].verb)
  <2>1. CASE GroupRow(g) \in interrupted
    BY <1>2, <2>1
  <2>2. CASE GroupRow(g) \notin interrupted
    <3>1. PICK k \in Requests : OnGroup(k) /\ req[k].g = g /\ req[k].verb = v
      BY <1>2, <2>2 DEF GroupStatusOwned
    <3>2. CASE k = h
      BY <1>2, <3>1, <3>2
    <3>3. CASE k # h
      BY <3>1, <3>3 DEF OthersSame, OnGroup
    <3> QED BY <3>2, <3>3
  <2> QED BY <2>1, <2>2
<1>3. CASE OnGroup(h)' /\ req'[h].g = g /\ req'[h].verb \in {"start", "stop"}
           /\ grp'[g].status = Transient(req'[h].verb)
  BY <1>3 DEF Transient
<1> QED
  BY <1>1, <1>2, <1>3 DEF GroupAccounted

LEMMA NodeStep ==
    ASSUME NodeStatusOwned, NEW h \in Requests, OthersSame(h),
           \A n \in NodeIds : NodeAccounted(h, n)
    PROVE  NodeStatusOwned'
<1> SUFFICES ASSUME NEW n \in NodeIds, NEW v \in {"start", "stop"},
                    node'[n].status = Transient(v)
             PROVE  \/ \E k \in Requests : OnNode(k)' /\ req'[k].n = n /\ req'[k].verb = v
                    \/ NodeRow(n) \in interrupted'
  BY DEF NodeStatusOwned, NodeRow
<1>1. node'[n].status \in Moving
  BY DEF Transient, Moving
<1>2. CASE node'[n].status = node[n].status
           /\ (NodeRow(n) \in interrupted => NodeRow(n) \in interrupted')
           /\ (OnNode(h) /\ req[h].n = n =>
                  \/ NodeRow(n) \in interrupted'
                  \/ OnNode(h)' /\ req'[h].n = n /\ req'[h].verb = req[h].verb)
  <2>1. CASE NodeRow(n) \in interrupted
    BY <1>2, <2>1
  <2>2. CASE NodeRow(n) \notin interrupted
    <3>1. PICK k \in Requests : OnNode(k) /\ req[k].n = n /\ req[k].verb = v
      BY <1>2, <2>2 DEF NodeStatusOwned
    <3>2. CASE k = h
      BY <1>2, <3>1, <3>2
    <3>3. CASE k # h
      BY <3>1, <3>3 DEF OthersSame, OnNode
    <3> QED BY <3>2, <3>3
  <2> QED BY <2>1, <2>2
<1>3. CASE OnNode(h)' /\ req'[h].n = n /\ req'[h].verb \in {"start", "stop"}
           /\ node'[n].status = Transient(req'[h].verb)
  BY <1>3 DEF Transient
<1> QED
  BY <1>1, <1>2, <1>3 DEF NodeAccounted

LEMMA BeginAccounted ==
    ASSUME TypeInv, NEW h \in Requests, ~OnGroup(h), NEW g0 \in Groups, NEW op \in AllOps,
           BeginStart(h, g0, op) \/ BeginStop(h, g0, op), NEW g \in Groups
    PROVE  GroupAccounted(h, g)
<1>1. CASE g = g0
  <2>1. CASE BeginStart(h, g0, op)
    <3>1. req'[h].pc = "prepare" /\ req'[h].g = g0 /\ req'[h].verb = "start"
      BY <2>1 DEF BeginStart, Idle, TypeInv, ReqOK
    <3>2. grp'[g].status = "STARTING"
      BY <1>1, <2>1 DEF BeginStart, TypeInv, GrpOK
    <3> QED BY <1>1, <3>1, <3>2, NoneFresh DEF GroupAccounted, OnGroup, Transient
  <2>2. CASE BeginStop(h, g0, op)
    <3>1. req'[h].pc = "list" /\ req'[h].g = g0 /\ req'[h].verb = "stop"
      BY <2>2 DEF BeginStop, Idle, TypeInv, ReqOK
    <3>2. grp'[g].status = "STOPPING"
      BY <1>1, <2>2 DEF BeginStop, TypeInv, GrpOK
    <3> QED BY <1>1, <3>1, <3>2, NoneFresh DEF GroupAccounted, OnGroup, Transient
  <2> QED BY <2>1, <2>2
<1>2. CASE g # g0
  <2>1. grp'[g] = grp[g] /\ UNCHANGED interrupted
    BY <1>2 DEF BeginStart, BeginStop, TypeInv, GrpOK
  <2> QED BY <2>1 DEF GroupAccounted, GroupRow
<1> QED BY <1>1, <1>2

LEMMA BeginInitOwned ==
    ASSUME TypeInv, Owned, NEW h \in Requests, NEW g0 \in Groups, BeginInit(h, g0)
    PROVE  Owned'
<1>1. OthersSame(h)
  BY DEF OthersSame, BeginInit, Idle, TypeInv, ReqOK
<1>2. ASSUME NEW g \in Groups PROVE GroupAccounted(h, g)
  BY <1>1 DEF GroupAccounted, OnGroup, GroupRow, NodeRow, Moving, Transient, BeginInit, Idle, TypeInv, ReqOK, GrpOK, Shape, Locals
<1>3. ASSUME NEW n \in NodeIds PROVE NodeAccounted(h, n)
  BY <1>1 DEF NodeAccounted, OnNode, GroupRow, NodeRow, Moving, Transient, BeginInit, Idle, TypeInv, ReqOK, NodeOK, Shape, Locals
<1> QED
  BY <1>1, <1>2, <1>3, GroupStep, NodeStep DEF Owned

LEMMA BeginAddCommitterOwned ==
    ASSUME TypeInv, Owned, NEW h \in Requests, NEW g0 \in Groups, BeginAddCommitter(h, g0)
    PROVE  Owned'
<1>1. OthersSame(h)
  BY DEF OthersSame, BeginAddCommitter, Idle, TypeInv, ReqOK
<1>2. ASSUME NEW g \in Groups PROVE GroupAccounted(h, g)
  BY <1>1 DEF GroupAccounted, OnGroup, GroupRow, NodeRow, Moving, Transient, BeginAddCommitter, Idle, TypeInv, ReqOK, GrpOK, Shape, Locals
<1>3. ASSUME NEW n \in NodeIds PROVE NodeAccounted(h, n)
  BY <1>1 DEF NodeAccounted, OnNode, GroupRow, NodeRow, Moving, Transient, BeginAddCommitter, Idle, TypeInv, ReqOK, NodeOK, Shape, Locals
<1> QED
  BY <1>1, <1>2, <1>3, GroupStep, NodeStep DEF Owned

LEMMA StartGroupOwned ==
    ASSUME TypeInv, Owned, NEW h \in Requests, NEW g0 \in Groups, StartGroup(h, g0)
    PROVE  Owned'
<1>1. OthersSame(h)
  BY DEF OthersSame, StartGroup, BeginStart, Idle, TypeInv, ReqOK
<1>2. ASSUME NEW g \in Groups PROVE GroupAccounted(h, g)
  <2>1. BeginStart(h, g0, "Start") /\ ~OnGroup(h) /\ "Start" \in AllOps
    BY DEF StartGroup, OnGroup, AllOps
  <2> QED BY <2>1, BeginAccounted
<1>3. ASSUME NEW n \in NodeIds PROVE NodeAccounted(h, n)
  BY <1>1 DEF NodeAccounted, OnNode, GroupRow, NodeRow, Moving, Transient, StartGroup, BeginStart, Idle, TypeInv, ReqOK, NodeOK, Shape, Locals
<1> QED
  BY <1>1, <1>2, <1>3, GroupStep, NodeStep DEF Owned

LEMMA StopGroupOwned ==
    ASSUME TypeInv, Owned, NEW h \in Requests, NEW g0 \in Groups, StopGroup(h, g0)
    PROVE  Owned'
<1>1. OthersSame(h)
  BY DEF OthersSame, StopGroup, BeginStop, Idle, TypeInv, ReqOK
<1>2. ASSUME NEW g \in Groups PROVE GroupAccounted(h, g)
  <2>1. BeginStop(h, g0, "Stop") /\ ~OnGroup(h) /\ "Stop" \in AllOps
    BY DEF StopGroup, OnGroup, AllOps
  <2> QED BY <2>1, BeginAccounted
<1>3. ASSUME NEW n \in NodeIds PROVE NodeAccounted(h, n)
  BY <1>1 DEF NodeAccounted, OnNode, GroupRow, NodeRow, Moving, Transient, StopGroup, BeginStop, Idle, TypeInv, ReqOK, NodeOK, Shape, Locals
<1> QED
  BY <1>1, <1>2, <1>3, GroupStep, NodeStep DEF Owned

LEMMA RestartGroupOwned ==
    ASSUME TypeInv, Owned, NEW h \in Requests, NEW g0 \in Groups, RestartGroup(h, g0)
    PROVE  Owned'
<1>1. OthersSame(h)
  BY DEF OthersSame, RestartGroup, BeginStop, Idle, TypeInv, ReqOK
<1>2. ASSUME NEW g \in Groups PROVE GroupAccounted(h, g)
  <2>1. BeginStop(h, g0, "Restart") /\ ~OnGroup(h) /\ "Restart" \in AllOps
    BY DEF RestartGroup, OnGroup, AllOps
  <2> QED BY <2>1, BeginAccounted
<1>3. ASSUME NEW n \in NodeIds PROVE NodeAccounted(h, n)
  BY <1>1 DEF NodeAccounted, OnNode, GroupRow, NodeRow, Moving, Transient, RestartGroup, BeginStop, Idle, TypeInv, ReqOK, NodeOK, Shape, Locals
<1> QED
  BY <1>1, <1>2, <1>3, GroupStep, NodeStep DEF Owned

LEMMA StartNodeOwned ==
    ASSUME TypeInv, Owned, NEW h \in Requests, NEW n0 \in NodeIds, StartNode(h, n0)
    PROVE  Owned'
<1>1. OthersSame(h)
  BY DEF OthersSame, StartNode, BeginNodeOp, MarkNode, WriteNode, Idle, TypeInv, ReqOK
<1>2. ASSUME NEW g \in Groups PROVE GroupAccounted(h, g)
  BY <1>1 DEF GroupAccounted, OnGroup, GroupRow, NodeRow, Moving, Transient, StartNode, BeginNodeOp, MarkNode, WriteNode, Idle, TypeInv, ReqOK, GrpOK, Shape, Locals
<1>3. ASSUME NEW n \in NodeIds PROVE NodeAccounted(h, n)
  BY <1>1 DEF NodeAccounted, OnNode, GroupRow, NodeRow, Moving, Transient, StartNode, BeginNodeOp, MarkNode, WriteNode, Idle, TypeInv, ReqOK, NodeOK, Shape, Locals
<1> QED
  BY <1>1, <1>2, <1>3, GroupStep, NodeStep DEF Owned

LEMMA StopNodeOwned ==
    ASSUME TypeInv, Owned, NEW h \in Requests, NEW n0 \in NodeIds, StopNode(h, n0)
    PROVE  Owned'
<1>1. OthersSame(h)
  BY DEF OthersSame, StopNode, BeginNodeOp, MarkNode, WriteNode, Idle, TypeInv, ReqOK
<1>2. ASSUME NEW g \in Groups PROVE GroupAccounted(h, g)
  BY <1>1 DEF GroupAccounted, OnGroup, GroupRow, NodeRow, Moving, Transient, StopNode, BeginNodeOp, MarkNode, WriteNode, Idle, TypeInv, ReqOK, GrpOK, Shape, Locals
<1>3. ASSUME NEW n \in NodeIds PROVE NodeAccounted(h, n)
  BY <1>1 DEF NodeAccounted, OnNode, GroupRow, NodeRow, Moving, Transient, StopNode, BeginNodeOp, MarkNode, WriteNode, Idle, TypeInv, ReqOK, NodeOK, Shape, Locals
<1> QED
  BY <1>1, <1>2, <1>3, GroupStep, NodeStep DEF Owned

LEMMA DeleteNodeOwned ==
    ASSUME TypeInv, Owned, NEW h \in Requests, NEW n0 \in NodeIds, DeleteNode(h, n0)
    PROVE  Owned'
<1>1. OthersSame(h)
  BY DEF OthersSame, DeleteNode, Idle, TypeInv, ReqOK
<1>2. ASSUME NEW g \in Groups PROVE GroupAccounted(h, g)
  BY <1>1 DEF GroupAccounted, OnGroup, GroupRow, NodeRow, Moving, Transient, DeleteNode, Idle, TypeInv, ReqOK, GrpOK, Shape, Locals
<1>3. ASSUME NEW n \in NodeIds PROVE NodeAccounted(h, n)
  BY <1>1 DEF NodeAccounted, OnNode, GroupRow, NodeRow, Moving, Transient, DeleteNode, Idle, TypeInv, ReqOK, NodeOK, Shape, Locals
<1> QED
  BY <1>1, <1>2, <1>3, GroupStep, NodeStep DEF Owned

LEMMA GenerateOwned ==
    ASSUME TypeInv, Owned, NEW h \in Requests, Generate(h)
    PROVE  Owned'
<1>1. OthersSame(h)
  BY DEF OthersSame, Generate, WriteGroup, Finish, Idle, Gone, TypeInv, ReqOK
<1>2. ASSUME NEW g \in Groups PROVE GroupAccounted(h, g)
  <2>1. req[h].pc = "generate" /\ ~OnGroup(h)
    BY DEF Generate, OnGroup
  <2>2. CASE WriteGroup(req[h].g, "ERROR") /\ interrupted' = interrupted \ {GroupRow(req[h].g)}
    <3>1. grp'[g] = grp[g] \/ (grp'[g].status \notin Moving)
      BY <2>2 DEF WriteGroup, Gone, Moving, TypeInv, GrpOK
    <3>2. CASE g = req[h].g
      BY <2>2, <3>2 DEF GroupAccounted, WriteGroup, Gone, Moving, TypeInv, GrpOK
    <3>3. CASE g # req[h].g
      BY <2>1, <2>2, <3>1, <3>3 DEF GroupAccounted, GroupRow
    <3> QED
      BY <3>2, <3>3
  <2>3. CASE UNCHANGED <<grp, interrupted>>
    BY <2>1, <2>3 DEF GroupAccounted, GroupRow
  <2> QED
    BY <2>2, <2>3 DEF Generate
<1>3. ASSUME NEW n \in NodeIds PROVE NodeAccounted(h, n)
  BY <1>1 DEF NodeAccounted, OnNode, GroupRow, NodeRow, Moving, Transient, Generate, WriteGroup, Finish, Idle, Gone, TypeInv, ReqOK, NodeOK, Shape, Locals
<1> QED
  BY <1>1, <1>2, <1>3, GroupStep, NodeStep DEF Owned

LEMMA PersistOwned ==
    ASSUME TypeInv, Owned, NEW h \in Requests, Persist(h)
    PROVE  Owned'
<1>1. OthersSame(h)
  BY DEF OthersSame, Persist, Finish, Idle, TypeInv, ReqOK
<1>2. ASSUME NEW g \in Groups PROVE GroupAccounted(h, g)
  <2>1. ~OnGroup(h) /\ grp'[g].status = grp[g].status /\ UNCHANGED interrupted
    BY DEF Persist, OnGroup, TypeInv, GrpOK
  <2> QED BY <2>1 DEF GroupAccounted, GroupRow
<1>3. ASSUME NEW n \in NodeIds PROVE NodeAccounted(h, n)
  BY <1>1 DEF NodeAccounted, OnNode, GroupRow, NodeRow, Moving, Transient, Persist, Finish, Idle, TypeInv, ReqOK, NodeOK, Shape, Locals
<1> QED
  BY <1>1, <1>2, <1>3, GroupStep, NodeStep DEF Owned

LEMMA InsertRowOwned ==
    ASSUME TypeInv, Owned, NEW h \in Requests, InsertRow(h)
    PROVE  Owned'
<1>1. OthersSame(h)
  BY DEF OthersSame, InsertRow, Finish, Idle, TypeInv, ReqOK
<1>2. ASSUME NEW g \in Groups PROVE GroupAccounted(h, g)
  BY <1>1 DEF GroupAccounted, OnGroup, GroupRow, NodeRow, Moving, Transient, InsertRow, Finish, Idle, TypeInv, ReqOK, GrpOK, Shape, Locals
<1>3. ASSUME NEW n \in NodeIds PROVE NodeAccounted(h, n)
  BY <1>1 DEF NodeAccounted, OnNode, GroupRow, NodeRow, Moving, Transient, InsertRow, Finish, Idle, TypeInv, ReqOK, NodeOK, Shape, Locals
<1> QED
  BY <1>1, <1>2, <1>3, GroupStep, NodeStep DEF Owned

LEMMA ConfigRowOwned ==
    ASSUME TypeInv, Owned, NEW h \in Requests, ConfigRow(h)
    PROVE  Owned'
<1>1. OthersSame(h)
  BY DEF OthersSame, ConfigRow, Finish, Idle, TypeInv, ReqOK
<1>2. ASSUME NEW g \in Groups PROVE GroupAccounted(h, g)
  BY <1>1 DEF GroupAccounted, OnGroup, GroupRow, NodeRow, Moving, Transient, ConfigRow, Finish, Idle, TypeInv, ReqOK, GrpOK, Shape, Locals
<1>3. ASSUME NEW n \in NodeIds PROVE NodeAccounted(h, n)
  <2> DEFINE m == req[h].n
  <2>0. m \in NodeIds /\ ~OnNode(h) /\ UNCHANGED interrupted
    BY DEF ConfigRow, OnNode, TypeInv, ReqOK, Shape
  <2>1. ~OnNode(h) /\ node'[n].status = node[n].status /\ UNCHANGED interrupted
    <3>1. CASE Present(m) /\ n = m
      <4>1. node[m] \in Rows /\ node[m] # NoNode
        BY <2>0, <3>1, PresentRow DEF TypeInv
      <4>2. node'[m] = [node[m] EXCEPT !.dep = h]
        BY <2>0, <3>1 DEF ConfigRow, TypeInv, NodeOK
      <4> QED BY <2>0, <3>1, <4>1, <4>2 DEF Rows
    <3>2. CASE ~Present(m) \/ n # m
      BY <2>0, <3>2 DEF ConfigRow, TypeInv, NodeOK
    <3> QED BY <3>1, <3>2
  <2> QED BY <2>1 DEF NodeAccounted, NodeRow
<1> QED
  BY <1>1, <1>2, <1>3, GroupStep, NodeStep DEF Owned

LEMMA LinkRowOwned ==
    ASSUME TypeInv, Owned, NEW h \in Requests, LinkRow(h)
    PROVE  Owned'
<1>1. OthersSame(h)
  BY DEF OthersSame, LinkRow, Finish, Idle, TypeInv, ReqOK
<1>2. ASSUME NEW g \in Groups PROVE GroupAccounted(h, g)
  BY <1>1 DEF GroupAccounted, OnGroup, GroupRow, NodeRow, Moving, Transient, LinkRow, Finish, Idle, TypeInv, ReqOK, GrpOK, Shape, Locals
<1>3. ASSUME NEW n \in NodeIds PROVE NodeAccounted(h, n)
  BY <1>1 DEF NodeAccounted, OnNode, GroupRow, NodeRow, Moving, Transient, LinkRow, Finish, Idle, TypeInv, ReqOK, NodeOK, Shape, Locals
<1> QED
  BY <1>1, <1>2, <1>3, GroupStep, NodeStep DEF Owned

LEMMA InitNodeOwned ==
    ASSUME TypeInv, Owned, NEW h \in Requests, InitNode(h)
    PROVE  Owned'
<1>1. OthersSame(h)
  BY DEF OthersSame, InitNode, Finish, Idle, NoNode, TypeInv, ReqOK
<1>2. ASSUME NEW g \in Groups PROVE GroupAccounted(h, g)
  BY <1>1 DEF GroupAccounted, OnGroup, GroupRow, NodeRow, Moving, Transient, InitNode, Finish, Idle, NoNode, TypeInv, ReqOK, GrpOK, Shape, Locals
<1>3. ASSUME NEW n \in NodeIds PROVE NodeAccounted(h, n)
  BY <1>1 DEF NodeAccounted, OnNode, GroupRow, NodeRow, Moving, Transient, InitNode, Finish, Idle, NoNode, TypeInv, ReqOK, NodeOK, Shape, Locals
<1> QED
  BY <1>1, <1>2, <1>3, GroupStep, NodeStep DEF Owned

LEMMA CommitterCreatedOwned ==
    ASSUME TypeInv, Owned, NEW h \in Requests, CommitterCreated(h)
    PROVE  Owned'
<1>1. OthersSame(h)
  BY DEF OthersSame, CommitterCreated, WriteNode, Finish, Idle, TypeInv, ReqOK
<1>2. ASSUME NEW g \in Groups PROVE GroupAccounted(h, g)
  BY <1>1 DEF GroupAccounted, OnGroup, GroupRow, NodeRow, Moving, Transient, CommitterCreated, WriteNode, Finish, Idle, TypeInv, ReqOK, GrpOK, Shape, Locals
<1>3. ASSUME NEW n \in NodeIds PROVE NodeAccounted(h, n)
  BY <1>1 DEF NodeAccounted, OnNode, GroupRow, NodeRow, Moving, Transient, CommitterCreated, WriteNode, Finish, Idle, TypeInv, ReqOK, NodeOK, Shape, Locals
<1> QED
  BY <1>1, <1>2, <1>3, GroupStep, NodeStep DEF Owned

LEMMA PrepareOwned ==
    ASSUME TypeInv, Owned, NEW h \in Requests, Prepare(h)
    PROVE  Owned'
<1>1. OthersSame(h)
  BY DEF OthersSame, Prepare, WriteGroup, Finish, Idle, Gone, TypeInv, ReqOK
<1>2. ASSUME NEW g \in Groups PROVE GroupAccounted(h, g)
  BY <1>1 DEF GroupAccounted, OnGroup, GroupRow, NodeRow, Moving, Transient, Prepare, WriteGroup, Finish, Idle, Gone, TypeInv, ReqOK, GrpOK, Shape, Locals
<1>3. ASSUME NEW n \in NodeIds PROVE NodeAccounted(h, n)
  BY <1>1 DEF NodeAccounted, OnNode, GroupRow, NodeRow, Moving, Transient, Prepare, WriteGroup, Finish, Idle, Gone, TypeInv, ReqOK, NodeOK, Shape, Locals
<1> QED
  BY <1>1, <1>2, <1>3, GroupStep, NodeStep DEF Owned

LEMMA RestartStartOwned ==
    ASSUME TypeInv, Owned, NEW h \in Requests, RestartStart(h)
    PROVE  Owned'
<1>1. OthersSame(h)
  BY DEF OthersSame, RestartStart, BeginStart, Finish, Idle, TypeInv, ReqOK
<1>2. ASSUME NEW g \in Groups PROVE GroupAccounted(h, g)
  <2>1. ~OnGroup(h) /\ req[h].g \in Groups /\ "Restart" \in AllOps
    BY DEF RestartStart, OnGroup, AllOps, TypeInv, ReqOK, Shape
  <2>2. CASE Exists(req[h].g)
    BY <2>1, <2>2, BeginAccounted DEF RestartStart
  <2>3. CASE ~Exists(req[h].g)
    BY <2>1, <2>3 DEF RestartStart, GroupAccounted, GroupRow
  <2> QED BY <2>2, <2>3
<1>3. ASSUME NEW n \in NodeIds PROVE NodeAccounted(h, n)
  BY <1>1 DEF NodeAccounted, OnNode, GroupRow, NodeRow, Moving, Transient, RestartStart, BeginStart, Finish, Idle, TypeInv, ReqOK, NodeOK, Shape, Locals
<1> QED
  BY <1>1, <1>2, <1>3, GroupStep, NodeStep DEF Owned

LEMMA ListOwned ==
    ASSUME TypeInv, Owned, NEW h \in Requests, List(h)
    PROVE  Owned'
<1>1. OthersSame(h)
  BY DEF OthersSame, List, TypeInv, ReqOK
<1>2. ASSUME NEW g \in Groups PROVE GroupAccounted(h, g)
  BY <1>1 DEF GroupAccounted, OnGroup, GroupRow, NodeRow, Moving, Transient, List, TypeInv, ReqOK, GrpOK, Shape, Locals
<1>3. ASSUME NEW n \in NodeIds PROVE NodeAccounted(h, n)
  BY <1>1 DEF NodeAccounted, OnNode, GroupRow, NodeRow, Moving, Transient, List, TypeInv, ReqOK, NodeOK, Shape, Locals
<1> QED
  BY <1>1, <1>2, <1>3, GroupStep, NodeStep DEF Owned

LEMMA SkipChildOwned ==
    ASSUME TypeInv, Owned, NEW h \in Requests, SkipChild(h)
    PROVE  Owned'
<1>1. OthersSame(h)
  BY DEF OthersSame, SkipChild, TypeInv, ReqOK
<1>2. ASSUME NEW g \in Groups PROVE GroupAccounted(h, g)
  BY <1>1 DEF GroupAccounted, OnGroup, GroupRow, NodeRow, Moving, Transient, SkipChild, TypeInv, ReqOK, GrpOK, Shape, Locals
<1>3. ASSUME NEW n \in NodeIds PROVE NodeAccounted(h, n)
  BY <1>1 DEF NodeAccounted, OnNode, GroupRow, NodeRow, Moving, Transient, SkipChild, TypeInv, ReqOK, NodeOK, Shape, Locals
<1> QED
  BY <1>1, <1>2, <1>3, GroupStep, NodeStep DEF Owned

LEMMA MarkChildOwned ==
    ASSUME TypeInv, Owned, NEW h \in Requests, MarkChild(h)
    PROVE  Owned'
<1>1. OthersSame(h)
  BY DEF OthersSame, MarkChild, WriteNode, TypeInv, ReqOK
<1>2. ASSUME NEW g \in Groups PROVE GroupAccounted(h, g)
  BY <1>1 DEF GroupAccounted, OnGroup, GroupRow, NodeRow, Moving, Transient, MarkChild, WriteNode, TypeInv, ReqOK, GrpOK, Shape, Locals
<1>3. ASSUME NEW n \in NodeIds PROVE NodeAccounted(h, n)
  BY <1>1 DEF NodeAccounted, OnNode, GroupRow, NodeRow, Moving, Transient, MarkChild, WriteNode, TypeInv, ReqOK, NodeOK, Shape, Locals
<1> QED
  BY <1>1, <1>2, <1>3, GroupStep, NodeStep DEF Owned

LEMMA EndGroupOwned ==
    ASSUME TypeInv, Owned, NEW h \in Requests, EndGroup(h)
    PROVE  Owned'
<1>1. OthersSame(h)
  BY DEF OthersSame, EndGroup, WriteGroup, FinalStatus, Finish, Idle, Gone, TypeInv, ReqOK
<1>2. ASSUME NEW g \in Groups PROVE GroupAccounted(h, g)
  BY <1>1 DEF GroupAccounted, OnGroup, GroupRow, NodeRow, Moving, Transient, EndGroup, WriteGroup, FinalStatus, Finish, Idle, Gone, TypeInv, ReqOK, GrpOK, Shape, Locals
<1>3. ASSUME NEW n \in NodeIds PROVE NodeAccounted(h, n)
  BY <1>1 DEF NodeAccounted, OnNode, GroupRow, NodeRow, Moving, Transient, EndGroup, WriteGroup, FinalStatus, Finish, Idle, Gone, TypeInv, ReqOK, NodeOK, Shape, Locals
<1> QED
  BY <1>1, <1>2, <1>3, GroupStep, NodeStep DEF Owned

LEMMA StopFirstOwned ==
    ASSUME TypeInv, Owned, NEW h \in Requests, StopFirst(h)
    PROVE  Owned'
<1>1. OthersSame(h)
  BY DEF OthersSame, StopFirst, MarkNode, WriteNode, Idle, TypeInv, ReqOK
<1>2. ASSUME NEW g \in Groups PROVE GroupAccounted(h, g)
  BY <1>1 DEF GroupAccounted, OnGroup, GroupRow, NodeRow, Moving, Transient, StopFirst, MarkNode, WriteNode, Idle, TypeInv, ReqOK, GrpOK, Shape, Locals
<1>3. ASSUME NEW n \in NodeIds PROVE NodeAccounted(h, n)
  <2>1. ~OnNode(h) /\ UNCHANGED interrupted
    BY DEF StopFirst, OnNode
  <2>2. CASE node'[n].status = node[n].status
    BY <2>1, <2>2 DEF NodeAccounted, NodeRow
  <2>3. CASE node'[n].status # node[n].status
    <3>1. n = req[h].n /\ node'[n].status = "STOPPING"
      <4>1. CASE UNCHANGED node
        BY <2>3, <4>1
      <4>2. CASE WriteNode(req[h].n, "STOPPING") /\ n # req[h].n
        BY <2>3, <4>2 DEF WriteNode, TypeInv, NodeOK
      <4>3. CASE WriteNode(req[h].n, "STOPPING") /\ n = req[h].n
        <5>1. Present(n)
          BY <2>3, <4>3, AbsentRow DEF StopFirst
        <5>2. node[n] \in Rows /\ node[n] # NoNode
          BY <5>1, PresentRow DEF TypeInv
        <5>3. node'[n] = [node[n] EXCEPT !.status = "STOPPING"]
          BY <4>3, <5>1 DEF WriteNode, Present, TypeInv, NodeOK
        <5> QED BY <4>3, <5>2, <5>3 DEF Rows
      <4> QED BY <4>1, <4>2, <4>3 DEF StopFirst, MarkNode, Transient
    <3>2. req'[h].pc = "effect" /\ req'[h].n = n /\ req'[h].verb = "stop"
      BY <2>3, <3>1 DEF StopFirst, MarkNode, Idle, TypeInv, ReqOK
    <3> QED BY <3>1, <3>2 DEF NodeAccounted, OnNode, Transient
  <2> QED BY <2>2, <2>3
<1> QED
  BY <1>1, <1>2, <1>3, GroupStep, NodeStep DEF Owned

LEMMA EffectOwned ==
    ASSUME TypeInv, Owned, NEW h \in Requests, Effect(h)
    PROVE  Owned'
<1>1. OthersSame(h)
  BY DEF OthersSame, Effect, Outcome, TypeInv, ReqOK
<1>2. ASSUME NEW g \in Groups PROVE GroupAccounted(h, g)
  <2>1. PICK ok : req' = [req EXCEPT ![h].ok = ok, ![h].pc = "settle"]
    BY DEF Effect, Outcome
  <2>2. req'[h].pc = "settle" /\ req'[h].g = req[h].g /\ req'[h].n = req[h].n
        /\ req'[h].verb = req[h].verb
    BY <2>1 DEF TypeInv, ReqOK, Locals
  <2>3. UNCHANGED <<grp, node, interrupted>>
    BY DEF Effect
  <2> QED
    BY <2>2, <2>3 DEF GroupAccounted, OnGroup, GroupRow
<1>3. ASSUME NEW n \in NodeIds PROVE NodeAccounted(h, n)
  <2>1. PICK ok : req' = [req EXCEPT ![h].ok = ok, ![h].pc = "settle"]
    BY DEF Effect, Outcome
  <2>2. req'[h].pc = "settle" /\ req'[h].g = req[h].g /\ req'[h].n = req[h].n
        /\ req'[h].verb = req[h].verb
    BY <2>1 DEF TypeInv, ReqOK, Locals
  <2>3. UNCHANGED <<grp, node, interrupted>>
    BY DEF Effect
  <2> QED
    BY <2>2, <2>3 DEF NodeAccounted, OnNode, NodeRow
<1> QED
  BY <1>1, <1>2, <1>3, GroupStep, NodeStep DEF Owned

LEMMA SettleOwned ==
    ASSUME TypeInv, Owned, NEW h \in Requests, Settle(h)
    PROVE  Owned'
<1>1. OthersSame(h)
  BY DEF OthersSame, Settle, WriteNode, NodeFinal, Settled, Finish, Idle, TypeInv, ReqOK
<1>2. ASSUME NEW g \in Groups PROVE GroupAccounted(h, g)
  <2>1. grp'[g] = grp[g] /\ (GroupRow(g) \in interrupted => GroupRow(g) \in interrupted')
    BY DEF Settle, GroupRow, NodeRow
  <2>2. CASE req[h].g # None
    <3>1. req'[h].pc = "child" /\ req'[h].g = req[h].g /\ req'[h].verb = req[h].verb
      <4>1. req[h] \in Locals
        BY DEF TypeInv, ReqOK
      <4>2. req' = [req EXCEPT ![h].pc = "child", ![h].i = @ + 1, ![h].n = None,
                      ![h].row = NoNode, ![h].ok = TRUE,
                      ![h].err = @ \/ ~req[h].ok \/ ~Present(req[h].n)]
        BY <2>2 DEF Settle
      <4>3. req'[h] = [req[h] EXCEPT !.pc = "child", !.i = @ + 1, !.n = None,
                      !.row = NoNode, !.ok = TRUE,
                      !.err = @ \/ ~req[h].ok \/ ~Present(req[h].n)]
        BY <4>2 DEF TypeInv, ReqOK
      <4> QED BY <4>1, <4>3 DEF Locals
    <3> QED BY <2>1, <2>2, <3>1 DEF GroupAccounted, OnGroup
  <2>3. CASE req[h].g = None
    BY <2>1, <2>3 DEF GroupAccounted, OnGroup
  <2> QED BY <2>2, <2>3
<1>3. ASSUME NEW n \in NodeIds PROVE NodeAccounted(h, n)
  BY <1>1 DEF NodeAccounted, OnNode, GroupRow, NodeRow, Moving, Transient, Settle, WriteNode, NodeFinal, Settled, Finish, Idle, TypeInv, ReqOK, NodeOK, Shape, Locals
<1> QED
  BY <1>1, <1>2, <1>3, GroupStep, NodeStep DEF Owned

LEMMA RemoveNodeOwned ==
    ASSUME TypeInv, Owned, NEW h \in Requests, RemoveNode(h)
    PROVE  Owned'
<1>1. OthersSame(h)
  BY DEF OthersSame, RemoveNode, Finish, Idle, NoNode, TypeInv, ReqOK
<1>2. ASSUME NEW g \in Groups PROVE GroupAccounted(h, g)
  BY <1>1 DEF GroupAccounted, OnGroup, GroupRow, NodeRow, Moving, Transient, RemoveNode, Finish, Idle, NoNode, TypeInv, ReqOK, GrpOK, Shape, Locals
<1>3. ASSUME NEW n \in NodeIds PROVE NodeAccounted(h, n)
  BY <1>1 DEF NodeAccounted, OnNode, GroupRow, NodeRow, Moving, Transient, RemoveNode, Finish, Idle, NoNode, TypeInv, ReqOK, NodeOK, Shape, Locals
<1> QED
  BY <1>1, <1>2, <1>3, GroupStep, NodeStep DEF Owned

LEMMA AbortOwned ==
    ASSUME TypeInv, Owned, NEW h \in Requests, Abort(h)
    PROVE  Owned'
<1>1. OthersSame(h)
  BY DEF OthersSame, Abort, Finish, Idle, TypeInv, ReqOK
<1>2. ASSUME NEW g \in Groups PROVE GroupAccounted(h, g)
  BY <1>1 DEF GroupAccounted, OnGroup, GroupRow, NodeRow, Moving, Transient, Abort, Finish, Idle, TypeInv, ReqOK, GrpOK, Shape, Locals
<1>3. ASSUME NEW n \in NodeIds PROVE NodeAccounted(h, n)
  BY <1>1 DEF NodeAccounted, OnNode, GroupRow, NodeRow, Moving, Transient, Abort, Finish, Idle, TypeInv, ReqOK, NodeOK, Shape, Locals
<1> QED
  BY <1>1, <1>2, <1>3, GroupStep, NodeStep DEF Owned

LEMMA DeleteGroupOwned ==
    ASSUME TypeInv, Owned, NEW g0 \in Groups, DeleteGroup(g0)
    PROVE  Owned'
<1>1. \A g \in Groups : grp'[g].status \in {"CREATED", "deleted", grp[g].status}
  BY DEF DeleteGroup, TypeInv, GrpOK
<1>2. \A n \in NodeIds : node'[n].status \in {"absent", node[n].status}
  BY DEF DeleteGroup, TypeInv, NodeOK, NoNode
<1>3. UNCHANGED <<req, interrupted>>
  BY DEF DeleteGroup
<1>4. GroupStatusOwned'
  BY <1>1, <1>3 DEF Owned, GroupStatusOwned, OnGroup, GroupRow, Transient
<1>5. NodeStatusOwned'
  BY <1>2, <1>3 DEF Owned, NodeStatusOwned, OnNode, NodeRow, Transient
<1> QED BY <1>4, <1>5 DEF Owned

LEMMA CreateGroupOwned ==
    ASSUME TypeInv, Owned, NEW g0 \in Groups, CreateGroup(g0)
    PROVE  Owned'
<1>1. \A g \in Groups : grp'[g].status \in {"CREATED", "deleted", grp[g].status}
  BY DEF CreateGroup, TypeInv, GrpOK
<1>2. \A n \in NodeIds : node'[n].status \in {"absent", node[n].status}
  BY DEF CreateGroup, TypeInv, NodeOK
<1>3. UNCHANGED <<req, interrupted>>
  BY DEF CreateGroup
<1>4. GroupStatusOwned'
  BY <1>1, <1>3 DEF Owned, GroupStatusOwned, OnGroup, GroupRow, Transient
<1>5. NodeStatusOwned'
  BY <1>2, <1>3 DEF Owned, NodeStatusOwned, OnNode, NodeRow, Transient
<1> QED BY <1>4, <1>5 DEF Owned

LEMMA OwnedInvariant == Spec => []Owned
<1>1. Init => Owned
  BY DEF Init, Owned, GroupStatusOwned, NodeStatusOwned, Transient, NoNode
<1>2. TypeInv /\ Owned /\ [Next]_vars => Owned'
  <2> SUFFICES ASSUME TypeInv, Owned, [Next]_vars PROVE Owned'
    OBVIOUS
  <2>1. CASE UNCHANGED vars
    BY <2>1 DEF vars, Owned, GroupStatusOwned, NodeStatusOwned, OnGroup, OnNode,
                GroupRow, NodeRow
  <2>2. ASSUME NEW g \in Groups, CreateGroup(g) PROVE Owned'
    BY <2>2, CreateGroupOwned
  <2>3. ASSUME NEW g \in Groups, DeleteGroup(g) PROVE Owned'
    BY <2>3, DeleteGroupOwned
  <2>4. ASSUME NEW h \in Requests, Begin(h) PROVE Owned'
    BY <2>4, BeginInitOwned, BeginAddCommitterOwned, StartGroupOwned, StopGroupOwned,
       RestartGroupOwned, StartNodeOwned, StopNodeOwned, DeleteNodeOwned DEF Begin
  <2>5. ASSUME NEW h \in Requests, Work(h) PROVE Owned'
    BY <2>5, GenerateOwned, PersistOwned, InsertRowOwned, ConfigRowOwned, LinkRowOwned,
       InitNodeOwned, CommitterCreatedOwned, PrepareOwned, RestartStartOwned, ListOwned,
       SkipChildOwned, MarkChildOwned, EndGroupOwned, StopFirstOwned, EffectOwned,
       SettleOwned, RemoveNodeOwned DEF Work
  <2>6. ASSUME NEW h \in Requests, Abort(h) PROVE Owned'
    BY <2>6, AbortOwned
  <2> QED
    BY <2>1, <2>2, <2>3, <2>4, <2>5, <2>6 DEF Next
<1> QED
  BY <1>1, <1>2, InitTypeInv, NextType, PTL DEF Spec

(* GroupStatusOwned holds in every behaviour: whatever the requests do to   *)
(* one another's rows, a group is left STARTING or STOPPING only by a       *)
(* StartGroup or StopGroup that is still at work or that was cut off.       *)
THEOREM GroupStatusAlwaysOwned == Spec => []GroupStatusOwned
BY OwnedInvariant, PTL DEF Owned

(* The same of the nodes rows and of startNode and StopNode, also when they *)
(* are called on the same child through the group and the nodes API.        *)
THEOREM NodeStatusAlwaysOwned == Spec => []NodeStatusOwned
BY OwnedInvariant, PTL DEF Owned

-----------------------------------------------------------------------------
(* The rows of nodes: they keep their identity, a deleted one never        *)
(* returns, one row per role, and only complete rows are linked.           *)

\* A step deletes row n, or keeps its group, its role and its configuration.
RowKept(n) ==
    \/ node'[n] = NoNode
    \/ /\ Present(n)
       /\ node'[n].group = node[n].group /\ node'[n].role = node[n].role
       /\ node[n].dep # None => node'[n].dep # None

RowsKept  == \A n \in NodeIds : RowKept(n)
LinksKept == \A n \in NodeIds : node'[n].linked => node[n].linked

LEMMA KeepRows ==
    ASSUME TypeInv, UNCHANGED node
    PROVE  RowsKept /\ LinksKept
BY AbsentRow DEF TypeInv, RowsKept, RowKept, LinksKept

LEMMA WriteRows ==
    ASSUME TypeInv, NEW m \in NodeIds, NEW s \in NodeStatus, WriteNode(m, s)
    PROVE  RowsKept /\ LinksKept
<1> SUFFICES ASSUME NEW n \in NodeIds PROVE RowKept(n) /\ (node'[n].linked => node[n].linked)
  BY DEF RowsKept, LinksKept
<1>1. CASE Present(n) /\ n = m
  <2>1. node[n] \in Rows /\ node[n] # NoNode
    BY <1>1, PresentRow DEF TypeInv
  <2>2. node'[n] = [node[n] EXCEPT !.status = s]
    BY <1>1 DEF WriteNode, Present, TypeInv, NodeOK
  <2> QED BY <1>1, <2>1, <2>2 DEF RowKept, Rows
<1>2. CASE Present(n) /\ n # m
  BY <1>2 DEF WriteNode, RowKept, TypeInv, NodeOK
<1>3. CASE ~Present(n)
  <2>1. node[n] = NoNode
    BY <1>3, AbsentRow DEF TypeInv
  <2>2. node'[n] = NoNode
    <3>1. CASE n # m
      BY <2>1, <3>1 DEF WriteNode, TypeInv, NodeOK
    <3>2. CASE n = m
      BY <2>1, <3>2, <1>3, NoNodeSame DEF WriteNode, Present, TypeInv, NodeOK
    <3> QED BY <3>1, <3>2
  <2> QED BY <2>1, <2>2 DEF RowKept
<1> QED BY <1>1, <1>2, <1>3

LEMMA RemoveRows ==
    ASSUME TypeInv, NEW m \in NodeIds, node' = [node EXCEPT ![m] = NoNode]
    PROVE  RowsKept /\ LinksKept
<1> SUFFICES ASSUME NEW n \in NodeIds PROVE RowKept(n) /\ (node'[n].linked => node[n].linked)
  BY DEF RowsKept, LinksKept
<1>1. CASE n = m
  BY <1>1 DEF RowKept, NoNode, TypeInv, NodeOK
<1>2. CASE n # m
  BY <1>2, AbsentRow DEF RowKept, TypeInv, NodeOK
<1> QED BY <1>1, <1>2

LEMMA DeleteGroupRows ==
    ASSUME TypeInv, NEW g \in Groups, DeleteGroup(g)
    PROVE  RowsKept /\ LinksKept
<1> SUFFICES ASSUME NEW n \in NodeIds PROVE RowKept(n) /\ (node'[n].linked => node[n].linked)
  BY DEF RowsKept, LinksKept
<1>1. node'[n] = NoNode \/ node'[n] = node[n]
  BY DEF DeleteGroup
<1>2. CASE node'[n] = NoNode
  BY <1>2 DEF RowKept, NoNode
<1>3. CASE node'[n] = node[n]
  BY <1>3, AbsentRow DEF RowKept, TypeInv
<1> QED BY <1>1, <1>2, <1>3

LEMMA ConfigRows ==
    ASSUME TypeInv, NEW h \in Requests, ConfigRow(h)
    PROVE  /\ RowsKept /\ LinksKept
           /\ node'[req[h].n].status # "absent" => node'[req[h].n].dep # None
<1> DEFINE m == req[h].n
<1>0. m \in NodeIds
  BY DEF ConfigRow, TypeInv, ReqOK, Shape
<1>1. CASE ~Present(m)
  <2>1. UNCHANGED node
    BY <1>1 DEF ConfigRow
  <2>2. node'[m].status = "absent"
    BY <1>1, <2>1 DEF Present
  <2> QED BY <2>1, <2>2, KeepRows
<1>2. CASE Present(m)
  <2>1. node[m] \in Rows /\ node[m] # NoNode
    BY <1>0, <1>2, PresentRow DEF TypeInv
  <2>2. node' = [node EXCEPT ![m] = [node[m] EXCEPT !.dep = h]]
    BY <1>0, <1>2 DEF ConfigRow, TypeInv, NodeOK
  <2>3. node'[m].dep = h /\ node'[m].group = node[m].group /\ node'[m].role = node[m].role
        /\ node'[m].linked = node[m].linked
    BY <1>0, <2>1, <2>2 DEF TypeInv, NodeOK, Rows
  <2>4. \A n \in NodeIds : n # m => node'[n] = node[n]
    BY <2>2 DEF TypeInv, NodeOK
  <2> QED BY <1>0, <1>2, <2>3, <2>4, AbsentRow, NoneFresh DEF RowsKept, RowKept, LinksKept, TypeInv
<1> QED BY <1>1, <1>2

LEMMA LinkRows ==
    ASSUME TypeInv, NEW h \in Requests, LinkRow(h)
    PROVE  /\ RowsKept
           /\ \A n \in NodeIds : node'[n].linked =>
                  node[n].linked \/ (n = req[h].n /\ Present(n) /\ Exists(req[h].g))
<1> DEFINE m == req[h].n
<1>0. m \in NodeIds
  BY DEF LinkRow, TypeInv, ReqOK, Shape
<1>1. CASE LinkRejected(h)
  BY <1>1, KeepRows DEF LinkRow, LinksKept
<1>2. CASE ~LinkRejected(h) /\ Present(m)
  <2>1. node[m] \in Rows /\ node[m] # NoNode
    BY <1>0, <1>2, PresentRow DEF TypeInv
  <2>2. node' = [node EXCEPT ![m] = [node[m] EXCEPT !.linked = Present(m)]]
    BY <1>0, <1>2 DEF LinkRow, TypeInv, NodeOK
  <2>3. node'[m].dep = node[m].dep /\ node'[m].group = node[m].group
        /\ node'[m].role = node[m].role
    BY <1>0, <2>1, <2>2 DEF TypeInv, NodeOK, Rows
  <2>4. \A n \in NodeIds : n # m => node'[n] = node[n]
    BY <2>2 DEF TypeInv, NodeOK
  <2>5. Exists(req[h].g)
    BY <1>2 DEF LinkRejected
  <2> QED BY <1>0, <1>2, <2>3, <2>4, <2>5, AbsentRow DEF RowsKept, RowKept, TypeInv
<1>3. CASE ~LinkRejected(h) /\ ~Present(m)
  <2>1. node[m] = NoNode /\ Present(m) = FALSE
    BY <1>0, <1>3, AbsentRow DEF TypeInv, Present
  <2>2. node' = [node EXCEPT ![m] = [NoNode EXCEPT !.linked = FALSE]]
    BY <1>0, <1>3, <2>1 DEF LinkRow, TypeInv, NodeOK
  <2>3. UNCHANGED node
    BY <1>0, <2>1, <2>2, NoNodeSame DEF TypeInv, NodeOK
  <2> QED BY <2>3, KeepRows DEF LinksKept
<1> QED BY <1>1, <1>2, <1>3

\* The row an insertion adds is the next one, complete but for its links.
LEMMA InsertRows ==
    ASSUME TypeInv, NEW h \in Requests, InsertRow(h)
    PROVE  \/ UNCHANGED <<node, lastNode>> /\ req'[h] = Idle
           \/ /\ lastNode' = lastNode + 1 /\ lastNode' \in NodeIds
              /\ ~SlugTaken(req[h].g, NewRole(h))
              /\ \A n \in NodeIds : n # lastNode' => node'[n] = node[n]
              /\ node'[lastNode'].group = req[h].g /\ node'[lastNode'].role = NewRole(h)
              /\ node'[lastNode'].linked = FALSE
              /\ req[h].op = "Init" => node'[lastNode'].status = "CREATED"
              /\ req'[h].g = req[h].g /\ req'[h].op = req[h].op /\ req'[h].n = lastNode'
              /\ req'[h].pc \in {"config", "initNode"}
<1>1. CASE Finish(h) /\ UNCHANGED <<node, lastNode>>
  BY <1>1 DEF Finish, TypeInv, ReqOK
<1>2. CASE ~((req[h].op = "Init" /\ req[h].i > Len(InitRoles)) \/ InsertRejected(h))
  <2>1. lastNode + 1 \in NodeIds /\ ~SlugTaken(req[h].g, NewRole(h))
    BY <1>2, ConstantsAssumption DEF ConstantsAssumption, InsertRejected, NodeIds, TypeInv, NodeOK
  <2> DEFINE row == [group |-> req[h].g, role |-> NewRole(h), linked |-> FALSE, dep |-> None,
                     status |-> IF req[h].op = "Init" THEN "CREATED" ELSE "PENDING"]
             pc  == IF req[h].op = "Init" THEN "config" ELSE "initNode"
  <2>2. lastNode' = lastNode + 1 /\ node' = [node EXCEPT ![lastNode + 1] = row]
    BY <1>2 DEF InsertRow
  <2>3. req' = [req EXCEPT ![h].n = lastNode + 1, ![h].pc = pc]
    BY <1>2 DEF InsertRow
  <2>4. pc \in {"config", "initNode"}
    OBVIOUS
  <2>5. /\ row.group = req[h].g /\ row.role = NewRole(h) /\ row.linked = FALSE
        /\ req[h].op = "Init" => row.status = "CREATED"
    OBVIOUS
  <2> HIDE DEF row, pc
  <2>6. req'[h].g = req[h].g /\ req'[h].op = req[h].op /\ req'[h].n = lastNode + 1
        /\ req'[h].pc = pc
    <3>1. req[h] \in Locals /\ req'[h] = [req[h] EXCEPT !.n = lastNode + 1, !.pc = pc]
      BY <2>3 DEF TypeInv, ReqOK
    <3> QED BY <3>1 DEF Locals
  <2>7. node'[lastNode + 1] = row /\ \A n \in NodeIds : n # lastNode + 1 => node'[n] = node[n]
    BY <2>1, <2>2 DEF TypeInv, NodeOK
  <2> QED BY <2>1, <2>2, <2>4, <2>5, <2>6, <2>7
<1> QED
  BY <1>1, <1>2 DEF InsertRow

\* Every step but an insertion keeps the rows; only LinkRow links one.
LEMMA StepRows ==
    ASSUME TypeInv, [Next]_vars
    PROVE  \/ RowsKept /\ UNCHANGED lastNode
                /\ (LinksKept \/ \E h \in Requests : LinkRow(h))
           \/ \E h \in Requests : InsertRow(h)
<1>1. CASE UNCHANGED vars
  BY <1>1, KeepRows DEF vars
<1>2. ASSUME NEW g \in Groups, CreateGroup(g) PROVE RowsKept /\ LinksKept /\ UNCHANGED lastNode
  BY <1>2, KeepRows DEF CreateGroup
<1>3. ASSUME NEW g \in Groups, DeleteGroup(g) PROVE RowsKept /\ LinksKept /\ UNCHANGED lastNode
  BY <1>3, DeleteGroupRows DEF DeleteGroup
<1>4. ASSUME NEW h \in Requests, Abort(h) PROVE RowsKept /\ LinksKept /\ UNCHANGED lastNode
  BY <1>4, KeepRows DEF Abort
<1>5. ASSUME NEW h \in Requests, Begin(h) PROVE RowsKept /\ LinksKept /\ UNCHANGED lastNode
  <2>1. ASSUME NEW g \in Groups,
               \/ BeginInit(h, g) \/ BeginAddCommitter(h, g)
               \/ StartGroup(h, g) \/ StopGroup(h, g) \/ RestartGroup(h, g)
        PROVE  RowsKept /\ LinksKept /\ UNCHANGED lastNode
    BY <2>1, KeepRows DEF BeginInit, BeginAddCommitter, StartGroup, StopGroup, RestartGroup,
                          BeginStart, BeginStop
  <2>2. ASSUME NEW n \in NodeIds, DeleteNode(h, n)
        PROVE  RowsKept /\ LinksKept /\ UNCHANGED lastNode
    BY <2>2, KeepRows DEF DeleteNode
  <2>3. ASSUME NEW n \in NodeIds, StartNode(h, n) \/ StopNode(h, n)
        PROVE  RowsKept /\ LinksKept /\ UNCHANGED lastNode
    BY <2>3, WriteRows DEF StartNode, StopNode, BeginNodeOp, MarkNode, Transient,
                           NodeStatus, GroupStatus
  <2> QED BY <1>5, <2>1, <2>2, <2>3 DEF Begin
<1>6. ASSUME NEW h \in Requests, Work(h), ~InsertRow(h)
      PROVE  RowsKept /\ UNCHANGED lastNode /\ (LinksKept \/ LinkRow(h))
  <2>1. CASE Generate(h) \/ Persist(h) \/ Prepare(h) \/ RestartStart(h) \/ List(h)
             \/ SkipChild(h) \/ EndGroup(h) \/ Effect(h)
    BY <2>1, KeepRows DEF Generate, Persist, Prepare, RestartStart, BeginStart, List,
                          SkipChild, EndGroup, Effect
  <2>2. CASE ConfigRow(h)
    BY <2>2, ConfigRows DEF ConfigRow
  <2>3. CASE LinkRow(h)
    BY <2>3, LinkRows DEF LinkRow
  <2>4. CASE InitNode(h)
    <3>1. req[h].n \in NodeIds
      BY <2>4 DEF InitNode, TypeInv, ReqOK, Shape
    <3> QED BY <2>4, <3>1, KeepRows, RemoveRows DEF InitNode
  <2>5. CASE CommitterCreated(h)
    <3>1. req[h].n \in NodeIds
      BY <2>5 DEF CommitterCreated, TypeInv, ReqOK, Shape
    <3> QED BY <2>5, <3>1, WriteRows DEF CommitterCreated, NodeStatus, GroupStatus
  <2>6. CASE MarkChild(h)
    <3> DEFINE n == req[h].kids[RoleNow(h)]
    <3>1. CASE UNCHANGED node
      BY <2>6, <3>1, KeepRows DEF MarkChild
    <3>2. CASE Present(n) /\ WriteNode(n, Transient(req[h].verb))
      <4>1. n \in NodeIds
        <5>1. req[h] \in Locals /\ req[h].i \in 1..Len(Roles) /\ n # None
          BY <2>6, RoleFacts DEF MarkChild, TypeInv, ReqOK, Shape, Locals
        <5>2. RoleNow(h) \in RoleSet
          BY <5>1, RoleFacts DEF RoleNow
        <5> QED BY <5>1, <5>2 DEF Locals
      <4> QED BY <2>6, <3>2, <4>1, WriteRows DEF MarkChild, Transient, NodeStatus, GroupStatus
    <3> QED BY <2>6, <3>1, <3>2 DEF MarkChild
  <2>7. CASE StopFirst(h)
    <3>1. req[h].n \in NodeIds
      BY <2>7 DEF StopFirst, TypeInv, ReqOK, Shape
    <3> QED BY <2>7, <3>1, KeepRows, WriteRows DEF StopFirst, MarkNode, Transient,
                                                   NodeStatus, GroupStatus
  <2>8. CASE Settle(h)
    <3>1. req[h].n \in NodeIds
      BY <2>8 DEF Settle, TypeInv, ReqOK, Shape
    <3> QED BY <2>8, <3>1, WriteRows DEF Settle, NodeFinal, Settled, NodeStatus, GroupStatus
  <2>9. CASE RemoveNode(h)
    <3>1. req[h].n \in NodeIds
      BY <2>9 DEF RemoveNode, TypeInv, ReqOK, Shape
    <3> QED BY <2>9, <3>1, RemoveRows DEF RemoveNode
  <2> QED
    BY <1>6, <2>1, <2>2, <2>3, <2>4, <2>5, <2>6, <2>7, <2>8, <2>9 DEF Work
<1> QED
  BY <1>1, <1>2, <1>3, <1>4, <1>5, <1>6 DEF Next

-----------------------------------------------------------------------------
(* nodes.slug is UNIQUE.                                                   *)

UniqueSlugs ==
    \A m, n \in NodeIds : Present(m) /\ Present(n) /\ SlugOf(node[m]) = SlugOf(node[n]) => m = n

LEMMA UniqueSlugsNext == TypeInv /\ UniqueSlugs /\ [Next]_vars => UniqueSlugs'
<1> SUFFICES ASSUME TypeInv, UniqueSlugs, [Next]_vars PROVE UniqueSlugs'
  OBVIOUS
<1> SUFFICES ASSUME NEW m \in NodeIds, NEW n \in NodeIds,
                    node'[m].status # "absent", node'[n].status # "absent",
                    SlugOf(node'[m]) = SlugOf(node'[n])
             PROVE  m = n
  BY DEF UniqueSlugs, Present
<1>1. CASE RowsKept
  <2>1. node'[m] # NoNode /\ node'[n] # NoNode
    BY DEF NoNode
  <2>2. Present(m) /\ SlugOf(node'[m]) = SlugOf(node[m])
    BY <1>1, <2>1 DEF RowsKept, RowKept, SlugOf
  <2>3. Present(n) /\ SlugOf(node'[n]) = SlugOf(node[n])
    BY <1>1, <2>1 DEF RowsKept, RowKept, SlugOf
  <2> QED BY <2>2, <2>3 DEF UniqueSlugs
<1>2. ASSUME NEW h \in Requests, InsertRow(h) PROVE m = n
  <2>1. CASE UNCHANGED node
    BY <2>1 DEF UniqueSlugs, Present
  <2>2. CASE ~UNCHANGED node
    <3> DEFINE k == lastNode'
    <3>1. /\ ~SlugTaken(req[h].g, NewRole(h))
          /\ \A c \in NodeIds : c # k => node'[c] = node[c]
          /\ SlugOf(node'[k]) = Slug(req[h].g, NewRole(h))
      BY <1>2, <2>2, InsertRows DEF SlugOf
    <3> HIDE DEF k
    <3>2. CASE m # k /\ n # k
      BY <3>1, <3>2 DEF UniqueSlugs, Present
    <3>3. CASE m = k /\ n # k
      BY <3>1, <3>3 DEF SlugTaken, Present
    <3>4. CASE m # k /\ n = k
      BY <3>1, <3>4 DEF SlugTaken, Present
    <3> QED BY <3>2, <3>3, <3>4
  <2> QED BY <2>1, <2>2
<1> QED
  BY <1>1, <1>2, StepRows

(* However many Init and CreateNode requests run at the same time, a group  *)
(* has at most one linked child of a type: the unique index decides.        *)
THEOREM OneChild == Spec => []OneChildPerRole
<1>1. Init => UniqueSlugs
  BY DEF Init, UniqueSlugs, Present, NoNode
<1>2. TypeInv /\ UniqueSlugs => OneChildPerRole
  <2> SUFFICES ASSUME TypeInv, UniqueSlugs, NEW m \in NodeIds, NEW n \in NodeIds,
                      node[m].linked, node[n].linked,
                      node[m].group = node[n].group, node[m].role = node[n].role
               PROVE  m = n
    BY DEF OneChildPerRole
  <2>1. Present(m) /\ Present(n)
    BY AbsentRow DEF TypeInv, NoNode
  <2> QED BY <2>1 DEF UniqueSlugs, SlugOf
<1> QED
  BY <1>1, <1>2, InitTypeInv, NextType, UniqueSlugsNext, PTL DEF Spec

-----------------------------------------------------------------------------
(* A request that writes to a group or a node deleted under it never brings *)
(* the row back, whichever statement it is at.                              *)

\* What a step may do to a group row.
GroupKept(g) ==
    /\ grp[g].status = "deleted" => grp'[g].status = "deleted"
    /\ grp[g].dep # None => grp'[g].dep # None \/ grp'[g].status = "deleted"
    /\ Exists(g) => grp'[g].status \notin Gone \/ DeleteGroup(g)

LEMMA GroupRows ==
    ASSUME TypeInv, [Next]_vars, NEW g \in Groups
    PROVE  GroupKept(g)
<1>1. CASE UNCHANGED grp
  BY <1>1 DEF GroupKept, Exists
<1>2. ASSUME NEW k \in Groups, CreateGroup(k) \/ DeleteGroup(k) PROVE GroupKept(g)
  BY <1>2 DEF CreateGroup, DeleteGroup, GroupKept, Exists, Gone, TypeInv, GrpOK
<1>3. ASSUME NEW k \in Groups, NEW s \in GroupStatus, WriteGroup(k, s)
      PROVE  GroupKept(g)
  BY <1>3 DEF WriteGroup, GroupKept, Exists, Gone, GroupStatus, TypeInv, GrpOK
<1>4. ASSUME NEW h \in Requests, NEW k \in Groups, Exists(k),
             \E op \in AllOps : BeginStart(h, k, op) \/ BeginStop(h, k, op)
      PROVE  GroupKept(g)
  BY <1>4 DEF BeginStart, BeginStop, GroupKept, Exists, Gone, TypeInv, GrpOK
<1>5. ASSUME NEW h \in Requests, Begin(h) PROVE GroupKept(g)
  <2>1. ASSUME NEW k \in Groups, StartGroup(h, k) \/ StopGroup(h, k) \/ RestartGroup(h, k)
        PROVE  GroupKept(g)
    BY <1>4, <2>1 DEF StartGroup, StopGroup, RestartGroup, AllOps
  <2>2. ASSUME NEW k \in Groups, BeginInit(h, k) \/ BeginAddCommitter(h, k)
        PROVE  UNCHANGED grp
    BY <2>2 DEF BeginInit, BeginAddCommitter
  <2>3. ASSUME NEW n \in NodeIds, StartNode(h, n) \/ StopNode(h, n) \/ DeleteNode(h, n)
        PROVE  UNCHANGED grp
    BY <2>3 DEF StartNode, StopNode, BeginNodeOp, DeleteNode
  <2> QED BY <1>1, <1>5, <2>1, <2>2, <2>3 DEF Begin
<1>6. ASSUME NEW h \in Requests, Work(h) PROVE GroupKept(g)
  <2>1. CASE Persist(h)
    BY <1>1, <2>1, NoneFresh DEF Persist, GroupKept, Exists, Gone, TypeInv, GrpOK, ReqOK, Shape
  <2>2. CASE RestartStart(h)
    BY <1>1, <1>4, <2>2 DEF RestartStart, AllOps, TypeInv, ReqOK, Shape
  <2>3. CASE Generate(h) \/ Prepare(h) \/ EndGroup(h)
    <3>1. req[h].g \in Groups
      BY <2>3 DEF Generate, Prepare, EndGroup, TypeInv, ReqOK, Shape
    <3>2. UNCHANGED grp \/ \E s \in GroupStatus : WriteGroup(req[h].g, s)
      BY <2>3 DEF Generate, Prepare, EndGroup, FinalStatus, GroupStatus
    <3> QED BY <1>1, <1>3, <3>1, <3>2
  <2>4. CASE InsertRow(h) \/ ConfigRow(h) \/ LinkRow(h) \/ InitNode(h) \/ CommitterCreated(h)
             \/ List(h) \/ SkipChild(h) \/ MarkChild(h) \/ StopFirst(h) \/ Effect(h)
             \/ Settle(h) \/ RemoveNode(h)
    BY <1>1, <2>4 DEF InsertRow, ConfigRow, LinkRow, InitNode, CommitterCreated, List,
                      SkipChild, MarkChild, StopFirst, Effect, Settle, RemoveNode
  <2> QED BY <1>6, <2>1, <2>2, <2>3, <2>4 DEF Work
<1>7. ASSUME NEW h \in Requests, Abort(h) PROVE UNCHANGED grp
  BY <1>7 DEF Abort
<1> QED
  BY <1>1, <1>2, <1>5, <1>6, <1>7 DEF Next, vars

THEOREM DeletedStaysDeleted == Spec => NoResurrection
<1>1. TypeInv /\ [Next]_vars =>
        [/\ \A g \in Groups : grp[g].status = "deleted" => grp'[g].status = "deleted"
         /\ \A n \in 1..lastNode : ~Present(n) => node'[n] = NoNode]_vars
  <2> SUFFICES ASSUME TypeInv, [Next]_vars
               PROVE  /\ \A g \in Groups : grp[g].status = "deleted" => grp'[g].status = "deleted"
                      /\ \A n \in 1..lastNode : ~Present(n) => node'[n] = NoNode
    OBVIOUS
  <2>1. \A n \in 1..lastNode : n \in NodeIds /\ n # lastNode + 1
    BY ConstantsAssumption DEF ConstantsAssumption, NodeIds, TypeInv, NodeOK
  <2>2. CASE RowsKept
    BY <2>1, <2>2, GroupRows DEF RowsKept, RowKept, GroupKept
  <2>3. ASSUME NEW h \in Requests, InsertRow(h), NEW n \in 1..lastNode, ~Present(n)
        PROVE  node'[n] = NoNode
    <3>1. node'[n] = node[n]
      BY <2>1, <2>3, InsertRows
    <3> QED BY <2>1, <2>3, <3>1, AbsentRow DEF TypeInv
  <2> QED BY <2>2, <2>3, GroupRows, StepRows DEF GroupKept
<1> QED
  BY <1>1, InitTypeInv, NextType, PTL DEF Spec, NoResurrection

-----------------------------------------------------------------------------
(* LinkedChildComplete needs what a request that creates a row knows of it *)
(* at each of its statements: that the row, if it is still there, belongs  *)
(* to the request's group, that it has its configuration once the request  *)
(* is about to link it, and that the group's own configuration was written *)
(* before any role row.                                                    *)

Creating(h) ==
    /\ req[h].pc \in {"config", "link", "initNode"} =>
           /\ req[h].n <= lastNode
           /\ Present(req[h].n) =>
                  /\ node[req[h].n].group = req[h].g
                  /\ node[req[h].n].role # Committer => req[h].op = "Init"
    /\ req[h].pc = "link" /\ Present(req[h].n) => node[req[h].n].dep # None
    /\ req[h].op = "Init" /\ req[h].pc \in {"insert", "config", "link", "initNode"} =>
           grp[req[h].g].status = "deleted" \/ grp[req[h].g].dep # None

ChildInv == LinkedChildComplete /\ \A h \in Requests : Creating(h)

LEMMA LinkedNext == TypeInv /\ ChildInv /\ [Next]_vars => LinkedChildComplete'
<1> SUFFICES ASSUME TypeInv, ChildInv, [Next]_vars, NEW n \in NodeIds, node'[n].linked
             PROVE  /\ node'[n].dep # None
                    /\ grp'[node'[n].group].status \notin Gone
                    /\ node'[n].role # Committer => grp'[node'[n].group].dep # None
  BY DEF LinkedChildComplete, Exists
<1>0. TypeInv'
  BY NextType
<1>1. node'[n] # NoNode /\ node'[n].group \in Groups
  <2>1. node'[n] # NoNode
    BY DEF NoNode
  <2>2. node'[n] \in Rows
    BY <1>0 DEF TypeInv, NodeOK
  <2> QED BY <2>1, <2>2, RowFields
<1>2. CASE node[n].linked /\ RowKept(n)
  <2>1. /\ node[n].dep # None /\ Exists(node[n].group)
        /\ node[n].role # Committer => grp[node[n].group].dep # None
    BY <1>2 DEF ChildInv, LinkedChildComplete
  <2>2. node'[n].group = node[n].group /\ node'[n].role = node[n].role /\ node'[n].dep # None
    BY <1>1, <1>2, <2>1 DEF RowKept
  <2>3. ~DeleteGroup(node[n].group)
    BY <1>1, <1>2 DEF DeleteGroup
  <2>4. GroupKept(node[n].group)
    BY <1>1, <2>2, GroupRows
  <2> QED BY <2>1, <2>2, <2>3, <2>4 DEF GroupKept, Gone
<1>3. ASSUME NEW h \in Requests, LinkRow(h), ~node[n].linked
      PROVE  /\ node'[n].dep # None
             /\ grp'[node'[n].group].status \notin Gone
             /\ node'[n].role # Committer => grp'[node'[n].group].dep # None
  <2>1. n = req[h].n /\ Present(n) /\ Exists(req[h].g) /\ RowKept(n)
    BY <1>3, LinkRows DEF RowsKept
  <2>2. req[h].pc = "link" /\ UNCHANGED grp
    BY <1>3 DEF LinkRow
  <2>3. /\ node[n].dep # None /\ node[n].group = req[h].g
        /\ node[n].role # Committer => req[h].op = "Init"
        /\ req[h].op = "Init" => grp[req[h].g].status = "deleted" \/ grp[req[h].g].dep # None
    BY <2>1, <2>2 DEF ChildInv, Creating
  <2>4. node'[n].group = node[n].group /\ node'[n].role = node[n].role /\ node'[n].dep # None
    BY <1>1, <2>1, <2>3 DEF RowKept
  <2> QED BY <2>1, <2>2, <2>3, <2>4 DEF Exists, Gone
<1>4. ASSUME NEW h \in Requests, InsertRow(h) PROVE node'[n] = node[n] /\ UNCHANGED grp
  <2>1. node'[n] = node[n]
    BY <1>4, InsertRows
  <2> QED BY <1>4, <2>1 DEF InsertRow
<1>5. CASE \E h \in Requests : InsertRow(h)
  <2>1. node'[n] = node[n] /\ UNCHANGED grp
    BY <1>4, <1>5
  <2> QED BY <2>1 DEF ChildInv, LinkedChildComplete, Exists
<1>6. CASE RowsKept /\ (LinksKept \/ \E h \in Requests : LinkRow(h))
  BY <1>2, <1>3, <1>6 DEF RowsKept, LinksKept
<1> QED
  BY <1>5, <1>6, StepRows

\* A step of another request leaves what h knows true.
LEMMA CreatingKept ==
    ASSUME TypeInv, [Next]_vars, NEW h \in Requests, Creating(h), req'[h] = req[h]
    PROVE  Creating(h)'
<1> DEFINE n == req[h].n
           g == req[h].g
<1>1. CASE req[h].pc \notin {"insert", "config", "link", "initNode"}
  BY <1>1 DEF Creating
<1>2. CASE req[h].pc \in {"insert", "config", "link", "initNode"}
  <2>1. g \in Groups /\ GroupKept(g)
    BY <1>2, GroupRows DEF TypeInv, ReqOK, Shape
  <2>2. CASE req[h].pc = "insert"
    BY <2>1, <2>2 DEF Creating, GroupKept
  <2>3. CASE req[h].pc # "insert"
    <3>1. n \in NodeIds /\ n <= lastNode /\ lastNode \in Nat
      BY <1>2, <2>3, ConstantsAssumption
         DEF ConstantsAssumption, Creating, TypeInv, ReqOK, NodeOK, Shape
    <3>2. lastNode' >= lastNode /\ lastNode' \in Nat
      <4>1. ASSUME NEW k \in Requests, InsertRow(k) PROVE lastNode' \in {lastNode, lastNode + 1}
        BY <4>1, InsertRows
      <4> QED BY <3>1, <4>1, StepRows
    <3>3. RowKept(n) \/ node'[n] = node[n]
      <4>1. ASSUME NEW k \in Requests, InsertRow(k) PROVE node'[n] = node[n]
        <5>1. n # lastNode + 1 /\ n \in NodeIds
          BY <3>1 DEF NodeIds
        <5> QED BY <4>1, <5>1, InsertRows
      <4> QED BY <3>1, <4>1, StepRows DEF RowsKept
    <3>4. node'[n].status # "absent" =>
             /\ Present(n) /\ node'[n].group = node[n].group /\ node'[n].role = node[n].role
             /\ node[n].dep # None => node'[n].dep # None
      BY <3>3 DEF RowKept, Present, NoNode
    <3>5. n <= lastNode'
      BY <3>1, <3>2 DEF NodeIds
    <3> QED BY <1>2, <2>1, <2>3, <3>4, <3>5 DEF Creating, GroupKept, Present
  <2> QED BY <2>2, <2>3
<1> QED BY <1>1, <1>2

\* A step of h itself.
LEMMA CreatingStep ==
    ASSUME TypeInv, NEW h \in Requests, Creating(h), Begin(h) \/ Work(h) \/ Abort(h)
    PROVE  Creating(h)'
<1> DEFINE Elsewhere == req'[h].pc \notin {"insert", "config", "link", "initNode"}
<1>0. Elsewhere => Creating(h)'
  BY DEF Creating
<1>1. CASE Begin(h)
  <2>1. ASSUME NEW g \in Groups, BeginInit(h, g) PROVE Elsewhere
    BY <2>1, BegunInit
  <2>2. ASSUME NEW g \in Groups, BeginAddCommitter(h, g) PROVE Creating(h)'
    <3>1. req'[h].pc = "insert" /\ req'[h].op = "AddCommitter"
      BY <2>2, BegunCommitter
    <3> QED BY <3>1 DEF Creating
  <2>3. ASSUME NEW g \in Groups, StartGroup(h, g) \/ StopGroup(h, g) \/ RestartGroup(h, g)
        PROVE  Elsewhere
    <3>1. ASSUME NEW op, BeginStart(h, g, op) PROVE Elsewhere
      BY <3>1, BegunMove
    <3>2. ASSUME NEW op, BeginStop(h, g, op) PROVE Elsewhere
      BY <3>2, BegunMove
    <3> QED BY <2>3, <3>1, <3>2 DEF StartGroup, StopGroup, RestartGroup
  <2>4. ASSUME NEW n \in NodeIds, StartNode(h, n) \/ StopNode(h, n) PROVE Elsewhere
    BY <2>4, BegunNode
  <2>5. ASSUME NEW n \in NodeIds, DeleteNode(h, n) PROVE Elsewhere
    BY <2>5, BegunNode
  <2> QED BY <1>0, <1>1, <2>1, <2>2, <2>3, <2>4, <2>5 DEF Begin
<1>2. CASE Finish(h)
  BY <1>0, <1>2 DEF Finish, Idle, TypeInv, ReqOK
<1>3. CASE Abort(h)
  BY <1>2, <1>3 DEF Abort
<1>4. CASE Work(h)
  <2>1. CASE Generate(h) \/ Prepare(h) \/ List(h)
    <3>1. CASE ~Finish(h)
      <4>1. req'[h].pc \in {"persist", "list", "child"}
        BY <2>1, <3>1 DEF Generate, Prepare, List, TypeInv, ReqOK, Locals
      <4> QED BY <1>0, <4>1
    <3> QED BY <1>2, <3>1
  <2>2. CASE SkipChild(h) \/ MarkChild(h) \/ Effect(h)
    <3>1. CASE SkipChild(h)
      BY <1>0, <3>1 DEF SkipChild, TypeInv, ReqOK, Locals
    <3>2. CASE MarkChild(h)
      <4>1. req'[h].pc \in {"effect", "child"}
        BY <3>2 DEF MarkChild, TypeInv, ReqOK, Locals
      <4> QED BY <1>0, <4>1
    <3>3. CASE Effect(h)
      <4>1. req'[h].pc = "settle"
        <5>1. PICK ok : req' = [req EXCEPT ![h].ok = ok, ![h].pc = "settle"]
          BY <3>3 DEF Effect, Outcome
        <5> QED BY <5>1 DEF TypeInv, ReqOK, Locals
      <4> QED BY <1>0, <4>1
    <3> QED BY <2>2, <3>1, <3>2, <3>3
  <2>3. CASE StopFirst(h) \/ Settle(h) \/ RemoveNode(h) \/ RestartStart(h) \/ EndGroup(h)
             \/ CommitterCreated(h)
    <3>1. CASE ~Finish(h)
      <4>1. ASSUME NEW n, NEW op, NEW verb, MarkNode(h, n, op, verb) PROVE Elsewhere
        BY <4>1 DEF MarkNode, Idle, TypeInv, ReqOK
      <4>2. CASE StopFirst(h)
        BY <1>0, <4>1, <4>2 DEF StopFirst, TypeInv, ReqOK, Locals
      <4>3. CASE Settle(h)
        <5>1. req'[h].pc \in {"child", "remove"}
          BY <3>1, <4>3 DEF Settle, TypeInv, ReqOK, Locals
        <5> QED BY <1>0, <5>1
      <4>4. CASE RestartStart(h)
        <5>1. BeginStart(h, req[h].g, "Restart")
          BY <3>1, <4>4 DEF RestartStart
        <5>2. Elsewhere
          BY <5>1 DEF BeginStart, Idle, TypeInv, ReqOK
        <5> QED BY <1>0, <5>2
      <4>5. CASE EndGroup(h)
        BY <1>0, <3>1, <4>5 DEF EndGroup, Idle, TypeInv, ReqOK
      <4> QED BY <2>3, <3>1, <4>2, <4>3, <4>4, <4>5 DEF RemoveNode, CommitterCreated
    <3> QED BY <1>2, <3>1
  <2>4. CASE Persist(h)
    <3>1. CASE Exists(req[h].g)
      <4>1. req[h].g \in Groups
        BY <2>4 DEF Persist, TypeInv, ReqOK, Shape
      <4>2. grp'[req[h].g].dep # None
        BY <2>4, <3>1, <4>1, NoneFresh DEF Persist, TypeInv, GrpOK
      <4>3. req'[h].pc = "insert" /\ req'[h].g = req[h].g
        BY <2>4, <3>1 DEF Persist, TypeInv, ReqOK, Locals
      <4> QED BY <4>2, <4>3 DEF Creating
    <3>2. CASE ~Exists(req[h].g)
      BY <1>2, <2>4, <3>2 DEF Persist
    <3> QED BY <3>1, <3>2
  <2>5. CASE InsertRow(h)
    <3>1. CASE req'[h] = Idle
      BY <1>0, <3>1 DEF Idle
    <3>2. CASE req'[h] # Idle
      <4> DEFINE n == lastNode'
      <4>1. /\ req[h].pc = "insert" /\ UNCHANGED grp
            /\ node'[n].group = req[h].g /\ node'[n].role = NewRole(h)
            /\ req'[h].g = req[h].g /\ req'[h].op = req[h].op /\ req'[h].n = n
            /\ req'[h].pc \in {"config", "initNode"} /\ n \in Nat
        <5>1. req[h].pc = "insert" /\ UNCHANGED grp
          BY <2>5 DEF InsertRow
        <5>2. n \in NodeIds => n \in Nat
          BY DEF NodeIds
        <5> QED BY <2>5, <3>2, <5>1, <5>2, InsertRows
      <4>2. NewRole(h) # Committer => req[h].op = "Init"
        BY DEF NewRole
      <4>3. n <= lastNode'
        BY <4>1
      <4> HIDE DEF n
      <4> QED BY <4>1, <4>2, <4>3 DEF Creating
    <3> QED BY <3>1, <3>2
  <2>6. CASE InitNode(h) /\ ~Finish(h)
    <3>1. /\ req[h].pc = "initNode" /\ UNCHANGED <<grp, node, lastNode>>
          /\ req'[h].pc = "config" /\ req'[h].n = req[h].n /\ req'[h].g = req[h].g
          /\ req'[h].op = req[h].op
      BY <2>6 DEF InitNode, TypeInv, ReqOK, Locals
    <3> QED BY <3>1 DEF Creating, Present
  <2>7. CASE ConfigRow(h)
    <3>1. CASE Present(req[h].n)
      <4>1. /\ req[h].pc = "config" /\ UNCHANGED <<grp, lastNode>>
            /\ req'[h].pc = "link" /\ req'[h].n = req[h].n /\ req'[h].g = req[h].g
            /\ req'[h].op = req[h].op
        BY <2>7, <3>1 DEF ConfigRow, TypeInv, ReqOK, Locals
      <4>2. req[h].n \in NodeIds
        BY <4>1 DEF TypeInv, ReqOK, Shape
      <4>3. RowKept(req[h].n) /\ (node'[req[h].n].status # "absent" => node'[req[h].n].dep # None)
        BY <2>7, <4>2, ConfigRows DEF RowsKept
      <4> QED BY <3>1, <4>1, <4>3 DEF Creating, Present, RowKept, NoNode
    <3>2. CASE ~Present(req[h].n)
      BY <1>2, <2>7, <3>2 DEF ConfigRow
    <3> QED BY <3>1, <3>2
  <2>8. CASE LinkRow(h)
    <3>1. CASE LinkRejected(h)
      BY <1>2, <2>8, <3>1 DEF LinkRow
    <3>2. CASE ~LinkRejected(h)
      <4>1. /\ req[h].pc = "link" /\ UNCHANGED grp
            /\ req'[h].pc \in {"insert", "created"} /\ req'[h].g = req[h].g
            /\ req'[h].op = req[h].op
        BY <2>8, <3>2 DEF LinkRow, TypeInv, ReqOK, Locals
      <4> QED BY <4>1 DEF Creating
    <3> QED BY <3>1, <3>2
  <2> QED
    BY <1>2, <1>4, <2>1, <2>2, <2>3, <2>4, <2>5, <2>6, <2>7, <2>8 DEF Work
<1> QED
  BY <1>1, <1>3, <1>4

\* A step of request k leaves the local state of every other one alone.
LEMMA OneRequest ==
    ASSUME TypeInv, NEW h \in Requests, NEW k \in Requests, k # h,
           Begin(k) \/ Work(k) \/ Abort(k)
    PROVE  req'[h] = req[h]
<1>1. CASE Begin(k)
  BY <1>1 DEF Begin, BeginInit, BeginAddCommitter, StartGroup, StopGroup, RestartGroup,
     BeginStart, BeginStop, StartNode, StopNode, BeginNodeOp, MarkNode, DeleteNode, TypeInv, ReqOK
<1>2. CASE Abort(k)
  BY <1>2 DEF Abort, Finish, TypeInv, ReqOK
<1>3. CASE Work(k)
  <2>1. CASE Generate(k) \/ Persist(k) \/ InsertRow(k) \/ ConfigRow(k) \/ LinkRow(k)
             \/ InitNode(k) \/ CommitterCreated(k)
    BY <2>1 DEF Generate, Persist, InsertRow, ConfigRow, LinkRow, InitNode,
       CommitterCreated, Finish, TypeInv, ReqOK
  <2>2. CASE Prepare(k) \/ RestartStart(k) \/ List(k) \/ SkipChild(k) \/ MarkChild(k)
             \/ EndGroup(k)
    BY <2>2 DEF Prepare, RestartStart, BeginStart, List, SkipChild, MarkChild,
       EndGroup, Finish, TypeInv, ReqOK
  <2>3. CASE StopFirst(k) \/ Effect(k) \/ Settle(k) \/ RemoveNode(k)
    BY <2>3 DEF StopFirst, MarkNode, Effect, Outcome, Settle, RemoveNode, Finish,
       TypeInv, ReqOK
  <2> QED BY <1>3, <2>1, <2>2, <2>3 DEF Work
<1> QED
  BY <1>1, <1>2, <1>3

LEMMA OtherRequests ==
    ASSUME TypeInv, [Next]_vars, NEW h \in Requests, req'[h] # req[h]
    PROVE  Begin(h) \/ Work(h) \/ Abort(h)
<1>1. ~UNCHANGED vars
  BY DEF vars
<1>2. ASSUME NEW g \in Groups, CreateGroup(g) \/ DeleteGroup(g) PROVE FALSE
  BY <1>2 DEF CreateGroup, DeleteGroup
<1>3. ASSUME NEW k \in Requests, k # h, Begin(k) \/ Work(k) \/ Abort(k) PROVE FALSE
  BY <1>3, OneRequest
<1> QED
  BY <1>1, <1>2, <1>3 DEF Next

LEMMA ChildInvNext == TypeInv /\ ChildInv /\ [Next]_vars => ChildInv'
<1> SUFFICES ASSUME TypeInv, ChildInv, [Next]_vars PROVE ChildInv'
  OBVIOUS
<1>1. LinkedChildComplete'
  BY LinkedNext
<1>2. ASSUME NEW h \in Requests PROVE Creating(h)'
  <2>1. Creating(h)
    BY DEF ChildInv
  <2> QED BY <2>1, CreatingKept, CreatingStep, OtherRequests
<1> QED BY <1>1, <1>2 DEF ChildInv

\* What the rows of nodes keep, in every behaviour.
LEMMA RowsInvariant == Spec => [](UniqueSlugs /\ ChildInv)
<1>1. Init => UniqueSlugs /\ ChildInv
  BY DEF Init, UniqueSlugs, Present, ChildInv, LinkedChildComplete, Creating, Idle, NoNode
<1> QED
  BY <1>1, InitTypeInv, NextType, UniqueSlugsNext, ChildInvNext, PTL DEF Spec

(* A role or a committer is linked to its group only complete, although the *)
(* statements that insert, configure and link it interleave with those that *)
(* delete the row or the group.                                             *)
THEOREM LinkedComplete == Spec => []LinkedChildComplete
<1>1. ChildInv => LinkedChildComplete
  BY DEF ChildInv
<1> QED
  BY <1>1, RowsInvariant, PTL
-----------------------------------------------------------------------------
(* What a request works on, in every behaviour: the statements its          *)
(* operation passes through, and the rows it has in hand.  Other requests   *)
(* can delete these rows, but an id is not given out twice.                 *)

GroupOps == {"Init", "Start", "Stop", "Restart"}
NodeOps  == {"NodeStart", "NodeStop", "NodeDelete"}

\* A request at work on the children of its group.
Driving(h) == req[h].pc \in {"child", "effect", "settle"}
AtWork(h)  == req[h].pc \in {"prepare", "list", "child", "effect", "settle"}

\* The statements of each operation.
Script(r) ==
    /\ r.op # "GroupDelete"
    /\ r.op = "none" => r.pc = "idle"
    /\ r.op = "Init" => r.pc \in {"generate", "persist", "insert", "config", "link"}
    /\ r.op = "AddCommitter" => r.pc \in {"insert", "initNode", "config", "link", "created"}
    /\ r.op \in {"Start", "Stop", "Restart"} =>
           /\ r.pc \in {"prepare", "list", "child", "effect", "settle", "paused"}
           /\ r.g \in Groups
           /\ r.pc = "paused" => r.op = "Restart"
    /\ r.op \in NodeOps =>
           r.pc \in {"effect", "settle", "stopFirst", "remove"} /\ r.g = None

\* Row n was given out, and is of that group and one of those roles if it is
\* still there.
RowIs(n, group, roles) ==
    /\ n <= lastNode
    /\ Present(n) => node[n].group = group /\ node[n].role \in roles

OwnRows(h) ==
    /\ req[h].pc \in {"config", "link", "initNode", "created"} =>
           RowIs(req[h].n, req[h].g, IF req[h].op = "Init" THEN RoleSet ELSE {Committer})
    /\ Driving(h) /\ req[h].op \in GroupOps => \A role \in RoleSet :
           req[h].kids[role] # None => RowIs(req[h].kids[role], req[h].g, {role})
    /\ req[h].pc \in {"effect", "settle", "stopFirst", "remove"} =>
           /\ RowIs(req[h].n, req[h].row.group, {req[h].row.role})
           /\ req[h].op \in GroupOps =>
                  req[h].row.group = req[h].g /\ req[h].row.role \in RoleSet

WorksOn(h) == Script(req[h]) /\ OwnRows(h)
Working    == \A h \in Requests : WorksOn(h)

\* Which operations a statement belongs to.
LEMMA Statements ==
    ASSUME TypeInv, NEW h \in Requests, WorksOn(h)
    PROVE  /\ req[h].pc \in {"generate", "persist"} => req[h].op = "Init"
           /\ req[h].pc \in {"insert", "config", "link"} => req[h].op \in {"Init", "AddCommitter"}
           /\ req[h].pc \in {"initNode", "created"} => req[h].op = "AddCommitter"
           /\ req[h].pc \in {"prepare", "list", "child", "paused"} =>
                  req[h].op \in {"Start", "Stop", "Restart"}
           /\ req[h].pc \in {"effect", "settle"} =>
                  req[h].op \in {"Start", "Stop", "Restart"} \cup NodeOps
           /\ req[h].pc \in {"stopFirst", "remove"} => req[h].op \in NodeOps
           /\ req[h].op \in {"Start", "Stop", "Restart"} => req[h].g \in Groups
           /\ req[h].op \in NodeOps => req[h].g = None
<1>1. req[h].op \in AllOps \cup {"none"} /\ Script(req[h])
  BY DEF TypeInv, ReqOK, Locals, WorksOn
<1>2. CASE req[h].op = "none"
  BY <1>1, <1>2 DEF Script, NodeOps
<1>3. CASE req[h].op = "Init"
  BY <1>1, <1>3 DEF Script, NodeOps
<1>4. CASE req[h].op = "AddCommitter"
  BY <1>1, <1>4 DEF Script, NodeOps
<1>5. CASE req[h].op \in {"Start", "Stop", "Restart"}
  BY <1>1, <1>5 DEF Script, NodeOps
<1>6. CASE req[h].op \in NodeOps
  BY <1>1, <1>6 DEF Script, NodeOps
<1>7. CASE req[h].op = "GroupDelete"
  BY <1>1, <1>7 DEF Script, NodeOps
<1> QED
  BY <1>1, <1>2, <1>3, <1>4, <1>5, <1>6, <1>7 DEF AllOps, NodeOps

\* A row keeps its group and its role as long as it is there.
LEMMA RowIsKept ==
    ASSUME TypeInv, [Next]_vars, NEW n \in NodeIds, NEW group, NEW roles,
           RowIs(n, group, roles)
    PROVE  RowIs(n, group, roles)'
<1>1. n <= lastNode /\ n \in Nat /\ lastNode \in Nat
  BY ConstantsAssumption DEF ConstantsAssumption, RowIs, NodeIds, TypeInv, NodeOK
<1>2. CASE RowKept(n) /\ UNCHANGED lastNode
  BY <1>1, <1>2 DEF RowKept, RowIs, Present, NoNode
<1>3. ASSUME NEW k \in Requests, InsertRow(k) PROVE RowIs(n, group, roles)'
  <2>1. CASE UNCHANGED <<node, lastNode>>
    BY <2>1 DEF RowIs, Present
  <2>2. CASE lastNode' = lastNode + 1 /\ \A m \in NodeIds : m # lastNode' => node'[m] = node[m]
    <3>1. n # lastNode' /\ n <= lastNode'
      BY <1>1, <2>2
    <3> QED
      BY <2>2, <3>1 DEF RowIs, Present
  <2> QED
    BY <1>3, <2>1, <2>2, InsertRows
<1> QED
  BY <1>2, <1>3, StepRows DEF RowsKept

LEMMA WorksOnKept ==
    ASSUME TypeInv, [Next]_vars, NEW h \in Requests, WorksOn(h), req'[h] = req[h]
    PROVE  WorksOn(h)'
<1>1. /\ req[h] \in Locals /\ Shape(req[h]) /\ Driving(h)' = Driving(h)
  BY DEF TypeInv, ReqOK, Driving
<1>2. req[h].pc \in {"config", "link", "initNode", "created"} =>
          RowIs(req[h].n, req[h].g, IF req[h].op = "Init" THEN RoleSet ELSE {Committer})'
  BY <1>1, RowIsKept DEF Shape, WorksOn, OwnRows
<1>3. ASSUME Driving(h), req[h].op \in GroupOps, NEW role \in RoleSet, req[h].kids[role] # None
      PROVE  RowIs(req[h].kids[role], req[h].g, {role})'
  <2>1. req[h].kids[role] \in NodeIds
    BY <1>1, <1>3 DEF Locals
  <2> QED
    BY <1>3, <2>1, RowIsKept DEF WorksOn, OwnRows
<1>4. req[h].pc \in {"effect", "settle", "stopFirst", "remove"} =>
          RowIs(req[h].n, req[h].row.group, {req[h].row.role})'
  BY <1>1, RowIsKept DEF Shape, WorksOn, OwnRows
<1> QED
  BY <1>1, <1>2, <1>3, <1>4 DEF WorksOn, OwnRows

\* The same of a row a request reads now.
LEMMA RowStays ==
    ASSUME TypeInv, [Next]_vars, NEW n \in NodeIds, Present(n)
    PROVE  /\ n <= lastNode'
           /\ Present(n)' => node'[n].group = node[n].group /\ node'[n].role = node[n].role
<1>1. \A group : \A role : group = node[n].group /\ role = node[n].role =>
          RowIs(n, group, {role})'
  <2>1. \A group : \A role : group = node[n].group /\ role = node[n].role =>
            RowIs(n, group, {role})
    BY DEF RowIs, TypeInv, NodeOK
  <2> QED
    BY <2>1, RowIsKept
<1> QED
  BY <1>1 DEF RowIs

\* The list a request reads: each role's own row.
LEMMA ChildrenRows ==
    ASSUME UniqueSlugs, NEW g \in Groups, NEW n \in NodeIds, NEW role \in RoleSet,
           Children(g)[role] = n
    PROVE  Present(n) /\ RoleChild(n, g) /\ node[n].role = role
<1> DEFINE rows == {m \in NodeIds : /\ Present(m) /\ node[m].linked
                                    /\ node[m].group = g /\ node[m].role = role}
<1>1. Children(g)[role] = IF rows = {} THEN None
                          ELSE CHOOSE m \in rows : \A k \in rows : k <= m
  BY DEF Children
<1>2. PICK m \in rows : TRUE
  BY <1>1, NoneFresh
<1>3. \A k \in rows : k = m
  BY <1>2 DEF UniqueSlugs, SlugOf
<1>4. rows = {m} /\ m <= m
  BY <1>2, <1>3 DEF NodeIds
<1>5. n = m
  BY <1>1, <1>4
<1> QED
  BY <1>2, <1>5, RoleFacts DEF RoleChild

-----------------------------------------------------------------------------
\* A step of the request itself.

LEMMA FinishWorks ==
    ASSUME TypeInv, NEW h \in Requests, Finish(h)
    PROVE  WorksOn(h)'
<1>1. req'[h].pc = "idle" /\ req'[h].op = "none"
  BY DEF Finish, Idle, TypeInv, ReqOK
<1> QED
  BY <1>1 DEF WorksOn, Script, OwnRows, Driving, NodeOps

LEMMA MarkNodeWorks ==
    ASSUME TypeInv, [Next]_vars, NEW h \in Requests, NEW n \in NodeIds, Present(n),
           NEW op \in NodeOps, NEW verb, MarkNode(h, n, op, verb)
    PROVE  WorksOn(h)'
<1>1. /\ req'[h].op = op /\ req'[h].pc = "effect" /\ req'[h].n = n /\ req'[h].row = node[n]
      /\ req'[h].g = None
  BY DEF MarkNode, Idle, TypeInv, ReqOK
<1>2. /\ n <= lastNode'
      /\ Present(n)' => node'[n].group = node[n].group /\ node'[n].role = node[n].role
  BY RowStays
<1>3. RowIs(req[h].n, req[h].row.group, {req[h].row.role})'
  BY <1>1, <1>2 DEF RowIs
<1> QED
  BY <1>1, <1>3 DEF WorksOn, Script, OwnRows, Driving, NodeOps, GroupOps

\* A step that leaves the request its operation, its group and its rows.
LEMMA SameWorks ==
    ASSUME TypeInv, [Next]_vars, NEW h \in Requests, WorksOn(h),
           req[h].pc # "idle", Script(req'[h]),
           req'[h].op = req[h].op, req'[h].g = req[h].g, req'[h].n = req[h].n,
           req'[h].row = req[h].row, req'[h].kids = req[h].kids,
           req'[h].pc \in {"config", "link", "initNode", "created"} =>
               req[h].pc \in {"config", "link", "initNode", "created"},
           Driving(h)' => Driving(h),
           req'[h].pc \in {"effect", "settle", "stopFirst", "remove"} =>
               req[h].pc \in {"effect", "settle", "stopFirst", "remove"}
    PROVE  WorksOn(h)'
<1>1. req[h] \in Locals /\ Shape(req[h])
  BY DEF TypeInv, ReqOK
<1>2. req[h].pc \in {"config", "link", "initNode", "created"} =>
          RowIs(req[h].n, req[h].g, IF req[h].op = "Init" THEN RoleSet ELSE {Committer})'
  <2>1. CASE req[h].pc \in {"config", "link", "initNode", "created"}
    <3>1. \A group : \A roles :
              /\ group = req[h].g
              /\ roles = IF req[h].op = "Init" THEN RoleSet ELSE {Committer}
              => RowIs(req[h].n, group, roles)
      BY <2>1 DEF WorksOn, OwnRows
    <3>2. \A group : \A roles : \A n \in NodeIds :
              RowIs(n, group, roles) => RowIs(n, group, roles)'
      BY RowIsKept
    <3>3. req[h].n \in NodeIds
      BY <1>1, <2>1 DEF Shape
    <3> QED
      BY <3>1, <3>2, <3>3 DEF RowIs
  <2> QED
    BY <2>1
<1>3. ASSUME Driving(h), req[h].op \in GroupOps, NEW role \in RoleSet, req[h].kids[role] # None
      PROVE  RowIs(req[h].kids[role], req[h].g, {role})'
  <2>1. req[h].kids[role] \in NodeIds
    BY <1>1, <1>3 DEF Locals
  <2>2. PICK n \in NodeIds : n = req[h].kids[role]
    BY <2>1
  <2>3. \A group : group = req[h].g => RowIs(n, group, {role})'
    BY <1>3, <2>2, RowIsKept DEF WorksOn, OwnRows
  <2> QED
    BY <2>2, <2>3 DEF RowIs
<1>4. req[h].pc \in {"effect", "settle", "stopFirst", "remove"} =>
          RowIs(req[h].n, req[h].row.group, {req[h].row.role})'
  <2>1. CASE req[h].pc \in {"effect", "settle", "stopFirst", "remove"}
    <3>1. \A group : \A role : group = req[h].row.group /\ role = req[h].row.role
              => RowIs(req[h].n, group, {role})
      BY <2>1 DEF WorksOn, OwnRows
    <3>2. req[h].n \in NodeIds
      BY <1>1, <2>1 DEF Shape
    <3>3. PICK n \in NodeIds : n = req[h].n
      BY <3>2
    <3>4. \A group : \A role : group = req[h].row.group /\ role = req[h].row.role
              => RowIs(n, group, {role})'
      BY <3>1, <3>3, RowIsKept
    <3> QED
      BY <3>3, <3>4 DEF RowIs
  <2> QED
    BY <2>1
<1> QED
  BY <1>2, <1>3, <1>4 DEF WorksOn, OwnRows

\* What a step of a request does to its own script and rows.
LEMMA BeginWorks ==
    ASSUME TypeInv, [Next]_vars, NEW h \in Requests, Begin(h)
    PROVE  WorksOn(h)'
<1>1. ASSUME NEW g \in Groups, BeginInit(h, g) \/ BeginAddCommitter(h, g) PROVE WorksOn(h)'
  <2>1. \/ req'[h].op = "Init" /\ req'[h].pc = "generate"
        \/ req'[h].op = "AddCommitter" /\ req'[h].pc = "insert"
    BY <1>1, BegunInit, BegunCommitter
  <2> QED
    BY <2>1 DEF WorksOn, Script, OwnRows, Driving, NodeOps
<1>2. ASSUME NEW g \in Groups, StartGroup(h, g) \/ StopGroup(h, g) \/ RestartGroup(h, g)
      PROVE  WorksOn(h)'
  <2>1. \E op \in {"Start", "Stop", "Restart"} : BeginStart(h, g, op) \/ BeginStop(h, g, op)
    BY <1>2 DEF StartGroup, StopGroup, RestartGroup
  <2>2. PICK op \in {"Start", "Stop", "Restart"} : BeginStart(h, g, op) \/ BeginStop(h, g, op)
    BY <2>1
  <2>3. req'[h].op = op /\ req'[h].g = g /\ req'[h].pc \in {"prepare", "list"}
    BY <2>2, BegunMove
  <2> QED
    BY <2>3 DEF WorksOn, Script, OwnRows, Driving, NodeOps
<1>3. ASSUME NEW n \in NodeIds, StartNode(h, n) \/ StopNode(h, n) PROVE WorksOn(h)'
  <2>1. Present(n) /\ \E op \in NodeOps : \E verb : MarkNode(h, n, op, verb)
    BY <1>3 DEF StartNode, StopNode, BeginNodeOp, NodeOps
  <2> QED
    BY <2>1, MarkNodeWorks
<1>4. ASSUME NEW n \in NodeIds, DeleteNode(h, n) PROVE WorksOn(h)'
  <2>1. /\ Present(n) /\ req'[h].op = "NodeDelete" /\ req'[h].n = n /\ req'[h].row = node[n]
        /\ req'[h].g = None /\ req'[h].pc \in {"stopFirst", "remove"}
    BY <1>4 DEF DeleteNode, Idle, TypeInv, ReqOK
  <2>2. RowIs(req[h].n, req[h].row.group, {req[h].row.role})'
    BY <2>1, RowStays DEF RowIs
  <2> QED
    BY <2>1, <2>2 DEF WorksOn, Script, OwnRows, Driving, NodeOps, GroupOps
<1> QED
  BY <1>1, <1>2, <1>3, <1>4 DEF Begin

LEMMA InsertWorks ==
    ASSUME TypeInv, [Next]_vars, NEW h \in Requests, WorksOn(h), InsertRow(h)
    PROVE  WorksOn(h)'
<1>1. CASE req'[h] = Idle
  BY <1>1 DEF Idle, WorksOn, Script, OwnRows, Driving, NodeOps
<1>2. CASE req'[h] # Idle
  <2>1. /\ lastNode' \in NodeIds
        /\ node'[lastNode'].group = req[h].g /\ node'[lastNode'].role = NewRole(h)
        /\ req'[h].g = req[h].g /\ req'[h].op = req[h].op /\ req'[h].n = lastNode'
        /\ req'[h].pc = IF req[h].op = "Init" THEN "config" ELSE "initNode"
    <3>1. req'[h].pc = IF req[h].op = "Init" THEN "config" ELSE "initNode"
      BY <1>2 DEF InsertRow, Finish, TypeInv, ReqOK, Locals
    <3> QED
      BY <1>2, <3>1, InsertRows
  <2>2. req[h].pc = "insert" /\ (req[h].op = "Init" => req[h].i \in 1..Len(InitRoles))
    <3>1. ~(req[h].op = "Init" /\ req[h].i > Len(InitRoles))
      BY <1>2 DEF InsertRow, Finish, TypeInv, ReqOK
    <3>2. req[h].i \in Nat \ {0}
      BY DEF TypeInv, ReqOK, Locals
    <3> QED
      BY <3>1, <3>2, RoleFacts DEF InsertRow
  <2>3. NewRole(h) \in IF req[h].op = "Init" THEN RoleSet ELSE {Committer}
    BY <2>2, RoleFacts DEF NewRole
  <2>4. req[h].op \in {"Init", "AddCommitter"}
    BY <2>2, Statements
  <2>5. RowIs(req[h].n, req[h].g, IF req[h].op = "Init" THEN RoleSet ELSE {Committer})'
    <3>1. lastNode' <= lastNode'
      BY <2>1 DEF NodeIds
    <3> QED
      BY <2>1, <2>3, <3>1 DEF RowIs
  <2> QED
    BY <2>1, <2>4, <2>5 DEF WorksOn, Script, OwnRows, Driving, NodeOps
<1> QED
  BY <1>1, <1>2

LEMMA ListWorks ==
    ASSUME TypeInv, UniqueSlugs, [Next]_vars, NEW h \in Requests, WorksOn(h), List(h)
    PROVE  WorksOn(h)'
<1>1. /\ req'[h].pc = "child" /\ req'[h].op = req[h].op /\ req'[h].g = req[h].g
      /\ req'[h].kids = Children(req[h].g) /\ req[h].pc = "list" /\ req[h].g \in Groups
  BY DEF List, TypeInv, ReqOK, Locals, Shape
<1>2. ASSUME NEW role \in RoleSet, Children(req[h].g)[role] # None
      PROVE  RowIs(Children(req[h].g)[role], req[h].g, {role})
  <2>1. Children(req[h].g)[role] \in NodeIds
    BY <1>1, <1>2, ChildrenType
  <2>2. PICK n \in NodeIds : n = Children(req[h].g)[role]
    BY <2>1
  <2>3. Present(n) /\ RoleChild(n, req[h].g) /\ node[n].role = role
    BY <1>1, <2>2, ChildrenRows
  <2> QED
    BY <2>2, <2>3 DEF RowIs, RoleChild, TypeInv, NodeOK
<1>3. UNCHANGED <<node, lastNode>>
  BY DEF List
<1>4. \A role \in RoleSet : req'[h].kids[role] # None =>
          RowIs(req[h].kids[role], req[h].g, {role})'
  BY <1>1, <1>2, <1>3 DEF RowIs, Present
<1>5. Script(req'[h])
  BY <1>1, Statements DEF WorksOn, Script, NodeOps
<1> QED
  BY <1>1, <1>4, <1>5 DEF WorksOn, OwnRows, Driving

\* The rows of the list stay the rows of their roles.
LEMMA KidsStay ==
    ASSUME TypeInv, [Next]_vars, NEW h \in Requests, WorksOn(h), Driving(h),
           req[h].op \in GroupOps, req'[h].kids = req[h].kids, req'[h].g = req[h].g
    PROVE  \A role \in RoleSet : req'[h].kids[role] # None =>
               RowIs(req[h].kids[role], req[h].g, {role})'
<1> SUFFICES ASSUME NEW role \in RoleSet, req[h].kids[role] # None
             PROVE  RowIs(req[h].kids[role], req[h].g, {role})'
  OBVIOUS
<1>1. req[h].kids[role] \in NodeIds
  BY DEF TypeInv, ReqOK, Locals
<1>2. PICK n \in NodeIds : n = req[h].kids[role]
  BY <1>1
<1>3. \A group : group = req[h].g => RowIs(n, group, {role})'
  BY <1>2, RowIsKept DEF WorksOn, OwnRows
<1> QED
  BY <1>2, <1>3 DEF RowIs

LEMMA MarkWorks ==
    ASSUME TypeInv, [Next]_vars, NEW h \in Requests, WorksOn(h), MarkChild(h)
    PROVE  WorksOn(h)'
<1>1. /\ req[h] \in Locals /\ req[h].pc = "child" /\ req[h].i \in 1..Len(Roles)
      /\ req[h].kids[RoleNow(h)] # None /\ req[h].op \in {"Start", "Stop", "Restart"}
  <2>1. req[h] \in Locals /\ req[h].i \in Nat \ {0}
    BY DEF TypeInv, ReqOK, Locals
  <2> QED
    BY <2>1, RoleFacts, Statements DEF MarkChild
<1>2. RoleNow(h) \in RoleSet
  BY <1>1, RoleFacts DEF RoleNow
<1>3. PICK n \in NodeIds : n = req[h].kids[RoleNow(h)]
  BY <1>1, <1>2 DEF Locals
<1>4. Present(n) => node[n].group = req[h].g /\ node[n].role = RoleNow(h)
  BY <1>1, <1>2, <1>3 DEF WorksOn, OwnRows, Driving, GroupOps, RowIs
<1>5. CASE ~Present(n)
  <2>1. /\ req'[h].pc = "child" /\ req'[h].op = req[h].op /\ req'[h].g = req[h].g
        /\ req'[h].n = req[h].n /\ req'[h].row = req[h].row /\ req'[h].kids = req[h].kids
    BY <1>1, <1>3, <1>5 DEF MarkChild, TypeInv, ReqOK, Locals
  <2>2. Script(req'[h])
    BY <1>1, <2>1 DEF WorksOn, Script, NodeOps
  <2> QED
    BY <1>1, <2>1, <2>2, SameWorks DEF Driving
<1>6. CASE Present(n)
  <2>1. /\ req'[h].pc = "effect" /\ req'[h].op = req[h].op /\ req'[h].g = req[h].g
        /\ req'[h].n = n /\ req'[h].row = node[n] /\ req'[h].kids = req[h].kids
    BY <1>1, <1>3, <1>6 DEF MarkChild, TypeInv, ReqOK, Locals
  <2>2. RowIs(req[h].n, req[h].row.group, {req[h].row.role})'
    BY <1>6, <2>1, RowStays DEF RowIs
  <2>3. \A role \in RoleSet : req'[h].kids[role] # None =>
            RowIs(req[h].kids[role], req[h].g, {role})'
    BY <1>1, <2>1, KidsStay DEF Driving, GroupOps
  <2>4. Script(req'[h])
    BY <1>1, <2>1 DEF WorksOn, Script, NodeOps
  <2> QED
    BY <1>2, <1>4, <1>6, <2>1, <2>2, <2>3, <2>4 DEF WorksOn, OwnRows
<1> QED
  BY <1>5, <1>6

LEMMA StepWorks ==
    ASSUME TypeInv, UniqueSlugs, [Next]_vars, NEW h \in Requests, WorksOn(h),
           Begin(h) \/ Work(h) \/ Abort(h)
    PROVE  WorksOn(h)'
<1> DEFINE Same(pcs) == /\ req'[h].pc \in pcs /\ req'[h].op = req[h].op
                        /\ req'[h].g = req[h].g /\ req'[h].n = req[h].n
                        /\ req'[h].row = req[h].row /\ req'[h].kids = req[h].kids
<1>1. /\ req[h].op \in AllOps \cup {"none"} /\ Shape(req[h]) /\ req[h] \in Locals
      /\ Script(req[h])
  BY DEF TypeInv, ReqOK, Locals, WorksOn
<1>0. /\ req[h].pc \in {"generate", "persist"} => req[h].op = "Init"
      /\ req[h].pc \in {"config", "link"} => req[h].op \in {"Init", "AddCommitter"}
      /\ req[h].pc = "initNode" => req[h].op = "AddCommitter"
      /\ req[h].pc \in {"prepare", "child"} => req[h].op \in {"Start", "Stop", "Restart"}
      /\ req[h].pc \in {"effect", "settle"} =>
             req[h].op \in {"Start", "Stop", "Restart"} \cup NodeOps
      /\ req[h].pc = "stopFirst" => req[h].op \in NodeOps
      /\ req[h].op \in {"Start", "Stop", "Restart"} => req[h].g \in Groups
      /\ req[h].op \in NodeOps => req[h].g = None
  BY Statements
<1>2. CASE Begin(h)
  BY <1>2, BeginWorks
<1>3. CASE Finish(h)
  BY <1>3, FinishWorks
<1>4. CASE InsertRow(h) \/ List(h) \/ MarkChild(h)
  BY <1>4, InsertWorks, ListWorks, MarkWorks
<1>5. CASE (Generate(h) \/ Persist(h) \/ Prepare(h)) /\ ~Finish(h)
  <2>1. /\ req[h].pc \in {"generate", "persist", "prepare"}
        /\ Same(IF req[h].pc = "prepare" THEN {"list"} ELSE {"persist", "insert"})
    BY <1>1, <1>5 DEF Generate, Persist, Prepare, TypeInv, ReqOK, Locals
  <2>2. Script(req'[h])
    BY <1>0, <1>1, <2>1 DEF Script, NodeOps
  <2> QED
    BY <2>1, <2>2, SameWorks DEF Driving
<1>6. CASE (ConfigRow(h) \/ LinkRow(h) \/ InitNode(h)) /\ ~Finish(h)
  <2>1. /\ req[h].pc \in {"config", "link", "initNode"}
        /\ req'[h].op = req[h].op /\ req'[h].g = req[h].g /\ req'[h].n = req[h].n
        /\ req'[h].row = req[h].row /\ req'[h].kids = req[h].kids
        /\ req'[h].pc = IF req[h].pc = "config" THEN "link"
                        ELSE IF req[h].pc = "initNode" THEN "config"
                        ELSE IF req[h].op = "Init" THEN "insert" ELSE "created"
    <3>1. CASE ConfigRow(h)
      BY <1>1, <1>6, <3>1 DEF ConfigRow, TypeInv, ReqOK, Locals
    <3>2. CASE LinkRow(h)
      BY <1>1, <1>6, <3>2 DEF LinkRow, TypeInv, ReqOK, Locals
    <3>3. CASE InitNode(h)
      BY <1>1, <1>6, <3>3 DEF InitNode, TypeInv, ReqOK, Locals
    <3> QED
      BY <1>6, <3>1, <3>2, <3>3
  <2>2. Script(req'[h])
    BY <1>0, <1>1, <2>1 DEF Script, NodeOps
  <2> QED
    BY <2>1, <2>2, SameWorks DEF Driving
<1>7. CASE CommitterCreated(h) \/ RemoveNode(h) \/ Abort(h)
  BY <1>3, <1>7 DEF CommitterCreated, RemoveNode, Abort
<1>8. CASE RestartStart(h) /\ ~Finish(h)
  <2>1. req'[h].op = "Restart" /\ req'[h].g = req[h].g /\ req'[h].pc = "prepare"
    <3>1. BeginStart(h, req[h].g, "Restart")
      BY <1>8 DEF RestartStart
    <3> QED
      BY <3>1 DEF BeginStart, Idle, TypeInv, ReqOK
  <2>2. req[h].g \in Groups
    BY <1>1, <1>8 DEF RestartStart, Shape
  <2> QED
    BY <2>1, <2>2 DEF WorksOn, Script, OwnRows, Driving, NodeOps
<1>9. CASE EndGroup(h) /\ ~Finish(h)
  <2>1. req'[h].op = "Restart" /\ req'[h].g = req[h].g /\ req'[h].pc = "paused"
    BY <1>9 DEF EndGroup, Idle, TypeInv, ReqOK
  <2>2. req[h].g \in Groups
    BY <1>1, <1>9 DEF EndGroup, Shape
  <2> QED
    BY <2>1, <2>2 DEF WorksOn, Script, OwnRows, Driving, NodeOps
<1>10. CASE SkipChild(h) \/ Effect(h)
  <2>1. /\ req[h].pc \in {"child", "effect"}
        /\ Same(IF req[h].pc = "child" THEN {"child"} ELSE {"settle"})
    <3>1. CASE SkipChild(h)
      BY <1>1, <3>1 DEF SkipChild, TypeInv, ReqOK, Locals
    <3>2. CASE Effect(h)
      <4>1. PICK ok : req' = [req EXCEPT ![h].ok = ok, ![h].pc = "settle"]
        BY <3>2 DEF Effect, Outcome
      <4> QED
        BY <1>1, <3>2, <4>1 DEF Effect, TypeInv, ReqOK, Locals
    <3> QED
      BY <1>10, <3>1, <3>2
  <2>2. Script(req'[h])
    BY <1>0, <1>1, <2>1 DEF Script, NodeOps
  <2> QED
    BY <2>1, <2>2, SameWorks DEF Driving
<1>11. CASE StopFirst(h)
  <2>1. CASE Present(req[h].n)
    <3>1. req[h].n \in NodeIds /\ MarkNode(h, req[h].n, "NodeDelete", "stop")
      BY <1>1, <1>11, <2>1 DEF StopFirst, Shape
    <3> QED
      BY <2>1, <3>1, MarkNodeWorks DEF NodeOps
  <2>2. CASE ~Present(req[h].n)
    <3>1. req[h].pc = "stopFirst" /\ Same({"remove"})
      BY <1>1, <1>11, <2>2 DEF StopFirst, TypeInv, ReqOK, Locals
    <3>2. Script(req'[h])
      BY <1>0, <1>1, <3>1 DEF Script, NodeOps
    <3> QED
      BY <3>1, <3>2, SameWorks DEF Driving
  <2> QED
    BY <2>1, <2>2
<1>12. CASE Settle(h) /\ ~Finish(h)
  <2>1. CASE req[h].g # None
    <3>1. /\ req[h].pc = "settle" /\ req'[h].pc = "child" /\ req'[h].op = req[h].op
          /\ req'[h].g = req[h].g /\ req'[h].kids = req[h].kids
      BY <1>1, <1>12, <2>1 DEF Settle, TypeInv, ReqOK, Locals
    <3>2. req[h].op \in {"Start", "Stop", "Restart"} /\ Script(req'[h])
      BY <1>0, <1>1, <2>1, <3>1, NoneFresh DEF Script, NodeOps
    <3>3. \A role \in RoleSet : req'[h].kids[role] # None =>
              RowIs(req[h].kids[role], req[h].g, {role})'
      BY <3>1, <3>2, KidsStay DEF Driving, GroupOps
    <3> QED
      BY <3>1, <3>2, <3>3 DEF WorksOn, OwnRows
  <2>2. CASE req[h].g = None
    <3>1. req[h].pc = "settle" /\ Same({"remove"}) /\ req[h].op = "NodeDelete"
      BY <1>1, <1>12, <2>2 DEF Settle, TypeInv, ReqOK, Locals
    <3>2. Script(req'[h])
      BY <1>0, <1>1, <3>1 DEF Script, NodeOps
    <3> QED
      BY <3>1, <3>2, SameWorks DEF Driving
  <2> QED
    BY <2>1, <2>2
<1>13. CASE Work(h)
  BY <1>3, <1>4, <1>5, <1>6, <1>7, <1>8, <1>9, <1>10, <1>11, <1>12, <1>13 DEF Work
<1> QED
  BY <1>2, <1>7, <1>13

LEMMA WorkingNext == TypeInv /\ UniqueSlugs /\ Working /\ [Next]_vars => Working'
<1> SUFFICES ASSUME TypeInv, UniqueSlugs, Working, [Next]_vars, NEW h \in Requests
             PROVE  WorksOn(h)'
  BY DEF Working
<1>1. WorksOn(h)
  BY DEF Working
<1> QED
  BY <1>1, WorksOnKept, StepWorks, OtherRequests

LEMMA WorkingInvariant == Spec => [](TypeInv /\ UniqueSlugs /\ ChildInv /\ Working)
<1>1. Init => TypeInv /\ Working
  BY InitTypeInv DEF Init, Idle, Working, WorksOn, Script, OwnRows, Driving, NodeOps
<1> QED
  BY <1>1, NextType, WorkingNext, RowsInvariant, PTL DEF Spec

-----------------------------------------------------------------------------
(* The requests that work on the orderers of one name.  A committer is no   *)
(* part of what a start or a stop of its group drives.                      *)

\* A request of a group of that name; a request on one of its roles' own row.
Serves(h, nm)  == req[h].op \in GroupOps /\ NameOf[req[h].g] = nm
Touches(h, nm) == /\ req[h].op \in NodeOps /\ req[h].row.role # Committer
                  /\ NameOf[req[h].row.group] = nm

\* One client at a time drives the groups of that name, and none acts on a
\* role without its group.
Alone(nm) == /\ \A h, k \in Requests : Serves(h, nm) /\ Serves(k, nm) => h = k
             /\ \A h \in Requests : ~Touches(h, nm)

\* A step beside the groups of that name: it changes none of their rows, none
\* of their roles' rows and none of their roles' containers.
IsRole(n, nm) == Present(n) /\ NameOf[node[n].group] = nm /\ node[n].role # Committer

GroupsBeside(nm) == \A g \in Groups : NameOf[g] = nm => grp'[g] = grp[g]
RowsBeside(nm)   == \A n \in NodeIds : IsRole(n, nm) \/ IsRole(n, nm)' => node'[n] = node[n]
UpBeside(nm)     == \A role \in RoleSet : <<nm, role>> \in up' <=> <<nm, role>> \in up
Beside(nm)       == GroupsBeside(nm) /\ RowsBeside(nm) /\ UpBeside(nm)

LEMMA SameBeside ==
    ASSUME NEW nm
    PROVE  /\ UNCHANGED grp => GroupsBeside(nm)
           /\ UNCHANGED node => RowsBeside(nm)
           /\ UNCHANGED up => UpBeside(nm)
BY DEF GroupsBeside, RowsBeside, UpBeside

LEMMA OneRowBeside ==
    ASSUME TypeInv, NEW nm, NEW n \in NodeIds, ~IsRole(n, nm), RowsKept,
           \A m \in NodeIds : m # n => node'[m] = node[m]
    PROVE  RowsBeside(nm)
<1>1. ~IsRole(n, nm)'
  BY DEF IsRole, Present, RowsKept, RowKept, NoNode
<1> QED
  BY <1>1 DEF RowsBeside

LEMMA WriteBeside ==
    ASSUME TypeInv, NEW nm, NEW n \in NodeIds, ~IsRole(n, nm),
           \/ \E s \in NodeStatus : WriteNode(n, s)
           \/ node' = [node EXCEPT ![n] = NoNode]
    PROVE  RowsBeside(nm)
<1>1. RowsKept
  BY WriteRows, RemoveRows
<1>2. \A m \in NodeIds : m # n => node'[m] = node[m]
  BY DEF WriteNode, TypeInv, NodeOK
<1> QED
  BY <1>1, <1>2, OneRowBeside

LEMMA OneGroupBeside ==
    ASSUME TypeInv, NEW nm, NEW g \in Groups, NameOf[g] # nm,
           \A k \in Groups : k # g => grp'[k] = grp[k]
    PROVE  GroupsBeside(nm)
BY DEF GroupsBeside

\* Which statuses a step writes.
LEMMA Statuses ==
    /\ \A verb : Transient(verb) \in NodeStatus \cap GroupStatus
    /\ \A h : NodeFinal(h) \in NodeStatus
    /\ "STOPPED" \in NodeStatus
BY DEF Transient, NodeFinal, Settled, NodeStatus, GroupStatus

\* The row a request works on, when it is not one of that name.
LEMMA RowBeside ==
    ASSUME TypeInv, NEW nm, NEW h \in Requests, WorksOn(h),
           ~Serves(h, nm), ~Touches(h, nm),
           req[h].pc \in {"config", "link", "initNode", "created",
                          "effect", "settle", "stopFirst", "remove"}
    PROVE  req[h].n \in NodeIds /\ ~IsRole(req[h].n, nm)
<1>1. req[h].n \in NodeIds
  BY DEF TypeInv, ReqOK, Shape
<1>2. CASE req[h].pc \in {"config", "link", "initNode", "created"}
  <2>1. RowIs(req[h].n, req[h].g, IF req[h].op = "Init" THEN RoleSet ELSE {Committer})
    BY <1>2 DEF WorksOn, OwnRows
  <2>2. req[h].op \in {"Init", "AddCommitter"}
    BY <1>2, Statements
  <2>3. CASE req[h].op = "Init"
    BY <1>1, <2>1, <2>3 DEF RowIs, IsRole, Serves, GroupOps
  <2>4. CASE req[h].op = "AddCommitter"
    BY <1>1, <2>1, <2>4 DEF RowIs, IsRole
  <2> QED
    BY <1>1, <2>2, <2>3, <2>4
<1>3. CASE req[h].pc \in {"effect", "settle", "stopFirst", "remove"}
  <2>1. /\ RowIs(req[h].n, req[h].row.group, {req[h].row.role})
        /\ req[h].op \in GroupOps => req[h].row.group = req[h].g
    BY <1>3 DEF WorksOn, OwnRows
  <2>2. req[h].op \in GroupOps \/ req[h].op \in NodeOps
    BY <1>3, Statements DEF GroupOps
  <2>3. CASE req[h].op \in GroupOps
    BY <1>1, <2>1, <2>3 DEF RowIs, IsRole, Serves
  <2>4. CASE req[h].op \in NodeOps
    BY <1>1, <2>1, <2>4 DEF RowIs, IsRole, Touches
  <2> QED
    BY <1>1, <2>2, <2>3, <2>4
<1> QED
  BY <1>2, <1>3

LEMMA SlugBeside ==
    ASSUME TypeInv, NEW nm, NEW h \in Requests, WorksOn(h),
           ~Serves(h, nm), ~Touches(h, nm), req[h].pc \in {"effect", "remove"},
           \A x : x # SlugOf(req[h].row) => (x \in up' <=> x \in up)
    PROVE  UpBeside(nm)
<1> SUFFICES ASSUME NEW role \in RoleSet, SlugOf(req[h].row) = <<nm, role>> PROVE FALSE
  BY DEF UpBeside
<1>1. req[h].op \in GroupOps => req[h].row.group = req[h].g
  BY DEF WorksOn, OwnRows
<1>2. req[h].op \in GroupOps \/ req[h].op \in NodeOps
  BY Statements DEF GroupOps
<1>3. NameOf[req[h].row.group] = nm /\ req[h].row.role = role /\ role # Committer
  BY RoleFacts DEF SlugOf, Slug
<1> QED
  BY <1>1, <1>2, <1>3 DEF Serves, Touches

\* A request that serves another name, or a committer, works beside.
LEMMA BeginBeside ==
    ASSUME TypeInv, NEW nm, NEW h \in Requests, Begin(h), ~Serves(h, nm)', ~Touches(h, nm)'
    PROVE  Beside(nm)
<1>1. ASSUME NEW g \in Groups, BeginInit(h, g) \/ BeginAddCommitter(h, g) PROVE Beside(nm)
  BY <1>1, SameBeside DEF BeginInit, BeginAddCommitter, Beside
<1>2. ASSUME NEW g \in Groups, StartGroup(h, g) \/ StopGroup(h, g) \/ RestartGroup(h, g)
      PROVE  Beside(nm)
  <2>1. PICK op \in GroupOps : BeginStart(h, g, op) \/ BeginStop(h, g, op)
    BY <1>2 DEF StartGroup, StopGroup, RestartGroup, GroupOps
  <2>2. \/ req'[h] = [Idle EXCEPT !.op = op, !.g = g, !.pc = "prepare",
                                 !.verb = "start", !.dep = grp[g].dep # None]
        \/ req'[h] = [Idle EXCEPT !.op = op, !.g = g, !.pc = "list", !.verb = "stop"]
    BY <2>1 DEF BeginStart, BeginStop, TypeInv, ReqOK
  <2>3. req'[h].op = op /\ req'[h].g = g
    BY <2>2 DEF Idle
  <2>4. NameOf[g] # nm
    BY <2>3 DEF Serves
  <2>5. \A k \in Groups : k # g => grp'[k] = grp[k]
    BY <2>1 DEF BeginStart, BeginStop, TypeInv, GrpOK
  <2> QED
    BY <2>1, <2>4, <2>5, OneGroupBeside, SameBeside DEF BeginStart, BeginStop, Beside
<1>3. ASSUME NEW n \in NodeIds, StartNode(h, n) \/ StopNode(h, n) PROVE Beside(nm)
  <2>1. PICK op \in NodeOps : \E verb : MarkNode(h, n, op, verb)
    BY <1>3 DEF StartNode, StopNode, BeginNodeOp, NodeOps
  <2>2. req'[h].op = op /\ req'[h].row = node[n]
    BY <2>1 DEF MarkNode, Idle, TypeInv, ReqOK
  <2>3. ~IsRole(n, nm)
    BY <2>2 DEF Touches, IsRole
  <2>4. \E s \in NodeStatus : WriteNode(n, s)
    BY <2>1, Statuses DEF MarkNode
  <2> QED
    BY <1>3, <2>3, <2>4, WriteBeside, SameBeside DEF StartNode, StopNode, BeginNodeOp, Beside
<1>4. ASSUME NEW n \in NodeIds, DeleteNode(h, n) PROVE Beside(nm)
  BY <1>4, SameBeside DEF DeleteNode, Beside
<1> QED
  BY <1>1, <1>2, <1>3, <1>4 DEF Begin

LEMMA InsertBeside ==
    ASSUME TypeInv, NEW nm, NEW h \in Requests, WorksOn(h), ~Serves(h, nm), InsertRow(h)
    PROVE  Beside(nm)
<1>1. CASE UNCHANGED node
  BY <1>1, SameBeside DEF InsertRow, Beside
<1>2. CASE ~UNCHANGED node
  <2>1. /\ lastNode' = lastNode + 1 /\ lastNode' \in NodeIds
        /\ \A n \in NodeIds : n # lastNode' => node'[n] = node[n]
        /\ node'[lastNode'].group = req[h].g /\ node'[lastNode'].role = NewRole(h)
    BY <1>2, InsertRows
  <2>2. ~Present(lastNode')
    BY <2>1 DEF TypeInv, NodeOK
  <2>3. req[h].op \in {"Init", "AddCommitter"}
    BY Statements DEF InsertRow
  <2>4. NameOf[node'[lastNode'].group] # nm \/ node'[lastNode'].role = Committer
    BY <2>1, <2>3 DEF NewRole, Serves, GroupOps
  <2>5. RowsBeside(nm)
    <3> SUFFICES ASSUME NEW n \in NodeIds, IsRole(n, nm) \/ IsRole(n, nm)' PROVE n # lastNode'
      BY <2>1 DEF RowsBeside
    <3> QED
      BY <2>2, <2>4 DEF IsRole
  <2> QED
    BY <2>5, SameBeside DEF InsertRow, Beside
<1> QED
  BY <1>1, <1>2

LEMMA WorkBeside ==
    ASSUME TypeInv, NEW nm, NEW h \in Requests, WorksOn(h), ~Serves(h, nm), ~Touches(h, nm),
           Work(h) \/ Abort(h)
    PROVE  Beside(nm)
<1>1. CASE Generate(h) \/ Persist(h) \/ Prepare(h) \/ RestartStart(h) \/ EndGroup(h)
  <2>1. req[h].g \in Groups /\ req[h].op \in GroupOps
    <3>1. req[h].pc \in {"generate", "persist", "prepare", "paused", "child"}
      BY <1>1 DEF Generate, Persist, Prepare, RestartStart, EndGroup
    <3> QED
      BY <3>1, Statements DEF TypeInv, ReqOK, Shape, GroupOps
  <2>2. NameOf[req[h].g] # nm
    BY <2>1 DEF Serves
  <2>3. \A k \in Groups : k # req[h].g => grp'[k] = grp[k]
    BY <1>1 DEF Generate, Persist, Prepare, RestartStart, EndGroup, BeginStart, WriteGroup,
       TypeInv, GrpOK
  <2>4. UNCHANGED <<node, up>>
    BY <1>1 DEF Generate, Persist, Prepare, RestartStart, EndGroup, BeginStart
  <2> QED
    BY <2>1, <2>2, <2>3, <2>4, OneGroupBeside, SameBeside DEF Beside
<1>2. CASE InsertRow(h)
  BY <1>2, InsertBeside
<1>3. CASE ConfigRow(h) \/ LinkRow(h)
  <2>1. req[h].n \in NodeIds /\ ~IsRole(req[h].n, nm) /\ UNCHANGED <<grp, up>>
    BY <1>3, RowBeside DEF ConfigRow, LinkRow
  <2>2. \A m \in NodeIds : m # req[h].n => node'[m] = node[m]
    BY <1>3 DEF ConfigRow, LinkRow, TypeInv, NodeOK
  <2>3. RowsBeside(nm)
    BY <1>3, <2>1, <2>2, ConfigRows, LinkRows, OneRowBeside
  <2> QED
    BY <2>1, <2>3, SameBeside DEF Beside
<1>4. CASE InitNode(h) \/ CommitterCreated(h) \/ StopFirst(h) \/ Settle(h)
  <2>1. req[h].n \in NodeIds /\ ~IsRole(req[h].n, nm) /\ UNCHANGED <<grp, up>>
    BY <1>4, RowBeside DEF InitNode, CommitterCreated, StopFirst, Settle
  <2>2. \/ UNCHANGED node
        \/ \E s \in NodeStatus : WriteNode(req[h].n, s)
        \/ node' = [node EXCEPT ![req[h].n] = NoNode]
    BY <1>4, Statuses DEF InitNode, CommitterCreated, StopFirst, Settle, MarkNode
  <2>3. RowsBeside(nm)
    BY <2>1, <2>2, WriteBeside, SameBeside
  <2> QED
    BY <2>1, <2>3, SameBeside DEF Beside
<1>5. CASE List(h) \/ SkipChild(h)
  BY <1>5, SameBeside DEF List, SkipChild, Beside
<1>6. CASE MarkChild(h)
  <2> DEFINE n == req[h].kids[RoleNow(h)]
  <2>1. CASE ~Present(n)
    BY <1>6, <2>1, SameBeside DEF MarkChild, Beside
  <2>2. CASE Present(n)
    <3>1. /\ req[h] \in Locals /\ req[h].pc = "child" /\ req[h].i \in 1..Len(Roles)
          /\ n # None /\ req[h].op \in {"Start", "Stop", "Restart"}
      BY <1>6, RoleFacts, Statements DEF MarkChild, TypeInv, ReqOK, Locals
    <3>2. RoleNow(h) \in RoleSet
      BY <3>1, RoleFacts DEF RoleNow
    <3>3. n \in NodeIds
      BY <3>1, <3>2 DEF Locals
    <3>4. node[n].group = req[h].g
      BY <2>2, <3>1, <3>2 DEF WorksOn, OwnRows, Driving, GroupOps, RowIs
    <3>5. ~IsRole(n, nm)
      BY <3>1, <3>4 DEF IsRole, Serves, GroupOps
    <3>6. \E s \in NodeStatus : WriteNode(n, s)
      BY <1>6, <2>2, Statuses DEF MarkChild
    <3> QED
      BY <1>6, <3>3, <3>5, <3>6, WriteBeside, SameBeside DEF MarkChild, Beside
  <2> QED
    BY <2>1, <2>2
<1>7. CASE Effect(h)
  <2>1. /\ req[h].pc = "effect" /\ UNCHANGED <<grp, node>>
        /\ \A x : x # SlugOf(req[h].row) => (x \in up' <=> x \in up)
    BY <1>7 DEF Effect, Outcome
  <2> QED
    BY <2>1, SlugBeside, SameBeside DEF Beside
<1>8. CASE RemoveNode(h)
  <2>1. /\ req[h].pc = "remove" /\ UNCHANGED grp /\ node' = [node EXCEPT ![req[h].n] = NoNode]
        /\ \A x : x # SlugOf(req[h].row) => (x \in up' <=> x \in up)
    BY <1>8 DEF RemoveNode
  <2>2. RowsBeside(nm)
    BY <2>1, RowBeside, WriteBeside
  <2> QED
    BY <2>1, <2>2, SlugBeside, SameBeside DEF Beside
<1>9. CASE Abort(h)
  <2>1. UNCHANGED <<grp, node>>
    BY <1>9 DEF Abort
  <2>2. CASE UNCHANGED up
    BY <2>1, <2>2, SameBeside DEF Beside
  <2>3. CASE /\ req[h].pc = "effect"
             /\ \A x : x # SlugOf(req[h].row) => (x \in up' <=> x \in up)
    BY <2>1, <2>3, SlugBeside, SameBeside DEF Beside
  <2> QED
    BY <1>9, <2>2, <2>3 DEF Abort
<1> QED
  BY <1>1, <1>2, <1>3, <1>4, <1>5, <1>6, <1>7, <1>8, <1>9 DEF Work

-----------------------------------------------------------------------------
(* The promises to the only client of a name: a group reported RUNNING is   *)
(* up, and the order of the roles is kept, whatever other requests do to    *)
(* other groups and to committers, and whichever group is deleted.          *)

UniqueNames(nm) ==
    \A g, k \in Groups : Exists(g) /\ Exists(k) /\ NameOf[g] = nm /\ NameOf[k] = nm => g = k

RunningConfigured(nm) ==
    \A g \in Groups : NameOf[g] = nm /\ grp[g].status = "RUNNING" => grp[g].dep # None

\* RunningMeansUp and DependencyOrder for the groups of one name.
RunningUp(nm) ==
    \A g \in Groups : NameOf[g] = nm /\ grp[g].status = "RUNNING" =>
        \A n \in NodeIds : RoleChild(n, g) =>
            node[n].status = "RUNNING" /\ SlugOf(node[n]) \in up

Before(a, b) == \E j, k \in DOMAIN Roles : j < k /\ a = Roles[j] /\ b = Roles[k]

InOrder(nm) ==
    \A g \in Groups : NameOf[g] = nm =>
        \A m, n \in NodeIds :
            /\ RoleChild(m, g) /\ RoleChild(n, g)
            /\ Before(node[m].role, node[n].role) /\ node[n].status = "RUNNING"
            => node[m].status \notin {"CREATED", "STOPPED"}

\* The group of a start or a stop keeps the status it gave it, and a name
\* that no other group has used since.
HoldsGroup(h) == AtWork(h) =>
    /\ grp[req[h].g].status \in {"deleted", Transient(req[h].verb)}
    /\ \A k \in Groups \ {req[h].g} :
           Exists(k) /\ NameOf[k] = NameOf[req[h].g] => grp[k].status = "CREATED"
    /\ req[h].pc \in {"prepare", "list"} => req[h].i = 1
    /\ Exists(req[h].g) /\ req[h].verb = "start" /\ (req[h].pc = "prepare" => req[h].dep) =>
           grp[req[h].g].dep # None

\* The list a request walks is still the group's: only deletion changes it.
KnowsKids(h) == Driving(h) =>
    /\ \A n \in NodeIds : RoleChild(n, req[h].g) => req[h].kids[node[n].role] = n
    /\ \A n \in NodeIds, role \in RoleSet :
           req[h].kids[role] = n /\ Present(n) =>
               RoleChild(n, req[h].g) /\ node[n].role = role

\* The row it holds is the one of the role it is at.
AtChild(h) == req[h].pc \in {"effect", "settle"} =>
    /\ req[h].i <= Len(Roles)
    /\ req[h].n = req[h].kids[RoleNow(h)]
    /\ req[h].row.group = req[h].g /\ req[h].row.role = RoleNow(h)
    /\ req[h].pc = "settle" /\ req[h].ok /\ req[h].verb = "start" =>
           SlugOf(req[h].row) \in up

\* The roles a request has been through.
Done(h) == {Roles[j] : j \in {k \in DOMAIN Roles :
               IF req[h].verb = "start" THEN k < req[h].i ELSE k > Len(Roles) + 1 - req[h].i}}

DoneInOrder(h) == Driving(h) =>
    \A n \in NodeIds : RoleChild(n, req[h].g) /\ node[n].role \in Done(h) =>
        IF req[h].verb = "start"
          THEN /\ node[n].status \notin {"CREATED", "STOPPED"}
               /\ ~req[h].err => node[n].status = "RUNNING" /\ SlugOf(node[n]) \in up
          ELSE node[n].status # "RUNNING"

\* InitOrdererGroup works on a group that was never started.
SetsUp(h) == req[h].op = "Init" =>
    /\ grp[req[h].g].status # "RUNNING"
    /\ \A n \in NodeIds : RoleChild(n, req[h].g) => node[n].status = "CREATED"
    /\ req[h].pc \in {"config", "link"} /\ Present(req[h].n) =>
           node[req[h].n].status = "CREATED"

Client(h) == HoldsGroup(h) /\ KnowsKids(h) /\ AtChild(h) /\ DoneInOrder(h) /\ SetsUp(h)

Reported(nm)  == RunningUp(nm) /\ InOrder(nm)
SerialInv(nm) == /\ UniqueNames(nm) /\ RunningConfigured(nm) /\ Reported(nm)
                 /\ \A h \in Requests : Serves(h, nm) => Client(h)

\* No other request serves that name after the step.
Turn(h, nm) == \A k \in Requests \ {h} : ~Serves(k, nm)'

LEMMA SerialStep ==
    ASSUME NEW nm, NEW h \in Requests, Turn(h, nm), Client(h)',
           UniqueNames(nm)', RunningConfigured(nm)', Reported(nm)'
    PROVE  SerialInv(nm)'
BY DEF SerialInv, Turn

\* What a request that serves a name is.
LEMMA Serving ==
    ASSUME TypeInv, Working, NEW nm, NEW h \in Requests, Serves(h, nm)
    PROVE  /\ req[h].g \in Groups /\ NameOf[req[h].g] = nm
           /\ req[h].op \in GroupOps
           /\ req[h].pc \in {"generate", "persist", "insert", "config", "link",
                             "prepare", "list", "child", "effect", "settle", "paused"}
           /\ req[h].op = "Init" <=>
                  req[h].pc \in {"generate", "persist", "insert", "config", "link"}
<1>1. WorksOn(h) /\ req[h].op \in GroupOps /\ NameOf[req[h].g] = nm /\ Shape(req[h])
  BY DEF Working, Serves, TypeInv, ReqOK
<1>2. CASE req[h].op = "Init"
  BY <1>1, <1>2 DEF WorksOn, Script, Shape
<1>3. CASE req[h].op \in {"Start", "Stop", "Restart"}
  BY <1>1, <1>3 DEF WorksOn, Script
<1> QED
  BY <1>1, <1>2, <1>3 DEF GroupOps

\* A request that is at no start or stop and at no Init.
LEMMA RestingClient ==
    ASSUME NEW h \in Requests, ~AtWork(h)', req'[h].op # "Init"
    PROVE  Client(h)'
BY DEF Client, HoldsGroup, KnowsKids, AtChild, DoneInOrder, SetsUp, Driving, AtWork

LEMMA FinishedClient ==
    ASSUME TypeInv, NEW h \in Requests, Finish(h)
    PROVE  Client(h)'
<1>1. req'[h].pc = "idle" /\ req'[h].op = "none"
  BY DEF Finish, Idle, TypeInv, ReqOK
<1> QED
  BY <1>1, RestingClient DEF AtWork

\* A child of a role is there, and its role is one of the four.
LEMMA RoleRow ==
    ASSUME TypeInv, NEW n \in NodeIds, NEW g, RoleChild(n, g)
    PROVE  Present(n) /\ node[n].role \in RoleSet /\ g \in Groups
<1>1. node[n] # NoNode /\ node[n] \in Rows
  BY DEF RoleChild, NoNode, TypeInv, NodeOK
<1>2. Present(n)
  BY <1>1, AbsentRow DEF TypeInv
<1> QED
  BY <1>1, <1>2, RowFields DEF RoleChild

\* Where a request is in the canonical order.
LEMMA RoleAt ==
    ASSUME NEW h \in Requests, req[h].i \in Nat \ {0}, req[h].i <= Len(Roles)
    PROVE  /\ RoleNow(h) \in RoleSet /\ RoleNow(h) \notin Done(h)
           /\ \A j, k \in DOMAIN Roles : j < k =>
                  /\ req[h].verb = "start" /\ Roles[k] = RoleNow(h) => Roles[j] \in Done(h)
                  /\ req[h].verb # "start" /\ Roles[j] = RoleNow(h) => Roles[k] \in Done(h)
<1> DEFINE at == IF req[h].verb = "start" THEN req[h].i ELSE Len(Roles) + 1 - req[h].i
<1>1. DOMAIN Roles = 1..Len(Roles) /\ Len(Roles) \in Nat
  BY ConstantsAssumption DEF ConstantsAssumption
<1>2. at \in DOMAIN Roles /\ RoleNow(h) = Roles[at]
  BY <1>1 DEF RoleNow
<1>3. Done(h) = {Roles[j] : j \in {k \in DOMAIN Roles :
                    IF req[h].verb = "start" THEN k < at ELSE k > at}}
  BY DEF Done
<1> HIDE DEF at
<1>4. \A j \in DOMAIN Roles : Roles[j] = Roles[at] => j = at
  BY <1>2, RolesDistinct DEF RolesDistinct
<1>5. RoleNow(h) \notin Done(h)
  BY <1>1, <1>2, <1>3, <1>4
<1>6. ASSUME NEW j \in DOMAIN Roles, NEW k \in DOMAIN Roles, j < k
      PROVE  /\ req[h].verb = "start" /\ Roles[k] = RoleNow(h) => Roles[j] \in Done(h)
             /\ req[h].verb # "start" /\ Roles[j] = RoleNow(h) => Roles[k] \in Done(h)
  BY <1>1, <1>2, <1>3, <1>4, <1>6
<1> QED
  BY <1>2, <1>5, <1>6 DEF RoleSet

LEMMA NextRole ==
    ASSUME NEW h \in Requests, req[h].i \in Nat \ {0}, req[h].i <= Len(Roles),
           req'[h].i = req[h].i + 1, req'[h].verb = req[h].verb
    PROVE  Done(h)' = Done(h) \cup {RoleNow(h)}
<1>1. DOMAIN Roles = 1..Len(Roles) /\ Len(Roles) \in Nat
  BY ConstantsAssumption DEF ConstantsAssumption
<1>2. CASE req[h].verb = "start"
  BY <1>1, <1>2 DEF Done, RoleNow
<1>3. CASE req[h].verb # "start"
  <2> DEFINE at == Len(Roles) + 1 - req[h].i
  <2>1. /\ at \in DOMAIN Roles
        /\ \A k \in DOMAIN Roles : k > Len(Roles) + 1 - req'[h].i <=> k = at \/ k > at
    <3>0. \A l \in Nat, i \in Nat \ {0} :
              i <= l => l + 1 - i \in 1..l /\ l + 1 - (i + 1) = (l + 1 - i) - 1
      OBVIOUS
    <3>1. at \in 1..Len(Roles) /\ Len(Roles) + 1 - req'[h].i = at - 1
      BY <1>1, <3>0
    <3> HIDE DEF at
    <3> QED
      BY <1>1, <3>1
  <2>2. /\ Done(h) = {Roles[j] : j \in {k \in DOMAIN Roles : k > at}}
        /\ Done(h)' = {Roles[j] : j \in {k \in DOMAIN Roles : k > Len(Roles) + 1 - req'[h].i}}
        /\ RoleNow(h) = Roles[at]
    BY <1>3 DEF Done, RoleNow
  <2> HIDE DEF at
  <2> QED
    BY <2>1, <2>2
<1> QED
  BY <1>2, <1>3

LEMMA AllRoles ==
    ASSUME NEW h \in Requests, req[h].i \in Nat \ {0}, req[h].i > Len(Roles),
           req[h].verb = "start"
    PROVE  RoleSet \subseteq Done(h)
<1>1. DOMAIN Roles = 1..Len(Roles) /\ Len(Roles) \in Nat
  BY ConstantsAssumption DEF ConstantsAssumption
<1> QED
  BY <1>1 DEF Done, RoleSet

-----------------------------------------------------------------------------
\* A step that adds no role child and changes the status of none.
ChildKept ==
    \A n \in NodeIds : node'[n].linked /\ node'[n].role # Committer =>
        /\ node[n].linked /\ node[n].group = node'[n].group
        /\ node[n].role = node'[n].role /\ node[n].status = node'[n].status

\* No group of the name becomes RUNNING, and those that are keep their
\* containers.
RunningKept(nm) ==
    \A g \in Groups : NameOf[g] = nm /\ grp'[g].status = "RUNNING" =>
        /\ grp[g].status = "RUNNING"
        /\ \A n \in NodeIds : RoleChild(n, g) => SlugOf(node[n]) \in up'

LEMMA ReportedKept ==
    ASSUME NEW nm, Reported(nm), ChildKept, RunningKept(nm)
    PROVE  Reported(nm)'
<1>1. \A n \in NodeIds : \A g : RoleChild(n, g)' =>
          /\ RoleChild(n, g) /\ node[n].status = node'[n].status
          /\ node[n].role = node'[n].role /\ SlugOf(node'[n]) = SlugOf(node[n])
  BY DEF ChildKept, RoleChild, SlugOf
<1>2. RunningUp(nm)'
  BY <1>1 DEF Reported, RunningUp, RunningKept
<1>3. InOrder(nm)'
  BY <1>1 DEF Reported, InOrder
<1> QED
  BY <1>2, <1>3 DEF Reported

LEMMA SameRunning ==
    ASSUME NEW nm, Reported(nm), UNCHANGED up,
           \A g \in Groups : grp'[g].status = "RUNNING" => grp[g].status = "RUNNING"
    PROVE  RunningKept(nm)
BY DEF Reported, RunningUp, RunningKept

LEMMA SameChildren == ASSUME UNCHANGED node PROVE ChildKept
BY DEF ChildKept

\* A write to a row that is no role's.
-----------------------------------------------------------------------------
\* A step of the client that changes no group, no container and no status.
LEMMA QuietStep ==
    ASSUME NEW nm, SerialInv(nm), NEW h \in Requests,
           Turn(h, nm), Client(h)',
           UNCHANGED <<grp, up>>, ChildKept
    PROVE  SerialInv(nm)'
<1>1. UniqueNames(nm)' /\ RunningConfigured(nm)'
  BY DEF SerialInv, UniqueNames, RunningConfigured, Exists
<1>2. Reported(nm)'
  BY SameRunning, ReportedKept DEF SerialInv
<1> QED
  BY <1>1, <1>2, SerialStep

\* A status written to the row of a group, if the row is there.
LEMMA GroupWritten ==
    ASSUME TypeInv, NEW g \in Groups, NEW s \in GroupStatus,
           \/ WriteGroup(g, s)
           \/ Exists(g) /\ grp' = [grp EXCEPT ![g].status = s]
    PROVE  /\ \A k \in Groups \ {g} : grp'[k] = grp[k]
           /\ grp'[g].dep = grp[g].dep
           /\ grp'[g].status = IF Exists(g) THEN s ELSE grp[g].status
BY DEF WriteGroup, Exists, TypeInv, GrpOK

LEMMA GroupStatusStep ==
    ASSUME TypeInv, Working, NEW nm, SerialInv(nm), NEW h \in Requests,
           Turn(h, nm), Client(h)',
           NEW g \in Groups, NEW s \in GroupStatus \ {"RUNNING"},
           \/ WriteGroup(g, s)
           \/ Exists(g) /\ grp' = [grp EXCEPT ![g].status = s],
           UNCHANGED <<node, up>>
    PROVE  SerialInv(nm)'
<1>1. /\ \A k \in Groups \ {g} : grp'[k] = grp[k]
      /\ grp'[g].dep = grp[g].dep
      /\ grp'[g].status = IF Exists(g) THEN s ELSE grp[g].status
  BY GroupWritten
<1>2. \A k \in Groups : /\ Exists(k)' => Exists(k)
                        /\ grp'[k].status = "RUNNING" => grp[k].status = "RUNNING"
                        /\ grp'[k].dep = grp[k].dep
  BY <1>1 DEF Exists
<1>3. UniqueNames(nm)' /\ RunningConfigured(nm)'
  BY <1>2 DEF SerialInv, UniqueNames, RunningConfigured
<1>4. Reported(nm)'
  BY <1>2, SameChildren, SameRunning, ReportedKept DEF SerialInv
<1> QED
  BY <1>3, <1>4, SerialStep

\* A start or a stop that has just marked its group.
LEMMA MarkedClient ==
    ASSUME TypeInv, NEW nm, SerialInv(nm), NEW h \in Requests,
           NEW g \in Groups, NameOf[g] = nm, Exists(g),
           NEW verb \in {"start", "stop"}, NEW pc \in {"prepare", "list"},
           pc = "list" => verb = "stop",
           grp' = [grp EXCEPT ![g].status = Transient(verb)],
           req'[h].g = g, req'[h].pc = pc, req'[h].verb = verb, req'[h].i = 1,
           req'[h].dep => grp[g].dep # None,
           req'[h].op # "Init"
    PROVE  Client(h)'
<1>1. /\ \A k \in Groups \ {g} : grp'[k] = grp[k]
      /\ grp'[g].dep = grp[g].dep /\ grp'[g].status = Transient(verb)
  BY DEF TypeInv, GrpOK
<1>2. \A k \in Groups \ {g} : Exists(k)' => NameOf[k] # NameOf[g]
  BY <1>1 DEF SerialInv, UniqueNames, Exists
<1>3. HoldsGroup(h)'
  <2>1. req'[h].g = g /\ req'[h].verb = verb /\ req'[h].pc = pc
    OBVIOUS
  <2>2. grp'[req'[h].g].status = Transient(req'[h].verb)
    BY <1>1
  <2>3. \A k \in Groups \ {req'[h].g} : ~(Exists(k)' /\ NameOf[k] = NameOf[req'[h].g])
    BY <1>2
  <2>4. Exists(req[h].g)' /\ req'[h].verb = "start" /\ (req'[h].pc = "prepare" => req'[h].dep)
           => grp'[req'[h].g].dep # None
    BY <1>1, <2>1
  <2> QED
    BY <2>2, <2>3, <2>4 DEF HoldsGroup, Transient
<1> QED
  BY <1>3 DEF Client, KnowsKids, AtChild, DoneInOrder, SetsUp, Driving

LEMMA BeginSerial ==
    ASSUME TypeInv, Working, NEW nm, SerialInv(nm), NEW h \in Requests,
           Serves(h, nm)', Turn(h, nm), Begin(h)
    PROVE  SerialInv(nm)'
<1>1. ASSUME NEW g \in Groups, BeginInit(h, g) PROVE SerialInv(nm)'
  <2>1. /\ req'[h].op = "Init" /\ req'[h].g = g /\ req'[h].pc = "generate"
        /\ UNCHANGED <<grp, node, up>> /\ NameOf[g] = nm
    <3>1. /\ req'[h].op = "Init" /\ req'[h].g = g /\ req'[h].pc = "generate"
          /\ UNCHANGED <<grp, node, up>>
      BY <1>1 DEF BeginInit, Idle, TypeInv, ReqOK
    <3> QED
      BY <3>1 DEF Serves
  <2>2. grp[g].status # "RUNNING" /\ \A n \in NodeIds : ~RoleChild(n, g)
    BY <1>1, <2>1 DEF BeginInit, RoleChild, SerialInv, RunningConfigured
  <2>3. Client(h)'
    BY <2>1, <2>2 DEF Client, HoldsGroup, KnowsKids, AtChild, DoneInOrder, SetsUp,
       Driving, AtWork, RoleChild
  <2> QED
    BY <2>1, <2>3, SameChildren, QuietStep
<1>2. ASSUME NEW g \in Groups, BeginAddCommitter(h, g) PROVE FALSE
  <2>1. req'[h].op = "AddCommitter"
    BY <1>2 DEF BeginAddCommitter, Idle, TypeInv, ReqOK
  <2> QED
    BY <2>1 DEF Serves, GroupOps
<1>3. ASSUME NEW g \in Groups, StartGroup(h, g) PROVE SerialInv(nm)'
  <2>1. /\ Exists(g) /\ UNCHANGED <<node, up>>
        /\ grp' = [grp EXCEPT ![g].status = Transient("start")]
        /\ req'[h].g = g /\ req'[h].pc = "prepare" /\ req'[h].verb = "start" /\ req'[h].i = 1
        /\ req'[h].dep = (grp[g].dep # None) /\ req'[h].op = "Start"
    BY <1>3 DEF StartGroup, BeginStart, Idle, Transient, TypeInv, ReqOK
  <2>2. Client(h)'
    BY <2>1, MarkedClient DEF Serves
  <2>3. Transient("start") \in GroupStatus \ {"RUNNING"}
    BY DEF Transient, GroupStatus
  <2> QED
    BY <2>1, <2>2, <2>3, GroupStatusStep
<1>4. ASSUME NEW g \in Groups, StopGroup(h, g) \/ RestartGroup(h, g) PROVE SerialInv(nm)'
  <2>1. /\ Exists(g) /\ UNCHANGED <<node, up>>
        /\ grp' = [grp EXCEPT ![g].status = Transient("stop")]
        /\ req'[h].g = g /\ req'[h].pc = "list" /\ req'[h].verb = "stop" /\ req'[h].i = 1
        /\ req'[h].dep = FALSE /\ req'[h].op # "Init"
    <3>1. Exists(g) /\ \E op \in {"Stop", "Restart"} : BeginStop(h, g, op)
      BY <1>4 DEF StopGroup, RestartGroup
    <3>2. PICK op \in {"Stop", "Restart"} : BeginStop(h, g, op)
      BY <3>1
    <3>3. req'[h] = [Idle EXCEPT !.op = op, !.g = g, !.pc = "list", !.verb = "stop"]
      BY <3>2 DEF BeginStop, TypeInv, ReqOK
    <3>4. /\ req'[h].g = g /\ req'[h].pc = "list" /\ req'[h].verb = "stop" /\ req'[h].i = 1
          /\ req'[h].dep = FALSE /\ req'[h].op = op
      BY <3>3 DEF Idle
    <3>5. grp' = [grp EXCEPT ![g].status = Transient("stop")] /\ UNCHANGED <<node, up>>
      BY <3>2 DEF BeginStop, Transient
    <3> QED
      BY <3>1, <3>4, <3>5
  <2>2. Client(h)'
    BY <2>1, MarkedClient DEF Serves
  <2>3. Transient("stop") \in GroupStatus \ {"RUNNING"}
    BY DEF Transient, GroupStatus
  <2> QED
    BY <2>1, <2>2, <2>3, GroupStatusStep
<1>5. ASSUME NEW n \in NodeIds, StartNode(h, n) \/ StopNode(h, n) \/ DeleteNode(h, n)
      PROVE  FALSE
  <2>1. req'[h].op \in NodeOps
    <3>1. CASE DeleteNode(h, n)
      BY <3>1 DEF DeleteNode, Idle, NodeOps, TypeInv, ReqOK
    <3>2. CASE StartNode(h, n) \/ StopNode(h, n)
      <4>1. PICK op \in NodeOps : \E verb : MarkNode(h, n, op, verb)
        BY <3>2 DEF StartNode, StopNode, BeginNodeOp, NodeOps
      <4> QED
        BY <4>1 DEF MarkNode, Idle, TypeInv, ReqOK
    <3> QED
      BY <1>5, <3>1, <3>2
  <2> QED
    BY <2>1 DEF Serves, NodeOps, GroupOps
<1> QED
  BY <1>1, <1>2, <1>3, <1>4, <1>5 DEF Begin

-----------------------------------------------------------------------------
\* InitOrdererGroup and CreateNode.

LEMMA GenerateSerial ==
    ASSUME TypeInv, Working, NEW nm, SerialInv(nm), NEW h \in Requests,
           Serves(h, nm), Turn(h, nm), Generate(h)
    PROVE  SerialInv(nm)'
<1>1. req[h].g \in Groups /\ UNCHANGED <<node, up>>
  BY DEF Generate, TypeInv, ReqOK, Shape
<1>2. CASE WriteGroup(req[h].g, "ERROR") /\ Finish(h)
  <2>1. "ERROR" \in GroupStatus \ {"RUNNING"}
    BY DEF GroupStatus
  <2> QED
    BY <1>1, <1>2, <2>1, FinishedClient, GroupStatusStep
<1>3. CASE UNCHANGED grp /\ req' = [req EXCEPT ![h].pc = "persist"]
  <2>1. /\ req'[h].pc = "persist" /\ req'[h].op = req[h].op /\ req'[h].g = req[h].g
    BY <1>3 DEF TypeInv, ReqOK, Locals
  <2>2. Client(h)
    BY DEF SerialInv
  <2>3. Client(h)'
    BY <1>1, <1>3, <2>1, <2>2 DEF Client, HoldsGroup, KnowsKids, AtChild,
       DoneInOrder, SetsUp, Driving, AtWork, RoleChild
  <2> QED
    BY <1>1, <1>3, <2>3, SameChildren, QuietStep
<1> QED
  BY <1>2, <1>3 DEF Generate

LEMMA PersistSerial ==
    ASSUME TypeInv, Working, NEW nm, SerialInv(nm), NEW h \in Requests,
           Serves(h, nm), Turn(h, nm), Persist(h)
    PROVE  SerialInv(nm)'
<1>1. req[h].g \in Groups /\ UNCHANGED <<node, up>>
  BY DEF Persist, TypeInv, ReqOK, Shape
<1>2. CASE UNCHANGED grp /\ Finish(h)
  BY <1>1, <1>2, FinishedClient, SameChildren, QuietStep
<1>3. CASE grp' = [grp EXCEPT ![req[h].g].dep = h] /\ req' = [req EXCEPT ![h].pc = "insert"]
  <2>1. /\ req'[h].pc = "insert" /\ req'[h].op = req[h].op /\ req'[h].g = req[h].g
    BY <1>3 DEF TypeInv, ReqOK, Locals
  <2>2. Client(h)
    BY DEF SerialInv
  <2>3. \A g \in Groups : grp'[g].status = grp[g].status /\ grp'[g].dep \in {grp[g].dep, h}
    BY <1>3 DEF TypeInv, GrpOK
  <2>4. Client(h)'
    BY <1>1, <2>1, <2>2, <2>3 DEF Client, HoldsGroup, KnowsKids, AtChild,
       DoneInOrder, SetsUp, Driving, AtWork, RoleChild
  <2>5. UniqueNames(nm)' /\ RunningConfigured(nm)'
    BY <2>3, NoneFresh DEF SerialInv, UniqueNames, RunningConfigured, Exists
  <2>6. Reported(nm)'
    BY <1>1, <2>3, SameChildren, SameRunning, ReportedKept DEF SerialInv
  <2> QED
    BY <2>4, <2>5, <2>6, SerialStep
<1> QED
  BY <1>2, <1>3 DEF Persist

\* The steps between an insertion and the link change no child of a role.
LEMMA InsertSerial ==
    ASSUME TypeInv, Working, NEW nm, SerialInv(nm), NEW h \in Requests,
           Serves(h, nm), Turn(h, nm), InsertRow(h)
    PROVE  SerialInv(nm)'
<1>1. UNCHANGED <<grp, up>> /\ req[h].pc = "insert"
  BY DEF InsertRow
<1>2. CASE UNCHANGED node /\ req'[h] = Idle
  <2>1. Client(h)'
    BY <1>2, RestingClient DEF AtWork, Idle
  <2> QED
    BY <1>1, <1>2, <2>1, SameChildren, QuietStep
<1>3. CASE ~(UNCHANGED node /\ req'[h] = Idle)
  <2>1. /\ \A n \in NodeIds : n # lastNode' => node'[n] = node[n]
        /\ node'[lastNode'].linked = FALSE
        /\ req[h].op = "Init" => node'[lastNode'].status = "CREATED"
        /\ req'[h].g = req[h].g /\ req'[h].op = req[h].op /\ req'[h].n = lastNode'
        /\ req'[h].pc \in {"config", "initNode"}
    BY <1>3, InsertRows
  <2>2. req[h].op = "Init" => req'[h].pc = "config"
    BY <1>3 DEF InsertRow, Finish, TypeInv, ReqOK, Locals
  <2>3. ChildKept
    BY <2>1 DEF ChildKept
  <2>4. Client(h)
    BY DEF SerialInv
  <2>5. SetsUp(h)'
    BY <1>1, <2>1, <2>2, <2>4 DEF SetsUp, Client, RoleChild
  <2>6. Client(h)'
    BY <2>1, <2>5 DEF Client, HoldsGroup, KnowsKids, AtChild,
       DoneInOrder, Driving, AtWork
  <2> QED
    BY <1>1, <2>3, <2>6, QuietStep
<1> QED
  BY <1>2, <1>3

LEMMA ConfigSerial ==
    ASSUME TypeInv, Working, NEW nm, SerialInv(nm), NEW h \in Requests,
           Serves(h, nm), Turn(h, nm), ConfigRow(h)
    PROVE  SerialInv(nm)'
<1>1. UNCHANGED <<grp, up>> /\ req[h].pc = "config" /\ req[h].n \in NodeIds
  BY DEF ConfigRow, TypeInv, ReqOK, Shape
<1>2. CASE UNCHANGED node /\ Finish(h)
  BY <1>1, <1>2, FinishedClient, SameChildren, QuietStep
<1>3. CASE /\ Present(req[h].n) /\ node' = [node EXCEPT ![req[h].n].dep = h]
           /\ req' = [req EXCEPT ![h].pc = "link"]
  <2>1. /\ req'[h].pc = "link" /\ req'[h].op = req[h].op /\ req'[h].g = req[h].g
        /\ req'[h].n = req[h].n
    BY <1>3 DEF TypeInv, ReqOK, Locals
  <2>2. \A n \in NodeIds : /\ node'[n].linked = node[n].linked /\ node'[n].group = node[n].group
                           /\ node'[n].role = node[n].role /\ node'[n].status = node[n].status
    <3>1. \A n \in NodeIds : node'[n] = IF n = req[h].n THEN [node[n] EXCEPT !.dep = h]
                                                        ELSE node[n]
      BY <1>3 DEF TypeInv, NodeOK
    <3>2. node[req[h].n] \in Rows /\ node[req[h].n] # NoNode
      BY <1>1, <1>3, PresentRow DEF TypeInv
    <3> QED
      BY <3>1, <3>2 DEF Rows
  <2>3. ChildKept
    BY <2>2 DEF ChildKept
  <2>4. Client(h)
    BY DEF SerialInv
  <2>5. SetsUp(h)'
    BY <1>1, <2>1, <2>2, <2>4 DEF SetsUp, Client, RoleChild, Present
  <2>6. Client(h)'
    BY <2>1, <2>5 DEF Client, HoldsGroup, KnowsKids, AtChild,
       DoneInOrder, Driving, AtWork
  <2> QED
    BY <1>1, <2>3, <2>6, QuietStep
<1> QED
  BY <1>2, <1>3 DEF ConfigRow

\* The row gets its group; a role's row is CREATED, and so are its siblings.
LEMMA LinkSerial ==
    ASSUME TypeInv, Working, NEW nm, SerialInv(nm), ChildInv, NEW h \in Requests,
           Serves(h, nm), Turn(h, nm), LinkRow(h)
    PROVE  SerialInv(nm)'
<1> DEFINE n == req[h].n
           g == req[h].g
<1>1. /\ UNCHANGED <<grp, up>> /\ req[h].pc = "link" /\ n \in NodeIds /\ g \in Groups
      /\ Creating(h) /\ Client(h)
  BY DEF LinkRow, TypeInv, ReqOK, Shape, ChildInv, SerialInv
<1>0. req[h].op = "Init"
  BY <1>1, Serving
<1>2. CASE LinkRejected(h)
  BY <1>1, <1>2, FinishedClient, SameChildren, QuietStep DEF LinkRow
<1>3. CASE ~LinkRejected(h)
  <2>1. /\ req'[h].op = req[h].op /\ req'[h].g = g /\ req'[h].n = n
        /\ req'[h].pc = "insert"
    BY <1>0, <1>3 DEF LinkRow, TypeInv, ReqOK, Locals
  <2>2. /\ \A m \in NodeIds : m # n => node'[m] = node[m]
        /\ node'[n].group = node[n].group /\ node'[n].role = node[n].role
        /\ node'[n].status = node[n].status
        /\ node'[n].linked => Present(n)
    <3>1. node' = [node EXCEPT ![n].linked = Present(n)]
      BY <1>3 DEF LinkRow
    <3>2. node[n] \in Rows
      BY <1>1 DEF TypeInv, NodeOK
    <3>3. node'[n] = [node[n] EXCEPT !.linked = Present(n)]
      BY <1>1, <3>1 DEF TypeInv, NodeOK
    <3>4. node'[n].linked = Present(n) /\ node'[n].group = node[n].group
          /\ node'[n].role = node[n].role /\ node'[n].status = node[n].status
      BY <3>2, <3>3 DEF Rows, NoNode
    <3> QED
      BY <1>1, <3>1, <3>4 DEF TypeInv, NodeOK
  <2>3. grp[g].status # "RUNNING" /\ (Present(n) => node[n].status = "CREATED")
    BY <1>1, <1>0 DEF Client, SetsUp
  <2>4. \A m \in NodeIds : RoleChild(m, g)' => node'[m].status = "CREATED"
    BY <1>1, <2>1, <2>2, <1>0, <2>3 DEF Client, SetsUp, RoleChild
  <2>5. ASSUME NEW m \in NodeIds, NEW k, k # g, RoleChild(m, k)'
        PROVE  RoleChild(m, k) /\ node'[m] = node[m]
    <3>1. m # n
      BY <1>1, <2>2, <2>5 DEF RoleChild, Creating
    <3> QED
      BY <2>2, <2>5, <3>1 DEF RoleChild
  <2>6. RunningUp(nm)'
    BY <1>1, <2>3, <2>5 DEF SerialInv, Reported, RunningUp
  <2>7. InOrder(nm)'
    <3> SUFFICES ASSUME NEW k \in Groups, NEW a \in NodeIds, NEW b \in NodeIds,
                        NameOf[k] = nm, RoleChild(a, k)', RoleChild(b, k)',
                        Before(node'[a].role, node'[b].role),
                        node'[b].status = "RUNNING"
                 PROVE  node'[a].status \notin {"CREATED", "STOPPED"}
      BY DEF InOrder
    <3>1. k # g
      BY <2>1, <2>4
    <3>2. /\ RoleChild(a, k) /\ node'[a] = node[a]
          /\ RoleChild(b, k) /\ node'[b] = node[b]
      BY <2>5, <3>1
    <3> QED
      BY <3>2 DEF SerialInv, Reported, InOrder
  <2>8. SetsUp(h)'
    BY <1>1, <2>1, <1>0, <2>3, <2>4 DEF SetsUp
  <2>9. Client(h)'
    BY <2>1, <1>0, <2>8 DEF Client, HoldsGroup, KnowsKids, AtChild,
       DoneInOrder, Driving, AtWork
  <2>10. UniqueNames(nm)' /\ RunningConfigured(nm)'
    BY <1>1 DEF SerialInv, UniqueNames, RunningConfigured, Exists
  <2> QED
    BY <2>6, <2>7, <2>9, <2>10, SerialStep DEF Reported
<1> QED
  BY <1>2, <1>3

-----------------------------------------------------------------------------
\* Start, stop and restart: before the children.

LEMMA PrepareSerial ==
    ASSUME TypeInv, Working, NEW nm, SerialInv(nm), NEW h \in Requests,
           Serves(h, nm), Turn(h, nm), Prepare(h)
    PROVE  SerialInv(nm)'
<1>1. req[h].g \in Groups /\ req[h].pc = "prepare" /\ UNCHANGED <<node, up>> /\ Client(h)
  BY DEF Prepare, TypeInv, ReqOK, Shape, SerialInv
<1>2. CASE WriteGroup(req[h].g, "ERROR") /\ Finish(h)
  <2>1. "ERROR" \in GroupStatus \ {"RUNNING"}
    BY DEF GroupStatus
  <2> QED
    BY <1>1, <1>2, <2>1, FinishedClient, GroupStatusStep
<1>3. CASE UNCHANGED grp /\ req[h].dep /\ req' = [req EXCEPT ![h].pc = "list"]
  <2>1. /\ req'[h].pc = "list" /\ req'[h].op = req[h].op /\ req'[h].g = req[h].g
        /\ req'[h].verb = req[h].verb /\ req'[h].i = req[h].i
    BY <1>3 DEF TypeInv, ReqOK, Locals
  <2>2. HoldsGroup(h)'
    BY <1>1, <1>3, <2>1 DEF Client, HoldsGroup, AtWork, Exists
  <2>3. SetsUp(h)'
    BY <1>1, <2>1, Serving DEF SetsUp
  <2>4. Client(h)'
    BY <2>1, <2>2, <2>3 DEF Client, KnowsKids, AtChild, DoneInOrder, Driving
  <2> QED
    BY <1>1, <1>3, <2>4, SameChildren, QuietStep
<1> QED
  BY <1>2, <1>3 DEF Prepare

LEMMA RestartSerial ==
    ASSUME TypeInv, Working, NEW nm, SerialInv(nm), NEW h \in Requests,
           Serves(h, nm), Turn(h, nm), RestartStart(h)
    PROVE  SerialInv(nm)'
<1>1. req[h].g \in Groups
  BY DEF RestartStart, TypeInv, ReqOK, Shape
<1>2. CASE Finish(h) /\ UNCHANGED <<grp, node, up>>
  BY <1>2, FinishedClient, SameChildren, QuietStep
<1>3. CASE Exists(req[h].g) /\ BeginStart(h, req[h].g, "Restart")
  <2> DEFINE g == req[h].g
  <2>1. /\ UNCHANGED <<node, up>>
        /\ grp' = [grp EXCEPT ![g].status = Transient("start")]
        /\ req'[h].g = g /\ req'[h].pc = "prepare" /\ req'[h].verb = "start" /\ req'[h].i = 1
        /\ req'[h].dep = (grp[g].dep # None) /\ req'[h].op = "Restart"
    BY <1>3 DEF BeginStart, Idle, Transient, TypeInv, ReqOK
  <2>2. Transient("start") \in GroupStatus \ {"RUNNING"}
    BY DEF Transient, GroupStatus
  <2> HIDE DEF g
  <2>3. g \in Groups /\ Exists(g) /\ NameOf[g] = nm
    BY <1>1, <1>3 DEF g, Serves
  <2>4. Client(h)'
    BY <2>1, <2>3, MarkedClient
  <2> QED
    BY <2>1, <2>2, <2>3, <2>4, GroupStatusStep
<1> QED
  BY <1>2, <1>3 DEF RestartStart

LEMMA ListSerial ==
    ASSUME TypeInv, Working, NEW nm, SerialInv(nm), UniqueSlugs, NEW h \in Requests,
           Serves(h, nm), Turn(h, nm), List(h)
    PROVE  SerialInv(nm)'
<1> DEFINE g == req[h].g
<1>1. /\ g \in Groups /\ req[h].pc = "list" /\ UNCHANGED <<grp, node, up>> /\ Client(h)
      /\ req[h].i = 1
  BY DEF List, TypeInv, ReqOK, Shape, SerialInv, Client, HoldsGroup, AtWork
<1>2. /\ req'[h].pc = "child" /\ req'[h].op = req[h].op /\ req'[h].g = g
      /\ req'[h].verb = req[h].verb /\ req'[h].i = 1 /\ req'[h].kids = Children(g)
  BY <1>1 DEF List, TypeInv, ReqOK, Locals
<1>3. ASSUME NEW n \in NodeIds, RoleChild(n, g) PROVE Children(g)[node[n].role] = n
  <2> DEFINE rows == {m \in NodeIds : /\ Present(m) /\ node[m].linked
                                      /\ node[m].group = g /\ node[m].role = node[n].role}
  <2>1. Present(n) /\ node[n].role \in RoleSet
    BY <1>3, RoleRow
  <2>2. \A m \in rows : m = n
    BY <1>3, <2>1 DEF UniqueSlugs, SlugOf, RoleChild
  <2>3. rows = {n} /\ n <= n
    BY <1>3, <2>1, <2>2 DEF RoleChild, NodeIds
  <2>4. (CHOOSE m \in rows : \A k \in rows : k <= m) = n
    BY <2>3
  <2> QED
    BY <2>1, <2>3, <2>4 DEF Children
<1>4. ASSUME NEW n \in NodeIds, NEW role \in RoleSet, Children(g)[role] = n
      PROVE  RoleChild(n, g) /\ node[n].role = role
  BY <1>1, <1>4, ChildrenRows
<1>5. KnowsKids(h)'
  BY <1>1, <1>2, <1>3, <1>4 DEF KnowsKids, RoleChild
<1>6. Done(h)' = {}
  <2>1. DOMAIN Roles = 1..Len(Roles) /\ Len(Roles) \in Nat
    BY ConstantsAssumption DEF ConstantsAssumption
  <2> QED
    BY <1>2, <2>1 DEF Done
<1>7. HoldsGroup(h)'
  BY <1>1, <1>2 DEF Client, HoldsGroup, AtWork, Exists
<1>8. SetsUp(h)'
  BY <1>1, <1>2, Serving DEF SetsUp
<1>9. Client(h)'
  BY <1>2, <1>5, <1>6, <1>7, <1>8 DEF Client, AtChild, DoneInOrder
<1> QED
  BY <1>1, <1>9, SameChildren, QuietStep

-----------------------------------------------------------------------------
\* The walk over the children.

LEMMA WalkFacts ==
    ASSUME TypeInv, Working, NEW nm, SerialInv(nm), NEW h \in Requests,
           Serves(h, nm), Driving(h), req[h].i <= Len(Roles)
    PROVE  /\ req[h].i \in Nat \ {0} /\ req[h].g \in Groups /\ req[h].verb \in {"start", "stop"}
           /\ RoleNow(h) \in RoleSet /\ RoleNow(h) \notin Done(h)
           /\ req[h].kids[RoleNow(h)] \in NodeIds \cup {None}
           /\ req[h].op # "Init" /\ AtWork(h) /\ Client(h)
           /\ grp[req[h].g].status # "RUNNING"
<1>1. req[h] \in Locals /\ Shape(req[h]) /\ Client(h) /\ AtWork(h)
  BY DEF TypeInv, ReqOK, SerialInv, Driving, AtWork
<1>2. req[h].i \in Nat \ {0} /\ req[h].kids \in [RoleSet -> NodeIds \cup {None}]
  BY <1>1 DEF Locals
<1>3. req[h].g \in Groups /\ req[h].verb \in {"start", "stop"} /\ req[h].op # "Init"
      /\ grp[req[h].g].status # "RUNNING"
  BY <1>1, Serving DEF Shape, Driving, Client, HoldsGroup, Transient, AtWork
<1> QED
  BY <1>1, <1>2, <1>3, RoleAt

\* The request goes on to the next role.
LEMMA NextChild ==
    ASSUME TypeInv, Working, NEW nm, SerialInv(nm), NEW h \in Requests,
           Serves(h, nm), Driving(h), req[h].i <= Len(Roles),
           UNCHANGED grp,
           req'[h].pc = "child", req'[h].i = req[h].i + 1, req'[h].g = req[h].g,
           req'[h].verb = req[h].verb, req'[h].op = req[h].op, req'[h].kids = req[h].kids,
           KnowsKids(h)', DoneInOrder(h)'
    PROVE  Client(h)'
<1>1. SetsUp(h)'
  BY WalkFacts DEF SetsUp
<1>2. HoldsGroup(h)'
  BY WalkFacts DEF Client, HoldsGroup, Driving, Exists
<1> QED
  BY <1>1, <1>2 DEF Client, AtChild

\* It passes a role without a row, or with a row that is gone.
LEMMA NoChildSerial ==
    ASSUME TypeInv, Working, NEW nm, SerialInv(nm), NEW h \in Requests,
           Serves(h, nm), Turn(h, nm),
           req[h].pc = "child", req[h].i <= Len(Roles), UNCHANGED <<grp, node, up>>,
           \A n \in NodeIds : req[h].kids[RoleNow(h)] = n => ~Present(n),
           req'[h].pc = "child", req'[h].i = req[h].i + 1, req'[h].g = req[h].g,
           req'[h].verb = req[h].verb, req'[h].op = req[h].op, req'[h].kids = req[h].kids,
           ~req'[h].err => ~req[h].err
    PROVE  SerialInv(nm)'
<1>1. Driving(h)
  BY DEF Driving
<1>2. KnowsKids(h)'
  BY <1>1, WalkFacts DEF Client, KnowsKids, Driving, RoleChild, Present
<1>3. Done(h)' = Done(h) \cup {RoleNow(h)}
  BY <1>1, WalkFacts, NextRole
<1>4. ASSUME NEW n \in NodeIds, RoleChild(n, req[h].g) PROVE node[n].role # RoleNow(h)
  <2>1. Present(n) /\ req[h].kids[node[n].role] = n
    BY <1>1, <1>4, RoleRow, WalkFacts DEF Client, KnowsKids
  <2> QED
    BY <2>1
<1>5. DoneInOrder(h)'
  BY <1>1, <1>3, <1>4, WalkFacts DEF Client, DoneInOrder, RoleChild, SlugOf
<1> QED
  BY <1>1, <1>2, <1>5, NextChild, SameChildren, QuietStep

LEMMA SkipSerial ==
    ASSUME TypeInv, Working, NEW nm, SerialInv(nm), NEW h \in Requests,
           Serves(h, nm), Turn(h, nm), SkipChild(h)
    PROVE  SerialInv(nm)'
<1>1. /\ req[h].pc = "child" /\ req[h].i <= Len(Roles) /\ UNCHANGED <<grp, node, up>>
      /\ req[h].kids[RoleNow(h)] = None
      /\ req'[h].pc = "child" /\ req'[h].i = req[h].i + 1 /\ req'[h].g = req[h].g
      /\ req'[h].verb = req[h].verb /\ req'[h].op = req[h].op /\ req'[h].kids = req[h].kids
      /\ req'[h].err = req[h].err
  BY DEF SkipChild, TypeInv, ReqOK, Locals
<1> QED
  BY <1>1, NoneFresh, NoChildSerial

\* The status of the child it is at changes.
LEMMA StatusWritten ==
    ASSUME TypeInv, NEW n \in NodeIds, NEW s \in NodeStatus, WriteNode(n, s)
    PROVE  /\ \A m \in NodeIds \ {n} : node'[m] = node[m]
           /\ node'[n].linked = node[n].linked /\ node'[n].group = node[n].group
           /\ node'[n].role = node[n].role
           /\ node'[n].status = IF Present(n) THEN s ELSE "absent"
<1>1. node'[n] = [node[n] EXCEPT !.status = IF @ = "absent" THEN @ ELSE s]
      /\ \A m \in NodeIds \ {n} : node'[m] = node[m]
  BY DEF WriteNode, TypeInv, NodeOK
<1>2. node[n] \in Rows
  BY DEF TypeInv, NodeOK
<1> QED
  BY <1>1, <1>2 DEF Present, Rows, NoNode

LEMMA ChildWritten ==
    ASSUME TypeInv, NEW nm, Reported(nm), NEW g \in Groups, grp[g].status # "RUNNING",
           UNCHANGED <<grp, up>>,
           NEW n \in NodeIds, NEW s \in NodeStatus, WriteNode(n, s),
           Present(n) => RoleChild(n, g),
           \A m \in NodeIds : Present(n) /\ RoleChild(m, g) =>
               /\ s = "RUNNING" /\ Before(node[m].role, node[n].role) =>
                      node[m].status \notin {"CREATED", "STOPPED"}
               /\ s \in {"CREATED", "STOPPED"} /\ Before(node[n].role, node[m].role) =>
                      node[m].status # "RUNNING"
    PROVE  Reported(nm)' /\ \A m \in NodeIds : \A k : RoleChild(m, k)' <=> RoleChild(m, k)
<1>1. /\ \A m \in NodeIds \ {n} : node'[m] = node[m]
      /\ node'[n].linked = node[n].linked /\ node'[n].group = node[n].group
      /\ node'[n].role = node[n].role
      /\ node'[n].status = IF Present(n) THEN s ELSE "absent"
  BY StatusWritten
<1>2. \A m \in NodeIds : \A k : RoleChild(m, k)' <=> RoleChild(m, k)
  BY <1>1 DEF RoleChild
<1>3. RunningUp(nm)'
  <2> SUFFICES ASSUME NEW k \in Groups, NameOf[k] = nm, grp'[k].status = "RUNNING",
                      NEW m \in NodeIds, RoleChild(m, k)'
               PROVE  node'[m].status = "RUNNING" /\ SlugOf(node'[m]) \in up'
    BY DEF RunningUp
  <2>1. RoleChild(m, k) /\ k # g
    BY <1>2
  <2>2. node'[m] = node[m]
    <3>1. m # n
      BY <2>1, RoleRow DEF RoleChild
    <3> QED
      BY <1>1, <3>1
  <2> QED
    BY <2>1, <2>2 DEF Reported, RunningUp
<1>4. InOrder(nm)'
  <2> SUFFICES ASSUME NEW k \in Groups, NEW a \in NodeIds, NEW b \in NodeIds,
                      NameOf[k] = nm, RoleChild(a, k)', RoleChild(b, k)',
                      Before(node'[a].role, node'[b].role),
                      node'[b].status = "RUNNING"
               PROVE  node'[a].status \notin {"CREATED", "STOPPED"}
    BY DEF InOrder, Before
  <2>1. RoleChild(a, k) /\ RoleChild(b, k) /\ Before(node[a].role, node[b].role)
    BY <1>1, <1>2
  <2>2. CASE a # n /\ b # n
    BY <1>1, <2>1, <2>2 DEF Reported, InOrder, Before
  <2>3. CASE b = n
    BY <1>1, <2>1, <2>3 DEF RoleChild, Present
  <2>4. CASE a = n /\ b # n
    BY <1>1, <2>1, <2>4 DEF RoleChild, Present
  <2> QED
    BY <2>2, <2>3, <2>4
<1> QED
  BY <1>2, <1>3, <1>4 DEF Reported

LEMMA MarkSerial ==
    ASSUME TypeInv, Working, NEW nm, SerialInv(nm), NEW h \in Requests,
           Serves(h, nm), Turn(h, nm), MarkChild(h)
    PROVE  SerialInv(nm)'
<1> DEFINE n == req[h].kids[RoleNow(h)]
           g == req[h].g
           s == Transient(req[h].verb)
<1>1. /\ req[h].pc = "child" /\ req[h].i <= Len(Roles) /\ n # None /\ Driving(h)
      /\ UNCHANGED <<grp, up>>
  BY DEF MarkChild, Driving
<1>2. /\ n \in NodeIds /\ g \in Groups /\ RoleNow(h) \in RoleSet /\ RoleNow(h) \notin Done(h)
      /\ req[h].op # "Init" /\ AtWork(h) /\ Client(h) /\ grp[g].status # "RUNNING"
      /\ req[h].i \in Nat \ {0}
  BY <1>1, WalkFacts
<1>3. CASE ~Present(n)
  <2>1. /\ req'[h].pc = "child" /\ req'[h].i = req[h].i + 1 /\ req'[h].g = req[h].g
        /\ req'[h].verb = req[h].verb /\ req'[h].op = req[h].op /\ req'[h].kids = req[h].kids
        /\ req'[h].err = TRUE /\ UNCHANGED node
    BY <1>3 DEF MarkChild, TypeInv, ReqOK, Locals
  <2> QED
    BY <1>1, <1>3, <2>1, NoChildSerial
<1>4. CASE Present(n)
  <2>1. /\ WriteNode(n, s) /\ req' = [req EXCEPT ![h].n = n, ![h].row = node[n], ![h].pc = "effect"]
    BY <1>4 DEF MarkChild
  <2>2. /\ req'[h].pc = "effect" /\ req'[h].i = req[h].i /\ req'[h].g = req[h].g
        /\ req'[h].verb = req[h].verb /\ req'[h].op = req[h].op /\ req'[h].kids = req[h].kids
        /\ req'[h].err = req[h].err /\ req'[h].n = n /\ req'[h].row = node[n]
    BY <2>1 DEF TypeInv, ReqOK, Locals
  <2>3. RoleChild(n, g) /\ node[n].role = RoleNow(h)
    BY <1>1, <1>2, <1>4 DEF Client, KnowsKids
  <2>4. s \in NodeStatus /\ s \notin {"RUNNING", "CREATED", "STOPPED"}
    BY DEF Transient, NodeStatus, GroupStatus
  <2> HIDE DEF n, g, s
  <2>5. Reported(nm)' /\ \A m \in NodeIds : \A k : RoleChild(m, k)' <=> RoleChild(m, k)
    BY <1>1, <1>2, <2>1, <2>3, <2>4, ChildWritten DEF SerialInv
  <2>6. /\ \A m \in NodeIds \ {n} : node'[m] = node[m]
        /\ node'[n].role = node[n].role /\ node'[n].status # "absent"
    BY <1>2, <1>4, <2>1, <2>4, StatusWritten DEF Transient, s
  <2>7. \A m \in NodeIds : Present(m)' => Present(m)
    BY <1>4, <2>6 DEF Present
  <2>8. \A m \in NodeIds : node'[m].role = node[m].role
    BY <2>6
  <2>9. KnowsKids(h)'
    BY <1>1, <1>2, <2>2, <2>5, <2>7, <2>8 DEF Client, KnowsKids, Driving
  <2>10. RoleNow(h)' = RoleNow(h) /\ Done(h)' = Done(h)
    BY <2>2 DEF RoleNow, Done
  <2>11. AtChild(h)'
    BY <1>1, <2>2, <2>3, <2>10 DEF AtChild, RoleChild, n, g
  <2>12. DoneInOrder(h)'
    <3>1. \A m \in NodeIds : RoleChild(m, g) /\ node[m].role \in Done(h) => node'[m] = node[m]
      BY <1>2, <2>3, <2>6
    <3>2. \A m \in NodeIds : RoleChild(m, g) /\ node[m].role \in Done(h) =>
              IF req[h].verb = "start"
                THEN /\ node[m].status \notin {"CREATED", "STOPPED"}
                     /\ ~req[h].err => node[m].status = "RUNNING" /\ SlugOf(node[m]) \in up
                ELSE node[m].status # "RUNNING"
      BY <1>1, <1>2 DEF Client, DoneInOrder, g
    <3>3. \A m \in NodeIds : RoleChild(m, req[h].g)' => RoleChild(m, g)
      BY <2>2, <2>5 DEF g
    <3> QED
      BY <1>1, <2>2, <2>8, <2>10, <3>1, <3>2, <3>3 DEF DoneInOrder
  <2>13. HoldsGroup(h)'
    BY <1>1, <1>2, <2>2 DEF Client, HoldsGroup, Exists
  <2>14. SetsUp(h)'
    BY <1>2, <2>2 DEF SetsUp, g
  <2>15. UniqueNames(nm)' /\ RunningConfigured(nm)'
    BY <1>1 DEF SerialInv, UniqueNames, RunningConfigured, Exists
  <2> QED
    BY <2>5, <2>9, <2>11, <2>12, <2>13, <2>14, <2>15, SerialStep DEF Client
<1> QED
  BY <1>3, <1>4

\* What docker does to the container of the child it is at.
LEMMA EffectRunning ==
    ASSUME TypeInv, Working, NEW nm, SerialInv(nm), NEW h \in Requests,
           Serves(h, nm), req[h].pc = "effect", UNCHANGED grp,
           \A x : x # SlugOf(req[h].row) => (x \in up' <=> x \in up)
    PROVE  RunningKept(nm)
<1> SUFFICES ASSUME NEW k \in Groups, NameOf[k] = nm, grp[k].status = "RUNNING",
                    NEW n \in NodeIds, RoleChild(n, k)
             PROVE  SlugOf(node[n]) \in up'
  BY DEF RunningKept
<1>1. SlugOf(node[n]) \in up
  BY DEF SerialInv, Reported, RunningUp
<1>2. /\ AtWork(h) /\ Client(h) /\ req[h].g \in Groups /\ req[h].row.group = req[h].g
      /\ grp[req[h].g].status # "RUNNING"
  <2>1. AtWork(h) /\ Client(h) /\ req[h].g \in Groups
    BY Serving DEF SerialInv, AtWork
  <2> QED
    BY <2>1 DEF Client, HoldsGroup, AtChild, AtWork, Transient
<1>3. NameOf[k] # NameOf[req[h].g]
  BY <1>2 DEF Client, HoldsGroup, Exists, Gone
<1>4. SlugOf(node[n]) # SlugOf(req[h].row)
  BY <1>2, <1>3 DEF SlugOf, Slug, RoleChild
<1> QED
  BY <1>1, <1>4

LEMMA EffectSerial ==
    ASSUME TypeInv, Working, NEW nm, SerialInv(nm), NEW h \in Requests,
           Serves(h, nm), Turn(h, nm), Effect(h)
    PROVE  SerialInv(nm)'
<1> DEFINE g    == req[h].g
           slug == SlugOf(req[h].row)
<1>1. req[h].pc = "effect" /\ UNCHANGED <<grp, node>> /\ Client(h) /\ Driving(h)
  BY DEF Effect, SerialInv, Driving
<1>2. PICK ok \in BOOLEAN :
          /\ req' = [req EXCEPT ![h].ok = ok, ![h].pc = "settle"]
          /\ \A x : x # slug => (x \in up' <=> x \in up)
          /\ ok /\ req[h].verb = "start" => slug \in up'
  <2>1. req[h].verb \in {"start", "stop"}
    BY <1>1 DEF TypeInv, ReqOK, Shape
  <2> DEFINE Good(ok) == /\ req' = [req EXCEPT ![h].ok = ok, ![h].pc = "settle"]
                         /\ \A x : x # slug => (x \in up' <=> x \in up)
                         /\ ok /\ req[h].verb = "start" => slug \in up'
  <2>2. CASE Outcome(h, FALSE, slug \in up)
    <3>1. Good(FALSE)
      BY <2>2 DEF Outcome
    <3> QED BY <3>1
  <2>3. CASE Outcome(h, TRUE, req[h].verb = "start")
    <3>1. Good(TRUE)
      BY <2>3 DEF Outcome
    <3> QED BY <3>1
  <2>4. ASSUME NEW late \in BOOLEAN, Outcome(h, FALSE, late) PROVE \E ok \in BOOLEAN : Good(ok)
    <3>1. Good(FALSE)
      BY <2>4 DEF Outcome
    <3> QED BY <3>1
  <2>5. ASSUME req[h].verb = "stop", NEW ok \in BOOLEAN, Outcome(h, ok, slug \in up)
        PROVE  \E o \in BOOLEAN : Good(o)
    <3>1. Good(ok)
      BY <2>5 DEF Outcome
    <3> QED BY <3>1
  <2> QED
    BY <2>2, <2>3, <2>4, <2>5 DEF Effect
<1>3. /\ req'[h].pc = "settle" /\ req'[h].i = req[h].i /\ req'[h].g = req[h].g
      /\ req'[h].verb = req[h].verb /\ req'[h].op = req[h].op /\ req'[h].kids = req[h].kids
      /\ req'[h].err = req[h].err /\ req'[h].n = req[h].n /\ req'[h].row = req[h].row
      /\ req'[h].ok = ok
  BY <1>2 DEF TypeInv, ReqOK, Locals
<1>4. /\ \A x : x # slug => (x \in up' <=> x \in up)
      /\ ok /\ req[h].verb = "start" => slug \in up'
  BY <1>2
<1>5. Reported(nm)'
  BY <1>1, <1>4, EffectRunning, SameChildren, ReportedKept DEF SerialInv
<1>6. AtChild(h) /\ req[h].i <= Len(Roles)
  BY <1>1 DEF Client, AtChild
<1>7. RoleNow(h)' = RoleNow(h) /\ Done(h)' = Done(h)
  BY <1>3 DEF RoleNow, Done
<1>8. AtChild(h)'
  BY <1>1, <1>2, <1>3, <1>4, <1>6, <1>7 DEF AtChild
<1>9. DoneInOrder(h)'
  <2>1. ASSUME NEW m \in NodeIds, RoleChild(m, g), node[m].role \in Done(h)
        PROVE  SlugOf(node[m]) \in up => SlugOf(node[m]) \in up'
    <3>1. node[m].role # req[h].row.role
      BY <1>1, <1>6, <2>1, WalkFacts DEF AtChild
    <3>2. SlugOf(node[m]) # slug
      BY <3>1 DEF SlugOf, Slug
    <3> QED
      BY <1>4, <3>2
  <2>2. \A m \in NodeIds : RoleChild(m, g) /\ node[m].role \in Done(h) =>
            IF req[h].verb = "start"
              THEN /\ node[m].status \notin {"CREATED", "STOPPED"}
                   /\ ~req[h].err => node[m].status = "RUNNING" /\ SlugOf(node[m]) \in up
              ELSE node[m].status # "RUNNING"
    BY <1>1 DEF Client, DoneInOrder
  <2>3. \A m \in NodeIds : RoleChild(m, req[h].g)' => RoleChild(m, g)
    BY <1>1, <1>3 DEF RoleChild
  <2>4. \A m \in NodeIds : SlugOf(node'[m]) = SlugOf(node[m])
    BY <1>1
  <2> QED
    BY <1>1, <1>3, <1>7, <2>1, <2>2, <2>3, <2>4 DEF DoneInOrder
<1>10. HoldsGroup(h)' /\ KnowsKids(h)'
  BY <1>1, <1>3 DEF Client, HoldsGroup, KnowsKids, Exists, Driving, AtWork, RoleChild, Present
<1>11. SetsUp(h)'
  BY <1>1, <1>3, <1>6, WalkFacts DEF SetsUp
<1>12. UniqueNames(nm)' /\ RunningConfigured(nm)'
  BY <1>1 DEF SerialInv, UniqueNames, RunningConfigured, Exists
<1> QED
  BY <1>5, <1>8, <1>9, <1>10, <1>11, <1>12, SerialStep DEF Client

\* The last status of the child, in the order of the roles.
LEMMA SettleSerial ==
    ASSUME TypeInv, Working, NEW nm, SerialInv(nm), NEW h \in Requests,
           Serves(h, nm), Turn(h, nm), Settle(h)
    PROVE  SerialInv(nm)'
<1> DEFINE n == req[h].n
           g == req[h].g
           s == NodeFinal(h)
<1>1. /\ req[h].pc = "settle" /\ Driving(h) /\ UNCHANGED <<grp, up>> /\ Client(h)
      /\ n \in NodeIds /\ WriteNode(n, s)
  BY DEF Settle, Driving, SerialInv, TypeInv, ReqOK, Shape
<1>2. AtChild(h) /\ req[h].i <= Len(Roles) /\ n = req[h].kids[RoleNow(h)]
  BY <1>1 DEF Client, AtChild
<1>3. /\ g \in Groups /\ RoleNow(h) \in RoleSet /\ RoleNow(h) \notin Done(h)
      /\ req[h].op # "Init" /\ grp[g].status # "RUNNING" /\ req[h].i \in Nat \ {0}
      /\ req[h].verb \in {"start", "stop"} /\ req[h] \in Locals
  BY <1>1, <1>2, WalkFacts DEF TypeInv, ReqOK
<1>4. /\ req'[h].pc = "child" /\ req'[h].i = req[h].i + 1 /\ req'[h].g = req[h].g
      /\ req'[h].verb = req[h].verb /\ req'[h].op = req[h].op /\ req'[h].kids = req[h].kids
      /\ req'[h].err = (req[h].err \/ ~req[h].ok \/ ~Present(n))
  <2>1. req' = [req EXCEPT ![h].pc = "child", ![h].i = @ + 1, ![h].n = None,
                  ![h].row = NoNode, ![h].ok = TRUE,
                  ![h].err = @ \/ ~req[h].ok \/ ~Present(n)]
    BY <1>3, NoneFresh DEF Settle
  <2>2. req'[h] = [req[h] EXCEPT !.pc = "child", !.i = @ + 1, !.n = None, !.row = NoNode,
                      !.ok = TRUE, !.err = @ \/ ~req[h].ok \/ ~Present(n)]
    BY <2>1 DEF TypeInv, ReqOK
  <2> QED
    BY <1>3, <2>2 DEF Locals
<1>5. Present(n) => RoleChild(n, g) /\ node[n].role = RoleNow(h)
  BY <1>1, <1>2, <1>3 DEF Client, KnowsKids
<1>6. /\ s \in NodeStatus
      /\ req[h].verb = "start" => s \in {"RUNNING", "ERROR"} /\ (req[h].ok => s = "RUNNING")
      /\ req[h].verb # "start" => s \in {"STOPPED", "ERROR"}
  BY DEF NodeFinal, Settled, NodeStatus, GroupStatus
<1>7. \A m \in NodeIds : RoleChild(m, g) /\ node[m].role \in Done(h) =>
          IF req[h].verb = "start"
            THEN /\ node[m].status \notin {"CREATED", "STOPPED"}
                 /\ ~req[h].err => node[m].status = "RUNNING" /\ SlugOf(node[m]) \in up
            ELSE node[m].status # "RUNNING"
  BY <1>1 DEF Client, DoneInOrder
<1>8. ASSUME NEW m \in NodeIds, Present(n), RoleChild(m, g)
      PROVE  /\ s = "RUNNING" /\ Before(node[m].role, node[n].role) =>
                    node[m].status \notin {"CREATED", "STOPPED"}
             /\ s \in {"CREATED", "STOPPED"} /\ Before(node[n].role, node[m].role) =>
                    node[m].status # "RUNNING"
  <2>1. \A j, k \in DOMAIN Roles : j < k =>
            /\ req[h].verb = "start" /\ Roles[k] = RoleNow(h) => Roles[j] \in Done(h)
            /\ req[h].verb # "start" /\ Roles[j] = RoleNow(h) => Roles[k] \in Done(h)
    BY <1>2, <1>3, RoleAt
  <2>2. CASE req[h].verb = "start"
    <3>1. Before(node[m].role, node[n].role) => node[m].role \in Done(h)
      BY <1>5, <1>8, <2>1, <2>2 DEF Before
    <3> QED
      BY <1>6, <1>7, <1>8, <2>2, <3>1
  <2>3. CASE req[h].verb # "start"
    <3>1. Before(node[n].role, node[m].role) => node[m].role \in Done(h)
      BY <1>5, <1>8, <2>1, <2>3 DEF Before
    <3> QED
      BY <1>6, <1>7, <1>8, <2>3, <3>1
  <2> QED
    BY <2>2, <2>3
<1> HIDE DEF s
<1>9. Reported(nm)' /\ \A m \in NodeIds : \A k : RoleChild(m, k)' <=> RoleChild(m, k)
  BY <1>1, <1>3, <1>5, <1>6, <1>8, ChildWritten DEF SerialInv
<1>10. /\ \A m \in NodeIds \ {n} : node'[m] = node[m]
       /\ node'[n].role = node[n].role /\ node'[n].group = node[n].group
       /\ node'[n].status = IF Present(n) THEN s ELSE "absent"
  BY <1>1, <1>6, StatusWritten
<1>11. \A m \in NodeIds : (Present(m)' => Present(m)) /\ node'[m].role = node[m].role
  BY <1>10 DEF Present
<1>12. KnowsKids(h)'
  BY <1>1, <1>4, <1>9, <1>11 DEF Client, KnowsKids, Driving
<1>13. Done(h)' = Done(h) \cup {RoleNow(h)}
  BY <1>2, <1>3, <1>4, NextRole
<1>14. DoneInOrder(h)'
  <2>1. ASSUME NEW m \in NodeIds, RoleChild(m, g), node[m].role \in Done(h) \cup {RoleNow(h)}
        PROVE  IF req[h].verb = "start"
                 THEN /\ node'[m].status \notin {"CREATED", "STOPPED"}
                      /\ ~req'[h].err => node'[m].status = "RUNNING" /\ SlugOf(node'[m]) \in up'
                 ELSE node'[m].status # "RUNNING"
    <3>1. CASE m = n
      <4>1. Present(n) /\ node'[n].status = s
        BY <1>1, <1>10, <2>1, <3>1, RoleRow
      <4>2. ~req'[h].err => req[h].ok
        BY <1>4
      <4>3. req[h].ok /\ req[h].verb = "start" => SlugOf(node'[n]) \in up'
        BY <1>1, <1>2, <1>5, <1>10, <4>1 DEF AtChild, SlugOf, RoleChild
      <4> QED
        BY <1>6, <3>1, <4>1, <4>2, <4>3
    <3>2. CASE m # n
      <4>1. node[m].role # RoleNow(h)
        BY <1>1, <1>2, <2>1, <3>2 DEF Client, KnowsKids
      <4>2. node[m].role \in Done(h) /\ node'[m] = node[m]
        BY <1>10, <2>1, <3>2, <4>1
      <4> QED
        BY <1>1, <1>4, <1>7, <2>1, <4>2
    <3> QED
      BY <3>1, <3>2
  <2>2. \A m \in NodeIds : RoleChild(m, req[h].g)' => RoleChild(m, g)
    BY <1>4, <1>9
  <2> QED
    BY <1>4, <1>11, <1>13, <2>1, <2>2 DEF DoneInOrder
<1>15. Client(h)'
  BY <1>1, <1>2, <1>4, <1>12, <1>14, NextChild
<1>16. UniqueNames(nm)' /\ RunningConfigured(nm)'
  BY <1>1 DEF SerialInv, UniqueNames, RunningConfigured, Exists
<1> QED
  BY <1>9, <1>15, <1>16, SerialStep

\* The group is RUNNING only when all its roles are.
LEMMA EndSerial ==
    ASSUME TypeInv, Working, NEW nm, SerialInv(nm), NEW h \in Requests,
           Serves(h, nm), Turn(h, nm), EndGroup(h)
    PROVE  SerialInv(nm)'
<1> DEFINE g == req[h].g
           s == FinalStatus(h)
<1>1. /\ req[h].pc = "child" /\ req[h].i > Len(Roles) /\ UNCHANGED <<node, up>> /\ Client(h)
      /\ WriteGroup(g, s) /\ g \in Groups /\ req[h].i \in Nat \ {0}
      /\ req[h].verb \in {"start", "stop"} /\ AtWork(h) /\ Driving(h)
  BY DEF EndGroup, SerialInv, TypeInv, ReqOK, Shape, Locals, AtWork, Driving
<1>2. Client(h)'
  <2>1. CASE Finish(h)
    BY <2>1, FinishedClient
  <2>2. CASE req' = [req EXCEPT ![h] = [Idle EXCEPT !.op = "Restart", !.g = req[h].g,
                                                    !.pc = "paused"]]
    <3>1. req'[h].pc = "paused" /\ req'[h].op = "Restart"
      BY <2>2 DEF Idle, TypeInv, ReqOK
    <3> QED
      BY <3>1, RestingClient DEF AtWork
  <2> QED
    BY <2>1, <2>2 DEF EndGroup
<1>3. s \in GroupStatus /\ (s = "RUNNING" => req[h].verb = "start" /\ ~req[h].err)
  BY <1>1 DEF FinalStatus, GroupStatus
<1>4. CASE s # "RUNNING"
  <2> HIDE DEF s
  <2> QED
    BY <1>1, <1>2, <1>3, <1>4, GroupStatusStep
<1>5. CASE s = "RUNNING"
  <2>1. /\ \A k \in Groups \ {g} : grp'[k] = grp[k]
        /\ grp'[g].dep = grp[g].dep
        /\ grp'[g].status = IF Exists(g) THEN s ELSE grp[g].status
    <3> HIDE DEF s
    <3> QED
      BY <1>1, <1>3, GroupWritten
  <2>2. UniqueNames(nm)'
    BY <2>1 DEF SerialInv, UniqueNames, Exists
  <2>3. RunningConfigured(nm)'
    BY <1>1, <1>3, <1>5, <2>1 DEF SerialInv, RunningConfigured, Client, HoldsGroup
  <2>4. ASSUME NEW n \in NodeIds, RoleChild(n, g)
        PROVE  node[n].status = "RUNNING" /\ SlugOf(node[n]) \in up
    BY <1>1, <1>3, <1>5, <2>4, AllRoles, RoleRow DEF Client, DoneInOrder
  <2>5. RunningUp(nm)'
    BY <1>1, <2>1, <2>4 DEF SerialInv, Reported, RunningUp, RoleChild, SlugOf
  <2>6. InOrder(nm)'
    BY <1>1 DEF SerialInv, Reported, InOrder, RoleChild
  <2> QED
    BY <1>2, <2>2, <2>3, <2>5, <2>6, SerialStep DEF Reported
<1> QED
  BY <1>4, <1>5

LEMMA AbortSerial ==
    ASSUME TypeInv, Working, NEW nm, SerialInv(nm), NEW h \in Requests,
           Serves(h, nm), Turn(h, nm), Abort(h)
    PROVE  SerialInv(nm)'
<1>1. UNCHANGED <<grp, node>> /\ Client(h)'
  BY FinishedClient DEF Abort
<1>2. UNCHANGED up \/ (/\ req[h].pc = "effect"
                       /\ \A x : x # SlugOf(req[h].row) => (x \in up' <=> x \in up))
  BY DEF Abort
<1>3. RunningKept(nm)
  BY <1>1, <1>2, SameRunning, EffectRunning DEF SerialInv
<1>4. Reported(nm)'
  BY <1>1, <1>3, SameChildren, ReportedKept DEF SerialInv
<1>5. UniqueNames(nm)' /\ RunningConfigured(nm)'
  BY <1>1 DEF SerialInv, UniqueNames, RunningConfigured, Exists
<1> QED
  BY <1>1, <1>4, <1>5, SerialStep

-----------------------------------------------------------------------------
\* A group is created or deleted while the client is at work.

LEMMA CreateGroupSerial ==
    ASSUME TypeInv, Working, NEW nm, SerialInv(nm), NEW g \in Groups, CreateGroup(g)
    PROVE  SerialInv(nm)'
<1>1. /\ UNCHANGED <<node, up, req>> /\ grp[g].status = "unborn"
      /\ \A k \in Groups : Exists(k) => NameOf[k] # NameOf[g]
      /\ \A k \in Groups \ {g} : grp'[k] = grp[k]
      /\ grp'[g].status = "CREATED" /\ grp'[g].dep = grp[g].dep
  BY DEF CreateGroup, TypeInv, GrpOK
<1>2. \A k \in Groups : Exists(k)' => k = g \/ Exists(k)
  BY <1>1 DEF Exists
<1>3. UniqueNames(nm)'
  BY <1>1, <1>2 DEF SerialInv, UniqueNames
<1>4. RunningConfigured(nm)'
  BY <1>1 DEF SerialInv, RunningConfigured
<1>5. Reported(nm)'
  BY <1>1, SameChildren, SameRunning, ReportedKept DEF SerialInv
<1>6. ASSUME NEW h \in Requests, Serves(h, nm)' PROVE Client(h)'
  <2>0. req'[h] = req[h] /\ Serves(h, nm)
    BY <1>6 DEF Serves, CreateGroup
  <2>1. Client(h) /\ req'[h] = req[h]
    BY <2>0 DEF SerialInv
  <2>9. req[h].g \in Groups
    BY <2>0, Serving
  <2>2. HoldsGroup(h)'
    <3>1. CASE AtWork(h)
      <4>1. req[h].g \in Groups \ {g}
        BY <1>1, <2>9, <2>1, <3>1 DEF Client, HoldsGroup, Transient
      <4>2. grp'[req[h].g] = grp[req[h].g]
        BY <1>1, <4>1
      <4>3. \A k \in Groups \ {req[h].g} :
                Exists(k)' /\ NameOf[k] = NameOf[req[h].g] => grp'[k].status = "CREATED"
        BY <1>1, <1>2, <2>1, <3>1 DEF Client, HoldsGroup
      <4> QED
        BY <2>1, <3>1, <4>2, <4>3 DEF Client, HoldsGroup, Exists
    <3>2. CASE ~AtWork(h)
      BY <2>1, <3>2 DEF HoldsGroup, AtWork
    <3> QED
      BY <3>1, <3>2
  <2>3. SetsUp(h)'
    <3>1. CASE req[h].op = "Init"
      <4>1. grp'[req[h].g].status \in {grp[req[h].g].status, "CREATED"}
        BY <1>1, <2>9
      <4> QED
        BY <1>1, <2>1, <3>1, <4>1 DEF Client, SetsUp, RoleChild, Present
    <3>2. CASE req[h].op # "Init"
      BY <1>1, <2>1, <3>2 DEF Client, SetsUp
    <3> QED
      BY <3>1, <3>2
  <2> QED
    BY <1>1, <2>1, <2>2, <2>3 DEF Client, KnowsKids, AtChild, DoneInOrder,
       Driving, AtWork, RoleChild, Present, Done, RoleNow
<1> QED
  BY <1>3, <1>4, <1>5, <1>6 DEF SerialInv

LEMMA DeleteGroupSerial ==
    ASSUME TypeInv, Working, NEW nm, SerialInv(nm), NEW g \in Groups, DeleteGroup(g)
    PROVE  SerialInv(nm)'
<1>1. /\ UNCHANGED <<up, req>>
      /\ \A k \in Groups \ {g} : grp'[k] = grp[k]
      /\ grp'[g].status = "deleted"
      /\ \A n \in NodeIds : node'[n] \in {NoNode, node[n]}
  BY DEF DeleteGroup, TypeInv, GrpOK
<1>2. \A k \in Groups : Exists(k)' => k # g /\ Exists(k)
  BY <1>1 DEF Exists, Gone
<1>3. \A n \in NodeIds : /\ Present(n)' => Present(n) /\ node'[n] = node[n]
                         /\ node'[n].linked => node'[n] = node[n]
  BY <1>1 DEF Present, NoNode
<1>4. \A n \in NodeIds : \A k : RoleChild(n, k)' => RoleChild(n, k) /\ node'[n] = node[n]
  BY <1>3 DEF RoleChild
<1>5. UniqueNames(nm)' /\ RunningConfigured(nm)'
  BY <1>1, <1>2 DEF SerialInv, UniqueNames, RunningConfigured
<1>6. Reported(nm)'
  <2>1. ChildKept
    BY <1>3 DEF ChildKept
  <2>2. \A k \in Groups : grp'[k].status = "RUNNING" => grp[k].status = "RUNNING"
    BY <1>1
  <2> QED
    BY <1>1, <2>1, <2>2, SameRunning, ReportedKept DEF SerialInv
<1>7. ASSUME NEW h \in Requests, Serves(h, nm)' PROVE Client(h)'
  <2>0. req'[h] = req[h] /\ Serves(h, nm)
    BY <1>7 DEF Serves, DeleteGroup
  <2>1. Client(h) /\ req'[h] = req[h]
    BY <2>0 DEF SerialInv
  <2>9. req[h].g \in Groups
    BY <2>0, Serving
  <2>2. HoldsGroup(h)'
    <3>1. CASE AtWork(h)
      <4>2. grp'[req[h].g] = grp[req[h].g] \/ grp'[req[h].g].status = "deleted"
        BY <1>1, <2>9
      <4>3. \A k \in Groups \ {req[h].g} :
                Exists(k)' /\ NameOf[k] = NameOf[req[h].g] => grp'[k].status = "CREATED"
        BY <1>1, <1>2, <2>1, <3>1 DEF Client, HoldsGroup
      <4> QED
        BY <2>1, <3>1, <4>2, <4>3 DEF Client, HoldsGroup, Exists, Gone
    <3>2. CASE ~AtWork(h)
      BY <2>1, <3>2 DEF HoldsGroup, AtWork
    <3> QED
      BY <3>1, <3>2
  <2>3. KnowsKids(h)' /\ DoneInOrder(h)'
    <3>1. Driving(h)' = Driving(h) /\ Done(h)' = Done(h)
      BY <2>1 DEF Driving, Done
    <3>2. KnowsKids(h)'
      BY <1>3, <1>4, <2>1, <3>1 DEF Client, KnowsKids, RoleChild
    <3>3. \A n \in NodeIds : RoleChild(n, req[h].g)' => RoleChild(n, req[h].g) /\ node'[n] = node[n]
      BY <1>4, <2>1
    <3>4. DoneInOrder(h)'
      BY <1>1, <2>1, <3>1, <3>3 DEF Client, DoneInOrder
    <3> QED
      BY <3>2, <3>4
  <2>4. SetsUp(h)'
    <3>2. req[h].op = "Init" => grp'[req[h].g].status # "RUNNING"
      BY <1>1, <2>9, <2>1 DEF Client, SetsUp
    <3>3. req[h].pc \in {"config", "link", "created"} => req[h].n \in NodeIds
      BY DEF TypeInv, ReqOK, Shape
    <3>4. \A n \in NodeIds : RoleChild(n, req[h].g)' => RoleChild(n, req[h].g) /\ node'[n] = node[n]
      BY <1>4, <2>1
    <3> QED
      BY <1>3, <2>1, <3>2, <3>3, <3>4 DEF Client, SetsUp
  <2>5. AtChild(h)'
    BY <1>1, <2>1 DEF Client, AtChild, AtWork, RoleNow
  <2> QED
    BY <2>2, <2>3, <2>4, <2>5 DEF Client
<1> QED
  BY <1>5, <1>6, <1>7 DEF SerialInv


-----------------------------------------------------------------------------
\* A step beside the name.

LEMMA BesideChild ==
    ASSUME TypeInv, TypeInv', NEW nm, Beside(nm), NEW g \in Groups, NameOf[g] = nm,
           NEW n \in NodeIds, RoleChild(n, g)'
    PROVE  /\ RoleChild(n, g) /\ node'[n] = node[n] /\ node[n].role \in RoleSet
           /\ SlugOf(node[n]) = <<nm, node[n].role>>
<1>1. node'[n] \in Rows /\ node'[n].linked /\ node'[n].group = g /\ node'[n].role # Committer
  BY DEF RoleChild, TypeInv, NodeOK
<1>2. node'[n].status \in NodeStatus
  BY <1>1 DEF Rows, NoNode
<1>3. Present(n)'
  BY <1>2 DEF Present, NodeStatus, GroupStatus
<1>4. node'[n] = node[n]
  BY <1>1, <1>3 DEF IsRole, Beside, RowsBeside
<1>5. RoleChild(n, g)
  BY <1>1, <1>4 DEF RoleChild
<1> QED
  BY <1>4, <1>5, RoleRow DEF RoleChild, SlugOf, Slug

LEMMA BesideClient ==
    ASSUME TypeInv, TypeInv', Working, Working', NEW nm, Beside(nm), NEW h \in Requests,
           Serves(h, nm), req'[h] = req[h], Client(h)
    PROVE  Client(h)'
<1> DEFINE g == req[h].g
<1>1. g \in Groups /\ NameOf[g] = nm /\ req[h].op \in GroupOps /\ req[h] \in Locals /\ Shape(req[h])
  BY Serving DEF TypeInv, ReqOK
<1>2. /\ \A k \in Groups : NameOf[k] = nm => grp'[k] = grp[k]
      /\ \A n \in NodeIds : IsRole(n, nm) \/ IsRole(n, nm)' => node'[n] = node[n]
      /\ \A role \in RoleSet : <<nm, role>> \in up' <=> <<nm, role>> \in up
  BY DEF Beside, GroupsBeside, RowsBeside, UpBeside
<1>3. ASSUME NEW n \in NodeIds, RoleChild(n, g)'
      PROVE  /\ RoleChild(n, g) /\ node'[n] = node[n] /\ node[n].role \in RoleSet
             /\ SlugOf(node[n]) = <<nm, node[n].role>>
  BY <1>1, <1>3, BesideChild
<1>4. HoldsGroup(h)'
  BY <1>1, <1>2 DEF Client, HoldsGroup, AtWork, Exists
<1>5. ASSUME NEW n \in NodeIds, NEW role \in RoleSet, Driving(h), req[h].kids[role] = n,
             Present(n)'
      PROVE  RoleChild(n, g)' /\ node'[n].role = role
  <2>1. node'[n].group = g /\ node'[n].role = role
    <3>1. Driving(h)' /\ req'[h].op \in GroupOps /\ req'[h].kids[role] # None
      BY <1>1, <1>5, NoneFresh DEF Driving
    <3>2. RowIs(req[h].kids[role], req[h].g, {role})'
      BY <3>1 DEF Working, WorksOn, OwnRows
    <3> QED
      BY <1>5, <3>2 DEF RowIs, Present
  <2>2. node'[n] = node[n]
    BY <1>1, <1>2, <1>5, <2>1, RoleFacts DEF IsRole
  <2>3. RoleChild(n, g) /\ node[n].role = role
    BY <1>5, <2>2 DEF Client, KnowsKids, Present
  <2> QED
    BY <2>2, <2>3 DEF RoleChild
<1>6. KnowsKids(h)'
  BY <1>3, <1>5 DEF Client, KnowsKids, Driving
<1>7. AtChild(h)'
  <2>1. CASE req[h].pc \in {"effect", "settle"}
    <3>1. req[h].row.role \in RoleSet /\ req[h].row.group = g
      BY <1>1, <2>1 DEF Working, WorksOn, OwnRows
    <3>2. SlugOf(req[h].row) \in up' <=> SlugOf(req[h].row) \in up
      BY <1>1, <1>2, <3>1 DEF SlugOf, Slug
    <3> QED
      BY <2>1, <3>2 DEF Client, AtChild, RoleNow
  <2> QED
    BY <2>1 DEF AtChild
<1>8. DoneInOrder(h)'
  <2>1. Driving(h)' = Driving(h) /\ Done(h)' = Done(h)
    BY DEF Driving, Done
  <2> QED
    BY <1>2, <1>3, <2>1 DEF Client, DoneInOrder
<1>9. SetsUp(h)'
  <2>1. CASE req[h].op = "Init"
    <3>1. \A n \in NodeIds : RoleChild(n, g)' => node'[n].status = "CREATED"
      BY <1>3, <2>1 DEF Client, SetsUp
    <3>2. CASE req[h].pc \in {"config", "link"} /\ Present(req[h].n)'
      <4>1. req[h].n \in NodeIds
        BY <1>1, <3>2 DEF Shape
      <4>2. RowIs(req[h].n, req[h].g, RoleSet)'
        <5>1. req'[h].op = "Init" /\ req'[h].pc \in {"config", "link"}
          BY <2>1, <3>2
        <5> QED
          BY <5>1 DEF Working, WorksOn, OwnRows
      <4>3. PICK n \in NodeIds : n = req[h].n
        BY <4>1
      <4>4. Present(n)' /\ node'[n].group = g /\ node'[n].role \in RoleSet
        BY <3>2, <4>2, <4>3 DEF RowIs, Present
      <4>5. node'[n] = node[n]
        BY <1>1, <1>2, <4>4, RoleFacts DEF IsRole
      <4>6. node'[n].status = "CREATED"
        BY <2>1, <3>2, <4>3, <4>4, <4>5 DEF Client, SetsUp, Present
      <4> QED
        BY <1>1, <1>2, <2>1, <3>1, <4>3, <4>6 DEF Client, SetsUp
    <3>3. CASE ~(req[h].pc \in {"config", "link"} /\ Present(req[h].n)')
      BY <1>1, <1>2, <2>1, <3>1, <3>3 DEF Client, SetsUp, Present
    <3> QED
      BY <3>2, <3>3
  <2> QED
    BY <2>1 DEF SetsUp
<1> QED
  BY <1>4, <1>6, <1>7, <1>8, <1>9 DEF Client

LEMMA BesideSerial ==
    ASSUME TypeInv, TypeInv', Working, Working', NEW nm, SerialInv(nm), Beside(nm),
           \A h \in Requests : Serves(h, nm)' => Serves(h, nm) /\ req'[h] = req[h]
    PROVE  SerialInv(nm)'
<1>1. /\ \A k \in Groups : NameOf[k] = nm => grp'[k] = grp[k]
      /\ \A n \in NodeIds : IsRole(n, nm) \/ IsRole(n, nm)' => node'[n] = node[n]
      /\ \A role \in RoleSet : <<nm, role>> \in up' <=> <<nm, role>> \in up
  BY DEF Beside, GroupsBeside, RowsBeside, UpBeside
<1>2. ASSUME NEW n \in NodeIds, NEW g \in Groups, NameOf[g] = nm, RoleChild(n, g)'
      PROVE  /\ RoleChild(n, g) /\ node'[n] = node[n] /\ node[n].role \in RoleSet
             /\ SlugOf(node[n]) = <<nm, node[n].role>>
  BY <1>2, BesideChild
<1>3. UniqueNames(nm)' /\ RunningConfigured(nm)'
  BY <1>1 DEF SerialInv, UniqueNames, RunningConfigured, Exists
<1>4. RunningUp(nm)'
  BY <1>1, <1>2 DEF SerialInv, Reported, RunningUp
<1>5. InOrder(nm)'
  BY <1>2 DEF SerialInv, Reported, InOrder
<1>6. ASSUME NEW h \in Requests, Serves(h, nm)' PROVE Client(h)'
  BY <1>6, BesideClient DEF SerialInv
<1> QED
  BY <1>3, <1>4, <1>5, <1>6 DEF SerialInv, Reported

\* A request keeps its operation and its group until it ends.
LEMMA WorkKeeps ==
    ASSUME TypeInv, NEW h \in Requests, WorksOn(h), Work(h) \/ Abort(h)
    PROVE  \/ req'[h].op = "none"
           \/ req'[h].op = req[h].op /\ req'[h].g = req[h].g
           \/ req[h].op \in NodeOps /\ req'[h].op \in NodeOps
<1> DEFINE Kept == req'[h].op = req[h].op /\ req'[h].g = req[h].g
<1>1. CASE Finish(h)
  BY <1>1 DEF Finish, Idle, TypeInv, ReqOK
<1>2. CASE Generate(h) \/ Persist(h) \/ InsertRow(h) \/ ConfigRow(h) \/ LinkRow(h)
           \/ InitNode(h) \/ CommitterCreated(h)
  <2>1. Finish(h) \/ Kept
    BY <1>2 DEF Generate, Persist, InsertRow, ConfigRow, LinkRow, InitNode, CommitterCreated,
       TypeInv, ReqOK, Locals
  <2> QED
    BY <1>1, <2>1
<1>3. CASE Prepare(h) \/ List(h) \/ SkipChild(h) \/ MarkChild(h)
  <2>1. Finish(h) \/ Kept
    BY <1>3 DEF Prepare, List, SkipChild, MarkChild, TypeInv, ReqOK, Locals
  <2> QED
    BY <1>1, <2>1
<1>4. CASE RestartStart(h) /\ ~Finish(h)
  <2>1. BeginStart(h, req[h].g, "Restart") /\ req[h].pc = "paused"
    BY <1>4 DEF RestartStart
  <2>2. req[h].op = "Restart"
    BY <2>1 DEF WorksOn, Script, NodeOps, TypeInv, ReqOK, Locals, AllOps
  <2>3. Kept
    BY <2>1, <2>2 DEF BeginStart, Idle, TypeInv, ReqOK
  <2> QED
    BY <2>3
<1>5. CASE EndGroup(h) /\ ~Finish(h)
  <2>1. Kept
    BY <1>5 DEF EndGroup, Idle, TypeInv, ReqOK
  <2> QED
    BY <2>1
<1>6. CASE StopFirst(h)
  <2>1. CASE Present(req[h].n)
    <3>1. req[h].op \in NodeOps
      BY <1>6, Statements DEF StopFirst
    <3>2. req'[h].op = "NodeDelete"
      BY <1>6, <2>1 DEF StopFirst, MarkNode, Idle, TypeInv, ReqOK
    <3> QED BY <3>1, <3>2 DEF NodeOps
  <2>2. CASE ~Present(req[h].n)
    <3>1. Kept
      BY <1>6, <2>2 DEF StopFirst, TypeInv, ReqOK, Locals
    <3> QED BY <3>1
  <2> QED BY <2>1, <2>2
<1>7. CASE Effect(h)
  <2>1. PICK ok : req' = [req EXCEPT ![h].ok = ok, ![h].pc = "settle"]
    BY <1>7 DEF Effect, Outcome
  <2>2. Kept
    BY <2>1 DEF TypeInv, ReqOK, Locals
  <2> QED BY <2>2
<1>8. CASE Settle(h)
  <2>1. Finish(h) \/ Kept
    BY <1>8 DEF Settle, TypeInv, ReqOK, Locals
  <2> QED BY <1>1, <2>1
<1>9. CASE RemoveNode(h) \/ Abort(h)
  BY <1>1, <1>9 DEF RemoveNode, Abort
<1> QED
  BY <1>1, <1>2, <1>3, <1>4, <1>5, <1>6, <1>7, <1>8, <1>9 DEF Work

LEMMA WorkServes ==
    ASSUME TypeInv, NEW nm, NEW h \in Requests, WorksOn(h), Work(h) \/ Abort(h),
           Serves(h, nm)'
    PROVE  Serves(h, nm)
BY WorkKeeps DEF Serves, GroupOps, NodeOps

-----------------------------------------------------------------------------
\* What a step promises to a name with one client before and after it.
LEMMA NextSerial ==
    ASSUME TypeInv, TypeInv', UniqueSlugs, ChildInv, Working, Working', [Next]_vars,
           NEW nm, Alone(nm), Alone(nm)', SerialInv(nm)
    PROVE  SerialInv(nm)'
<1>1. CASE UNCHANGED vars
  <2>1. Beside(nm)
    BY <1>1, SameBeside DEF vars, Beside
  <2>2. \A h \in Requests : Serves(h, nm)' => Serves(h, nm) /\ req'[h] = req[h]
    BY <1>1 DEF vars, Serves
  <2> QED
    BY <2>1, <2>2, BesideSerial
<1>2. ASSUME NEW h \in Requests, Begin(h) PROVE SerialInv(nm)'
  <2>1. \A k \in Requests : k # h => req'[k] = req[k]
    BY <1>2, OneRequest
  <2>2. CASE Serves(h, nm)'
    <3>1. Turn(h, nm)
      BY <2>2 DEF Alone, Turn
    <3> QED
      BY <1>2, <2>2, <3>1, BeginSerial
  <2>3. CASE ~Serves(h, nm)'
    <3>1. Beside(nm)
      BY <1>2, <2>3, BeginBeside DEF Alone
    <3>2. \A k \in Requests : Serves(k, nm)' => Serves(k, nm) /\ req'[k] = req[k]
      BY <2>1, <2>3 DEF Serves
    <3> QED
      BY <3>1, <3>2, BesideSerial
  <2> QED
    BY <2>2, <2>3
<1>3. ASSUME NEW h \in Requests, Work(h) \/ Abort(h) PROVE SerialInv(nm)'
  <2>1. \A k \in Requests : k # h => req'[k] = req[k]
    BY <1>3, OneRequest
  <2>2. WorksOn(h) /\ ~Touches(h, nm)
    BY DEF Working, Alone
  <2>3. CASE Serves(h, nm)
    <3>1. Turn(h, nm)
      BY <2>1, <2>3 DEF Alone, Turn, Serves
    <3>2. ~InitNode(h) /\ ~CommitterCreated(h) /\ ~StopFirst(h) /\ ~RemoveNode(h)
      BY <2>3, Serving DEF InitNode, CommitterCreated, StopFirst, RemoveNode
    <3>3. CASE Generate(h) \/ Persist(h) \/ InsertRow(h) \/ ConfigRow(h) \/ LinkRow(h)
      BY <2>3, <3>1, <3>3, GenerateSerial, PersistSerial, InsertSerial, ConfigSerial, LinkSerial
    <3>4. CASE Prepare(h) \/ RestartStart(h) \/ List(h) \/ SkipChild(h) \/ MarkChild(h)
               \/ EndGroup(h) \/ Effect(h) \/ Settle(h)
      BY <2>3, <3>1, <3>4, PrepareSerial, RestartSerial, ListSerial, SkipSerial, MarkSerial,
         EndSerial, EffectSerial, SettleSerial
    <3>5. CASE Abort(h)
      BY <2>3, <3>1, <3>5, AbortSerial
    <3> QED
      BY <1>3, <3>2, <3>3, <3>4, <3>5 DEF Work
  <2>4. CASE ~Serves(h, nm)
    <3>1. Beside(nm)
      BY <1>3, <2>2, <2>4, WorkBeside
    <3>2. \A k \in Requests : Serves(k, nm)' => Serves(k, nm) /\ req'[k] = req[k]
      <4>1. ~Serves(h, nm)'
        BY <1>3, <2>2, <2>4, WorkServes
      <4> QED
        BY <2>1, <4>1 DEF Serves
    <3> QED
      BY <3>1, <3>2, BesideSerial
  <2> QED
    BY <2>3, <2>4
<1> QED
  BY <1>1, <1>2, <1>3, CreateGroupSerial, DeleteGroupSerial DEF Next

LEMMA InitSerial == ASSUME NEW nm, Init PROVE SerialInv(nm)
BY DEF Init, SerialInv, UniqueNames, RunningConfigured, Reported, RunningUp, InOrder,
   RoleChild, NoNode, Exists, Gone, Serves, GroupOps, Idle

(* While the groups of one name have one client at a time, whatever docker   *)
(* fails at, whatever is cut off, whichever of them is deleted and whatever  *)
(* other requests do to other groups and to committers: a group of that name *)
(* reported RUNNING has every role RUNNING with its container up, and no     *)
(* role is reported RUNNING above one that is stopped or was never started.  *)
THEOREM NameAlwaysServed ==
    ASSUME NEW nm
    PROVE  Spec /\ []Alone(nm) => []Reported(nm)
<1>1. Init => SerialInv(nm)
  BY InitSerial
<1>2. /\ TypeInv /\ TypeInv' /\ UniqueSlugs /\ ChildInv /\ Working /\ Working'
      /\ Alone(nm) /\ Alone(nm)' /\ SerialInv(nm) /\ [Next]_vars
      => SerialInv(nm)'
  BY NextSerial
<1>3. SerialInv(nm) => Reported(nm)
  BY DEF SerialInv
<1> QED
  BY <1>1, <1>2, <1>3, WorkingInvariant, PTL DEF Spec

Names     == {NameOf[g] : g \in Groups}
Apart     == \A nm \in Names : Alone(nm)
AllSerial == \A nm \in Names : SerialInv(nm)

LEMMA ApartReported == Spec /\ []Apart => [](RunningMeansUp /\ DependencyOrder)
<1>1. Init => AllSerial
  BY InitSerial DEF AllSerial
<1>2. /\ TypeInv /\ TypeInv' /\ UniqueSlugs /\ ChildInv /\ Working /\ Working'
      /\ Apart /\ Apart' /\ AllSerial /\ [Next]_vars
      => AllSerial'
  BY NextSerial DEF Apart, AllSerial
<1>3. AllSerial => RunningMeansUp /\ DependencyOrder
  <2> SUFFICES ASSUME AllSerial PROVE RunningMeansUp /\ DependencyOrder
    OBVIOUS
  <2>1. \A g \in Groups : RunningUp(NameOf[g]) /\ InOrder(NameOf[g])
    BY DEF AllSerial, Names, SerialInv, Reported
  <2>2. RunningMeansUp
    BY <2>1 DEF RunningUp, RunningMeansUp
  <2>3. DependencyOrder
    <3> SUFFICES ASSUME NEW g \in Groups, NEW m \in NodeIds, NEW n \in NodeIds,
                        RoleChild(m, g), RoleChild(n, g),
                        Before(node[m].role, node[n].role), node[n].status = "RUNNING"
                 PROVE  node[m].status \notin {"CREATED", "STOPPED"}
      BY DEF DependencyOrder, Before
    <3> QED
      BY <2>1 DEF InOrder
  <2> QED
    BY <2>2, <2>3
<1> QED
  BY <1>1, <1>2, <1>3, WorkingInvariant, PTL DEF Spec

(* When no two requests overlap on the orderers of one name and none acts on *)
(* an orderer without its group: a group reported RUNNING has every role     *)
(* RUNNING with its container up, in every behaviour.                        *)
THEOREM RunningAlwaysUp == Spec /\ []Apart => []RunningMeansUp
BY ApartReported, PTL

(* Under the same condition no role is reported RUNNING above one that was  *)
(* never started or is stopped: the canonical order is kept by every start, *)
(* every stop, and every one of them broken off half way.                   *)
THEOREM OrderAlwaysKept == Spec /\ []Apart => []DependencyOrder
BY ApartReported, PTL

\* The server that handles one request at a time and none on the nodes API.
OneClientAtATime ==
    /\ \A h, k \in Requests : h = k
    /\ \A h \in Requests : Ops[h] \cap NodeOps = {}

LEMMA OneClientIsApart ==
    ASSUME OneClientAtATime
    PROVE  Spec => []Apart
<1> DEFINE NoNodeOp == \A h \in Requests : req[h].op \notin NodeOps
<1>1. Init => NoNodeOp
  BY DEF Init, Idle, NodeOps
<1>2. TypeInv /\ Working /\ NoNodeOp /\ [Next]_vars => NoNodeOp'
  <2> SUFFICES ASSUME TypeInv, Working, NoNodeOp, [Next]_vars, NEW h \in Requests,
                      req'[h].op \in NodeOps
               PROVE  FALSE
    OBVIOUS
  <2>1. req[h].op \notin NodeOps /\ WorksOn(h)
    BY DEF Working
  <2>2. Begin(h) \/ Work(h) \/ Abort(h)
    BY <2>1, OtherRequests
  <2>3. CASE Begin(h)
    <3>1. ASSUME NEW g \in Groups, BeginInit(h, g) \/ BeginAddCommitter(h, g) PROVE FALSE
      BY <3>1, BegunInit, BegunCommitter DEF NodeOps
    <3>2. ASSUME NEW g \in Groups, StartGroup(h, g) \/ StopGroup(h, g) \/ RestartGroup(h, g)
          PROVE  FALSE
      <4>1. PICK op \in GroupOps : BeginStart(h, g, op) \/ BeginStop(h, g, op)
        BY <3>2 DEF StartGroup, StopGroup, RestartGroup, GroupOps
      <4>2. req'[h].op = op
        BY <4>1, BegunMove
      <4> QED
        BY <4>2 DEF GroupOps, NodeOps
    <3>3. ASSUME NEW n \in NodeIds, StartNode(h, n) \/ StopNode(h, n) \/ DeleteNode(h, n)
          PROVE  FALSE
      BY <3>3 DEF StartNode, StopNode, BeginNodeOp, DeleteNode, OneClientAtATime, NodeOps
    <3> QED
      BY <2>3, <3>1, <3>2, <3>3 DEF Begin
  <2>4. CASE Work(h) \/ Abort(h)
    BY <2>1, <2>4, WorkKeeps DEF NodeOps
  <2> QED
    BY <2>2, <2>3, <2>4
<1>3. NoNodeOp => Apart
  BY DEF OneClientAtATime, Apart, Alone, Touches
<1> QED
  BY <1>1, <1>2, <1>3, WorkingInvariant, PTL DEF Spec
-----------------------------------------------------------------------------
(* InitOnce is false because InitOrdererGroup checks the configuration at   *)
(* its beginning and writes it after the keys were generated.  It is true   *)
(* when no two Inits of a group are between these two statements at once:   *)
(* the group of an Init that has yet to write has no configuration then.    *)

\* A request that found the group without a configuration and has not written it.
Configuring(h, g) == req[h].op = "Init" /\ req[h].g = g /\ req[h].pc \in {"generate", "persist"}

OneInit == \A g \in Groups : \A h, k \in Requests : Configuring(h, g) /\ Configuring(k, g) => h = k
Fresh   == \A g \in Groups, h \in Requests : Configuring(h, g) => grp[g].dep = None

\* The two statements that change a configuration.
LEMMA ConfigurationStep ==
    ASSUME TypeInv, [Next]_vars, NEW g \in Groups
    PROVE  \/ grp'[g].dep = grp[g].dep
           \/ grp'[g].dep = None /\ grp'[g].status = "deleted"
           \/ \E h \in Requests : Persist(h) /\ req[h].g = g
<1> DEFINE Same == grp'[g].dep = grp[g].dep
<1>1. CASE UNCHANGED grp
  BY <1>1
<1>2. ASSUME NEW k \in Groups, CreateGroup(k) PROVE Same
  BY <1>2 DEF CreateGroup, TypeInv, GrpOK
<1>3. ASSUME NEW k \in Groups, DeleteGroup(k)
      PROVE  Same \/ (grp'[g].dep = None /\ grp'[g].status = "deleted")
  BY <1>3 DEF DeleteGroup, TypeInv, GrpOK
<1>4. ASSUME NEW k \in Groups, NEW s, WriteGroup(k, s) PROVE Same
  BY <1>4 DEF WriteGroup, TypeInv, GrpOK
<1>5. ASSUME NEW h \in Requests, NEW k \in Groups, NEW op, BeginStart(h, k, op) \/ BeginStop(h, k, op)
      PROVE  Same
  BY <1>5 DEF BeginStart, BeginStop, TypeInv, GrpOK
<1>6. ASSUME NEW h \in Requests, Begin(h) PROVE Same
  <2>1. ASSUME NEW k \in Groups, StartGroup(h, k) \/ StopGroup(h, k) \/ RestartGroup(h, k)
        PROVE  Same
    BY <1>5, <2>1 DEF StartGroup, StopGroup, RestartGroup
  <2>2. ASSUME NEW k \in Groups, BeginInit(h, k) \/ BeginAddCommitter(h, k)
        PROVE  UNCHANGED grp
    BY <2>2 DEF BeginInit, BeginAddCommitter
  <2>3. ASSUME NEW n \in NodeIds, StartNode(h, n) \/ StopNode(h, n) \/ DeleteNode(h, n)
        PROVE  UNCHANGED grp
    BY <2>3 DEF StartNode, StopNode, BeginNodeOp, DeleteNode
  <2> QED BY <1>1, <1>6, <2>1, <2>2, <2>3 DEF Begin
<1>7. ASSUME NEW h \in Requests, Work(h) PROVE Same \/ (Persist(h) /\ req[h].g = g)
  <2>1. CASE Persist(h)
    BY <1>1, <2>1 DEF Persist, TypeInv, GrpOK
  <2>2. CASE RestartStart(h)
    BY <1>1, <1>5, <2>2 DEF RestartStart, TypeInv, ReqOK, Shape
  <2>3. CASE Generate(h) \/ Prepare(h) \/ EndGroup(h)
    <3>1. req[h].g \in Groups
      BY <2>3 DEF Generate, Prepare, EndGroup, TypeInv, ReqOK, Shape
    <3>2. UNCHANGED grp \/ \E s \in GroupStatus : WriteGroup(req[h].g, s)
      BY <2>3 DEF Generate, Prepare, EndGroup, FinalStatus, GroupStatus
    <3> QED BY <1>1, <1>4, <3>1, <3>2
  <2>4. CASE InsertRow(h) \/ ConfigRow(h) \/ LinkRow(h) \/ InitNode(h) \/ CommitterCreated(h)
             \/ List(h) \/ SkipChild(h) \/ MarkChild(h) \/ StopFirst(h) \/ Effect(h)
             \/ Settle(h) \/ RemoveNode(h)
    BY <1>1, <2>4 DEF InsertRow, ConfigRow, LinkRow, InitNode, CommitterCreated, List,
                      SkipChild, MarkChild, StopFirst, Effect, Settle, RemoveNode
  <2> QED BY <1>7, <2>1, <2>2, <2>3, <2>4 DEF Work
<1>8. ASSUME NEW h \in Requests, Abort(h) PROVE UNCHANGED grp
  BY <1>8 DEF Abort
<1> QED
  BY <1>1, <1>2, <1>3, <1>6, <1>7, <1>8 DEF Next, vars

LEMMA Leaves ==
    ASSUME TypeInv, NEW h \in Requests, Abort(h) \/ (Work(h) /\ ~Generate(h))
    PROVE  req'[h].pc \notin {"generate", "persist"}
<1>1. req \in [Requests -> Locals]
  BY DEF TypeInv, ReqOK
<1>2. Finish(h) => req'[h].pc = "idle"
  BY <1>1 DEF Finish, Idle
<1>3. CASE Abort(h) \/ CommitterCreated(h) \/ RemoveNode(h)
  BY <1>2, <1>3 DEF Abort, CommitterCreated, RemoveNode
<1>4. CASE Persist(h)
  BY <1>1, <1>2, <1>4 DEF Persist, Locals
<1>5. CASE InsertRow(h)
  BY <1>1, <1>2, <1>5 DEF InsertRow, Locals
<1>6. CASE ConfigRow(h)
  BY <1>1, <1>2, <1>6 DEF ConfigRow, Locals
<1>7. CASE LinkRow(h)
  BY <1>1, <1>2, <1>7 DEF LinkRow, Locals
<1>8. CASE InitNode(h)
  BY <1>1, <1>2, <1>8 DEF InitNode, Locals
<1>9. CASE Prepare(h)
  BY <1>1, <1>2, <1>9 DEF Prepare, Locals
<1>10. CASE List(h)
  BY <1>1, <1>2, <1>10 DEF List, Locals
<1>11. CASE SkipChild(h)
  BY <1>1, <1>2, <1>11 DEF SkipChild, Locals
<1>12. CASE MarkChild(h)
  BY <1>1, <1>2, <1>12 DEF MarkChild, Locals
<1>13. CASE RestartStart(h)
  <2>1. Finish(h) \/ BeginStart(h, req[h].g, "Restart")
    BY <1>13 DEF RestartStart
  <2>2. CASE BeginStart(h, req[h].g, "Restart")
    BY <2>2, BegunMove
  <2> QED BY <1>2, <2>1, <2>2
<1>14. CASE EndGroup(h)
  <2>1. Finish(h) \/ req' = [req EXCEPT ![h] = [Idle EXCEPT !.op = "Restart", !.g = req[h].g, !.pc = "paused"]]
    BY <1>14 DEF EndGroup
  <2>2. CASE req' = [req EXCEPT ![h] = [Idle EXCEPT !.op = "Restart", !.g = req[h].g, !.pc = "paused"]]
    <3>1. req'[h] = [Idle EXCEPT !.op = "Restart", !.g = req[h].g, !.pc = "paused"]
      BY <2>2, Moved
    <3> QED BY <3>1 DEF Idle
  <2> QED BY <1>2, <2>1, <2>2
<1>15. CASE StopFirst(h)
  <2> DEFINE n == req[h].n
             marked == [Idle EXCEPT !.op = "NodeDelete", !.n = n, !.row = node[n], !.pc = "effect",
                                    !.verb = "stop"]
  <2>1. req' = [req EXCEPT ![h].pc = "remove"] \/ req' = [req EXCEPT ![h] = marked]
    BY <1>15 DEF StopFirst, MarkNode
  <2>2. CASE req' = [req EXCEPT ![h].pc = "remove"]
    BY <1>1, <2>2 DEF Locals
  <2>3. CASE req' = [req EXCEPT ![h] = marked]
    <3>1. req'[h] = marked
      BY <2>3, Moved
    <3> QED BY <3>1 DEF Idle
  <2> QED BY <2>1, <2>2, <2>3
<1>16. CASE Effect(h)
  <2>1. ASSUME NEW ok, NEW running, Outcome(h, ok, running) PROVE req'[h].pc = "settle"
    BY <1>1, <2>1 DEF Outcome, Locals
  <2> QED BY <1>16, <2>1 DEF Effect
<1>17. CASE Settle(h)
  BY <1>1, <1>2, <1>17 DEF Settle, Locals
<1> QED
  BY <1>3, <1>4, <1>5, <1>6, <1>7, <1>8, <1>9, <1>10, <1>11, <1>12,
     <1>13, <1>14, <1>15, <1>16, <1>17 DEF Work

\* A request comes to the two statements through BeginInit, from a group without configuration.
LEMMA ConfiguringStep ==
    ASSUME TypeInv, Working, [Next]_vars, NEW g \in Groups, NEW h \in Requests, Configuring(h, g)'
    PROVE  \/ Configuring(h, g) /\ ~Persist(h)
           \/ grp[g].dep = None /\ grp' = grp /\ "Init" \in Ops[h]
<1>1. CASE UNCHANGED req[h]
  <2>1. Configuring(h, g)
    BY <1>1 DEF Configuring
  <2>2. ~Persist(h)
    BY <1>1, <2>1, Leaves DEF Configuring, Work, Persist, Generate
  <2> QED BY <2>1, <2>2
<1>2. CASE Begin(h)
  <2>1. ASSUME NEW k \in Groups, BeginInit(h, k)
        PROVE  grp[g].dep = None /\ grp' = grp /\ "Init" \in Ops[h]
    BY <2>1, BegunInit DEF BeginInit, Configuring
  <2>2. ASSUME NEW k \in Groups, BeginAddCommitter(h, k) PROVE FALSE
    BY <2>2, BegunCommitter DEF Configuring
  <2>3. ASSUME NEW k \in Groups, StartGroup(h, k) \/ StopGroup(h, k) \/ RestartGroup(h, k)
        PROVE  FALSE
    BY <2>3, BegunMove DEF StartGroup, StopGroup, RestartGroup, Configuring
  <2>4. ASSUME NEW n \in NodeIds, StartNode(h, n) \/ StopNode(h, n) \/ DeleteNode(h, n)
        PROVE  FALSE
    BY <2>4, BegunNode DEF Configuring
  <2> QED BY <1>2, <2>1, <2>2, <2>3, <2>4 DEF Begin
<1>3. CASE Generate(h)
  <2>1. req[h].op = "Init"
    BY <1>3, Statements DEF Generate, Working
  <2>2. req' = [req EXCEPT ![h].pc = "persist"]
    BY <1>3 DEF Generate, Finish, Idle, Configuring, TypeInv, ReqOK
  <2>3. Configuring(h, g)
    BY <1>3, <2>1, <2>2 DEF Generate, Configuring, TypeInv, ReqOK
  <2>4. ~Persist(h)
    BY <1>3 DEF Generate, Persist
  <2> QED BY <2>3, <2>4
<1>4. CASE Abort(h) \/ (Work(h) /\ ~Generate(h))
  BY <1>4, Leaves DEF Configuring
<1> QED
  BY <1>1, <1>2, <1>3, <1>4, OtherRequests

LEMMA FreshNext == TypeInv /\ Working /\ OneInit /\ Fresh /\ [Next]_vars => Fresh'
<1> SUFFICES ASSUME TypeInv, Working, OneInit, Fresh, [Next]_vars,
                    NEW g \in Groups, NEW h \in Requests, Configuring(h, g)'
             PROVE  grp'[g].dep = None
  BY DEF Fresh
<1>1. grp[g].dep = None
  BY ConfiguringStep DEF Fresh
<1>2. ASSUME NEW k \in Requests, Persist(k), req[k].g = g PROVE grp' = grp
  <2>1. Configuring(k, g)
    BY <1>2, Statements DEF Persist, Configuring, Working, WorksOn
  <2>2. CASE Configuring(h, g) /\ ~Persist(h)
    BY <1>2, <2>1, <2>2 DEF OneInit
  <2> QED BY <2>2, ConfiguringStep
<1> QED
  BY <1>1, <1>2, ConfigurationStep

(* A group gets one configuration, as the comment on InitOrdererGroup says,  *)
(* if no two Inits of one group generate keys at the same time: then the     *)
(* configuration a Start or a child's row relies on is never replaced, for   *)
(* any number of other requests, failures and cancellations.                 *)
THEOREM InitStaysOnce == Spec /\ []OneInit => InitOnce
<1>1. Init => Fresh
  BY DEF Init, Fresh, Configuring, Idle
<1>2. TypeInv /\ Working /\ Fresh /\ [Next]_vars =>
        [\A g \in Groups : grp[g].dep # None /\ Exists(g)' => grp'[g].dep = grp[g].dep]_vars
  <2> SUFFICES ASSUME TypeInv, Working, Fresh, [Next]_vars, NEW g \in Groups,
                      grp[g].dep # None, Exists(g)'
               PROVE  grp'[g].dep = grp[g].dep
    OBVIOUS
  <2>1. ASSUME NEW k \in Requests, Persist(k), req[k].g = g PROVE FALSE
    <3>1. Configuring(k, g)
      BY <2>1, Statements DEF Persist, Configuring, Working, WorksOn
    <3> QED BY <3>1 DEF Fresh
  <2>2. grp'[g].status # "deleted"
    BY DEF Exists, Gone
  <2> QED BY <2>1, <2>2, ConfigurationStep
<1> QED
  BY <1>1, <1>2, FreshNext, WorkingInvariant, PTL DEF Spec, InitOnce

\* The condition can be met: one of the requests at most is an Init.
LEMMA OneInitClient ==
    ASSUME \A h, k \in Requests : "Init" \in Ops[h] /\ "Init" \in Ops[k] => h = k
    PROVE  Spec => []OneInit
<1> DEFINE Allowed == \A h \in Requests, g \in Groups : Configuring(h, g) => "Init" \in Ops[h]
<1>1. Init => Allowed
  BY DEF Init, Configuring, Idle
<1>2. TypeInv /\ Working /\ Allowed /\ [Next]_vars => Allowed'
  BY ConfiguringStep
<1>3. Allowed => OneInit
  BY DEF OneInit
<1> QED
  BY <1>1, <1>2, <1>3, WorkingInvariant, PTL DEF Spec
=============================================================================
