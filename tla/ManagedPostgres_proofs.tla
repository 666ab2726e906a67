----------------------- MODULE ManagedPostgres_proofs -----------------------
(* Proofs about ManagedPostgres for every set of groups, names, requests   *)
(* and operations, and every bound on the rows.                            *)
EXTENDS ManagedPostgres, TLAPS

\* What the fields of a request hold at each of its program counters.
Shape(r) ==
    /\ r.pc = "point" => r.g \in Groups
    /\ r.pc \notin {"idle", "point"} => r.name \in Names
    /\ r.pc # "idle" => r.s \in Services
    /\ r.pc = "update" => r.new \in Names
    /\ r.op \in {"GroupStart", "GroupStop"} => r.g \in Groups
    /\ r.pc \in {"inspect", "connect", "resolve"} => r.op = "GroupStart"
    /\ r.pc = "disconnect" => r.op = "GroupStop"

GrpOK == grp \in [Groups -> [there : BOOLEAN, pg : Services \cup {None}]]
SvcOK == /\ svc \in [Services -> Rows]
         /\ \A s \in Services : Present(s) <=> svc[s].name # None
BoxOK == /\ box \in [Names -> Boxes]
         /\ \A n \in Names : box[n].state = "none" => box[n].nets = {}
ReqOK == /\ req \in [Requests -> Locals]
         /\ \A h \in Requests : Shape(req[h])
HistOK == joined \in [Groups -> Names \cup {None}] /\ interrupted \subseteq Services

\* The inductive strengthening of TypeOK.
TypeInv == GrpOK /\ SvcOK /\ BoxOK /\ ReqOK /\ HistOK

LEMMA NoneFresh == None \notin Services /\ None \notin Groups /\ None \notin Names
BY ConstantsAssumption DEF ConstantsAssumption

LEMMA IdleType == Idle \in Locals /\ Shape(Idle)
BY DEF Idle, Locals, Pcs, Shape

LEMMA ConstRows ==
    /\ NoRow \in Rows /\ Deleted \in Rows
    /\ NoRow.name = None /\ Deleted.name = None
    /\ NoRow.status \in Gone /\ Deleted.status \in Gone
BY DEF NoRow, Deleted, Row, Rows, Gone

LEMMA ConstBox == NoBox \in Boxes /\ NoBox.state = "none" /\ NoBox.nets = {}
BY DEF NoBox, Boxes

LEMMA NetworkType ==
    ASSUME ReqOK, NEW h \in Requests
    PROVE  NetworkOf(h) \in Networks
BY DEF ReqOK, Locals, NetworkOf, Networks

\* A request whose local state stays well shaped.
LEMMA NewReq ==
    ASSUME ReqOK, NEW h \in Requests, NEW r \in Locals, Shape(r),
           req' = [req EXCEPT ![h] = r]
    PROVE  ReqOK'
BY DEF ReqOK

LEMMA FinishOK ==
    ASSUME ReqOK, NEW h \in Requests, Finish(h)
    PROVE  ReqOK'
BY IdleType, NewReq DEF Finish

LEMMA GotoOK ==
    ASSUME ReqOK, NEW h \in Requests, req[h].pc \notin {"idle", "point"},
           NEW l \in Pcs, l \notin {"point", "update", "disconnect"},
           l \in {"inspect", "connect", "resolve"} => req[h].op = "GroupStart",
           Goto(h, l)
    PROVE  ReqOK'
<1> DEFINE r == [req[h] EXCEPT !.pc = l]
<1>1. req' = [req EXCEPT ![h] = r]
  BY DEF Goto, ReqOK
<1>2. req[h] \in Locals /\ Shape(req[h])
  BY DEF ReqOK
<1>3. r \in Locals
  BY <1>2 DEF Locals
<1>4. /\ r.pc = l /\ r.g = req[h].g /\ r.s = req[h].s /\ r.name = req[h].name
      /\ r.op = req[h].op
  BY <1>2 DEF Locals
<1>5. Shape(r)
  BY <1>2, <1>4 DEF Shape
<1> QED
  BY <1>1, <1>3, <1>5, NewReq

\* The name of a row that is there is a name.
LEMMA PresentName ==
    ASSUME SvcOK, NEW s \in Services, Present(s)
    PROVE  svc[s].name \in Names
BY DEF SvcOK, Rows

LEMMA ReadOK ==
    ASSUME ReqOK, SvcOK, NEW h \in Requests, NEW s \in Services,
           NEW op \in {"Update", "Delete", "Start", "Stop"},
           NEW new \in Names \cup {None}, NEW pc \in {"update", "delete", "starting", "stopping"},
           pc = "update" => new \in Names, Read(h, op, s, new, pc)
    PROVE  ReqOK'
<1> DEFINE r == [op |-> op, g |-> None, s |-> s, name |-> svc[s].name,
                 dep |-> IF op = "Update" THEN svc[s].dep ELSE None,
                 new |-> new, pc |-> pc]
<1>1. svc[s].name \in Names /\ svc[s].dep \in Names \cup {None}
  BY PresentName DEF Read, SvcOK, Rows
<1>2. r \in Locals
  BY <1>1 DEF Locals, Pcs, AllOps
<1>3. Shape(r)
  BY <1>1 DEF Shape
<1>4. req' = [req EXCEPT ![h] = r]
  BY DEF Read
<1> HIDE DEF r
<1> QED
  BY <1>2, <1>3, <1>4, NewReq

LEMMA ReadForGroupOK ==
    ASSUME ReqOK, SvcOK, NEW h \in Requests, NEW g \in Groups, NEW s \in Services,
           NEW op, NEW pc,
           \/ op = "GroupStart" /\ pc = "inspect"
           \/ op = "GroupStop" /\ pc = "disconnect",
           ReadForGroup(h, op, g, s, pc)
    PROVE  ReqOK'
<1> DEFINE r == [op |-> op, g |-> g, s |-> s, name |-> svc[s].name,
                 dep |-> None, new |-> None, pc |-> pc]
<1>1. svc[s].name \in Names
  BY PresentName DEF ReadForGroup, Attached
<1>2. r \in Locals
  BY <1>1 DEF Locals, Pcs, AllOps
<1>3. Shape(r)
  BY <1>1 DEF Shape
<1>4. req' = [req EXCEPT ![h] = r]
  BY DEF ReadForGroup
<1> HIDE DEF r
<1> QED
  BY <1>2, <1>3, <1>4, NewReq

LEMMA WriteStatusOK ==
    ASSUME SvcOK, NEW s \in Services, NEW st \in Status, WriteStatus(s, st)
    PROVE  SvcOK'
<1>1. svc[s] \in Rows
  BY DEF SvcOK
<1>2. \A v \in Status \cup Gone : [svc[s] EXCEPT !.status = v] \in Rows
  BY <1>1 DEF Rows
<1>3. svc' = [svc EXCEPT ![s] = [svc[s] EXCEPT !.status =
                                   IF svc[s].status \in Gone THEN svc[s].status ELSE st]]
  BY DEF WriteStatus, SvcOK
<1>4. svc' \in [Services -> Rows]
  BY <1>2, <1>3 DEF SvcOK
<1>5. svc'[s].name = svc[s].name /\ (svc'[s].status \in Gone <=> svc[s].status \in Gone)
  BY <1>1, <1>3 DEF SvcOK, Rows, Status, Gone
<1>6. \A t \in Services : t # s => svc'[t] = svc[t]
  BY <1>3 DEF SvcOK
<1> QED
  BY <1>4, <1>5, <1>6 DEF SvcOK, Present

LEMMA InsertOK ==
    ASSUME SvcOK, NEW s \in Services, NEW name \in Names, NEW owner \in Groups \cup {None},
           Insert(s, name, owner)
    PROVE  SvcOK'
<1>1. Row("CREATED", name, owner) \in Rows
  BY DEF Row, Rows, Status
<1>2. Row("CREATED", name, owner).name # None /\ Row("CREATED", name, owner).status \notin Gone
  BY NoneFresh DEF Row, Gone
<1> QED
  BY <1>1, <1>2 DEF Insert, SvcOK, Present

LEMMA SetBoxOK ==
    ASSUME BoxOK, NEW name \in Names, NEW b \in Boxes, b.state = "none" => b.nets = {},
           box' = [box EXCEPT ![name] = b]
    PROVE  BoxOK'
BY DEF BoxOK

LEMMA SameGrp == GrpOK /\ UNCHANGED grp => GrpOK'
BY DEF GrpOK
LEMMA SameSvc == SvcOK /\ UNCHANGED svc => SvcOK'
BY DEF SvcOK, Present
LEMMA SameBox == BoxOK /\ UNCHANGED box => BoxOK'
BY DEF BoxOK
LEMMA SameReq == ReqOK /\ UNCHANGED req => ReqOK'
BY DEF ReqOK
LEMMA SameHist == HistOK /\ UNCHANGED <<joined, interrupted>> => HistOK'
BY DEF HistOK

-----------------------------------------------------------------------------
(* One lemma per action.                                                   *)

LEMMA CreatePostgresType ==
    ASSUME TypeInv, NEW h \in Requests, NEW s \in Services, NEW name \in Names,
           CreatePostgres(h, s, name)
    PROVE  TypeInv'
BY InsertOK, SameGrp, SameBox, SameReq, SameHist DEF TypeInv, CreatePostgres

LEMMA CreatePostgresServiceType ==
    ASSUME TypeInv, NEW h \in Requests, NEW g \in Groups, NEW s \in Services,
           NEW name \in Names, CreatePostgresService(h, g, s, name)
    PROVE  TypeInv'
<1> DEFINE r == [Idle EXCEPT !.op = "CreateFor", !.g = g, !.s = s, !.pc = "point"]
<1>1. r \in Locals
  BY IdleType DEF Locals, AllOps, Pcs
<1>2. r.pc = "point" /\ r.g = g /\ r.s = s /\ r.op = "CreateFor"
  BY DEF Idle
<1>3. Shape(r)
  BY <1>2 DEF Shape
<1>4. req' = [req EXCEPT ![h] = r]
  BY DEF CreatePostgresService
<1> HIDE DEF r
<1>5. ReqOK'
  BY <1>1, <1>3, <1>4, NewReq DEF TypeInv
<1> QED
  BY <1>5, InsertOK, SameGrp, SameBox, SameHist DEF TypeInv, CreatePostgresService

LEMMA PointType ==
    ASSUME TypeInv, NEW h \in Requests, Point(h)
    PROVE  TypeInv'
<1>1. req[h].g \in Groups /\ req[h].s \in Services
  BY DEF TypeInv, ReqOK, Shape, Point
<1>2. GrpOK'
  BY <1>1 DEF TypeInv, GrpOK, Point
<1> QED
  BY <1>2, FinishOK, SameSvc, SameBox, SameHist DEF TypeInv, Point

LEMMA AttachType ==
    ASSUME TypeInv, NEW h \in Requests, NEW g \in Groups, NEW s \in Services,
           AttachPostgresService(h, g, s)
    PROVE  TypeInv'
<1>1. GrpOK'
  BY DEF TypeInv, GrpOK, AttachPostgresService
<1> QED
  BY <1>1, SameSvc, SameBox, SameReq, SameHist DEF TypeInv, AttachPostgresService

LEMMA DetachType ==
    ASSUME TypeInv, NEW h \in Requests, NEW g \in Groups, DetachPostgresService(h, g)
    PROVE  TypeInv'
<1>1. GrpOK'
  BY DEF TypeInv, GrpOK, DetachPostgresService
<1> QED
  BY <1>1, SameSvc, SameBox, SameReq, SameHist DEF TypeInv, DetachPostgresService

LEMMA DeleteGroupType ==
    ASSUME TypeInv, NEW h \in Requests, NEW g \in Groups, DeleteGroup(h, g)
    PROVE  TypeInv'
<1>1. GrpOK'
  BY DEF TypeInv, GrpOK, DeleteGroup
<1>2. SvcOK'
  BY ConstRows DEF TypeInv, SvcOK, DeleteGroup, Present
<1>3. HistOK'
  BY DEF TypeInv, HistOK, DeleteGroup
<1> QED
  BY <1>1, <1>2, <1>3, SameBox, SameReq DEF TypeInv, DeleteGroup

LEMMA BeginUpdateType ==
    ASSUME TypeInv, NEW h \in Requests, NEW s \in Services, NEW name \in Names,
           BeginUpdate(h, s, name)
    PROVE  TypeInv'
BY ReadOK, SameGrp, SameSvc, SameBox, SameHist DEF TypeInv, BeginUpdate

LEMMA UpdatePostgresType ==
    ASSUME TypeInv, NEW h \in Requests, UpdatePostgres(h)
    PROVE  TypeInv'
<1>1. req[h] \in Locals /\ req[h].s \in Services /\ req[h].new \in Names
  BY DEF TypeInv, ReqOK, Shape, UpdatePostgres
<1>2. SvcOK'
  <2>1. CASE UNCHANGED svc
    BY <2>1, SameSvc DEF TypeInv
  <2>2. CASE ~UpdateRejected(h) /\ ~UNCHANGED svc
    <3> DEFINE s == req[h].s
               row == [svc[s] EXCEPT !.name = req[h].new, !.dep = req[h].dep]
    <3>1. svc[s] \in Rows /\ req[h].dep \in Names \cup {None}
      BY <1>1 DEF TypeInv, SvcOK, Locals
    <3>2. row \in Rows /\ row.name = req[h].new /\ row.status = svc[s].status
      BY <1>1, <3>1 DEF Rows
    <3>3. svc' = [svc EXCEPT ![s] = row]
      BY <1>1, <2>2, <3>1 DEF UpdatePostgres, TypeInv, SvcOK, Rows
    <3>4. Present(s)
      BY <2>2 DEF UpdateRejected
    <3> HIDE DEF row
    <3> QED
      BY <1>1, <3>2, <3>3, <3>4, NoneFresh DEF TypeInv, SvcOK, Present
  <2> QED
    BY <2>1, <2>2 DEF UpdatePostgres
<1> QED
  BY <1>2, FinishOK, SameGrp, SameBox, SameHist DEF TypeInv, UpdatePostgres

LEMMA BeginDeleteType ==
    ASSUME TypeInv, NEW h \in Requests, NEW s \in Services, BeginDelete(h, s)
    PROVE  TypeInv'
BY ReadOK, SameGrp, SameSvc, SameBox, SameHist DEF TypeInv, BeginDelete

LEMMA DeleteServiceType ==
    ASSUME TypeInv, NEW h \in Requests, DeleteService(h)
    PROVE  TypeInv'
<1>1. req[h].s \in Services
  BY DEF TypeInv, ReqOK, Shape, DeleteService
<1>2. SvcOK'
  BY <1>1, ConstRows, SameSvc DEF TypeInv, SvcOK, DeleteService, Present
<1> QED
  BY <1>2, FinishOK, SameGrp, SameBox, SameHist DEF TypeInv, DeleteService

LEMMA ReleaseOK == ASSUME HistOK, NEW name, Release(name), UNCHANGED interrupted PROVE HistOK'
BY DEF HistOK, Release

LEMMA StartPostgresType ==
    ASSUME TypeInv, NEW h \in Requests, NEW s \in Services, StartPostgres(h, s)
    PROVE  TypeInv'
BY ReadOK, ReleaseOK, SameGrp, SameSvc, SameBox DEF TypeInv, StartPostgres

LEMMA StopServiceType ==
    ASSUME TypeInv, NEW h \in Requests, NEW s \in Services, StopService(h, s)
    PROVE  TypeInv'
BY ReadOK, ReleaseOK, SameGrp, SameSvc, SameBox DEF TypeInv, StopService

LEMMA MarkStartingType ==
    ASSUME TypeInv, NEW h \in Requests, MarkStarting(h)
    PROVE  TypeInv'
<1>1. req[h].s \in Services
  BY DEF TypeInv, ReqOK, Shape, MarkStarting
<1>2. SvcOK'
  BY <1>1, WriteStatusOK DEF TypeInv, MarkStarting, Status
<1>3. ReqOK'
  BY GotoOK DEF TypeInv, MarkStarting, Pcs
<1> QED
  BY <1>2, <1>3, SameGrp, SameBox, SameHist DEF TypeInv, MarkStarting

LEMMA MarkStoppingType ==
    ASSUME TypeInv, NEW h \in Requests, MarkStopping(h)
    PROVE  TypeInv'
<1>1. req[h].s \in Services
  BY DEF TypeInv, ReqOK, Shape, MarkStopping
<1>2. SvcOK'
  BY <1>1, WriteStatusOK DEF TypeInv, MarkStopping, Status
<1>3. ReqOK'
  BY GotoOK DEF TypeInv, MarkStopping, Pcs
<1> QED
  BY <1>2, <1>3, SameGrp, SameBox, SameHist DEF TypeInv, MarkStopping

LEMMA RemoveOldType ==
    ASSUME TypeInv, NEW h \in Requests, RemoveOld(h)
    PROVE  TypeInv'
<1>1. req[h].name \in Names
  BY DEF TypeInv, ReqOK, Shape, RemoveOld
<1>2. BoxOK'
  BY <1>1, ConstBox, SetBoxOK, SameBox DEF TypeInv, RemoveOld
<1>3. ReqOK'
  BY GotoOK DEF TypeInv, RemoveOld, Pcs
<1> QED
  BY <1>2, <1>3, SameGrp, SameSvc, SameHist DEF TypeInv, RemoveOld

LEMMA RunType ==
    ASSUME TypeInv, NEW h \in Requests, Run(h)
    PROVE  TypeInv'
<1>1. req[h].name \in Names
  BY DEF TypeInv, ReqOK, Shape, Run
<1>2. \A st \in {"up", "down"} : [state |-> st, nets |-> {NetworkOf(h)}] \in Boxes
  BY NetworkType DEF TypeInv, Boxes
<1>3. BoxOK'
  BY <1>1, <1>2, SetBoxOK, SameBox DEF TypeInv, Run
<1>4. ReqOK'
  BY GotoOK DEF TypeInv, Run, Pcs
<1> QED
  BY <1>3, <1>4, SameGrp, SameSvc, SameHist DEF TypeInv, Run

LEMMA WaitReadyType ==
    ASSUME TypeInv, NEW h \in Requests, WaitReady(h)
    PROVE  TypeInv'
<1>1. ReqOK'
  BY GotoOK DEF TypeInv, WaitReady, Pcs
<1> QED
  BY <1>1, SameGrp, SameSvc, SameBox, SameHist DEF TypeInv, WaitReady

LEMMA PersistEndpointType ==
    ASSUME TypeInv, NEW h \in Requests, PersistEndpoint(h)
    PROVE  TypeInv'
<1>1. req[h].s \in Services /\ req[h].name \in Names
  BY DEF TypeInv, ReqOK, Shape, PersistEndpoint
<1>2. ReqOK'
  BY GotoOK DEF TypeInv, PersistEndpoint, Pcs
<1>3. SvcOK'
  <2> DEFINE s == req[h].s
             row == [svc[s] EXCEPT !.dep = req[h].name]
  <2>1. svc[s] \in Rows
    BY <1>1 DEF TypeInv, SvcOK
  <2>2. row \in Rows /\ row.name = svc[s].name /\ row.status = svc[s].status
    BY <1>1, <2>1 DEF Rows
  <2>3. CASE svc' = [svc EXCEPT ![s] = row]
    <3> HIDE DEF row
    <3> QED BY <1>1, <2>2, <2>3 DEF TypeInv, SvcOK, Present
  <2>4. svc' = [svc EXCEPT ![s] = row] \/ UNCHANGED svc
    BY <1>1 DEF PersistEndpoint, TypeInv, SvcOK
  <2> QED
    BY <2>3, <2>4, SameSvc DEF TypeInv
<1> QED
  BY <1>2, <1>3, SameGrp, SameBox, SameHist DEF TypeInv, PersistEndpoint

LEMMA MarkRunningType ==
    ASSUME TypeInv, NEW h \in Requests, MarkRunning(h)
    PROVE  TypeInv'
<1>1. req[h].s \in Services
  BY DEF TypeInv, ReqOK, Shape, MarkRunning
<1>2. SvcOK'
  BY <1>1, WriteStatusOK DEF TypeInv, MarkRunning, Status
<1>3. ReqOK'
  BY GotoOK, FinishOK DEF TypeInv, MarkRunning, Pcs
<1>4. HistOK'
  BY DEF TypeInv, HistOK, MarkRunning
<1> QED
  BY <1>2, <1>3, <1>4, SameGrp, SameBox DEF TypeInv, MarkRunning

LEMMA MarkServiceErrorType ==
    ASSUME TypeInv, NEW h \in Requests, MarkServiceError(h)
    PROVE  TypeInv'
<1>1. req[h].s \in Services
  BY DEF TypeInv, ReqOK, Shape, MarkServiceError
<1>2. SvcOK'
  BY <1>1, WriteStatusOK DEF TypeInv, MarkServiceError, ErrorStatus, Status
<1>3. HistOK'
  BY DEF TypeInv, HistOK, MarkServiceError
<1> QED
  BY <1>2, <1>3, FinishOK, SameGrp, SameBox DEF TypeInv, MarkServiceError

LEMMA StopContainerType ==
    ASSUME TypeInv, NEW h \in Requests, StopContainer(h)
    PROVE  TypeInv'
<1>1. req[h].name \in Names
  BY DEF TypeInv, ReqOK, Shape, StopContainer
<1>2. BoxOK'
  BY <1>1, ConstBox, SetBoxOK, SameBox DEF TypeInv, StopContainer
<1>3. ReqOK'
  BY GotoOK DEF TypeInv, StopContainer, Pcs
<1> QED
  BY <1>2, <1>3, SameGrp, SameSvc, SameHist DEF TypeInv, StopContainer

LEMMA MarkStoppedType ==
    ASSUME TypeInv, NEW h \in Requests, MarkStopped(h)
    PROVE  TypeInv'
<1>1. req[h].s \in Services
  BY DEF TypeInv, ReqOK, Shape, MarkStopped
<1>2. SvcOK'
  BY <1>1, WriteStatusOK DEF TypeInv, MarkStopped, Status
<1>3. HistOK'
  BY DEF TypeInv, HistOK, MarkStopped
<1> QED
  BY <1>2, <1>3, FinishOK, SameGrp, SameBox DEF TypeInv, MarkStopped

LEMMA StartGroupType ==
    ASSUME TypeInv, NEW h \in Requests, NEW g \in Groups, NEW s \in Services,
           StartGroup(h, g, s)
    PROVE  TypeInv'
BY ReadForGroupOK, SameGrp, SameSvc, SameBox, SameHist DEF TypeInv, StartGroup

LEMMA StopGroupType ==
    ASSUME TypeInv, NEW h \in Requests, NEW g \in Groups, NEW s \in Services,
           StopGroup(h, g, s)
    PROVE  TypeInv'
<1>1. HistOK'
  BY DEF TypeInv, HistOK, StopGroup
<1> QED
  BY <1>1, ReadForGroupOK, SameGrp, SameSvc, SameBox DEF TypeInv, StopGroup

LEMMA IsRunningType ==
    ASSUME TypeInv, NEW h \in Requests, IsRunning(h)
    PROVE  TypeInv'
<1>0. req[h].op = "GroupStart"
  BY DEF TypeInv, ReqOK, Shape, IsRunning
<1>1. ReqOK'
  BY <1>0, GotoOK DEF TypeInv, IsRunning, Pcs
<1> QED
  BY <1>1, SameGrp, SameSvc, SameBox, SameHist DEF TypeInv, IsRunning

LEMMA ConnectNetworkType ==
    ASSUME TypeInv, NEW h \in Requests, ConnectNetwork(h)
    PROVE  TypeInv'
<1> DEFINE name == req[h].name
           b == [box[name] EXCEPT !.nets = @ \cup {NetworkOf(h)}]
<1>1. name \in Names /\ req[h].op = "GroupStart"
  BY DEF TypeInv, ReqOK, Shape, ConnectNetwork
<1>2. box[name] \in Boxes
  BY <1>1 DEF TypeInv, BoxOK
<1>3. b \in Boxes /\ b.state = box[name].state
  BY <1>2, NetworkType DEF TypeInv, Boxes
<1>4. box[name] # NoBox => box[name].state # "none"
  BY <1>1, <1>2 DEF TypeInv, BoxOK, Boxes, NoBox
<1>5. box' = [box EXCEPT ![name] = b] \/ UNCHANGED box
  BY <1>1 DEF ConnectNetwork, TypeInv, BoxOK
<1>6. BoxOK'
  <2>1. CASE UNCHANGED box
    BY <2>1, SameBox DEF TypeInv
  <2>2. CASE box[name] # NoBox /\ box' = [box EXCEPT ![name] = b]
    <3> HIDE DEF b
    <3> QED BY <1>1, <1>3, <1>4, <2>2, SetBoxOK DEF TypeInv
  <2> QED BY <1>5, <2>1, <2>2 DEF ConnectNetwork
<1>7. ReqOK'
  BY <1>1, GotoOK DEF TypeInv, ConnectNetwork, Pcs
<1> QED
  BY <1>6, <1>7, SameGrp, SameSvc, SameHist DEF TypeInv, ConnectNetwork

LEMMA ResolveType ==
    ASSUME TypeInv, NEW h \in Requests, Resolve(h)
    PROVE  TypeInv'
<1>1. req[h].name \in Names
  BY DEF TypeInv, ReqOK, Shape, Resolve
<1>2. HistOK'
  BY <1>1 DEF TypeInv, HistOK, Resolve
<1> QED
  BY <1>2, FinishOK, SameGrp, SameSvc, SameBox DEF TypeInv, Resolve

LEMMA DisconnectNetworkType ==
    ASSUME TypeInv, NEW h \in Requests, DisconnectNetwork(h)
    PROVE  TypeInv'
<1> DEFINE name == req[h].name
           b == Leave(box[name], NetworkOf(h))
<1>1. name \in Names
  BY DEF TypeInv, ReqOK, Shape, DisconnectNetwork
<1>2. box[name] \in Boxes /\ (box[name].state = "none" => box[name].nets = {})
  BY <1>1 DEF TypeInv, BoxOK
<1>3. b \in Boxes /\ b.state = box[name].state /\ b.nets \subseteq box[name].nets
  BY <1>2 DEF Boxes, Leave
<1>4. box' = [box EXCEPT ![name] = b] \/ UNCHANGED box
  BY <1>1 DEF DisconnectNetwork, TypeInv, BoxOK
<1> HIDE DEF b
<1>5. BoxOK'
  BY <1>1, <1>2, <1>3, <1>4, SetBoxOK, SameBox DEF TypeInv
<1> QED
  BY <1>5, FinishOK, SameGrp, SameSvc, SameHist DEF TypeInv, DisconnectNetwork

LEMMA AbortType ==
    ASSUME TypeInv, NEW h \in Requests, Abort(h)
    PROVE  TypeInv'
<1> DEFINE name == req[h].name
<1>1. req[h].pc \in {"create", "halt"} => name \in Names
  BY DEF TypeInv, ReqOK, Shape
<1>2. BoxOK'
  <2>1. CASE UNCHANGED box
    BY <2>1, SameBox DEF TypeInv
  <2>2. CASE /\ req[h].pc = "create"
             /\ box' = [box EXCEPT ![name] = [state |-> "down", nets |-> {NetworkOf(h)}]]
    <3>1. [state |-> "down", nets |-> {NetworkOf(h)}] \in Boxes
      BY NetworkType DEF TypeInv, Boxes
    <3> QED BY <1>1, <2>2, <3>1, SetBoxOK DEF TypeInv
  <2>3. CASE req[h].pc = "halt" /\ box' = [box EXCEPT ![name].state = "down"]
    <3> DEFINE b == [box[name] EXCEPT !.state = "down"]
    <3>1. box' = [box EXCEPT ![name] = b]
      BY <1>1, <2>3 DEF TypeInv, BoxOK
    <3>2. b \in Boxes /\ b.state = "down"
      BY <1>1, <2>3 DEF TypeInv, BoxOK, Boxes
    <3> HIDE DEF b
    <3> QED BY <1>1, <2>3, <3>1, <3>2, SetBoxOK DEF TypeInv
  <2> QED BY <2>1, <2>2, <2>3 DEF Abort
<1>3. HistOK'
  BY DEF TypeInv, HistOK, Abort, AtWork, ReqOK, Shape
<1> QED
  BY <1>2, <1>3, FinishOK, SameGrp, SameSvc DEF TypeInv, Abort

-----------------------------------------------------------------------------
LEMMA InitTypeInv == Init => TypeInv
<1> SUFFICES ASSUME Init PROVE TypeInv
  OBVIOUS
<1>1. GrpOK /\ HistOK /\ ReqOK
  BY IdleType DEF Init, GrpOK, HistOK, ReqOK
<1>2. SvcOK /\ BoxOK
  BY ConstRows, ConstBox DEF Init, SvcOK, BoxOK, Present
<1> QED
  BY <1>1, <1>2 DEF TypeInv

LEMMA TypeInvTypeOK == TypeInv => TypeOK
BY DEF TypeInv, TypeOK, GrpOK, SvcOK, BoxOK, ReqOK, HistOK

LEMMA NextType == TypeInv /\ [Next]_vars => TypeInv'
<1> SUFFICES ASSUME TypeInv, [Next]_vars PROVE TypeInv'
  OBVIOUS
<1>1. CASE UNCHANGED vars
  BY <1>1, SameGrp, SameSvc, SameBox, SameReq, SameHist DEF vars, TypeInv
<1>2. ASSUME NEW h \in Requests, Begin(h) PROVE TypeInv'
  BY <1>2, CreatePostgresType, CreatePostgresServiceType, AttachType, DetachType,
     DeleteGroupType, BeginUpdateType, BeginDeleteType, StartPostgresType, StopServiceType,
     StartGroupType, StopGroupType DEF Begin
<1>3. ASSUME NEW h \in Requests, Work(h) PROVE TypeInv'
  BY <1>3, PointType, UpdatePostgresType, DeleteServiceType, MarkStartingType, RemoveOldType,
     RunType, WaitReadyType, PersistEndpointType, MarkRunningType, MarkServiceErrorType,
     MarkStoppingType, StopContainerType, MarkStoppedType, IsRunningType, ConnectNetworkType,
     ResolveType, DisconnectNetworkType DEF Work
<1>4. ASSUME NEW h \in Requests, Abort(h) PROVE TypeInv'
  BY <1>4, AbortType
<1> QED
  BY <1>1, <1>2, <1>3, <1>4 DEF Next

(* Every variable keeps its type in every behaviour: a request only ever    *)
(* reads the fields its earlier steps set, and a row that is there has a    *)
(* name for its container.                                                  *)
THEOREM PostgresTypeCorrect == Spec => []TypeOK
<1>1. Spec => []TypeInv
  BY InitTypeInv, NextType, PTL DEF Spec
<1> QED
  BY <1>1, TypeInvTypeOK, PTL

-----------------------------------------------------------------------------
(* ServiceStatusOwned is inductive with the types: a step of request h has *)
(* to account for the status of every service it leaves behind.            *)

OthersSame(h) == \A k \in Requests : k # h => req'[k] = req[k]

\* Why service s may have a transient status after a step of h.
Accounted(h, s) ==
    \/ svc'[s].status \notin Transient
    \/ AtWork(h)' /\ req'[h].s = s
    \/ /\ svc'[s].status = svc[s].status
       /\ s \in interrupted => s \in interrupted'
       /\ AtWork(h) /\ req[h].s = s => s \in interrupted'

LEMMA StatusStep ==
    ASSUME ServiceStatusOwned, NEW h \in Requests, OthersSame(h),
           \A s \in Services : Accounted(h, s)
    PROVE  ServiceStatusOwned'
<1> SUFFICES ASSUME NEW s \in Services, svc'[s].status \in Transient
             PROVE  \/ \E k \in Requests : AtWork(k)' /\ req'[k].s = s
                    \/ s \in interrupted'
  BY DEF ServiceStatusOwned
<1>1. CASE AtWork(h)' /\ req'[h].s = s
  BY <1>1
<1>2. CASE /\ svc'[s].status = svc[s].status
           /\ s \in interrupted => s \in interrupted'
           /\ AtWork(h) /\ req[h].s = s => s \in interrupted'
  <2>1. CASE s \in interrupted
    BY <1>2, <2>1
  <2>2. CASE s \notin interrupted
    <3>1. PICK k \in Requests : AtWork(k) /\ req[k].s = s
      BY <1>2, <2>2 DEF ServiceStatusOwned
    <3>2. CASE k = h
      BY <1>2, <3>1, <3>2
    <3>3. CASE k # h
      BY <3>1, <3>3 DEF OthersSame, AtWork
    <3> QED BY <3>2, <3>3
  <2> QED BY <2>1, <2>2
<1> QED
  BY <1>1, <1>2 DEF Accounted

\* The request moves on to another step of the same service.
LEMMA GotoFields ==
    ASSUME TypeInv, NEW h \in Requests, NEW l, Goto(h, l)
    PROVE  req'[h].pc = l /\ req'[h].s = req[h].s /\ OthersSame(h)
BY DEF Goto, TypeInv, ReqOK, Locals, OthersSame

LEMMA FinishFields ==
    ASSUME TypeInv, NEW h \in Requests, Finish(h)
    PROVE  ~AtWork(h)' /\ OthersSame(h)
BY DEF Finish, TypeInv, ReqOK, AtWork, Idle, OthersSame

LEMMA WriteFields ==
    ASSUME TypeInv, NEW s \in Services, NEW st, WriteStatus(s, st)
    PROVE  /\ \A t \in Services : t # s => svc'[t] = svc[t]
           /\ svc'[s].status = st \/ svc'[s].status \in Gone
BY DEF WriteStatus, TypeInv, SvcOK, Rows

\* Steps that leave all statuses alone, or only make rows new or gone.
Quiescent ==
    \A s \in Services : svc'[s].status \in {svc[s].status, "CREATED", "deleted"}

LEMMA QuietStep ==
    ASSUME TypeInv, ServiceStatusOwned, NEW h \in Requests, OthersSame(h), Quiescent,
           AtWork(h) => AtWork(h)' /\ req'[h].s = req[h].s, UNCHANGED interrupted
    PROVE  ServiceStatusOwned'
<1>1. \A s \in Services : Accounted(h, s)
  BY DEF Quiescent, Accounted, Transient
<1> QED
  BY <1>1, StatusStep

LEMMA BeginOwned ==
    ASSUME TypeInv, ServiceStatusOwned, NEW h \in Requests, Begin(h)
    PROVE  ServiceStatusOwned'
<1>1. ~AtWork(h)
  <2>1. req[h].pc = "idle"
    <3>1. CASE \E op \in AllOps : Allowed(h, op)
      BY <3>1 DEF Allowed
    <3>2. CASE \E op, s, new, pc : Read(h, op, s, new, pc)
      BY <3>2 DEF Read, Allowed
    <3>3. CASE \E op, g, s, pc : ReadForGroup(h, op, g, s, pc)
      BY <3>3 DEF ReadForGroup, Allowed
    <3> QED
      BY <3>1, <3>2, <3>3 DEF Begin, CreatePostgres, BeginUpdate, CreatePostgresService,
         AttachPostgresService, StartGroup, StopGroup, BeginDelete, StartPostgres,
         StopService, DetachPostgresService, DeleteGroup, AllOps
  <2> QED BY <2>1 DEF AtWork
<1>2. UNCHANGED interrupted
  BY DEF Begin, CreatePostgres, BeginUpdate, CreatePostgresService, AttachPostgresService,
     StartGroup, StopGroup, BeginDelete, StartPostgres, StopService, DetachPostgresService,
     DeleteGroup
<1>3. OthersSame(h)
  <2>1. ASSUME NEW r, req' = [req EXCEPT ![h] = r] PROVE OthersSame(h)
    BY <2>1 DEF TypeInv, ReqOK, OthersSame
  <2>2. ASSUME NEW op, NEW s, NEW new, NEW pc, Read(h, op, s, new, pc) PROVE OthersSame(h)
    BY <2>1, <2>2 DEF Read
  <2>3. ASSUME NEW op, NEW g, NEW s, NEW pc, ReadForGroup(h, op, g, s, pc) PROVE OthersSame(h)
    BY <2>1, <2>3 DEF ReadForGroup
  <2>4. ASSUME NEW g, NEW s, NEW name, CreatePostgresService(h, g, s, name)
        PROVE OthersSame(h)
    BY <2>1, <2>4 DEF CreatePostgresService
  <2>5. CASE UNCHANGED req
    BY <2>5 DEF OthersSame
  <2> QED
    BY <2>2, <2>3, <2>4, <2>5 DEF Begin, CreatePostgres, BeginUpdate, AttachPostgresService,
       StartGroup, StopGroup, BeginDelete, StartPostgres, StopService, DetachPostgresService,
       DeleteGroup
<1>4. Quiescent
  <2>1. ASSUME NEW s \in Services, NEW name, NEW owner, Insert(s, name, owner)
        PROVE  Quiescent
    BY <2>1 DEF Insert, Row, Quiescent, TypeInv, SvcOK
  <2>2. ASSUME NEW g \in Groups, DeleteGroup(h, g) PROVE Quiescent
    BY <2>2 DEF DeleteGroup, Deleted, Row, Quiescent
  <2>3. CASE UNCHANGED svc
    BY <2>3 DEF Quiescent
  <2> QED
    BY <2>1, <2>2, <2>3 DEF Begin, CreatePostgres, BeginUpdate, CreatePostgresService,
       AttachPostgresService, StartGroup, StopGroup, BeginDelete, StartPostgres,
       StopService, DetachPostgresService
<1> QED
  BY <1>1, <1>2, <1>3, <1>4, QuietStep

\* The status writes that end a request of the service.
LEMMA FinalOwned ==
    ASSUME TypeInv, ServiceStatusOwned, NEW h \in Requests,
           NEW st \in {"RUNNING", "STOPPED", "ERROR"},
           req[h].s \in Services, WriteStatus(req[h].s, st),
           interrupted' = interrupted \ {req[h].s}, OthersSame(h)
    PROVE  ServiceStatusOwned'
<1>1. ASSUME NEW s \in Services PROVE Accounted(h, s)
  <2>1. CASE s = req[h].s
    BY <2>1, WriteFields DEF Accounted, Transient, Gone
  <2>2. CASE s # req[h].s
    BY <2>2, WriteFields DEF Accounted
  <2> QED BY <2>1, <2>2
<1> QED
  BY <1>1, StatusStep

\* The status writes that begin one.
LEMMA FirstOwned ==
    ASSUME TypeInv, ServiceStatusOwned, NEW h \in Requests, NEW st,
           req[h].s \in Services, WriteStatus(req[h].s, st), ~AtWork(h),
           OthersSame(h), AtWork(h)', req'[h].s = req[h].s, UNCHANGED interrupted
    PROVE  ServiceStatusOwned'
<1>1. ASSUME NEW s \in Services PROVE Accounted(h, s)
  BY WriteFields DEF Accounted
<1> QED
  BY <1>1, StatusStep

\* A step between the two.
LEMMA MiddleOwned ==
    ASSUME TypeInv, ServiceStatusOwned, NEW h \in Requests, Quiescent,
           NEW l \in {"remove", "create", "ready", "persist", "running", "error",
                      "halt", "stopped"},
           Goto(h, l), UNCHANGED interrupted
    PROVE  ServiceStatusOwned'
<1>1. AtWork(h)' /\ req'[h].s = req[h].s /\ OthersSame(h)
  BY GotoFields DEF AtWork
<1> QED
  BY <1>1, QuietStep

LEMMA StartStopOwned ==
    ASSUME TypeInv, ServiceStatusOwned, NEW h \in Requests,
           MarkStarting(h) \/ MarkStopping(h)
    PROVE  ServiceStatusOwned'
<1>1. req[h].s \in Services /\ ~AtWork(h)
  BY DEF TypeInv, ReqOK, Shape, MarkStarting, MarkStopping, AtWork
<1>2. PICK l \in {"remove", "halt"} : Goto(h, l)
  BY DEF MarkStarting, MarkStopping
<1>3. AtWork(h)' /\ req'[h].s = req[h].s /\ OthersSame(h)
  BY <1>2, GotoFields DEF AtWork
<1> QED
  BY <1>1, <1>3, FirstOwned DEF MarkStarting, MarkStopping

LEMMA EndOwned ==
    ASSUME TypeInv, ServiceStatusOwned, NEW h \in Requests,
           MarkRunning(h) \/ MarkServiceError(h) \/ MarkStopped(h)
    PROVE  ServiceStatusOwned'
<1>1. req[h].s \in Services
  BY DEF TypeInv, ReqOK, Shape, MarkRunning, MarkServiceError, MarkStopped
<1>2. OthersSame(h)
  BY FinishFields, GotoFields DEF MarkRunning, MarkServiceError, MarkStopped
<1> QED
  BY <1>1, <1>2, FinalOwned DEF MarkRunning, MarkServiceError, MarkStopped, ErrorStatus

LEMMA DockerOwned ==
    ASSUME TypeInv, ServiceStatusOwned, NEW h \in Requests,
           \/ RemoveOld(h) \/ Run(h) \/ WaitReady(h) \/ PersistEndpoint(h)
           \/ StopContainer(h)
    PROVE  ServiceStatusOwned'
<1>1. req[h].s \in Services
  BY DEF TypeInv, ReqOK, Shape, RemoveOld, Run, WaitReady, PersistEndpoint, StopContainer
<1>2. Quiescent
  <2>1. CASE PersistEndpoint(h)
    BY <1>1, <2>1 DEF PersistEndpoint, Quiescent, TypeInv, SvcOK, Rows
  <2>2. CASE UNCHANGED svc
    BY <2>2 DEF Quiescent
  <2> QED
    BY <2>1, <2>2 DEF RemoveOld, Run, WaitReady, StopContainer
<1>3. \E l \in {"create", "ready", "persist", "running", "error", "stopped"} : Goto(h, l)
  BY DEF RemoveOld, Run, WaitReady, PersistEndpoint, StopContainer
<1> QED
  BY <1>2, <1>3, MiddleOwned DEF RemoveOld, Run, WaitReady, PersistEndpoint, StopContainer

LEMMA OutsideOwned ==
    ASSUME TypeInv, ServiceStatusOwned, NEW h \in Requests,
           \/ Point(h) \/ UpdatePostgres(h) \/ DeleteService(h)
           \/ IsRunning(h) \/ ConnectNetwork(h) \/ Resolve(h) \/ DisconnectNetwork(h)
    PROVE  ServiceStatusOwned'
<1>1. ~AtWork(h) /\ (req[h].pc \in {"update", "delete"} => req[h].s \in Services)
  BY DEF Point, UpdatePostgres, DeleteService, IsRunning, ConnectNetwork, Resolve,
     DisconnectNetwork, AtWork, TypeInv, ReqOK, Shape
<1>2. OthersSame(h)
  BY FinishFields, GotoFields DEF Point, UpdatePostgres, DeleteService, IsRunning,
     ConnectNetwork, Resolve, DisconnectNetwork
<1>3. Quiescent
  <2>1. CASE UpdatePostgres(h)
    BY <1>1, <2>1 DEF UpdatePostgres, Quiescent, TypeInv, SvcOK, Rows
  <2>2. CASE DeleteService(h)
    BY <1>1, <2>2 DEF DeleteService, Deleted, Row, Quiescent, TypeInv, SvcOK
  <2>3. CASE UNCHANGED svc
    BY <2>3 DEF Quiescent
  <2> QED
    BY <2>1, <2>2, <2>3 DEF Point, IsRunning, ConnectNetwork, Resolve, DisconnectNetwork
<1>4. UNCHANGED interrupted
  BY DEF Point, UpdatePostgres, DeleteService, IsRunning, ConnectNetwork, Resolve,
     DisconnectNetwork
<1> QED
  BY <1>1, <1>2, <1>3, <1>4, QuietStep

LEMMA AbortOwned ==
    ASSUME TypeInv, ServiceStatusOwned, NEW h \in Requests, Abort(h)
    PROVE  ServiceStatusOwned'
<1>1. OthersSame(h)
  BY FinishFields DEF Abort
<1>2. \A s \in Services : Accounted(h, s)
  BY DEF Abort, Accounted
<1> QED
  BY <1>1, <1>2, StatusStep

LEMMA NextOwned == TypeInv /\ ServiceStatusOwned /\ [Next]_vars => ServiceStatusOwned'
<1> SUFFICES ASSUME TypeInv, ServiceStatusOwned, [Next]_vars PROVE ServiceStatusOwned'
  OBVIOUS
<1>1. CASE UNCHANGED vars
  BY <1>1 DEF vars, ServiceStatusOwned, AtWork
<1>2. ASSUME NEW h \in Requests, Begin(h) \/ Work(h) \/ Abort(h) PROVE ServiceStatusOwned'
  BY <1>2, BeginOwned, StartStopOwned, EndOwned, DockerOwned, OutsideOwned, AbortOwned
  DEF Work
<1> QED
  BY <1>1, <1>2 DEF Next

(* A service row is never left STARTING or STOPPING by requests that ran to *)
(* their end, however many work on it at once and whatever fails: each     *)
(* transient status has a request that will still write a final one, or a  *)
(* record of the request that was cut off.                                 *)
THEOREM ServiceStatusAlwaysOwned == Spec => []ServiceStatusOwned
<1>1. Init => ServiceStatusOwned
  BY ConstRows DEF Init, ServiceStatusOwned, Transient, Gone
<1>2. Spec => []TypeInv
  BY InitTypeInv, NextType, PTL DEF Spec
<1> QED
  BY <1>1, <1>2, NextOwned, PTL DEF Spec

-----------------------------------------------------------------------------
(* PointersResolve needs to know that a deleted group points at nothing.   *)

DeadGroups == \A g \in Groups : ~grp[g].there => grp[g].pg = None
Resolves   == PointersResolve /\ DeadGroups

\* Only rows that no group points at can go, and the rows that stay keep
\* their names.
LEMMA RowsStay ==
    ASSUME TypeInv, Resolves, UNCHANGED grp,
           \A s \in Services : svc[s].status \notin Gone =>
               \/ svc'[s].status \notin Gone /\ svc'[s].name = svc[s].name
               \/ svc'[s].status \in Gone /\ ~Referenced(s, Groups),
           \A s \in Services : svc'[s].status \notin Gone => svc[s].status \notin Gone
    PROVE  Resolves'
<1>1. ASSUME NEW g \in Groups, grp[g].pg # None PROVE Present(grp[g].pg)'
  <2>1. grp[g].there /\ grp[g].pg \in Services /\ Present(grp[g].pg)
    BY <1>1 DEF Resolves, PointersResolve, DeadGroups, TypeInv, GrpOK
  <2>2. Referenced(grp[g].pg, Groups)
    BY <2>1 DEF Referenced
  <2> QED BY <2>1, <2>2 DEF Present
<1>2. ASSUME NEW s \in Services, NEW t \in Services, Present(s)', Present(t)',
             svc'[s].name = svc'[t].name
      PROVE  s = t
  BY <1>2 DEF Resolves, PointersResolve, Present
<1> QED
  BY <1>1, <1>2 DEF Resolves, PointersResolve, DeadGroups

LEMMA SameRows ==
    ASSUME TypeInv, Resolves, UNCHANGED <<grp, svc>>
    PROVE  Resolves'
BY RowsStay

LEMMA StatusRows ==
    ASSUME TypeInv, Resolves, UNCHANGED grp, NEW s \in Services,
           NEW st \in Status, WriteStatus(s, st)
    PROVE  Resolves'
<1>1. \A t \in Services : /\ svc'[t].name = svc[t].name
                          /\ svc'[t].status \in Gone <=> svc[t].status \in Gone
  <2>1. \A t \in Services : t # s => svc'[t] = svc[t]
    BY DEF WriteStatus, TypeInv, SvcOK
  <2>2. svc'[s].name = svc[s].name /\ (svc'[s].status \in Gone <=> svc[s].status \in Gone)
    BY DEF WriteStatus, TypeInv, SvcOK, Rows, Status, Gone
  <2> QED BY <2>1, <2>2
<1> QED
  BY <1>1, RowsStay

LEMMA InsertRows ==
    ASSUME TypeInv, Resolves, UNCHANGED grp, NEW s \in Services, NEW name \in Names,
           NEW owner, Insert(s, name, owner)
    PROVE  Resolves'
<1>1. ~Present(s) /\ svc' = [svc EXCEPT ![s] = Row("CREATED", name, owner)]
  <2>1. s >= s
    BY ConstantsAssumption DEF Services, ConstantsAssumption
  <2> QED BY <2>1 DEF Insert, Present, Gone
<1>2. svc'[s].name = name /\ \A t \in Services : t # s => svc'[t] = svc[t]
  BY <1>1 DEF TypeInv, SvcOK, Row
<1>3. \A g \in Groups : grp[g].pg # None => grp[g].pg # s /\ grp[g].pg \in Services
  BY <1>1 DEF Resolves, PointersResolve, TypeInv, GrpOK
<1>4. \A g \in Groups : grp[g].pg # None => Present(grp[g].pg)'
  BY <1>2, <1>3 DEF Resolves, PointersResolve, Present
<1>5. \A t \in Services : t # s /\ Present(t) => svc[t].name # name
  BY DEF Insert, NameFree
<1>6. \A t, u \in Services : Present(t)' /\ Present(u)' /\ svc'[t].name = svc'[u].name => t = u
  BY <1>2, <1>5 DEF Resolves, PointersResolve, Present
<1> QED
  BY <1>4, <1>6 DEF Resolves, PointersResolve, DeadGroups

LEMMA PointRows ==
    ASSUME TypeInv, Resolves, NEW h \in Requests, Point(h)
    PROVE  Resolves'
<1>1. req[h].g \in Groups /\ req[h].s \in Services
  BY DEF TypeInv, ReqOK, Shape, Point
<1>2. \A g \in Groups : /\ grp'[g].there = grp[g].there
                        /\ \/ grp'[g].pg = grp[g].pg
                           \/ Present(grp'[g].pg) /\ grp[g].there
  BY <1>1 DEF Point, TypeInv, GrpOK
<1> QED
  BY <1>2 DEF Resolves, PointersResolve, DeadGroups, Point, Present

LEMMA AttachRows ==
    ASSUME TypeInv, Resolves, NEW h \in Requests, NEW g \in Groups, NEW s \in Services,
           AttachPostgresService(h, g, s)
    PROVE  Resolves'
<1>1. \A k \in Groups : /\ grp'[k].there = grp[k].there
                        /\ \/ grp'[k].pg = grp[k].pg
                           \/ Present(grp'[k].pg) /\ grp[k].there
  BY DEF AttachPostgresService, TypeInv, GrpOK
<1> QED
  BY <1>1 DEF Resolves, PointersResolve, DeadGroups, Present, AttachPostgresService

LEMMA DetachRows ==
    ASSUME TypeInv, Resolves, NEW h \in Requests, NEW g \in Groups,
           DetachPostgresService(h, g)
    PROVE  Resolves'
<1>1. \A k \in Groups : /\ grp'[k].there = grp[k].there
                        /\ grp'[k].pg = grp[k].pg \/ grp'[k].pg = None
  BY DEF DetachPostgresService, TypeInv, GrpOK
<1> QED
  BY <1>1 DEF Resolves, PointersResolve, DeadGroups, Present, DetachPostgresService

LEMMA DeleteGroupRows ==
    ASSUME TypeInv, Resolves, NEW h \in Requests, NEW g \in Groups, DeleteGroup(h, g)
    PROVE  Resolves'
<1>1. grp'[g].pg = None /\ ~grp'[g].there /\ \A k \in Groups : k # g => grp'[k] = grp[k]
  BY DEF DeleteGroup, TypeInv, GrpOK
<1>2. \A s \in Services : \/ svc'[s] = svc[s]
                          \/ svc'[s] = Deleted /\ ~Referenced(s, Groups \ {g})
  BY DEF DeleteGroup
<1>3. \A s \in Services : svc'[s].status \notin Gone =>
                             svc'[s] = svc[s] /\ svc[s].status \notin Gone
  BY <1>2, ConstRows
<1>4. ASSUME NEW k \in Groups, grp'[k].pg # None PROVE svc'[grp'[k].pg].status \notin Gone
  <2>1. k # g /\ grp'[k] = grp[k]
    BY <1>1, <1>4
  <2>2. grp[k].there /\ grp[k].pg \in Services /\ Present(grp[k].pg)
    BY <1>4, <2>1 DEF Resolves, PointersResolve, DeadGroups, TypeInv, GrpOK
  <2>3. Referenced(grp[k].pg, Groups \ {g})
    BY <2>1, <2>2 DEF Referenced
  <2> QED
    BY <1>2, <2>1, <2>2, <2>3 DEF Present
<1>5. \A s, t \in Services : Present(s)' /\ Present(t)' /\ svc'[s].name = svc'[t].name => s = t
  BY <1>3 DEF Resolves, PointersResolve, Present
<1>6. DeadGroups'
  BY <1>1 DEF Resolves, DeadGroups
<1> QED
  BY <1>4, <1>5, <1>6 DEF Resolves, PointersResolve, Present

LEMMA DeleteServiceRows ==
    ASSUME TypeInv, Resolves, NEW h \in Requests, DeleteService(h)
    PROVE  Resolves'
<1>1. req[h].s \in Services
  BY DEF TypeInv, ReqOK, Shape, DeleteService
<1>2. CASE UNCHANGED svc
  BY <1>2, SameRows DEF DeleteService
<1>3. CASE ~Referenced(req[h].s, Groups) /\ svc' = [svc EXCEPT ![req[h].s] = Deleted]
  <2>1. /\ \A s \in Services : s # req[h].s => svc'[s] = svc[s]
        /\ svc'[req[h].s].status \in Gone
    BY <1>1, <1>3, ConstRows DEF TypeInv, SvcOK
  <2>2. UNCHANGED grp
    BY DEF DeleteService
  <2> QED
    BY <1>3, <2>1, <2>2, RowsStay
<1> QED
  BY <1>2, <1>3 DEF DeleteService

LEMMA UpdateRows ==
    ASSUME TypeInv, Resolves, NEW h \in Requests, UpdatePostgres(h)
    PROVE  Resolves'
<1>1. req[h].s \in Services
  BY DEF TypeInv, ReqOK, Shape, UpdatePostgres
<1>2. CASE UNCHANGED svc
  BY <1>2, SameRows DEF UpdatePostgres
<1>3. CASE ~UpdateRejected(h) /\ ~UNCHANGED svc
  <2>1. /\ \A s \in Services : s # req[h].s => svc'[s] = svc[s]
        /\ svc'[req[h].s].name = req[h].new /\ svc'[req[h].s].status = svc[req[h].s].status
    BY <1>1, <1>3 DEF UpdatePostgres, TypeInv, SvcOK, Rows
  <2>2. \A t \in Services : Present(t) /\ t # req[h].s => svc[t].name # req[h].new
    BY <1>3 DEF UpdateRejected, NameFree
  <2>3. \A s \in Services : Present(s)' <=> Present(s)
    BY <2>1 DEF Present
  <2>4. \A g \in Groups : grp'[g] = grp[g]
    BY DEF UpdatePostgres
  <2>5. \A g \in Groups : grp[g].pg # None => grp[g].pg \in Services
    BY DEF TypeInv, GrpOK
  <2> QED
    BY <1>1, <2>1, <2>2, <2>3, <2>4, <2>5 DEF Resolves, PointersResolve, DeadGroups
<1> QED
  BY <1>2, <1>3 DEF UpdatePostgres

LEMMA PersistRows ==
    ASSUME TypeInv, Resolves, NEW h \in Requests, PersistEndpoint(h)
    PROVE  Resolves'
<1>1. req[h].s \in Services
  BY DEF TypeInv, ReqOK, Shape, PersistEndpoint
<1>2. \A s \in Services : svc'[s].name = svc[s].name /\ svc'[s].status = svc[s].status
  BY <1>1 DEF PersistEndpoint, TypeInv, SvcOK, Rows
<1> QED
  BY <1>2, RowsStay DEF PersistEndpoint

LEMMA StatusActionRows ==
    ASSUME TypeInv, Resolves, NEW h \in Requests,
           \/ MarkStarting(h) \/ MarkStopping(h) \/ MarkRunning(h) \/ MarkStopped(h)
           \/ MarkServiceError(h)
    PROVE  Resolves'
<1>1. req[h].s \in Services
  BY DEF TypeInv, ReqOK, Shape, MarkStarting, MarkStopping, MarkRunning, MarkStopped,
     MarkServiceError
<1>2. UNCHANGED grp /\ \E st \in Status : WriteStatus(req[h].s, st)
  BY DEF MarkStarting, MarkStopping, MarkRunning, MarkStopped, MarkServiceError, Status,
     ErrorStatus
<1> QED
  BY <1>1, <1>2, StatusRows

LEMMA NextResolves == TypeInv /\ Resolves /\ [Next]_vars => Resolves'
<1> SUFFICES ASSUME TypeInv, Resolves, [Next]_vars PROVE Resolves'
  OBVIOUS
<1>1. CASE UNCHANGED vars
  BY <1>1, SameRows DEF vars
<1>2. ASSUME NEW h \in Requests, Begin(h) PROVE Resolves'
  <2>1. ASSUME NEW s \in Services, NEW name \in Names, CreatePostgres(h, s, name)
        PROVE  Resolves'
    BY <2>1, InsertRows DEF CreatePostgres
  <2>2. ASSUME NEW g \in Groups, NEW s \in Services, NEW name \in Names,
               CreatePostgresService(h, g, s, name)
        PROVE  Resolves'
    BY <2>2, InsertRows DEF CreatePostgresService
  <2>3. CASE UNCHANGED <<grp, svc>>
    BY <2>3, SameRows
  <2> QED
    BY <1>2, <2>1, <2>2, <2>3, AttachRows, DetachRows, DeleteGroupRows
    DEF Begin, BeginUpdate, StartGroup, StopGroup, BeginDelete, StartPostgres, StopService
<1>3. ASSUME NEW h \in Requests, Work(h) PROVE Resolves'
  <2>1. CASE UNCHANGED <<grp, svc>>
    BY <2>1, SameRows
  <2> QED
    BY <1>3, <2>1, PointRows, UpdateRows, DeleteServiceRows, PersistRows, StatusActionRows
    DEF Work, RemoveOld, Run, WaitReady, StopContainer, IsRunning, ConnectNetwork, Resolve,
        DisconnectNetwork
<1>4. ASSUME NEW h \in Requests, Abort(h) PROVE Resolves'
  BY <1>4, SameRows DEF Abort
<1> QED
  BY <1>1, <1>2, <1>3, <1>4 DEF Next

(* No group ever points at a service that is gone and no two services share *)
(* a name, in whatever order any number of clients create, attach, rename   *)
(* and delete services and groups.                                          *)
THEOREM PointersAlwaysResolve == Spec => []PointersResolve
<1>1. Init => Resolves
  BY ConstRows DEF Init, Resolves, PointersResolve, DeadGroups, Present
<1>2. Spec => []TypeInv
  BY InitTypeInv, NextType, PTL DEF Spec
<1>3. Spec => []Resolves
  BY <1>1, <1>2, NextResolves, PTL DEF Spec
<1> QED
  BY <1>3, PTL DEF Resolves

-----------------------------------------------------------------------------
(* TeardownIsLocal.  What a request may do to a container follows from the   *)
(* operation it carries out, at every program counter.                      *)

Kind(r) ==
    /\ r.pc \in {"starting", "remove", "create", "ready", "persist", "running"} =>
           r.op \in {"Start", "GroupStart"}
    /\ r.pc \in {"stopping", "halt", "stopped"} => r.op = "Stop"
    /\ r.pc = "disconnect" => r.op = "GroupStop"

Kinds == \A h \in Requests : Kind(req[h])

LEMMA GotoAll ==
    ASSUME TypeInv, NEW h \in Requests, NEW l, Goto(h, l)
    PROVE  /\ req'[h].pc = l /\ req'[h].op = req[h].op /\ req'[h].g = req[h].g
           /\ req'[h].s = req[h].s /\ req'[h].name = req[h].name
           /\ OthersSame(h)
BY DEF Goto, TypeInv, ReqOK, Locals, OthersSame

LEMMA FinishAll ==
    ASSUME TypeInv, NEW h \in Requests, Finish(h)
    PROVE  req'[h] = Idle /\ Idle.pc = "idle" /\ OthersSame(h)
BY DEF Finish, TypeInv, ReqOK, Idle, OthersSame

LEMMA ReadAll ==
    ASSUME TypeInv, NEW h \in Requests, NEW op, NEW s, NEW new, NEW pc, Read(h, op, s, new, pc)
    PROVE  /\ req'[h].pc = pc /\ req'[h].op = op /\ req'[h].g = None /\ req'[h].s = s
           /\ req'[h].name = svc[s].name
           /\ OthersSame(h) /\ Present(s) /\ req[h].pc = "idle"
BY DEF Read, Allowed, TypeInv, ReqOK, OthersSame

LEMMA ReadGroupAll ==
    ASSUME TypeInv, NEW h \in Requests, NEW op, NEW g, NEW s, NEW pc, ReadForGroup(h, op, g, s, pc)
    PROVE  /\ req'[h].pc = pc /\ req'[h].op = op /\ req'[h].g = g /\ req'[h].s = s
           /\ req'[h].name = svc[s].name
           /\ OthersSame(h) /\ Present(s) /\ req[h].pc = "idle"
BY DEF ReadForGroup, Allowed, Attached, TypeInv, ReqOK, OthersSame

LEMMA CreateForAll ==
    ASSUME TypeInv, NEW h \in Requests, NEW g, NEW s, NEW name, CreatePostgresService(h, g, s, name)
    PROVE  req'[h].pc = "point" /\ req'[h].op = "CreateFor" /\ OthersSame(h)
BY DEF CreatePostgresService, Idle, TypeInv, ReqOK, OthersSame

LEMMA NewKind ==
    ASSUME Kinds, NEW h \in Requests, OthersSame(h), Kind(req'[h])
    PROVE  Kinds'
<1> SUFFICES ASSUME NEW k \in Requests PROVE Kind(req'[k])
  BY DEF Kinds
<1> QED
  BY DEF Kinds, OthersSame

LEMMA BeginKind ==
    ASSUME TypeInv, Kinds, NEW h \in Requests, Begin(h)
    PROVE  Kinds'
<1>1. ASSUME NEW op, NEW s, NEW new, NEW pc, Read(h, op, s, new, pc),
             <<op, pc>> \in {<<"Update", "update">>, <<"Delete", "delete">>,
                            <<"Start", "starting">>, <<"Stop", "stopping">>}
      PROVE  Kinds'
  BY <1>1, ReadAll, NewKind DEF Kind
<1>2. ASSUME NEW op, NEW g, NEW s, NEW pc, ReadForGroup(h, op, g, s, pc),
             <<op, pc>> \in {<<"GroupStart", "inspect">>, <<"GroupStop", "disconnect">>}
      PROVE  Kinds'
  BY <1>2, ReadGroupAll, NewKind DEF Kind
<1>3. ASSUME NEW g, NEW s, NEW name, CreatePostgresService(h, g, s, name) PROVE Kinds'
  BY <1>3, CreateForAll, NewKind DEF Kind
<1>4. CASE UNCHANGED req
  BY <1>4 DEF Kinds
<1>5. ASSUME NEW s \in Services,
             \/ \E name \in Names : BeginUpdate(h, s, name)
             \/ BeginDelete(h, s) \/ StartPostgres(h, s) \/ StopService(h, s)
      PROVE  Kinds'
  BY <1>1, <1>5 DEF BeginUpdate, BeginDelete, StartPostgres, StopService
<1>6. ASSUME NEW s \in Services, NEW g \in Groups, StartGroup(h, g, s) \/ StopGroup(h, g, s)
      PROVE  Kinds'
  BY <1>2, <1>6 DEF StartGroup, StopGroup
<1>7. ASSUME NEW s \in Services, NEW g \in Groups, AttachPostgresService(h, g, s) PROVE Kinds'
  BY <1>4, <1>7 DEF AttachPostgresService
<1>8. ASSUME NEW s \in Services, NEW name \in Names, CreatePostgres(h, s, name) PROVE Kinds'
  BY <1>4, <1>8 DEF CreatePostgres
<1>9. ASSUME NEW g \in Groups, DetachPostgresService(h, g) \/ DeleteGroup(h, g) PROVE Kinds'
  BY <1>4, <1>9 DEF DetachPostgresService, DeleteGroup
<1> QED
  BY <1>3, <1>5, <1>6, <1>7, <1>8, <1>9 DEF Begin

LEMMA WorkKind ==
    ASSUME TypeInv, Kinds, NEW h \in Requests, Work(h) \/ Abort(h)
    PROVE  Kinds'
<1>1. CASE Finish(h)
  BY <1>1, FinishAll, NewKind DEF Kind
<1>2. Kind(req[h]) /\ Shape(req[h])
  BY DEF Kinds, TypeInv, ReqOK
<1>3. ASSUME NEW l, Goto(h, l),
             \/ l \in {"connect", "resolve", "error"}
             \/ /\ req[h].pc \in {"starting", "remove", "create", "ready", "persist", "inspect"}
                /\ l \in {"starting", "remove", "create", "ready", "persist", "running"}
             \/ /\ req[h].pc \in {"stopping", "halt"}
                /\ l \in {"halt", "stopped"}
      PROVE  Kinds'
  <2>1. Kind(req'[h])
    BY <1>2, <1>3, GotoAll DEF Kind, Shape
  <2> QED
    BY <1>3, <2>1, GotoAll, NewKind
<1>4. CASE MarkStarting(h) \/ RemoveOld(h) \/ Run(h)
  BY <1>3, <1>4 DEF MarkStarting, RemoveOld, Run
<1>5. CASE WaitReady(h) \/ PersistEndpoint(h) \/ MarkRunning(h)
  BY <1>1, <1>3, <1>5 DEF WaitReady, PersistEndpoint, MarkRunning
<1>6. CASE MarkStopping(h) \/ StopContainer(h) \/ IsRunning(h) \/ ConnectNetwork(h)
  BY <1>3, <1>6 DEF MarkStopping, StopContainer, IsRunning, ConnectNetwork
<1> QED
  BY <1>1, <1>4, <1>5, <1>6 DEF Work, Abort, Point, UpdatePostgres, DeleteService,
     MarkServiceError, MarkStopped, Resolve, DisconnectNetwork

LEMMA NextKind == TypeInv /\ Kinds /\ [Next]_vars => Kinds'
<1> SUFFICES ASSUME TypeInv, Kinds, [Next]_vars PROVE Kinds'
  OBVIOUS
<1>1. CASE UNCHANGED vars
  BY <1>1 DEF vars, Kinds
<1> QED
  BY <1>1, BeginKind, WorkKind DEF Next

\* The steps that make a container go: the one of the request's own service.
LEMMA GoneKeeps ==
    ASSUME TypeInv, Kinds, NEW h \in Requests,
           req[h].pc \in {"remove", "halt"}, req'[h].pc # req[h].pc,
           \A n \in Names \ {req[h].name} : box'[n] = box[n],
           box'[req[h].name].state # "up"
    PROVE  KeepsNetworks
<1> SUFFICES ASSUME NEW n \in Names, box[n].state = "up", box'[n] # box[n]
             PROVE  /\ box'[n].state # "up"
                    /\ \E k \in Requests : /\ req[k].op \in {"Start", "Stop", "GroupStart"}
                                           /\ req[k] # req'[k]
  BY DEF KeepsNetworks
<1>1. req[h].op \in {"Start", "Stop", "GroupStart"} /\ req[h] # req'[h]
  BY DEF Kinds, Kind
<1> QED
  BY <1>1

LEMMA StaysKeeps ==
    ASSUME \A n \in Names : box[n].state = "up" =>
               box'[n].state = "up" /\ box[n].nets \subseteq box'[n].nets
    PROVE  KeepsNetworks
BY DEF KeepsNetworks

LEMMA BoxKeeps ==
    ASSUME TypeInv, Kinds, NEW h \in Requests, Begin(h) \/ Work(h) \/ Abort(h)
    PROVE  KeepsNetworks
<1>1. CASE UNCHANGED box
  BY <1>1, StaysKeeps
<1>2. ASSUME req[h].pc # "idle", req[h].pc # "point"
      PROVE  req[h].name \in Names /\ Shape(req[h])
  BY <1>2 DEF TypeInv, ReqOK, Shape
<1>3. NoBox.state # "up"
  BY DEF NoBox
<1>4. ASSUME RemoveOld(h) \/ StopContainer(h), ~UNCHANGED box PROVE KeepsNetworks
  <2>1. /\ req[h].pc \in {"remove", "halt"} /\ box' = [box EXCEPT ![req[h].name] = NoBox]
        /\ \E l \in {"create", "stopped"} : Goto(h, l)
    BY <1>4 DEF RemoveOld, StopContainer
  <2>2. req'[h].pc # req[h].pc
    BY <2>1, GotoAll
  <2>3. /\ \A n \in Names \ {req[h].name} : box'[n] = box[n]
        /\ box'[req[h].name].state # "up"
    BY <1>2, <1>3, <2>1 DEF TypeInv, BoxOK
  <2> QED
    BY <2>1, <2>2, <2>3, GoneKeeps
<1>5. ASSUME req[h].pc = "create", box[req[h].name] = NoBox,
             NEW b, box' = [box EXCEPT ![req[h].name] = b]
      PROVE  KeepsNetworks
  <2>2. \A n \in Names : box[n].state = "up" => box'[n] = box[n]
    BY <1>2, <1>3, <1>5 DEF TypeInv, BoxOK
  <2> QED
    BY <2>2, StaysKeeps
<1>6. ASSUME ConnectNetwork(h), ~UNCHANGED box PROVE KeepsNetworks
  <2>1. box' = [box EXCEPT ![req[h].name].nets = @ \cup {NetworkOf(h)}] /\ req[h].pc = "connect"
    BY <1>6 DEF ConnectNetwork
  <2>2. \A n \in Names : box'[n].state = box[n].state /\ box[n].nets \subseteq box'[n].nets
    BY <1>2, <2>1 DEF TypeInv, BoxOK, Boxes
  <2> QED
    BY <2>2, StaysKeeps
<1>7. ASSUME DisconnectNetwork(h), ~UNCHANGED box PROVE KeepsNetworks
  <2>1. /\ box' = [box EXCEPT ![req[h].name] = Leave(@, NetworkOf(h))]
        /\ req[h].pc = "disconnect"
    BY <1>7 DEF DisconnectNetwork
  <2>2. req[h].op = "GroupStop" /\ NetworkOf(h) = req[h].g
    BY <1>2, <2>1, NoneFresh DEF Shape, NetworkOf
  <2>3. \A n \in Names : /\ box'[n].state = box[n].state
                         /\ box[n].nets \ box'[n].nets \subseteq {req[h].g}
    BY <1>2, <2>1, <2>2 DEF Leave, TypeInv, BoxOK, Boxes
  <2> QED
    BY <2>2, <2>3 DEF KeepsNetworks
<1>8. ASSUME Abort(h), req[h].pc = "halt", ~UNCHANGED box PROVE KeepsNetworks
  <2>1. box' = [box EXCEPT ![req[h].name].state = "down"] /\ Finish(h)
    BY <1>8 DEF Abort
  <2>2. /\ \A n \in Names \ {req[h].name} : box'[n] = box[n]
        /\ box'[req[h].name].state # "up"
    BY <1>2, <1>8, <2>1 DEF TypeInv, BoxOK, Boxes
  <2>3. req'[h].pc # req[h].pc
    BY <1>8, <2>1, FinishAll
  <2> QED
    BY <1>8, <2>2, <2>3, GoneKeeps
<1>9. CASE Begin(h)
  BY <1>1, <1>9 DEF Begin, CreatePostgres, BeginUpdate, CreatePostgresService,
     AttachPostgresService, StartGroup, StopGroup, BeginDelete, StartPostgres, StopService,
     DetachPostgresService, DeleteGroup
<1>10. CASE Work(h)
  <2>1. CASE UNCHANGED box
    BY <1>1, <2>1
  <2>2. CASE ~UNCHANGED box
    <3>1. RemoveOld(h) \/ StopContainer(h) \/ Run(h) \/ ConnectNetwork(h) \/ DisconnectNetwork(h)
      BY <1>10, <2>2 DEF Work, Point, UpdatePostgres, DeleteService, MarkStarting, WaitReady,
         PersistEndpoint, MarkRunning, MarkServiceError, MarkStopping, MarkStopped, IsRunning,
         Resolve
    <3>2. CASE RemoveOld(h)
      BY <1>4, <2>2, <3>2
    <3>6. CASE StopContainer(h)
      BY <1>4, <2>2, <3>6
    <3>3. CASE Run(h)
      BY <1>5, <2>2, <3>3 DEF Run
    <3>4. CASE ConnectNetwork(h)
      BY <1>6, <2>2, <3>4
    <3>5. CASE DisconnectNetwork(h)
      BY <1>7, <2>2, <3>5
    <3> QED
      BY <3>1, <3>2, <3>3, <3>4, <3>5, <3>6
  <2> QED BY <2>1, <2>2
<1>11. CASE Abort(h)
  BY <1>1, <1>5, <1>8, <1>11 DEF Abort
<1> QED
  BY <1>9, <1>10, <1>11

LEMMA KindsAlways == Spec => [](TypeInv /\ Kinds)
<1>1. Init => Kinds
  BY DEF Init, Kinds, Kind, Idle
<1> QED
  BY <1>1, InitTypeInv, NextType, NextKind, PTL DEF Spec

(* Whatever interleaves, fails or is cut off, and for any number of groups   *)
(* on one container: it leaves a network only when that network's own group *)
(* stops, and no group's stop takes a container away.                       *)
THEOREM TeardownAlwaysLocal == Spec => TeardownIsLocal
<1>1. TypeInv /\ Kinds /\ [Next]_vars => [KeepsNetworks]_vars
  BY BoxKeeps DEF Next
<1> QED
  BY <1>1, KindsAlways, PTL DEF Spec, TeardownIsLocal

-----------------------------------------------------------------------------
(* What a step of request h does to the rows, the containers and the groups *)
(* on them, whatever else is in flight.                                     *)

\* A request that read a row holds one that was inserted: ids are not used twice.
Known == \A h \in Requests :
    req[h].pc \notin {"idle", "point"} => svc[req[h].s].status # "unborn"

RowStep(h, t) ==
    \/ svc'[t] = svc[t]
    \/ svc[t].status = "unborn" /\ svc'[t].status = "CREATED"
    \/ svc[t].status # "unborn" /\ svc'[t] = Deleted
    \/ /\ t = req[h].s /\ Present(t) /\ svc'[t].name = svc[t].name
       /\ \/ svc'[t].status \in Status \ {"RUNNING"} /\ svc'[t].dep = svc[t].dep
          \/ /\ req[h].pc = "running"
             /\ svc'[t].status = "RUNNING" /\ svc'[t].dep = svc[t].dep
          \/ /\ req[h].pc = "persist"
             /\ svc'[t].status = svc[t].status /\ svc'[t].dep = req[h].name
    \/ /\ t = req[h].s /\ Present(t) /\ req[h].pc = "update"
       /\ svc'[t].status = svc[t].status

BoxStep(h, n) ==
    \/ box'[n].state = box[n].state /\ box[n].nets \subseteq box'[n].nets
    \/ n = req[h].name /\ req[h].pc \in {"remove", "create", "halt"}
    \/ /\ n = req[h].name /\ req[h].pc = "disconnect"
       /\ box'[n].state = box[n].state /\ box[n].nets \ {req[h].g} \subseteq box'[n].nets

JoinStep(h, g) ==
    \/ joined'[g] \in {joined[g], None}
    \/ req[h].pc = "resolve" /\ g = req[h].g /\ joined'[g] = req[h].name

Step(h) == Begin(h) \/ Work(h) \/ Abort(h)

LEMMA OnlyOwn ==
    ASSUME TypeInv, NEW h \in Requests, Step(h)
    PROVE  OthersSame(h)
<1>1. CASE UNCHANGED req
  BY <1>1 DEF OthersSame
<1>2. CASE Begin(h)
  BY <1>1, <1>2, ReadAll, ReadGroupAll, CreateForAll
  DEF Begin, CreatePostgres, BeginUpdate, AttachPostgresService, StartGroup, StopGroup, BeginDelete,
      StartPostgres, StopService, DetachPostgresService, DeleteGroup
<1>3. CASE Finish(h)
  BY <1>3, FinishAll
<1>4. CASE \E l \in Pcs : Goto(h, l)
  BY <1>4, GotoAll
<1>5. CASE Work(h)
  BY <1>3, <1>4, <1>5
  DEF Work, Point, UpdatePostgres, DeleteService, MarkStarting, RemoveOld, Run, WaitReady,
      PersistEndpoint, MarkRunning, MarkServiceError, MarkStopping, StopContainer, MarkStopped,
      IsRunning, ConnectNetwork, Resolve, DisconnectNetwork, Pcs
<1>6. CASE Abort(h)
  BY <1>3, <1>6 DEF Abort
<1> QED
  BY <1>2, <1>5, <1>6 DEF Step

\* A status written to a row that is there.
LEMMA WriteAll ==
    ASSUME TypeInv, NEW s \in Services, NEW st \in Status, Present(s), WriteStatus(s, st)
    PROVE  /\ \A t \in Services \ {s} : svc'[t] = svc[t]
           /\ svc'[s].status = st /\ svc'[s].name = svc[s].name /\ svc'[s].dep = svc[s].dep
           /\ Present(s)'
BY DEF WriteStatus, TypeInv, SvcOK, Rows, Present, Status, Gone

LEMMA WriteGone ==
    ASSUME TypeInv, NEW s \in Services, NEW st, ~Present(s), WriteStatus(s, st)
    PROVE  \A t \in Services : svc'[t] = svc[t]
BY DEF WriteStatus, TypeInv, SvcOK, Rows, Present

LEMMA WriteRow ==
    ASSUME TypeInv, NEW h \in Requests, NEW t \in Services, NEW st \in Status,
           req[h].s \in Services, WriteStatus(req[h].s, st),
           st = "RUNNING" => req[h].pc = "running"
    PROVE  RowStep(h, t)
<1>1. CASE Present(req[h].s)
  BY <1>1, WriteAll DEF RowStep
<1>2. CASE ~Present(req[h].s)
  BY <1>2, WriteGone DEF RowStep
<1> QED
  BY <1>1, <1>2

LEMMA RowEffect ==
    ASSUME TypeInv, Known, NEW h \in Requests, Step(h), NEW t \in Services
    PROVE  RowStep(h, t)
<1>1. CASE UNCHANGED svc
  BY <1>1 DEF RowStep
<1>2. ASSUME NEW s \in Services, NEW name, NEW owner, Insert(s, name, owner)
      PROVE  RowStep(h, t)
  <2>1. s >= s
    BY DEF Services
  <2>2. svc[s].status = "unborn" /\ Row("CREATED", name, owner).status = "CREATED"
    BY <1>2, <2>1 DEF Insert, Row
  <2> QED
    BY <1>2, <2>2 DEF Insert, RowStep, TypeInv, SvcOK
<1>3. ASSUME NEW g \in Groups, DeleteGroup(h, g) PROVE RowStep(h, t)
  BY <1>3 DEF DeleteGroup, RowStep, Present, Gone
<1>4. CASE Begin(h)
  BY <1>1, <1>2, <1>3, <1>4
  DEF Begin, CreatePostgres, CreatePostgresService, BeginUpdate, AttachPostgresService, StartGroup,
      StopGroup, BeginDelete, StartPostgres, StopService, DetachPostgresService
<1>5. ASSUME req[h].pc # "idle" PROVE req[h].s \in Services
  BY <1>5 DEF TypeInv, ReqOK, Shape
<1>6. CASE MarkStarting(h) \/ MarkServiceError(h) \/ MarkStopping(h) \/ MarkStopped(h)
  <2>1. \E st \in Status \ {"RUNNING"} : WriteStatus(req[h].s, st)
    BY <1>6 DEF MarkStarting, MarkServiceError, MarkStopping, MarkStopped, ErrorStatus, Status
  <2> QED
    BY <1>5, <1>6, <2>1, WriteRow DEF MarkStarting, MarkServiceError, MarkStopping, MarkStopped
<1>7. CASE MarkRunning(h)
  <2>1. "RUNNING" \in Status
    BY DEF Status
  <2> QED
    BY <1>5, <1>7, <2>1, WriteRow DEF MarkRunning
<1>8. CASE PersistEndpoint(h)
  <2>1. CASE ~Present(req[h].s)
    BY <1>1, <1>8, <2>1 DEF PersistEndpoint
  <2>2. CASE Present(req[h].s)
    <3>1. svc' = [svc EXCEPT ![req[h].s].dep = req[h].name] /\ req[h].pc = "persist"
      BY <1>8, <2>2 DEF PersistEndpoint
    <3> QED
      BY <1>5, <2>2, <3>1 DEF RowStep, TypeInv, SvcOK, Rows
  <2> QED BY <2>1, <2>2
<1>9. CASE UpdatePostgres(h)
  <2>1. CASE UpdateRejected(h)
    BY <1>1, <1>9, <2>1 DEF UpdatePostgres
  <2>2. CASE ~UpdateRejected(h)
    <3>1. /\ svc' = [svc EXCEPT ![req[h].s].name = req[h].new, ![req[h].s].dep = req[h].dep]
          /\ req[h].pc = "update" /\ Present(req[h].s)
      BY <1>9, <2>2 DEF UpdatePostgres, UpdateRejected
    <3> QED
      BY <1>5, <3>1 DEF RowStep, TypeInv, SvcOK, Rows
  <2> QED BY <2>1, <2>2
<1>10. CASE DeleteService(h)
  <2>1. UNCHANGED svc \/ svc' = [svc EXCEPT ![req[h].s] = Deleted]
    BY <1>10 DEF DeleteService
  <2>2. svc[req[h].s].status # "unborn"
    BY <1>10 DEF DeleteService, Known
  <2> QED
    BY <1>1, <1>5, <2>1, <2>2 DEF RowStep, TypeInv, SvcOK
<1>11. CASE Work(h)
  BY <1>1, <1>6, <1>7, <1>8, <1>9, <1>10, <1>11
  DEF Work, Point, RemoveOld, Run, WaitReady, StopContainer, IsRunning, ConnectNetwork, Resolve,
      DisconnectNetwork
<1>12. CASE Abort(h)
  BY <1>1, <1>12 DEF Abort
<1> QED
  BY <1>4, <1>11, <1>12 DEF Step

LEMMA BoxEffect ==
    ASSUME TypeInv, NEW h \in Requests, Step(h), NEW n \in Names
    PROVE  BoxStep(h, n)
<1>1. CASE UNCHANGED box
  BY <1>1 DEF BoxStep
<1>2. CASE ~UNCHANGED box
  <2>1. \/ RemoveOld(h) \/ StopContainer(h) \/ Run(h) \/ ConnectNetwork(h) \/ DisconnectNetwork(h)
        \/ Abort(h)
    BY <1>2
    DEF Step, Begin, CreatePostgres, BeginUpdate, CreatePostgresService, AttachPostgresService,
        StartGroup, StopGroup, BeginDelete, StartPostgres, StopService, DetachPostgresService,
        DeleteGroup, Work, Point, UpdatePostgres, DeleteService, MarkStarting, WaitReady,
        PersistEndpoint, MarkRunning, MarkServiceError, MarkStopping, MarkStopped, IsRunning, Resolve
  <2>2. req[h].pc \notin {"idle", "point"}
    BY <1>2, <2>1 DEF RemoveOld, StopContainer, Run, ConnectNetwork, DisconnectNetwork, Abort
  <2>3. req[h].name \in Names /\ Shape(req[h])
    BY <2>2 DEF TypeInv, ReqOK, Shape
  <2>4. CASE n # req[h].name
    <3>1. box'[n] = box[n]
      BY <2>1, <2>3, <2>4
      DEF RemoveOld, StopContainer, Run, ConnectNetwork, DisconnectNetwork, Abort, TypeInv, BoxOK
    <3> QED
      BY <3>1 DEF BoxStep
  <2>5. CASE n = req[h].name /\ req[h].pc \in {"remove", "create", "halt"}
    BY <2>5 DEF BoxStep
  <2>6. CASE n = req[h].name /\ ConnectNetwork(h)
    BY <1>2, <2>6 DEF ConnectNetwork, BoxStep, TypeInv, BoxOK, Boxes
  <2>7. CASE n = req[h].name /\ DisconnectNetwork(h)
    <3>1. req[h].g \in Groups /\ NetworkOf(h) = req[h].g /\ req[h].pc = "disconnect"
      BY <2>3, <2>7, NoneFresh DEF DisconnectNetwork, Shape, NetworkOf
    <3>2. box' = [box EXCEPT ![n].nets = @ \ {req[h].g}]
      BY <1>2, <2>7, <3>1 DEF DisconnectNetwork, Leave
    <3> QED
      BY <2>7, <3>1, <3>2 DEF BoxStep, TypeInv, BoxOK, Boxes
  <2> QED
    BY <1>2, <2>1, <2>4, <2>5, <2>6, <2>7 DEF RemoveOld, StopContainer, Run, Abort
<1> QED
  BY <1>1, <1>2

LEMMA JoinEffect ==
    ASSUME TypeInv, NEW h \in Requests, Step(h), NEW g \in Groups
    PROVE  JoinStep(h, g)
<1>1. CASE UNCHANGED joined
  BY <1>1 DEF JoinStep
<1>2. CASE \E name \in Names : Release(name)
  BY <1>2 DEF Release, JoinStep
<1>3. CASE \E k \in Groups : joined' = [joined EXCEPT ![k] = None]
  BY <1>3 DEF JoinStep, TypeInv, HistOK
<1>4. CASE Resolve(h)
  BY <1>4 DEF Resolve, JoinStep, TypeInv, HistOK
<1>5. CASE Begin(h)
  <2>1. ASSUME NEW s \in Services, StartPostgres(h, s) \/ StopService(h, s)
        PROVE  \E name \in Names : Release(name)
    BY <2>1, PresentName DEF StartPostgres, StopService, Read, TypeInv
  <2> QED
    BY <1>1, <1>2, <1>3, <1>5, <2>1
    DEF Begin, CreatePostgres, CreatePostgresService, BeginUpdate, AttachPostgresService, StartGroup,
        StopGroup, BeginDelete, DetachPostgresService, DeleteGroup
<1>6. CASE Work(h)
  BY <1>1, <1>4, <1>6
  DEF Work, Point, UpdatePostgres, DeleteService, MarkStarting, RemoveOld, Run, WaitReady,
      PersistEndpoint, MarkRunning, MarkServiceError, MarkStopping, StopContainer, MarkStopped,
      IsRunning, ConnectNetwork, DisconnectNetwork
<1>7. CASE Abort(h)
  BY <1>1, <1>7 DEF Abort
<1> QED
  BY <1>5, <1>6, <1>7 DEF Step

\* Where a step leads the request itself.
LEMMA OwnMove ==
    ASSUME TypeInv, NEW h \in Requests, Work(h) \/ Abort(h)
    PROVE  Finish(h) \/ \E l \in Pcs : Goto(h, l)
BY DEF Work, Point, UpdatePostgres, DeleteService, MarkStarting, RemoveOld, Run, WaitReady,
       PersistEndpoint, MarkRunning, MarkServiceError, MarkStopping, StopContainer, MarkStopped,
       IsRunning, ConnectNetwork, Resolve, DisconnectNetwork, Abort, Pcs

-----------------------------------------------------------------------------
(* RunningMeansServed, when no two requests change one container at once.   *)

\* From the first look at a container to the status that says how it went.
Changing == {"update", "starting", "remove", "create", "ready", "persist", "running",
             "stopping", "halt"}

\* While a request changes what a name stands for, no other does or is about to.
Apart == \A h, k \in Requests :
    h # k /\ req[h].name = req[k].name /\ req[h].pc \in Changing =>
        req[k].pc \notin Changing \cup {"inspect"}

\* Requests that do not overlap at all are apart.
OneAtATime == \A h, k \in Requests : h = k

Served(s) == box[svc[s].name].state = "up" /\ svc[s].dep = svc[s].name

\* What a request knows of the row it read, which may be gone by now, and of
\* the container it changes.
OwnRow(h) ==
    LET s == req[h].s
        n == req[h].name IN
    /\ req[h].pc \in Changing \cup {"inspect"} =>
           /\ Present(s) => svc[s].name = n
           /\ \A t \in Services \ {s} : svc[t].status = "RUNNING" => svc[t].name # n
    /\ req[h].pc \in Changing \ {"starting", "stopping"} => svc[s].status # "RUNNING"
    /\ req[h].pc \in {"persist", "running"} => box[n].state = "up"
    /\ req[h].pc = "running" /\ Present(s) => svc[s].dep = n

AllServed == \A s \in Services : svc[s].status = "RUNNING" => Served(s)

ServedInv ==
    /\ Known /\ AllServed
    /\ \A h \in Requests : OwnRow(h)

\* A request starts from a row that is there, or from none.
LEMMA BeginReads ==
    ASSUME TypeInv, NEW h \in Requests, Begin(h), req'[h].pc \notin {"idle", "point"}
    PROVE  \E s \in Services :
               /\ Present(s) /\ UNCHANGED <<svc, box>>
               /\ req'[h].s = s /\ req'[h].name = svc[s].name
               /\ req'[h].pc \in {"update", "delete", "starting", "stopping", "inspect", "disconnect"}
               /\ req'[h].pc = "update" => svc[s].status # "RUNNING"
<1>1. ASSUME NEW s \in Services, NEW name \in Names, BeginUpdate(h, s, name)
      PROVE  Present(s) /\ UNCHANGED <<svc, box>> /\ req'[h].s = s /\ req'[h].name = svc[s].name
             /\ req'[h].pc = "update" /\ svc[s].status # "RUNNING"
  BY <1>1, ReadAll DEF BeginUpdate
<1>2. ASSUME NEW s \in Services, BeginDelete(h, s) \/ StartPostgres(h, s) \/ StopService(h, s)
      PROVE  Present(s) /\ UNCHANGED <<svc, box>> /\ req'[h].s = s /\ req'[h].name = svc[s].name
             /\ req'[h].pc \in {"delete", "starting", "stopping"}
  BY <1>2, ReadAll DEF BeginDelete, StartPostgres, StopService
<1>3. ASSUME NEW g \in Groups, NEW s \in Services, StartGroup(h, g, s) \/ StopGroup(h, g, s)
      PROVE  Present(s) /\ UNCHANGED <<svc, box>> /\ req'[h].s = s /\ req'[h].name = svc[s].name
             /\ req'[h].pc \in {"inspect", "disconnect"}
  BY <1>3, ReadGroupAll DEF StartGroup, StopGroup
<1>4. ASSUME NEW s \in Services, NEW name \in Names, CreatePostgres(h, s, name) PROVE req'[h].pc = "idle"
  BY <1>4 DEF CreatePostgres, Allowed
<1>5. ASSUME NEW g \in Groups, NEW s \in Services, NEW name \in Names,
             CreatePostgresService(h, g, s, name)
      PROVE  req'[h].pc = "point"
  BY <1>5, CreateForAll
<1>6. ASSUME NEW g \in Groups,
             \/ \E s \in Services : AttachPostgresService(h, g, s)
             \/ DetachPostgresService(h, g) \/ DeleteGroup(h, g)
      PROVE  req'[h].pc = "idle"
  BY <1>6 DEF AttachPostgresService, DetachPostgresService, DeleteGroup, Allowed
<1> QED
  BY <1>1, <1>2, <1>3, <1>4, <1>5, <1>6 DEF Begin

LEMMA KnownStep ==
    ASSUME TypeInv, Known, NEW h \in Requests, Step(h)
    PROVE  Known'
<1> SUFFICES ASSUME NEW k \in Requests, req'[k].pc \notin {"idle", "point"}
             PROVE  svc'[req'[k].s].status # "unborn"
  BY DEF Known
<1>1. \A t \in Services : svc[t].status # "unborn" => svc'[t].status # "unborn"
  BY RowEffect, ConstRows DEF RowStep, Status, Deleted, Row
<1>2. ASSUME req[k].pc \notin {"idle", "point"}, req'[k].s = req[k].s
      PROVE  svc'[req'[k].s].status # "unborn"
  <2>1. req[k].s \in Services
    BY <1>2 DEF TypeInv, ReqOK, Shape
  <2> QED
    BY <1>1, <1>2, <2>1 DEF Known
<1>3. CASE k # h
  BY <1>2, <1>3, OnlyOwn DEF OthersSame
<1>4. CASE k = h /\ (Work(h) \/ Abort(h))
  <2>1. Finish(h) \/ \E l \in Pcs : Goto(h, l)
    BY <1>4, OwnMove
  <2>2. ~Finish(h)
    BY <1>4, FinishAll
  <2>3. req[h].pc \notin {"idle", "point"}
    BY <1>4, <2>2
    DEF Work, Point, UpdatePostgres, DeleteService, MarkStarting, RemoveOld, Run, WaitReady,
        PersistEndpoint, MarkRunning, MarkServiceError, MarkStopping, StopContainer, MarkStopped,
        IsRunning, ConnectNetwork, Resolve, DisconnectNetwork, Abort
  <2> QED
    BY <1>2, <1>4, <2>1, <2>2, <2>3, GotoAll
<1>5. CASE k = h /\ Begin(h)
  <2>1. PICK s \in Services : Present(s) /\ UNCHANGED svc /\ req'[h].s = s
    BY <1>5, BeginReads
  <2> QED
    BY <1>5, <2>1 DEF Present, Gone
<1> QED
  BY <1>3, <1>4, <1>5 DEF Step

\* A request changes the container of its own row only, and the row of a
\* container that goes is not RUNNING.
LEMMA RowsServed ==
    ASSUME TypeInv, ServedInv, NEW h \in Requests, Step(h)
    PROVE  AllServed'
<1> SUFFICES ASSUME NEW t \in Services, svc'[t].status = "RUNNING" PROVE Served(t)'
  BY DEF AllServed
<1>1. RowStep(h, t) /\ OwnRow(h)
  BY RowEffect DEF ServedInv
<1>2. CASE svc'[t] = svc[t]
  <2>1. Present(t) /\ Served(t)
    BY <1>2 DEF Present, Gone, ServedInv, AllServed
  <2>2. svc[t].name \in Names
    BY <2>1, PresentName DEF TypeInv
  <2>3. ~(svc[t].name = req[h].name /\ req[h].pc \in {"remove", "create", "halt"})
    BY <1>1, <1>2 DEF OwnRow, Changing
  <2>4. BoxStep(h, svc[t].name)
    BY <2>2, BoxEffect
  <2> QED
    BY <1>2, <2>1, <2>3, <2>4 DEF BoxStep, Served
<1>3. CASE /\ t = req[h].s /\ Present(t) /\ req[h].pc = "running"
           /\ svc'[t].name = svc[t].name /\ svc'[t].dep = svc[t].dep
  <2>1. svc[t].name = req[h].name /\ Served(t)
    BY <1>1, <1>3 DEF OwnRow, Changing, Served
  <2>2. BoxStep(h, svc[t].name)
    BY <1>3, PresentName, BoxEffect DEF TypeInv
  <2> QED
    BY <1>3, <2>1, <2>2 DEF BoxStep, Served
<1>4. CASE t = req[h].s /\ req[h].pc \in {"persist", "update"} /\ svc'[t].status = svc[t].status
  BY <1>1, <1>4 DEF OwnRow, Changing
<1> QED
  BY <1>1, <1>2, <1>3, <1>4 DEF RowStep, Deleted, Row

\* What another request knows stays true, or the two were not apart.
LEMMA OthersRow ==
    ASSUME TypeInv, Apart, ServedInv, NEW h \in Requests, Step(h), NEW k \in Requests, k # h
    PROVE  OwnRow(k)'
<1> DEFINE s == req[k].s
           n == req[k].name
<1>1. req'[k] = req[k] /\ OwnRow(h) /\ OwnRow(k)
  BY OnlyOwn DEF OthersSame, ServedInv
<1>2. ASSUME req[k].pc \in Changing \cup {"inspect"}
      PROVE  /\ s \in Services /\ n \in Names /\ svc[s].status # "unborn"
             /\ req[h].pc \in Changing => req[h].name # n
             /\ RowStep(h, s) /\ BoxStep(h, n)
  <2>1. req[k].pc \notin {"idle", "point"}
    BY <1>2 DEF Changing
  <2>2. s \in Services /\ n \in Names /\ svc[s].status # "unborn"
    BY <2>1 DEF TypeInv, ReqOK, Shape, ServedInv, Known
  <2>3. req[h].pc \in Changing => req[h].name # n
    BY <1>2 DEF Apart
  <2> QED
    BY <2>2, <2>3, RowEffect, BoxEffect DEF ServedInv
<1>3. ASSUME req[k].pc \in Changing \cup {"inspect"}, svc'[s].status \notin Gone
      PROVE  /\ Present(s) /\ svc'[s].name = svc[s].name
             /\ req[h].pc # "persist" => svc'[s].dep = svc[s].dep
  <2>1. RowStep(h, s) /\ svc[s].status # "unborn"
    BY <1>2, <1>3
  <2>2. Deleted.status \in Gone
    BY ConstRows
  <2>3. ASSUME s = req[h].s, Present(s), req[h].pc = "update" PROVE FALSE
    <3>1. req[h].name = svc[s].name /\ n = svc[s].name
      BY <1>1, <1>3, <2>3 DEF OwnRow, Changing
    <3> QED
      BY <1>2, <1>3, <2>3, <3>1 DEF Changing
  <2> QED
    BY <1>3, <2>1, <2>2, <2>3 DEF RowStep, Present
<1>4. ASSUME req[k].pc \in Changing \cup {"inspect"}
      PROVE  /\ svc'[s].status \notin Gone => svc'[s].name = n
             /\ \A t \in Services \ {s} : svc'[t].status = "RUNNING" => svc'[t].name # n
  <2>1. svc'[s].status \notin Gone => svc'[s].name = n
    BY <1>1, <1>3, <1>4 DEF OwnRow
  <2>2. ASSUME NEW t \in Services \ {s}, svc'[t].status = "RUNNING" PROVE svc'[t].name # n
    <3>1. RowStep(h, t)
      BY RowEffect DEF ServedInv
    <3>2. CASE svc'[t].status = svc[t].status /\ svc'[t].name = svc[t].name
      BY <1>1, <1>4, <2>2, <3>2 DEF OwnRow
    <3>3. CASE t = req[h].s /\ Present(t) /\ req[h].pc = "running" /\ svc'[t].name = svc[t].name
      <4>1. svc[t].name = req[h].name
        BY <1>1, <3>3 DEF OwnRow, Changing
      <4> QED
        BY <1>2, <1>4, <3>3, <4>1 DEF Changing
    <3>4. CASE t = req[h].s /\ req[h].pc = "update" /\ svc'[t].status = svc[t].status
      BY <1>1, <2>2, <3>4 DEF OwnRow, Changing
    <3> QED
      BY <2>2, <3>1, <3>2, <3>3, <3>4 DEF RowStep, Deleted, Row
  <2> QED
    BY <2>1, <2>2
<1>5. ASSUME req[k].pc \in Changing \ {"starting", "stopping"} PROVE svc'[s].status # "RUNNING"
  <2>1. RowStep(h, s) /\ svc[s].status # "RUNNING"
    BY <1>1, <1>2, <1>5 DEF OwnRow
  <2>2. ASSUME s = req[h].s, Present(s), req[h].pc = "running" PROVE FALSE
    <3>1. req[h].name = svc[s].name /\ n = svc[s].name
      BY <1>1, <1>5, <2>2 DEF OwnRow, Changing
    <3> QED
      BY <1>2, <1>5, <2>2, <3>1 DEF Changing
  <2> QED
    BY <2>1, <2>2 DEF RowStep, Deleted, Row
<1>6. ASSUME req[k].pc \in {"persist", "running"} PROVE box'[n].state = "up"
  <2>1. BoxStep(h, n) /\ box[n].state = "up" /\ (req[h].pc \in Changing => req[h].name # n)
    BY <1>1, <1>2, <1>6 DEF OwnRow, Changing
  <2> QED
    BY <2>1 DEF BoxStep, Changing
<1>7. ASSUME req[k].pc = "running", svc'[s].status \notin Gone PROVE svc'[s].dep = n
  <2>1. Present(s) /\ svc[s].dep = n /\ svc[s].name = n /\ RowStep(h, s)
    BY <1>1, <1>2, <1>3, <1>7 DEF OwnRow, Changing
  <2>2. req[h].pc = "persist" => s # req[h].s
    BY <1>1, <1>2, <1>7, <2>1 DEF OwnRow, Changing
  <2> QED
    BY <1>3, <1>7, <2>1, <2>2 DEF RowStep, Changing, Deleted, Row, Present, Gone
<1> QED
  BY <1>1, <1>4, <1>5, <1>6, <1>7 DEF OwnRow, Present

\* A request that is not changing anything claims nothing.
LEMMA FreeRow ==
    ASSUME NEW h \in Requests, req'[h].pc \notin Changing \cup {"inspect"}
    PROVE  OwnRow(h)'
BY DEF OwnRow, Changing

LEMMA BeginRow ==
    ASSUME TypeInv, PointersResolve, NEW h \in Requests, Begin(h)
    PROVE  OwnRow(h)'
<1>1. CASE req'[h].pc \in {"idle", "point"}
  BY <1>1, FreeRow DEF Changing
<1>2. CASE req'[h].pc \notin {"idle", "point"}
  <2>1. PICK s \in Services :
            /\ Present(s) /\ UNCHANGED <<svc, box>>
            /\ req'[h].s = s /\ req'[h].name = svc[s].name
            /\ req'[h].pc \in {"update", "delete", "starting", "stopping", "inspect", "disconnect"}
            /\ req'[h].pc = "update" => svc[s].status # "RUNNING"
    BY <1>2, BeginReads
  <2>2. \A t \in Services \ {s} : svc[t].status = "RUNNING" => svc[t].name # svc[s].name
    BY <2>1 DEF PointersResolve, Present, Gone
  <2> QED
    BY <2>1, <2>2 DEF OwnRow, Present, Changing
<1> QED
  BY <1>1, <1>2

\* The steps of a script that leave the rows alone.
LEMMA KeepRow ==
    ASSUME TypeInv, ServedInv, NEW h \in Requests, UNCHANGED svc, NEW l, Goto(h, l),
           \/ req[h].pc = "inspect" /\ l = "starting"
           \/ req[h].pc = "remove" /\ l = "create"
           \/ req[h].pc = "create" /\ l = "ready"
           \/ req[h].pc = "ready" /\ l = "persist" /\ box'[req[h].name].state = "up"
    PROVE  OwnRow(h)'
<1>1. OwnRow(h)
  BY DEF ServedInv
<1>2. req'[h].pc = l /\ req'[h].s = req[h].s /\ req'[h].name = req[h].name
  BY GotoAll
<1> QED
  BY <1>1, <1>2 DEF OwnRow, Changing, Present

\* The steps that write the row: STARTING and STOPPING take RUNNING away.
LEMMA MarkRow ==
    ASSUME TypeInv, ServedInv, NEW h \in Requests, MarkStarting(h) \/ MarkStopping(h)
    PROVE  OwnRow(h)'
<1> DEFINE s == req[h].s
<1>1. OwnRow(h) /\ s \in Services
  BY DEF ServedInv, MarkStarting, MarkStopping, TypeInv, ReqOK, Shape
<1>2. /\ req'[h].pc \in {"remove", "halt"} /\ req'[h].s = s /\ req'[h].name = req[h].name
      /\ req[h].pc \in {"starting", "stopping"}
  BY GotoAll DEF MarkStarting, MarkStopping
<1>3. \E st \in Status \ {"RUNNING"} : WriteStatus(s, st)
  BY DEF MarkStarting, MarkStopping, Status
<1>4. /\ \A t \in Services \ {s} : svc'[t] = svc[t]
      /\ svc'[s].status # "RUNNING" /\ svc'[s].name = svc[s].name
      /\ svc'[s].status \notin Gone => Present(s)
  <2>1. CASE Present(s)
    BY <1>1, <1>3, <2>1, WriteAll
  <2>2. CASE ~Present(s)
    BY <1>1, <1>3, <2>2, WriteGone DEF Present, Gone
  <2> QED BY <2>1, <2>2
<1> QED
  BY <1>1, <1>2, <1>4 DEF OwnRow, Changing, Present

LEMMA PersistRow ==
    ASSUME TypeInv, ServedInv, NEW h \in Requests, PersistEndpoint(h)
    PROVE  OwnRow(h)'
<1> DEFINE s == req[h].s
<1>1. OwnRow(h) /\ s \in Services /\ req[h].pc = "persist" /\ UNCHANGED box
  BY DEF ServedInv, PersistEndpoint, TypeInv, ReqOK, Shape
<1>2. CASE Present(s)
  <2>1. svc' = [svc EXCEPT ![s].dep = req[h].name] /\ Goto(h, "running")
    BY <1>2 DEF PersistEndpoint
  <2>2. /\ \A t \in Services \ {s} : svc'[t] = svc[t]
        /\ svc'[s].status = svc[s].status /\ svc'[s].name = svc[s].name
        /\ svc'[s].dep = req[h].name
    BY <1>1, <2>1 DEF TypeInv, SvcOK, Rows
  <2>3. req'[h].pc = "running" /\ req'[h].s = s /\ req'[h].name = req[h].name
    BY <2>1, GotoAll
  <2> QED
    BY <1>1, <1>2, <2>2, <2>3 DEF OwnRow, Changing, Present
<1>3. CASE ~Present(s)
  <2>1. req'[h].pc = "error"
    BY <1>3, GotoAll DEF PersistEndpoint
  <2> QED
    BY <2>1, FreeRow DEF Changing
<1> QED
  BY <1>2, <1>3

LEMMA WorkRow ==
    ASSUME TypeInv, ServedInv, NEW h \in Requests, Work(h) \/ Abort(h)
    PROVE  OwnRow(h)'
<1>1. CASE Finish(h)
  BY <1>1, FinishAll, FreeRow DEF Changing
<1>2. CASE \E l \in {"error", "connect", "resolve", "stopped"} : Goto(h, l)
  BY <1>2, GotoAll, FreeRow DEF Changing
<1>3. CASE RemoveOld(h) \/ IsRunning(h)
  BY <1>2, <1>3, KeepRow DEF RemoveOld, IsRunning
<1>4. CASE Run(h)
  BY <1>2, <1>4, KeepRow DEF Run
<1>5. CASE WaitReady(h)
  BY <1>2, <1>5, KeepRow DEF WaitReady
<1> QED
  BY <1>1, <1>2, <1>3, <1>4, <1>5, MarkRow, PersistRow
  DEF Work, Point, UpdatePostgres, DeleteService, MarkRunning, MarkServiceError, StopContainer,
      MarkStopped, ConnectNetwork, Resolve, DisconnectNetwork, Abort

LEMMA NextServed ==
    TypeInv /\ PointersResolve /\ Apart /\ ServedInv /\ [Next]_vars => ServedInv'
<1> SUFFICES ASSUME TypeInv, PointersResolve, Apart, ServedInv, [Next]_vars PROVE ServedInv'
  OBVIOUS
<1>1. CASE UNCHANGED vars
  BY <1>1 DEF vars, ServedInv, Known, AllServed, Served, OwnRow, Present
<1>2. ASSUME NEW h \in Requests, Step(h) PROVE ServedInv'
  <2>1. OwnRow(h)'
    BY <1>2, BeginRow, WorkRow DEF Step
  <2>2. \A k \in Requests : OwnRow(k)'
    BY <1>2, <2>1, OthersRow
  <2>3. Known'
    BY <1>2, KnownStep DEF ServedInv
  <2> QED
    BY <1>2, <2>2, <2>3, RowsServed DEF ServedInv
<1> QED
  BY <1>1, <1>2 DEF Next, Step

(* As long as no two requests change one container at once, whatever docker  *)
(* call fails, wherever a request is cut off and whichever rows go          *)
(* meanwhile: a RUNNING service has the container of its name up, and its   *)
(* deployment_config names that container.  Requests on different services, *)
(* and groups that come to and leave a running one, may overlap.            *)
THEOREM RunningAlwaysServed == Spec /\ []Apart => []RunningMeansServed
<1>1. Init => ServedInv
  BY ConstRows DEF Init, ServedInv, Known, AllServed, OwnRow, Changing, Idle, NoRow, Row
<1>2. ServedInv => RunningMeansServed
  BY DEF ServedInv, AllServed, Served, RunningMeansServed
<1>3. Spec => []TypeInv
  BY InitTypeInv, NextType, PTL DEF Spec
<1> QED
  BY <1>1, <1>2, <1>3, NextServed, PointersAlwaysResolve, PTL DEF Spec

-----------------------------------------------------------------------------
(* SharedReachable, one container at a time.  An inspect that fails reads as *)
(* "not running", and the cold start it leads to removes the container      *)
(* under every group on it: that is left out here.                          *)

Replacing == {"starting", "remove", "create", "stopping", "halt"}
Holding   == {"ready", "persist", "running", "resolve"}
Relying   == Holding \cup {"connect"}

\* Nobody replaces the container of that name while another request relies on
\* it, and nobody stops a group that is being brought to it.
Steady(nm) == \A h, k \in Requests : h # k /\ req[h].name = nm /\ req[k].name = nm =>
    /\ req[h].pc \in Replacing => req[k].pc \notin Relying
    /\ req[h].pc = "disconnect" /\ req[h].g = req[k].g => req[k].pc \notin Holding

Joins(g, name) == box[name].state = "up" /\ g \in box[name].nets

Reached(nm) == \A g \in Groups : joined[g] = nm => Joins(g, nm)

\* Nobody is on a container that is about to go, and a start that went far
\* enough has its own network on it.
OwnBox(h, nm) == req[h].name = nm =>
    /\ req[h].pc \in Replacing => \A g \in Groups : joined[g] # nm
    /\ req[h].pc = "connect" => box[nm].state = "up"
    /\ req[h].pc = "disconnect" => joined[req[h].g] # nm
    /\ req[h].pc \in Holding => Joins(NetworkOf(h), nm)

SharedInv(nm) == Reached(nm) /\ \A h \in Requests : OwnBox(h, nm)

LEMMA NetworkOfGroup ==
    ASSUME TypeInv, NEW h \in Requests, req[h].pc \in {"disconnect", "inspect", "connect", "resolve"}
    PROVE  req[h].g \in Groups /\ NetworkOf(h) = req[h].g
BY NoneFresh DEF TypeInv, ReqOK, Shape, NetworkOf

\* Only a request that replaces the container takes it from a group on it,
\* and a StopGroup only from its own group.
LEMMA ReachedStep ==
    ASSUME TypeInv, NEW nm \in Names, SharedInv(nm), NEW h \in Requests, Step(h)
    PROVE  Reached(nm)'
<1> SUFFICES ASSUME NEW g \in Groups, joined'[g] = nm PROVE Joins(g, nm)'
  BY DEF Reached
<1>1. BoxStep(h, nm) /\ JoinStep(h, g) /\ OwnBox(h, nm) /\ nm # None
  BY BoxEffect, JoinEffect, NoneFresh DEF SharedInv
<1>2. CASE joined[g] = nm
  <2>1. Joins(g, nm)
    BY <1>2 DEF SharedInv, Reached
  <2>2. ~(nm = req[h].name /\ req[h].pc \in {"remove", "create", "halt"})
    BY <1>1, <1>2 DEF OwnBox, Replacing
  <2>3. nm = req[h].name /\ req[h].pc = "disconnect" => g # req[h].g
    BY <1>1, <1>2 DEF OwnBox
  <2> QED
    BY <1>1, <2>1, <2>2, <2>3 DEF BoxStep, Joins
<1>3. CASE req[h].pc = "resolve" /\ g = req[h].g /\ nm = req[h].name
  <2>1. Joins(g, nm)
    BY <1>1, <1>3, NetworkOfGroup DEF OwnBox, Holding
  <2> QED
    BY <1>1, <1>3, <2>1 DEF BoxStep, Joins
<1> QED
  BY <1>1, <1>2, <1>3 DEF JoinStep

LEMMA OthersBox ==
    ASSUME TypeInv, NEW nm \in Names, Steady(nm), SharedInv(nm), NEW h \in Requests, Step(h),
           NEW k \in Requests, k # h
    PROVE  OwnBox(k, nm)'
<1>1. req'[k] = req[k] /\ OwnBox(k, nm)
  BY OnlyOwn DEF OthersSame, SharedInv
<1> SUFFICES ASSUME req[k].name = nm PROVE OwnBox(k, nm)'
  BY <1>1 DEF OwnBox
<1>2. BoxStep(h, nm) /\ \A g \in Groups : JoinStep(h, g)
  BY BoxEffect, JoinEffect
<1>3. NetworkOf(k)' = NetworkOf(k)
  BY <1>1 DEF NetworkOf
<1>4. /\ req[h].name = nm /\ req[h].pc \in Replacing => req[k].pc \notin Relying
      /\ req[h].name = nm /\ req[k].pc \in Replacing => req[h].pc \notin Relying
      /\ req[h].name = nm /\ req[h].pc = "disconnect" /\ req[h].g = req[k].g => req[k].pc \notin Holding
      /\ req[h].name = nm /\ req[k].pc = "disconnect" /\ req[h].g = req[k].g => req[h].pc \notin Holding
  BY DEF Steady
<1>5. ASSUME req[k].pc \in Replacing, NEW g \in Groups PROVE joined'[g] # nm
  <2>1. joined[g] # nm /\ JoinStep(h, g)
    BY <1>1, <1>2, <1>5 DEF OwnBox
  <2> QED
    BY <1>4, <1>5, <2>1, NoneFresh DEF JoinStep, Relying, Holding
<1>6. ASSUME req[k].pc = "connect" PROVE box'[nm].state = "up"
  BY <1>1, <1>2, <1>4, <1>6 DEF OwnBox, BoxStep, Replacing, Relying
<1>7. ASSUME req[k].pc = "disconnect" PROVE joined'[req[k].g] # nm
  <2>1. req[k].g \in Groups /\ joined[req[k].g] # nm
    BY <1>1, <1>7, NetworkOfGroup DEF OwnBox
  <2> QED
    BY <1>2, <1>4, <1>7, <2>1, NoneFresh DEF JoinStep, Holding
<1>8. ASSUME req[k].pc \in Holding PROVE Joins(NetworkOf(k), nm)'
  <2>1. Joins(NetworkOf(k), nm) /\ req[k].pc \in Relying
    BY <1>1, <1>8 DEF OwnBox, Relying
  <2>2. nm = req[h].name /\ req[h].pc = "disconnect" => NetworkOf(k) # req[h].g
    <3>1. SUFFICES ASSUME nm = req[h].name, req[h].pc = "disconnect" PROVE NetworkOf(k) # req[h].g
      OBVIOUS
    <3>2. req[h].g \in Groups /\ req[h].g # req[k].g
      BY <1>4, <1>8, <3>1, NetworkOfGroup
    <3> QED
      BY <3>2, ConstantsAssumption DEF NetworkOf, ConstantsAssumption
  <2> QED
    BY <1>2, <1>3, <1>4, <2>1, <2>2 DEF BoxStep, Joins, Replacing
<1> QED
  BY <1>1, <1>5, <1>6, <1>7, <1>8 DEF OwnBox

\* A request that neither replaces, relies on nor leaves a container claims nothing.
LEMMA FreeBox ==
    ASSUME NEW h \in Requests, NEW nm,
           req'[h].pc \notin Replacing \cup Relying \cup {"disconnect"}
    PROVE  OwnBox(h, nm)'
BY DEF OwnBox, Relying

LEMMA BeginBox ==
    ASSUME TypeInv, NEW nm \in Names, NEW h \in Requests, Begin(h)
    PROVE  OwnBox(h, nm)'
<1>1. CASE req'[h].pc \notin {"starting", "stopping", "disconnect"}
  <2>1. req'[h].pc \in {"idle", "point", "update", "delete", "inspect"}
    BY <1>1, BeginReads
  <2> QED
    BY <2>1, FreeBox DEF Replacing, Relying, Holding
<1>2. ASSUME NEW s \in Services, StartPostgres(h, s) \/ StopService(h, s) PROVE OwnBox(h, nm)'
  <2>1. /\ req'[h].name = svc[s].name /\ req'[h].pc \in {"starting", "stopping"}
        /\ Release(svc[s].name)
    BY <1>2, ReadAll DEF StartPostgres, StopService
  <2>2. \A g \in Groups : nm = svc[s].name => joined'[g] # nm
    BY <2>1, NoneFresh DEF Release
  <2> QED
    BY <2>1, <2>2 DEF OwnBox, Holding
<1>3. ASSUME NEW g \in Groups, NEW s \in Services, StopGroup(h, g, s) PROVE OwnBox(h, nm)'
  <2>1. /\ req'[h].pc = "disconnect" /\ req'[h].g = g
        /\ joined' = [joined EXCEPT ![g] = None]
    BY <1>3, ReadGroupAll DEF StopGroup
  <2>2. joined'[g] # nm
    BY <2>1, NoneFresh DEF TypeInv, HistOK
  <2> QED
    BY <2>1, <2>2 DEF OwnBox, Replacing, Holding
<1>4. ASSUME NEW s \in Services,
             \/ BeginDelete(h, s)
             \/ \E name \in Names : CreatePostgres(h, s, name) \/ BeginUpdate(h, s, name)
             \/ \E g \in Groups, name \in Names : CreatePostgresService(h, g, s, name)
      PROVE  req'[h].pc \in {"idle", "point", "update", "delete"}
  <2>1. ASSUME NEW name \in Names, CreatePostgres(h, s, name) PROVE req'[h].pc = "idle"
    BY <2>1 DEF CreatePostgres, Allowed
  <2>2. ASSUME NEW name \in Names, BeginUpdate(h, s, name) PROVE req'[h].pc = "update"
    BY <2>2, ReadAll DEF BeginUpdate
  <2>3. ASSUME BeginDelete(h, s) PROVE req'[h].pc = "delete"
    BY <2>3, ReadAll DEF BeginDelete
  <2>4. ASSUME NEW g \in Groups, NEW name \in Names, CreatePostgresService(h, g, s, name)
        PROVE  req'[h].pc = "point"
    BY <2>4, CreateForAll
  <2> QED
    BY <1>4, <2>1, <2>2, <2>3, <2>4
<1>5. ASSUME NEW g \in Groups,
             \/ \E s \in Services : AttachPostgresService(h, g, s) \/ StartGroup(h, g, s)
             \/ DetachPostgresService(h, g) \/ DeleteGroup(h, g)
      PROVE  req'[h].pc \in {"idle", "inspect"}
  <2>1. ASSUME NEW s \in Services, StartGroup(h, g, s) PROVE req'[h].pc = "inspect"
    BY <2>1, ReadGroupAll DEF StartGroup
  <2> QED
    BY <1>5, <2>1 DEF AttachPostgresService, DetachPostgresService, DeleteGroup, Allowed
<1> QED
  BY <1>1, <1>2, <1>3, <1>4, <1>5 DEF Begin

\* The steps that go on without touching the container.
LEMMA KeepBox ==
    ASSUME TypeInv, NEW nm \in Names, SharedInv(nm), NEW h \in Requests, UNCHANGED <<box, joined>>,
           NEW l, Goto(h, l),
           \/ req[h].pc \in Replacing /\ l \in Replacing
           \/ req[h].pc \in Holding /\ l \in Holding
    PROVE  OwnBox(h, nm)'
<1>1. OwnBox(h, nm)
  BY DEF SharedInv
<1>2. req'[h].pc = l /\ req'[h].name = req[h].name /\ NetworkOf(h)' = NetworkOf(h)
  BY GotoAll DEF NetworkOf
<1> QED
  BY <1>1, <1>2 DEF OwnBox, Joins, Replacing, Holding

LEMMA RemoveBox ==
    ASSUME TypeInv, NEW nm \in Names, SharedInv(nm), NEW h \in Requests, RemoveOld(h)
    PROVE  OwnBox(h, nm)'
<1>1. OwnBox(h, nm) /\ req[h].pc = "remove" /\ UNCHANGED joined
  BY DEF SharedInv, RemoveOld
<1>2. PICK l \in {"create", "error"} : Goto(h, l)
  BY DEF RemoveOld
<1>3. req'[h].pc = l /\ req'[h].name = req[h].name
  BY <1>2, GotoAll
<1> QED
  BY <1>1, <1>3 DEF OwnBox, Replacing, Holding

LEMMA RunBox ==
    ASSUME TypeInv, NEW nm \in Names, NEW h \in Requests, Run(h)
    PROVE  OwnBox(h, nm)'
<1>1. CASE Goto(h, "error")
  BY <1>1, GotoAll, FreeBox DEF Replacing, Relying, Holding
<1>2. CASE /\ Goto(h, "ready")
           /\ box' = [box EXCEPT ![req[h].name] = [state |-> "up", nets |-> {NetworkOf(h)}]]
  <2>1. /\ req'[h].pc = "ready" /\ req'[h].name = req[h].name /\ NetworkOf(h)' = NetworkOf(h)
    BY <1>2, GotoAll DEF NetworkOf
  <2>2. nm = req[h].name => Joins(NetworkOf(h), nm)'
    BY <1>2, <2>1 DEF Joins, TypeInv, BoxOK
  <2> QED
    BY <2>1, <2>2 DEF OwnBox, Replacing
<1> QED
  BY <1>1, <1>2 DEF Run

\* A start that finds the container down finds no group on it.
LEMMA InspectBox ==
    ASSUME "inspect" \notin CanFail, TypeInv, NEW nm \in Names, SharedInv(nm), NEW h \in Requests,
           IsRunning(h)
    PROVE  OwnBox(h, nm)'
<1>1. PICK l \in {"connect", "starting"} :
          Goto(h, l) /\ (l = "connect" <=> box[req[h].name].state = "up") /\ UNCHANGED <<box, joined>>
  BY DEF IsRunning, FastPath
<1>2. req'[h].pc = l /\ req'[h].name = req[h].name
  BY <1>1, GotoAll
<1>3. box[nm].state # "up" => \A g \in Groups : joined[g] # nm
  BY DEF SharedInv, Reached, Joins
<1> QED
  BY <1>1, <1>2, <1>3 DEF OwnBox, Replacing, Holding

LEMMA ConnectBox ==
    ASSUME TypeInv, NEW nm \in Names, SharedInv(nm), NEW h \in Requests, ConnectNetwork(h)
    PROVE  OwnBox(h, nm)'
<1>1. CASE Goto(h, "error")
  BY <1>1, GotoAll, FreeBox DEF Replacing, Relying, Holding
<1>2. CASE box' = [box EXCEPT ![req[h].name].nets = @ \cup {NetworkOf(h)}] /\ Goto(h, "resolve")
  <2>1. /\ req'[h].pc = "resolve" /\ req'[h].name = req[h].name /\ NetworkOf(h)' = NetworkOf(h)
    BY <1>2, GotoAll DEF NetworkOf
  <2>2. nm = req[h].name => box[nm].state = "up"
    BY DEF ConnectNetwork, SharedInv, OwnBox
  <2>3. nm = req[h].name => Joins(NetworkOf(h), nm)'
    BY <1>2, <2>1, <2>2 DEF Joins, TypeInv, BoxOK, Boxes
  <2> QED
    BY <2>1, <2>3 DEF OwnBox, Replacing
<1> QED
  BY <1>1, <1>2 DEF ConnectNetwork

LEMMA WorkBox ==
    ASSUME "inspect" \notin CanFail, TypeInv, NEW nm \in Names, SharedInv(nm), NEW h \in Requests,
           Work(h) \/ Abort(h)
    PROVE  OwnBox(h, nm)'
<1>1. CASE Finish(h)
  BY <1>1, FinishAll, FreeBox DEF Replacing, Relying, Holding
<1>2. CASE \E l \in {"error", "stopped"} : Goto(h, l)
  BY <1>2, GotoAll, FreeBox DEF Replacing, Relying, Holding
<1>3. CASE MarkStarting(h) \/ MarkStopping(h)
  BY <1>3, KeepBox DEF MarkStarting, MarkStopping, Replacing
<1>4. CASE WaitReady(h) \/ PersistEndpoint(h)
  BY <1>2, <1>4, KeepBox DEF WaitReady, PersistEndpoint, Holding
<1>5. CASE MarkRunning(h)
  BY <1>1, <1>5, KeepBox DEF MarkRunning, Holding
<1> QED
  BY <1>1, <1>2, <1>3, <1>4, <1>5, RemoveBox, RunBox, InspectBox, ConnectBox
  DEF Work, Point, UpdatePostgres, DeleteService, MarkServiceError, StopContainer, MarkStopped,
      Resolve, DisconnectNetwork, Abort

LEMMA NextShared ==
    ASSUME "inspect" \notin CanFail, NEW nm \in Names
    PROVE  TypeInv /\ Steady(nm) /\ SharedInv(nm) /\ [Next]_vars => SharedInv(nm)'
<1> SUFFICES ASSUME TypeInv, Steady(nm), SharedInv(nm), [Next]_vars PROVE SharedInv(nm)'
  OBVIOUS
<1>1. CASE UNCHANGED vars
  BY <1>1 DEF vars, SharedInv, Reached, Joins, OwnBox, NetworkOf
<1>2. ASSUME NEW h \in Requests, Step(h) PROVE SharedInv(nm)'
  <2>1. OwnBox(h, nm)'
    BY <1>2, BeginBox, WorkBox DEF Step
  <2>2. \A k \in Requests : OwnBox(k, nm)'
    BY <1>2, <2>1, OthersBox
  <2> QED
    BY <1>2, <2>2, ReachedStep DEF SharedInv
<1> QED
  BY <1>1, <1>2 DEF Next, Step

(* The contract of one shared container, whatever goes on around the others: *)
(* as long as nobody replaces it while another request relies on it, and    *)
(* no group is stopped while it is being brought to it, every group whose   *)
(* StartGroup returned reaches it on its own network at every moment, until *)
(* the group is stopped or an operator starts or stops a service of that    *)
(* name.  Groups may start and stop on it at once.                          *)
THEOREM NameAlwaysReached ==
    ASSUME "inspect" \notin CanFail, NEW nm \in Names
    PROVE  Spec /\ []Steady(nm) => []Reached(nm)
<1>1. Init => SharedInv(nm)
  BY NoneFresh DEF Init, SharedInv, Reached, OwnBox, Idle, Replacing, Holding
<1>2. SharedInv(nm) => Reached(nm)
  BY DEF SharedInv
<1>3. TypeInv /\ Steady(nm) /\ SharedInv(nm) /\ [Next]_vars => SharedInv(nm)'
  BY NextShared
<1>4. Spec => []TypeInv
  BY InitTypeInv, NextType, PTL DEF Spec
<1> QED
  BY <1>1, <1>2, <1>3, <1>4, PTL DEF Spec

AllSteady == \A nm \in Names : Steady(nm)

(* When docker's inspect can be relied on, whatever else fails or is cut off *)
(* and as long as every container is steady: a group whose StartGroup       *)
(* returned reaches the container it joined on its own network.             *)
THEOREM JoinedAlwaysReachable ==
    ASSUME "inspect" \notin CanFail
    PROVE  Spec /\ []AllSteady => []SharedReachable
<1> DEFINE Shared == \A nm \in Names : SharedInv(nm)
<1>1. Init => Shared
  BY NoneFresh DEF Init, SharedInv, Reached, OwnBox, Idle, Replacing, Holding
<1>2. TypeInv /\ AllSteady /\ Shared /\ [Next]_vars => Shared'
  BY NextShared DEF AllSteady
<1>3. TypeInv /\ Shared => SharedReachable
  BY DEF TypeInv, HistOK, SharedInv, Reached, Joins, SharedReachable
<1>4. Spec => []TypeInv
  BY InitTypeInv, NextType, PTL DEF Spec
<1> HIDE DEF Shared
<1> QED
  BY <1>1, <1>2, <1>3, <1>4, PTL DEF Spec

\* The constants of a run with one request at a time satisfy both conditions.
LEMMA OneIsApart ==
    ASSUME OneAtATime
    PROVE  Spec => [](Apart /\ AllSteady)
<1>1. Apart /\ AllSteady
  BY DEF OneAtATime, Apart, AllSteady, Steady
<1> QED
  BY <1>1, PTL
=============================================================================
