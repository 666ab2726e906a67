------------------------------ MODULE MCNodes ------------------------------
(***************************************************************************)
(* Rows and the containers they describe, for TLC: a node group with its   *)
(* children, a peer, and projects.  They share nothing; a behaviour plays  *)
(* one scene, and the rest of the state keeps its initial value.           *)
(*   group    - one client of one node group after the other               *)
(*   peer     - requests on a peer one after the other                     *)
(*   peers    - two requests on a peer, with one configuration to ask for  *)
(*   project  - two requests on one project; a Fabric project is started   *)
(*              once at a time and every approval goes through             *)
(*   projects - a Fabric project, an organization of which may refuse, and *)
(*              one that is started at the same time on the same ports     *)
(***************************************************************************)
EXTENDS MCNodeGroups, PeerNode, Projects

CONSTANTS r1, r2, f1, f2, j1, j2, i1, i2, i3, i4, o1, o2

VARIABLE scene

NodesInit ==
    /\ scene \in {"group", "peer", "peers", "project", "projects"}
    /\ Init /\ PeerInit /\ ProjectsInit

OneAtATime == peerCall'[r2].op = "none"

OneConfiguration ==
    /\ \A r \in PeerCalls : peerCall'[r].cfg # f2
    /\ issued'.cert <= 2

\* No id is left for another row: a limit of the model, not of the program.
NoMoreRows ==
    \/ scene \in {"peer", "peers"} /\ Quiet /\ peerRow.id = 0 /\ issued.id = MaxIds
    \/ scene = "project" /\ prow[j1].row = "deleted" /\ \A r \in ProjectCalls : pcall[r] = CallNone

\* Docker gives one id, whichever.
OneId == \A p \in ProjectIds :
    slot'[p].id \notin {slot[p].id, "none"} =>
        slot'[p].id = CHOOSE id \in Containers : id \notin HeldIds

\* The organizations are asked in the order of their list, and no approval is
\* dropped but where Refuses(p, o).
InOrder(Refuses(_, _)) ==
    \A r \in ProjectCalls :
        /\ pcall'[r].asked \in {{}, {o1}, PeerOrgs}
        /\ \A o \in pcall'[r].asked \ pcall[r].asked :
               o \in heard'[pcall[r].p] \/ Refuses(pcall[r].p, o)

Nobody(p, o) == FALSE
FirstOfOne(p, o) == p = j1 /\ o = o1

OneProject ==
    /\ prow'[j2].row = "unborn"
    /\ prow'[j1].fabric => {pcall'[r1].op, pcall'[r2].op} # {"start"}

OneEach ==
    /\ \A p \in ProjectIds : prow'[p].row = "present" => prow'[p].fabric = (p = j1) /\ ~prow'[p].talks
    /\ pcall'[r1].p # j2 /\ pcall'[r2].p # j1
    /\ pcall'[r1].op # "delete" /\ pcall'[r2].op \in {"none", "start"}
    /\ prow[j2].status = "running" => pcall'[r2].op = "none"
    /\ pcall[r2].op = "start" /\ ~slot[j2].up => pcall'[r2].op = "start"

NodesNext ==
    /\ UNCHANGED scene
    /\ \/ scene = "group" /\ Next /\ UNCHANGED <<peerVars, projectVars>>
       \/ NoMoreRows /\ UNCHANGED <<vars, peerVars, projectVars>>
       \/ scene = "peer"  /\ PeerNext /\ OneAtATime /\ UNCHANGED <<vars, projectVars>>
       \/ scene = "peers" /\ PeerNext /\ OneConfiguration /\ UNCHANGED <<vars, projectVars>>
       \/ scene = "project"  /\ ProjectsNext /\ OneId /\ InOrder(Nobody) /\ OneProject /\ UNCHANGED <<vars, peerVars>>
       \/ scene = "projects" /\ ProjectsNext /\ OneId /\ InOrder(FirstOfOne) /\ OneEach /\ UNCHANGED <<vars, peerVars>>

NodesSpec == NodesInit /\ [][NodesNext]_<<scene, vars, peerVars, projectVars>>
=============================================================================
