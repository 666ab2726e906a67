------------------------------ MODULE MCServer ------------------------------
(***************************************************************************)
(* The components of the server that share nothing with each other, for    *)
(* TLC.  What two parts do not share is not multiplied: a behaviour plays  *)
(* one scene, and the rest of the state keeps its initial value: MCNext    *)
(* only restricts ServerNext.                                              *)
(*   nodes     - two watched nodes, two workers, the providers as they are *)
(*   alerts    - one node, which can be deleted, and one changing provider *)
(*   disk      - the disk space monitor and one changing provider          *)
(*   providers - two requests that change two providers                    *)
(*   ports     - two definitions are given ports                           *)
(*   install   - two requests install one definition that clients edit     *)
(*   deploy    - two requests deploy and undeploy one definition           *)
(*   audit     - events, a channel of one slot and two workers             *)
(*   plugins   - two requests on one plugin                                *)
(*   join      - two nodes of a Fabric-X network join                      *)
(*   verify    - two verifications of one Fabric-X network                 *)
(***************************************************************************)
EXTENDS Server

CONSTANTS p1, p2, c1, c2, n1, n2, k1, k2, d1, d2, r1, r2, pe1, e1, e2, e3, e4, pl1, v1, v2

VARIABLE scene

MCVars == <<scene, serverVars>>

AllOrNothing == {{}, Topics}
OneLabel == [d \in Definitions |-> "l"]

MCInit ==
    /\ scene \in {"nodes", "alerts", "disk", "providers", "ports", "install", "deploy",
                  "audit", "plugins", "join", "verify"}
    /\ ServerInit
    /\ nodeRows = IF scene = "alerts" THEN {n1} ELSE Watchable
    /\ scene \notin {"alerts", "disk", "providers"} => Defaults = {p1}
    /\ Defaults \subseteq {p1}

\* Bounds of a scene on its steps.
OneProvider == \A p \in Providers \ {p1} : provider'[p] = provider[p]

\* A request for each definition, whose address is never given by a client.
OneRequestEach ==
    /\ \A d \in Definitions : defn'[d].addr \in {0, defn[d].addr} \cup {cc[r].addr : r \in CcRequests}
    /\ cc'[r1].d # d2 /\ cc'[r2].d # d1
    /\ \A r \in CcRequests : ~cc'[r].failed

MonitorsNext ==
    \/ /\ scene \in {"nodes", "alerts"} /\ MonitorStep
       /\ scene = "nodes" => nodeRows' = nodeRows /\ n2 \in alive'
       /\ UNCHANGED <<notificationVars, diskVars>>
    \/ /\ scene = "disk" /\ DiskSpaceStep
       /\ UNCHANGED <<notificationVars, monitoringVars>>
    \/ /\ scene \in {"alerts", "disk", "providers"} /\ NotificationsNext
       /\ scene # "providers" => OneProvider /\ \A c \in Clients \ {c1} : save'[c] = save[c]
       /\ scene = "alerts" => save' = save
       /\ scene = "providers" => mailUp' /\ \A c \in Clients : save'[c].topics = {}
       /\ UNCHANGED <<monitoringVars, diskVars>>

ServicesNext ==
    \/ /\ scene \in {"ports", "install", "deploy"} /\ ChaincodeNext
       /\ scene = "ports" => OneRequestEach
       /\ scene # "ports" => defn'[d2] = defn[d2]
       /\ \A r \in CcRequests :
              IF scene = "deploy" THEN cc'[r].op # "install" ELSE cc'[r].op \in {"none", "install"}
       /\ UNCHANGED <<auditVars, pluginVars, fabricxVars>>
    \/ scene = "audit" /\ AuditNext /\ UNCHANGED <<chaincodeVars, pluginVars, fabricxVars>>
    \/ scene = "plugins" /\ PluginsNext /\ UNCHANGED <<chaincodeVars, auditVars, fabricxVars>>
    \/ /\ scene \in {"join", "verify"} /\ FabricXNext
       /\ scene = "join" => \A v \in Verifiers : verify'[v] \in {"idle", "list"}
       /\ scene = "verify" => join' = join /\ (verify' = verify \/ creator = "done")
       /\ UNCHANGED <<chaincodeVars, auditVars, pluginVars>>

MCNext ==
    /\ UNCHANGED scene
    /\ \/ MonitorsNext /\ UNCHANGED servicesVars
       \/ ServicesNext /\ UNCHANGED monitorsVars

MCSpec == /\ MCInit /\ [][MCNext]_MCVars
          /\ MonitoringFairness /\ DiskSpaceFairness /\ AuditFairness

\* The verification of a network on its own, for its one disagreement.
FxSpec == MCInit /\ scene = "verify" /\ [][MCNext]_MCVars
=============================================================================
