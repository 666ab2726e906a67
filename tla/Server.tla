------------------------------- MODULE Server -------------------------------
(***************************************************************************)
(* The services of one server process whose only common state is the       *)
(* notification providers: the node monitor and the disk space monitor     *)
(* both mail through them.  Chaincode deployments, the audit log, plugins   *)
(* and the Fabric-X networks keep rows, maps and channels of their own.    *)
(* A step of the server is a step of one of them.                          *)
(***************************************************************************)
EXTENDS Monitoring, DiskSpace, ChaincodeDeploy, AuditLog, Plugins, FabricXNetwork

monitorsVars == <<monitoringVars, notificationVars, diskVars>>
servicesVars == <<chaincodeVars, auditVars, pluginVars, fabricxVars>>
serverVars   == <<monitorsVars, servicesVars>>

ServerInit ==
    /\ MonitoringInit /\ DiskSpaceInit
    /\ ChaincodeInit /\ AuditInit /\ PluginsInit /\ FabricXInit

\* The monitors and what they share.
SharedNext ==
    \/ MonitorStep /\ UNCHANGED <<notificationVars, diskVars>>
    \/ DiskSpaceStep /\ UNCHANGED <<monitoringVars, notificationVars>>
    \/ NotificationsNext /\ UNCHANGED <<monitoringVars, diskVars>>

OwnNext ==
    \/ ChaincodeNext /\ UNCHANGED <<auditVars, pluginVars, fabricxVars>>
    \/ AuditNext /\ UNCHANGED <<chaincodeVars, pluginVars, fabricxVars>>
    \/ PluginsNext /\ UNCHANGED <<chaincodeVars, auditVars, fabricxVars>>
    \/ FabricXNext /\ UNCHANGED <<chaincodeVars, auditVars, pluginVars>>

ServerNext ==
    \/ SharedNext /\ UNCHANGED servicesVars
    \/ OwnNext /\ UNCHANGED monitorsVars

ServerSpec == ServerInit /\ [][ServerNext]_serverVars

(* Every variable of the components has its type, whatever the others do.  *)
ServerTypeOK ==
    /\ MonitoringTypeOK /\ DiskSpaceTypeOK /\ ChaincodeTypeOK
    /\ AuditTypeOK /\ PluginsTypeOK /\ FabricXTypeOK
=============================================================================
