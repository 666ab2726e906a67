----------------------------- MODULE MCRecords -----------------------------
(***************************************************************************)
(* Rows and what they stand for, for TLC: the backups, and the             *)
(* organizations with their keys and revocations.  They share nothing; a   *)
(* behaviour plays one scene, the rest of the state keeps its initial      *)
(* value.                                                                  *)
(*   backups - schedules, cron entries and backups of two clients          *)
(*   keys    - one organization, and requests of the keys API              *)
(*   twins   - two organizations created at once for one MSP id            *)
(*   crl     - revocations and two publications of one organization        *)
(***************************************************************************)
EXTENDS MCBackups, Organizations

CONSTANTS o1, o2, m1, x1, x2, r1, r2

VARIABLE scene

RecordsInit ==
    /\ scene \in {"backups", "keys", "twins", "crl"}
    /\ Init /\ OrganizationsInit

\* An organization on its own.
OneOrganization == ocall'[r2].op \in {"none", "publish"} /\ org'[o2] = org[o2] /\ ocall'[r1].o # o2

\* Of its keys, clients sign one.
OneSignature ==
    /\ revoked' = revoked /\ ocall'[r2] = ocall[r2] /\ ocall'[r1].op # "publish"
    /\ \A k \in KeyIds : undisturbed' # undisturbed /\ ocall' = ocall /\ key'[k] # key[k] => k = <<o1, "client">>

NoClients ==
    /\ revoked' = revoked /\ undisturbed' = undisturbed
    /\ ocall' # ocall /\ \A r \in OrgCalls : ocall'[r].op \notin {"member", "publish"}

\* The organization is created without trouble first, and its keys stay.
Created ==
    /\ \A r \in OrgCalls : ocall'[r].op # "member" /\ ocall'[r].pc # "undo"
    /\ undisturbed' = undisturbed
    /\ \A k \in KeyIds : key'[k].row # "deleted"
    /\ org[o1].row = "unborn" => ocall'[r1].op = "create" \/ org'[o1].row = "present"

\* All ids are used up: a limit of the model, not of the program.
NoMoreIds == scene # "backups" /\ \A r \in OrgCalls : ocall[r].pc = "idle"

RecordsNext ==
    /\ UNCHANGED scene
    /\ \/ scene = "backups" /\ Next /\ UNCHANGED organizationVars
       \/ NoMoreIds /\ UNCHANGED <<vars, organizationVars>>
       \/ scene = "keys"  /\ OrganizationsNext /\ OneOrganization /\ OneSignature /\ UNCHANGED vars
       \/ scene = "twins" /\ OrganizationsNext /\ NoClients /\ UNCHANGED vars
       \/ scene = "crl"   /\ OrganizationsNext /\ OneOrganization /\ Created /\ UNCHANGED vars

RecordsSpec == RecordsInit /\ [][RecordsNext]_<<scene, vars, organizationVars>>
=============================================================================
