--------------------------- MODULE Organizations ---------------------------
(***************************************************************************)
(* Fabric organizations (pkg/fabric/service), the keys they are made of    *)
(* (pkg/keymanagement) and their revocation list on a channel              *)
(* (pkg/networks/service/fabric).  An organization is created from five    *)
(* keys in nine steps, each with a rollback of its own; the foreign keys   *)
(* of the tables decide which deletes of a rollback succeed.  Requests     *)
(* work without a lock and without a transaction.                          *)
(***************************************************************************)
EXTENDS Integers, Sequences

CONSTANTS
    OrgIds,  \* ids a fabric_organizations row gets, one per create request
    MspIds,  \* MSP ids a client asks for
    Serials, \* serial numbers a client asks to revoke
    OrgCalls \* BOUND: requests handled at the same time

ASSUME OrganizationsAssumption == "none" \notin OrgIds \cup MspIds

VARIABLES
    org,      \* fabric_organizations rows
    key,      \* keys rows, named by the organization they were made for
    revoked,  \* fabric_revoked_certificates rows of each organization
    posted,   \* external: the revocation list of each MSP id in the channel
    undisturbed, \* history: no call for this organization was cut off, nobody signed its keys
    kept,     \* history: keys of a call that ended well
    promised, \* history: revoked before the last publication that ran alone
    ocall     \* local state of each request

organizationVars == <<org, key, revoked, posted, undisturbed, kept, promised, ocall>>

-----------------------------------------------------------------------------
(* Keys.                                                                   *)

Authorities == {"sign", "tls"}
OrgRoles    == Authorities \cup {"admin", "client", "tlsadmin"}
MemberRoles == {"member", "membertls"}
KeyIds      == OrgIds \X (OrgRoles \cup MemberRoles)
NoKey       == <<"none", "none">>

\* "issuer": signing_key_id.  "ca": the certificate is that of an authority.
KeyUnborn == [row |-> "unborn", issuer |-> NoKey, ca |-> FALSE]
KeyGone   == [row |-> "deleted", issuer |-> NoKey, ca |-> FALSE]

\* One step: a key is made, or signed by an authority, or the row is inserted;
\* and the keys deleted, in this order, when the step fails.
New(role, undo) == [do |-> "new", role |-> role, by |-> "none", undo |-> undo]
Issue(role, by, undo) == [do |-> "issue", role |-> role, by |-> by, undo |-> undo]
\* Mutant: the rollback of the last step forgets the key made last.
InsertRowForgetful(undo) ==
    [do |-> "insert", role |-> "none", by |-> "none", undo |-> SubSeq(undo, 1, Len(undo) - 1)]

InsertRow(undo) == [do |-> "insert", role |-> "none", by |-> "none", undo |-> undo]

CreateSteps == <<
    New("sign", <<>>),
    New("admin", <<"sign">>),
    Issue("admin", "sign", <<"sign">>),
    New("client", <<"sign", "admin">>),
    Issue("client", "sign", <<"sign", "admin", "client">>),
    New("tls", <<"sign", "admin", "client">>),
    New("tlsadmin", <<"sign", "admin", "client", "tls">>),
    Issue("tlsadmin", "tls", <<"sign", "admin", "client", "tls", "tlsadmin">>),
    InsertRow(<<"sign", "admin", "client", "tls", "tlsadmin">>) >>

MemberSteps == <<
    New("member", <<>>),
    Issue("member", "sign", <<"member">>),
    New("membertls", <<"member">>),
    Issue("membertls", "tls", <<"membertls", "member">>) >>

StepsOf(op) == IF op = "create" THEN CreateSteps ELSE MemberSteps

NewOrgCall(op, o, msp, pc, must, alone) ==
    [op |-> op, o |-> o, msp |-> msp, pc |-> pc, n |-> 1, k |-> 1,
     listed |-> {}, must |-> must, alone |-> alone, fresh |-> FALSE]
CallIdleOrg == NewOrgCall("none", "none", "none", "idle", {}, TRUE)

OrganizationsTypeOK ==
    /\ org \in [OrgIds -> [row : {"unborn", "present", "deleted"}, msp : MspIds \cup {"none"}]]
    /\ key \in [KeyIds -> [row : {"unborn", "present", "deleted"},
                           issuer : KeyIds \cup {NoKey}, ca : BOOLEAN]]
    /\ revoked \in [OrgIds -> SUBSET Serials]
    /\ posted \in [MspIds -> SUBSET Serials]
    /\ undisturbed \in [OrgIds -> BOOLEAN]
    /\ kept \in SUBSET KeyIds
    /\ promised \in [OrgIds -> SUBSET Serials]
    /\ ocall \in [OrgCalls ->
          [op : {"none", "create", "member", "publish"}, o : OrgIds \cup {"none"},
           msp : MspIds \cup {"none"}, pc : {"idle", "run", "undo", "list", "config", "send"},
           n : 1..9, k : 1..6, listed : SUBSET Serials, must : SUBSET Serials,
           alone : BOOLEAN, fresh : BOOLEAN]]

OrganizationsInit ==
    /\ org = [o \in OrgIds |-> [row |-> "unborn", msp |-> "none"]]
    /\ key = [k \in KeyIds |-> KeyUnborn]
    /\ revoked = [o \in OrgIds |-> {}]
    /\ posted = [m \in MspIds |-> {}]
    /\ undisturbed = [o \in OrgIds |-> TRUE]
    /\ kept = {}
    /\ promised = [o \in OrgIds |-> {}]
    /\ ocall = [r \in OrgCalls |-> CallIdleOrg]

\* Foreign keys: a key that another one was signed with, or that an
\* organization consists of, cannot be deleted.
KeyInUse(k) ==
    \/ \E j \in KeyIds \ {k} : key[j].row = "present" /\ key[j].issuer = k
    \/ k[2] \in OrgRoles /\ org[k[1]].row = "present"

DeleteKey(k) == key' = [key EXCEPT ![k] = KeyGone]

\* The rows are read, then written; neither comes back once it is gone, so
\* what held at the write held before.
Signable(k, by) ==
    /\ key[k].row = "present"
    /\ key[by].row = "present" /\ by[2] \in Authorities /\ key[by].ca

SignCertificate(k, by) ==
    /\ Signable(k, by)
    /\ key' = [key EXCEPT ![k].issuer = by, ![k].ca = FALSE]

GenerateKey(k) ==
    key' = [key EXCEPT ![k] =
        [row |-> "present", issuer |-> NoKey, ca |-> k[2] \in Authorities]]

-----------------------------------------------------------------------------
(* CreateOrganization and CreateKey.                                       *)

OrgSettled(o) == \A r \in OrgCalls : ocall[r].o # o
EndOrgCall(r) == ocall' = [ocall EXCEPT ![r] = CallIdleOrg]

\* The MSP id is looked up; nothing makes it unique.
BeginCreateOrganization(r, o, m) ==
    /\ ocall[r].pc = "idle"
    /\ OrgSettled(o) /\ \A role \in OrgRoles : key[<<o, role>>].row = "unborn"
    /\ \A p \in OrgIds : org[p].row = "present" => org[p].msp # m
    /\ ocall' = [ocall EXCEPT ![r] = NewOrgCall("create", o, m, "run", {}, TRUE)]
    /\ UNCHANGED <<org, key, revoked, posted, undisturbed, kept, promised>>

BeginCreateKey(r, o) ==
    /\ ocall[r].pc = "idle"
    /\ org[o].row = "present"
    /\ OrgSettled(o) /\ \A role \in MemberRoles : key[<<o, role>>].row = "unborn"
    /\ ocall' = [ocall EXCEPT ![r] = NewOrgCall("member", o, "none", "run", {}, TRUE)]
    /\ UNCHANGED <<org, key, revoked, posted, undisturbed, kept, promised>>

StepOf(r)  == StepsOf(ocall[r].op)[ocall[r].n]
KeyOf(r)   == <<ocall[r].o, StepOf(r).role>>
AdvanceOrg(r) == ocall' = [ocall EXCEPT ![r].n = @ + 1]

MakeKey(r) ==
    /\ ocall[r].pc = "run" /\ StepOf(r).do = "new"
    /\ GenerateKey(KeyOf(r))
    /\ AdvanceOrg(r)
    /\ UNCHANGED <<org, revoked, posted, undisturbed, kept, promised>>

IssueCertificate(r) ==
    LET o == ocall[r].o IN
    /\ ocall[r].pc = "run" /\ StepOf(r).do = "issue"
    /\ SignCertificate(KeyOf(r), <<o, StepOf(r).by>>)
    /\ IF ocall[r].op = "member" /\ ocall[r].n = 4
       THEN EndOrgCall(r) /\ kept' = kept \cup {<<o, role>> : role \in MemberRoles}
       ELSE AdvanceOrg(r) /\ kept' = kept
    /\ UNCHANGED <<org, revoked, posted, undisturbed, promised>>

\* The foreign keys ask for the five keys.
CreateFabricOrganization(r) ==
    LET o == ocall[r].o IN
    /\ ocall[r].pc = "run" /\ StepOf(r).do = "insert"
    /\ \A role \in OrgRoles : key[<<o, role>>].row = "present"
    /\ org' = [org EXCEPT ![o] = [row |-> "present", msp |-> ocall[r].msp]]
    /\ kept' = kept \cup {<<o, role>> : role \in OrgRoles}
    /\ EndOrgCall(r)
    /\ UNCHANGED <<key, revoked, posted, undisturbed, promised>>

\* Any step fails, whether or not it could have succeeded.
OrgStepFails(r) ==
    /\ ocall[r].pc = "run"
    /\ IF StepOf(r).undo = <<>> THEN EndOrgCall(r)
       ELSE ocall' = [ocall EXCEPT ![r].pc = "undo", ![r].k = 1]
    /\ UNCHANGED <<org, key, revoked, posted, undisturbed, kept, promised>>

\* One delete of a rollback; its error is ignored.
UndoOrgStep(r) ==
    LET undo == StepOf(r).undo
        k    == <<ocall[r].o, undo[ocall[r].k]>>
    IN
    /\ ocall[r].pc = "undo"
    /\ IF KeyInUse(k) THEN key' = key ELSE DeleteKey(k)
    /\ IF ocall[r].k = Len(undo) THEN EndOrgCall(r)
       ELSE ocall' = [ocall EXCEPT ![r].k = @ + 1]
    /\ UNCHANGED <<org, revoked, posted, undisturbed, kept, promised>>

\* The client goes away or the process ends: no statement of this request,
\* of its rollback neither, is executed any more.
CutOffOrgCall(r) ==
    /\ ocall[r].pc \in {"run", "undo"}
    /\ undisturbed' = [undisturbed EXCEPT ![ocall[r].o] = FALSE]
    /\ EndOrgCall(r)
    /\ UNCHANGED <<org, key, revoked, posted, kept, promised>>

-----------------------------------------------------------------------------
(* Keys API, deletion of an organization.                                  *)

DeleteKeyRequest(k) ==
    /\ key[k].row = "present" /\ ~KeyInUse(k)
    /\ DeleteKey(k)
    /\ UNCHANGED <<org, revoked, posted, undisturbed, kept, promised, ocall>>

\* Any key with any authority.  A renewal signs with the issuer in the row and
\* changes nothing else.
SignCertificateRequest(k, by) ==
    /\ SignCertificate(k, by)
    /\ undisturbed' = [undisturbed EXCEPT ![k[1]] = FALSE]
    /\ UNCHANGED <<org, revoked, posted, kept, promised, ocall>>

\* Revoked certificates go with the row, keys stay.
DeleteOrganization(o) ==
    /\ org[o].row = "present"
    /\ org' = [org EXCEPT ![o].row = "deleted"]
    /\ revoked' = [revoked EXCEPT ![o] = {}]
    /\ promised' = [promised EXCEPT ![o] = {}]
    /\ ocall' = [r \in OrgCalls |->
           IF ocall[r].o = o THEN [ocall[r] EXCEPT !.must = {}] ELSE ocall[r]]
    /\ UNCHANGED <<key, posted, undisturbed, kept>>

-----------------------------------------------------------------------------
(* Revocation, and its publication in the channel.                         *)

\* Looked up first; the unique index decides.  The two updates of the CRL
\* columns around the insert are not read by anything.
RevokeCertificate(o, s) ==
    /\ org[o].row = "present" /\ s \notin revoked[o]
    /\ revoked' = [revoked EXCEPT ![o] = @ \cup {s}]
    /\ UNCHANGED <<org, key, posted, undisturbed, kept, promised, ocall>>

DeleteRevokedCertificate(o, s) ==
    /\ s \in revoked[o]
    /\ revoked' = [revoked EXCEPT ![o] = @ \ {s}]
    /\ promised' = [promised EXCEPT ![o] = @ \ {s}]
    /\ ocall' = [r \in OrgCalls |->
           IF ocall[r].o = o THEN [ocall[r] EXCEPT !.must = @ \ {s}] ELSE ocall[r]]
    /\ UNCHANGED <<org, key, posted, undisturbed, kept>>

Publishing(m) == {r \in OrgCalls : ocall[r].op = "publish" /\ ocall[r].msp = m}

BeginPublish(r, o) ==
    LET m == org[o].msp IN
    /\ ocall[r].pc = "idle"
    /\ org[o].row = "present"
    /\ ocall' = [q \in OrgCalls |->
           IF q = r THEN NewOrgCall("publish", o, m, "list", revoked[o], Publishing(m) = {})
           ELSE IF q \in Publishing(m) THEN [ocall[q] EXCEPT !.alone = FALSE] ELSE ocall[q]]
    /\ UNCHANGED <<org, key, revoked, posted, undisturbed, kept, promised>>

\* Mutant: the list is generated anew only when there is none yet.
GetCRLCached(r) ==
    LET o == ocall[r].o IN
    /\ ocall[r].pc = "list"
    /\ ocall' = [ocall EXCEPT ![r].pc = "config",
           ![r].listed = IF posted[ocall[r].msp] = {} THEN revoked[o] ELSE posted[ocall[r].msp]]
    /\ UNCHANGED <<org, key, revoked, posted, undisturbed, kept, promised>>

\* The certificates are read after the organization, which may be gone by now.
GetCRL(r) ==
    LET o == ocall[r].o IN
    /\ ocall[r].pc = "list"
    /\ ocall' = [ocall EXCEPT ![r].pc = "config", ![r].listed = revoked[o]]
    /\ UNCHANGED <<org, key, revoked, posted, undisturbed, kept, promised>>

GetChannelConfig(r) ==
    /\ ocall[r].pc = "config"
    /\ ocall' = [ocall EXCEPT ![r].pc = "send", ![r].fresh = TRUE]
    /\ UNCHANGED <<org, key, revoked, posted, undisturbed, kept, promised>>

\* The list replaces the one in the configuration that was read; the orderer
\* refuses an update of a configuration that has moved on.
Accepted(r) ==
    IF ocall[r].fresh THEN posted' = [posted EXCEPT ![ocall[r].msp] = ocall[r].listed]
    ELSE posted' = posted

AfterSend(r) ==
    ocall' = [q \in OrgCalls |->
        IF q = r THEN CallIdleOrg
        ELSE IF q \in Publishing(ocall[r].msp) /\ ocall[r].fresh THEN [ocall[q] EXCEPT !.fresh = FALSE]
        ELSE ocall[q]]

\* The status in the answer of the orderer is not looked at.
SaveChannelConfig(r) ==
    LET o == ocall[r].o IN
    /\ ocall[r].pc = "send"
    /\ Accepted(r)
    /\ promised' = IF ocall[r].alone THEN [promised EXCEPT ![o] = ocall[r].must] ELSE promised
    /\ AfterSend(r)
    /\ UNCHANGED <<org, key, revoked, undisturbed, kept>>

\* An error at any step, the last after the orderer has accepted the update.
PublishFails(r) ==
    /\ \/ ocall[r].pc \in {"list", "config", "send"} /\ EndOrgCall(r) /\ posted' = posted
       \/ ocall[r].pc = "send" /\ Accepted(r) /\ AfterSend(r)
    /\ UNCHANGED <<org, key, revoked, undisturbed, kept, promised>>

-----------------------------------------------------------------------------
OrgCallStep(r) ==
    \/ \E o \in OrgIds : \/ \E m \in MspIds : BeginCreateOrganization(r, o, m)
                         \/ BeginCreateKey(r, o) \/ BeginPublish(r, o)
    \/ MakeKey(r) \/ IssueCertificate(r) \/ CreateFabricOrganization(r)
    \/ OrgStepFails(r) \/ UndoOrgStep(r) \/ CutOffOrgCall(r)
    \/ GetCRL(r) \/ GetChannelConfig(r) \/ SaveChannelConfig(r) \/ PublishFails(r)

OrganizationsNext ==
    \/ \E r \in OrgCalls : OrgCallStep(r)
    \/ \E k \in KeyIds : \/ DeleteKeyRequest(k)
                         \/ \E by \in KeyIds : SignCertificateRequest(k, by)
    \/ \E o \in OrgIds :
           \/ DeleteOrganization(o)
           \/ \E s \in Serials : RevokeCertificate(o, s) \/ DeleteRevokedCertificate(o, s)

OrganizationsSpec == OrganizationsInit /\ [][OrganizationsNext]_organizationVars

-----------------------------------------------------------------------------
(* A create of an organization or of a key that fails, at any step, leaves *)
(* no member of an organization behind: unless it was cut off, every key   *)
(* that has a certificate of an authority belongs to a call that ended     *)
(* well or is still under way.  Authorities it does leave behind, as the   *)
(* rollback deletes them before the keys they signed.                      *)
NoOrphanMember ==
    \A k \in KeyIds :
        /\ undisturbed[k[1]] /\ OrgSettled(k[1])
        /\ key[k].row = "present" /\ key[k].issuer # NoKey
        => k \in kept

(* What was revoked before a publication that reported success and did not *)
(* overlap with another one, and is still revoked, is in the list of the   *)
(* channel, whatever revocations and publications run or fail after it.    *)
(* MSP ids are not unique: with a second organization of this MSP id the   *)
(* lists replace each other.                                               *)
PublishedIsRevoked ==
    \A o \in OrgIds :
        (\A p \in OrgIds \ {o} : org[p].msp # org[o].msp) =>
            \A m \in MspIds : org[o].msp = m => promised[o] \subseteq posted[m]
=============================================================================
