------------------------ MODULE Organizations_proofs ------------------------
(* Proofs about Organizations for every set of organizations, MSP ids,     *)
(* serial numbers and requests.                                            *)
EXTENDS Organizations, TLAPS

-----------------------------------------------------------------------------
(* The tables of the two sagas: what their steps have in common.           *)

Sagas       == {"create", "member"}
LastOf(op)  == IF op = "create" THEN 9 ELSE 4
RolesOf(op) == IF op = "create" THEN OrgRoles ELSE MemberRoles

\* The keys a saga has signed when it gets to step n.
SignedAt == [admin |-> 3, client |-> 5, tlsadmin |-> 8, member |-> 2, membertls |-> 4]
Signed(op, n) ==
    {role \in IF op = "create" THEN {"admin", "client", "tlsadmin"} ELSE MemberRoles : n > SignedAt[role]}

\* A step makes or signs a key of its saga, and its rollback covers what is signed.
StepFits(op, n) ==
    LET s == StepsOf(op)[n] IN
    /\ s.do \in {"new", "issue", "insert"}
    /\ s.do = "insert" => op = "create" /\ n = 9
    /\ s.do = "new" => n < LastOf(op) /\ s.role \in RolesOf(op) /\ Signed(op, n + 1) = Signed(op, n)
    /\ s.do = "issue" => /\ s.role \in RolesOf(op) \ Authorities /\ s.by \in Authorities
                         /\ Signed(op, n + 1) = Signed(op, n) \cup {s.role}
                         /\ (n = LastOf(op) => op = "member")
    /\ Len(s.undo) \in 0..5
    /\ s.undo # <<>> => Len(s.undo) \in 1..5
    /\ s.undo = <<>> => Signed(op, n) = {}
    /\ \A i \in 1..Len(s.undo) : s.undo[i] \in RolesOf(op)
    /\ Signed(op, n) \subseteq RolesOf(op) \ Authorities
    /\ \A role \in Signed(op, n) : \E i \in 1..Len(s.undo) : s.undo[i] = role

LEMMA CreateFits == ASSUME NEW n \in 1..9 PROVE StepFits("create", n)
<1> USE DEF StepFits, StepsOf, CreateSteps, New, Issue, InsertRow, Signed, RolesOf, LastOf,
            OrgRoles, Authorities, MemberRoles, SignedAt
<1>1. CASE n = 1 BY <1>1
<1>2. CASE n = 2 BY <1>2
<1>3. CASE n = 3 BY <1>3
<1>4. CASE n = 4 BY <1>4
<1>5. CASE n = 5 BY <1>5
<1>6. CASE n = 6 BY <1>6
<1>7. CASE n = 7 BY <1>7
<1>8. CASE n = 8 BY <1>8
<1>9. CASE n = 9 BY <1>9
<1> HIDE DEF StepFits
<1>. QED BY <1>1, <1>2, <1>3, <1>4, <1>5, <1>6, <1>7, <1>8, <1>9

LEMMA MemberFits == ASSUME NEW n \in 1..4 PROVE StepFits("member", n)
<1> USE DEF StepFits, StepsOf, MemberSteps, New, Issue, Signed, RolesOf, LastOf,
            MemberRoles, Authorities, SignedAt
<1>1. CASE n = 1 BY <1>1
<1>2. CASE n = 2 BY <1>2
<1>3. CASE n = 3 BY <1>3
<1>4. CASE n = 4 BY <1>4
<1> HIDE DEF StepFits
<1>. QED BY <1>1, <1>2, <1>3, <1>4

LEMMA SagaFits == ASSUME NEW op \in Sagas, NEW n \in 1..LastOf(op) PROVE StepFits(op, n)
BY CreateFits, MemberFits DEF Sagas, LastOf

LEMMA NothingSigned == ASSUME NEW op \in Sagas PROVE Signed(op, 1) = {}
BY DEF Signed, SignedAt, Sagas, MemberRoles

-----------------------------------------------------------------------------
(* Types.                                                                  *)

KeyRow  == [row : {"unborn", "present", "deleted"}, issuer : KeyIds \cup {NoKey}, ca : BOOLEAN]
OrgRow  == [row : {"unborn", "present", "deleted"}, msp : MspIds \cup {"none"}]
OrgCall == [op : {"none", "create", "member", "publish"}, o : OrgIds \cup {"none"},
            msp : MspIds \cup {"none"}, pc : {"idle", "run", "undo", "list", "config", "send"},
            n : 1..9, k : 1..6, listed : SUBSET Serials, must : SUBSET Serials,
            alone : BOOLEAN, fresh : BOOLEAN]

\* What a request knows at each of its program counters.
CallFits(c) ==
    \/ c.pc = "idle" /\ c.op = "none" /\ c.o = "none"
    \/ /\ c.pc \in {"run", "undo"} /\ c.op \in Sagas /\ c.o \in OrgIds
       /\ c.op = "create" => c.msp \in MspIds
       /\ c.n \in 1..LastOf(c.op)
       /\ c.pc = "undo" => c.k \in 1..Len(StepsOf(c.op)[c.n].undo)
    \/ c.pc \in {"list", "config", "send"} /\ c.op = "publish" /\ c.o \in OrgIds /\ c.msp \in MspIds

CallsFit  == \A r \in OrgCalls : CallFits(ocall[r])
RowsNamed == \A o \in OrgIds : org[o].row = "present" => org[o].msp \in MspIds

TypeInv == OrganizationsTypeOK /\ CallsFit /\ RowsNamed

LEMMA TypeStart == OrganizationsInit => TypeInv
BY DEF OrganizationsInit, TypeInv, OrganizationsTypeOK, CallsFit, CallFits, RowsNamed, CallIdleOrg, NewOrgCall, NewOrgCall, KeyUnborn

\* A request puts a new record into its own place.
LEMMA OneCall ==
    ASSUME TypeInv, NEW r \in OrgCalls, NEW c \in OrgCall, CallFits(c),
           ocall' = [ocall EXCEPT ![r] = c]
    PROVE  ocall' \in [OrgCalls -> OrgCall] /\ CallsFit'
BY DEF TypeInv, OrganizationsTypeOK, OrgCall, CallsFit, CallFits

LEMMA IdleCall == CallIdleOrg \in OrgCall /\ CallFits(CallIdleOrg)
BY DEF CallIdleOrg, NewOrgCall, OrgCall, CallFits

LEMMA BeginTypes ==
    ASSUME TypeInv, NEW r \in OrgCalls, NEW o \in OrgIds,
           \/ \E m \in MspIds : BeginCreateOrganization(r, o, m)
           \/ BeginCreateKey(r, o)
    PROVE  TypeInv'
<1>1. CASE BeginCreateKey(r, o)
    <2> DEFINE c == NewOrgCall("member", o, "none", "run", {}, TRUE)
    <2>0. /\ c.op = "member" /\ c.o = o /\ c.pc = "run" /\ c.n = 1 /\ c.msp = "none"
          /\ c \in OrgCall
        BY DEF NewOrgCall, OrgCall
    <2>2. ocall' = [ocall EXCEPT ![r] = c]
        BY <1>1 DEF BeginCreateKey
    <2> HIDE DEF c
    <2>1. c \in OrgCall /\ CallFits(c)
        BY <2>0 DEF CallFits, Sagas, LastOf
    <2>3. ocall' \in [OrgCalls -> OrgCall] /\ CallsFit'
        BY <2>1, <2>2, OneCall
    <2>. QED BY <1>1, <2>3 DEF BeginCreateKey, TypeInv, OrganizationsTypeOK, RowsNamed, OrgCall
<1>2. ASSUME NEW m \in MspIds, BeginCreateOrganization(r, o, m) PROVE TypeInv'
    <2> DEFINE c == NewOrgCall("create", o, m, "run", {}, TRUE)
    <2>0. /\ c.op = "create" /\ c.o = o /\ c.pc = "run" /\ c.n = 1 /\ c.msp = m
          /\ c \in OrgCall
        BY DEF NewOrgCall, OrgCall
    <2>2. ocall' = [ocall EXCEPT ![r] = c]
        BY <1>2 DEF BeginCreateOrganization
    <2> HIDE DEF c
    <2>1. c \in OrgCall /\ CallFits(c)
        BY <2>0 DEF CallFits, Sagas, LastOf
    <2>3. ocall' \in [OrgCalls -> OrgCall] /\ CallsFit'
        BY <2>1, <2>2, OneCall
    <2>. QED BY <1>2, <2>3 DEF BeginCreateOrganization, TypeInv, OrganizationsTypeOK, RowsNamed, OrgCall
<1>. QED BY <1>1, <1>2

\* The next step of a saga, and the next delete of a rollback.
LEMMA AdvanceTypes ==
    ASSUME TypeInv, NEW r \in OrgCalls, ocall[r].pc = "run", ocall[r].n < LastOf(ocall[r].op), AdvanceOrg(r)
    PROVE  ocall' \in [OrgCalls -> OrgCall] /\ CallsFit'
<1> DEFINE c == [ocall[r] EXCEPT !.n = @ + 1]
<1>1. ocall[r] \in OrgCall /\ CallFits(ocall[r])
    BY DEF TypeInv, OrganizationsTypeOK, OrgCall, CallsFit
<1>2. c \in OrgCall /\ CallFits(c)
    BY <1>1 DEF OrgCall, CallFits, Sagas, LastOf
<1>3. ocall' = [ocall EXCEPT ![r] = c]
    BY DEF AdvanceOrg, TypeInv, OrganizationsTypeOK
<1> HIDE DEF c
<1>. QED BY <1>2, <1>3, OneCall

LEMMA EndTypes ==
    ASSUME TypeInv, NEW r \in OrgCalls, EndOrgCall(r)
    PROVE  ocall' \in [OrgCalls -> OrgCall] /\ CallsFit'
BY IdleCall, OneCall DEF EndOrgCall

\* A saga is at a step that fits.
LEMMA AtStep ==
    ASSUME TypeInv, NEW r \in OrgCalls, ocall[r].pc \in {"run", "undo"}
    PROVE  /\ ocall[r].op \in Sagas /\ ocall[r].o \in OrgIds
           /\ ocall[r].n \in 1..LastOf(ocall[r].op)
           /\ StepFits(ocall[r].op, ocall[r].n)
           /\ StepOf(r) = StepsOf(ocall[r].op)[ocall[r].n]
           /\ ocall[r].op = "create" => ocall[r].msp \in MspIds
           /\ ocall[r].pc = "undo" => ocall[r].k \in 1..Len(StepOf(r).undo)
<1>1. CallFits(ocall[r])
    BY DEF TypeInv, CallsFit
<1>2. ocall[r].op \in Sagas /\ ocall[r].n \in 1..LastOf(ocall[r].op)
    BY <1>1 DEF CallFits
<1>3. StepFits(ocall[r].op, ocall[r].n)
    BY <1>2, SagaFits
<1>. QED BY <1>1, <1>2, <1>3 DEF CallFits, StepOf

LEMMA RoleIsKey ==
    ASSUME NEW o \in OrgIds, NEW op \in Sagas, NEW role \in RolesOf(op)
    PROVE  <<o, role>> \in KeyIds
BY DEF KeyIds, RolesOf

LEMMA StepKey ==
    ASSUME TypeInv, NEW r \in OrgCalls, ocall[r].pc \in {"run", "undo"}
    PROVE  /\ StepOf(r).do # "insert" => KeyOf(r) \in KeyIds /\ KeyOf(r)[2] \in RolesOf(ocall[r].op)
           /\ StepOf(r).do = "issue" => <<ocall[r].o, StepOf(r).by>> \in KeyIds
           /\ \A i \in 1..Len(StepOf(r).undo) : <<ocall[r].o, StepOf(r).undo[i]>> \in KeyIds
<1>1. StepFits(ocall[r].op, ocall[r].n) /\ StepOf(r) = StepsOf(ocall[r].op)[ocall[r].n]
      /\ ocall[r].op \in Sagas /\ ocall[r].o \in OrgIds
    BY AtStep
<1>2. /\ StepOf(r).do # "insert" => StepOf(r).role \in RolesOf(ocall[r].op)
      /\ StepOf(r).do = "issue" => StepOf(r).by \in Authorities
      /\ \A i \in 1..Len(StepOf(r).undo) : StepOf(r).undo[i] \in RolesOf(ocall[r].op)
    BY <1>1 DEF StepFits
<1>3. \A i \in 1..Len(StepOf(r).undo) : <<ocall[r].o, StepOf(r).undo[i]>> \in KeyIds
    BY <1>1, <1>2, RoleIsKey
<1>4. StepOf(r).do # "insert" => KeyOf(r) \in KeyIds /\ KeyOf(r)[2] \in RolesOf(ocall[r].op)
    BY <1>1, <1>2, RoleIsKey DEF KeyOf
<1>5. StepOf(r).do = "issue" => <<ocall[r].o, StepOf(r).by>> \in KeyIds
    BY <1>1, <1>2 DEF KeyIds, OrgRoles
<1>. QED BY <1>3, <1>4, <1>5

LEMMA SignTypes ==
    ASSUME key \in [KeyIds -> KeyRow], NEW k \in KeyIds, NEW by \in KeyIds, SignCertificate(k, by)
    PROVE  key' \in [KeyIds -> KeyRow]
BY DEF SignCertificate, KeyRow

LEMMA SignEffect ==
    ASSUME key \in [KeyIds -> KeyRow], NEW k \in KeyIds, NEW by \in KeyIds, SignCertificate(k, by)
    PROVE  /\ key'[k].row = key[k].row /\ key'[k].issuer = by
           /\ key[k].row = "present" /\ by[2] \in Authorities
           /\ \A j \in KeyIds : j # k => key'[j] = key[j]
<1>1. key[k] \in KeyRow
    OBVIOUS
<1>2. key'[k] = [key[k] EXCEPT !.issuer = by, !.ca = FALSE]
    BY DEF SignCertificate
<1>. QED BY <1>1, <1>2 DEF SignCertificate, Signable, KeyRow

LEMMA DeleteTypes ==
    ASSUME key \in [KeyIds -> KeyRow], NEW k \in KeyIds, DeleteKey(k)
    PROVE  key' \in [KeyIds -> KeyRow]
BY DEF DeleteKey, KeyGone, KeyRow

LEMMA NextIndex ==
    ASSUME NEW len \in 0..5, NEW k \in 1..len, k # len
    PROVE  k + 1 \in 1..len /\ k + 1 \in 1..6
OBVIOUS

LEMMA UndoCall ==
    ASSUME NEW c \in OrgCall, NEW k \in 1..6
    PROVE  [c EXCEPT !.pc = "undo", !.k = k] \in OrgCall
BY DEF OrgCall

LEMMA NextUndo ==
    ASSUME NEW c \in OrgCall, NEW k \in 1..6
    PROVE  [c EXCEPT !.k = k] \in OrgCall
BY DEF OrgCall

LEMMA SagaTypes ==
    ASSUME TypeInv, NEW r \in OrgCalls,
           \/ MakeKey(r) \/ IssueCertificate(r) \/ CreateFabricOrganization(r)
           \/ OrgStepFails(r) \/ UndoOrgStep(r) \/ CutOffOrgCall(r)
    PROVE  TypeInv'
<1>0. ocall[r].pc \in {"run", "undo"}
    BY DEF MakeKey, IssueCertificate, CreateFabricOrganization, OrgStepFails, UndoOrgStep, CutOffOrgCall
<1>a. /\ ocall[r].op \in Sagas /\ ocall[r].o \in OrgIds /\ ocall[r].n \in 1..LastOf(ocall[r].op)
      /\ ocall[r].op = "create" => ocall[r].msp \in MspIds
      /\ ocall[r].pc = "undo" => ocall[r].k \in 1..Len(StepOf(r).undo)
      /\ StepOf(r) = StepsOf(ocall[r].op)[ocall[r].n]
    BY <1>0, AtStep
<1>b. /\ StepOf(r).do = "insert" => ocall[r].op = "create" /\ ocall[r].n = 9
      /\ StepOf(r).do = "new" => ocall[r].n < LastOf(ocall[r].op)
      /\ StepOf(r).do = "issue" => (ocall[r].n = LastOf(ocall[r].op) => ocall[r].op = "member")
      /\ Len(StepOf(r).undo) \in 0..5
      /\ StepOf(r).undo # <<>> => Len(StepOf(r).undo) \in 1..5
    BY <1>0, AtStep DEF StepFits
<1>1. CASE MakeKey(r)
    <2>1. ocall' \in [OrgCalls -> OrgCall] /\ CallsFit'
        BY <1>1, <1>b, AdvanceTypes DEF MakeKey
    <2>2. KeyOf(r) \in KeyIds
        BY <1>1, <1>0, StepKey DEF MakeKey
    <2>. QED BY <1>1, <2>1, <2>2
        DEF MakeKey, GenerateKey, TypeInv, OrganizationsTypeOK, RowsNamed, OrgCall
<1>2. CASE IssueCertificate(r)
    <2>1. ocall' \in [OrgCalls -> OrgCall] /\ CallsFit'
        <3>1. CASE ocall[r].op = "member" /\ ocall[r].n = 4
            BY <1>2, <3>1, EndTypes DEF IssueCertificate
        <3>2. CASE ~(ocall[r].op = "member" /\ ocall[r].n = 4)
            <4>1. ocall[r].n < LastOf(ocall[r].op)
                BY <1>2, <3>2, <1>a, <1>b DEF IssueCertificate, LastOf, Sagas
            <4>. QED BY <1>2, <3>2, <4>1, AdvanceTypes DEF IssueCertificate
        <3>. QED BY <3>1, <3>2
    <2>2. KeyOf(r) \in KeyIds /\ <<ocall[r].o, StepOf(r).by>> \in KeyIds
        BY <1>2, <1>0, StepKey DEF IssueCertificate
    <2>3. kept' \in SUBSET KeyIds
        BY <1>2, <1>a DEF IssueCertificate, TypeInv, OrganizationsTypeOK, KeyIds
    <2>3a. key \in [KeyIds -> KeyRow] /\ SignCertificate(KeyOf(r), <<ocall[r].o, StepOf(r).by>>)
        BY <1>2 DEF IssueCertificate, TypeInv, OrganizationsTypeOK, KeyRow
    <2>4. key' \in [KeyIds -> KeyRow]
        BY <2>2, <2>3a, SignTypes
    <2>. QED BY <1>2, <2>1, <2>3, <2>4
        DEF IssueCertificate, TypeInv, OrganizationsTypeOK, RowsNamed, OrgCall, KeyRow
<1>3. CASE CreateFabricOrganization(r)
    <2>1. ocall' \in [OrgCalls -> OrgCall] /\ CallsFit'
        BY <1>3, EndTypes DEF CreateFabricOrganization
    <2>2. ocall[r].msp \in MspIds
        BY <1>3, <1>a, <1>b DEF CreateFabricOrganization
    <2>3. kept' \in SUBSET KeyIds
        BY <1>3, <1>a DEF CreateFabricOrganization, TypeInv, OrganizationsTypeOK, KeyIds
    <2>. QED BY <1>3, <1>a, <2>1, <2>2, <2>3
        DEF CreateFabricOrganization, TypeInv, OrganizationsTypeOK, RowsNamed, OrgCall
<1>4. CASE OrgStepFails(r)
    <2>1. ocall' \in [OrgCalls -> OrgCall] /\ CallsFit'
        <3>1. CASE StepOf(r).undo = <<>>
            BY <1>4, <3>1, EndTypes DEF OrgStepFails
        <3>2. CASE StepOf(r).undo # <<>>
            <4> DEFINE c == [ocall[r] EXCEPT !.pc = "undo", !.k = 1]
            <4>1. ocall[r] \in OrgCall
                BY DEF TypeInv, OrganizationsTypeOK, OrgCall
            <4>a. c \in OrgCall
                <5>1. 1 \in 1..6
                    OBVIOUS
                <5>. QED BY <4>1, <5>1, UndoCall
            <4>b. /\ c.pc = "undo" /\ c.k = 1 /\ c.n = ocall[r].n
                  /\ c.op = ocall[r].op /\ c.o = ocall[r].o /\ c.msp = ocall[r].msp
                BY <4>1 DEF OrgCall
            <4>3. ocall' = [ocall EXCEPT ![r] = c]
                BY <1>4, <3>2 DEF OrgStepFails, TypeInv, OrganizationsTypeOK
            <4> HIDE DEF c
            <4>4. CallFits(c)
                BY <4>b, <1>a, <1>b, <3>2 DEF CallFits
            <4>. QED BY <4>a, <4>3, <4>4, OneCall
        <3>. QED BY <3>1, <3>2
    <2>. QED BY <1>4, <2>1 DEF OrgStepFails, TypeInv, OrganizationsTypeOK, RowsNamed, OrgCall
<1>5. CASE UndoOrgStep(r)
    <2>1. ocall' \in [OrgCalls -> OrgCall] /\ CallsFit'
        <3>1. CASE ocall[r].k = Len(StepOf(r).undo)
            BY <1>5, <3>1, EndTypes DEF UndoOrgStep
        <3>2. CASE ocall[r].k # Len(StepOf(r).undo)
            <4> DEFINE c == [ocall[r] EXCEPT !.k = @ + 1]
            <4>1. ocall[r] \in OrgCall /\ ocall[r].pc = "undo"
                BY <1>5 DEF TypeInv, OrganizationsTypeOK, OrgCall, UndoOrgStep
            <4>2. /\ ocall[r].k + 1 \in 1..Len(StepOf(r).undo) /\ ocall[r].k + 1 \in 1..6
                BY <3>2, <4>1, <1>a, <1>b, NextIndex
            <4>a. c \in OrgCall
                BY <4>1, <4>2, NextUndo
            <4>3. /\ c.pc = "undo" /\ c.k = ocall[r].k + 1 /\ c.n = ocall[r].n
                  /\ c.op = ocall[r].op /\ c.o = ocall[r].o /\ c.msp = ocall[r].msp
                BY <4>1, <4>2 DEF OrgCall
            <4>4. ocall' = [ocall EXCEPT ![r] = c]
                BY <1>5, <3>2 DEF UndoOrgStep, TypeInv, OrganizationsTypeOK
            <4> HIDE DEF c
            <4>5. CallFits(c)
                BY <4>2, <4>3, <1>a DEF CallFits
            <4>. QED BY <4>a, <4>4, <4>5, OneCall
        <3>. QED BY <3>1, <3>2
    <2>2. <<ocall[r].o, StepOf(r).undo[ocall[r].k]>> \in KeyIds
        BY <1>5, <1>0, <1>a, StepKey DEF UndoOrgStep
    <2>3. key' \in [KeyIds -> KeyRow]
        <3>1. key \in [KeyIds -> KeyRow]
            BY DEF TypeInv, OrganizationsTypeOK, KeyRow
        <3>2. key' = key \/ DeleteKey(<<ocall[r].o, StepOf(r).undo[ocall[r].k]>>)
            BY <1>5 DEF UndoOrgStep
        <3>. QED BY <2>2, <3>1, <3>2, DeleteTypes
    <2>. QED BY <1>5, <2>1, <2>3 DEF UndoOrgStep, TypeInv, OrganizationsTypeOK, RowsNamed, OrgCall, KeyRow
<1>6. CASE CutOffOrgCall(r)
    <2>1. ocall' \in [OrgCalls -> OrgCall] /\ CallsFit'
        BY <1>6, EndTypes DEF CutOffOrgCall
    <2>2. undisturbed' \in [OrgIds -> BOOLEAN]
        BY <1>6 DEF CutOffOrgCall, TypeInv, OrganizationsTypeOK
    <2>. QED BY <1>6, <2>1, <2>2 DEF CutOffOrgCall, TypeInv, OrganizationsTypeOK, RowsNamed, OrgCall
<1>. QED BY <1>1, <1>2, <1>3, <1>4, <1>5, <1>6

\* What a publication notes of another one changes neither types nor shapes.
LEMMA NoteTypes ==
    ASSUME NEW c \in OrgCall, CallFits(c), NEW must \in SUBSET Serials, NEW flag \in BOOLEAN
    PROVE  /\ [c EXCEPT !.must = must] \in OrgCall /\ CallFits([c EXCEPT !.must = must])
           /\ [c EXCEPT !.alone = flag] \in OrgCall /\ CallFits([c EXCEPT !.alone = flag])
           /\ [c EXCEPT !.fresh = flag] \in OrgCall /\ CallFits([c EXCEPT !.fresh = flag])
<1>1. [c EXCEPT !.must = must] \in OrgCall /\ CallFits([c EXCEPT !.must = must])
    BY DEF OrgCall, CallFits
<1>2. [c EXCEPT !.alone = flag] \in OrgCall /\ CallFits([c EXCEPT !.alone = flag])
    BY DEF OrgCall, CallFits
<1>3. [c EXCEPT !.fresh = flag] \in OrgCall /\ CallFits([c EXCEPT !.fresh = flag])
    BY DEF OrgCall, CallFits
<1>. QED BY <1>1, <1>2, <1>3

\* Every place of ocall gets a record.
LEMMA AllCalls ==
    ASSUME ocall' = [q \in OrgCalls |-> ocall'[q]],
           \A q \in OrgCalls : ocall'[q] \in OrgCall /\ CallFits(ocall'[q])
    PROVE  ocall' \in [OrgCalls -> OrgCall] /\ CallsFit'
<1>1. ocall' \in [OrgCalls -> OrgCall]
    OBVIOUS
<1>2. CallsFit'
    BY DEF CallsFit, CallFits
<1>. QED BY <1>1, <1>2

LEMMA CallTyped ==
    ASSUME TypeInv, NEW q \in OrgCalls
    PROVE  ocall[q] \in OrgCall /\ CallFits(ocall[q])
BY DEF TypeInv, OrganizationsTypeOK, OrgCall, CallsFit

LEMMA BeginPublishTypes ==
    ASSUME TypeInv, NEW r \in OrgCalls, NEW o \in OrgIds, BeginPublish(r, o)
    PROVE  TypeInv'
<1>1. NewOrgCall("publish", o, org[o].msp, "list", revoked[o], Publishing(org[o].msp) = {}) \in OrgCall
    <2>1. org[o].msp \in MspIds /\ revoked[o] \in SUBSET Serials
        BY DEF BeginPublish, TypeInv, RowsNamed, OrganizationsTypeOK
    <2>2. (Publishing(org[o].msp) = {}) \in BOOLEAN
        OBVIOUS
    <2>. QED BY <2>1, <2>2 DEF NewOrgCall, OrgCall
<1>2. CallFits(NewOrgCall("publish", o, org[o].msp, "list", revoked[o], Publishing(org[o].msp) = {}))
    BY DEF BeginPublish, TypeInv, RowsNamed, NewOrgCall, CallFits
<1>3. ASSUME NEW q \in OrgCalls PROVE ocall'[q] \in OrgCall /\ CallFits(ocall'[q])
    <2>1. ocall'[q] \in {NewOrgCall("publish", o, org[o].msp, "list", revoked[o],
                                    Publishing(org[o].msp) = {}),
                         [ocall[q] EXCEPT !.alone = FALSE], ocall[q]}
        BY DEF BeginPublish
    <2>. QED BY <2>1, <1>1, <1>2, CallTyped, NoteTypes
<1>4. ocall' = [q \in OrgCalls |-> ocall'[q]]
    BY DEF BeginPublish
<1>5. ocall' \in [OrgCalls -> OrgCall] /\ CallsFit'
    BY <1>3, <1>4, AllCalls
<1>. QED BY <1>5 DEF BeginPublish, TypeInv, OrganizationsTypeOK, RowsNamed, OrgCall

LEMMA SendTypes ==
    ASSUME TypeInv, NEW r \in OrgCalls, ocall[r].pc = "send", Accepted(r), AfterSend(r)
    PROVE  /\ ocall' \in [OrgCalls -> OrgCall] /\ CallsFit'
           /\ posted' \in [MspIds -> SUBSET Serials]
<1>1. ASSUME NEW q \in OrgCalls PROVE ocall'[q] \in OrgCall /\ CallFits(ocall'[q])
    <2>1. ocall'[q] \in {CallIdleOrg, [ocall[q] EXCEPT !.fresh = FALSE], ocall[q]}
        BY DEF AfterSend
    <2>. QED BY <2>1, IdleCall, CallTyped, NoteTypes
<1>2. ocall' = [q \in OrgCalls |-> ocall'[q]]
    BY DEF AfterSend
<1>3. posted' \in [MspIds -> SUBSET Serials]
    <2>1. ocall[r].listed \in SUBSET Serials /\ ocall[r].msp \in MspIds
        BY CallTyped DEF OrgCall, CallFits
    <2>. QED BY <2>1 DEF Accepted, TypeInv, OrganizationsTypeOK
<1>. QED BY <1>1, <1>2, <1>3, AllCalls

LEMMA PublishTypes ==
    ASSUME TypeInv, NEW r \in OrgCalls,
           GetCRL(r) \/ GetChannelConfig(r) \/ SaveChannelConfig(r) \/ PublishFails(r)
    PROVE  TypeInv'
<1>0. ocall[r] \in OrgCall /\ CallFits(ocall[r])
    BY CallTyped
<1>1. CASE GetCRL(r)
    <2> DEFINE c == [ocall[r] EXCEPT !.pc = "config", !.listed = revoked[ocall[r].o]]
    <2>1. ocall[r].o \in OrgIds /\ revoked[ocall[r].o] \in SUBSET Serials
        BY <1>0, <1>1 DEF GetCRL, CallFits, TypeInv, OrganizationsTypeOK
    <2>2. c \in OrgCall
        BY <1>0, <2>1 DEF OrgCall
    <2>3. CallFits(c)
        BY <1>0, <1>1 DEF GetCRL, CallFits, OrgCall
    <2>4. ocall' = [ocall EXCEPT ![r] = c]
        BY <1>1 DEF GetCRL, TypeInv, OrganizationsTypeOK
    <2> HIDE DEF c
    <2>5. ocall' \in [OrgCalls -> OrgCall] /\ CallsFit'
        BY <2>2, <2>3, <2>4, OneCall
    <2>. QED BY <1>1, <2>5 DEF GetCRL, TypeInv, OrganizationsTypeOK, RowsNamed, OrgCall
<1>2. CASE GetChannelConfig(r)
    <2> DEFINE c == [ocall[r] EXCEPT !.pc = "send", !.fresh = TRUE]
    <2>2. c \in OrgCall
        BY <1>0 DEF OrgCall
    <2>3. CallFits(c)
        BY <1>0, <1>2 DEF GetChannelConfig, CallFits, OrgCall
    <2>4. ocall' = [ocall EXCEPT ![r] = c]
        BY <1>2 DEF GetChannelConfig, TypeInv, OrganizationsTypeOK
    <2> HIDE DEF c
    <2>5. ocall' \in [OrgCalls -> OrgCall] /\ CallsFit'
        BY <2>2, <2>3, <2>4, OneCall
    <2>. QED BY <1>2, <2>5 DEF GetChannelConfig, TypeInv, OrganizationsTypeOK, RowsNamed, OrgCall
<1>3. CASE SaveChannelConfig(r)
    <2>1. /\ ocall' \in [OrgCalls -> OrgCall] /\ CallsFit'
          /\ posted' \in [MspIds -> SUBSET Serials]
        BY <1>3, SendTypes DEF SaveChannelConfig
    <2>2. ocall[r].must \in SUBSET Serials
        BY <1>0 DEF OrgCall
    <2>3. promised' \in [OrgIds -> SUBSET Serials]
        BY <1>3, <2>2 DEF SaveChannelConfig, TypeInv, OrganizationsTypeOK
    <2>. QED BY <1>3, <2>1, <2>3 DEF SaveChannelConfig, TypeInv, OrganizationsTypeOK, RowsNamed, OrgCall
<1>4. CASE PublishFails(r)
    <2>1. /\ ocall' \in [OrgCalls -> OrgCall] /\ CallsFit'
          /\ posted' \in [MspIds -> SUBSET Serials]
        <3>1. CASE EndOrgCall(r) /\ posted' = posted
            BY <3>1, EndTypes DEF TypeInv, OrganizationsTypeOK
        <3>2. CASE ocall[r].pc = "send" /\ Accepted(r) /\ AfterSend(r)
            BY <3>2, SendTypes
        <3>. QED BY <1>4, <3>1, <3>2 DEF PublishFails
    <2>. QED BY <1>4, <2>1 DEF PublishFails, TypeInv, OrganizationsTypeOK, RowsNamed, OrgCall
<1>. QED BY <1>1, <1>2, <1>3, <1>4

LEMMA RequestTypes ==
    ASSUME TypeInv, NEW k \in KeyIds,
           DeleteKeyRequest(k) \/ \E by \in KeyIds : SignCertificateRequest(k, by)
    PROVE  TypeInv'
<1>0. key \in [KeyIds -> KeyRow]
    BY DEF TypeInv, OrganizationsTypeOK, KeyRow
<1>1. key' \in [KeyIds -> KeyRow]
    BY <1>0, DeleteTypes, SignTypes DEF DeleteKeyRequest, SignCertificateRequest
<1>2. undisturbed' \in [OrgIds -> BOOLEAN]
    BY DEF DeleteKeyRequest, SignCertificateRequest, TypeInv, OrganizationsTypeOK
<1>3. UNCHANGED <<org, revoked, posted, kept, promised, ocall>>
    BY DEF DeleteKeyRequest, SignCertificateRequest
<1>. QED BY <1>1, <1>2, <1>3 DEF TypeInv, OrganizationsTypeOK, RowsNamed, KeyRow, CallsFit

\* Serials of one organization go from the records of its publications.
LEMMA ForgetTypes ==
    ASSUME TypeInv, NEW o \in OrgIds, NEW gone \in SUBSET Serials,
           ocall' = [r \in OrgCalls |->
               IF ocall[r].o = o THEN [ocall[r] EXCEPT !.must = @ \ gone] ELSE ocall[r]]
    PROVE  ocall' \in [OrgCalls -> OrgCall] /\ CallsFit'
<1>1. ASSUME NEW q \in OrgCalls PROVE ocall'[q] \in OrgCall /\ CallFits(ocall'[q])
    <2>1. ocall[q].must \ gone \in SUBSET Serials
        BY CallTyped DEF OrgCall
    <2>2. ocall'[q] \in {[ocall[q] EXCEPT !.must = ocall[q].must \ gone], ocall[q]}
        OBVIOUS
    <2>. QED BY <2>1, <2>2, CallTyped, NoteTypes
<1>. QED BY <1>1, AllCalls

LEMMA RowTypes ==
    ASSUME TypeInv, NEW o \in OrgIds,
           \/ DeleteOrganization(o)
           \/ \E s \in Serials : RevokeCertificate(o, s) \/ DeleteRevokedCertificate(o, s)
    PROVE  TypeInv'
<1>1. CASE DeleteOrganization(o)
    <2>1. \A r \in OrgCalls : [ocall[r] EXCEPT !.must = {}] \in OrgCall
                              /\ CallFits([ocall[r] EXCEPT !.must = {}])
        <3>1. {} \in SUBSET Serials
            OBVIOUS
        <3>. QED BY <3>1, CallTyped, NoteTypes
    <2>2. ASSUME NEW q \in OrgCalls PROVE ocall'[q] \in OrgCall /\ CallFits(ocall'[q])
        <3>1. ocall'[q] \in {[ocall[q] EXCEPT !.must = {}], ocall[q]}
            BY <1>1 DEF DeleteOrganization
        <3>. QED BY <3>1, <2>1, CallTyped
    <2>3. ocall' = [q \in OrgCalls |-> ocall'[q]]
        BY <1>1 DEF DeleteOrganization
    <2>4. ocall' \in [OrgCalls -> OrgCall] /\ CallsFit'
        BY <2>2, <2>3, AllCalls
    <2>5. /\ org' = [org EXCEPT ![o].row = "deleted"] /\ revoked' = [revoked EXCEPT ![o] = {}]
          /\ promised' = [promised EXCEPT ![o] = {}] /\ UNCHANGED <<key, posted, undisturbed, kept>>
        BY <1>1 DEF DeleteOrganization
    <2>6. org' \in [OrgIds -> OrgRow] /\ RowsNamed'
        BY <2>5 DEF TypeInv, OrganizationsTypeOK, OrgRow, RowsNamed
    <2>7. revoked' \in [OrgIds -> SUBSET Serials] /\ promised' \in [OrgIds -> SUBSET Serials]
        BY <2>5 DEF TypeInv, OrganizationsTypeOK
    <2>. QED BY <2>4, <2>5, <2>6, <2>7 DEF TypeInv, OrganizationsTypeOK, OrgCall, OrgRow
<1>2. ASSUME NEW s \in Serials, RevokeCertificate(o, s) PROVE TypeInv'
    <2>1. revoked' \in [OrgIds -> SUBSET Serials] /\ UNCHANGED <<org, key, posted, undisturbed, kept, promised, ocall>>
        BY <1>2 DEF RevokeCertificate, TypeInv, OrganizationsTypeOK
    <2>. QED BY <2>1 DEF TypeInv, OrganizationsTypeOK, RowsNamed, CallsFit
<1>3. ASSUME NEW s \in Serials, DeleteRevokedCertificate(o, s) PROVE TypeInv'
    <2>0. /\ {s} \in SUBSET Serials
          /\ ocall' = [r \in OrgCalls |->
                 IF ocall[r].o = o THEN [ocall[r] EXCEPT !.must = @ \ {s}] ELSE ocall[r]]
        BY <1>3 DEF DeleteRevokedCertificate
    <2>1. ocall' \in [OrgCalls -> OrgCall] /\ CallsFit'
        BY <2>0, ForgetTypes
    <2>. QED BY <1>3, <2>1 DEF DeleteRevokedCertificate, TypeInv, OrganizationsTypeOK, RowsNamed, OrgCall
<1>. QED BY <1>1, <1>2, <1>3

LEMMA TypeStep == TypeInv /\ OrganizationsNext => TypeInv'
BY BeginTypes, BeginPublishTypes, SagaTypes, PublishTypes, RequestTypes, RowTypes
   DEF OrganizationsNext, OrgCallStep

LEMMA TypeStutter == TypeInv /\ UNCHANGED organizationVars => TypeInv'
BY DEF TypeInv, organizationVars, OrganizationsTypeOK, CallsFit, RowsNamed

(* For any organizations, MSP ids, serials and requests: every row and every *)
(* request has its type, at each step of every call.                         *)
THEOREM OrganizationsTypeCorrect == OrganizationsSpec => []OrganizationsTypeOK
<1>1. TypeInv => OrganizationsTypeOK
    BY DEF TypeInv
<1>. QED BY TypeStart, TypeStep, TypeStutter, <1>1, PTL DEF OrganizationsSpec

-----------------------------------------------------------------------------
(* What a saga that is cut off by nothing leaves behind.                   *)

\* Only one create or member request is at an organization.
SagasApart == \A q, r \in OrgCalls :
    ocall[q].op \in Sagas /\ ocall[r].op \in Sagas /\ ocall[q].o = ocall[r].o => q = r

Unfinished  == \A r \in OrgCalls : ocall[r].op = "create" => org[ocall[r].o].row = "unborn"
RowsMade    == \A o \in OrgIds : org[o].row # "unborn" =>
                   \A role \in OrgRoles : key[<<o, role>>].row # "unborn"
IssuersSign == \A k \in KeyIds : key[k].issuer # NoKey => key[k].issuer[2] \in Authorities

\* The rollback of request r would reach key k, or still reaches it.
Covered(r, k) ==
    /\ ocall[r].op \in Sagas /\ ocall[r].o = k[1]
    /\ \/ ocall[r].pc = "run" /\ k[2] \in Signed(ocall[r].op, ocall[r].n)
       \/ /\ ocall[r].pc = "undo" /\ k[2] \notin Authorities
          /\ \E i \in ocall[r].k..Len(StepOf(r).undo) : StepOf(r).undo[i] = k[2]

SignedAccounted == \A k \in KeyIds :
    undisturbed[k[1]] /\ key[k].row = "present" /\ key[k].issuer # NoKey /\ k \notin kept =>
        \E r \in OrgCalls : Covered(r, k)

SagaInv == /\ TypeInv /\ SagasApart /\ Unfinished /\ RowsMade /\ IssuersSign /\ SignedAccounted

LEMMA SagaStart == OrganizationsInit => SagaInv
<1>. SUFFICES ASSUME OrganizationsInit PROVE SagaInv
    OBVIOUS
<1>1. /\ \A r \in OrgCalls : ocall[r].op = "none"
      /\ \A o \in OrgIds : org[o].row = "unborn"
      /\ \A k \in KeyIds : key[k].issuer = NoKey
    BY DEF OrganizationsInit, CallIdleOrg, NewOrgCall, KeyUnborn
<1>. QED BY <1>1, TypeStart DEF SagaInv, SagasApart, Unfinished, RowsMade, IssuersSign, SignedAccounted, Sagas

\* A request that is not at a saga after the step was none of those before, or
\* covered nothing; the keys and rows stay.
SameSagas == \A q \in OrgCalls :
    /\ ocall'[q].op \in Sagas <=> ocall[q].op \in Sagas
    /\ ocall[q].op \in Sagas => /\ ocall'[q].op = ocall[q].op /\ ocall'[q].o = ocall[q].o
                                /\ ocall'[q].pc = ocall[q].pc /\ ocall'[q].n = ocall[q].n
                                /\ ocall'[q].k = ocall[q].k

LEMMA SameCovered ==
    ASSUME SameSagas, NEW q \in OrgCalls, NEW k, Covered(q, k)
    PROVE  Covered(q, k)'
BY DEF SameSagas, Covered, StepOf

LEMMA BesideSagas ==
    ASSUME SagaInv, TypeInv', SameSagas, UNCHANGED <<key, undisturbed, kept>>,
           \A o \in OrgIds : org'[o].row = org[o].row \/ (org[o].row = "present" /\ org'[o].row = "deleted")
    PROVE  SagaInv'
<1>1. SagasApart'
    BY DEF SagaInv, SagasApart, SameSagas
<1>2. Unfinished'
    <2>1. ASSUME NEW r \in OrgCalls, ocall'[r].op = "create" PROVE org'[ocall'[r].o].row = "unborn"
        <3>1. ocall[r].op = "create" /\ ocall'[r].o = ocall[r].o
            BY <2>1 DEF SameSagas, Sagas
        <3>2. ocall[r].o \in OrgIds
            BY <3>1, CallTyped DEF SagaInv, CallFits, Sagas
        <3>. QED BY <3>1, <3>2 DEF SagaInv, Unfinished
    <2>. QED BY <2>1 DEF Unfinished
<1>3. RowsMade'
    BY DEF SagaInv, RowsMade
<1>4. IssuersSign'
    BY DEF SagaInv, IssuersSign
<1>5. SignedAccounted'
    BY SameCovered DEF SagaInv, SignedAccounted
<1>. QED BY <1>1, <1>2, <1>3, <1>4, <1>5 DEF SagaInv

LEMMA PublishBeside ==
    ASSUME SagaInv, NEW r \in OrgCalls,
           \/ \E o \in OrgIds : BeginPublish(r, o)
           \/ GetCRL(r) \/ GetChannelConfig(r) \/ SaveChannelConfig(r) \/ PublishFails(r)
    PROVE  SagaInv'
<1>1. TypeInv'
    BY BeginPublishTypes, PublishTypes DEF SagaInv
<1>2. UNCHANGED <<org, key, undisturbed, kept>>
    BY DEF BeginPublish, GetCRL, GetChannelConfig, SaveChannelConfig, PublishFails
<1>3. ocall[r].op \notin Sagas
    BY CallTyped DEF SagaInv, CallFits, Sagas, BeginPublish, GetCRL, GetChannelConfig, SaveChannelConfig, PublishFails
<1>4. ocall'[r].op \notin Sagas
    <2>1. ASSUME NEW o \in OrgIds, BeginPublish(r, o) PROVE ocall'[r].op \notin Sagas
        BY <2>1 DEF BeginPublish, NewOrgCall, Sagas
    <2>2. CASE GetCRL(r)
        BY <2>2, <1>3 DEF GetCRL, SagaInv, TypeInv, OrganizationsTypeOK
    <2>3. CASE GetChannelConfig(r)
        BY <2>3, <1>3 DEF GetChannelConfig, SagaInv, TypeInv, OrganizationsTypeOK
    <2>4. CASE SaveChannelConfig(r) \/ PublishFails(r)
        <3>1. ocall'[r] = CallIdleOrg
            BY <2>4 DEF SaveChannelConfig, PublishFails, AfterSend, EndOrgCall, SagaInv, TypeInv, OrganizationsTypeOK
        <3>. QED BY <3>1 DEF CallIdleOrg, NewOrgCall, Sagas
    <2>. QED BY <2>1, <2>2, <2>3, <2>4
<1>5. ASSUME NEW q \in OrgCalls, q # r
      PROVE  /\ ocall'[q].op = ocall[q].op /\ ocall'[q].o = ocall[q].o
             /\ ocall'[q].pc = ocall[q].pc /\ ocall'[q].n = ocall[q].n
             /\ ocall'[q].k = ocall[q].k
    <2>1. ocall'[q] \in {[ocall[q] EXCEPT !.alone = FALSE], [ocall[q] EXCEPT !.fresh = FALSE], ocall[q]}
        BY <1>5 DEF BeginPublish, GetCRL, GetChannelConfig, SaveChannelConfig, PublishFails, AfterSend, EndOrgCall,
               SagaInv, TypeInv, OrganizationsTypeOK
    <2>2. ocall[q] \in OrgCall
        BY CallTyped DEF SagaInv
    <2>. QED BY <2>1, <2>2 DEF OrgCall
<1>6. SameSagas
    BY <1>3, <1>4, <1>5 DEF SameSagas
<1>7. \A o \in OrgIds : org'[o].row = org[o].row
    BY <1>2
<1>. QED BY <1>1, <1>2, <1>6, <1>7, BesideSagas

LEMMA RowsBeside ==
    ASSUME SagaInv, NEW o \in OrgIds,
           \/ DeleteOrganization(o)
           \/ \E s \in Serials : RevokeCertificate(o, s) \/ DeleteRevokedCertificate(o, s)
    PROVE  SagaInv'
<1>1. TypeInv'
    BY RowTypes DEF SagaInv
<1>2. UNCHANGED <<key, undisturbed, kept>>
    BY DEF DeleteOrganization, RevokeCertificate, DeleteRevokedCertificate
<1>3. \A p \in OrgIds : org'[p].row = org[p].row \/ (org[p].row = "present" /\ org'[p].row = "deleted")
    <2>1. CASE org' = org
        BY <2>1
    <2>2. CASE org[o].row = "present" /\ org' = [org EXCEPT ![o].row = "deleted"]
        BY <2>2 DEF SagaInv, TypeInv, OrganizationsTypeOK
    <2>. QED BY <2>1, <2>2 DEF DeleteOrganization, RevokeCertificate, DeleteRevokedCertificate
<1>4. ASSUME NEW q \in OrgCalls
      PROVE  /\ ocall'[q].op = ocall[q].op /\ ocall'[q].o = ocall[q].o
             /\ ocall'[q].pc = ocall[q].pc /\ ocall'[q].n = ocall[q].n
             /\ ocall'[q].k = ocall[q].k
    <2>1. \/ ocall'[q] = ocall[q]
          \/ \E must : ocall'[q] = [ocall[q] EXCEPT !.must = must]
        BY DEF DeleteOrganization, RevokeCertificate, DeleteRevokedCertificate
    <2>2. ocall[q] \in OrgCall
        BY CallTyped DEF SagaInv
    <2>. QED BY <2>1, <2>2 DEF OrgCall
<1>5. SameSagas
    BY <1>4 DEF SameSagas
<1>. QED BY <1>1, <1>2, <1>3, <1>5, BesideSagas

LEMMA BeginSagaInv ==
    ASSUME SagaInv, NEW r \in OrgCalls, NEW o \in OrgIds,
           \/ \E m \in MspIds : BeginCreateOrganization(r, o, m)
           \/ BeginCreateKey(r, o)
    PROVE  SagaInv'
<1>1. TypeInv'
    BY BeginTypes DEF SagaInv
<1>2. /\ UNCHANGED <<org, key, undisturbed, kept>> /\ ocall[r].pc = "idle"
      /\ \A q \in OrgCalls : ocall[q].o # o
    BY DEF BeginCreateOrganization, BeginCreateKey, OrgSettled
<1>3. /\ \A q \in OrgCalls \ {r} : ocall'[q] = ocall[q]
      /\ ocall'[r].o = o /\ ocall'[r].op \in Sagas
      /\ ocall'[r].op = "create" => \A role \in OrgRoles : key[<<o, role>>].row = "unborn"
    BY DEF BeginCreateOrganization, BeginCreateKey, NewOrgCall, Sagas, SagaInv, TypeInv, OrganizationsTypeOK
<1>4. SagasApart'
    BY <1>2, <1>3 DEF SagaInv, SagasApart
<1>5. Unfinished'
    <2>1. ASSUME NEW q \in OrgCalls, q # r, ocall'[q].op = "create" PROVE org'[ocall'[q].o].row = "unborn"
        BY <2>1, <1>2, <1>3 DEF SagaInv, Unfinished
    <2>2. ocall'[r].op = "create" => org[o].row = "unborn"
        BY <1>3 DEF SagaInv, RowsMade, OrgRoles
    <2>. QED BY <2>1, <2>2, <1>2, <1>3 DEF Unfinished
<1>6. RowsMade' /\ IssuersSign'
    BY <1>2 DEF SagaInv, RowsMade, IssuersSign
<1>7. SignedAccounted'
    <2>1. ASSUME NEW q \in OrgCalls, NEW k \in KeyIds, Covered(q, k) PROVE Covered(q, k)'
        <3>1. q # r
            BY <2>1, <1>2 DEF Covered
        <3>. QED BY <2>1, <3>1, <1>3 DEF Covered, StepOf
    <2>. QED BY <2>1, <1>2 DEF SagaInv, SignedAccounted
<1>. QED BY <1>1, <1>4, <1>5, <1>6, <1>7 DEF SagaInv

LEMMA RequestInv ==
    ASSUME SagaInv, NEW k \in KeyIds,
           DeleteKeyRequest(k) \/ \E by \in KeyIds : SignCertificateRequest(k, by)
    PROVE  SagaInv'
<1>1. TypeInv'
    BY RequestTypes DEF SagaInv
<1>2. UNCHANGED <<org, kept, ocall>>
    BY DEF DeleteKeyRequest, SignCertificateRequest
<1>3. \A j \in KeyIds \ {k} : key'[j] = key[j]
    BY DEF DeleteKeyRequest, SignCertificateRequest, DeleteKey, SignCertificate,
           SagaInv, TypeInv, OrganizationsTypeOK
<1>4. /\ key'[k].row \in {"present", "deleted"}
      /\ key'[k].issuer # NoKey => key'[k].row = "present" /\ key'[k].issuer[2] \in Authorities
                                   /\ ~undisturbed'[k[1]]
    <2>1. CASE DeleteKeyRequest(k)
        BY <2>1 DEF DeleteKeyRequest, DeleteKey, KeyGone, SagaInv, TypeInv, OrganizationsTypeOK
    <2>2. ASSUME NEW by \in KeyIds, SignCertificateRequest(k, by)
          PROVE  /\ key'[k].row = "present" /\ key'[k].issuer[2] \in Authorities
                 /\ ~undisturbed'[k[1]]
        <3>1. key[k].row = "present" /\ by[2] \in Authorities
            BY <2>2 DEF SignCertificateRequest, SignCertificate, Signable
        <3>2. key'[k].row = "present" /\ key'[k].issuer = by
            <4>1. key \in [KeyIds -> KeyRow] /\ SignCertificate(k, by)
                BY <2>2 DEF SignCertificateRequest, SagaInv, TypeInv, OrganizationsTypeOK, KeyRow
            <4>. QED BY <3>1, <4>1, SignEffect
        <3>3. k[1] \in OrgIds
            BY DEF KeyIds
        <3>4. ~undisturbed'[k[1]]
            BY <2>2, <3>3 DEF SignCertificateRequest, SagaInv, TypeInv, OrganizationsTypeOK
        <3>. QED BY <3>1, <3>2, <3>4
    <2>. QED BY <2>1, <2>2
<1>5. \A o \in OrgIds : undisturbed'[o] => undisturbed[o]
    BY DEF DeleteKeyRequest, SignCertificateRequest, SagaInv, TypeInv, OrganizationsTypeOK
<1>6. SagasApart' /\ Unfinished'
    BY <1>2 DEF SagaInv, SagasApart, Unfinished
<1>7. RowsMade'
    <2>1. ASSUME NEW o \in OrgIds, org[o].row # "unborn", NEW role \in OrgRoles
          PROVE  key'[<<o, role>>].row # "unborn"
        <3>1. <<o, role>> \in KeyIds
            BY DEF KeyIds
        <3>. QED BY <2>1, <3>1, <1>3, <1>4 DEF SagaInv, RowsMade
    <2>. QED BY <2>1, <1>2 DEF RowsMade
<1>8. IssuersSign'
    BY <1>3, <1>4 DEF SagaInv, IssuersSign
<1>9. SignedAccounted'
    <2>1. ASSUME NEW j \in KeyIds, undisturbed'[j[1]], key'[j].row = "present", key'[j].issuer # NoKey, j \notin kept'
          PROVE  \E r \in OrgCalls : Covered(r, j)'
        <3>1. j # k
            BY <2>1, <1>4
        <3>2. j[1] \in OrgIds
            BY DEF KeyIds
        <3>3. undisturbed[j[1]] /\ key[j].row = "present" /\ key[j].issuer # NoKey /\ j \notin kept
            BY <2>1, <3>1, <3>2, <1>2, <1>3, <1>5
        <3>. QED BY <3>3, <1>2 DEF SagaInv, SignedAccounted, Covered, StepOf
    <2>. QED BY <2>1 DEF SignedAccounted
<1>. QED BY <1>1, <1>6, <1>7, <1>8, <1>9 DEF SagaInv

\* A key of an organization that a saga is at is accounted for by this saga.
LEMMA OwnCovered ==
    ASSUME SagaInv, NEW r \in OrgCalls, ocall[r].op \in Sagas, NEW k \in KeyIds, k[1] = ocall[r].o,
           undisturbed[k[1]], key[k].row = "present", key[k].issuer # NoKey, k \notin kept
    PROVE  Covered(r, k)
<1>1. PICK q \in OrgCalls : Covered(q, k)
    BY DEF SagaInv, SignedAccounted
<1>. QED BY <1>1 DEF SagaInv, SagasApart, Covered

\* What a step of the saga of r has to keep.
OwnStep(r, o) ==
    /\ \A q \in OrgCalls \ {r} : ocall'[q] = ocall[q]
    /\ ocall'[r].op = "none" \/ (ocall'[r].op = ocall[r].op /\ ocall'[r].o = o)
    /\ \A p \in OrgIds : \/ org'[p].row = org[p].row
                         \/ p = o /\ ocall[r].op = "create" /\ ocall'[r].op = "none"
    /\ org'[o].row = org[o].row \/ \A role \in OrgRoles : key'[<<o, role>>].row # "unborn"
    /\ \A k \in KeyIds : \/ key'[k] = key[k]
                         \/ /\ k[1] = o /\ key'[k].row # "unborn"
                            /\ key'[k].issuer # NoKey => key'[k].issuer[2] \in Authorities
    /\ \A p \in OrgIds : undisturbed'[p] => undisturbed[p]
    /\ kept \subseteq kept'

OwnCoverage(r, o) == \A k \in KeyIds :
    /\ k[1] = o /\ undisturbed'[o] /\ k \notin kept'
    /\ key'[k].row = "present" /\ key'[k].issuer # NoKey
    => Covered(r, k)'

LEMMA OwnStepInv ==
    ASSUME SagaInv, TypeInv', NEW r \in OrgCalls, NEW o \in OrgIds, ocall[r].op \in Sagas, ocall[r].o = o,
           OwnStep(r, o), OwnCoverage(r, o)
    PROVE  SagaInv'
<1>1. SagasApart'
    <2>1. ASSUME NEW q \in OrgCalls, ocall'[q].op \in Sagas
          PROVE  ocall[q].op \in Sagas /\ ocall[q].o = ocall'[q].o
        BY <2>1 DEF OwnStep, Sagas
    <2>. QED BY <2>1 DEF SagaInv, SagasApart
<1>2. Unfinished'
    <2>1. ASSUME NEW q \in OrgCalls, ocall'[q].op = "create" PROVE org'[ocall'[q].o].row = "unborn"
        <3>1. ocall[q].op = "create" /\ ocall[q].o = ocall'[q].o
            BY <2>1 DEF OwnStep
        <3>2. ocall[q].o \in OrgIds /\ org[ocall[q].o].row = "unborn"
            BY <3>1, CallTyped DEF SagaInv, CallFits, Sagas, Unfinished
        <3>3. ocall[q].o = o => q = r
            BY <3>1 DEF SagaInv, SagasApart, Sagas
        <3>. QED BY <2>1, <3>1, <3>2, <3>3 DEF OwnStep
    <2>. QED BY <2>1 DEF Unfinished
<1>3. RowsMade'
    <2>1. ASSUME NEW p \in OrgIds, org'[p].row # "unborn", NEW role \in OrgRoles
          PROVE  key'[<<p, role>>].row # "unborn"
        <3>1. <<p, role>> \in KeyIds
            BY DEF KeyIds
        <3>2. CASE org'[p].row = org[p].row
            BY <2>1, <3>1, <3>2 DEF SagaInv, RowsMade, OwnStep
        <3>3. CASE org'[p].row # org[p].row
            BY <3>3 DEF OwnStep
        <3>. QED BY <3>2, <3>3
    <2>. QED BY <2>1 DEF RowsMade
<1>4. IssuersSign'
    BY DEF SagaInv, IssuersSign, OwnStep
<1>5. SignedAccounted'
    <2>1. ASSUME NEW k \in KeyIds, undisturbed'[k[1]], key'[k].row = "present", key'[k].issuer # NoKey, k \notin kept'
          PROVE  \E q \in OrgCalls : Covered(q, k)'
        <3>1. CASE k[1] = o
            BY <2>1, <3>1 DEF OwnCoverage
        <3>2. CASE k[1] # o
            <4>1. k[1] \in OrgIds
                BY DEF KeyIds
            <4>2. undisturbed[k[1]] /\ key[k].row = "present" /\ key[k].issuer # NoKey /\ k \notin kept
                BY <2>1, <3>2, <4>1 DEF OwnStep
            <4>3. PICK q \in OrgCalls : Covered(q, k)
                BY <4>2 DEF SagaInv, SignedAccounted
            <4>4. q # r
                BY <3>2, <4>3 DEF Covered
            <4>. QED BY <4>3, <4>4, ZenonT(40) DEF Covered, StepOf, OwnStep
        <3>. QED BY <3>1, <3>2
    <2>. QED BY <2>1 DEF SignedAccounted
<1>. QED BY <1>1, <1>2, <1>3, <1>4, <1>5 DEF SagaInv

LEMMA MakeKeyInv ==
    ASSUME SagaInv, NEW r \in OrgCalls, MakeKey(r)
    PROVE  SagaInv'
<1> DEFINE o == ocall[r].o
           j == KeyOf(r)
<1>1. TypeInv' /\ TypeInv
    BY SagaTypes DEF SagaInv
<1>2. /\ ocall[r].pc = "run" /\ StepOf(r).do = "new"
      /\ UNCHANGED <<org, revoked, posted, undisturbed, kept, promised>>
      /\ ocall' = [ocall EXCEPT ![r].n = @ + 1]
    BY DEF MakeKey, AdvanceOrg
<1>3. /\ o \in OrgIds /\ ocall[r].op \in Sagas /\ j \in KeyIds /\ j[1] = o
      /\ Signed(ocall[r].op, ocall[r].n + 1) = Signed(ocall[r].op, ocall[r].n)
    BY <1>1, <1>2, AtStep, StepKey DEF StepFits, KeyOf
<1>4. /\ key'[j].row = "present" /\ key'[j].issuer = NoKey
      /\ \A k \in KeyIds : k # j => key'[k] = key[k]
    BY <1>1, <1>3 DEF MakeKey, GenerateKey, TypeInv, OrganizationsTypeOK
<1>5. /\ \A q \in OrgCalls \ {r} : ocall'[q] = ocall[q]
      /\ ocall'[r].op = ocall[r].op /\ ocall'[r].o = o /\ ocall'[r].pc = "run"
      /\ ocall'[r].n = ocall[r].n + 1
    <2>1. ocall[r] \in OrgCall /\ ocall'[r] = [ocall[r] EXCEPT !.n = @ + 1]
        BY <1>1, <1>2, CallTyped DEF TypeInv, OrganizationsTypeOK
    <2>2. \A q \in OrgCalls \ {r} : ocall'[q] = ocall[q]
        BY <1>1, <1>2 DEF TypeInv, OrganizationsTypeOK
    <2>. QED BY <1>2, <2>1, <2>2 DEF OrgCall
<1> HIDE DEF j
<1>6. OwnStep(r, o)
    BY <1>2, <1>3, <1>4, <1>5 DEF OwnStep
<1>7. OwnCoverage(r, o)
    <2>1. ASSUME NEW k \in KeyIds, k[1] = o, undisturbed'[o], k \notin kept',
                 key'[k].row = "present", key'[k].issuer # NoKey
          PROVE  Covered(r, k)'
        <3>1. Covered(r, k)
            BY <2>1, <1>2, <1>3, <1>4, OwnCovered
        <3>. QED BY <3>1, <1>2, <1>3, <1>5 DEF Covered
    <2>. QED BY <2>1 DEF OwnCoverage
<1>. QED BY <1>1, <1>3, <1>6, <1>7, OwnStepInv

LEMMA KeyPair == ASSUME NEW k \in KeyIds PROVE k = <<k[1], k[2]>> /\ k[1] \in OrgIds
BY DEF KeyIds

LEMMA Ended ==
    ASSUME TypeInv, NEW r \in OrgCalls, EndOrgCall(r)
    PROVE  ocall'[r].op = "none" /\ \A q \in OrgCalls \ {r} : ocall'[q] = ocall[q]
BY DEF EndOrgCall, CallIdleOrg, NewOrgCall, TypeInv, OrganizationsTypeOK

LEMMA Advanced ==
    ASSUME TypeInv, NEW r \in OrgCalls, AdvanceOrg(r)
    PROVE  /\ \A q \in OrgCalls \ {r} : ocall'[q] = ocall[q]
           /\ ocall'[r].op = ocall[r].op /\ ocall'[r].o = ocall[r].o /\ ocall'[r].pc = ocall[r].pc
           /\ ocall'[r].n = ocall[r].n + 1
<1>1. ocall[r] \in OrgCall /\ ocall'[r] = [ocall[r] EXCEPT !.n = @ + 1]
    BY CallTyped DEF AdvanceOrg, TypeInv, OrganizationsTypeOK
<1>2. \A q \in OrgCalls \ {r} : ocall'[q] = ocall[q]
    BY DEF AdvanceOrg, TypeInv, OrganizationsTypeOK
<1>. QED BY <1>1, <1>2 DEF OrgCall

LEMMA IssueInv ==
    ASSUME SagaInv, NEW r \in OrgCalls, IssueCertificate(r)
    PROVE  SagaInv'
<1> DEFINE o  == ocall[r].o
           j  == KeyOf(r)
           by == <<o, StepOf(r).by>>
<1>1. TypeInv' /\ TypeInv
    BY SagaTypes DEF SagaInv
<1>2. /\ ocall[r].pc = "run" /\ StepOf(r).do = "issue"
      /\ UNCHANGED <<org, revoked, posted, undisturbed, promised>>
      /\ SignCertificate(j, by)
    BY DEF IssueCertificate
<1>3. /\ o \in OrgIds /\ ocall[r].op \in Sagas /\ j \in KeyIds /\ j[1] = o /\ j[2] = StepOf(r).role
      /\ j[2] \in RolesOf(ocall[r].op) /\ by \in KeyIds
      /\ Signed(ocall[r].op, ocall[r].n + 1) = Signed(ocall[r].op, ocall[r].n) \cup {j[2]}
      /\ Signed(ocall[r].op, ocall[r].n) \subseteq RolesOf(ocall[r].op)
    BY <1>1, <1>2, AtStep, StepKey DEF StepFits, KeyOf
<1>4. /\ key'[j].row = "present" /\ key'[j].issuer[2] \in Authorities
      /\ \A k \in KeyIds : k # j => key'[k] = key[k]
    BY <1>1, <1>2, <1>3, SignEffect DEF TypeInv, OrganizationsTypeOK, KeyRow
<1> HIDE DEF j, by
<1>5. CASE ocall[r].op = "member" /\ ocall[r].n = 4
    <2>1. EndOrgCall(r) /\ kept' = kept \cup {<<o, role>> : role \in MemberRoles}
        BY <1>5 DEF IssueCertificate
    <2>2. ocall'[r].op = "none" /\ \A q \in OrgCalls \ {r} : ocall'[q] = ocall[q]
        BY <1>1, <2>1, Ended
    <2>3. OwnStep(r, o)
        BY <1>2, <1>3, <1>4, <2>1, <2>2 DEF OwnStep
    <2>4. OwnCoverage(r, o)
        <3>1. ASSUME NEW k \in KeyIds, k[1] = o, undisturbed'[o], k \notin kept',
                     key'[k].row = "present", key'[k].issuer # NoKey
              PROVE  FALSE
            <4>1. k[2] \notin MemberRoles
                BY <3>1, <2>1, KeyPair
            <4>2. k # j
                BY <4>1, <1>3, <1>5 DEF RolesOf
            <4>3. Covered(r, k)
                BY <3>1, <4>2, <1>2, <1>3, <1>4, <2>1, OwnCovered
            <4>. QED BY <4>1, <4>3, <1>2, <1>3, <1>5 DEF Covered, RolesOf
        <3>. QED BY <3>1 DEF OwnCoverage
    <2>. QED BY <1>1, <1>3, <2>3, <2>4, OwnStepInv
<1>6. CASE ~(ocall[r].op = "member" /\ ocall[r].n = 4)
    <2>1. AdvanceOrg(r) /\ kept' = kept
        BY <1>6 DEF IssueCertificate
    <2>2. /\ \A q \in OrgCalls \ {r} : ocall'[q] = ocall[q]
          /\ ocall'[r].op = ocall[r].op /\ ocall'[r].o = o /\ ocall'[r].pc = "run"
          /\ ocall'[r].n = ocall[r].n + 1
        BY <1>1, <1>2, <2>1, Advanced
    <2>3. OwnStep(r, o)
        BY <1>2, <1>3, <1>4, <2>1, <2>2 DEF OwnStep
    <2>4. OwnCoverage(r, o)
        <3>1. ASSUME NEW k \in KeyIds, k[1] = o, undisturbed'[o], k \notin kept',
                     key'[k].row = "present", key'[k].issuer # NoKey
              PROVE  Covered(r, k)'
            <4>1. CASE k = j
                BY <4>1, <1>3, <2>2 DEF Covered
            <4>2. CASE k # j
                <5>1. Covered(r, k)
                    BY <3>1, <4>2, <1>2, <1>3, <1>4, <2>1, OwnCovered
                <5>. QED BY <5>1, <1>2, <1>3, <2>2 DEF Covered
            <4>. QED BY <4>1, <4>2
        <3>. QED BY <3>1 DEF OwnCoverage
    <2>. QED BY <1>1, <1>3, <2>3, <2>4, OwnStepInv
<1>. QED BY <1>5, <1>6

LEMMA InsertInv ==
    ASSUME SagaInv, NEW r \in OrgCalls, CreateFabricOrganization(r)
    PROVE  SagaInv'
<1> DEFINE o == ocall[r].o
<1>1. TypeInv' /\ TypeInv
    BY SagaTypes DEF SagaInv
<1>2. /\ ocall[r].pc = "run" /\ StepOf(r).do = "insert" /\ EndOrgCall(r)
      /\ \A role \in OrgRoles : key[<<o, role>>].row = "present"
      /\ org' = [org EXCEPT ![o] = [row |-> "present", msp |-> ocall[r].msp]]
      /\ kept' = kept \cup {<<o, role>> : role \in OrgRoles}
      /\ UNCHANGED <<key, revoked, posted, undisturbed, promised>>
    BY DEF CreateFabricOrganization
<1>3. /\ o \in OrgIds /\ ocall[r].op \in Sagas /\ ocall[r].op = "create"
      /\ Signed(ocall[r].op, ocall[r].n) \subseteq OrgRoles
    BY <1>1, <1>2, AtStep DEF StepFits, RolesOf
<1>4. ocall'[r].op = "none" /\ \A q \in OrgCalls \ {r} : ocall'[q] = ocall[q]
    BY <1>1, <1>2, Ended
<1>5. \A p \in OrgIds : org'[p].row = org[p].row \/ p = o
    BY <1>1, <1>2, <1>3 DEF TypeInv, OrganizationsTypeOK
<1>6. OwnStep(r, o)
    BY <1>2, <1>3, <1>4, <1>5 DEF OwnStep
<1>7. OwnCoverage(r, o)
    <2>1. ASSUME NEW k \in KeyIds, k[1] = o, undisturbed'[o], k \notin kept',
                 key'[k].row = "present", key'[k].issuer # NoKey
          PROVE  FALSE
        <3>1. k[2] \notin OrgRoles
            BY <2>1, <1>2, KeyPair
        <3>2. Covered(r, k)
            BY <2>1, <1>2, <1>3, OwnCovered
        <3>. QED BY <3>1, <3>2, <1>2, <1>3 DEF Covered
    <2>. QED BY <2>1 DEF OwnCoverage
<1>. QED BY <1>1, <1>3, <1>6, <1>7, OwnStepInv

LEMMA FailsInv ==
    ASSUME SagaInv, NEW r \in OrgCalls, OrgStepFails(r)
    PROVE  SagaInv'
<1> DEFINE o == ocall[r].o
<1>1. TypeInv' /\ TypeInv
    BY SagaTypes DEF SagaInv
<1>2. /\ ocall[r].pc = "run" /\ UNCHANGED <<org, key, revoked, posted, undisturbed, kept, promised>>
    BY DEF OrgStepFails
<1>3. /\ o \in OrgIds /\ ocall[r].op \in Sagas
      /\ StepOf(r).undo = <<>> => Signed(ocall[r].op, ocall[r].n) = {}
      /\ Signed(ocall[r].op, ocall[r].n) \cap Authorities = {}
      /\ \A role \in Signed(ocall[r].op, ocall[r].n) :
             \E i \in 1..Len(StepOf(r).undo) : StepOf(r).undo[i] = role
    <2>1. /\ ocall[r].op \in Sagas /\ o \in OrgIds /\ StepFits(ocall[r].op, ocall[r].n)
          /\ StepOf(r) = StepsOf(ocall[r].op)[ocall[r].n]
        BY <1>1, <1>2, AtStep
    <2>. HIDE DEF o
    <2>2. /\ StepOf(r).undo = <<>> => Signed(ocall[r].op, ocall[r].n) = {}
          /\ Signed(ocall[r].op, ocall[r].n) \subseteq RolesOf(ocall[r].op) \ Authorities
          /\ \A role \in Signed(ocall[r].op, ocall[r].n) :
                 \E i \in 1..Len(StepOf(r).undo) : StepOf(r).undo[i] = role
        BY <2>1 DEF StepFits
    <2>. QED BY <2>1, <2>2
<1>4. CASE StepOf(r).undo = <<>>
    <2>1. ocall'[r].op = "none" /\ \A q \in OrgCalls \ {r} : ocall'[q] = ocall[q]
        BY <1>1, <1>4, Ended DEF OrgStepFails
    <2>2. OwnStep(r, o)
        BY <1>2, <1>3, <2>1 DEF OwnStep
    <2>3. OwnCoverage(r, o)
        BY <1>2, <1>3, <1>4, OwnCovered DEF OwnCoverage, Covered
    <2>. QED BY <1>1, <1>3, <2>2, <2>3, OwnStepInv
<1>5. CASE StepOf(r).undo # <<>>
    <2>1. /\ \A q \in OrgCalls \ {r} : ocall'[q] = ocall[q]
          /\ ocall'[r] = [ocall[r] EXCEPT !.pc = "undo", !.k = 1]
        BY <1>1, <1>5 DEF OrgStepFails, TypeInv, OrganizationsTypeOK
    <2>2. /\ ocall'[r].op = ocall[r].op /\ ocall'[r].o = o /\ ocall'[r].pc = "undo"
          /\ ocall'[r].n = ocall[r].n /\ ocall'[r].k = 1
        BY <1>1, <2>1, CallTyped DEF OrgCall
    <2>3. OwnStep(r, o)
        BY <1>2, <1>3, <2>1, <2>2 DEF OwnStep
    <2>4. OwnCoverage(r, o)
        <3>1. ASSUME NEW k \in KeyIds, k[1] = o, undisturbed'[o], k \notin kept',
                     key'[k].row = "present", key'[k].issuer # NoKey
              PROVE  Covered(r, k)'
            <4>1. k[2] \in Signed(ocall[r].op, ocall[r].n)
                BY <3>1, <1>2, <1>3, OwnCovered DEF Covered
            <4>2. StepOf(r)' = StepOf(r)
                BY <2>2 DEF StepOf
            <4>. QED BY <3>1, <4>1, <4>2, <1>3, <2>2 DEF Covered
        <3>. QED BY <3>1 DEF OwnCoverage
    <2>. QED BY <1>1, <1>3, <2>3, <2>4, OwnStepInv
<1>. QED BY <1>4, <1>5

LEMMA UndoInv ==
    ASSUME SagaInv, NEW r \in OrgCalls, UndoOrgStep(r)
    PROVE  SagaInv'
<1> DEFINE o == ocall[r].o
           u == <<o, StepOf(r).undo[ocall[r].k]>>
<1>1. TypeInv' /\ TypeInv
    BY SagaTypes DEF SagaInv
<1>2. /\ ocall[r].pc = "undo" /\ UNCHANGED <<org, revoked, posted, undisturbed, kept, promised>>
      /\ IF KeyInUse(u) THEN key' = key ELSE DeleteKey(u)
    BY DEF UndoOrgStep
<1>3. /\ o \in OrgIds /\ ocall[r].op \in Sagas /\ u \in KeyIds /\ u[1] = o
      /\ u[2] \in RolesOf(ocall[r].op) /\ ocall[r].k \in 1..Len(StepOf(r).undo)
      /\ Len(StepOf(r).undo) \in 0..5
    <2>1. /\ o \in OrgIds /\ ocall[r].op \in Sagas /\ ocall[r].k \in 1..Len(StepOf(r).undo)
          /\ Len(StepOf(r).undo) \in 0..5
          /\ \A i \in 1..Len(StepOf(r).undo) : StepOf(r).undo[i] \in RolesOf(ocall[r].op)
        BY <1>1, <1>2, AtStep DEF StepFits
    <2>. QED BY <2>1, <1>1, <1>2, StepKey
<1>4. u[2] \notin Authorities => ~KeyInUse(u)
    <2>1. u # NoKey
        BY <1>3, OrganizationsAssumption DEF NoKey, OrganizationsAssumption
    <2>2. ASSUME u[2] \notin Authorities, NEW k \in KeyIds, key[k].issuer = u PROVE FALSE
        BY <2>1, <2>2 DEF SagaInv, IssuersSign
    <2>3. ~(u[2] \in OrgRoles /\ org[o].row = "present")
        <3>1. CASE ocall[r].op = "create"
            BY <3>1 DEF SagaInv, Unfinished
        <3>2. CASE ocall[r].op = "member"
            BY <3>2, <1>3 DEF RolesOf, MemberRoles, OrgRoles, Authorities
        <3>. QED BY <3>1, <3>2, <1>3 DEF Sagas
    <2>. QED BY <2>2, <2>3, <1>3 DEF KeyInUse
<1>5. /\ \A k \in KeyIds : k # u => key'[k] = key[k]
      /\ key'[u] = key[u] \/ (key'[u].row = "deleted" /\ key'[u].issuer = NoKey)
      /\ u[2] \notin Authorities => key'[u].row = "deleted"
    BY <1>1, <1>2, <1>3, <1>4 DEF DeleteKey, KeyGone, TypeInv, OrganizationsTypeOK
<1> HIDE DEF u
<1>6. /\ \A q \in OrgCalls \ {r} : ocall'[q] = ocall[q]
      /\ \/ ocall[r].k = Len(StepOf(r).undo) /\ ocall'[r].op = "none"
         \/ /\ ocall[r].k # Len(StepOf(r).undo)
            /\ ocall'[r].op = ocall[r].op /\ ocall'[r].o = o /\ ocall'[r].pc = "undo"
            /\ ocall'[r].n = ocall[r].n /\ ocall'[r].k = ocall[r].k + 1
    <2>1. CASE ocall[r].k = Len(StepOf(r).undo)
        BY <1>1, <2>1, Ended DEF UndoOrgStep
    <2>2. CASE ocall[r].k # Len(StepOf(r).undo)
        <3>1. /\ \A q \in OrgCalls \ {r} : ocall'[q] = ocall[q]
              /\ ocall'[r] = [ocall[r] EXCEPT !.k = @ + 1]
            BY <1>1, <2>2 DEF UndoOrgStep, TypeInv, OrganizationsTypeOK
        <3>. QED BY <1>1, <1>2, <2>2, <3>1, CallTyped DEF OrgCall
    <2>. QED BY <2>1, <2>2
<1>7. OwnStep(r, o)
    BY <1>2, <1>3, <1>5, <1>6 DEF OwnStep
<1>8. OwnCoverage(r, o)
    <2>1. ASSUME NEW k \in KeyIds, k[1] = o, undisturbed'[o], k \notin kept',
                 key'[k].row = "present", key'[k].issuer # NoKey
          PROVE  Covered(r, k)'
        <3>1. key[k].row = "present" /\ key[k].issuer # NoKey
            BY <2>1, <1>5
        <3>2. Covered(r, k)
            BY <2>1, <3>1, <1>2, <1>3, OwnCovered
        <3>3. k[2] \notin Authorities /\ k # u
            BY <2>1, <3>2, <1>2, <1>5 DEF Covered
        <3>4. PICK i \in ocall[r].k..Len(StepOf(r).undo) : StepOf(r).undo[i] = k[2]
            BY <3>2, <1>2 DEF Covered
        <3>5. i # ocall[r].k
            BY <2>1, <3>3, <3>4, KeyPair DEF u
        <3>6. ocall[r].k # Len(StepOf(r).undo) /\ i \in (ocall[r].k + 1)..Len(StepOf(r).undo)
            BY <3>4, <3>5, <1>3
        <3>7. StepOf(r)' = StepOf(r)
            BY <3>6, <1>6 DEF StepOf
        <3>. QED BY <2>1, <3>3, <3>4, <3>6, <3>7, <1>3, <1>6 DEF Covered
    <2>. QED BY <2>1 DEF OwnCoverage
<1>. QED BY <1>1, <1>3, <1>7, <1>8, OwnStepInv

LEMMA CutOffInv ==
    ASSUME SagaInv, NEW r \in OrgCalls, CutOffOrgCall(r)
    PROVE  SagaInv'
<1> DEFINE o == ocall[r].o
<1>1. TypeInv' /\ TypeInv
    BY SagaTypes DEF SagaInv
<1>2. /\ ocall[r].pc \in {"run", "undo"} /\ UNCHANGED <<org, key, kept>> /\ EndOrgCall(r)
      /\ undisturbed' = [undisturbed EXCEPT ![o] = FALSE]
    BY DEF CutOffOrgCall
<1>3. o \in OrgIds /\ ocall[r].op \in Sagas
    BY <1>1, <1>2, AtStep
<1>4. ~undisturbed'[o] /\ \A p \in OrgIds : undisturbed'[p] => undisturbed[p]
    BY <1>1, <1>2, <1>3 DEF TypeInv, OrganizationsTypeOK
<1>5. ocall'[r].op = "none" /\ \A q \in OrgCalls \ {r} : ocall'[q] = ocall[q]
    BY <1>1, <1>2, Ended
<1>6. OwnStep(r, o)
    BY <1>2, <1>3, <1>4, <1>5 DEF OwnStep
<1>7. OwnCoverage(r, o)
    BY <1>4 DEF OwnCoverage
<1>. QED BY <1>1, <1>3, <1>6, <1>7, OwnStepInv

LEMMA SagaStep == SagaInv /\ OrganizationsNext => SagaInv'
BY BeginSagaInv, PublishBeside, RowsBeside, RequestInv, MakeKeyInv, IssueInv, InsertInv, FailsInv,
   UndoInv, CutOffInv
   DEF OrganizationsNext, OrgCallStep

LEMMA SagaStutter == SagaInv /\ UNCHANGED organizationVars => SagaInv'
BY TypeStutter
   DEF SagaInv, organizationVars, SagasApart, Unfinished, RowsMade, IssuersSign, SignedAccounted,
       Covered, StepOf

(* For any organizations, MSP ids and requests: whatever step of a create  *)
(* of an organization or a key fails, and whatever the other requests do   *)
(* meanwhile, its rollback reaches every key it has signed.                *)
THEOREM NoMemberOrphaned == OrganizationsSpec => []NoOrphanMember
<1>1. SagaInv => NoOrphanMember
    BY DEF SagaInv, SignedAccounted, NoOrphanMember, OrgSettled, Covered
<1>. QED BY SagaStart, SagaStep, SagaStutter, <1>1, PTL DEF OrganizationsSpec

-----------------------------------------------------------------------------
(* What a publication leaves in the channel.                               *)

Published(r) == ocall[r].op = "publish"

\* A publication lists what was revoked when it began, and no earlier promise
\* is missing in its list.
ListsComplete == \A r \in OrgCalls : Published(r) =>
    /\ org[ocall[r].o].row # "unborn" /\ org[ocall[r].o].msp = ocall[r].msp
    /\ ocall[r].must \subseteq revoked[ocall[r].o]
    /\ ocall[r].pc # "list" => /\ ocall[r].must \subseteq ocall[r].listed
                               /\ promised[ocall[r].o] \subseteq ocall[r].listed
    /\ ocall[r].alone /\ ocall[r].pc = "send" => ocall[r].fresh

AloneIsAlone == \A q, r \in OrgCalls :
    Published(q) /\ Published(r) /\ ocall[q].msp = ocall[r].msp /\ ocall[r].alone => q = r

PromisesRevoked == \A o \in OrgIds :
    /\ promised[o] \subseteq revoked[o]
    /\ org[o].row = "unborn" => org[o].msp = "none" /\ promised[o] = {}

PublishInv == SagaInv /\ ListsComplete /\ AloneIsAlone /\ PromisesRevoked /\ PublishedIsRevoked

LEMMA PublishStart == OrganizationsInit => PublishInv
<1>. SUFFICES ASSUME OrganizationsInit PROVE PublishInv
    OBVIOUS
<1>1. /\ \A r \in OrgCalls : ~Published(r)
      /\ \A o \in OrgIds : org[o].msp = "none" /\ promised[o] = {} /\ revoked[o] = {}
    BY DEF OrganizationsInit, CallIdleOrg, NewOrgCall, Published
<1>. QED BY <1>1, SagaStart DEF PublishInv, ListsComplete, AloneIsAlone, PromisesRevoked, PublishedIsRevoked

LEMMA PublicationTyped ==
    ASSUME TypeInv, NEW r \in OrgCalls, Published(r)
    PROVE  ocall[r].o \in OrgIds /\ ocall[r].msp \in MspIds /\ ocall[r].pc \in {"list", "config", "send"}
BY CallTyped DEF CallFits, Published, Sagas

\* Calls that end, or are no publications, change nothing of this.
LEMMA KeepPublications ==
    ASSUME PublishInv, UNCHANGED <<org, revoked, posted, promised>>,
           \A q \in OrgCalls : ocall'[q] = ocall[q] \/ ocall'[q].op # "publish"
    PROVE  ListsComplete' /\ AloneIsAlone' /\ PromisesRevoked' /\ PublishedIsRevoked'
<1>1. \A q \in OrgCalls : Published(q)' => Published(q) /\ ocall'[q] = ocall[q]
    BY DEF Published
<1>2. ListsComplete'
    BY <1>1 DEF PublishInv, ListsComplete
<1>3. AloneIsAlone'
    BY <1>1 DEF PublishInv, AloneIsAlone
<1>4. PromisesRevoked' /\ PublishedIsRevoked'
    BY DEF PublishInv, PromisesRevoked, PublishedIsRevoked
<1>. QED BY <1>2, <1>3, <1>4

LEMMA SagasKeep ==
    ASSUME PublishInv, NEW r \in OrgCalls,
           \/ \E o \in OrgIds : (\E m \in MspIds : BeginCreateOrganization(r, o, m)) \/ BeginCreateKey(r, o)
           \/ MakeKey(r) \/ IssueCertificate(r) \/ OrgStepFails(r) \/ UndoOrgStep(r) \/ CutOffOrgCall(r)
    PROVE  ListsComplete' /\ AloneIsAlone' /\ PromisesRevoked' /\ PublishedIsRevoked'
<1>1. UNCHANGED <<org, revoked, posted, promised>>
    BY DEF BeginCreateOrganization, BeginCreateKey, MakeKey, IssueCertificate, OrgStepFails,
           UndoOrgStep, CutOffOrgCall
<1>2. \A q \in OrgCalls : q # r => ocall'[q] = ocall[q]
    BY DEF BeginCreateOrganization, BeginCreateKey, MakeKey, IssueCertificate, OrgStepFails,
           UndoOrgStep, CutOffOrgCall, AdvanceOrg, EndOrgCall, PublishInv, SagaInv, TypeInv, OrganizationsTypeOK
<1>3. ocall'[r].op # "publish"
    <2>1. ASSUME NEW o \in OrgIds, (\E m \in MspIds : BeginCreateOrganization(r, o, m)) \/ BeginCreateKey(r, o)
          PROVE  ocall'[r].op # "publish"
        BY <2>1 DEF BeginCreateOrganization, BeginCreateKey, NewOrgCall, PublishInv, SagaInv, TypeInv, OrganizationsTypeOK
    <2>2. CASE MakeKey(r) \/ IssueCertificate(r) \/ OrgStepFails(r) \/ UndoOrgStep(r) \/ CutOffOrgCall(r)
        <3>0. TypeInv
            BY DEF PublishInv, SagaInv
        <3>1. ocall[r].pc \in {"run", "undo"}
            BY <2>2 DEF MakeKey, IssueCertificate, OrgStepFails, UndoOrgStep, CutOffOrgCall
        <3>2. ocall[r].op \in Sagas /\ ocall[r] \in OrgCall
            BY <3>0, <3>1, AtStep, CallTyped
        <3>3. \/ ocall'[r] = CallIdleOrg
              \/ ocall'[r] = [ocall[r] EXCEPT !.n = @ + 1]
              \/ ocall'[r] = [ocall[r] EXCEPT !.pc = "undo", !.k = 1]
              \/ ocall'[r] = [ocall[r] EXCEPT !.k = @ + 1]
            BY <2>2, <3>0 DEF MakeKey, IssueCertificate, OrgStepFails, UndoOrgStep, CutOffOrgCall,
                   AdvanceOrg, EndOrgCall, TypeInv, OrganizationsTypeOK
        <3>4. CallIdleOrg.op = "none"
            BY DEF CallIdleOrg, NewOrgCall
        <3>. QED BY <3>2, <3>3, <3>4 DEF Sagas, OrgCall
    <2>. QED BY <2>1, <2>2
<1>. QED BY <1>1, <1>2, <1>3, KeepPublications

LEMMA InsertKeeps ==
    ASSUME PublishInv, NEW r \in OrgCalls, CreateFabricOrganization(r)
    PROVE  ListsComplete' /\ AloneIsAlone' /\ PromisesRevoked' /\ PublishedIsRevoked'
<1> DEFINE o == ocall[r].o
<1>0. TypeInv /\ "none" \notin MspIds
    BY OrganizationsAssumption DEF PublishInv, SagaInv, OrganizationsAssumption
<1>1. /\ ocall[r].pc = "run" /\ StepOf(r).do = "insert" /\ EndOrgCall(r)
      /\ org' = [org EXCEPT ![o] = [row |-> "present", msp |-> ocall[r].msp]]
      /\ UNCHANGED <<revoked, posted, promised>>
    BY DEF CreateFabricOrganization
<1>2. o \in OrgIds /\ ocall[r].op = "create"
    BY <1>0, <1>1, AtStep DEF StepFits
<1>3. org[o].row = "unborn" /\ org[o].msp = "none" /\ promised[o] = {}
    BY <1>2 DEF PublishInv, SagaInv, Unfinished, PromisesRevoked
<1>4. \A p \in OrgIds : p # o => org'[p] = org[p]
    BY <1>1, <1>2, <1>0 DEF TypeInv, OrganizationsTypeOK
<1>5. org'[o].row = "present"
    BY <1>1, <1>2, <1>0 DEF TypeInv, OrganizationsTypeOK
<1>6. \A q \in OrgCalls : Published(q)' => Published(q) /\ ocall'[q] = ocall[q]
    BY <1>0, <1>1, Ended DEF Published
<1>7. ListsComplete'
    <2>1. ASSUME NEW q \in OrgCalls, Published(q)' PROVE ocall[q].o # o /\ ocall[q].o \in OrgIds
        BY <2>1, <1>0, <1>3, <1>6, PublicationTyped DEF PublishInv, ListsComplete
    <2>. HIDE DEF o
    <2>. QED BY <2>1, <1>1, <1>4, <1>6 DEF PublishInv, ListsComplete
<1>8. AloneIsAlone'
    BY <1>6 DEF PublishInv, AloneIsAlone
<1>9. PromisesRevoked'
    BY <1>1, <1>4, <1>5 DEF PublishInv, PromisesRevoked
<1>10. PublishedIsRevoked'
    <2>1. ASSUME NEW p \in OrgIds, NEW m \in MspIds, org'[p].msp = m,
                 \A q \in OrgIds \ {p} : org'[q].msp # org'[p].msp
          PROVE  promised'[p] \subseteq posted'[m]
        <3>1. CASE p = o
            BY <3>1, <1>1, <1>3
        <3>2. CASE p # o
            <4>1. \A q \in OrgIds \ {p} : org[q].msp # org[p].msp
                BY <2>1, <3>2, <1>0, <1>3, <1>4
            <4>. QED BY <2>1, <3>2, <4>1, <1>1, <1>4 DEF PublishInv, PublishedIsRevoked
        <3>. QED BY <3>1, <3>2
    <2>. QED BY <2>1 DEF PublishedIsRevoked
<1>. QED BY <1>7, <1>8, <1>9, <1>10

LEMMA RequestsKeep ==
    ASSUME PublishInv, NEW k \in KeyIds,
           DeleteKeyRequest(k) \/ \E by \in KeyIds : SignCertificateRequest(k, by)
    PROVE  ListsComplete' /\ AloneIsAlone' /\ PromisesRevoked' /\ PublishedIsRevoked'
BY KeepPublications DEF DeleteKeyRequest, SignCertificateRequest

\* Serials of one organization are forgotten: its list of revoked ones, what
\* was promised of it and what its publications must list shrink together.
LEMMA ForgetKeeps ==
    ASSUME PublishInv, NEW o \in OrgIds, NEW gone,
           \A p \in OrgIds : org'[p].msp = org[p].msp /\ (org'[p].row = "unborn" <=> org[p].row = "unborn"),
           revoked' = [revoked EXCEPT ![o] = @ \ gone], promised' = [promised EXCEPT ![o] = @ \ gone],
           posted' = posted,
           ocall' = [r \in OrgCalls |->
               IF ocall[r].o = o THEN [ocall[r] EXCEPT !.must = @ \ gone] ELSE ocall[r]]
    PROVE  ListsComplete' /\ AloneIsAlone' /\ PromisesRevoked' /\ PublishedIsRevoked'
<1>0. TypeInv
    BY DEF PublishInv, SagaInv
<1>1. /\ \A p \in OrgIds : /\ p # o => revoked'[p] = revoked[p] /\ promised'[p] = promised[p]
                           /\ p = o => revoked'[p] = revoked[p] \ gone /\ promised'[p] = promised[p] \ gone
    BY <1>0 DEF TypeInv, OrganizationsTypeOK
<1>2. ASSUME NEW q \in OrgCalls
      PROVE  /\ ocall'[q].op = ocall[q].op /\ ocall'[q].o = ocall[q].o /\ ocall'[q].msp = ocall[q].msp
             /\ ocall'[q].pc = ocall[q].pc /\ ocall'[q].listed = ocall[q].listed
             /\ ocall'[q].alone = ocall[q].alone /\ ocall'[q].fresh = ocall[q].fresh
             /\ ocall[q].o = o => ocall'[q].must = ocall[q].must \ gone
             /\ ocall[q].o # o => ocall'[q].must = ocall[q].must
    <2>1. \/ ocall[q].o # o /\ ocall'[q] = ocall[q]
          \/ ocall[q].o = o /\ ocall'[q] = [ocall[q] EXCEPT !.must = @ \ gone]
        OBVIOUS
    <2>2. ocall[q] \in OrgCall
        BY <1>0, CallTyped
    <2>. QED BY <2>1, <2>2 DEF OrgCall
<1>3. ListsComplete'
    <2>1. ASSUME NEW r \in OrgCalls, Published(r)'
          PROVE  /\ org'[ocall'[r].o].row # "unborn" /\ org'[ocall'[r].o].msp = ocall'[r].msp
                 /\ ocall'[r].must \subseteq revoked'[ocall'[r].o]
                 /\ ocall'[r].pc # "list" => /\ ocall'[r].must \subseteq ocall'[r].listed
                                             /\ promised'[ocall'[r].o] \subseteq ocall'[r].listed
                 /\ ocall'[r].alone /\ ocall'[r].pc = "send" => ocall'[r].fresh
        <3>1. Published(r)
            BY <2>1, <1>2 DEF Published
        <3>2. ocall[r].o \in OrgIds
            BY <1>0, <3>1, PublicationTyped
        <3>3. /\ org[ocall[r].o].row # "unborn" /\ org[ocall[r].o].msp = ocall[r].msp
              /\ ocall[r].must \subseteq revoked[ocall[r].o]
              /\ ocall[r].pc # "list" => /\ ocall[r].must \subseteq ocall[r].listed
                                         /\ promised[ocall[r].o] \subseteq ocall[r].listed
              /\ ocall[r].alone /\ ocall[r].pc = "send" => ocall[r].fresh
            BY <3>1 DEF PublishInv, ListsComplete
        <3>4. CASE ocall[r].o = o
            BY <3>2, <3>3, <3>4, <1>1, <1>2
        <3>5. CASE ocall[r].o # o
            BY <3>2, <3>3, <3>5, <1>1, <1>2
        <3>. QED BY <3>4, <3>5
    <2>. QED BY <2>1 DEF ListsComplete
<1>4. AloneIsAlone'
    BY <1>2 DEF PublishInv, AloneIsAlone, Published
<1>5. PromisesRevoked'
    BY <1>1 DEF PublishInv, PromisesRevoked
<1>6. PublishedIsRevoked'
    BY <1>1 DEF PublishInv, PublishedIsRevoked
<1>. QED BY <1>3, <1>4, <1>5, <1>6

LEMMA RowsKeep ==
    ASSUME PublishInv, NEW o \in OrgIds,
           \/ DeleteOrganization(o)
           \/ \E s \in Serials : RevokeCertificate(o, s) \/ DeleteRevokedCertificate(o, s)
    PROVE  ListsComplete' /\ AloneIsAlone' /\ PromisesRevoked' /\ PublishedIsRevoked'
<1>0. TypeInv
    BY DEF PublishInv, SagaInv
<1>1. CASE DeleteOrganization(o)
    <2>1. /\ org[o].row = "present" /\ org' = [org EXCEPT ![o].row = "deleted"]
          /\ revoked' = [revoked EXCEPT ![o] = {}] /\ promised' = [promised EXCEPT ![o] = {}]
          /\ posted' = posted
          /\ ocall' = [r \in OrgCalls |->
                 IF ocall[r].o = o THEN [ocall[r] EXCEPT !.must = {}] ELSE ocall[r]]
        BY <1>1 DEF DeleteOrganization
    <2>2. \A p \in OrgIds : org'[p].msp = org[p].msp /\ (org'[p].row = "unborn" <=> org[p].row = "unborn")
        BY <2>1, <1>0 DEF TypeInv, OrganizationsTypeOK
    <2>3. /\ revoked[o] \subseteq Serials /\ promised[o] \subseteq Serials
          /\ \A r \in OrgCalls : ocall[r].must \subseteq Serials
        BY <1>0, CallTyped DEF TypeInv, OrganizationsTypeOK, OrgCall
    <2>4. /\ revoked[o] \ Serials = {} /\ promised[o] \ Serials = {}
          /\ \A r \in OrgCalls : ocall[r].must \ Serials = {}
        BY <2>3
    <2>5. /\ revoked' = [revoked EXCEPT ![o] = @ \ Serials]
          /\ promised' = [promised EXCEPT ![o] = @ \ Serials]
          /\ ocall' = [r \in OrgCalls |->
                 IF ocall[r].o = o THEN [ocall[r] EXCEPT !.must = @ \ Serials] ELSE ocall[r]]
        BY <2>1, <2>4
    <2>6. posted' = posted
        BY <2>1
    <2>. QED BY <2>2, <2>5, <2>6, ForgetKeeps
<1>2. ASSUME NEW s \in Serials, RevokeCertificate(o, s)
      PROVE  ListsComplete' /\ AloneIsAlone' /\ PromisesRevoked' /\ PublishedIsRevoked'
    <2>1. UNCHANGED <<org, posted, promised, ocall>> /\ \A p \in OrgIds : revoked[p] \subseteq revoked'[p]
        BY <1>0, <1>2 DEF RevokeCertificate, TypeInv, OrganizationsTypeOK
    <2>2. ListsComplete'
        <3>1. \A r \in OrgCalls : Published(r) => ocall[r].o \in OrgIds
            BY <1>0, PublicationTyped
        <3>. QED BY <2>1, <3>1 DEF PublishInv, ListsComplete, Published
    <2>3. AloneIsAlone' /\ PromisesRevoked' /\ PublishedIsRevoked'
        BY <2>1 DEF PublishInv, AloneIsAlone, Published, PromisesRevoked, PublishedIsRevoked
    <2>. QED BY <2>2, <2>3
<1>3. ASSUME NEW s \in Serials, DeleteRevokedCertificate(o, s)
      PROVE  ListsComplete' /\ AloneIsAlone' /\ PromisesRevoked' /\ PublishedIsRevoked'
    <2>1. /\ org' = org /\ revoked' = [revoked EXCEPT ![o] = @ \ {s}]
          /\ promised' = [promised EXCEPT ![o] = @ \ {s}] /\ posted' = posted
          /\ ocall' = [r \in OrgCalls |->
                 IF ocall[r].o = o THEN [ocall[r] EXCEPT !.must = @ \ {s}] ELSE ocall[r]]
        BY <1>3 DEF DeleteRevokedCertificate
    <2>. QED BY <2>1, ForgetKeeps
<1>. QED BY <1>1, <1>2, <1>3

LEMMA BeginPublishKeeps ==
    ASSUME PublishInv, NEW r \in OrgCalls, NEW o \in OrgIds, BeginPublish(r, o)
    PROVE  ListsComplete' /\ AloneIsAlone' /\ PromisesRevoked' /\ PublishedIsRevoked'
<1> DEFINE m == org[o].msp
           c == NewOrgCall("publish", o, m, "list", revoked[o], Publishing(m) = {})
<1>0. TypeInv
    BY DEF PublishInv, SagaInv
<1>1. /\ ocall[r].pc = "idle" /\ org[o].row = "present"
      /\ UNCHANGED <<org, revoked, posted, promised>>
      /\ ocall' = [q \in OrgCalls |->
             IF q = r THEN c
             ELSE IF q \in Publishing(m) THEN [ocall[q] EXCEPT !.alone = FALSE] ELSE ocall[q]]
    BY DEF BeginPublish
<1>2. /\ c.op = "publish" /\ c.o = o /\ c.msp = m /\ c.pc = "list" /\ c.must = revoked[o]
      /\ c.alone = (Publishing(m) = {})
    BY DEF NewOrgCall
<1>3. ocall'[r] = c
    BY <1>1
<1> HIDE DEF c
<1>4. ASSUME NEW q \in OrgCalls, q # r
      PROVE  /\ ocall'[q].op = ocall[q].op /\ ocall'[q].o = ocall[q].o /\ ocall'[q].msp = ocall[q].msp
             /\ ocall'[q].pc = ocall[q].pc /\ ocall'[q].listed = ocall[q].listed
             /\ ocall'[q].must = ocall[q].must /\ ocall'[q].fresh = ocall[q].fresh
             /\ ocall'[q].alone => ocall[q].alone /\ q \notin Publishing(m)
    <2>1. \/ q \in Publishing(m) /\ ocall'[q] = [ocall[q] EXCEPT !.alone = FALSE]
          \/ q \notin Publishing(m) /\ ocall'[q] = ocall[q]
        BY <1>1, <1>4
    <2>2. ocall[q] \in OrgCall
        BY <1>0, CallTyped
    <2>. QED BY <2>1, <2>2 DEF OrgCall
<1>5. ListsComplete'
    <2>1. ASSUME NEW q \in OrgCalls, Published(q)'
          PROVE  /\ org'[ocall'[q].o].row # "unborn" /\ org'[ocall'[q].o].msp = ocall'[q].msp
                 /\ ocall'[q].must \subseteq revoked'[ocall'[q].o]
                 /\ ocall'[q].pc # "list" => /\ ocall'[q].must \subseteq ocall'[q].listed
                                             /\ promised'[ocall'[q].o] \subseteq ocall'[q].listed
                 /\ ocall'[q].alone /\ ocall'[q].pc = "send" => ocall'[q].fresh
        <3>1. CASE q = r
            BY <3>1, <1>1, <1>2, <1>3
        <3>2. CASE q # r
            <4>1. Published(q)
                BY <2>1, <3>2, <1>4 DEF Published
            <4>. QED BY <4>1, <3>2, <1>1, <1>4 DEF PublishInv, ListsComplete
        <3>. QED BY <3>1, <3>2
    <2>. QED BY <2>1 DEF ListsComplete
<1>6. AloneIsAlone'
    <2>1. ASSUME NEW p \in OrgCalls, NEW q \in OrgCalls, Published(p)', Published(q)',
                 ocall'[p].msp = ocall'[q].msp, ocall'[q].alone, p # q
          PROVE  FALSE
        <3>1. CASE q = r
            <4>1. Publishing(m) = {} /\ ocall'[p].op = ocall[p].op /\ ocall'[p].msp = ocall[p].msp
                BY <2>1, <3>1, <1>2, <1>3, <1>4
            <4>2. p \in Publishing(m)
                BY <2>1, <3>1, <4>1, <1>2, <1>3 DEF Publishing, Published
            <4>. QED BY <4>1, <4>2
        <3>2. CASE p = r
            <4>1. ocall[q].op = "publish" /\ ocall[q].msp = m /\ q \notin Publishing(m)
                BY <2>1, <3>2, <1>2, <1>3, <1>4 DEF Published
            <4>. QED BY <4>1 DEF Publishing
        <3>3. CASE p # r /\ q # r
            BY <2>1, <3>3, <1>4 DEF PublishInv, AloneIsAlone, Published
        <3>. QED BY <3>1, <3>2, <3>3
    <2>. QED BY <2>1 DEF AloneIsAlone
<1>7. PromisesRevoked' /\ PublishedIsRevoked'
    BY <1>1 DEF PublishInv, PromisesRevoked, PublishedIsRevoked
<1>. QED BY <1>5, <1>6, <1>7

LEMMA ReadsKeep ==
    ASSUME PublishInv, NEW r \in OrgCalls, GetCRL(r) \/ GetChannelConfig(r)
    PROVE  ListsComplete' /\ AloneIsAlone' /\ PromisesRevoked' /\ PublishedIsRevoked'
<1> DEFINE o == ocall[r].o
<1>0. TypeInv /\ ocall[r] \in OrgCall
    BY CallTyped DEF PublishInv, SagaInv
<1>1. UNCHANGED <<org, revoked, posted, promised>> /\ ocall[r].pc \in {"list", "config"}
    BY DEF GetCRL, GetChannelConfig
<1>2. \A q \in OrgCalls : q # r => ocall'[q] = ocall[q]
    BY <1>0 DEF GetCRL, GetChannelConfig, TypeInv, OrganizationsTypeOK
<1>3. Published(r) /\ o \in OrgIds
    BY <1>0, <1>1, CallTyped DEF CallFits, Published
<1>4. /\ ocall'[r].op = ocall[r].op /\ ocall'[r].o = o /\ ocall'[r].msp = ocall[r].msp
      /\ ocall'[r].must = ocall[r].must /\ ocall'[r].alone = ocall[r].alone
      /\ \/ ocall'[r].pc = "config" /\ ocall'[r].listed = revoked[o]
         \/ /\ ocall[r].pc = "config" /\ ocall'[r].listed = ocall[r].listed
            /\ ocall'[r].pc = "send" /\ ocall'[r].fresh
    <2>1. \/ ocall'[r] = [ocall[r] EXCEPT !.pc = "config", !.listed = revoked[o]]
          \/ ocall[r].pc = "config" /\ ocall'[r] = [ocall[r] EXCEPT !.pc = "send", !.fresh = TRUE]
        BY <1>0 DEF GetCRL, GetChannelConfig, TypeInv, OrganizationsTypeOK
    <2>. QED BY <1>0, <2>1 DEF OrgCall
<1>5. /\ org[o].row # "unborn" /\ org[o].msp = ocall[r].msp /\ ocall[r].must \subseteq revoked[o]
      /\ ocall[r].pc = "config" => /\ ocall[r].must \subseteq ocall[r].listed
                                   /\ promised[o] \subseteq ocall[r].listed
      /\ promised[o] \subseteq revoked[o]
    BY <1>3 DEF PublishInv, ListsComplete, PromisesRevoked
<1> HIDE DEF o
<1>6. ListsComplete'
    <2>1. ASSUME NEW q \in OrgCalls, Published(q)'
          PROVE  /\ org'[ocall'[q].o].row # "unborn" /\ org'[ocall'[q].o].msp = ocall'[q].msp
                 /\ ocall'[q].must \subseteq revoked'[ocall'[q].o]
                 /\ ocall'[q].pc # "list" => /\ ocall'[q].must \subseteq ocall'[q].listed
                                             /\ promised'[ocall'[q].o] \subseteq ocall'[q].listed
                 /\ ocall'[q].alone /\ ocall'[q].pc = "send" => ocall'[q].fresh
        <3>1. CASE q = r
            BY <3>1, <1>1, <1>4, <1>5
        <3>2. CASE q # r
            BY <2>1, <3>2, <1>1, <1>2 DEF PublishInv, ListsComplete, Published
        <3>. QED BY <3>1, <3>2
    <2>. QED BY <2>1 DEF ListsComplete
<1>7. AloneIsAlone'
    <2>1. \A q \in OrgCalls : /\ ocall'[q].op = ocall[q].op /\ ocall'[q].msp = ocall[q].msp
                              /\ ocall'[q].alone = ocall[q].alone
        BY <1>2, <1>4
    <2>. QED BY <2>1 DEF PublishInv, AloneIsAlone, Published
<1>8. PromisesRevoked' /\ PublishedIsRevoked'
    BY <1>1 DEF PublishInv, PromisesRevoked, PublishedIsRevoked
<1>. QED BY <1>6, <1>7, <1>8

\* The update reaches the orderer, and success is reported or not.
LEMMA SendKeeps ==
    ASSUME PublishInv, NEW r \in OrgCalls, ocall[r].pc = "send", Accepted(r), AfterSend(r),
           UNCHANGED <<org, revoked>>,
           \/ promised' = promised
           \/ ocall[r].alone /\ promised' = [promised EXCEPT ![ocall[r].o] = ocall[r].must]
    PROVE  ListsComplete' /\ AloneIsAlone' /\ PromisesRevoked' /\ PublishedIsRevoked'
<1> DEFINE o == ocall[r].o
           m == ocall[r].msp
<1>0. TypeInv /\ ocall[r] \in OrgCall
    BY CallTyped DEF PublishInv, SagaInv
<1>1. Published(r) /\ o \in OrgIds /\ m \in MspIds
    BY <1>0, CallTyped DEF CallFits, Published
<1>2. /\ org[o].row # "unborn" /\ org[o].msp = m /\ ocall[r].must \subseteq revoked[o]
      /\ ocall[r].must \subseteq ocall[r].listed /\ promised[o] \subseteq ocall[r].listed
      /\ ocall[r].alone => ocall[r].fresh
    BY <1>1 DEF PublishInv, ListsComplete
<1>3. ocall'[r].op = "none"
    BY DEF AfterSend, CallIdleOrg, NewOrgCall
<1>4. ASSUME NEW q \in OrgCalls, q # r
      PROVE  /\ ocall'[q].op = ocall[q].op /\ ocall'[q].o = ocall[q].o /\ ocall'[q].msp = ocall[q].msp
             /\ ocall'[q].pc = ocall[q].pc /\ ocall'[q].listed = ocall[q].listed
             /\ ocall'[q].must = ocall[q].must /\ ocall'[q].alone = ocall[q].alone
             /\ q \notin Publishing(m) => ocall'[q].fresh = ocall[q].fresh
    <2>1. \/ q \in Publishing(m) /\ ocall'[q] = [ocall[q] EXCEPT !.fresh = FALSE]
          \/ ocall'[q] = ocall[q]
        BY <1>4 DEF AfterSend
    <2>2. ocall[q] \in OrgCall
        BY <1>0, CallTyped
    <2>. QED BY <2>1, <2>2 DEF OrgCall
<1>5. /\ \A p \in OrgIds : p # o => promised'[p] = promised[p]
      /\ promised'[o] = promised[o] \/ (ocall[r].alone /\ promised'[o] = ocall[r].must)
    BY <1>0, <1>1 DEF TypeInv, OrganizationsTypeOK
<1>6. /\ \A n \in MspIds : n # m => posted'[n] = posted[n]
      /\ IF ocall[r].fresh THEN posted'[m] = ocall[r].listed ELSE posted'[m] = posted[m]
    BY <1>0, <1>1 DEF Accepted, TypeInv, OrganizationsTypeOK
<1> HIDE DEF o, m
<1>7. ASSUME NEW q \in OrgCalls, Published(q)'
      PROVE  q # r /\ Published(q)
    BY <1>3, <1>4, <1>7 DEF Published
<1>8. ListsComplete'
    <2>1. ASSUME NEW q \in OrgCalls, Published(q)'
          PROVE  /\ org'[ocall'[q].o].row # "unborn" /\ org'[ocall'[q].o].msp = ocall'[q].msp
                 /\ ocall'[q].must \subseteq revoked'[ocall'[q].o]
                 /\ ocall'[q].pc # "list" => /\ ocall'[q].must \subseteq ocall'[q].listed
                                             /\ promised'[ocall'[q].o] \subseteq ocall'[q].listed
                 /\ ocall'[q].alone /\ ocall'[q].pc = "send" => ocall'[q].fresh
        <3>1. q # r /\ Published(q) /\ ocall[q].o \in OrgIds
            BY <2>1, <1>0, <1>7, PublicationTyped
        <3>2. /\ org[ocall[q].o].row # "unborn" /\ org[ocall[q].o].msp = ocall[q].msp
              /\ ocall[q].must \subseteq revoked[ocall[q].o]
              /\ ocall[q].pc # "list" => /\ ocall[q].must \subseteq ocall[q].listed
                                         /\ promised[ocall[q].o] \subseteq ocall[q].listed
              /\ ocall[q].alone /\ ocall[q].pc = "send" => ocall[q].fresh
            BY <3>1 DEF PublishInv, ListsComplete
        <3>3. /\ ocall[r].alone => ocall[q].msp # m
              /\ ocall[q].alone => ocall[q].msp # m
            BY <3>1, <1>1 DEF PublishInv, AloneIsAlone, m
        <3>4. promised'[ocall[q].o] = promised[ocall[q].o]
            BY <3>1, <3>2, <3>3, <1>2, <1>5
        <3>5. ocall[q].alone => ocall'[q].fresh = ocall[q].fresh
            BY <3>1, <3>3, <1>4 DEF Publishing
        <3>. QED BY <3>1, <3>2, <3>4, <3>5, <1>4
    <2>. QED BY <2>1 DEF ListsComplete
<1>9. AloneIsAlone'
    BY <1>4, <1>7 DEF PublishInv, AloneIsAlone, Published
<1>10. PromisesRevoked'
    BY <1>2, <1>5 DEF PublishInv, PromisesRevoked
<1>11. PublishedIsRevoked'
    <2>1. ASSUME NEW p \in OrgIds, NEW n \in MspIds, org'[p].msp = n,
                 \A q \in OrgIds \ {p} : org'[q].msp # org'[p].msp
          PROVE  promised'[p] \subseteq posted'[n]
        <3>1. promised[p] \subseteq posted[n]
            BY <2>1 DEF PublishInv, PublishedIsRevoked
        <3>2. CASE n # m
            BY <2>1, <3>1, <3>2, <1>2, <1>5, <1>6
        <3>3. CASE n = m
            <4>1. p = o
                BY <2>1, <3>3, <1>1, <1>2 DEF o
            <4>. QED BY <3>1, <3>3, <4>1, <1>2, <1>5, <1>6
        <3>. QED BY <3>2, <3>3
    <2>. QED BY <2>1 DEF PublishedIsRevoked
<1>. QED BY <1>8, <1>9, <1>10, <1>11

LEMMA PublicationsKeep ==
    ASSUME PublishInv, NEW r \in OrgCalls, SaveChannelConfig(r) \/ PublishFails(r)
    PROVE  ListsComplete' /\ AloneIsAlone' /\ PromisesRevoked' /\ PublishedIsRevoked'
<1>1. CASE SaveChannelConfig(r)
    <2>1. /\ ocall[r].pc = "send" /\ Accepted(r) /\ AfterSend(r) /\ UNCHANGED <<org, revoked>>
          /\ \/ promised' = promised
             \/ ocall[r].alone /\ promised' = [promised EXCEPT ![ocall[r].o] = ocall[r].must]
        BY <1>1 DEF SaveChannelConfig
    <2>. QED BY <2>1, SendKeeps
<1>2. CASE ocall[r].pc = "send" /\ Accepted(r) /\ AfterSend(r) /\ UNCHANGED <<org, revoked, promised>>
    BY <1>2, SendKeeps
<1>3. CASE EndOrgCall(r) /\ UNCHANGED <<org, revoked, posted, promised>>
    <2>1. \A q \in OrgCalls : ocall'[q] = ocall[q] \/ ocall'[q].op # "publish"
        BY <1>3, Ended DEF PublishInv, SagaInv
    <2>. QED BY <1>3, <2>1, KeepPublications
<1>. QED BY <1>1, <1>2, <1>3 DEF PublishFails

LEMMA PublishStep == PublishInv /\ OrganizationsNext => PublishInv'
<1>1. PublishInv /\ OrganizationsNext => SagaInv'
    BY SagaStep DEF PublishInv
<1>2. PublishInv /\ OrganizationsNext =>
          ListsComplete' /\ AloneIsAlone' /\ PromisesRevoked' /\ PublishedIsRevoked'
    BY SagasKeep, InsertKeeps, RequestsKeep, RowsKeep, BeginPublishKeeps, ReadsKeep, PublicationsKeep
       DEF OrganizationsNext, OrgCallStep
<1>. QED BY <1>1, <1>2 DEF PublishInv

LEMMA PublishStutter == PublishInv /\ UNCHANGED organizationVars => PublishInv'
BY SagaStutter
   DEF PublishInv, organizationVars, ListsComplete, AloneIsAlone, PromisesRevoked, PublishedIsRevoked, Published

(* For any organizations, serials and publications: the list that is read  *)
(* before the channel configuration never loses what a publication on its  *)
(* own reported as revoked, however many run, fail and overlap after it.   *)
THEOREM PublishedStaysRevoked == OrganizationsSpec => []PublishedIsRevoked
<1>1. PublishInv => PublishedIsRevoked
    BY DEF PublishInv
<1>. QED BY PublishStart, PublishStep, PublishStutter, <1>1, PTL DEF OrganizationsSpec
=============================================================================
