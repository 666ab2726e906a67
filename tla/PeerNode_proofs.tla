--------------------------- MODULE PeerNode_proofs ---------------------------
(* Proofs about PeerNode for any number of configurations, requests, rows  *)
(* and certificates.                                                       *)
EXTENDS PeerNode, TLAPS

-----------------------------------------------------------------------------
(* The inductive invariant.                                                *)

Working(r)  == peerCall[r].op # "none"
Rewrites(r) == Working(r) /\ Rewriting(peerCall[r].op)

\* A request is at a step its script has, and was given a row that was created.
CallKnown(r) == Working(r) => /\ peerCall[r].at \in 0..Len(Script[peerCall[r].op])
                              /\ peerCall[r].id \in 1..issued.id
RowKnown     == peerRow.id <= issued.id /\ (peerRow.id = 0 => peerRow = NoPeerRow)

\* Who wrote the status in between, or found it and will take the row away.
Owner(r) ==
    LET op == peerCall[r].op IN
    /\ Working(r) /\ Has(r)
    /\ \/ Step(r) = "failed"
       \/ op = "create"  /\ Step(r) # "probe"
       \/ op = "restart" /\ Step(r) \notin {"down", "mark"}
       \/ op \in {"start", "stop", "halt", "renew"} /\ Step(r) \notin {"read", "mark"}
       \/ op = "delete"  /\ Step(r) # "read"
Served == peerRow.status \in InBetween /\ ~hist.left => \E r \in PeerCalls : Owner(r)

\* Since nobody else was about, the container is as this request left it.
AloneCall(r) == Working(r) /\ peerCall[r].alone =>
    LET op == peerCall[r].op IN
    /\ \A k \in PeerCalls \ {r} : ~Working(k)
    /\ Has(r)
    /\ Step(r) = "done" /\ op \in {"stop", "halt"} => box.state # "up"
    /\ Step(r) \in {"done", "persist"} /\ op \notin {"stop", "halt"} => box.state = "up"

\* While hist.sure holds, there is one request at most, and where it can end
\* without a write of the status, the status is right.
Match == peerRow.status = "RUNNING" <=> box.state = "up"
SureCall(r) == Working(r) /\ hist.sure =>
    /\ peerCall[r].alone
    /\ \/ Step(r) \in {"read", "probe", "config", "deploy", "sync"}
       \/ peerCall[r].op \in {"restart", "update"} /\ Step(r) = "down"
       => Match
    /\ peerCall[r].op = "update" /\ Step(r) \in {"box", "run"} => box.state # "up"
    /\ Step(r) \in {"init", "cleanup", "row"} => peerRow.status # "RUNNING" /\ box.state # "up"
SureQuiet == Quiet /\ hist.sure => Match

\* What the row, the directory and the container agree on.
SameCert == peerRow.cert = issued.cert
Files    == disk.core = peerRow.cfg /\ disk.cert = issued.cert
BoxCfg   == box.state # "none" => box.cfg = peerRow.cfg
BoxFiles == box.state = "up" => box.core = disk.core /\ box.cert = disk.cert
Agree    == SameCert /\ Files /\ BoxCfg /\ BoxFiles

\* While hist.tidy holds: between the calls that rewrite, all agree.
TidyRest == hist.tidy /\ peerRow.id # 0 /\ (\A r \in PeerCalls : ~Rewrites(r)) =>
    /\ Agree
    /\ \A r \in PeerCalls : peerCall[r].op = "restart" \/ (peerCall[r].op = "start" /\ Step(r) # "read")
            => peerCall[r].cfg = peerRow.cfg

\* And during one of them, which has the peer for itself, what it has rewritten does.
WroteCreate(r) == peerCall[r].op = "create" =>
    /\ peerCall[r].cfg = peerRow.cfg
    /\ Step(r) # "init" => Files
    /\ Step(r) = "deploy" => peerCall[r].cert = issued.cert
    /\ Step(r) \notin {"init", "deploy"} => SameCert
WroteRenewal(r) == peerCall[r].op = "renew" =>
    /\ Step(r) = "read" => Agree
    /\ Step(r) # "read" => peerCall[r].cfg = peerRow.cfg /\ disk.core = peerRow.cfg
    /\ Step(r) \notin {"read", "mark", "renew"} => Files
    /\ Step(r) = "done" => SameCert
WroteUpdate(r) == peerCall[r].op = "update" =>
    /\ Step(r) = "read" => Agree
    /\ SameCert /\ disk.cert = issued.cert
    /\ Step(r) \in {"config", "deploy"} => peerCall[r].cert = issued.cert
    /\ Step(r) \in {"down", "box", "run"} => Files /\ peerCall[r].cfg = peerRow.cfg
WroteBox(r) == peerCall[r].op \in {"create", "renew", "update"} =>
    /\ Step(r) \in {"run", "persist", "done", "probe"} => BoxCfg
    /\ Step(r) \in {"persist", "done", "probe"} => BoxFiles
Wrote(r) == WroteCreate(r) /\ WroteRenewal(r) /\ WroteUpdate(r) /\ WroteBox(r)

TidyCall(r) == hist.tidy /\ Rewrites(r) =>
    /\ \A k \in PeerCalls \ {r} : ~Working(k)
    /\ Has(r) /\ Step(r) # "failed"
    /\ Wrote(r)

PeerInv ==
    /\ PeerTypeOK /\ RowKnown /\ Served /\ SureQuiet /\ TidyRest
    /\ \A r \in PeerCalls : CallKnown(r) /\ AloneCall(r) /\ SureCall(r) /\ TidyCall(r)

-----------------------------------------------------------------------------
(* The scripts, as a table of what follows what.                           *)

Ops     == {"create", "restart", "start", "stop", "delete", "halt", "renew", "update"}
Follows ==
    {<<"create", "init", "deploy">>, <<"create", "deploy", "mark">>, <<"create", "mark", "box">>,
     <<"create", "box", "run">>, <<"create", "run", "done">>, <<"create", "done", "probe">>,
     <<"create", "probe", "end">>,
     <<"restart", "down", "mark">>, <<"restart", "mark", "box">>, <<"restart", "box", "run">>,
     <<"restart", "run", "done">>, <<"restart", "done", "end">>,
     <<"start", "read", "mark">>, <<"start", "mark", "box">>, <<"start", "box", "run">>,
     <<"start", "run", "done">>, <<"start", "done", "end">>,
     <<"stop", "read", "mark">>, <<"stop", "mark", "down">>, <<"stop", "down", "done">>,
     <<"stop", "done", "end">>,
     <<"delete", "read", "cleanup">>, <<"delete", "cleanup", "row">>, <<"delete", "row", "end">>,
     <<"halt", "read", "mark">>, <<"halt", "mark", "down">>, <<"halt", "down", "done">>,
     <<"halt", "done", "cleanup">>, <<"halt", "cleanup", "row">>, <<"halt", "row", "end">>,
     <<"renew", "read", "mark">>, <<"renew", "mark", "renew">>, <<"renew", "renew", "down">>,
     <<"renew", "down", "box">>, <<"renew", "box", "run">>, <<"renew", "run", "persist">>,
     <<"renew", "persist", "done">>, <<"renew", "done", "end">>,
     <<"update", "read", "config">>, <<"update", "config", "deploy">>, <<"update", "deploy", "sync">>,
     <<"update", "sync", "down">>, <<"update", "down", "box">>, <<"update", "box", "run">>,
     <<"update", "run", "end">>}

CallRecord == [op : Ops \cup {"none"}, at : 0..8, id : 0..MaxIds, cfg : Configs \cup {"none"},
               deployed : BOOLEAN, cert : 0..MaxCerts, alone : BOOLEAN]

RowRecord  == [id : 0..MaxIds, cfg : Configs \cup {"none"}, deployed : BOOLEAN, cert : 0..MaxCerts,
               status : InBetween \cup {"none", "RUNNING", "STOPPED", "ERROR"}]
DiskRecord == [dir : BOOLEAN, core : Configs \cup {"none"}, cert : 0..MaxCerts]
BoxRecord  == [state : {"none", "created", "up"}, cfg : Configs \cup {"none"},
               core : Configs \cup {"none"}, cert : 0..MaxCerts, by : PeerCalls \cup {"none"}]
IssuedRecord == [cert : 0..MaxCerts, id : 0..MaxIds]
HistRecord   == [sure : BOOLEAN, tidy : BOOLEAN, left : BOOLEAN]

LEMMA ScriptOps == DOMAIN Script = Ops
BY DEF Script, Ops

\* The step of a call, and the one behind it.
StepOf(c)  == IF c.op = "none" THEN "idle" ELSE IF c.at = 0 THEN "failed" ELSE Script[c.op][c.at]
Behind(c)  == IF c.at < Len(Script[c.op]) THEN Script[c.op][c.at + 1] ELSE "end"

LEMMA ScriptTable ==
    ASSUME NEW op \in Ops, NEW i \in 1..Len(Script[op])
    PROVE  /\ Len(Script[op]) \in 3..8
           /\ Script[op][i] = "read" => i = 1
           /\ <<op, Script[op][i], IF i < Len(Script[op]) THEN Script[op][i + 1] ELSE "end">> \in Follows
<1>1. CASE op = "create"
    <2>1. Script[op] = <<"init", "deploy", "mark", "box", "run", "done", "probe">> BY <1>1 DEF Script
    <2>. QED BY <1>1, <2>1 DEF Follows
<1>2. CASE op = "restart"
    <2>1. Script[op] = <<"down", "mark", "box", "run", "done">> BY <1>2 DEF Script
    <2>. QED BY <1>2, <2>1 DEF Follows
<1>3. CASE op = "start"
    <2>1. Script[op] = <<"read", "mark", "box", "run", "done">> BY <1>3 DEF Script
    <2>. QED BY <1>3, <2>1 DEF Follows
<1>4. CASE op = "stop"
    <2>1. Script[op] = <<"read", "mark", "down", "done">> BY <1>4 DEF Script
    <2>. QED BY <1>4, <2>1 DEF Follows
<1>5. CASE op = "delete"
    <2>1. Script[op] = <<"read", "cleanup", "row">> BY <1>5 DEF Script
    <2>. QED BY <1>5, <2>1 DEF Follows
<1>6. CASE op = "halt"
    <2>1. Script[op] = <<"read", "mark", "down", "done", "cleanup", "row">> BY <1>6 DEF Script
    <2>. QED BY <1>6, <2>1 DEF Follows
<1>7. CASE op = "renew"
    <2>1. Script[op] = <<"read", "mark", "renew", "down", "box", "run", "persist", "done">> BY <1>7 DEF Script
    <2>. QED BY <1>7, <2>1 DEF Follows
<1>8. CASE op = "update"
    <2>1. Script[op] = <<"read", "config", "deploy", "sync", "down", "box", "run">> BY <1>8 DEF Script
    <2>. QED BY <1>8, <2>1 DEF Follows
<1>. QED BY <1>1, <1>2, <1>3, <1>4, <1>5, <1>6, <1>7, <1>8 DEF Ops

LEMMA ScriptStarts ==
    /\ Script["create"][1] = "init"   /\ Script["restart"][1] = "down" /\ Script["halt"][1] = "read"
    /\ Script["delete"][2] = "cleanup" /\ Script["delete"][3] = "row"  /\ Script["halt"][5] = "cleanup"
    /\ \A op \in PeerOps : Script[op][1] = "read"
    /\ \A op \in Ops : Len(Script[op]) \in 3..8
    /\ Len(Script["halt"]) = 6 /\ Len(Script["delete"]) = 3
BY DEF Script, PeerOps, Ops

-----------------------------------------------------------------------------
(* What a step of one request leaves of the others.                        *)

Typed == /\ peerRow \in RowRecord /\ disk \in DiskRecord /\ box \in BoxRecord
         /\ issued \in IssuedRecord /\ hist \in HistRecord /\ peerCall \in [PeerCalls -> CallRecord]

LEMMA PeerTypes == (PeerTypeOK <=> Typed) /\ (PeerTypeOK' <=> Typed')
BY ScriptOps DEF PeerTypeOK, RowRecord, DiskRecord, BoxRecord, IssuedRecord, HistRecord, CallRecord, Typed

LEMMA PeerTyped ==
    ASSUME PeerTypeOK
    PROVE  peerCall \in [PeerCalls -> CallRecord] /\ \A r \in PeerCalls : peerCall[r] \in CallRecord
BY PeerTypes DEF Typed

LEMMA PeerMoved ==
    ASSUME PeerTypeOK, NEW r \in PeerCalls, NEW e \in CallRecord, Become(r, e)
    PROVE  /\ peerCall' \in [PeerCalls -> CallRecord] /\ peerCall'[r] = e
           /\ \A k \in PeerCalls \ {r} : peerCall'[k] = peerCall[k]
BY PeerTyped DEF Become

LEMMA NoCallTyped == NoPeerCall \in CallRecord /\ NoPeerCall.op = "none"
<1>1. {MaxIds, MaxCerts} \subseteq Nat
    BY PeerAssumption DEF PeerAssumption
<1>. QED BY <1>1 DEF NoPeerCall, CallRecord

LEMMA NoRowTyped == NoPeerRow \in RowRecord /\ NoDisk \in DiskRecord /\ NoBox \in BoxRecord
<1>. MaxIds \in Nat /\ MaxCerts \in Nat
    BY PeerAssumption DEF PeerAssumption
<1>. QED BY DEF NoPeerRow, NoDisk, NoBox, RowRecord, DiskRecord, BoxRecord

\* The step r is at, and where it gets by going on.
LEMMA StepIs ==
    ASSUME PeerInv, NEW r \in PeerCalls, Step(r) \notin {"idle", "failed"}
    PROVE  /\ Working(r) /\ peerCall[r].op \in Ops
           /\ peerCall[r].at \in 1..Len(Script[peerCall[r].op])
           /\ Len(Script[peerCall[r].op]) \in 3..8
           /\ Step(r) = Script[peerCall[r].op][peerCall[r].at]
           /\ <<peerCall[r].op, Step(r), Behind(peerCall[r])>> \in Follows
<1>1. peerCall[r] \in CallRecord /\ CallKnown(r)
    BY PeerTyped DEF PeerInv
<1>2. /\ Working(r) /\ peerCall[r].op \in Ops /\ peerCall[r].at # 0
      /\ Step(r) = Script[peerCall[r].op][peerCall[r].at]
    BY <1>1 DEF Step, Working, CallRecord
<1>3. Len(Script[peerCall[r].op]) \in 3..8
    BY <1>2, ScriptStarts
<1>4. peerCall[r].at \in 1..Len(Script[peerCall[r].op])
    BY <1>1, <1>2, <1>3 DEF CallKnown
<1>. QED BY <1>2, <1>3, <1>4, ScriptTable DEF Behind

LEMMA GoesOn ==
    ASSUME PeerInv, NEW r \in PeerCalls, Step(r) \notin {"idle", "failed"},
           NEW c \in CallRecord, c.op = peerCall[r].op, c.at = peerCall[r].at, Proceed(r, c)
    PROVE  \E e \in CallRecord :
               /\ Become(r, e)
               /\ \/ e = NoPeerCall /\ Behind(peerCall[r]) = "end"
                  \/ /\ e.op = c.op /\ e.id = c.id /\ e.cfg = c.cfg /\ e.deployed = c.deployed
                     /\ e.cert = c.cert /\ e.alone = c.alone
                     /\ e.at \in 1..Len(Script[c.op]) /\ StepOf(e) = Behind(peerCall[r])
<1>. DEFINE n == Len(Script[c.op])
            e == [c EXCEPT !.at = @ + 1]
<1>1. c.op \in Ops /\ c.at \in 1..n /\ n \in 3..8
    BY StepIs
<1>. HIDE DEF n
<1>2. CASE c.at < n
    <2>1. /\ e \in CallRecord /\ e.op = c.op /\ e.id = c.id /\ e.cfg = c.cfg /\ e.deployed = c.deployed
          /\ e.cert = c.cert /\ e.alone = c.alone /\ e.at = c.at + 1
        BY <1>1, <1>2 DEF CallRecord
    <2>2. Become(r, e)
        BY <1>2 DEF Proceed, n
    <2>. HIDE DEF e
    <2>3. e.op # "none" /\ e.at # 0 /\ e.at \in 1..n
        BY <1>1, <1>2, <2>1 DEF Ops
    <2>4. StepOf(e) = Behind(peerCall[r])
        BY <1>2, <2>1, <2>3 DEF StepOf, Behind, n
    <2>. QED BY <2>1, <2>2, <2>3, <2>4 DEF n
<1>3. CASE ~(c.at < n)
    BY <1>3, NoCallTyped DEF Proceed, Behind, n
<1>. QED BY <1>2, <1>3

\* The step of a call after a step of the world.
LEMMA StepThen == \A k : Step(k) = StepOf(peerCall[k]) /\ Step(k)' = StepOf(peerCall'[k])
BY DEF Step, StepOf

\* While one request has the peer for itself.
LEMMA Single ==
    ASSUME PeerInv, NEW r \in PeerCalls, Working(r)
    PROVE  /\ hist.sure => peerCall[r].alone
           /\ peerCall[r].alone => Has(r) /\ \A k \in PeerCalls \ {r} : ~Working(k)
           /\ hist.tidy /\ Rewrites(r) => Has(r) /\ \A k \in PeerCalls \ {r} : ~Working(k)
           /\ hist.tidy /\ ~Rewrites(r) => \A k \in PeerCalls : ~Rewrites(k)
<1>1. (hist.sure => peerCall[r].alone)
      /\ (peerCall[r].alone => Has(r) /\ \A k \in PeerCalls \ {r} : ~Working(k))
    BY DEF PeerInv, SureCall, AloneCall
<1>2. hist.tidy /\ Rewrites(r) => Has(r) /\ \A k \in PeerCalls \ {r} : ~Working(k)
    BY DEF PeerInv, TidyCall
<1>3. ASSUME hist.tidy, NEW k \in PeerCalls, Rewrites(k), k # r PROVE FALSE
    BY <1>3 DEF PeerInv, TidyCall
<1>. QED BY <1>1, <1>2, <1>3

\* The other requests after a step of r.
LEMMA OthersKept ==
    ASSUME PeerInv, NEW r \in PeerCalls, Working(r), NEW e \in CallRecord, Become(r, e),
           issued'.id = issued.id,
           hist'.sure => hist.sure \/ peerCall[r].alone, hist'.tidy => hist.tidy
    PROVE  \A k \in PeerCalls \ {r} : CallKnown(k)' /\ AloneCall(k)' /\ SureCall(k)' /\ TidyCall(k)'
<1>. SUFFICES ASSUME NEW k \in PeerCalls \ {r}
              PROVE  CallKnown(k)' /\ AloneCall(k)' /\ SureCall(k)' /\ TidyCall(k)'
    OBVIOUS
<1>1. peerCall'[k] = peerCall[k] /\ (Working(k)' <=> Working(k)) /\ (Rewrites(k)' <=> Rewrites(k))
    BY PeerMoved DEF PeerInv, Working, Rewrites
<1>2. CallKnown(k)'
    BY <1>1 DEF PeerInv, CallKnown
<1>3. Working(k) => ~peerCall[k].alone /\ ~hist.sure /\ ~peerCall[r].alone
    BY Single
<1>4. AloneCall(k)'
    BY <1>1, <1>3 DEF AloneCall
<1>5. SureCall(k)'
    BY <1>1, <1>3 DEF SureCall
<1>6. TidyCall(k)'
    <2>1. Rewrites(k) => Working(k) /\ ~hist.tidy
        BY Single DEF Rewrites
    <2>. QED BY <1>1, <2>1 DEF TidyCall
<1>. QED BY <1>2, <1>4, <1>5, <1>6

\* The writer of a status in between, after a step of r that keeps the row.
LEMMA ServedKept ==
    ASSUME PeerInv, NEW r \in PeerCalls, NEW e \in CallRecord, Become(r, e), peerRow'.id = peerRow.id,
           \/ peerRow'.status \notin InBetween
           \/ hist'.left
           \/ Owner(r)'
           \/ peerRow'.status = peerRow.status /\ hist'.left = hist.left /\ (Owner(r) => Owner(r)')
    PROVE  Served'
<1>1. ASSUME peerRow.status \in InBetween, ~hist.left, Owner(r) => Owner(r)'
      PROVE  \E k \in PeerCalls : Owner(k)'
    <2>. SUFFICES ASSUME ~Owner(r) PROVE \E k \in PeerCalls : Owner(k)'
        BY <1>1
    <2>1. PICK k \in PeerCalls : Owner(k) /\ k # r
        BY <1>1 DEF PeerInv, Served
    <2>2. peerCall'[k] = peerCall[k]
        BY <2>1, PeerMoved DEF PeerInv
    <2>3. Owner(k)'
        BY <2>1, <2>2, StepThen DEF Owner, Working, Has
    <2>. QED BY <2>3
<1>. QED BY <1>1 DEF Served

\* A step of r, put together.
LEMMA StepTogether ==
    ASSUME PeerInv, NEW r \in PeerCalls, Working(r), NEW e \in CallRecord, Become(r, e),
           PeerTypeOK', RowKnown', Served', SureQuiet', TidyRest', issued'.id = issued.id,
           hist'.sure => hist.sure \/ peerCall[r].alone, hist'.tidy => hist.tidy,
           CallKnown(r)', AloneCall(r)', SureCall(r)', TidyCall(r)'
    PROVE  PeerInv'
<1>1. \A k \in PeerCalls \ {r} : CallKnown(k)' /\ AloneCall(k)' /\ SureCall(k)' /\ TidyCall(k)'
    BY OthersKept
<1>2. \A k \in PeerCalls : CallKnown(k)' /\ AloneCall(k)' /\ SureCall(k)' /\ TidyCall(k)'
    BY <1>1
<1>. QED BY <1>2 DEF PeerInv

\* Between the calls that rewrite, after a step of r.
LEMMA RestThen ==
    ASSUME PeerInv, NEW r \in PeerCalls, Working(r), NEW e \in CallRecord, Become(r, e),
           hist'.tidy => hist.tidy,
           Rewrites(r) \/ (peerRow'.id = peerRow.id /\ peerRow'.cfg = peerRow.cfg),
           hist'.tidy /\ peerRow'.id # 0 /\ ~(e.op # "none" /\ Rewriting(e.op)) =>
               /\ Agree'
               /\ e.op = "restart" \/ (e.op = "start" /\ StepOf(e) # "read") => e.cfg = peerRow'.cfg
    PROVE  TidyRest'
<1>. SUFFICES ASSUME hist'.tidy, peerRow'.id # 0, \A k \in PeerCalls : ~Rewrites(k)'
              PROVE  /\ Agree'
                     /\ \A k \in PeerCalls :
                            peerCall'[k].op = "restart" \/ (peerCall'[k].op = "start" /\ Step(k)' # "read")
                                => peerCall'[k].cfg = peerRow'.cfg
    BY DEF TidyRest
<1>1. peerCall'[r] = e /\ \A k \in PeerCalls \ {r} : peerCall'[k] = peerCall[k]
    BY PeerMoved DEF PeerInv
<1>2. ~(e.op # "none" /\ Rewriting(e.op))
    BY <1>1 DEF Rewrites, Working
<1>3. Agree' /\ (e.op = "restart" \/ (e.op = "start" /\ StepOf(e) # "read") => e.cfg = peerRow'.cfg)
    BY <1>2
<1>4. ASSUME NEW k \in PeerCalls \ {r},
             peerCall'[k].op = "restart" \/ (peerCall'[k].op = "start" /\ Step(k)' # "read")
      PROVE  peerCall'[k].cfg = peerRow'.cfg
    <2>1. Working(k) /\ peerCall'[k] = peerCall[k] /\ Step(k)' = Step(k)
        BY <1>1, <1>4, StepThen DEF Working
    <2>2. ~Rewrites(r)
        BY <2>1, Single
    <2>3. \A j \in PeerCalls : ~Rewrites(j)
        BY <2>2, Single
    <2>. QED BY <1>4, <2>1, <2>2, <2>3 DEF PeerInv, TidyRest
<1>. QED BY <1>1, <1>3, <1>4, StepThen

LEMMA RestNow ==
    ASSUME PeerInv, NEW r \in PeerCalls, Working(r), ~Rewrites(r), hist.tidy, peerRow.id # 0
    PROVE  /\ Agree
           /\ peerCall[r].op = "restart" \/ (peerCall[r].op = "start" /\ Step(r) # "read")
                  => peerCall[r].cfg = peerRow.cfg
BY Single DEF PeerInv, TidyRest

\* A step with which r ends.
LEMMA PeerCallEnds ==
    ASSUME PeerInv, NEW r \in PeerCalls, Working(r), Become(r, NoPeerCall),
           PeerTypeOK', RowKnown', Served', TidyRest', issued'.id = issued.id,
           hist'.sure => (hist.sure \/ peerCall[r].alone) /\ Match', hist'.tidy => hist.tidy
    PROVE  PeerInv'
<1>1. peerCall'[r] = NoPeerCall
    BY PeerMoved, NoCallTyped DEF PeerInv
<1>2. CallKnown(r)' /\ AloneCall(r)' /\ SureCall(r)' /\ TidyCall(r)'
    BY <1>1, NoCallTyped DEF CallKnown, AloneCall, SureCall, TidyCall, Working, Rewrites
<1>3. SureQuiet'
    BY DEF SureQuiet
<1>. QED BY <1>2, <1>3, NoCallTyped, StepTogether

\* A step after which r is still at work.
LEMMA PeerCallGoes ==
    ASSUME PeerInv, NEW r \in PeerCalls, Working(r), NEW e \in CallRecord, Become(r, e), e.op # "none",
           e.id = peerCall[r].id, e.at \in 0..Len(Script[e.op]), e.alone => peerCall[r].alone,
           PeerTypeOK', RowKnown', Served', TidyRest', TidyCall(r)',
           peerRow'.id = peerRow.id, issued'.id = issued.id,
           hist'.sure => hist.sure \/ peerCall[r].alone, hist'.tidy => hist.tidy,
           e.alone =>
               /\ StepOf(e) = "done" /\ e.op \in {"stop", "halt"} => box'.state # "up"
               /\ StepOf(e) \in {"done", "persist"} /\ e.op \notin {"stop", "halt"} => box'.state = "up",
           hist'.sure =>
               /\ e.alone
               /\ \/ StepOf(e) \in {"read", "probe", "config", "deploy", "sync"}
                  \/ e.op \in {"restart", "update"} /\ StepOf(e) = "down"
                  => Match'
               /\ e.op = "update" /\ StepOf(e) \in {"box", "run"} => box'.state # "up"
               /\ StepOf(e) \in {"init", "cleanup", "row"} => peerRow'.status # "RUNNING" /\ box'.state # "up"
    PROVE  PeerInv'
<1>1. /\ peerCall'[r] = e /\ Step(r)' = StepOf(e) /\ Working(r)'
      /\ \A k \in PeerCalls \ {r} : peerCall'[k] = peerCall[k]
    BY PeerMoved, StepThen DEF PeerInv, Working
<1>2. CallKnown(r)'
    BY <1>1 DEF PeerInv, CallKnown
<1>3. AloneCall(r)'
    <2>1. e.alone => Has(r)' /\ \A k \in PeerCalls \ {r} : ~Working(k)'
        BY <1>1, Single DEF Has, Working
    <2>. QED BY <1>1, <2>1 DEF AloneCall
<1>4. SureCall(r)'
    BY <1>1 DEF SureCall
<1>5. SureQuiet'
    BY <1>1 DEF SureQuiet, Quiet, Working
<1>. QED BY <1>2, <1>3, <1>4, <1>5, StepTogether

LEMMA CallsTyped ==
    ASSUME PeerTypeOK, NEW r \in PeerCalls, NEW e \in CallRecord, Become(r, e),
           peerRow' \in RowRecord,
           disk' \in DiskRecord,
           box' \in BoxRecord,
           issued' \in IssuedRecord,
           hist' \in HistRecord
    PROVE  PeerTypeOK'
BY PeerMoved, PeerTypes DEF Typed

LEMMA HistTyped ==
    ASSUME PeerTypeOK, NEW r \in PeerCalls, Untidy(r)
    PROVE  /\ hist' \in HistRecord
           /\ hist'.tidy = (hist.tidy /\ ~Rewriting(peerCall[r].op))
           /\ hist'.sure = (hist.sure /\ ~Strands(r)) /\ hist'.left = hist.left
<1>1. Rewriting(peerCall[r].op) \in BOOLEAN /\ Strands(r) \in BOOLEAN
    BY DEF Rewriting, Strands
<1>. QED BY <1>1, PeerTypes DEF Untidy, Typed, HistRecord

-----------------------------------------------------------------------------
(* Failing steps.                                                          *)

\* What an error leaves of the call.
LEMMA GivenUp ==
    ASSUME PeerInv, NEW r \in PeerCalls, Working(r), GiveUp(r)
    PROVE  \E e \in CallRecord :
               /\ Become(r, e)
               /\ \/ e = NoPeerCall /\ peerCall[r].op \notin {"create", "halt"}
                  \/ /\ peerCall[r].op = "create" /\ e.op = "delete" /\ e.at = 2 /\ StepOf(e) = "cleanup"
                     /\ e.id = peerCall[r].id /\ e.alone = peerCall[r].alone
                  \/ /\ peerCall[r].op = "halt" /\ e.op = "halt" /\ e.at = 5 /\ StepOf(e) = "cleanup"
                     /\ e.id = peerCall[r].id /\ e.alone = peerCall[r].alone
<1>1. peerCall[r] \in CallRecord
    BY PeerTyped DEF PeerInv
<1>2. CASE peerCall[r].op = "create"
    <2>. DEFINE d == [peerCall[r] EXCEPT !.op = "delete"]
                e == [d EXCEPT !.at = 2]
    <2>0. d \in CallRecord /\ d.op = "delete" /\ d.id = peerCall[r].id /\ d.alone = peerCall[r].alone
        BY <1>1 DEF CallRecord, Ops
    <2>1. Become(r, e)
        BY <1>2 DEF GiveUp
    <2>. HIDE DEF d
    <2>2. e \in CallRecord /\ e.op = "delete" /\ e.at = 2 /\ e.id = peerCall[r].id /\ e.alone = peerCall[r].alone
        BY <2>0 DEF CallRecord
    <2>. HIDE DEF e
    <2>3. StepOf(e) = "cleanup"
        BY <2>2, ScriptStarts DEF StepOf
    <2>. QED BY <1>2, <2>1, <2>2, <2>3
<1>3. CASE peerCall[r].op = "halt"
    <2>. DEFINE e == [peerCall[r] EXCEPT !.at = 5]
    <2>1. Become(r, e)
        BY <1>3 DEF GiveUp
    <2>2. e \in CallRecord /\ e.op = "halt" /\ e.at = 5 /\ e.id = peerCall[r].id /\ e.alone = peerCall[r].alone
        BY <1>1, <1>3 DEF CallRecord, Ops
    <2>. HIDE DEF e
    <2>3. StepOf(e) = "cleanup"
        BY <2>2, ScriptStarts DEF StepOf
    <2>. QED BY <1>3, <2>1, <2>2, <2>3
<1>4. CASE peerCall[r].op \notin {"create", "halt"}
    BY <1>4, NoCallTyped DEF GiveUp
<1>. QED BY <1>2, <1>3, <1>4

\* The row of the request has gone: whatever it gives up, it does nobody harm.
LEMMA RowGone ==
    ASSUME PeerInv, NEW r \in PeerCalls, Working(r), ~Has(r), NEW e \in CallRecord, Become(r, e),
           \/ e = NoPeerCall
           \/ /\ Rewrites(r) /\ e.op \in {"delete", "halt"} /\ e.at \in 0..Len(Script[e.op])
              /\ e.id = peerCall[r].id /\ e.alone = peerCall[r].alone,
           UNCHANGED <<peerRow, disk, box, issued>>, hist' \in HistRecord,
           hist'.tidy => hist.tidy, hist'.sure => hist.sure, hist'.left = hist.left
    PROVE  PeerInv'
<1>1. ~hist.sure /\ ~peerCall[r].alone /\ ~(hist.tidy /\ Rewrites(r))
    BY Single
<1>2. PeerTypeOK'
    BY CallsTyped, PeerTypes DEF PeerInv, Typed
<1>3. RowKnown'
    BY DEF PeerInv, RowKnown
<1>4. Served'
    <2>1. ~Owner(r)
        BY DEF Owner
    <2>. QED BY <2>1, ServedKept
<1>5. TidyRest'
    <2>1. hist.tidy /\ peerRow.id # 0 => Agree
        BY <1>1, RestNow
    <2>2. Agree => Agree'
        BY DEF Agree, SameCert, Files, BoxCfg, BoxFiles
    <2>3. e.op \notin {"start", "restart"}
        BY NoCallTyped
    <2>4. hist'.tidy => hist.tidy /\ ~Rewrites(r)
        BY <1>1
    <2>. QED BY <2>1, <2>2, <2>3, <2>4, RestThen
<1>6. CASE e = NoPeerCall
    BY <1>1, <1>2, <1>3, <1>4, <1>5, <1>6, PeerCallEnds
<1>7. CASE e # NoPeerCall
    <2>1. ~hist'.sure /\ ~e.alone /\ ~hist'.tidy /\ e.op # "none"
        BY <1>1, <1>7
    <2>2. TidyCall(r)'
        BY <2>1 DEF TidyCall
    <2>. QED BY <1>1, <1>2, <1>3, <1>4, <1>5, <1>7, <2>1, <2>2, PeerCallGoes
<1>. QED BY <1>6, <1>7

\* Whether a step rewrites depends on what it is.
LEMMA RewritesIs == \A r : Rewrites(r) <=> peerCall[r].op \notin {"none", "start", "stop", "restart"}
BY DEF Rewrites, Rewriting, Working

LEMMA LostRow ==
    ASSUME PeerInv, NEW r \in PeerCalls, Working(r), ~Has(r), GiveUp(r), Untidy(r) \/ hist' = hist,
           UNCHANGED <<peerRow, disk, box, issued>>
    PROVE  PeerInv'
<1>1. /\ hist' \in HistRecord /\ hist'.left = hist.left
      /\ hist'.tidy => hist.tidy
      /\ hist'.sure => hist.sure
    BY HistTyped, PeerTypes DEF PeerInv, Typed
<1>2. PICK e \in CallRecord :
          /\ Become(r, e)
          /\ \/ e = NoPeerCall
             \/ /\ peerCall[r].op \in {"create", "halt"} /\ e.op \in {"delete", "halt"}
                /\ e.at \in {2, 5} /\ (e.op = "delete" => e.at = 2)
                /\ e.id = peerCall[r].id /\ e.alone = peerCall[r].alone
    BY GivenUp
<1>3. e = NoPeerCall \/ (Rewrites(r) /\ e.at \in 0..Len(Script[e.op]))
    BY <1>2, RewritesIs, ScriptStarts
<1>4. CASE e = NoPeerCall
    BY <1>1, <1>2, <1>4, RowGone
<1>5. CASE e # NoPeerCall
    BY <1>1, <1>2, <1>3, <1>5, RowGone
<1>. QED BY <1>4, <1>5

\* A docker call or a renewal fails.
LEMMA FailKeeps ==
    ASSUME PeerInv, NEW r \in PeerCalls, Step(r) \in {"renew", "down", "box", "run"}, Fail(r),
           UNCHANGED <<peerRow, disk, box>>, issued'.id = issued.id, issued' \in IssuedRecord,
           Step(r) # "renew" => issued' = issued
    PROVE  PeerInv'
<1>. DEFINE x == peerCall[r]
<1>1. Working(r) /\ x \in CallRecord /\ <<x.op, Step(r), Behind(x)>> \in Follows /\ CallKnown(r)
      /\ x.at \in 1..Len(Script[x.op])
    BY StepIs, PeerTyped DEF PeerInv
<1>2. /\ hist' \in HistRecord /\ hist'.left = hist.left
      /\ hist'.tidy => hist.tidy /\ ~Rewrites(r)
      /\ hist'.sure => hist.sure /\ ~Strands(r)
    BY HistTyped DEF PeerInv, Fail, Rewrites
<1>3. Step(r) = "renew" => Rewrites(r)
    BY <1>1, RewritesIs DEF Follows
<1>4. RowKnown'
    BY DEF PeerInv, RowKnown
<1>5. hist'.tidy /\ peerRow'.id # 0 => Agree'
    <2>1. hist'.tidy /\ peerRow'.id # 0 => Agree /\ issued' = issued
        BY <1>1, <1>2, <1>3, RestNow
    <2>2. issued' = issued /\ Agree => Agree'
        BY DEF Agree, SameCert, Files, BoxCfg, BoxFiles
    <2>. QED BY <2>1, <2>2
<1>6. CASE x.op = "update" \/ (x.op = "restart" /\ x.at = 1)
    <2>1. Become(r, NoPeerCall)
        BY <1>6 DEF Fail, GiveUp
    <2>2. x.op = "restart" => Step(r) = "down"
        BY <1>1, <1>6, StepIs, ScriptStarts
    <2>3. ~Owner(r)
        BY <1>6, <2>2 DEF Owner
    <2>4. PeerTypeOK'
        BY <1>2, <2>1, NoCallTyped, CallsTyped, PeerTypes DEF PeerInv, Typed
    <2>5. Served'
        BY <1>2, <2>1, <2>3, NoCallTyped, ServedKept
    <2>6. hist'.sure => hist.sure /\ Match
        <3>1. hist'.sure => SureCall(r) /\ hist.sure /\ ~Strands(r)
            BY <1>2 DEF PeerInv
        <3>2. x.op = "update" => Step(r) \in {"down", "box", "run"}
            BY <1>1 DEF Follows
        <3>. QED BY <1>1, <1>6, <2>2, <3>1, <3>2 DEF SureCall, Strands, Match
    <2>7. Match => Match'
        BY DEF Match
    <2>8. TidyRest'
        BY <1>1, <1>2, <1>5, <2>1, NoCallTyped, RestThen
    <2>. QED BY <1>1, <1>2, <1>4, <2>1, <2>4, <2>5, <2>6, <2>7, <2>8, PeerCallEnds
<1>7. CASE ~(x.op = "update" \/ (x.op = "restart" /\ x.at = 1))
    <2>. DEFINE e == [x EXCEPT !.at = 0]
    <2>1. Become(r, e)
        BY <1>7 DEF Fail
    <2>2. /\ e \in CallRecord /\ e.op = x.op /\ e.at = 0 /\ e.id = x.id /\ e.cfg = x.cfg /\ e.alone = x.alone
        <3>1. x \in CallRecord
            BY <1>1
        <3>. QED BY <3>1 DEF CallRecord
    <2>. HIDE DEF e
    <2>3. StepOf(e) = "failed" /\ e.op # "none" /\ peerCall'[r] = e
        BY <1>1, <2>1, <2>2, PeerMoved DEF StepOf, Working, PeerInv
    <2>4. PeerTypeOK'
        BY <1>2, <2>1, <2>2, CallsTyped, PeerTypes DEF PeerInv, Typed
    <2>5. Served'
        <3>1. Has(r) => Owner(r)'
            BY <2>2, <2>3, StepThen DEF Owner, Has, Working
        <3>2. ~Has(r) => ~Owner(r)
            BY DEF Owner
        <3>. QED BY <1>2, <2>1, <2>2, <3>1, <3>2, ServedKept
    <2>6. TidyRest'
        <3>1. hist'.tidy /\ peerRow'.id # 0 /\ e.op \in {"start", "restart"} => e.cfg = peerRow'.cfg
            <4>1. Step(r) # "read"
                OBVIOUS
            <4>. QED BY <1>1, <1>2, <2>2, <4>1, RestNow
        <3>. QED BY <1>1, <1>2, <1>5, <2>1, <2>2, <3>1, RestThen
    <2>7. TidyCall(r)'
        BY <1>2, <2>2, <2>3, RewritesIs DEF TidyCall, Rewrites, Rewriting, Working
    <2>8. e.at \in 0..Len(Script[e.op])
        BY <1>1, <2>2
    <2>9. hist'.sure => e.alone
        BY <1>1, <1>2, <2>2, Single
    <2>. QED BY <1>1, <1>2, <1>4, <2>1, <2>2, <2>3, <2>4, <2>5, <2>6, <2>7, <2>8, <2>9, PeerCallGoes
<1>. QED BY <1>6, <1>7

\* What a rewriting call that goes on has to show.
LEMMA TidyThen ==
    ASSUME PeerInv, NEW r \in PeerCalls, Working(r), NEW e \in CallRecord, Become(r, e), e.id = peerCall[r].id,
           peerRow'.id = peerRow.id, hist'.tidy => hist.tidy,
           hist'.tidy /\ Rewriting(e.op) => Rewrites(r) /\ StepOf(e) # "failed" /\ Wrote(r)'
    PROVE  TidyCall(r)'
<1>1. peerCall'[r] = e /\ Step(r)' = StepOf(e) /\ \A k \in PeerCalls \ {r} : peerCall'[k] = peerCall[k]
    BY PeerMoved, StepThen DEF PeerInv
<1>2. hist'.tidy /\ Rewrites(r)' => Rewrites(r) /\ StepOf(e) # "failed" /\ Wrote(r)' /\ hist.tidy
    BY <1>1 DEF Rewrites
<1>3. hist'.tidy /\ Rewrites(r)' => Has(r)' /\ \A k \in PeerCalls \ {r} : ~Working(k)'
    BY <1>1, <1>2, Single DEF Has, Working
<1>. QED BY <1>1, <1>2, <1>3 DEF TidyCall

LEMMA WroteNow ==
    ASSUME PeerInv, NEW r \in PeerCalls, Rewrites(r), hist.tidy
    PROVE  Has(r) /\ Wrote(r) /\ peerRow.id # 0
BY DEF PeerInv, TidyCall, Has

-----------------------------------------------------------------------------
(* The beginning.                                                          *)

LEMMA PeerInitInv == PeerInit => PeerInv
<1>. SUFFICES ASSUME PeerInit PROVE PeerInv
    OBVIOUS
<1>1. MaxIds \in Nat /\ MaxCerts \in Nat
    BY PeerAssumption DEF PeerAssumption
<1>2. \A r \in PeerCalls : peerCall[r] = NoPeerCall
    BY DEF PeerInit
<1>3. peerCall \in [PeerCalls -> CallRecord]
    BY NoCallTyped DEF PeerInit
<1>4. PeerTypeOK
    <2>1. peerRow = NoPeerRow /\ disk = NoDisk /\ box = NoBox /\ issued = [cert |-> 0, id |-> 0]
          /\ hist = [sure |-> TRUE, tidy |-> TRUE, left |-> FALSE]
        BY DEF PeerInit
    <2>. QED BY <1>1, <1>3, <2>1, NoRowTyped, PeerTypes DEF Typed, HistRecord, IssuedRecord
<1>5. RowKnown /\ Served
    BY DEF PeerInit, RowKnown, Served, NoPeerRow, InBetween
<1>6. SureQuiet /\ TidyRest
    BY DEF PeerInit, SureQuiet, Match, TidyRest, NoPeerRow, NoBox
<1>7. ASSUME NEW r \in PeerCalls PROVE CallKnown(r) /\ AloneCall(r) /\ SureCall(r) /\ TidyCall(r)
    BY <1>2, NoCallTyped DEF CallKnown, AloneCall, SureCall, TidyCall, Rewrites, Working
<1>. QED BY <1>4, <1>5, <1>6, <1>7 DEF PeerInv

LEMMA Entered ==
    ASSUME PeerInv, NEW r \in PeerCalls, NEW c \in CallRecord, c.op # "none", Enter(r, c)
    PROVE  \E e \in CallRecord :
               LET others == {k \in PeerCalls \ {r} : Working(k)} IN
               /\ ~Working(r) /\ peerCall' \in [PeerCalls -> CallRecord] /\ peerCall'[r] = e
               /\ e.op = c.op /\ e.at = c.at /\ e.id = c.id /\ e.cfg = c.cfg /\ e.alone = (others = {})
               /\ \A k \in PeerCalls \ {r} :
                      /\ Working(k)' = Working(k) /\ Step(k)' = Step(k)
                      /\ Working(k) => /\ peerCall'[k].op = peerCall[k].op /\ peerCall'[k].id = peerCall[k].id
                                       /\ peerCall'[k].at = peerCall[k].at /\ peerCall'[k].cfg = peerCall[k].cfg
                                       /\ ~peerCall'[k].alone
               /\ hist' \in HistRecord
               /\ hist'.sure = (hist.sure /\ others = {})
               /\ hist'.tidy => /\ hist.tidy \/ c.op = "create"
                                /\ Rewriting(c.op) => others = {}
                                /\ \A k \in others : ~Rewrites(k)
               /\ hist'.left = (hist.left /\ c.op # "create")
<1>. DEFINE others == {k \in PeerCalls \ {r} : Working(k)}
            e == [c EXCEPT !.alone = others = {}]
<1>1. e \in CallRecord /\ e.op = c.op /\ e.at = c.at /\ e.id = c.id /\ e.cfg = c.cfg /\ e.alone = (others = {})
    BY DEF CallRecord
<1>2. /\ peerCall[r].op = "none"
      /\ peerCall' = [k \in PeerCalls |->
               IF k = r THEN e
               ELSE IF k \in others THEN [peerCall[k] EXCEPT !.alone = FALSE] ELSE NoPeerCall]
    BY DEF Enter, Working
<1>3. ASSUME NEW k \in PeerCalls
      PROVE  LET d == [peerCall[k] EXCEPT !.alone = FALSE] IN
             /\ d \in CallRecord /\ d.op = peerCall[k].op /\ d.id = peerCall[k].id /\ d.at = peerCall[k].at
             /\ d.cfg = peerCall[k].cfg /\ ~d.alone
    BY PeerTyped DEF PeerInv, CallRecord
<1>. HIDE DEF e
<1>4. peerCall' \in [PeerCalls -> CallRecord] /\ peerCall'[r] = e
    BY <1>1, <1>2, <1>3, NoCallTyped
<1>5. ASSUME NEW k \in PeerCalls \ {r}
      PROVE  /\ Working(k)' = Working(k) /\ Step(k)' = Step(k)
             /\ Working(k) => /\ peerCall'[k].op = peerCall[k].op /\ peerCall'[k].id = peerCall[k].id
                              /\ peerCall'[k].at = peerCall[k].at /\ peerCall'[k].cfg = peerCall[k].cfg
                              /\ ~peerCall'[k].alone
    <2>1. CASE Working(k)
        <3>1. peerCall'[k] = [peerCall[k] EXCEPT !.alone = FALSE]
            BY <1>2, <2>1
        <3>. QED BY <1>3, <2>1, <3>1 DEF Working, Step
    <2>2. CASE ~Working(k)
        <3>1. peerCall'[k] = NoPeerCall
            BY <1>2, <2>2
        <3>. QED BY <2>2, <3>1, NoCallTyped DEF Working, Step
    <2>. QED BY <2>1, <2>2
<1>6. /\ hist' \in HistRecord
      /\ hist'.sure = (hist.sure /\ others = {}) /\ hist'.left = (hist.left /\ c.op # "create")
      /\ hist'.tidy => /\ hist.tidy \/ c.op = "create"
                       /\ Rewriting(c.op) => others = {}
                       /\ \A k \in others : ~Rewrites(k)
    <2>. DEFINE clash == others # {} /\ \E k \in others : Rewriting(c.op) \/ Rewriting(peerCall[k].op)
    <2>1. hist' = [sure |-> hist.sure /\ others = {}, tidy |-> (hist.tidy \/ c.op = "create") /\ ~clash,
                   left |-> hist.left /\ c.op # "create"]
        BY DEF Enter, Working
    <2>2. ~clash => (Rewriting(c.op) => others = {}) /\ \A k \in others : ~Rewrites(k)
        BY DEF Rewrites
    <2>3. hist.sure \in BOOLEAN /\ hist.tidy \in BOOLEAN /\ hist.left \in BOOLEAN
        BY PeerTypes DEF PeerInv, Typed, HistRecord
    <2>. HIDE DEF clash, others
    <2>. QED BY <2>1, <2>2, <2>3 DEF HistRecord
<1>. QED BY <1>1, <1>2, <1>4, <1>5, <1>6 DEF Working

\* The call with which a request begins.
Fresh(op, id, cfg) == [NoPeerCall EXCEPT !.op = op, !.at = 1, !.id = id, !.cfg = cfg]

LEMMA FreshCall ==
    ASSUME NEW op \in Ops, NEW id \in 0..MaxIds, NEW cfg \in Configs
    PROVE  /\ Fresh(op, id, cfg) \in CallRecord /\ Fresh(op, id, cfg).op = op /\ Fresh(op, id, cfg).at = 1
           /\ Fresh(op, id, cfg).id = id /\ Fresh(op, id, cfg).cfg = cfg
<1>. DEFINE c1 == [NoPeerCall EXCEPT !.op = op]
            c2 == [c1 EXCEPT !.at = 1]
            c3 == [c2 EXCEPT !.id = id]
            c4 == [c3 EXCEPT !.cfg = cfg]
<1>1. Fresh(op, id, cfg) = c4
    BY DEF Fresh
<1>2. c1 \in CallRecord /\ c1.op = op
    BY NoCallTyped DEF CallRecord
<1>. HIDE DEF c1
<1>3. c2 \in CallRecord /\ c2.op = op /\ c2.at = 1
    BY <1>2 DEF CallRecord
<1>. HIDE DEF c2
<1>4. c3 \in CallRecord /\ c3.op = op /\ c3.at = 1 /\ c3.id = id
    BY <1>3 DEF CallRecord
<1>. HIDE DEF c3
<1>5. c4 \in CallRecord /\ c4.op = op /\ c4.at = 1 /\ c4.id = id /\ c4.cfg = cfg
    BY <1>4 DEF CallRecord
<1>. QED BY <1>1, <1>5

LEMMA EnteredOthers ==
    ASSUME PeerInv, NEW r \in PeerCalls, NEW c \in CallRecord, c.op # "none", Enter(r, c),
           issued.id <= issued'.id, issued.id \in Nat, issued'.id \in Nat
    PROVE  \A k \in PeerCalls \ {r} : CallKnown(k)' /\ AloneCall(k)' /\ SureCall(k)' /\ TidyCall(k)'
<1>. DEFINE others == {k \in PeerCalls \ {r} : Working(k)}
<1>1. /\ hist'.sure => others = {}
      /\ hist'.tidy => \A k \in others : ~Rewrites(k)
      /\ \A k \in PeerCalls \ {r} :
             /\ Working(k)' = Working(k) /\ Step(k)' = Step(k)
             /\ Working(k) => /\ peerCall'[k].op = peerCall[k].op /\ peerCall'[k].id = peerCall[k].id
                              /\ peerCall'[k].at = peerCall[k].at /\ ~peerCall'[k].alone
    BY Entered
<1>. SUFFICES ASSUME NEW k \in PeerCalls \ {r}
              PROVE  CallKnown(k)' /\ AloneCall(k)' /\ SureCall(k)' /\ TidyCall(k)'
    OBVIOUS
<1>2. CASE ~Working(k)
    BY <1>1, <1>2 DEF CallKnown, AloneCall, SureCall, TidyCall, Rewrites
<1>3. CASE Working(k)
    <2>1. k \in others
        BY <1>3
    <2>. HIDE DEF others
    <2>2. CallKnown(k)'
        BY <1>1, <1>3 DEF PeerInv, CallKnown
    <2>3. AloneCall(k)' /\ SureCall(k)'
        BY <1>1, <1>3, <2>1 DEF AloneCall, SureCall
    <2>4. TidyCall(k)'
        BY <1>1, <1>3, <2>1 DEF TidyCall, Rewrites
    <2>. QED BY <2>2, <2>3, <2>4
<1>. QED BY <1>2, <1>3

LEMMA BeginPeerCallInv ==
    ASSUME PeerInv, NEW r \in PeerCalls, NEW op \in PeerOps, NEW cfg \in Configs, BeginPeerCall(r, op, cfg)
    PROVE  PeerInv'
<1>. DEFINE others == {k \in PeerCalls \ {r} : Working(k)}
            c == Fresh(op, peerRow.id, cfg)
<1>0. peerRow.id # 0 /\ peerRow.id \in 0..MaxIds /\ MaxIds \in Nat /\ MaxCerts \in Nat
      /\ issued.id \in 0..MaxIds /\ peerRow.id <= issued.id
      /\ Enter(r, c) /\ UNCHANGED <<peerRow, disk, box, issued>>
    BY PeerAssumption, PeerTypes DEF PeerAssumption, BeginPeerCall, Fresh, PeerInv, RowKnown, Typed, RowRecord, IssuedRecord
<1>1. c \in CallRecord /\ c.op = op /\ c.at = 1 /\ c.id = peerRow.id /\ c.op # "none"
    <2>1. op \in Ops /\ op # "none"
        BY DEF PeerOps, Ops
    <2>. QED BY <1>0, <2>1, FreshCall
<1>. HIDE DEF c
<1>2. PICK e \in CallRecord :
          /\ ~Working(r) /\ peerCall' \in [PeerCalls -> CallRecord] /\ peerCall'[r] = e
          /\ e.op = op /\ e.at = 1 /\ e.id = peerRow.id /\ e.alone = (others = {})
          /\ \A k \in PeerCalls \ {r} :
                 /\ Working(k)' = Working(k) /\ Step(k)' = Step(k)
                 /\ Working(k) => /\ peerCall'[k].op = peerCall[k].op /\ peerCall'[k].id = peerCall[k].id
                                  /\ peerCall'[k].cfg = peerCall[k].cfg /\ ~peerCall'[k].alone
          /\ hist' \in HistRecord
          /\ hist'.sure = (hist.sure /\ others = {})
          /\ hist'.tidy => /\ hist.tidy
                           /\ Rewriting(op) => others = {}
                           /\ \A k \in others : ~Rewrites(k)
          /\ hist'.left = hist.left
    <2>1. op # "create"
        BY DEF PeerOps
    <2>2. PICK e \in CallRecord :
              /\ ~Working(r) /\ peerCall' \in [PeerCalls -> CallRecord] /\ peerCall'[r] = e
              /\ e.op = c.op /\ e.at = c.at /\ e.id = c.id /\ e.alone = (others = {})
              /\ \A k \in PeerCalls \ {r} :
                     /\ Working(k)' = Working(k) /\ Step(k)' = Step(k)
                     /\ Working(k) => /\ peerCall'[k].op = peerCall[k].op /\ peerCall'[k].id = peerCall[k].id
                                      /\ peerCall'[k].cfg = peerCall[k].cfg /\ ~peerCall'[k].alone
              /\ hist' \in HistRecord
              /\ hist'.sure = (hist.sure /\ others = {})
              /\ hist'.tidy => /\ hist.tidy \/ c.op = "create"
                               /\ Rewriting(c.op) => others = {}
                               /\ \A k \in others : ~Rewrites(k)
              /\ hist'.left = (hist.left /\ c.op # "create")
        BY <1>0, <1>1, Entered
    <2>3. hist.left \in BOOLEAN
        BY PeerTypes DEF PeerInv, Typed, HistRecord
    <2>. HIDE DEF others
    <2>. QED BY <1>1, <2>1, <2>2, <2>3
<1>3. Step(r)' = "read" /\ Working(r)' /\ 1 \in 0..Len(Script[op])
    <2>1. Script[op][1] = "read" /\ Len(Script[op]) \in 3..8 /\ op # "none"
        BY ScriptStarts DEF PeerOps, Ops
    <2>. QED BY <1>2, <2>1 DEF Step, Working
<1>4. PeerTypeOK'
    BY <1>0, <1>2, PeerTypes DEF PeerInv, Typed
<1>5. RowKnown'
    BY <1>0 DEF PeerInv, RowKnown
<1>6. Served'
    <2>1. ASSUME NEW k \in PeerCalls, Owner(k) PROVE Owner(k)'
        <3>1. k # r
            BY <1>2, <2>1 DEF Owner
        <3>. QED BY <1>0, <1>2, <2>1, <3>1 DEF Owner, Has
    <2>. QED BY <1>0, <1>2, <2>1 DEF PeerInv, Served
<1>7. SureQuiet'
    BY <1>3 DEF SureQuiet, Quiet, Working
<1>8. Agree => Agree'
    BY <1>0 DEF Agree, SameCert, Files, BoxCfg, BoxFiles
<1>9. hist'.tidy => Agree
    <2>1. hist'.tidy => hist.tidy /\ \A k \in PeerCalls : ~Rewrites(k)
        BY <1>2 DEF Rewrites
    <2>. QED BY <1>0, <2>1 DEF PeerInv, TidyRest
<1>10. TidyRest'
    <2>. SUFFICES ASSUME hist'.tidy, NEW k \in PeerCalls \ {r},
                         peerCall'[k].op = "restart" \/ (peerCall'[k].op = "start" /\ Step(k)' # "read")
                  PROVE  peerCall'[k].cfg = peerRow'.cfg
        BY <1>2, <1>3, <1>8, <1>9 DEF TidyRest, PeerOps
    <2>1. Working(k)' /\ Working(k)
        BY <1>2 DEF Working
    <2>2. hist.tidy /\ \A j \in PeerCalls : ~Rewrites(j)
        BY <1>2 DEF Rewrites
    <2>. QED BY <1>0, <1>2, <2>1, <2>2 DEF PeerInv, TidyRest
<1>11. CallKnown(r)'
    BY <1>0, <1>2, <1>3 DEF CallKnown
<1>12. AloneCall(r)'
    BY <1>0, <1>2, <1>3 DEF AloneCall, Has
<1>13. SureCall(r)'
    <2>1. hist'.sure => others = {} /\ Match
        BY <1>2 DEF PeerInv, SureQuiet, Quiet, Working
    <2>. QED BY <1>0, <1>2, <1>3, <2>1 DEF SureCall, Match
<1>14. TidyCall(r)'
    <2>. SUFFICES ASSUME hist'.tidy, Rewriting(op) PROVE TidyCall(r)'
        BY <1>2 DEF TidyCall, Rewrites
    <2>1. others = {} /\ Agree'
        BY <1>2, <1>8, <1>9
    <2>2. Wrote(r)'
        <3>1. op # "create"
            BY DEF PeerOps
        <3>. QED BY <1>2, <1>3, <2>1, <3>1
                 DEF Wrote, WroteCreate, WroteRenewal, WroteUpdate, WroteBox, Agree, SameCert, Files
    <2>. QED BY <1>0, <1>2, <1>3, <2>1, <2>2 DEF TidyCall, Has
<1>15. \A k \in PeerCalls \ {r} : CallKnown(k)' /\ AloneCall(k)' /\ SureCall(k)' /\ TidyCall(k)'
    BY <1>0, <1>1, EnteredOthers
<1>16. \A k \in PeerCalls : CallKnown(k)' /\ AloneCall(k)' /\ SureCall(k)' /\ TidyCall(k)'
    BY <1>11, <1>12, <1>13, <1>14, <1>15
<1>. QED BY <1>4, <1>5, <1>6, <1>7, <1>10, <1>16 DEF PeerInv

FreshRow(id, cfg) == [NoPeerRow EXCEPT !.id = id, !.status = "PENDING", !.cfg = cfg]

LEMMA FreshRowIs ==
    ASSUME NEW id \in 0..MaxIds, NEW cfg \in Configs
    PROVE  /\ FreshRow(id, cfg) \in RowRecord /\ FreshRow(id, cfg).id = id
           /\ FreshRow(id, cfg).status = "PENDING" /\ FreshRow(id, cfg).cfg = cfg
<1>. DEFINE c1 == [NoPeerRow EXCEPT !.id = id]
            c2 == [c1 EXCEPT !.status = "PENDING"]
            c3 == [c2 EXCEPT !.cfg = cfg]
<1>1. FreshRow(id, cfg) = c3
    BY DEF FreshRow
<1>2. c1 \in RowRecord /\ c1.id = id
    BY NoRowTyped DEF RowRecord
<1>. HIDE DEF c1
<1>3. c2 \in RowRecord /\ c2.id = id /\ c2.status = "PENDING"
    BY <1>2 DEF RowRecord, InBetween
<1>. HIDE DEF c2
<1>4. c3 \in RowRecord /\ c3.id = id /\ c3.status = "PENDING" /\ c3.cfg = cfg
    BY <1>3 DEF RowRecord
<1>. QED BY <1>1, <1>4

LEMMA BeginCreateInv ==
    ASSUME PeerInv, NEW r \in PeerCalls, NEW cfg \in Configs, BeginCreate(r, cfg)
    PROVE  PeerInv'
<1>. DEFINE others == {k \in PeerCalls \ {r} : Working(k)}
            id == issued.id + 1
            c == Fresh("create", id, cfg)
<1>0. /\ peerRow = NoPeerRow /\ peerRow.id = 0 /\ id \in 1..MaxIds /\ MaxIds \in Nat /\ MaxCerts \in Nat
      /\ issued.id \in Nat /\ issued.cert \in 0..MaxCerts /\ issued' = [issued EXCEPT !.id = id]
      /\ Enter(r, c) /\ UNCHANGED <<disk, box>>
    BY PeerAssumption, PeerTypes DEF PeerAssumption, BeginCreate, Fresh, PeerInv, RowKnown, Typed, RowRecord, IssuedRecord
<1>1. /\ peerRow' \in RowRecord
      /\ peerRow'.id = id /\ peerRow'.status = "PENDING" /\ peerRow'.cfg = cfg
    <2>1. peerRow' = FreshRow(id, cfg)
        BY DEF BeginCreate, FreshRow
    <2>. QED BY <1>0, <2>1, FreshRowIs
<1>2. issued' \in IssuedRecord /\ issued'.id = id /\ issued'.cert = issued.cert
    BY <1>0, PeerTypes DEF PeerInv, Typed, IssuedRecord
<1>3. c \in CallRecord /\ c.op = "create" /\ c.at = 1 /\ c.id = id /\ c.cfg = cfg
    <2>1. "create" \in Ops
        BY DEF Ops
    <2>. QED BY <1>0, <2>1, FreshCall
<1>. HIDE DEF c, id
<1>4. PICK e \in CallRecord :
          /\ ~Working(r) /\ peerCall' \in [PeerCalls -> CallRecord] /\ peerCall'[r] = e
          /\ e.op = c.op /\ e.at = c.at /\ e.id = c.id /\ e.cfg = c.cfg /\ e.alone = (others = {})
          /\ hist' \in HistRecord
          /\ hist'.sure = (hist.sure /\ others = {})
          /\ hist'.tidy => (Rewriting(c.op) => others = {})
          /\ \A k \in PeerCalls \ {r} : Working(k)' = Working(k)
    BY <1>3, <1>0, Entered
<1>5. Step(r)' = "init" /\ Working(r)' /\ 1 \in 0..Len(Script["create"]) /\ Rewriting("create")
    <2>1. Script["create"][1] = "init" /\ Len(Script["create"]) \in 3..8
        BY ScriptStarts DEF Ops
    <2>. QED BY <1>3, <1>4, <2>1 DEF Step, Working, Rewriting
<1>6. hist'.tidy => \A k \in PeerCalls \ {r} : ~Working(k)'
    BY <1>3, <1>4, <1>5
<1>7. PeerTypeOK'
    BY <1>0, <1>1, <1>2, <1>4, PeerTypes DEF PeerInv, Typed
<1>8. RowKnown'
    BY <1>0, <1>1, <1>2 DEF RowKnown
<1>9. Has(r)'
    BY <1>0, <1>1, <1>3, <1>4 DEF Has
<1>10. Served'
    <2>1. Owner(r)'
        BY <1>3, <1>4, <1>5, <1>9 DEF Owner
    <2>. QED BY <2>1 DEF Served
<1>11. SureQuiet' /\ TidyRest'
    BY <1>3, <1>4, <1>5 DEF SureQuiet, Quiet, TidyRest, Rewrites, Working
<1>12. CallKnown(r)' /\ AloneCall(r)'
    <2>1. peerCall'[r].op = "create" /\ peerCall'[r].at = 1 /\ peerCall'[r].id = id /\ id \in 1..issued'.id
        BY <1>0, <1>2, <1>3, <1>4
    <2>2. CallKnown(r)'
        BY <1>5, <2>1 DEF CallKnown
    <2>3. AloneCall(r)'
        BY <1>4, <1>5, <1>9 DEF AloneCall
    <2>. QED BY <2>2, <2>3
<1>13. SureCall(r)'
    <2>1. hist'.sure => others = {} /\ Match
        BY <1>4 DEF PeerInv, SureQuiet, Quiet, Working
    <2>2. peerRow.status # "RUNNING"
        BY <1>0 DEF NoPeerRow
    <2>. QED BY <1>0, <1>1, <1>3, <1>4, <1>5, <2>1, <2>2 DEF SureCall, Match
<1>14. TidyCall(r)'
    <2>1. Wrote(r)'
        BY <1>1, <1>3, <1>4, <1>5 DEF Wrote, WroteCreate, WroteRenewal, WroteUpdate, WroteBox
    <2>. QED BY <1>5, <1>6, <1>9, <2>1 DEF TidyCall
<1>15. \A k \in PeerCalls \ {r} : CallKnown(k)' /\ AloneCall(k)' /\ SureCall(k)' /\ TidyCall(k)'
    <2>1. issued.id <= issued'.id /\ issued'.id \in Nat
        BY <1>0, <1>2 DEF id
    <2>. QED BY <1>0, <1>3, <2>1, EnteredOthers
<1>16. \A k \in PeerCalls : CallKnown(k)' /\ AloneCall(k)' /\ SureCall(k)' /\ TidyCall(k)'
    BY <1>12, <1>13, <1>14, <1>15
<1>. QED BY <1>7, <1>8, <1>10, <1>11, <1>16 DEF PeerInv

-----------------------------------------------------------------------------
(* The row is read.                                                        *)

\* The world has not moved, only the call.
LEMMA WorldKept ==
    ASSUME PeerInv, UNCHANGED <<peerRow, disk, box, issued, hist>>
    PROVE  /\ RowKnown' /\ (Match <=> Match') /\ (Agree <=> Agree')
           /\ \A r \in PeerCalls, e \in CallRecord : Become(r, e) => PeerTypeOK'
<1>1. RowKnown' /\ (Match <=> Match')
    BY DEF PeerInv, RowKnown, Match
<1>2. Agree <=> Agree'
    BY DEF Agree, SameCert, Files, BoxCfg, BoxFiles
<1>3. \A r \in PeerCalls, e \in CallRecord : Become(r, e) => PeerTypeOK'
    BY CallsTyped, PeerTypes DEF PeerInv, Typed
<1>. QED BY <1>1, <1>2, <1>3

LEMMA ReadRowInv ==
    ASSUME PeerInv, NEW r \in PeerCalls, ReadRow(r)
    PROVE  PeerInv'
<1>. DEFINE x    == peerCall[r]
            copy == IF x.op = "update" THEN [x EXCEPT !.deployed = peerRow.deployed, !.cert = peerRow.cert]
                    ELSE [x EXCEPT !.deployed = peerRow.deployed, !.cfg = peerRow.cfg]
<1>0. Step(r) = "read" /\ UNCHANGED <<peerRow, disk, box, issued, hist>>
    BY DEF ReadRow
<1>1. /\ Working(r) /\ x \in CallRecord /\ x.op \in Ops /\ <<x.op, "read", Behind(x)>> \in Follows
      /\ x.at \in 1..Len(Script[x.op]) /\ ~Owner(r)
    <2>1. Working(r) /\ x \in CallRecord /\ x.op \in Ops /\ <<x.op, "read", Behind(x)>> \in Follows
          /\ x.at \in 1..Len(Script[x.op])
        BY <1>0, StepIs, PeerTyped DEF PeerInv
    <2>. QED BY <1>0, <2>1 DEF Owner, Follows
<1>2. CASE ~Has(r)
    <2>1. GiveUp(r)
        BY <1>2 DEF ReadRow
    <2>. QED BY <1>0, <1>1, <1>2, <2>1, LostRow
<1>3. CASE Has(r) /\ x.op = "update" /\ ~peerRow.deployed
    <2>1. Become(r, NoPeerCall)
        BY <1>3 DEF ReadRow, GiveUp
    <2>2. Served'
        BY <1>0, <1>1, <2>1, NoCallTyped, ServedKept
    <2>3. hist.tidy => Agree
        <3>1. Rewrites(r)
            BY <1>3, RewritesIs
        <3>. QED BY <1>0, <1>3, <3>1, WroteNow DEF Wrote, WroteUpdate
    <2>4. TidyRest'
        BY <1>0, <1>1, <2>1, <2>3, NoCallTyped, WorldKept, RestThen
    <2>5. hist.sure => Match
        BY <1>0, <1>1 DEF PeerInv, SureCall
    <2>. QED BY <1>0, <1>1, <2>1, <2>2, <2>4, <2>5, NoCallTyped, WorldKept, PeerCallEnds
<1>4. CASE Has(r) /\ ~(x.op = "update" /\ ~peerRow.deployed)
    <2>1. /\ copy \in CallRecord /\ copy.op = x.op /\ copy.at = x.at /\ copy.id = x.id /\ copy.alone = x.alone
          /\ x.op = "update" => copy.cert = peerRow.cert
          /\ x.op # "update" => copy.cfg = peerRow.cfg
        <3>1. peerRow \in RowRecord
            BY PeerTypes DEF PeerInv, Typed
        <3>2. CASE x.op = "update"
            <4>. DEFINE d == [x EXCEPT !.deployed = peerRow.deployed]
            <4>1. copy = [d EXCEPT !.cert = peerRow.cert]
                BY <3>2
            <4>2. d \in CallRecord /\ d.op = x.op /\ d.at = x.at /\ d.id = x.id /\ d.alone = x.alone
                BY <1>1, <3>1 DEF CallRecord, RowRecord
            <4>. HIDE DEF d
            <4>. QED BY <3>1, <3>2, <4>1, <4>2 DEF CallRecord, RowRecord
        <3>3. CASE x.op # "update"
            <4>. DEFINE d == [x EXCEPT !.deployed = peerRow.deployed]
            <4>1. copy = [d EXCEPT !.cfg = peerRow.cfg]
                BY <3>3
            <4>2. d \in CallRecord /\ d.op = x.op /\ d.at = x.at /\ d.id = x.id /\ d.alone = x.alone
                BY <1>1, <3>1 DEF CallRecord, RowRecord
            <4>. HIDE DEF d
            <4>. QED BY <3>1, <3>3, <4>1, <4>2 DEF CallRecord, RowRecord
        <3>. QED BY <3>2, <3>3
    <2>2. IF x.op = "delete" /\ ToHalt(peerRow.status) THEN Become(r, [copy EXCEPT !.op = "halt"])
          ELSE Proceed(r, copy)
        BY <1>4 DEF ReadRow
    <2>. HIDE DEF copy
    <2>3. PICK e \in CallRecord :
              /\ Become(r, e) /\ e.op # "none" /\ e.id = x.id /\ e.alone = x.alone /\ e.cfg = copy.cfg
              /\ e.cert = copy.cert /\ e.at \in 0..Len(Script[e.op]) /\ (Rewriting(e.op) => Rewrites(r))
              /\ \/ e.op = "halt" /\ StepOf(e) = "read"
                 \/ e.op \in {"start", "stop", "halt", "renew"} /\ e.op = x.op /\ StepOf(e) = "mark"
                 \/ e.op = "delete" /\ StepOf(e) = "cleanup" /\ ~ToHalt(peerRow.status)
                 \/ e.op = "update" /\ e.op = x.op /\ StepOf(e) = "config"
        <3>1. CASE x.op = "delete" /\ ToHalt(peerRow.status)
            <4>. DEFINE e == [copy EXCEPT !.op = "halt"]
            <4>1. x.at = 1
                BY <1>0, <1>1, StepIs, ScriptTable
            <4>2. /\ e \in CallRecord /\ e.op = "halt" /\ e.at = 1 /\ e.id = x.id /\ e.alone = x.alone
                  /\ e.cfg = copy.cfg /\ e.cert = copy.cert
                BY <2>1, <4>1 DEF CallRecord, Ops
            <4>3. Become(r, e)
                BY <2>2, <3>1
            <4>. HIDE DEF e
            <4>4. StepOf(e) = "read" /\ e.at \in 0..Len(Script[e.op])
                BY <4>2, ScriptStarts DEF StepOf
            <4>. QED BY <3>1, <4>2, <4>3, <4>4, RewritesIs
        <3>2. CASE ~(x.op = "delete" /\ ToHalt(peerRow.status))
            <4>1. PICK e \in CallRecord :
                      /\ Become(r, e)
                      /\ \/ e = NoPeerCall /\ Behind(x) = "end"
                         \/ /\ e.op = copy.op /\ e.id = copy.id /\ e.cfg = copy.cfg /\ e.cert = copy.cert
                            /\ e.alone = copy.alone /\ e.at \in 1..Len(Script[copy.op]) /\ StepOf(e) = Behind(x)
                BY <1>0, <2>1, <2>2, <3>2, GoesOn
            <4>2. \/ x.op \in {"start", "stop", "halt", "renew"} /\ Behind(x) = "mark"
                  \/ x.op = "delete" /\ Behind(x) = "cleanup"
                  \/ x.op = "update" /\ Behind(x) = "config"
                BY <1>1 DEF Follows
            <4>3. Rewriting(x.op) => Rewrites(r)
                BY <1>1 DEF Rewrites
            <4>. QED BY <2>1, <3>2, <4>1, <4>2, <4>3
        <3>. QED BY <3>1, <3>2
    <2>4. peerCall'[r] = e /\ Step(r)' = StepOf(e)
        BY <2>3, PeerMoved, StepThen DEF PeerInv
    <2>5. Served'
        BY <1>0, <1>1, <2>3, ServedKept
    <2>6. TidyRest'
        <3>1. hist.tidy /\ peerRow.id # 0 /\ ~Rewriting(e.op) => Agree
            <4>1. ~Rewriting(e.op) => ~Rewrites(r)
                BY <2>3, RewritesIs DEF Rewriting
            <4>. QED BY <1>1, <4>1, RestNow
        <3>2. e.op # "restart" /\ (e.op = "start" => e.cfg = peerRow.cfg)
            BY <2>1, <2>3
        <3>. QED BY <1>0, <1>1, <2>3, <3>1, <3>2, WorldKept, RestThen
    <2>7. TidyCall(r)'
        <3>1. ASSUME hist.tidy, Rewriting(e.op) PROVE Wrote(r)'
            <4>1. Wrote(r)
                BY <2>3, <3>1, WroteNow
            <4>2. e.op \in {"halt", "delete", "renew", "update"}
                BY <2>3, <3>1 DEF Rewriting
            <4>3. CASE e.op \in {"halt", "delete"}
                BY <2>4, <4>3 DEF Wrote, WroteCreate, WroteRenewal, WroteUpdate, WroteBox
            <4>4. CASE e.op = "renew"
                <5>1. Agree /\ e.cfg = peerRow.cfg /\ StepOf(e) = "mark"
                    BY <1>0, <2>1, <2>3, <4>1, <4>4 DEF Wrote, WroteRenewal
                <5>. QED BY <1>0, <2>4, <4>4, <5>1
                         DEF Wrote, WroteCreate, WroteRenewal, WroteUpdate, WroteBox, Agree, Files
            <4>5. CASE e.op = "update"
                <5>1. Agree /\ e.cert = peerRow.cert /\ StepOf(e) = "config"
                    BY <1>0, <2>1, <2>3, <4>1, <4>5 DEF Wrote, WroteUpdate
                <5>. QED BY <1>0, <2>4, <4>5, <5>1
                         DEF Wrote, WroteCreate, WroteRenewal, WroteUpdate, WroteBox, Agree, Files, SameCert
            <4>. QED BY <4>2, <4>3, <4>4, <4>5
        <3>. QED BY <1>0, <1>1, <2>3, <3>1, TidyThen
    <2>8. hist.sure => e.alone /\ Match
        BY <1>0, <1>1, <2>3 DEF PeerInv, SureCall
    <2>9. hist.sure /\ StepOf(e) = "cleanup" => peerRow.status # "RUNNING" /\ box.state # "up"
        BY <2>3, <2>8 DEF Match, ToHalt
    <2>. QED BY <1>0, <1>1, <2>3, <2>5, <2>6, <2>7, <2>8, <2>9, WorldKept, PeerCallGoes
<1>. QED BY <1>2, <1>3, <1>4

-----------------------------------------------------------------------------
(* A step that keeps the row and goes on, or ends there.                   *)

LEMMA StepGoes ==
    ASSUME PeerInv, NEW r \in PeerCalls, Working(r), NEW e \in CallRecord, Become(r, e),
           \/ e = NoPeerCall
           \/ /\ e.op # "none" /\ e.id = peerCall[r].id /\ e.at \in 1..Len(Script[e.op])
              /\ e.alone => peerCall[r].alone
              /\ Rewriting(e.op) => Rewrites(r),
           peerRow' \in RowRecord, disk' \in DiskRecord, box' \in BoxRecord,
           issued' \in IssuedRecord, hist' \in HistRecord,
           peerRow'.id = peerRow.id, issued'.id = issued.id, Has(r) \/ peerRow' = peerRow,
           hist'.sure => hist.sure \/ peerCall[r].alone, hist'.tidy => hist.tidy,
           \/ peerRow'.status \notin InBetween
           \/ hist'.left
           \/ Owner(r)'
           \/ peerRow'.status = peerRow.status /\ hist'.left = hist.left /\ (Owner(r) => Owner(r)'),
           Rewrites(r) \/ peerRow'.cfg = peerRow.cfg,
           hist'.tidy /\ peerRow'.id # 0 /\ ~(e.op # "none" /\ Rewriting(e.op)) =>
               /\ Agree'
               /\ e.op = "restart" \/ (e.op = "start" /\ StepOf(e) # "read") => e.cfg = peerRow'.cfg,
           hist'.tidy /\ e.op # "none" /\ Rewriting(e.op) => StepOf(e) # "failed" /\ Wrote(r)',
           e = NoPeerCall /\ hist'.sure => Match',
           e # NoPeerCall /\ e.alone =>
               /\ StepOf(e) = "done" /\ e.op \in {"stop", "halt"} => box'.state # "up"
               /\ StepOf(e) \in {"done", "persist"} /\ e.op \notin {"stop", "halt"} => box'.state = "up",
           e # NoPeerCall /\ hist'.sure =>
               /\ e.alone
               /\ \/ StepOf(e) \in {"read", "probe", "config", "deploy", "sync"}
                  \/ e.op \in {"restart", "update"} /\ StepOf(e) = "down"
                  => Match'
               /\ e.op = "update" /\ StepOf(e) \in {"box", "run"} => box'.state # "up"
               /\ StepOf(e) \in {"init", "cleanup", "row"} => peerRow'.status # "RUNNING" /\ box'.state # "up"
    PROVE  PeerInv'
<1>1. PeerTypeOK'
    BY CallsTyped DEF PeerInv
<1>2. RowKnown'
    <2>1. peerRow.id <= issued.id /\ (peerRow.id = 0 => peerRow' = peerRow) /\ (peerRow.id = 0 => peerRow = NoPeerRow)
        BY DEF PeerInv, RowKnown, Has
    <2>. QED BY <2>1 DEF RowKnown
<1>3. Served'
    BY ServedKept
<1>4. TidyRest'
    BY RestThen
<1>5. CASE e = NoPeerCall
    BY <1>1, <1>2, <1>3, <1>4, <1>5, PeerCallEnds
<1>6. CASE e # NoPeerCall
    <2>1. TidyCall(r)'
        BY <1>6, TidyThen
    <2>2. e.at \in 0..Len(Script[e.op]) /\ (hist'.sure => e.alone)
        BY <1>6
    <2>. QED BY <1>1, <1>2, <1>3, <1>4, <1>6, <2>1, <2>2, PeerCallGoes
<1>. QED BY <1>5, <1>6

\* What Proceed makes of a call c that is r's but for what it knows.
Onward(r, c, e) ==
    /\ Become(r, e)
    /\ \/ e = NoPeerCall /\ Behind(peerCall[r]) = "end"
       \/ /\ e # NoPeerCall /\ Behind(peerCall[r]) # "end"
          /\ e.op = peerCall[r].op /\ e.op # "none" /\ e.id = peerCall[r].id
          /\ e.cfg = c.cfg /\ e.deployed = c.deployed /\ e.cert = c.cert /\ e.alone = c.alone
          /\ e.at \in 1..Len(Script[e.op]) /\ StepOf(e) = Behind(peerCall[r])
          /\ StepOf(e) \notin {"failed", "read"}
          /\ Rewriting(e.op) <=> Rewrites(r)
          /\ peerCall'[r] = e /\ Step(r)' = StepOf(e)

LEMMA GoesTo ==
    ASSUME PeerInv, NEW r \in PeerCalls, Step(r) \notin {"idle", "failed"}, NEW c \in CallRecord,
           c.op = peerCall[r].op, c.at = peerCall[r].at, c.id = peerCall[r].id, Proceed(r, c)
    PROVE  \E e \in CallRecord : Onward(r, c, e)
<1>1. PICK e \in CallRecord :
          /\ Become(r, e)
          /\ \/ e = NoPeerCall /\ Behind(peerCall[r]) = "end"
             \/ /\ e.op = c.op /\ e.id = c.id /\ e.cfg = c.cfg /\ e.deployed = c.deployed
                /\ e.cert = c.cert /\ e.alone = c.alone
                /\ e.at \in 1..Len(Script[c.op]) /\ StepOf(e) = Behind(peerCall[r])
    BY GoesOn
<1>2. Working(r) /\ peerCall[r].op \in Ops /\ <<peerCall[r].op, Step(r), Behind(peerCall[r])>> \in Follows
    BY StepIs
<1>3. peerCall'[r] = e /\ Step(r)' = StepOf(e)
    BY <1>1, PeerMoved, StepThen DEF PeerInv
<1>4. CASE e = NoPeerCall /\ Behind(peerCall[r]) = "end"
    BY <1>1, <1>4 DEF Onward
<1>5. CASE ~(e = NoPeerCall /\ Behind(peerCall[r]) = "end")
    <2>1. e.op = peerCall[r].op /\ e.op \in Ops /\ e.op # "none" /\ e.at \in 1..Len(Script[e.op])
          /\ StepOf(e) = Behind(peerCall[r])
        BY <1>1, <1>2, <1>5 DEF Working
    <2>2. Behind(peerCall[r]) \notin {"failed", "read"}
        BY <1>2 DEF Follows
    <2>3. StepOf(e) # "end"
        <3>1. StepOf(e) = Script[e.op][e.at]
            BY <2>1 DEF StepOf
        <3>2. <<e.op, Script[e.op][e.at], IF e.at < Len(Script[e.op]) THEN Script[e.op][e.at + 1] ELSE "end">> \in Follows
            BY <2>1, ScriptTable
        <3>. QED BY <3>1, <3>2 DEF Follows
    <2>4. e # NoPeerCall
        BY <2>1, NoCallTyped
    <2>5. Rewriting(e.op) <=> Rewrites(r)
        BY <1>2, <2>1 DEF Rewrites
    <2>. QED BY <1>1, <1>3, <1>5, <2>1, <2>2, <2>3, <2>4, <2>5 DEF Onward
<1>. QED BY <1>4, <1>5

\* The call itself is one that r can go on with.
LEMMA GoesToItself ==
    ASSUME PeerInv, NEW r \in PeerCalls, Step(r) \notin {"idle", "failed"}, Proceed(r, peerCall[r])
    PROVE  \E e \in CallRecord : Onward(r, peerCall[r], e)
BY GoesTo, PeerTyped DEF PeerInv

-----------------------------------------------------------------------------
(* Files and rows are written.                                             *)

LEMMA InitializeInv ==
    ASSUME PeerInv, NEW r \in PeerCalls, Initialize(r)
    PROVE  PeerInv'
<1>. DEFINE x    == peerCall[r]
            cert == issued.cert + 1
            made == [dir |-> TRUE, core |-> x.cfg, cert |-> cert]
<1>0. /\ Step(r) = "init" /\ cert <= MaxCerts /\ issued' = [issued EXCEPT !.cert = cert]
      /\ \/ disk' = made /\ Proceed(r, [x EXCEPT !.cert = cert])
         \/ disk' \in {disk, made} /\ Become(r, [x EXCEPT !.op = "delete", !.at = 3])
      /\ UNCHANGED <<peerRow, box, hist>>
    BY DEF Initialize
<1>1. /\ Working(r) /\ x \in CallRecord /\ x.op = "create" /\ Behind(x) = "deploy" /\ Rewrites(r)
    <2>1. Working(r) /\ x \in CallRecord /\ <<x.op, "init", Behind(x)>> \in Follows
        BY <1>0, StepIs, PeerTyped DEF PeerInv
    <2>. QED BY <2>1, RewritesIs DEF Follows
<1>2. issued \in IssuedRecord /\ cert \in 0..MaxCerts
    BY <1>0, PeerTypes, PeerAssumption DEF PeerAssumption, PeerInv, Typed, IssuedRecord
<1>3. issued' \in IssuedRecord /\ issued'.cert = cert /\ issued'.id = issued.id
    BY <1>0, <1>2 DEF IssuedRecord
<1>4. disk' \in DiskRecord
    <2>1. made \in DiskRecord
        BY <1>1, <1>2 DEF DiskRecord, CallRecord
    <2>. QED BY <1>0, <2>1, PeerTypes DEF PeerInv, Typed
<1>5. RowKnown'
    BY <1>0, <1>3 DEF PeerInv, RowKnown
<1>6. hist.sure => x.alone /\ peerRow.status # "RUNNING" /\ box.state # "up"
    BY <1>0, <1>1 DEF PeerInv, SureCall
<1>7. ASSUME NEW e \in CallRecord, Become(r, e), e.op # "none", e.id = x.id, e.alone = x.alone,
             e.at \in 0..Len(Script[e.op]),
             \/ e.op = "create" /\ StepOf(e) = "deploy" /\ e.cfg = x.cfg /\ e.cert = cert /\ disk' = made
             \/ e.op = "delete" /\ StepOf(e) = "row"
      PROVE  PeerInv'
    <2>1. peerCall'[r] = e /\ Step(r)' = StepOf(e)
        BY <1>7, PeerMoved, StepThen DEF PeerInv
    <2>2. PeerTypeOK'
        BY <1>0, <1>3, <1>4, <1>7, CallsTyped, PeerTypes DEF PeerInv, Typed
    <2>3. Served'
        <3>1. Owner(r) => Owner(r)'
            BY <1>0, <1>7, <2>1 DEF Owner, Has, Working
        <3>. QED BY <1>0, <1>7, <3>1, ServedKept
    <2>4. TidyRest'
        BY <1>0, <1>1, <1>7, RestThen DEF Rewriting
    <2>5. TidyCall(r)'
        <3>1. ASSUME hist.tidy PROVE Wrote(r)'
            <4>1. x.cfg = peerRow.cfg
                BY <1>1, <3>1, WroteNow DEF Wrote, WroteCreate
            <4>. QED BY <1>0, <1>3, <1>7, <2>1, <4>1
                     DEF Wrote, WroteCreate, WroteRenewal, WroteUpdate, WroteBox, Files
        <3>. QED BY <1>0, <1>1, <1>7, <3>1, TidyThen
    <2>6. hist'.sure => x.alone /\ peerRow'.status # "RUNNING" /\ box'.state # "up" /\ Match'
        BY <1>0, <1>6 DEF Match
    <2>. QED BY <1>0, <1>1, <1>3, <1>5, <1>7, <2>2, <2>3, <2>4, <2>5, <2>6, PeerCallGoes
<1>8. CASE disk' = made /\ Proceed(r, [x EXCEPT !.cert = cert])
    <2>. DEFINE d == [x EXCEPT !.cert = cert]
    <2>1. d \in CallRecord /\ d.op = x.op /\ d.at = x.at /\ d.id = x.id /\ d.cfg = x.cfg /\ d.cert = cert
          /\ d.alone = x.alone
        BY <1>1, <1>2 DEF CallRecord
    <2>2. Proceed(r, d)
        BY <1>8
    <2>. HIDE DEF d
    <2>3. PICK e \in CallRecord :
              /\ Become(r, e)
              /\ \/ e = NoPeerCall /\ Behind(x) = "end"
                 \/ /\ e.op = d.op /\ e.id = d.id /\ e.cfg = d.cfg /\ e.cert = d.cert /\ e.alone = d.alone
                    /\ e.at \in 1..Len(Script[d.op]) /\ StepOf(e) = Behind(x)
        BY <1>0, <2>1, <2>2, GoesOn
    <2>. QED BY <1>1, <1>7, <1>8, <2>1, <2>3
<1>9. CASE disk' \in {disk, made} /\ Become(r, [x EXCEPT !.op = "delete", !.at = 3])
    <2>. DEFINE d == [x EXCEPT !.op = "delete"]
                e == [d EXCEPT !.at = 3]
    <2>1. d \in CallRecord /\ d.op = "delete" /\ d.id = x.id /\ d.alone = x.alone
        BY <1>1 DEF CallRecord, Ops
    <2>2. Become(r, e)
        BY <1>9
    <2>. HIDE DEF d
    <2>3. e \in CallRecord /\ e.op = "delete" /\ e.at = 3 /\ e.id = x.id /\ e.alone = x.alone
        BY <2>1 DEF CallRecord
    <2>. HIDE DEF e
    <2>4. StepOf(e) = "row" /\ e.at \in 0..Len(Script[e.op])
        BY <2>3, ScriptStarts DEF StepOf
    <2>. QED BY <1>7, <2>2, <2>3, <2>4
<1>. QED BY <1>0, <1>8, <1>9

LEMMA WriteDeploymentInv ==
    ASSUME PeerInv, NEW r \in PeerCalls, WriteDeployment(r)
    PROVE  PeerInv'
<1>. DEFINE x == peerCall[r]
            c == [x EXCEPT !.deployed = TRUE]
<1>0. Step(r) = "deploy" /\ UNCHANGED <<disk, box, issued>>
    BY DEF WriteDeployment
<1>1. /\ Working(r) /\ x \in CallRecord /\ Rewrites(r)
      /\ \/ x.op = "create" /\ Behind(x) = "mark"
         \/ x.op = "update" /\ Behind(x) = "sync"
    <2>1. Working(r) /\ x \in CallRecord /\ <<x.op, "deploy", Behind(x)>> \in Follows
        BY <1>0, StepIs, PeerTyped DEF PeerInv
    <2>. QED BY <2>1, RewritesIs DEF Follows
<1>2. CASE ~Has(r)
    <2>1. Become(r, NoPeerCall) /\ Untidy(r) /\ peerRow' = peerRow
        BY <1>2 DEF WriteDeployment
    <2>2. hist' \in HistRecord /\ hist'.left = hist.left /\ (hist'.tidy => hist.tidy) /\ (hist'.sure => hist.sure)
        BY <2>1, HistTyped DEF PeerInv
    <2>. QED BY <1>0, <1>1, <1>2, <2>1, <2>2, NoCallTyped, RowGone
<1>3. CASE Has(r)
    <2>1. peerRow' = [peerRow EXCEPT !.deployed = TRUE, !.cert = x.cert] /\ Proceed(r, c) /\ hist' = hist
        BY <1>3 DEF WriteDeployment
    <2>2. peerRow' \in RowRecord /\ peerRow'.id = peerRow.id /\ peerRow'.status = peerRow.status
          /\ peerRow'.cfg = peerRow.cfg /\ peerRow'.cert = x.cert
        <3>. DEFINE p == [peerRow EXCEPT !.deployed = TRUE]
        <3>1. p \in RowRecord /\ p.id = peerRow.id /\ p.status = peerRow.status /\ p.cfg = peerRow.cfg
            BY PeerTypes DEF PeerInv, Typed, RowRecord
        <3>2. peerRow' = [p EXCEPT !.cert = x.cert]
            BY <2>1
        <3>. HIDE DEF p
        <3>. QED BY <1>1, <3>1, <3>2 DEF RowRecord, CallRecord
    <2>3. c \in CallRecord /\ c.op = x.op /\ c.at = x.at /\ c.id = x.id /\ c.cfg = x.cfg /\ c.alone = x.alone
        BY <1>1 DEF CallRecord
    <2>. HIDE DEF c
    <2>4. PICK e \in CallRecord : Onward(r, c, e)
        BY <1>0, <2>1, <2>3, GoesTo
    <2>5. /\ Become(r, e) /\ e # NoPeerCall /\ e.op = x.op /\ e.id = x.id /\ e.cfg = x.cfg /\ e.alone = x.alone
          /\ e.op # "none" /\ e.at \in 1..Len(Script[e.op]) /\ StepOf(e) = Behind(x) /\ Rewriting(e.op)
          /\ peerCall'[r] = e /\ Step(r)' = StepOf(e)
        BY <1>1, <2>3, <2>4 DEF Onward
    <2>6. Owner(r) => Owner(r)'
        BY <1>0, <1>1, <2>2, <2>5 DEF Owner, Has, Working
    <2>7. hist.tidy => Wrote(r)'
        <3>. SUFFICES ASSUME hist.tidy PROVE Wrote(r)'
            OBVIOUS
        <3>1. Wrote(r)
            BY <1>1, WroteNow
        <3>2. x.cert = issued.cert
            BY <1>0, <1>1, <3>1 DEF Wrote, WroteCreate, WroteUpdate
        <3>3. x.op = "create" => x.cfg = peerRow.cfg /\ Files
            BY <1>0, <1>1, <3>1 DEF Wrote, WroteCreate
        <3>4. x.op = "update" => disk.cert = issued.cert
            BY <1>0, <1>1, <3>1 DEF Wrote, WroteUpdate
        <3>. QED BY <1>0, <1>1, <2>2, <2>5, <3>2, <3>3, <3>4
                 DEF Wrote, WroteCreate, WroteRenewal, WroteUpdate, WroteBox, Files, SameCert
    <2>8. hist.sure => e.alone /\ Match'
        <3>1. hist.sure => Match
            BY <1>0, <1>1 DEF PeerInv, SureCall
        <3>2. peerRow'.status = peerRow.status /\ box' = box
            BY <1>0, <2>2
        <3>. QED BY <1>1, <2>5, <3>1, <3>2, Single DEF Match
    <2>. QED BY <1>0, <1>1, <1>3, <2>1, <2>2, <2>5, <2>6, <2>7, <2>8, PeerTypes, StepGoes DEF PeerInv, Typed
<1>. QED BY <1>2, <1>3

LEMMA WriteConfigInv ==
    ASSUME PeerInv, NEW r \in PeerCalls, WriteConfig(r)
    PROVE  PeerInv'
<1>. DEFINE x == peerCall[r]
<1>0. Step(r) = "config" /\ UNCHANGED <<disk, box, issued>>
    BY DEF WriteConfig
<1>1. Working(r) /\ x \in CallRecord /\ Rewrites(r) /\ x.op = "update" /\ Behind(x) = "deploy"
    <2>1. Working(r) /\ x \in CallRecord /\ <<x.op, "config", Behind(x)>> \in Follows
        BY <1>0, StepIs, PeerTyped DEF PeerInv
    <2>. QED BY <2>1, RewritesIs DEF Follows
<1>2. CASE ~Has(r)
    <2>1. GiveUp(r) /\ Untidy(r) /\ peerRow' = peerRow
        BY <1>2 DEF WriteConfig
    <2>. QED BY <1>0, <1>1, <1>2, <2>1, LostRow
<1>3. CASE Has(r)
    <2>1. peerRow' = [peerRow EXCEPT !.cfg = x.cfg] /\ Proceed(r, x) /\ hist' = hist
        BY <1>3 DEF WriteConfig
    <2>2. peerRow' \in RowRecord /\ peerRow'.id = peerRow.id /\ peerRow'.status = peerRow.status
          /\ peerRow'.cert = peerRow.cert
        BY <1>1, <2>1, PeerTypes DEF PeerInv, Typed, RowRecord, CallRecord
    <2>3. PICK e \in CallRecord : Onward(r, x, e)
        BY <1>0, <2>1, GoesToItself
    <2>4. /\ Become(r, e) /\ e # NoPeerCall /\ e.op = x.op /\ e.id = x.id /\ e.cert = x.cert /\ e.alone = x.alone
          /\ e.op # "none" /\ e.at \in 1..Len(Script[e.op]) /\ StepOf(e) = "deploy" /\ Rewriting(e.op)
          /\ peerCall'[r] = e /\ Step(r)' = StepOf(e)
        BY <1>1, <2>3 DEF Onward
    <2>5. ~Owner(r)
        BY <1>0, <1>1 DEF Owner
    <2>6. hist.tidy => Wrote(r)'
        <3>. SUFFICES ASSUME hist.tidy PROVE Wrote(r)'
            OBVIOUS
        <3>1. SameCert /\ disk.cert = issued.cert /\ x.cert = issued.cert
            BY <1>0, <1>1, WroteNow DEF Wrote, WroteUpdate
        <3>. QED BY <1>0, <1>1, <2>2, <2>4, <3>1
                 DEF Wrote, WroteCreate, WroteRenewal, WroteUpdate, WroteBox, SameCert
    <2>7. hist.sure => e.alone /\ Match'
        <3>1. hist.sure => Match
            BY <1>0, <1>1 DEF PeerInv, SureCall
        <3>2. peerRow'.status = peerRow.status /\ box' = box
            BY <1>0, <2>2
        <3>. QED BY <1>1, <2>4, <3>1, <3>2, Single DEF Match
    <2>. QED BY <1>0, <1>1, <1>3, <2>1, <2>2, <2>4, <2>5, <2>6, <2>7, PeerTypes, StepGoes DEF PeerInv, Typed
<1>. QED BY <1>2, <1>3

LEMMA MarkStatusInv ==
    ASSUME PeerInv, NEW r \in PeerCalls, MarkStatus(r)
    PROVE  PeerInv'
<1>. DEFINE x      == peerCall[r]
            status == CASE x.op \in {"stop", "halt"} -> "STOPPING" [] x.op = "renew" -> "UPDATING"
                        [] OTHER -> "STARTING"
            lost   == x.op = "renew" /\ ~x.deployed
<1>0. Step(r) = "mark" /\ UNCHANGED <<disk, box, issued>>
    BY DEF MarkStatus
<1>1. /\ Working(r) /\ x \in CallRecord
      /\ \/ x.op \in {"create", "restart", "start"} /\ Behind(x) = "box"
         \/ x.op \in {"stop", "halt"} /\ Behind(x) = "down"
         \/ x.op = "renew" /\ Behind(x) = "renew"
    <2>1. Working(r) /\ x \in CallRecord /\ <<x.op, "mark", Behind(x)>> \in Follows
        BY <1>0, StepIs, PeerTyped DEF PeerInv
    <2>. QED BY <2>1 DEF Follows
<1>2. CASE ~Has(r)
    <2>1. GiveUp(r) /\ Untidy(r) /\ peerRow' = peerRow
        BY <1>2 DEF MarkStatus
    <2>. QED BY <1>0, <1>1, <1>2, <2>1, LostRow
<1>3. CASE Has(r)
    <2>1. /\ peerRow' = [peerRow EXCEPT !.status = status]
          /\ IF lost THEN Become(r, NoPeerCall) ELSE Proceed(r, x)
          /\ hist' = [hist EXCEPT !.left = lost, !.tidy = @ /\ ~lost, !.sure = @ /\ ~lost]
        BY <1>3 DEF MarkStatus
    <2>3. peerRow' \in RowRecord /\ peerRow'.id = peerRow.id /\ peerRow'.cert = peerRow.cert
          /\ peerRow'.cfg = peerRow.cfg
        BY <2>1, PeerTypes DEF PeerInv, Typed, RowRecord, InBetween
    <2>4. /\ hist' \in HistRecord /\ hist'.left = lost /\ hist'.tidy = (hist.tidy /\ ~lost)
          /\ hist'.sure = (hist.sure /\ ~lost)
        <3>1. lost \in BOOLEAN
            BY <1>1 DEF CallRecord
        <3>2. hist \in HistRecord
            BY PeerTypes DEF PeerInv, Typed
        <3>. DEFINE h1 == [hist EXCEPT !.left = lost]
                    h2 == [h1 EXCEPT !.tidy = @ /\ ~lost]
        <3>3. hist' = [h2 EXCEPT !.sure = @ /\ ~lost]
            BY <2>1
        <3>. HIDE DEF lost
        <3>4. h1 \in HistRecord /\ h1.left = lost /\ h1.tidy = hist.tidy /\ h1.sure = hist.sure
            BY <3>1, <3>2 DEF HistRecord
        <3>. HIDE DEF h1
        <3>5. h2 \in HistRecord /\ h2.left = lost /\ h2.tidy = (hist.tidy /\ ~lost) /\ h2.sure = hist.sure
            BY <3>1, <3>4 DEF HistRecord
        <3>. HIDE DEF h2
        <3>. QED BY <3>1, <3>3, <3>5 DEF HistRecord
    <2>. HIDE DEF status
    <2>5. CASE lost
        <3>1. Become(r, NoPeerCall)
            BY <2>1, <2>5
        <3>. HIDE DEF lost
        <3>. QED BY <1>0, <1>1, <1>3, <2>3, <2>4, <2>5, <3>1, NoCallTyped, PeerTypes, StepGoes DEF PeerInv, Typed
    <2>6. CASE ~lost
        <3>0. PICK e \in CallRecord : Onward(r, x, e)
            BY <1>0, <2>1, <2>6, GoesToItself
        <3>. HIDE DEF lost
        <3>1. /\ Become(r, e) /\ e # NoPeerCall /\ e.op = x.op /\ e.id = x.id /\ e.cfg = x.cfg /\ e.alone = x.alone
              /\ e.op # "none" /\ e.at \in 1..Len(Script[e.op]) /\ StepOf(e) = Behind(x)
              /\ (Rewriting(e.op) <=> Rewrites(r)) /\ peerCall'[r] = e /\ Step(r)' = StepOf(e)
            BY <1>1, <3>0 DEF Onward
        <3>2. Owner(r)'
            BY <1>1, <1>3, <2>3, <3>1 DEF Owner, Has, Working
        <3>3. hist.tidy /\ peerRow'.id # 0 /\ ~Rewriting(e.op) =>
                  Agree' /\ (e.op = "restart" \/ e.op = "start" => e.cfg = peerRow'.cfg)
            <4>1. hist.tidy /\ peerRow'.id # 0 /\ ~Rewriting(e.op) =>
                      Agree /\ (x.op = "restart" \/ x.op = "start" => x.cfg = peerRow.cfg)
                BY <1>0, <1>1, <2>3, <3>1, RestNow
            <4>2. Agree => Agree'
                BY <1>0, <2>3 DEF Agree, SameCert, Files, BoxCfg, BoxFiles
            <4>. QED BY <2>3, <3>1, <4>1, <4>2
        <3>4. hist.tidy /\ Rewriting(e.op) => Wrote(r)'
            <4>. SUFFICES ASSUME hist.tidy, Rewriting(e.op) PROVE Wrote(r)'
                OBVIOUS
            <4>1. Wrote(r)
                BY <3>1, WroteNow
            <4>2. x.op = "create" => x.cfg = peerRow.cfg /\ Files /\ SameCert
                BY <1>0, <4>1 DEF Wrote, WroteCreate
            <4>3. x.op = "renew" => x.cfg = peerRow.cfg /\ disk.core = peerRow.cfg
                BY <1>0, <4>1 DEF Wrote, WroteRenewal
            <4>4. WroteCreate(r)' /\ WroteRenewal(r)'
                BY <1>0, <1>1, <2>3, <3>1, <4>2, <4>3 DEF WroteCreate, WroteRenewal, Files, SameCert
            <4>5. WroteUpdate(r)' /\ WroteBox(r)'
                BY <1>0, <1>1, <2>3, <3>1 DEF WroteUpdate, WroteBox
            <4>. QED BY <4>4, <4>5 DEF Wrote
        <3>5. hist.sure => e.alone
            BY <1>1, <3>1, Single
        <3>. QED BY <1>0, <1>1, <1>3, <2>3, <2>4, <2>6, <3>1, <3>2, <3>3, <3>4, <3>5, PeerTypes, StepGoes
                 DEF PeerInv, Typed
    <2>. QED BY <2>5, <2>6
<1>. QED BY <1>2, <1>3

LEMMA RenewCertificatesInv ==
    ASSUME PeerInv, NEW r \in PeerCalls, RenewCertificates(r)
    PROVE  PeerInv'
<1>. DEFINE x    == peerCall[r]
            cert == issued.cert + 1
<1>0. Step(r) = "renew" /\ UNCHANGED <<peerRow, box>>
    BY DEF RenewCertificates
<1>1. Working(r) /\ x \in CallRecord /\ Rewrites(r) /\ x.op = "renew" /\ Behind(x) = "down"
    <2>1. Working(r) /\ x \in CallRecord /\ <<x.op, "renew", Behind(x)>> \in Follows
        BY <1>0, StepIs, PeerTyped DEF PeerInv
    <2>. QED BY <2>1, RewritesIs DEF Follows
<1>2. issued \in IssuedRecord /\ disk \in DiskRecord /\ (cert <= MaxCerts => cert \in 0..MaxCerts)
    BY PeerTypes, PeerAssumption DEF PeerAssumption, PeerInv, Typed, IssuedRecord
<1>3. [issued EXCEPT !.cert = cert].id = issued.id
      /\ (cert <= MaxCerts => [issued EXCEPT !.cert = cert] \in IssuedRecord)
    BY <1>2 DEF IssuedRecord
<1>4. CASE /\ cert <= MaxCerts /\ disk.dir
           /\ issued' = [issued EXCEPT !.cert = cert]
           /\ disk' = [disk EXCEPT !.cert = cert]
           /\ Proceed(r, x) /\ UNCHANGED hist
    <2>1. issued' \in IssuedRecord /\ issued'.id = issued.id /\ issued'.cert = cert
        BY <1>2, <1>4 DEF IssuedRecord
    <2>2. disk' \in DiskRecord /\ disk'.core = disk.core /\ disk'.cert = cert
        BY <1>2, <1>4 DEF DiskRecord
    <2>3. PICK e \in CallRecord : Onward(r, x, e)
        BY <1>0, <1>4, GoesToItself
    <2>4. /\ Become(r, e) /\ e # NoPeerCall /\ e.op = x.op /\ e.id = x.id /\ e.cfg = x.cfg /\ e.alone = x.alone
          /\ e.op # "none" /\ e.at \in 1..Len(Script[e.op]) /\ StepOf(e) = "down" /\ Rewriting(e.op)
          /\ peerCall'[r] = e /\ Step(r)' = StepOf(e)
        BY <1>1, <2>3 DEF Onward
    <2>5. Owner(r) => Owner(r)'
        BY <1>0, <1>1, <2>4 DEF Owner, Has, Working
    <2>6. hist.tidy => Wrote(r)'
        <3>. SUFFICES ASSUME hist.tidy PROVE Wrote(r)'
            OBVIOUS
        <3>1. x.cfg = peerRow.cfg /\ disk.core = peerRow.cfg
            BY <1>0, <1>1, WroteNow DEF Wrote, WroteRenewal
        <3>. QED BY <1>0, <1>1, <2>1, <2>2, <2>4, <3>1
                 DEF Wrote, WroteCreate, WroteRenewal, WroteUpdate, WroteBox, Files
    <2>7. hist.sure => e.alone
        BY <1>1, <2>4, Single
    <2>. QED BY <1>0, <1>1, <1>4, <2>1, <2>2, <2>4, <2>5, <2>6, <2>7, PeerTypes, StepGoes DEF PeerInv, Typed
<1>5. CASE /\ issued' \in {issued} \cup (IF cert <= MaxCerts THEN {[issued EXCEPT !.cert = cert]} ELSE {})
           /\ Fail(r) /\ UNCHANGED disk
    <2>1. issued' \in IssuedRecord /\ issued'.id = issued.id
        BY <1>2, <1>3, <1>5
    <2>. QED BY <1>0, <1>5, <2>1, FailKeeps
<1>. QED BY <1>4, <1>5 DEF RenewCertificates

LEMMA SynchronizeInv ==
    ASSUME PeerInv, NEW r \in PeerCalls, Synchronize(r)
    PROVE  PeerInv'
<1>. DEFINE x == peerCall[r]
            c == [x EXCEPT !.cfg = peerRow.cfg]
<1>0. Step(r) = "sync" /\ UNCHANGED <<peerRow, box, issued>>
    BY DEF Synchronize
<1>1. Working(r) /\ x \in CallRecord /\ Rewrites(r) /\ x.op = "update" /\ Behind(x) = "down" /\ ~Owner(r)
    <2>1. Working(r) /\ x \in CallRecord /\ <<x.op, "sync", Behind(x)>> \in Follows
        BY <1>0, StepIs, PeerTyped DEF PeerInv
    <2>. QED BY <1>0, <2>1, RewritesIs DEF Follows, Owner
<1>2. CASE ~(Has(r) /\ disk.dir)
    <2>1. GiveUp(r) /\ Untidy(r) /\ disk' = disk
        BY <1>2 DEF Synchronize
    <2>2. Become(r, NoPeerCall)
        BY <1>1, <2>1 DEF GiveUp
    <2>3. hist' \in HistRecord /\ hist'.left = hist.left /\ ~hist'.tidy /\ (hist'.sure => hist.sure)
        BY <1>1, <2>1, HistTyped DEF PeerInv, Rewriting
    <2>4. hist'.sure => Match'
        <3>1. hist.sure => Match
            BY <1>0, <1>1 DEF PeerInv, SureCall
        <3>. QED BY <1>0, <2>3, <3>1 DEF Match
    <2>. QED BY <1>0, <1>1, <2>1, <2>2, <2>3, <2>4, NoCallTyped, PeerTypes, StepGoes DEF PeerInv, Typed
<1>3. CASE Has(r) /\ disk.dir
    <2>1. disk' = [disk EXCEPT !.core = peerRow.cfg] /\ Proceed(r, c) /\ hist' = hist
        BY <1>3 DEF Synchronize
    <2>2. peerRow \in RowRecord /\ disk \in DiskRecord
        BY PeerTypes DEF PeerInv, Typed
    <2>3. disk' \in DiskRecord /\ disk'.core = peerRow.cfg /\ disk'.cert = disk.cert
        BY <2>1, <2>2 DEF RowRecord, DiskRecord
    <2>4. c \in CallRecord /\ c.op = x.op /\ c.at = x.at /\ c.id = x.id /\ c.cfg = peerRow.cfg /\ c.alone = x.alone
        BY <1>1, <2>2 DEF CallRecord, RowRecord
    <2>. HIDE DEF c
    <2>5. PICK e \in CallRecord : Onward(r, c, e)
        BY <1>0, <2>1, <2>4, GoesTo
    <2>6. /\ Become(r, e) /\ e # NoPeerCall /\ e.op = x.op /\ e.id = x.id /\ e.cfg = peerRow.cfg /\ e.alone = x.alone
          /\ e.op # "none" /\ e.at \in 1..Len(Script[e.op]) /\ StepOf(e) = "down" /\ Rewriting(e.op)
          /\ peerCall'[r] = e /\ Step(r)' = StepOf(e)
        BY <1>1, <2>4, <2>5 DEF Onward
    <2>7. hist.tidy => Wrote(r)'
        <3>. SUFFICES ASSUME hist.tidy PROVE Wrote(r)'
            OBVIOUS
        <3>1. SameCert /\ disk.cert = issued.cert
            BY <1>0, <1>1, WroteNow DEF Wrote, WroteUpdate
        <3>. QED BY <1>0, <1>1, <2>3, <2>6, <3>1
                 DEF Wrote, WroteCreate, WroteRenewal, WroteUpdate, WroteBox, Files, SameCert
    <2>8. hist.sure => e.alone /\ Match'
        <3>1. hist.sure => Match
            BY <1>0, <1>1 DEF PeerInv, SureCall
        <3>. QED BY <1>0, <1>1, <2>6, <3>1, Single DEF Match
    <2>. QED BY <1>0, <1>1, <1>3, <2>1, <2>3, <2>6, <2>7, <2>8, PeerTypes, StepGoes DEF PeerInv, Typed
<1>. QED BY <1>2, <1>3

-----------------------------------------------------------------------------
(* The container.                                                          *)

\* A step that changes at most the container keeps what the others agree on.
LEMMA BoxSteps ==
    ASSUME PeerInv, NEW r \in PeerCalls, Working(r), Step(r) # "read", UNCHANGED <<peerRow, disk, issued>>
    PROVE  /\ hist.tidy /\ peerRow.id # 0 /\ ~Rewrites(r) /\ BoxCfg' /\ BoxFiles' =>
                  /\ Agree'
                  /\ peerCall[r].op \in {"restart", "start"} => peerCall[r].cfg = peerRow'.cfg
           /\ (Files => Files') /\ (SameCert => SameCert')
<1>1. hist.tidy /\ peerRow.id # 0 /\ ~Rewrites(r) =>
          Agree /\ (peerCall[r].op \in {"restart", "start"} => peerCall[r].cfg = peerRow.cfg)
    BY RestNow
<1>2. (Files => Files') /\ (SameCert => SameCert')
    BY DEF Files, SameCert
<1>. QED BY <1>1, <1>2 DEF Agree

LEMMA RemoveBoxInv ==
    ASSUME PeerInv, NEW r \in PeerCalls, RemoveBox(r)
    PROVE  PeerInv'
<1>. DEFINE x == peerCall[r]
            c == [x EXCEPT !.alone = FALSE]
<1>0. Step(r) = "down" /\ UNCHANGED <<peerRow, disk, issued>>
    BY DEF RemoveBox
<1>1. /\ Working(r) /\ x \in CallRecord
      /\ \/ x.op = "restart" /\ Behind(x) = "mark"
         \/ x.op \in {"stop", "halt"} /\ Behind(x) = "done"
         \/ x.op \in {"renew", "update"} /\ Behind(x) = "box"
    <2>1. Working(r) /\ x \in CallRecord /\ <<x.op, "down", Behind(x)>> \in Follows
        BY <1>0, StepIs, PeerTyped DEF PeerInv
    <2>. QED BY <2>1 DEF Follows
<1>2. ASSUME NEW c0 \in CallRecord, NEW e \in CallRecord, Onward(r, c0, e), c0.cfg = x.cfg,
             c0.alone => x.alone, box' = NoBox \/ (box' = box /\ ~hist'.sure /\ ~c0.alone),
             hist' \in HistRecord, hist'.tidy = hist.tidy, hist'.left = hist.left,
             hist'.sure => hist.sure /\ (x.alone => c0.alone)
      PROVE  PeerInv'
    <2>1. /\ Become(r, e) /\ e # NoPeerCall /\ e.op = x.op /\ e.id = x.id /\ e.cfg = x.cfg /\ e.alone = c0.alone
          /\ e.op # "none" /\ e.at \in 1..Len(Script[e.op]) /\ StepOf(e) = Behind(x)
          /\ (Rewriting(e.op) <=> Rewrites(r)) /\ peerCall'[r] = e /\ Step(r)' = StepOf(e)
        BY <1>1, <1>2 DEF Onward
    <2>2. Owner(r) => Owner(r)'
        BY <1>0, <1>1, <2>1 DEF Owner, Has, Working
    <2>3. (BoxCfg => BoxCfg') /\ (BoxFiles => BoxFiles') /\ (box' = NoBox => box'.state = "none") /\ box' \in BoxRecord
        BY <1>0, <1>2, NoRowTyped, PeerTypes DEF BoxCfg, BoxFiles, NoBox, PeerInv, Typed
    <2>4. hist.tidy /\ peerRow'.id # 0 /\ ~Rewriting(e.op) =>
              Agree' /\ (e.op \in {"restart", "start"} => e.cfg = peerRow'.cfg)
        <3>1. hist.tidy /\ peerRow.id # 0 /\ ~Rewrites(r) => BoxCfg /\ BoxFiles
            BY <1>1, RestNow DEF Agree
        <3>. QED BY <1>0, <1>1, <2>1, <2>3, <3>1, BoxSteps
    <2>5. hist.tidy /\ Rewriting(e.op) => Wrote(r)'
        <3>. SUFFICES ASSUME hist.tidy, Rewriting(e.op) PROVE Wrote(r)'
            OBVIOUS
        <3>1. Wrote(r)
            BY <2>1, WroteNow
        <3>2. x.op = "renew" => x.cfg = peerRow.cfg /\ disk.core = peerRow.cfg /\ Files
            BY <1>0, <3>1 DEF Wrote, WroteRenewal
        <3>3. x.op = "update" => SameCert /\ disk.cert = issued.cert /\ Files /\ x.cfg = peerRow.cfg
            BY <1>0, <3>1 DEF Wrote, WroteUpdate
        <3>4. (Files => Files') /\ (SameCert => SameCert')
            BY <1>0, <1>1, BoxSteps
        <3>. QED BY <1>0, <1>1, <2>1, <3>2, <3>3, <3>4
                 DEF Wrote, WroteCreate, WroteRenewal, WroteUpdate, WroteBox
    <2>6. hist'.sure => e.alone
        BY <1>1, <1>2, <2>1, Single
    <2>7. e.alone => x.alone /\ box'.state = "none"
        BY <1>2, <2>1, <2>3
    <2>. QED BY <1>0, <1>1, <1>2, <2>1, <2>2, <2>3, <2>4, <2>5, <2>6, <2>7, PeerTypes, StepGoes DEF PeerInv, Typed
<1>3. CASE box' = NoBox /\ Proceed(r, x) /\ UNCHANGED hist
    <2>1. PICK e \in CallRecord : Onward(r, x, e)
        BY <1>0, <1>3, GoesToItself
    <2>2. hist' = hist /\ hist \in HistRecord
        BY <1>3, PeerTypes DEF PeerInv, Typed
    <2>. QED BY <1>1, <1>2, <1>3, <2>1, <2>2
<1>4. CASE /\ box.state # "none" /\ box' = box /\ Proceed(r, c) /\ hist' = [hist EXCEPT !.sure = FALSE]
    <2>1. c \in CallRecord /\ c.op = x.op /\ c.at = x.at /\ c.id = x.id /\ c.cfg = x.cfg /\ c.alone = FALSE
        BY <1>1 DEF CallRecord
    <2>. HIDE DEF c
    <2>2. PICK e \in CallRecord : Onward(r, c, e)
        BY <1>0, <1>4, <2>1, GoesTo
    <2>3. hist' \in HistRecord /\ hist'.tidy = hist.tidy /\ hist'.left = hist.left /\ hist'.sure = FALSE
        BY <1>4, PeerTypes DEF PeerInv, Typed, HistRecord
    <2>. QED BY <1>2, <1>4, <2>1, <2>2, <2>3
<1>5. CASE Fail(r) /\ box' = box
    BY <1>0, <1>5, FailKeeps, PeerTypes DEF PeerInv, Typed
<1>. QED BY <1>3, <1>4, <1>5 DEF RemoveBox

LEMMA CreateBoxInv ==
    ASSUME PeerInv, NEW r \in PeerCalls, CreateBox(r)
    PROVE  PeerInv'
<1>. DEFINE x == peerCall[r]
<1>0. Step(r) = "box" /\ UNCHANGED <<peerRow, disk, issued>>
    BY DEF CreateBox
<1>1. /\ Working(r) /\ x \in CallRecord /\ Behind(x) = "run"
      /\ x.op \in {"create", "restart", "start", "renew", "update"}
    <2>1. Working(r) /\ x \in CallRecord /\ <<x.op, "box", Behind(x)>> \in Follows
        BY <1>0, StepIs, PeerTyped DEF PeerInv
    <2>. QED BY <2>1 DEF Follows
<1>2. CASE box' = [NoBox EXCEPT !.state = "created", !.cfg = x.cfg, !.by = r] /\ Proceed(r, x) /\ UNCHANGED hist
    <2>1. box' \in BoxRecord /\ box'.state = "created" /\ box'.cfg = x.cfg
        <3>. DEFINE b1 == [NoBox EXCEPT !.state = "created"]
                    b2 == [b1 EXCEPT !.cfg = x.cfg]
        <3>1. b1 \in BoxRecord /\ b1.state = "created"
            BY NoRowTyped DEF BoxRecord
        <3>2. box' = [b2 EXCEPT !.by = r]
            BY <1>2
        <3>. HIDE DEF b1
        <3>3. b2 \in BoxRecord /\ b2.state = "created" /\ b2.cfg = x.cfg
            BY <1>1, <3>1 DEF BoxRecord, CallRecord
        <3>. HIDE DEF b2
        <3>. QED BY <3>2, <3>3 DEF BoxRecord
    <2>2. PICK e \in CallRecord : Onward(r, x, e)
        BY <1>0, <1>2, GoesToItself
    <2>3. /\ Become(r, e) /\ e # NoPeerCall /\ e.op = x.op /\ e.id = x.id /\ e.cfg = x.cfg /\ e.alone = x.alone
          /\ e.op # "none" /\ e.at \in 1..Len(Script[e.op]) /\ StepOf(e) = "run"
          /\ (Rewriting(e.op) <=> Rewrites(r)) /\ peerCall'[r] = e /\ Step(r)' = StepOf(e)
        BY <1>1, <2>2 DEF Onward
    <2>4. Owner(r) => Owner(r)'
        BY <1>0, <1>1, <2>3 DEF Owner, Has, Working
    <2>5. x.cfg = peerRow.cfg => BoxCfg' /\ BoxFiles'
        BY <1>0, <2>1 DEF BoxCfg, BoxFiles
    <2>6. hist.tidy /\ peerRow'.id # 0 /\ ~Rewriting(e.op) =>
              Agree' /\ (e.op \in {"restart", "start"} => e.cfg = peerRow'.cfg)
        <3>1. hist.tidy /\ peerRow.id # 0 /\ ~Rewrites(r) => x.cfg = peerRow.cfg
            <4>1. ~Rewrites(r) => x.op \in {"restart", "start"}
                BY <1>1, RewritesIs
            <4>. QED BY <1>0, <1>1, <4>1, RestNow
        <3>. QED BY <1>0, <1>1, <2>3, <2>5, <3>1, BoxSteps
    <2>7. hist.tidy /\ Rewriting(e.op) => Wrote(r)'
        <3>. SUFFICES ASSUME hist.tidy, Rewriting(e.op) PROVE Wrote(r)'
            OBVIOUS
        <3>1. Wrote(r)
            BY <2>3, WroteNow
        <3>2. x.op = "create" => x.cfg = peerRow.cfg /\ Files /\ SameCert
            BY <1>0, <3>1 DEF Wrote, WroteCreate
        <3>3. x.op = "renew" => x.cfg = peerRow.cfg /\ disk.core = peerRow.cfg /\ Files
            BY <1>0, <3>1 DEF Wrote, WroteRenewal
        <3>4. x.op = "update" => SameCert /\ disk.cert = issued.cert /\ Files /\ x.cfg = peerRow.cfg
            BY <1>0, <3>1 DEF Wrote, WroteUpdate
        <3>5. (Files => Files') /\ (SameCert => SameCert')
            BY <1>0, <1>1, BoxSteps
        <3>. QED BY <1>0, <1>1, <2>3, <2>5, <3>2, <3>3, <3>4, <3>5
                 DEF Wrote, WroteCreate, WroteRenewal, WroteUpdate, WroteBox
    <2>8. hist.sure => e.alone
        BY <1>1, <2>3, Single
    <2>. QED BY <1>0, <1>1, <1>2, <2>1, <2>3, <2>4, <2>6, <2>7, <2>8, PeerTypes, StepGoes DEF PeerInv, Typed
<1>3. CASE Fail(r) /\ box' = box
    BY <1>0, <1>3, FailKeeps, PeerTypes DEF PeerInv, Typed
<1>. QED BY <1>2, <1>3 DEF CreateBox

LEMMA StartBoxInv ==
    ASSUME PeerInv, NEW r \in PeerCalls, StartBox(r)
    PROVE  PeerInv'
<1>. DEFINE x == peerCall[r]
<1>0. Step(r) = "run" /\ UNCHANGED <<peerRow, disk, issued>>
    BY DEF StartBox
<1>1. /\ Working(r) /\ x \in CallRecord
      /\ \/ x.op \in {"create", "restart", "start"} /\ Behind(x) = "done"
         \/ x.op = "renew" /\ Behind(x) = "persist"
         \/ x.op = "update" /\ Behind(x) = "end"
    <2>1. Working(r) /\ x \in CallRecord /\ <<x.op, "run", Behind(x)>> \in Follows
        BY <1>0, StepIs, PeerTyped DEF PeerInv
    <2>. QED BY <2>1 DEF Follows
<1>2. CASE /\ box.state = "created" /\ box' = [box EXCEPT !.state = "up", !.core = disk.core, !.cert = disk.cert]
           /\ Proceed(r, x)
           /\ hist' = [hist EXCEPT !.sure = @ /\ (x.op = "update" => peerRow.status = "RUNNING")]
    <2>1. box' \in BoxRecord /\ box'.state = "up" /\ box'.cfg = box.cfg /\ box'.core = disk.core
          /\ box'.cert = disk.cert
        <3>. DEFINE b1 == [box EXCEPT !.state = "up"]
                    b2 == [b1 EXCEPT !.core = disk.core]
        <3>1. b1 \in BoxRecord /\ b1.state = "up" /\ b1.cfg = box.cfg
            BY PeerTypes DEF PeerInv, Typed, BoxRecord
        <3>2. box' = [b2 EXCEPT !.cert = disk.cert] /\ disk \in DiskRecord
            BY <1>2, PeerTypes DEF PeerInv, Typed
        <3>. HIDE DEF b1
        <3>3. b2 \in BoxRecord /\ b2.state = "up" /\ b2.cfg = box.cfg /\ b2.core = disk.core
            BY <3>1, <3>2 DEF BoxRecord, DiskRecord
        <3>. HIDE DEF b2
        <3>. QED BY <3>2, <3>3 DEF BoxRecord, DiskRecord
    <2>2. /\ hist' \in HistRecord /\ hist'.left = hist.left /\ hist'.tidy = hist.tidy
          /\ hist'.sure => hist.sure /\ (x.op = "update" => peerRow.status = "RUNNING")
        <3>1. (x.op = "update" => peerRow.status = "RUNNING") \in BOOLEAN
            OBVIOUS
        <3>. QED BY <1>2, <3>1, PeerTypes DEF PeerInv, Typed, HistRecord
    <2>3. PICK e \in CallRecord : Onward(r, x, e)
        BY <1>0, <1>2, GoesToItself
    <2>4. BoxFiles' /\ (BoxCfg => BoxCfg')
        BY <1>0, <1>2, <2>1 DEF BoxCfg, BoxFiles
    <2>5. (Files => Files') /\ (SameCert => SameCert')
        BY <1>0, <1>1, BoxSteps
    <2>6. CASE x.op = "update"
        <3>1. Become(r, NoPeerCall) /\ ~Owner(r)
            BY <1>0, <1>1, <2>3, <2>6 DEF Onward, Owner
        <3>2. hist.tidy => Agree'
            <4>1. hist.tidy => SameCert /\ Files /\ BoxCfg
                BY <1>0, <1>1, <2>6, RewritesIs, WroteNow DEF Wrote, WroteUpdate, WroteBox
            <4>. QED BY <2>4, <2>5, <4>1 DEF Agree
        <3>3. hist'.sure => Match'
            BY <1>0, <2>1, <2>2, <2>6 DEF Match
        <3>. QED BY <1>0, <1>1, <2>1, <2>2, <3>1, <3>2, <3>3, NoCallTyped, PeerTypes, StepGoes DEF PeerInv, Typed
    <2>7. CASE x.op # "update"
        <3>1. /\ Become(r, e) /\ e # NoPeerCall /\ e.op = x.op /\ e.id = x.id /\ e.cfg = x.cfg /\ e.alone = x.alone
              /\ e.op # "none" /\ e.at \in 1..Len(Script[e.op]) /\ StepOf(e) = Behind(x)
              /\ (Rewriting(e.op) <=> Rewrites(r)) /\ peerCall'[r] = e /\ Step(r)' = StepOf(e)
            BY <1>1, <2>3, <2>7 DEF Onward
        <3>2. Owner(r) => Owner(r)'
            BY <1>0, <1>1, <2>7, <3>1 DEF Owner, Has, Working
        <3>3. hist.tidy /\ peerRow'.id # 0 /\ ~Rewriting(e.op) =>
                  Agree' /\ (e.op \in {"restart", "start"} => e.cfg = peerRow'.cfg)
            <4>1. hist.tidy /\ peerRow.id # 0 /\ ~Rewrites(r) => BoxCfg
                BY <1>1, RestNow DEF Agree
            <4>. QED BY <1>0, <1>1, <2>4, <3>1, <4>1, BoxSteps
        <3>4. hist.tidy /\ Rewriting(e.op) => Wrote(r)'
            <4>. SUFFICES ASSUME hist.tidy, Rewriting(e.op) PROVE Wrote(r)'
                OBVIOUS
            <4>1. Wrote(r)
                BY <3>1, WroteNow
            <4>2. BoxCfg /\ (x.op = "create" => x.cfg = peerRow.cfg /\ Files /\ SameCert)
                BY <1>0, <1>1, <2>7, <3>1, <4>1 DEF Wrote, WroteCreate, WroteBox, Rewriting
            <4>3. x.op = "renew" => x.cfg = peerRow.cfg /\ disk.core = peerRow.cfg /\ Files
                BY <1>0, <4>1 DEF Wrote, WroteRenewal
            <4>. QED BY <1>0, <1>1, <2>4, <2>5, <2>7, <3>1, <4>2, <4>3
                     DEF Wrote, WroteCreate, WroteRenewal, WroteUpdate, WroteBox
        <3>5. hist'.sure => e.alone
            BY <1>1, <2>2, <3>1, Single
        <3>. QED BY <1>0, <1>1, <2>1, <2>2, <2>7, <3>1, <3>2, <3>3, <3>4, <3>5, PeerTypes, StepGoes
                 DEF PeerInv, Typed
    <2>. QED BY <2>6, <2>7
<1>3. CASE Fail(r) /\ box' = box
    BY <1>0, <1>3, FailKeeps, PeerTypes DEF PeerInv, Typed
<1>. QED BY <1>2, <1>3 DEF StartBox

-----------------------------------------------------------------------------
(* How a request ends.                                                     *)

\* Of what the calls agree on, only the row and the last certificate can change.
LEMMA AgreeKept ==
    ASSUME UNCHANGED <<disk, box, issued>>, peerRow'.cfg = peerRow.cfg
    PROVE  /\ (Files => Files') /\ (BoxCfg => BoxCfg') /\ (BoxFiles => BoxFiles')
           /\ (SameCert /\ peerRow'.cert = peerRow.cert => SameCert')
           /\ (Agree /\ peerRow'.cert = peerRow.cert => Agree')
BY DEF Agree, Files, BoxCfg, BoxFiles, SameCert

LEMMA PersistCertificateInv ==
    ASSUME PeerInv, NEW r \in PeerCalls, PersistCertificate(r)
    PROVE  PeerInv'
<1>. DEFINE x == peerCall[r]
<1>0. /\ Step(r) = "persist" /\ Proceed(r, x) /\ UNCHANGED <<disk, box, issued>>
      /\ \/ Has(r) /\ peerRow' = [peerRow EXCEPT !.cert = issued.cert] /\ UNCHANGED hist
         \/ peerRow' = peerRow /\ hist' = [hist EXCEPT !.tidy = FALSE]
    BY DEF PersistCertificate
<1>1. Working(r) /\ x \in CallRecord /\ Rewrites(r) /\ x.op = "renew" /\ Behind(x) = "done"
    <2>1. Working(r) /\ x \in CallRecord /\ <<x.op, "persist", Behind(x)>> \in Follows
        BY <1>0, StepIs, PeerTyped DEF PeerInv
    <2>. QED BY <2>1, RewritesIs DEF Follows
<1>2. /\ peerRow' \in RowRecord /\ peerRow'.id = peerRow.id /\ peerRow'.status = peerRow.status
      /\ peerRow'.cfg = peerRow.cfg /\ (Has(r) \/ peerRow' = peerRow)
    <2>1. peerRow \in RowRecord /\ issued \in IssuedRecord
        BY PeerTypes DEF PeerInv, Typed
    <2>. QED BY <1>0, <2>1 DEF RowRecord, IssuedRecord
<1>3. /\ hist' \in HistRecord /\ hist'.left = hist.left /\ (hist'.tidy => hist.tidy)
      /\ hist'.sure = hist.sure /\ (hist'.tidy => SameCert')
    <2>1. peerRow \in RowRecord /\ hist \in HistRecord
        BY PeerTypes DEF PeerInv, Typed
    <2>2. CASE peerRow' = [peerRow EXCEPT !.cert = issued.cert] /\ UNCHANGED hist
        <3>1. peerRow'.cert = issued.cert
            BY <2>1, <2>2 DEF RowRecord
        <3>. QED BY <1>0, <2>1, <2>2, <3>1 DEF SameCert
    <2>3. CASE hist' = [hist EXCEPT !.tidy = FALSE]
        BY <2>1, <2>3 DEF HistRecord
    <2>. QED BY <1>0, <2>2, <2>3
<1>4. PICK e \in CallRecord : Onward(r, x, e)
    BY <1>0, GoesToItself
<1>5. /\ Become(r, e) /\ e # NoPeerCall /\ e.op = x.op /\ e.id = x.id /\ e.cfg = x.cfg /\ e.alone = x.alone
      /\ e.op # "none" /\ e.at \in 1..Len(Script[e.op]) /\ StepOf(e) = "done" /\ Rewriting(e.op)
      /\ peerCall'[r] = e /\ Step(r)' = StepOf(e)
    BY <1>1, <1>4 DEF Onward
<1>6. Owner(r) => Owner(r)'
    BY <1>0, <1>1, <1>2, <1>5 DEF Owner, Has, Working
<1>7. hist'.tidy => Wrote(r)'
    <2>. SUFFICES ASSUME hist'.tidy PROVE Wrote(r)'
        OBVIOUS
    <2>1. Wrote(r) /\ SameCert'
        BY <1>1, <1>3, WroteNow
    <2>2. x.cfg = peerRow.cfg /\ disk.core = peerRow.cfg /\ Files /\ BoxCfg /\ BoxFiles
        BY <1>0, <1>1, <2>1 DEF Wrote, WroteRenewal, WroteBox
    <2>3. Files' /\ BoxCfg' /\ BoxFiles'
        BY <1>0, <1>2, <2>2, AgreeKept
    <2>. QED BY <1>0, <1>1, <1>2, <1>5, <2>1, <2>2, <2>3
             DEF Wrote, WroteCreate, WroteRenewal, WroteUpdate, WroteBox
<1>8. hist.sure => e.alone
    BY <1>1, <1>5, Single
<1>9. e.alone => box'.state = "up"
    BY <1>0, <1>1, <1>5 DEF PeerInv, AloneCall
<1>. QED BY <1>0, <1>1, <1>2, <1>3, <1>5, <1>6, <1>7, <1>8, <1>9, PeerTypes, StepGoes DEF PeerInv, Typed

LEMMA SettleStatusInv ==
    ASSUME PeerInv, NEW r \in PeerCalls, SettleStatus(r)
    PROVE  PeerInv'
<1>. DEFINE x      == peerCall[r]
            status == IF x.op \in {"stop", "halt"} THEN "STOPPED" ELSE "RUNNING"
<1>0. Step(r) = "done" /\ UNCHANGED <<disk, box, issued>>
    BY DEF SettleStatus
<1>1. /\ Working(r) /\ x \in CallRecord
      /\ \/ x.op = "create" /\ Behind(x) = "probe"
         \/ x.op = "halt" /\ Behind(x) = "cleanup"
         \/ x.op \in {"restart", "start", "stop", "renew"} /\ Behind(x) = "end"
    <2>1. Working(r) /\ x \in CallRecord /\ <<x.op, "done", Behind(x)>> \in Follows
        BY <1>0, StepIs, PeerTyped DEF PeerInv
    <2>. QED BY <2>1 DEF Follows
<1>2. CASE ~Has(r)
    <2>1. GiveUp(r) /\ Untidy(r) /\ peerRow' = peerRow
        BY <1>2 DEF SettleStatus
    <2>. QED BY <1>0, <1>1, <1>2, <2>1, LostRow
<1>3. CASE Has(r)
    <2>1. /\ peerRow' = [peerRow EXCEPT !.status = status] /\ Proceed(r, x)
          /\ hist' = [hist EXCEPT !.left = FALSE, !.sure = @ \/ x.alone]
        BY <1>3 DEF SettleStatus
    <2>2. peerRow' \in RowRecord /\ peerRow'.id = peerRow.id /\ peerRow'.cert = peerRow.cert
          /\ peerRow'.cfg = peerRow.cfg /\ peerRow'.status = status
        BY <2>1, PeerTypes DEF PeerInv, Typed, RowRecord
    <2>3. hist' \in HistRecord /\ hist'.tidy = hist.tidy /\ hist'.sure = (hist.sure \/ x.alone)
        <3>. DEFINE h == [hist EXCEPT !.left = FALSE]
        <3>1. h \in HistRecord /\ h.tidy = hist.tidy /\ h.sure = hist.sure
            BY PeerTypes DEF PeerInv, Typed, HistRecord
        <3>2. hist' = [h EXCEPT !.sure = @ \/ x.alone] /\ x.alone \in BOOLEAN
            BY <1>1, <2>1 DEF CallRecord
        <3>. HIDE DEF h
        <3>. QED BY <3>1, <3>2 DEF HistRecord
    <2>4. /\ hist'.sure => x.alone
          /\ x.alone => /\ x.op \in {"stop", "halt"} => box.state # "up"
                        /\ x.op \notin {"stop", "halt"} => box.state = "up"
        BY <1>0, <1>1, <2>3, Single DEF PeerInv, AloneCall
    <2>5. x.alone => Match'
        BY <1>0, <2>2, <2>4 DEF Match
    <2>6. status \notin InBetween
        BY DEF InBetween
    <2>7. x.op = "halt" /\ x.alone => peerRow'.status # "RUNNING" /\ box'.state # "up"
        BY <1>0, <2>2, <2>4
    <2>. HIDE DEF status
    <2>8. PICK e \in CallRecord : Onward(r, x, e)
        BY <1>0, <2>1, GoesToItself
    <2>9. hist.tidy /\ peerRow'.id # 0 /\ x.op \in {"restart", "start", "stop", "renew"} => Agree'
        <3>1. hist.tidy /\ x.op = "renew" => Agree
            BY <1>0, RewritesIs, WroteNow DEF Wrote, WroteRenewal, WroteBox, Agree
        <3>2. hist.tidy /\ peerRow.id # 0 /\ x.op \in {"restart", "start", "stop"} => Agree
            BY <1>1, RewritesIs, RestNow
        <3>. QED BY <1>0, <2>2, <3>1, <3>2, AgreeKept
    <2>10. CASE x.op \in {"restart", "start", "stop", "renew"}
        <3>1. Become(r, NoPeerCall)
            BY <1>1, <2>8, <2>10 DEF Onward
        <3>. QED BY <1>0, <1>1, <1>3, <2>2, <2>3, <2>4, <2>5, <2>6, <2>9, <2>10, <3>1, NoCallTyped, PeerTypes, StepGoes
                 DEF PeerInv, Typed
    <2>11. CASE x.op \in {"create", "halt"}
        <3>1. /\ Become(r, e) /\ e # NoPeerCall /\ e.op = x.op /\ e.id = x.id /\ e.cfg = x.cfg /\ e.alone = x.alone
              /\ e.op # "none" /\ e.at \in 1..Len(Script[e.op]) /\ StepOf(e) = Behind(x)
              /\ Rewriting(e.op) /\ Rewrites(r) /\ peerCall'[r] = e /\ Step(r)' = StepOf(e)
            BY <1>1, <2>8, <2>11, RewritesIs DEF Onward
        <3>2. hist.tidy => Wrote(r)'
            <4>. SUFFICES ASSUME hist.tidy PROVE Wrote(r)'
                OBVIOUS
            <4>1. Wrote(r)
                BY <3>1, WroteNow
            <4>2. x.op = "create" => x.cfg = peerRow.cfg /\ Files /\ SameCert /\ BoxCfg /\ BoxFiles
                BY <1>0, <4>1 DEF Wrote, WroteCreate, WroteBox
            <4>3. x.op = "create" => Files' /\ SameCert' /\ BoxCfg' /\ BoxFiles'
                BY <1>0, <2>2, <4>2, AgreeKept
            <4>. QED BY <1>1, <2>2, <2>11, <3>1, <4>2, <4>3
                     DEF Wrote, WroteCreate, WroteRenewal, WroteUpdate, WroteBox
        <3>. QED BY <1>0, <1>1, <1>3, <2>2, <2>3, <2>4, <2>5, <2>6, <2>7, <2>11, <3>1, <3>2, PeerTypes, StepGoes
                 DEF PeerInv, Typed
    <2>. QED BY <1>1, <2>10, <2>11
<1>. QED BY <1>2, <1>3

LEMMA MarkErrorInv ==
    ASSUME PeerInv, NEW r \in PeerCalls, MarkError(r)
    PROVE  PeerInv'
<1>. DEFINE x == peerCall[r]
<1>0. Step(r) = "failed" /\ GiveUp(r) /\ UNCHANGED <<disk, box, issued>>
    BY DEF MarkError
<1>1. Working(r) /\ x \in CallRecord
    BY <1>0, PeerTyped DEF Step, Working, PeerInv
<1>2. CASE ~Has(r)
    <2>1. peerRow' = peerRow /\ hist' = hist
        BY <1>2 DEF MarkError
    <2>. QED BY <1>0, <1>1, <1>2, <2>1, LostRow
<1>3. CASE Has(r)
    <2>1. /\ peerRow' = [peerRow EXCEPT !.status = "ERROR"]
          /\ hist' = [hist EXCEPT !.left = FALSE, !.sure = @ /\ box.state # "up"]
        BY <1>3 DEF MarkError
    <2>2. peerRow' \in RowRecord /\ peerRow'.id = peerRow.id /\ peerRow'.cert = peerRow.cert
          /\ peerRow'.cfg = peerRow.cfg /\ peerRow'.status = "ERROR" /\ peerRow'.status \notin InBetween
        BY <2>1, PeerTypes DEF PeerInv, Typed, RowRecord, InBetween
    <2>3. hist' \in HistRecord /\ hist'.tidy = hist.tidy /\ (hist'.sure => hist.sure /\ box.state # "up")
        <3>. DEFINE h == [hist EXCEPT !.left = FALSE]
        <3>1. h \in HistRecord /\ h.tidy = hist.tidy /\ h.sure = hist.sure
            BY PeerTypes DEF PeerInv, Typed, HistRecord
        <3>2. hist' = [h EXCEPT !.sure = @ /\ box.state # "up"] /\ (box.state # "up") \in BOOLEAN
            BY <2>1
        <3>. HIDE DEF h
        <3>. QED BY <3>1, <3>2 DEF HistRecord
    <2>4. hist.tidy => ~Rewrites(r)
        BY <1>0 DEF PeerInv, TidyCall
    <2>5. hist.tidy /\ peerRow'.id # 0 => Agree'
        <3>1. hist.tidy /\ peerRow.id # 0 => Agree
            BY <1>1, <2>4, RestNow
        <3>. QED BY <1>0, <2>2, <3>1, AgreeKept
    <2>6. hist'.sure => Match'
        BY <1>0, <2>2, <2>3 DEF Match
    <2>7. PICK e \in CallRecord :
              /\ Become(r, e)
              /\ \/ e = NoPeerCall
                 \/ /\ peerCall[r].op \in {"create", "halt"} /\ e.op \in {"delete", "halt"}
                    /\ e.at \in {2, 5} /\ (e.op = "delete" => e.at = 2) /\ StepOf(e) = "cleanup"
                    /\ e.id = peerCall[r].id /\ e.alone = peerCall[r].alone
        BY <1>0, <1>1, GivenUp
    <2>8. CASE e = NoPeerCall
        BY <1>0, <1>1, <1>3, <2>2, <2>3, <2>4, <2>5, <2>6, <2>7, <2>8, NoCallTyped, PeerTypes, StepGoes
        DEF PeerInv, Typed
    <2>9. CASE e # NoPeerCall
        <3>1. Rewrites(r) /\ ~hist'.tidy /\ e.op # "none" /\ e.at \in 1..Len(Script[e.op])
            BY <2>3, <2>4, <2>7, <2>9, RewritesIs, ScriptStarts
        <3>2. hist'.sure => e.alone
            BY <1>1, <2>3, <2>7, <2>9, Single
        <3>3. /\ Become(r, e) /\ e.id = x.id /\ e.alone = x.alone /\ e.op \in {"delete", "halt"} /\ StepOf(e) = "cleanup"
            BY <2>7, <2>9
        <3>. QED BY <1>0, <1>1, <1>3, <2>2, <2>3, <2>9, <3>1, <3>2, <3>3, PeerTypes, StepGoes DEF PeerInv, Typed
    <2>. QED BY <2>8, <2>9
<1>. QED BY <1>2, <1>3

LEMMA ConnectInv ==
    ASSUME PeerInv, NEW r \in PeerCalls, Connect(r)
    PROVE  PeerInv'
<1>. DEFINE x == peerCall[r]
            again == [x EXCEPT !.op = "restart", !.at = 1]
<1>0. /\ Step(r) = "probe" /\ UNCHANGED <<peerRow, disk, box, issued, hist>>
      /\ Become(r, NoPeerCall) \/ Become(r, again)
    BY DEF Connect
<1>1. Working(r) /\ x \in CallRecord /\ Rewrites(r) /\ x.op = "create" /\ ~Owner(r) /\ CallKnown(r)
    <2>1. Working(r) /\ x \in CallRecord /\ <<x.op, "probe", Behind(x)>> \in Follows /\ CallKnown(r)
        BY <1>0, StepIs, PeerTyped DEF PeerInv
    <2>2. x.op = "create"
        BY <2>1 DEF Follows
    <2>. QED BY <1>0, <2>1, <2>2, RewritesIs DEF Owner
<1>2. hist.sure => x.alone /\ Match
    BY <1>0, <1>1 DEF PeerInv, SureCall
<1>3. hist.tidy => Agree /\ x.cfg = peerRow.cfg
    BY <1>0, <1>1, WroteNow DEF Wrote, WroteCreate, WroteBox, Agree
<1>4. (Match => Match') /\ (Agree => Agree')
    BY <1>0, WorldKept
<1>5. CASE Become(r, NoPeerCall)
    BY <1>0, <1>1, <1>2, <1>3, <1>4, <1>5, NoCallTyped, PeerTypes, StepGoes DEF PeerInv, Typed
<1>6. CASE Become(r, again)
    <2>. DEFINE d == [x EXCEPT !.op = "restart"]
                e == [d EXCEPT !.at = 1]
    <2>1. d \in CallRecord /\ d.op = "restart" /\ d.id = x.id /\ d.cfg = x.cfg /\ d.alone = x.alone
        BY <1>1 DEF CallRecord, Ops
    <2>2. Become(r, e)
        BY <1>6
    <2>. HIDE DEF d
    <2>3. e \in CallRecord /\ e.op = "restart" /\ e.at = 1 /\ e.id = x.id /\ e.cfg = x.cfg /\ e.alone = x.alone
        BY <2>1 DEF CallRecord
    <2>. HIDE DEF e
    <2>4. StepOf(e) = "down" /\ e.at \in 1..Len(Script[e.op]) /\ e.op # "none" /\ ~Rewriting(e.op)
        BY <2>3, ScriptStarts DEF StepOf, Rewriting, Ops
    <2>5. e # NoPeerCall
        BY <2>3, NoCallTyped
    <2>. QED BY <1>0, <1>1, <1>2, <1>3, <1>4, <2>2, <2>3, <2>4, <2>5, PeerTypes, StepGoes DEF PeerInv, Typed
<1>. QED BY <1>0, <1>5, <1>6

LEMMA CleanupInv ==
    ASSUME PeerInv, NEW r \in PeerCalls, Cleanup(r)
    PROVE  PeerInv'
<1>. DEFINE x == peerCall[r]
<1>0. /\ Step(r) = "cleanup" /\ UNCHANGED <<peerRow, box, issued, hist>>
      /\ disk' \in {NoDisk, disk} /\ Proceed(r, x)
    BY DEF Cleanup
<1>1. Working(r) /\ x.op \in {"delete", "halt"} /\ Behind(x) = "row" /\ Rewrites(r)
    <2>1. Working(r) /\ <<x.op, "cleanup", Behind(x)>> \in Follows
        BY <1>0, StepIs
    <2>. QED BY <2>1, RewritesIs DEF Follows
<1>2. PICK e \in CallRecord : Onward(r, x, e)
    BY <1>0, GoesToItself
<1>3. /\ Become(r, e) /\ e # NoPeerCall /\ e.op = x.op /\ e.id = x.id /\ e.alone = x.alone
      /\ e.op # "none" /\ e.at \in 1..Len(Script[e.op]) /\ StepOf(e) = "row" /\ Rewriting(e.op)
      /\ peerCall'[r] = e /\ Step(r)' = StepOf(e)
    BY <1>1, <1>2 DEF Onward
<1>4. Owner(r) => Owner(r)'
    BY <1>0, <1>1, <1>3 DEF Owner, Has, Working
<1>5. Wrote(r)'
    BY <1>1, <1>3 DEF Wrote, WroteCreate, WroteRenewal, WroteUpdate, WroteBox
<1>6. hist.sure => e.alone /\ peerRow.status # "RUNNING" /\ box.state # "up"
    BY <1>0, <1>1, <1>3 DEF PeerInv, SureCall
<1>7. disk' \in DiskRecord
    BY <1>0, NoRowTyped, PeerTypes DEF PeerInv, Typed
<1>. QED BY <1>0, <1>1, <1>3, <1>4, <1>5, <1>6, <1>7, PeerTypes, StepGoes DEF PeerInv, Typed

LEMMA DeleteRowInv ==
    ASSUME PeerInv, NEW r \in PeerCalls, DeleteRow(r)
    PROVE  PeerInv'
<1>. DEFINE x == peerCall[r]
<1>0. Step(r) = "row" /\ Proceed(r, x) /\ UNCHANGED <<disk, box, issued, hist>>
    BY DEF DeleteRow
<1>1. Working(r) /\ x.op \in {"delete", "halt"} /\ Behind(x) = "end" /\ Rewrites(r)
    <2>1. Working(r) /\ <<x.op, "row", Behind(x)>> \in Follows
        BY <1>0, StepIs
    <2>. QED BY <2>1, RewritesIs DEF Follows
<1>2. Become(r, NoPeerCall)
    <2>1. PICK e \in CallRecord : Onward(r, x, e)
        BY <1>0, GoesToItself
    <2>. QED BY <1>1, <2>1 DEF Onward
<1>3. CASE ~Has(r)
    <2>1. peerRow' = peerRow
        BY <1>3 DEF DeleteRow
    <2>. QED BY <1>0, <1>1, <1>2, <1>3, <2>1, NoCallTyped, RowGone, PeerTypes DEF PeerInv, Typed
<1>4. CASE Has(r)
    <2>1. peerRow' = NoPeerRow /\ NoPeerRow.id = 0 /\ NoPeerRow.status = "none"
        BY <1>4 DEF DeleteRow, NoPeerRow
    <2>2. PeerTypeOK'
        BY <1>0, <1>2, <2>1, NoRowTyped, NoCallTyped, CallsTyped, PeerTypes DEF PeerInv, Typed
    <2>3. RowKnown'
        <3>1. issued \in IssuedRecord
            BY PeerTypes DEF PeerInv, Typed
        <3>. QED BY <1>0, <2>1, <3>1 DEF RowKnown, IssuedRecord
    <2>4. Served' /\ TidyRest'
        BY <2>1 DEF Served, TidyRest, InBetween
    <2>5. hist'.sure => hist.sure /\ Match'
        BY <1>0, <1>1, <2>1 DEF PeerInv, SureCall, Match
    <2>. QED BY <1>0, <1>1, <1>2, <2>2, <2>3, <2>4, <2>5, PeerCallEnds
<1>. QED BY <1>3, <1>4

LEMMA BreakOffPeerInv ==
    ASSUME PeerInv, NEW r \in PeerCalls, BreakOffPeer(r)
    PROVE  PeerInv'
<1>. DEFINE x == peerCall[r]
<1>0. /\ Working(r) /\ Become(r, NoPeerCall) /\ UNCHANGED <<peerRow, disk, box, issued>>
      /\ hist' = [sure |-> FALSE, tidy |-> hist.tidy /\ ~Rewriting(x.op),
                  left |-> hist.left \/ (Has(r) /\ peerRow.status \in InBetween)]
    BY DEF BreakOffPeer, Working
<1>1. /\ hist' \in HistRecord /\ ~hist'.sure /\ (hist'.tidy => hist.tidy /\ ~Rewrites(r))
      /\ hist'.left = (hist.left \/ (Has(r) /\ peerRow.status \in InBetween))
    <2>1. hist \in HistRecord
        BY PeerTypes DEF PeerInv, Typed
    <2>. QED BY <1>0, <2>1 DEF HistRecord, Rewrites, Rewriting
<1>2. PeerTypeOK'
    BY <1>0, <1>1, NoCallTyped, CallsTyped, PeerTypes DEF PeerInv, Typed
<1>3. Served'
    <2>1. Owner(r) => Has(r)
        BY DEF Owner
    <2>2. hist.left \in BOOLEAN
        BY PeerTypes DEF PeerInv, Typed, HistRecord
    <2>. QED BY <1>0, <1>1, <2>1, <2>2, NoCallTyped, ServedKept
<1>4. RowKnown'
    BY <1>0 DEF PeerInv, RowKnown
<1>5. TidyRest'
    <2>1. hist'.tidy /\ peerRow.id # 0 => Agree
        BY <1>0, <1>1, RestNow
    <2>2. Agree => Agree'
        BY <1>0, AgreeKept DEF Agree
    <2>. QED BY <1>0, <1>1, <2>1, <2>2, NoCallTyped, RestThen
<1>. QED BY <1>0, <1>1, <1>2, <1>3, <1>4, <1>5, PeerCallEnds

-----------------------------------------------------------------------------
(* The invariant, and what it says.                                        *)

LEMMA PeerStepInv ==
    ASSUME PeerInv, NEW r \in PeerCalls, PeerStep(r)
    PROVE  PeerInv'
<1>1. CASE \E cfg \in Configs : BeginCreate(r, cfg)
    BY <1>1, BeginCreateInv
<1>2. CASE \E op \in PeerOps, cfg \in Configs : BeginPeerCall(r, op, cfg)
    BY <1>2, BeginPeerCallInv
<1>3. CASE ReadRow(r) \/ Initialize(r) \/ WriteDeployment(r) \/ WriteConfig(r) \/ MarkStatus(r)
    BY <1>3, ReadRowInv, InitializeInv, WriteDeploymentInv, WriteConfigInv, MarkStatusInv
<1>4. CASE RenewCertificates(r) \/ Synchronize(r) \/ RemoveBox(r) \/ CreateBox(r) \/ StartBox(r)
    BY <1>4, RenewCertificatesInv, SynchronizeInv, RemoveBoxInv, CreateBoxInv, StartBoxInv
<1>5. CASE PersistCertificate(r) \/ SettleStatus(r) \/ MarkError(r) \/ Connect(r)
    BY <1>5, PersistCertificateInv, SettleStatusInv, MarkErrorInv, ConnectInv
<1>6. CASE Cleanup(r) \/ DeleteRow(r) \/ BreakOffPeer(r)
    BY <1>6, CleanupInv, DeleteRowInv, BreakOffPeerInv
<1>. QED BY <1>1, <1>2, <1>3, <1>4, <1>5, <1>6 DEF PeerStep

LEMMA PeerNextInv == PeerInv /\ [PeerNext]_peerVars => PeerInv'
<1>. SUFFICES ASSUME PeerInv, [PeerNext]_peerVars PROVE PeerInv'
    OBVIOUS
<1>1. CASE UNCHANGED peerVars
    <2>1. PeerTypeOK' /\ RowKnown' /\ Served'
        BY <1>1, PeerTypes DEF PeerInv, peerVars, Typed, RowKnown, Served, Owner, Working, Has, Step
    <2>2. SureQuiet'
        BY <1>1 DEF PeerInv, peerVars, SureQuiet, Quiet, Match
    <2>3. TidyRest'
        BY <1>1 DEF PeerInv, peerVars, TidyRest, Agree, SameCert, Files, BoxCfg, BoxFiles, Rewrites, Working, Step
    <2>4. ASSUME NEW r \in PeerCalls PROVE CallKnown(r)' /\ AloneCall(r)' /\ SureCall(r)'
        BY <1>1 DEF PeerInv, peerVars, CallKnown, AloneCall, SureCall, Match, Working, Has, Step
    <2>5. ASSUME NEW r \in PeerCalls PROVE TidyCall(r)'
        BY <1>1 DEF PeerInv, peerVars, TidyCall, Wrote, WroteCreate, WroteRenewal, WroteUpdate, WroteBox,
                    Agree, SameCert, Files, BoxCfg, BoxFiles, Rewrites, Working, Has, Step
    <2>. QED BY <2>1, <2>2, <2>3, <2>4, <2>5 DEF PeerInv
<1>2. CASE PeerNext
    BY <1>2, PeerStepInv DEF PeerNext
<1>. QED BY <1>1, <1>2

\* What is still to come in a script.
LEMMA ScriptEnds ==
    ASSUME NEW op \in Ops, NEW i \in 1..Len(Script[op]), Script[op][i] # "probe", op # "update"
    PROVE  \E j \in i..Len(Script[op]) : Script[op][j] \in {"done", "row"}
<1>1. CASE op = "create"
    <2>1. Script[op] = <<"init", "deploy", "mark", "box", "run", "done", "probe">> BY <1>1 DEF Script
    <2>2. i \in 1..7 /\ i # 7 /\ Len(Script[op]) = 7 /\ Script[op][6] = "done" BY <2>1
    <2>. QED BY <2>2
<1>2. CASE op = "restart"
    <2>1. Script[op] = <<"down", "mark", "box", "run", "done">> BY <1>2 DEF Script
    <2>2. i \in 1..5 /\ Len(Script[op]) = 5 /\ Script[op][5] = "done" BY <2>1
    <2>. QED BY <2>2
<1>3. CASE op = "start"
    <2>1. Script[op] = <<"read", "mark", "box", "run", "done">> BY <1>3 DEF Script
    <2>2. i \in 1..5 /\ Len(Script[op]) = 5 /\ Script[op][5] = "done" BY <2>1
    <2>. QED BY <2>2
<1>4. CASE op = "stop"
    <2>1. Script[op] = <<"read", "mark", "down", "done">> BY <1>4 DEF Script
    <2>2. i \in 1..4 /\ Len(Script[op]) = 4 /\ Script[op][4] = "done" BY <2>1
    <2>. QED BY <2>2
<1>5. CASE op = "delete"
    <2>1. Script[op] = <<"read", "cleanup", "row">> BY <1>5 DEF Script
    <2>2. i \in 1..3 /\ Len(Script[op]) = 3 /\ Script[op][3] = "row" BY <2>1
    <2>. QED BY <2>2
<1>6. CASE op = "halt"
    <2>1. Script[op] = <<"read", "mark", "down", "done", "cleanup", "row">> BY <1>6 DEF Script
    <2>2. i \in 1..6 /\ Len(Script[op]) = 6 /\ Script[op][6] = "row" BY <2>1
    <2>. QED BY <2>2
<1>7. CASE op = "renew"
    <2>1. Script[op] = <<"read", "mark", "renew", "down", "box", "run", "persist", "done">> BY <1>7 DEF Script
    <2>2. i \in 1..8 /\ Len(Script[op]) = 8 /\ Script[op][8] = "done" BY <2>1
    <2>. QED BY <2>2
<1>. QED BY <1>1, <1>2, <1>3, <1>4, <1>5, <1>6, <1>7 DEF Ops

LEMMA InvServed == PeerInv => PeerStatusServed
<1>. SUFFICES ASSUME PeerInv, peerRow.status \in InBetween, ~hist.left
              PROVE  \E r \in PeerCalls : Has(r) /\ WillSettle(r)
    BY DEF PeerStatusServed
<1>1. PICK r \in PeerCalls : Owner(r)
    BY DEF PeerInv, Served
<1>2. Working(r) /\ Has(r)
    BY <1>1 DEF Owner
<1>3. CASE peerCall[r].at = 0
    <2>1. Step(r) = "failed"
        BY <1>2, <1>3 DEF Step, Working
    <2>. QED BY <1>2, <1>3, <2>1 DEF WillSettle, Working
<1>4. CASE peerCall[r].at # 0
    <2>1. Step(r) \notin {"idle", "failed"}
        <3>1. peerCall[r].op \in Ops /\ peerCall[r].at \in 1..Len(Script[peerCall[r].op])
            <4>1. peerCall[r] \in CallRecord /\ CallKnown(r)
                BY PeerTyped DEF PeerInv
            <4>2. peerCall[r].op \in Ops
                BY <1>2, <4>1 DEF CallRecord, Working
            <4>3. Len(Script[peerCall[r].op]) \in 3..8
                BY <4>2, ScriptStarts
            <4>. QED BY <1>2, <1>4, <4>1, <4>2, <4>3 DEF CallKnown
        <3>2. Step(r) = Script[peerCall[r].op][peerCall[r].at]
            BY <1>2, <1>4 DEF Step, Working
        <3>. QED BY <3>1, <3>2, ScriptTable DEF Follows
    <2>2. peerCall[r].op \in Ops /\ peerCall[r].at \in 1..Len(Script[peerCall[r].op])
          /\ Step(r) = Script[peerCall[r].op][peerCall[r].at]
        BY <2>1, StepIs
    <2>3. peerCall[r].op # "update" /\ Step(r) \notin {"probe", "read"}
        <3>1. <<peerCall[r].op, Step(r), Behind(peerCall[r])>> \in Follows
            BY <2>1, StepIs
        <3>. QED BY <1>1, <2>1, <3>1 DEF Owner, Follows
    <2>4. \E j \in peerCall[r].at..Len(Script[peerCall[r].op]) : Script[peerCall[r].op][j] \in {"done", "row"}
        BY <2>2, <2>3, ScriptEnds
    <2>. QED BY <1>2, <2>3, <2>4 DEF WillSettle, Working
<1>. QED BY <1>3, <1>4

LEMMA InvSettled == PeerInv => StatusIsContainer /\ ContainerIsRow
<1>. SUFFICES ASSUME PeerInv PROVE StatusIsContainer /\ ContainerIsRow
    OBVIOUS
<1>1. StatusIsContainer
    BY DEF PeerInv, SureQuiet, Match, StatusIsContainer
<1>2. ContainerIsRow
    <2>. SUFFICES ASSUME Quiet, hist.tidy, peerRow.id # 0, box.state = "up"
                  PROVE  /\ box.cfg = peerRow.cfg /\ box.core = peerRow.cfg /\ disk.core = peerRow.cfg
                         /\ box.cert = peerRow.cert /\ disk.cert = peerRow.cert /\ peerRow.cert = issued.cert
        BY DEF ContainerIsRow
    <2>1. \A r \in PeerCalls : ~Rewrites(r)
        BY DEF Quiet, Rewrites, Working
    <2>2. Agree
        BY <2>1 DEF PeerInv, TidyRest
    <2>. QED BY <2>2 DEF Agree, SameCert, Files, BoxCfg, BoxFiles
<1>. QED BY <1>1, <1>2

LEMMA PeerAlways == PeerSpec => []PeerInv
BY PeerInitInv, PeerNextInv, PTL DEF PeerSpec

(* The row, the directory, the container and every request have the shape  *)
(* the code gives them.                                                    *)
THEOREM PeerTypeCorrect == PeerSpec => []PeerTypeOK
<1>1. PeerInv => PeerTypeOK
    BY DEF PeerInv
<1>. QED BY <1>1, PeerAlways, PTL

(* A peer is PENDING, STARTING, STOPPING or UPDATING only while a request  *)
(* that holds its row is going to write how it ended or to take the row    *)
(* away, unless one broke off there (startNode, StopNode,                  *)
(* RenewCertificates, CreateNode, DeleteNode).                             *)
THEOREM PeerStatusAlwaysServed == PeerSpec => []PeerStatusServed
BY InvServed, PeerAlways, PTL

(* After requests that did not overlap or break off, the row of a peer     *)
(* says RUNNING exactly when its container runs: the failed ones included  *)
(* but those that hist.sure names, among them an update that failed after  *)
(* it took a running peer down.                                            *)
THEOREM StatusAlwaysContainer == PeerSpec => []StatusIsContainer
<1>1. PeerInv => StatusIsContainer
    BY InvSettled
<1>. QED BY <1>1, PeerAlways, PTL

(* A running peer has the configuration and the certificate that its row   *)
(* and its directory have, through any number of updates and renewals that *)
(* ended well one after the other, and any starts and stops between them.  *)
THEOREM ContainerAlwaysRow == PeerSpec => []ContainerIsRow
<1>1. PeerInv => ContainerIsRow
    BY InvSettled
<1>. QED BY <1>1, PeerAlways, PTL
=============================================================================
