--------------------------- MODULE Server_proofs ---------------------------
(* Proofs about the services of the server that work on rows and maps of   *)
(* their own - notification providers, the node monitor, plugins, Fabric-X *)
(* networks and projects - for every set of nodes, workers and requests,   *)
(* and about the process in which they run side by side (Server).          *)
EXTENDS Server, ChaincodeDeploy_proofs, AuditLog_proofs, Projects, FiniteSetTheorems, TLAPS

-----------------------------------------------------------------------------
(* Notifications.                                                          *)

\* Between the two statements of a save that nobody raced there is no default.
CleanSave ==
    \A h \in Clients : save[h].pc = "write" /\ save[h].def /\ ~save[h].raced => Defaults = {}
Single    == overlapped \/ \A p, q \in Defaults : p = q

ProvidersInv == NotificationsTypeOK /\ CleanSave /\ Single

LEMMA ProvidersInit == NotificationsInit => ProvidersInv
<1>. SUFFICES ASSUME NotificationsInit PROVE ProvidersInv
    OBVIOUS
<1>1. PICK kept \in {{}} \cup {{p} : p \in Providers} :
          provider = [p \in Providers |->
              [row    |-> IF p \in kept THEN "present" ELSE "unborn",
               def    |-> p \in kept,
               topics |-> IF p \in kept THEN Topics ELSE {}]]
    BY DEF NotificationsInit
<1>2. NotificationsTypeOK
    <2>1. provider \in [Providers -> [row    : {"unborn", "present", "deleted"},
                                      def    : BOOLEAN,
                                      topics : SUBSET Topics]]
        <3>1. ASSUME NEW p \in Providers
              PROVE  provider[p] \in [row    : {"unborn", "present", "deleted"},
                                      def    : BOOLEAN,
                                      topics : SUBSET Topics]
            <4>1. CASE p \in kept
                BY <1>1, <4>1
            <4>2. CASE p \notin kept
                BY <1>1, <4>2
            <4>. QED BY <4>1, <4>2
        <3>. QED BY <1>1, <3>1
    <2>. QED BY <2>1 DEF NotificationsInit, NotificationsTypeOK, NoSave
<1>3. Single
    BY <1>1 DEF Single, Defaults
<1>4. CleanSave
    BY DEF CleanSave, NotificationsInit, NoSave
<1>. QED BY <1>2, <1>3, <1>4 DEF ProvidersInv

LEMMA ProvidersTypes == NotificationsTypeOK /\ NotificationsNext => NotificationsTypeOK'
<1>. SUFFICES ASSUME NotificationsTypeOK, NotificationsNext PROVE NotificationsTypeOK'
    OBVIOUS
<1>1. ASSUME NEW h \in Clients, NEW p \in Providers, NEW def \in BOOLEAN, NEW topics \in Wanted,
             BeginSave(h, p, def, topics)
      PROVE  NotificationsTypeOK'
    BY <1>1, NotificationsAssumption DEF BeginSave, NotificationsTypeOK, NotificationsAssumption
<1>2. ASSUME NEW h \in Clients, UnsetDefault(h)
      PROVE  NotificationsTypeOK'
    <2>1. \A p \in Providers : [provider[p] EXCEPT !.def = FALSE] \in
              [row : {"unborn", "present", "deleted"}, def : BOOLEAN, topics : SUBSET Topics]
        BY DEF NotificationsTypeOK
    <2>2. provider' \in [Providers -> [row    : {"unborn", "present", "deleted"},
                                       def    : BOOLEAN,
                                       topics : SUBSET Topics]]
        <3>1. provider' = [p \in Providers |-> [provider[p] EXCEPT !.def = FALSE]]
            BY <1>2 DEF UnsetDefault
        <3>. QED BY <2>1, <3>1
    <2>3. save' = [save EXCEPT ![h].pc = "write"] /\ overlapped' = FALSE /\ mailUp' = mailUp
        BY <1>2 DEF UnsetDefault
    <2>4. save' \in [Clients -> [pc : {"idle", "unset", "write"}, p : Providers \cup {"none"},
                                 def : BOOLEAN, topics : SUBSET Topics, raced : BOOLEAN]]
        BY <2>3 DEF NotificationsTypeOK
    <2>. QED BY <2>2, <2>3, <2>4 DEF NotificationsTypeOK
<1>3. ASSUME NEW h \in Clients, WriteProvider(h)
      PROVE  NotificationsTypeOK'
    <2>1. provider' \in [Providers -> [row    : {"unborn", "present", "deleted"},
                                       def    : BOOLEAN,
                                       topics : SUBSET Topics]]
        BY <1>3 DEF WriteProvider, NotificationsTypeOK
    <2>2. NoSave \in [p : Providers \cup {"none"}, def : BOOLEAN, topics : SUBSET Topics,
                      pc : {"idle", "unset", "write"}, raced : BOOLEAN]
        BY DEF NoSave
    <2>3. save' \in [Clients -> [p : Providers \cup {"none"}, def : BOOLEAN, topics : SUBSET Topics,
                                 pc : {"idle", "unset", "write"}, raced : BOOLEAN]]
        BY <1>3, <2>2 DEF WriteProvider, NotificationsTypeOK
    <2>4. overlapped' \in BOOLEAN /\ mailUp' \in BOOLEAN
        BY <1>3 DEF WriteProvider, NotificationsTypeOK
    <2>. QED BY <2>1, <2>3, <2>4 DEF NotificationsTypeOK
<1>4. ASSUME NEW h \in Clients, SaveFails(h)
      PROVE  NotificationsTypeOK'
    BY <1>4 DEF SaveFails, NotificationsTypeOK, NoSave
<1>5. ASSUME NEW p \in Providers, DeleteProvider(p)
      PROVE  NotificationsTypeOK'
    BY <1>5 DEF DeleteProvider, NotificationsTypeOK
<1>6. CASE ToggleMail
    BY <1>6 DEF ToggleMail, NotificationsTypeOK
<1>. QED BY <1>1, <1>2, <1>3, <1>4, <1>5, <1>6 DEF NotificationsNext

LEMMA ProvidersStep == ProvidersInv /\ NotificationsNext => ProvidersInv'
<1>. SUFFICES ASSUME ProvidersInv, NotificationsNext PROVE (CleanSave /\ Single)'
    BY ProvidersTypes DEF ProvidersInv
<1>. USE DEF ProvidersInv
<1>1. ASSUME NEW h \in Clients, NEW p \in Providers, NEW def \in BOOLEAN, NEW topics \in Wanted,
             BeginSave(h, p, def, topics)
      PROVE  (CleanSave /\ Single)'
    BY <1>1 DEF BeginSave, NotificationsTypeOK, CleanSave, Single, Defaults
<1>2. ASSUME NEW h \in Clients, UnsetDefault(h)
      PROVE  (CleanSave /\ Single)'
    <2>1. Defaults' = {}
        BY <1>2 DEF UnsetDefault, Defaults, NotificationsTypeOK
    <2>. QED BY <2>1 DEF CleanSave, Single
<1>3. ASSUME NEW h \in Clients, WriteProvider(h)
      PROVE  (CleanSave /\ Single)'
    <2>. DEFINE p == save[h].p
    <2>1. Defaults' = IF save[h].def /\ p \in Providers THEN Defaults \cup {p} ELSE Defaults \ {p}
        BY <1>3 DEF WriteProvider, Defaults, NotificationsTypeOK
    <2>2. Single'
        BY <1>3, <2>1 DEF WriteProvider, Single, CleanSave, NotificationsTypeOK
    <2>3. CleanSave'
        BY <1>3, <2>1 DEF WriteProvider, CleanSave, NotificationsTypeOK, NoSave
    <2>. QED BY <2>2, <2>3
<1>4. ASSUME NEW h \in Clients, SaveFails(h)
      PROVE  (CleanSave /\ Single)'
    BY <1>4 DEF SaveFails, NoSave, NotificationsTypeOK, CleanSave, Single, Defaults
<1>5. ASSUME NEW p \in Providers, DeleteProvider(p)
      PROVE  (CleanSave /\ Single)'
    BY <1>5 DEF DeleteProvider, NotificationsTypeOK, CleanSave, Single, Defaults
<1>6. CASE ToggleMail
    BY <1>6 DEF ToggleMail, NotificationsTypeOK, CleanSave, Single, Defaults
<1>. QED BY <1>1, <1>2, <1>3, <1>4, <1>5, <1>6 DEF NotificationsNext

LEMMA ProvidersStutter == ProvidersInv /\ UNCHANGED notificationVars => ProvidersInv'
BY DEF ProvidersInv, notificationVars, NotificationsTypeOK, CleanSave, Single, Defaults

LEMMA SingleIsOne == Single => OneDefault
<1>. SUFFICES ASSUME \A p, q \in Defaults : p = q PROVE ~(Cardinality(Defaults) > 1)
    BY DEF Single, OneDefault
<1>1. CASE Defaults = {}
    BY <1>1, FS_EmptySet
<1>2. CASE Defaults # {}
    <2>1. PICK p \in Defaults : Defaults = {p}
        BY <1>2
    <2>. QED BY <2>1, FS_Singleton
<1>. QED BY <1>1, <1>2

(* There are two default providers only where two saves of a default       *)
(* overlapped, for any number of providers and requests.                   *)
THEOREM OneDefaultAlways == NotificationsSpec => []OneDefault
<1>1. ProvidersInv => OneDefault
    BY SingleIsOne DEF ProvidersInv
<1>. QED BY ProvidersInit, ProvidersStep, ProvidersStutter, <1>1, PTL DEF NotificationsSpec

-----------------------------------------------------------------------------
(* The node monitor.                                                       *)

Busy(k) == worker[k].pc \notin {"idle", "guard"}

\* A worker at a node holds it, alone, and knows its status from its own probe on.
HoldsNode  == \A k \in Workers : IF Busy(k) THEN worker[k].n \in checking ELSE worker[k].n = "none"
AloneAt    == \A j, k \in Workers : Busy(j) /\ Busy(k) /\ worker[j].n = worker[k].n => j = k
FoundKnown == \A k \in Workers :
    /\ worker[k].pc \in {"record", "store", "notify"} => worker[k].found \in {"up", "down"}
    /\ worker[k].pc \in {"store", "notify"} => mon[worker[k].n].status = worker[k].found

MonitoringInv ==
    /\ MonitoringTypeOK
    /\ HoldsNode /\ AloneAt /\ FoundKnown /\ StatusServed /\ ReportedAfterThreshold

LEMMA MonitoringStart == MonitoringInit => MonitoringInv
<1>. SUFFICES ASSUME MonitoringInit PROVE MonitoringInv
    OBVIOUS
<1>1. NotificationsTypeOK
    BY ProvidersInit DEF MonitoringInit, ProvidersInv
<1>2. MonitoringTypeOK
    <2>1. mon \in [Watchable -> [status : {"none", "up", "down"}, fails : 0..Threshold]]
        BY MonitoringAssumption DEF MonitoringAssumption, MonitoringInit
    <2>2. worker \in [Workers -> [todo  : SUBSET Watchable,
                                  pc    : {"idle", "guard", "probe", "record", "store", "notify", "release"},
                                  n     : Watchable \cup {"none"},
                                  found : {"none", "up", "down"}]]
        BY DEF MonitoringInit, Idle
    <2>. QED BY <1>1, <2>1, <2>2 DEF MonitoringInit, MonitoringTypeOK
<1>3. HoldsNode /\ AloneAt /\ FoundKnown
    BY DEF MonitoringInit, HoldsNode, AloneAt, FoundKnown, Busy, Idle
<1>4. StatusServed /\ ReportedAfterThreshold
    BY DEF MonitoringInit, StatusServed, ReportedAfterThreshold
<1>. QED BY <1>2, <1>3, <1>4 DEF MonitoringInv

\* The steps that leave the workers and what they wrote alone.
LEMMA WorldInv ==
    ASSUME MonitoringInv, UNCHANGED notificationVars, NEW n \in Watchable,
           Toggle(n) \/ DeleteNode(n) \/ IntervalPasses(n) \/ AddNode(n) \/ ListNodes
    PROVE  MonitoringInv'
<1>1. MonitoringTypeOK'
    BY DEF MonitoringInv, MonitoringTypeOK, NotificationsTypeOK, notificationVars, Toggle, DeleteNode,
           IntervalPasses, AddNode, ListNodes
<1>2. UNCHANGED <<mon, results, checking, worker, told>>
    BY DEF Toggle, DeleteNode, IntervalPasses, AddNode, ListNodes
<1>. QED BY <1>1, <1>2 DEF MonitoringInv, HoldsNode, AloneAt, FoundKnown, StatusServed,
                           ReportedAfterThreshold, Busy

LEMMA NextNodeType ==
    ASSUME NEW todo \in SUBSET Watchable
    PROVE  NextNode(todo) \in [todo : SUBSET Watchable, n : {"none"}, found : {"none"}, pc : {"idle", "guard"}]
BY DEF NextNode, Idle

LEMMA CountBound ==
    ASSUME NEW c \in 0..Threshold, NEW b \in BOOLEAN
    PROVE  (IF b THEN 0 ELSE IF c = Threshold THEN Threshold ELSE c + 1) \in 0..Threshold
BY MonitoringAssumption DEF MonitoringAssumption

\* What CheckNode does to its worker, and to the set of nodes being checked.
LEMMA CheckNodeEffect ==
    ASSUME MonitoringTypeOK, NEW k \in Workers, CheckNode(k)
    PROVE  \/ \E w \in [todo : SUBSET Watchable, n : {"none"}, found : {"none"}, pc : {"idle", "guard"}] :
                  worker' = [worker EXCEPT ![k] = w] /\ UNCHANGED checking
           \/ \E n \in Watchable \ checking :
                  /\ worker' = [worker EXCEPT ![k].todo = @ \ {n}, ![k].n = n, ![k].pc = "probe"]
                  /\ checking' = checking \cup {n}
<1>1. PICK n \in worker[k].todo :
          IF n \in checking
          THEN /\ worker' = [worker EXCEPT ![k] = NextNode(@.todo \ {n})]
               /\ UNCHANGED checking
          ELSE /\ worker' = [worker EXCEPT ![k].todo = @ \ {n}, ![k].n = n, ![k].pc = "probe"]
               /\ checking' = checking \cup {n}
    BY DEF CheckNode
<1>2. n \in Watchable /\ worker[k].todo \ {n} \in SUBSET Watchable
    BY DEF MonitoringTypeOK
<1>3. CASE n \in checking
    BY <1>1, <1>2, <1>3, NextNodeType
<1>. QED BY <1>1, <1>2, <1>3

LEMMA ProbeEffect ==
    ASSUME NEW k \in Workers, Probe(k)
    PROVE  \E x \in {"up", "down"} : worker' = [worker EXCEPT ![k].pc = "record", ![k].found = x]
BY DEF Probe

LEMMA ReleaseEffect ==
    ASSUME MonitoringTypeOK, NEW k \in Workers, Release(k)
    PROVE  \E w \in [todo : SUBSET Watchable, n : {"none"}, found : {"none"}, pc : {"idle", "guard"}] :
               worker' = [worker EXCEPT ![k] = w]
<1>1. worker[k].todo \in SUBSET Watchable
    BY DEF MonitoringTypeOK
<1>. QED BY <1>1, NextNodeType DEF Release

LEMMA WorkTypes ==
    ASSUME MonitoringInv, UNCHANGED notificationVars, NEW k \in Workers, Work(k)
    PROVE  MonitoringTypeOK'
<1>. USE DEF MonitoringInv, MonitoringTypeOK
<1>1. NotificationsTypeOK'
    BY DEF NotificationsTypeOK, notificationVars
<1>2. CASE Tick(k)
    BY <1>1, <1>2 DEF Tick, Due
<1>3. CASE CheckNode(k)
    <2>1. CASE \E w \in [todo : SUBSET Watchable, n : {"none"}, found : {"none"}, pc : {"idle", "guard"}] :
                   worker' = [worker EXCEPT ![k] = w] /\ UNCHANGED checking
        BY <1>1, <1>3, <2>1 DEF CheckNode
    <2>2. CASE \E n \in Watchable \ checking :
                   /\ worker' = [worker EXCEPT ![k].todo = @ \ {n}, ![k].n = n, ![k].pc = "probe"]
                   /\ checking' = checking \cup {n}
        BY <1>1, <1>3, <2>2 DEF CheckNode
    <2>. QED BY <1>3, <2>1, <2>2, CheckNodeEffect
<1>4. CASE Probe(k)
    <2>1. PICK x \in {"up", "down"} : worker' = [worker EXCEPT ![k].pc = "record", ![k].found = x]
        BY <1>4, ProbeEffect
    <2>2. worker' \in [Workers -> [todo  : SUBSET Watchable,
                                   pc    : {"idle", "guard", "probe", "record", "store", "notify", "release"},
                                   n     : Watchable \cup {"none"},
                                   found : {"none", "up", "down"}]]
        <3>1. [worker[k] EXCEPT !.pc = "record", !.found = x] \in
                  [todo  : SUBSET Watchable,
                   pc    : {"idle", "guard", "probe", "record", "store", "notify", "release"},
                   n     : Watchable \cup {"none"},
                   found : {"none", "up", "down"}]
            OBVIOUS
        <3>2. worker' = [worker EXCEPT ![k] = [worker[k] EXCEPT !.pc = "record", !.found = x]]
            BY <2>1
        <3>. QED BY <3>1, <3>2
    <2>. QED BY <1>1, <1>4, <2>2 DEF Probe
<1>5. CASE Record(k)
    <2>1. worker[k].n \in Watchable
        BY <1>5 DEF Record, HoldsNode, Busy
    <2>2. worker[k].found \in {"up", "down"} /\ mon[worker[k].n].fails \in 0..Threshold
        BY <1>5, <2>1 DEF Record, FoundKnown
    <2>3. mon' \in [Watchable -> [status : {"none", "up", "down"}, fails : 0..Threshold]]
        <3>. DEFINE f == IF worker[k].found = "up" THEN 0
                         ELSE IF mon[worker[k].n].fails = Threshold THEN Threshold
                         ELSE mon[worker[k].n].fails + 1
        <3>1. f \in 0..Threshold
            BY <2>2, CountBound
        <3>2. mon' = [mon EXCEPT ![worker[k].n] = [status |-> worker[k].found, fails |-> f]]
            BY <1>5 DEF Record
        <3>. QED BY <2>1, <2>2, <3>1, <3>2
    <2>. QED BY <1>1, <1>5, <2>1, <2>3 DEF Record
<1>6. CASE Store(k)
    <2>1. worker[k].n \in Watchable /\ worker[k].found \in {"none", "up", "down"}
        BY <1>6 DEF Store, HoldsNode, Busy
    <2>2. results' \in [Watchable -> {"none", "up", "down"}]
        BY <1>6, <2>1 DEF Store
    <2>3. worker' \in [Workers -> [todo  : SUBSET Watchable,
                                   pc    : {"idle", "guard", "probe", "record", "store", "notify", "release"},
                                   n     : Watchable \cup {"none"},
                                   found : {"none", "up", "down"}]]
        <3>1. [worker[k] EXCEPT !.pc = "notify"] \in
                  [todo  : SUBSET Watchable,
                   pc    : {"idle", "guard", "probe", "record", "store", "notify", "release"},
                   n     : Watchable \cup {"none"},
                   found : {"none", "up", "down"}]
            OBVIOUS
        <3>2. worker' = [worker EXCEPT ![k] = [worker[k] EXCEPT !.pc = "notify"]]
            BY <1>6 DEF Store
        <3>. QED BY <3>1, <3>2
    <2>4. UNCHANGED <<nodeRows, alive, pending, listed, watched, mon, recent, checking, told>>
        BY <1>6 DEF Store
    <2>. QED BY <1>1, <2>2, <2>3, <2>4
<1>7. CASE Notify(k)
    <2>1. worker[k].n \in Watchable
        BY <1>7 DEF Notify, HoldsNode, Busy
    <2>2. told' \subseteq Watchable
        BY <1>7, <2>1 DEF Notify
    <2>3. worker' \in [Workers -> [todo  : SUBSET Watchable,
                                   pc    : {"idle", "guard", "probe", "record", "store", "notify", "release"},
                                   n     : Watchable \cup {"none"},
                                   found : {"none", "up", "down"}]]
        <3>1. [worker[k] EXCEPT !.pc = "release", !.found = "none"] \in
                  [todo  : SUBSET Watchable,
                   pc    : {"idle", "guard", "probe", "record", "store", "notify", "release"},
                   n     : Watchable \cup {"none"},
                   found : {"none", "up", "down"}]
            OBVIOUS
        <3>2. worker' = [worker EXCEPT ![k] = [worker[k] EXCEPT !.pc = "release", !.found = "none"]]
            BY <1>7 DEF Notify
        <3>. QED BY <3>1, <3>2
    <2>4. UNCHANGED <<nodeRows, alive, pending, listed, watched, mon, recent, results, checking>>
        BY <1>7 DEF Notify
    <2>. QED BY <1>1, <2>2, <2>3, <2>4
<1>8. CASE Release(k)
    <2>1. PICK w \in [todo : SUBSET Watchable, n : {"none"}, found : {"none"}, pc : {"idle", "guard"}] :
              worker' = [worker EXCEPT ![k] = w]
        BY <1>8, ReleaseEffect
    <2>2. worker' \in [Workers -> [todo  : SUBSET Watchable,
                                   pc    : {"idle", "guard", "probe", "record", "store", "notify", "release"},
                                   n     : Watchable \cup {"none"},
                                   found : {"none", "up", "down"}]]
        BY <2>1
    <2>3. checking' \subseteq Watchable
        BY <1>8 DEF Release
    <2>. QED BY <1>1, <1>8, <2>2, <2>3 DEF Release
<1>. QED BY <1>2, <1>3, <1>4, <1>5, <1>6, <1>7, <1>8 DEF Work

LEMMA WorkHolds ==
    ASSUME MonitoringInv, NEW k \in Workers, Work(k)
    PROVE  (HoldsNode /\ AloneAt)'
<1>. USE MonitoringAssumption DEF MonitoringInv, MonitoringTypeOK, MonitoringAssumption
<1>2. CASE Tick(k)
    BY <1>2 DEF Tick, Due, HoldsNode, AloneAt, Busy
<1>3. CASE CheckNode(k)
    <2>1. CASE \E w \in [todo : SUBSET Watchable, n : {"none"}, found : {"none"}, pc : {"idle", "guard"}] :
                   worker' = [worker EXCEPT ![k] = w] /\ UNCHANGED checking
        BY <2>1 DEF HoldsNode, AloneAt, Busy
    <2>2. CASE \E n \in Watchable \ checking :
                   /\ worker' = [worker EXCEPT ![k].todo = @ \ {n}, ![k].n = n, ![k].pc = "probe"]
                   /\ checking' = checking \cup {n}
        BY <2>2 DEF HoldsNode, AloneAt, Busy
    <2>. QED BY <1>3, <2>1, <2>2, CheckNodeEffect
<1>4. CASE Probe(k)
    BY <1>4 DEF Probe, HoldsNode, AloneAt, Busy
<1>5. CASE Record(k)
    BY <1>5 DEF Record, HoldsNode, AloneAt, Busy
<1>6. CASE Store(k)
    BY <1>6 DEF Store, HoldsNode, AloneAt, Busy
<1>7. CASE Notify(k)
    BY <1>7 DEF Notify, HoldsNode, AloneAt, Busy
<1>8. CASE Release(k)
    <2>1. checking' = checking \ {worker[k].n} /\ worker[k].pc = "release"
        BY <1>8 DEF Release
    <2>2. PICK w \in [todo : SUBSET Watchable, n : {"none"}, found : {"none"}, pc : {"idle", "guard"}] :
              worker' = [worker EXCEPT ![k] = w]
        BY <1>8, ReleaseEffect
    <2>3. \A j \in Workers \ {k} : /\ worker'[j] = worker[j]
                                   /\ Busy(j) => worker[j].n # worker[k].n
        BY <2>1, <2>2 DEF AloneAt, Busy
    <2>. QED BY <2>1, <2>2, <2>3 DEF HoldsNode, AloneAt, Busy
<1>. QED BY <1>2, <1>3, <1>4, <1>5, <1>6, <1>7, <1>8 DEF Work

LEMMA WorkReports ==
    ASSUME MonitoringInv, NEW k \in Workers, Work(k)
    PROVE  (FoundKnown /\ StatusServed /\ ReportedAfterThreshold)'
<1>. USE MonitoringAssumption DEF MonitoringInv, MonitoringTypeOK, MonitoringAssumption
<1>2. CASE Tick(k)
    BY <1>2 DEF Tick, FoundKnown, StatusServed, ReportedAfterThreshold
<1>3. CASE CheckNode(k)
    <2>1. UNCHANGED <<mon, results, told>> /\ worker[k].pc = "guard"
        BY <1>3 DEF CheckNode
    <2>2. /\ \A j \in Workers \ {k} : worker'[j] = worker[j]
          /\ worker'[k].pc \in {"idle", "guard", "probe"}
        <3>1. CASE \E w \in [todo : SUBSET Watchable, n : {"none"}, found : {"none"}, pc : {"idle", "guard"}] :
                       worker' = [worker EXCEPT ![k] = w]
            BY <3>1
        <3>2. CASE \E n \in Watchable \ checking :
                       worker' = [worker EXCEPT ![k].todo = @ \ {n}, ![k].n = n, ![k].pc = "probe"]
            BY <3>2
        <3>. QED BY <1>3, <3>1, <3>2, CheckNodeEffect
    <2>. QED BY <2>1, <2>2 DEF FoundKnown, StatusServed, ReportedAfterThreshold
<1>4. CASE Probe(k)
    <2>1. UNCHANGED <<mon, results, told>> /\ worker[k].pc = "probe"
        BY <1>4 DEF Probe
    <2>2. PICK x \in {"up", "down"} : worker' = [worker EXCEPT ![k].pc = "record", ![k].found = x]
        BY <1>4, ProbeEffect
    <2>. QED BY <2>1, <2>2 DEF FoundKnown, StatusServed, ReportedAfterThreshold
<1>5. CASE Record(k)
    <2>. DEFINE n == worker[k].n
    <2>1. /\ n \in Watchable /\ worker[k].found \in {"up", "down"}
          /\ worker' = [worker EXCEPT ![k].pc = "store"]
          /\ mon' = [mon EXCEPT ![n] =
                        [status |-> worker[k].found,
                         fails  |-> IF worker[k].found = "up" THEN 0
                                    ELSE IF @.fails = Threshold THEN Threshold ELSE @.fails + 1]]
          /\ told' = IF worker[k].found = "up" THEN told \ {n} ELSE told
          /\ UNCHANGED results /\ worker[k].pc = "record"
        BY <1>5 DEF Record, HoldsNode, Busy, FoundKnown
    <2>2. \A j \in Workers \ {k} : Busy(j) => worker[j].n # n
        BY <2>1 DEF AloneAt, Busy
    <2>3. FoundKnown'
        BY <2>1, <2>2 DEF FoundKnown, Busy
    <2>4. StatusServed'
        BY <2>1 DEF StatusServed
    <2>5. ReportedAfterThreshold'
        BY <2>1 DEF ReportedAfterThreshold
    <2>. QED BY <2>3, <2>4, <2>5
<1>6. CASE Store(k)
    BY <1>6 DEF Store, FoundKnown, StatusServed, ReportedAfterThreshold, HoldsNode, AloneAt, Busy
<1>7. CASE Notify(k)
    BY <1>7 DEF Notify, FoundKnown, StatusServed, ReportedAfterThreshold, HoldsNode, Busy
<1>8. CASE Release(k)
    <2>1. /\ UNCHANGED <<mon, results, told>> /\ worker[k].pc = "release"
          /\ \A j \in Workers \ {k} : worker'[j] = worker[j]
          /\ worker'[k].pc \in {"idle", "guard"}
        BY <1>8 DEF Release, NextNode
    <2>. QED BY <2>1 DEF FoundKnown, StatusServed, ReportedAfterThreshold
<1>. QED BY <1>2, <1>3, <1>4, <1>5, <1>6, <1>7, <1>8 DEF Work

LEMMA MonitoringStep == MonitoringInv /\ MonitoringNext => MonitoringInv'
<1>. SUFFICES ASSUME MonitoringInv, MonitoringNext PROVE MonitoringInv'
    OBVIOUS
<1>1. CASE NotificationsNext /\ UNCHANGED monitoringVars
    <2>1. NotificationsTypeOK'
        BY <1>1, ProvidersTypes DEF MonitoringInv, MonitoringTypeOK
    <2>. QED BY <1>1, <2>1 DEF MonitoringInv, MonitoringTypeOK, monitoringVars, HoldsNode, AloneAt,
                              FoundKnown, StatusServed, ReportedAfterThreshold, Busy
<1>2. ASSUME NEW k \in Workers, Work(k), UNCHANGED notificationVars
      PROVE  MonitoringInv'
    BY <1>2, WorkTypes, WorkHolds, WorkReports DEF MonitoringInv
<1>3. CASE MonitorStep /\ UNCHANGED notificationVars /\ ~\E k \in Workers : Work(k)
    <2>1. CASE Watchable = {}
        <3>1. ListNodes
            BY <1>3, <2>1 DEF MonitorStep
        <3>2. /\ UNCHANGED <<nodeRows, alive, watched, mon, recent, results, checking, worker, told>>
              /\ listed' = TRUE /\ pending' \subseteq Watchable
            BY <3>1 DEF ListNodes, MonitoringInv, MonitoringTypeOK
        <3>3. NotificationsTypeOK'
            BY <1>3 DEF MonitoringInv, MonitoringTypeOK, NotificationsTypeOK, notificationVars
        <3>4. MonitoringTypeOK'
            BY <3>2, <3>3 DEF MonitoringInv, MonitoringTypeOK
        <3>. QED BY <3>2, <3>4 DEF MonitoringInv, HoldsNode, AloneAt, FoundKnown, StatusServed,
                                  ReportedAfterThreshold, Busy
    <2>2. CASE Watchable # {}
        BY <1>3, <2>2, WorldInv DEF MonitorStep
    <2>. QED BY <2>1, <2>2
<1>. QED BY <1>1, <1>2, <1>3 DEF MonitoringNext, MonitorStep

LEMMA MonitoringStutter ==
    MonitoringInv /\ UNCHANGED <<monitoringVars, notificationVars>> => MonitoringInv'
BY DEF MonitoringInv, MonitoringTypeOK, NotificationsTypeOK, notificationVars, monitoringVars, HoldsNode,
       AloneAt, FoundKnown, StatusServed, ReportedAfterThreshold, Busy

LEMMA MonitoringAlways == MonitoringSpec => []MonitoringInv
BY MonitoringStart, MonitoringStep, MonitoringStutter, PTL DEF MonitoringSpec

LEMMA MonitoringHolds == MonitoringInv => StatusServed /\ ReportIsCurrent /\ ReportedAfterThreshold
<1>1. MonitoringInv => ReportIsCurrent
    BY MonitoringAssumption
    DEF MonitoringInv, ReportIsCurrent, FoundKnown, AloneAt, HoldsNode, Busy, MonitoringTypeOK,
        MonitoringAssumption
<1>. QED BY <1>1 DEF MonitoringInv

(* Whatever the number of workers and nodes, the status that is served for *)
(* a node is the one in its record, except while a check is storing it.    *)
THEOREM StatusAlwaysServed == MonitoringSpec => []StatusServed
BY MonitoringAlways, MonitoringHolds, PTL

(* A worker that gave the lock of the nodes back still reads what its own  *)
(* result led to: the guard against concurrent checks keeps the others out.*)
THEOREM ReportAlwaysCurrent == MonitoringSpec => []ReportIsCurrent
BY MonitoringAlways, MonitoringHolds, PTL

(* For every threshold, a node is reported only after that many failed     *)
(* checks in a row, whichever workers made them.                           *)
THEOREM ReportsFollowThreshold == MonitoringSpec => []ReportedAfterThreshold
BY MonitoringAlways, MonitoringHolds, PTL

-----------------------------------------------------------------------------
(* Plugins.                                                                *)

RowsClear  == \A p \in PluginNames : plugin[p].row \/ plugin[p].status = "none"
CallsNamed == \A r \in Calls : IF call[r].pc = "idle" THEN call[r].p = "none" ELSE call[r].p \in PluginNames

\* A call that is alone is the only one on its plugin, whose row is there; one
\* that is not casts doubt.
AloneOnly == \A r \in Calls : call[r].pc # "idle" =>
                 IF call[r].alone
                 THEN plugin[call[r].p].row /\ \A k \in Calls \ {r} : call[k].p # call[r].p
                 ELSE ~sure[call[r].p]

\* What a call that is alone has done to the containers, and a sure row says of them.
AloneDid == \A r \in Calls : call[r].alone /\ call[r].pc # "idle" =>
                /\ call[r].pc \in {"params", "deployed"} => project[call[r].p] = "up"
                /\ call[r].pc = "stopped" \/ (call[r].pc = "row" /\ sure[call[r].p]) =>
                       project[call[r].p] = "down"

SureRow == \A p \in PluginNames : sure[p] /\ (\A r \in Calls : call[r].p # p) =>
               /\ plugin[p].status \in {"none", "deployed", "stopped"}
               /\ project[p] = IF plugin[p].status = "deployed" THEN "up" ELSE "down"

PluginsInv ==
    PluginsTypeOK /\ RowsClear /\ CallsNamed /\ AloneOnly /\ AloneDid /\ SureRow /\ DeployingIsServed

LEMMA PluginsStart == PluginsInit => PluginsInv
BY PluginsAssumption
DEF PluginsAssumption, PluginsInit, NoRow, CallIdle, PluginsInv, PluginsTypeOK, RowsClear, CallsNamed,
    AloneOnly, AloneDid, SureRow, DeployingIsServed

\* The record sets of the rows and of the calls, named for the steps that need them.
PluginRow  == [row : BOOLEAN, params : BOOLEAN,
               status : {"none", "deploying", "deployed", "failed", "stopped"}]
CallPc     == {"idle", "validate", "read", "deploying", "up", "params", "deployed",
               "failed", "down", "stopped", "row"}
CallRecord == [p : PluginNames \cup {"none"}, alone : BOOLEAN,
               op : {"none", "deploy", "stop", "resume", "delete"}, pc : CallPc]

LEMMA CallTyped ==
    ASSUME PluginsTypeOK, NEW r \in Calls, NEW x \in CallPc, call' = [call EXCEPT ![r].pc = x]
    PROVE  call' \in [Calls -> CallRecord]
<1>1. call \in [Calls -> CallRecord]
    BY DEF PluginsTypeOK, CallRecord, CallPc
<1>2. [call[r] EXCEPT !.pc = x] \in CallRecord
    BY <1>1 DEF CallRecord
<1>3. call' = [call EXCEPT ![r] = [call[r] EXCEPT !.pc = x]]
    BY <1>1
<1>. QED BY <1>1, <1>2, <1>3

LEMMA CreatePluginInv ==
    ASSUME PluginsInv, NEW p \in PluginNames, CreatePlugin(p)
    PROVE  PluginsInv'
<1>. USE PluginsAssumption DEF PluginsInv, PluginsAssumption
<1>1. /\ ~plugin[p].row
      /\ plugin' = [plugin EXCEPT ![p] = [row |-> TRUE, status |-> "none", params |-> FALSE]]
      /\ left' = [left EXCEPT ![p] = FALSE]
      /\ UNCHANGED <<project, sure, call>>
    BY DEF CreatePlugin
<1>2. PluginsTypeOK' /\ RowsClear' /\ CallsNamed'
    BY <1>1 DEF PluginsTypeOK, RowsClear, CallsNamed
<1>3. AloneOnly'
    BY <1>1 DEF PluginsTypeOK, AloneOnly, CallsNamed
<1>4. AloneDid'
    BY <1>1 DEF AloneDid
<1>5. plugin[p].status = "none" /\ plugin'[p].status = "none" /\ plugin'[p].row
    BY <1>1 DEF PluginsTypeOK, RowsClear
<1>6. \A q \in PluginNames \ {p} : plugin'[q] = plugin[q] /\ left'[q] = left[q]
    BY <1>1 DEF PluginsTypeOK
<1>7. SureRow'
    BY <1>1, <1>5, <1>6 DEF SureRow
<1>8. DeployingIsServed'
    BY <1>1, <1>5, <1>6 DEF DeployingIsServed
<1>. QED BY <1>2, <1>3, <1>4, <1>7, <1>8

LEMMA BeginCallInv ==
    ASSUME PluginsInv, NEW r \in Calls, NEW p \in PluginNames,
           NEW op \in {"deploy", "stop", "resume", "delete"}, BeginCall(r, op, p)
    PROVE  PluginsInv'
<1>. USE PluginsAssumption DEF PluginsInv, PluginsAssumption
<1>1. PluginsTypeOK'
    <2>1. /\ UNCHANGED <<plugin, project, left>> /\ sure' \in [PluginNames -> BOOLEAN]
          /\ call \in [Calls -> CallRecord]
        BY DEF BeginCall, PluginsTypeOK, CallRecord, CallPc
    <2>2. ASSUME NEW k \in Calls
          PROVE  call'[k] \in CallRecord
        <3>1. CASE k = r
            BY <3>1 DEF BeginCall, CallRecord, CallPc
        <3>2. CASE k # r /\ call[k].p = p
            <4>1. call'[k] = [call[k] EXCEPT !.alone = FALSE]
                BY <3>2 DEF BeginCall
            <4>. QED BY <2>1, <4>1 DEF CallRecord
        <3>3. CASE k # r /\ call[k].p # p
            BY <2>1, <3>3 DEF BeginCall
        <3>. QED BY <3>1, <3>2, <3>3
    <2>3. call' = [k \in Calls |-> call'[k]]
        BY DEF BeginCall
    <2>. QED BY <2>1, <2>2, <2>3 DEF PluginsTypeOK, CallRecord, CallPc
<1>2. /\ call[r].pc = "idle" /\ plugin[p].row /\ UNCHANGED <<plugin, project, left>>
      /\ sure' = [sure EXCEPT ![p] = @ /\ Others(r, p) = {}]
      /\ \A k \in Calls \ {r} :
             call'[k] = IF call[k].p = p THEN [call[k] EXCEPT !.alone = FALSE] ELSE call[k]
    BY DEF BeginCall
<1>3. PICK pc \in {"validate", "read", "row"}, alone \in BOOLEAN :
          /\ call'[r] = [p |-> p, op |-> op, alone |-> alone, pc |-> pc]
          /\ alone <=> Others(r, p) = {}
          /\ pc = "row" => plugin[p].status \notin {"deployed", "deploying"}
    <2>1. CASE Others(r, p) = {}
        BY <2>1 DEF BeginCall, Running
    <2>2. CASE Others(r, p) # {}
        BY <2>2 DEF BeginCall, Running
    <2>. QED BY <2>1, <2>2
<1>4. \A k \in Calls \ {r} :
          /\ call'[k].p = call[k].p /\ call'[k].pc = call[k].pc
          /\ call'[k].alone <=> call[k].alone /\ call[k].p # p
    <2>1. ASSUME NEW k \in Calls \ {r}, call[k].p = p
          PROVE  call'[k].p = call[k].p /\ call'[k].pc = call[k].pc /\ call'[k].alone = FALSE
        <3>1. call[k] \in [p : PluginNames \cup {"none"}, alone : BOOLEAN,
                           op : {"none", "deploy", "stop", "resume", "delete"},
                           pc : {"idle", "validate", "read", "deploying", "up", "params", "deployed",
                                 "failed", "down", "stopped", "row"}]
            BY DEF PluginsTypeOK
        <3>2. call'[k] = [call[k] EXCEPT !.alone = FALSE]
            BY <1>2, <2>1
        <3>. QED BY <3>1, <3>2
    <2>2. ASSUME NEW k \in Calls \ {r}, call[k].p # p
          PROVE  call'[k] = call[k]
        BY <1>2, <2>2
    <2>. QED BY <2>1, <2>2
<1>4a. /\ call'[r].p = p /\ call'[r].pc \in {"validate", "read", "row"} /\ call'[r].pc = pc
       /\ call'[r].alone <=> Others(r, p) = {}
    <2>1. call'[r].p = p /\ call'[r].pc = pc /\ call'[r].alone = alone
        BY <1>3
    <2>. QED BY <1>3, <2>1
<1>4b. \A q \in PluginNames : sure'[q] <=> sure[q] /\ (q = p => Others(r, p) = {})
    BY <1>2 DEF PluginsTypeOK
<1>4c. Others(r, p) = {} <=> \A k \in Calls \ {r} : call[k].p # p
    BY DEF Others
<1>5. RowsClear' /\ CallsNamed'
    BY <1>2, <1>3, <1>4 DEF RowsClear, CallsNamed
<1>6. AloneOnly'
    <2>1. ASSUME NEW k \in Calls \ {r}, call[k].pc # "idle"
          PROVE  IF call[k].alone /\ call[k].p # p
                 THEN plugin[call[k].p].row /\ \A j \in Calls \ {k} : call'[j].p # call[k].p
                 ELSE ~sure'[call[k].p]
        BY <1>2, <1>4, <1>4a, <1>4b, <1>4c, <2>1 DEF AloneOnly, CallsNamed
    <2>2. IF call'[r].alone
          THEN plugin[p].row /\ \A j \in Calls \ {r} : call'[j].p # p
          ELSE ~sure'[p]
        BY <1>2, <1>4, <1>4a, <1>4b, <1>4c
    <2>. QED BY <1>2, <1>4, <1>4a, <2>1, <2>2 DEF AloneOnly
<1>7. AloneDid'
    <2>2. ASSUME sure[p], Others(r, p) = {}, pc = "row"
          PROVE  project[p] = "down"
        <3>1. \A k \in Calls : call[k].p # p
            BY <1>2, <2>2 DEF Others, CallsNamed
        <3>. QED BY <1>3, <2>2, <3>1 DEF SureRow
    <2>. QED BY <1>2, <1>4, <1>4a, <1>4b, <2>2 DEF AloneDid, CallsNamed
<1>8. SureRow'
    BY <1>2, <1>4, <1>4a, <1>4b DEF SureRow, CallsNamed
<1>9. DeployingIsServed'
    BY <1>2, <1>4 DEF DeployingIsServed
<1>. QED BY <1>1, <1>5, <1>6, <1>7, <1>8, <1>9

\* The steps of a call that has begun.
CallStep(r) ==
    \/ Validate(r) \/ ReadParameters(r) \/ MarkDeploying(r) \/ Up(r) \/ UpFails(r)
    \/ UpdateDeploymentMetadata(r) \/ MarkFailed(r) \/ MarkDeployed(r) \/ Down(r) \/ DownFails(r)
    \/ MarkStopped(r) \/ DeletePlugin(r) \/ BreakOff(r)

\* What such a step of call r on plugin p may do: to other calls and other
\* plugins nothing, and to its own what keeps the invariant of the two.
Local(r, p) ==
    /\ \A k \in Calls \ {r} : call'[k] = call[k]
    /\ \A q \in PluginNames \ {p} : /\ plugin'[q] = plugin[q] /\ project'[q] = project[q]
                                    /\ sure'[q] = sure[q] /\ left'[q] = left[q]
    /\ IF call'[r].pc = "idle" THEN call'[r].p = "none"
       ELSE call'[r].p = p /\ (call'[r].alone <=> call[r].alone)
    /\ plugin'[p].row \/ plugin'[p].status = "none"
    /\ sure'[p] => sure[p] \/ call[r].alone

LocalRow(r, p) ==
    /\ plugin[p].row => plugin'[p].row \/ call'[r].pc = "idle"
    /\ plugin'[p].status = "deploying" /\ ~left'[p] =>
           \/ call'[r].pc \in {"up", "params", "deployed", "failed"}
           \/ /\ plugin[p].status = "deploying" /\ ~left[p]
              /\ call[r].pc \notin {"up", "params", "deployed", "failed"}

LocalProject(r, p) == call[r].alone =>
    /\ call'[r].pc \in {"params", "deployed"} => project'[p] = "up"
    /\ call'[r].pc = "stopped" \/ (call'[r].pc = "row" /\ sure'[p]) => project'[p] = "down"
    /\ call'[r].pc = "idle" /\ sure'[p] =>
           /\ plugin'[p].status \in {"none", "deployed", "stopped"}
           /\ project'[p] = IF plugin'[p].status = "deployed" THEN "up" ELSE "down"

LEMMA LocalInv ==
    ASSUME PluginsInv, PluginsTypeOK', NEW r \in Calls, NEW p \in PluginNames,
           call[r].p = p, call[r].pc # "idle",
           Local(r, p), LocalRow(r, p), LocalProject(r, p)
    PROVE  PluginsInv'
<1>. USE PluginsAssumption DEF PluginsInv, PluginsAssumption
<1>0. /\ call[r].alone => plugin[p].row /\ \A k \in Calls \ {r} : call[k].p # p
      /\ ~call[r].alone => ~sure[p] /\ ~sure'[p]
    BY DEF AloneOnly, Local
<1>1. RowsClear' /\ CallsNamed'
    BY DEF Local, RowsClear, CallsNamed
<1>2. AloneOnly'
    <2>1. ASSUME NEW k \in Calls \ {r}, call[k].pc # "idle"
          PROVE  IF call[k].alone
                 THEN plugin'[call[k].p].row /\ \A j \in Calls \ {k} : call'[j].p # call[k].p
                 ELSE ~sure'[call[k].p]
        <3>1. CASE call[k].p = p
            BY <1>0, <2>1, <3>1 DEF AloneOnly
        <3>2. CASE call[k].p # p
            BY <2>1, <3>2 DEF AloneOnly, CallsNamed, Local
        <3>. QED BY <3>1, <3>2
    <2>2. CASE call'[r].pc # "idle"
        BY <1>0, <2>1, <2>2 DEF AloneOnly, Local, LocalRow
    <2>3. CASE call'[r].pc = "idle"
        BY <2>1, <2>3 DEF AloneOnly, Local
    <2>. QED BY <2>2, <2>3
<1>3. AloneDid'
    <2>1. ASSUME NEW k \in Calls \ {r}, call[k].alone, call[k].pc # "idle"
          PROVE  call[k].p \in PluginNames \ {p}
        BY <2>1 DEF AloneOnly, CallsNamed
    <2>. QED BY <2>1 DEF AloneDid, Local, LocalProject
<1>4. SureRow'
    BY <1>0 DEF SureRow, Local, LocalProject
<1>5. DeployingIsServed'
    BY DEF DeployingIsServed, Local, LocalRow
<1>. QED BY <1>1, <1>2, <1>3, <1>4, <1>5

LEMMA CallStepTyped ==
    ASSUME PluginsInv, NEW r \in Calls, CallStep(r)
    PROVE  PluginsTypeOK'
<1>. USE DEF CallTo, EndCall, Doubt, GiveUp
<1>0. /\ plugin \in [PluginNames -> PluginRow] /\ call \in [Calls -> CallRecord]
      /\ call[r].pc # "idle" /\ call[r].p \in PluginNames
    BY DEF PluginsInv, PluginsTypeOK, PluginRow, CallRecord, CallPc, CallsNamed, CallStep, Validate,
           ReadParameters, MarkDeploying, Up, UpFails, UpdateDeploymentMetadata, MarkFailed,
           MarkDeployed, Down, DownFails, MarkStopped, DeletePlugin, BreakOff
<1>1. call' \in [Calls -> CallRecord]
    <2>1. (\E x \in CallPc : CallTo(r, x)) \/ EndCall(r) \/ call' = call
        BY DEF CallPc, CallStep, Validate, ReadParameters, MarkDeploying, Up, UpFails,
               UpdateDeploymentMetadata, MarkFailed, MarkDeployed, Down, DownFails, MarkStopped,
               DeletePlugin, BreakOff
    <2>2. CallIdle \in CallRecord
        BY DEF CallIdle, CallRecord, CallPc
    <2>. QED BY <1>0, <2>1, <2>2, CallTyped DEF PluginsInv
<1>2. plugin' \in [PluginNames -> PluginRow]
    <2>. DEFINE p == call[r].p
    <2>1. \/ plugin' = plugin
          \/ \E x \in {"deploying", "deployed", "failed", "stopped"} : plugin' = [plugin EXCEPT ![p].status = x]
          \/ plugin' = [plugin EXCEPT ![p].params = TRUE]
          \/ plugin' = [plugin EXCEPT ![p] = NoRow]
        BY DEF CallStep, Validate, ReadParameters, MarkDeploying, Up, UpFails, WriteStatus,
               UpdateDeploymentMetadata, MarkFailed, MarkDeployed, Down, DownFails, MarkStopped,
               DeletePlugin, BreakOff
    <2>2. plugin[p] \in PluginRow /\ NoRow \in PluginRow
        BY <1>0 DEF PluginRow, NoRow
    <2>3. \A x \in {"deploying", "deployed", "failed", "stopped"} :
              [plugin[p] EXCEPT !.status = x] \in PluginRow
        BY <2>2 DEF PluginRow
    <2>4. [plugin[p] EXCEPT !.params = TRUE] \in PluginRow
        BY <2>2 DEF PluginRow
    <2>. QED BY <1>0, <2>1, <2>2, <2>3, <2>4
<1>3. project' \in [PluginNames -> {"down", "part", "up"}]
    BY <1>0 DEF PluginsInv, PluginsTypeOK, CallStep, Validate, ReadParameters, MarkDeploying, Up, UpFails,
           UpdateDeploymentMetadata, MarkFailed, MarkDeployed, Down, DownFails, MarkStopped,
           DeletePlugin, BreakOff
<1>4. sure' \in [PluginNames -> BOOLEAN] /\ left' \in [PluginNames -> BOOLEAN]
    BY <1>0 DEF PluginsInv, PluginsTypeOK, CallStep, Validate, ReadParameters, MarkDeploying, Up, UpFails,
           UpdateDeploymentMetadata, MarkFailed, MarkDeployed, Down, DownFails, MarkStopped,
           DeletePlugin, BreakOff, WriteStatus
<1>. QED BY <1>1, <1>2, <1>3, <1>4 DEF PluginsTypeOK, PluginRow, CallRecord, CallPc

LEMMA CallStepInv ==
    ASSUME PluginsInv, NEW r \in Calls, CallStep(r)
    PROVE  PluginsInv'
<1>. DEFINE p == call[r].p
<1>. USE DEF CallTo, EndCall, Doubt, GiveUp, WriteStatus, CallIdle, NoRow, Local, LocalRow, LocalProject
<1>0. PluginsTypeOK /\ call[r].pc # "idle" /\ p \in PluginNames
    BY DEF PluginsInv, CallsNamed, CallStep, Validate, ReadParameters, MarkDeploying, Up, UpFails,
           UpdateDeploymentMetadata, MarkFailed, MarkDeployed, Down, DownFails, MarkStopped,
           DeletePlugin, BreakOff
<1>a. /\ plugin[p].row \/ plugin[p].status = "none"
      /\ ~call[r].alone => ~sure[p]
      /\ call[r].alone =>
             /\ plugin[p].row
             /\ call[r].pc \in {"params", "deployed"} => project[p] = "up"
             /\ call[r].pc = "stopped" \/ (call[r].pc = "row" /\ sure[p]) => project[p] = "down"
    BY <1>0 DEF PluginsInv, RowsClear, AloneOnly, AloneDid
<1>1. CASE Validate(r)
    <2>1. Local(r, p)
        BY <1>0, <1>a, <1>1 DEF Validate, PluginsTypeOK
    <2>2. LocalRow(r, p)
        BY <1>0, <1>a, <1>1 DEF Validate, PluginsTypeOK
    <2>3. LocalProject(r, p)
        BY <1>0, <1>a, <1>1 DEF Validate, PluginsTypeOK
    <2>. QED BY <1>0, <2>1, <2>2, <2>3, LocalInv, CallStepTyped
<1>2. CASE ReadParameters(r)
    <2>1. Local(r, p)
        BY <1>0, <1>a, <1>2 DEF ReadParameters, PluginsTypeOK
    <2>2. LocalRow(r, p)
        BY <1>0, <1>a, <1>2 DEF ReadParameters, PluginsTypeOK
    <2>3. LocalProject(r, p)
        BY <1>0, <1>a, <1>2 DEF ReadParameters, PluginsTypeOK
    <2>. QED BY <1>0, <2>1, <2>2, <2>3, LocalInv, CallStepTyped
<1>3. CASE MarkDeploying(r)
    <2>1. Local(r, p)
        BY <1>0, <1>a, <1>3 DEF MarkDeploying, PluginsTypeOK
    <2>2. LocalRow(r, p)
        BY <1>0, <1>a, <1>3 DEF MarkDeploying, PluginsTypeOK
    <2>3. LocalProject(r, p)
        BY <1>0, <1>a, <1>3 DEF MarkDeploying, PluginsTypeOK
    <2>. QED BY <1>0, <2>1, <2>2, <2>3, LocalInv, CallStepTyped
<1>4. CASE Up(r)
    <2>1. Local(r, p)
        BY <1>0, <1>a, <1>4 DEF Up, PluginsTypeOK
    <2>2. LocalRow(r, p)
        BY <1>0, <1>a, <1>4 DEF Up, PluginsTypeOK
    <2>3. LocalProject(r, p)
        BY <1>0, <1>a, <1>4 DEF Up, PluginsTypeOK
    <2>. QED BY <1>0, <2>1, <2>2, <2>3, LocalInv, CallStepTyped
<1>5. CASE UpFails(r)
    <2>1. Local(r, p)
        BY <1>0, <1>a, <1>5 DEF UpFails, PluginsTypeOK
    <2>2. LocalRow(r, p)
        BY <1>0, <1>a, <1>5 DEF UpFails, PluginsTypeOK
    <2>3. LocalProject(r, p)
        BY <1>0, <1>a, <1>5 DEF UpFails, PluginsTypeOK
    <2>. QED BY <1>0, <2>1, <2>2, <2>3, LocalInv, CallStepTyped
<1>6. CASE UpdateDeploymentMetadata(r)
    <2>1. Local(r, p)
        BY <1>0, <1>a, <1>6 DEF UpdateDeploymentMetadata, PluginsTypeOK
    <2>2. LocalRow(r, p)
        BY <1>0, <1>a, <1>6 DEF UpdateDeploymentMetadata, PluginsTypeOK
    <2>3. LocalProject(r, p)
        BY <1>0, <1>a, <1>6 DEF UpdateDeploymentMetadata, PluginsTypeOK
    <2>. QED BY <1>0, <2>1, <2>2, <2>3, LocalInv, CallStepTyped
<1>7. CASE MarkFailed(r)
    <2>1. Local(r, p)
        <3>1. CASE EndCall(r)
            BY <1>0, <1>a, <1>7, <3>1 DEF MarkFailed, PluginsTypeOK
        <3>2. CASE call' = call
            BY <1>0, <1>a, <1>7, <3>2 DEF MarkFailed, PluginsTypeOK
        <3>. QED BY <1>7, <3>1, <3>2 DEF MarkFailed
    <2>2. LocalRow(r, p)
        BY <1>0, <1>a, <1>7 DEF MarkFailed, PluginsTypeOK
    <2>3. LocalProject(r, p)
        BY <1>0, <1>a, <1>7 DEF MarkFailed, PluginsTypeOK
    <2>. QED BY <1>0, <2>1, <2>2, <2>3, LocalInv, CallStepTyped
<1>8. CASE MarkDeployed(r)
    <2>1. Local(r, p)
        BY <1>0, <1>a, <1>8 DEF MarkDeployed, PluginsTypeOK
    <2>2. LocalRow(r, p)
        BY <1>0, <1>a, <1>8 DEF MarkDeployed, PluginsTypeOK
    <2>3. LocalProject(r, p)
        BY <1>0, <1>a, <1>8 DEF MarkDeployed, PluginsTypeOK
    <2>. QED BY <1>0, <2>1, <2>2, <2>3, LocalInv, CallStepTyped
<1>9. CASE Down(r)
    <2>1. Local(r, p)
        BY <1>0, <1>a, <1>9 DEF Down, PluginsTypeOK
    <2>2. LocalRow(r, p)
        BY <1>0, <1>a, <1>9 DEF Down, PluginsTypeOK
    <2>3. LocalProject(r, p)
        BY <1>0, <1>a, <1>9 DEF Down, PluginsTypeOK
    <2>. QED BY <1>0, <2>1, <2>2, <2>3, LocalInv, CallStepTyped
<1>10. CASE DownFails(r)
    <2>0. /\ call' = [call EXCEPT ![r].pc = "row"] \/ call' = [call EXCEPT ![r] = CallIdle]
          /\ sure' = [sure EXCEPT ![p] = FALSE] /\ UNCHANGED <<plugin, left>>
          /\ \E x : project' = [project EXCEPT ![p] = x]
        BY <1>10 DEF DownFails
    <2>1. Local(r, p)
        <3>1. /\ ~sure'[p] /\ plugin'[p] = plugin[p]
              /\ \A q \in PluginNames \ {p} : /\ plugin'[q] = plugin[q] /\ project'[q] = project[q]
                                              /\ sure'[q] = sure[q] /\ left'[q] = left[q]
            BY <1>0, <2>0 DEF PluginsTypeOK
        <3>2. /\ \A k \in Calls \ {r} : call'[k] = call[k]
              /\ IF call'[r].pc = "idle" THEN call'[r].p = "none"
                 ELSE call'[r].p = p /\ call'[r].alone = call[r].alone
            BY <1>0, <2>0 DEF PluginsTypeOK
        <3>. QED BY <1>a, <3>1, <3>2
    <2>2. LocalRow(r, p)
        <3>1. call'[r].pc \in {"row", "idle"}
            BY <1>0, <2>0 DEF PluginsTypeOK
        <3>2. call[r].pc = "down"
            BY <1>10 DEF DownFails
        <3>. QED BY <2>0, <3>1, <3>2
    <2>3. LocalProject(r, p)
        <3>1. ~sure'[p]
            BY <1>0, <2>0 DEF PluginsTypeOK
        <3>2. call'[r].pc \in {"row", "idle"}
            BY <1>0, <2>0 DEF PluginsTypeOK
        <3>. QED BY <3>1, <3>2
    <2>. QED BY <1>0, <2>1, <2>2, <2>3, LocalInv, CallStepTyped
<1>11. CASE MarkStopped(r)
    <2>1. Local(r, p)
        <3>1. /\ project' = project /\ sure' = [sure EXCEPT ![p] = @ \/ call[r].alone]
              /\ left' = [left EXCEPT ![p] = FALSE]
              /\ plugin' = IF plugin[p].row THEN [plugin EXCEPT ![p].status = "stopped"] ELSE plugin
              /\ EndCall(r) \/ CallTo(r, "row")
            BY <1>0, <1>11 DEF MarkStopped, WriteStatus
        <3>2. /\ sure'[p] => sure[p] \/ call[r].alone
              /\ \A q \in PluginNames \ {p} : /\ plugin'[q] = plugin[q] /\ project'[q] = project[q]
                                              /\ sure'[q] = sure[q] /\ left'[q] = left[q]
            BY <1>0, <3>1 DEF PluginsTypeOK
        <3>3. /\ \A k \in Calls \ {r} : call'[k] = call[k]
              /\ IF call'[r].pc = "idle" THEN call'[r].p = "none"
                 ELSE call'[r].p = p /\ call'[r].alone = call[r].alone
            BY <1>0, <3>1 DEF PluginsTypeOK
        <3>4. plugin'[p].row \/ plugin'[p].status = "none"
            BY <1>0, <1>a, <3>1 DEF PluginsTypeOK
        <3>. QED BY <3>2, <3>3, <3>4
    <2>2. LocalRow(r, p)
        BY <1>0, <1>a, <1>11 DEF MarkStopped, PluginsTypeOK
    <2>3. LocalProject(r, p)
        BY <1>0, <1>a, <1>11 DEF MarkStopped, PluginsTypeOK
    <2>. QED BY <1>0, <2>1, <2>2, <2>3, LocalInv, CallStepTyped
<1>12. CASE DeletePlugin(r)
    <2>1. Local(r, p)
        BY <1>0, <1>a, <1>12 DEF DeletePlugin, PluginsTypeOK
    <2>2. LocalRow(r, p)
        BY <1>0, <1>a, <1>12 DEF DeletePlugin, PluginsTypeOK
    <2>3. LocalProject(r, p)
        BY <1>0, <1>a, <1>12 DEF DeletePlugin, PluginsTypeOK
    <2>. QED BY <1>0, <2>1, <2>2, <2>3, LocalInv, CallStepTyped
<1>13. CASE BreakOff(r)
    <2>1. Local(r, p)
        BY <1>0, <1>a, <1>13 DEF BreakOff, PluginsTypeOK
    <2>2. LocalRow(r, p)
        BY <1>0, <1>a, <1>13 DEF BreakOff, PluginsTypeOK
    <2>3. LocalProject(r, p)
        BY <1>0, <1>a, <1>13 DEF BreakOff, PluginsTypeOK
    <2>. QED BY <1>0, <2>1, <2>2, <2>3, LocalInv, CallStepTyped
<1>. QED BY <1>1, <1>2, <1>3, <1>4, <1>5, <1>6, <1>7, <1>8, <1>9, <1>10, <1>11, <1>12, <1>13 DEF CallStep

LEMMA PluginsStep == PluginsInv /\ [PluginsNext]_pluginVars => PluginsInv'
<1>1. PluginsInv /\ PluginsNext => PluginsInv'
    BY CreatePluginInv, BeginCallInv, CallStepInv DEF PluginsNext, CallStep
<1>2. PluginsInv /\ UNCHANGED pluginVars => PluginsInv'
    BY DEF PluginsInv, pluginVars, PluginsTypeOK, RowsClear, CallsNamed, AloneOnly, AloneDid, SureRow,
           DeployingIsServed
<1>. QED BY <1>1, <1>2

LEMMA PluginsAlways == PluginsSpec => []PluginsInv
BY PluginsStart, PluginsStep, PTL DEF PluginsSpec

LEMMA PluginsHold == PluginsInv => DeployingIsServed /\ StatusIsProject
BY DEF PluginsInv, SureRow, RowsClear, StatusIsProject

(* No order of overlapping, failing and ending calls leaves a plugin       *)
(* "deploying" without a call that will still write how it ended.          *)
THEOREM DeployingAlwaysServed == PluginsSpec => []DeployingIsServed
BY PluginsAlways, PluginsHold, PTL

(* For any number of plugins and calls, a row that nothing cast doubt on   *)
(* tells the truth about the containers.                                   *)
THEOREM StatusTellsProject == PluginsSpec => []StatusIsProject
BY PluginsAlways, PluginsHold, PTL

-----------------------------------------------------------------------------
(* Fabric-X networks.                                                      *)

\* Once all are joined, some join is on the way to its check.
LastIsChecking ==
    AllFabricXNodesJoined /\ ~seen.missed => seen.begun \/ \E j \in Joins : join[j].pc \in {"start", "check"}

\* Verifications that have a record of their own and are not through with it.
Sending == {v \in Verifiers : verify[v] \in {"open", "broadcast"}}

\* Each record the network has or had pays for one transaction.
PaidFor == sent.tx + Cardinality(Sending) <=
               sent.deleted + IF record = "none" /\ network.row # "deleted" THEN 0 ELSE 1

FabricXInv == FabricXTypeOK /\ LastIsChecking /\ PaidFor

LEMMA FabricXStart == FabricXInit => FabricXInv
<1>. SUFFICES ASSUME FabricXInit PROVE FabricXInv
    OBVIOUS
<1>1. FabricXTypeOK
    BY FabricXAssumption DEF FabricXInit, FabricXTypeOK, FabricXAssumption
<1>2. LastIsChecking
    BY DEF FabricXInit, LastIsChecking, AllFabricXNodesJoined
<1>3. Sending = {}
    BY DEF FabricXInit, Sending
<1>4. PaidFor
    BY <1>3, FS_EmptySet DEF FabricXInit, PaidFor
<1>. QED BY <1>1, <1>2, <1>4 DEF FabricXInv

\* The verifications that are sending are a finite set, whose size is a number.
LEMMA SendingSize == IsFiniteSet(Sending) /\ Cardinality(Sending) \in Nat
BY FabricXAssumption, FS_Subset, FS_CardinalityType DEF FabricXAssumption, Sending

\* Steps that move one verification between states of which none has a record to send.
LEMMA SendingSame ==
    ASSUME FabricXTypeOK, NEW v \in Verifiers, NEW pc, verify' = [verify EXCEPT ![v] = pc],
           pc \in {"open", "broadcast"} <=> v \in Sending
    PROVE  Sending' = Sending
BY DEF FabricXTypeOK, Sending

LEMMA SendingLess ==
    ASSUME FabricXTypeOK, NEW v \in Verifiers, NEW pc, verify' = [verify EXCEPT ![v] = pc],
           pc \notin {"open", "broadcast"}
    PROVE  /\ v \in Sending => Cardinality(Sending') = Cardinality(Sending) - 1
           /\ v \notin Sending => Sending' = Sending
<1>1. Sending' = Sending \ {v}
    BY DEF FabricXTypeOK, Sending
<1>. QED BY <1>1, SendingSize, FS_RemoveElement

LEMMA SendingMore ==
    ASSUME FabricXTypeOK, NEW v \in Verifiers, verify' = [verify EXCEPT ![v] = "open"], v \notin Sending
    PROVE  Cardinality(Sending') = Cardinality(Sending) + 1
<1>1. Sending' = Sending \cup {v}
    BY DEF FabricXTypeOK, Sending
<1>. QED BY <1>1, SendingSize, FS_AddElement

LEMMA NetworkInv ==
    ASSUME FabricXInv,
           \/ CreateNetworkRow \/ UpdateNetworkGenesisBlock \/ UpdateNetworkStatus \/ CreateNetworkFails
           \/ DeleteNetwork \/ CommitBlock \/ DeleteNamespaceRecord
           \/ \E n \in FxNodes : AssociateNode(n)
    PROVE  FabricXInv'
<1>. USE DEF FabricXInv, networkRows, ledgerVars
<1>1. FabricXTypeOK'
    <2>. USE DEF FabricXTypeOK
    <2>1. CASE CreateNetworkRow
        BY <2>1 DEF CreateNetworkRow
    <2>2. CASE UpdateNetworkGenesisBlock
        BY <2>2 DEF UpdateNetworkGenesisBlock
    <2>3. CASE UpdateNetworkStatus
        BY <2>3 DEF UpdateNetworkStatus
    <2>4. CASE CreateNetworkFails
        BY <2>4 DEF CreateNetworkFails
    <2>5. CASE DeleteNetwork
        BY <2>5 DEF DeleteNetwork
    <2>6. CASE CommitBlock
        BY <2>6 DEF CommitBlock
    <2>7. CASE DeleteNamespaceRecord
        <3>1. [sent EXCEPT !.deleted = @ + 1] \in [tx : Nat, deleted : 0..MaxRecords]
            BY <2>7, FabricXAssumption DEF DeleteNamespaceRecord, FabricXAssumption
        <3>. QED BY <2>7, <3>1 DEF DeleteNamespaceRecord
    <2>8. CASE \E n \in FxNodes : AssociateNode(n)
        BY <2>8 DEF AssociateNode
    <2>. QED BY <2>1, <2>2, <2>3, <2>4, <2>5, <2>6, <2>7, <2>8
<1>2. LastIsChecking'
    BY DEF LastIsChecking, AllFabricXNodesJoined, FabricXTypeOK, CreateNetworkRow, UpdateNetworkGenesisBlock,
        UpdateNetworkStatus, CreateNetworkFails, DeleteNetwork, CommitBlock, DeleteNamespaceRecord,
        AssociateNode
<1>3. Sending' = Sending
    BY DEF Sending, CreateNetworkRow, UpdateNetworkGenesisBlock, UpdateNetworkStatus, CreateNetworkFails,
        DeleteNetwork, CommitBlock, DeleteNamespaceRecord, AssociateNode
<1>4. PaidFor'
    <2>1. CASE DeleteNetwork
        BY <1>3, <2>1, SendingSize DEF PaidFor, DeleteNetwork, FabricXTypeOK
    <2>2. CASE DeleteNamespaceRecord
        BY <1>3, <2>2, SendingSize DEF PaidFor, DeleteNamespaceRecord, FabricXTypeOK
    <2>3. CASE ~DeleteNetwork /\ ~DeleteNamespaceRecord
        <3>1. UNCHANGED <<sent, record>> /\ (network'.row = "deleted" <=> network.row = "deleted")
            BY <2>3 DEF CreateNetworkRow, UpdateNetworkGenesisBlock, UpdateNetworkStatus, CreateNetworkFails,
                CommitBlock, AssociateNode, FabricXTypeOK
        <3>. QED BY <1>3, <3>1 DEF PaidFor
    <2>. QED BY <2>1, <2>2, <2>3
<1>. QED BY <1>1, <1>2, <1>4

LEMMA JoinInv ==
    ASSUME FabricXInv, NEW j \in Joins, FabricXJoin(j)
    PROVE  FabricXInv'
<1>. USE DEF FabricXInv, networkRows, ledgerVars, JoinTo, EndJoin, At
<1>1. ASSUME NEW n \in FxNodes, BeginJoin(j, n)
      PROVE  FabricXTypeOK' /\ LastIsChecking' /\ UNCHANGED <<network, ledgerVars, verify>>
    BY <1>1 DEF BeginJoin, FabricXTypeOK, LastIsChecking, AllFabricXNodesJoined
<1>2. ASSUME SetFabricXGenesisBlock(j)
      PROVE  FabricXTypeOK' /\ LastIsChecking' /\ UNCHANGED <<network, ledgerVars, verify>>
    <2>1. CASE JoinTo(j, "joined")
        BY <1>2, <2>1 DEF SetFabricXGenesisBlock, FabricXTypeOK, LastIsChecking, AllFabricXNodesJoined
    <2>2. CASE EndJoin(j)
        BY <1>2, <2>2 DEF SetFabricXGenesisBlock, FabricXTypeOK, LastIsChecking, AllFabricXNodesJoined
    <2>. QED BY <1>2, <2>1, <2>2 DEF SetFabricXGenesisBlock
<1>3. ASSUME UpdateNetworkNodeStatus(j)
      PROVE  FabricXTypeOK' /\ LastIsChecking' /\ UNCHANGED <<network, ledgerVars, verify>>
    <2>1. member' \in [FxNodes -> {"none", "pending", "joined"}] /\ join' = [join EXCEPT ![j].pc = "start"]
        BY <1>3 DEF UpdateNetworkNodeStatus, FabricXTypeOK
    <2>2. join'[j].pc = "start"
        BY <2>1 DEF FabricXTypeOK
    <2>3. LastIsChecking'
        BY <2>2 DEF LastIsChecking
    <2>4. join' \in [Joins -> [node : FxNodes \cup {"none"}, pc : {"idle", "disk", "joined", "start", "check"}]]
        BY <2>1 DEF FabricXTypeOK
    <2>. QED BY <1>3, <2>1, <2>3, <2>4 DEF UpdateNetworkNodeStatus, FabricXTypeOK
<1>4. ASSUME StartNode(j)
      PROVE  FabricXTypeOK' /\ LastIsChecking' /\ UNCHANGED <<network, ledgerVars, verify>>
    <2>1. /\ join' = [join EXCEPT ![j].pc = "check"] /\ join[j].pc = "start"
          /\ UNCHANGED <<network, member, ledgerVars, seen, creator, verify>>
        BY <1>4 DEF StartNode
    <2>2. FabricXTypeOK'
        BY <2>1 DEF FabricXTypeOK
    <2>3. join'[j].pc = "check"
        BY <2>1 DEF FabricXTypeOK
    <2>4. LastIsChecking'
        BY <2>3 DEF LastIsChecking
    <2>. QED BY <2>1, <2>2, <2>4
<1>5. ASSUME StartNodeFails(j)
      PROVE  FabricXTypeOK' /\ LastIsChecking' /\ UNCHANGED <<network, ledgerVars, verify>>
    <2>1. CASE JoinTo(j, "check") /\ seen' = seen
        <3>1. /\ join' = [join EXCEPT ![j].pc = "check"] /\ seen' = seen
              /\ UNCHANGED <<network, member, ledgerVars, creator, verify>>
            BY <1>5, <2>1 DEF StartNodeFails
        <3>2. /\ join' \in [Joins -> [node : FxNodes \cup {"none"},
                                       pc   : {"idle", "disk", "joined", "start", "check"}]]
              /\ join'[j].pc = "check"
            BY <3>1 DEF FabricXTypeOK
        <3>3. FabricXTypeOK'
            BY <3>1, <3>2 DEF FabricXTypeOK
        <3>4. LastIsChecking'
            BY <3>2 DEF LastIsChecking
        <3>. QED BY <3>1, <3>3, <3>4
    <2>2. CASE EndJoin(j) /\ seen' = [seen EXCEPT !.missed = TRUE]
        <3>1. UNCHANGED <<network, member, ledgerVars, creator, verify>>
            BY <1>5 DEF StartNodeFails
        <3>2. join' \in [Joins -> [node : FxNodes \cup {"none"},
                                   pc   : {"idle", "disk", "joined", "start", "check"}]]
            BY <2>2 DEF FabricXTypeOK
        <3>3. seen' \in [missed : BOOLEAN, begun : BOOLEAN] /\ seen'.missed
            BY <2>2 DEF FabricXTypeOK
        <3>4. FabricXTypeOK'
            BY <3>1, <3>2, <3>3 DEF FabricXTypeOK
        <3>. QED BY <3>1, <3>3, <3>4 DEF LastIsChecking
    <2>3. \/ JoinTo(j, "check") /\ seen' = seen
          \/ EndJoin(j) /\ seen' = [seen EXCEPT !.missed = TRUE]
        BY <1>5 DEF StartNodeFails
    <2>. QED BY <2>1, <2>2, <2>3
<1>7. ASSUME JoinCut(j)
      PROVE  FabricXTypeOK' /\ LastIsChecking' /\ UNCHANGED <<network, ledgerVars, verify>>
    <2>1. FabricXTypeOK'
        <3>1. seen' \in [missed : BOOLEAN, begun : BOOLEAN]
            BY <1>7 DEF JoinCut, FabricXTypeOK
        <3>2. join' \in [Joins -> [node : FxNodes \cup {"none"},
                                   pc   : {"idle", "disk", "joined", "start", "check"}]]
            BY <1>7 DEF JoinCut, FabricXTypeOK
        <3>3. UNCHANGED <<network, member, record, ledger, sent, creator, verify>>
            BY <1>7 DEF JoinCut
        <3>. QED BY <3>1, <3>2, <3>3 DEF FabricXTypeOK
    <2>2. CASE join[j].pc \in {"start", "check"}
        BY <1>7, <2>1, <2>2 DEF JoinCut, FabricXTypeOK, LastIsChecking
    <2>3. CASE join[j].pc \notin {"start", "check"}
        <3>1. seen'.missed = seen.missed /\ seen'.begun = seen.begun /\ member' = member
            BY <1>7, <2>3 DEF JoinCut, FabricXTypeOK
        <3>2. \A k \in Joins \ {j} : join'[k] = join[k]
            BY <1>7 DEF JoinCut, FabricXTypeOK
        <3>. QED BY <1>7, <2>1, <2>3, <3>1, <3>2 DEF JoinCut, LastIsChecking, AllFabricXNodesJoined
    <2>. QED BY <1>7, <2>2, <2>3, <2>1 DEF JoinCut
<1>6. ASSUME CheckJoins(j)
      PROVE  FabricXInv'
    <2>1. CASE AllFabricXNodesJoined
        <3>1. PICK v \in Verifiers : Verify(v)
            BY <1>6, <2>1 DEF CheckJoins
        <3>2. Sending' = Sending
            BY <3>1, SendingSame DEF Verify, Sending
        <3>3. FabricXTypeOK'
            <4>1. /\ verify' = [verify EXCEPT ![v] = "list"] /\ seen' = [seen EXCEPT !.begun = TRUE]
                  /\ join' = [join EXCEPT ![j] = [node |-> "none", pc |-> "idle"]]
                  /\ UNCHANGED <<network, member, ledgerVars, creator>>
                BY <1>6, <3>1 DEF CheckJoins, Verify
            <4>2. verify' \in [Verifiers -> {"idle", "list", "insert", "open", "broadcast", "await", "unconfirmed",
                                             "committed", "failed", "running", "verification_failed"}]
                BY <4>1 DEF FabricXTypeOK
            <4>. QED BY <4>1, <4>2, ZenonT(40) DEF FabricXTypeOK
        <3>4. LastIsChecking'
            BY <3>1 DEF Verify, LastIsChecking, FabricXTypeOK
        <3>5. PaidFor'
            BY <1>6, <3>2 DEF CheckJoins, PaidFor
        <3>. QED BY <3>3, <3>4, <3>5
    <2>2. CASE ~AllFabricXNodesJoined
        <3>1. UNCHANGED <<networkRows, ledgerVars, creator, verify, seen>> /\ EndJoin(j)
            BY <1>6, <2>2 DEF CheckJoins
        <3>2. FabricXTypeOK'
            BY <3>1 DEF FabricXTypeOK
        <3>3. LastIsChecking'
            BY <2>2, <3>1 DEF LastIsChecking, AllFabricXNodesJoined
        <3>4. PaidFor'
            BY <3>1 DEF PaidFor, Sending
        <3>. QED BY <3>2, <3>3, <3>4
    <2>. QED BY <2>1, <2>2
<1>8. ASSUME UNCHANGED <<network, ledgerVars, verify>>
      PROVE  PaidFor'
    BY <1>8 DEF PaidFor, Sending
<1>. QED BY <1>1, <1>2, <1>3, <1>4, <1>5, <1>6, <1>7, <1>8 DEF FabricXJoin

LEMMA VerifyInv ==
    ASSUME FabricXInv, NEW v \in Verifiers, FabricXVerify(v)
    PROVE  FabricXInv'
<1>. USE DEF FabricXInv, networkRows, ledgerVars, VerifyTo
<1>0. LastIsChecking'
    <2>1. CASE VerifyFabricXNetwork(v)
        BY <2>1 DEF VerifyFabricXNetwork, Verify, LastIsChecking, FabricXTypeOK
    <2>2. CASE UNCHANGED <<member, seen, join>>
        BY <2>2 DEF LastIsChecking, AllFabricXNodesJoined
    <2>. QED BY <2>1, <2>2
         DEF FabricXVerify, ListNamespacesMerged, CreateRecord, CreateNamespaceFails, NoSidecar, Broadcast,
             BroadcastFails, WaitForCommit, FinalityTimeout, UpdateFabricXNamespaceStatus, WriteVerdict,
             VerifyCut
<1>1. ASSUME VerifyFabricXNetwork(v)
      PROVE  FabricXTypeOK' /\ PaidFor'
    <2>1. Sending' = Sending
        BY <1>1, SendingSame DEF VerifyFabricXNetwork, Verify, Sending
    <2>. QED BY <1>1, <2>1 DEF VerifyFabricXNetwork, Verify, FabricXTypeOK, PaidFor
<1>2. ASSUME ListNamespacesMerged(v)
      PROVE  FabricXTypeOK' /\ PaidFor'
    <2>1. PICK pc \in {"idle", "running", "insert"} : verify' = [verify EXCEPT ![v] = pc]
        BY <1>2 DEF ListNamespacesMerged
    <2>2. Sending' = Sending
        BY <1>2, <2>1, SendingSame DEF ListNamespacesMerged, Sending
    <2>3. UNCHANGED <<networkRows, ledgerVars, seen, creator, join>>
        BY <1>2 DEF ListNamespacesMerged
    <2>. QED BY <2>1, <2>2, <2>3 DEF FabricXTypeOK, PaidFor
<1>3. ASSUME CreateRecord(v)
      PROVE  FabricXTypeOK' /\ PaidFor'
    <2>0. v \notin Sending /\ UNCHANGED <<networkRows, ledger, sent, seen, creator, join>>
        BY <1>3 DEF CreateRecord, Sending
    <2>1. CASE network.row = "present" /\ record = "none"
        <3>1. record' = "pending" /\ verify' = [verify EXCEPT ![v] = "open"]
            BY <1>3, <2>1 DEF CreateRecord
        <3>2. Cardinality(Sending') = Cardinality(Sending) + 1
            BY <2>0, <3>1, SendingMore
        <3>. QED BY <2>0, <2>1, <3>1, <3>2, SendingSize DEF FabricXTypeOK, PaidFor
    <2>2. CASE ~(network.row = "present" /\ record = "none")
        <3>1. record' = record /\ verify' = [verify EXCEPT ![v] = "verification_failed"]
            BY <1>3, <2>2 DEF CreateRecord
        <3>2. Sending' = Sending
            BY <2>0, <3>1, SendingSame
        <3>. QED BY <2>0, <3>1, <3>2 DEF FabricXTypeOK, PaidFor
    <2>. QED BY <2>1, <2>2
<1>4. ASSUME NEW pc \in {"idle", "await", "unconfirmed", "committed", "failed", "verification_failed"},
             verify' = [verify EXCEPT ![v] = pc],
             UNCHANGED <<networkRows, ledgerVars, seen, creator, join>>
      PROVE  FabricXTypeOK' /\ PaidFor'
    <2>1. FabricXTypeOK'
        BY <1>4 DEF FabricXTypeOK
    <2>2. /\ v \in Sending => Cardinality(Sending') = Cardinality(Sending) - 1
          /\ v \notin Sending => Sending' = Sending
        <3>1. pc \notin {"open", "broadcast"}
            OBVIOUS
        <3>. QED BY <1>4, <3>1, SendingLess
    <2>3. sent.tx \in Nat /\ sent.deleted \in Nat
        BY FabricXAssumption DEF FabricXTypeOK, FabricXAssumption
    <2>. QED BY <1>4, <2>1, <2>2, <2>3, SendingSize DEF PaidFor
<1>5. ASSUME NoSidecar(v)
      PROVE  FabricXTypeOK' /\ PaidFor'
    <2>1. Sending' = Sending
        BY <1>5, SendingSame DEF NoSidecar, Sending
    <2>. QED BY <1>5, <2>1 DEF NoSidecar, FabricXTypeOK, PaidFor
<1>6. ASSUME NEW pc \in {"await", "unconfirmed", "failed"}, v \in Sending,
             verify' = [verify EXCEPT ![v] = pc], sent' = [sent EXCEPT !.tx = @ + 1],
             ledger' \in {ledger, "ordered"},
             UNCHANGED <<networkRows, record, seen, creator, join>>
      PROVE  FabricXTypeOK' /\ PaidFor'
    <2>1. FabricXTypeOK'
        BY <1>6 DEF FabricXTypeOK
    <2>2. Cardinality(Sending') = Cardinality(Sending) - 1
        <3>1. pc \notin {"open", "broadcast"}
            OBVIOUS
        <3>. QED BY <1>6, <3>1, SendingLess
    <2>3. sent.tx \in Nat /\ sent.deleted \in Nat
        BY FabricXAssumption DEF FabricXTypeOK, FabricXAssumption
    <2>4. sent'.tx = sent.tx + 1 /\ sent'.deleted = sent.deleted
        BY <1>6 DEF FabricXTypeOK
    <2>. QED BY <1>6, <2>1, <2>2, <2>3, <2>4, SendingSize DEF PaidFor
<1>7. ASSUME Broadcast(v)
      PROVE  FabricXTypeOK' /\ PaidFor'
    <2>1. PICK pc \in {"await", "unconfirmed"} : verify' = [verify EXCEPT ![v] = pc]
        BY <1>7 DEF Broadcast
    <2>. QED BY <1>6, <1>7, <2>1 DEF Broadcast, Sending
<1>8. ASSUME BroadcastFails(v)
      PROVE  FabricXTypeOK' /\ PaidFor'
    BY <1>4, <1>6, <1>8 DEF BroadcastFails, Sending
<1>9. ASSUME UpdateFabricXNamespaceStatus(v)
      PROVE  FabricXTypeOK' /\ PaidFor'
    <2>1. v \notin Sending /\ UNCHANGED <<networkRows, ledger, sent, seen, creator, join>>
        BY <1>9 DEF UpdateFabricXNamespaceStatus, Sending
    <2>2. PICK pc \in {"running", "verification_failed"} : verify' = [verify EXCEPT ![v] = pc]
        BY <1>9 DEF UpdateFabricXNamespaceStatus
    <2>3. /\ record' \in {"none", "broadcast", "committed", "failed"}
          /\ record' = "none" <=> record = "none"
        <3>1. CASE record = "none"
            BY <1>9, <3>1 DEF UpdateFabricXNamespaceStatus
        <3>2. CASE record # "none" /\ verify[v] = "unconfirmed"
            BY <1>9, <3>2 DEF UpdateFabricXNamespaceStatus
        <3>3. CASE record # "none" /\ verify[v] \in {"committed", "failed"}
            BY <1>9, <3>3 DEF UpdateFabricXNamespaceStatus
        <3>. QED BY <1>9, <3>1, <3>2, <3>3 DEF UpdateFabricXNamespaceStatus
    <2>4. Sending' = Sending
        <3>1. pc \notin {"open", "broadcast"}
            OBVIOUS
        <3>. QED BY <2>1, <2>2, <3>1, SendingSame
    <2>. QED BY <2>1, <2>2, <2>3, <2>4 DEF FabricXTypeOK, PaidFor
<1>10. ASSUME WriteVerdict(v)
       PROVE  FabricXTypeOK' /\ PaidFor'
    <2>1. Sending' = Sending
        BY <1>10, SendingSame DEF WriteVerdict, Sending
    <2>2. network' \in [row : {"unborn", "present", "deleted"}, genesis : BOOLEAN,
                        status : {"creating", "genesis_block_created", "running", "verification_failed"}]
          /\ network'.row = network.row
        BY <1>10 DEF WriteVerdict, FabricXTypeOK
    <2>. QED BY <1>10, <2>1, <2>2 DEF WriteVerdict, FabricXTypeOK, PaidFor
<1>11. CASE \/ CreateNamespaceFails(v) \/ WaitForCommit(v) \/ FinalityTimeout(v) \/ VerifyCut(v)
    <2>1. UNCHANGED <<networkRows, ledgerVars, seen, creator, join>>
        BY <1>11 DEF CreateNamespaceFails, WaitForCommit, FinalityTimeout, VerifyCut
    <2>2. PICK pc \in {"verification_failed", "committed", "failed", "idle"} :
              verify' = [verify EXCEPT ![v] = pc]
        BY <1>11 DEF CreateNamespaceFails, WaitForCommit, FinalityTimeout, VerifyCut
    <2>. QED BY <1>0, <1>4, <2>1, <2>2
<1>. QED BY <1>0, <1>1, <1>2, <1>3, <1>5, <1>7, <1>8, <1>9, <1>10, <1>11 DEF FabricXVerify

LEMMA FabricXStep == FabricXInv /\ [FabricXNext]_fabricxVars => FabricXInv'
<1>1. FabricXInv /\ FabricXNext => FabricXInv'
    BY NetworkInv, JoinInv, VerifyInv DEF FabricXNext
<1>2. FabricXInv /\ UNCHANGED fabricxVars => FabricXInv'
    BY DEF FabricXInv, FabricXTypeOK, LastIsChecking, AllFabricXNodesJoined, PaidFor, Sending, fabricxVars,
           networkRows, ledgerVars
<1>. QED BY <1>1, <1>2

LEMMA FabricXAlways == FabricXSpec => []FabricXInv
BY FabricXStart, FabricXStep, PTL DEF FabricXSpec

LEMMA FabricXHolds == FabricXInv => LastJoinVerifies /\ OneTransactionPerRecord
<1>1. FabricXInv => LastJoinVerifies
    BY DEF FabricXInv, LastIsChecking, LastJoinVerifies
<1>2. FabricXInv => OneTransactionPerRecord
    BY SendingSize DEF FabricXInv, FabricXTypeOK, PaidFor, OneTransactionPerRecord
<1>. QED BY <1>1, <1>2

(* Among joins that race, the last one to be marked joined starts the      *)
(* verification: for any number of nodes and joins.                        *)
THEOREM LastJoinAlwaysVerifies == FabricXSpec => []LastJoinVerifies
BY FabricXAlways, FabricXHolds, PTL

(* However many verifications race, and however often the record is        *)
(* deleted, each record pays for one transaction at most.                  *)
THEOREM OneTransaction == FabricXSpec => []OneTransactionPerRecord
BY FabricXAlways, FabricXHolds, PTL

\* What must not fail for a verification to mean what it says.
Reliable == FxFaults \cap {"sidecar", "broadcast", "finality", "cut"} = {}

\* No verification looks for the namespace while another one waits for it.
Awaiting   == {v \in Verifiers : verify[v] \in {"open", "await"}}
LooksAlone == \A v, w \in Verifiers : verify[v] = "list" => w \notin Awaiting

\* A record stands for a namespace that is there or that somebody waits for.
Confirmed ==
    /\ record # "none" => ledger = "committed" \/ Awaiting # {}
    /\ \A v \in Verifiers : verify[v] \in {"committed", "running"} => ledger = "committed"
    /\ \A v \in Verifiers : verify[v] \notin {"broadcast", "unconfirmed", "failed"}
    /\ network.status = "running" => ledger = "committed"

LEMMA ConfirmedKept ==
    ASSUME FabricXTypeOK, Confirmed, ledger = "committed" => ledger' = "committed",
           NEW v \in Verifiers, NEW pc, verify' = [verify EXCEPT ![v] = pc],
           v \in Awaiting => pc \in {"open", "await"} \/ ledger' = "committed",
           record' # "none" => record # "none" \/ pc = "open",
           pc \in {"committed", "running"} => ledger' = "committed",
           pc \notin {"broadcast", "unconfirmed", "failed"},
           network'.status = "running" => network.status = "running" \/ ledger' = "committed"
    PROVE  Confirmed'
<1>1. verify'[v] = pc /\ \A w \in Verifiers \ {v} : verify'[w] = verify[w]
    BY DEF FabricXTypeOK
<1>2. \A w \in Verifiers \ {v} : w \in Awaiting => w \in Awaiting'
    BY <1>1 DEF Awaiting
<1>3. pc \in {"open", "await"} => v \in Awaiting'
    BY <1>1 DEF Awaiting
<1>4. record' # "none" => ledger' = "committed" \/ Awaiting' # {}
    <2>1. SUFFICES ASSUME record # "none", ledger' # "committed" PROVE Awaiting' # {}
        BY <1>3
    <2>2. PICK w \in Awaiting : TRUE
        BY <2>1 DEF Confirmed
    <2>3. w \in Verifiers
        BY DEF Awaiting
    <2>4. CASE w = v
        BY <1>3, <2>1, <2>4
    <2>5. CASE w # v
        BY <1>2, <2>3, <2>5
    <2>. QED BY <2>4, <2>5
<1>5. ASSUME NEW w \in Verifiers
      PROVE  /\ verify'[w] \in {"committed", "running"} => ledger' = "committed"
             /\ verify'[w] \notin {"broadcast", "unconfirmed", "failed"}
    <2>1. CASE w = v
        BY <1>1, <2>1
    <2>2. CASE w # v
        BY <1>1, <2>2 DEF Confirmed
    <2>. QED BY <2>1, <2>2
<1>6. network'.status = "running" => ledger' = "committed"
    BY DEF Confirmed
<1>. QED BY <1>4, <1>5, <1>6 DEF Confirmed

LEMMA VerifyConfirmed ==
    ASSUME Reliable, FabricXTypeOK, LooksAlone, Confirmed, NEW v \in Verifiers, FabricXVerify(v)
    PROVE  Confirmed'
<1>. USE DEF VerifyTo, Verify, networkRows, ledgerVars
<1>1. CASE VerifyFabricXNetwork(v)
    BY <1>1, ConfirmedKept DEF VerifyFabricXNetwork, Awaiting
<1>2. CASE ListNamespacesMerged(v)
    <2>1. PICK pc \in {"idle", "running", "insert"} :
              /\ verify' = [verify EXCEPT ![v] = pc]
              /\ pc = "running" => record # "none" \/ ledger = "committed"
        BY <1>2 DEF ListNamespacesMerged
    <2>2. verify[v] = "list" /\ UNCHANGED <<network, record, ledger>>
        BY <1>2 DEF ListNamespacesMerged
    <2>3. Awaiting = {}
        BY <2>2 DEF LooksAlone, Awaiting
    <2>4. pc = "running" => ledger = "committed"
        BY <2>1, <2>3 DEF Confirmed
    <2>. QED BY <2>1, <2>2, <2>3, <2>4, ConfirmedKept
<1>3. CASE CreateRecord(v)
    <2>1. PICK pc \in {"open", "verification_failed"} :
              /\ verify' = [verify EXCEPT ![v] = pc]
              /\ record' # "none" => record # "none" \/ pc = "open"
        BY <1>3 DEF CreateRecord
    <2>. QED BY <1>3, <2>1, ConfirmedKept DEF CreateRecord, Awaiting
<1>4. CASE CreateNamespaceFails(v)
    BY <1>4, ConfirmedKept DEF CreateNamespaceFails, Awaiting
<1>5. CASE Broadcast(v)
    <2>1. verify[v] = "open"
        BY <1>5 DEF Broadcast, Confirmed
    <2>. QED BY <1>5, <2>1, ConfirmedKept DEF Broadcast
<1>6. CASE WaitForCommit(v)
    BY <1>6, ConfirmedKept DEF WaitForCommit
<1>7. CASE UpdateFabricXNamespaceStatus(v)
    <2>1. verify[v] = "committed" /\ ledger = "committed"
        BY <1>7 DEF UpdateFabricXNamespaceStatus, Confirmed
    <2>2. PICK pc \in {"running", "verification_failed"} : verify' = [verify EXCEPT ![v] = pc]
        BY <1>7 DEF UpdateFabricXNamespaceStatus
    <2>3. UNCHANGED <<network, ledger>> /\ (record' # "none" => record # "none")
        BY <1>7 DEF UpdateFabricXNamespaceStatus
    <2>. QED BY <2>1, <2>2, <2>3, ConfirmedKept
<1>8. CASE WriteVerdict(v)
    <2>1. /\ verify[v] \in {"running", "verification_failed"} /\ UNCHANGED <<record, ledger>>
          /\ verify' = [verify EXCEPT ![v] = "idle"]
          /\ network'.status \in {network.status, verify[v]}
        BY <1>8 DEF WriteVerdict, FabricXTypeOK
    <2>2. verify[v] = "running" => ledger = "committed"
        BY DEF Confirmed
    <2>. QED BY <2>1, <2>2, ConfirmedKept DEF Awaiting
<1>9. ~NoSidecar(v) /\ ~BroadcastFails(v) /\ ~FinalityTimeout(v) /\ ~VerifyCut(v)
    BY DEF NoSidecar, BroadcastFails, FinalityTimeout, VerifyCut, Reliable, Faulty
<1>. QED
    BY <1>1, <1>2, <1>3, <1>4, <1>5, <1>6, <1>7, <1>8, <1>9 DEF FabricXVerify

LEMMA OthersConfirmed ==
    ASSUME FabricXTypeOK, Confirmed,
           \/ UNCHANGED verify
           \/ \E v \in Verifiers : verify[v] = "idle" /\ verify' = [verify EXCEPT ![v] = "list"],
           ledger = "committed" => ledger' = "committed", record' # "none" => record # "none",
           network'.status # "running" \/ network'.status = network.status
    PROVE  Confirmed'
<1>1. CASE UNCHANGED verify
    BY <1>1 DEF Confirmed, Awaiting
<1>2. ASSUME NEW v \in Verifiers, verify[v] = "idle", verify' = [verify EXCEPT ![v] = "list"]
      PROVE  Confirmed'
    BY <1>2, ConfirmedKept DEF Awaiting
<1>. QED BY <1>1, <1>2

LEMMA ConfirmedStep ==
    ASSUME Reliable
    PROVE  FabricXTypeOK /\ LooksAlone /\ Confirmed /\ [FabricXNext]_fabricxVars => Confirmed'
<1>. SUFFICES ASSUME FabricXTypeOK, LooksAlone, Confirmed, [FabricXNext]_fabricxVars PROVE Confirmed'
    OBVIOUS
<1>. USE DEF networkRows, ledgerVars
<1>1. CASE UNCHANGED fabricxVars
    BY <1>1, OthersConfirmed DEF fabricxVars
<1>2. ASSUME NEW j \in Joins, FabricXJoin(j) PROVE Confirmed'
    <2>1. UNCHANGED <<network, ledgerVars>>
        BY <1>2 DEF FabricXJoin, BeginJoin, SetFabricXGenesisBlock, UpdateNetworkNodeStatus, StartNode,
           StartNodeFails, CheckJoins, JoinCut
    <2>2. \/ UNCHANGED verify
          \/ \E v \in Verifiers : verify[v] = "idle" /\ verify' = [verify EXCEPT ![v] = "list"]
        BY <1>2 DEF FabricXJoin, BeginJoin, SetFabricXGenesisBlock, UpdateNetworkNodeStatus, StartNode,
           StartNodeFails, CheckJoins, JoinCut, Verify
    <2>. QED BY <2>1, <2>2, OthersConfirmed
<1>3. CASE \/ CreateNetworkRow \/ UpdateNetworkGenesisBlock \/ UpdateNetworkStatus \/ CreateNetworkFails
           \/ DeleteNetwork \/ CommitBlock \/ DeleteNamespaceRecord
           \/ \E n \in FxNodes : AssociateNode(n)
    <2>1. UNCHANGED verify /\ (ledger = "committed" => ledger' = "committed")
          /\ (record' # "none" => record # "none")
        BY <1>3 DEF CreateNetworkRow, UpdateNetworkGenesisBlock, UpdateNetworkStatus, CreateNetworkFails,
           DeleteNetwork, CommitBlock, DeleteNamespaceRecord, AssociateNode
    <2>2. network'.status # "running" \/ network'.status = network.status
        BY <1>3 DEF CreateNetworkRow, UpdateNetworkGenesisBlock, UpdateNetworkStatus, CreateNetworkFails,
           DeleteNetwork, CommitBlock, DeleteNamespaceRecord, AssociateNode, FabricXTypeOK
    <2>. QED BY <2>1, <2>2, OthersConfirmed
<1>. QED BY <1>1, <1>2, <1>3, VerifyConfirmed DEF FabricXNext

(* "Running means confirmed" is what markNetworkVerified says of itself, and *)
(* it is right as long as broadcasts, sidecars and the wait for finality can *)
(* be relied on, no verification is cut off, and none looks at the records   *)
(* while another one is waiting for the ledger: without these a record is no *)
(* sign of a namespace, and the next verification takes it for one.          *)
THEOREM RunningStaysConfirmed ==
    ASSUME Reliable
    PROVE  FabricXSpec /\ []LooksAlone => []RunningIsConfirmed
<1>1. FabricXInit => Confirmed
    BY DEF FabricXInit, Confirmed
<1>2. FabricXTypeOK /\ LooksAlone /\ Confirmed /\ [FabricXNext]_fabricxVars => Confirmed'
    BY ConfirmedStep
<1>3. Confirmed => RunningIsConfirmed
    BY DEF Confirmed, RunningIsConfirmed
<1>4. FabricXInv => FabricXTypeOK
    BY DEF FabricXInv
<1>. QED BY <1>1, <1>2, <1>3, <1>4, FabricXAlways, PTL DEF FabricXSpec

-----------------------------------------------------------------------------
(* Projects.                                                               *)

RowsBlank     == \A p \in ProjectIds : prow[p].row # "present" => prow[p].status = "none"
RequestsNamed == \A r \in ProjectCalls :
    IF pcall[r].pc = "idle" THEN pcall[r].p = "none" ELSE pcall[r].p \in ProjectIds

\* As for plugins: who is alone has the project and its row to itself.
OnlyRequest == \A r \in ProjectCalls : pcall[r].pc # "idle" =>
    IF pcall[r].alone
    THEN /\ prow[pcall[r].p].row = "present"
         /\ \A k \in ProjectCalls \ {r} : pcall[k].p # pcall[r].p
    ELSE ~trusted[pcall[r].p]

Starting == {"inspect", "remove", "create", "start", "running"}
Untouched == {"port", "read", "halt"}

\* What a call that is alone has brought about on the way.
HasDone(r, p) ==
    /\ pcall[r].pc = "approve" => \A o \in heard[p] : approved[p][o] = pcall[r].port
    /\ pcall[r].pc \in Starting /\ prow[p].fabric => \A o \in heard[p] : channel[p][o] = pcall[r].port
    /\ pcall[r].pc \in {"start", "running"} =>
           slot[p].id = pcall[r].id /\ slot[p].port = pcall[r].port
    /\ pcall[r].pc = "running" => slot[p].up
    /\ pcall[r].pc = "stopped" => ~slot[p].up
    /\ pcall[r].pc \in {"poststop", "row"} /\ trusted[p] =>
           ~slot[p].up /\ prow[p].status # "running"

AloneHasDone == \A r \in ProjectCalls :
    pcall[r].alone /\ pcall[r].pc # "idle" => HasDone(r, pcall[r].p)

Served(p) ==
    IF prow[p].status = "running"
    THEN /\ slot[p].id = prow[p].cid /\ slot[p].port = prow[p].port /\ slot[p].up
         /\ prow[p].fabric => \A o \in heard[p] : channel[p][o] = prow[p].port
    ELSE ~slot[p].up

\* A call changes what is served only once it has gone past these steps.
TrustedServed == \A p \in ProjectIds :
    trusted[p] /\ (\A r \in ProjectCalls : pcall[r].p = p => pcall[r].pc \in Untouched) => Served(p)

ProjectsInv ==
    ProjectsTypeOK /\ RowsBlank /\ RequestsNamed /\ OnlyRequest /\ AloneHasDone /\ TrustedServed

LEMMA ProjectsStart == ProjectsInit => ProjectsInv
BY ProjectsAssumption
DEF ProjectsAssumption, ProjectsInit, Unborn, NoSlot, NoPort, CallNone, ProjectsInv, ProjectsTypeOK,
    RowsBlank,
    RequestsNamed, OnlyRequest, AloneHasDone, TrustedServed, Served, Untouched

\* The record sets of the three tables, named for the steps that need them.
ProjectRow == [row : {"unborn", "present", "deleted"}, fabric : BOOLEAN, talks : BOOLEAN,
               status : {"none", "running", "stopped"},
               cid : Containers \cup {"none"}, port : RunnerPorts \cup {0}]
SlotRecord == [id : Containers \cup {"none"}, port : RunnerPorts \cup {0}, up : BOOLEAN]
ProjectPc  == {"idle", "port", "approve", "inspect", "remove", "create", "start",
               "running", "read", "halt", "stopped", "poststop", "row"}
Request    == [p : ProjectIds \cup {"none"}, op : {"none", "start", "stop", "delete"}, pc : ProjectPc,
               alone : BOOLEAN, port : RunnerPorts \cup {0}, id : Containers \cup {"none"},
               asked : SUBSET PeerOrgs]
PortsOf    == [PeerOrgs -> RunnerPorts \cup {0}]

LEMMA ProjectsTyped ==
    ProjectsTypeOK <=> /\ prow \in [ProjectIds -> ProjectRow] /\ slot \in [ProjectIds -> SlotRecord]
                       /\ approved \in [ProjectIds -> PortsOf] /\ channel \in [ProjectIds -> PortsOf]
                       /\ trusted \in [ProjectIds -> BOOLEAN] /\ heard \in [ProjectIds -> SUBSET PeerOrgs]
                       /\ pcall \in [ProjectCalls -> Request]
BY DEF ProjectsTypeOK, ProjectRow, SlotRecord, ProjectPc, Request, PortsOf

LEMMA CreateProjectInv ==
    ASSUME ProjectsInv, NEW p \in ProjectIds, NEW fabric \in BOOLEAN, NEW talks \in BOOLEAN,
           CreateProject(p, fabric, talks)
    PROVE  ProjectsInv'
<1>. USE DEF ProjectsInv
<1>1. /\ prow[p].row = "unborn" /\ UNCHANGED <<slot, approved, channel, trusted, heard, pcall>>
      /\ prow' = [prow EXCEPT ![p] =
             [row |-> "present", fabric |-> fabric, talks |-> talks,
              status |-> "none", cid |-> "none", port |-> 0]]
    BY DEF CreateProject
<1>2. prow[p].status = "none" /\ prow'[p].row = "present" /\ prow'[p].status = "none"
    BY <1>1 DEF RowsBlank, ProjectsTypeOK
<1>3. \A q \in ProjectIds \ {p} : prow'[q] = prow[q]
    BY <1>1 DEF ProjectsTypeOK
<1>4. ProjectsTypeOK'
    BY <1>1 DEF ProjectsTypeOK
<1>5. RowsBlank' /\ RequestsNamed'
    BY <1>1, <1>2, <1>3 DEF RowsBlank, RequestsNamed
<1>6. \A r \in ProjectCalls : pcall[r].pc # "idle" /\ pcall[r].alone => pcall[r].p \in ProjectIds \ {p}
    BY <1>1 DEF OnlyRequest, RequestsNamed
<1>7. OnlyRequest' /\ AloneHasDone'
    BY <1>1, <1>3, <1>6 DEF OnlyRequest, AloneHasDone, HasDone
<1>8. TrustedServed'
    BY <1>1, <1>2, <1>3 DEF TrustedServed, Served
<1>. QED BY <1>4, <1>5, <1>7, <1>8

LEMMA BeginProjectCallInv ==
    ASSUME ProjectsInv, NEW r \in ProjectCalls, NEW p \in ProjectIds,
           NEW op \in {"start", "stop", "delete"}, BeginProjectCall(r, op, p)
    PROVE  ProjectsInv'
<1>. USE ProjectsAssumption DEF ProjectsInv, ProjectsAssumption
<1>. DEFINE busy == \E k \in ProjectCalls \ {r} : pcall[k].p = p
            pc   == IF op = "start" THEN "port" ELSE "read"
<1>1. /\ pcall[r].pc = "idle" /\ prow[p].row = "present" /\ UNCHANGED <<prow, slot, approved, channel, heard>>
      /\ trusted' = [trusted EXCEPT ![p] = @ /\ ~busy]
      /\ \A k \in ProjectCalls \ {r} :
             pcall'[k] = IF pcall[k].p = p THEN [pcall[k] EXCEPT !.alone = FALSE] ELSE pcall[k]
    BY DEF BeginProjectCall
<1>2. PICK alone \in BOOLEAN :
          /\ pcall'[r] = [p |-> p, op |-> op, alone |-> alone, port |-> 0, id |-> "none", asked |-> {}, pc |-> pc]
          /\ alone <=> ~busy
    <2>1. CASE busy
        BY <2>1 DEF BeginProjectCall
    <2>2. CASE ~busy
        BY <2>2 DEF BeginProjectCall
    <2>. QED BY <2>1, <2>2
<1>2a. /\ pcall'[r].p = p /\ pcall'[r].pc = pc /\ pcall'[r].pc \in {"port", "read"}
       /\ pcall'[r].alone <=> ~busy
    <2>1. pcall'[r].p = p /\ pcall'[r].pc = pc /\ pcall'[r].alone = alone
        BY <1>2
    <2>. QED BY <1>2, <2>1
<1>3. \A k \in ProjectCalls \ {r} :
          /\ pcall'[k].p = pcall[k].p /\ pcall'[k].pc = pcall[k].pc
          /\ pcall'[k].port = pcall[k].port /\ pcall'[k].id = pcall[k].id
          /\ pcall'[k].alone <=> pcall[k].alone /\ pcall[k].p # p
    <2>1. ASSUME NEW k \in ProjectCalls \ {r}, pcall[k].p = p
          PROVE  /\ pcall'[k].p = pcall[k].p /\ pcall'[k].pc = pcall[k].pc
                 /\ pcall'[k].port = pcall[k].port /\ pcall'[k].id = pcall[k].id
                 /\ pcall'[k].alone = FALSE
        <3>1. pcall[k] \in Request
            BY ProjectsTyped
        <3>2. pcall'[k] = [pcall[k] EXCEPT !.alone = FALSE]
            BY <1>1, <2>1
        <3>. QED BY <3>1, <3>2 DEF Request
    <2>2. ASSUME NEW k \in ProjectCalls \ {r}, pcall[k].p # p
          PROVE  pcall'[k] = pcall[k]
        BY <1>1, <2>2
    <2>. QED BY <2>1, <2>2
<1>4. \A q \in ProjectIds : trusted'[q] <=> trusted[q] /\ (q = p => ~busy)
    BY <1>1 DEF ProjectsTypeOK
<1>5. ProjectsTypeOK'
    <2>1. \A k \in ProjectCalls : pcall[k] \in Request
        BY ProjectsTyped
    <2>2. pcall'[r] \in Request
        BY <1>2 DEF Request, ProjectPc
    <2>3. \A k \in ProjectCalls \ {r} : pcall'[k] \in Request
        <3>1. ASSUME NEW k \in ProjectCalls, pcall[k].p = p
              PROVE  [pcall[k] EXCEPT !.alone = FALSE] \in Request
            BY <2>1 DEF Request
        <3>. QED BY <1>1, <2>1, <3>1
    <2>4. pcall' \in [ProjectCalls -> Request]
        <3>1. pcall' = [k \in ProjectCalls |-> pcall'[k]]
            BY DEF BeginProjectCall
        <3>. QED BY <2>2, <2>3, <3>1
    <2>. QED BY <1>1, <2>4, ProjectsTyped DEF ProjectsTypeOK, Request, ProjectPc
<1>6. RowsBlank' /\ RequestsNamed'
    BY <1>1, <1>2a, <1>3 DEF RowsBlank, RequestsNamed
<1>7. OnlyRequest'
    <2>1. ASSUME NEW k \in ProjectCalls \ {r}, pcall[k].pc # "idle"
          PROVE  IF pcall[k].alone /\ pcall[k].p # p
                 THEN /\ prow[pcall[k].p].row = "present"
                      /\ \A j \in ProjectCalls \ {k} : pcall'[j].p # pcall[k].p
                 ELSE ~trusted'[pcall[k].p]
        BY <1>2a, <1>3, <1>4, <2>1 DEF OnlyRequest, RequestsNamed
    <2>2. IF pcall'[r].alone
          THEN prow[p].row = "present" /\ \A j \in ProjectCalls \ {r} : pcall'[j].p # p
          ELSE ~trusted'[p]
        BY <1>1, <1>2a, <1>3, <1>4
    <2>. QED BY <1>1, <1>2a, <1>3, <2>1, <2>2 DEF OnlyRequest
<1>8. AloneHasDone'
    <2>1. HasDone(r, p)'
        BY <1>2a DEF HasDone, Starting
    <2>2. ASSUME NEW k \in ProjectCalls \ {r}, pcall'[k].alone, pcall'[k].pc # "idle"
          PROVE  HasDone(k, pcall[k].p)'
        <3>1. HasDone(k, pcall[k].p) /\ pcall[k].p \in ProjectIds \ {p}
            BY <1>3, <2>2 DEF AloneHasDone, RequestsNamed
        <3>. QED BY <1>1, <1>3, <1>4, <3>1 DEF HasDone
    <2>. QED BY <1>2a, <1>3, <2>1, <2>2 DEF AloneHasDone
<1>9. TrustedServed'
    <2>1. ASSUME NEW q \in ProjectIds, trusted'[q],
                 \A k \in ProjectCalls : pcall'[k].p = q => pcall'[k].pc \in Untouched
          PROVE  Served(q)
        <3>1. \A k \in ProjectCalls : pcall[k].p = q => pcall[k].pc \in Untouched
            BY <1>1, <1>3, <2>1 DEF RequestsNamed
        <3>. QED BY <1>4, <2>1, <3>1 DEF TrustedServed
    <2>. QED BY <1>1, <2>1 DEF TrustedServed, Served
<1>. QED BY <1>5, <1>6, <1>7, <1>8, <1>9

\* What a step of call r on project p may do, as for plugins.
Beside(r, p) ==
    /\ \A k \in ProjectCalls \ {r} : pcall'[k] = pcall[k]
    /\ \A q \in ProjectIds \ {p} : /\ prow'[q] = prow[q] /\ slot'[q] = slot[q]
                                   /\ approved'[q] = approved[q] /\ channel'[q] = channel[q]
                                   /\ trusted'[q] = trusted[q] /\ heard'[q] = heard[q]

OnOwn(r, p) ==
    /\ IF pcall'[r].pc = "idle" THEN pcall'[r].p = "none"
       ELSE pcall'[r].p = p /\ (pcall'[r].alone <=> pcall[r].alone)
    /\ trusted'[p] => trusted[p] \/ pcall[r].alone
    /\ prow'[p].row # "present" => prow'[p].status = "none"
    /\ prow[p].row = "present" => prow'[p].row = "present" \/ pcall'[r].pc = "idle"

Leaves(r, p) == pcall[r].alone =>
    /\ pcall'[r].pc # "idle" => HasDone(r, p)'
    /\ trusted'[p] /\ pcall'[r].pc \in Untouched \cup {"idle"} => Served(p)'

LEMMA ProjectStepInv ==
    ASSUME ProjectsInv, ProjectsTypeOK', NEW r \in ProjectCalls, NEW p \in ProjectIds,
           pcall[r].p = p, pcall[r].pc # "idle", Beside(r, p), OnOwn(r, p), Leaves(r, p)
    PROVE  ProjectsInv'
<1>. USE ProjectsAssumption DEF ProjectsInv, ProjectsAssumption
<1>0. /\ pcall[r].alone => prow[p].row = "present" /\ \A k \in ProjectCalls \ {r} : pcall[k].p # p
      /\ ~pcall[r].alone => ~trusted[p] /\ ~trusted'[p]
    BY DEF OnlyRequest, OnOwn
<1>1. RowsBlank' /\ RequestsNamed'
    BY DEF Beside, OnOwn, RowsBlank, RequestsNamed
<1>2. OnlyRequest'
    <2>1. ASSUME NEW k \in ProjectCalls \ {r}, pcall[k].pc # "idle"
          PROVE  IF pcall[k].alone
                 THEN /\ prow'[pcall[k].p].row = "present"
                      /\ \A j \in ProjectCalls \ {k} : pcall'[j].p # pcall[k].p
                 ELSE ~trusted'[pcall[k].p]
        <3>1. CASE pcall[k].p = p
            BY <1>0, <2>1, <3>1 DEF OnlyRequest
        <3>2. CASE pcall[k].p # p
            BY <2>1, <3>2 DEF OnlyRequest, RequestsNamed, Beside, OnOwn
        <3>. QED BY <3>1, <3>2
    <2>2. CASE pcall'[r].pc # "idle"
        BY <1>0, <2>1, <2>2 DEF OnlyRequest, Beside, OnOwn
    <2>3. CASE pcall'[r].pc = "idle"
        BY <2>1, <2>3 DEF OnlyRequest, Beside
    <2>. QED BY <2>2, <2>3
<1>3. AloneHasDone'
    <2>1. ASSUME NEW k \in ProjectCalls \ {r}, pcall[k].alone, pcall[k].pc # "idle"
          PROVE  HasDone(k, pcall[k].p)'
        <3>1. pcall[k].p \in ProjectIds \ {p} /\ HasDone(k, pcall[k].p)
            BY <2>1 DEF OnlyRequest, RequestsNamed, AloneHasDone
        <3>. QED BY <3>1 DEF HasDone, Beside
    <2>. QED BY <2>1 DEF AloneHasDone, Beside, OnOwn, Leaves
<1>4. TrustedServed'
    <2>1. ASSUME NEW q \in ProjectIds \ {p}, trusted'[q],
                 \A k \in ProjectCalls : pcall'[k].p = q => pcall'[k].pc \in Untouched
          PROVE  Served(q)'
        <3>1. Served(q)
            BY <2>1 DEF TrustedServed, Beside
        <3>. QED BY <3>1 DEF Served, Beside
    <2>2. ASSUME trusted'[p], \A k \in ProjectCalls : pcall'[k].p = p => pcall'[k].pc \in Untouched
          PROVE  Served(p)'
        BY <1>0, <2>2 DEF OnOwn, Leaves
    <2>. QED BY <2>1, <2>2 DEF TrustedServed
<1>. QED BY <1>1, <1>2, <1>3, <1>4

LEMMA ProjectStepTyped ==
    ASSUME ProjectsInv, NEW r \in ProjectCalls, ProjectCallStep(r)
    PROVE  ProjectsTypeOK'
<1>. USE DEF ProjectStep, EndProjectCall, Earned, AfterStop, AfterHalt, UpdateProjectContainerInfo
<1>0. /\ prow \in [ProjectIds -> ProjectRow] /\ slot \in [ProjectIds -> SlotRecord]
      /\ approved \in [ProjectIds -> PortsOf] /\ channel \in [ProjectIds -> PortsOf]
      /\ trusted \in [ProjectIds -> BOOLEAN] /\ heard \in [ProjectIds -> SUBSET PeerOrgs]
      /\ pcall \in [ProjectCalls -> Request]
      /\ pcall[r].pc # "idle" /\ pcall[r].p \in ProjectIds
    BY ProjectsTyped
    DEF ProjectsInv, RequestsNamed, ProjectCallStep, FindAvailablePort, Approve, Commit, ContainerInspect,
        ContainerRemove, ContainerCreate, ContainerStart, MarkProjectRunning, ReadProject,
        ContainerStop, MarkProjectStopped, PostStop, DeleteProject, ProjectCallFails
<1>1. pcall' \in [ProjectCalls -> Request]
    <2>1. \/ \E x \in ProjectPc : pcall' = [pcall EXCEPT ![r].pc = x]
          \/ \E x \in ProjectPc, port \in RunnerPorts : pcall' = [pcall EXCEPT ![r].port = port, ![r].pc = x]
          \/ \E x \in ProjectPc, id \in Containers \cup {"none"} :
                 pcall' = [pcall EXCEPT ![r].id = id, ![r].pc = x]
          \/ pcall' = [pcall EXCEPT ![r] = CallNone]
          \/ \E o \in PeerOrgs : pcall' = [pcall EXCEPT ![r].asked = @ \cup {o}]
        <3>0. pcall[r] \in Request /\ slot[pcall[r].p] \in SlotRecord /\ prow[pcall[r].p] \in ProjectRow
            BY <1>0
        <3>1. CASE FindAvailablePort(r)
            BY <3>1 DEF FindAvailablePort, ProjectPc
        <3>2. CASE ContainerInspect(r)
            BY <3>0, <3>2 DEF ContainerInspect, ProjectPc, SlotRecord, ProjectRow
        <3>3. CASE ContainerRemove(r)
            BY <3>0, <3>3 DEF ContainerRemove, ProjectPc, SlotRecord, ProjectRow
        <3>4. CASE ContainerCreate(r)
            BY <3>0, <3>4 DEF ContainerCreate, ProjectPc, SlotRecord, ProjectRow
        <3>5. CASE ReadProject(r)
            BY <3>0, <3>5 DEF ReadProject, ProjectPc, SlotRecord, ProjectRow
        <3>6. CASE Approve(r)
            BY <3>6 DEF Approve
        <3>. QED BY <3>1, <3>2, <3>3, <3>4, <3>5, <3>6
                 DEF ProjectCallStep, ProjectPc, Commit, ContainerStart, MarkProjectRunning,
                     ContainerStop, MarkProjectStopped, PostStop, DeleteProject, ProjectCallFails
    <2>2. CallNone \in Request
        BY DEF CallNone, Request, ProjectPc
    <2>3. pcall[r] \in Request
        BY <1>0
    <2>4. CASE \E x \in ProjectPc : pcall' = [pcall EXCEPT ![r].pc = x]
        <3>1. \A x \in ProjectPc : [pcall[r] EXCEPT !.pc = x] \in Request
            BY <2>3 DEF Request
        <3>. QED BY <1>0, <2>4, <3>1
    <2>5. CASE \E x \in ProjectPc, port \in RunnerPorts :
                   pcall' = [pcall EXCEPT ![r].port = port, ![r].pc = x]
        <3>1. \A x \in ProjectPc, port \in RunnerPorts :
                  [pcall[r] EXCEPT !.port = port, !.pc = x] \in Request
            BY <2>3 DEF Request
        <3>2. PICK x \in ProjectPc, port \in RunnerPorts :
                  pcall' = [pcall EXCEPT ![r].port = port, ![r].pc = x]
            BY <2>5
        <3>3. pcall' = [pcall EXCEPT ![r] = [pcall[r] EXCEPT !.port = port, !.pc = x]]
            BY <1>0, <3>2
        <3>. QED BY <1>0, <3>1, <3>3
    <2>6. CASE \E x \in ProjectPc, id \in Containers \cup {"none"} :
                   pcall' = [pcall EXCEPT ![r].id = id, ![r].pc = x]
        <3>1. \A x \in ProjectPc, id \in Containers \cup {"none"} :
                  [pcall[r] EXCEPT !.id = id, !.pc = x] \in Request
            BY <2>3 DEF Request
        <3>2. PICK x \in ProjectPc, id \in Containers \cup {"none"} :
                  pcall' = [pcall EXCEPT ![r].id = id, ![r].pc = x]
            BY <2>6
        <3>3. pcall' = [pcall EXCEPT ![r] = [pcall[r] EXCEPT !.id = id, !.pc = x]]
            BY <1>0, <3>2
        <3>. QED BY <1>0, <3>1, <3>3
    <2>7. CASE \E o \in PeerOrgs : pcall' = [pcall EXCEPT ![r].asked = @ \cup {o}]
        <3>1. \A o \in PeerOrgs : [pcall[r] EXCEPT !.asked = @ \cup {o}] \in Request
            BY <2>3 DEF Request
        <3>2. PICK o \in PeerOrgs : pcall' = [pcall EXCEPT ![r] = [pcall[r] EXCEPT !.asked = @ \cup {o}]]
            BY <1>0, <2>7
        <3>. QED BY <1>0, <3>1, <3>2
    <2>. QED BY <1>0, <2>1, <2>2, <2>4, <2>5, <2>6, <2>7
<1>2. prow' \in [ProjectIds -> ProjectRow]
    <2>. DEFINE p == pcall[r].p
    <2>1. \/ prow' = prow
          \/ \E status \in {"running", "stopped"}, cid \in Containers \cup {"none"},
                port \in RunnerPorts \cup {0} :
                 prow' = [prow EXCEPT ![p].status = status, ![p].cid = cid, ![p].port = port]
          \/ prow' = [prow EXCEPT ![p] = [Unborn EXCEPT !.row = "deleted"]]
        <3>1. pcall[r].id \in Containers \cup {"none"} /\ pcall[r].port \in RunnerPorts \cup {0}
            BY <1>0 DEF Request
        <3>. QED BY <3>1, ZenonT(40)
           DEF ProjectCallStep, FindAvailablePort, Approve, Commit, ContainerInspect, ContainerRemove,
               ContainerCreate, ContainerStart, MarkProjectRunning, ReadProject, ContainerStop,
               MarkProjectStopped, PostStop, DeleteProject, ProjectCallFails
    <2>2. prow[p] \in ProjectRow /\ [Unborn EXCEPT !.row = "deleted"] \in ProjectRow
        BY <1>0 DEF ProjectRow, Unborn
    <2>3. CASE \E status \in {"running", "stopped"}, cid \in Containers \cup {"none"},
                   port \in RunnerPorts \cup {0} :
                    prow' = [prow EXCEPT ![p].status = status, ![p].cid = cid, ![p].port = port]
        <3>1. PICK status \in {"running", "stopped"}, cid \in Containers \cup {"none"},
                   port \in RunnerPorts \cup {0} :
                    prow' = [prow EXCEPT ![p].status = status, ![p].cid = cid, ![p].port = port]
            BY <2>3
        <3>2. prow' = [prow EXCEPT ![p] = [prow[p] EXCEPT !.status = status, !.cid = cid, !.port = port]]
            BY <1>0, <3>1
        <3>3. [prow[p] EXCEPT !.status = status, !.cid = cid, !.port = port] \in ProjectRow
            BY <2>2 DEF ProjectRow
        <3>4. prow \in [ProjectIds -> ProjectRow]
            BY <1>0
        <3>. QED BY <3>2, <3>3, <3>4
    <2>4. CASE prow' = prow
        BY <1>0, <2>4
    <2>5. CASE prow' = [prow EXCEPT ![p] = [Unborn EXCEPT !.row = "deleted"]]
        BY <1>0, <2>2, <2>5
    <2>. QED BY <2>1, <2>3, <2>4, <2>5
<1>3. slot' \in [ProjectIds -> SlotRecord]
    <2>. DEFINE p == pcall[r].p
    <2>1. \/ slot' = slot
          \/ \E up \in BOOLEAN : slot' = [slot EXCEPT ![p].up = up]
          \/ \E new \in SlotRecord : slot' = [slot EXCEPT ![p] = new]
        <3>0. pcall[r].port \in RunnerPorts \cup {0} /\ slot[p] \in SlotRecord /\ NoSlot \in SlotRecord
            BY <1>0 DEF Request, SlotRecord, NoSlot
        <3>1. CASE ContainerRemove(r)
            BY <3>0, <3>1 DEF ContainerRemove
        <3>2. CASE ContainerCreate(r)
            <4>1. PICK id \in Containers :
                      slot' = [slot EXCEPT ![p] = [id |-> id, port |-> pcall[r].port, up |-> FALSE]]
                BY <3>2 DEF ContainerCreate
            <4>2. [id |-> id, port |-> pcall[r].port, up |-> FALSE] \in SlotRecord
                BY <3>0 DEF SlotRecord
            <4>. QED BY <4>1, <4>2
        <3>3. CASE ContainerStart(r) \/ ContainerStop(r)
            BY <3>3 DEF ContainerStart, ContainerStop
        <3>. QED BY <3>1, <3>2, <3>3
                 DEF ProjectCallStep, FindAvailablePort, Approve, Commit, ContainerInspect,
                     MarkProjectRunning, ReadProject, MarkProjectStopped, PostStop, DeleteProject,
                     ProjectCallFails
    <2>2. \A up \in BOOLEAN : [slot[p] EXCEPT !.up = up] \in SlotRecord
        BY <1>0 DEF SlotRecord
    <2>. QED BY <1>0, <2>1, <2>2
<1>4. approved' \in [ProjectIds -> PortsOf] /\ channel' \in [ProjectIds -> PortsOf]
      /\ heard' \in [ProjectIds -> SUBSET PeerOrgs]
    <2>. DEFINE p == pcall[r].p
    <2>1. CASE Approve(r)
        <3>1. PICK o \in PeerOrgs :
                  /\ approved' \in {approved, [approved EXCEPT ![p][o] = pcall[r].port]}
                  /\ channel' \in {channel, [channel EXCEPT ![p][o] = pcall[r].port]}
                  /\ heard' \in {heard, [heard EXCEPT ![p] = @ \cup {o}]}
            BY <2>1 DEF Approve
        <3>2. pcall[r].port \in RunnerPorts \cup {0}
            BY <1>0 DEF Request
        <3>3. \A f \in [ProjectIds -> PortsOf] :
                  [f EXCEPT ![p][o] = pcall[r].port] \in [ProjectIds -> PortsOf]
            BY <1>0, <3>2 DEF PortsOf
        <3>4. [heard EXCEPT ![p] = @ \cup {o}] \in [ProjectIds -> SUBSET PeerOrgs]
            BY <1>0
        <3>. QED BY <1>0, <3>1, <3>3, <3>4
    <2>2. CASE Commit(r)
        <3>1. NoPort \in PortsOf
            BY DEF NoPort, PortsOf
        <3>. QED BY <1>0, <2>2, <3>1 DEF Commit
    <2>3. CASE FindAvailablePort(r)
        BY <1>0, <2>3 DEF FindAvailablePort
    <2>4. CASE ~(Approve(r) \/ Commit(r) \/ FindAvailablePort(r))
        BY <1>0, <2>4
           DEF ProjectCallStep, ContainerInspect, ContainerRemove, ContainerCreate, ContainerStart,
               MarkProjectRunning, ReadProject, ContainerStop, MarkProjectStopped, PostStop,
               DeleteProject, ProjectCallFails
    <2>. QED BY <2>1, <2>2, <2>3, <2>4
<1>5. trusted' \in [ProjectIds -> BOOLEAN]
    <2>1. pcall[r].alone \in BOOLEAN /\ trusted[pcall[r].p] \in BOOLEAN
        BY <1>0 DEF Request
    <2>2. \/ UNCHANGED trusted \/ trusted' = [trusted EXCEPT ![pcall[r].p] = FALSE]
          \/ trusted' = [trusted EXCEPT ![pcall[r].p] = trusted[pcall[r].p] \/ pcall[r].alone]
        BY
           DEF ProjectCallStep, FindAvailablePort, Approve, Commit, ContainerInspect, ContainerRemove,
               ContainerCreate, ContainerStart, MarkProjectRunning, ReadProject, ContainerStop,
               MarkProjectStopped, PostStop, DeleteProject, ProjectCallFails
    <2>. QED BY <1>0, <2>1, <2>2
<1>. QED BY <1>1, <1>2, <1>3, <1>4, <1>5, ProjectsTyped
    DEF ProjectsTypeOK, ProjectRow, SlotRecord, ProjectPc, Request, PortsOf

\* What a call is after it went on, and after it ended.
LEMMA ProjectMoves ==
    ASSUME ProjectsTypeOK, NEW r \in ProjectCalls
    PROVE  /\ \A x \in ProjectPc : ProjectStep(r, x) =>
                  /\ pcall'[r].pc = x /\ pcall'[r].p = pcall[r].p /\ pcall'[r].alone = pcall[r].alone
                  /\ pcall'[r].port = pcall[r].port /\ pcall'[r].id = pcall[r].id
                  /\ \A k \in ProjectCalls \ {r} : pcall'[k] = pcall[k]
           /\ EndProjectCall(r) =>
                  /\ pcall'[r].pc = "idle" /\ pcall'[r].p = "none"
                  /\ \A k \in ProjectCalls \ {r} : pcall'[k] = pcall[k]
<1>1. pcall \in [ProjectCalls -> Request]
    BY ProjectsTyped
<1>2. ASSUME NEW x \in ProjectPc, ProjectStep(r, x)
      PROVE  pcall'[r] = [pcall[r] EXCEPT !.pc = x] /\ \A k \in ProjectCalls \ {r} : pcall'[k] = pcall[k]
    BY <1>1, <1>2 DEF ProjectStep
<1>3. pcall[r] \in Request
    BY <1>1
<1>4. ASSUME EndProjectCall(r)
      PROVE  pcall'[r] = CallNone /\ \A k \in ProjectCalls \ {r} : pcall'[k] = pcall[k]
    BY <1>1, <1>4 DEF EndProjectCall
<1>5. \A x \in ProjectPc : [pcall[r] EXCEPT !.pc = x] =
          [p |-> pcall[r].p, op |-> pcall[r].op, pc |-> x, alone |-> pcall[r].alone,
           port |-> pcall[r].port, id |-> pcall[r].id, asked |-> pcall[r].asked]
    BY <1>3 DEF Request
<1>6. EndProjectCall(r) =>
          /\ pcall'[r].pc = "idle" /\ pcall'[r].p = "none"
          /\ \A k \in ProjectCalls \ {r} : pcall'[k] = pcall[k]
    BY <1>4 DEF CallNone
<1>. QED BY <1>2, <1>5, <1>6

LEMMA ProjectStepLocal ==
    ASSUME ProjectsInv, NEW r \in ProjectCalls, ProjectCallStep(r), NEW p, p = pcall[r].p
    PROVE  Beside(r, p) /\ OnOwn(r, p) /\ Leaves(r, p)
<1>. USE DEF ProjectStep, EndProjectCall, Earned, AfterStop, AfterHalt, UpdateProjectContainerInfo,
             CallNone, Unborn, NoSlot, Beside, OnOwn, Leaves
<1>0. ProjectsTypeOK /\ pcall[r].pc # "idle" /\ p \in ProjectIds
    BY
       DEF ProjectsInv, RequestsNamed, ProjectCallStep, FindAvailablePort, Approve, Commit,
           ContainerInspect, ContainerRemove, ContainerCreate, ContainerStart, MarkProjectRunning,
           ReadProject, ContainerStop, MarkProjectStopped, PostStop, DeleteProject, ProjectCallFails
<1>a. /\ prow[p].row # "present" => prow[p].status = "none"
      /\ ~pcall[r].alone => ~trusted[p]
      /\ pcall[r].alone => prow[p].row = "present" /\ HasDone(r, p)
      /\ pcall[r].alone /\ trusted[p] /\ pcall[r].pc \in Untouched => Served(p)
    BY <1>0 DEF ProjectsInv, RowsBlank, OnlyRequest, AloneHasDone, TrustedServed
<1>. USE DEF HasDone, Served, Starting, Untouched
<1>1. CASE FindAvailablePort(r)
    <2>1. Beside(r, p)
        BY <1>0, <1>1 DEF FindAvailablePort, ProjectsTypeOK
    <2>2. OnOwn(r, p)
        BY <1>0, <1>a, <1>1 DEF FindAvailablePort, ProjectsTypeOK
    <2>3. Leaves(r, p)
        BY <1>0, <1>a, <1>1 DEF FindAvailablePort, ProjectsTypeOK
    <2>. QED BY <2>1, <2>2, <2>3
<1>2. CASE Approve(r)
    <2>. DEFINE port == pcall[r].port
    <2>0. PICK o \in PeerOrgs :
              /\ pcall[r].pc = "approve" /\ pcall' = [pcall EXCEPT ![r].asked = @ \cup {o}]
              /\ \/ approved' = [approved EXCEPT ![p][o] = port] /\ channel' = channel
                    /\ heard' = [heard EXCEPT ![p] = @ \cup {o}]
                 \/ approved' \in {approved, [approved EXCEPT ![p][o] = port]}
                    /\ channel' = channel /\ heard' = heard
                 \/ channel' = [channel EXCEPT ![p][o] = port] /\ approved' = approved /\ heard' = heard
              /\ UNCHANGED <<prow, slot, trusted>>
        BY <1>0, <1>2 DEF Approve
    <2>a. /\ approved \in [ProjectIds -> PortsOf] /\ channel \in [ProjectIds -> PortsOf]
          /\ heard \in [ProjectIds -> SUBSET PeerOrgs] /\ pcall \in [ProjectCalls -> Request]
        BY <1>0, ProjectsTyped
    <2>b. /\ pcall'[r] = [pcall[r] EXCEPT !.asked = @ \cup {o}]
          /\ \A k \in ProjectCalls \ {r} : pcall'[k] = pcall[k]
        BY <2>0, <2>a
    <2>c. /\ pcall'[r].pc = "approve" /\ pcall'[r].p = p /\ pcall'[r].port = port
          /\ pcall'[r].alone = pcall[r].alone
        BY <1>0, <2>0, <2>a, <2>b DEF Request
    <2>1. Beside(r, p)
        BY <1>0, <2>0, <2>a, <2>b
    <2>2. OnOwn(r, p)
        BY <1>0, <1>a, <2>0, <2>c
    <2>3. Leaves(r, p)
        <3>1. SUFFICES ASSUME pcall[r].alone, NEW x \in heard'[p] PROVE approved'[p][x] = port
            BY <2>c DEF HasDone
        <3>2. x = o \/ x \in heard[p]
            BY <1>0, <2>0, <2>a
        <3>3. x \in heard[p] => approved[p][x] = port
            BY <1>a, <2>0, <3>1
        <3>4. x \in PeerOrgs /\ (x \notin heard[p] => heard' # heard)
            BY <1>0, <2>0, <2>a
        <3>. QED BY <1>0, <2>0, <2>a, <3>2, <3>3, <3>4 DEF PortsOf
    <2>. QED BY <2>1, <2>2, <2>3
<1>2a. CASE Commit(r)
    <2>0. /\ pcall[r].pc = "approve" /\ UNCHANGED <<prow, slot, heard>>
          /\ channel' = [channel EXCEPT ![p] = approved[p]]
          /\ approved' = [approved EXCEPT ![p] = NoPort]
          /\ \/ ProjectStep(r, "inspect") /\ trusted' = trusted
             \/ EndProjectCall(r) /\ trusted' = [trusted EXCEPT ![p] = FALSE]
        BY <1>0, <1>2a DEF Commit
    <2>a. /\ channel \in [ProjectIds -> PortsOf] /\ approved \in [ProjectIds -> PortsOf]
          /\ trusted \in [ProjectIds -> BOOLEAN]
        BY <1>0, ProjectsTyped
    <2>b. /\ \A k \in ProjectCalls \ {r} : pcall'[k] = pcall[k]
          /\ \/ /\ pcall'[r].pc = "inspect" /\ pcall'[r].p = p /\ pcall'[r].port = pcall[r].port
                /\ pcall'[r].alone = pcall[r].alone /\ trusted' = trusted
             \/ pcall'[r].pc = "idle" /\ pcall'[r].p = "none" /\ ~trusted'[p]
        BY <1>0, <2>0, <2>a, ProjectMoves DEF ProjectPc
    <2>1. Beside(r, p)
        BY <1>0, <2>0, <2>a, <2>b
    <2>2. OnOwn(r, p)
        BY <1>0, <1>a, <2>0, <2>b
    <2>3. Leaves(r, p)
        <3>1. channel'[p] = approved[p]
            BY <1>0, <2>0, <2>a
        <3>2. pcall[r].alone => \A o \in heard[p] : channel'[p][o] = pcall[r].port
            BY <1>a, <2>0, <3>1
        <3>. QED BY <2>0, <2>b, <3>2
    <2>. QED BY <2>1, <2>2, <2>3
<1>3. CASE ContainerInspect(r)
    <2>1. Beside(r, p)
        BY <1>0, <1>3 DEF ContainerInspect, ProjectsTypeOK
    <2>2. OnOwn(r, p)
        BY <1>0, <1>a, <1>3 DEF ContainerInspect, ProjectsTypeOK
    <2>3. Leaves(r, p)
        BY <1>0, <1>a, <1>3 DEF ContainerInspect, ProjectsTypeOK
    <2>. QED BY <2>1, <2>2, <2>3
<1>4. CASE ContainerRemove(r)
    <2>1. Beside(r, p)
        BY <1>0, <1>4 DEF ContainerRemove, ProjectsTypeOK
    <2>2. OnOwn(r, p)
        BY <1>0, <1>a, <1>4 DEF ContainerRemove, ProjectsTypeOK
    <2>3. Leaves(r, p)
        BY <1>0, <1>a, <1>4 DEF ContainerRemove, ProjectsTypeOK
    <2>. QED BY <2>1, <2>2, <2>3
<1>5. CASE ContainerCreate(r)
    <2>1. Beside(r, p)
        BY <1>0, <1>5 DEF ContainerCreate, ProjectsTypeOK
    <2>2. OnOwn(r, p)
        BY <1>0, <1>a, <1>5 DEF ContainerCreate, ProjectsTypeOK
    <2>3. Leaves(r, p)
        BY <1>0, <1>a, <1>5 DEF ContainerCreate, ProjectsTypeOK
    <2>. QED BY <2>1, <2>2, <2>3
<1>6. CASE ContainerStart(r)
    <2>1. Beside(r, p)
        BY <1>0, <1>6 DEF ContainerStart, ProjectsTypeOK
    <2>2. OnOwn(r, p)
        BY <1>0, <1>a, <1>6 DEF ContainerStart, ProjectsTypeOK
    <2>3. Leaves(r, p)
        BY <1>0, <1>a, <1>6 DEF ContainerStart, ProjectsTypeOK
    <2>. QED BY <2>1, <2>2, <2>3
<1>7. CASE MarkProjectRunning(r)
    <2>1. Beside(r, p)
        BY <1>0, <1>7 DEF MarkProjectRunning, ProjectsTypeOK
    <2>2. OnOwn(r, p)
        BY <1>0, <1>a, <1>7 DEF MarkProjectRunning, ProjectsTypeOK
    <2>3. Leaves(r, p)
        <3>1. /\ pcall[r].pc = "running" /\ slot' = slot /\ channel' = channel /\ heard' = heard
              /\ EndProjectCall(r)
              /\ prow[p].row = "present" =>
                     prow' = [prow EXCEPT ![p].status = "running", ![p].cid = pcall[r].id, ![p].port = pcall[r].port]
            BY <1>0, <1>7 DEF MarkProjectRunning
        <3>2. pcall'[r].pc = "idle"
            BY <1>0, <3>1, ProjectMoves
        <3>3. prow[p].row = "present" =>
                  /\ prow'[p].status = "running" /\ prow'[p].fabric = prow[p].fabric
                  /\ prow'[p].cid = pcall[r].id /\ prow'[p].port = pcall[r].port
            <4>1. prow \in [ProjectIds -> ProjectRow] /\ prow[p] \in ProjectRow
                BY <1>0, ProjectsTyped
            <4>. QED BY <1>0, <3>1, <4>1 DEF ProjectRow
        <3>. QED BY <1>a, <3>1, <3>2, <3>3
    <2>. QED BY <2>1, <2>2, <2>3
<1>8. CASE ReadProject(r)
    <2>1. Beside(r, p)
        BY <1>0, <1>8 DEF ReadProject, ProjectsTypeOK
    <2>2. OnOwn(r, p)
        <3>1. /\ UNCHANGED <<prow, trusted>>
              /\ \/ pcall' = [pcall EXCEPT ![r].pc = "halt", ![r].id = prow[p].cid]
                 \/ EndProjectCall(r) \/ \E x \in {"poststop", "row"} : ProjectStep(r, x)
            BY <1>0, <1>8 DEF ReadProject
        <3>2. IF pcall'[r].pc = "idle" THEN pcall'[r].p = "none"
              ELSE pcall'[r].p = p /\ (pcall'[r].alone <=> pcall[r].alone)
            <4>1. CASE pcall' = [pcall EXCEPT ![r].pc = "halt", ![r].id = prow[p].cid]
                <5>1. pcall \in [ProjectCalls -> Request] /\ pcall[r] \in Request
                    BY <1>0, ProjectsTyped
                <5>2. pcall'[r] = [pcall[r] EXCEPT !.pc = "halt", !.id = prow[p].cid]
                    BY <4>1, <5>1
                <5>. QED BY <1>0, <5>1, <5>2 DEF Request
            <4>2. CASE EndProjectCall(r) \/ \E x \in {"poststop", "row"} : ProjectStep(r, x)
                BY <1>0, <4>2, ProjectMoves DEF ProjectPc
            <4>. QED BY <3>1, <4>1, <4>2
        <3>. QED BY <1>a, <3>1, <3>2
    <2>3. Leaves(r, p)
        BY <1>0, <1>a, <1>8 DEF ReadProject, ProjectsTypeOK
    <2>. QED BY <2>1, <2>2, <2>3
<1>9. CASE ContainerStop(r)
    <2>1. Beside(r, p)
        BY <1>0, <1>9 DEF ContainerStop, ProjectsTypeOK
    <2>2. OnOwn(r, p)
        BY <1>0, <1>a, <1>9 DEF ContainerStop, ProjectsTypeOK
    <2>3. Leaves(r, p)
        BY <1>0, <1>a, <1>9 DEF ContainerStop, ProjectsTypeOK
    <2>. QED BY <2>1, <2>2, <2>3
<1>10. CASE MarkProjectStopped(r)
    <2>1. Beside(r, p)
        BY <1>0, <1>10 DEF MarkProjectStopped, ProjectsTypeOK
    <2>2. OnOwn(r, p)
        <3>1. (\E x \in {"poststop", "row"} : ProjectStep(r, x)) \/ EndProjectCall(r)
            BY <1>10 DEF MarkProjectStopped
        <3>2. IF pcall'[r].pc = "idle" THEN pcall'[r].p = "none"
              ELSE pcall'[r].p = p /\ (pcall'[r].alone <=> pcall[r].alone)
            BY <1>0, <3>1, ProjectMoves DEF ProjectPc
        <3>3. /\ trusted'[p] => trusted[p] \/ pcall[r].alone
              /\ prow'[p].row # "present" => prow'[p].status = "none"
              /\ prow[p].row = "present" => prow'[p].row = "present"
            BY <1>0, <1>a, <1>10 DEF MarkProjectStopped, ProjectsTypeOK
        <3>. QED BY <3>2, <3>3
    <2>3. Leaves(r, p)
        <3>1. /\ pcall[r].pc = "stopped" /\ slot' = slot
              /\ EndProjectCall(r) \/ \E x \in {"poststop", "row"} : ProjectStep(r, x)
              /\ prow[p].row = "present" =>
                     prow' = [prow EXCEPT ![p].status = "stopped", ![p].cid = pcall[r].id, ![p].port = 0]
            BY <1>0, <1>10 DEF MarkProjectStopped
        <3>2. pcall'[r].pc \in {"idle", "poststop", "row"}
            BY <1>0, <3>1, ProjectMoves DEF ProjectPc
        <3>3. prow[p].row = "present" => prow'[p].status = "stopped"
            <4>1. prow \in [ProjectIds -> ProjectRow] /\ prow[p] \in ProjectRow
                BY <1>0, ProjectsTyped
            <4>. QED BY <1>0, <3>1, <4>1 DEF ProjectRow
        <3>. QED BY <1>a, <3>1, <3>2, <3>3
    <2>. QED BY <2>1, <2>2, <2>3
<1>11. CASE PostStop(r)
    <2>1. Beside(r, p)
        BY <1>0, <1>11 DEF PostStop, ProjectsTypeOK
    <2>2. OnOwn(r, p)
        <3>1. (\E x \in {"poststop", "row"} : ProjectStep(r, x)) \/ EndProjectCall(r)
            BY <1>11 DEF PostStop
        <3>2. IF pcall'[r].pc = "idle" THEN pcall'[r].p = "none"
              ELSE pcall'[r].p = p /\ (pcall'[r].alone <=> pcall[r].alone)
            BY <1>0, <3>1, ProjectMoves DEF ProjectPc
        <3>3. /\ trusted'[p] => trusted[p] \/ pcall[r].alone
              /\ prow'[p].row # "present" => prow'[p].status = "none"
              /\ prow[p].row = "present" => prow'[p].row = "present"
            <4>1. prow \in [ProjectIds -> ProjectRow] /\ prow[p] \in ProjectRow
                BY <1>0, ProjectsTyped
            <4>2. /\ trusted' = trusted
                  /\ \/ prow' = prow
                     \/ /\ prow[p].row = "present"
                        /\ prow' = [prow EXCEPT ![p].status = "stopped", ![p].cid = "none", ![p].port = 0]
                BY <1>0, <1>11 DEF PostStop
            <4>3. prow'[p].row = prow[p].row /\ (prow[p].row # "present" => prow'[p] = prow[p])
                BY <1>0, <4>1, <4>2 DEF ProjectRow
            <4>. QED BY <1>a, <4>2, <4>3
        <3>. QED BY <3>2, <3>3
    <2>3. Leaves(r, p)
        BY <1>0, <1>a, <1>11 DEF PostStop, ProjectsTypeOK
    <2>. QED BY <2>1, <2>2, <2>3
<1>12. CASE DeleteProject(r)
    <2>1. Beside(r, p)
        BY <1>0, <1>12 DEF DeleteProject, ProjectsTypeOK
    <2>2. OnOwn(r, p)
        BY <1>0, <1>a, <1>12 DEF DeleteProject, ProjectsTypeOK
    <2>3. Leaves(r, p)
        BY <1>0, <1>a, <1>12 DEF DeleteProject, ProjectsTypeOK
    <2>. QED BY <2>1, <2>2, <2>3
<1>13. CASE ProjectCallFails(r)
    <2>1. Beside(r, p)
        BY <1>0, <1>13 DEF ProjectCallFails, ProjectsTypeOK
    <2>2. OnOwn(r, p)
        <3>1. /\ trusted' = [trusted EXCEPT ![p] = FALSE] /\ prow' = prow
              /\ EndProjectCall(r) \/ ProjectStep(r, "row")
            BY <1>0, <1>13 DEF ProjectCallFails
        <3>2. IF pcall'[r].pc = "idle" THEN pcall'[r].p = "none"
              ELSE pcall'[r].p = p /\ (pcall'[r].alone <=> pcall[r].alone)
            BY <1>0, <3>1, ProjectMoves DEF ProjectPc
        <3>3. trusted'[p] = FALSE
            BY <1>0, <3>1, ProjectsTyped
        <3>. QED BY <1>a, <3>1, <3>2, <3>3
    <2>3. Leaves(r, p)
        BY <1>0, <1>a, <1>13 DEF ProjectCallFails, ProjectsTypeOK
    <2>. QED BY <2>1, <2>2, <2>3
<1>. QED BY <1>1, <1>2, <1>2a, <1>3, <1>4, <1>5, <1>6, <1>7, <1>8, <1>9, <1>10, <1>11, <1>12, <1>13
    DEF ProjectCallStep

LEMMA ProjectCallStepInv ==
    ASSUME ProjectsInv, NEW r \in ProjectCalls, ProjectCallStep(r)
    PROVE  ProjectsInv'
<1>1. pcall[r].pc # "idle" /\ pcall[r].p \in ProjectIds
    BY
       DEF ProjectsInv, RequestsNamed, ProjectCallStep, FindAvailablePort, Approve, Commit,
           ContainerInspect, ContainerRemove, ContainerCreate, ContainerStart, MarkProjectRunning,
           ReadProject, ContainerStop, MarkProjectStopped, PostStop, DeleteProject, ProjectCallFails
<1>. QED BY <1>1, ProjectStepTyped, ProjectStepLocal, ProjectStepInv

LEMMA ProjectsAlways == ProjectsSpec => []ProjectsInv
<1>1. ProjectsInv /\ ProjectsNext => ProjectsInv'
    BY CreateProjectInv, BeginProjectCallInv, ProjectCallStepInv DEF ProjectsNext
<1>2. ProjectsInv /\ UNCHANGED projectVars => ProjectsInv'
    BY DEF ProjectsInv, projectVars, ProjectsTypeOK, RowsBlank, RequestsNamed, OnlyRequest,
           AloneHasDone, HasDone, TrustedServed, Served
<1>. QED BY ProjectsStart, <1>1, <1>2, PTL DEF ProjectsSpec

(* The rows of projects, their containers, what organizations approved and  *)
(* dial, and the requests on them always have their type.                   *)
THEOREM ProjectsTypeCorrect == ProjectsSpec => []ProjectsTypeOK
<1>1. ProjectsInv => ProjectsTypeOK
    BY DEF ProjectsInv
<1>. QED BY ProjectsAlways, <1>1, PTL

(* For any projects, organizations, requests, ports and containers: a       *)
(* project that nothing cast doubt on is served as its row says, under the  *)
(* port that the organizations dial whose approval went through, and one    *)
(* that is not running, or deleted, has no container up                     *)
(* (FabricLifecycle.PreStart, Runner.Start, Runner.Stop).                   *)
THEOREM ProjectAlwaysServed == ProjectsSpec => []ProjectIsServed
<1>1. ProjectsInv => ProjectIsServed
    <2>1. ASSUME ProjectsInv, NEW p \in ProjectIds, Served(p), prow[p].status = "running"
          PROVE  slot[p] = [id |-> prow[p].cid, port |-> prow[p].port, up |-> TRUE]
        BY <2>1 DEF ProjectsInv, ProjectsTypeOK, Served
    <2>. QED BY <2>1 DEF ProjectsInv, TrustedServed, ProjectIsServed, Served
<1>. QED BY ProjectsAlways, <1>1, PTL

-----------------------------------------------------------------------------
(* The server process.  No service can tell that the others run beside it: *)
(* of their steps it sees its own, or a step of the providers it shares.   *)

LEMMA ServerParts ==
    [ServerNext]_serverVars =>
        /\ [MonitoringNext]_<<monitoringVars, notificationVars>>
        /\ [DiskSpaceNext]_<<diskVars, notificationVars>>
        /\ [NotificationsNext]_notificationVars
        /\ [ChaincodeNext]_chaincodeVars
        /\ [AuditNext]_auditVars
        /\ [PluginsNext]_pluginVars
        /\ [FabricXNext]_fabricxVars
<1>. SUFFICES ASSUME [ServerNext]_serverVars
              PROVE  /\ [MonitoringNext]_<<monitoringVars, notificationVars>>
                     /\ [DiskSpaceNext]_<<diskVars, notificationVars>>
                     /\ [NotificationsNext]_notificationVars
                     /\ [ChaincodeNext]_chaincodeVars
                     /\ [AuditNext]_auditVars
                     /\ [PluginsNext]_pluginVars
                     /\ [FabricXNext]_fabricxVars
    OBVIOUS
<1>1. CASE SharedNext /\ UNCHANGED servicesVars
    BY <1>1 DEF SharedNext, servicesVars, MonitoringNext, DiskSpaceNext
<1>2. CASE OwnNext /\ UNCHANGED monitorsVars
    BY <1>2 DEF OwnNext, monitorsVars
<1>3. CASE UNCHANGED serverVars
    BY <1>3 DEF serverVars, monitorsVars, servicesVars
<1>. QED BY <1>1, <1>2, <1>3 DEF ServerNext

\* The disk space monitor writes no row of the providers, and reads them as they are.
DiskSpaceInv == NotificationsTypeOK /\ DiskSpaceTypeOK

LEMMA DiskSpaceStart == DiskSpaceInit => DiskSpaceInv
BY ProvidersInit DEF DiskSpaceInit, DiskSpaceInv, DiskSpaceTypeOK, ProvidersInv

LEMMA DiskSpaceKept ==
    DiskSpaceInv /\ [DiskSpaceNext]_<<diskVars, notificationVars>> => DiskSpaceInv'
<1>. SUFFICES ASSUME DiskSpaceInv, [DiskSpaceNext]_<<diskVars, notificationVars>>
              PROVE  DiskSpaceInv'
    OBVIOUS
<1>1. CASE DiskSpaceStep /\ UNCHANGED notificationVars
    <2>1. NotificationsTypeOK'
        BY <1>1 DEF DiskSpaceInv, NotificationsTypeOK, notificationVars
    <2>2. Outcome \in {"mail", "nobody", "failed"}
        BY DEF Outcome
    <2>3. DiskSpaceTypeOK'
        BY <1>1, <2>2 DEF DiskSpaceStep, ToggleDisk, CooldownPasses, CheckDiskSpace, SendDiskSpaceAlert,
                          DiskSpaceInv, DiskSpaceTypeOK
    <2>. QED BY <2>1, <2>3 DEF DiskSpaceInv
<1>2. CASE NotificationsNext /\ UNCHANGED diskVars
    <2>1. NotificationsTypeOK'
        BY <1>2, ProvidersTypes DEF DiskSpaceInv
    <2>. QED BY <1>2, <2>1 DEF DiskSpaceInv, DiskSpaceTypeOK, diskVars
<1>3. CASE UNCHANGED <<diskVars, notificationVars>>
    BY <1>3 DEF DiskSpaceInv, DiskSpaceTypeOK, NotificationsTypeOK, diskVars, notificationVars
<1>. QED BY <1>1, <1>2, <1>3 DEF DiskSpaceNext

\* The invariants of the services, each of which its own steps preserve.
ServerInv ==
    /\ MonitoringInv /\ DiskSpaceInv /\ ProvidersInv
    /\ ChaincodeInv /\ AuditInv /\ PluginsInv /\ FabricXInv

LEMMA ServerInvariant == ServerSpec => []ServerInv
<1>1. ServerInit => ServerInv
    BY MonitoringStart, DiskSpaceStart, ProvidersInit, ChaincodeInitInv, InitInv, PluginsStart, FabricXStart
    DEF ServerInit, MonitoringInit, ServerInv
<1>2. ServerInv /\ [ServerNext]_serverVars => ServerInv'
    <2>. SUFFICES ASSUME ServerInv, [ServerNext]_serverVars PROVE ServerInv'
        OBVIOUS
    <2>1. MonitoringInv'
        BY ServerParts, MonitoringStep, MonitoringStutter DEF ServerInv
    <2>2. DiskSpaceInv'
        BY ServerParts, DiskSpaceKept DEF ServerInv
    <2>3. ProvidersInv'
        BY ServerParts, ProvidersStep, ProvidersStutter DEF ServerInv
    <2>4. ChaincodeInv' /\ AuditInv' /\ PluginsInv' /\ FabricXInv'
        BY ServerParts, ChaincodeStep, NextInv, PluginsStep, FabricXStep DEF ServerInv
    <2>. QED BY <2>1, <2>2, <2>3, <2>4 DEF ServerInv
<1>. QED BY <1>1, <1>2, PTL DEF ServerSpec

(* Every variable of the services has its type, whatever the others do.    *)
THEOREM ServerTypeCorrect == ServerSpec => []ServerTypeOK
<1>1. ServerInv => ServerTypeOK
    BY DEF ServerInv, ServerTypeOK, MonitoringInv, DiskSpaceInv, ChaincodeInv, AuditInv, PluginsInv,
           FabricXInv
<1>. QED BY ServerInvariant, <1>1, PTL

(* What was proved of each service alone holds of it in the process: the   *)
(* node monitor serves what it recorded and reports by its threshold while *)
(* the providers it mails through change and the disk monitor uses them    *)
(* too, and ports, packages, containers, plugins and joins stay as exact.  *)
THEOREM ServicesDoNotInterfere ==
    ServerSpec => []( /\ StatusServed /\ ReportIsCurrent /\ ReportedAfterThreshold
                      /\ OneDefault
                      /\ PortsApart /\ InstalledIsOfRow /\ DeploymentIsExact
                      /\ DeployingIsServed /\ StatusIsProject
                      /\ LastJoinVerifies /\ OneTransactionPerRecord )
<1>1. ServerInv => OneDefault
    BY SingleIsOne DEF ServerInv, ProvidersInv
<1>2. ServerInv => PortsApart /\ InstalledIsOfRow /\ DeploymentIsExact
    BY InvParts, InvInstalled, InvDeployment DEF ServerInv
<1>3. ServerInv => /\ StatusServed /\ ReportIsCurrent /\ ReportedAfterThreshold
                   /\ DeployingIsServed /\ StatusIsProject
                   /\ LastJoinVerifies /\ OneTransactionPerRecord
    BY MonitoringHolds, PluginsHold, FabricXHolds DEF ServerInv
<1>. QED BY ServerInvariant, <1>1, <1>2, <1>3, PTL

(* The audit log keeps its promise about every event - written once or     *)
(* accounted for - inside the process too.                                 *)
THEOREM ServerKeepsEvents == ServerSpec => Abstract!EventsSafety
<1>1. ServerInit => AuditInit
    BY DEF ServerInit
<1>2. ServerInv => AuditInv
    BY DEF ServerInv
<1>3. AuditInv /\ [ServerNext]_serverVars => [Abstract!EventsNext]_[e \in Events |-> FateOf(e)]
    BY ServerParts, StepRefines
<1>. QED BY ServerInvariant, <1>1, <1>2, <1>3, InitRefines, PTL DEF ServerSpec, Abstract!EventsSafety
=============================================================================
