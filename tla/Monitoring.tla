----------------------------- MODULE Monitoring -----------------------------
(***************************************************************************)
(* Node monitoring (pkg/monitoring/service.go) and the mails it sends.     *)
(*                                                                         *)
(* A pool of workers shares a map of nodes and a map of last results, each *)
(* under a mutex of its own, and a set of nodes being checked under a      *)
(* third.  cmd/serve fills the map once, from a list of rows it read       *)
(* before.  DeleteNode of the nodes service would take a node out, but     *)
(* nothing hands it the monitoring service: a node stays.                  *)
(*                                                                         *)
(* Of a timestamp only matters whether the interval it is compared with    *)
(* has passed: recent holds the nodes checked less than CheckInterval ago. *)
(***************************************************************************)
EXTENDS Notifications

CONSTANTS
    Watchable, \* ids of the nodes that exist when the server starts
    BesuNodes, \* those of them on the Besu platform
    Workers,   \* the worker goroutines
    Threshold  \* FailureThreshold of every node

ASSUME MonitoringAssumption ==
    /\ Threshold \in Nat \ {0}
    /\ "none" \notin Watchable /\ "none" \notin Providers

VARIABLES
    nodeRows, \* nodes rows
    alive,    \* external: the nodes that answer
    pending,  \* the list cmd/serve read and has not added yet
    listed,   \* cmd/serve has read the list
    watched,  \* service.nodes: its keys
    mon,      \* the Node of each key: Status, and FailureCount up to Threshold
    recent,   \* nodes whose LastChecked is less than CheckInterval ago
    results,  \* service.lastCheckResults: the status in it
    checking, \* service.checkingNodes
    worker,   \* local state of each worker
    told      \* history: nodes reported down by mail since they were last seen up

monitoringVars == <<nodeRows, alive, pending, listed, watched, mon, recent, results,
                    checking, worker, told>>

Idle == [todo |-> {}, pc |-> "idle", n |-> "none", found |-> "none"]

MonitoringTypeOK ==
    /\ NotificationsTypeOK
    /\ nodeRows \subseteq Watchable /\ alive \subseteq Watchable
    /\ pending \subseteq Watchable /\ watched \subseteq Watchable
    /\ recent \subseteq Watchable /\ checking \subseteq Watchable
    /\ told \subseteq Watchable
    /\ listed \in BOOLEAN
    /\ mon \in [Watchable -> [status : {"none", "up", "down"}, fails : 0..Threshold]]
    /\ results \in [Watchable -> {"none", "up", "down"}]
    /\ worker \in [Workers -> [todo  : SUBSET Watchable,
                               pc    : {"idle", "guard", "probe", "record", "store", "notify", "release"},
                               n     : Watchable \cup {"none"},
                               found : {"none", "up", "down"}]]

MonitoringInit ==
    /\ NotificationsInit
    /\ nodeRows \in SUBSET Watchable \ {{}}
    /\ alive = nodeRows
    /\ pending = {} /\ listed = FALSE
    /\ watched = {} /\ recent = {} /\ checking = {} /\ told = {}
    /\ mon = [n \in Watchable |-> [status |-> "none", fails |-> 0]]
    /\ results = [n \in Watchable |-> "none"]
    /\ worker = [k \in Workers |-> Idle]

-----------------------------------------------------------------------------
(* The world: nodes stop and come back, are deleted; time passes.          *)

Toggle(n) ==
    /\ n \in nodeRows
    /\ alive' = IF n \in alive THEN alive \ {n} ELSE alive \cup {n}
    /\ UNCHANGED <<nodeRows, pending, listed, watched, mon, recent, results, checking, worker, told>>

\* DeleteNode: monitoringService is nil, so the map of the monitor keeps the node.
DeleteNode(n) ==
    /\ n \in nodeRows
    /\ nodeRows' = nodeRows \ {n}
    /\ UNCHANGED <<alive, pending, listed, watched, mon, recent, results, checking, worker, told>>

IntervalPasses(n) ==
    /\ n \in recent
    /\ recent' = recent \ {n}
    /\ UNCHANGED <<nodeRows, alive, pending, listed, watched, mon, results, checking, worker, told>>

-----------------------------------------------------------------------------
(* Who is watched: cmd/serve reads the rows once, five seconds after the   *)
(* start.  It gives up when the query of the Fabric nodes fails, and does  *)
(* without the Besu nodes when theirs does.                                *)

ListNodes ==
    /\ ~listed
    /\ listed' = TRUE
    /\ pending' \in {nodeRows, nodeRows \ BesuNodes, {}}
    /\ UNCHANGED <<nodeRows, alive, watched, mon, recent, results, checking, worker, told>>

AddNode(n) ==
    /\ n \in pending
    /\ pending' = pending \ {n}
    /\ watched' = watched \cup {n}
    /\ UNCHANGED <<nodeRows, alive, listed, mon, recent, results, checking, worker, told>>

-----------------------------------------------------------------------------
(* A worker.                                                               *)

Due == watched \ recent

NextNode(todo) == [Idle EXCEPT !.todo = todo, !.pc = IF todo = {} THEN "idle" ELSE "guard"]

\* A tick: the due nodes are copied under the read lock.  None due, nothing to do.
Tick(k) ==
    /\ worker[k].pc = "idle"
    /\ Due # {}
    /\ worker' = [worker EXCEPT ![k].todo = Due, ![k].pc = "guard"]
    /\ UNCHANGED <<nodeRows, alive, pending, listed, watched, mon, recent, results, checking, told>>

\* Mutant: the guard against concurrent checks for the same node is missing.
CheckNodeUnguarded(k) ==
    /\ worker[k].pc = "guard"
    /\ \E n \in worker[k].todo :
           /\ worker' = [worker EXCEPT ![k].todo = @ \ {n}, ![k].n = n, ![k].pc = "probe"]
           /\ checking' = checking \cup {n}
    /\ UNCHANGED <<nodeRows, alive, pending, listed, watched, mon, recent, results, told>>

\* Go iterates a map in any order.
CheckNode(k) ==
    /\ worker[k].pc = "guard"
    /\ \E n \in worker[k].todo :
           IF n \in checking
           THEN /\ worker' = [worker EXCEPT ![k] = NextNode(@.todo \ {n})]
                /\ UNCHANGED checking
           ELSE /\ worker' = [worker EXCEPT ![k].todo = @ \ {n}, ![k].n = n, ![k].pc = "probe"]
                /\ checking' = checking \cup {n}
    /\ UNCHANGED <<nodeRows, alive, pending, listed, watched, mon, recent, results, told>>

\* Mutant: a check that gets no answer leaves the status at its zero value.
ProbeUnset(k) ==
    /\ worker[k].pc = "probe"
    /\ worker' = [worker EXCEPT ![k].pc = "record",
                      ![k].found = IF worker[k].n \in nodeRows \cap alive THEN "up" ELSE ""]
    /\ UNCHANGED <<nodeRows, alive, pending, listed, watched, mon, recent, results, checking, told>>

\* GetNode, then a connection to the node: a node that has no row is down.
Probe(k) ==
    /\ worker[k].pc = "probe"
    /\ worker' = [worker EXCEPT ![k].pc = "record",
                      ![k].found = IF worker[k].n \in nodeRows \cap alive THEN "up" ELSE "down"]
    /\ UNCHANGED <<nodeRows, alive, pending, listed, watched, mon, recent, results, checking, told>>

\* Mutant: the node is given back before its result is stored.
RecordReleases(k) ==
    LET n     == worker[k].n
        found == worker[k].found
    IN  /\ worker[k].pc = "record"
        /\ mon' = [mon EXCEPT ![n] =
                      [status |-> found,
                       fails  |-> IF found = "up" THEN 0
                                  ELSE IF @.fails = Threshold THEN Threshold ELSE @.fails + 1]]
        /\ recent' = recent \cup {n}
        /\ checking' = checking \ {n}
        /\ told' = IF found = "up" THEN told \ {n} ELSE told
        /\ worker' = [worker EXCEPT ![k].pc = "store"]
        /\ UNCHANGED <<nodeRows, alive, pending, listed, watched, results>>

\* Under nodesMutex: LastChecked, FailureCount and Status of the Node.
Record(k) ==
    LET n     == worker[k].n
        found == worker[k].found
    IN  /\ worker[k].pc = "record"
        /\ mon' = [mon EXCEPT ![n] =
                      [status |-> found,
                       fails  |-> IF found = "up" THEN 0
                                  ELSE IF @.fails = Threshold THEN Threshold ELSE @.fails + 1]]
        /\ recent' = recent \cup {n}
        /\ told' = IF found = "up" THEN told \ {n} ELSE told
        /\ worker' = [worker EXCEPT ![k].pc = "store"]
        /\ UNCHANGED <<nodeRows, alive, pending, listed, watched, results, checking>>

\* Under resultsMutex, taken after nodesMutex was given back.
Store(k) ==
    /\ worker[k].pc = "store"
    /\ results' = [results EXCEPT ![worker[k].n] = worker[k].found]
    /\ worker' = [worker EXCEPT ![k].pc = "notify"]
    /\ UNCHANGED <<nodeRows, alive, pending, listed, watched, mon, recent, checking, told>>

\* Mutant: every failed check is reported.
NotifyAtOnce(k) ==
    LET n == worker[k].n IN
    /\ worker[k].pc = "notify"
    /\ told' = IF worker[k].found = "down" /\ Delivered("NODE_DOWNTIME")
               THEN told \cup {n} ELSE told
    /\ worker' = [worker EXCEPT ![k].pc = "release", ![k].found = "none"]
    /\ UNCHANGED <<nodeRows, alive, pending, listed, watched, mon, recent, results, checking>>

\* FailureCount is read again, without a lock.  A mail that fails is only
\* logged; a recovery mail changes nothing a later step reads.
Notify(k) ==
    LET n == worker[k].n IN
    /\ worker[k].pc = "notify"
    /\ told' = IF /\ worker[k].found = "down" /\ mon[n].fails >= Threshold
                  /\ Delivered("NODE_DOWNTIME")
               THEN told \cup {n} ELSE told
    /\ worker' = [worker EXCEPT ![k].pc = "release", ![k].found = "none"]
    /\ UNCHANGED <<nodeRows, alive, pending, listed, watched, mon, recent, results, checking>>

\* Mutant: a worker that reported a node down stays with it.
ReleaseUp(k) ==
    /\ worker[k].pc = "release"
    /\ mon[worker[k].n].status = "up"
    /\ checking' = checking \ {worker[k].n}
    /\ worker' = [worker EXCEPT ![k] = NextNode(@.todo)]
    /\ UNCHANGED <<nodeRows, alive, pending, listed, watched, mon, recent, results, told>>

\* The deferred delete of checkNode.
Release(k) ==
    /\ worker[k].pc = "release"
    /\ checking' = checking \ {worker[k].n}
    /\ worker' = [worker EXCEPT ![k] = NextNode(@.todo)]
    /\ UNCHANGED <<nodeRows, alive, pending, listed, watched, mon, recent, results, told>>

Work(k) == \/ Tick(k) \/ CheckNode(k) \/ Probe(k) \/ Record(k) \/ Store(k)
           \/ Notify(k) \/ Release(k)

-----------------------------------------------------------------------------
MonitorStep ==
    \/ \E n \in Watchable : Toggle(n) \/ DeleteNode(n) \/ IntervalPasses(n) \/ AddNode(n)
    \/ ListNodes
    \/ \E k \in Workers : Work(k)

MonitoringNext ==
    \/ MonitorStep /\ UNCHANGED notificationVars
    \/ NotificationsNext /\ UNCHANGED monitoringVars

\* Goroutines are scheduled, tickers fire and every network call has a timeout.
\* Nothing is assumed of the world or of the requests.
MonitoringFairness ==
    /\ \A k \in Workers : WF_<<monitoringVars, notificationVars>>(Work(k) /\ UNCHANGED notificationVars)
    /\ \A n \in Watchable :
           WF_<<monitoringVars, notificationVars>>
               ((IntervalPasses(n) \/ AddNode(n)) /\ UNCHANGED notificationVars)

MonitoringSpec ==
    /\ MonitoringInit /\ [][MonitoringNext]_<<monitoringVars, notificationVars>>
    /\ MonitoringFairness

-----------------------------------------------------------------------------
(* What GetNodeStatus serves is what the node's record says, unless a      *)
(* check of that node is under way: the two maps are written one after the *)
(* other under different mutexes, and two results of one node must not be  *)
(* applied in different orders to them.                                    *)
StatusServed ==
    \A n \in Watchable :
        results[n] # mon[n].status =>
            \E k \in Workers : worker[k].n = n /\ worker[k].pc = "store"

(* The failure count a worker reads after it gave the lock back is still   *)
(* the one its own result led to, and no other worker is at that node.     *)
ReportIsCurrent ==
    \A k \in Workers :
        worker[k].pc \in {"store", "notify"} =>
            /\ mon[worker[k].n].status = worker[k].found
            /\ \A j \in Workers \ {k} : worker[j].n # worker[k].n

(* A node is reported down only after Threshold failed checks in a row,    *)
(* whichever workers made them and whatever they did in between.           *)
ReportedAfterThreshold ==
    \A n \in told : mon[n].status = "down" /\ mon[n].fails = Threshold

(* A watched node that stays down while a default provider takes node      *)
(* alerts and mail works is reported by mail: no worker starves it, no     *)
(* check blocks the others for good.                                       *)
DownIsReported ==
    \A n \in Watchable :
        (n \in watched /\ n \notin alive /\ Receivers("NODE_DOWNTIME") # {} /\ mailUp)
            ~> (n \in told \/ n \in alive \/ Receivers("NODE_DOWNTIME") = {} \/ ~mailUp)
=============================================================================
