------------------------------ MODULE AuditLog ------------------------------
(***************************************************************************)
(* The audit log of the HTTP API (pkg/audit).  A middleware around every   *)
(* audited handler hands one event to a bounded channel after the handler  *)
(* has answered; a pool of workers takes events and inserts a row each.    *)
(* Nothing calls Close in the server: the process ends with what waits.    *)
(***************************************************************************)
EXTENDS Integers, Sequences, FiniteSets

CONSTANTS
    Events,      \* one per audited request
    Capacity,    \* BOUND: slots of the channel (1000 in the code)
    AuditWorkers \* the goroutines of startWorkers

ASSUME AuditAssumption ==
    Capacity \in Nat /\ IsFiniteSet(Events) /\ "none" \notin Events

VARIABLES
    request, \* how far the handler of each request is
    queue,   \* the channel
    holding, \* the event each worker has taken and not finished
    copies,  \* rows of audit_logs for each event
    lostTo   \* history: why an event was given up

auditVars == <<request, queue, holding, copies, lostTo>>

Reasons == {"none", "dropped", "refused", "panicked", "killed"}

AuditTypeOK ==
    /\ request \in [Events -> {"waiting", "running", "ended"}]
    /\ queue \in Seq(Events) /\ Len(queue) <= Capacity
    /\ holding \in [AuditWorkers -> Events \cup {"none"}]
    /\ copies \in [Events -> Nat]
    /\ lostTo \in [Events -> Reasons]

AuditInit ==
    /\ request = [e \in Events |-> "waiting"]
    /\ queue = <<>>
    /\ holding = [w \in AuditWorkers |-> "none"]
    /\ copies = [e \in Events |-> 0]
    /\ lostTo = [e \in Events |-> "none"]

Queued(e) == \E i \in 1..Len(queue) : queue[i] = e
Held(e)   == \E w \in AuditWorkers : holding[w] = e

-----------------------------------------------------------------------------
Serve(e) ==
    /\ request[e] = "waiting"
    /\ request' = [request EXCEPT ![e] = "running"]
    /\ UNCHANGED <<queue, holding, copies, lostTo>>

\* select with a default: a full channel drops the event, the handler never waits.
LogEventAsync(e) ==
    /\ request[e] = "running"
    /\ request' = [request EXCEPT ![e] = "ended"]
    /\ IF Len(queue) < Capacity
       THEN queue' = Append(queue, e) /\ lostTo' = lostTo
       ELSE lostTo' = [lostTo EXCEPT ![e] = "dropped"] /\ queue' = queue
    /\ UNCHANGED <<holding, copies>>

\* Recoverer sits outside the middleware, and the event is not deferred.
HandlerPanics(e) ==
    /\ request[e] = "running"
    /\ request' = [request EXCEPT ![e] = "ended"]
    /\ lostTo' = [lostTo EXCEPT ![e] = "panicked"]
    /\ UNCHANGED <<queue, holding, copies>>

\* Mutant: the event stays in the channel while it is written.
TakeEventPeek(w) ==
    /\ holding[w] = "none"
    /\ queue # <<>>
    /\ holding' = [holding EXCEPT ![w] = Head(queue)]
    /\ UNCHANGED <<request, queue, copies, lostTo>>

TakeEvent(w) ==
    /\ holding[w] = "none"
    /\ queue # <<>>
    /\ holding' = [holding EXCEPT ![w] = Head(queue)]
    /\ queue' = Tail(queue)
    /\ UNCHANGED <<request, copies, lostTo>>

CreateAuditLog(w) ==
    /\ holding[w] # "none"
    /\ copies' = [copies EXCEPT ![holding[w]] = @ + 1]
    /\ holding' = [holding EXCEPT ![w] = "none"]
    /\ UNCHANGED <<request, queue, lostTo>>

\* Details that do not marshal, or an error of the database: continue.
InsertFails(w) ==
    /\ holding[w] # "none"
    /\ lostTo' = [lostTo EXCEPT ![holding[w]] = "refused"]
    /\ holding' = [holding EXCEPT ![w] = "none"]
    /\ UNCHANGED <<request, queue, copies>>

KillAudit ==
    /\ lostTo' = [e \in Events |->
                     IF request[e] = "running" \/ Queued(e) \/ Held(e) THEN "killed" ELSE lostTo[e]]
    /\ request' = [e \in Events |-> IF request[e] = "running" THEN "ended" ELSE request[e]]
    /\ queue' = <<>>
    /\ holding' = [w \in AuditWorkers |-> "none"]
    /\ UNCHANGED copies

Worker(w) == TakeEvent(w) \/ CreateAuditLog(w) \/ InsertFails(w)

AuditNext ==
    \/ \E e \in Events : Serve(e) \/ LogEventAsync(e) \/ HandlerPanics(e)
    \/ \E w \in AuditWorkers : Worker(w)
    \/ KillAudit

\* A worker takes what it can get, and an insert on the local database ends.
AuditFairness == \A w \in AuditWorkers : WF_auditVars(Worker(w))

AuditSpec == AuditInit /\ [][AuditNext]_auditVars /\ AuditFairness

-----------------------------------------------------------------------------
(* The fate of each event, read off the channel, the workers and the rows. *)
FateOf(e) ==
    IF lostTo[e] # "none" THEN IF copies[e] = 0 THEN lostTo[e] ELSE "twice"
    ELSE IF Queued(e) \/ Held(e) THEN IF copies[e] = 0 THEN "pending" ELSE "twice"
    ELSE IF copies[e] = 0 THEN "open" ELSE IF copies[e] = 1 THEN "stored" ELSE "twice"

Abstract == INSTANCE AuditEvents WITH fate <- [e \in Events |-> FateOf(e)]

(* The queue and its workers do what AuditEvents says: no event is stored  *)
(* twice, whichever workers race for it; only a full channel, an error, a  *)
(* panic or the end of the process takes one away; and every event that    *)
(* entered the channel settles.                                            *)
ImplementsAuditEvents == Abstract!EventsSpec
=============================================================================
