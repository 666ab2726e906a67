-------------------------- MODULE AuditLog_proofs --------------------------
(* Proofs about AuditLog for every set of events and workers and every     *)
(* capacity of the channel: the types, and that the queue and its workers  *)
(* take no step AuditEvents does not allow.                                *)
EXTENDS AuditLog, FiniteSetTheorems, TLAPS

Fresh(e) == copies[e] = 0 /\ lostTo[e] = "none"

\* An event is in one place: with its handler, once in the channel, with one
\* worker, in one row, or lost.
QueueOnce == \A i, j \in 1..Len(queue) : queue[i] = queue[j] => i = j
HoldOnce  == \A v, w \in AuditWorkers : holding[v] = holding[w] /\ holding[v] # "none" => v = w
OpenInv   == \A e \in Events : request[e] # "ended" => Fresh(e) /\ ~Queued(e) /\ ~Held(e)
WaitInv   == \A e \in Events : Queued(e) \/ Held(e) => Fresh(e)
ApartInv  == \A e \in Events : ~(Queued(e) /\ Held(e))
OnceInv   == \A e \in Events : copies[e] \in {0, 1} /\ (copies[e] = 1 => lostTo[e] = "none")

AuditInv == AuditTypeOK /\ QueueOnce /\ HoldOnce /\ OpenInv /\ WaitInv /\ ApartInv /\ OnceInv

LEMMA QueuedAppend ==
    ASSUME queue \in Seq(Events), NEW e \in Events, queue' = Append(queue, e), NEW x \in Events
    PROVE  Queued(x)' <=> Queued(x) \/ x = e
BY DEF Queued

LEMMA QueuedTail ==
    ASSUME queue \in Seq(Events), queue # <<>>, QueueOnce, queue' = Tail(queue), NEW x \in Events
    PROVE  Queued(x)' <=> Queued(x) /\ x # Head(queue)
<1>1. /\ Len(queue') = Len(queue) - 1 /\ Len(queue) \in Nat \ {0}
      /\ \A i \in 1..Len(queue') : queue'[i] = queue[i + 1]
      /\ Head(queue) = queue[1]
    OBVIOUS
<1>2. Queued(x)' => Queued(x) /\ x # Head(queue)
    BY <1>1 DEF Queued, QueueOnce
<1>3. ASSUME Queued(x), x # Head(queue)
      PROVE  Queued(x)'
    <2>1. PICK i \in 1..Len(queue) : queue[i] = x
        BY <1>3 DEF Queued
    <2>2. i - 1 \in 1..Len(queue') /\ queue'[i - 1] = x
        BY <2>1, <1>1, <1>3
    <2>. QED BY <2>2 DEF Queued
<1>. QED BY <1>2, <1>3

LEMMA InitInv == AuditInit => AuditInv
<1>. SUFFICES ASSUME AuditInit PROVE AuditInv
    OBVIOUS
<1>. USE AuditAssumption DEF AuditAssumption, AuditInit
<1>1. AuditTypeOK
    BY DEF AuditTypeOK, Reasons
<1>2. \A e \in Events : Fresh(e) /\ ~Queued(e) /\ ~Held(e)
    BY DEF Fresh, Queued, Held
<1>3. QueueOnce /\ HoldOnce
    BY DEF QueueOnce, HoldOnce
<1>4. OpenInv /\ WaitInv /\ ApartInv
    BY <1>2 DEF OpenInv, WaitInv, ApartInv
<1>5. OnceInv
    BY DEF OnceInv
<1>. QED BY <1>1, <1>3, <1>4, <1>5 DEF AuditInv

LEMMA ServeInv ==
    ASSUME AuditInv, NEW e \in Events, Serve(e)
    PROVE  AuditInv'
<1>. USE DEF AuditInv
<1>1. request[e] = "waiting" /\ request' = [request EXCEPT ![e] = "running"]
      /\ UNCHANGED <<queue, holding, copies, lostTo>>
    BY DEF Serve
<1>2. AuditTypeOK'
    BY <1>1 DEF AuditTypeOK
<1>3. \A x \in Events : /\ Fresh(x)' <=> Fresh(x)
                        /\ Queued(x)' <=> Queued(x)
                        /\ Held(x)' <=> Held(x)
    BY <1>1 DEF Fresh, Queued, Held
<1>4. QueueOnce' /\ HoldOnce' /\ OnceInv'
    BY <1>1 DEF QueueOnce, HoldOnce, OnceInv
<1>5. OpenInv'
    BY <1>1, <1>3 DEF OpenInv, AuditTypeOK
<1>6. WaitInv' /\ ApartInv'
    BY <1>3 DEF WaitInv, ApartInv
<1>. QED BY <1>2, <1>4, <1>5, <1>6

\* A handler that ends without its event in the channel.
LEMMA GivenUp ==
    ASSUME AuditInv, NEW e \in Events, NEW why \in {"dropped", "panicked"},
           Fresh(e), ~Queued(e), ~Held(e), UNCHANGED <<queue, holding, copies>>,
           lostTo' = [lostTo EXCEPT ![e] = why], request' = [request EXCEPT ![e] = "ended"]
    PROVE  AuditInv'
<1>. USE DEF AuditInv
<1>1. AuditTypeOK'
    BY DEF AuditTypeOK, Reasons
<1>2. \A x \in Events : /\ Queued(x)' <=> Queued(x)
                        /\ Held(x)' <=> Held(x)
    BY DEF Queued, Held
<1>3. \A x \in Events \ {e} : Fresh(x)' <=> Fresh(x)
    BY DEF Fresh, AuditTypeOK
<1>4. QueueOnce' /\ HoldOnce'
    BY DEF QueueOnce, HoldOnce
<1>5. OnceInv'
    BY DEF OnceInv, Fresh, AuditTypeOK
<1>6. OpenInv' /\ WaitInv' /\ ApartInv'
    BY <1>2, <1>3 DEF OpenInv, WaitInv, ApartInv, AuditTypeOK
<1>. QED BY <1>1, <1>4, <1>5, <1>6

LEMMA LogInv ==
    ASSUME AuditInv, NEW e \in Events, LogEventAsync(e)
    PROVE  AuditInv'
<1>. USE DEF AuditInv
<1>1. CASE Len(queue) < Capacity
    <2>1. /\ queue' = Append(queue, e) /\ UNCHANGED <<lostTo, holding, copies>>
          /\ request' = [request EXCEPT ![e] = "ended"] /\ request[e] = "running"
        BY <1>1 DEF LogEventAsync
    <2>2. Fresh(e) /\ ~Queued(e) /\ ~Held(e)
        BY <2>1 DEF OpenInv
    <2>3. AuditTypeOK'
        BY <1>1, <2>1, AuditAssumption DEF AuditTypeOK, AuditAssumption
    <2>4. QueueOnce'
        <3>1. Len(queue') = Len(queue) + 1 /\ queue'[Len(queue) + 1] = e
            BY <2>1 DEF AuditTypeOK
        <3>2. \A i \in 1..Len(queue) : queue'[i] = queue[i] /\ queue[i] # e
            BY <2>1, <2>2 DEF AuditTypeOK, Queued
        <3>3. Len(queue) \in Nat
            BY DEF AuditTypeOK
        <3>4. QueueOnce
            OBVIOUS
        <3>. QED BY <3>1, <3>2, <3>3, <3>4 DEF QueueOnce
    <2>5. \A x \in Events : Queued(x)' <=> Queued(x) \/ x = e
        BY <2>1, QueuedAppend DEF AuditTypeOK
    <2>6. \A x \in Events : Held(x)' <=> Held(x)
        BY <2>1 DEF Held
    <2>7. OpenInv' /\ WaitInv' /\ ApartInv'
        BY <2>1, <2>2, <2>5, <2>6 DEF OpenInv, WaitInv, ApartInv, Fresh, AuditTypeOK
    <2>8. HoldOnce' /\ OnceInv'
        BY <2>1 DEF HoldOnce, OnceInv
    <2>. QED BY <2>3, <2>4, <2>7, <2>8
<1>2. CASE ~(Len(queue) < Capacity)
    <2>1. /\ lostTo' = [lostTo EXCEPT ![e] = "dropped"] /\ UNCHANGED <<queue, holding, copies>>
          /\ request' = [request EXCEPT ![e] = "ended"] /\ request[e] = "running"
        BY <1>2 DEF LogEventAsync
    <2>2. Fresh(e) /\ ~Queued(e) /\ ~Held(e)
        BY <2>1 DEF OpenInv
    <2>. QED BY <2>1, <2>2, GivenUp
<1>. QED BY <1>1, <1>2

LEMMA PanicInv ==
    ASSUME AuditInv, NEW e \in Events, HandlerPanics(e)
    PROVE  AuditInv'
<1>1. Fresh(e) /\ ~Queued(e) /\ ~Held(e)
    BY DEF AuditInv, OpenInv, HandlerPanics
<1>. QED BY <1>1, GivenUp DEF HandlerPanics

LEMMA TakeInv ==
    ASSUME AuditInv, NEW w \in AuditWorkers, TakeEvent(w)
    PROVE  AuditInv'
<1>. USE DEF AuditInv
<1>. DEFINE h == Head(queue)
<1>1. /\ queue # <<>> /\ queue' = Tail(queue) /\ holding[w] = "none"
      /\ holding' = [holding EXCEPT ![w] = h] /\ UNCHANGED <<request, copies, lostTo>>
    BY DEF TakeEvent
<1>2. /\ h \in Events /\ h # "none" /\ Queued(h) /\ queue' \in Seq(Events)
      /\ Len(queue') = Len(queue) - 1 /\ Len(queue) \in Nat \ {0}
      /\ \A i \in 1..Len(queue') : queue'[i] = queue[i + 1]
    BY <1>1, AuditAssumption DEF AuditTypeOK, Queued, AuditAssumption
<1>. HIDE DEF h
<1>3. AuditTypeOK'
    BY <1>1, <1>2, AuditAssumption DEF AuditTypeOK, AuditAssumption
<1>4. QueueOnce'
    <2>. SUFFICES ASSUME NEW i \in 1..Len(queue'), NEW j \in 1..Len(queue'), queue'[i] = queue'[j]
                  PROVE  i = j
        BY DEF QueueOnce
    <2>1. i + 1 \in 1..Len(queue) /\ j + 1 \in 1..Len(queue) /\ queue[i + 1] = queue[j + 1]
        BY <1>2
    <2>. QED BY <2>1 DEF QueueOnce
<1>5. \A x \in Events : Queued(x)' <=> Queued(x) /\ x # h
    BY <1>1, QueuedTail DEF AuditTypeOK, h
<1>6. \A x \in Events : Held(x)' <=> Held(x) \/ x = h
    BY <1>1, <1>2, AuditAssumption DEF Held, AuditTypeOK, AuditAssumption
<1>7. ~Held(h) /\ Fresh(h)
    BY <1>2 DEF ApartInv, WaitInv
<1>8. HoldOnce'
    BY <1>1, <1>2, <1>7 DEF HoldOnce, Held, AuditTypeOK
<1>9. OpenInv' /\ WaitInv' /\ ApartInv' /\ OnceInv'
    BY <1>1, <1>2, <1>5, <1>6, <1>7 DEF OpenInv, WaitInv, ApartInv, OnceInv, Fresh
<1>. QED BY <1>3, <1>4, <1>8, <1>9

\* A worker that lets go of its event holds it alone, and it is not in the channel.
LEMMA LetGo ==
    ASSUME AuditInv, NEW w \in AuditWorkers, holding[w] # "none",
           holding' = [holding EXCEPT ![w] = "none"], queue' = queue
    PROVE  /\ holding[w] \in Events /\ Fresh(holding[w]) /\ request[holding[w]] = "ended"
           /\ HoldOnce' /\ QueueOnce' /\ holding' \in [AuditWorkers -> Events \cup {"none"}]
           /\ \A x \in Events : Queued(x)' <=> Queued(x)
           /\ \A x \in Events : Held(x)' <=> Held(x) /\ x # holding[w]
           /\ ~Queued(holding[w])
<1>. USE DEF AuditInv
<1>1. holding[w] \in Events /\ Held(holding[w])
    BY DEF AuditTypeOK, Held
<1>2. Fresh(holding[w]) /\ request[holding[w]] = "ended" /\ ~Queued(holding[w])
    BY <1>1 DEF WaitInv, OpenInv, ApartInv
<1>3. HoldOnce' /\ QueueOnce' /\ holding' \in [AuditWorkers -> Events \cup {"none"}]
    BY DEF HoldOnce, QueueOnce, AuditTypeOK
<1>4. \A x \in Events : Held(x)' <=> Held(x) /\ x # holding[w]
    BY AuditAssumption DEF Held, HoldOnce, AuditTypeOK, AuditAssumption
<1>5. \A x \in Events : Queued(x)' <=> Queued(x)
    BY DEF Queued
<1>. QED BY <1>1, <1>2, <1>3, <1>4, <1>5

LEMMA CreateInv ==
    ASSUME AuditInv, NEW w \in AuditWorkers, CreateAuditLog(w)
    PROVE  AuditInv'
<1>. USE DEF AuditInv
<1>1. /\ holding[w] # "none" /\ holding' = [holding EXCEPT ![w] = "none"]
      /\ copies' = [copies EXCEPT ![holding[w]] = @ + 1] /\ UNCHANGED <<request, queue, lostTo>>
    BY DEF CreateAuditLog
<1>2. /\ holding[w] \in Events /\ Fresh(holding[w]) /\ request[holding[w]] = "ended"
      /\ HoldOnce' /\ QueueOnce' /\ holding' \in [AuditWorkers -> Events \cup {"none"}]
      /\ \A x \in Events : Queued(x)' <=> Queued(x)
      /\ \A x \in Events : Held(x)' <=> Held(x) /\ x # holding[w]
      /\ ~Queued(holding[w])
    BY <1>1, LetGo
<1>3. AuditTypeOK'
    BY <1>1, <1>2 DEF AuditTypeOK
<1>4. OpenInv' /\ WaitInv' /\ ApartInv' /\ OnceInv'
    BY <1>1, <1>2 DEF OpenInv, WaitInv, ApartInv, OnceInv, Fresh, AuditTypeOK
<1>. QED BY <1>2, <1>3, <1>4

LEMMA FailInv ==
    ASSUME AuditInv, NEW w \in AuditWorkers, InsertFails(w)
    PROVE  AuditInv'
<1>. USE DEF AuditInv
<1>1. /\ holding[w] # "none" /\ holding' = [holding EXCEPT ![w] = "none"]
      /\ lostTo' = [lostTo EXCEPT ![holding[w]] = "refused"] /\ UNCHANGED <<request, queue, copies>>
    BY DEF InsertFails
<1>2. /\ holding[w] \in Events /\ Fresh(holding[w]) /\ request[holding[w]] = "ended"
      /\ HoldOnce' /\ QueueOnce' /\ holding' \in [AuditWorkers -> Events \cup {"none"}]
      /\ \A x \in Events : Queued(x)' <=> Queued(x)
      /\ \A x \in Events : Held(x)' <=> Held(x) /\ x # holding[w]
      /\ ~Queued(holding[w])
    BY <1>1, LetGo
<1>3. AuditTypeOK'
    BY <1>1, <1>2 DEF AuditTypeOK, Reasons
<1>4. OpenInv' /\ WaitInv' /\ ApartInv' /\ OnceInv'
    BY <1>1, <1>2 DEF OpenInv, WaitInv, ApartInv, OnceInv, Fresh, AuditTypeOK
<1>. QED BY <1>2, <1>3, <1>4

LEMMA KillInv ==
    ASSUME AuditInv, KillAudit
    PROVE  AuditInv'
<1>. USE DEF AuditInv
<1>1. /\ queue' = <<>> /\ holding' = [w \in AuditWorkers |-> "none"] /\ copies' = copies
      /\ lostTo' = [e \in Events |->
             IF request[e] = "running" \/ Queued(e) \/ Held(e) THEN "killed" ELSE lostTo[e]]
      /\ request' = [e \in Events |-> IF request[e] = "running" THEN "ended" ELSE request[e]]
    BY DEF KillAudit
<1>2. AuditTypeOK'
    BY <1>1, AuditAssumption DEF AuditTypeOK, Reasons, AuditAssumption
<1>3. \A e \in Events : ~Queued(e)' /\ ~Held(e)'
    BY <1>1, AuditAssumption DEF Queued, Held, AuditAssumption
<1>4. QueueOnce' /\ HoldOnce' /\ WaitInv' /\ ApartInv'
    BY <1>1, <1>3 DEF QueueOnce, HoldOnce, WaitInv, ApartInv
<1>5. OpenInv'
    BY <1>1, <1>3 DEF OpenInv, Fresh, AuditTypeOK
<1>6. OnceInv'
    BY <1>1 DEF OnceInv, OpenInv, WaitInv, Fresh, AuditTypeOK
<1>. QED BY <1>2, <1>4, <1>5, <1>6

LEMMA NextInv == AuditInv /\ [AuditNext]_auditVars => AuditInv'
<1>1. ASSUME AuditInv, AuditNext PROVE AuditInv'
    BY <1>1, ServeInv, LogInv, PanicInv, TakeInv, CreateInv, FailInv, KillInv DEF AuditNext, Worker
<1>2. ASSUME AuditInv, UNCHANGED auditVars PROVE AuditInv'
    BY <1>2 DEF auditVars, AuditInv, AuditTypeOK, QueueOnce, HoldOnce, OpenInv, WaitInv, ApartInv,
               OnceInv, Fresh, Queued, Held
<1>. QED BY <1>1, <1>2

(* Every variable of the audit log has its type, and an event is in one    *)
(* place at a time: the channel, one worker, one row or lost.              *)
THEOREM AuditInvariant == AuditSpec => []AuditInv
<1>. QED BY InitInv, NextInv, PTL DEF AuditSpec

-----------------------------------------------------------------------------
(* The refinement.  The fate of each event after a step.                   *)

LEMMA FateType == AuditInv => \A e \in Events : FateOf(e) \in Abstract!Fates
BY DEF AuditInv, AuditTypeOK, Reasons, FateOf, Abstract!Fates, OnceInv, WaitInv, Fresh

LEMMA FateOfOpen ==
    ASSUME AuditInv, NEW e \in Events, request[e] # "ended"
    PROVE  FateOf(e) = "open"
BY DEF AuditInv, OpenInv, Fresh, FateOf

LEMMA FateOfWaiting ==
    ASSUME AuditInv, NEW e \in Events
    PROVE  FateOf(e) = "pending" <=> Queued(e) \/ Held(e)
BY DEF AuditInv, AuditTypeOK, Reasons, WaitInv, OnceInv, Fresh, FateOf

\* A full channel is a backlog of that many pending events.
LEMMA FullBacklog ==
    ASSUME AuditInv, Len(queue) >= Capacity
    PROVE  Cardinality(Abstract!Pending) >= Capacity
<1>. DEFINE f == [i \in 1..Len(queue) |-> queue[i]]
            Waiting == Abstract!Pending
<1>1. Waiting \in SUBSET Events /\ IsFiniteSet(Events)
    BY AuditAssumption DEF Abstract!Pending, AuditAssumption
<1>2. IsFiniteSet(Waiting)
    BY <1>1, FS_Subset
<1>3. \A i \in 1..Len(queue) : queue[i] \in Waiting
    <2>1. \A i \in 1..Len(queue) : queue[i] \in Events /\ Queued(queue[i])
        BY DEF AuditInv, AuditTypeOK, Queued
    <2>. QED BY <2>1, FateOfWaiting DEF Abstract!Pending
<1>4. f \in Injection(1..Len(queue), Waiting)
    BY <1>3 DEF Injection, IsInjective, AuditInv, QueueOnce
<1>5. Cardinality(1..Len(queue)) <= Cardinality(Waiting)
    BY <1>2, <1>4, FS_Injection
<1>6. Cardinality(1..Len(queue)) = Len(queue) /\ Len(queue) \in Nat
    BY FS_Interval DEF AuditInv, AuditTypeOK
<1>7. Cardinality(Waiting) \in Nat
    BY <1>2, FS_CardinalityType
<1>. QED BY <1>5, <1>6, <1>7, AuditAssumption DEF AuditAssumption

\* One event changes its fate and the others keep theirs.
LEMMA OneFate ==
    ASSUME NEW e \in Events, NEW g, FateOf(e)' = g,
           \A x \in Events \ {e} : FateOf(x)' = FateOf(x)
    PROVE  Abstract!Become(e, g)
BY DEF Abstract!Become

LEMMA ServeRefines ==
    ASSUME AuditInv, NEW e \in Events, Serve(e)
    PROVE  \A x \in Events : FateOf(x)' = FateOf(x)
BY DEF Serve, FateOf, Queued, Held

LEMMA LogRefines ==
    ASSUME AuditInv, NEW e \in Events, LogEventAsync(e)
    PROVE  Abstract!Submit(e) \/ Abstract!TurnAway(e)
<1>1. FateOf(e) = "open"
    BY FateOfOpen DEF LogEventAsync
<1>2. /\ queue \in Seq(Events) /\ Len(queue) \in Nat /\ Capacity \in Nat
      /\ ~Queued(e) /\ ~Held(e) /\ Fresh(e)
    BY AuditAssumption DEF AuditInv, AuditTypeOK, AuditAssumption, OpenInv, LogEventAsync
<1>3. CASE Len(queue) < Capacity
    <2>1. queue' = Append(queue, e) /\ UNCHANGED <<lostTo, holding, copies>>
        BY <1>3 DEF LogEventAsync
    <2>2. \A x \in Events : Queued(x)' <=> Queued(x) \/ x = e
        BY <2>1, <1>2, QueuedAppend
    <2>3. \A x \in Events : Held(x)' <=> Held(x)
        BY <2>1 DEF Held
    <2>4. FateOf(e)' = "pending"
        BY <1>2, <2>1, <2>2 DEF FateOf, Fresh
    <2>5. \A x \in Events \ {e} : FateOf(x)' = FateOf(x)
        BY <2>1, <2>2, <2>3 DEF FateOf
    <2>. QED BY <1>1, <2>4, <2>5, OneFate DEF Abstract!Submit
<1>4. CASE ~(Len(queue) < Capacity)
    <2>1. lostTo' = [lostTo EXCEPT ![e] = "dropped"] /\ UNCHANGED <<queue, holding, copies>>
        BY <1>4 DEF LogEventAsync
    <2>2. FateOf(e)' = "dropped"
        BY <1>2, <2>1 DEF FateOf, Fresh, AuditInv, AuditTypeOK
    <2>3. \A x \in Events \ {e} : FateOf(x)' = FateOf(x)
        BY <2>1 DEF FateOf, Queued, Held, AuditInv, AuditTypeOK
    <2>4. Cardinality(Abstract!Pending) >= Capacity
        BY <1>2, <1>4, FullBacklog
    <2>. QED BY <1>1, <2>2, <2>3, <2>4, OneFate DEF Abstract!TurnAway, Abstract!Cardinality, Cardinality
<1>. QED BY <1>3, <1>4

LEMMA PanicRefines ==
    ASSUME AuditInv, NEW e \in Events, HandlerPanics(e)
    PROVE  Abstract!Abandon(e)
<1>1. FateOf(e) = "open" /\ Fresh(e)
    BY FateOfOpen DEF HandlerPanics, AuditInv, OpenInv
<1>2. lostTo' = [lostTo EXCEPT ![e] = "panicked"] /\ UNCHANGED <<queue, holding, copies>>
    BY DEF HandlerPanics
<1>3. FateOf(e)' = "panicked"
    BY <1>1, <1>2 DEF FateOf, Fresh, AuditInv, AuditTypeOK
<1>4. \A x \in Events \ {e} : FateOf(x)' = FateOf(x)
    BY <1>2 DEF FateOf, Queued, Held, AuditInv, AuditTypeOK
<1>. QED BY <1>1, <1>3, <1>4, OneFate DEF Abstract!Abandon

LEMMA TakeRefines ==
    ASSUME AuditInv, NEW w \in AuditWorkers, TakeEvent(w)
    PROVE  \A x \in Events : FateOf(x)' = FateOf(x)
<1>. DEFINE h == Head(queue)
<1>1. /\ queue # <<>> /\ queue' = Tail(queue) /\ holding[w] = "none"
      /\ holding' = [holding EXCEPT ![w] = h] /\ UNCHANGED <<copies, lostTo>>
    BY DEF TakeEvent
<1>2. queue \in Seq(Events) /\ QueueOnce /\ holding \in [AuditWorkers -> Events \cup {"none"}]
    BY DEF AuditInv, AuditTypeOK
<1>3. h \in Events /\ Queued(h)
    BY <1>1, <1>2 DEF Queued
<1>4. \A x \in Events : Queued(x)' <=> Queued(x) /\ x # h
    BY <1>1, <1>2, QueuedTail
<1>. HIDE DEF h
<1>5. \A x \in Events : Held(x)' <=> Held(x) \/ x = h
    BY <1>1, <1>2, <1>3, AuditAssumption DEF Held, AuditAssumption
<1>6. \A x \in Events : (Queued(x) \/ Held(x))' <=> Queued(x) \/ Held(x)
    BY <1>3, <1>4, <1>5
<1>. QED BY <1>1, <1>6 DEF FateOf

LEMMA CreateRefines ==
    ASSUME AuditInv, NEW w \in AuditWorkers, CreateAuditLog(w)
    PROVE  Abstract!Settle(holding[w])
<1>1. /\ holding[w] # "none" /\ holding' = [holding EXCEPT ![w] = "none"]
      /\ copies' = [copies EXCEPT ![holding[w]] = @ + 1] /\ UNCHANGED <<queue, lostTo>>
    BY DEF CreateAuditLog
<1>2. /\ holding[w] \in Events /\ Fresh(holding[w]) /\ Held(holding[w]) /\ ~Queued(holding[w])
      /\ \A x \in Events : Queued(x)' <=> Queued(x)
      /\ \A x \in Events : Held(x)' <=> Held(x) /\ x # holding[w]
    BY <1>1, LetGo DEF Held
<1>3. FateOf(holding[w]) = "pending"
    BY <1>2, FateOfWaiting
<1>4. copies'[holding[w]] = 1
    BY <1>1, <1>2 DEF Fresh, AuditInv, AuditTypeOK
<1>. DEFINE e == holding[w]
<1>5. \A x \in Events \ {e} : FateOf(x)' = FateOf(x)
    BY <1>1, <1>2 DEF FateOf, AuditInv, AuditTypeOK
<1>6. \A x \in Events : x = e => FateOf(x)' = "stored"
    BY <1>1, <1>2, <1>4 DEF FateOf, Fresh
<1>7. [y \in Events |-> FateOf(y)]' = [[y \in Events |-> FateOf(y)] EXCEPT ![e] = "stored"]
    BY <1>5, <1>6
<1>. QED BY <1>2, <1>3, <1>7 DEF Abstract!Settle, Abstract!Become

LEMMA FailRefines ==
    ASSUME AuditInv, NEW w \in AuditWorkers, InsertFails(w)
    PROVE  Abstract!Settle(holding[w])
<1>1. /\ holding[w] # "none" /\ holding' = [holding EXCEPT ![w] = "none"]
      /\ lostTo' = [lostTo EXCEPT ![holding[w]] = "refused"] /\ UNCHANGED <<queue, copies>>
    BY DEF InsertFails
<1>2. /\ holding[w] \in Events /\ Fresh(holding[w]) /\ Held(holding[w]) /\ ~Queued(holding[w])
      /\ \A x \in Events : Queued(x)' <=> Queued(x)
      /\ \A x \in Events : Held(x)' <=> Held(x) /\ x # holding[w]
    BY <1>1, LetGo DEF Held
<1>3. FateOf(holding[w]) = "pending"
    BY <1>2, FateOfWaiting
<1>. DEFINE e == holding[w]
<1>5. \A x \in Events \ {e} : FateOf(x)' = FateOf(x)
    BY <1>1, <1>2 DEF FateOf, AuditInv, AuditTypeOK
<1>6. \A x \in Events : x = e => FateOf(x)' = "refused"
    BY <1>1, <1>2 DEF FateOf, Fresh, AuditInv, AuditTypeOK
<1>7. [y \in Events |-> FateOf(y)]' = [[y \in Events |-> FateOf(y)] EXCEPT ![e] = "refused"]
    BY <1>5, <1>6
<1>. QED BY <1>2, <1>3, <1>7 DEF Abstract!Settle, Abstract!Become

LEMMA KillRefines ==
    ASSUME AuditInv, KillAudit
    PROVE  Abstract!Die
<1>. DEFINE gone == {e \in Events : request[e] = "running" \/ Queued(e) \/ Held(e)}
<1>1. /\ queue' = <<>> /\ holding' = [w \in AuditWorkers |-> "none"] /\ copies' = copies
      /\ lostTo' = [e \in Events |->
             IF request[e] = "running" \/ Queued(e) \/ Held(e) THEN "killed" ELSE lostTo[e]]
    BY DEF KillAudit
<1>2. \A e \in Events : ~Queued(e)' /\ ~Held(e)'
    BY <1>1, AuditAssumption DEF Queued, Held, AuditAssumption
<1>3. \A e \in gone : FateOf(e) \in {"open", "pending"} /\ Fresh(e)
    BY FateOfOpen, FateOfWaiting DEF AuditInv, OpenInv, WaitInv
<1>4. Abstract!Pending \subseteq gone
    BY FateOfWaiting DEF Abstract!Pending
<1>5. \A e \in gone : FateOf(e)' = "killed"
    BY <1>1, <1>3 DEF FateOf, Fresh
<1>6. \A e \in Events \ gone : FateOf(e)' = FateOf(e)
    BY <1>1, <1>2 DEF FateOf
<1>7. gone \in SUBSET {e \in Events : FateOf(e) \in {"open", "pending"}}
    BY <1>3
<1>. HIDE DEF gone
<1>8. [e \in Events |-> FateOf(e)]' = [e \in Events |->
          IF e \in gone THEN "killed" ELSE FateOf(e)]
    BY <1>5, <1>6
<1>. QED BY <1>4, <1>7, <1>8 DEF Abstract!Die

LEMMA StutterRefines ==
    ASSUME \A x \in Events : FateOf(x)' = FateOf(x)
    PROVE  [e \in Events |-> FateOf(e)]' = [e \in Events |-> FateOf(e)]
OBVIOUS

LEMMA StepRefines ==
    AuditInv /\ [AuditNext]_auditVars => [Abstract!EventsNext]_[e \in Events |-> FateOf(e)]
<1>. SUFFICES ASSUME AuditInv, [AuditNext]_auditVars
              PROVE  [Abstract!EventsNext]_[e \in Events |-> FateOf(e)]
    OBVIOUS
<1>1. ASSUME NEW e \in Events, Serve(e) \/ LogEventAsync(e) \/ HandlerPanics(e)
      PROVE  [Abstract!EventsNext]_[x \in Events |-> FateOf(x)]
    BY <1>1, ServeRefines, LogRefines, PanicRefines, StutterRefines DEF Abstract!EventsNext
<1>2. ASSUME NEW w \in AuditWorkers, Worker(w)
      PROVE  [Abstract!EventsNext]_[x \in Events |-> FateOf(x)]
    <2>1. CASE TakeEvent(w)
        BY <2>1, TakeRefines, StutterRefines
    <2>2. CASE CreateAuditLog(w) \/ InsertFails(w)
        <3>1. holding[w] \in Events
            BY <2>2 DEF CreateAuditLog, InsertFails, AuditInv, AuditTypeOK
        <3>. QED BY <2>2, <3>1, CreateRefines, FailRefines DEF Abstract!EventsNext
    <2>. QED BY <1>2, <2>1, <2>2 DEF Worker
<1>3. CASE KillAudit
    BY <1>3, KillRefines DEF Abstract!EventsNext
<1>4. CASE UNCHANGED auditVars
    BY <1>4, StutterRefines DEF auditVars, FateOf, Queued, Held
<1>. QED BY <1>1, <1>2, <1>3, <1>4 DEF AuditNext

LEMMA InitRefines == AuditInit => Abstract!EventsInit
BY AuditAssumption DEF AuditAssumption, AuditInit, Abstract!EventsInit, FateOf, Queued, Held

(* The audit log implements the safety part of AuditEvents: no event is    *)
(* stored twice, and none is given up but for a named reason.              *)
THEOREM AuditRefinement == AuditSpec => Abstract!EventsSafety
<1>1. AuditSpec => []AuditInv
    BY AuditInvariant
<1>. QED BY <1>1, InitRefines, StepRefines, PTL DEF AuditSpec, Abstract!EventsSafety
=============================================================================
