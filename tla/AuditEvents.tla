---------------------------- MODULE AuditEvents ----------------------------
(***************************************************************************)
(* What the audit log promises for the event of one request, without its   *)
(* queue and workers: it is stored at most once, it is given up only for a *)
(* named reason, and an event that was taken on settles.                   *)
(***************************************************************************)
EXTENDS Integers, FiniteSets

CONSTANTS
    Events,   \* one per audited request
    Capacity  \* events that can wait

VARIABLE fate

Fates == {"open", "pending", "stored", "dropped", "refused", "panicked", "killed"}

Pending == {e \in Events : fate[e] = "pending"}

EventsInit == fate = [e \in Events |-> "open"]

Become(e, f) == fate' = [fate EXCEPT ![e] = f]

Submit(e) == fate[e] = "open" /\ Become(e, "pending")

\* Only a full backlog turns an event away.
TurnAway(e) ==
    /\ fate[e] = "open"
    /\ Cardinality(Pending) >= Capacity
    /\ Become(e, "dropped")

Abandon(e) == fate[e] = "open" /\ Become(e, "panicked")

Settle(e) == fate[e] = "pending" /\ \E f \in {"stored", "refused"} : Become(e, f)

\* The process dies: what waits, and what is still being served, is gone.
Die ==
    \E gone \in SUBSET {e \in Events : fate[e] \in {"open", "pending"}} :
        /\ Pending \subseteq gone
        /\ fate' = [e \in Events |-> IF e \in gone THEN "killed" ELSE fate[e]]

EventsNext ==
    \/ \E e \in Events : Submit(e) \/ TurnAway(e) \/ Abandon(e) \/ Settle(e)
    \/ Die

EventsSafety == EventsInit /\ [][EventsNext]_fate

EventsSpec == EventsSafety /\ \A e \in Events : WF_fate(Settle(e))
=============================================================================
