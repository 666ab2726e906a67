----------------------------- MODULE BackupLife -----------------------------
(***************************************************************************)
(* What the backup service promises for each backup, without its tables,   *)
(* goroutines and restic: it is begun once and has one outcome, which      *)
(* nothing rewrites; success follows a snapshot of its own; whoever reads  *)
(* of it was told after the outcome; and the end of the process cuts off   *)
(* all that had none, for good.                                            *)
(***************************************************************************)

CONSTANT Runs   \* one per backup that can be asked for

VARIABLES
    life,   \* what is known of each
    saved,  \* those with a snapshot
    told    \* those whose outcome was notified

lifeVars == <<life, saved, told>>

Outcomes == {"completed", "failed"}
Lives    == {"none", "waiting", "running", "cut", "deleted"} \cup Outcomes

LifeInit == life = [b \in Runs |-> "none"] /\ saved = {} /\ told = {}

Move(b, from, to) ==
    /\ life[b] \in from
    /\ life' = [life EXCEPT ![b] = to]
    /\ UNCHANGED <<saved, told>>

Ask(b)   == Move(b, {"none"}, "waiting")
Start(b) == Move(b, {"waiting"}, "running")
Fail(b)  == Move(b, {"running"}, "failed")

Succeed(b) == b \in saved /\ Move(b, {"running"}, "completed")

\* One snapshot at most, which is written too when the backup is deleted meanwhile.
Save(b) ==
    /\ life[b] \in {"running", "deleted"} /\ b \notin saved
    /\ saved' = saved \cup {b}
    /\ UNCHANGED <<life, told>>

Tell(b) ==
    /\ life[b] \in Outcomes
    /\ told' = told \cup {b}
    /\ UNCHANGED <<life, saved>>

\* At any time, and for good; its snapshot is not looked at.
Delete(b) ==
    /\ life[b] \notin {"none", "deleted"}
    /\ life' = [life EXCEPT ![b] = "deleted"]
    /\ told' = told \ {b}
    /\ UNCHANGED saved

\* The process ends.
CutOff ==
    /\ life' = [b \in Runs |-> IF life[b] \in {"waiting", "running"} THEN "cut" ELSE life[b]]
    /\ UNCHANGED <<saved, told>>

LifeNext ==
    \/ \E b \in Runs : \/ Ask(b) \/ Start(b) \/ Save(b) \/ Succeed(b) \/ Fail(b)
                       \/ Tell(b) \/ Delete(b)
    \/ CutOff

LifeSafety == LifeInit /\ [][LifeNext]_lifeVars
=============================================================================
