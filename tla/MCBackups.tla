----------------------------- MODULE MCBackups -----------------------------
(* Instances of Backups for TLC.                                           *)
EXTENDS Backups, TLC

CONSTANTS s1, t1, hourly, daily, bad, h1, h2

\* One client of the schedules against one that deletes what it finds.
TwoClients == (h1 :> {"CreateTarget", "CreateSchedule", "UpdateSchedule", "Disable"}) @@
              (h2 :> {"Enable", "DeleteSchedule", "DeleteTarget", "CreateBackup", "DeleteBackup"})

OneClient == [h \in Requests |-> {"CreateTarget", "CreateSchedule", "CreateBackup", "DeleteBackup"}]

\* Nothing tells one expression that parses from another.
Symmetry == Permutations(Exprs \ BadExprs)
=============================================================================
