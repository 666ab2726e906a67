------------------------- MODULE MCManagedPostgres -------------------------
(* Instances of ManagedPostgres for TLC.                                   *)
EXTENDS ManagedPostgres, TLC

CONSTANTS g1, g2, a, b, h1, h2

\* No definition of the model tells one group, or one name, from another.
Symmetry == Permutations(Groups) \cup Permutations(Names)

\* An operator of the services against a committer group.
Operators == (h1 :> {"Create", "Attach", "Start", "Stop", "Update", "Delete"}) @@
             (h2 :> {"CreateFor", "Detach", "GroupStart", "GroupStop", "GroupDelete"})

OneClient == (h1 :> AllOps \ {"CreateFor", "GroupDelete", "Detach"})

\* A service is created and attached to each group, and the groups start.
Starters == [h \in Requests |-> {"Create", "Attach", "GroupStart"}]
=============================================================================
