--------------------------- MODULE MCNodeGroups ---------------------------
(* Instances of NodeGroups for TLC.                                        *)
EXTENDS NodeGroups, TLC

CONSTANTS g1, g2, h1, h2

\* Two of the four orderer roles keep every order that matters: ChildRoles
\* lists the consenter before the router, InitOrdererGroup the reverse.
TwoRoles   == <<"consenter", "router">>
TwoInit    == <<"router", "consenter">>
ThreeRoles == <<"consenter", "batcher", "router">>
ThreeInit  == <<"router", "batcher", "consenter">>

SameName == [g \in Groups |-> "org1"]
TwoNames == (g1 :> "org1") @@ (g2 :> "org2")

\* Two clients of one group; one of them can also delete it.
TwoClients == (h1 :> {"Init", "Start"}) @@ (h2 :> {"Init", "Stop", "GroupDelete"})

\* One client drives the group, the other a child through the nodes API.
NodeClient == (h1 :> {"Init", "Restart"}) @@
              (h2 :> {"AddCommitter", "NodeStart", "NodeStop", "NodeDelete", "GroupDelete"})

OneClient == (h1 :> {"Init", "AddCommitter", "Start", "Stop", "Restart"})

Initializers == [h \in Requests |-> {"Init"}]
=============================================================================
