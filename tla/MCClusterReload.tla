--------------------------- MODULE MCClusterReload ---------------------------
(* An instance of ClusterReload for TLC: one root of the server; a second    *)
(* child, a second link of the first, a third epoch and a fault of the      *)
(* server, each a story of its own, but for a fault and a second link.      *)
EXTENDS ClusterReload, TLC

CONSTANTS c1, c2, r1

FirstReconnects == c1 :> 2 @@ c2 :> 1

\* A link that broke, or whose child's process ended, before both ends know.
Broken == {l \in Links : ~link[l].alive /\ "open" \in {link[l].server, link[l].child}}

\* This cuts steps no fairness forces - Connect, StartReload, Cut, Restart and Call - and
\* outcomes of the server's steps that have another outcome beside them: faults, and calls
\* its commit starts.
OneStory ==
    LET reconnects == Opened(c1) = 2
        joined     == Opened(c2) = 1
        third      == pass.epoch = 3 \/ srv.seq = 3
        faulty     == srv.faults > 0
    IN ~(reconnects /\ joined) /\ ~(reconnects /\ third) /\ ~(joined /\ third)
       /\ ~(faulty /\ (joined \/ third))
       /\ (joined => root[r1].epoch = 0)
       /\ (faulty /\ reconnects => root[r1].at = None)
       /\ (joined \/ third => Broken = {})
=============================================================================
