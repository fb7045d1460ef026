------------------------------ MODULE MCSceneView ------------------------------
(* Small instances of SceneView for TLC: cluster c1 has rack r1 with nodes n1 *)
(* and n2, cluster c2 has rack r2 with node n3.                               *)
EXTENDS SceneView

CONSTANTS c1, c2, r1, r2, n1, n2, n3

MCClusterOf == [r \in Rack |-> IF r = r2 THEN c2 ELSE c1]
MCRackOf == [n \in Node |-> IF n = n3 THEN r2 ELSE r1]
MCHideOthers == [o \in Obedience |-> BOOLEAN]
OneReports == {n1} \X {"HEALTHY", "DISCONNECTED"}
TwoReport == {<<n1, "HEALTHY">>, <<n1, "DISCONNECTED">>, <<n3, "HEALTHY">>}
=============================================================================
