----------------------------- MODULE MCKitStage -----------------------------
(* A small instance of KitStage for TLC. *)
EXTENDS KitStage

\* Two clusters, one of them with two racks, as CLUSTER_PANELS has.
MCClusterPanels == [DataX |-> {"A3"}, AutoX |-> {"A5", "A6"}]
=============================================================================
