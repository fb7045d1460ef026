--------------------------- MODULE MCMetricsPipeline ---------------------------
(* A small instance of MetricsPipeline for TLC: two boxes, two seconds, and an *)
(* event table that is out of order and has uneven distances.                  *)
EXTENDS MetricsPipeline

CONSTANTS b1, b2

MCBox == <<b1, b2>>
MCNodeEvents == <<[ts |-> 5, node |-> b1], [ts |-> 2, node |-> b2],
                  [ts |-> 2, node |-> b1]>>
MCMaxProduced == [n \in Topic |->
                    IF n = MetricsTopic THEN 2 ELSE 4]
=============================================================================
