----------------------- MODULE MCAggregationPipeline -----------------------
(* AggregationPipeline for TLC. *)
EXTENDS AggregationPipeline

CONSTANTS w1, w2, a, b

MCWorkers == {w1, w2}
MCObs == {a, b}
=============================================================================
