-------------------------- MODULE MCIncomingHandler --------------------------
(* IncomingHandler for TLC. *)
EXTENDS IncomingHandler

CONSTANTS w1, w2

MCWorkers == {w1, w2}
=============================================================================
