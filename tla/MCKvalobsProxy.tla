--------------------------- MODULE MCKvalobsProxy ---------------------------
(* KvalobsProxy for TLC. *)
EXTENDS KvalobsProxy

CONSTANTS r1

MCReaders == {r1}
MCTimes == {2, 4}
=============================================================================
