-------------------------- MODULE MCReadWriteLock --------------------------
(* ReadWriteLock for TLC. *)
EXTENDS ReadWriteLock

CONSTANTS t1, t2, t3, t4

MCThreads == {t1, t2, t3, t4}

(* The threads stop asking when their rounds are used up and nobody waits.  *)
Finished == (\A t \in Threads : pc[t] = "idle" /\ rounds[t] = 0) /\ UNCHANGED vars

(* FairSpec with the end of a behaviour made explicit, so that TLC's        *)
(* deadlock check means: no state in which somebody waits and nobody can    *)
(* move.                                                                    *)
MCSpec == Init /\ [][Next \/ Finished]_vars /\ \A t \in Threads : WF_vars(Progress(t))
=============================================================================
