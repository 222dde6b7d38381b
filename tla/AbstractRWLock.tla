--------------------------- MODULE AbstractRWLock ---------------------------
(***************************************************************************)
(* What a readers/writer lock promises to the code that holds it: any      *)
(* number of readers at a time, or one writer alone.  It says nothing of   *)
(* how a thread waits.  ReadWriteLock refines it, and KvalobsProxy is      *)
(* built on it.                                                            *)
(***************************************************************************)
CONSTANT Threads

VARIABLE
  holding   \* what each thread holds: "none", "read" or "write"

TypeOK == holding \in [Threads -> {"none", "read", "write"}]

Init == holding = [t \in Threads |-> "none"]

(* No thread other than t holds the lock in one of the given modes. *)
NobodyElse(t, modes) == \A u \in Threads \ {t} : holding[u] \notin modes

Read(t) ==
  /\ holding[t] = "none"
  /\ NobodyElse(t, {"write"})
  /\ holding' = [holding EXCEPT ![t] = "read"]

Write(t) ==
  /\ holding[t] = "none"
  /\ NobodyElse(t, {"read", "write"})
  /\ holding' = [holding EXCEPT ![t] = "write"]

Release(t) ==
  /\ holding[t] # "none"
  /\ holding' = [holding EXCEPT ![t] = "none"]

Next == \E t \in Threads : Read(t) \/ Write(t) \/ Release(t)

Spec == Init /\ [][Next]_holding
=============================================================================
