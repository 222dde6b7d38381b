------------------------- MODULE ReadWriteLockProofs -------------------------
(***************************************************************************)
(* Proofs about ReadWriteLock, for any finite set of threads and any number*)
(* of rounds: its invariant, and that it implements AbstractRWLock.        *)
(***************************************************************************)
EXTENDS ReadWriteLock, FiniteSetTheorems, TLAPS

(* The inductive invariant.  Exclusion alone is not inductive: a writer     *)
(* enters by looking at count_ and writer_, so they must tell the truth.    *)
Inv == TypeOK /\ CountsHolders /\ Exclusion /\ NoLostWakeup

(* The set of readers is finite, and its size is a natural number.          *)
LEMMA ReadersFinite ==
  /\ IsFiniteSet(Readers)
  /\ Cardinality(Readers) \in Nat
  /\ Cardinality(Readers) = 0 <=> Readers = {}
<1>1. Readers \subseteq Threads
  BY DEF Readers
<1>2. IsFiniteSet(Readers)
  BY <1>1, ThreadsFinite, FS_Subset
<1> QED
  BY <1>2, FS_CardinalityType, FS_EmptySet

(* The initial states satisfy the invariant: no thread is inside.           *)
LEMMA InitInv == Init => Inv
<1> SUFFICES ASSUME Init PROVE Inv
  OBVIOUS
<1> USE DEF Init
<1>1. TypeOK
  <2>1. writer_ \in BOOLEAN
    BY Zenon
  <2> QED
    BY <2>1, RoundsNat DEF TypeOK, States, ReadStates, WriteStates
<1>2. Readers = {} /\ Writers = {} /\ Asleep = {}
  BY DEF Readers, Writers, Asleep
<1>3. CountsHolders
  BY <1>2, FS_EmptySet DEF CountsHolders
<1>4. Exclusion
  BY DEF Exclusion
<1> QED
  BY <1>1, <1>2, <1>3, <1>4 DEF Inv, NoLostWakeup

(* A thread that is let in to read: from wherever it waited or asked.       *)
LEMMA EnterRead ==
  ASSUME Inv, NEW t \in Threads,
         pc[t] \in {"idle", "readWoken"}, ~writer_,
         count_' = count_ + 1, writer_' = writer_,
         pc' = [pc EXCEPT ![t] = "reading"],
         rounds' \in [Threads -> 0..MaxRounds]
  PROVE  Inv'
<1> USE DEF Inv
<1>1. TypeOK'
  <2>1. writer_' \in BOOLEAN
    BY Zenon DEF TypeOK
  <2>2. count_' \in Nat
    BY DEF TypeOK
  <2>3. pc' \in [Threads -> States]
    BY DEF TypeOK, States, ReadStates, WriteStates
  <2> QED
    BY <2>1, <2>2, <2>3 DEF TypeOK
<1>2. Readers' = Readers \cup {t} /\ t \notin Readers /\ Writers' = Writers
  BY DEF TypeOK, Readers, Writers
<1>3. CountsHolders'
  BY <1>2, ReadersFinite, FS_AddElement DEF CountsHolders
<1>4. Writers = {}
  BY DEF CountsHolders
<1>5. Exclusion'
  BY <1>2, <1>4 DEF Exclusion, Writers, TypeOK
<1>6. NoLostWakeup'
  BY <1>2 DEF NoLostWakeup
<1> QED
  BY <1>1, <1>3, <1>5, <1>6

(* A thread that is let in to write: nobody else is inside.                 *)
LEMMA EnterWrite ==
  ASSUME Inv, NEW t \in Threads,
         pc[t] \in {"idle", "writeWoken"}, count_ = 0, ~writer_,
         count_' = count_, writer_' = TRUE,
         pc' = [pc EXCEPT ![t] = "writing"],
         rounds' \in [Threads -> 0..MaxRounds]
  PROVE  Inv'
<1> USE DEF Inv
<1>1. TypeOK'
  BY DEF TypeOK, States, ReadStates, WriteStates
<1>2. Readers' = Readers /\ Writers' = Writers \cup {t}
  BY DEF TypeOK, Readers, Writers
<1>3. CountsHolders'
  BY <1>2 DEF CountsHolders
<1>4. Readers = {} /\ Writers = {}
  BY ReadersFinite DEF CountsHolders
<1>5. Exclusion'
  BY <1>4 DEF Exclusion, Readers, Writers, TypeOK
<1>6. NoLostWakeup'
  BY <1>2 DEF NoLostWakeup
<1> QED
  BY <1>1, <1>3, <1>5, <1>6

(* A thread that finds the lock taken and goes to sleep: the one that has   *)
(* it is inside, and will notify.                                           *)
LEMMA FallAsleep ==
  ASSUME Inv, NEW t \in Threads,
         pc[t] \in {"idle", "readWoken", "writeWoken"}, count_ # 0 \/ writer_,
         NEW s \in {"readAsleep", "writeAsleep"},
         UNCHANGED <<count_, writer_>>,
         pc' = [pc EXCEPT ![t] = s],
         rounds' \in [Threads -> 0..MaxRounds]
  PROVE  Inv'
<1> USE DEF Inv
<1>1. TypeOK'
  BY DEF TypeOK, States, ReadStates, WriteStates
<1>2. Readers' = Readers /\ Writers' = Writers
  BY DEF TypeOK, Readers, Writers
<1>3. CountsHolders'
  BY <1>2 DEF CountsHolders
<1>4. Exclusion'
  BY DEF Exclusion, TypeOK
<1>5. Readers # {} \/ Writers # {}
  BY ReadersFinite DEF CountsHolders
<1>6. NoLostWakeup'
  BY <1>2, <1>5 DEF NoLostWakeup
<1> QED
  BY <1>1, <1>3, <1>4, <1>6

(* What LeaveAndNotify does: t becomes idle, the other threads inside stay, *)
(* and if anybody was asleep then somebody is woken.                        *)
LEMMA LeaveAndNotifyFacts ==
  ASSUME TypeOK, NEW t \in Threads, pc[t] \in {"reading", "writing"},
         LeaveAndNotify(t)
  PROVE  /\ pc' \in [Threads -> States]
         /\ Readers' = Readers \ {t}
         /\ Writers' = Writers \ {t}
         /\ \A u \in Threads : pc'[u] \in {"reading", "writing"} => pc'[u] = pc[u]
         /\ NoLostWakeup'
<1> USE DEF TypeOK, States, ReadStates, WriteStates, Readers, Writers, Asleep, Woken,
            NoLostWakeup
<1>1. CASE Asleep = {} /\ pc' = [pc EXCEPT ![t] = "idle"]
  BY <1>1
<1>2. CASE \E u \in Asleep : pc' = [pc EXCEPT ![t] = "idle", ![u] = Awake(pc[u])]
  <2>1. PICK u \in Asleep : pc' = [pc EXCEPT ![t] = "idle", ![u] = Awake(pc[u])]
    BY <1>2
  <2>2. u \in Threads /\ u # t /\ pc[u] \in {"readAsleep", "writeAsleep"}
    OBVIOUS
  <2>3. Awake(pc[u]) \in {"readWoken", "writeWoken"}
    BY DEF Awake
  <2>4. pc'[u] \in {"readWoken", "writeWoken"} /\ pc'[t] = "idle"
        /\ \A v \in Threads \ {t, u} : pc'[v] = pc[v]
    BY <2>1, <2>2, <2>3
  <2>5. u \in Woken'
    BY <2>4
  <2> QED
    BY <2>1, <2>2, <2>3, <2>4, <2>5
<1> QED
  BY <1>1, <1>2 DEF LeaveAndNotify

(* Every step preserves the invariant.                                      *)
LEMMA NextInv == Inv /\ [Next]_vars => Inv'
<1> SUFFICES ASSUME Inv, [Next]_vars PROVE Inv'
  OBVIOUS
<1>1. ASSUME NEW t \in Threads, Ask(t)
      PROVE  pc[t] = "idle" /\ rounds' \in [Threads -> 0..MaxRounds]
  BY <1>1, RoundsNat DEF Ask, Inv, TypeOK
<1>2. ASSUME NEW t \in Threads, ReadLock(t) PROVE Inv'
  <2>1. pc[t] = "idle" /\ rounds' \in [Threads -> 0..MaxRounds] /\ TryRead(t)
    BY <1>1, <1>2 DEF ReadLock
  <2>2. CASE writer_
    BY <2>1, <2>2, FallAsleep DEF TryRead
  <2>3. CASE ~writer_
    BY <2>1, <2>3, EnterRead DEF TryRead
  <2> QED
    BY <2>2, <2>3
<1>3. ASSUME NEW t \in Threads, WriteLock(t) PROVE Inv'
  <2>1. pc[t] = "idle" /\ rounds' \in [Threads -> 0..MaxRounds] /\ TryWrite(t)
    BY <1>1, <1>3 DEF WriteLock
  <2>2. CASE count_ # 0 \/ writer_
    BY <2>1, <2>2, FallAsleep DEF TryWrite
  <2>3. CASE ~(count_ # 0 \/ writer_)
    BY <2>1, <2>3, EnterWrite DEF TryWrite
  <2> QED
    BY <2>2, <2>3
<1>4. ASSUME NEW t \in Threads, Retry(t) PROVE Inv'
  <2>1. rounds' \in [Threads -> 0..MaxRounds]
    BY <1>4 DEF Retry, Inv, TypeOK
  <2>2. CASE pc[t] = "readWoken" /\ TryRead(t) /\ writer_
    BY <2>1, <2>2, FallAsleep DEF TryRead
  <2>3. CASE pc[t] = "readWoken" /\ TryRead(t) /\ ~writer_
    BY <2>1, <2>3, EnterRead DEF TryRead
  <2>4. CASE pc[t] = "writeWoken" /\ TryWrite(t) /\ (count_ # 0 \/ writer_)
    BY <2>1, <2>4, FallAsleep DEF TryWrite
  <2>5. CASE pc[t] = "writeWoken" /\ TryWrite(t) /\ ~(count_ # 0 \/ writer_)
    BY <2>1, <2>5, EnterWrite DEF TryWrite
  <2> QED
    BY <1>4, <2>2, <2>3, <2>4, <2>5 DEF Retry
<1>5. ASSUME NEW t \in Threads, ReadUnlock(t) PROVE Inv'
  <2> USE DEF Inv
  <2>1. t \in Readers /\ pc[t] = "reading"
    BY <1>5 DEF ReadUnlock, Readers
  <2>2. count_ \in Nat \ {0} /\ count_' \in Nat /\ count_' = Cardinality(Readers) - 1
        /\ UNCHANGED <<writer_, rounds>>
    BY <1>5, <2>1, ReadersFinite DEF ReadUnlock, CountsHolders
  <2>3. Cardinality(Readers \ {t}) = Cardinality(Readers) - 1
    BY <2>1, ReadersFinite, FS_RemoveElement
  <2>4. /\ pc' \in [Threads -> States]
        /\ Readers' = Readers \ {t}
        /\ Writers' = Writers
        /\ \A u \in Threads : pc'[u] \in {"reading", "writing"} => pc'[u] = pc[u]
        /\ NoLostWakeup'
    <3>1. CASE count_ - 1 = 0
      <4>1. LeaveAndNotify(t)
        BY <1>5, <3>1 DEF ReadUnlock
      <4> QED
        BY <2>1, <4>1, LeaveAndNotifyFacts DEF Writers
    <3>2. CASE count_ - 1 # 0
      <4>1. pc' = [pc EXCEPT ![t] = "idle"]
        BY <1>5, <3>2 DEF ReadUnlock
      <4>2. /\ pc' \in [Threads -> States]
            /\ Readers' = Readers \ {t}
            /\ Writers' = Writers
            /\ \A u \in Threads : pc'[u] \in {"reading", "writing"} => pc'[u] = pc[u]
        BY <2>1, <4>1 DEF TypeOK, States, Readers, Writers
      <4>3. Cardinality(Readers') # 0
        BY <2>2, <2>3, <3>2, <4>2 DEF CountsHolders
      <4>4. Readers' # {}
        BY <4>3, FS_EmptySet
      <4> QED
        BY <4>2, <4>4 DEF NoLostWakeup
    <3> QED
      BY <3>1, <3>2
  <2>5. TypeOK'
    BY <2>2, <2>4 DEF TypeOK
  <2>6. CountsHolders'
    BY <2>2, <2>3, <2>4 DEF CountsHolders
  <2>7. Exclusion'
    BY <2>4 DEF Exclusion
  <2> QED
    BY <2>4, <2>5, <2>6, <2>7
<1>6. ASSUME NEW t \in Threads, WriteUnlock(t) PROVE Inv'
  <2> USE DEF Inv
  <2>1. /\ pc[t] = "writing" /\ t \in Writers /\ t \notin Readers
        /\ writer_' = FALSE /\ UNCHANGED <<count_, rounds>> /\ LeaveAndNotify(t)
    BY <1>6 DEF WriteUnlock, Writers, Readers
  <2>2. /\ pc' \in [Threads -> States]
        /\ Readers' = Readers
        /\ Writers' = Writers \ {t}
        /\ \A u \in Threads : pc'[u] \in {"reading", "writing"} => pc'[u] = pc[u]
        /\ NoLostWakeup'
    BY <2>1, LeaveAndNotifyFacts
  <2>3. Writers = {t}
    BY <2>1 DEF Exclusion, Writers
  <2>4. TypeOK'
    BY <2>1, <2>2 DEF TypeOK
  <2>5. CountsHolders'
    BY <2>1, <2>2, <2>3 DEF CountsHolders
  <2>6. Exclusion'
    BY <2>2 DEF Exclusion
  <2> QED
    BY <2>2, <2>4, <2>5, <2>6
<1>7. ASSUME NEW t \in Threads, SpuriousWakeup(t) PROVE Inv'
  <2> USE DEF Inv
  <2>1. /\ t \in Threads /\ pc[t] \in {"readAsleep", "writeAsleep"}
        /\ pc' = [pc EXCEPT ![t] = Awake(@)]
        /\ Awake(pc[t]) \in {"readWoken", "writeWoken"}
        /\ UNCHANGED <<count_, writer_, rounds>>
    BY <1>7 DEF SpuriousWakeup, Asleep, Awake
  <2>2. TypeOK'
    BY <2>1 DEF TypeOK, States, ReadStates, WriteStates
  <2>3. Readers' = Readers /\ Writers' = Writers
    BY <2>1 DEF TypeOK, Readers, Writers
  <2>4. CountsHolders'
    BY <2>1, <2>3 DEF CountsHolders
  <2>5. Exclusion'
    BY <2>1 DEF Exclusion, TypeOK
  <2>6. t \in Woken'
    BY <2>1 DEF Woken, TypeOK
  <2> QED
    BY <2>2, <2>4, <2>5, <2>6 DEF NoLostWakeup
<1>8. CASE UNCHANGED vars
  BY <1>8 DEF vars, Inv, TypeOK, CountsHolders, Exclusion, NoLostWakeup, Readers, Writers,
              Asleep, Woken
<1> QED
  BY <1>2, <1>3, <1>4, <1>5, <1>6, <1>7, <1>8 DEF Next

(* The invariant holds in every reachable state.                            *)
LEMMA Invariance == Spec => []Inv
<1> QED
  BY InitInv, NextInv, PTL DEF Spec

(* The variables keep their types; count_, an `unsigned`, never wraps below *)
(* zero in ~ScopedReadLock.                                                 *)
THEOREM TypeCorrect == Spec => []TypeOK
BY Invariance, PTL DEF Inv

(* count_ and writer_ always agree with who is inside.                      *)
THEOREM CountsCorrect == Spec => []CountsHolders
BY Invariance, PTL DEF Inv

(* A writer is alone, for any number of threads.                            *)
THEOREM ExclusionHolds == Spec => []Exclusion
BY Invariance, PTL DEF Inv

(* Waking a single thread, by the last reader or the writer only, never     *)
(* leaves a sleeping thread with nobody left to wake it.                    *)
THEOREM NoLostWakeupHolds == Spec => []NoLostWakeup
BY Invariance, PTL DEF Inv
(* The users of the lock see the abstract lock: the initial states map to   *)
(* its initial state.                                                       *)
LEMMA AbstractInit == Init => Abstract!Init
BY DEF Init, Abstract!Init, Holding

(* What the mapping shows of a thread.                                      *)
LEMMA HoldingFacts ==
  ASSUME NEW t \in Threads
  PROVE  /\ Holding[t] = "read" <=> pc[t] = "reading"
         /\ Holding[t] = "write" <=> pc[t] = "writing"
         /\ Holding[t] \in {"none", "read", "write"}
BY DEF Holding

(* Every step of the code maps to a step of the abstract lock or to none.   *)
LEMMA AbstractStep == Inv /\ [Next]_vars => [Abstract!Next]_Holding
<1> SUFFICES ASSUME Inv, [Next]_vars PROVE [Abstract!Next]_Holding
  OBVIOUS
<1> USE DEF Inv
<1>1. ASSUME NEW t \in Threads, pc[t] \notin {"reading", "writing"}, Writers = {},
             pc' = [pc EXCEPT ![t] = "reading"]
      PROVE  Abstract!Read(t)
  <2>1. Holding' = [Holding EXCEPT ![t] = "read"]
    BY <1>1 DEF Holding, TypeOK
  <2>2. Holding[t] = "none" /\ \A u \in Threads : Holding[u] # "write"
    BY <1>1 DEF Holding, Writers
  <2> QED
    BY <2>1, <2>2 DEF Abstract!Read, Abstract!NobodyElse
<1>2. ASSUME NEW t \in Threads, pc[t] \notin {"reading", "writing"}, Readers = {},
             Writers = {}, pc' = [pc EXCEPT ![t] = "writing"]
      PROVE  Abstract!Write(t)
  <2>1. Holding' = [Holding EXCEPT ![t] = "write"]
    BY <1>2 DEF Holding, TypeOK
  <2>2. Holding[t] = "none" /\ \A u \in Threads : Holding[u] \notin {"read", "write"}
    BY <1>2 DEF Holding, Writers, Readers
  <2> QED
    BY <2>1, <2>2 DEF Abstract!Write, Abstract!NobodyElse
<1>3. ASSUME NEW t \in Threads, pc[t] \notin {"reading", "writing"},
             NEW s \in {"readAsleep", "writeAsleep", "readWoken", "writeWoken"},
             pc' = [pc EXCEPT ![t] = s]
      PROVE  Holding' = Holding
  BY <1>3 DEF Holding, TypeOK
<1>4. ASSUME NEW t \in Threads, pc[t] \in {"reading", "writing"},
             \/ LeaveAndNotify(t)
             \/ pc' = [pc EXCEPT ![t] = "idle"]
      PROVE  Abstract!Release(t)
  <2>1. CASE pc' = [pc EXCEPT ![t] = "idle"]
    BY <1>4, <2>1 DEF Holding, TypeOK, Abstract!Release
  <2>2. CASE \E u \in Asleep : pc' = [pc EXCEPT ![t] = "idle", ![u] = Awake(pc[u])]
    <3>1. PICK u \in Asleep : pc' = [pc EXCEPT ![t] = "idle", ![u] = Awake(pc[u])]
      BY <2>2
    <3>2. u \in Threads /\ u # t /\ pc[u] \in {"readAsleep", "writeAsleep"}
          /\ Awake(pc[u]) \in {"readWoken", "writeWoken"}
      BY <1>4 DEF Asleep, Awake
    <3>3. /\ pc'[t] = "idle" /\ pc'[u] \in {"readWoken", "writeWoken"}
          /\ \A v \in Threads \ {t, u} : pc'[v] = pc[v]
      BY <3>1, <3>2 DEF TypeOK
    <3>4. Holding' = [Holding EXCEPT ![t] = "none"]
      BY <3>2, <3>3 DEF Holding
    <3> QED
      BY <1>4, <3>4 DEF Holding, Abstract!Release
  <2> QED
    BY <1>4, <2>1, <2>2 DEF LeaveAndNotify
<1>5. ASSUME NEW t \in Threads, pc[t] \notin {"reading", "writing"},
             TryRead(t) \/ TryWrite(t)
      PROVE  Abstract!Read(t) \/ Abstract!Write(t) \/ Holding' = Holding
  <2>1. CASE TryRead(t) /\ writer_
    BY <1>5, <1>3, <2>1 DEF TryRead
  <2>2. CASE TryRead(t) /\ ~writer_
    BY <1>5, <1>1, <2>2 DEF TryRead, CountsHolders
  <2>3. CASE TryWrite(t) /\ (count_ # 0 \/ writer_)
    BY <1>5, <1>3, <2>3 DEF TryWrite
  <2>4. CASE TryWrite(t) /\ ~(count_ # 0 \/ writer_)
    <3>1. Readers = {} /\ Writers = {}
      BY <2>4, ReadersFinite DEF CountsHolders
    <3> QED
      BY <1>5, <1>2, <2>4, <3>1 DEF TryWrite
  <2> QED
    BY <1>5, <2>1, <2>2, <2>3, <2>4
<1>6. ASSUME NEW t \in Threads, ReadLock(t) \/ WriteLock(t) \/ Retry(t)
      PROVE  Abstract!Read(t) \/ Abstract!Write(t) \/ Holding' = Holding
  <2>1. pc[t] \notin {"reading", "writing"} /\ (TryRead(t) \/ TryWrite(t))
    BY <1>6 DEF ReadLock, WriteLock, Retry, Ask
  <2> QED
    BY <1>5, <2>1
<1>7. ASSUME NEW t \in Threads, ReadUnlock(t) \/ WriteUnlock(t)
      PROVE  Abstract!Release(t)
  <2>1. pc[t] \in {"reading", "writing"}
        /\ (LeaveAndNotify(t) \/ pc' = [pc EXCEPT ![t] = "idle"])
    BY <1>7 DEF ReadUnlock, WriteUnlock
  <2> QED
    BY <1>4, <2>1
<1>8. ASSUME NEW t \in Threads, SpuriousWakeup(t)
      PROVE  Holding' = Holding
  <2>1. pc[t] \notin {"reading", "writing"} /\ pc' = [pc EXCEPT ![t] = Awake(@)]
        /\ Awake(pc[t]) \in {"readWoken", "writeWoken"}
    BY <1>8 DEF SpuriousWakeup, Asleep, Awake
  <2> QED
    BY <1>3, <2>1
<1>9. CASE UNCHANGED vars
  BY <1>9 DEF vars, Holding
<1> QED
  BY <1>6, <1>7, <1>8, <1>9 DEF Next, Abstract!Next

(* RWMutex with its two scoped locks implements the abstract lock, for any  *)
(* number of threads: what KvalobsProxy builds on.                          *)
THEOREM Refinement == Spec => ImplementsRWLock
<1>1. Spec => []Inv
  BY Invariance
<1> QED
  BY <1>1, AbstractInit, AbstractStep, PTL DEF Spec, ImplementsRWLock, Abstract!Spec
=============================================================================
