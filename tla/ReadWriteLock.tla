---------------------------- MODULE ReadWriteLock ----------------------------
(***************************************************************************)
(* src/proxy/ReadWriteLock.h: RWMutex with ScopedReadLock and              *)
(* ScopedWriteLock.                                                        *)
(*                                                                         *)
(* Every constructor and destructor runs under the inner boost::mutex, so  *)
(* each stretch between taking that mutex and releasing it (at the end of  *)
(* the scope or inside condition::wait) is one action.  A thread that      *)
(* waits on cond_ is "Asleep"; notify_one makes one sleeping thread of the *)
(* waker's choice "Woken"; a woken thread has still to get the mutex back  *)
(* and to test its condition again, and another thread may come in between.*)
(***************************************************************************)
EXTENDS Integers, FiniteSets

CONSTANTS
  Threads,     \* the threads that use the lock
  MaxRounds    \* bound: how many times each thread may ask for the lock

ASSUME ThreadsFinite == IsFiniteSet(Threads)
ASSUME RoundsNat == MaxRounds \in Nat

VARIABLES
  count_,      \* RWMutex::count_, the number of readers
  writer_,     \* RWMutex::writer_
  pc,          \* where each thread is
  rounds       \* requests each thread may still make

vars == <<count_, writer_, pc, rounds>>

ReadStates  == {"readAsleep", "readWoken", "reading"}
WriteStates == {"writeAsleep", "writeWoken", "writing"}
States == {"idle"} \cup ReadStates \cup WriteStates

Asleep  == {t \in Threads : pc[t] \in {"readAsleep", "writeAsleep"}}
Woken   == {t \in Threads : pc[t] \in {"readWoken", "writeWoken"}}
Readers == {t \in Threads : pc[t] = "reading"}
Writers == {t \in Threads : pc[t] = "writing"}

Init ==
  /\ count_ = 0
  /\ writer_ = FALSE
  /\ pc = [t \in Threads |-> "idle"]
  /\ rounds = [t \in Threads |-> MaxRounds]

Awake(s) == IF s = "readAsleep" THEN "readWoken" ELSE "writeWoken"

(* cond_.notify_one() by a thread that goes on as idle: it wakes one        *)
(* sleeping thread, any of them, and is lost when nobody sleeps.            *)
LeaveAndNotify(t) ==
  \/ /\ Asleep = {}
     /\ pc' = [pc EXCEPT ![t] = "idle"]
  \/ \E u \in Asleep : pc' = [pc EXCEPT ![t] = "idle", ![u] = Awake(pc[u])]

(* Mutant: the reader counts itself before it waits.                        *)
TryReadCountsEarly(t) ==
  /\ count_' = count_ + 1
  /\ pc' = [pc EXCEPT ![t] = IF writer_ THEN "readAsleep" ELSE "reading"]
  /\ UNCHANGED writer_

(* Mutant: the reader does not look for a writer.                           *)
TryReadBlind(t) ==
  /\ count_' = count_ + 1
  /\ pc' = [pc EXCEPT ![t] = "reading"]
  /\ UNCHANGED writer_

(* The wait loops of the two constructors, entered with the mutex held.     *)
TryRead(t) ==
  IF writer_
  THEN /\ pc' = [pc EXCEPT ![t] = "readAsleep"]
       /\ UNCHANGED <<count_, writer_>>
  ELSE /\ count_' = count_ + 1
       /\ pc' = [pc EXCEPT ![t] = "reading"]
       /\ UNCHANGED writer_

(* Mutant: the writer does not look for readers.                            *)
TryWriteOverReaders(t) ==
  IF writer_
  THEN /\ pc' = [pc EXCEPT ![t] = "writeAsleep"]
       /\ UNCHANGED <<count_, writer_>>
  ELSE /\ writer_' = TRUE
       /\ pc' = [pc EXCEPT ![t] = "writing"]
       /\ UNCHANGED count_

TryWrite(t) ==
  IF count_ # 0 \/ writer_
  THEN /\ pc' = [pc EXCEPT ![t] = "writeAsleep"]
       /\ UNCHANGED <<count_, writer_>>
  ELSE /\ writer_' = TRUE
       /\ pc' = [pc EXCEPT ![t] = "writing"]
       /\ UNCHANGED count_

Ask(t) ==
  /\ pc[t] = "idle"
  /\ rounds[t] > 0
  /\ rounds' = [rounds EXCEPT ![t] = @ - 1]

ReadLock(t)  == Ask(t) /\ TryRead(t)
WriteLock(t) == Ask(t) /\ TryWrite(t)

(* A woken thread has the mutex back and goes round its wait loop again.    *)
Retry(t) ==
  /\ \/ pc[t] = "readWoken" /\ TryRead(t)
     \/ pc[t] = "writeWoken" /\ TryWrite(t)
  /\ UNCHANGED rounds

(* Mutant: the last reader notifies nobody.                                 *)
ReadUnlockSilent(t) ==
  /\ pc[t] = "reading"
  /\ count_' = count_ - 1
  /\ pc' = [pc EXCEPT ![t] = "idle"]
  /\ UNCHANGED <<writer_, rounds>>

ReadUnlock(t) ==
  /\ pc[t] = "reading"
  /\ count_' = count_ - 1
  /\ IF count_ - 1 = 0
     THEN LeaveAndNotify(t)
     ELSE pc' = [pc EXCEPT ![t] = "idle"]
  /\ UNCHANGED <<writer_, rounds>>

(* Mutant: the writer notifies nobody.                                      *)
WriteUnlockSilent(t) ==
  /\ pc[t] = "writing"
  /\ writer_' = FALSE
  /\ pc' = [pc EXCEPT ![t] = "idle"]
  /\ UNCHANGED <<count_, rounds>>

(* Mutant: the writer gives up the lock as a reader does.                   *)
WriteUnlockAsReader(t) ==
  /\ pc[t] = "writing"
  /\ writer_' = FALSE
  /\ count_' = count_ - 1
  /\ LeaveAndNotify(t)
  /\ UNCHANGED rounds

WriteUnlock(t) ==
  /\ pc[t] = "writing"
  /\ writer_' = FALSE
  /\ LeaveAndNotify(t)
  /\ UNCHANGED <<count_, rounds>>

(* boost::condition may let a wait return without a notification.           *)
SpuriousWakeup(t) ==
  /\ t \in Asleep
  /\ pc' = [pc EXCEPT ![t] = Awake(@)]
  /\ UNCHANGED <<count_, writer_, rounds>>

(* What the program does of its own accord; the rest is up to the callers.  *)
Progress(t) == Retry(t) \/ ReadUnlock(t) \/ WriteUnlock(t)

Next ==
  \E t \in Threads :
    \/ ReadLock(t) \/ WriteLock(t)
    \/ Retry(t)
    \/ ReadUnlock(t) \/ WriteUnlock(t)
    \/ SpuriousWakeup(t)

Spec == Init /\ [][Next]_vars

(* A holder always leaves its scope, and a woken thread is scheduled.       *)
FairSpec == Spec /\ \A t \in Threads : WF_vars(Progress(t))
-----------------------------------------------------------------------------
(* Types.  count_ is `unsigned`: it must never go below zero.               *)
TypeOK ==
  /\ count_ \in Nat
  /\ writer_ \in BOOLEAN
  /\ pc \in [Threads -> States]
  /\ rounds \in [Threads -> 0..MaxRounds]

(* The two words of state tell the truth about who is inside, after any     *)
(* interleaving of barging, woken and sleeping threads.                     *)
CountsHolders ==
  /\ count_ = Cardinality(Readers)
  /\ writer_ <=> Writers # {}

(* A writer is alone: no reader and no second writer with it.  This is what *)
(* KvalobsProxy::db_cleanup relies on when it moves oldestInProxy.          *)
Exclusion ==
  \A t, u \in Threads :
    (pc[t] = "writing" /\ u # t) => pc[u] \notin {"reading", "writing"}

(* No wakeup is lost although only the last reader and the writer notify,   *)
(* and only one thread: while someone sleeps there is a thread inside,      *)
(* which will notify when it leaves, or one on its way to test again.       *)
NoLostWakeup == Asleep # {} => Woken # {} \/ Readers # {} \/ Writers # {}

(* Every request is granted once no more are made: the chain of             *)
(* notifications reaches every sleeping thread, reader and writer.          *)
EveryRequestGranted ==
  \A t \in Threads :
    (pc[t] \notin {"idle", "reading", "writing"}) ~> (pc[t] \in {"reading", "writing"})

(* The lock seen by its users.                                              *)
Holding ==
  [t \in Threads |-> CASE pc[t] = "reading" -> "read"
                       [] pc[t] = "writing" -> "write"
                       [] OTHER -> "none"]

Abstract == INSTANCE AbstractRWLock WITH holding <- Holding

(* The code implements the abstract lock.                                   *)
ImplementsRWLock == Abstract!Spec
=============================================================================
