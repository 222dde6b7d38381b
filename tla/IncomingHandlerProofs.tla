------------------------ MODULE IncomingHandlerProofs ------------------------
(***************************************************************************)
(* Proofs about IncomingHandler, for any pool of threads and any number of *)
(* messages, failures and restarts.                                        *)
(***************************************************************************)
EXTENDS IncomingHandler, FiniteSetTheorems, SequenceTheorems, TLAPS

(* A worker that holds a message it failed on has failed at least once, and *)
(* messages that have not arrived were never tried.                         *)
TriesRecorded ==
  /\ \A w \in Workers : pc[w] = "failed" => tries[data[w]] > 0
  /\ \A m \in Messages : m > received => tries[m] = 0

(* Who holds the mutex on his way to a wait has seen an empty queue, and    *)
(* nobody else can have changed it.                                         *)
CommittedSawEmpty == ~MutexFree => queue = <<>>

(* The flag is up from the moment stopThreads sets it.                      *)
FlagUp == ctl \in {"flagged", "joining", "destroyed"} => threadsStopping

(* While the owner joins, the workers that may still go to sleep, or sleep, *)
(* are those that notify_all missed.                                        *)
MissedCoversWaiting ==
  ctl = "joining" => \A w \in Workers : pc[w] \in {"committed", "asleep"} => w \in missed

(* The inductive invariant, in its layers: each one uses those before it.   *)
Placed == TypeOK /\ EachMessageInOnePlace
Inv1 == Placed /\ NobodyAfterStop /\ FlagUp
Inv2 == Inv1 /\ TriesRecorded /\ FreshInOrder
Inv3 == Inv2 /\ CommittedSawEmpty /\ MissedCoversWaiting /\ NoSleepOverWork
-----------------------------------------------------------------------------
(* Taking the head of a queue without repetitions, what is left.            *)
LEMMA TakeHead ==
  ASSUME NEW S, NEW q \in Seq(S), q # <<>>, IsInjective(q)
  PROVE  /\ Head(q) \in S
         /\ Tail(q) \in Seq(S)
         /\ Head(q) = q[1]
         /\ Len(Tail(q)) = Len(q) - 1 /\ Len(q) > 0
         /\ \A i \in 1..Len(Tail(q)) : i + 1 \in 1..Len(q) /\ Tail(q)[i] = q[i + 1]
         /\ IsInjective(Tail(q))
         /\ Range(q) = Range(Tail(q)) \cup {Head(q)}
         /\ Head(q) \notin Range(Tail(q))
<1>1. /\ Head(q) \in S /\ Tail(q) \in Seq(S) /\ Head(q) = q[1]
      /\ Len(Tail(q)) = Len(q) - 1 /\ Len(q) \in Nat \ {0}
      /\ \A i \in 1..Len(Tail(q)) : Tail(q)[i] = q[i + 1]
  BY HeadTailProperties, EmptySeq
<1>2. DOMAIN q = 1..Len(q) /\ DOMAIN Tail(q) = 1..Len(Tail(q))
  BY <1>1, LenProperties
<1>3. \A i \in 1..Len(Tail(q)) : i + 1 \in 1..Len(q)
  BY <1>1
<1>4. IsInjective(Tail(q))
  BY <1>1, <1>2, <1>3 DEF IsInjective
<1>5. Head(q) \notin Range(Tail(q))
  <2> SUFFICES ASSUME NEW i \in 1..Len(Tail(q)), Tail(q)[i] = q[1] PROVE FALSE
    BY <1>1, <1>2 DEF Range
  <2> QED
    BY <1>1, <1>2, <1>3 DEF IsInjective
<1>6. Range(q) = Range(Tail(q)) \cup {Head(q)}
  <2>1. Range(Tail(q)) \cup {Head(q)} \subseteq Range(q)
    BY <1>1, <1>2, <1>3 DEF Range
  <2>2. ASSUME NEW i \in 1..Len(q) PROVE q[i] \in Range(Tail(q)) \cup {Head(q)}
    <3>1. CASE i = 1
      BY <1>1, <3>1
    <3>2. CASE i # 1
      <4>1. i - 1 \in 1..Len(Tail(q)) /\ Tail(q)[i - 1] = q[i]
        BY <1>1, <3>2
      <4> QED
        BY <4>1, <1>2 DEF Range
    <3> QED
      BY <3>1, <3>2
  <2> QED
    BY <1>2, <2>1, <2>2 DEF Range
<1> QED
  BY <1>1, <1>3, <1>4, <1>5, <1>6

(* Adding a new element at the end.                                         *)
LEMMA AddLast ==
  ASSUME NEW S, NEW q \in Seq(S), NEW m \in S, IsInjective(q), m \notin Range(q)
  PROVE  /\ Append(q, m) \in Seq(S)
         /\ Len(Append(q, m)) = Len(q) + 1
         /\ \A i \in 1..Len(q) : Append(q, m)[i] = q[i]
         /\ Append(q, m)[Len(q) + 1] = m
         /\ IsInjective(Append(q, m))
         /\ Range(Append(q, m)) = Range(q) \cup {m}
<1>1. /\ Append(q, m) \in Seq(S)
      /\ Len(Append(q, m)) = Len(q) + 1 /\ Len(q) \in Nat
      /\ \A i \in 1..Len(q) : Append(q, m)[i] = q[i]
      /\ Append(q, m)[Len(q) + 1] = m
  BY AppendProperties, LenProperties
<1>2. DOMAIN q = 1..Len(q) /\ DOMAIN Append(q, m) = 1..(Len(q) + 1)
  BY <1>1, LenProperties
<1>3. IsInjective(Append(q, m))
  BY <1>1, <1>2 DEF IsInjective, Range
<1>4. Range(Append(q, m)) = Range(q) \cup {m}
  <2>1. 1..(Len(q) + 1) = 1..Len(q) \cup {Len(q) + 1}
    BY <1>1
  <2> QED
    BY <1>1, <1>2, <2>1 DEF Range
<1> QED
  BY <1>1, <1>3, <1>4

(* Adding a new element in front.                                           *)
LEMMA AddFirst ==
  ASSUME NEW S, NEW q \in Seq(S), NEW m \in S, IsInjective(q), m \notin Range(q)
  PROVE  /\ <<m>> \o q \in Seq(S)
         /\ Len(<<m>> \o q) = Len(q) + 1
         /\ (<<m>> \o q)[1] = m
         /\ \A i \in 2..(Len(q) + 1) : i - 1 \in 1..Len(q) /\ (<<m>> \o q)[i] = q[i - 1]
         /\ IsInjective(<<m>> \o q)
         /\ Range(<<m>> \o q) = Range(q) \cup {m}
<1> DEFINE s == <<m>> \o q
<1>1. <<m>> \in Seq(S) /\ Len(<<m>>) = 1 /\ <<m>>[1] = m /\ Len(q) \in Nat
  BY LenProperties
<1>2. /\ s \in Seq(S) /\ Len(s) = 1 + Len(q)
      /\ \A i \in 1..(1 + Len(q)) : s[i] = IF i <= 1 THEN <<m>>[i] ELSE q[i - 1]
  BY <1>1, ConcatProperties
<1>3. /\ s[1] = m
      /\ \A i \in 2..(Len(q) + 1) : i - 1 \in 1..Len(q) /\ s[i] = q[i - 1]
  BY <1>1, <1>2
<1>4. DOMAIN q = 1..Len(q) /\ DOMAIN s = 1..(Len(q) + 1)
  BY <1>1, <1>2, LenProperties
<1> HIDE DEF s
<1>5. IsInjective(s)
  <2> SUFFICES ASSUME NEW i \in 1..(Len(q) + 1), NEW j \in 1..(Len(q) + 1), s[i] = s[j]
               PROVE  i = j
    BY <1>4 DEF IsInjective
  <2>1. ASSUME NEW k \in 2..(Len(q) + 1) PROVE s[k] # m
    BY <1>3, <1>4, <2>1 DEF Range
  <2>2. CASE i = 1 \/ j = 1
    BY <1>1, <1>3, <2>1, <2>2
  <2>3. CASE i # 1 /\ j # 1
    <3>1. i \in 2..(Len(q) + 1) /\ j \in 2..(Len(q) + 1)
      BY <1>1, <2>3
    <3>2. q[i - 1] = q[j - 1] /\ i - 1 \in 1..Len(q) /\ j - 1 \in 1..Len(q)
      BY <1>3, <3>1
    <3>3. i - 1 = j - 1
      BY <1>4, <3>2 DEF IsInjective
    <3> QED
      BY <3>3
  <2> QED
    BY <2>2, <2>3
<1>6. Range(s) = Range(q) \cup {m}
  <2>1. ASSUME NEW i \in 1..(Len(q) + 1) PROVE s[i] \in Range(q) \cup {m}
    BY <1>1, <1>3, <1>4 DEF Range
  <2>2. ASSUME NEW i \in 1..Len(q) PROVE i + 1 \in 2..(Len(q) + 1) /\ s[i + 1] = q[i]
    BY <1>1, <1>3
  <2>3. 1 \in 1..(Len(q) + 1) /\ 2..(Len(q) + 1) \subseteq 1..(Len(q) + 1)
    BY <1>1
  <2>4. Range(s) \subseteq Range(q) \cup {m}
    BY <1>4, <2>1 DEF Range
  <2>5. Range(q) \cup {m} \subseteq Range(s)
    BY <1>3, <1>4, <2>2, <2>3 DEF Range
  <2> QED
    BY <2>4, <2>5
<1> QED
  BY <1>2, <1>3, <1>5, <1>6 DEF s
-----------------------------------------------------------------------------
(* First layer: types, and every message in one place.                      *)
LEMMA PlacedInit == Init => Placed
<1> SUFFICES ASSUME Init PROVE Placed
  OBVIOUS
<1> USE DEF Init
<1>1. TypeOK
  <2>1. threadsStopping \in BOOLEAN /\ dying \in BOOLEAN
    BY Zenon
  <2>2. queue \in Seq(Messages)
    BY EmptySeq
  <2> QED
    BY <2>1, <2>2, BoundsNat DEF TypeOK, WorkerStates, OwnerStates
<1>2. Busy = {} /\ Held = {} /\ DOMAIN queue = {} /\ Queued = {}
  BY EmptySeq DEF Busy, Held, Queued, Range
<1>3. IsInjective(queue)
  BY <1>2 DEF IsInjective
<1>4. 1..received = {}
  OBVIOUS
<1> QED
  BY <1>1, <1>2, <1>3, <1>4 DEF Placed, EachMessageInOnePlace

(* A worker that decides takes at most the head of the queue.               *)
LEMMA PlacedDecide ==
  ASSUME Placed, NEW w \in Workers, pc[w] \in {"top", "woken"}, Decide(w),
         UNCHANGED <<threadsStopping, received, tries, done, cleared, ctl, dying, starts, missed>>
  PROVE  Placed'
<1> USE DEF Placed
<1>1. CASE queue' = queue /\ data' = data
           /\ \E s \in {"exited", "top"} : pc' = [pc EXCEPT ![w] = s]
  <2>1. Busy' = Busy
    BY <1>1 DEF Busy, TypeOK
  <2>2. Held' = Held /\ Queued' = Queued
    BY <1>1, <2>1 DEF Held, Queued
  <2>3. TypeOK'
    BY <1>1 DEF TypeOK, WorkerStates
  <2> QED
    BY <1>1, <2>1, <2>2, <2>3 DEF EachMessageInOnePlace
<1>2. CASE /\ queue # <<>>
           /\ pc' = [pc EXCEPT ![w] = "processing"]
           /\ data' = [data EXCEPT ![w] = Head(queue)]
           /\ queue' = Tail(queue)
  <2>1. /\ Head(queue) \in Messages /\ queue' \in Seq(Messages) /\ IsInjective(queue')
        /\ Queued = Queued' \cup {Head(queue)} /\ Head(queue) \notin Queued'
    BY <1>2, TakeHead DEF TypeOK, EachMessageInOnePlace, Queued
  <2>2. TypeOK'
    BY <1>2, <2>1 DEF TypeOK, WorkerStates, Messages
  <2>3. Busy' = Busy \cup {w} /\ w \notin Busy
    BY <1>2 DEF Busy, TypeOK
  <2>4. data'[w] = Head(queue) /\ \A v \in Busy : data'[v] = data[v]
    BY <1>2, <2>3 DEF TypeOK
  <2>5. Held' = Held \cup {Head(queue)}
    BY <2>3, <2>4 DEF Held
  <2>6. \A v \in Busy : data[v] # Head(queue)
    BY <2>1 DEF Held, EachMessageInOnePlace
  <2>7. \A u, v \in Busy' : data'[u] = data'[v] => u = v
    BY <2>3, <2>4, <2>6 DEF EachMessageInOnePlace
  <2> QED
    BY <2>1, <2>2, <2>5, <2>7 DEF EachMessageInOnePlace
<1> QED
  BY <1>1, <1>2 DEF Decide

(* Whatever notify_one does, the pcs stay pcs and nobody begins or ends     *)
(* processing.                                                              *)
LEMMA NotifyOneFacts ==
  ASSUME NEW p \in [Workers -> WorkerStates], NotifyOne(p),
         \A v \in Asleep : p[v] = "asleep"
  PROVE  /\ pc' \in [Workers -> WorkerStates]
         /\ \A v \in Workers : pc'[v] # p[v] => p[v] = "asleep" /\ pc'[v] = "woken"
         /\ Asleep # {} => \E u \in Asleep : pc' = [p EXCEPT ![u] = "woken"]
         /\ Asleep = {} => pc' = p
BY DEF NotifyOne, WorkerStates, Asleep

LEMMA PlacedNext == Inv1 /\ [Next]_vars => Placed'
<1> SUFFICES ASSUME Inv1, [Next]_vars PROVE Placed'
  OBVIOUS
<1> USE DEF Inv1, Placed
<1>1. CASE onKvDataEvent
  <2>1. /\ received + 1 \in Messages /\ received' = received + 1
        /\ queue' = Append(queue, received + 1)
        /\ UNCHANGED <<threadsStopping, data, tries, done, cleared, ctl, dying, starts, missed>>
    <3>1. received \in Nat /\ received + 1 \in 1..MaxMessages
      BY <1>1, BoundsNat DEF onKvDataEvent, TypeOK
    <3> QED
      BY <1>1, <3>1 DEF onKvDataEvent, Messages
  <2>2. received + 1 \notin Queued \cup Held \cup done \cup cleared
    BY <2>1 DEF EachMessageInOnePlace, TypeOK
  <2>3. /\ queue' \in Seq(Messages) /\ IsInjective(queue')
        /\ Queued' = Queued \cup {received + 1}
    BY <2>1, <2>2, AddLast DEF TypeOK, EachMessageInOnePlace, Queued
  <2>4. /\ pc' \in [Workers -> WorkerStates]
        /\ \A v \in Workers : pc'[v] # pc[v] => pc[v] = "asleep" /\ pc'[v] = "woken"
    <3>1. \A v \in Asleep : pc[v] = "asleep"
      BY DEF Asleep
    <3>2. NotifyOne(pc) /\ pc \in [Workers -> WorkerStates]
      BY <1>1 DEF onKvDataEvent, TypeOK
    <3> QED
      BY <3>1, <3>2, NotifyOneFacts
  <2>5. Busy' = Busy
    BY <2>4 DEF Busy
  <2>6. Held' = Held
    BY <2>1, <2>5 DEF Held
  <2>7. TypeOK'
    BY <2>1, <2>3, <2>4 DEF TypeOK, Messages
  <2>8. 1..received' = 1..received \cup {received + 1}
    BY <2>1 DEF TypeOK
  <2> QED
    BY <2>1, <2>2, <2>3, <2>5, <2>6, <2>7, <2>8 DEF EachMessageInOnePlace
<1>2. ASSUME NEW w \in Workers,
             Commit(w) \/ Wait(w) \/ SpuriousWakeup(w) \/ ProcessThrows(w)
      PROVE  Placed'
  <2>1. /\ UNCHANGED <<queue, threadsStopping, data, received, done, cleared, ctl, dying, starts, missed>>
        /\ Busy' = Busy
        /\ pc' \in [Workers -> WorkerStates]
    BY <1>2 DEF Commit, Wait, SpuriousWakeup, ProcessThrows, TypeOK, WorkerStates, Busy
  <2>2. tries' \in [Messages -> 0..MaxTries]
    <3>1. CASE ProcessThrows(w)
      <4>1. data[w] \in Held
        BY <3>1 DEF ProcessThrows, Held, Busy
      <4>2. data[w] \in Messages
        BY <4>1 DEF EachMessageInOnePlace, TypeOK, Messages
      <4>3. tries[data[w]] + 1 \in 0..MaxTries
        BY <3>1, <4>2, BoundsNat DEF ProcessThrows, TypeOK
      <4> QED
        BY <3>1, <4>2, <4>3 DEF ProcessThrows, TypeOK
    <3>2. CASE ~ProcessThrows(w)
      BY <1>2, <3>2 DEF Commit, Wait, SpuriousWakeup, TypeOK
    <3> QED
      BY <3>1, <3>2
  <2>3. Held' = Held /\ Queued' = Queued
    BY <2>1 DEF Held, Queued
  <2>4. TypeOK'
    BY <2>1, <2>2 DEF TypeOK
  <2> QED
    BY <2>1, <2>3, <2>4 DEF EachMessageInOnePlace
<1>3. ASSUME NEW w \in Workers, Look(w) PROVE Placed'
  BY <1>3, PlacedDecide DEF Look
<1>4. ASSUME NEW w \in Workers, WakeUp(w) PROVE Placed'
  BY <1>4, PlacedDecide DEF WakeUp
<1>5. ASSUME NEW w \in Workers, ProcessOk(w) PROVE Placed'
  <2>1. /\ pc[w] = "processing" /\ done' = done \cup {data[w]}
        /\ pc' = [pc EXCEPT ![w] = "top"] /\ data' = [data EXCEPT ![w] = 0]
        /\ UNCHANGED <<queue, threadsStopping, received, tries, cleared, ctl, dying, starts, missed>>
    BY <1>5 DEF ProcessOk
  <2>2. w \in Busy /\ Busy' = Busy \ {w} /\ \A v \in Busy' : data'[v] = data[v]
    BY <2>1 DEF Busy, TypeOK
  <2>3. Held = Held' \cup {data[w]} /\ data[w] \notin Held' /\ Queued' = Queued
    BY <2>1, <2>2 DEF Held, EachMessageInOnePlace, Queued
  <2>4. data[w] \in Messages
    BY <2>3 DEF EachMessageInOnePlace, TypeOK, Messages
  <2>5. TypeOK'
    BY <2>1, <2>4, BoundsNat DEF TypeOK, WorkerStates
  <2> QED
    BY <2>1, <2>2, <2>3, <2>5 DEF EachMessageInOnePlace
<1>6. ASSUME NEW w \in Workers, PutBack(w) PROVE Placed'
  <2>1. /\ pc[w] = "failed" /\ queue' = <<data[w]>> \o queue
        /\ data' = [data EXCEPT ![w] = 0]
        /\ UNCHANGED <<threadsStopping, received, tries, done, cleared, ctl, dying, starts, missed>>
    BY <1>6 DEF PutBack
  <2>2. /\ pc' \in [Workers -> WorkerStates] /\ pc'[w] = "top"
        /\ \A v \in Workers \ {w} : pc'[v] # pc[v] => pc[v] = "asleep" /\ pc'[v] = "woken"
    <3> DEFINE p == [pc EXCEPT ![w] = "top"]
    <3>1. /\ p \in [Workers -> WorkerStates] /\ p[w] = "top"
          /\ \A v \in Workers \ {w} : p[v] = pc[v]
      BY DEF TypeOK, WorkerStates
    <3>2. NotifyOne(p) /\ \A v \in Asleep : p[v] = "asleep"
      BY <1>6, <2>1, <3>1 DEF PutBack, Asleep
    <3> HIDE DEF p
    <3>3. /\ pc' \in [Workers -> WorkerStates]
          /\ \A v \in Workers : pc'[v] # p[v] => p[v] = "asleep" /\ pc'[v] = "woken"
      BY <3>1, <3>2, NotifyOneFacts
    <3> QED
      BY <3>1, <3>3
  <2>3. w \in Busy /\ Busy' = Busy \ {w} /\ \A v \in Busy' : data'[v] = data[v]
    BY <2>1, <2>2 DEF Busy, TypeOK
  <2>4. Held = Held' \cup {data[w]} /\ data[w] \notin Held'
    BY <2>3 DEF Held, EachMessageInOnePlace
  <2>5. data[w] \in Messages /\ data[w] \notin Queued
    BY <2>4 DEF EachMessageInOnePlace, TypeOK, Messages
  <2>6. /\ queue' \in Seq(Messages) /\ IsInjective(queue')
        /\ Queued' = Queued \cup {data[w]}
    BY <2>1, <2>5, AddFirst DEF TypeOK, EachMessageInOnePlace, Queued
  <2>7. TypeOK'
    <3>1. data' \in [Workers -> 0..MaxMessages]
      BY <2>1, BoundsNat DEF TypeOK
    <3> QED
      BY <2>1, <2>2, <2>6, <3>1 DEF TypeOK
  <2> QED
    BY <2>1, <2>3, <2>4, <2>5, <2>6, <2>7 DEF EachMessageInOnePlace
<1>7. CASE startThreads
  <2>1. /\ threadsStopping' = FALSE /\ pc' = [w \in Workers |-> "top"] /\ starts' \in 0..MaxStarts
        /\ UNCHANGED <<queue, data, received, tries, done, cleared, ctl, dying, missed>>
    BY <1>7, BoundsNat DEF startThreads, TypeOK
  <2>2. Busy = {}
    BY <1>7 DEF startThreads, NobodyAfterStop, Busy
  <2>3. Busy' = {}
    BY <2>1 DEF Busy
  <2>4. Held' = Held /\ Queued' = Queued
    BY <2>1, <2>2, <2>3 DEF Held, Queued
  <2>5. TypeOK'
    <3>1. threadsStopping' \in BOOLEAN
      BY <2>1, Zenon
    <3>2. pc' \in [Workers -> WorkerStates]
      BY <2>1 DEF WorkerStates
    <3> QED
      BY <2>1, <3>1, <3>2 DEF TypeOK
  <2> QED
    BY <2>1, <2>2, <2>3, <2>4, <2>5 DEF EachMessageInOnePlace
<1>8. CASE DestructorClears
  <2>1. /\ queue' = <<>> /\ cleared' = cleared \cup Queued /\ dying' = TRUE /\ ctl' = "clearing"
        /\ UNCHANGED <<threadsStopping, pc, data, received, tries, done, starts, missed>>
    BY <1>8 DEF DestructorClears
  <2>2. queue' \in Seq(Messages) /\ DOMAIN queue' = {} /\ Queued' = {}
    BY <2>1, EmptySeq DEF Queued, Range
  <2>3. Queued \subseteq Messages
    BY RangeOfSeq DEF TypeOK, Queued
  <2>4. TypeOK'
    <3>1. dying' \in BOOLEAN
      BY <2>1, Zenon
    <3> QED
      BY <2>1, <2>2, <2>3, <3>1 DEF TypeOK, OwnerStates
  <2>5. Busy' = Busy /\ Held' = Held
    BY <2>1 DEF Busy, Held
  <2>6. IsInjective(queue')
    BY <2>2 DEF IsInjective
  <2> QED
    BY <2>1, <2>2, <2>4, <2>5, <2>6 DEF EachMessageInOnePlace
<1>9. CASE SetStopping \/ NotifyAll \/ Joined \/ UNCHANGED vars
  <2>1. /\ pc' \in [Workers -> WorkerStates]
        /\ \A w \in Workers : pc'[w] # pc[w] => pc[w] = "asleep" /\ pc'[w] = "woken"
        /\ UNCHANGED <<queue, data, received, tries, done, cleared, dying, starts>>
    BY <1>9 DEF SetStopping, NotifyAll, Joined, vars, Asleep, TypeOK, WorkerStates
  <2>2. ctl' \in OwnerStates /\ missed' \subseteq Workers
    BY <1>9 DEF SetStopping, NotifyAll, Joined, vars, TypeOK, OwnerStates
  <2>3. threadsStopping' \in BOOLEAN
    BY <1>9, Zenon DEF SetStopping, NotifyAll, Joined, vars, TypeOK
  <2>4. TypeOK'
    BY <2>1, <2>2, <2>3 DEF TypeOK
  <2>5. Busy' = Busy
    BY <2>1 DEF Busy
  <2>6. Held' = Held /\ Queued' = Queued
    BY <2>1, <2>5 DEF Held, Queued
  <2> QED
    BY <2>1, <2>4, <2>5, <2>6 DEF EachMessageInOnePlace
<1> QED
  BY <1>1, <1>2, <1>3, <1>4, <1>5, <1>6, <1>7, <1>8, <1>9 DEF Next, Owner, Worker

(* Who is alive, and the flag.  When nobody is left and the flag is up, no  *)
(* worker takes a step.                                                     *)
LEMMA NobodyNext == Inv1 /\ [Next]_vars => NobodyAfterStop' /\ FlagUp'
<1> SUFFICES ASSUME Inv1, [Next]_vars PROVE NobodyAfterStop' /\ FlagUp'
  OBVIOUS
<1> USE DEF Inv1, Placed, NobodyAfterStop, FlagUp
<1>1. CASE onKvDataEvent
  <2>1. UNCHANGED <<threadsStopping, ctl>> /\ NotifyOne(pc)
    BY <1>1 DEF onKvDataEvent
  <2>2. (\A w \in Workers : pc[w] = "exited") => pc' = pc
    BY <2>1 DEF NotifyOne, Asleep
  <2> QED
    BY <2>1, <2>2
<1>2. ASSUME NEW w \in Workers, Worker(w) \/ SpuriousWakeup(w)
      PROVE  NobodyAfterStop' /\ FlagUp'
  <2>1. UNCHANGED <<threadsStopping, ctl>> /\ pc[w] # "exited"
    BY <1>2 DEF Worker, SpuriousWakeup, Commit, Look, Wait, WakeUp, ProcessOk, ProcessThrows,
                PutBack
  <2> QED
    BY <2>1
<1>3. CASE Owner
  BY <1>3 DEF Owner, startThreads, DestructorClears, SetStopping, NotifyAll, Joined, TypeOK,
              OwnerStates
<1>4. CASE UNCHANGED vars
  BY <1>4 DEF vars
<1> QED
  BY <1>1, <1>2, <1>3, <1>4 DEF Next

LEMMA Invariance1 == Spec => []Inv1
<1>1. Init => Inv1
  BY PlacedInit DEF Init, Inv1, NobodyAfterStop, FlagUp
<1>2. Inv1 /\ [Next]_vars => Inv1'
  BY PlacedNext, NobodyNext DEF Inv1
<1> QED
  BY <1>1, <1>2, PTL DEF Spec

(* Types.                                                                   *)
THEOREM TypeCorrect == Spec => []TypeOK
BY Invariance1, PTL DEF Inv1, Placed

(* Every message received is queued once, held by one worker, done, or      *)
(* thrown away by the destructor: none is lost by a failure, a stop or a    *)
(* restart, and none is processed by two workers.                           *)
THEOREM NothingLostOrDoubled == Spec => []EachMessageInOnePlace
BY Invariance1, PTL DEF Inv1, Placed

(* When stopThreads has returned no thread of the pool is left.             *)
THEOREM NobodyAfterStopHolds == Spec => []NobodyAfterStop
BY Invariance1, PTL DEF Inv1
-----------------------------------------------------------------------------
(* Second layer: failed messages first, fresh ones in order of arrival.     *)

(* What a busy worker holds has arrived.                                    *)
LEMMA HeldArrived ==
  ASSUME Inv1, NEW w \in Busy
  PROVE  data[w] \in 1..received /\ data[w] \in Messages /\ data[w] \notin Queued
<1>1. data[w] \in Held
  BY DEF Held
<1>2. 1..received \subseteq Messages
  BY BoundsNat DEF Inv1, Placed, TypeOK, Messages
<1> QED
  BY <1>1, <1>2 DEF Inv1, Placed, EachMessageInOnePlace

(* What is queued has arrived.                                              *)
LEMMA QueuedArrived ==
  ASSUME Inv1
  PROVE  /\ Len(queue) \in Nat
         /\ \A i \in 1..Len(queue) :
               queue[i] \in 1..received /\ queue[i] \in Messages /\ queue[i] \in Queued
<1>1. Len(queue) \in Nat /\ DOMAIN queue = 1..Len(queue)
  BY LenProperties DEF Inv1, Placed, TypeOK
<1>2. 1..received \subseteq Messages
  BY BoundsNat DEF Inv1, Placed, TypeOK, Messages
<1>3. \A i \in 1..Len(queue) : queue[i] \in Queued
  BY <1>1 DEF Queued, Range
<1> QED
  BY <1>1, <1>2, <1>3 DEF Inv1, Placed, EachMessageInOnePlace

(* Taking the head keeps the order of the rest.                             *)
LEMMA Decide2 ==
  ASSUME Inv2, NEW w \in Workers, pc[w] \in {"top", "woken"}, Decide(w),
         UNCHANGED <<received, tries>>
  PROVE  TriesRecorded' /\ FreshInOrder'
<1> USE DEF Inv2, Inv1, Placed
<1>1. CASE queue' = queue /\ data' = data
           /\ \E s \in {"exited", "top"} : pc' = [pc EXCEPT ![w] = s]
  <2>1. \A v \in Workers : pc'[v] = "failed" => pc[v] = "failed"
    BY <1>1 DEF TypeOK
  <2> QED
    BY <1>1, <2>1 DEF TriesRecorded, FreshInOrder
<1>2. CASE /\ queue # <<>>
           /\ pc' = [pc EXCEPT ![w] = "processing"]
           /\ data' = [data EXCEPT ![w] = Head(queue)]
           /\ queue' = Tail(queue)
  <2>1. /\ Len(queue') = Len(queue) - 1 /\ Len(queue) \in Nat
        /\ \A i \in 1..Len(queue') : i + 1 \in 1..Len(queue) /\ queue'[i] = queue[i + 1]
    BY <1>2, TakeHead, LenProperties DEF TypeOK, EachMessageInOnePlace
  <2>2. FreshInOrder'
    <3> SUFFICES ASSUME NEW i \in 1..Len(queue'), NEW j \in 1..Len(queue'), i < j,
                        tries[queue'[i]] = 0
                 PROVE  tries[queue'[j]] = 0 /\ queue'[i] < queue'[j]
      BY DEF FreshInOrder
    <3>1. /\ i + 1 \in 1..Len(queue) /\ j + 1 \in 1..Len(queue) /\ i + 1 < j + 1
          /\ queue'[i] = queue[i + 1] /\ queue'[j] = queue[j + 1]
      BY <2>1
    <3> QED
      BY <3>1 DEF FreshInOrder
  <2>3. \A v \in Workers : pc'[v] = "failed" => pc[v] = "failed" /\ data'[v] = data[v]
    BY <1>2 DEF TypeOK
  <2> QED
    BY <2>2, <2>3 DEF TriesRecorded
<1> QED
  BY <1>1, <1>2 DEF Decide

LEMMA FreshNext == Inv2 /\ [Next]_vars => TriesRecorded' /\ FreshInOrder'
<1> SUFFICES ASSUME Inv2, [Next]_vars PROVE TriesRecorded' /\ FreshInOrder'
  OBVIOUS
<1> USE DEF Inv2
<1>t. TypeOK
  BY DEF Inv1, Placed
<1>1. CASE onKvDataEvent
  <2>1. /\ received \in Nat /\ received + 1 \in Messages /\ received' = received + 1
        /\ queue' = Append(queue, received + 1) /\ queue \in Seq(Messages)
        /\ data' = data /\ tries' = tries
    BY <1>1, <1>t, BoundsNat DEF onKvDataEvent, TypeOK, Messages
  <2>2. /\ Len(queue) \in Nat /\ Len(queue') = Len(queue) + 1
        /\ \A i \in 1..Len(queue) : queue'[i] = queue[i]
        /\ queue'[Len(queue) + 1] = received + 1
    BY <2>1, AppendProperties, LenProperties
  <2>3. tries[received + 1] = 0
    BY <2>1 DEF TriesRecorded
  <2>4. \A i \in 1..Len(queue) : queue[i] \in 1..received
    BY QueuedArrived
  <2>5. FreshInOrder'
    <3> SUFFICES ASSUME NEW i \in 1..Len(queue'), NEW j \in 1..Len(queue'), i < j,
                        tries[queue'[i]] = 0
                 PROVE  tries[queue'[j]] = 0 /\ queue'[i] < queue'[j]
      BY <2>1 DEF FreshInOrder
    <3>1. i \in 1..Len(queue) /\ queue'[i] = queue[i]
      BY <2>2
    <3>2. CASE j = Len(queue) + 1
      BY <2>1, <2>2, <2>3, <2>4, <3>1, <3>2
    <3>3. CASE j # Len(queue) + 1
      BY <2>2, <3>1, <3>3 DEF FreshInOrder
    <3> QED
      BY <3>2, <3>3
  <2>6. \A v \in Workers : pc'[v] = "failed" => pc[v] = "failed"
    BY <1>1, <1>t DEF onKvDataEvent, NotifyOne, TypeOK, Asleep
  <2>7. TriesRecorded'
    BY <2>1, <2>6 DEF TriesRecorded, Messages
  <2> QED
    BY <2>5, <2>7
<1>2. ASSUME NEW w \in Workers, Commit(w) \/ Wait(w) \/ SpuriousWakeup(w)
      PROVE  TriesRecorded' /\ FreshInOrder'
  <2>1. /\ UNCHANGED <<queue, data, received, tries>>
        /\ \A v \in Workers : pc'[v] = "failed" => pc[v] = "failed"
    BY <1>2, <1>t DEF Commit, Wait, SpuriousWakeup, TypeOK
  <2> QED
    BY <2>1 DEF TriesRecorded, FreshInOrder
<1>3. ASSUME NEW w \in Workers, Look(w) \/ WakeUp(w)
      PROVE  TriesRecorded' /\ FreshInOrder'
  BY <1>3, Decide2 DEF Look, WakeUp
<1>4. ASSUME NEW w \in Workers, ProcessOk(w)
      PROVE  TriesRecorded' /\ FreshInOrder'
  <2>1. /\ UNCHANGED <<queue, received, tries>>
        /\ \A v \in Workers : pc'[v] = "failed" => pc[v] = "failed" /\ data'[v] = data[v]
    BY <1>4, <1>t DEF ProcessOk, TypeOK
  <2> QED
    BY <2>1 DEF TriesRecorded, FreshInOrder
<1>5. ASSUME NEW w \in Workers, ProcessThrows(w)
      PROVE  TriesRecorded' /\ FreshInOrder'
  <2>1. /\ UNCHANGED <<queue, data, received>> /\ w \in Busy
        /\ pc' = [pc EXCEPT ![w] = "failed"]
        /\ tries' = [tries EXCEPT ![data[w]] = @ + 1]
    BY <1>5 DEF ProcessThrows, Busy
  <2>2. data[w] \in 1..received /\ data[w] \in Messages /\ data[w] \notin Queued
    BY <2>1, HeldArrived
  <2>3. \A m \in Messages : tries[m] \in Nat /\ tries'[m] \in Nat
                            /\ (m # data[w] => tries'[m] = tries[m])
    BY <1>t, <2>1, <2>2 DEF TypeOK
  <2>4. tries'[data[w]] > 0
    BY <1>t, <2>1, <2>2 DEF TypeOK
  <2>5. TriesRecorded'
    <3>1. ASSUME NEW v \in Workers, pc'[v] = "failed" PROVE tries'[data'[v]] > 0
      <4>1. CASE v = w
        BY <2>1, <2>4, <4>1
      <4>2. CASE v # w
        <5>1. pc[v] = "failed" /\ v \in Busy /\ data'[v] = data[v]
          BY <1>t, <2>1, <3>1, <4>2 DEF TypeOK, Busy
        <5>2. data[v] # data[w] /\ data[v] \in Messages
          BY <2>1, <4>2, <5>1, HeldArrived DEF Inv1, Placed, EachMessageInOnePlace
        <5> QED
          BY <2>3, <5>1, <5>2 DEF TriesRecorded
      <4> QED
        BY <4>1, <4>2
    <3>2. ASSUME NEW m \in Messages, m > received' PROVE tries'[m] = 0
      <4>1. m # data[w] /\ m > received
        BY <2>1, <2>2, <3>2, <1>t DEF TypeOK, Messages
      <4> QED
        BY <2>3, <4>1 DEF TriesRecorded
    <3> QED
      BY <3>1, <3>2 DEF TriesRecorded
  <2>6. \A i \in 1..Len(queue) : tries'[queue[i]] = tries[queue[i]]
    BY <2>2, <2>3, QueuedArrived
  <2>7. FreshInOrder'
    BY <2>1, <2>6 DEF FreshInOrder
  <2> QED
    BY <2>5, <2>7
<1>6. ASSUME NEW w \in Workers, PutBack(w)
      PROVE  TriesRecorded' /\ FreshInOrder'
  <2>1. /\ pc[w] = "failed" /\ w \in Busy /\ queue' = <<data[w]>> \o queue
        /\ data' = [data EXCEPT ![w] = 0]
        /\ UNCHANGED <<received, tries>>
        /\ NotifyOne([pc EXCEPT ![w] = "top"])
    BY <1>6 DEF PutBack, Busy
  <2>2. data[w] \in Messages /\ data[w] \notin Range(queue) /\ tries[data[w]] > 0
    BY <2>1, HeldArrived DEF Queued, TriesRecorded
  <2>3. /\ queue \in Seq(Messages) /\ IsInjective(queue)
        /\ Len(queue') = Len(queue) + 1 /\ Len(queue) \in Nat
        /\ queue'[1] = data[w]
        /\ \A i \in 2..(Len(queue) + 1) : i - 1 \in 1..Len(queue) /\ queue'[i] = queue[i - 1]
    BY <1>t, <2>1, <2>2, AddFirst, LenProperties DEF TypeOK, Inv1, Placed, EachMessageInOnePlace
  <2>4. FreshInOrder'
    <3> SUFFICES ASSUME NEW i \in 1..Len(queue'), NEW j \in 1..Len(queue'), i < j,
                        tries[queue'[i]] = 0
                 PROVE  tries[queue'[j]] = 0 /\ queue'[i] < queue'[j]
      BY <2>1 DEF FreshInOrder
    <3>1. i # 1
      BY <2>2, <2>3
    <3>2. i \in 2..(Len(queue) + 1) /\ j \in 2..(Len(queue) + 1)
      BY <2>3, <3>1
    <3>3. /\ i - 1 \in 1..Len(queue) /\ j - 1 \in 1..Len(queue) /\ i - 1 < j - 1
          /\ queue'[i] = queue[i - 1] /\ queue'[j] = queue[j - 1]
      BY <2>3, <3>2
    <3> QED
      BY <3>3 DEF FreshInOrder
  <2>5. \A v \in Workers : pc'[v] = "failed" => pc[v] = "failed" /\ v # w
    BY <1>t, <2>1 DEF NotifyOne, TypeOK, Asleep
  <2>6. \A v \in Workers : pc'[v] = "failed" => data'[v] = data[v]
    BY <1>t, <2>1, <2>5 DEF TypeOK
  <2>7. TriesRecorded'
    BY <2>1, <2>5, <2>6 DEF TriesRecorded
  <2> QED
    BY <2>4, <2>7
<1>7. CASE startThreads
  BY <1>7 DEF startThreads, TriesRecorded, FreshInOrder
<1>8. CASE DestructorClears
  <2>1. UNCHANGED <<pc, data, received, tries>> /\ Len(queue') = 0
    BY <1>8, EmptySeq DEF DestructorClears
  <2> QED
    BY <2>1 DEF TriesRecorded, FreshInOrder
<1>9. CASE SetStopping \/ NotifyAll \/ Joined \/ UNCHANGED vars
  <2>1. /\ UNCHANGED <<queue, data, received, tries>>
        /\ \A v \in Workers : pc'[v] = "failed" => pc[v] = "failed"
    BY <1>9 DEF SetStopping, NotifyAll, Joined, vars
  <2> QED
    BY <2>1 DEF TriesRecorded, FreshInOrder
<1> QED
  BY <1>1, <1>2, <1>3, <1>4, <1>5, <1>6, <1>7, <1>8, <1>9 DEF Next, Owner, Worker

LEMMA Invariance2 == Spec => []Inv2
<1>1. Init => TriesRecorded /\ FreshInOrder
  <2>1. Init => Len(queue) = 0
    BY EmptySeq DEF Init
  <2> QED
    BY <2>1 DEF Init, TriesRecorded, FreshInOrder
<1>2. Inv2 /\ [Next]_vars => TriesRecorded' /\ FreshInOrder'
  BY FreshNext
<1> QED
  BY <1>1, <1>2, Invariance1, PTL DEF Spec, Inv2

(* Messages that failed are taken first, and the others in the order in     *)
(* which they arrived, whatever the threads do.                             *)
THEOREM FreshInOrderHolds == Spec => []FreshInOrder
BY Invariance2, PTL DEF Inv2
-----------------------------------------------------------------------------
(* Third layer: wakeups.                                                    *)

(* The sets of workers are finite.                                          *)
LEMMA LookingFinite ==
  IsFiniteSet(Looking) /\ Cardinality(Looking) \in Nat
<1>1. Looking \subseteq Workers
  BY DEF Looking
<1> QED
  BY <1>1, WorkersFinite, FS_Subset, FS_CardinalityType

(* The mutex and the queue: nobody adds to the queue while a worker holds   *)
(* the mutex on its way to the wait.                                        *)
LEMMA CommittedNext == Inv3 /\ [Next]_vars => CommittedSawEmpty'
<1> SUFFICES ASSUME Inv3, [Next]_vars PROVE CommittedSawEmpty'
  OBVIOUS
<1> USE DEF Inv3
<1>t. pc \in [Workers -> WorkerStates]
  BY DEF Inv2, Inv1, Placed, TypeOK
<1>1. CASE onKvDataEvent
  <2>1. MutexFree /\ NotifyOne(pc)
    BY <1>1 DEF onKvDataEvent
  <2>2. MutexFree'
    BY <1>t, <2>1 DEF MutexFree, NotifyOne, Asleep
  <2> QED
    BY <2>2 DEF CommittedSawEmpty
<1>2. ASSUME NEW w \in Workers, Look(w) \/ WakeUp(w) \/ PutBack(w)
      PROVE  CommittedSawEmpty'
  <2>1. MutexFree
    BY <1>2 DEF Look, WakeUp, PutBack
  <2>2. MutexFree'
    BY <1>2, <1>t, <2>1 DEF MutexFree, Look, WakeUp, PutBack, Decide, NotifyOne, Asleep
  <2> QED
    BY <2>2 DEF CommittedSawEmpty
<1>3. ASSUME NEW w \in Workers, Commit(w)
      PROVE  CommittedSawEmpty'
  BY <1>3 DEF Commit, CommittedSawEmpty
<1>4. ASSUME NEW w \in Workers,
             Wait(w) \/ SpuriousWakeup(w) \/ ProcessOk(w) \/ ProcessThrows(w)
      PROVE  CommittedSawEmpty'
  <2>1. queue' = queue /\ \A v \in Workers : pc'[v] = "committed" => pc[v] = "committed"
    BY <1>4, <1>t DEF Wait, SpuriousWakeup, ProcessOk, ProcessThrows
  <2> QED
    BY <2>1 DEF CommittedSawEmpty, MutexFree
<1>5. CASE startThreads
  BY <1>5 DEF startThreads, CommittedSawEmpty, MutexFree
<1>6. CASE DestructorClears
  BY <1>6 DEF DestructorClears, CommittedSawEmpty
<1>7. CASE SetStopping \/ NotifyAll \/ Joined \/ UNCHANGED vars
  <2>1. queue' = queue /\ \A v \in Workers : pc'[v] = "committed" => pc[v] = "committed"
    BY <1>7 DEF SetStopping, NotifyAll, Joined, vars
  <2> QED
    BY <2>1 DEF CommittedSawEmpty, MutexFree
<1> QED
  BY <1>1, <1>2, <1>3, <1>4, <1>5, <1>6, <1>7 DEF Next, Owner, Worker

(* After notify_all nobody goes to sleep but the workers it missed: the     *)
(* flag is up, so a worker that looks, exits.                               *)
LEMMA MissedNext == Inv3 /\ [Next]_vars => MissedCoversWaiting'
<1> SUFFICES ASSUME Inv3, [Next]_vars PROVE MissedCoversWaiting'
  OBVIOUS
<1> USE DEF Inv3
<1>t. pc \in [Workers -> WorkerStates]
  BY DEF Inv2, Inv1, Placed, TypeOK
<1>1. CASE onKvDataEvent
  <2>1. /\ UNCHANGED <<ctl, missed>>
        /\ \A v \in Workers : pc'[v] \in {"committed", "asleep"} => pc[v] = pc'[v]
    BY <1>1, <1>t DEF onKvDataEvent, NotifyOne, Asleep
  <2> QED
    BY <2>1 DEF MissedCoversWaiting
<1>2. ASSUME NEW w \in Workers, Worker(w) \/ SpuriousWakeup(w)
      PROVE  MissedCoversWaiting'
  <2>1. UNCHANGED <<ctl, missed>>
    BY <1>2 DEF Worker, Commit, Look, Wait, WakeUp, ProcessOk, ProcessThrows, PutBack,
                SpuriousWakeup
  <2>2. CASE Commit(w)
    BY <2>1, <2>2 DEF Commit, MissedCoversWaiting, Inv2, Inv1, FlagUp
  <2>3. CASE Wait(w)
    BY <1>t, <2>1, <2>3 DEF Wait, MissedCoversWaiting
  <2>4. CASE PutBack(w)
    <3>1. \A v \in Workers : pc'[v] \in {"committed", "asleep"} => pc[v] = pc'[v]
      BY <1>t, <2>4 DEF PutBack, NotifyOne, Asleep
    <3> QED
      BY <2>1, <3>1 DEF MissedCoversWaiting
  <2>5. CASE Look(w) \/ WakeUp(w) \/ ProcessOk(w) \/ ProcessThrows(w) \/ SpuriousWakeup(w)
    <3>1. \A v \in Workers : pc'[v] \in {"committed", "asleep"} => pc[v] = pc'[v]
      BY <1>t, <2>5 DEF Look, WakeUp, Decide, ProcessOk, ProcessThrows, SpuriousWakeup
    <3> QED
      BY <2>1, <3>1 DEF MissedCoversWaiting
  <2> QED
    BY <1>2, <2>2, <2>3, <2>4, <2>5 DEF Worker
<1>3. CASE NotifyAll
  BY <1>3 DEF NotifyAll, MissedCoversWaiting, Asleep
<1>4. CASE startThreads \/ DestructorClears \/ SetStopping \/ Joined
  <2>1. ctl' # "joining"
    BY <1>4 DEF startThreads, DestructorClears, SetStopping, Joined
  <2> QED
    BY <2>1 DEF MissedCoversWaiting
<1>5. CASE UNCHANGED vars
  BY <1>5 DEF vars, MissedCoversWaiting
<1> QED
  BY <1>1, <1>2, <1>3, <1>4, <1>5 DEF Next, Owner

(* A worker that takes the head leaves one message and one looker less, one *)
(* that finds nothing looks again.                                          *)
LEMMA Decide3 ==
  ASSUME Inv3, NEW w \in Workers, pc[w] \in {"top", "woken"}, Decide(w),
         threadsStopping' = threadsStopping
  PROVE  NoSleepOverWork'
<1> USE DEF Inv3
<1>t. pc \in [Workers -> WorkerStates] /\ queue \in Seq(Messages)
  BY DEF Inv2, Inv1, Placed, TypeOK
<1>1. CASE threadsStopping
  BY <1>1 DEF NoSleepOverWork
<1>2. CASE ~threadsStopping /\ queue = <<>>
  <2>1. Len(queue') = 0
    BY <1>2, EmptySeq DEF Decide
  <2>2. Cardinality(Looking') \in Nat
    <3>1. Looking' = Looking
      BY <1>t, <1>2 DEF Decide, Looking
    <3> QED
      BY <3>1, LookingFinite
  <2> QED
    BY <2>1, <2>2 DEF NoSleepOverWork
<1>3. CASE ~threadsStopping /\ queue # <<>>
  <2>1. pc' = [pc EXCEPT ![w] = "processing"] /\ queue' = Tail(queue)
    BY <1>3 DEF Decide
  <2>2. w \in Looking /\ Looking' = Looking \ {w} /\ Asleep' = Asleep
    BY <1>t, <2>1 DEF Looking, Asleep
  <2>3. Cardinality(Looking') = Cardinality(Looking) - 1
    BY <2>2, LookingFinite, FS_RemoveElement
  <2>4. Len(queue') = Len(queue) - 1 /\ Len(queue) \in Nat
    BY <1>t, <1>3, <2>1, HeadTailProperties, LenProperties
  <2> QED
    BY <1>3, <2>2, <2>3, <2>4, LookingFinite DEF NoSleepOverWork
<1> QED
  BY <1>1, <1>2, <1>3

(* One notification more, one looker more, if anybody sleeps.               *)
LEMMA NotifyOneLooks ==
  ASSUME pc \in [Workers -> WorkerStates],
         NotifyOne(pc), Asleep' # {}
  PROVE  Asleep # {} /\ Cardinality(Looking') = Cardinality(Looking) + 1
<1>1. PICK u \in Asleep : pc' = [pc EXCEPT ![u] = "woken"]
  BY DEF NotifyOne, Asleep
<1>2. u \notin Looking /\ Looking' = Looking \cup {u}
  BY <1>1 DEF Asleep, Looking
<1> QED
  BY <1>1, <1>2, LookingFinite, FS_AddElement

LEMMA SleepNext == Inv3 /\ [Next]_vars => NoSleepOverWork'
<1> SUFFICES ASSUME Inv3, [Next]_vars PROVE NoSleepOverWork'
  OBVIOUS
<1> USE DEF Inv3
<1>t. pc \in [Workers -> WorkerStates] /\ queue \in Seq(Messages) /\ Len(queue) \in Nat
  BY LenProperties DEF Inv2, Inv1, Placed, TypeOK
<1>1. CASE onKvDataEvent
  <2>1. NotifyOne(pc) /\ threadsStopping' = threadsStopping /\ queue' = Append(queue, received + 1)
    BY <1>1 DEF onKvDataEvent
  <2>2. received + 1 \in Messages
    BY <1>1, BoundsNat DEF onKvDataEvent, Inv2, Inv1, Placed, TypeOK, Messages
  <2>3. Len(queue') = Len(queue) + 1
    BY <1>t, <2>1, <2>2, AppendProperties
  <2> QED
    BY <1>t, <2>1, <2>3, NotifyOneLooks, LookingFinite DEF NoSleepOverWork
<1>2. ASSUME NEW w \in Workers, Commit(w) \/ Wait(w) PROVE NoSleepOverWork'
  <2>1. queue' = queue /\ queue = <<>>
    BY <1>2 DEF Commit, Wait, CommittedSawEmpty, MutexFree
  <2>2. Len(queue') = 0
    BY <2>1, EmptySeq
  <2>3. Cardinality(Looking') \in Nat
    <3>1. Looking' = Looking \/ Looking' = Looking \ {w}
      BY <1>2, <1>t DEF Commit, Wait, Looking
    <3> QED
      BY <3>1, LookingFinite, FS_RemoveElement, FS_CardinalityType
  <2> QED
    BY <2>2, <2>3 DEF NoSleepOverWork
<1>3. ASSUME NEW w \in Workers, Look(w) \/ WakeUp(w) PROVE NoSleepOverWork'
  BY <1>3, Decide3 DEF Look, WakeUp
<1>4. ASSUME NEW w \in Workers, SpuriousWakeup(w) \/ ProcessOk(w) PROVE NoSleepOverWork'
  <2>1. /\ queue' = queue /\ threadsStopping' = threadsStopping
        /\ w \notin Looking /\ Looking' = Looking \cup {w} /\ Asleep' \subseteq Asleep
    BY <1>4, <1>t DEF SpuriousWakeup, ProcessOk, Looking, Asleep
  <2>2. Cardinality(Looking') = Cardinality(Looking) + 1
    BY <2>1, LookingFinite, FS_AddElement
  <2> QED
    BY <1>t, <2>1, <2>2, LookingFinite DEF NoSleepOverWork
<1>5. ASSUME NEW w \in Workers, ProcessThrows(w) PROVE NoSleepOverWork'
  <2>1. /\ queue' = queue /\ threadsStopping' = threadsStopping
        /\ Looking' = Looking /\ Asleep' = Asleep
    BY <1>5, <1>t DEF ProcessThrows, Looking, Asleep
  <2> QED
    BY <2>1 DEF NoSleepOverWork
<1>6. ASSUME NEW w \in Workers, PutBack(w) PROVE NoSleepOverWork'
  <2> SUFFICES ASSUME Asleep' # {}, ~threadsStopping'
               PROVE  Len(queue') <= Cardinality(Looking')
    BY DEF NoSleepOverWork
  <2>1. pc[w] = "failed" /\ threadsStopping' = threadsStopping /\ queue' = <<data[w]>> \o queue
        /\ NotifyOne([pc EXCEPT ![w] = "top"])
    BY <1>6 DEF PutBack
  <2>2. data[w] \in Messages
    BY <2>1, HeldArrived DEF Busy, Inv2
  <2>3. Len(queue') = Len(queue) + 1
    BY <1>t, <2>1, <2>2, ConcatProperties, LenProperties
  <2>4. PICK u \in Asleep : pc' = [pc EXCEPT ![w] = "top", ![u] = "woken"]
    BY <1>t, <2>1 DEF NotifyOne, Asleep
  <2>5. /\ u # w /\ u \notin Looking \cup {w} /\ w \notin Looking
        /\ Looking' = (Looking \cup {w}) \cup {u}
    BY <1>t, <2>1, <2>4 DEF Asleep, Looking
  <2>6. /\ IsFiniteSet(Looking \cup {w})
        /\ Cardinality(Looking \cup {w}) = Cardinality(Looking) + 1
    BY <2>5, LookingFinite, FS_AddElement
  <2>7. Cardinality(Looking') = Cardinality(Looking \cup {w}) + 1
    BY <2>5, <2>6, FS_AddElement
  <2>8. Len(queue) <= Cardinality(Looking)
    BY <2>1, <2>4 DEF NoSleepOverWork
  <2> QED
    BY <1>t, <2>3, <2>6, <2>7, <2>8, LookingFinite
<1>7. CASE startThreads
  <2>1. Asleep' = {}
    BY <1>7 DEF startThreads, Asleep
  <2> QED
    BY <2>1 DEF NoSleepOverWork
<1>8. CASE DestructorClears
  <2>1. Len(queue') = 0 /\ Looking' = Looking
    BY <1>8, EmptySeq DEF DestructorClears, Looking
  <2> QED
    BY <2>1, LookingFinite DEF NoSleepOverWork
<1>9. CASE SetStopping \/ NotifyAll
  <2>1. threadsStopping'
    BY <1>9 DEF SetStopping, NotifyAll, Inv2, Inv1, FlagUp
  <2> QED
    BY <2>1 DEF NoSleepOverWork
<1>10. CASE Joined \/ UNCHANGED vars
  <2>1. UNCHANGED <<queue, pc, threadsStopping>>
    BY <1>10 DEF Joined, vars
  <2> QED
    BY <2>1 DEF NoSleepOverWork, Looking, Asleep
<1> QED
  BY <1>1, <1>2, <1>3, <1>4, <1>5, <1>6, <1>7, <1>8, <1>9, <1>10 DEF Next, Owner, Worker

LEMMA Invariance3 == Spec => []Inv3
<1>1. Init => CommittedSawEmpty /\ MissedCoversWaiting /\ NoSleepOverWork
  BY DEF Init, CommittedSawEmpty, MissedCoversWaiting, NoSleepOverWork, Asleep
<1>2. Inv3 /\ [Next]_vars => CommittedSawEmpty' /\ MissedCoversWaiting' /\ NoSleepOverWork'
  BY CommittedNext, MissedNext, SleepNext
<1> QED
  BY <1>1, <1>2, Invariance2, PTL DEF Spec, Inv3

(* One notify_one per message keeps the pool busy: while a worker sleeps,   *)
(* every queued message has a worker of its own on its way, for any number  *)
(* of workers and messages.                                                 *)
THEOREM NoSleepOverWorkHolds == Spec => []NoSleepOverWork
BY Invariance3, PTL DEF Inv3

(* Only a worker caught between its test and its wait when notify_all ran   *)
(* can sleep through stopThreads.                                           *)
THEOREM OnlyMissedSleepHolds == Spec => []OnlyMissedSleep
<1>1. Inv3 => OnlyMissedSleep
  BY DEF Inv3, MissedCoversWaiting, OnlyMissedSleep, Asleep
<1> QED
  BY <1>1, Invariance3, PTL
=============================================================================
