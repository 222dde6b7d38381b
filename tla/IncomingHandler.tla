--------------------------- MODULE IncomingHandler ---------------------------
(***************************************************************************)
(* src/proxy/IncomingHandler.{h,cc}: the queue of messages from kvalobs    *)
(* and the pool of threads that processes them.                            *)
(*                                                                         *)
(* Everything done under IncomingHandler::mutex is one action, with one    *)
(* exception: stopThreads() sets threadsStopping and notifies without the  *)
(* mutex, so a worker that has tested the flag and not yet begun to wait   *)
(* ("committed", still holding the mutex) is a state of its own.  Two      *)
(* messages are never compared, only told apart: message m is the m'th     *)
(* that onKvDataEvent received.                                            *)
(***************************************************************************)
EXTENDS Integers, Sequences, FiniteSets, Functions

CONSTANTS
  Workers,       \* the handler threads, noOfThreads of them
  MaxMessages,   \* bound: messages received
  MaxTries,      \* bound: how often processing one message may throw
  MaxStarts      \* bound: calls of startThreads

ASSUME WorkersFinite == IsFiniteSet(Workers)
ASSUME BoundsNat == MaxMessages \in Nat /\ MaxTries \in Nat /\ MaxStarts \in Nat

VARIABLES
  queue,             \* IncomingHandler::queue
  threadsStopping,   \* IncomingHandler::threadsStopping
  pc,                \* where each worker is; "exited" also before it is created
  data,              \* the message each worker holds, 0 for a null pointer
  received,          \* how many messages onKvDataEvent has received
  tries,             \* how often processing each message has thrown
  done,              \* the messages processed without an exception
  cleared,           \* the messages thrown away by the destructor
  ctl,               \* what the owner of the handler is doing
  dying,             \* the destructor has been entered
  starts,            \* calls of startThreads so far
  missed             \* history: workers committed to a wait when notify_all ran

vars == <<queue, threadsStopping, pc, data, received, tries, done, cleared, ctl, dying, starts, missed>>

Messages == 1..MaxMessages
WorkerStates == {"exited", "top", "committed", "asleep", "woken", "processing", "failed"}
OwnerStates == {"idle", "clearing", "flagged", "joining", "destroyed"}

Asleep  == {w \in Workers : pc[w] = "asleep"}
(* Workers that will look at the queue again without being notified.        *)
Looking == {w \in Workers : pc[w] \in {"top", "woken"}}
Busy    == {w \in Workers : pc[w] \in {"processing", "failed"}}
Queued  == Range(queue)
Held    == {data[w] : w \in Busy}

(* `mutex` is free: every other critical section is a single action.        *)
MutexFree == \A w \in Workers : pc[w] # "committed"

Init ==
  /\ queue = <<>>
  /\ threadsStopping = TRUE
  /\ pc = [w \in Workers |-> "exited"]
  /\ data = [w \in Workers |-> 0]
  /\ received = 0
  /\ tries = [m \in Messages |-> 0]
  /\ done = {}
  /\ cleared = {}
  /\ ctl = "idle"
  /\ dying = FALSE
  /\ starts = 0
  /\ missed = {}

(* condition.notify_one() applied to the program counters in p: some        *)
(* sleeping worker is woken, and nothing happens when none sleeps.          *)
NotifyOne(p) ==
  \/ Asleep = {} /\ pc' = p
  \/ \E u \in Asleep : pc' = [p EXCEPT ![u] = "woken"]

(* Mutant: a thread is notified only when the queue was empty.              *)
onKvDataEventOnlyFirst ==
  /\ ctl # "destroyed"
  /\ MutexFree
  /\ received < MaxMessages
  /\ received' = received + 1
  /\ queue' = Append(queue, received + 1)
  /\ IF queue = <<>> THEN NotifyOne(pc) ELSE UNCHANGED pc
  /\ UNCHANGED <<threadsStopping, data, tries, done, cleared, ctl, dying, starts, missed>>

(***************************************************************************)
(* The thread that receives data.                                          *)
(***************************************************************************)
onKvDataEvent ==
  /\ ctl # "destroyed"
  /\ MutexFree
  /\ received < MaxMessages
  /\ received' = received + 1
  /\ queue' = Append(queue, received + 1)
  /\ NotifyOne(pc)
  /\ UNCHANGED <<threadsStopping, data, tries, done, cleared, ctl, dying, starts, missed>>

(***************************************************************************)
(* The workers: HandlerThread::operator().                                 *)
(***************************************************************************)
(* Mutant: the message is not taken off the queue.                          *)
DecideKeeps(w) ==
  \/ /\ threadsStopping
     /\ pc' = [pc EXCEPT ![w] = "exited"]
     /\ UNCHANGED <<queue, data>>
  \/ /\ ~threadsStopping
     /\ queue = <<>>
     /\ pc' = [pc EXCEPT ![w] = "top"]
     /\ UNCHANGED <<queue, data>>
  \/ /\ ~threadsStopping
     /\ queue # <<>>
     /\ pc' = [pc EXCEPT ![w] = "processing"]
     /\ data' = [data EXCEPT ![w] = Head(queue)]
     /\ UNCHANGED queue

(* From the test of isStopping() after the wait to the end of the critical  *)
(* section.                                                                 *)
Decide(w) ==
  \/ /\ threadsStopping
     /\ pc' = [pc EXCEPT ![w] = "exited"]
     /\ UNCHANGED <<queue, data>>
  \/ /\ ~threadsStopping
     /\ queue = <<>>
     /\ pc' = [pc EXCEPT ![w] = "top"]
     /\ UNCHANGED <<queue, data>>
  \/ /\ ~threadsStopping
     /\ queue # <<>>
     /\ pc' = [pc EXCEPT ![w] = "processing"]
     /\ data' = [data EXCEPT ![w] = Head(queue)]
     /\ queue' = Tail(queue)

(* At the top of the loop: nothing to do and not stopping means waiting.    *)
Commit(w) ==
  /\ pc[w] = "top"
  /\ MutexFree
  /\ ~threadsStopping /\ queue = <<>>
  /\ pc' = [pc EXCEPT ![w] = "committed"]
  /\ UNCHANGED <<queue, threadsStopping, data, received, tries, done, cleared, ctl, dying, starts, missed>>

Look(w) ==
  /\ pc[w] = "top"
  /\ MutexFree
  /\ threadsStopping \/ queue # <<>>
  /\ Decide(w)
  /\ UNCHANGED <<threadsStopping, received, tries, done, cleared, ctl, dying, starts, missed>>

(* condition.wait(): registers the waiter and releases the mutex in one.    *)
Wait(w) ==
  /\ pc[w] = "committed"
  /\ pc' = [pc EXCEPT ![w] = "asleep"]
  /\ UNCHANGED <<queue, threadsStopping, data, received, tries, done, cleared, ctl, dying, starts, missed>>

(* The wait is not in a loop: after it the worker decides at once.          *)
WakeUp(w) ==
  /\ pc[w] = "woken"
  /\ MutexFree
  /\ Decide(w)
  /\ UNCHANGED <<threadsStopping, received, tries, done, cleared, ctl, dying, starts, missed>>

SpuriousWakeup(w) ==
  /\ pc[w] = "asleep"
  /\ pc' = [pc EXCEPT ![w] = "woken"]
  /\ UNCHANGED <<queue, threadsStopping, data, received, tries, done, cleared, ctl, dying, starts, missed>>

(* process(data) returns ...                                                *)
ProcessOk(w) ==
  /\ pc[w] = "processing"
  /\ done' = done \cup {data[w]}
  /\ pc' = [pc EXCEPT ![w] = "top"]
  /\ data' = [data EXCEPT ![w] = 0]
  /\ UNCHANGED <<queue, threadsStopping, received, tries, cleared, ctl, dying, starts, missed>>

(* ... or throws a std::exception, from one of the callbacks.               *)
ProcessThrows(w) ==
  /\ pc[w] = "processing"
  /\ tries[data[w]] < MaxTries
  /\ tries' = [tries EXCEPT ![data[w]] = @ + 1]
  /\ pc' = [pc EXCEPT ![w] = "failed"]
  /\ UNCHANGED <<queue, threadsStopping, data, received, done, cleared, ctl, dying, starts, missed>>

(* Mutant: the message goes to the end of the queue.                        *)
PutBackLast(w) ==
  /\ pc[w] = "failed"
  /\ MutexFree
  /\ queue' = Append(queue, data[w])
  /\ data' = [data EXCEPT ![w] = 0]
  /\ NotifyOne([pc EXCEPT ![w] = "top"])
  /\ UNCHANGED <<threadsStopping, received, tries, done, cleared, ctl, dying, starts, missed>>

(* Mutant: the message is reset before it is put back.                      *)
PutBackNull(w) ==
  /\ pc[w] = "failed"
  /\ MutexFree
  /\ queue' = <<0>> \o queue
  /\ data' = [data EXCEPT ![w] = 0]
  /\ NotifyOne([pc EXCEPT ![w] = "top"])
  /\ UNCHANGED <<threadsStopping, received, tries, done, cleared, ctl, dying, starts, missed>>

(* Mutant: a message that failed is given up.                               *)
PutBackNot(w) ==
  /\ pc[w] = "failed"
  /\ data' = [data EXCEPT ![w] = 0]
  /\ pc' = [pc EXCEPT ![w] = "top"]
  /\ UNCHANGED <<queue, threadsStopping, received, tries, done, cleared, ctl, dying, starts, missed>>

(* The catch block: the message goes back to the front of the queue.        *)
PutBack(w) ==
  /\ pc[w] = "failed"
  /\ MutexFree
  /\ queue' = <<data[w]>> \o queue
  /\ data' = [data EXCEPT ![w] = 0]
  /\ NotifyOne([pc EXCEPT ![w] = "top"])
  /\ UNCHANGED <<threadsStopping, received, tries, done, cleared, ctl, dying, starts, missed>>

(***************************************************************************)
(* The owner: startThreads(), stopThreads() and the destructor.  It calls  *)
(* them one after the other.                                               *)
(***************************************************************************)
startThreads ==
  /\ ctl = "idle" /\ starts < MaxStarts
  /\ threadsStopping            \* otherwise it throws ThreadRestart
  /\ threadsStopping' = FALSE
  /\ pc' = [w \in Workers |-> "top"]
  /\ starts' = starts + 1
  /\ UNCHANGED <<queue, data, received, tries, done, cleared, ctl, dying, missed>>

(* ~IncomingHandler first empties the queue, then stops the threads.        *)
DestructorClears ==
  /\ ctl = "idle"
  /\ MutexFree
  /\ cleared' = cleared \cup Queued
  /\ queue' = <<>>
  /\ dying' = TRUE
  /\ ctl' = "clearing"
  /\ UNCHANGED <<threadsStopping, pc, data, received, tries, done, starts, missed>>

(* stopThreads: the flag, without the mutex ...                             *)
SetStopping ==
  /\ ctl = "clearing" \/ (ctl = "idle" /\ ~threadsStopping)
  /\ threadsStopping' = TRUE
  /\ ctl' = "flagged"
  /\ missed' = {}
  /\ UNCHANGED <<queue, pc, data, received, tries, done, cleared, dying, starts>>

(* Mutant: notify_one.                                                      *)
NotifyAllOne ==
  /\ ctl = "flagged"
  /\ NotifyOne(pc)
  /\ missed' = {w \in Workers : pc[w] = "committed"}
  /\ ctl' = "joining"
  /\ UNCHANGED <<queue, threadsStopping, data, received, tries, done, cleared, dying, starts>>

(* ... then notify_all, without the mutex either ...                        *)
NotifyAll ==
  /\ ctl = "flagged"
  /\ pc' = [w \in Workers |-> IF w \in Asleep THEN "woken" ELSE pc[w]]
  /\ missed' = {w \in Workers : pc[w] = "committed"}
  /\ ctl' = "joining"
  /\ UNCHANGED <<queue, threadsStopping, data, received, tries, done, cleared, dying, starts>>

(* Mutant: only one thread is joined.                                       *)
JoinedOne ==
  /\ ctl = "joining"
  /\ \E w \in Workers : pc[w] = "exited"
  /\ ctl' = IF dying THEN "destroyed" ELSE "idle"
  /\ UNCHANGED <<queue, threadsStopping, pc, data, received, tries, done, cleared, dying, starts, missed>>

(* ... then every thread is joined.                                         *)
Joined ==
  /\ ctl = "joining"
  /\ \A w \in Workers : pc[w] = "exited"
  /\ ctl' = IF dying THEN "destroyed" ELSE "idle"
  /\ UNCHANGED <<queue, threadsStopping, pc, data, received, tries, done, cleared, dying, starts, missed>>
-----------------------------------------------------------------------------
Worker(w) ==
  \/ Commit(w) \/ Look(w) \/ Wait(w) \/ WakeUp(w)
  \/ ProcessOk(w) \/ ProcessThrows(w) \/ PutBack(w)

Owner == startThreads \/ DestructorClears \/ SetStopping \/ NotifyAll \/ Joined

Next ==
  \/ onKvDataEvent
  \/ Owner
  \/ \E w \in Workers : Worker(w) \/ SpuriousWakeup(w)

Spec == Init /\ [][Next]_vars

(* Every thread that can take a step is scheduled, and stopThreads goes on  *)
(* once called.  Data need not arrive and nobody needs to stop the handler. *)
(* Spurious wakeups end at last: for ever repeated they could hold the      *)
(* mutex each time another worker is about to take it.                      *)
FairSpec ==
  /\ Spec
  /\ \A w \in Workers : WF_vars(Worker(w))
  /\ WF_vars(ctl # "idle" /\ Owner)
  /\ <>[][~\E w \in Workers : SpuriousWakeup(w)]_vars
-----------------------------------------------------------------------------
TypeOK ==
  /\ queue \in Seq(Messages)
  /\ threadsStopping \in BOOLEAN
  /\ pc \in [Workers -> WorkerStates]
  /\ data \in [Workers -> 0..MaxMessages]
  /\ received \in 0..MaxMessages
  /\ tries \in [Messages -> 0..MaxTries]
  /\ done \subseteq Messages
  /\ cleared \subseteq Messages
  /\ ctl \in OwnerStates
  /\ dying \in BOOLEAN
  /\ starts \in 0..MaxStarts
  /\ missed \subseteq Workers

(* No message is lost and none is processed twice at a time or again after  *)
(* it succeeded: each one received is queued once, or held by one worker,   *)
(* or done, or thrown away by the destructor -- through failures, stops and *)
(* restarts of the pool.                                                    *)
EachMessageInOnePlace ==
  /\ Queued \cup Held \cup done \cup cleared = 1..received
  /\ IsInjective(queue)
  /\ \A v, w \in Busy : data[v] = data[w] => v = w
  /\ Queued \cap Held = {}
  /\ done \cap (Queued \cup Held \cup cleared) = {}
  /\ cleared \cap (Queued \cup Held) = {}

(* The pool never idles over work: while a worker sleeps, every queued      *)
(* message has a worker of its own already on its way to the queue.  One    *)
(* notify_one per message is enough, although a busy worker may take the    *)
(* message first and the woken one finds the queue empty.                   *)
NoSleepOverWork ==
  Asleep # {} /\ ~threadsStopping => Len(queue) <= Cardinality(Looking)

(* A message that failed stands before all that were never tried, and those *)
(* are in the order of arrival: a failure delays later messages, it never   *)
(* lets them be taken out of turn.                                          *)
FreshInOrder ==
  \A i, j \in 1..Len(queue) :
    (i < j /\ tries[queue[i]] = 0) => (tries[queue[j]] = 0 /\ queue[i] < queue[j])

(* No thread is left when stopThreads has returned: ~IncomingHandler may    *)
(* free what the threads use.                                               *)
NobodyAfterStop ==
  ctl \in {"idle", "destroyed"} /\ threadsStopping => \A w \in Workers : pc[w] = "exited"

(* Only workers that notify_all came too early for can sleep through a stop.*)
OnlyMissedSleep == ctl = "joining" => Asleep \subseteq missed

(* Every message received is processed, if each fails only finitely often   *)
(* and the pool is started and not stopped.                                 *)
EveryMessageProcessed ==
  \A m \in Messages :
    (m <= received /\ ~threadsStopping) ~> (m \in done \/ threadsStopping)

(* stopThreads returns, unless notify_all fell between the test of          *)
(* isStopping() and the wait of some worker.                                *)
StopReturnsUnlessMissed ==
  (ctl = "joining" /\ missed = {}) ~> (ctl \in {"idle", "destroyed"})
=============================================================================
