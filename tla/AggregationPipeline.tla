------------------------- MODULE AggregationPipeline -------------------------
(***************************************************************************)
(* The way of an observation through the program: from kvalobs into the    *)
(* queue of IncomingHandler, by one of its threads into the proxy          *)
(* (KvalobsProxy::cacheData), through AggregatorHandler::newData, process  *)
(* and save, and the aggregate back to kvalobs (KvalobsProxy::sendData).   *)
(*                                                                         *)
(* Modelled is one aggregate that is made from whatever observations there *)
(* are (as rr_1 is), all later than oldestInProxy, so that they are read   *)
(* from the proxy database.  The value of an observation is its version,   *)
(* that of the aggregate is what it was computed from: the version of each *)
(* observation.  How the threads wait for messages is                     *)
(* the subject of IncomingHandler, the choice of the store to read from    *)
(* that of KvalobsProxy.                                                   *)
(***************************************************************************)
EXTENDS Integers, Sequences, FiniteSets

CONSTANTS
  Workers,       \* handler threads there may be
  PoolSizes,     \* the choices of noOfThreads
  NoWorker,      \* says that sendDataMutex_ is free
  Obs,           \* the observations the aggregate is made from
  MaxVersion,    \* bound: versions of an observation
  MaxEvents,     \* bound: messages from kvalobs about observations
  Echoes,        \* whether kvalobs sends us our own aggregates, a set of BOOLEANs
  MaxFailures    \* bound: times kvalobs refuses an aggregate

ASSUME PipelineAssumption ==
  /\ IsFiniteSet(Obs) /\ IsFiniteSet(Workers) /\ NoWorker \notin Workers
  /\ MaxVersion \in Nat /\ MaxEvents \in Nat /\ MaxFailures \in Nat
  /\ Echoes \subseteq BOOLEAN /\ PoolSizes \subseteq Nat

VARIABLES
  pool, echo, \* the threads there are, and what kvalobs does: never change
  kvObs,      \* the version of each observation in kvalobs
  kvAgg,      \* the aggregate in kvalobs
  cacheObs,   \* the version of each observation in the proxy database
  cacheAgg,   \* the aggregate in the proxy database
  queue,      \* IncomingHandler::queue
  pc, hand,   \* where each worker is, the message it has
  computed,   \* the aggregate it has made: toSave in newData
  sendData,   \* the holder of sendDataMutex_, if any
  events, failures

kvVars    == <<kvObs, kvAgg>>
cacheVars == <<cacheObs, cacheAgg>>
fixed     == <<pool, echo>>
vars == <<fixed, kvVars, cacheVars, queue, pc, hand, computed, sendData, events, failures>>

Values == [Obs -> 0..MaxVersion]
Nothing == [o \in Obs |-> 0]       \* no observation, or no aggregate

(* Messages: a version of an observation, or an aggregate.                  *)
ObsMessage(o, v) == [kind |-> "obs", obs |-> o, version |-> v]
AggMessage(a)    == [kind |-> "agg", value |-> a]
Messages == [kind : {"obs"}, obs : Obs, version : 1..MaxVersion]
            \cup [kind : {"agg"}, value : Values]
NoMessage == [kind |-> "none"]

WorkerStates == {"idle", "taken", "cached", "computed", "locked", "refused", "sent"}

Init ==
  /\ pool \in {p \in SUBSET Workers : Cardinality(p) \in PoolSizes}
  /\ echo \in Echoes
  /\ kvObs = Nothing /\ kvAgg = Nothing
  /\ cacheObs = Nothing /\ cacheAgg = Nothing
  /\ queue = <<>>
  /\ pc = [w \in Workers |-> "idle"]
  /\ hand = [w \in Workers |-> NoMessage]
  /\ computed = [w \in Workers |-> Nothing]
  /\ sendData = NoWorker
  /\ events = 0 /\ failures = 0

GoTo(w, s) == pc' = [pc EXCEPT ![w] = s]

(* kvalobs gets an observation, or corrects one, which may also take an     *)
(* earlier correction back, or sends out one that has not changed: a new    *)
(* message for us.                                                          *)
Arrive(o, v) ==
  /\ events < MaxEvents
  /\ events' = events + 1
  /\ kvObs' = [kvObs EXCEPT ![o] = v]
  /\ queue' = Append(queue, ObsMessage(o, v))
  /\ UNCHANGED <<fixed, kvAgg, cacheVars, pc, hand, computed, sendData, failures>>

Take(w) ==
  /\ w \in pool
  /\ pc[w] = "idle" /\ queue # <<>>
  /\ hand' = [hand EXCEPT ![w] = Head(queue)]
  /\ queue' = Tail(queue)
  /\ GoTo(w, "taken")
  /\ UNCHANGED <<fixed, kvVars, cacheVars, computed, sendData, events, failures>>

(* IncomingHandler::process, first part: dataAccess.cacheData.  Nobody      *)
(* aggregates the aggregate further here, so its message ends with that.    *)
CacheData(w) ==
  /\ pc[w] = "taken"
  /\ \/ /\ hand[w].kind = "obs"
        /\ cacheObs' = [cacheObs EXCEPT ![hand[w].obs] = hand[w].version]
        /\ GoTo(w, "cached")
        /\ UNCHANGED <<cacheAgg, hand>>
     \/ /\ hand[w].kind = "agg"
        /\ cacheAgg' = hand[w].value
        /\ GoTo(w, "idle")
        /\ hand' = [hand EXCEPT ![w] = NoMessage]
        /\ UNCHANGED cacheObs
  /\ UNCHANGED <<fixed, kvVars, queue, computed, sendData, events, failures>>

(* Second part, AggregatorHandler::process: getRelevantObsList reads every  *)
(* observation from the proxy, the trigger among them, whose data is not    *)
(* put into the list when a row for it is there already.                    *)
Process(w) ==
  /\ pc[w] = "cached"
  /\ computed' = [computed EXCEPT ![w] = cacheObs]
  /\ GoTo(w, "computed")
  /\ UNCHANGED <<fixed, kvVars, cacheVars, queue, hand, sendData, events, failures>>

(* updatesKvalobs_: the proxy has nothing, or something else.               *)
Updates(w) == cacheAgg # computed[w]

(* Mutant: sendDataMutex_ is kept.                                          *)
FinishLocked(w) ==
  /\ GoTo(w, "idle")
  /\ hand' = [hand EXCEPT ![w] = NoMessage]
  /\ computed' = [computed EXCEPT ![w] = Nothing]
  /\ sendData' = w

Finish(w) ==
  /\ GoTo(w, "idle")
  /\ hand' = [hand EXCEPT ![w] = NoMessage]
  /\ computed' = [computed EXCEPT ![w] = Nothing]
  /\ sendData' = NoWorker

(* AggregatorHandler::save calls KvalobsProxy::sendData, which takes the    *)
(* mutex and looks whether there is anything to send.                       *)
NothingNew(w) ==
  /\ pc[w] = "computed" /\ sendData = NoWorker
  /\ ~Updates(w)
  /\ Finish(w)
  /\ UNCHANGED <<fixed, kvVars, cacheVars, queue, events, failures>>

(* Mutant: without the mutex.                                               *)
LockSendNot(w) ==
  /\ pc[w] = "computed"
  /\ Updates(w)
  /\ sendData' = w
  /\ GoTo(w, "locked")
  /\ UNCHANGED <<fixed, kvVars, cacheVars, queue, hand, computed, events, failures>>

LockSend(w) ==
  /\ pc[w] = "computed" /\ sendData = NoWorker
  /\ Updates(w)
  /\ sendData' = w
  /\ GoTo(w, "locked")
  /\ UNCHANGED <<fixed, kvVars, cacheVars, queue, hand, computed, events, failures>>

(* kvalobs_.sendData(l): kvalobs stores the aggregate ...                   *)
SendOk(w) ==
  /\ pc[w] = "locked"
  /\ kvAgg' = computed[w]
  /\ queue' = IF echo THEN Append(queue, AggMessage(computed[w])) ELSE queue
  /\ GoTo(w, "sent")
  /\ UNCHANGED <<fixed, kvObs, cacheVars, hand, computed, sendData, events, failures>>

(* Mutant: what was sent is not cached.                                     *)
CacheSentNot(w) ==
  /\ pc[w] = "sent"
  /\ Finish(w)
  /\ UNCHANGED <<fixed, kvVars, cacheVars, queue, events, failures>>

(* ... which is cached ...                                                  *)
CacheSent(w) ==
  /\ pc[w] = "sent"
  /\ cacheAgg' = computed[w]
  /\ Finish(w)
  /\ UNCHANGED <<fixed, kvVars, cacheObs, queue, events, failures>>

(* Mutant: the aggregate is cached although kvalobs refused it.             *)
SendRefusedCached(w) ==
  /\ pc[w] = "locked"
  /\ failures < MaxFailures
  /\ failures' = failures + 1
  /\ cacheAgg' = computed[w]
  /\ sendData' = NoWorker
  /\ computed' = [computed EXCEPT ![w] = Nothing]
  /\ GoTo(w, "refused")
  /\ UNCHANGED <<fixed, kvVars, cacheObs, queue, hand, events>>

(* ... or refuses it, and save throws.                                      *)
SendRefused(w) ==
  /\ pc[w] = "locked"
  /\ failures < MaxFailures
  /\ failures' = failures + 1
  /\ sendData' = NoWorker
  /\ computed' = [computed EXCEPT ![w] = Nothing]
  /\ GoTo(w, "refused")
  /\ UNCHANGED <<fixed, kvVars, cacheVars, queue, hand, events>>

(* Mutant: the message is reset before it is put back.                      *)
PutBackNull(w) ==
  /\ pc[w] = "refused"
  /\ queue' = <<NoMessage>> \o queue
  /\ hand' = [hand EXCEPT ![w] = NoMessage]
  /\ GoTo(w, "idle")
  /\ UNCHANGED <<fixed, kvVars, cacheVars, computed, sendData, events, failures>>

(* IncomingHandler puts the message back in front of the queue.             *)
PutBack(w) ==
  /\ pc[w] = "refused"
  /\ queue' = <<hand[w]>> \o queue
  /\ hand' = [hand EXCEPT ![w] = NoMessage]
  /\ GoTo(w, "idle")
  /\ UNCHANGED <<fixed, kvVars, cacheVars, computed, sendData, events, failures>>

Worker(w) ==
  \/ Take(w) \/ CacheData(w) \/ Process(w) \/ LockSend(w) \/ NothingNew(w)
  \/ SendOk(w) \/ CacheSent(w) \/ SendRefused(w) \/ PutBack(w)

Next ==
  \/ \E o \in Obs, v \in 1..MaxVersion : Arrive(o, v)
  \/ \E w \in Workers : Worker(w)

Spec == Init /\ [][Next]_vars

(* Every thread that can go on does; sendDataMutex_ is given up after a     *)
(* bounded number of steps, and taken a bounded number of times.            *)
FairSpec == Spec /\ \A w \in Workers : WF_vars(Worker(w))
-----------------------------------------------------------------------------
TypeOK ==
  /\ pool \subseteq Workers /\ echo \in BOOLEAN
  /\ kvObs \in Values /\ kvAgg \in Values
  /\ cacheObs \in Values /\ cacheAgg \in Values
  /\ queue \in Seq(Messages)
  /\ pc \in [Workers -> WorkerStates]
  /\ hand \in [Workers -> Messages \cup {NoMessage}]
  /\ computed \in [Workers -> Values]
  /\ sendData \in Workers \cup {NoWorker}
  /\ events \in 0..MaxEvents
  /\ failures \in 0..MaxFailures

Quiet == queue = <<>> /\ \A w \in Workers : pc[w] = "idle"

(* When every message has been worked off, the aggregate in kvalobs is the  *)
(* one of the observations in kvalobs: no correction is without effect and  *)
(* no observation is left out.                                              *)
AggregateFollows == Quiet => kvAgg = kvObs

(* So it is with one thread and no echoes, through failures and retries and *)
(* corrections that are taken back.                                         *)
AggregateFollowsOneThread == (Cardinality(pool) = 1 /\ ~echo) => AggregateFollows

(* When one thread has worked off every message, the proxy has what kvalobs *)
(* has, however the echoes of the aggregates came between.                  *)
ProxyFollows ==
  (Cardinality(pool) = 1 /\ Quiet) => (cacheObs = kvObs /\ cacheAgg = kvAgg)

(* However many threads there are, kvalobs is never sent the aggregate it   *)
(* has when only we write it: of two threads that compute the same one only *)
(* one sends it.                                                            *)
NeverSentAgain ==
  [][\A w \in Workers :
       (~echo /\ pc[w] = "locked" /\ pc'[w] = "sent") => kvAgg # computed[w]]_vars

(* All messages are worked off at last, refusals and retries included.      *)
GetsQuiet == <>[]Quiet
=============================================================================
