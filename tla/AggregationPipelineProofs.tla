---------------------- MODULE AggregationPipelineProofs ----------------------
(***************************************************************************)
(* Proofs about AggregationPipeline, for any observations, versions,       *)
(* messages, failures and threads.                                         *)
(***************************************************************************)
EXTENDS AggregationPipeline, FiniteSetTheorems, TLAPS

-----------------------------------------------------------------------------
(* What a queue says of the messages of a set S: there is none, or m is    *)
(* the last of them.                                                       *)

Without(q, S) == \A i \in 1..Len(q) : q[i] \notin S

LastIs(q, S, m) ==
  \E i \in 1..Len(q) : q[i] = m /\ \A j \in 1..Len(q) : i < j => q[j] \notin S

(* A message of the set is put at the end: it is the last one.             *)
LEMMA AppendLast ==
  ASSUME NEW M, NEW q \in Seq(M), NEW S, NEW x \in M
  PROVE  LastIs(Append(q, x), S, x)
<1>1. Len(Append(q, x)) = Len(q) + 1 /\ Append(q, x)[Len(q) + 1] = x /\ Len(q) \in Nat
  OBVIOUS
<1> QED
  BY <1>1 DEF LastIs

(* Another one is put at the end: all is as before.                        *)
LEMMA AppendOther ==
  ASSUME NEW M, NEW q \in Seq(M), NEW S, NEW m, NEW x \in M, x \notin S
  PROVE  /\ Without(q, S) => Without(Append(q, x), S)
         /\ LastIs(q, S, m) => LastIs(Append(q, x), S, m)
<1>1. /\ Len(q) \in Nat /\ Len(Append(q, x)) = Len(q) + 1 /\ Append(q, x)[Len(q) + 1] = x
      /\ \A i \in 1..Len(q) : Append(q, x)[i] = q[i]
  OBVIOUS
<1>2. Without(q, S) => Without(Append(q, x), S)
  BY <1>1 DEF Without
<1>3. ASSUME LastIs(q, S, m) PROVE LastIs(Append(q, x), S, m)
  <2>1. PICK i \in 1..Len(q) : q[i] = m /\ \A j \in 1..Len(q) : i < j => q[j] \notin S
    BY <1>3 DEF LastIs
  <2>2. i \in 1..Len(Append(q, x)) /\ Append(q, x)[i] = m
    BY <1>1, <2>1
  <2>3. ASSUME NEW j \in 1..Len(Append(q, x)), i < j PROVE Append(q, x)[j] \notin S
    <3>1. j \in 1..Len(q) \/ j = Len(q) + 1
      BY <1>1
    <3> QED
      BY <1>1, <2>1, <2>3, <3>1
  <2> QED
    BY <2>2, <2>3 DEF LastIs
<1> QED
  BY <1>2, <1>3

(* The first one is taken: if it was the last one of the set, none is left.*)
LEMMA TakeFirst ==
  ASSUME NEW M, NEW q \in Seq(M), q # <<>>, NEW S, NEW m
  PROVE  /\ Without(q, S) => Without(Tail(q), S) /\ Head(q) \notin S
         /\ LastIs(q, S, m) => \/ LastIs(Tail(q), S, m)
                               \/ Without(Tail(q), S) /\ Head(q) = m
<1>1. /\ Len(q) \in Nat \ {0} /\ Len(Tail(q)) = Len(q) - 1 /\ Head(q) = q[1]
      /\ \A i \in 1..Len(Tail(q)) : Tail(q)[i] = q[i + 1]
  OBVIOUS
<1>2. Without(q, S) => Without(Tail(q), S) /\ Head(q) \notin S
  BY <1>1 DEF Without
<1>3. ASSUME LastIs(q, S, m)
      PROVE  LastIs(Tail(q), S, m) \/ (Without(Tail(q), S) /\ Head(q) = m)
  <2>1. PICK i \in 1..Len(q) : q[i] = m /\ \A j \in 1..Len(q) : i < j => q[j] \notin S
    BY <1>3 DEF LastIs
  <2>2. CASE i = 1
    BY <1>1, <2>1, <2>2 DEF Without
  <2>3. CASE i # 1
    <3>1. i - 1 \in 1..Len(Tail(q)) /\ Tail(q)[i - 1] = m
      BY <1>1, <2>1, <2>3
    <3>2. \A j \in 1..Len(Tail(q)) : i - 1 < j => Tail(q)[j] \notin S
      BY <1>1, <2>1
    <3> QED
      BY <3>1, <3>2 DEF LastIs
  <2> QED
    BY <2>2, <2>3
<1> QED
  BY <1>2, <1>3

(* A message is put in front: it counts if there is no other.              *)
LEMMA PutInFront ==
  ASSUME NEW M, NEW q \in Seq(M), NEW S, NEW m, NEW x \in M
  PROVE  /\ LastIs(q, S, m) => LastIs(<<x>> \o q, S, m)
         /\ Without(q, S) => LastIs(<<x>> \o q, S, x)
         /\ Without(q, S) /\ x \notin S => Without(<<x>> \o q, S)
<1> DEFINE r == <<x>> \o q
<1>1. /\ Len(q) \in Nat /\ Len(r) = Len(q) + 1 /\ r[1] = x
      /\ \A i \in 1..Len(q) : r[i + 1] = q[i]
      /\ \A i \in 2..Len(r) : r[i] = q[i - 1] /\ i - 1 \in 1..Len(q)
  OBVIOUS
<1> HIDE DEF r
<1>2. ASSUME LastIs(q, S, m) PROVE LastIs(r, S, m)
  <2>1. PICK i \in 1..Len(q) : q[i] = m /\ \A j \in 1..Len(q) : i < j => q[j] \notin S
    BY <1>2 DEF LastIs
  <2>2. i + 1 \in 1..Len(r) /\ r[i + 1] = m
    BY <1>1, <2>1
  <2>3. ASSUME NEW j \in 1..Len(r), i + 1 < j PROVE r[j] \notin S
    <3>1. j \in 2..Len(r) /\ i < j - 1
      BY <1>1, <2>3
    <3> QED
      BY <1>1, <2>1, <3>1
  <2> QED
    BY <2>2, <2>3 DEF LastIs
<1>3. Without(q, S) => LastIs(r, S, x)
  <2> SUFFICES ASSUME Without(q, S) PROVE LastIs(r, S, x)
    OBVIOUS
  <2>1. \A j \in 1..Len(r) : 1 < j => r[j] \notin S
    BY <1>1 DEF Without
  <2> QED
    BY <1>1, <2>1 DEF LastIs
<1>4. Without(q, S) /\ x \notin S => Without(r, S)
  <2> SUFFICES ASSUME Without(q, S), x \notin S, NEW j \in 1..Len(r) PROVE r[j] \notin S
    BY DEF Without
  <2>1. j = 1 \/ j \in 2..Len(r)
    BY <1>1
  <2> QED
    BY <1>1, <2>1 DEF Without
<1> QED
  BY <1>2, <1>3, <1>4 DEF r

-----------------------------------------------------------------------------
(* The inductive invariant.                                                *)

About(o) == {m \in Messages : m.kind = "obs" /\ m.obs = o}
Aggregates == {m \in Messages : m.kind = "agg"}

OthersIdle == \A w \in Workers : w \notin pool => pc[w] = "idle"

Hands ==
  \A w \in Workers :
    /\ pc[w] = "idle" => hand[w] = NoMessage
    /\ pc[w] # "idle" => hand[w] \in Messages
    /\ pc[w] \notin {"idle", "taken"} => hand[w] \notin Aggregates

(* One thread at a time compares and sends, and what it has sent is in      *)
(* kvalobs.                                                                *)
Mutex ==
  \A w \in Workers :
    /\ pc[w] \in {"locked", "sent"} <=> sendData = w
    /\ pc[w] = "sent" => kvAgg = computed[w]

(* Without echoes no aggregate comes to us, and only sendData, under its    *)
(* mutex, makes proxy and kvalobs differ.                                  *)
NoEchoes ==
  ~echo =>
    /\ Without(queue, Aggregates)
    /\ \A w \in Workers : hand[w] \notin Aggregates
    /\ sendData = NoWorker => cacheAgg = kvAgg
    /\ \A w \in Workers :
         pc[w] = "locked" => cacheAgg = kvAgg /\ cacheAgg # computed[w]

(* With the one thread p: the last message about an observation, queued or  *)
(* in hand, is of the version in kvalobs, and if there is none the proxy    *)
(* has that version.                                                       *)
ObsFollow(p) ==
  \A o \in Obs :
    \/ LastIs(queue, About(o), ObsMessage(o, kvObs[o]))
    \/ /\ Without(queue, About(o))
       /\ hand[p] \in About(o) => hand[p] = ObsMessage(o, kvObs[o])
       /\ cacheObs[o] = kvObs[o] \/ (pc[p] = "taken" /\ hand[p] \in About(o))

AggFollow(p) ==
  \/ LastIs(queue, Aggregates, AggMessage(kvAgg))
  \/ /\ Without(queue, Aggregates)
     /\ hand[p] \in Aggregates => hand[p] = AggMessage(kvAgg)
     /\ \/ cacheAgg = kvAgg
        \/ pc[p] = "taken" /\ hand[p] \in Aggregates
        \/ pc[p] = "sent" /\ computed[p] = kvAgg

(* What it computes is up to date, and it never comes to rest before the    *)
(* proxy has the aggregate of the observations in it.                      *)
Computes(p) ==
  ~echo =>
    /\ pc[p] \in {"computed", "locked", "sent"} => computed[p] = cacheObs
    /\ pc[p] = "idle" => cacheAgg = cacheObs \/ queue # <<>>

Alone == \A p \in Workers : pool = {p} => ObsFollow(p) /\ AggFollow(p) /\ Computes(p)

Inv == TypeOK /\ OthersIdle /\ Hands /\ Mutex /\ NoEchoes /\ Alone

-----------------------------------------------------------------------------
(* Messages.                                                               *)

LEMMA ObsMessages ==
  ASSUME NEW o \in Obs, NEW v \in 1..MaxVersion
  PROVE  /\ ObsMessage(o, v) \in Messages /\ ObsMessage(o, v) \in About(o)
         /\ ObsMessage(o, v) \notin Aggregates
         /\ \A x \in Obs : x # o => ObsMessage(o, v) \notin About(x)
BY DEF ObsMessage, Messages, About, Aggregates

LEMMA AggMessages ==
  ASSUME NEW a \in Values
  PROVE  /\ AggMessage(a) \in Messages /\ AggMessage(a) \in Aggregates
         /\ \A x \in Obs : AggMessage(a) \notin About(x)
BY DEF AggMessage, Messages, About, Aggregates

LEMMA NoMessageIsNone == NoMessage \notin Messages
BY DEF NoMessage, Messages

LEMMA EveryMessage ==
  ASSUME NEW m \in Messages
  PROVE  \/ /\ m.kind = "obs" /\ m.obs \in Obs /\ m.version \in 1..MaxVersion
            /\ m = ObsMessage(m.obs, m.version) /\ m \in About(m.obs) /\ m \notin Aggregates
            /\ \A x \in Obs : x # m.obs => m \notin About(x)
         \/ /\ m.kind = "agg" /\ m.value \in Values
            /\ m = AggMessage(m.value) /\ m \in Aggregates
            /\ \A x \in Obs : m \notin About(x)
<1>1. CASE m \in [kind : {"obs"}, obs : Obs, version : 1..MaxVersion]
  BY <1>1 DEF ObsMessage, About, Aggregates, Messages
<1>2. CASE m \in [kind : {"agg"}, value : Values]
  BY <1>2 DEF AggMessage, About, Aggregates, Messages
<1> QED
  BY <1>1, <1>2 DEF Messages

LEMMA NothingType == Nothing \in Values
BY PipelineAssumption DEF Nothing, Values

-----------------------------------------------------------------------------
(* What each step does to where threads are and to what they have in hand. *)

LEMMA TypeArrive ==
  ASSUME TypeOK, NEW o \in Obs, NEW v \in 1..MaxVersion, Arrive(o, v)
  PROVE  TypeOK'
<1> USE DEF TypeOK, Arrive, fixed, cacheVars
<1>1. kvObs' \in Values /\ kvAgg' \in Values /\ cacheObs' \in Values /\ cacheAgg' \in Values
  BY DEF Values
<1>2. queue' \in Seq(Messages)
  BY ObsMessages
<1>3. events' \in 0..MaxEvents
  BY PipelineAssumption
<1> QED
  BY <1>1, <1>2, <1>3

LEMMA TypeWorker ==
  ASSUME TypeOK, Hands, NEW w \in Workers, Worker(w)
  PROVE  TypeOK'
<1> USE DEF TypeOK, fixed, kvVars, cacheVars, GoTo, Finish
<1>1. CASE Take(w)
  BY <1>1 DEF Take, WorkerStates
<1>2. CASE CacheData(w)
  <2>0. hand[w] \in Messages
    BY <1>2 DEF CacheData, Hands
  <2>1. CASE hand[w].kind = "obs"
    <3>1. hand[w].version \in 0..MaxVersion
      BY <2>0, <2>1, EveryMessage, PipelineAssumption
    <3>2. cacheObs' \in Values
      BY <1>2, <2>1, <3>1 DEF CacheData, Values
    <3> QED
      BY <1>2, <2>1, <3>2 DEF CacheData, WorkerStates
  <2>2. CASE hand[w].kind = "agg"
    <3>1. hand[w].value \in Values
      BY <2>0, <2>2, EveryMessage
    <3> QED
      BY <1>2, <2>2, <3>1 DEF CacheData, WorkerStates
  <2> QED
    BY <1>2, <2>1, <2>2 DEF CacheData
<1>3. CASE Process(w)
  BY <1>3 DEF Process, WorkerStates
<1>4. CASE LockSend(w)
  BY <1>4 DEF LockSend, WorkerStates
<1>5. CASE NothingNew(w)
  BY <1>5, NothingType DEF NothingNew, WorkerStates
<1>6. CASE SendOk(w)
  <2>1. queue' \in Seq(Messages)
    BY <1>6, AggMessages DEF SendOk
  <2> QED
    BY <1>6, <2>1 DEF SendOk, WorkerStates
<1>7. CASE CacheSent(w)
  BY <1>7, NothingType DEF CacheSent, WorkerStates
<1>8. CASE SendRefused(w)
  BY <1>8, NothingType, PipelineAssumption DEF SendRefused, WorkerStates
<1>9. CASE PutBack(w)
  <2>0. hand[w] \in Messages
    BY <1>9 DEF PutBack, Hands
  <2> QED
    BY <1>9, <2>0 DEF PutBack, WorkerStates
<1> QED
  BY <1>1, <1>2, <1>3, <1>4, <1>5, <1>6, <1>7, <1>8, <1>9 DEF Worker

LEMMA HandsWorker ==
  ASSUME TypeOK, Hands, OthersIdle, Mutex, NEW w \in Workers, Worker(w)
  PROVE  Hands' /\ OthersIdle' /\ Mutex'
<1> USE DEF TypeOK, Hands, OthersIdle, Mutex, fixed, kvVars, GoTo, Finish
<1>0. NoMessage \notin Aggregates
  BY NoMessageIsNone DEF Aggregates
<1>1. CASE Take(w)
  BY <1>1 DEF Take
<1>2. CASE CacheData(w)
  <2>1. hand[w].kind = "obs" => hand[w] \notin Aggregates
    BY DEF Aggregates
  <2> QED
    BY <1>0, <1>2, <2>1 DEF CacheData
<1>3. CASE Process(w)
  BY <1>3 DEF Process
<1>4. CASE LockSend(w)
  BY <1>4, PipelineAssumption DEF LockSend
<1>5. CASE NothingNew(w)
  BY <1>0, <1>5, PipelineAssumption DEF NothingNew
<1>6. CASE SendOk(w)
  BY <1>6 DEF SendOk
<1>7. CASE CacheSent(w)
  BY <1>0, <1>7, PipelineAssumption DEF CacheSent
<1>8. CASE SendRefused(w)
  BY <1>8, PipelineAssumption DEF SendRefused
<1>9. CASE PutBack(w)
  BY <1>0, <1>9 DEF PutBack
<1> QED
  BY <1>1, <1>2, <1>3, <1>4, <1>5, <1>6, <1>7, <1>8, <1>9 DEF Worker

-----------------------------------------------------------------------------
(* Without echoes.                                                         *)

LEMMA NoEchoesArrive ==
  ASSUME TypeOK, NoEchoes, NEW o \in Obs, NEW v \in 1..MaxVersion, Arrive(o, v)
  PROVE  NoEchoes'
<1> USE DEF Arrive, fixed, cacheVars
<1>1. Without(queue, Aggregates) => Without(queue', Aggregates)
  BY ObsMessages, AppendOther DEF TypeOK
<1> QED
  BY <1>1 DEF NoEchoes

LEMMA NoEchoesWorker ==
  ASSUME Inv, Hands', Mutex', NEW w \in Workers, Worker(w)
  PROVE  NoEchoes'
<1> SUFFICES ASSUME ~echo PROVE NoEchoes'
  BY DEF NoEchoes, Worker, Take, CacheData, Process, LockSend, NothingNew, SendOk, CacheSent,
         SendRefused, PutBack, fixed
<1> USE DEF fixed, kvVars, cacheVars, GoTo, Finish, Inv
<1>0. /\ Without(queue, Aggregates) /\ queue \in Seq(Messages)
      /\ \A x \in Workers : hand[x] \notin Aggregates
      /\ sendData = NoWorker => cacheAgg = kvAgg
      /\ NoMessage \notin Aggregates /\ NoWorker \notin Workers
  BY NoMessageIsNone, PipelineAssumption DEF NoEchoes, TypeOK, Aggregates
<1>1. CASE Take(w)
  <2>1. Without(queue', Aggregates) /\ Head(queue) \notin Aggregates
    BY <1>0, <1>1, TakeFirst DEF Take
  <2> QED
    BY <1>0, <1>1, <2>1 DEF Take, NoEchoes, TypeOK
<1>2. CASE CacheData(w)
  <2>1. hand[w].kind # "agg"
    BY <1>0, <1>2 DEF CacheData, Hands, Aggregates
  <2> QED
    BY <1>0, <1>2, <2>1 DEF CacheData, NoEchoes, TypeOK
<1>3. CASE Process(w)
  BY <1>3 DEF Process, NoEchoes, TypeOK
<1>4. CASE LockSend(w)
  BY <1>0, <1>4 DEF LockSend, NoEchoes, TypeOK, Updates, Mutex
<1>5. CASE NothingNew(w)
  BY <1>0, <1>5 DEF NothingNew, NoEchoes, TypeOK
<1>6. CASE SendOk(w)
  <2>1. sendData = w /\ \A x \in Workers : pc[x] \in {"locked", "sent"} => x = w
    BY <1>6 DEF SendOk, Mutex
  <2> QED
    BY <1>0, <1>6, <2>1 DEF SendOk, NoEchoes, TypeOK
<1>7. CASE CacheSent(w)
  <2>1. kvAgg = computed[w] /\ \A x \in Workers : pc[x] \in {"locked", "sent"} => x = w
    BY <1>7 DEF CacheSent, Mutex
  <2> QED
    BY <1>0, <1>7, <2>1 DEF CacheSent, NoEchoes, TypeOK
<1>8. CASE SendRefused(w)
  <2>1. cacheAgg = kvAgg /\ \A x \in Workers : pc[x] \in {"locked", "sent"} => x = w
    BY <1>8 DEF SendRefused, Mutex, NoEchoes
  <2> QED
    BY <1>0, <1>8, <2>1 DEF SendRefused, NoEchoes, TypeOK
<1>9. CASE PutBack(w)
  <2>1. hand[w] \in Messages
    BY <1>9 DEF PutBack, Hands
  <2>2. Without(queue', Aggregates)
    BY <1>0, <1>9, <2>1, PutInFront DEF PutBack
  <2> QED
    BY <1>0, <1>9, <2>2 DEF PutBack, NoEchoes, TypeOK
<1> QED
  BY <1>1, <1>2, <1>3, <1>4, <1>5, <1>6, <1>7, <1>8, <1>9 DEF Worker

-----------------------------------------------------------------------------
(* With one thread: observations.                                          *)

LEMMA ObsFollowArrive ==
  ASSUME Inv, NEW p \in Workers, ObsFollow(p), NEW x \in Obs, NEW v \in 1..MaxVersion, Arrive(x, v)
  PROVE  ObsFollow(p)'
<1> USE DEF Arrive, fixed, cacheVars
<1>0. queue \in Seq(Messages) /\ kvObs \in Values
  BY DEF Inv, TypeOK
<1> SUFFICES ASSUME NEW o \in Obs
             PROVE  \/ LastIs(queue', About(o), ObsMessage(o, kvObs'[o]))
                    \/ /\ Without(queue', About(o))
                       /\ hand[p] \in About(o) => hand[p] = ObsMessage(o, kvObs'[o])
                       /\ cacheObs[o] = kvObs'[o] \/ (pc[p] = "taken" /\ hand[p] \in About(o))
  BY DEF ObsFollow
<1>1. CASE o = x
  <2>1. kvObs'[o] = v
    BY <1>0, <1>1 DEF Values
  <2>2. LastIs(queue', About(o), ObsMessage(o, v))
    BY <1>0, <1>1, ObsMessages, AppendLast
  <2> QED
    BY <2>1, <2>2
<1>2. CASE o # x
  <2>1. kvObs'[o] = kvObs[o]
    BY <1>0, <1>2 DEF Values
  <2>2. ObsMessage(x, v) \notin About(o) /\ ObsMessage(x, v) \in Messages
    BY <1>2, ObsMessages
  <2>3. /\ Without(queue, About(o)) => Without(queue', About(o))
        /\ LastIs(queue, About(o), ObsMessage(o, kvObs[o])) =>
             LastIs(queue', About(o), ObsMessage(o, kvObs[o]))
    BY <1>0, <2>2, AppendOther
  <2> QED
    BY <2>1, <2>3 DEF ObsFollow
<1> QED
  BY <1>1, <1>2

LEMMA ObsFollowWorker ==
  ASSUME Inv, NEW p \in Workers, ObsFollow(p), Worker(p)
  PROVE  ObsFollow(p)'
<1> USE DEF fixed, kvVars, cacheVars, GoTo, Finish
<1>0. /\ queue \in Seq(Messages) /\ cacheObs \in Values /\ kvObs \in Values
      /\ pc \in [Workers -> WorkerStates] /\ hand \in [Workers -> Messages \cup {NoMessage}]
      /\ \A o \in Obs : NoMessage \notin About(o)
      /\ pc[p] = "idle" => hand[p] = NoMessage
      /\ pc[p] # "idle" => hand[p] \in Messages
  BY NoMessageIsNone DEF Inv, TypeOK, Hands, About
<1> SUFFICES ASSUME NEW o \in Obs
             PROVE  \/ LastIs(queue', About(o), ObsMessage(o, kvObs'[o]))
                    \/ /\ Without(queue', About(o))
                       /\ hand'[p] \in About(o) => hand'[p] = ObsMessage(o, kvObs'[o])
                       /\ cacheObs'[o] = kvObs'[o] \/ (pc'[p] = "taken" /\ hand'[p] \in About(o))
  BY DEF ObsFollow
<1> DEFINE m == ObsMessage(o, kvObs[o])
<1>f. \/ LastIs(queue, About(o), m)
      \/ /\ Without(queue, About(o))
         /\ hand[p] \in About(o) => hand[p] = m
         /\ cacheObs[o] = kvObs[o] \/ (pc[p] = "taken" /\ hand[p] \in About(o))
  BY DEF ObsFollow
<1>1. CASE Take(p)
  <2>1. /\ queue # <<>> /\ queue' = Tail(queue) /\ hand'[p] = Head(queue) /\ pc'[p] = "taken"
        /\ hand[p] \notin About(o) /\ kvObs' = kvObs /\ cacheObs' = cacheObs /\ pc[p] = "idle"
    BY <1>0, <1>1 DEF Take
  <2>2. CASE LastIs(queue, About(o), m)
    <3>1. LastIs(queue', About(o), m) \/ (Without(queue', About(o)) /\ hand'[p] = m)
      BY <1>0, <2>1, <2>2, TakeFirst
    <3>2. m \in About(o)
      <4>1. PICK i \in 1..Len(queue) : queue[i] = m
        BY <2>2 DEF LastIs
      <4>2. m \in Messages
        BY <1>0, <4>1
      <4> QED
        BY <4>2 DEF About, ObsMessage
    <3> QED
      BY <2>1, <3>1, <3>2
  <2>3. CASE ~LastIs(queue, About(o), m)
    <3>1. Without(queue', About(o)) /\ hand'[p] \notin About(o)
      BY <1>f, <1>0, <2>1, <2>3, TakeFirst
    <3> QED
      BY <1>f, <2>1, <2>3, <3>1
  <2> QED
    BY <2>2, <2>3
<1>2. CASE CacheData(p)
  <2>1. hand[p] \in Messages /\ pc[p] = "taken"
    BY <1>0, <1>2 DEF CacheData
  <2>2. CASE hand[p].kind = "obs"
    <3>1. /\ cacheObs' = [cacheObs EXCEPT ![hand[p].obs] = hand[p].version]
          /\ hand' = hand /\ kvObs' = kvObs /\ queue' = queue
      BY <1>2, <2>2 DEF CacheData
    <3>2. CASE hand[p] \in About(o)
      <4>1. hand[p].obs = o /\ cacheObs'[o] = hand[p].version
        BY <1>0, <3>1, <3>2 DEF About, Values
      <4>2. hand[p] = m => hand[p].version = kvObs[o]
        BY DEF ObsMessage
      <4> QED
        BY <1>f, <3>1, <3>2, <4>1, <4>2
    <3>3. CASE hand[p] \notin About(o)
      <4>1. hand[p].obs # o
        BY <2>1, <2>2, <3>3 DEF About
      <4>2. cacheObs'[o] = cacheObs[o]
        BY <1>0, <3>1, <4>1 DEF Values
      <4> QED
        BY <1>f, <3>1, <3>3, <4>2
    <3> QED
      BY <3>2, <3>3
  <2>3. CASE hand[p].kind = "agg"
    <3>1. hand[p] \notin About(o) /\ hand'[p] \notin About(o)
      BY <1>0, <1>2, <2>3 DEF CacheData, About
    <3> QED
      BY <1>f, <1>2, <2>3, <3>1 DEF CacheData
  <2> QED
    BY <1>2, <2>2, <2>3 DEF CacheData
<1>3. CASE Process(p)
  BY <1>f, <1>3 DEF Process
<1>4. CASE LockSend(p)
  BY <1>f, <1>4 DEF LockSend
<1>5. CASE NothingNew(p)
  BY <1>0, <1>f, <1>5 DEF NothingNew
<1>6. CASE SendOk(p)
  <2>1. computed[p] \in Values
    BY DEF Inv, TypeOK
  <2>2. /\ Without(queue, About(o)) => Without(queue', About(o))
        /\ LastIs(queue, About(o), m) => LastIs(queue', About(o), m)
    <3>1. CASE queue' = queue
      BY <3>1
    <3>2. CASE queue' = Append(queue, AggMessage(computed[p]))
      BY <1>0, <2>1, <3>2, AggMessages, AppendOther
    <3> QED
      BY <1>6, <3>1, <3>2 DEF SendOk
  <2> QED
    BY <1>f, <1>6, <2>2 DEF SendOk
<1>7. CASE CacheSent(p)
  BY <1>0, <1>f, <1>7 DEF CacheSent
<1>8. CASE SendRefused(p)
  BY <1>f, <1>8 DEF SendRefused
<1>9. CASE PutBack(p)
  <2>1. /\ hand[p] \in Messages /\ queue' = <<hand[p]>> \o queue /\ hand'[p] \notin About(o)
        /\ kvObs' = kvObs /\ cacheObs' = cacheObs /\ pc[p] # "taken"
    BY <1>0, <1>9 DEF PutBack
  <2>2. CASE LastIs(queue, About(o), m)
    BY <1>0, <2>1, <2>2, PutInFront
  <2>3. CASE ~LastIs(queue, About(o), m) /\ hand[p] \in About(o)
    <3>1. LastIs(queue', About(o), hand[p])
      BY <1>0, <1>f, <2>1, <2>3, PutInFront
    <3> QED
      BY <1>f, <2>1, <2>3, <3>1
  <2>4. CASE ~LastIs(queue, About(o), m) /\ hand[p] \notin About(o)
    <3>1. Without(queue', About(o))
      BY <1>0, <1>f, <2>1, <2>4, PutInFront
    <3> QED
      BY <1>f, <2>1, <2>4, <3>1
  <2> QED
    BY <2>2, <2>3, <2>4
<1> QED
  BY <1>1, <1>2, <1>3, <1>4, <1>5, <1>6, <1>7, <1>8, <1>9 DEF Worker

-----------------------------------------------------------------------------
(* With one thread: the aggregate.                                         *)

LEMMA AggFollowArrive ==
  ASSUME Inv, NEW p \in Workers, AggFollow(p), NEW x \in Obs, NEW v \in 1..MaxVersion, Arrive(x, v)
  PROVE  AggFollow(p)'
<1> USE DEF Arrive, fixed, cacheVars
<1>1. /\ Without(queue, Aggregates) => Without(queue', Aggregates)
      /\ LastIs(queue, Aggregates, AggMessage(kvAgg)) => LastIs(queue', Aggregates, AggMessage(kvAgg))
  BY ObsMessages, AppendOther DEF Inv, TypeOK
<1> QED
  BY <1>1 DEF AggFollow

LEMMA AggFollowWorker ==
  ASSUME Inv, NEW p \in Workers, AggFollow(p), Worker(p)
  PROVE  AggFollow(p)'
<1> USE DEF fixed, kvVars, cacheVars, GoTo, Finish
<1> DEFINE m == AggMessage(kvAgg)
<1>0. /\ queue \in Seq(Messages) /\ kvAgg \in Values
      /\ pc \in [Workers -> WorkerStates] /\ hand \in [Workers -> Messages \cup {NoMessage}]
      /\ computed \in [Workers -> Values]
      /\ NoMessage \notin Aggregates
      /\ pc[p] = "idle" => hand[p] = NoMessage
      /\ pc[p] # "idle" => hand[p] \in Messages
      /\ pc[p] \notin {"idle", "taken"} => hand[p] \notin Aggregates
      /\ m \in Aggregates
  BY NoMessageIsNone, AggMessages DEF Inv, TypeOK, Hands, Aggregates
<1>f. \/ LastIs(queue, Aggregates, m)
      \/ /\ Without(queue, Aggregates)
         /\ hand[p] \in Aggregates => hand[p] = m
         /\ \/ cacheAgg = kvAgg
            \/ pc[p] = "taken" /\ hand[p] \in Aggregates
            \/ pc[p] = "sent" /\ computed[p] = kvAgg
  BY DEF AggFollow
<1>1. CASE Take(p)
  <2>1. /\ queue # <<>> /\ queue' = Tail(queue) /\ hand'[p] = Head(queue) /\ pc'[p] = "taken"
        /\ kvAgg' = kvAgg /\ cacheAgg' = cacheAgg /\ pc[p] = "idle" /\ hand[p] \notin Aggregates
    BY <1>0, <1>1 DEF Take
  <2>2. CASE LastIs(queue, Aggregates, m)
    <3>1. LastIs(queue', Aggregates, m) \/ (Without(queue', Aggregates) /\ hand'[p] = m)
      BY <1>0, <2>1, <2>2, TakeFirst
    <3> QED
      BY <1>0, <2>1, <3>1 DEF AggFollow
  <2>3. CASE ~LastIs(queue, Aggregates, m)
    <3>1. Without(queue', Aggregates) /\ hand'[p] \notin Aggregates
      BY <1>f, <1>0, <2>1, <2>3, TakeFirst
    <3> QED
      BY <1>f, <2>1, <2>3, <3>1 DEF AggFollow
  <2> QED
    BY <2>2, <2>3
<1>2. CASE CacheData(p)
  <2>1. hand[p] \in Messages /\ pc[p] = "taken"
    BY <1>0, <1>2 DEF CacheData
  <2>2. CASE hand[p].kind = "obs"
    <3>1. hand[p] \notin Aggregates
      BY <2>2 DEF Aggregates
    <3> QED
      BY <1>f, <1>2, <2>1, <2>2, <3>1 DEF CacheData, AggFollow
  <2>3. CASE hand[p].kind = "agg"
    <3>1. /\ cacheAgg' = hand[p].value /\ hand'[p] \notin Aggregates
          /\ queue' = queue /\ kvAgg' = kvAgg
      BY <1>0, <1>2, <2>3 DEF CacheData
    <3>2. hand[p] \in Aggregates /\ (hand[p] = m => hand[p].value = kvAgg)
      BY <2>1, <2>3 DEF Aggregates, AggMessage
    <3> QED
      BY <1>f, <3>1, <3>2 DEF AggFollow
  <2> QED
    BY <1>2, <2>2, <2>3 DEF CacheData
<1>3. CASE Process(p)
  BY <1>0, <1>f, <1>3 DEF Process, AggFollow
<1>4. CASE LockSend(p)
  BY <1>0, <1>f, <1>4 DEF LockSend, AggFollow
<1>5. CASE NothingNew(p)
  BY <1>0, <1>f, <1>5 DEF NothingNew, AggFollow
<1>6. CASE SendOk(p)
  <2>1. /\ computed[p] \in Values /\ kvAgg' = computed[p] /\ computed' = computed /\ hand' = hand
        /\ pc'[p] = "sent" /\ hand[p] \notin Aggregates
    BY <1>0, <1>6 DEF SendOk
  <2>2. CASE echo
    <3>1. queue' = Append(queue, AggMessage(kvAgg'))
      BY <1>6, <2>1, <2>2 DEF SendOk
    <3>2. LastIs(queue', Aggregates, AggMessage(kvAgg'))
      BY <1>0, <2>1, <3>1, AggMessages, AppendLast
    <3> QED
      BY <3>2 DEF AggFollow
  <2>3. CASE ~echo
    <3>1. queue' = queue /\ Without(queue, Aggregates)
      BY <1>6, <2>3 DEF SendOk, Inv, NoEchoes
    <3> QED
      BY <2>1, <3>1 DEF AggFollow
  <2> QED
    BY <2>2, <2>3
<1>7. CASE CacheSent(p)
  <2>1. cacheAgg' = kvAgg'
    BY <1>7 DEF CacheSent, Inv, Mutex
  <2> QED
    BY <1>0, <1>f, <1>7, <2>1 DEF CacheSent, AggFollow
<1>8. CASE SendRefused(p)
  BY <1>0, <1>f, <1>8 DEF SendRefused, AggFollow
<1>9. CASE PutBack(p)
  <2>1. /\ hand[p] \in Messages /\ queue' = <<hand[p]>> \o queue /\ hand'[p] \notin Aggregates
        /\ hand[p] \notin Aggregates /\ kvAgg' = kvAgg /\ cacheAgg' = cacheAgg /\ pc[p] = "refused"
    BY <1>0, <1>9 DEF PutBack
  <2>2. /\ LastIs(queue, Aggregates, m) => LastIs(queue', Aggregates, m)
        /\ Without(queue, Aggregates) => Without(queue', Aggregates)
    BY <1>0, <2>1, PutInFront
  <2> QED
    BY <1>f, <2>1, <2>2 DEF AggFollow
<1> QED
  BY <1>1, <1>2, <1>3, <1>4, <1>5, <1>6, <1>7, <1>8, <1>9 DEF Worker

LEMMA ComputesWorker ==
  ASSUME Inv, NEW p \in Workers, Computes(p), Worker(p)
  PROVE  Computes(p)'
<1> USE DEF fixed, kvVars, cacheVars, GoTo, Finish
<1>0. /\ queue \in Seq(Messages) /\ pc \in [Workers -> WorkerStates]
      /\ computed \in [Workers -> Values] /\ hand \in [Workers -> Messages \cup {NoMessage}]
      /\ pc[p] # "idle" => hand[p] \in Messages
  BY DEF Inv, TypeOK, Hands
<1>1. CASE Take(p)
  BY <1>0, <1>1 DEF Take, Computes
<1>2. CASE CacheData(p)
  <2>1. ~echo => hand[p].kind # "agg"
    BY <1>0, <1>2 DEF CacheData, Inv, NoEchoes, Aggregates
  <2> QED
    BY <1>0, <1>2, <2>1 DEF CacheData, Computes
<1>3. CASE Process(p)
  BY <1>0, <1>3 DEF Process, Computes
<1>4. CASE LockSend(p)
  BY <1>0, <1>4 DEF LockSend, Computes
<1>5. CASE NothingNew(p)
  BY <1>0, <1>5 DEF NothingNew, Computes, Updates
<1>6. CASE SendOk(p)
  BY <1>0, <1>6 DEF SendOk, Computes
<1>7. CASE CacheSent(p)
  BY <1>0, <1>7 DEF CacheSent, Computes
<1>8. CASE SendRefused(p)
  BY <1>0, <1>8 DEF SendRefused, Computes
<1>9. CASE PutBack(p)
  <2>1. queue' # <<>>
    <3>1. hand[p] \in Messages /\ queue' = <<hand[p]>> \o queue
      BY <1>0, <1>9 DEF PutBack
    <3>2. Len(queue') = Len(queue) + 1 /\ Len(queue) \in Nat
      BY <1>0, <3>1
    <3> QED
      BY <3>2
  <2> QED
    BY <1>0, <1>9, <2>1 DEF PutBack, Computes
<1> QED
  BY <1>1, <1>2, <1>3, <1>4, <1>5, <1>6, <1>7, <1>8, <1>9 DEF Worker

-----------------------------------------------------------------------------
(* The invariant of the specification.                                     *)

LEMMA InitInv == Init => Inv
<1> SUFFICES ASSUME Init PROVE Inv
  OBVIOUS
<1> USE DEF Init
<1>1. TypeOK
  BY NothingType, PipelineAssumption DEF TypeOK, WorkerStates
<1>2. OthersIdle /\ Hands /\ Mutex
  BY PipelineAssumption DEF OthersIdle, Hands, Mutex
<1>3. NoMessage \notin Aggregates /\ \A o \in Obs : NoMessage \notin About(o)
  BY NoMessageIsNone DEF Aggregates, About
<1>4. \A S : Without(queue, S)
  BY DEF Without
<1>5. NoEchoes
  BY <1>3, <1>4 DEF NoEchoes
<1>6. ASSUME NEW p \in Workers PROVE ObsFollow(p) /\ AggFollow(p) /\ Computes(p)
  BY <1>3, <1>4 DEF ObsFollow, AggFollow, Computes
<1> QED
  BY <1>1, <1>2, <1>5, <1>6 DEF Inv, Alone

LEMMA AloneStep ==
  ASSUME Inv, NEW w \in Workers, Worker(w)
  PROVE  Alone'
<1> SUFFICES ASSUME NEW p \in Workers, pool' = {p}
             PROVE  ObsFollow(p)' /\ AggFollow(p)' /\ Computes(p)'
  BY DEF Alone
<1>1. pool = {p}
  BY DEF Worker, Take, CacheData, Process, LockSend, NothingNew, SendOk, CacheSent, SendRefused,
         PutBack, fixed
<1>2. w = p
  BY <1>1 DEF Inv, OthersIdle, Worker, Take, CacheData, Process, LockSend, NothingNew, SendOk,
              CacheSent, SendRefused, PutBack
<1>3. ObsFollow(p) /\ AggFollow(p) /\ Computes(p)
  BY <1>1 DEF Inv, Alone
<1> QED
  BY <1>2, <1>3, ObsFollowWorker, AggFollowWorker, ComputesWorker

LEMMA NextInv == Inv /\ [Next]_vars => Inv'
<1> SUFFICES ASSUME Inv, [Next]_vars PROVE Inv'
  OBVIOUS
<1>1. ASSUME NEW o \in Obs, NEW v \in 1..MaxVersion, Arrive(o, v) PROVE Inv'
  <2>1. TypeOK'
    BY <1>1, TypeArrive DEF Inv
  <2>2. OthersIdle' /\ Hands' /\ Mutex'
    BY <1>1 DEF Inv, Arrive, fixed, cacheVars, OthersIdle, Hands, Mutex
  <2>3. NoEchoes'
    BY <1>1, NoEchoesArrive DEF Inv
  <2>4. ASSUME NEW p \in Workers, pool' = {p} PROVE ObsFollow(p)' /\ AggFollow(p)' /\ Computes(p)'
    <3>1. ObsFollow(p) /\ AggFollow(p) /\ Computes(p)
      BY <1>1, <2>4 DEF Inv, Alone, Arrive, fixed
    <3>2. queue' # <<>>
      <4>1. queue \in Seq(Messages) /\ queue' = Append(queue, ObsMessage(o, v))
        BY <1>1 DEF Arrive, Inv, TypeOK
      <4>2. Len(queue') = Len(queue) + 1 /\ Len(queue) \in Nat
        BY <4>1
      <4> QED
        BY <4>2
    <3>3. Computes(p)'
      BY <1>1, <3>1, <3>2 DEF Computes, Arrive, fixed, cacheVars
    <3> QED
      BY <1>1, <3>1, <3>3, ObsFollowArrive, AggFollowArrive
  <2> QED
    BY <2>1, <2>2, <2>3, <2>4 DEF Inv, Alone
<1>2. ASSUME NEW w \in Workers, Worker(w) PROVE Inv'
  <2>1. TypeOK'
    BY <1>2, TypeWorker DEF Inv
  <2>2. OthersIdle' /\ Hands' /\ Mutex'
    BY <1>2, HandsWorker DEF Inv
  <2>3. NoEchoes'
    BY <1>2, <2>2, NoEchoesWorker
  <2>4. Alone'
    BY <1>2, AloneStep
  <2> QED
    BY <2>1, <2>2, <2>3, <2>4 DEF Inv
<1>3. CASE UNCHANGED vars
  BY <1>3 DEF vars, fixed, kvVars, cacheVars, Inv, TypeOK, OthersIdle, Hands, Mutex, NoEchoes, Alone,
              ObsFollow, AggFollow, Computes
<1> QED
  BY <1>1, <1>2, <1>3 DEF Next

(* The invariant holds in every reachable state.                           *)
THEOREM SpecInv == Spec => []Inv
BY InitInv, NextInv, PTL DEF Spec

(* Type correctness.                                                       *)
THEOREM TypeCorrect == Spec => []TypeOK
<1>1. Inv => TypeOK
  BY DEF Inv
<1> QED
  BY <1>1, SpecInv, PTL

(* The one thread of a pool of one.                                        *)
LEMMA OneThread ==
  ASSUME TypeOK, Cardinality(pool) = 1
  PROVE  \E p \in Workers : pool = {p}
<1>1. IsFiniteSet(pool)
  BY PipelineAssumption, FS_Subset DEF TypeOK
<1>2. \E p : pool = {p}
  BY <1>1, FS_Singleton
<1> QED
  BY <1>2 DEF TypeOK

(* With one thread, however often kvalobs refuses, corrects and echoes: a   *)
(* quiet proxy has what kvalobs has.                                       *)
LEMMA QuietFollows ==
  ASSUME Inv, Cardinality(pool) = 1, Quiet
  PROVE  cacheObs = kvObs /\ cacheAgg = kvAgg /\ (~echo => cacheAgg = cacheObs)
<1>1. PICK p \in Workers : pool = {p}
  BY OneThread DEF Inv
<1>2. queue = <<>> /\ pc[p] = "idle" /\ hand[p] = NoMessage
  BY DEF Quiet, Inv, Hands
<1>3. ObsFollow(p) /\ AggFollow(p) /\ Computes(p)
  BY <1>1 DEF Inv, Alone
<1>4. \A S, m : ~LastIs(queue, S, m)
  BY <1>2 DEF LastIs
<1>5. cacheObs = kvObs
  <2>1. \A o \in Obs : cacheObs[o] = kvObs[o]
    BY <1>2, <1>3, <1>4 DEF ObsFollow
  <2> QED
    BY <2>1 DEF Inv, TypeOK, Values
<1>6. cacheAgg = kvAgg
  BY <1>2, <1>3, <1>4 DEF AggFollow
<1> QED
  BY <1>2, <1>3, <1>5, <1>6 DEF Computes

(* KvalobsProxy's database ends up with what kvalobs has, if one thread     *)
(* writes it, echoes or not.                                               *)
THEOREM ProxyFollowsHolds == Spec => []ProxyFollows
<1>1. Inv => ProxyFollows
  BY QuietFollows DEF ProxyFollows
<1> QED
  BY <1>1, SpecInv, PTL

(* One thread and no echoes: the aggregate in kvalobs is in the end the one *)
(* of the observations in kvalobs.                                         *)
THEOREM AggregateFollowsOneThreadHolds == Spec => []AggregateFollowsOneThread
<1>1. Inv => AggregateFollowsOneThread
  BY QuietFollows DEF AggregateFollowsOneThread, AggregateFollows
<1> QED
  BY <1>1, SpecInv, PTL

(* For any number of threads: sendDataMutex_ held over comparison and       *)
(* sending keeps kvalobs from being sent what it has.                      *)
THEOREM NeverSentAgainHolds == Spec => NeverSentAgain
<1> DEFINE Sends == \A w \in Workers : (~echo /\ pc[w] = "locked" /\ pc'[w] = "sent") => kvAgg # computed[w]
<1>1. Inv => Sends
  BY DEF Inv, NoEchoes
<1>2. Inv /\ [Next]_vars => [Sends]_vars
  BY <1>1
<1> QED
  BY <1>2, SpecInv, PTL DEF Spec, NeverSentAgain
=============================================================================
