---------------------- MODULE AggregatorHandlerDataProofs ----------------------
(***************************************************************************)
(* Theorems about the data of AggregatorHandler: that they are data of one *)
(* key each; that extremes and means are among what is stored; and that    *)
(* the extremes and the sunshine of whole periods, the sea level pressure, *)
(* the rain of a gauge that is never emptied, and the rain of half days    *)
(* and days of hours follow what they were computed from, in whatever      *)
(* order that comes. They join what AggregationProofs says of one call of  *)
(* an aggregator to what AggregatorHandlerProofs says of the calls there   *)
(* may be.                                                                 *)
(***************************************************************************)
EXTENDS AggregatorHandlerProofs, AggregationProofs

-----------------------------------------------------------------------------
(* The invariant.                                                          *)

(* What may be an aggregate, by its parameter and type; messages of such;  *)
(* and calls of process for a datum of the message, or for an aggregate.   *)
Written == {Aggregators[h].write : h \in DOMAIN Aggregators}
AggregateData == {a \in Data : a.param \in Written /\ Negative(a)}
Echoes == {m \in SUBSET AggregateData : OneForEachKey(m)}
ProcessCalls == {c \in [datum : Data, at : 1..14] : c.datum \in message \cup AggregateData}

Typed ==
  /\ now \in scenario.clock
  /\ OneForEachKey(rows)
  /\ phase \in {"idle", "newData"}
  /\ OneForEachKey(message) /\ data \subseteq message /\ accepted \subseteq message
  /\ \A d \in message : Negative(d) => d \in AggregateData
  /\ stack \in Seq(ProcessCalls)
  /\ out \in Seq(AggregateData)
  /\ pending \in Seq(Echoes)
  /\ shutdown \in BOOLEAN
  /\ count \in 0..MaxMessages /\ refusals \in 0..MaxRefusals

-----------------------------------------------------------------------------
(* Sets of data, one for each key.                                         *)

(* The empty set, and a part of one.                                       *)
LEMMA PartOneForEachKey ==
  ASSUME NEW S, OneForEachKey(S), NEW T \in SUBSET S
  PROVE  OneForEachKey(T)
BY FS_Subset DEF OneForEachKey

(* Of no data there is one for each key.                                   *)
LEMMA NoneOneForEachKey == OneForEachKey({})
BY FS_EmptySet DEF OneForEachKey

(* What replaces the data of its keys.                                     *)
LEMMA PutOneForEachKey ==
  ASSUME NEW S, OneForEachKey(S), NEW new, OneForEachKey(new)
  PROVE  OneForEachKey(Put(S, new))
<1> DEFINE kept == {r \in S : \A n \in new : Key(n) # Key(r)}
<1>1. OneForEachKey(kept)
  BY PartOneForEachKey
<1>2. IsFiniteSet(kept \cup new)
  BY <1>1, FS_Union DEF OneForEachKey
<1>3. \A a, b \in kept \cup new : Key(a) = Key(b) => a = b
  BY <1>1 DEF OneForEachKey
<1> QED BY <1>1, <1>2, <1>3 DEF OneForEachKey, Put

(* Of several aggregates with one key the last one is sent.                *)
LEMMA SentOneForEachKey ==
  ASSUME Inv, Typed
  PROVE  OneForEachKey(Sent) /\ Sent \subseteq AggregateData
<1>1. DOMAIN out = 1..Len(out) /\ Len(out) \in Nat /\ \A i \in DOMAIN out : out[i] \in AggregateData
  BY DEF Typed
<1> DEFINE news == {i \in DOMAIN out : out[i].param \in Interesting /\ updatesKvalobs_(out[i])}
           last == {j \in news : \A k \in news : k > j => Key(out[k]) # Key(out[j])}
<1>2. Sent = {out[i] : i \in last}
  BY DEF Sent
<1>3. last \subseteq DOMAIN out
  OBVIOUS
<1>4. \A i, j \in last : Key(out[i]) = Key(out[j]) => i = j
  <2> SUFFICES ASSUME NEW i \in last, NEW j \in last, Key(out[i]) = Key(out[j]), i # j
               PROVE  FALSE
    OBVIOUS
  <2>1. i \in news /\ j \in news /\ i \in Int /\ j \in Int
    BY <1>1, <1>3
  <2>2. ~(i > j) /\ ~(j > i)
    BY <2>1
  <2> QED BY <2>1, <2>2
<1> HIDE DEF last
<1>5. Sent \subseteq AggregateData
  BY <1>1, <1>2, <1>3
<1>6. \A a, b \in Sent : Key(a) = Key(b) => a = b
  BY <1>2, <1>4
<1> QED BY <1>5, <1>6, SentComputed DEF OneForEachKey, AggregateData

-----------------------------------------------------------------------------
(* What an aggregator is given, and yields.                                *)

(* The names of AggregatorHandlerProofs are those of the aggregators.      *)
LEMMA NamesOfAggregators == Names = DOMAIN Aggregators /\ Names = Timed \cup {"po"}
BY DEF Names, Aggregators, Timed

(* The observations of one aggregate are of one parameter and type, one    *)
(* for each time.                                                          *)
LEMMA ObservationsAreSeries ==
  ASSUME Typed, NEW h \in Names, NEW d \in Data, d.param \in Aggregators[h].read
  PROVE  LET obs == WithTrigger(getRelevantObsList(h, d), d)
         IN  /\ obs \subseteq Data
             /\ h # "po" => Series(h, d.time, obs)
<1> DEFINE found == getRelevantObsList(h, d)
           obs == WithTrigger(found, d)
<1>1. found \subseteq rows /\ \A o \in found : InSpan(o.time, TimeSpan(h, d.time)) /\ o.type = d.type
                                               /\ o.param \in Aggregators[h].read
  BY DEF getRelevantObsList, Read
<1>2. OneForEachKey(found)
  BY <1>1, PartOneForEachKey DEF Typed
<1> HIDE DEF found
<1>3. obs \subseteq Data /\ IsFiniteSet(obs)
  <2>1. IsFiniteSet(found \cup {d})
    BY <1>2, FS_AddElement DEF OneForEachKey
  <2> QED BY <1>2, <2>1 DEF WithTrigger, OneForEachKey
<1>4. InSpan(d.time, TimeSpan(h, d.time))
  BY NamesOfAggregators, TriggerInSpan DEF Data
<1>5. \A a, b \in obs : Key(a) = Key(b) => a = b
  BY <1>2 DEF WithTrigger, OneForEachKey
<1>6. \A o \in obs : InSpan(o.time, TimeSpan(h, d.time)) /\ o.type = d.type /\ o.param \in Aggregators[h].read
  BY <1>1, <1>4 DEF WithTrigger
<1> HIDE DEF obs
<1>7. ASSUME h # "po"
      PROVE  \A a, b \in obs : a.time = b.time => a = b
  <2>1. \E p : Aggregators[h].read = {p}
    BY <1>7 DEF Names, Aggregators, Standard, Mean, rr_1, rr_12, rr_24, ra2rr_12, ta_24, uu_24, nn_24, ot_24
  <2> QED BY <1>5, <1>6, <2>1 DEF Key
<1> QED BY <1>3, <1>6, <1>7 DEF Series, obs, found

(* The call of process at work.                                            *)
LEMMA CallAtWork ==
  ASSUME Inv, Typed, Processing
  PROVE  /\ Head(stack) \in ProcessCalls /\ Tail(stack) \in Seq(ProcessCalls)
         /\ Datum \in Data /\ Datum \in message \cup AggregateData
<1>1. stack \in Seq(ProcessCalls) /\ stack # <<>>
  BY DEF Typed, Processing
<1>2. Head(stack) \in ProcessCalls /\ Tail(stack) \in Seq(ProcessCalls)
  BY <1>1
<1> QED BY <1>2 DEF ProcessCalls, Datum

(* An aggregate is a datum of a parameter that aggregators write.          *)
LEMMA OutcomeIsData ==
  ASSUME PoYieldsFractions, Inv, Typed, Processing,
         NEW i \in Offered, NEW a \in UNION Outcomes(Registered[i], Datum)
  PROVE  a \in AggregateData
<1> DEFINE h == Registered[i]
           obs == WithTrigger(getRelevantObsList(h, Datum), Datum)
<1>1. h \in Names /\ Datum.param \in Aggregators[h].read
  BY OfferedAggregator
<1>2. PICK s \in Process(h, Datum, obs, rows, scenario.metadata) : a \in s
  BY DEF Outcomes
<1>3. obs \subseteq Data /\ (h # "po" => Series(h, Datum.time, obs))
  BY <1>1, CallAtWork, ObservationsAreSeries
<1>4. h \in DOMAIN Aggregators /\ Datum \in Data /\ rows \in SUBSET Data
      /\ scenario.metadata \in Seq(MetadataEntries)
  BY <1>1, NamesOfAggregators, CallAtWork, HandlerAssumption DEF Typed, OneForEachKey, Inv, ScenarioAssumptionOf
<1>5. IsAggregate(a, h, Datum)
  BY <1>2, ProcessIsAggregate
<1> HIDE DEF h, obs
<1>6. a \in Data
  BY <1>2, <1>3, <1>4, ProcessYieldsData
<1>7. Negative(a)
  BY AggregateIsBelow
<1> QED BY <1>4, <1>5, <1>6, <1>7 DEF AggregateData, Written, IsAggregate

-----------------------------------------------------------------------------
(* The steps.                                                              *)

(* The clock begins with the first of its times.                           *)
LEMMA InitTyped == Init => Typed
<1> SUFFICES ASSUME Init PROVE Typed
  OBVIOUS
<1>1. ScenarioAssumptionOf(scenario) /\ MaxMessages \in Nat /\ MaxRefusals \in Nat
  BY HandlerAssumption DEF Init
<1>2. now \in scenario.clock
  BY <1>1, Extremes DEF Init, ScenarioAssumptionOf
<1>3. OneForEachKey(rows) /\ OneForEachKey(message)
  BY <1>1, NoneOneForEachKey DEF Init, ScenarioAssumptionOf
<1>4. stack \in Seq(ProcessCalls) /\ out \in Seq(AggregateData) /\ pending \in Seq(Echoes)
  BY DEF Init
<1>5. \A d \in message : Negative(d) => d \in AggregateData
  BY DEF Init
<1>6. phase \in {"idle", "newData"} /\ data \subseteq message /\ accepted \subseteq message /\ shutdown \in BOOLEAN
  BY DEF Init
<1>7. count \in 0..MaxMessages /\ refusals \in 0..MaxRefusals
  BY <1>1 DEF Init
<1> QED BY <1>2, <1>3, <1>4, <1>5, <1>6, <1>7 DEF Typed

(* A message begins.                                                       *)
LEMMA BeginTyped ==
  ASSUME Typed, NEW m, Begin(m), OneForEachKey(m), \A d \in m : Negative(d) => d \in AggregateData,
         pending' \in Seq(Echoes), count' \in 0..MaxMessages
  PROVE  Typed'
<1> DEFINE new == {d \in m : d.param \in Interesting}
<1>1. /\ phase' = "newData" /\ rows' = Put(rows, new) /\ message' = m /\ data' = m
      /\ accepted' = {} /\ stack' = <<>> /\ out' = <<>> /\ UNCHANGED <<scenario, now, shutdown, refusals>>
  BY DEF Begin, cacheData
<1>2. OneForEachKey(rows')
  BY <1>1, PartOneForEachKey, PutOneForEachKey DEF Typed
<1>3. OneForEachKey(message')
  BY <1>1
<1>4. stack' \in Seq(ProcessCalls') /\ out' \in Seq(AggregateData')
  BY <1>1
<1>5. pending' \in Seq(Echoes')
  BY DEF Echoes, AggregateData, Written, Negative
<1>6. \A d \in message' : Negative(d) => d \in AggregateData'
  BY <1>1 DEF AggregateData, Written, Negative
<1> QED BY <1>1, <1>2, <1>3, <1>4, <1>5, <1>6 DEF Typed, OneForEachKey

(* What a station sends are no aggregates.                                 *)
LEMMA ReceiveTyped == Inv /\ Typed /\ Receive => Typed'
<1> SUFFICES ASSUME Inv, Typed, Receive PROVE Typed'
  OBVIOUS
<1>1. PICK m \in scenario.messages : Begin(m)
  BY DEF Receive
<1>2. OneForEachKey(m) /\ \A d \in m : ~Negative(d)
  BY HandlerAssumption DEF Inv, ScenarioAssumptionOf
<1>3. pending' \in Seq(Echoes) /\ count' \in 0..MaxMessages
  BY HandlerAssumption DEF Receive, Typed
<1> QED BY <1>1, <1>2, <1>3, BeginTyped

(* What kvalobs sends back are aggregates.                                 *)
LEMMA TakeEchoTyped == Typed /\ TakeEcho => Typed'
<1> SUFFICES ASSUME Typed, TakeEcho PROVE Typed'
  OBVIOUS
<1>1. pending \in Seq(Echoes) /\ pending # <<>>
  BY DEF Typed, TakeEcho
<1>2. Head(pending) \in Echoes /\ Tail(pending) \in Seq(Echoes)
  <2> HIDE DEF Echoes
  <2> QED BY <1>1
<1>3. OneForEachKey(Head(pending)) /\ \A d \in Head(pending) : d \in AggregateData
  BY <1>2 DEF Echoes
<1>4. Begin(Head(pending)) /\ pending' = Tail(pending) /\ count' = count
  BY DEF TakeEcho
<1> QED BY <1>2, <1>3, <1>4, BeginTyped DEF Typed

(* What stays the same while calls and toSave change.                      *)
LEMMA WorkingTyped ==
  ASSUME Typed, UNCHANGED <<scenario, now, rows, phase, message, pending, shutdown, history>>,
         data' \subseteq message, accepted' \subseteq message,
         stack' \in Seq(ProcessCalls), out' \in Seq(AggregateData)
  PROVE  Typed'
BY DEF Typed, history, OneForEachKey, ProcessCalls, Echoes, AggregateData, Written, Negative

(* Calls go on with an aggregator further in the list, or end there.       *)
LEMMA GoOnTyped ==
  ASSUME Inv, Typed, Processing, NEW i \in Offered
  PROVE  GoOn(i) \in Seq(ProcessCalls)
<1> DEFINE c == [Head(stack) EXCEPT !.at = i + 1]
<1>1. i \in 1..13
  <2>1. Remaining \in SUBSET (1..13) /\ Remaining # {} /\ i = Min(Remaining)
    BY RegisteredNames DEF Remaining, Offered
  <2> QED BY <2>1, FirstExists
<1>2. c \in ProcessCalls
  BY <1>1, CallAtWork DEF ProcessCalls
<1> HIDE DEF c
<1>3. <<c>> \o Tail(stack) \in Seq(ProcessCalls)
  <2> HIDE DEF ProcessCalls
  <2> QED BY <1>2, CallAtWork
<1> QED BY <1>3 DEF GoOn, c

(* A call more of process.                                                 *)
LEMMA CallTyped ==
  ASSUME NEW d \in Data, d \in message \cup AggregateData, NEW calls \in Seq(ProcessCalls)
  PROVE  Call(d, calls) \in Seq(ProcessCalls)
<1> DEFINE c == [datum |-> d, at |-> 1]
<1>1. c \in ProcessCalls
  BY DEF ProcessCalls
<1> HIDE DEF c
<1>2. <<c>> \o calls \in Seq(ProcessCalls)
  <2> HIDE DEF ProcessCalls
  <2> QED BY <1>1
<1> QED BY <1>2 DEF Call, c

(* Calls go on, end, or call for an aggregate.                             *)
LEMMA ProcessTyped == PoYieldsFractions /\ Inv /\ Typed /\ process => Typed'
<1> SUFFICES ASSUME PoYieldsFractions, Inv, Typed, process PROVE Typed'
  OBVIOUS
<1>1. /\ Processing
      /\ UNCHANGED <<scenario, now, rows, phase, message, data, accepted, pending, shutdown, history>>
  BY DEF process, Uninterested, NoAggregate, Aggregate, Return, newDataVars
<1>2. data' \subseteq message /\ accepted' \subseteq message
  BY <1>1 DEF Typed
<1>3. CASE Uninterested \/ NoAggregate
  <2>1. PICK i \in Offered : stack' = GoOn(i) /\ out' = out
    BY <1>3 DEF Uninterested, NoAggregate
  <2>2. stack' \in Seq(ProcessCalls) /\ out' \in Seq(AggregateData)
    BY <1>1, <2>1, GoOnTyped DEF Typed
  <2> QED BY <1>1, <1>2, <2>2, WorkingTyped
<1>4. CASE Aggregate
  <2>1. PICK i \in Offered : \E d \in UNION Outcomes(Registered[i], Datum) :
          out' = Append(out, d) /\ stack' = Call(d, GoOn(i))
    BY <1>4 DEF Aggregate
  <2>2. PICK d \in UNION Outcomes(Registered[i], Datum) :
          out' = Append(out, d) /\ stack' = Call(d, GoOn(i))
    BY <2>1
  <2>3. d \in AggregateData /\ d \in Data
    BY <1>1, OutcomeIsData DEF AggregateData
  <2>4. stack' \in Seq(ProcessCalls)
    BY <1>1, <2>2, <2>3, GoOnTyped, CallTyped
  <2>5. out' \in Seq(AggregateData)
    <3> HIDE DEF AggregateData
    <3> QED BY <2>2, <2>3 DEF Typed
  <2> QED BY <1>1, <1>2, <2>4, <2>5, WorkingTyped
<1>5. CASE Return
  <2>1. stack' \in Seq(ProcessCalls) /\ out' \in Seq(AggregateData)
    BY <1>1, <1>5, CallAtWork DEF Return, Typed
  <2> QED BY <1>1, <1>2, <2>1, WorkingTyped
<1> QED BY <1>3, <1>4, <1>5 DEF process

(* newData calls process for a datum of the message.                       *)
LEMMA NewDataTyped == Typed /\ newData => Typed'
<1> SUFFICES ASSUME Typed, newData PROVE Typed'
  OBVIOUS
<1>1. UNCHANGED <<scenario, now, rows, phase, message, out, pending, shutdown, history>>
  BY DEF newData
<1>2. PICK d \in data :
        /\ data' = data \ {d}
        /\ IF CompleteCheckDecider(d, message, rows, scenario.station)
           THEN accepted' = accepted \cup {d} /\ stack' = Call(d, <<>>)
           ELSE UNCHANGED <<accepted, stack>>
  BY DEF newData
<1>3. d \in message /\ d \in Data
  BY DEF Typed, OneForEachKey
<1>4. data' \subseteq message /\ accepted' \subseteq message
  BY <1>2, <1>3 DEF Typed
<1>5. <<>> \in Seq(ProcessCalls)
  OBVIOUS
<1>6. Call(d, <<>>) \in Seq(ProcessCalls)
  BY <1>3, <1>5, CallTyped
<1>7. stack' \in Seq(ProcessCalls) /\ out' \in Seq(AggregateData)
  BY <1>1, <1>2, <1>6 DEF Typed
<1> QED BY <1>1, <1>4, <1>7, WorkingTyped

(* newData ends, whatever it has saved.                                    *)
LEMMA EndTyped ==
  ASSUME Typed, Done, End, UNCHANGED <<scenario, now, shutdown, history>>,
         OneForEachKey(rows'), pending' \in Seq(Echoes)
  PROVE  Typed'
<1>1. /\ phase' = "idle" /\ message' = {} /\ accepted' = {} /\ out' = <<>>
      /\ data' = {} /\ stack' = <<>>
  BY DEF End, Done
<1>2. OneForEachKey(message')
  BY <1>1, NoneOneForEachKey
<1>3. stack' \in Seq(ProcessCalls') /\ out' \in Seq(AggregateData')
  BY <1>1
<1>4. pending' \in Seq(Echoes')
  BY DEF Echoes, AggregateData, Written, Negative
<1> QED BY <1>1, <1>2, <1>3, <1>4 DEF Typed, history, OneForEachKey

(* What is saved, and what comes back of it, has one datum of each key.    *)
LEMMA SaveTyped == Inv /\ Typed /\ save => Typed'
<1> SUFFICES ASSUME Inv, Typed, save PROVE Typed'
  OBVIOUS
<1>1. PICK order \in SetToSeqs(Grouped(Sent)) : rows' = Put(rows, Sent) /\ pending' = pending \o order
  BY DEF save
<1>2. OneForEachKey(Sent) /\ Sent \subseteq AggregateData
  BY SentOneForEachKey
<1>3. OneForEachKey(rows')
  BY <1>1, <1>2, PutOneForEachKey DEF Typed
<1>4. order \in Seq(SUBSET Sent)
  BY SentComputed, OrderOfGroups
<1>5. SUBSET Sent \subseteq Echoes
  BY <1>2, PartOneForEachKey DEF Echoes
<1>6. order \in Seq(Echoes)
  BY <1>4, <1>5, SeqMonotonic
<1>7. pending' \in Seq(Echoes)
  <2> HIDE DEF Echoes
  <2> QED BY <1>1, <1>6, ConcatProperties DEF Typed
<1> QED BY <1>3, <1>7, EndTyped DEF save

(* The message is stored once more.                                        *)
LEMMA SaveRefusedTyped == Typed /\ saveRefused => Typed'
<1> SUFFICES ASSUME Typed, saveRefused PROVE Typed'
  OBVIOUS
<1> DEFINE new == {d \in message : d.param \in Interesting}
<1>1. /\ rows' = Put(rows, new) /\ data' = message /\ accepted' = {} /\ out' = <<>>
      /\ refusals' = refusals + 1 /\ refusals < MaxRefusals
      /\ UNCHANGED <<scenario, now, phase, message, stack, pending, shutdown, count>>
  BY DEF saveRefused, cacheData
<1>2. OneForEachKey(rows')
  BY <1>1, PartOneForEachKey, PutOneForEachKey DEF Typed
<1>3. refusals' \in 0..MaxRefusals
  BY <1>1, HandlerAssumption DEF Typed
<1>4. stack' \in Seq(ProcessCalls') /\ out' \in Seq(AggregateData')
  BY <1>1 DEF Typed, ProcessCalls, AggregateData, Written, Negative
<1>5. pending' \in Seq(Echoes')
  BY <1>1 DEF Typed, Echoes, AggregateData, Written, Negative
<1>6. OneForEachKey(message') /\ \A d \in message' : Negative(d) => d \in AggregateData'
  BY <1>1 DEF Typed, AggregateData, Written, Negative
<1> QED BY <1>1, <1>2, <1>3, <1>4, <1>5, <1>6 DEF Typed, OneForEachKey

(* Every step keeps the types.                                             *)
LEMMA NextTyped == PoYieldsFractions /\ Inv /\ Typed /\ [Next]_vars => Typed'
<1> SUFFICES ASSUME PoYieldsFractions, Inv, Typed, [Next]_vars PROVE Typed'
  OBVIOUS
<1>1. CASE Tick
  <2>1. now' \in scenario'.clock
    BY <1>1 DEF Tick
  <2>2. UNCHANGED <<rows, phase, message, data, accepted, stack, out, pending, shutdown, count, refusals>>
    BY <1>1 DEF Tick, newDataVars, history
  <2> QED BY <2>1, <2>2 DEF Typed, OneForEachKey, ProcessCalls, Echoes, AggregateData, Written, Negative
<1>2. CASE Shutdown
  <2>1. /\ UNCHANGED <<scenario, now, rows, phase, message, data, accepted, stack, out, pending, count, refusals>>
        /\ shutdown' = TRUE
    BY <1>2 DEF Shutdown, newDataVars, history
  <2> QED BY <2>1 DEF Typed, OneForEachKey, ProcessCalls, Echoes, AggregateData, Written, Negative
<1>3. CASE unsaved
  BY <1>3, EndTyped DEF unsaved, Typed
<1>4. CASE UNCHANGED vars
  BY <1>4 DEF vars, newDataVars, history, Typed, OneForEachKey, ProcessCalls, Echoes, AggregateData, Written, Negative
<1> QED BY <1>1, <1>2, <1>3, <1>4, ReceiveTyped, TakeEchoTyped, ProcessTyped, NewDataTyped, SaveTyped,
           SaveRefusedTyped DEF Next, Worker

(* Types, one datum of each key stored, one in each message, and what      *)
(* aggregators made is of a parameter that they write.                     *)
THEOREM SpecTyped ==
  ASSUME PoYieldsFractions
  PROVE  Spec => []Typed
<1>1. Init => Typed
  BY InitTyped
<1>2. Inv /\ Typed /\ [Next]_vars => Typed'
  BY NextTyped
<1> QED BY <1>1, <1>2, SpecInv, PTL DEF Spec

(* There are as many keys as data.                                         *)
LEMMA KeysOfData ==
  ASSUME NEW S, OneForEachKey(S)
  PROVE  Cardinality({Key(r) : r \in S}) = Cardinality(S)
<1> DEFINE keys == {Key(r) : r \in S}
           f == [r \in S |-> Key(r)]
<1>1. f \in Bijection(S, keys)
  BY DEF OneForEachKey, Bijection, Injection, Surjection, IsInjective
<1>2. IsFiniteSet(S)
  BY DEF OneForEachKey
<1> HIDE DEF f, keys
<1>3. Cardinality(keys) = Cardinality(S)
  BY <1>1, <1>2, FS_Bijection DEF ExistsBijection
<1> QED BY <1>3 DEF keys

(* The types, and one datum stored of each key.                            *)
THEOREM TypeOKHolds ==
  ASSUME PoYieldsFractions
  PROVE  Spec => []TypeOK
<1>1. Inv /\ Typed => TypeOK
  <2> SUFFICES ASSUME Inv, Typed PROVE TypeOK
    OBVIOUS
  <2>1. Len(Registered) + 1 = 14
    BY DEF Registered
  <2>2. ProcessCalls \subseteq [datum : Data, at : 1..(Len(Registered) + 1)]
    BY <2>1 DEF ProcessCalls
  <2>3. stack \in Seq([datum : Data, at : 1..(Len(Registered) + 1)])
    BY <2>2, SeqMonotonic DEF Typed
  <2>4. AggregateData \subseteq Data /\ Echoes \subseteq SUBSET Data
    BY DEF AggregateData, Echoes
  <2>5. out \in Seq(Data) /\ pending \in Seq(SUBSET Data)
    BY <2>4, SeqMonotonic DEF Typed
  <2>6. rows \subseteq Data /\ Cardinality({Key(r) : r \in rows}) = Cardinality(rows) /\ message \subseteq Data
    BY KeysOfData DEF Typed, OneForEachKey
  <2> QED BY <2>3, <2>5, <2>6 DEF TypeOK, Typed, Inv
<1> QED BY <1>1, SpecInv, SpecTyped, PTL

-----------------------------------------------------------------------------
(* Extremes and means are among what is stored.                            *)

(* Aggregates of observations are written by one aggregator only, and what *)
(* they are made of by none.                                               *)
LEMMA DirectWriters ==
  ASSUME NEW h \in Direct
  PROVE  /\ h \in Names /\ h # "po"
         /\ \A g \in Names : Aggregators[g].write = Aggregators[h].write => g = h
         /\ \A p \in Aggregators[h].read : p \in Interesting /\ p \notin Written
<1>1. h \in {"tan12", "tax12", "tgn12", "ta_24", "uu_24", "ot_24"}
  BY DEF Direct, Bounded, MinMaxAggregators, MinAggregators
<1>2. h \in Names /\ h # "po"
  BY <1>1 DEF Names
<1>3. \A g \in Names : Aggregators[g].write = Aggregators[h].write => g = h
  BY <1>1 DEF Names, Aggregators, Standard, Mean, rr_1, rr_12, rr_24, ra2rr_12, ta_24, uu_24, nn_24, ot_24, po,
       RR_1, RR_12, RR_24, TAM_24, TAN_12, TAX_12, TGN_12, UUM_24, NNM_24, PO, OT_24
<1>4. \A p \in Aggregators[h].read : p \in Interesting
  BY <1>2, NamesOfAggregators DEF Interesting
<1>5. Aggregators[h].read \subseteq {TAN, TAX, TGN, TA, UU, OT_1}
  BY <1>1 DEF Aggregators, Standard, Mean, ta_24, uu_24, ot_24
<1>6. Written \subseteq {RR_1, RR_12, RR_24, TAM_24, TAN_12, TAX_12, TGN_12, UUM_24, NNM_24, PO, OT_24}
  BY NamesOfAggregators DEF Written, Names, Aggregators, Standard, Mean, rr_1, rr_12, rr_24, ra2rr_12, ta_24,
       uu_24, nn_24, ot_24, po
<1>7. \A p \in Aggregators[h].read : p \notin Written
  BY <1>5, <1>6 DEF TAN, TAX, TGN, TA, UU, OT_1, RR_1, RR_12, RR_24, TAM_24, TAN_12, TAX_12, TGN_12, UUM_24, NNM_24,
       PO, OT_24
<1> QED BY <1>2, <1>3, <1>4, <1>7

(* The datum that triggers one of them is an observation, which newData    *)
(* has stored before it called process, and so among what is read.         *)
LEMMA DirectTrigger ==
  ASSUME Inv, Typed, Processing, NEW i \in Offered, Registered[i] \in Direct
  PROVE  LET found == getRelevantObsList(Registered[i], Datum)
         IN  Datum.type > 0 /\ WithTrigger(found, Datum) = found
<1> DEFINE h == Registered[i]
<1>1. h \in Names /\ Datum.param \in Aggregators[h].read /\ Datum.param \in Interesting /\ Datum.param \notin Written
  BY OfferedAggregator, DirectWriters
<1>2. Datum \in Data /\ Datum \in message /\ phase = "newData"
  BY <1>1, CallAtWork DEF AggregateData, Processing
<1>3. ~Negative(Datum)
  BY <1>1, <1>2 DEF Typed, AggregateData
<1>4. Proper(Datum)
  BY <1>2 DEF Inv, AllProper
<1>5. Datum.type > 0
  BY <1>3, <1>4 DEF Proper, Negative
<1>6. Datum \in rows
  BY <1>1, <1>2 DEF Inv, Cached
<1>7. InSpan(Datum.time, TimeSpan(h, Datum.time))
  BY <1>1, <1>2, NamesOfAggregators, TriggerInSpan DEF Data
<1> HIDE DEF h
<1>8. Datum \in getRelevantObsList(h, Datum)
  <2>1. Datum \in Read(rows, Datum.param, Datum.type, TimeSpan(h, Datum.time))
    BY <1>6, <1>7 DEF Read
  <2> QED BY <1>1, <2>1 DEF getRelevantObsList
<1> QED BY <1>5, <1>8 DEF WithTrigger, h

(* The time of an aggregate.                                               *)
LEMMA TimeOfAggregate ==
  ASSUME NEW h, NEW d, NEW obs, NEW stored, NEW metadata,
         NEW s \in StandardProcess(h, d, obs, stored, metadata), NEW a \in s
  PROVE  a.time = ResultTime(h, d.time)
<1>1. \E useful : s \in Aggregated(h, d, useful, stored, metadata)
  BY DEF StandardProcess
<1>2. \E orig, corr, useful : a = getDataObject(h, d, orig, corr, useful)
  BY <1>1 DEF Aggregated
<1> QED BY <1>2 DEF getDataObject

(* What Among says of one datum of toSave.                                 *)
LowsOf(h, type, stored) == IF h = "ta_24" THEN {r \in stored : r.param = TAN_12 /\ r.type = type} ELSE {}

SourcesOf(h, a, stored) ==
  {r \in stored : /\ r.param \in Aggregators[h].read /\ r.type = -a.type
                /\ InSpan(r.time, <<a.time - Aggregators[h].hours * Hour, a.time>>)}
  \cup LowsOf(h, -a.type, stored)

IsAmong(h, a, stored) ==
  \A field \in Fields :
    a.param = Aggregators[h].write /\ a[field] # Missing =>
      /\ \E r \in SourcesOf(h, a, stored) : r[field] # Missing /\ r[field] <= a[field]
      /\ \E r \in SourcesOf(h, a, stored) : r[field] # Missing /\ a[field] <= r[field]

(* Among in those words.                                                   *)
LEMMA AmongIsAmong ==
  ASSUME NEW h
  PROVE  Among(h) <=> \A i \in DOMAIN out : IsAmong(h, out[i], rows)
BY DEF Among, IsAmong, SourcesOf, LowsOf, Fields

(* A new aggregate.                                                        *)
LEMMA AggregateIsAmong ==
  ASSUME Inv, Typed, Processing, KoppenFraction(scenario.metadata),
         NEW i \in Offered, NEW a \in UNION Outcomes(Registered[i], Datum), NEW h \in Bounded
  PROVE  IsAmong(h, a, rows)
<1> SUFFICES ASSUME NEW field \in Fields, a.param = Aggregators[h].write, a[field] # Missing
             PROVE  /\ \E r \in SourcesOf(h, a, rows) : r[field] # Missing /\ r[field] <= a[field]
                    /\ \E r \in SourcesOf(h, a, rows) : r[field] # Missing /\ a[field] <= r[field]
  BY DEF IsAmong
<1> DEFINE found == getRelevantObsList(h, Datum)
           lows == IF h = "ta_24" THEN {r \in rows : r.param = TAN_12 /\ r.type = Datum.type} ELSE {}
           span == TimeSpan(h, Datum.time)
<1>1. PICK s \in Process(Registered[i], Datum, WithTrigger(getRelevantObsList(Registered[i], Datum), Datum),
                          rows, scenario.metadata) : a \in s
  BY DEF Outcomes
<1>2. IsAggregate(a, Registered[i], Datum)
  BY <1>1, ProcessIsAggregate
<1>3. Registered[i] = h /\ h # "po" /\ h \in Names
  BY <1>2, DirectWriters, OfferedAggregator DEF IsAggregate, Direct
<1>4. Datum.type > 0 /\ WithTrigger(found, Datum) = found
  BY <1>3, DirectTrigger DEF Direct
<1>5. s \in StandardProcess(h, Datum, found, rows, scenario.metadata)
  BY <1>1, <1>3, <1>4 DEF Process
<1>6. Datum \in Data /\ Datum.time \in Int /\ Datum.type \in Int
  BY CallAtWork DEF Data
<1>7. Series(h, Datum.time, found)
  BY <1>3, <1>4, <1>6, OfferedAggregator, ObservationsAreSeries
<1>8. rows \in SUBSET Data /\ IsFiniteSet(rows) /\ scenario.metadata \in Seq(MetadataEntries)
  BY HandlerAssumption DEF Typed, OneForEachKey, Inv, ScenarioAssumptionOf
<1>9. /\ \E r \in found \cup lows : r[field] # Missing /\ r[field] <= a[field]
      /\ \E r \in found \cup lows : r[field] # Missing /\ a[field] <= r[field]
  BY <1>1, <1>5, <1>6, <1>7, <1>8, StandardBetween
<1>10. a.type = -Datum.type /\ -a.type = Datum.type
  BY <1>2, <1>4, <1>6 DEF IsAggregate, Negated
<1>11. span = <<a.time - Aggregators[h].hours * Hour, a.time>>
  <2>1. a.time = ResultTime(h, Datum.time)
    BY <1>1, <1>5, TimeOfAggregate
  <2> QED BY <1>6, <2>1, GeneratedFullHour DEF Direct
<1>12. found \subseteq {r \in rows : /\ r.param \in Aggregators[h].read /\ r.type = Datum.type
                                     /\ InSpan(r.time, span)}
  BY DEF getRelevantObsList, Read
<1>13. found \cup lows \subseteq SourcesOf(h, a, rows)
  BY <1>10, <1>11, <1>12 DEF SourcesOf, LowsOf
<1> HIDE DEF found, lows
<1> QED BY <1>9, <1>13

(* Nothing is stored while anything waits to be saved.                     *)
LEMMA NextInRange ==
  ASSUME Inv, Typed, InRange, [Next]_vars, KoppenFraction(scenario.metadata)
  PROVE  InRange'
<1> SUFFICES ASSUME NEW h \in Bounded
             PROVE  Among(h)'
  BY DEF InRange, Bounded
<1>1. \A i \in DOMAIN out : IsAmong(h, out[i], rows)
  BY AmongIsAmong DEF InRange, Bounded
<1>2. Among(h)' <=> \A i \in DOMAIN out' : IsAmong(h, out'[i], rows')
  BY DEF Among, IsAmong, SourcesOf, LowsOf, Fields
<1>3. CASE UNCHANGED <<rows, out>>
  BY <1>3 DEF Among, InRange, Bounded
<1>4. CASE out' = <<>>
  BY <1>4 DEF Among
<1>5. CASE Aggregate
  <2>1. PICK i \in Offered : \E d \in UNION Outcomes(Registered[i], Datum) : out' = Append(out, d)
    BY <1>5 DEF Aggregate
  <2>2. PICK d \in UNION Outcomes(Registered[i], Datum) : out' = Append(out, d)
    BY <2>1
  <2>3. IsAmong(h, d, rows) /\ rows' = rows
    BY <1>5, AggregateIsAmong DEF Aggregate
  <2>4. \A j \in DOMAIN out' : out'[j] = d \/ (j \in DOMAIN out /\ out'[j] = out[j])
    <3>1. out \in Seq(Range(out))
      BY DEF Inv, IsList
    <3> DEFINE S == Range(out) \cup {d}
    <3>2. out \in Seq(S) /\ d \in S
      BY <3>1
    <3> HIDE DEF S
    <3> QED BY <2>2, <3>2
  <2>5. \A j \in DOMAIN out' : IsAmong(h, out'[j], rows)
    BY <1>1, <2>3, <2>4
  <2> QED BY <1>2, <2>3, <2>5
<1> QED BY <1>3, <1>4, <1>5
        DEF Next, Worker, process, Tick, Shutdown, Receive, TakeEcho, Begin, newData, Uninterested, NoAggregate,
            Return, save, unsaved, saveRefused, End, vars, newDataVars

(* Extremes and means are among what they were made from, Koppen's factors *)
(* being parts of one.                                                     *)
THEOREM InRangeHolds ==
  ASSUME PoYieldsFractions, \A s \in Scenarios : KoppenFraction(s.metadata)
  PROVE  Spec => []InRange
<1>1. Init => InRange
  BY DEF Init, InRange, Among
<1>2. Inv /\ Typed /\ InRange /\ [Next]_vars => InRange'
  BY NextInRange DEF Inv
<1> QED BY <1>1, <1>2, SpecInv, SpecTyped, PTL DEF Spec

-----------------------------------------------------------------------------
(* What is going to be computed.                                           *)

(* The key of the aggregate made for a datum of a message.                 *)
AggregateKey(h, d) == <<Aggregators[h].write, ResultTime(h, d.time), Negated(d.type)>>

(* An aggregator will be offered a datum of the message, or what it made   *)
(* of it waits to be saved.                                                *)
Waits(c, h, d) == c.datum = d /\ \E i \in DOMAIN Registered : Registered[i] = h /\ c.at <= i

Coming(h, d) ==
  \/ d \in data
  \/ \E c \in Range(stack) : Waits(c, h, d)
  \/ \E i \in DOMAIN out : Key(out[i]) = AggregateKey(h, d)

(* The program goes on, and all that matters passes the checks.            *)
Active == ~shutdown /\ Unfiltered /\ scenario.station < ForeignStation

(* No message is processed in between; and while one of a station is,      *)
(* nothing of kvalobs waits.                                               *)
Resting == phase = "idle" => message = {}
Alone == (\E d \in message : ~Negative(d)) => pending = <<>>

(* The empty sequence has no elements.                                     *)
LEMMA NothingComes == Range(<<>>) = {} /\ DOMAIN <<>> = {}
BY DEF Range

(* One element put before a sequence.                                      *)
LEMMA RangeOfCons ==
  ASSUME NEW S, NEW c \in S, NEW s \in Seq(S)
  PROVE  Range(<<c>> \o s) = {c} \cup Range(s)
<1> DEFINE t == <<c>> \o s
<1>1. /\ Len(s) \in Nat /\ DOMAIN s = 1..Len(s) /\ DOMAIN t = 1..(Len(s) + 1) /\ t[1] = c
      /\ \A i \in DOMAIN t : i # 1 => i - 1 \in DOMAIN s /\ t[i] = s[i - 1]
      /\ \A i \in DOMAIN s : i + 1 \in DOMAIN t /\ t[i + 1] = s[i]
  OBVIOUS
<1> HIDE DEF t
<1>2. 1 \in DOMAIN t
  BY <1>1
<1>3. \A x \in Range(t) : x = c \/ x \in Range(s)
  BY <1>1 DEF Range
<1>4. c \in Range(t) /\ \A x \in Range(s) : x \in Range(t)
  BY <1>1, <1>2 DEF Range
<1>5. Range(t) = {c} \cup Range(s)
  BY <1>3, <1>4
<1> QED BY <1>5 DEF t

(* The first element of a sequence, and the others.                        *)
LEMMA RangeOfTail ==
  ASSUME NEW S, NEW s \in Seq(S), s # <<>>
  PROVE  Range(s) = {Head(s)} \cup Range(Tail(s))
<1> DEFINE t == Tail(s)
<1>1. /\ Len(s) \in Nat /\ DOMAIN s = 1..Len(s) /\ DOMAIN t = 1..(Len(s) - 1) /\ Head(s) = s[1] /\ 1 \in DOMAIN s
      /\ \A i \in DOMAIN s : i # 1 => i - 1 \in DOMAIN t /\ t[i - 1] = s[i]
      /\ \A i \in DOMAIN t : i + 1 \in DOMAIN s /\ t[i] = s[i + 1]
  OBVIOUS
<1> HIDE DEF t
<1> QED BY <1>1 DEF Range, t

(* One element more at the end.                                            *)
LEMMA DomainOfAppend ==
  ASSUME NEW S, NEW s \in Seq(S), NEW a \in S
  PROVE  /\ \A i \in DOMAIN s : i \in DOMAIN Append(s, a) /\ Append(s, a)[i] = s[i]
         /\ \A i \in DOMAIN Append(s, a) : Append(s, a)[i] = a \/ (i \in DOMAIN s /\ Append(s, a)[i] = s[i])
         /\ \E i \in DOMAIN Append(s, a) : Append(s, a)[i] = a
<1>1. Len(s) + 1 \in DOMAIN Append(s, a) /\ Append(s, a)[Len(s) + 1] = a
  OBVIOUS
<1> QED BY <1>1

(* Every aggregator is in the list.                                        *)
LEMMA AllRegistered ==
  ASSUME NEW h \in Names
  PROVE  \E i \in DOMAIN Registered : Registered[i] = h /\ 1 <= i
<1>1. /\ DOMAIN Registered = 1..13
      /\ Registered[1] = "tan12" /\ Registered[2] = "tax12" /\ Registered[3] = "tgn12" /\ Registered[4] = "rr_1"
      /\ Registered[5] = "rr_12" /\ Registered[6] = "rr_24" /\ Registered[7] = "ra2rr_b"
      /\ Registered[8] = "ra2rr_f" /\ Registered[9] = "ta_24" /\ Registered[10] = "uu_24"
      /\ Registered[11] = "nn_24" /\ Registered[12] = "po" /\ Registered[13] = "ot_24"
  BY DEF Registered
<1> QED BY <1>1 DEF Names

(* What is computed has the key that is expected.                          *)
LEMMA KeyOfOutcome ==
  ASSUME Inv, Processing, NEW i \in Offered, NEW a \in UNION Outcomes(Registered[i], Datum)
  PROVE  Key(a) = AggregateKey(Registered[i], Datum)
<1> DEFINE h == Registered[i]
<1>1. PICK obs : \E s \in Process(h, Datum, obs, rows, scenario.metadata) : a \in s
  BY DEF Outcomes
<1>2. PICK s \in Process(h, Datum, obs, rows, scenario.metadata) : a \in s
  BY <1>1
<1>3. IsAggregate(a, h, Datum)
  BY <1>2, ProcessIsAggregate
<1>4. a.time = ResultTime(h, Datum.time)
  <2>1. CASE h = "po"
    <3>1. a \in ComputedPo(Datum, obs, scenario.metadata)
      BY <1>2, <2>1 DEF Process, PoProcess
    <3>2. PICK pr, ta, f : a = PoDataObject(Datum, pr, ta, f)
      BY <3>1 DEF ComputedPo
    <3>3. \E sources, orig, corr : a = getDataObject("po", Datum, orig, corr, sources)
      BY <3>2 DEF PoDataObject
    <3> QED BY <2>1, <3>3 DEF getDataObject
  <2>2. CASE h # "po"
    BY <1>2, <2>2, TimeOfAggregate DEF Process
  <2> QED BY <2>1, <2>2
<1> QED BY <1>3, <1>4 DEF IsAggregate, Key, AggregateKey

(* A call of process that waits for an aggregator after this one goes on   *)
(* doing so.                                                               *)
LEMMA StillWaits ==
  ASSUME Inv, Typed, Processing, NEW i \in Offered, NEW h, NEW d,
         NEW c \in Range(stack), Waits(c, h, d), d.param \in Aggregators[h].read
  PROVE  \/ \E b \in Range(GoOn(i)) : Waits(b, h, d)
         \/ c = Head(stack) /\ Datum = d /\ Registered[i] = h
<1> DEFINE top == [Head(stack) EXCEPT !.at = i + 1]
<1>1. Range(stack) = {Head(stack)} \cup Range(Tail(stack)) /\ stack # <<>>
  BY RangeOfTail DEF Typed, Processing
<1>2. i \in 1..13 /\ \A j \in Remaining : i <= j
  <2>1. Remaining \in SUBSET (1..13) /\ Remaining # {} /\ i = Min(Remaining)
    BY RegisteredNames DEF Remaining, Offered
  <2>2. IsFiniteSet(Remaining) /\ Remaining \in SUBSET Int
    <3>1. 1 \in Int /\ 13 \in Int
      OBVIOUS
    <3> QED BY <2>1, <3>1, FinitePart
  <2> QED BY <2>1, <2>2, FirstExists, Extremes
<1>3. top \in ProcessCalls /\ Tail(stack) \in Seq(ProcessCalls) /\ Head(stack) \in ProcessCalls
  BY <1>2, CallAtWork DEF ProcessCalls
<1>4. Range(GoOn(i)) = {top} \cup Range(Tail(stack))
  <2>1. GoOn(i) = <<top>> \o Tail(stack)
    BY DEF GoOn
  <2> HIDE DEF top, ProcessCalls
  <2> QED BY <1>3, <2>1, RangeOfCons
<1>5. CASE c \in Range(Tail(stack))
  BY <1>4, <1>5
<1>6. CASE c = Head(stack)
  <2>1. PICK j \in DOMAIN Registered : Registered[j] = h /\ c.at <= j
    BY DEF Waits
  <2>2. Datum = d /\ j \in Remaining
    BY <1>6, <2>1 DEF Waits, Datum, Remaining
  <2>3. i <= j /\ j \in 1..13
    BY <1>2, <2>2, RegisteredNames
  <2>4. CASE i = j
    BY <1>6, <2>1, <2>2, <2>4
  <2>5. CASE i # j
    <3>1. top.at = i + 1 /\ top.datum = d
      BY <1>3, <1>6, <2>2 DEF ProcessCalls, Datum
    <3>2. i + 1 <= j
      BY <1>2, <2>3, <2>5
    <3> HIDE DEF top
    <3>3. Waits(top, h, d)
      BY <2>1, <3>1, <3>2 DEF Waits
    <3> QED BY <1>4, <3>3
  <2> QED BY <2>4, <2>5
<1> QED BY <1>1, <1>5, <1>6

(* What is coming goes on coming, unless the aggregator is not interested  *)
(* or makes nothing.                                                       *)
LEMMA SkipComing ==
  ASSUME Inv, Typed, Uninterested \/ NoAggregate,
         NEW h, NEW d \in message, d.param \in Aggregators[h].read, Coming(h, d)
  PROVE  \/ Coming(h, d)'
         \/ \E i \in Offered : /\ Datum = d /\ Registered[i] = h
                               /\ ~IsInterestedIn(h, d.time, now) \/ {} \in Outcomes(h, d)
<1>1. /\ Processing
      /\ UNCHANGED <<scenario, now, rows, phase, message, data, accepted, out, pending, shutdown, history>>
  BY DEF Uninterested, NoAggregate
<1>2. PICK i \in Offered : /\ stack' = GoOn(i)
                           /\ \/ ~IsInterestedIn(Registered[i], Datum.time, now)
                              \/ {} \in Outcomes(Registered[i], Datum)
  BY DEF Uninterested, NoAggregate
<1>3. CASE d \in data \/ \E j \in DOMAIN out : Key(out[j]) = AggregateKey(h, d)
  BY <1>1, <1>3 DEF Coming
<1>4. CASE \E c \in Range(stack) : Waits(c, h, d)
  <2>1. (\E b \in Range(GoOn(i)) : Waits(b, h, d)) \/ (Datum = d /\ Registered[i] = h)
    BY <1>1, <1>4, StillWaits
  <2> QED BY <1>2, <2>1 DEF Coming
<1> QED BY <1>3, <1>4 DEF Coming

(* The aggregate that was waited for waits to be saved.                    *)
LEMMA AggregateComing ==
  ASSUME PoYieldsFractions, Inv, Typed, Aggregate,
         NEW h, NEW d \in message, d.param \in Aggregators[h].read, Coming(h, d)
  PROVE  Coming(h, d)'
<1>1. /\ Processing
      /\ UNCHANGED <<scenario, now, rows, phase, message, data, accepted, pending, shutdown, history>>
  BY DEF Aggregate
<1>2. PICK i \in Offered : \E a \in UNION Outcomes(Registered[i], Datum) :
        out' = Append(out, a) /\ stack' = Call(a, GoOn(i))
  BY DEF Aggregate
<1>3. PICK a \in UNION Outcomes(Registered[i], Datum) :
        out' = Append(out, a) /\ stack' = Call(a, GoOn(i))
  BY <1>2
<1>4. a \in AggregateData /\ a \in Data
  BY <1>1, OutcomeIsData DEF AggregateData
<1>5. /\ \A j \in DOMAIN out : j \in DOMAIN out' /\ out'[j] = out[j]
      /\ \E j \in DOMAIN out' : out'[j] = a
  <2>1. out \in Seq(AggregateData) /\ out' = Append(out, a)
    BY <1>3 DEF Typed
  <2> QED BY <1>4, <2>1, DomainOfAppend
<1>6. Range(GoOn(i)) \subseteq Range(stack')
  <2> DEFINE c == [datum |-> a, at |-> 1]
  <2>1. GoOn(i) \in Seq(ProcessCalls) /\ c \in ProcessCalls
    BY <1>1, <1>4, GoOnTyped DEF ProcessCalls
  <2> HIDE DEF c, ProcessCalls
  <2>2. Range(<<c>> \o GoOn(i)) = {c} \cup Range(GoOn(i))
    BY <2>1, RangeOfCons
  <2> QED BY <1>3, <2>2 DEF Call, c
<1>7. CASE d \in data \/ \E j \in DOMAIN out : Key(out[j]) = AggregateKey(h, d)
  BY <1>1, <1>5, <1>7 DEF Coming
<1>8. CASE \E c \in Range(stack) : Waits(c, h, d)
  <2>1. (\E b \in Range(GoOn(i)) : Waits(b, h, d)) \/ (Datum = d /\ Registered[i] = h)
    BY <1>1, <1>8, StillWaits
  <2>2. CASE \E b \in Range(GoOn(i)) : Waits(b, h, d)
    BY <1>6, <2>2 DEF Coming
  <2>3. CASE Datum = d /\ Registered[i] = h
    <3>1. Key(a) = AggregateKey(h, d)
      BY <1>1, <2>3, KeyOfOutcome
    <3> QED BY <1>5, <3>1 DEF Coming
  <2> QED BY <2>1, <2>2, <2>3
<1> QED BY <1>7, <1>8 DEF Coming

(* A call ends when its datum has been offered to every aggregator of it.  *)
LEMMA ReturnComing ==
  ASSUME Inv, Typed, Return, ~shutdown,
         NEW h, NEW d \in message, d.param \in Aggregators[h].read, Coming(h, d)
  PROVE  Coming(h, d)'
<1>1. /\ Processing /\ Offered = {} /\ stack' = Tail(stack)
      /\ UNCHANGED <<scenario, now, rows, phase, message, data, accepted, out, pending, shutdown, history>>
  BY DEF Return
<1>2. Range(stack) = {Head(stack)} \cup Range(Tail(stack))
  BY <1>1, RangeOfTail DEF Typed, Processing
<1>3. CASE d \in data \/ \E j \in DOMAIN out : Key(out[j]) = AggregateKey(h, d)
  BY <1>1, <1>3 DEF Coming
<1>4. CASE \E c \in Range(stack) : Waits(c, h, d)
  <2>1. PICK c \in Range(stack) : Waits(c, h, d)
    BY <1>4
  <2>2. Remaining = {}
    BY <1>1 DEF Offered
  <2>3. ASSUME c = Head(stack) PROVE FALSE
    <3>1. PICK j \in DOMAIN Registered : Registered[j] = h /\ c.at <= j
      BY <2>1 DEF Waits
    <3>2. j \in Remaining
      BY <2>1, <2>3, <3>1 DEF Waits, Datum, Remaining
    <3> QED BY <2>2, <3>2
  <2>4. c \in Range(stack')
    BY <1>1, <1>2, <2>1, <2>3
  <2> QED BY <2>1, <2>4 DEF Coming
<1> QED BY <1>3, <1>4 DEF Coming

(* process is called for a datum that passes the checks.                   *)
LEMMA NewDataComing ==
  ASSUME newData, Unfiltered, NEW h \in Names, NEW d \in message,
         CompleteCheckDecider(d, message, rows, scenario.station), Coming(h, d)
  PROVE  Coming(h, d)'
<1>1. /\ stack = <<>>
      /\ UNCHANGED <<scenario, now, rows, phase, message, out, pending, shutdown, history>>
  BY DEF newData
<1>2. PICK x \in data :
        /\ data' = data \ {x}
        /\ IF CompleteCheckDecider(x, message, rows, scenario.station)
           THEN accepted' = accepted \cup {x} /\ stack' = Call(x, <<>>)
           ELSE UNCHANGED <<accepted, stack>>
  BY DEF newData
<1>3. CASE d \in data' \/ \E j \in DOMAIN out : Key(out[j]) = AggregateKey(h, d)
  BY <1>1, <1>3 DEF Coming
<1>4. CASE d \in data /\ d \notin data'
  <2> DEFINE c == [datum |-> d, at |-> 1]
  <2>1. d = x
    BY <1>2, <1>4
  <2>2. Allowed(d)
    BY DEF Allowed, inIncludeList, Unfiltered
  <2>3. stack' = <<c>> \o <<>>
    BY <1>2, <2>1, <2>2 DEF Call
  <2>4. Range(stack') = {c}
    <3> HIDE DEF c
    <3>1. c \in {c} /\ <<>> \in Seq({c})
      OBVIOUS
    <3>2. Range(<<c>> \o <<>>) = {c} \cup Range(<<>>)
      BY ONLY <3>1, RangeOfCons
    <3> QED BY <2>3, <3>2, NothingComes
  <2>5. Waits(c, h, d)
    BY AllRegistered DEF Waits
  <2> QED BY <2>4, <2>5 DEF Coming
<1> QED BY <1>1, <1>3, <1>4, NothingComes DEF Coming

(* An observation of a station of this country, rain apart, passes.        *)
LEMMA NoRainPasses ==
  ASSUME Inv, Active, NEW d \in message, d.param \notin {RA, RR_1}
  PROVE  CompleteCheckDecider(d, message, rows, scenario.station)
<1>1. scenario.station \in Int /\ scenario.station < ForeignStation
  BY HandlerAssumption DEF Inv, ScenarioAssumptionOf, Active
<1>2. StationRangeFilter(d, scenario.station)
  BY <1>1 DEF StationRangeFilter, ForeignStation
<1>3. RR1OverridesRADecider(d, message, rows)
  BY DEF RR1OverridesRADecider
<1> QED BY <1>2, <1>3 DEF CompleteCheckDecider

(* The message is given up where newData ends.                             *)
LEMMA NextResting == Resting /\ [Next]_vars => Resting'
<1> SUFFICES ASSUME Resting, [Next]_vars PROVE Resting'
  OBVIOUS
<1>1. CASE UNCHANGED <<phase, message>>
  BY <1>1 DEF Resting
<1>2. CASE phase' = "newData"
  BY <1>2 DEF Resting
<1>3. CASE message' = {}
  BY <1>3 DEF Resting
<1> QED BY <1>1, <1>2, <1>3
        DEF Next, Worker, process, Tick, Shutdown, Receive, TakeEcho, Begin, newData, Uninterested, NoAggregate,
            Aggregate, Return, save, unsaved, saveRefused, End, vars, newDataVars

(* The messages of kvalobs are taken first, and have no observations.      *)
LEMMA NextAlone == Inv /\ Alone /\ [Next]_vars => Alone'
<1> SUFFICES ASSUME Inv, Alone, [Next]_vars PROVE Alone'
  OBVIOUS
<1>1. CASE UNCHANGED <<message, pending>>
  BY <1>1 DEF Alone, Negative
<1>2. CASE message' = {}
  BY <1>2 DEF Alone
<1>3. CASE Receive
  BY <1>3 DEF Receive, Alone
<1>4. CASE TakeEcho
  <2>1. pending # <<>> /\ pending \in Seq(Range(pending)) /\ message' = Head(pending)
    BY <1>4 DEF TakeEcho, Begin, Inv, AllProper, IsList
  <2>2. 1 \in DOMAIN pending /\ Head(pending) = pending[1]
    BY <2>1
  <2>3. \A d \in message' : Negative(d)
    BY <2>1, <2>2 DEF Inv, AllProper, Computed
  <2> QED BY <2>3 DEF Alone, Negative
<1> QED BY <1>1, <1>2, <1>3, <1>4
        DEF Next, Worker, process, Tick, Shutdown, newData, Uninterested, NoAggregate,
            Aggregate, Return, save, unsaved, saveRefused, End, vars, newDataVars
-----------------------------------------------------------------------------
(* What is saved, and what kvalobs sends back of it.                       *)

(* What is computed of observations only: an echo of it triggers nothing   *)
(* that changes it.                                                        *)
Firm == {Aggregators[h].write : h \in Direct \cup {"po"}}

(* What waits says what is stored, if it is of these parameters; and in    *)
(* processing such a message nothing is computed for them.                 *)
Echoed == \A i \in DOMAIN pending : \A x \in pending[i] : x.param \in Firm => x \in rows
Observing == (\E i \in DOMAIN out : out[i].param \in Firm) => \E d \in message : ~Negative(d)

Echoing == Resting /\ Alone /\ Echoed /\ Observing

(* Who computes them, and for what.                                        *)
LEMMA FirmOfObserved ==
  ASSUME Inv, Typed, Processing, NEW i \in Offered, NEW a \in UNION Outcomes(Registered[i], Datum),
         a.param \in Firm
  PROVE  /\ Registered[i] \in Direct \cup {"po"} /\ Datum \in message /\ Datum \in Data /\ ~Negative(Datum)
         /\ a.param = Aggregators[Registered[i]].write
<1> DEFINE h == Registered[i]
           obs == WithTrigger(getRelevantObsList(h, Datum), Datum)
<1>1. PICK s \in Process(h, Datum, obs, rows, scenario.metadata) : a \in s
  BY DEF Outcomes
<1>2. a.param = Aggregators[h].write /\ (h = "po" => \E o \in obs : o.param = PR)
  BY <1>1, ProcessIsAggregate DEF IsAggregate
<1>3. h \in Names /\ Datum.param \in Aggregators[h].read
  BY OfferedAggregator
<1>4. h \in Direct \cup {"po"}
  <2>1. CASE \E g \in Direct : a.param = Aggregators[g].write
    BY <1>2, <1>3, <2>1, DirectWriters
  <2>2. CASE a.param = Aggregators["po"].write
    BY <1>2, <1>3, <2>2 DEF Names, Aggregators, Standard, Mean, rr_1, rr_12, rr_24, ra2rr_12, ta_24, uu_24, nn_24,
       ot_24, po, RR_1, RR_12, RR_24, TAM_24, TAN_12, TAX_12, TGN_12, UUM_24, NNM_24, PO, OT_24
  <2> QED BY <2>1, <2>2 DEF Firm
<1>5. ~Negative(Datum)
  <2>1. CASE h \in Direct
    BY <2>1, DirectTrigger, InnermostCall DEF Negative, IsCall, Proper, Datum
  <2>2. CASE h = "po"
    <3>1. PICK o \in obs : o.param = PR
      BY <1>2, <2>2
    <3>2. o = Datum \/ (o \in rows /\ o.type = Datum.type)
      BY ObservationsOfOneType
    <3>3. Proper(o) /\ o.type = Datum.type
      BY <3>2, InnermostCall DEF Inv, AllProper, IsCall, Datum
    <3> QED BY <3>1, <3>3 DEF Proper, Negative
  <2> QED BY <1>4, <2>1, <2>2
<1>6. Datum \in message /\ Datum \in Data
  BY <1>5, CallAtWork DEF AggregateData
<1> QED BY <1>2, <1>4, <1>5, <1>6

(* Of what waits to be saved with one key the last is sent; or it would    *)
(* tell kvalobs nothing.                                                   *)
LEMMA SavedAsComputed ==
  ASSUME Typed, NEW i \in DOMAIN out, out[i].param \in Interesting
  PROVE  \E a \in Put(rows, Sent), j \in DOMAIN out :
           Key(a) = Key(out[i]) /\ Key(out[j]) = Key(out[i]) /\ \A field \in Fields : a[field] = out[j][field]
<1> DEFINE news == {j \in DOMAIN out : out[j].param \in Interesting /\ updatesKvalobs_(out[j])}
           same == {j \in news : Key(out[j]) = Key(out[i])}
<1>1. DOMAIN out = 1..Len(out) /\ Len(out) \in Nat /\ \A j \in DOMAIN out : out[j] \in AggregateData
  BY DEF Typed
<1>2. Sent = {out[j] : j \in {j \in news : \A k \in news : k > j => Key(out[k]) # Key(out[j])}}
  BY DEF Sent
<1>3. CASE same # {}
  <2>1. same \in SUBSET Int /\ IsFiniteSet(same)
    <3>1. same \in SUBSET (1..Len(out)) /\ 1 \in Int /\ Len(out) \in Int
      BY <1>1
    <3>2. IsFiniteSet(same)
      <4> HIDE DEF same
      <4> QED BY <3>1, FinitePart
    <3> QED BY <1>1, <3>2
  <2> DEFINE last == Max(same)
  <2>2. last \in same /\ \A k \in same : k <= last
    <3> HIDE DEF same
    <3> QED BY <1>3, <2>1, Extremes
  <2> HIDE DEF last
  <2>3. \A k \in news : k > last => Key(out[k]) # Key(out[last])
    <3> SUFFICES ASSUME NEW k \in news, k > last, Key(out[k]) = Key(out[last])
                 PROVE  FALSE
      OBVIOUS
    <3>1. k \in same /\ k \in Int /\ last \in Int
      BY <1>1, <2>2
    <3>2. k <= last
      BY <2>2, <3>1
    <3> QED BY <3>1, <3>2
  <2>4. last \in news /\ last \in DOMAIN out /\ Key(out[last]) = Key(out[i])
    BY <2>2
  <2>5. out[last] \in Sent
    <3> HIDE DEF news
    <3> QED BY <1>2, <2>3, <2>4
  <2> QED BY <2>4, <2>5, PutStores
<1>4. CASE same = {}
  <2>1. i \notin news
    BY <1>4
  <2>2. PICK a \in rows : Key(a) = Key(out[i]) /\ ~different_(a, out[i])
    BY <2>1 DEF updatesKvalobs_
  <2>3. \A field \in Fields : a[field] = out[i][field]
    BY <2>2 DEF different_, Fields
  <2>4. \A n \in Sent : Key(n) # Key(a)
    <3> SUFFICES ASSUME NEW n \in Sent, Key(n) = Key(a) PROVE FALSE
      OBVIOUS
    <3>1. PICK j \in news : n = out[j]
      BY <1>2
    <3>2. j \in same
      BY <2>2, <3>1
    <3> QED BY <1>4, <3>2
  <2>5. a \in Put(rows, Sent)
    BY <2>4 DEF Put
  <2> QED BY <2>2, <2>3, <2>5
<1> QED BY <1>3, <1>4

(* What waits after save did so before, or was saved.                      *)
LEMMA PendingAfterSave ==
  ASSUME Inv, save, NEW i \in DOMAIN pending', NEW x \in pending'[i]
  PROVE  x \in Sent \/ \E j \in DOMAIN pending : x \in pending[j]
<1>1. PICK order \in SetToSeqs(Grouped(Sent)) : pending' = pending \o order
  BY DEF save
<1>2. order \in Seq(SUBSET Sent)
  BY SentComputed, OrderOfGroups
<1>3. pending \in Seq(Range(pending))
  BY DEF Inv, AllProper, IsList
<1> DEFINE A == Range(pending) \cup SUBSET Sent
<1>4. pending \in Seq(A) /\ order \in Seq(A)
  BY <1>2, <1>3, SeqMonotonic
<1> HIDE DEF A
<1>5. \/ i \in DOMAIN pending /\ pending'[i] = pending[i]
      \/ \E j \in DOMAIN order : pending'[i] = order[j]
  <2>1. i \in 1..(Len(pending) + Len(order))
    BY <1>1, <1>4, ConcatProperties
  <2>2. CASE i \in 1..Len(pending)
    BY <1>1, <1>4, <2>2
  <2>3. CASE i \in (Len(pending) + 1)..(Len(pending) + Len(order))
    <3>1. i - Len(pending) \in DOMAIN order /\ pending'[i] = order[i - Len(pending)]
      BY <1>1, <1>4, <2>3
    <3> QED BY <3>1
  <2> QED BY <1>4, <2>1, <2>2, <2>3
<1>6. \A j \in DOMAIN order : order[j] \in SUBSET Sent
  BY <1>2
<1> QED BY <1>5, <1>6

(* What waits next, and what waits behind it.                              *)
LEMMA NextEcho ==
  ASSUME Inv, Typed, TakeEcho
  PROVE  LET m == message'
             new == {d \in m : d.param \in Interesting}
         IN  /\ 1 \in DOMAIN pending /\ m = pending[1] /\ rows' = Put(rows, new)
             /\ \A i \in DOMAIN pending' : i + 1 \in DOMAIN pending /\ pending'[i] = pending[i + 1]
             /\ m \subseteq AggregateData /\ \A d \in m : Negative(d)
<1>1. pending \in Seq(Echoes) /\ pending # <<>> /\ message' = Head(pending) /\ pending' = Tail(pending)
      /\ rows' = Put(rows, {d \in message' : d.param \in Interesting})
  BY DEF TakeEcho, Begin, cacheData, Typed
<1>2. /\ 1 \in DOMAIN pending /\ message' = pending[1] /\ message' \in Echoes
      /\ \A i \in DOMAIN pending' : i + 1 \in DOMAIN pending /\ pending'[i] = pending[i + 1]
  <2> HIDE DEF Echoes
  <2> QED BY <1>1
<1>3. message' \subseteq AggregateData /\ \A d \in message' : Negative(d)
  BY <1>2 DEF Echoes, AggregateData
<1> QED BY <1>1, <1>2, <1>3

(* What kvalobs sends back of it changes nothing of it.                    *)
LEMMA EchoKeepsFirm ==
  ASSUME Inv, Typed, Echoing, TakeEcho, NEW x \in rows, x.param \in Firm
  PROVE  x \in rows'
<1> DEFINE new == {d \in message' : d.param \in Interesting}
<1>1. rows' = Put(rows, new) /\ 1 \in DOMAIN pending /\ message' = pending[1]
  BY NextEcho
<1>2. CASE \A n \in new : Key(n) # Key(x)
  BY <1>1, <1>2 DEF Put
<1>3. CASE \E n \in new : Key(n) = Key(x)
  <2>1. PICK n \in new : Key(n) = Key(x)
    BY <1>3
  <2>2. n.param \in Firm
    BY <2>1 DEF Key
  <2>3. n \in rows
    BY <1>1, <2>2 DEF Echoing, Echoed
  <2>4. n = x
    BY <2>1, <2>3 DEF Typed, OneForEachKey
  <2> QED BY <1>1, <2>4, PutStores
<1> QED BY <1>2, <1>3

(* The message of a refused save is stored already.                        *)
LEMMA RefusedKeepsRows == Inv /\ saveRefused => rows' = rows
<1> SUFFICES ASSUME Inv, saveRefused PROVE rows' = rows
  OBVIOUS
<1> DEFINE new == {d \in message : d.param \in Interesting}
<1>1. phase = "newData" /\ rows' = Put(rows, new)
  BY DEF saveRefused, Done, cacheData
<1>2. new \subseteq rows /\ \A r \in rows, n \in new : Key(r) = Key(n) => r \in new
  BY <1>1 DEF Inv, Cached
<1> HIDE DEF new
<1> QED BY <1>1, <1>2 DEF Put

(* The steps that change what waits, what is stored, or what is going to   *)
(* be saved: a message of kvalobs is taken;                                *)
LEMMA TakeEchoEchoing == Inv /\ Typed /\ Echoing /\ TakeEcho => Echoed' /\ Observing'
<1> SUFFICES ASSUME Inv, Typed, Echoing, TakeEcho PROVE Echoed' /\ Observing'
  OBVIOUS
<1>1. out' = <<>>
  BY DEF TakeEcho, Begin
<1>2. ASSUME NEW i \in DOMAIN pending', NEW x \in pending'[i], x.param \in Firm
      PROVE  x \in rows'
  <2>1. x \in rows
    BY <1>2, NextEcho DEF Echoing, Echoed
  <2> QED BY <1>2, <2>1, EchoKeepsFirm
<1>3. Echoed'
  BY <1>2 DEF Echoed, Firm, Direct, Bounded
<1>4. Observing'
  BY <1>1, NothingComes DEF Observing
<1> QED BY <1>3, <1>4

(* what was computed is saved, and kvalobs will send it back;              *)
LEMMA SaveEchoing == Inv /\ Typed /\ Echoing /\ save => Echoed' /\ Observing'
<1> SUFFICES ASSUME Inv, Typed, Echoing, save PROVE Echoed' /\ Observing'
  OBVIOUS
<1>1. out' = <<>> /\ rows' = Put(rows, Sent)
  BY DEF save, End
<1>2. ASSUME NEW i \in DOMAIN pending', NEW x \in pending'[i], x.param \in Firm
      PROVE  x \in rows'
  <2>1. CASE x \in Sent
    BY <1>1, <2>1, PutStores
  <2>2. CASE \E j \in DOMAIN pending : x \in pending[j]
    <3>1. x \in rows
      BY <1>2, <2>2 DEF Echoing, Echoed
    <3>2. \A n \in Sent : Key(n) # Key(x)
      <4> SUFFICES ASSUME NEW n \in Sent, Key(n) = Key(x) PROVE FALSE
        OBVIOUS
      <4>1. n.param \in Firm
        BY <1>2 DEF Key
      <4>2. \E j \in DOMAIN out : n = out[j]
        BY DEF Sent
      <4>3. pending = <<>>
        BY <4>1, <4>2 DEF Echoing, Observing, Alone
      <4> QED BY <2>2, <4>3, NothingComes
    <3> QED BY <1>1, <3>1, <3>2 DEF Put
  <2> QED BY <2>1, <2>2, PendingAfterSave
<1>3. Echoed'
  BY <1>2 DEF Echoed, Firm, Direct, Bounded
<1>4. Observing'
  BY <1>1, NothingComes DEF Observing
<1> QED BY <1>3, <1>4

(* an aggregate is added to what is going to be saved.                     *)
LEMMA AggregateEchoing == PoYieldsFractions /\ Inv /\ Typed /\ Echoing /\ Aggregate => Echoed' /\ Observing'
<1> SUFFICES ASSUME PoYieldsFractions, Inv, Typed, Echoing, Aggregate PROVE Echoed' /\ Observing'
  OBVIOUS
<1>1. Processing /\ UNCHANGED <<rows, message, pending>>
  BY DEF Aggregate
<1> PICK i \in Offered : \E a \in UNION Outcomes(Registered[i], Datum) : out' = Append(out, a)
  BY DEF Aggregate
<1>2. PICK a \in UNION Outcomes(Registered[i], Datum) : out' = Append(out, a)
  OBVIOUS
<1>3. \A j \in DOMAIN out' : out'[j] = a \/ (j \in DOMAIN out /\ out'[j] = out[j])
  <2>1. out \in Seq(AggregateData) /\ a \in AggregateData
    BY <1>1, OutcomeIsData DEF Typed
  <2> QED BY <1>2, <2>1, DomainOfAppend
<1>4. a.param \in Firm => \E d \in message : ~Negative(d)
  BY <1>1, FirmOfObserved
<1>5. Observing'
  BY <1>1, <1>3, <1>4 DEF Echoing, Observing, Firm, Direct, Bounded, Negative
<1>6. Echoed'
  BY <1>1 DEF Echoing, Echoed, Firm, Direct, Bounded
<1> QED BY <1>5, <1>6

(* Every step.                                                             *)
LEMMA NextEchoing == PoYieldsFractions /\ Inv /\ Typed /\ Echoing /\ [Next]_vars => Echoing'
<1> SUFFICES ASSUME PoYieldsFractions, Inv, Typed, Echoing, [Next]_vars PROVE Echoing'
  OBVIOUS
<1>1. Resting' /\ Alone'
  BY NextResting, NextAlone DEF Echoing
<1>2. CASE UNCHANGED <<rows, message, out, pending>>
  BY <1>1, <1>2 DEF Echoing, Echoed, Observing, Firm, Direct, Bounded, Negative
<1>3. CASE out' = <<>> /\ UNCHANGED <<rows, pending>>
  BY <1>1, <1>3, NothingComes DEF Echoing, Echoed, Observing, Firm, Direct, Bounded
<1>4. CASE Receive
  <2>1. out' = <<>> /\ pending' = <<>>
    BY <1>4 DEF Receive, Begin
  <2> QED BY <1>1, <2>1, NothingComes DEF Echoing, Echoed, Observing
<1>5. CASE saveRefused
  <2>1. rows' = rows
    BY <1>5, RefusedKeepsRows
  <2> QED BY <1>3, <1>5, <2>1 DEF saveRefused
<1> QED BY <1>1, <1>2, <1>3, <1>4, <1>5, TakeEchoEchoing, SaveEchoing, AggregateEchoing
        DEF Echoing, Next, Worker, process, Tick, Shutdown, newData, Uninterested, NoAggregate,
            Return, unsaved, End, vars, newDataVars

(* At the start nothing waits.                                             *)
LEMMA InitEchoing == Init => Echoing
BY NothingComes DEF Init, Echoing, Resting, Alone, Echoed, Observing

-----------------------------------------------------------------------------
(* Aggregates of whole periods.                                            *)

(* The cases of Expected.                                                  *)
LEMMA ExpectedCases ==
  ASSUME NEW h \in Divided, NEW obs, NEW field
  PROVE  LET or(value) == IF Missing \in Values(obs, field) THEN Missing ELSE value
             e == Expected(h, obs, field)
         IN  /\ h \in MinAggregators => e = or(CHOOSE v \in Values(obs, field) : \A r \in obs : v <= r[field])
             /\ h = "tax12" => e = or(CHOOSE v \in Values(obs, field) : \A r \in obs : r[field] <= v)
             /\ h = "rr_12" => e = or(RainOf(obs, field))
             /\ h = "ot_24" => e = or(Total(obs, field))
<1> DEFINE lowest == CHOOSE v \in Values(obs, field) : \A r \in obs : v <= r[field]
           highest == CHOOSE v \in Values(obs, field) : \A r \in obs : r[field] <= v
           rain == RainOf(obs, field)
           total == Total(obs, field)
<1>1. Expected(h, obs, field) =
        IF Missing \in Values(obs, field) THEN Missing
        ELSE CASE h \in MinAggregators -> lowest [] h = "tax12" -> highest
               [] h = "rr_12" -> rain [] h = "ot_24" -> total
  BY Zenon DEF Expected, OrMissing
<1> HIDE DEF lowest, highest, rain, total
<1>2. /\ h \in MinAggregators => Expected(h, obs, field) = IF Missing \in Values(obs, field) THEN Missing ELSE lowest
      /\ h = "tax12" => Expected(h, obs, field) = IF Missing \in Values(obs, field) THEN Missing ELSE highest
      /\ h = "rr_12" => Expected(h, obs, field) = IF Missing \in Values(obs, field) THEN Missing ELSE rain
      /\ h = "ot_24" => Expected(h, obs, field) = IF Missing \in Values(obs, field) THEN Missing ELSE total
  BY <1>1 DEF MinAggregators
<1> QED BY <1>2, Zenon DEF lowest, highest, rain, total

(* The rain of the hours is what rr_12 adds up.                            *)
LEMMA RainIsSum ==
  ASSUME NEW obs, NEW field
  PROVE  RainOf(obs, field) = RainSum(obs, field)
BY Zenon DEF RainOf, RainSum, Total

(* What Expected says is what the aggregators of extremes, of sunshine and *)
(* of the rain of half days calculate.                                     *)
LEMMA CalculatedAsExpected ==
  ASSUME NEW h \in Divided, NEW obs \in SUBSET Data, IsFiniteSet(obs), obs # {}, NEW field \in Fields,
         NEW extra, extra.low[field] # Missing
  PROVE  ValueOf(h, obs, field, extra) = Expected(h, obs, field)
<1> DEFINE V == Values(obs, field)
<1>1. V \in SUBSET Int /\ V # {} /\ IsFiniteSet(V)
  BY FiniteValues DEF Values, Data, Fields
<1>2. \A n \in Int : Round(<<n, 1>>) = n
  BY WholeNotRounded
<1>3. /\ Min(V) \in V /\ \A x \in V : Min(V) <= x
      /\ Max(V) \in V /\ \A x \in V : x <= Max(V)
  BY <1>1, Extremes
<1>4. V = {o[field] : o \in obs}
  BY DEF Values
<1> HIDE DEF V
<1>5. CASE h \in MinAggregators
  <2> DEFINE v == CHOOSE x \in V : \A r \in obs : x <= r[field]
  <2>1. v \in V /\ \A r \in obs : v <= r[field]
    BY <1>3, <1>4
  <2>2. v = Min(V)
    <3> HIDE DEF v
    <3>1. v \in Int /\ Min(V) \in Int
      BY <1>1, <1>3, <2>1
    <3>2. v <= Min(V) /\ Min(V) <= v
      BY <1>3, <1>4, <2>1
    <3> QED BY <3>1, <3>2
  <2>3. Round(Calculate(h, obs, field, extra)) = Min(V)
    <3>1. Calculate(h, obs, field, extra) = <<Min(V), 1>>
      BY <1>5, CalculateCases DEF Extreme, Timed, MinMaxAggregators, MinAggregators, V
    <3> QED BY <1>1, <1>2, <1>3, <3>1
  <2>4. Expected(h, obs, field) = IF Missing \in V THEN Missing ELSE v
    BY <1>5, ExpectedCases DEF V
  <2> QED BY <2>2, <2>3, <2>4 DEF ValueOf, V
<1>6. CASE h = "tax12"
  <2> DEFINE v == CHOOSE x \in V : \A r \in obs : r[field] <= x
  <2>1. v \in V /\ \A r \in obs : r[field] <= v
    BY <1>3, <1>4
  <2>2. v = Max(V)
    <3> HIDE DEF v
    <3>1. v \in Int /\ Max(V) \in Int
      BY <1>1, <1>3, <2>1
    <3>2. v <= Max(V) /\ Max(V) <= v
      BY <1>3, <1>4, <2>1
    <3> QED BY <3>1, <3>2
  <2>3. Round(Calculate(h, obs, field, extra)) = Max(V)
    <3>1. Calculate(h, obs, field, extra) = <<Max(V), 1>>
      BY <1>6, CalculateCases DEF Extreme, Timed, MinMaxAggregators, MinAggregators, V
    <3> QED BY <1>1, <1>2, <1>3, <3>1
  <2>4. Expected(h, obs, field) = IF Missing \in V THEN Missing ELSE v
    BY <1>6, ExpectedCases DEF V
  <2> QED BY <2>2, <2>3, <2>4, <1>6 DEF ValueOf, V
<1>7. CASE h = "ot_24"
  <2>1. Calculate(h, obs, field, extra) = <<Total(obs, field), 1>>
    BY <1>7 DEF Calculate, MinMaxAggregators, MinAggregators, GaugeAggregators
  <2>2. Total(obs, field) \in Int
    BY TotalIsInteger DEF Data, Fields
  <2>3. Expected(h, obs, field) = IF Missing \in V THEN Missing ELSE Total(obs, field)
    BY <1>7, ExpectedCases DEF V
  <2> QED BY <1>2, <2>1, <2>2, <2>3 DEF ValueOf, V
<1>8. CASE h = "rr_12"
  <2>1. Calculate(h, obs, field, extra) = <<RainSum(obs, field), 1>>
    BY <1>8, CalculateCases DEF Timed
  <2>2. RainSum(obs, field) \in Int
    BY RainSumIs
  <2>3. Expected(h, obs, field) = IF Missing \in V THEN Missing ELSE RainSum(obs, field)
    BY <1>8, ExpectedCases, RainIsSum DEF V
  <2> QED BY <1>2, <2>1, <2>2, <2>3 DEF ValueOf, V
<1> QED BY <1>5, <1>6, <1>7, <1>8 DEF Divided, Parted, MinMaxAggregators

(* Of a whole period an aggregate is made, and the one that is expected.   *)
LEMMA WholeIsAggregated ==
  ASSUME NEW h \in Divided, NEW d \in Data, NEW obs, Series(h, d.time, obs),
         Hourly(obs, GenerateTime(h, d.time), Aggregators[h].hours),
         NEW stored, NEW metadata, NEW s \in StandardProcess(h, d, obs, stored, metadata)
  PROVE  s # {} /\ \A a \in s, field \in Fields : a[field] = Expected(h, obs, field)
<1> DEFINE end == GenerateTime(h, d.time)
           hours == Aggregators[h].hours
<1>1. h \in Direct \cup {"rr_12", "rr_24"} /\ d.time \in Int /\ h \in Timed \ {"ta_24", "uu_24"}
  BY DEF Divided, Parted, Direct, Bounded, MinMaxAggregators, MinAggregators, Data, Timed
<1>2. end \in Int /\ end % Hour = 0
  BY <1>1, GeneratedFullHour
<1>3. hours \in Nat \ {0}
  BY DEF Divided, Parted, MinMaxAggregators, MinAggregators, Aggregators, Standard, rr_12, ot_24
<1>4. obs \in SUBSET Data /\ IsFiniteSet(obs)
  BY DEF Series
<1>5. Cardinality(obs) = hours /\ FullHours(obs) = obs /\ obs # {}
  <2>1. Times(obs) = {end - n * Hour : n \in 0..(hours - 1)}
    BY DEF Hourly
  <2> HIDE DEF end, hours
  <2> QED BY <1>2, <1>3, <1>4, <2>1, HoursOfPeriod DEF Series
<1>6. Useful(h, d.time, obs) = {obs}
  <2>1. Enough(h, obs) /\ WithinSpan(h, d.time, obs)
    BY <1>3, <1>5 DEF Enough, WithinSpan, Series
  <2>2. CASE h \in MinMaxAggregators
    BY <1>1, <2>1, <2>2, UsefulCases
  <2>3. CASE h = "ot_24"
    BY <1>1, <1>5, <2>1, <2>3, UsefulCases
  <2>4. CASE h = "rr_12"
    BY <1>1, <2>1, <2>4, UsefulCases
  <2> QED BY <2>2, <2>3, <2>4 DEF Divided, Parted
<1>7. s # {} /\ IsMadeOf(s, h, obs)
  BY <1>1, <1>6, MadeOfSelection
<1>8. PICK extra : /\ \A field \in Fields : extra.low[field] # Missing
                   /\ \A a \in s, field \in Fields : a[field] = ValueOf(h, obs, field, extra)
  BY <1>7 DEF IsMadeOf
<1>9. \A field \in Fields : ValueOf(h, obs, field, extra) = Expected(h, obs, field)
  BY <1>4, <1>5, <1>8, CalculatedAsExpected
<1> QED BY <1>7, <1>8, <1>9

-----------------------------------------------------------------------------
(* The aggregates of whole periods follow what they are made of.           *)

(* A period, the aggregate of it, and whether that is right; of what is    *)
(* stored.                                                                 *)
Period(h, d, stored) == Read(stored, d.param, d.type, StandardSpan(h, d.time))
WholeIn(h, d, stored) == Hourly(Period(h, d, stored), GenerateTime(h, d.time), Aggregators[h].hours)

Right(h, d, a, stored) ==
  Key(a) = AggregateKey(h, d) /\ \A field \in Fields : a[field] = Expected(h, Period(h, d, stored), field)

SamePeriod(h, a, b) ==
  a.param = b.param /\ a.type = b.type /\ GenerateTime(h, a.time) = GenerateTime(h, b.time)

(* Aggregates come from the past, and observations as well.                *)
Past == \A r \in rows : IF Negative(r) THEN r.param \in Written ELSE r.time <= now

(* What waits to be saved is right, if the period is whole.                *)
RightFrom(a, received, stored) ==
  \A h \in Parted : a.param = Aggregators[h].write =>
    \E d \in received : /\ d.param \in Aggregators[h].read /\ Key(a) = AggregateKey(h, d)
                        /\ WholeIn(h, d, stored) => Right(h, d, a, stored)

OutRight == \A i \in DOMAIN out : RightFrom(out[i], message, rows)

(* The aggregate of a whole period is right, or will be computed anew for  *)
(* a datum of the message, or was.                                         *)
Given(h, r) ==
  \/ \E a \in rows : Right(h, r, a, rows)
  \/ \E d \in message : SamePeriod(h, d, r) /\ Coming(h, d)

Covered ==
  Active => \A h \in Parted, r \in rows : r.param \in Aggregators[h].read /\ WholeIn(h, r, rows) => Given(h, r)

Following == Past /\ OutRight /\ Covered

-----------------------------------------------------------------------------
(* About periods.                                                          *)

(* The aggregators of extremes and of sunshine read one parameter, which   *)
(* none writes, and nothing reads what they write.                         *)
LEMMA PartedAggregators ==
  ASSUME NEW h \in Parted
  PROVE  /\ h \in Direct /\ h \in Names /\ h # "po" /\ h \in Timed
         /\ \E p : Aggregators[h].read = {p}
         /\ \A p \in Aggregators[h].read : p \in Interesting /\ p \notin Written /\ p \notin {RA, RR_1}
         /\ Aggregators[h].write \in Interesting
<1>1. h \in {"tan12", "tax12", "tgn12", "ot_24"}
  BY DEF Parted, MinMaxAggregators, MinAggregators
<1>2. h \in Direct /\ h \in Names /\ h # "po" /\ h \in Timed
  BY <1>1 DEF Direct, Bounded, MinMaxAggregators, MinAggregators, Names, Timed
<1>3. Aggregators[h].read = CASE h = "tan12" -> {TAN} [] h = "tax12" -> {TAX}
                              [] h = "tgn12" -> {TGN} [] h = "ot_24" -> {OT_1}
  BY <1>1 DEF Aggregators, Standard, ot_24
<1>4. \E p : Aggregators[h].read = {p}
  BY <1>1, <1>3
<1>5. \A p \in Aggregators[h].read : p \in Interesting /\ p \notin Written
  BY <1>2, DirectWriters
<1>6. \A p \in Aggregators[h].read : p \notin {RA, RR_1}
  BY <1>1, <1>3 DEF TAN, TAX, TGN, OT_1, RA, RR_1
<1>7. Aggregators[h].write \in Interesting
  BY <1>2, NamesOfAggregators DEF Interesting
<1> QED BY <1>2, <1>4, <1>5, <1>6, <1>7

(* Data of one period have the same period.                                *)
LEMMA OfOnePeriod ==
  ASSUME NEW h \in Divided, NEW a \in Data, NEW b \in Data, SamePeriod(h, a, b), NEW stored
  PROVE  /\ Period(h, a, stored) = Period(h, b, stored) /\ AggregateKey(h, a) = AggregateKey(h, b)
         /\ WholeIn(h, a, stored) <=> WholeIn(h, b, stored)
         /\ \A x : Right(h, a, x, stored) <=> Right(h, b, x, stored)
<1>1. Period(h, a, stored) = Period(h, b, stored)
  BY DEF SamePeriod, Period, StandardSpan
<1>2. ResultTime(h, a.time) = ResultTime(h, b.time)
  BY PartedAggregators, GeneratedFullHour DEF SamePeriod, Data, Divided
<1> QED BY <1>1, <1>2 DEF WholeIn, Right, SamePeriod, AggregateKey

(* What is stored outside of a period does not change it.                  *)
LEMMA PeriodKept ==
  ASSUME NEW h \in Divided, NEW stored \in SUBSET Data, NEW new \in SUBSET Data, NEW r \in Data,
         \A n \in new : ~SamePeriod(h, n, r)
  PROVE  Period(h, r, Put(stored, new)) = Period(h, r, stored)
<1> DEFINE In(x) == x.param = r.param /\ x.type = r.type /\ InSpan(x.time, StandardSpan(h, r.time))
<1>1. ASSUME NEW n \in new PROVE ~In(n)
  <2>1. n.time \in Int /\ r.time \in Int
    BY DEF Data
  <2>2. In(n) => SamePeriod(h, n, r)
    BY <2>1, OnePeriod DEF SamePeriod
  <2> QED BY <2>2
<1>2. ASSUME NEW x \in stored, NEW n \in new, In(x) PROVE Key(n) # Key(x)
  BY <1>1, <1>2 DEF Key
<1> QED BY <1>1, <1>2 DEF Period, Read, Put

(* What is observed has a positive type.                                   *)
LEMMA SourceIsObserved ==
  ASSUME Inv, Past, NEW h \in Parted, NEW r \in rows, r.param \in Aggregators[h].read
  PROVE  r.type \in Int /\ r.type > 0 /\ r.time <= now
<1>1. ~Negative(r) /\ r.time <= now
  BY PartedAggregators DEF Past
<1> QED BY <1>1 DEF Inv, AllProper, Proper, Negative

(* What process has of a call for a whole period.                          *)
LEMMA SourcesAtWork ==
  ASSUME Inv, Typed, Processing, NEW i \in Offered, Registered[i] \in Parted
  PROVE  LET h == Registered[i]
             found == Period(h, Datum, rows)
         IN  /\ Datum \in Data /\ Datum \in message /\ Datum.param \in Aggregators[h].read /\ Datum.type > 0
             /\ Series(h, Datum.time, found)
             /\ Outcomes(h, Datum) = StandardProcess(h, Datum, found, rows, scenario.metadata)
<1> DEFINE h == Registered[i]
           found == getRelevantObsList(h, Datum)
<1>1. /\ h \in Direct /\ h \in Names /\ h # "po" /\ Datum.param \in Aggregators[h].read
      /\ Datum.param \notin Written /\ \E p : Aggregators[h].read = {p}
  BY PartedAggregators, OfferedAggregator
<1>2. Datum \in Data /\ Datum \in message
  BY <1>1, CallAtWork DEF AggregateData
<1>3. Datum.type > 0 /\ WithTrigger(found, Datum) = found
  BY <1>1, DirectTrigger
<1>4. TimeSpan(h, Datum.time) = StandardSpan(h, Datum.time)
  BY <1>1, <1>2, GeneratedFullHour DEF Data
<1> HIDE DEF h
<1>5. found = Period(h, Datum, rows)
  <2>1. Aggregators[h].read = {Datum.param}
    BY <1>1
  <2> QED BY <1>4, <2>1 DEF getRelevantObsList, Period
<1> HIDE DEF found
<1>6. Series(h, Datum.time, found)
  BY <1>1, <1>2, <1>3, ObservationsAreSeries DEF found
<1>7. Outcomes(h, Datum) = StandardProcess(h, Datum, found, rows, scenario.metadata)
  BY <1>1, <1>3 DEF Outcomes, Process, found
<1> QED BY <1>1, <1>2, <1>3, <1>5, <1>6, <1>7 DEF h

(* The aggregate that is computed.                                         *)
LEMMA NewIsRight ==
  ASSUME Inv, Typed, Processing, NEW i \in Offered, NEW a \in UNION Outcomes(Registered[i], Datum)
  PROVE  /\ RightFrom(a, message, rows)
         /\ Registered[i] \in Parted => Key(a) = AggregateKey(Registered[i], Datum)
<1> SUFFICES ASSUME NEW h \in Parted, a.param = Aggregators[h].write \/ h = Registered[i]
             PROVE  /\ Registered[i] = h /\ Datum \in message /\ Datum.param \in Aggregators[h].read
                    /\ Key(a) = AggregateKey(h, Datum)
                    /\ WholeIn(h, Datum, rows) => Right(h, Datum, a, rows)
  BY DEF RightFrom
<1>1. PICK obs : \E s \in Process(Registered[i], Datum, obs, rows, scenario.metadata) : a \in s
  BY DEF Outcomes
<1>2. IsAggregate(a, Registered[i], Datum)
  BY <1>1, ProcessIsAggregate
<1>3. Registered[i] = h
  BY <1>2, PartedAggregators, DirectWriters, OfferedAggregator DEF IsAggregate
<1> DEFINE found == Period(h, Datum, rows)
<1>4. /\ Datum \in Data /\ Datum \in message /\ Datum.param \in Aggregators[h].read /\ Datum.type > 0
      /\ Series(h, Datum.time, found)
      /\ Outcomes(h, Datum) = StandardProcess(h, Datum, found, rows, scenario.metadata)
  BY <1>3, SourcesAtWork
<1>5. PICK s \in StandardProcess(h, Datum, found, rows, scenario.metadata) : a \in s
  BY <1>3, <1>4
<1>6. a.time = ResultTime(h, Datum.time)
  BY <1>5, TimeOfAggregate
<1>7. Key(a) = AggregateKey(h, Datum)
  BY <1>2, <1>3, <1>4, <1>6 DEF IsAggregate, Negated, Key, AggregateKey
<1>8. WholeIn(h, Datum, rows) => \A field \in Fields : a[field] = Expected(h, found, field)
  <2> HIDE DEF found
  <2> QED BY <1>4, <1>5, WholeIsAggregated DEF WholeIn, found, Divided
<1> QED BY <1>3, <1>4, <1>7, <1>8 DEF Right

(* It is time for the aggregate of a whole period, and there is one.       *)
LEMMA WholeIsTimely ==
  ASSUME Inv, Typed, Past, Processing, NEW i \in Offered, Registered[i] \in Parted,
         WholeIn(Registered[i], Datum, rows)
  PROVE  IsInterestedIn(Registered[i], Datum.time, now) /\ {} \notin Outcomes(Registered[i], Datum)
<1> DEFINE h == Registered[i]
           found == Period(h, Datum, rows)
           end == GenerateTime(h, Datum.time)
           hours == Aggregators[h].hours
<1>1. /\ Datum \in Data /\ Datum \in message /\ Datum.param \in Aggregators[h].read /\ Datum.type > 0
      /\ Series(h, Datum.time, found)
      /\ Outcomes(h, Datum) = StandardProcess(h, Datum, found, rows, scenario.metadata)
  BY SourcesAtWork
<1>2. {} \notin Outcomes(h, Datum)
  <2> HIDE DEF found
  <2> QED BY <1>1, WholeIsAggregated DEF WholeIn, found, Divided
<1>3. end \in Int /\ end % Hour = 0 /\ TimeSpan(h, Datum.time)[2] = end
  BY <1>1, PartedAggregators, GeneratedFullHour DEF Data
<1>4. hours \in Nat \ {0}
  BY DEF Parted, MinMaxAggregators, MinAggregators, Aggregators, Standard, ot_24
<1>5. Times(found) = {end - n * Hour : n \in 0..(hours - 1)}
  BY DEF WholeIn, Hourly
<1>6. found \subseteq rows /\ \A o \in found : o.param = Datum.param
  BY DEF Period, Read
<1> HIDE DEF found, end, hours
<1>7. PICK o \in found : o.time = end
  BY <1>1, <1>3, <1>4, <1>5, HoursOfPeriod DEF Series
<1>8. end <= now
  BY <1>1, <1>6, <1>7, SourceIsObserved
<1>9. now \in Int
  BY HandlerAssumption DEF Typed, Inv, ScenarioAssumptionOf
<1>10. IsInterestedIn(h, Datum.time, now)
  BY <1>3, <1>8, <1>9 DEF IsInterestedIn, Hour
<1> QED BY <1>2, <1>10

-----------------------------------------------------------------------------
(* Steps in the course of newData.                                         *)

(* While nothing is stored, what is coming has to go on coming.            *)
LEMMA WorkingFollowing ==
  ASSUME Typed, Following, UNCHANGED <<scenario, now, rows, message, pending, shutdown>>,
         \A i \in DOMAIN out' : RightFrom(out'[i], message, rows),
         \A h \in Parted, d \in message :
           Active /\ d.param \in Aggregators[h].read /\ WholeIn(h, d, rows) /\ Coming(h, d) => Coming(h, d)'
  PROVE  Following'
<1>1. Past'
  BY DEF Following, Past
<1>2. OutRight'
  BY DEF OutRight
<1>3. Covered'
  <2> SUFFICES ASSUME Active', NEW h \in Parted, NEW r \in rows, r.param \in Aggregators[h].read,
                      WholeIn(h, r, rows)
               PROVE  Given(h, r)'
    BY DEF Covered
  <2>1. Active
    BY DEF Active, Unfiltered
  <2>2. Given(h, r)
    BY <2>1 DEF Following, Covered
  <2>3. CASE \E a \in rows : Right(h, r, a, rows)
    BY <2>3 DEF Given
  <2>4. CASE \E d \in message : SamePeriod(h, d, r) /\ Coming(h, d)
    <3>1. PICK d \in message : SamePeriod(h, d, r) /\ Coming(h, d)
      BY <2>4
    <3>2. d.param \in Aggregators[h].read /\ WholeIn(h, d, rows)
      BY <3>1, OfOnePeriod DEF SamePeriod, Typed, OneForEachKey, Divided
    <3>3. Coming(h, d)'
      BY <2>1, <3>1, <3>2
    <3> QED BY <3>1, <3>3 DEF Given
  <2> QED BY <2>2, <2>3, <2>4 DEF Given
<1> QED BY <1>1, <1>2, <1>3 DEF Following

(* An aggregator that makes nothing was not to make one of a whole period. *)
LEMMA SkipFollowing == Inv /\ Typed /\ Following /\ (Uninterested \/ NoAggregate) => Following'
<1> SUFFICES ASSUME Inv, Typed, Following, Uninterested \/ NoAggregate PROVE Following'
  OBVIOUS
<1>1. /\ Processing
      /\ UNCHANGED <<scenario, now, rows, phase, message, data, accepted, out, pending, shutdown, history>>
  BY DEF Uninterested, NoAggregate
<1>2. ASSUME NEW h \in Parted, NEW d \in message, Active, d.param \in Aggregators[h].read, WholeIn(h, d, rows),
             Coming(h, d)
      PROVE  Coming(h, d)'
  <2>1. ASSUME NEW i \in Offered, Datum = d, Registered[i] = h
        PROVE  ~(~IsInterestedIn(h, d.time, now) \/ {} \in Outcomes(h, d))
    BY <1>1, <1>2, <2>1, WholeIsTimely DEF Following
  <2> QED BY <1>2, <2>1, SkipComing
<1>3. \A j \in DOMAIN out' : RightFrom(out'[j], message, rows)
  BY <1>1 DEF Following, OutRight
<1> QED BY <1>1, <1>2, <1>3, WorkingFollowing

(* The aggregate that was waited for, if of a whole period, is right.      *)
LEMMA AggregateFollowing == PoYieldsFractions /\ Inv /\ Typed /\ Following /\ Aggregate => Following'
<1> SUFFICES ASSUME PoYieldsFractions, Inv, Typed, Following, Aggregate PROVE Following'
  OBVIOUS
<1>1. /\ Processing
      /\ UNCHANGED <<scenario, now, rows, phase, message, data, accepted, pending, shutdown, history>>
  BY DEF Aggregate
<1> PICK i \in Offered : \E a \in UNION Outcomes(Registered[i], Datum) : out' = Append(out, a)
  BY DEF Aggregate
<1>2. PICK a \in UNION Outcomes(Registered[i], Datum) : out' = Append(out, a)
  OBVIOUS
<1>3. \A j \in DOMAIN out' : out'[j] = a \/ (j \in DOMAIN out /\ out'[j] = out[j])
  <2>1. out \in Seq(AggregateData) /\ a \in AggregateData
    BY <1>1, OutcomeIsData DEF Typed
  <2> QED BY <1>2, <2>1, DomainOfAppend
<1>4. \A j \in DOMAIN out' : RightFrom(out'[j], message, rows)
  BY <1>1, <1>3, NewIsRight DEF Following, OutRight
<1>5. ASSUME NEW h \in Parted, NEW d \in message, d.param \in Aggregators[h].read, Coming(h, d)
      PROVE  Coming(h, d)'
  <2>1. ~Negative(d)
    BY <1>5, PartedAggregators DEF Typed, AggregateData
  <2> QED BY <1>5, <2>1, AggregateComing
<1> QED BY <1>1, <1>4, <1>5, WorkingFollowing

(* A call that ends has offered its datum to every aggregator of it.       *)
LEMMA ReturnFollowing == Inv /\ Typed /\ Following /\ Return => Following'
<1> SUFFICES ASSUME Inv, Typed, Following, Return PROVE Following'
  OBVIOUS
<1>1. UNCHANGED <<scenario, now, rows, phase, message, data, accepted, out, pending, shutdown, history>>
  BY DEF Return
<1>2. \A j \in DOMAIN out' : RightFrom(out'[j], message, rows)
  BY <1>1 DEF Following, OutRight
<1> QED BY <1>1, <1>2, ReturnComing, WorkingFollowing DEF Active

(* A datum of a whole period passes the checks, and process is called.     *)
LEMMA NewDataFollowing == Inv /\ Typed /\ Following /\ newData => Following'
<1> SUFFICES ASSUME Inv, Typed, Following, newData PROVE Following'
  OBVIOUS
<1>1. UNCHANGED <<scenario, now, rows, phase, message, out, pending, shutdown, history>>
  BY DEF newData
<1>2. ASSUME NEW h \in Parted, NEW d \in message, Active, d.param \in Aggregators[h].read, Coming(h, d)
      PROVE  Coming(h, d)'
  <2>1. h \in Names /\ d.param \notin {RA, RR_1}
    BY <1>2, PartedAggregators
  <2>2. CompleteCheckDecider(d, message, rows, scenario.station)
    BY <1>2, <2>1, NoRainPasses
  <2> QED BY <1>2, <2>1, <2>2, NewDataComing DEF Active
<1>3. \A j \in DOMAIN out' : RightFrom(out'[j], message, rows)
  BY <1>1 DEF Following, OutRight
<1> QED BY <1>1, <1>2, <1>3, WorkingFollowing

-----------------------------------------------------------------------------
(* Steps that store something.                                             *)

(* An extreme is computed of what was observed, and of one period for each *)
(* key.                                                                    *)
LEMMA KeyOfPeriod ==
  ASSUME NEW h \in Parted, NEW d \in Data, NEW r \in Data,
         d.param \in Aggregators[h].read, r.param \in Aggregators[h].read, d.type > 0, r.type > 0,
         AggregateKey(h, d) = AggregateKey(h, r)
  PROVE  SamePeriod(h, d, r)
<1>1. d.param = r.param
  BY PartedAggregators
<1>2. d.type = r.type
  BY DEF AggregateKey, Negated, Data
<1>3. ResultTime(h, d.time) = GenerateTime(h, d.time) /\ ResultTime(h, r.time) = GenerateTime(h, r.time)
  BY PartedAggregators, GeneratedFullHour DEF Data
<1> QED BY <1>1, <1>2, <1>3 DEF SamePeriod, AggregateKey

(* The message of a station is stored: the aggregates of periods that it   *)
(* has nothing of stay, the others are coming.                             *)
LEMMA ReceiveFollowing == Inv /\ Typed /\ Echoing /\ Following /\ Receive => Following'
<1> SUFFICES ASSUME Inv, Typed, Echoing, Following, Receive PROVE Following'
  OBVIOUS
<1>1. PICK m \in scenario.messages : Begin(m) /\ \A d \in m : d.time <= now
  BY DEF Receive
<1> DEFINE new == {d \in m : d.param \in Interesting}
<1>3. /\ phase = "idle" /\ rows' = Put(rows, new) /\ message' = m /\ data' = m
      /\ stack' = <<>> /\ out' = <<>> /\ UNCHANGED <<scenario, now, shutdown>>
  BY <1>1 DEF Begin, cacheData
<1>4. OneForEachKey(m) /\ \A d \in m : ~Negative(d)
  BY HandlerAssumption DEF Inv, ScenarioAssumptionOf
<1>5. message = {} /\ rows \in SUBSET Data /\ new \in SUBSET Data
  BY <1>3, <1>4 DEF Echoing, Resting, Typed, OneForEachKey
<1>6. Past'
  <2> SUFFICES ASSUME NEW r \in rows'
               PROVE  (IF Negative(r) THEN r.param \in Written ELSE r.time <= now')
    BY DEF Past, Written, Negative
  <2>1. r \in rows \/ r \in new
    BY <1>3, PutStores
  <2> QED BY <1>1, <1>3, <1>4, <2>1 DEF Following, Past
<1>7. OutRight'
  BY <1>3, NothingComes DEF OutRight
<1>8. Covered'
  <2> SUFFICES ASSUME Active', NEW h \in Parted, NEW r \in rows', r.param \in Aggregators[h].read,
                      WholeIn(h, r, rows')
               PROVE  Given(h, r)'
    BY DEF Covered
  <2>1. r \in Data /\ (r \in rows \/ r \in new)
    BY <1>3, <1>5, PutStores
  <2>2. CASE \E n \in new : SamePeriod(h, n, r)
    BY <1>3, <2>2 DEF Given, Coming
  <2>3. CASE \A n \in new : ~SamePeriod(h, n, r)
    <3>1. r \in rows
      BY <2>1, <2>3 DEF SamePeriod
    <3>2. Period(h, r, rows') = Period(h, r, rows)
      BY <1>3, <1>5, <2>1, <2>3, PeriodKept DEF Divided
    <3>3. Active /\ WholeIn(h, r, rows)
      BY <1>3, <3>2 DEF Active, Unfiltered, WholeIn
    <3>4. PICK a \in rows : Right(h, r, a, rows)
      BY <1>5, <3>1, <3>3 DEF Following, Covered, Given
    <3>5. a \in rows'
      <4>1. r.type \in Int /\ r.type > 0
        BY <3>1, SourceIsObserved DEF Following
      <4>2. a.type < 0
        BY <3>4, <4>1 DEF Right, Key, AggregateKey, Negated
      <4>3. \A n \in new : Key(n) # Key(a)
        BY <1>4, <4>2 DEF Negative, Key
      <4> QED BY <1>3, <4>3 DEF Put
    <3>6. Right(h, r, a, rows')
      BY <3>2, <3>4 DEF Right
    <3> QED BY <3>5, <3>6 DEF Given
  <2> QED BY <2>2, <2>3
<1> QED BY <1>6, <1>7, <1>8 DEF Following

(* What kvalobs sends back is no observation, and of the extremes it is    *)
(* what is stored.                                                         *)
LEMMA TakeEchoFollowing == Inv /\ Typed /\ Echoing /\ Following /\ TakeEcho => Following'
<1> SUFFICES ASSUME Inv, Typed, Echoing, Following, TakeEcho PROVE Following'
  OBVIOUS
<1> DEFINE new == {d \in message' : d.param \in Interesting}
<1>1. /\ phase = "idle" /\ out' = <<>> /\ UNCHANGED <<scenario, now, shutdown>>
      /\ rows' = Put(rows, new) /\ message' \subseteq AggregateData /\ \A d \in message' : Negative(d)
  BY NextEcho DEF TakeEcho, Begin
<1>2. message = {} /\ rows \in SUBSET Data /\ new \in SUBSET Data
  BY <1>1 DEF Echoing, Resting, Typed, OneForEachKey, AggregateData
<1>3. Past'
  <2> SUFFICES ASSUME NEW r \in rows'
               PROVE  (IF Negative(r) THEN r.param \in Written ELSE r.time <= now')
    BY DEF Past, Written, Negative
  <2>1. r \in rows \/ r \in new
    BY <1>1, PutStores
  <2> QED BY <1>1, <2>1 DEF Following, Past, AggregateData
<1>4. OutRight'
  BY <1>1, NothingComes DEF OutRight
<1>5. Covered'
  <2> SUFFICES ASSUME Active', NEW h \in Parted, NEW r \in rows', r.param \in Aggregators[h].read,
                      WholeIn(h, r, rows')
               PROVE  Given(h, r)'
    BY DEF Covered
  <2>1. r.param \notin Written
    BY PartedAggregators
  <2>2. r \in rows /\ r \in Data
    BY <1>1, <1>2, <2>1, PutStores DEF AggregateData
  <2>3. \A n \in new : ~SamePeriod(h, n, r)
    BY <1>1, <2>1 DEF AggregateData, SamePeriod
  <2>4. Period(h, r, rows') = Period(h, r, rows)
    BY <1>1, <1>2, <2>2, <2>3, PeriodKept DEF Divided
  <2>5. Active /\ WholeIn(h, r, rows)
    BY <1>1, <2>4 DEF Active, Unfiltered, WholeIn
  <2>6. PICK a \in rows : Right(h, r, a, rows)
    BY <1>2, <2>2, <2>5 DEF Following, Covered, Given
  <2>7. a \in rows'
    <3>1. a.param \in Firm
      BY <2>6, PartedAggregators DEF Right, Key, AggregateKey, Firm
    <3> QED BY <3>1, EchoKeepsFirm
  <2>8. Right(h, r, a, rows')
    BY <2>4, <2>6 DEF Right
  <2> QED BY <2>7, <2>8 DEF Given
<1> QED BY <1>3, <1>4, <1>5 DEF Following

(* The aggregate of a whole period that waits to be saved will be stored,  *)
(* or is.                                                                  *)
LEMMA SavedIsRight ==
  ASSUME Inv, Typed, Following, NEW h \in Parted, NEW r \in rows, r.param \in Aggregators[h].read,
         WholeIn(h, r, rows), NEW i \in DOMAIN out, Key(out[i]) = AggregateKey(h, r)
  PROVE  \E a \in Put(rows, Sent) : Right(h, r, a, rows)
<1>1. r \in Data /\ \A d \in message : d \in Data
  BY DEF Typed, OneForEachKey
<1>2. out[i].param \in Interesting
  BY PartedAggregators DEF Key, AggregateKey
<1>3. PICK a \in Put(rows, Sent), j \in DOMAIN out :
        Key(a) = Key(out[i]) /\ Key(out[j]) = Key(out[i]) /\ \A field \in Fields : a[field] = out[j][field]
  BY <1>2, SavedAsComputed
<1>4. out[j].param = Aggregators[h].write
  BY <1>3 DEF Key, AggregateKey
<1>5. PICK d \in message : /\ d.param \in Aggregators[h].read /\ Key(out[j]) = AggregateKey(h, d)
                           /\ WholeIn(h, d, rows) => Right(h, d, out[j], rows)
  BY <1>4 DEF Following, OutRight, RightFrom
<1>6. SamePeriod(h, d, r)
  <2>1. r.type > 0
    BY SourceIsObserved DEF Following
  <2>2. d.type > 0
    BY <1>5, PartedAggregators DEF Typed, AggregateData, Inv, AllProper, Proper, Negative
  <2> QED BY <1>1, <1>3, <1>5, <2>1, <2>2, KeyOfPeriod
<1>7. Right(h, r, out[j], rows)
  BY <1>1, <1>5, <1>6, OfOnePeriod DEF Divided
<1>8. Right(h, r, a, rows)
  BY <1>3, <1>7 DEF Right
<1> QED BY <1>8

(* What is saved, and what it replaces, is right.                          *)
LEMMA SaveFollowing == Inv /\ Typed /\ Following /\ save => Following'
<1> SUFFICES ASSUME Inv, Typed, Following, save PROVE Following'
  OBVIOUS
<1>1. /\ rows' = Put(rows, Sent) /\ message' = {} /\ out' = <<>> /\ stack = <<>> /\ data = {}
      /\ UNCHANGED <<scenario, now, shutdown>>
  BY DEF save, Done, End
<1>2. Sent \subseteq AggregateData /\ rows \in SUBSET Data /\ Sent \in SUBSET Data
  BY SentOneForEachKey DEF AggregateData, Typed, OneForEachKey
<1>3. Past'
  <2> SUFFICES ASSUME NEW r \in rows'
               PROVE  (IF Negative(r) THEN r.param \in Written ELSE r.time <= now')
    BY DEF Past, Written, Negative
  <2>1. r \in rows \/ r \in Sent
    BY <1>1, PutStores
  <2> QED BY <1>1, <1>2, <2>1 DEF Following, Past, AggregateData
<1>4. OutRight'
  BY <1>1, NothingComes DEF OutRight
<1>5. Covered'
  <2> SUFFICES ASSUME Active', NEW h \in Parted, NEW r \in rows', r.param \in Aggregators[h].read,
                      WholeIn(h, r, rows')
               PROVE  Given(h, r)'
    BY DEF Covered
  <2>1. r.param \notin Written
    BY PartedAggregators
  <2>2. r \in rows /\ r \in Data
    BY <1>1, <1>2, <2>1, PutStores DEF AggregateData
  <2>3. \A n \in Sent : ~SamePeriod(h, n, r)
    BY <1>2, <2>1 DEF AggregateData, SamePeriod
  <2>4. Period(h, r, rows') = Period(h, r, rows)
    BY <1>1, <1>2, <2>2, <2>3, PeriodKept DEF Divided
  <2>5. Active /\ WholeIn(h, r, rows)
    BY <1>1, <2>4 DEF Active, Unfiltered, WholeIn
  <2>6. ASSUME NEW i \in DOMAIN out, Key(out[i]) = AggregateKey(h, r)
        PROVE  \E a \in Put(rows, Sent) : Right(h, r, a, rows)
    BY <2>2, <2>5, <2>6, SavedIsRight
  <2>7. ASSUME \A i \in DOMAIN out : Key(out[i]) # AggregateKey(h, r)
        PROVE  \E a \in Put(rows, Sent) : Right(h, r, a, rows)
    <3>1. \A d \in message : ~(SamePeriod(h, d, r) /\ Coming(h, d))
      <4> SUFFICES ASSUME NEW d \in message, SamePeriod(h, d, r), Coming(h, d) PROVE FALSE
        OBVIOUS
      <4>1. AggregateKey(h, d) = AggregateKey(h, r)
        BY <2>2, OfOnePeriod DEF Typed, OneForEachKey, Divided
      <4> QED BY <1>1, <2>7, <4>1, NothingComes DEF Coming
    <3>2. PICK a \in rows : Right(h, r, a, rows)
      BY <2>2, <2>5, <3>1 DEF Following, Covered, Given
    <3>3. \A n \in Sent : Key(n) # Key(a)
      BY <2>7, <3>2 DEF Sent, Right
    <3>4. a \in Put(rows, Sent)
      BY <3>3 DEF Put
    <3> QED BY <3>2, <3>4
  <2>8. PICK a \in Put(rows, Sent) : Right(h, r, a, rows)
    BY <2>6, <2>7
  <2>9. Right(h, r, a, rows')
    BY <2>4, <2>8 DEF Right
  <2> QED BY <1>1, <2>8, <2>9 DEF Given
<1> QED BY <1>3, <1>4, <1>5 DEF Following

(* When kvalobs refuses, the whole message is coming again.                *)
LEMMA SaveRefusedFollowing == Inv /\ Typed /\ Following /\ saveRefused => Following'
<1> SUFFICES ASSUME Inv, Typed, Following, saveRefused PROVE Following'
  OBVIOUS
<1>1. /\ data' = message /\ out' = <<>> /\ UNCHANGED <<scenario, now, message, stack, pending, shutdown>>
  BY DEF saveRefused
<1>2. rows' = rows
  BY RefusedKeepsRows
<1>3. \A i \in DOMAIN out' : RightFrom(out'[i], message, rows)
  BY <1>1, NothingComes
<1>4. \A h \in Parted, d \in message : Coming(h, d)'
  BY <1>1 DEF Coming
<1> QED BY <1>1, <1>2, <1>3, <1>4, WorkingFollowing

(* newData ends without saving when the program is shut down.              *)
LEMMA UnsavedFollowing == Following /\ unsaved => Following'
<1> SUFFICES ASSUME Following, unsaved PROVE Following'
  OBVIOUS
<1>1. /\ shutdown /\ shutdown' = shutdown /\ message' = {} /\ out' = <<>>
      /\ UNCHANGED <<now, rows, pending>>
  BY DEF unsaved, End
<1>2. Past'
  BY <1>1 DEF Following, Past
<1>3. OutRight'
  BY <1>1, NothingComes DEF OutRight
<1>4. Covered'
  BY <1>1 DEF Covered, Active
<1> QED BY <1>2, <1>3, <1>4 DEF Following

(* Time passes, and the past remains past.                                 *)
LEMMA TickFollowing == Inv /\ Typed /\ Following /\ Tick => Following'
<1> SUFFICES ASSUME Inv, Typed, Following, Tick PROVE Following'
  OBVIOUS
<1>1. /\ UNCHANGED <<scenario, rows, message, data, stack, out, pending, shutdown>>
      /\ now < now' /\ now' \in scenario.clock
  BY DEF Tick, newDataVars
<1>2. now \in Int /\ now' \in Int
  BY <1>1, HandlerAssumption DEF Typed, Inv, ScenarioAssumptionOf
<1>3. Past'
  <2> SUFFICES ASSUME NEW r \in rows, ~Negative(r)
               PROVE  r.time <= now'
    BY <1>1 DEF Following, Past, Negative, Written
  <2>1. r.time <= now /\ r.time \in Int
    BY DEF Following, Past, Typed, OneForEachKey, Data
  <2> QED BY <1>1, <1>2, <2>1
<1>4. OutRight'
  BY <1>1 DEF Following, OutRight
<1>5. Covered'
  BY <1>1 DEF Following, Covered, Active, Unfiltered, Given, Coming
<1> QED BY <1>3, <1>4, <1>5 DEF Following

(* Of a program that is shut down nothing is asked.                        *)
LEMMA StillFollowing == Following /\ (Shutdown \/ UNCHANGED vars) => Following'
<1> SUFFICES ASSUME Following, Shutdown \/ UNCHANGED vars PROVE Following'
  OBVIOUS
<1>1. /\ UNCHANGED <<scenario, now, rows, message, data, stack, out, pending>>
      /\ shutdown' = shutdown \/ shutdown'
  BY DEF Shutdown, vars, newDataVars
<1>2. Past' /\ OutRight'
  BY <1>1 DEF Following, Past, OutRight
<1>3. CASE shutdown'
  BY <1>2, <1>3 DEF Following, Covered, Active
<1>4. CASE shutdown' = shutdown
  BY <1>1, <1>2, <1>4 DEF Following, Covered, Active, Unfiltered, Given, Coming
<1> QED BY <1>1, <1>3, <1>4

(* Every step.                                                             *)
LEMMA NextFollowing ==
  PoYieldsFractions /\ Inv /\ Typed /\ Echoing /\ Following /\ [Next]_vars => Following'
BY ReceiveFollowing, TakeEchoFollowing, SkipFollowing, AggregateFollowing, ReturnFollowing, NewDataFollowing,
   SaveFollowing, SaveRefusedFollowing, UnsavedFollowing, TickFollowing, StillFollowing DEF Next, Worker, process

(* What is right is what follows.                                          *)
LEMMA RightFollows ==
  ASSUME Typed, NEW h \in Divided, NEW r \in rows, r.type \in Int, r.type > 0
  PROVE  Follows(h, r) <=> \E a \in rows : Right(h, r, a, rows)
<1>1. PeriodOf(h, r) = Period(h, r, rows)
  BY DEF PeriodOf, Period
<1>2. -Abs(r.type) = -r.type
  BY DEF Abs
<1>3. ResultTime(h, r.time) = GenerateTime(h, r.time)
  BY PartedAggregators, GeneratedFullHour DEF Divided, Typed, OneForEachKey, Data
<1> QED BY <1>1, <1>2, <1>3 DEF Follows, Stored, Right, AggregateKey, Negated, Fields

(* What is stored at the start: observations that are not of the future,   *)
(* aggregates, and those of whole periods as they should be.               *)
Settled == Past /\ AggregatesFollow

(* At the start.                                                           *)
LEMMA InitFollowing == Inv /\ Typed /\ Init /\ Settled => Following
<1> SUFFICES ASSUME Inv, Typed, Init, Settled PROVE Following
  OBVIOUS
<1>1. /\ message = {} /\ pending = <<>> /\ out = <<>> /\ phase = "idle" /\ Past /\ AggregatesFollow
  BY DEF Init, Settled
<1>2. OutRight
  BY <1>1, NothingComes DEF OutRight
<1>3. Covered
  <2> SUFFICES ASSUME Active, NEW h \in Parted, NEW r \in rows, r.param \in Aggregators[h].read,
                      WholeIn(h, r, rows)
               PROVE  \E a \in rows : Right(h, r, a, rows)
    BY DEF Covered, Given
  <2>1. Whole(h, r)
    BY DEF Whole, PeriodOf, WholeIn, Period
  <2>2. Follows(h, r)
    BY <1>1, <2>1 DEF AggregatesFollow, Quiet, Active, Parted
  <2> QED BY <1>1, <2>2, SourceIsObserved, RightFollows DEF Divided
<1> QED BY <1>1, <1>2, <1>3 DEF Following

(* In whatever order the observations of a period and their corrections    *)
(* come, and whatever kvalobs refuses: once everything has been worked off *)
(* the extremes, and the sunshine, of whole periods are those of what is   *)
(* stored, if they were at the start.                                      *)
THEOREM AggregatesFollowHolds ==
  ASSUME PoYieldsFractions
  PROVE  Spec /\ Settled => []AggregatesFollow
<1>1. Inv /\ Typed /\ Init /\ Settled => Following
  BY InitFollowing
<1>2. Init => Echoing
  BY InitEchoing
<1>3. Inv /\ Typed /\ Echoing /\ [Next]_vars => Echoing'
  BY NextEchoing
<1>4. Inv /\ Typed /\ Echoing /\ Following /\ [Next]_vars => Following'
  BY NextFollowing
<1>5. Inv /\ Typed /\ Echoing /\ Following => AggregatesFollow
  <2> SUFFICES ASSUME Inv, Typed, Echoing, Following, Quiet, scenario.station < ForeignStation,
                      NEW h \in Parted, NEW r \in rows, r.param \in Aggregators[h].read, Whole(h, r)
               PROVE  Follows(h, r)
    BY DEF AggregatesFollow, Parted
  <2>1. Active /\ WholeIn(h, r, rows)
    BY DEF Active, Quiet, Whole, PeriodOf, WholeIn, Period
  <2>2. message = {}
    BY DEF Echoing, Resting, Quiet
  <2>3. \E a \in rows : Right(h, r, a, rows)
    BY <2>1, <2>2 DEF Following, Covered, Given
  <2> QED BY <2>3, SourceIsObserved, RightFollows DEF Following, Divided
<1> QED BY <1>1, <1>2, <1>3, <1>4, <1>5, SpecInv, SpecTyped, PTL DEF Spec
-----------------------------------------------------------------------------
(* The sea level pressure follows what it is made of.                      *)

(* What triggers it: a pressure, a temperature, or what was reported.      *)
PoSource(d) == d.param \in {PR, TA, PO} /\ ~Negative(d)
SameTime(a, b) == a.time = b.time /\ a.type = b.type
Pair(pr, ta) == pr.param = PR /\ ta.param = TA /\ SameTime(pr, ta)

(* The aggregate of a pair, as it should be; and what makes it             *)
(* unnecessary.                                                            *)
PoKey(pr) == <<PO, pr.time, -pr.type>>

PoRight(a, pr, ta, f) == Key(a) = PoKey(pr) /\ \A field \in Fields : a[field] = PoValue(pr, ta, field, f)

Reported(pr, ta, f, stored) ==
  /\ \A a \in stored : Key(a) # PoKey(pr)
  /\ \E p \in stored : /\ Key(p) = <<PO, pr.time, pr.type>>
                       /\ \A field \in Fields : Abs(p[field] - PoValue(pr, ta, field, f)) <= 3

(* The heights of a station are for all its parameters: po looks for that  *)
(* of the parameter of the trigger.                                        *)
HeightForAll(metadata) == \A i \in DOMAIN metadata : metadata[i].name = "hp" => metadata[i].param = 0

(* What waits to be saved is right; and what is stored is right, or not    *)
(* needed, or will be computed anew for a datum of the message, or was.    *)
PoOutRight ==
  \A i \in DOMAIN out : \A pr, ta \in rows : Pair(pr, ta) /\ Key(out[i]) = PoKey(pr) =>
    \A f \in PoFormulas(pr, scenario.metadata) : PoRight(out[i], pr, ta, f)

PoStands(pr, ta, f, stored) == (\E a \in stored : PoRight(a, pr, ta, f)) \/ Reported(pr, ta, f, stored)
PoComing(pr) == \E d \in message : PoSource(d) /\ SameTime(d, pr) /\ Coming("po", d)

PoCovered ==
  Active =>
    \A pr, ta \in rows : Pair(pr, ta) =>
      \A f \in PoFormulas(pr, scenario.metadata) : PoStands(pr, ta, f, rows) \/ PoComing(pr)

PoFollowing == PoOutRight /\ PoCovered

(* The parameters of po.                                                   *)
LEMMA PoParameters ==
  /\ Aggregators["po"].read = {PR, TA, PO} /\ Aggregators["po"].write = PO
  /\ "po" \in Names /\ PO \in Firm /\ PR \notin Written
  /\ \A p \in {PR, TA, PO} : p \in Interesting /\ p \notin {RA, RR_1}
<1>1. Aggregators["po"].read = {PR, TA, PO} /\ Aggregators["po"].write = PO /\ "po" \in Names
  BY DEF Aggregators, po, Names
<1>2. PO \in Firm
  BY <1>1 DEF Firm
<1>3. PR \notin Written
  <2> SUFFICES ASSUME NEW h \in Names PROVE Aggregators[h].write # PR
    BY NamesOfAggregators DEF Written
  <2>1. \E p : p \in Aggregators[h].read
    BY DEF Names, Aggregators, Standard, Mean, rr_1, rr_12, rr_24, ra2rr_12, ta_24, uu_24, nn_24, ot_24, po
  <2> QED BY <2>1, WritesAbove
<1>4. \A p \in {PR, TA, PO} : p \in Interesting
  BY <1>1, NamesOfAggregators DEF Interesting
<1>5. \A p \in {PR, TA, PO} : p \notin {RA, RR_1}
  BY DEF PR, TA, PO, RA, RR_1
<1> QED BY <1>1, <1>2, <1>3, <1>4, <1>5

(* A pair is observed, and the only one of its time and type.              *)
LEMMA PairIsObserved ==
  ASSUME Inv, Typed, NEW pr \in rows, NEW ta \in rows, Pair(pr, ta)
  PROVE  /\ pr \in Data /\ ta \in Data /\ pr.type > 0 /\ pr.type \in Int /\ pr.time \in Int
         /\ ~Negative(pr) /\ ~Negative(ta)
         /\ \A p, q \in rows : Pair(p, q) /\ SameTime(p, pr) => p = pr /\ q = ta
<1>1. pr \in Data /\ ta \in Data /\ pr.type \in Int /\ pr.time \in Int
  BY DEF Typed, OneForEachKey, Data
<1>2. Proper(pr)
  BY DEF Inv, AllProper
<1>3. pr.type > 0 /\ ~Negative(pr) /\ ~Negative(ta)
  BY <1>1, <1>2 DEF Proper, Negative, Pair, SameTime
<1>4. \A p, q \in rows : Pair(p, q) /\ SameTime(p, pr) => p = pr /\ q = ta
  BY DEF Typed, OneForEachKey, Pair, SameTime, Key
<1> QED BY <1>1, <1>3, <1>4

(* The key of the aggregate of a trigger.                                  *)
LEMMA KeyOfPo == \A d : d.type > 0 => AggregateKey("po", d) = PoKey(d)
BY PoParameters DEF AggregateKey, PoKey, ResultTime, Negated

(* The time and type decide which formula there is, and there is one.      *)
LEMMA OneFormula ==
  ASSUME NEW metadata, HeightForAll(metadata), NEW a, NEW b, SameTime(a, b)
  PROVE  /\ PoFormulas(a, metadata) = PoFormulas(b, metadata)
         /\ \A f, g \in PoFormulas(a, metadata) : f = g
<1>1. ASSUME NEW name, NEW param, NEW t, NEW type,
             NEW x \in GetStationMetadata(metadata, name, param, t, type),
             NEW y \in GetStationMetadata(metadata, name, param, t, type)
      PROVE  x = y
  BY <1>1 DEF GetStationMetadata
<1>2. ASSUME NEW t, NEW type
      PROVE  GetStationMetadata(metadata, "hp", a.param, t, type) = GetStationMetadata(metadata, "hp", b.param, t, type)
  <2>1. \A i \in DOMAIN metadata :
          compatible(metadata[i], "hp", a.param, t, type) <=> compatible(metadata[i], "hp", b.param, t, type)
    BY DEF HeightForAll, compatible
  <2>2. {i \in DOMAIN metadata : compatible(metadata[i], "hp", a.param, t, type)}
        = {i \in DOMAIN metadata : compatible(metadata[i], "hp", b.param, t, type)}
    BY <2>1
  <2> QED BY <2>2 DEF GetStationMetadata
<1>3. PoFormulas(a, metadata) = PoFormulas(b, metadata)
  BY <1>2 DEF PoFormulas, SameTime
<1>4. \A f, g \in PoFormulas(a, metadata) : f = g
  BY <1>1 DEF PoFormulas
<1> QED BY <1>3, <1>4

(* What po reads.                                                          *)
LEMMA PoAtWork ==
  ASSUME Inv, Typed, Processing, NEW i \in Offered, Registered[i] = "po", ~Negative(Datum)
  PROVE  LET found == {r \in rows : r.param \in {PR, TA, PO} /\ SameTime(r, Datum)}
         IN  /\ Datum \in message /\ Datum \in Data /\ PoSource(Datum)
             /\ Outcomes("po", Datum) = PoProcess(Datum, found, rows, scenario.metadata)
<1> DEFINE found == {r \in rows : r.param \in {PR, TA, PO} /\ SameTime(r, Datum)}
<1>1. Datum \in message /\ Datum \in Data /\ Datum.param \in {PR, TA, PO} /\ PoSource(Datum)
  BY CallAtWork, OfferedAggregator, PoParameters DEF AggregateData, PoSource
<1>2. Datum \in rows
  BY <1>1, PoParameters DEF Inv, Cached, Processing
<1>3. \A t \in Int : InSpan(t, TimeSpan("po", Datum.time)) <=> t = Datum.time
  BY <1>1 DEF InSpan, TimeSpan, Data
<1>4. getRelevantObsList("po", Datum) = found
  <2> DEFINE span == TimeSpan("po", Datum.time)
  <2>1. getRelevantObsList("po", Datum) = UNION {Read(rows, p, Datum.type, span) : p \in {PR, TA, PO}}
    BY PoParameters DEF getRelevantObsList
  <2>2. ASSUME NEW r \in rows PROVE InSpan(r.time, span) <=> r.time = Datum.time
    BY <1>3, <2>2 DEF Typed, OneForEachKey, Data
  <2> HIDE DEF span
  <2>3. \A p \in {PR, TA, PO} : Read(rows, p, Datum.type, span) = {r \in found : r.param = p}
    BY <2>2 DEF Read, SameTime
  <2>4. \A r \in found : r.param \in {PR, TA, PO}
    OBVIOUS
  <2> HIDE DEF found
  <2> QED BY <2>1, <2>3, <2>4
<1>5. WithTrigger(found, Datum) = found
  BY <1>1, <1>2 DEF WithTrigger, SameTime
<1>6. Outcomes("po", Datum) = PoProcess(Datum, found, rows, scenario.metadata)
  BY <1>4, <1>5 DEF Outcomes, Process
<1> QED BY <1>1, <1>6

(* What is computed is right for the pair of that time.                    *)
LEMMA PoIsRight ==
  ASSUME Inv, Typed, HeightForAll(scenario.metadata), Processing, NEW i \in Offered,
         NEW a \in UNION Outcomes(Registered[i], Datum), NEW pr \in rows, NEW ta \in rows, Pair(pr, ta),
         Key(a) = PoKey(pr), NEW f \in PoFormulas(pr, scenario.metadata)
  PROVE  PoRight(a, pr, ta, f)
<1> DEFINE found == {r \in rows : r.param \in {PR, TA, PO} /\ SameTime(r, Datum)}
<1>1. Registered[i] = "po" /\ Datum \in Data /\ ~Negative(Datum)
  <2>1. a.param = PO
    BY DEF Key, PoKey
  <2>2. Registered[i] \in Direct \cup {"po"} /\ Datum \in Data /\ ~Negative(Datum)
        /\ PO = Aggregators[Registered[i]].write
    BY <2>1, FirmOfObserved, PoParameters
  <2>3. Registered[i] \notin Direct
    BY <2>2, DirectWriters, PoParameters
  <2> QED BY <2>2, <2>3
<1>2. PICK s \in PoProcess(Datum, found, rows, scenario.metadata) : a \in s
  BY <1>1, PoAtWork
<1>3. a \in ComputedPo(Datum, found, scenario.metadata)
  BY <1>2 DEF PoProcess
<1>4. PICK p \in getData(PR, Datum.time, found), t \in getData(TA, Datum.time, found),
           g \in PoFormulas(Datum, scenario.metadata) :
        a = PoDataObject(Datum, p, t, g)
  BY <1>3 DEF ComputedPo
<1>5. p \in rows /\ t \in rows /\ Pair(p, t) /\ SameTime(p, Datum)
  BY <1>4 DEF getData, Pair, SameTime
<1>6. SameTime(Datum, pr)
  <2>1. Key(a) = PoKey(Datum)
    <3>1. Datum \in message
      BY <1>1, PoAtWork
    <3>2. Datum.type > 0
      BY <1>1, <3>1 DEF Inv, AllProper, Proper, Negative
    <3> QED BY <1>1, <3>2, KeyOfOutcome, KeyOfPo
  <2>2. Datum.type \in Int /\ pr.type \in Int
    BY <1>1, PairIsObserved DEF Data
  <2> QED BY <2>1, <2>2 DEF PoKey, SameTime
<1>7. p = pr /\ t = ta
  BY <1>5, <1>6, PairIsObserved DEF SameTime
<1>8. g = f
  BY <1>4, <1>6, OneFormula
<1>9. a.orig = PoValue(pr, ta, "orig", f) /\ a.corr = PoValue(pr, ta, "corr", f)
  BY <1>4, <1>7, <1>8 DEF PoDataObject, getDataObject
<1> QED BY <1>9 DEF PoRight, Fields

(* If nothing is made of a pair, what was reported will do.                *)
LEMMA PoNotNeeded ==
  ASSUME Inv, Typed, HeightForAll(scenario.metadata), Processing, NEW i \in Offered, Registered[i] = "po",
         ~Negative(Datum), NEW pr \in rows, NEW ta \in rows, Pair(pr, ta), SameTime(Datum, pr),
         NEW f \in PoFormulas(pr, scenario.metadata), {} \in Outcomes("po", Datum)
  PROVE  Reported(pr, ta, f, rows)
<1> DEFINE found == {r \in rows : r.param \in {PR, TA, PO} /\ SameTime(r, Datum)}
           c == PoDataObject(Datum, pr, ta, f)
<1>1. {} \in PoProcess(Datum, found, rows, scenario.metadata)
  BY PoAtWork
<1>2. pr \in getData(PR, Datum.time, found) /\ ta \in getData(TA, Datum.time, found)
  BY DEF getData, Pair, SameTime
<1>3. f \in PoFormulas(Datum, scenario.metadata)
  BY OneFormula
<1>4. c \in ComputedPo(Datum, found, scenario.metadata)
  <2> HIDE DEF found
  <2>1. c = PoDataObject(Datum, pr, ta, f)
    OBVIOUS
  <2> HIDE DEF c
  <2> QED BY <1>2, <1>3, <2>1 DEF ComputedPo
<1>5. PICK x \in ComputedPo(Datum, found, scenario.metadata) : ReportWillDo(Datum, found, rows, x)
  BY <1>1, <1>4 DEF PoProcess
<1>6. x = c
  <2>1. PICK p \in getData(PR, Datum.time, found), t \in getData(TA, Datum.time, found),
             g \in PoFormulas(Datum, scenario.metadata) :
          x = PoDataObject(Datum, p, t, g)
    BY <1>5 DEF ComputedPo
  <2>2. p = pr /\ t = ta
    BY <2>1, PairIsObserved DEF getData, Pair, SameTime
  <2>3. g = f
    BY <2>1, OneFormula
  <2> QED BY <2>1, <2>2, <2>3
<1>7. pr.type \in Int /\ pr.type > 0
  BY PairIsObserved
<1>8. \A a \in rows : Key(a) # PoKey(pr)
  BY <1>5, <1>7 DEF ReportWillDo, ReadAt, PoKey, SameTime, Abs
<1>9. PICK p \in getData(PO, Datum.time, found) : NoEssentialDifference(p, c)
  BY <1>5, <1>6 DEF ReportWillDo
<1>10. p \in rows /\ Key(p) = <<PO, pr.time, pr.type>>
  BY <1>9 DEF getData, SameTime, Key
<1>11. c.orig = PoValue(pr, ta, "orig", f) /\ c.corr = PoValue(pr, ta, "corr", f)
  BY DEF PoDataObject, getDataObject
<1>12. \A field \in Fields : Abs(p[field] - PoValue(pr, ta, field, f)) <= 3
  BY <1>9, <1>11 DEF NoEssentialDifference, Fields
<1> QED BY <1>8, <1>10, <1>12 DEF Reported

(* What is observed is changed by stations only, and what kvalobs sends    *)
(* back, or is saved, is none of the pair.                                 *)
LEMMA PairKept ==
  ASSUME Inv, Typed, NEW new \in SUBSET AggregateData,
         NEW pr \in Put(rows, new), NEW ta \in Put(rows, new), Pair(pr, ta)
  PROVE  pr \in rows /\ ta \in rows
<1>1. pr \in rows
  BY PutStores, PoParameters DEF AggregateData, Pair
<1>2. ta \in rows
  <2>1. pr.type \in Int /\ pr.type > 0 /\ ta.type = pr.type
    BY <1>1 DEF Inv, AllProper, Proper, Negative, Pair, SameTime
  <2>2. ta \notin new
    BY <2>1 DEF AggregateData, Negative
  <2> QED BY <2>2, PutStores
<1> QED BY <1>1, <1>2

(* While a message is processed the store does not change: what is right   *)
(* remains so, and what is coming goes on coming or is not needed.         *)
LEMMA WorkingPo ==
  ASSUME PoFollowing, UNCHANGED <<scenario, rows, message, shutdown>>, PoOutRight',
         \A d \in message : Active /\ PoSource(d) /\ Coming("po", d) =>
           \/ Coming("po", d)'
           \/ \A pr, ta \in rows : Pair(pr, ta) /\ SameTime(d, pr) =>
                \A f \in PoFormulas(pr, scenario.metadata) : Reported(pr, ta, f, rows)
  PROVE  PoFollowing'
<1> SUFFICES ASSUME Active', NEW pr \in rows', NEW ta \in rows', Pair(pr, ta),
                    NEW f \in PoFormulas(pr, scenario'.metadata)
             PROVE  PoStands(pr, ta, f, rows') \/ PoComing(pr)'
  BY DEF PoFollowing, PoCovered, Pair, PoFormulas
<1>1. Active /\ pr \in rows /\ ta \in rows /\ f \in PoFormulas(pr, scenario.metadata)
  BY DEF Active, Unfiltered
<1>2. CASE PoStands(pr, ta, f, rows)
  BY <1>2
<1>3. CASE PoComing(pr)
  <2>1. PICK d \in message : PoSource(d) /\ SameTime(d, pr) /\ Coming("po", d)
    BY <1>3 DEF PoComing
  <2>2. CASE Coming("po", d)'
    BY <2>1, <2>2 DEF PoComing
  <2>3. CASE Reported(pr, ta, f, rows)
    BY <2>3 DEF PoStands
  <2> QED BY <1>1, <2>1, <2>2, <2>3
<1> QED BY <1>1, <1>2, <1>3 DEF PoFollowing, PoCovered

(* If nothing is made of a pair, nothing is needed.                        *)
LEMMA SkipPo ==
  Inv /\ Typed /\ HeightForAll(scenario.metadata) /\ PoFollowing /\ (Uninterested \/ NoAggregate) => PoFollowing'
<1> SUFFICES ASSUME Inv, Typed, HeightForAll(scenario.metadata), PoFollowing, Uninterested \/ NoAggregate
             PROVE  PoFollowing'
  OBVIOUS
<1>1. /\ Processing
      /\ UNCHANGED <<scenario, now, rows, phase, message, data, accepted, out, pending, shutdown, history>>
  BY DEF Uninterested, NoAggregate
<1>2. ASSUME NEW d \in message, PoSource(d), Coming("po", d), ~Coming("po", d)',
             NEW pr \in rows, NEW ta \in rows, Pair(pr, ta), SameTime(d, pr),
             NEW f \in PoFormulas(pr, scenario.metadata)
      PROVE  Reported(pr, ta, f, rows)
  <2>1. d.param \in Aggregators["po"].read
    BY <1>2, PoParameters DEF PoSource
  <2>2. PICK i \in Offered : /\ Datum = d /\ Registered[i] = "po"
                             /\ ~IsInterestedIn("po", d.time, now) \/ {} \in Outcomes("po", d)
    BY <1>2, <2>1, SkipComing
  <2>3. {} \in Outcomes("po", Datum)
    BY <2>2 DEF IsInterestedIn
  <2> QED BY <1>1, <1>2, <2>2, <2>3, PoNotNeeded DEF PoSource
<1>3. PoOutRight'
  BY <1>1 DEF PoFollowing, PoOutRight
<1> QED BY <1>1, <1>2, <1>3, WorkingPo

(* What is made of a pair is right.                                        *)
LEMMA AggregatePo ==
  PoYieldsFractions /\ Inv /\ Typed /\ HeightForAll(scenario.metadata) /\ PoFollowing /\ Aggregate => PoFollowing'
<1> SUFFICES ASSUME PoYieldsFractions, Inv, Typed, HeightForAll(scenario.metadata), PoFollowing, Aggregate
             PROVE  PoFollowing'
  OBVIOUS
<1>1. /\ Processing
      /\ UNCHANGED <<scenario, now, rows, phase, message, data, accepted, pending, shutdown, history>>
  BY DEF Aggregate
<1> PICK i \in Offered : \E a \in UNION Outcomes(Registered[i], Datum) : out' = Append(out, a)
  BY DEF Aggregate
<1>2. PICK a \in UNION Outcomes(Registered[i], Datum) : out' = Append(out, a)
  OBVIOUS
<1>3. \A j \in DOMAIN out' : out'[j] = a \/ (j \in DOMAIN out /\ out'[j] = out[j])
  <2>1. out \in Seq(AggregateData) /\ a \in AggregateData
    BY <1>1, OutcomeIsData DEF Typed
  <2> QED BY <1>2, <2>1, DomainOfAppend
<1>4. PoOutRight'
  <2> SUFFICES ASSUME NEW j \in DOMAIN out', NEW pr \in rows, NEW ta \in rows, Pair(pr, ta),
                      Key(out'[j]) = PoKey(pr), NEW f \in PoFormulas(pr, scenario.metadata)
               PROVE  PoRight(out'[j], pr, ta, f)
    BY <1>1 DEF PoOutRight
  <2>1. CASE out'[j] = a
    BY <1>1, <2>1, PoIsRight
  <2>2. CASE j \in DOMAIN out /\ out'[j] = out[j]
    BY <2>2 DEF PoFollowing, PoOutRight
  <2> QED BY <1>3, <2>1, <2>2
<1>5. ASSUME NEW d \in message, PoSource(d), Coming("po", d)
      PROVE  Coming("po", d)'
  BY <1>5, PoParameters, AggregateComing DEF PoSource
<1> QED BY <1>1, <1>4, <1>5, WorkingPo

(* A call that ends has offered its datum to po, if it is one of po's.     *)
LEMMA ReturnPo == Inv /\ Typed /\ PoFollowing /\ Return => PoFollowing'
<1> SUFFICES ASSUME Inv, Typed, PoFollowing, Return PROVE PoFollowing'
  OBVIOUS
<1>1. UNCHANGED <<scenario, now, rows, phase, message, data, accepted, out, pending, shutdown, history>>
  BY DEF Return
<1>2. PoOutRight'
  BY <1>1 DEF PoFollowing, PoOutRight
<1>3. ASSUME NEW d \in message, Active, PoSource(d), Coming("po", d)
      PROVE  Coming("po", d)'
  BY <1>3, PoParameters, ReturnComing DEF PoSource, Active
<1> QED BY <1>1, <1>2, <1>3, WorkingPo

(* A pressure or temperature passes the checks, and process is called.     *)
LEMMA NewDataPo == Inv /\ Typed /\ PoFollowing /\ newData => PoFollowing'
<1> SUFFICES ASSUME Inv, Typed, PoFollowing, newData PROVE PoFollowing'
  OBVIOUS
<1>1. UNCHANGED <<scenario, now, rows, phase, message, out, pending, shutdown, history>>
  BY DEF newData
<1>2. PoOutRight'
  BY <1>1 DEF PoFollowing, PoOutRight
<1>3. ASSUME NEW d \in message, Active, PoSource(d), Coming("po", d)
      PROVE  Coming("po", d)'
  <2>1. d.param \notin {RA, RR_1} /\ "po" \in Names
    BY <1>3, PoParameters DEF PoSource
  <2>2. CompleteCheckDecider(d, message, rows, scenario.station)
    BY <1>3, <2>1, NoRainPasses
  <2> QED BY <1>3, <2>1, <2>2, NewDataComing DEF Active
<1> QED BY <1>1, <1>2, <1>3, WorkingPo

(* A datum of a pair, or a report, that is received is coming; what others *)
(* were made into is kept.                                                 *)
LEMMA ReceivePo == Inv /\ Typed /\ Echoing /\ PoFollowing /\ Receive => PoFollowing'
<1> SUFFICES ASSUME Inv, Typed, Echoing, PoFollowing, Receive PROVE PoFollowing'
  OBVIOUS
<1>1. PICK m \in scenario.messages : Begin(m)
  BY DEF Receive
<1> DEFINE new == {d \in m : d.param \in Interesting}
<1>2. /\ phase = "idle" /\ rows' = Put(rows, new) /\ message' = m /\ data' = m
      /\ out' = <<>> /\ UNCHANGED <<scenario, shutdown>>
  BY <1>1 DEF Begin, cacheData
<1>3. message = {} /\ \A d \in m : ~Negative(d)
  BY <1>2, HandlerAssumption DEF Inv, ScenarioAssumptionOf, Echoing, Resting
<1>4. PoOutRight'
  BY <1>2, NothingComes DEF PoOutRight
<1>5. PoCovered'
  <2> SUFFICES ASSUME Active', NEW pr \in rows', NEW ta \in rows', Pair(pr, ta),
                      NEW f \in PoFormulas(pr, scenario.metadata)
               PROVE  PoStands(pr, ta, f, rows') \/ PoComing(pr)'
    BY <1>2 DEF PoCovered, Pair, SameTime
  <2>1. CASE \E n \in new : PoSource(n) /\ SameTime(n, pr)
    BY <1>2, <2>1 DEF PoComing, Coming
  <2>2. CASE \A n \in new : ~(PoSource(n) /\ SameTime(n, pr))
    <3>1. \A n \in new : n.param \in {PR, TA, PO} => ~SameTime(n, pr)
      BY <1>3, <2>2 DEF PoSource
    <3>2. pr \in rows /\ ta \in rows
      BY <1>2, <3>1, PutStores DEF Pair, SameTime
    <3>3. PoStands(pr, ta, f, rows)
      <4>1. Active /\ ~PoComing(pr)
        BY <1>2, <1>3 DEF Active, Unfiltered, PoComing
      <4> QED BY <3>2, <4>1 DEF PoFollowing, PoCovered
    <3>4. pr.type \in Int /\ pr.type > 0
      BY <3>2, PairIsObserved
    <3>5. CASE \E a \in rows : PoRight(a, pr, ta, f)
      <4>1. PICK a \in rows : PoRight(a, pr, ta, f)
        BY <3>5
      <4>2. a.type < 0
        BY <3>4, <4>1 DEF PoRight, PoKey, Key
      <4>3. \A n \in new : Key(n) # Key(a)
        BY <1>3, <4>2 DEF Negative, Key
      <4> QED BY <1>2, <4>1, <4>3 DEF Put, PoStands
    <3>6. CASE Reported(pr, ta, f, rows)
      <4>1. PICK p \in rows : /\ Key(p) = <<PO, pr.time, pr.type>>
                              /\ \A field \in Fields : Abs(p[field] - PoValue(pr, ta, field, f)) <= 3
        BY <3>6 DEF Reported
      <4>2. \A n \in new : Key(n) # Key(p)
        BY <3>1, <4>1 DEF Key, SameTime
      <4>3. p \in rows'
        BY <1>2, <4>2 DEF Put
      <4>4. \A a \in rows' : Key(a) # PoKey(pr)
        <5> SUFFICES ASSUME NEW a \in rows', Key(a) = PoKey(pr) PROVE FALSE
          OBVIOUS
        <5>1. a.type < 0
          BY <3>4 DEF PoKey, Key
        <5>2. a \in rows
          BY <1>2, <1>3, <5>1, PutStores DEF Negative
        <5> QED BY <3>6, <5>2 DEF Reported
      <4> QED BY <4>1, <4>3, <4>4 DEF Reported, PoStands
    <3> QED BY <3>3, <3>5, <3>6 DEF PoStands
  <2> QED BY <2>1, <2>2
<1> QED BY <1>4, <1>5 DEF PoFollowing

(* What kvalobs sends back is what is stored.                              *)
LEMMA TakeEchoPo == Inv /\ Typed /\ Echoing /\ PoFollowing /\ TakeEcho => PoFollowing'
<1> SUFFICES ASSUME Inv, Typed, Echoing, PoFollowing, TakeEcho PROVE PoFollowing'
  OBVIOUS
<1> DEFINE new == {d \in message' : d.param \in Interesting}
<1>1. /\ phase = "idle" /\ out' = <<>> /\ UNCHANGED <<scenario, shutdown>>
      /\ rows' = Put(rows, new) /\ message' \subseteq AggregateData
      /\ 1 \in DOMAIN pending /\ message' = pending[1]
  BY NextEcho DEF TakeEcho, Begin
<1>2. message = {} /\ new \in SUBSET AggregateData
  BY <1>1 DEF Echoing, Resting
<1>3. PoOutRight'
  BY <1>1, NothingComes DEF PoOutRight
<1>4. PoCovered'
  <2> SUFFICES ASSUME Active', NEW pr \in rows', NEW ta \in rows', Pair(pr, ta),
                      NEW f \in PoFormulas(pr, scenario.metadata)
               PROVE  PoStands(pr, ta, f, rows')
    BY <1>1 DEF PoCovered, Pair, SameTime
  <2>1. pr \in rows /\ ta \in rows
    BY <1>1, <1>2, PairKept
  <2>2. PoStands(pr, ta, f, rows)
    <3>1. Active /\ ~PoComing(pr)
      BY <1>1, <1>2 DEF Active, Unfiltered, PoComing
    <3> QED BY <2>1, <3>1 DEF PoFollowing, PoCovered
  <2>3. \A x \in rows : x.param = PO => x \in rows'
    BY EchoKeepsFirm, PoParameters
  <2>4. CASE \E a \in rows : PoRight(a, pr, ta, f)
    <3>1. PICK a \in rows : PoRight(a, pr, ta, f)
      BY <2>4
    <3>2. a.param = PO
      BY <3>1 DEF PoRight, PoKey, Key
    <3> QED BY <2>3, <3>1, <3>2 DEF PoStands
  <2>5. CASE Reported(pr, ta, f, rows)
    <3>1. PICK p \in rows : /\ Key(p) = <<PO, pr.time, pr.type>>
                            /\ \A field \in Fields : Abs(p[field] - PoValue(pr, ta, field, f)) <= 3
      BY <2>5 DEF Reported
    <3>2. p \in rows'
      BY <2>3, <3>1 DEF Key
    <3>3. \A a \in rows' : Key(a) # PoKey(pr)
      <4> SUFFICES ASSUME NEW a \in rows', Key(a) = PoKey(pr) PROVE FALSE
        OBVIOUS
      <4>1. a.param = PO
        BY DEF PoKey, Key
      <4>2. a \in rows
        BY <1>1, <4>1, PutStores, PoParameters DEF Echoing, Echoed
      <4> QED BY <2>5, <4>2 DEF Reported
    <3> QED BY <3>1, <3>2, <3>3 DEF Reported, PoStands
  <2> QED BY <2>2, <2>4, <2>5 DEF PoStands
<1> QED BY <1>3, <1>4 DEF PoFollowing

(* The aggregate of a pair that waits to be saved will be stored, or is.   *)
LEMMA SavedPo ==
  ASSUME Inv, Typed, PoFollowing, NEW pr \in rows, NEW ta \in rows, Pair(pr, ta),
         NEW f \in PoFormulas(pr, scenario.metadata), NEW i \in DOMAIN out, Key(out[i]) = PoKey(pr)
  PROVE  PoStands(pr, ta, f, Put(rows, Sent))
<1>1. out[i].param \in Interesting
  BY PoParameters DEF Key, PoKey
<1>2. PICK a \in Put(rows, Sent), j \in DOMAIN out :
        Key(a) = Key(out[i]) /\ Key(out[j]) = Key(out[i]) /\ \A field \in Fields : a[field] = out[j][field]
  BY <1>1, SavedAsComputed
<1>3. PoRight(out[j], pr, ta, f)
  BY <1>2 DEF PoFollowing, PoOutRight
<1>4. PoRight(a, pr, ta, f)
  BY <1>2, <1>3 DEF PoRight
<1> QED BY <1>4 DEF PoStands

(* Where none waits to be saved, what there is, is kept.                   *)
LEMMA UnsavedPoKept ==
  ASSUME Inv, Typed, NEW pr \in rows, NEW ta \in rows, Pair(pr, ta), NEW f,
         \A i \in DOMAIN out : Key(out[i]) # PoKey(pr), PoStands(pr, ta, f, rows)
  PROVE  PoStands(pr, ta, f, Put(rows, Sent))
<1>1. \A n \in Sent : Key(n) # PoKey(pr)
  BY DEF Sent
<1>2. CASE \E a \in rows : PoRight(a, pr, ta, f)
  <2>1. PICK a \in rows : PoRight(a, pr, ta, f)
    BY <1>2
  <2>2. a \in Put(rows, Sent)
    BY <1>1, <2>1 DEF PoRight, Put
  <2> QED BY <2>1, <2>2 DEF PoStands
<1>3. CASE Reported(pr, ta, f, rows)
  <2>1. PICK p \in rows : /\ Key(p) = <<PO, pr.time, pr.type>>
                          /\ \A field \in Fields : Abs(p[field] - PoValue(pr, ta, field, f)) <= 3
    BY <1>3 DEF Reported
  <2>2. p.type > 0 /\ p.type \in Int
    BY <2>1, PairIsObserved DEF Key
  <2>3. \A n \in Sent : Key(n) # Key(p)
    BY <2>2, SentOneForEachKey DEF AggregateData, Negative, Key
  <2>4. p \in Put(rows, Sent)
    BY <2>3 DEF Put
  <2>5. \A a \in Put(rows, Sent) : Key(a) # PoKey(pr)
    BY <1>1, <1>3, PutStores DEF Reported
  <2> QED BY <2>1, <2>4, <2>5 DEF Reported, PoStands
<1> QED BY <1>2, <1>3 DEF PoStands

(* What is saved is right.                                                 *)
LEMMA SavePo == Inv /\ Typed /\ PoFollowing /\ save => PoFollowing'
<1> SUFFICES ASSUME Inv, Typed, PoFollowing, save PROVE PoFollowing'
  OBVIOUS
<1>1. /\ rows' = Put(rows, Sent) /\ message' = {} /\ out' = <<>> /\ stack = <<>> /\ data = {}
      /\ UNCHANGED <<scenario, shutdown>>
  BY DEF save, Done, End
<1>2. Sent \in SUBSET AggregateData
  BY SentOneForEachKey
<1>3. PoOutRight'
  BY <1>1, NothingComes DEF PoOutRight
<1>4. PoCovered'
  <2> SUFFICES ASSUME Active', NEW pr \in rows', NEW ta \in rows', Pair(pr, ta),
                      NEW f \in PoFormulas(pr, scenario.metadata)
               PROVE  PoStands(pr, ta, f, rows')
    BY <1>1 DEF PoCovered, Pair, SameTime
  <2>1. pr \in rows /\ ta \in rows
    BY <1>1, <1>2, PairKept
  <2>2. CASE \E i \in DOMAIN out : Key(out[i]) = PoKey(pr)
    BY <1>1, <2>1, <2>2, SavedPo
  <2>3. CASE \A i \in DOMAIN out : Key(out[i]) # PoKey(pr)
    <3>1. ~PoComing(pr)
      <4> SUFFICES ASSUME NEW d \in message, SameTime(d, pr), Coming("po", d) PROVE FALSE
        BY DEF PoComing
      <4>1. AggregateKey("po", d) = PoKey(pr)
        BY <2>1, KeyOfPo, PairIsObserved DEF PoKey, SameTime
      <4> QED BY <1>1, <2>3, <4>1, NothingComes DEF Coming
    <3>2. Active
      BY <1>1 DEF Active, Unfiltered
    <3>3. PoStands(pr, ta, f, rows)
      BY <2>1, <3>1, <3>2 DEF PoFollowing, PoCovered
    <3> QED BY <1>1, <2>1, <2>3, <3>3, UnsavedPoKept
  <2> QED BY <2>2, <2>3
<1> QED BY <1>3, <1>4 DEF PoFollowing

(* When kvalobs refuses, the whole message is coming again.                *)
LEMMA SaveRefusedPo == Inv /\ Typed /\ PoFollowing /\ saveRefused => PoFollowing'
<1> SUFFICES ASSUME Inv, Typed, PoFollowing, saveRefused PROVE PoFollowing'
  OBVIOUS
<1>1. /\ data' = message /\ out' = <<>> /\ UNCHANGED <<scenario, now, message, stack, pending, shutdown>>
  BY DEF saveRefused
<1>2. rows' = rows
  BY RefusedKeepsRows
<1>3. PoOutRight'
  BY <1>1, NothingComes DEF PoOutRight
<1>4. \A d \in message : Coming("po", d)'
  BY <1>1 DEF Coming
<1> QED BY <1>1, <1>2, <1>3, <1>4, WorkingPo

(* The other steps change nothing of it, or shut down the program.         *)
LEMMA StillPo == PoFollowing /\ (unsaved \/ Tick \/ Shutdown \/ UNCHANGED vars) => PoFollowing'
<1> SUFFICES ASSUME PoFollowing, unsaved \/ Tick \/ Shutdown \/ UNCHANGED vars PROVE PoFollowing'
  OBVIOUS
<1>1. CASE shutdown' /\ UNCHANGED <<scenario, rows>> /\ (out' = <<>> \/ out' = out)
  <2>1. PoOutRight'
    BY <1>1, NothingComes DEF PoFollowing, PoOutRight
  <2> QED BY <1>1, <2>1 DEF PoFollowing, PoCovered, Active
<1>2. CASE UNCHANGED <<scenario, rows, message, data, stack, out, shutdown>>
  <2>1. PoOutRight'
    BY <1>2 DEF PoFollowing, PoOutRight
  <2>2. \A d \in message : Coming("po", d) => Coming("po", d)'
    BY <1>2 DEF Coming
  <2> QED BY <1>2, <2>1, <2>2, WorkingPo
<1> QED BY <1>1, <1>2 DEF unsaved, End, Tick, Shutdown, vars, newDataVars

(* Every step.                                                             *)
LEMMA NextPo ==
  /\ PoYieldsFractions /\ Inv /\ Typed /\ Echoing /\ HeightForAll(scenario.metadata)
  /\ PoFollowing /\ [Next]_vars
  => PoFollowing'
BY ReceivePo, TakeEchoPo, SkipPo, AggregatePo, ReturnPo, NewDataPo, SavePo, SaveRefusedPo, StillPo
   DEF Next, Worker, process

(* What stands is what follows: less than 0.305 is at most three tenths.   *)
LEMMA PoStandsFollows ==
  ASSUME PoYieldsFractions, Inv, Typed, NEW pr \in rows, NEW ta \in rows, Pair(pr, ta),
         NEW f \in PoFormulas(pr, scenario.metadata)
  PROVE  PoFollowsFrom(pr, ta, f) <=> PoStands(pr, ta, f, rows)
<1> DEFINE computed(field) ==
             OrMissing({pr, ta}, field, Round(ComputePo(pr[field], ta[field], f.um, f.tm, f.hp)))
<1>1. \A field \in Fields : computed(field) = PoValue(pr, ta, field, f)
  BY DEF OrMissing, Values, PoValue
<1>2. \A field \in Fields : computed(field) \in Int
  <2>1. scenario.metadata \in Seq(MetadataEntries)
    BY HandlerAssumption DEF Inv, ScenarioAssumptionOf
  <2>2. pr \in Data /\ ta \in Data
    BY DEF Typed, OneForEachKey
  <2> QED BY <1>1, <2>1, <2>2, PoValues
<1>3. PoFollowsFrom(pr, ta, f) <=>
        \/ \E a \in rows : Key(a) = PoKey(pr) /\ \A field \in Fields : a[field] = computed(field)
        \/ /\ ReadAt(rows, PO, -pr.type, pr.time) = {}
           /\ \E p \in ReadAt(rows, PO, pr.type, pr.time) :
                \A field \in Fields : 1000 * Abs(p[field] - computed(field)) < 3050
  BY DEF PoFollowsFrom, Stored, PoKey, Fields
<1> HIDE DEF computed
<1>4. ReadAt(rows, PO, -pr.type, pr.time) = {} <=> \A a \in rows : Key(a) # PoKey(pr)
  BY DEF ReadAt, PoKey, Key
<1>5. ASSUME NEW p \in rows, NEW field \in Fields
      PROVE  1000 * Abs(p[field] - computed(field)) < 3050 <=> Abs(p[field] - PoValue(pr, ta, field, f)) <= 3
  <2>1. p[field] \in Int /\ computed(field) \in Int
    BY <1>2 DEF Typed, OneForEachKey, Data, Fields
  <2>2. Abs(p[field] - computed(field)) \in Int
    BY <2>1 DEF Abs
  <2> QED BY <1>1, <2>2
<1>6. ReadAt(rows, PO, pr.type, pr.time) = {p \in rows : Key(p) = <<PO, pr.time, pr.type>>}
  BY DEF ReadAt, Key
<1> QED BY <1>1, <1>3, <1>4, <1>5, <1>6 DEF PoStands, PoRight, Reported

(* At the start.                                                           *)
LEMMA InitPo == PoYieldsFractions /\ Inv /\ Typed /\ Init /\ PoFollows => PoFollowing
<1> SUFFICES ASSUME PoYieldsFractions, Inv, Typed, Init, PoFollows PROVE PoFollowing
  OBVIOUS
<1>1. phase = "idle" /\ pending = <<>> /\ out = <<>>
  BY DEF Init
<1>2. PoOutRight
  BY <1>1, NothingComes DEF PoOutRight
<1>3. PoCovered
  <2> SUFFICES ASSUME Active, NEW pr \in rows, NEW ta \in rows, Pair(pr, ta),
                      NEW f \in PoFormulas(pr, scenario.metadata)
               PROVE  PoStands(pr, ta, f, rows)
    BY DEF PoCovered
  <2>1. PoFollowsFrom(pr, ta, f)
    BY <1>1 DEF PoFollows, Quiet, Active, Pair, SameTime
  <2> QED BY <2>1, PoStandsFollows
<1> QED BY <1>2, <1>3 DEF PoFollowing

(* In whatever order pressure, temperature and the reported sea level      *)
(* pressure come, and their corrections, and whatever kvalobs refuses:     *)
(* once everything has been worked off the sea level pressure is computed  *)
(* from what is stored, or the report has always done.                     *)
THEOREM PoFollowsHolds ==
  ASSUME PoYieldsFractions, \A s \in Scenarios : HeightForAll(s.metadata)
  PROVE  Spec /\ PoFollows => []PoFollows
<1>1. Inv => HeightForAll(scenario.metadata)
  BY DEF Inv
<1>2. Inv /\ Typed /\ Init /\ PoFollows => PoFollowing
  BY InitPo
<1>3. Init => Echoing
  BY InitEchoing
<1>4. Inv /\ Typed /\ Echoing /\ [Next]_vars => Echoing'
  BY NextEchoing
<1>5. Inv /\ Typed /\ Echoing /\ PoFollowing /\ [Next]_vars => PoFollowing'
  BY <1>1, NextPo
<1>6. Inv /\ Typed /\ Echoing /\ PoFollowing => PoFollows
  <2> SUFFICES ASSUME Inv, Typed, Echoing, PoFollowing, Quiet, scenario.station < ForeignStation,
                      NEW pr \in rows, NEW ta \in rows, Pair(pr, ta),
                      NEW f \in PoFormulas(pr, scenario.metadata)
               PROVE  PoFollowsFrom(pr, ta, f)
    BY DEF PoFollows, Pair, SameTime
  <2>1. Active /\ message = {}
    BY DEF Active, Quiet, Echoing, Resting
  <2>2. PoStands(pr, ta, f, rows)
    BY <2>1 DEF PoFollowing, PoCovered, PoComing
  <2> QED BY <2>2, PoStandsFollows
<1> QED BY <1>2, <1>3, <1>4, <1>5, <1>6, SpecInv, SpecTyped, PTL DEF Spec

-----------------------------------------------------------------------------
(* The rain of a half day follows the gauge.                               *)

(* No hourly rain is stored, or none that was computed; and the levels of  *)
(* the gauge that are stored rise: it has never been emptied.              *)
NoHourly == \A x \in rows : x.param # RR_1
HoursObserved == \A x \in rows : x.param = RR_1 => ~Negative(x)
Rising == \A p, r \in rows : HalfDay(p, r) => Rise(p, r)

(* The rain of the half day from p to r, as it should be.                  *)
GaugeKey(r) == <<RR_12, r.time, -r.type>>
GaugeRight(a, p, r) == Key(a) = GaugeKey(r) /\ \A field \in Fields : a[field] = r[field] - p[field]

(* What waits to be saved is right; and what is stored is right, or is     *)
(* going to be computed anew for a level of the message, or was.           *)
GaugeOutRight ==
  NoHourly => \A i \in DOMAIN out : \A p, r \in rows :
    HalfDay(p, r) /\ Key(out[i]) = GaugeKey(r) => GaugeRight(out[i], p, r)

GaugeComing(p, r) == \E h \in GaugeAggregators, d \in message : <<h, d>> \in TriggersOf(p, r) /\ Coming(h, d)

GaugeActive == ~shutdown /\ Unfiltered /\ NoHourly

GaugeCovered ==
  GaugeActive =>
    \A p, r \in rows : HalfDay(p, r) => (\E a \in rows : GaugeRight(a, p, r)) \/ GaugeComing(p, r)

GaugeObserved == \A r \in rows : r.param = RA => ~Negative(r)

GaugeFollowing == GaugeObserved /\ GaugeOutRight /\ GaugeCovered

(* What waits of the rain of half days is what is stored, and processing   *)
(* such a message makes none.                                              *)
RainEchoed == HoursObserved => \A i \in DOMAIN pending : \A x \in pending[i] : x.param = RR_12 => x \in rows
RainObserving == HoursObserved /\ (\E i \in DOMAIN out : out[i].param = RR_12) => \E d \in message : ~Negative(d)
RainEchoing == RainEchoed /\ RainObserving

(* What was hourly rain is not stored without it.                          *)
LEMMA NoHourlyBefore ==
  ASSUME NEW new, rows' = Put(rows, new), NoHourly'
  PROVE  NoHourly
<1> SUFFICES ASSUME NEW x \in rows, x.param = RR_1 PROVE FALSE
  BY DEF NoHourly
<1>1. CASE \A n \in new : Key(n) # Key(x)
  BY <1>1 DEF Put, NoHourly
<1>2. CASE \E n \in new : Key(n) = Key(x)
  <2>1. PICK n \in new : n.param = RR_1
    BY <1>2 DEF Key
  <2> QED BY <2>1 DEF Put, NoHourly
<1> QED BY <1>1, <1>2

(* Nor is computed rain.                                                   *)
LEMMA HoursObservedBefore ==
  ASSUME NEW new, rows' = Put(rows, new), HoursObserved'
  PROVE  HoursObserved
<1> SUFFICES ASSUME NEW x \in rows, x.param = RR_1, Negative(x) PROVE FALSE
  BY DEF HoursObserved
<1>1. CASE \A n \in new : Key(n) # Key(x)
  BY <1>1 DEF Put, HoursObserved, Negative
<1>2. CASE \E n \in new : Key(n) = Key(x)
  <2>1. PICK n \in new : n.param = RR_1 /\ Negative(n)
    BY <1>2 DEF Key, Negative
  <2> QED BY <2>1 DEF Put, HoursObserved, Negative
<1> QED BY <1>1, <1>2

(* The parameters of the gauge, and who writes the rain of half days.      *)
LEMMA GaugeParameters ==
  /\ \A h \in GaugeAggregators : /\ Aggregators[h].read = {RA} /\ Aggregators[h].write = RR_12
                                 /\ h \in Names /\ h \in Timed /\ h # "po"
  /\ \A h \in Names : Aggregators[h].write = RR_12 => h \in GaugeAggregators \cup {"rr_12"}
  /\ RA \in Interesting /\ RR_12 \in Interesting /\ RA \notin Written /\ RA # RR_1
  /\ "rr_12" \in Timed /\ Aggregators["rr_12"].read = {RR_1} /\ Aggregators["rr_12"].hours = 12
<1>1. \A h \in GaugeAggregators : /\ Aggregators[h].read = {RA} /\ Aggregators[h].write = RR_12
                                  /\ h \in Names /\ h \in Timed /\ h # "po"
  BY DEF GaugeAggregators, Aggregators, Standard, ra2rr_12, Names, Timed
<1>2. \A h \in Names : Aggregators[h].write = RR_12 => h \in GaugeAggregators \cup {"rr_12"}
  BY DEF Names, GaugeAggregators, Aggregators, Standard, Mean, rr_1, rr_12, rr_24, ra2rr_12, ta_24, uu_24, nn_24,
         ot_24, po, RR_1, RR_12, RR_24, TAM_24, TAN_12, TAX_12, TGN_12, UUM_24, NNM_24, PO, OT_24
<1>3. RA \in Interesting /\ RR_12 \in Interesting
  <2>1. "ra2rr_b" \in DOMAIN Aggregators /\ "ra2rr_b" \in GaugeAggregators
    BY DEF Aggregators, GaugeAggregators
  <2> QED BY <1>1, <2>1 DEF Interesting
<1>4. RA \notin Written
  <2> SUFFICES ASSUME NEW h \in Names PROVE Aggregators[h].write # RA
    BY NamesOfAggregators DEF Written
  <2> QED BY DEF Names, Aggregators, Standard, Mean, rr_1, rr_12, rr_24, ra2rr_12, ta_24, uu_24, nn_24,
         ot_24, po, RA, RR_1, RR_12, RR_24, TAM_24, TAN_12, TAX_12, TGN_12, UUM_24, NNM_24, PO, OT_24
<1>5. RA # RR_1 /\ "rr_12" \in Timed /\ Aggregators["rr_12"].read = {RR_1} /\ Aggregators["rr_12"].hours = 12
  BY DEF RA, RR_1, Timed, Aggregators, Standard, rr_12
<1> QED BY <1>1, <1>2, <1>3, <1>4, <1>5

(* What process has of a call for the gauge.                               *)
LEMMA GaugeAtWork ==
  ASSUME Inv, Typed, Processing, NEW i \in Offered, NEW h \in GaugeAggregators, Registered[i] = h
  PROVE  /\ Datum \in message /\ Datum \in Data /\ Datum \in rows /\ Datum.param = RA
         /\ ~Negative(Datum) /\ Datum.type \in Int /\ Datum.type > 0
         /\ Outcomes(h, Datum) = StandardProcess(h, Datum, Read(rows, RA, Datum.type, TimeSpan(h, Datum.time)),
                                                 rows, scenario.metadata)
<1> DEFINE span == TimeSpan(h, Datum.time)
           found == Read(rows, RA, Datum.type, span)
<1>1. Datum.param = RA /\ h # "po" /\ h \in DOMAIN Aggregators
  BY OfferedAggregator, GaugeParameters, NamesOfAggregators
<1>2. Datum \in message /\ Datum \in Data /\ phase = "newData"
  BY <1>1, CallAtWork, GaugeParameters DEF AggregateData, Processing
<1>3. ~Negative(Datum) /\ Proper(Datum)
  BY <1>1, <1>2, GaugeParameters DEF Typed, AggregateData, Inv, AllProper
<1>4. Datum.type \in Int /\ Datum.type > 0
  BY <1>3 DEF Proper, Negative
<1>5. Datum \in rows
  BY <1>1, <1>2, GaugeParameters DEF Inv, Cached
<1>6. Datum \in found
  BY <1>1, <1>2, <1>5, TriggerInSpan DEF Read, Data
<1>7. getRelevantObsList(h, Datum) = found
  BY GaugeParameters DEF getRelevantObsList
<1> HIDE DEF found
<1>8. WithTrigger(found, Datum) = found
  BY <1>6 DEF WithTrigger
<1>9. Outcomes(h, Datum) = StandardProcess(h, Datum, found, rows, scenario.metadata)
  BY <1>1, <1>7, <1>8 DEF Outcomes, Process
<1> QED BY <1>1, <1>2, <1>3, <1>4, <1>5, <1>9 DEF found

(* Of hourly rain that is not stored rr_12 makes nothing.                  *)
LEMMA NothingOfHourly ==
  ASSUME Read(rows, RR_1, Datum.type, TimeSpan("rr_12", Datum.time)) = {}
  PROVE  Outcomes("rr_12", Datum) = {{}}
<1>1. getRelevantObsList("rr_12", Datum) = {}
  BY GaugeParameters DEF getRelevantObsList
<1>2. WithTrigger({}, Datum) = {Datum} /\ Cardinality({Datum}) = 1
  BY FS_Singleton DEF WithTrigger
<1>3. Useful("rr_12", Datum.time, {Datum}) = {}
  BY <1>2, UsefulCases, GaugeParameters DEF Enough
<1>4. StandardProcess("rr_12", Datum, {Datum}, rows, scenario.metadata) = {{}}
  <2>1. UNION {Aggregated("rr_12", Datum, useful, rows, scenario.metadata) : useful \in {}} = {}
    BY Zenon
  <2>2. MayRefuse("rr_12", Datum.time, {Datum})
    BY <1>3 DEF MayRefuse
  <2>3. {s \in {{}} : MayRefuse("rr_12", Datum.time, {Datum})} = {{}}
    BY <2>2, Zenon
  <2>4. {{}} \cup {} = {{}}
    BY Zenon
  <2> QED BY <1>3, <2>1, <2>3, <2>4, Zenon DEF StandardProcess
<1> QED BY <1>1, <1>2, <1>4 DEF Outcomes, Process

(* So what is made of the rain of half days is made of the gauge.          *)
LEMMA MadeOfGauge ==
  ASSUME Inv, Typed, NoHourly, Processing, NEW i \in Offered, NEW a \in UNION Outcomes(Registered[i], Datum),
         a.param = RR_12
  PROVE  Registered[i] \in GaugeAggregators
<1> DEFINE h == Registered[i]
<1>1. PICK obs : \E s \in Process(h, Datum, obs, rows, scenario.metadata) : a \in s
  BY DEF Outcomes
<1>2. IsAggregate(a, h, Datum)
  BY <1>1, ProcessIsAggregate
<1>3. h \in GaugeAggregators \cup {"rr_12"}
  BY <1>2, OfferedAggregator, GaugeParameters DEF IsAggregate
<1>4. h # "rr_12"
  BY NothingOfHourly DEF NoHourly, Read
<1> QED BY <1>3, <1>4

(* And in any case of what was observed, if the hourly rain was.           *)
LEMMA RainMadeOfObserved ==
  ASSUME Inv, Typed, HoursObserved, Processing, NEW i \in Offered, NEW a \in UNION Outcomes(Registered[i], Datum),
         a.param = RR_12
  PROVE  Datum \in message /\ ~Negative(Datum)
<1> DEFINE h == Registered[i]
<1>1. PICK obs : \E s \in Process(h, Datum, obs, rows, scenario.metadata) : a \in s
  BY DEF Outcomes
<1>2. IsAggregate(a, h, Datum)
  BY <1>1, ProcessIsAggregate
<1>3. h \in GaugeAggregators \cup {"rr_12"}
  BY <1>2, OfferedAggregator, GaugeParameters DEF IsAggregate
<1>4. CASE h \in GaugeAggregators
  BY <1>4, GaugeAtWork
<1>5. CASE h = "rr_12"
  <2>1. ~Negative(Datum)
    <3>1. ASSUME Negative(Datum) PROVE Read(rows, RR_1, Datum.type, TimeSpan("rr_12", Datum.time)) = {}
      BY <3>1 DEF HoursObserved, Read, Negative
    <3> QED BY <1>5, <3>1, NothingOfHourly
  <2> QED BY <2>1, CallAtWork DEF AggregateData
<1> QED BY <1>3, <1>4, <1>5

(* What is made of the gauge is what it rose by.                           *)
LEMMA GaugeIsRight ==
  ASSUME Inv, Typed, NoHourly, Rising, Processing, NEW i \in Offered,
         NEW a \in UNION Outcomes(Registered[i], Datum), NEW p \in rows, NEW r \in rows,
         HalfDay(p, r), Key(a) = GaugeKey(r)
  PROVE  GaugeRight(a, p, r)
<1> DEFINE h == Registered[i]
           found == Read(rows, RA, Datum.type, TimeSpan(h, Datum.time))
<1>1. h \in GaugeAggregators
  <2>1. a.param = RR_12
    BY DEF Key, GaugeKey
  <2> QED BY <2>1, MadeOfGauge
<1>2. /\ Datum \in Data /\ Datum \in rows /\ Datum.param = RA /\ ~Negative(Datum)
      /\ Datum.type \in Int /\ Datum.type > 0
      /\ Outcomes(h, Datum) = StandardProcess(h, Datum, found, rows, scenario.metadata)
  BY <1>1, GaugeAtWork
<1>3. Key(a) = <<RR_12, ResultTime(h, Datum.time), -Datum.type>>
  BY <1>1, <1>2, KeyOfOutcome, GaugeParameters DEF AggregateKey, Negated
<1>4. PICK s \in StandardProcess(h, Datum, found, rows, scenario.metadata) : a \in s
  BY <1>2
<1>5. TimeOfDay(Datum.time) \in sixAmSixPm
  BY <1>1, <1>4, GaugeMakesAtSixes
<1>6. Datum.time \in Int /\ r.type \in Int /\ r.type = p.type /\ p.time \in Int /\ r.time = p.time + 12 * Hour
      /\ p.param = RA /\ r.param = RA /\ r.time \in Int
  BY <1>2 DEF Typed, OneForEachKey, Data, HalfDay
<1>7. Datum.type = r.type /\ ResultTime(h, Datum.time) = r.time
  <2>1. -Datum.type = -r.type /\ ResultTime(h, Datum.time) = r.time
    BY <1>3 DEF GaugeKey
  <2> QED BY <1>2, <1>6, <2>1
<1>8. <<h, Datum>> \in TriggersOf(p, r)
  <2>1. CASE h = "ra2rr_b"
    <3>1. Datum.time = r.time
      BY <1>5, <1>6, <1>7, <2>1, GaugeSpans
    <3>2. Key(Datum) = Key(r)
      BY <1>2, <1>6, <1>7, <3>1 DEF Key
    <3>3. Datum = r
      BY <1>2, <3>2 DEF Typed, OneForEachKey
    <3> QED BY <2>1, <3>3 DEF TriggersOf
  <2>2. CASE h = "ra2rr_f"
    <3>1. Datum.time + 12 * Hour = r.time
      BY <1>5, <1>6, <1>7, <2>2, GaugeSpans
    <3>2. Datum.time = p.time
      BY <1>6, <3>1 DEF Hour
    <3>3. Key(Datum) = Key(p)
      BY <1>2, <1>6, <1>7, <3>2 DEF Key
    <3>4. Datum = p
      BY <1>2, <3>3 DEF Typed, OneForEachKey
    <3> QED BY <2>2, <3>4 DEF TriggersOf
  <2> QED BY <1>1, <2>1, <2>2 DEF GaugeAggregators
<1> HIDE DEF h, found
<1>9. \A field \in Fields : a[field] = r[field] - p[field]
  <2>1. OneForEachKey(rows) /\ \A x, y \in rows : HalfDay(x, y) => Rise(x, y)
    BY DEF Typed, Rising
  <2> QED BY <1>4, <1>8, <2>1, GaugeMakes DEF found
<1> QED BY <1>9 DEF GaugeRight

(* Of a half day something is made in any case, and always at once.        *)
LEMMA GaugeMakesSomething ==
  ASSUME Inv, Typed, Rising, Processing, NEW i \in Offered, NEW p \in rows, NEW r \in rows, HalfDay(p, r),
         NEW h, Registered[i] = h, <<h, Datum>> \in TriggersOf(p, r)
  PROVE  IsInterestedIn(h, Datum.time, now) /\ {} \notin Outcomes(h, Datum)
<1>1. h \in GaugeAggregators
  BY DEF GaugeAggregators, TriggersOf
<1>2. Outcomes(h, Datum) = StandardProcess(h, Datum, Read(rows, RA, Datum.type, TimeSpan(h, Datum.time)),
                                           rows, scenario.metadata)
  BY <1>1, GaugeAtWork
<1>3. OneForEachKey(rows) /\ \A x, y \in rows : HalfDay(x, y) => Rise(x, y)
  BY DEF Typed, Rising
<1>4. {} \notin Outcomes(h, Datum)
  BY <1>2, <1>3, GaugeMakes
<1>5. TimeOfDay(Datum.time) \in sixAmSixPm
  BY <1>3, GaugeFinds DEF GaugeReady, BothSixes
<1> QED BY <1>4, <1>5 DEF IsInterestedIn

(* A level of a half day: it is observed, and what is made of it has the   *)
(* key of the rain of the half day.                                        *)
LEMMA LevelOfHalfDay ==
  ASSUME Inv, Typed, GaugeObserved, NEW p \in rows, NEW r \in rows, HalfDay(p, r),
         NEW h, NEW d, <<h, d>> \in TriggersOf(p, r)
  PROVE  /\ h \in GaugeAggregators /\ d \in rows /\ d.param = RA /\ d.param \in Aggregators[h].read
         /\ ~Negative(d) /\ AggregateKey(h, d) = GaugeKey(r)
         /\ r.type \in Int /\ r.type > 0
<1>1. (h = "ra2rr_b" /\ d = r) \/ (h = "ra2rr_f" /\ d = p)
  BY DEF TriggersOf
<1>2. h \in GaugeAggregators /\ d \in rows /\ d.param = RA
  BY <1>1 DEF GaugeAggregators, HalfDay
<1>3. d.param \in Aggregators[h].read /\ ~Negative(d)
  BY <1>2, GaugeParameters DEF GaugeObserved
<1>4. r.type \in Int /\ r.type > 0
  BY DEF GaugeObserved, HalfDay, Inv, AllProper, Proper, Negative
<1>5. p.time \in Int /\ r.time \in Int /\ r.time = p.time + 12 * Hour /\ TimeOfDay(p.time) \in sixAmSixPm
      /\ r.type = p.type
  BY DEF Typed, OneForEachKey, Data, HalfDay
<1>6. TimeOfDay(r.time) \in sixAmSixPm
  BY <1>5 DEF TimeOfDay, sixAmSixPm, Day, Hour
<1>7. AggregateKey(h, d) = GaugeKey(r)
  <2>1. Aggregators[h].write = RR_12
    BY <1>2, GaugeParameters
  <2>2. ResultTime(h, d.time) = r.time /\ d.type = r.type
    BY <1>1, <1>5, <1>6, GaugeSpans
  <2> QED BY <1>4, <2>1, <2>2 DEF AggregateKey, GaugeKey, Negated
<1> QED BY <1>2, <1>3, <1>4, <1>7

(* No aggregate is a level of the gauge.                                   *)
LEMMA LevelsKept ==
  ASSUME NEW new \in SUBSET AggregateData, NEW x \in Put(rows, new), x.param = RA
  PROVE  x \in rows
BY PutStores, GaugeParameters DEF AggregateData

(* A level passes the checks where there is no hourly rain.                *)
LEMMA LevelPasses ==
  ASSUME NoHourly, NEW d, d.param = RA
  PROVE  CompleteCheckDecider(d, message, rows, scenario.station)
<1>1. StationRangeFilter(d, scenario.station)
  BY DEF StationRangeFilter, precipitationParameters
<1>2. Read(rows, RR_1, d.type, LastHours(d.time)) = {}
  BY DEF NoHourly, Read
<1>3. ~rr1ShouldOverrideRa(d, rows)
  BY <1>2 DEF rr1ShouldOverrideRa
<1>4. RR1OverridesRADecider(d, message, rows)
  BY <1>3, GaugeParameters DEF RR1OverridesRADecider
<1> QED BY <1>1, <1>4 DEF CompleteCheckDecider

(* What kvalobs sends back of the rain of half days changes nothing.       *)
LEMMA EchoKeepsRain ==
  ASSUME Inv, Typed, RainEchoing, HoursObserved, TakeEcho, NEW x \in rows, x.param = RR_12
  PROVE  x \in rows'
<1> DEFINE new == {d \in message' : d.param \in Interesting}
<1>1. rows' = Put(rows, new) /\ 1 \in DOMAIN pending /\ message' = pending[1]
  BY NextEcho
<1>2. CASE \A n \in new : Key(n) # Key(x)
  BY <1>1, <1>2 DEF Put
<1>3. CASE \E n \in new : Key(n) = Key(x)
  <2>1. PICK n \in new : Key(n) = Key(x)
    BY <1>3
  <2>2. n.param = RR_12
    BY <2>1 DEF Key
  <2>3. n \in rows
    BY <1>1, <2>2 DEF RainEchoing, RainEchoed
  <2>4. n = x
    BY <2>1, <2>3 DEF Typed, OneForEachKey
  <2> QED BY <1>1, <2>4, PutStores
<1> QED BY <1>2, <1>3

(* As for what is computed of observations only: a message of kvalobs is   *)
(* taken;                                                                  *)
LEMMA TakeEchoRain == Inv /\ Typed /\ RainEchoing /\ TakeEcho => RainEchoing'
<1> SUFFICES ASSUME Inv, Typed, RainEchoing, TakeEcho PROVE RainEchoing'
  OBVIOUS
<1>1. out' = <<>>
  BY DEF TakeEcho, Begin
<1>2. ASSUME HoursObserved', NEW i \in DOMAIN pending', NEW x \in pending'[i], x.param = RR_12
      PROVE  x \in rows'
  <2>1. HoursObserved
    BY <1>2, NextEcho, HoursObservedBefore
  <2>2. x \in rows
    BY <1>2, <2>1, NextEcho DEF RainEchoing, RainEchoed
  <2> QED BY <1>2, <2>1, <2>2, EchoKeepsRain
<1>3. RainEchoed'
  BY <1>2 DEF RainEchoed
<1>4. RainObserving'
  BY <1>1, NothingComes DEF RainObserving
<1> QED BY <1>3, <1>4 DEF RainEchoing

(* what was computed is saved;                                             *)
LEMMA SaveRain == Inv /\ Typed /\ Echoing /\ RainEchoing /\ save => RainEchoing'
<1> SUFFICES ASSUME Inv, Typed, Echoing, RainEchoing, save PROVE RainEchoing'
  OBVIOUS
<1>1. out' = <<>> /\ rows' = Put(rows, Sent)
  BY DEF save, End
<1>2. ASSUME HoursObserved', NEW i \in DOMAIN pending', NEW x \in pending'[i], x.param = RR_12
      PROVE  x \in rows'
  <2>1. HoursObserved
    BY <1>1, <1>2, HoursObservedBefore
  <2>2. CASE x \in Sent
    BY <1>1, <2>2, PutStores
  <2>3. CASE \E j \in DOMAIN pending : x \in pending[j]
    <3>1. x \in rows
      BY <1>2, <2>1, <2>3 DEF RainEchoing, RainEchoed
    <3>2. \A n \in Sent : Key(n) # Key(x)
      <4> SUFFICES ASSUME NEW n \in Sent, Key(n) = Key(x) PROVE FALSE
        OBVIOUS
      <4>1. n.param = RR_12
        BY <1>2 DEF Key
      <4>2. \E j \in DOMAIN out : n = out[j]
        BY DEF Sent
      <4>3. pending = <<>>
        BY <2>1, <4>1, <4>2 DEF Echoing, Alone, RainEchoing, RainObserving
      <4> QED BY <2>3, <4>3, NothingComes
    <3> QED BY <1>1, <3>1, <3>2 DEF Put
  <2> QED BY <1>2, <2>2, <2>3, PendingAfterSave
<1>3. RainEchoed'
  BY <1>2 DEF RainEchoed
<1>4. RainObserving'
  BY <1>1, NothingComes DEF RainObserving
<1> QED BY <1>3, <1>4 DEF RainEchoing

(* an aggregate is added to what is going to be saved.                     *)
LEMMA AggregateRain == PoYieldsFractions /\ Inv /\ Typed /\ RainEchoing /\ Aggregate => RainEchoing'
<1> SUFFICES ASSUME PoYieldsFractions, Inv, Typed, RainEchoing, Aggregate PROVE RainEchoing'
  OBVIOUS
<1>1. Processing /\ UNCHANGED <<rows, message, pending>>
  BY DEF Aggregate
<1> PICK i \in Offered : \E a \in UNION Outcomes(Registered[i], Datum) : out' = Append(out, a)
  BY DEF Aggregate
<1>2. PICK a \in UNION Outcomes(Registered[i], Datum) : out' = Append(out, a)
  OBVIOUS
<1>3. \A j \in DOMAIN out' : out'[j] = a \/ (j \in DOMAIN out /\ out'[j] = out[j])
  <2>1. out \in Seq(AggregateData) /\ a \in AggregateData
    BY <1>1, OutcomeIsData DEF Typed
  <2> QED BY <1>2, <2>1, DomainOfAppend
<1>4. ASSUME HoursObserved, a.param = RR_12 PROVE \E d \in message : ~Negative(d)
  BY <1>1, <1>4, RainMadeOfObserved
<1>5. RainObserving'
  BY <1>1, <1>3, <1>4 DEF RainEchoing, RainObserving, HoursObserved, Negative
<1>6. RainEchoed'
  BY <1>1 DEF RainEchoing, RainEchoed, HoursObserved
<1> QED BY <1>5, <1>6 DEF RainEchoing

(* Every step.                                                             *)
LEMMA NextRain == PoYieldsFractions /\ Inv /\ Typed /\ Echoing /\ RainEchoing /\ [Next]_vars => RainEchoing'
<1> SUFFICES ASSUME PoYieldsFractions, Inv, Typed, Echoing, RainEchoing, [Next]_vars PROVE RainEchoing'
  OBVIOUS
<1>1. CASE UNCHANGED <<rows, message, out, pending>>
  BY <1>1 DEF RainEchoing, RainEchoed, RainObserving, HoursObserved, Negative
<1>2. CASE out' = <<>> /\ UNCHANGED <<rows, pending>>
  BY <1>2, NothingComes DEF RainEchoing, RainEchoed, RainObserving, HoursObserved
<1>3. CASE Receive
  <2>1. out' = <<>> /\ pending' = <<>>
    BY <1>3 DEF Receive, Begin
  <2> QED BY <2>1, NothingComes DEF RainEchoing, RainEchoed, RainObserving
<1>4. CASE saveRefused
  <2>1. rows' = rows
    BY <1>4, RefusedKeepsRows
  <2> QED BY <1>2, <1>4, <2>1 DEF saveRefused
<1> QED BY <1>1, <1>2, <1>3, <1>4, TakeEchoRain, SaveRain, AggregateRain
        DEF Next, Worker, process, Tick, Shutdown, newData, Uninterested, NoAggregate,
            Return, unsaved, End, vars, newDataVars

(* While a message is processed the store does not change: what is coming  *)
(* goes on coming.                                                         *)
LEMMA WorkingGauge ==
  ASSUME Inv, Typed, GaugeFollowing, UNCHANGED <<scenario, rows, message, shutdown>>, GaugeOutRight',
         \A h \in GaugeAggregators, d \in message :
           GaugeActive /\ d \in rows /\ d.param = RA /\ Coming(h, d) =>
             \/ Coming(h, d)'
             \/ \A p, r \in rows : ~(HalfDay(p, r) /\ <<h, d>> \in TriggersOf(p, r))
  PROVE  GaugeFollowing'
<1>1. GaugeObserved'
  BY DEF GaugeFollowing, GaugeObserved, Negative
<1>2. GaugeCovered'
  <2> SUFFICES ASSUME GaugeActive', NEW p \in rows', NEW r \in rows', HalfDay(p, r)
               PROVE  (\E a \in rows' : GaugeRight(a, p, r)) \/ GaugeComing(p, r)'
    BY DEF GaugeCovered
  <2>1. GaugeActive /\ p \in rows /\ r \in rows
    BY DEF GaugeActive, Unfiltered, NoHourly
  <2>2. CASE \E a \in rows : GaugeRight(a, p, r)
    BY <2>2
  <2>3. CASE GaugeComing(p, r)
    <3>1. PICK h \in GaugeAggregators, d \in message : <<h, d>> \in TriggersOf(p, r) /\ Coming(h, d)
      BY <2>3 DEF GaugeComing
    <3>2. d \in rows /\ d.param = RA
      BY <2>1, <3>1, LevelOfHalfDay DEF GaugeFollowing
    <3>3. Coming(h, d)'
      BY <2>1, <3>1, <3>2
    <3> QED BY <3>1, <3>3 DEF GaugeComing
  <2> QED BY <2>1, <2>2, <2>3 DEF GaugeFollowing, GaugeCovered
<1> QED BY <1>1, <1>2 DEF GaugeFollowing

(* Nothing of a half day is passed over.                                   *)
LEMMA SkipGauge == Inv /\ Typed /\ Rising /\ GaugeFollowing /\ (Uninterested \/ NoAggregate) => GaugeFollowing'
<1> SUFFICES ASSUME Inv, Typed, Rising, GaugeFollowing, Uninterested \/ NoAggregate
             PROVE  GaugeFollowing'
  OBVIOUS
<1>1. /\ Processing
      /\ UNCHANGED <<scenario, now, rows, phase, message, data, accepted, out, pending, shutdown, history>>
  BY DEF Uninterested, NoAggregate
<1>2. ASSUME NEW h \in GaugeAggregators, NEW d \in message, d.param = RA, Coming(h, d), ~Coming(h, d)',
             NEW p \in rows, NEW r \in rows, HalfDay(p, r), <<h, d>> \in TriggersOf(p, r)
      PROVE  FALSE
  <2>1. d.param \in Aggregators[h].read
    BY <1>2, GaugeParameters
  <2>2. PICK i \in Offered : /\ Datum = d /\ Registered[i] = h
                             /\ ~IsInterestedIn(h, d.time, now) \/ {} \in Outcomes(h, d)
    BY <1>2, <2>1, SkipComing
  <2> QED BY <1>1, <1>2, <2>2, GaugeMakesSomething
<1>3. GaugeOutRight'
  BY <1>1 DEF GaugeFollowing, GaugeOutRight, NoHourly
<1> QED BY <1>1, <1>2, <1>3, WorkingGauge

(* What is made of the gauge is right.                                     *)
LEMMA AggregateGauge ==
  PoYieldsFractions /\ Inv /\ Typed /\ Rising /\ GaugeFollowing /\ Aggregate => GaugeFollowing'
<1> SUFFICES ASSUME PoYieldsFractions, Inv, Typed, Rising, GaugeFollowing, Aggregate
             PROVE  GaugeFollowing'
  OBVIOUS
<1>1. /\ Processing
      /\ UNCHANGED <<scenario, now, rows, phase, message, data, accepted, pending, shutdown, history>>
  BY DEF Aggregate
<1> PICK i \in Offered : \E a \in UNION Outcomes(Registered[i], Datum) : out' = Append(out, a)
  BY DEF Aggregate
<1>2. PICK a \in UNION Outcomes(Registered[i], Datum) : out' = Append(out, a)
  OBVIOUS
<1>3. \A j \in DOMAIN out' : out'[j] = a \/ (j \in DOMAIN out /\ out'[j] = out[j])
  <2>1. out \in Seq(AggregateData) /\ a \in AggregateData
    BY <1>1, OutcomeIsData DEF Typed
  <2> QED BY <1>2, <2>1, DomainOfAppend
<1>4. GaugeOutRight'
  <2> SUFFICES ASSUME NoHourly, NEW j \in DOMAIN out', NEW p \in rows, NEW r \in rows, HalfDay(p, r),
                      Key(out'[j]) = GaugeKey(r)
               PROVE  GaugeRight(out'[j], p, r)
    BY <1>1 DEF GaugeOutRight, NoHourly
  <2>1. CASE out'[j] = a
    BY <1>1, <2>1, GaugeIsRight
  <2>2. CASE j \in DOMAIN out /\ out'[j] = out[j]
    BY <2>2 DEF GaugeFollowing, GaugeOutRight
  <2> QED BY <1>3, <2>1, <2>2
<1>5. ASSUME NEW h \in GaugeAggregators, NEW d \in message, d \in rows, d.param = RA, Coming(h, d)
      PROVE  Coming(h, d)'
  <2>1. ~Negative(d) /\ d.param \in Aggregators[h].read
    BY <1>5, GaugeParameters DEF GaugeFollowing, GaugeObserved
  <2> QED BY <1>5, <2>1, AggregateComing
<1> QED BY <1>1, <1>4, <1>5, WorkingGauge

(* A call that ends has offered its datum to the gauge's aggregators.      *)
LEMMA ReturnGauge == Inv /\ Typed /\ GaugeFollowing /\ Return => GaugeFollowing'
<1> SUFFICES ASSUME Inv, Typed, GaugeFollowing, Return PROVE GaugeFollowing'
  OBVIOUS
<1>1. UNCHANGED <<scenario, now, rows, phase, message, data, accepted, out, pending, shutdown, history>>
  BY DEF Return
<1>2. GaugeOutRight'
  BY <1>1 DEF GaugeFollowing, GaugeOutRight, NoHourly
<1>3. ASSUME NEW h \in GaugeAggregators, NEW d \in message, GaugeActive, d.param = RA, Coming(h, d)
      PROVE  Coming(h, d)'
  BY <1>3, GaugeParameters, ReturnComing DEF GaugeActive
<1> QED BY <1>1, <1>2, <1>3, WorkingGauge

(* A level passes the checks, and process is called.                       *)
LEMMA NewDataGauge == Inv /\ Typed /\ GaugeFollowing /\ newData => GaugeFollowing'
<1> SUFFICES ASSUME Inv, Typed, GaugeFollowing, newData PROVE GaugeFollowing'
  OBVIOUS
<1>1. UNCHANGED <<scenario, now, rows, phase, message, out, pending, shutdown, history>>
  BY DEF newData
<1>2. GaugeOutRight'
  BY <1>1 DEF GaugeFollowing, GaugeOutRight, NoHourly
<1>3. ASSUME NEW h \in GaugeAggregators, NEW d \in message, GaugeActive, d.param = RA, Coming(h, d)
      PROVE  Coming(h, d)'
  <2>1. h \in Names
    BY GaugeParameters
  <2>2. CompleteCheckDecider(d, message, rows, scenario.station)
    BY <1>3, LevelPasses DEF GaugeActive
  <2> QED BY <1>3, <2>1, <2>2, NewDataComing DEF GaugeActive
<1> QED BY <1>1, <1>2, <1>3, WorkingGauge

(* A level that is received is coming; what others were made into is kept. *)
LEMMA ReceiveGauge == Inv /\ Typed /\ Echoing /\ GaugeFollowing /\ Receive => GaugeFollowing'
<1> SUFFICES ASSUME Inv, Typed, Echoing, GaugeFollowing, Receive PROVE GaugeFollowing'
  OBVIOUS
<1>1. PICK m \in scenario.messages : Begin(m)
  BY DEF Receive
<1> DEFINE new == {d \in m : d.param \in Interesting}
<1>2. /\ phase = "idle" /\ rows' = Put(rows, new) /\ message' = m /\ data' = m
      /\ out' = <<>> /\ UNCHANGED <<scenario, shutdown>>
  BY <1>1 DEF Begin, cacheData
<1>3. message = {} /\ \A d \in m : ~Negative(d)
  BY <1>2, HandlerAssumption DEF Inv, ScenarioAssumptionOf, Echoing, Resting
<1>4. GaugeOutRight'
  BY <1>2, NothingComes DEF GaugeOutRight
<1>5. GaugeObserved'
  BY <1>2, <1>3, PutStores DEF GaugeFollowing, GaugeObserved, Negative
<1>6. GaugeCovered'
  <2> SUFFICES ASSUME GaugeActive', NEW p \in rows', NEW r \in rows', HalfDay(p, r)
               PROVE  (\E a \in rows' : GaugeRight(a, p, r)) \/ GaugeComing(p, r)'
    BY DEF GaugeCovered
  <2>1. CASE r \in new
    <3>1. "ra2rr_b" \in GaugeAggregators /\ <<"ra2rr_b", r>> \in TriggersOf(p, r)
      BY DEF GaugeAggregators, TriggersOf
    <3> QED BY <1>2, <2>1, <3>1 DEF GaugeComing, Coming
  <2>2. CASE p \in new
    <3>1. "ra2rr_f" \in GaugeAggregators /\ <<"ra2rr_f", p>> \in TriggersOf(p, r)
      BY DEF GaugeAggregators, TriggersOf
    <3> QED BY <1>2, <2>2, <3>1 DEF GaugeComing, Coming
  <2>3. CASE p \notin new /\ r \notin new
    <3>1. p \in rows /\ r \in rows
      BY <1>2, <2>3, PutStores
    <3>2. GaugeActive
      BY <1>2, NoHourlyBefore DEF GaugeActive, Unfiltered
    <3>3. PICK a \in rows : GaugeRight(a, p, r)
      BY <1>3, <3>1, <3>2 DEF GaugeFollowing, GaugeCovered, GaugeComing
    <3>4. r.type \in Int /\ r.type > 0
      BY <3>1 DEF GaugeFollowing, GaugeObserved, HalfDay, Inv, AllProper, Proper, Negative
    <3>5. a.type < 0
      BY <3>3, <3>4 DEF GaugeRight, GaugeKey, Key
    <3>6. \A n \in new : Key(n) # Key(a)
      BY <1>3, <3>5 DEF Negative, Key
    <3> QED BY <1>2, <3>3, <3>6 DEF Put
  <2> QED BY <2>1, <2>2, <2>3
<1> QED BY <1>4, <1>5, <1>6 DEF GaugeFollowing

(* What kvalobs sends back is what is stored.                              *)
LEMMA TakeEchoGauge == Inv /\ Typed /\ Echoing /\ RainEchoing /\ GaugeFollowing /\ TakeEcho => GaugeFollowing'
<1> SUFFICES ASSUME Inv, Typed, Echoing, RainEchoing, GaugeFollowing, TakeEcho PROVE GaugeFollowing'
  OBVIOUS
<1> DEFINE new == {d \in message' : d.param \in Interesting}
<1>1. /\ phase = "idle" /\ out' = <<>> /\ UNCHANGED <<scenario, shutdown>>
      /\ rows' = Put(rows, new) /\ message' \subseteq AggregateData
  BY NextEcho DEF TakeEcho, Begin
<1>2. message = {} /\ new \in SUBSET AggregateData
  BY <1>1 DEF Echoing, Resting
<1> HIDE DEF new
<1>3. GaugeOutRight'
  BY <1>1, NothingComes DEF GaugeOutRight
<1>4. \A x \in rows' : x.param = RA => x \in rows
  BY <1>1, <1>2, LevelsKept
<1>5. GaugeObserved'
  BY <1>4 DEF GaugeFollowing, GaugeObserved, Negative
<1>6. GaugeCovered'
  <2> SUFFICES ASSUME GaugeActive', NEW p \in rows', NEW r \in rows', HalfDay(p, r)
               PROVE  \E a \in rows' : GaugeRight(a, p, r)
    BY DEF GaugeCovered
  <2>1. p \in rows /\ r \in rows
    BY <1>4 DEF HalfDay
  <2>2. GaugeActive
    BY <1>1, NoHourlyBefore DEF GaugeActive, Unfiltered
  <2>3. PICK a \in rows : GaugeRight(a, p, r)
    BY <1>2, <2>1, <2>2 DEF GaugeFollowing, GaugeCovered, GaugeComing
  <2>4. a.param = RR_12
    BY <2>3 DEF GaugeRight, GaugeKey, Key
  <2> QED BY <2>2, <2>3, <2>4, EchoKeepsRain DEF GaugeActive, NoHourly, HoursObserved
<1> QED BY <1>3, <1>5, <1>6 DEF GaugeFollowing

(* What is saved is right.                                                 *)
LEMMA SaveGauge == Inv /\ Typed /\ GaugeFollowing /\ save => GaugeFollowing'
<1> SUFFICES ASSUME Inv, Typed, GaugeFollowing, save PROVE GaugeFollowing'
  OBVIOUS
<1>1. /\ rows' = Put(rows, Sent) /\ message' = {} /\ out' = <<>> /\ stack = <<>> /\ data = {}
      /\ UNCHANGED <<scenario, shutdown>>
  BY DEF save, Done, End
<1>2. Sent \in SUBSET AggregateData
  BY SentOneForEachKey
<1>3. GaugeOutRight'
  BY <1>1, NothingComes DEF GaugeOutRight
<1>4. \A x \in rows' : x.param = RA => x \in rows
  BY <1>1, <1>2, LevelsKept
<1>5. GaugeObserved'
  BY <1>4 DEF GaugeFollowing, GaugeObserved, Negative
<1>6. GaugeCovered'
  <2> SUFFICES ASSUME GaugeActive', NEW p \in rows', NEW r \in rows', HalfDay(p, r)
               PROVE  \E a \in rows' : GaugeRight(a, p, r)
    BY DEF GaugeCovered
  <2>1. p \in rows /\ r \in rows
    BY <1>4 DEF HalfDay
  <2>2. GaugeActive
    BY <1>1, NoHourlyBefore DEF GaugeActive, Unfiltered
  <2>3. CASE \E i \in DOMAIN out : Key(out[i]) = GaugeKey(r)
    <3>1. PICK i \in DOMAIN out : Key(out[i]) = GaugeKey(r)
      BY <2>3
    <3>2. out[i].param \in Interesting
      BY <3>1, GaugeParameters DEF Key, GaugeKey
    <3>3. PICK a \in rows', j \in DOMAIN out :
            Key(a) = Key(out[i]) /\ Key(out[j]) = Key(out[i]) /\ \A field \in Fields : a[field] = out[j][field]
      BY <1>1, <3>2, SavedAsComputed
    <3>4. GaugeRight(out[j], p, r)
      BY <2>1, <2>2, <3>1, <3>3 DEF GaugeFollowing, GaugeOutRight, GaugeActive
    <3> QED BY <3>1, <3>3, <3>4 DEF GaugeRight
  <2>4. CASE \A i \in DOMAIN out : Key(out[i]) # GaugeKey(r)
    <3>1. ~GaugeComing(p, r)
      <4> SUFFICES ASSUME NEW h \in GaugeAggregators, NEW d \in message, <<h, d>> \in TriggersOf(p, r), Coming(h, d)
                   PROVE  FALSE
        BY DEF GaugeComing
      <4>1. AggregateKey(h, d) = GaugeKey(r)
        BY <2>1, LevelOfHalfDay DEF GaugeFollowing
      <4> QED BY <1>1, <2>4, <4>1, NothingComes DEF Coming
    <3>2. PICK a \in rows : GaugeRight(a, p, r)
      BY <2>1, <2>2, <3>1 DEF GaugeFollowing, GaugeCovered
    <3>3. \A n \in Sent : Key(n) # Key(a)
      BY <2>4, <3>2 DEF Sent, GaugeRight
    <3> QED BY <1>1, <3>2, <3>3 DEF Put
  <2> QED BY <2>3, <2>4
<1> QED BY <1>3, <1>5, <1>6 DEF GaugeFollowing

(* When kvalobs refuses, the whole message is coming again.                *)
LEMMA SaveRefusedGauge == Inv /\ Typed /\ GaugeFollowing /\ saveRefused => GaugeFollowing'
<1> SUFFICES ASSUME Inv, Typed, GaugeFollowing, saveRefused PROVE GaugeFollowing'
  OBVIOUS
<1>1. /\ data' = message /\ out' = <<>> /\ UNCHANGED <<scenario, now, message, stack, pending, shutdown>>
  BY DEF saveRefused
<1>2. rows' = rows
  BY RefusedKeepsRows
<1>3. GaugeOutRight'
  BY <1>1, NothingComes DEF GaugeOutRight
<1>4. \A h \in GaugeAggregators, d \in message : Coming(h, d)'
  BY <1>1 DEF Coming
<1> QED BY <1>1, <1>2, <1>3, <1>4, WorkingGauge

(* The other steps change nothing of it, or shut down the program.         *)
LEMMA StillGauge == Inv /\ Typed /\ GaugeFollowing /\ (unsaved \/ Tick \/ Shutdown \/ UNCHANGED vars) => GaugeFollowing'
<1> SUFFICES ASSUME Inv, Typed, GaugeFollowing, unsaved \/ Tick \/ Shutdown \/ UNCHANGED vars PROVE GaugeFollowing'
  OBVIOUS
<1>1. CASE shutdown' /\ UNCHANGED <<scenario, rows>> /\ (out' = <<>> \/ out' = out)
  <2>1. GaugeOutRight'
    BY <1>1, NothingComes DEF GaugeFollowing, GaugeOutRight, NoHourly
  <2>2. GaugeObserved'
    BY <1>1 DEF GaugeFollowing, GaugeObserved, Negative
  <2> QED BY <1>1, <2>1, <2>2 DEF GaugeFollowing, GaugeCovered, GaugeActive
<1>2. CASE UNCHANGED <<scenario, rows, message, data, stack, out, shutdown>>
  <2>1. GaugeOutRight'
    BY <1>2 DEF GaugeFollowing, GaugeOutRight, NoHourly
  <2>2. \A h \in GaugeAggregators, d \in message : Coming(h, d) => Coming(h, d)'
    BY <1>2 DEF Coming
  <2> QED BY <1>2, <2>1, <2>2, WorkingGauge
<1> QED BY <1>1, <1>2 DEF unsaved, End, Tick, Shutdown, vars, newDataVars

(* Every step.                                                             *)
LEMMA NextGauge ==
  PoYieldsFractions /\ Inv /\ Typed /\ Rising /\ Echoing /\ RainEchoing /\ GaugeFollowing /\ [Next]_vars
  => GaugeFollowing'
BY ReceiveGauge, TakeEchoGauge, SkipGauge, AggregateGauge, ReturnGauge, NewDataGauge, SaveGauge, SaveRefusedGauge,
   StillGauge
   DEF Next, Worker, process

(* What is stored at the start: levels are observed, and the rain of half  *)
(* days has been computed of them.                                         *)
GaugeSettled ==
  GaugeObserved /\ (Unfiltered /\ NoHourly =>
                      \A p, r \in rows : HalfDay(p, r) => \E a \in rows : GaugeRight(a, p, r))

(* What a station may send of its gauge; that of a gauge no level of which *)
(* is below one of half a day before; and that no other level is stored.   *)
Gauged == {x \in scenario.before \cup UNION scenario.messages : x.param = RA}
NeverEmptied == \A p, r \in Gauged : HalfDay(p, r) => Rise(p, r)
GaugeFromStation == \A x \in rows : x.param = RA => x \in Gauged

(* The station is the same all the time.                                   *)
LEMMA SameScenario == [Next]_vars => UNCHANGED scenario
BY DEF Next, Worker, process, Tick, Shutdown, newData, Uninterested, NoAggregate, Aggregate, Return,
       unsaved, End, save, saveRefused, Receive, TakeEcho, Begin, vars

(* No aggregate is one.                                                    *)
LEMMA NextFromStation == Inv /\ Typed /\ GaugeFromStation /\ [Next]_vars => GaugeFromStation'
<1> SUFFICES ASSUME Inv, Typed, GaugeFromStation, [Next]_vars PROVE GaugeFromStation'
  OBVIOUS
<1>1. UNCHANGED scenario
  BY SameScenario
<1>2. CASE rows' = rows
  BY <1>1, <1>2 DEF GaugeFromStation, Gauged
<1>3. CASE Receive
  <2> DEFINE new == {d \in message' : d.param \in Interesting}
  <2>1. message' \in scenario.messages /\ rows' = Put(rows, new)
    BY <1>3 DEF Receive, Begin, cacheData
  <2>2. \A x \in rows' : x \in rows \/ x \in message'
    BY <2>1, PutStores
  <2> QED BY <1>1, <2>1, <2>2 DEF GaugeFromStation, Gauged
<1>4. CASE TakeEcho
  <2> DEFINE new == {d \in message' : d.param \in Interesting}
  <2>1. new \in SUBSET AggregateData /\ rows' = Put(rows, new)
    BY <1>4, NextEcho
  <2> HIDE DEF new
  <2> QED BY <1>1, <2>1, LevelsKept DEF GaugeFromStation, Gauged
<1>5. CASE save
  <2>1. Sent \in SUBSET AggregateData /\ rows' = Put(rows, Sent)
    BY <1>5, SentOneForEachKey DEF save
  <2> QED BY <1>1, <2>1, LevelsKept DEF GaugeFromStation, Gauged
<1>6. CASE saveRefused
  BY <1>2, <1>6, RefusedKeepsRows
<1> QED BY <1>2, <1>3, <1>4, <1>5, <1>6
        DEF Next, Worker, process, Tick, Shutdown, newData, Uninterested, NoAggregate, Aggregate, Return,
            unsaved, vars

(* What is stored of a gauge that is never emptied never falls.            *)
LEMMA SpecRising ==
  ASSUME PoYieldsFractions
  PROVE  Spec /\ NeverEmptied => []Rising
<1>1. Init => GaugeFromStation
  BY DEF Init, GaugeFromStation, Gauged
<1>2. NeverEmptied /\ [Next]_vars => NeverEmptied'
  <2> SUFFICES ASSUME NeverEmptied, [Next]_vars PROVE NeverEmptied'
    OBVIOUS
  <2>1. UNCHANGED scenario
    BY SameScenario
  <2> QED BY <2>1 DEF NeverEmptied, Gauged
<1>3. NeverEmptied /\ GaugeFromStation => Rising
  BY DEF NeverEmptied, GaugeFromStation, Rising, HalfDay
<1> QED BY <1>1, <1>2, <1>3, NextFromStation, SpecInv, SpecTyped, PTL DEF Spec

(* In whatever order the levels come of a gauge that is never emptied, and *)
(* whatever is corrected in whatever order and kvalobs refuses: once       *)
(* everything has been worked off, the rain of every half day is what the  *)
(* gauge rose by.                                                          *)
THEOREM GaugeFollowsHolds ==
  ASSUME PoYieldsFractions
  PROVE  Spec /\ GaugeSettled /\ NeverEmptied => []GaugeFollows
<1>1. Init => Echoing /\ RainEchoing
  BY InitEchoing, NothingComes DEF Init, RainEchoing, RainEchoed, RainObserving
<1>2. Init /\ GaugeSettled => GaugeFollowing
  BY NothingComes DEF Init, GaugeSettled, GaugeFollowing, GaugeOutRight, GaugeCovered, GaugeActive
<1>3. Inv /\ Typed /\ Echoing /\ [Next]_vars => Echoing'
  BY NextEchoing
<1>4. Inv /\ Typed /\ Echoing /\ RainEchoing /\ [Next]_vars => RainEchoing'
  BY NextRain
<1>5. Inv /\ Typed /\ Rising /\ Echoing /\ RainEchoing /\ GaugeFollowing /\ [Next]_vars => GaugeFollowing'
  BY NextGauge
<1>6. Inv /\ Typed /\ Echoing /\ GaugeFollowing => GaugeFollows
  <2> SUFFICES ASSUME Typed, Echoing, GaugeFollowing, Quiet,
                      NEW p \in AtSixes(rows), NEW r \in AtSixes(rows), p.param = RA, r.param = RA,
                      p.orig = p.corr, r.orig = r.corr, r.type = p.type, r.time = p.time + 12 * Hour,
                      \A x \in rows : x.param # RR_1
               PROVE  Stored(RR_12, r.time, -r.type, LAMBDA field : r.orig - p.orig)
    BY DEF GaugeFollows
  <2>1. GaugeActive /\ message = {}
    BY DEF GaugeActive, NoHourly, Quiet, Echoing, Resting
  <2>2. p \in rows /\ r \in rows /\ HalfDay(p, r)
    BY DEF AtSixes, HalfDay
  <2>3. PICK a \in rows : GaugeRight(a, p, r)
    BY <2>1, <2>2 DEF GaugeFollowing, GaugeCovered, GaugeComing
  <2>4. Key(a) = <<RR_12, r.time, -r.type>> /\ \A field \in {"orig", "corr"} : a[field] = r.orig - p.orig
    BY <2>3 DEF GaugeRight, GaugeKey, Fields
  <2> QED BY <2>4 DEF Stored
<1> QED BY <1>1, <1>2, <1>3, <1>4, <1>5, <1>6, SpecInv, SpecTyped, SpecRising, PTL DEF Spec

-----------------------------------------------------------------------------
(* The rain of half a day and of a day follows that of the hours.          *)

(* Rain of hours that was observed, and of half days that was computed: no *)
(* station of the scenarios sends rain of half days itself, or rain of     *)
(* fractions of hours.  Both would be written under the same keys.         *)
OfHours(x) == x.param # RR_01 /\ (x.param = RR_1 => ~Negative(x)) /\ (x.param = RR_12 => Negative(x))
HoursOnly == \A x \in scenario.before \cup UNION scenario.messages : OfHours(x)

HoursStored ==
  /\ \A x \in rows \cup message : OfHours(x)
  /\ \A i \in DOMAIN out : OfHours(out[i])
  /\ \A i \in DOMAIN pending : \A x \in pending[i] : OfHours(x)

(* Who writes the rain of hours and of a day.                              *)
LEMMA RainParameters ==
  /\ \A h \in Names : Aggregators[h].write = RR_1 => h = "rr_1"
  /\ \A h \in Names : Aggregators[h].write = RR_24 => h = "rr_24"
  /\ Aggregators["rr_1"].read = {RR_01} /\ Aggregators["rr_24"].read = {RR_12}
  /\ Aggregators["rr_12"].write = RR_12 /\ Aggregators["rr_24"].write = RR_24
  /\ "rr_12" \in Names /\ "rr_24" \in Names /\ "rr_24" \in Timed
  /\ RR_01 \notin Written /\ RR_1 \in Interesting /\ RR_24 \in Interesting
  /\ RR_12 # RR_1 /\ RR_12 # RA /\ RR_24 # RR_12
<1>1. \A h \in Names : (Aggregators[h].write = RR_1 => h = "rr_1") /\ (Aggregators[h].write = RR_24 => h = "rr_24")
  BY DEF Names, Aggregators, Standard, Mean, rr_1, rr_12, rr_24, ra2rr_12, ta_24, uu_24, nn_24,
         ot_24, po, RR_1, RR_12, RR_24, TAM_24, TAN_12, TAX_12, TGN_12, UUM_24, NNM_24, PO, OT_24
<1>2. /\ Aggregators["rr_1"].read = {RR_01} /\ Aggregators["rr_24"].read = {RR_12}
      /\ Aggregators["rr_1"].write = RR_1
      /\ Aggregators["rr_12"].write = RR_12 /\ Aggregators["rr_24"].write = RR_24
  BY DEF Aggregators, Standard, rr_1, rr_12, rr_24
<1>3. "rr_12" \in Names /\ "rr_24" \in Names /\ "rr_24" \in Timed
  BY DEF Names, Timed
<1>4. RR_01 \notin Written
  <2> SUFFICES ASSUME NEW h \in Names PROVE Aggregators[h].write # RR_01
    BY NamesOfAggregators DEF Written
  <2> QED BY DEF Names, Aggregators, Standard, Mean, rr_1, rr_12, rr_24, ra2rr_12, ta_24, uu_24, nn_24,
         ot_24, po, RR_01, RR_1, RR_12, RR_24, TAM_24, TAN_12, TAX_12, TGN_12, UUM_24, NNM_24, PO, OT_24
<1>5. RR_1 \in Interesting /\ RR_24 \in Interesting
  <2>1. "rr_1" \in DOMAIN Aggregators /\ "rr_24" \in DOMAIN Aggregators
    BY DEF Aggregators
  <2> QED BY <1>2, <2>1 DEF Interesting
<1> QED BY <1>1, <1>2, <1>3, <1>4, <1>5 DEF RR_1, RR_12, RR_24, RA

(* No rain of hours is computed, as none of fractions of hours is known.   *)
LEMMA NoHourComputed ==
  ASSUME Inv, Typed, HoursStored, Processing, NEW i \in Offered, NEW a \in UNION Outcomes(Registered[i], Datum)
  PROVE  a.param # RR_1
<1> SUFFICES ASSUME a.param = RR_1 PROVE FALSE
  OBVIOUS
<1> DEFINE h == Registered[i]
<1>1. PICK obs : \E s \in Process(h, Datum, obs, rows, scenario.metadata) : a \in s
  BY DEF Outcomes
<1>2. IsAggregate(a, h, Datum)
  BY <1>1, ProcessIsAggregate
<1>3. h = "rr_1" /\ Datum.param = RR_01
  BY <1>2, OfferedAggregator, RainParameters DEF IsAggregate
<1>4. Datum \in message
  BY <1>3, CallAtWork, RainParameters DEF AggregateData
<1> QED BY <1>3, <1>4 DEF HoursStored, OfHours

(* All rain remains such.                                                  *)
LEMMA NextHours ==
  PoYieldsFractions /\ Inv /\ Typed /\ HoursOnly /\ HoursStored /\ [Next]_vars => HoursStored'
<1> SUFFICES ASSUME PoYieldsFractions, Inv, Typed, HoursOnly, HoursStored, [Next]_vars PROVE HoursStored'
  OBVIOUS
<1> USE DEF OfHours, Negative
<1>1. CASE UNCHANGED <<rows, message, out, pending>>
  BY <1>1 DEF HoursStored
<1>2. CASE out' = <<>> /\ rows' = rows /\ pending' = pending /\ (message' = message \/ message' = {})
  BY <1>2, NothingComes DEF HoursStored
<1>3. CASE Receive
  <2>1. PICK m \in scenario.messages : Begin(m)
    BY <1>3 DEF Receive
  <2> DEFINE new == {d \in m : d.param \in Interesting}
  <2>2. message' = m /\ rows' = Put(rows, new) /\ out' = <<>> /\ pending' = <<>>
    BY <1>3, <2>1 DEF Receive, Begin, cacheData
  <2>3. \A x \in rows' : x \in rows \/ x \in m
    BY <2>2, PutStores
  <2>4. \A x \in m : OfHours(x)
    BY DEF HoursOnly
  <2> QED BY <2>2, <2>3, <2>4, NothingComes DEF HoursStored
<1>4. CASE TakeEcho
  <2> DEFINE new == {d \in message' : d.param \in Interesting}
  <2>1. /\ 1 \in DOMAIN pending /\ message' = pending[1] /\ rows' = Put(rows, new) /\ out' = <<>>
        /\ \A i \in DOMAIN pending' : i + 1 \in DOMAIN pending /\ pending'[i] = pending[i + 1]
    BY <1>4, NextEcho DEF TakeEcho, Begin
  <2>2. \A x \in rows' : x \in rows \/ x \in message'
    BY <2>1, PutStores
  <2>3. \A i \in DOMAIN pending' : \A x \in pending'[i] : OfHours(x)
    BY <2>1 DEF HoursStored
  <2> QED BY <2>1, <2>2, <2>3, NothingComes DEF HoursStored
<1>5. CASE save
  <2>1. rows' = Put(rows, Sent) /\ message' = {} /\ out' = <<>>
    BY <1>5 DEF save, End
  <2>2. \A x \in Sent : OfHours(x)
    BY DEF HoursStored, Sent
  <2>3. \A x \in rows' : x \in rows \/ x \in Sent
    BY <2>1, PutStores
  <2>4. \A i \in DOMAIN pending' : \A x \in pending'[i] : OfHours(x)
    BY <1>5, <2>2, PendingAfterSave DEF HoursStored
  <2> QED BY <2>1, <2>2, <2>3, <2>4, NothingComes DEF HoursStored
<1>6. CASE Aggregate
  <2>1. Processing /\ UNCHANGED <<rows, message, pending>>
    BY <1>6 DEF Aggregate
  <2> PICK i \in Offered : \E a \in UNION Outcomes(Registered[i], Datum) : out' = Append(out, a)
    BY <1>6 DEF Aggregate
  <2>2. PICK a \in UNION Outcomes(Registered[i], Datum) : out' = Append(out, a)
    OBVIOUS
  <2>3. a \in AggregateData /\ a.param # RR_1
    BY <2>1, OutcomeIsData, NoHourComputed
  <2>4. OfHours(a)
    BY <2>3, RainParameters DEF AggregateData
  <2>5. \A j \in DOMAIN out' : out'[j] = a \/ (j \in DOMAIN out /\ out'[j] = out[j])
    <3>1. out \in Seq(AggregateData)
      BY DEF Typed
    <3> QED BY <2>2, <2>3, <3>1, DomainOfAppend
  <2>6. \A j \in DOMAIN out' : OfHours(out'[j])
    BY <2>4, <2>5 DEF HoursStored
  <2> QED BY <2>1, <2>6 DEF HoursStored
<1>7. CASE saveRefused
  BY <1>2, <1>7, RefusedKeepsRows DEF saveRefused
<1> QED BY <1>1, <1>2, <1>3, <1>4, <1>5, <1>6, <1>7
        DEF Next, Worker, process, Tick, Shutdown, newData, Uninterested, NoAggregate,
            Return, unsaved, End, vars, newDataVars

(* At the start.                                                           *)
LEMMA InitHours == Init /\ HoursOnly => HoursStored
BY NothingComes DEF Init, HoursOnly, HoursStored

(* The past remains past.                                                  *)
LEMMA NextPast == Inv /\ Typed /\ Past /\ [Next]_vars => Past'
<1> SUFFICES ASSUME Inv, Typed, Past, [Next]_vars PROVE Past'
  OBVIOUS
<1> DEFINE Before(r) == IF Negative(r) THEN r.param \in Written ELSE r.time <= now'
<1>1. SUFFICES \A r \in rows' : Before(r)
  BY DEF Past, Written, Negative
<1>2. now \in Int /\ now' \in Int /\ now <= now'
  <2>1. now \in Int
    BY HandlerAssumption DEF Typed, Inv, ScenarioAssumptionOf
  <2>2. CASE now' = now
    BY <2>1, <2>2
  <2>3. CASE Tick
    <3>1. now' \in scenario.clock /\ now < now'
      BY <2>3 DEF Tick
    <3>2. now' \in Int
      BY <3>1, HandlerAssumption DEF Inv, ScenarioAssumptionOf
    <3> QED BY <2>1, <3>1, <3>2
  <2> QED BY <2>2, <2>3 DEF Next, Worker, process, Shutdown, newData, Uninterested, NoAggregate, Aggregate, Return,
            unsaved, save, saveRefused, Receive, TakeEcho, Begin, vars
<1>3. \A r \in rows : Before(r)
  <2> SUFFICES ASSUME NEW r \in rows, ~Negative(r) PROVE r.time <= now'
    BY DEF Past
  <2>1. r.time \in Int /\ r.time <= now
    BY DEF Past, Typed, OneForEachKey, Data
  <2> QED BY <1>2, <2>1
<1>4. CASE rows' = rows
  BY <1>3, <1>4
<1>5. CASE Receive
  <2>1. PICK m \in scenario.messages : Begin(m) /\ \A d \in m : d.time <= now
    BY <1>5 DEF Receive
  <2> DEFINE new == {d \in m : d.param \in Interesting}
  <2>2. rows' = Put(rows, new) /\ now' = now
    BY <2>1 DEF Begin, cacheData
  <2>3. \A d \in m : ~Negative(d)
    BY HandlerAssumption DEF Inv, ScenarioAssumptionOf
  <2>4. \A r \in rows' : r \in rows \/ r \in m
    BY <2>2, PutStores
  <2> QED BY <1>3, <2>1, <2>2, <2>3, <2>4
<1>6. CASE TakeEcho
  <2> DEFINE new == {d \in message' : d.param \in Interesting}
  <2>1. rows' = Put(rows, new) /\ new \subseteq AggregateData
    BY <1>6, NextEcho
  <2> HIDE DEF new
  <2>2. \A r \in rows' : r \in rows \/ r \in AggregateData
    BY <2>1, PutStores
  <2> QED BY <1>3, <2>2 DEF AggregateData
<1>7. CASE save
  <2>1. rows' = Put(rows, Sent) /\ Sent \subseteq AggregateData
    BY <1>7, SentOneForEachKey DEF save
  <2>2. \A r \in rows' : r \in rows \/ r \in AggregateData
    BY <2>1, PutStores
  <2> QED BY <1>3, <2>2 DEF AggregateData
<1>8. CASE saveRefused
  BY <1>4, <1>8, RefusedKeepsRows
<1> QED BY <1>4, <1>5, <1>6, <1>7, <1>8
        DEF Next, Worker, process, Tick, Shutdown, newData, Uninterested, NoAggregate, Aggregate, Return,
            unsaved, vars

-----------------------------------------------------------------------------
(* The rain of half a day.                                                 *)

(* A level of the gauge in a half day of hours, or in the eleven hours     *)
(* before it; and such half days without one.                              *)
LevelsNear(r, stored) ==
  LET span == StandardSpan("rr_12", r.time)
  IN  Read(stored, RA, r.type, <<span[1] - 11 * Hour, span[2]>>)

HalfOfHours(r, stored) == r.param = RR_1 /\ WholeIn("rr_12", r, stored) /\ LevelsNear(r, stored) = {}

(* What waits to be saved of one is right; what is stored of one is right, *)
(* or is going to be computed anew for an hour of the message, or was.     *)
HoursOutRight ==
  \A r \in rows : HalfOfHours(r, rows) =>
    \A i \in DOMAIN out : Key(out[i]) = AggregateKey("rr_12", r) => Right("rr_12", r, out[i], rows)

RainActive == ~shutdown /\ Unfiltered

HoursComing(r) == \E d \in message : SamePeriod("rr_12", d, r) /\ Coming("rr_12", d)

HoursCovered ==
  RainActive =>
    \A r \in rows : HalfOfHours(r, rows) => (\E a \in rows : Right("rr_12", r, a, rows)) \/ HoursComing(r)

HoursFollowing == HoursOutRight /\ HoursCovered

(* Hours of one period make the same half day.                             *)
LEMMA HoursOfOnePeriod ==
  ASSUME NEW a \in Data, NEW b \in Data, SamePeriod("rr_12", a, b), NEW stored
  PROVE  /\ HalfOfHours(a, stored) <=> HalfOfHours(b, stored)
         /\ AggregateKey("rr_12", a) = AggregateKey("rr_12", b)
         /\ \A x : Right("rr_12", a, x, stored) <=> Right("rr_12", b, x, stored)
<1>1. /\ WholeIn("rr_12", a, stored) <=> WholeIn("rr_12", b, stored)
      /\ AggregateKey("rr_12", a) = AggregateKey("rr_12", b)
      /\ \A x : Right("rr_12", a, x, stored) <=> Right("rr_12", b, x, stored)
  BY OfOnePeriod DEF Divided
<1>2. LevelsNear(a, stored) = LevelsNear(b, stored) /\ a.param = b.param
  BY DEF LevelsNear, StandardSpan, SamePeriod
<1> QED BY <1>1, <1>2 DEF HalfOfHours

(* The same key is that of the same period.                                *)
LEMMA KeyOfHours ==
  ASSUME NEW d \in Data, NEW r \in Data, d.param = RR_1, r.param = RR_1, d.type > 0, r.type > 0,
         AggregateKey("rr_12", d) = AggregateKey("rr_12", r)
  PROVE  SamePeriod("rr_12", d, r)
<1>1. d.type = r.type
  BY DEF AggregateKey, Negated, Data
<1>2. ResultTime("rr_12", d.time) = GenerateTime("rr_12", d.time)
      /\ ResultTime("rr_12", r.time) = GenerateTime("rr_12", r.time)
  BY GeneratedFullHour DEF Data
<1> QED BY <1>1, <1>2 DEF SamePeriod, AggregateKey

(* Hours are observed.                                                     *)
LEMMA HourIsObserved ==
  ASSUME Inv, Typed, Past, HoursStored, NEW r \in rows, r.param = RR_1
  PROVE  r \in Data /\ r.type \in Int /\ r.type > 0 /\ r.time \in Int /\ r.time <= now
<1>1. ~Negative(r)
  BY DEF HoursStored, OfHours
<1> QED BY <1>1 DEF Past, Typed, OneForEachKey, Data, Inv, AllProper, Proper, Negative

(* What process has of a call for the hours.                               *)
LEMMA HoursAtWork ==
  ASSUME Inv, Typed, HoursStored, Processing, NEW i \in Offered, Registered[i] = "rr_12",
         Read(rows, RR_1, Datum.type, TimeSpan("rr_12", Datum.time)) # {}
  PROVE  LET found == Period("rr_12", Datum, rows)
         IN  /\ Datum \in message /\ Datum \in Data /\ Datum \in rows /\ Datum.param = RR_1
             /\ ~Negative(Datum) /\ Datum.type \in Int /\ Datum.type > 0
             /\ Series("rr_12", Datum.time, found)
             /\ Outcomes("rr_12", Datum) = StandardProcess("rr_12", Datum, found, rows, scenario.metadata)
<1> DEFINE span == TimeSpan("rr_12", Datum.time)
           found == Read(rows, RR_1, Datum.type, span)
<1>1. Datum.param = RR_1 /\ Datum \in Data
  BY OfferedAggregator, GaugeParameters, CallAtWork
<1>2. ~Negative(Datum)
  <2>1. PICK o \in rows : o.param = RR_1 /\ o.type = Datum.type
    BY DEF Read
  <2> QED BY <2>1 DEF HoursStored, OfHours, Negative
<1>3. Datum \in message /\ phase = "newData"
  BY <1>2, CallAtWork DEF AggregateData, Processing
<1>4. Datum \in rows
  BY <1>1, <1>3, RainParameters DEF Inv, Cached
<1>5. Datum.type \in Int /\ Datum.type > 0
  BY <1>2, <1>3 DEF Inv, AllProper, Proper, Negative
<1>6. span = StandardSpan("rr_12", Datum.time)
  BY <1>1, GeneratedFullHour DEF Data
<1>7. found = Period("rr_12", Datum, rows)
  BY <1>1, <1>6 DEF Period
<1>8. Datum \in found
  <2>1. "rr_12" \in DOMAIN Aggregators /\ Datum.time \in Int
    BY <1>1, RainParameters, NamesOfAggregators DEF Data
  <2>2. InSpan(Datum.time, span)
    BY <2>1, TriggerInSpan
  <2> QED BY <1>1, <1>4, <2>2 DEF Read
<1>9. getRelevantObsList("rr_12", Datum) = found
  BY GaugeParameters DEF getRelevantObsList
<1> HIDE DEF found
<1>10. WithTrigger(found, Datum) = found
  BY <1>8 DEF WithTrigger
<1>11. Outcomes("rr_12", Datum) = StandardProcess("rr_12", Datum, found, rows, scenario.metadata)
  BY <1>9, <1>10 DEF Outcomes, Process
<1>12. Series("rr_12", Datum.time, found)
  <2>1. "rr_12" \in Names /\ "rr_12" # "po" /\ Datum.param \in Aggregators["rr_12"].read
    BY <1>1, RainParameters, GaugeParameters
  <2> QED BY <1>1, <1>9, <1>10, <2>1, ObservationsAreSeries
<1> QED BY <1>1, <1>2, <1>3, <1>4, <1>5, <1>7, <1>11, <1>12

(* What is made with the key of such a half day is made of its hours, and  *)
(* right: a level of the gauge that makes one with that key would be near. *)
LEMMA HoursMadeRight ==
  ASSUME Inv, Typed, Past, HoursStored, Processing, NEW i \in Offered,
         NEW a \in UNION Outcomes(Registered[i], Datum), NEW r \in rows, HalfOfHours(r, rows),
         Key(a) = AggregateKey("rr_12", r)
  PROVE  Right("rr_12", r, a, rows)
<1> DEFINE h == Registered[i]
           end == GenerateTime("rr_12", r.time)
<1>1. r \in Data /\ r.type \in Int /\ r.type > 0 /\ r.time \in Int /\ r.param = RR_1
  BY HourIsObserved DEF HalfOfHours
<1>2. /\ end \in Int /\ ResultTime("rr_12", r.time) = end
      /\ StandardSpan("rr_12", r.time) = <<end - 12 * Hour, end>>
  BY <1>1, GeneratedFullHour, GaugeParameters
<1>3. Key(a) = AggregateKey(h, Datum)
  BY KeyOfOutcome
<1>4. a.param = RR_12 /\ Negated(Datum.type) = -r.type /\ ResultTime(h, Datum.time) = end
  BY <1>1, <1>2, <1>3, RainParameters DEF Key, AggregateKey, Negated
<1>5. h \in GaugeAggregators \cup {"rr_12"}
  <2>1. Aggregators[h].write = RR_12
    BY <1>3, <1>4 DEF Key, AggregateKey
  <2> QED BY <2>1, OfferedAggregator, GaugeParameters
<1> HIDE DEF end
<1>6. h \notin GaugeAggregators
  <2> SUFFICES ASSUME h \in GaugeAggregators PROVE FALSE
    OBVIOUS
  <2>1. /\ Datum \in Data /\ Datum \in rows /\ Datum.param = RA /\ Datum.type \in Int /\ Datum.type > 0
        /\ Outcomes(h, Datum) = StandardProcess(h, Datum, Read(rows, RA, Datum.type, TimeSpan(h, Datum.time)),
                                                rows, scenario.metadata)
    BY GaugeAtWork
  <2>2. Datum.time \in Int /\ Datum.type = r.type
    BY <1>1, <1>4, <2>1 DEF Negated, Data
  <2>3. TimeOfDay(Datum.time) \in sixAmSixPm
    BY <2>1, GaugeMakesAtSixes
  <2>4. Datum.time = end \/ Datum.time = end - 12 * Hour
    BY <1>2, <1>4, <2>2, <2>3, GaugeSpans DEF GaugeAggregators, Hour
  <2>5. InSpan(Datum.time, <<(end - 12 * Hour) - 11 * Hour, end>>)
    BY <1>2, <2>4 DEF InSpan, Hour
  <2>6. Datum \in LevelsNear(r, rows)
    BY <1>2, <2>1, <2>2, <2>5 DEF LevelsNear, Read
  <2> QED BY <2>6 DEF HalfOfHours
<1>7. h = "rr_12"
  BY <1>5, <1>6
<1>8. Read(rows, RR_1, Datum.type, TimeSpan("rr_12", Datum.time)) # {}
  BY <1>7, NothingOfHourly
<1> DEFINE found == Period("rr_12", Datum, rows)
<1>9. /\ Datum \in Data /\ Datum.param = RR_1 /\ Datum.type \in Int /\ Datum.type > 0
      /\ Series("rr_12", Datum.time, found)
      /\ Outcomes("rr_12", Datum) = StandardProcess("rr_12", Datum, found, rows, scenario.metadata)
  BY <1>7, <1>8, HoursAtWork
<1>10. SamePeriod("rr_12", Datum, r)
  BY <1>1, <1>3, <1>7, <1>9, KeyOfHours
<1>11. WholeIn("rr_12", Datum, rows)
  BY <1>1, <1>9, <1>10, HoursOfOnePeriod DEF HalfOfHours
<1>12. PICK s \in StandardProcess("rr_12", Datum, found, rows, scenario.metadata) : a \in s
  BY <1>7, <1>9
<1>13. \A field \in Fields : a[field] = Expected("rr_12", found, field)
  <2>1. Hourly(found, GenerateTime("rr_12", Datum.time), Aggregators["rr_12"].hours)
    BY <1>11 DEF WholeIn
  <2> HIDE DEF found
  <2> QED BY <1>9, <1>12, <2>1, WholeIsAggregated DEF Divided
<1>14. Right("rr_12", Datum, a, rows)
  BY <1>3, <1>7, <1>13 DEF Right
<1> QED BY <1>1, <1>9, <1>10, <1>14, HoursOfOnePeriod

(* It is time for it, and there is one.                                    *)
LEMMA HoursMakeSomething ==
  ASSUME Inv, Typed, Past, HoursStored, Processing, NEW i \in Offered, Registered[i] = "rr_12",
         Datum \in message, HalfOfHours(Datum, rows)
  PROVE  IsInterestedIn("rr_12", Datum.time, now) /\ {} \notin Outcomes("rr_12", Datum)
<1> DEFINE found == Period("rr_12", Datum, rows)
           end == GenerateTime("rr_12", Datum.time)
<1>1. Datum \in Data /\ Datum.time \in Int /\ Datum.param = RR_1
  BY DEF Typed, OneForEachKey, Data, HalfOfHours
<1>2. /\ end \in Int /\ end % Hour = 0 /\ TimeSpan("rr_12", Datum.time) = StandardSpan("rr_12", Datum.time)
      /\ TimeSpan("rr_12", Datum.time)[2] = end /\ Aggregators["rr_12"].hours = 12
  BY <1>1, GeneratedFullHour, GaugeParameters
<1>3. Hourly(found, end, 12)
  BY <1>2 DEF HalfOfHours, WholeIn
<1>4. found \in SUBSET rows /\ \A o \in found : o.param = RR_1
  BY <1>1 DEF Period, Read
<1>5. IsFiniteSet(found) /\ \A a, b \in found : a.time = b.time => a = b
  <2>1. IsFiniteSet(found)
    BY <1>4, FS_Subset DEF Typed, OneForEachKey
  <2>2. ASSUME NEW a \in found, NEW b \in found, a.time = b.time PROVE a = b
    <3>1. Key(a) = Key(b)
      BY <2>2 DEF Period, Read, Key
    <3> QED BY <1>4, <3>1 DEF Typed, OneForEachKey
  <2> QED BY <2>1, <2>2
<1> HIDE DEF found, end
<1>6. PICK o \in found : o.time = end
  <2>1. Times(found) = {end - n * Hour : n \in 0..(12 - 1)}
    BY <1>3 DEF Hourly
  <2>2. 12 \in Nat \ {0}
    OBVIOUS
  <2> QED BY <1>2, <1>5, <2>1, <2>2, HoursOfPeriod
<1>7. end <= now /\ now \in Int
  <2>1. now \in Int
    BY HandlerAssumption DEF Typed, Inv, ScenarioAssumptionOf
  <2> QED BY <1>4, <1>6, <2>1, HourIsObserved
<1>8. IsInterestedIn("rr_12", Datum.time, now)
  BY <1>2, <1>7 DEF IsInterestedIn, Hour
<1>9. {} \notin Outcomes("rr_12", Datum)
  <2>1. Read(rows, RR_1, Datum.type, TimeSpan("rr_12", Datum.time)) = found
    BY <1>1, <1>2 DEF Period, found
  <2>2. Series("rr_12", Datum.time, found)
        /\ Outcomes("rr_12", Datum) = StandardProcess("rr_12", Datum, found, rows, scenario.metadata)
    BY <1>6, <2>1, HoursAtWork DEF found
  <2>3. Hourly(found, GenerateTime("rr_12", Datum.time), Aggregators["rr_12"].hours)
    BY <1>2, <1>3 DEF end
  <2> QED BY <1>1, <2>2, <2>3, WholeIsAggregated DEF Divided
<1> QED BY <1>8, <1>9

(* An hour without a level near passes the checks.                         *)
LEMMA HourPasses ==
  ASSUME Inv, Typed, phase = "newData", NEW d \in message, HalfOfHours(d, rows)
  PROVE  CompleteCheckDecider(d, message, rows, scenario.station)
<1> DEFINE end == GenerateTime("rr_12", d.time)
<1>1. d \in Data /\ d.time \in Int /\ d.param = RR_1 /\ d \in rows
  BY RainParameters DEF Typed, OneForEachKey, Data, HalfOfHours, Inv, Cached
<1>2. StandardSpan("rr_12", d.time) = <<end - 12 * Hour, end>>
  BY <1>1, GeneratedFullHour, GaugeParameters
<1>3. end \in Int /\ d.time <= end /\ end < d.time + 12 * Hour
  <2>1. Interval("rr_12") = 12
    BY DEF Interval, Aggregators, Standard, rr_12, sixAmSixPm, Hour
  <2> QED BY <1>1, <2>1, GeneratedTime, GaugeParameters
<1> HIDE DEF end
<1>4. StationRangeFilter(d, scenario.station)
  BY <1>1 DEF StationRangeFilter, precipitationParameters
<1>5. d \in Read(rows, RR_1, d.type, LastHours(d.time))
  BY <1>1 DEF Read, InSpan, LastHours, Hour
<1>6. Read(rows, RA, d.type, LastHours(d.time)) = {}
  <2> SUFFICES ASSUME NEW x \in Read(rows, RA, d.type, LastHours(d.time)) PROVE FALSE
    OBVIOUS
  <2>1. x \in rows /\ x.param = RA /\ x.type = d.type /\ x.time \in Int
        /\ d.time - 11 * Hour < x.time /\ x.time <= d.time
    BY DEF Read, InSpan, LastHours, Typed, OneForEachKey, Data
  <2>2. (end - 12 * Hour) - 11 * Hour < x.time /\ x.time <= end
    BY <1>1, <1>3, <2>1 DEF Hour
  <2>3. x \in LevelsNear(d, rows)
    BY <1>2, <2>1, <2>2 DEF LevelsNear, Read, InSpan
  <2> QED BY <2>3 DEF HalfOfHours
<1>7. rr1ShouldOverrideRa(d, rows)
  BY <1>5, <1>6 DEF rr1ShouldOverrideRa
<1>8. RR1OverridesRADecider(d, message, rows)
  BY <1>1, <1>7, GaugeParameters DEF RR1OverridesRADecider
<1> QED BY <1>4, <1>8 DEF CompleteCheckDecider

(* While a message is processed the store does not change: what is coming  *)
(* goes on coming.                                                         *)
LEMMA WorkingHours ==
  ASSUME Typed, HoursFollowing, UNCHANGED <<scenario, rows, message, shutdown>>, HoursOutRight',
         \A d \in message : RainActive /\ HalfOfHours(d, rows) /\ Coming("rr_12", d) => Coming("rr_12", d)'
  PROVE  HoursFollowing'
<1>1. HoursCovered'
  <2> SUFFICES ASSUME RainActive', NEW r \in rows, HalfOfHours(r, rows)
               PROVE  (\E a \in rows : Right("rr_12", r, a, rows)) \/ HoursComing(r)'
    BY DEF HoursCovered
  <2>1. RainActive
    BY DEF RainActive, Unfiltered
  <2>2. CASE HoursComing(r)
    <3>1. PICK d \in message : SamePeriod("rr_12", d, r) /\ Coming("rr_12", d)
      BY <2>2 DEF HoursComing
    <3>2. HalfOfHours(d, rows)
      BY <3>1, HoursOfOnePeriod DEF Typed, OneForEachKey
    <3>3. Coming("rr_12", d)'
      BY <2>1, <3>1, <3>2
    <3> QED BY <3>1, <3>3 DEF HoursComing
  <2> QED BY <2>1, <2>2 DEF HoursFollowing, HoursCovered
<1> QED BY <1>1 DEF HoursFollowing

(* Nothing of such a half day is passed over.                              *)
LEMMA SkipHours ==
  Inv /\ Typed /\ Past /\ HoursStored /\ HoursFollowing /\ (Uninterested \/ NoAggregate) => HoursFollowing'
<1> SUFFICES ASSUME Inv, Typed, Past, HoursStored, HoursFollowing, Uninterested \/ NoAggregate
             PROVE  HoursFollowing'
  OBVIOUS
<1>1. /\ Processing
      /\ UNCHANGED <<scenario, now, rows, phase, message, data, accepted, out, pending, shutdown, history>>
  BY DEF Uninterested, NoAggregate
<1>2. HoursOutRight'
  BY <1>1 DEF HoursFollowing, HoursOutRight
<1>3. ASSUME NEW d \in message, HalfOfHours(d, rows), Coming("rr_12", d)
      PROVE  Coming("rr_12", d)'
  <2>1. d.param \in Aggregators["rr_12"].read
    BY <1>3, GaugeParameters DEF HalfOfHours
  <2>2. ASSUME NEW i \in Offered, Datum = d, Registered[i] = "rr_12"
        PROVE  ~(~IsInterestedIn("rr_12", d.time, now) \/ {} \in Outcomes("rr_12", d))
    BY <1>1, <1>3, <2>2, HoursMakeSomething
  <2> QED BY <1>3, <2>1, <2>2, SkipComing
<1> QED BY <1>1, <1>2, <1>3, WorkingHours

(* What is made of one is right.                                           *)
LEMMA AggregateHours ==
  PoYieldsFractions /\ Inv /\ Typed /\ Past /\ HoursStored /\ HoursFollowing /\ Aggregate => HoursFollowing'
<1> SUFFICES ASSUME PoYieldsFractions, Inv, Typed, Past, HoursStored, HoursFollowing, Aggregate
             PROVE  HoursFollowing'
  OBVIOUS
<1>1. /\ Processing
      /\ UNCHANGED <<scenario, now, rows, phase, message, data, accepted, pending, shutdown, history>>
  BY DEF Aggregate
<1> PICK i \in Offered : \E a \in UNION Outcomes(Registered[i], Datum) : out' = Append(out, a)
  BY DEF Aggregate
<1>2. PICK a \in UNION Outcomes(Registered[i], Datum) : out' = Append(out, a)
  OBVIOUS
<1>3. \A j \in DOMAIN out' : out'[j] = a \/ (j \in DOMAIN out /\ out'[j] = out[j])
  <2>1. out \in Seq(AggregateData) /\ a \in AggregateData
    BY <1>1, OutcomeIsData DEF Typed
  <2> QED BY <1>2, <2>1, DomainOfAppend
<1>4. HoursOutRight'
  <2> SUFFICES ASSUME NEW r \in rows, HalfOfHours(r, rows), NEW j \in DOMAIN out',
                      Key(out'[j]) = AggregateKey("rr_12", r)
               PROVE  Right("rr_12", r, out'[j], rows)
    BY <1>1 DEF HoursOutRight
  <2>1. CASE out'[j] = a
    BY <1>1, <2>1, HoursMadeRight
  <2>2. CASE j \in DOMAIN out /\ out'[j] = out[j]
    BY <2>2 DEF HoursFollowing, HoursOutRight
  <2> QED BY <1>3, <2>1, <2>2
<1>5. ASSUME NEW d \in message, HalfOfHours(d, rows), Coming("rr_12", d)
      PROVE  Coming("rr_12", d)'
  BY <1>5, GaugeParameters, AggregateComing DEF HalfOfHours
<1> QED BY <1>1, <1>4, <1>5, WorkingHours

(* A call that ends has offered its datum to rr_12, if it is an hour.      *)
LEMMA ReturnHours == Inv /\ Typed /\ HoursFollowing /\ Return => HoursFollowing'
<1> SUFFICES ASSUME Inv, Typed, HoursFollowing, Return PROVE HoursFollowing'
  OBVIOUS
<1>1. UNCHANGED <<scenario, now, rows, phase, message, data, accepted, out, pending, shutdown, history>>
  BY DEF Return
<1>2. HoursOutRight'
  BY <1>1 DEF HoursFollowing, HoursOutRight
<1>3. ASSUME NEW d \in message, RainActive, HalfOfHours(d, rows), Coming("rr_12", d)
      PROVE  Coming("rr_12", d)'
  BY <1>3, GaugeParameters, ReturnComing DEF RainActive, HalfOfHours
<1> QED BY <1>1, <1>2, <1>3, WorkingHours

(* An hour passes the checks, and process is called.                       *)
LEMMA NewDataHours == Inv /\ Typed /\ HoursFollowing /\ newData => HoursFollowing'
<1> SUFFICES ASSUME Inv, Typed, HoursFollowing, newData PROVE HoursFollowing'
  OBVIOUS
<1>1. UNCHANGED <<scenario, now, rows, phase, message, out, pending, shutdown, history>> /\ phase = "newData"
  BY DEF newData
<1>2. HoursOutRight'
  BY <1>1 DEF HoursFollowing, HoursOutRight
<1>3. ASSUME NEW d \in message, RainActive, HalfOfHours(d, rows), Coming("rr_12", d)
      PROVE  Coming("rr_12", d)'
  <2>1. CompleteCheckDecider(d, message, rows, scenario.station)
    BY <1>1, <1>3, HourPasses
  <2> QED BY <1>3, <2>1, RainParameters, NewDataComing DEF RainActive
<1> QED BY <1>1, <1>2, <1>3, WorkingHours

(* What is stored of a half day, whatever replaces data that are none of   *)
(* it.                                                                     *)
LEMMA HoursKept ==
  ASSUME NEW stored \in SUBSET Data, NEW new \in SUBSET Data, NEW r \in Put(stored, new),
         HalfOfHours(r, Put(stored, new)), \A n \in new : ~SamePeriod("rr_12", n, r)
  PROVE  /\ r \in stored /\ r \in Data /\ HalfOfHours(r, stored)
         /\ \A x : Right("rr_12", r, x, Put(stored, new)) <=> Right("rr_12", r, x, stored)
<1>1. r \in stored
  BY PutStores DEF SamePeriod
<1>2. r \in Data
  BY <1>1
<1>3. Period("rr_12", r, Put(stored, new)) = Period("rr_12", r, stored)
  BY <1>2, PeriodKept DEF Divided
<1>4. LevelsNear(r, stored) = {}
  <2> DEFINE first == StandardSpan("rr_12", r.time)[1] - 11 * Hour
             span == <<first, StandardSpan("rr_12", r.time)[2]>>
  <2>1. Read(Put(stored, new), RA, r.type, span) = {}
    BY DEF HalfOfHours, LevelsNear
  <2> HIDE DEF span
  <2> SUFFICES ASSUME NEW x \in stored, x.param = RA, x.type = r.type, InSpan(x.time, span) PROVE FALSE
    BY DEF LevelsNear, Read, span
  <2>2. CASE \A n \in new : Key(n) # Key(x)
    BY <2>1, <2>2 DEF Put, Read
  <2>3. CASE \E n \in new : Key(n) = Key(x)
    <3>1. PICK n \in new : n.param = RA /\ n.type = r.type /\ InSpan(n.time, span)
      BY <2>3 DEF Key
    <3> QED BY <2>1, <3>1, PutStores DEF Read
  <2> QED BY <2>2, <2>3
<1> QED BY <1>1, <1>2, <1>3, <1>4 DEF HalfOfHours, WholeIn, Right

(* An hour that is received is coming; what others were made into is kept. *)
LEMMA ReceiveHours ==
  Inv /\ Typed /\ Past /\ HoursStored /\ Echoing /\ HoursFollowing /\ Receive => HoursFollowing'
<1> SUFFICES ASSUME Inv, Typed, Past, HoursStored, Echoing, HoursFollowing, Receive PROVE HoursFollowing'
  OBVIOUS
<1>1. PICK m \in scenario.messages : Begin(m)
  BY DEF Receive
<1> DEFINE new == {d \in m : d.param \in Interesting}
<1>2. /\ phase = "idle" /\ rows' = Put(rows, new) /\ message' = m /\ data' = m
      /\ out' = <<>> /\ UNCHANGED <<scenario, shutdown>>
  BY <1>1 DEF Begin, cacheData
<1>3. OneForEachKey(m) /\ \A d \in m : ~Negative(d)
  BY HandlerAssumption DEF Inv, ScenarioAssumptionOf
<1>4. message = {} /\ rows \in SUBSET Data /\ new \in SUBSET Data
  BY <1>2, <1>3 DEF Echoing, Resting, Typed, OneForEachKey
<1>5. HoursOutRight'
  BY <1>2, NothingComes DEF HoursOutRight
<1>6. HoursCovered'
  <2> SUFFICES ASSUME RainActive', NEW r \in rows', HalfOfHours(r, rows')
               PROVE  (\E a \in rows' : Right("rr_12", r, a, rows')) \/ HoursComing(r)'
    BY DEF HoursCovered
  <2>1. CASE \E n \in new : SamePeriod("rr_12", n, r)
    BY <1>2, <2>1 DEF HoursComing, Coming
  <2>2. CASE \A n \in new : ~SamePeriod("rr_12", n, r)
    <3> HIDE DEF new
    <3>1. r \in rows /\ HalfOfHours(r, rows) /\ \A x : Right("rr_12", r, x, rows') <=> Right("rr_12", r, x, rows)
      BY <1>2, <1>4, <2>2, HoursKept
    <3>2. RainActive
      BY <1>2 DEF RainActive, Unfiltered
    <3>3. PICK a \in rows : Right("rr_12", r, a, rows)
      BY <1>4, <3>1, <3>2 DEF HoursFollowing, HoursCovered, HoursComing
    <3>4. r.type \in Int /\ r.type > 0
      BY <3>1, HourIsObserved DEF HalfOfHours
    <3>5. a.type < 0
      BY <3>3, <3>4 DEF Right, Key, AggregateKey, Negated
    <3>6. \A n \in new : Key(n) # Key(a)
      BY <1>3, <3>5 DEF Negative, Key, new
    <3>7. a \in rows'
      BY <1>2, <3>6 DEF Put
    <3> QED BY <3>1, <3>3, <3>7
  <2> QED BY <2>1, <2>2
<1> QED BY <1>5, <1>6 DEF HoursFollowing

(* What kvalobs sends back is no hour, and of half days what is stored.    *)
LEMMA TakeEchoHours ==
  Inv /\ Typed /\ HoursStored /\ Echoing /\ RainEchoing /\ HoursFollowing /\ TakeEcho => HoursFollowing'
<1> SUFFICES ASSUME Inv, Typed, HoursStored, Echoing, RainEchoing, HoursFollowing, TakeEcho PROVE HoursFollowing'
  OBVIOUS
<1> DEFINE new == {d \in message' : d.param \in Interesting}
<1>1. /\ phase = "idle" /\ out' = <<>> /\ UNCHANGED <<scenario, shutdown>>
      /\ rows' = Put(rows, new) /\ message' \subseteq AggregateData
      /\ 1 \in DOMAIN pending /\ message' = pending[1]
  BY NextEcho DEF TakeEcho, Begin
<1>2. message = {} /\ rows \in SUBSET Data /\ new \in SUBSET Data
  BY <1>1 DEF Echoing, Resting, Typed, OneForEachKey, AggregateData
<1>3. \A n \in new : n.param # RR_1
  BY <1>1 DEF HoursStored, OfHours, AggregateData
<1> HIDE DEF new
<1>4. HoursOutRight'
  BY <1>1, NothingComes DEF HoursOutRight
<1>5. HoursCovered'
  <2> SUFFICES ASSUME RainActive', NEW r \in rows', HalfOfHours(r, rows')
               PROVE  \E a \in rows' : Right("rr_12", r, a, rows')
    BY DEF HoursCovered
  <2>1. \A n \in new : ~SamePeriod("rr_12", n, r)
    BY <1>3 DEF SamePeriod, HalfOfHours
  <2>2. r \in rows /\ HalfOfHours(r, rows) /\ \A x : Right("rr_12", r, x, rows') <=> Right("rr_12", r, x, rows)
    BY <1>1, <1>2, <2>1, HoursKept
  <2>3. RainActive
    BY <1>1 DEF RainActive, Unfiltered
  <2>4. PICK a \in rows : Right("rr_12", r, a, rows)
    BY <1>2, <2>2, <2>3 DEF HoursFollowing, HoursCovered, HoursComing
  <2>5. a.param = RR_12
    BY <2>4, RainParameters DEF Right, Key, AggregateKey
  <2>6. HoursObserved
    BY DEF HoursObserved, HoursStored, OfHours
  <2>7. a \in rows'
    BY <2>4, <2>5, <2>6, EchoKeepsRain
  <2> QED BY <2>2, <2>4, <2>7
<1> QED BY <1>4, <1>5 DEF HoursFollowing

(* What is saved is right.                                                 *)
LEMMA SaveHours == Inv /\ Typed /\ HoursStored /\ HoursFollowing /\ save => HoursFollowing'
<1> SUFFICES ASSUME Inv, Typed, HoursStored, HoursFollowing, save PROVE HoursFollowing'
  OBVIOUS
<1>1. /\ rows' = Put(rows, Sent) /\ message' = {} /\ out' = <<>> /\ stack = <<>> /\ data = {}
      /\ UNCHANGED <<scenario, shutdown>>
  BY DEF save, Done, End
<1>2. rows \in SUBSET Data /\ Sent \in SUBSET Data /\ Sent \subseteq AggregateData
  BY SentOneForEachKey DEF AggregateData, Typed, OneForEachKey
<1>3. \A n \in Sent : n.param # RR_1
  <2>1. \A n \in Sent : n \in AggregateData /\ \E i \in DOMAIN out : n = out[i]
    BY <1>2 DEF Sent
  <2> QED BY <2>1 DEF HoursStored, OfHours, AggregateData
<1>4. HoursOutRight'
  BY <1>1, NothingComes DEF HoursOutRight
<1>5. HoursCovered'
  <2> SUFFICES ASSUME RainActive', NEW r \in rows', HalfOfHours(r, rows')
               PROVE  \E a \in rows' : Right("rr_12", r, a, rows')
    BY DEF HoursCovered
  <2>1. \A n \in Sent : ~SamePeriod("rr_12", n, r)
    BY <1>3 DEF SamePeriod, HalfOfHours
  <2>2. r \in rows /\ r \in Data /\ HalfOfHours(r, rows)
        /\ \A x : Right("rr_12", r, x, rows') <=> Right("rr_12", r, x, rows)
    BY <1>1, <1>2, <2>1, HoursKept
  <2>3. RainActive
    BY <1>1 DEF RainActive, Unfiltered
  <2>4. CASE \E i \in DOMAIN out : Key(out[i]) = AggregateKey("rr_12", r)
    <3>1. PICK i \in DOMAIN out : Key(out[i]) = AggregateKey("rr_12", r)
      BY <2>4
    <3>2. out[i].param \in Interesting
      BY <3>1, GaugeParameters, RainParameters DEF Key, AggregateKey
    <3>3. PICK a \in rows', j \in DOMAIN out :
            Key(a) = Key(out[i]) /\ Key(out[j]) = Key(out[i]) /\ \A field \in Fields : a[field] = out[j][field]
      BY <1>1, <3>2, SavedAsComputed
    <3>4. Right("rr_12", r, out[j], rows)
      BY <2>2, <3>1, <3>3 DEF HoursFollowing, HoursOutRight
    <3>5. Right("rr_12", r, a, rows)
      BY <3>1, <3>3, <3>4 DEF Right
    <3> QED BY <2>2, <3>5
  <2>5. CASE \A i \in DOMAIN out : Key(out[i]) # AggregateKey("rr_12", r)
    <3>1. ~HoursComing(r)
      <4> SUFFICES ASSUME NEW d \in message, SamePeriod("rr_12", d, r), Coming("rr_12", d) PROVE FALSE
        BY DEF HoursComing
      <4>1. AggregateKey("rr_12", d) = AggregateKey("rr_12", r)
        BY <2>2, HoursOfOnePeriod DEF Typed, OneForEachKey
      <4> QED BY <1>1, <2>5, <4>1, NothingComes DEF Coming
    <3>2. PICK a \in rows : Right("rr_12", r, a, rows)
      BY <2>2, <2>3, <3>1 DEF HoursFollowing, HoursCovered
    <3>3. \A n \in Sent : Key(n) # Key(a)
      BY <2>5, <3>2 DEF Sent, Right
    <3>4. a \in rows'
      BY <1>1, <3>3 DEF Put
    <3> QED BY <2>2, <3>2, <3>4
  <2> QED BY <2>4, <2>5
<1> QED BY <1>4, <1>5 DEF HoursFollowing

(* When kvalobs refuses, the whole message is coming again.                *)
LEMMA SaveRefusedHours == Inv /\ Typed /\ HoursFollowing /\ saveRefused => HoursFollowing'
<1> SUFFICES ASSUME Inv, Typed, HoursFollowing, saveRefused PROVE HoursFollowing'
  OBVIOUS
<1>1. /\ data' = message /\ out' = <<>> /\ UNCHANGED <<scenario, now, message, stack, pending, shutdown>>
  BY DEF saveRefused
<1>2. rows' = rows
  BY RefusedKeepsRows
<1>3. HoursOutRight'
  BY <1>1, NothingComes DEF HoursOutRight
<1>4. \A d \in message : Coming("rr_12", d)'
  BY <1>1 DEF Coming
<1> QED BY <1>1, <1>2, <1>3, <1>4, WorkingHours

(* The other steps change nothing of it, or shut down the program.         *)
LEMMA StillHours == Typed /\ HoursFollowing /\ (unsaved \/ Tick \/ Shutdown \/ UNCHANGED vars) => HoursFollowing'
<1> SUFFICES ASSUME Typed, HoursFollowing, unsaved \/ Tick \/ Shutdown \/ UNCHANGED vars PROVE HoursFollowing'
  OBVIOUS
<1>1. CASE shutdown' /\ UNCHANGED <<scenario, rows>> /\ (out' = <<>> \/ out' = out)
  BY <1>1, NothingComes DEF HoursFollowing, HoursOutRight, HoursCovered, RainActive
<1>2. CASE UNCHANGED <<scenario, rows, message, data, stack, out, shutdown>>
  <2>1. HoursOutRight'
    BY <1>2 DEF HoursFollowing, HoursOutRight
  <2>2. \A d \in message : Coming("rr_12", d) => Coming("rr_12", d)'
    BY <1>2 DEF Coming
  <2> QED BY <1>2, <2>1, <2>2, WorkingHours
<1> QED BY <1>1, <1>2 DEF unsaved, End, Tick, Shutdown, vars, newDataVars

(* Every step.                                                             *)
LEMMA NextHoursFollowing ==
  /\ PoYieldsFractions /\ Inv /\ Typed /\ Past /\ HoursStored /\ Echoing /\ RainEchoing
  /\ HoursFollowing /\ [Next]_vars
  => HoursFollowing'
BY ReceiveHours, TakeEchoHours, SkipHours, AggregateHours, ReturnHours, NewDataHours, SaveHours, SaveRefusedHours,
   StillHours
   DEF Next, Worker, process

-----------------------------------------------------------------------------
(* The rain of a day, of its two halves.                                   *)

(* The rain of the day of two halves, as it should be; and that of an      *)
(* older version of one of them.                                           *)
DayKey(b) == <<RR_24, b.time, b.type>>
DayRight(x, a, b) == Key(x) = DayKey(b) /\ \A field \in Fields : x[field] = RainIn({a, b}, field)
DayWrong(x, a, b) == Key(x) = DayKey(b) /\ ~DayRight(x, a, b)

(* What waits to be saved is right.                                        *)
DayOutRight ==
  \A a, b \in rows : Halves(a, b) => \A i \in DOMAIN out : Key(out[i]) = DayKey(b) => DayRight(out[i], a, b)

(* What kvalobs sends back is stored over what was stored since.  So what  *)
(* is stored is right, and nothing that waits is wrong;                    *)
DayStored(a, b) ==
  /\ \E x \in rows : DayRight(x, a, b)
  /\ \A j \in DOMAIN pending : \A x \in pending[j] : ~DayWrong(x, a, b)

(* or it will be right, as something right waits behind all that is wrong; *)
DayWaits(a, b) ==
  \E j \in DOMAIN pending :
    /\ \E x \in pending[j] : DayRight(x, a, b)
    /\ \A k \in DOMAIN pending : k > j => \A x \in pending[k] : ~DayWrong(x, a, b)

(* or nothing at all is right, and it will be computed anew: as none is    *)
(* right, what is computed will tell kvalobs something, and be sent.       *)
DayComing(a, b) ==
  /\ \A x \in rows : ~DayRight(x, a, b)
  /\ \A j \in DOMAIN pending : \A x \in pending[j] : ~DayRight(x, a, b)
  /\ \E d \in {a, b} : (\E j \in DOMAIN pending : d \in pending[j]) \/ (d \in message /\ Coming("rr_24", d))

DayCovered ==
  RainActive => \A a, b \in rows : Halves(a, b) => DayStored(a, b) \/ DayWaits(a, b) \/ DayComing(a, b)

DayFollowing == DayOutRight /\ DayCovered

HalfOfDay(d) == \E a, b \in rows : Halves(a, b) /\ d \in {a, b}

(* The halves of a day.                                                    *)
LEMMA HalvesAre ==
  ASSUME Typed, HoursStored, NEW a \in rows, NEW b \in rows, Halves(a, b), NEW d \in {a, b}
  PROVE  /\ a # b /\ d \in rows /\ d \in Data /\ d.param = RR_12 /\ d.param \in Aggregators["rr_24"].read
         /\ Negative(a) /\ Negative(b) /\ Negative(d) /\ d.type = b.type /\ d.type \in Int
         /\ a.time \in Int /\ b.time \in Int /\ a.time = b.time - 12 * Hour
         /\ TimeOfDay(d.time) \in sixAmSixPm
         /\ AggregateKey("rr_24", d) = DayKey(b)
<1>1. a \in Data /\ b \in Data /\ a.time \in Int /\ b.time \in Int /\ a.type \in Int
  BY DEF Typed, OneForEachKey, Data
<1>2. a.time = b.time - 12 * Hour /\ a # b /\ a.type = b.type /\ a.param = RR_12 /\ b.param = RR_12
  BY <1>1 DEF Halves, Hour
<1>3. Negative(a) /\ Negative(b)
  BY <1>2 DEF HoursStored, OfHours
<1>4. ResultTime("rr_24", d.time) = b.time
  BY <1>1, <1>2, DayTriggers DEF Halves
<1>5. Negated(d.type) = b.type
  BY <1>1, <1>2, <1>3 DEF Negated, Negative
<1>6. TimeOfDay(d.time) \in sixAmSixPm
  <2>1. TimeOfDay(b.time) = 6 * Hour
    BY DEF Halves
  <2>2. TimeOfDay(a.time) = 18 * Hour
    <3>1. b.time % 1440 = 360
      BY <2>1 DEF TimeOfDay, Day, Hour
    <3>2. (b.time - 720) % 1440 = 1080
      BY <1>1, <3>1
    <3> QED BY <1>2, <3>2 DEF TimeOfDay, Day, Hour
  <2> QED BY <2>1, <2>2 DEF sixAmSixPm
<1> QED BY <1>1, <1>2, <1>3, <1>4, <1>5, <1>6, RainParameters DEF AggregateKey, DayKey

(* What rr_24 is offered is computed rain of half a day; at work for a     *)
(* half of a day whose other half is stored, it finds both.                *)
LEMMA DayAtWork ==
  ASSUME Inv, Typed, HoursStored, Processing, NEW i \in Offered, Registered[i] = "rr_24"
  PROVE  Datum \in Data /\ Datum.param = RR_12 /\ Datum.type \in Int /\ Negative(Datum)
<1>1. Datum.param = RR_12 /\ Datum \in Data /\ Datum \in message \cup AggregateData
  BY OfferedAggregator, RainParameters, CallAtWork
<1>2. Negative(Datum)
  BY <1>1 DEF HoursStored, OfHours, AggregateData
<1> QED BY <1>1, <1>2 DEF Data

(* It finds both halves, in the versions that are stored.                  *)
LEMMA DayFound ==
  ASSUME Inv, Typed, HoursStored, Processing, NEW i \in Offered, Registered[i] = "rr_24",
         NEW a \in rows, NEW b \in rows, Halves(a, b), Datum.type = b.type, Datum.time \in {a.time, b.time}
  PROVE  Outcomes("rr_24", Datum) =
           StandardProcess("rr_24", Datum, Read(rows, RR_12, b.type, TimeSpan("rr_24", Datum.time)),
                           rows, scenario.metadata)
<1> DEFINE found == Read(rows, RR_12, b.type, TimeSpan("rr_24", Datum.time))
<1>1. a \in found /\ b \in found
  BY DayFinds DEF Typed
<1>2. getRelevantObsList("rr_24", Datum) = found
  BY RainParameters DEF getRelevantObsList
<1> HIDE DEF found
<1>3. WithTrigger(found, Datum) = found
  <2>1. Datum.param = RR_12
    BY DayAtWork
  <2>2. Key(Datum) = Key(a) \/ Key(Datum) = Key(b)
    BY <2>1 DEF Halves, Key
  <2> QED BY <1>1, <2>2 DEF WithTrigger
<1>4. Outcomes("rr_24", Datum) = StandardProcess("rr_24", Datum, found, rows, scenario.metadata)
  BY <1>2, <1>3 DEF Outcomes, Process
<1> QED BY <1>4 DEF found

(* So what is made with the key of the rain of the day is right.           *)
LEMMA DayMadeRight ==
  ASSUME Inv, Typed, HoursStored, Processing, NEW i \in Offered, NEW x \in UNION Outcomes(Registered[i], Datum),
         NEW a \in rows, NEW b \in rows, Halves(a, b), Key(x) = DayKey(b)
  PROVE  DayRight(x, a, b)
<1> DEFINE h == Registered[i]
<1>1. Key(x) = AggregateKey(h, Datum)
  BY KeyOfOutcome
<1>2. h = "rr_24"
  BY <1>1, OfferedAggregator, RainParameters DEF AggregateKey, DayKey
<1>3. Datum \in Data /\ Datum.type \in Int /\ Negative(Datum) /\ Datum.time \in Int
  BY <1>2, DayAtWork DEF Data
<1>4. Datum.type = b.type /\ ResultTime("rr_24", Datum.time) = b.time
  BY <1>1, <1>2, <1>3 DEF AggregateKey, DayKey, Negated, Negative
<1>5. TimeOfDay(Datum.time) \in sixAmSixPm
  <2>1. PICK obs : x \in UNION Process("rr_24", Datum, obs, rows, scenario.metadata)
    BY <1>2 DEF Outcomes
  <2>2. PICK s \in StandardProcess("rr_24", Datum, obs, rows, scenario.metadata) : x \in s
    BY <2>1 DEF Process
  <2> QED BY <2>2, DayMadeAtSixes
<1>6. Datum.time \in {a.time, b.time}
  <2>1. b.time \in Int /\ a.time = b.time - 12 * Hour
    BY HalvesAre
  <2>2. Datum.time \in {b.time - 12 * Hour, b.time}
    BY <1>3, <1>4, <1>5, <2>1, DayTriggers DEF Halves
  <2> QED BY <2>1, <2>2
<1>7. Outcomes("rr_24", Datum) =
        StandardProcess("rr_24", Datum, Read(rows, RR_12, b.type, TimeSpan("rr_24", Datum.time)), rows, scenario.metadata)
  BY <1>2, <1>4, <1>6, DayFound
<1>8. PICK s \in StandardProcess("rr_24", Datum, Read(rows, RR_12, b.type, TimeSpan("rr_24", Datum.time)),
                                 rows, scenario.metadata) : x \in s
  BY <1>2, <1>7
<1>9. OneForEachKey(rows)
  BY DEF Typed
<1>10. MadeOfHalves(s, a, b)
  BY <1>6, <1>8, <1>9, DayMakes
<1> QED BY <1>8, <1>10 DEF DayRight, MadeOfHalves

(* For a half of a day it makes something, and at once.                    *)
LEMMA DayMakesSomething ==
  ASSUME Inv, Typed, HoursStored, Processing, NEW i \in Offered, Registered[i] = "rr_24", HalfOfDay(Datum)
  PROVE  IsInterestedIn("rr_24", Datum.time, now) /\ {} \notin Outcomes("rr_24", Datum)
<1> PICK a \in rows, b \in rows : Halves(a, b) /\ Datum \in {a, b}
  BY DEF HalfOfDay
<1>1. Datum.type = b.type /\ TimeOfDay(Datum.time) \in sixAmSixPm /\ Datum.time \in {a.time, b.time}
  BY HalvesAre
<1>2. Outcomes("rr_24", Datum) =
        StandardProcess("rr_24", Datum, Read(rows, RR_12, b.type, TimeSpan("rr_24", Datum.time)), rows, scenario.metadata)
  BY <1>1, DayFound
<1>3. {} \notin Outcomes("rr_24", Datum)
  <2>1. OneForEachKey(rows)
    BY DEF Typed
  <2>2. ASSUME NEW s \in Outcomes("rr_24", Datum) PROVE s # {}
    <3>1. s \in StandardProcess("rr_24", Datum, Read(rows, RR_12, b.type, TimeSpan("rr_24", Datum.time)),
                               rows, scenario.metadata)
      BY <1>2
    <3>2. MadeOfHalves(s, a, b)
      BY <1>1, <2>1, <3>1, DayMakes
    <3> QED BY <3>2 DEF MadeOfHalves
  <2> QED BY <2>2
<1> QED BY <1>1, <1>3 DEF IsInterestedIn

(* The rain of half a day passes the checks.                               *)
LEMMA HalfPasses ==
  ASSUME NEW d, d.param = RR_12
  PROVE  CompleteCheckDecider(d, message, rows, scenario.station)
BY DEF CompleteCheckDecider, StationRangeFilter, precipitationParameters, RR1OverridesRADecider, RR_12, RR_1, RA

-----------------------------------------------------------------------------
(* The messages that wait.                                                 *)

(* The first is taken, the others wait one place further ahead.            *)
LEMMA EchoesBehind ==
  ASSUME Inv, Typed, TakeEcho, NEW j \in DOMAIN pending
  PROVE  /\ j \in Int /\ j >= 1
         /\ j # 1 => j - 1 \in DOMAIN pending' /\ pending'[j - 1] = pending[j]
<1>1. pending \in Seq(Echoes) /\ pending # <<>> /\ pending' = Tail(pending)
  BY DEF TakeEcho, Typed
<1> HIDE DEF Echoes
<1> QED BY <1>1

(* What is saved waits behind everything else, all of it.                  *)
LEMMA EchoesOfSave ==
  ASSUME Inv, Typed, save
  PROVE  /\ \A j \in DOMAIN pending : j \in Int /\ j \in DOMAIN pending' /\ pending'[j] = pending[j]
         /\ \A j \in DOMAIN pending' : j \in Int /\
              (j \notin DOMAIN pending => pending'[j] \subseteq Sent /\ \A k \in DOMAIN pending : k < j)
         /\ \A x \in Sent : \E j \in DOMAIN pending' : j \notin DOMAIN pending /\ x \in pending'[j]
<1> PICK order \in SetToSeqs(Grouped(Sent)) : pending' = pending \o order
  BY DEF save
<1> DEFINE groups == Grouped(Sent)
           n == Cardinality(groups)
<1>1. IsFiniteSet(groups) /\ n \in Nat
  <2> DEFINE f == [s \in Sent |-> {r \in Sent : r.time = s.time /\ r.type = s.type}]
  <2>1. f \in Surjection(Sent, groups)
    BY DEF Surjection, Grouped
  <2> QED BY <2>1, SentComputed, FS_Surjection, FS_CardinalityType
<1>2. \A x \in Sent : \E g \in groups : x \in g
  <2> TAKE x \in Sent
  <2>1. {r \in Sent : r.time = x.time /\ r.type = x.type} \in groups
    BY DEF Grouped
  <2> QED BY <2>1
<1>3. \A g \in groups : g \subseteq Sent
  BY DEF Grouped
<1>4. order \in [1..n -> groups] /\ \A i, j \in 1..n : i # j => order[i] # order[j]
  BY DEF SetToSeqs
<1> HIDE DEF groups, n
<1>5. \A g \in groups : \E j \in 1..n : order[j] = g
  <2>1. order \in Injection(1..n, groups)
    BY <1>4 DEF Injection, IsInjective
  <2>2. Cardinality(1..n) = Cardinality(groups)
    BY <1>1, FS_Interval DEF n
  <2>3. order \in Surjection(1..n, groups)
    BY <1>1, <2>1, <2>2, FS_Injection
  <2> QED BY <2>3 DEF Surjection
<1>6. pending \in Seq(Echoes \cup groups) /\ order \in Seq(Echoes \cup groups) /\ Len(order) = n /\ DOMAIN order = 1..n
  <2>1. pending \in Seq(Echoes)
    BY DEF Typed
  <2>2. order \in Seq(groups) /\ Len(order) = n /\ DOMAIN order = 1..n
    BY <1>1, <1>4
  <2> QED BY <2>1, <2>2, SeqMonotonic
<1> DEFINE A == Echoes \cup groups
           m == Len(pending)
<1>7. pending \in Seq(A) /\ order \in Seq(A) /\ m \in Nat /\ DOMAIN pending = 1..m
  BY <1>6
<1> HIDE DEF A
<1>8. /\ DOMAIN pending' = 1..(m + n)
      /\ \A j \in 1..m : pending'[j] = pending[j]
      /\ \A j \in 1..n : pending'[m + j] = order[j]
  <2>1. DOMAIN pending' = 1..(m + n)
    <3>1. pending' \in Seq(A) /\ Len(pending') = m + n
      BY <1>6, <1>7, ConcatProperties
    <3> QED BY <3>1
  <2>2. \A j \in 1..m : pending'[j] = pending[j]
    BY <1>1, <1>6, <1>7
  <2>3. \A j \in 1..n : pending'[m + j] = order[j]
    <3> TAKE j \in 1..n
    <3>1. m + j \in 1..(m + n) /\ m + j > m /\ (m + j) - m = j
      BY <1>1, <1>7
    <3> QED BY <1>6, <1>7, <3>1, ConcatProperties
  <2> QED BY <2>1, <2>2, <2>3
<1> HIDE DEF m
<1>9. \A j \in DOMAIN pending' : j \notin DOMAIN pending => j - m \in 1..n /\ pending'[j] = order[j - m]
  <2> TAKE j \in DOMAIN pending'
  <2> HAVE j \notin DOMAIN pending
  <2>1. j - m \in 1..n /\ m + (j - m) = j
    BY <1>1, <1>7, <1>8
  <2> QED BY <1>8, <2>1
<1>10. \A j \in 1..n : m + j \in DOMAIN pending' /\ m + j \notin DOMAIN pending
  BY <1>1, <1>7, <1>8
<1>11. \A x \in Sent : \E j \in DOMAIN pending' : j \notin DOMAIN pending /\ x \in pending'[j]
  <2> TAKE x \in Sent
  <2>1. PICK j \in 1..n : x \in order[j]
    BY <1>2, <1>5
  <2>2. m + j \in DOMAIN pending' /\ m + j \notin DOMAIN pending /\ x \in pending'[m + j]
    BY <1>8, <1>10, <2>1
  <2> QED BY <2>2
<1>12. \A j \in DOMAIN pending : j \in Int /\ j \in DOMAIN pending' /\ pending'[j] = pending[j]
  BY <1>1, <1>7, <1>8
<1>13. \A j \in DOMAIN pending' : j \in Int /\
         (j \notin DOMAIN pending => pending'[j] \subseteq Sent /\ \A k \in DOMAIN pending : k < j)
  <2> TAKE j \in DOMAIN pending'
  <2>1. j \in Int /\ (j \notin DOMAIN pending => \A k \in DOMAIN pending : k < j)
    BY <1>1, <1>7, <1>8
  <2>2. j \notin DOMAIN pending => pending'[j] \subseteq Sent
    BY <1>3, <1>4, <1>9
  <2> QED BY <2>1, <2>2
<1> QED BY <1>11, <1>12, <1>13

(* While a message is processed the store does not change, nor what waits: *)
(* what is coming goes on coming.                                          *)
LEMMA WorkingDay ==
  ASSUME DayFollowing, UNCHANGED <<scenario, rows, message, pending, shutdown>>, DayOutRight',
         \A d \in message : RainActive /\ HalfOfDay(d) /\ Coming("rr_24", d) => Coming("rr_24", d)'
  PROVE  DayFollowing'
<1>1. DayCovered'
  <2> SUFFICES ASSUME RainActive', NEW a \in rows, NEW b \in rows, Halves(a, b)
               PROVE  DayStored(a, b)' \/ DayWaits(a, b)' \/ DayComing(a, b)'
    BY DEF DayCovered
  <2>1. RainActive
    BY DEF RainActive, Unfiltered
  <2>2. CASE DayStored(a, b)
    BY <2>2 DEF DayStored
  <2>3. CASE DayWaits(a, b)
    BY <2>3 DEF DayWaits
  <2>4. CASE DayComing(a, b)
    <3>1. PICK d \in {a, b} : (\E j \in DOMAIN pending : d \in pending[j]) \/ (d \in message /\ Coming("rr_24", d))
      BY <2>4 DEF DayComing
    <3>2. HalfOfDay(d)
      BY <3>1 DEF HalfOfDay
    <3>3. (\E j \in DOMAIN pending' : d \in pending'[j]) \/ (d \in message' /\ Coming("rr_24", d)')
      BY <2>1, <3>1, <3>2
    <3> QED BY <2>4, <3>1, <3>3 DEF DayComing
  <2> QED BY <2>1, <2>2, <2>3, <2>4 DEF DayFollowing, DayCovered
<1> QED BY <1>1 DEF DayFollowing

(* Nothing of a half is passed over.                                       *)
LEMMA SkipDay == Inv /\ Typed /\ HoursStored /\ DayFollowing /\ (Uninterested \/ NoAggregate) => DayFollowing'
<1> SUFFICES ASSUME Inv, Typed, HoursStored, DayFollowing, Uninterested \/ NoAggregate PROVE DayFollowing'
  OBVIOUS
<1>1. /\ Processing
      /\ UNCHANGED <<scenario, now, rows, phase, message, data, accepted, out, pending, shutdown, history>>
  BY DEF Uninterested, NoAggregate
<1>2. DayOutRight'
  BY <1>1 DEF DayFollowing, DayOutRight
<1>3. ASSUME NEW d \in message, HalfOfDay(d), Coming("rr_24", d)
      PROVE  Coming("rr_24", d)'
  <2>1. d.param \in Aggregators["rr_24"].read
    BY <1>3, HalvesAre DEF HalfOfDay
  <2>2. ASSUME NEW i \in Offered, Datum = d, Registered[i] = "rr_24"
        PROVE  ~(~IsInterestedIn("rr_24", d.time, now) \/ {} \in Outcomes("rr_24", d))
    BY <1>1, <1>3, <2>2, DayMakesSomething
  <2> QED BY <1>3, <2>1, <2>2, SkipComing
<1> QED BY <1>1, <1>2, <1>3, WorkingDay

(* What is made of two halves is right.                                    *)
LEMMA AggregateDay == PoYieldsFractions /\ Inv /\ Typed /\ HoursStored /\ DayFollowing /\ Aggregate => DayFollowing'
<1> SUFFICES ASSUME PoYieldsFractions, Inv, Typed, HoursStored, DayFollowing, Aggregate PROVE DayFollowing'
  OBVIOUS
<1>1. /\ Processing
      /\ UNCHANGED <<scenario, now, rows, phase, message, data, accepted, pending, shutdown, history>>
  BY DEF Aggregate
<1> PICK i \in Offered : \E x \in UNION Outcomes(Registered[i], Datum) : out' = Append(out, x)
  BY DEF Aggregate
<1>2. PICK x \in UNION Outcomes(Registered[i], Datum) : out' = Append(out, x)
  OBVIOUS
<1>3. \A j \in DOMAIN out' : out'[j] = x \/ (j \in DOMAIN out /\ out'[j] = out[j])
  <2>1. out \in Seq(AggregateData) /\ x \in AggregateData
    BY <1>1, OutcomeIsData DEF Typed
  <2> QED BY <1>2, <2>1, DomainOfAppend
<1>4. DayOutRight'
  <2> SUFFICES ASSUME NEW a \in rows, NEW b \in rows, Halves(a, b), NEW j \in DOMAIN out', Key(out'[j]) = DayKey(b)
               PROVE  DayRight(out'[j], a, b)
    BY <1>1 DEF DayOutRight
  <2>1. CASE out'[j] = x
    BY <1>1, <2>1, DayMadeRight
  <2>2. CASE j \in DOMAIN out /\ out'[j] = out[j]
    BY <2>2 DEF DayFollowing, DayOutRight
  <2> QED BY <1>3, <2>1, <2>2
<1>5. ASSUME NEW d \in message, HalfOfDay(d), Coming("rr_24", d)
      PROVE  Coming("rr_24", d)'
  <2>1. d.param \in Aggregators["rr_24"].read
    BY <1>5, HalvesAre DEF HalfOfDay
  <2> QED BY <1>5, <2>1, AggregateComing
<1> QED BY <1>1, <1>4, <1>5, WorkingDay

(* A call that ends has offered its datum to rr_24, if it is a half.       *)
LEMMA ReturnDay == Inv /\ Typed /\ HoursStored /\ DayFollowing /\ Return => DayFollowing'
<1> SUFFICES ASSUME Inv, Typed, HoursStored, DayFollowing, Return PROVE DayFollowing'
  OBVIOUS
<1>1. UNCHANGED <<scenario, now, rows, phase, message, data, accepted, out, pending, shutdown, history>>
  BY DEF Return
<1>2. DayOutRight'
  BY <1>1 DEF DayFollowing, DayOutRight
<1>3. ASSUME NEW d \in message, RainActive, HalfOfDay(d), Coming("rr_24", d)
      PROVE  Coming("rr_24", d)'
  <2>1. d.param \in Aggregators["rr_24"].read
    BY <1>3, HalvesAre DEF HalfOfDay
  <2> QED BY <1>3, <2>1, ReturnComing DEF RainActive
<1> QED BY <1>1, <1>2, <1>3, WorkingDay

(* A half passes the checks, and process is called.                        *)
LEMMA NewDataDay == Inv /\ Typed /\ HoursStored /\ DayFollowing /\ newData => DayFollowing'
<1> SUFFICES ASSUME Inv, Typed, HoursStored, DayFollowing, newData PROVE DayFollowing'
  OBVIOUS
<1>1. UNCHANGED <<scenario, now, rows, phase, message, out, pending, shutdown, history>>
  BY DEF newData
<1>2. DayOutRight'
  BY <1>1 DEF DayFollowing, DayOutRight
<1>3. ASSUME NEW d \in message, RainActive, HalfOfDay(d), Coming("rr_24", d)
      PROVE  Coming("rr_24", d)'
  <2>1. d.param = RR_12
    BY <1>3, HalvesAre DEF HalfOfDay
  <2>2. CompleteCheckDecider(d, message, rows, scenario.station)
    BY <2>1, HalfPasses
  <2> QED BY <1>3, <2>2, RainParameters, NewDataComing DEF RainActive
<1> QED BY <1>1, <1>2, <1>3, WorkingDay

(* What is received is no half: of those there are, nothing waits, and     *)
(* what is stored of the day remains.                                      *)
LEMMA ReceiveDay == Inv /\ Typed /\ HoursStored /\ HoursStored' /\ Echoing /\ DayFollowing /\ Receive => DayFollowing'
<1> SUFFICES ASSUME Inv, Typed, HoursStored, HoursStored', Echoing, DayFollowing, Receive PROVE DayFollowing'
  OBVIOUS
<1>1. PICK m \in scenario.messages : Begin(m)
  BY DEF Receive
<1> DEFINE new == {d \in m : d.param \in Interesting}
<1>2. /\ phase = "idle" /\ rows' = Put(rows, new) /\ pending = <<>> /\ pending' = <<>>
      /\ out' = <<>> /\ UNCHANGED <<scenario, shutdown>>
  BY <1>1 DEF Receive, Begin, cacheData
<1>3. \A n \in new : ~Negative(n)
  BY HandlerAssumption DEF Inv, ScenarioAssumptionOf
<1> HIDE DEF new
<1>4. message = {} /\ DOMAIN pending = {} /\ DOMAIN pending' = {}
  BY <1>2, NothingComes DEF Echoing, Resting
<1>5. DayOutRight'
  BY <1>2, NothingComes DEF DayOutRight
<1>6. DayCovered'
  <2> SUFFICES ASSUME RainActive', NEW a \in rows', NEW b \in rows', Halves(a, b)
               PROVE  DayStored(a, b)'
    BY DEF DayCovered
  <2>1. Negative(a) /\ Negative(b) /\ a.type = b.type
    BY DEF HoursStored, OfHours, Halves
  <2>2. a \in rows /\ b \in rows
    BY <1>2, <1>3, <2>1, PutStores
  <2>3. RainActive
    BY <1>2 DEF RainActive, Unfiltered
  <2>4. ~DayWaits(a, b) /\ ~DayComing(a, b)
    BY <1>4 DEF DayWaits, DayComing
  <2>5. PICK x \in rows : DayRight(x, a, b)
    BY <2>2, <2>3, <2>4 DEF DayFollowing, DayCovered, DayStored
  <2>6. \A n \in new : Key(n) # Key(x)
    BY <1>3, <2>1, <2>5 DEF Negative, Key, DayRight, DayKey
  <2>7. x \in rows'
    BY <1>2, <2>6 DEF Put
  <2> QED BY <1>4, <2>5, <2>7 DEF DayStored
<1> QED BY <1>5, <1>6 DEF DayFollowing

(* What kvalobs sends back of the halves is what is stored; of the day it  *)
(* may be an older version, but then a better one waits behind it.         *)
LEMMA TakeEchoDay ==
  Inv /\ Typed /\ HoursStored /\ Echoing /\ RainEchoing /\ DayFollowing /\ TakeEcho => DayFollowing'
<1> SUFFICES ASSUME Inv, Typed, HoursStored, Echoing, RainEchoing, DayFollowing, TakeEcho PROVE DayFollowing'
  OBVIOUS
<1> DEFINE new == {d \in message' : d.param \in Interesting}
<1>1. /\ phase = "idle" /\ out' = <<>> /\ data' = message' /\ UNCHANGED <<scenario, shutdown>>
      /\ rows' = Put(rows, new) /\ 1 \in DOMAIN pending /\ message' = pending[1]
      /\ \A i \in DOMAIN pending' : i + 1 \in DOMAIN pending /\ pending'[i] = pending[i + 1]
  BY NextEcho DEF TakeEcho, Begin
<1>2. \A n : n \in new <=> n \in pending[1] /\ n.param \in Interesting
  BY <1>1
<1>3. \A j \in DOMAIN pending : j \in Int /\ j >= 1 /\ (j # 1 => j - 1 \in DOMAIN pending' /\ pending'[j - 1] = pending[j])
  BY EchoesBehind
<1> HIDE DEF new
<1>4. \A k \in DOMAIN pending' : k \in Int /\ k >= 1
  <2>1. pending \in Seq(Echoes) /\ pending # <<>> /\ pending' = Tail(pending)
    BY DEF TakeEcho, Typed
  <2> HIDE DEF Echoes
  <2> QED BY <2>1
<1>5. message = {}
  BY <1>1 DEF Echoing, Resting
<1>6. HoursObserved
  BY DEF HoursObserved, HoursStored, OfHours
<1>7. DayOutRight'
  BY <1>1, NothingComes DEF DayOutRight
<1>8. DayCovered'
  <2> SUFFICES ASSUME RainActive', NEW a \in rows', NEW b \in rows', Halves(a, b)
               PROVE  DayStored(a, b)' \/ DayWaits(a, b)' \/ DayComing(a, b)'
    BY DEF DayCovered
  <2>1. a \in rows /\ b \in rows
    <3>1. a.param = RR_12 /\ b.param = RR_12
      BY DEF Halves
    <3> QED BY <1>1, <1>2, <1>6, <3>1, PutStores DEF RainEchoing, RainEchoed
  <2>2. RainActive
    BY <1>1 DEF RainActive, Unfiltered
  <2>3. ASSUME NEW k \in DOMAIN pending', NEW x \in pending'[k]
        PROVE  k + 1 \in DOMAIN pending /\ x \in pending[k + 1]
    BY <1>1, <2>3
  <2>4. ASSUME NEW x, DayRight(x, a, b) \/ DayWrong(x, a, b)
        PROVE  x.param \in Interesting /\ Key(x) = DayKey(b)
    BY <2>4, RainParameters DEF DayRight, DayWrong, Key, DayKey
  <2>5. ASSUME NEW x \in rows, DayRight(x, a, b), \A j \in DOMAIN pending : \A y \in pending[j] : ~DayWrong(y, a, b)
        PROVE  DayStored(a, b)'
    <3>1. \A k \in DOMAIN pending' : \A y \in pending'[k] : ~DayWrong(y, a, b)
      BY <2>3, <2>5
    <3>2. CASE \A n \in new : Key(n) # Key(x)
      <4>1. x \in rows'
        BY <1>1, <3>2 DEF Put
      <4> QED BY <2>5, <3>1, <4>1 DEF DayStored
    <3>3. CASE \E n \in new : Key(n) = Key(x)
      <4>1. PICK n \in new : Key(n) = Key(x)
        BY <3>3
      <4>2. n \in rows' /\ n \in pending[1]
        BY <1>1, <1>2, <4>1, PutStores
      <4>3. DayRight(n, a, b)
        BY <1>1, <2>4, <2>5, <4>1, <4>2 DEF DayWrong
      <4> QED BY <3>1, <4>2, <4>3 DEF DayStored
    <3> QED BY <3>2, <3>3
  <2>6. CASE DayStored(a, b)
    BY <2>5, <2>6 DEF DayStored
  <2>7. CASE DayWaits(a, b)
    <3>1. PICK j \in DOMAIN pending :
            /\ \E x \in pending[j] : DayRight(x, a, b)
            /\ \A k \in DOMAIN pending : k > j => \A x \in pending[k] : ~DayWrong(x, a, b)
      BY <2>7 DEF DayWaits
    <3>2. PICK x \in pending[j] : DayRight(x, a, b)
      BY <3>1
    <3>3. CASE j = 1
      <4>1. x \in rows'
        BY <1>1, <1>2, <2>4, <3>2, <3>3, PutStores
      <4>2. \A k \in DOMAIN pending' : \A y \in pending'[k] : ~DayWrong(y, a, b)
        <5> TAKE k \in DOMAIN pending'
        <5> TAKE y \in pending'[k]
        <5>1. k + 1 \in DOMAIN pending /\ y \in pending[k + 1]
          BY <2>3
        <5>2. k \in Int /\ k >= 1
          BY <1>4
        <5> QED BY <3>1, <3>3, <5>1, <5>2
      <4> QED BY <3>2, <4>1, <4>2 DEF DayStored
    <3>4. CASE j # 1
      <4>1. j \in Int /\ j - 1 \in DOMAIN pending' /\ x \in pending'[j - 1]
        BY <1>3, <3>2, <3>4
      <4>2. \A k \in DOMAIN pending' : k > j - 1 => \A y \in pending'[k] : ~DayWrong(y, a, b)
        <5> TAKE k \in DOMAIN pending'
        <5> HAVE k > j - 1
        <5> TAKE y \in pending'[k]
        <5>1. k + 1 \in DOMAIN pending /\ y \in pending[k + 1]
          BY <2>3
        <5>2. k \in Int
          BY <1>4
        <5>3. k + 1 > j
          BY <4>1, <5>2
        <5> QED BY <3>1, <5>1, <5>3
      <4> QED BY <3>2, <4>1, <4>2 DEF DayWaits
    <3> QED BY <3>3, <3>4
  <2>8. CASE DayComing(a, b)
    <3>1. \A x \in rows' : ~DayRight(x, a, b)
      BY <1>1, <1>2, <2>8, PutStores DEF DayComing
    <3>2. \A k \in DOMAIN pending' : \A x \in pending'[k] : ~DayRight(x, a, b)
      BY <2>3, <2>8 DEF DayComing
    <3>3. PICK d \in {a, b}, j \in DOMAIN pending : d \in pending[j]
      BY <1>5, <2>8 DEF DayComing
    <3>4. (\E k \in DOMAIN pending' : d \in pending'[k]) \/ (d \in message' /\ Coming("rr_24", d)')
      BY <1>1, <1>3, <3>3 DEF Coming
    <3> QED BY <3>1, <3>2, <3>3, <3>4 DEF DayComing
  <2> QED BY <2>1, <2>2, <2>6, <2>7, <2>8 DEF DayFollowing, DayCovered
<1> QED BY <1>7, <1>8 DEF DayFollowing

(* When kvalobs refuses, the whole message is coming again.                *)
LEMMA SaveRefusedDay == Inv /\ DayFollowing /\ saveRefused => DayFollowing'
<1> SUFFICES ASSUME Inv, DayFollowing, saveRefused PROVE DayFollowing'
  OBVIOUS
<1>1. /\ data' = message /\ out' = <<>> /\ UNCHANGED <<scenario, now, message, stack, pending, shutdown>>
  BY DEF saveRefused
<1>2. rows' = rows
  BY RefusedKeepsRows
<1>3. DayOutRight'
  BY <1>1, NothingComes DEF DayOutRight
<1>4. \A d \in message : Coming("rr_24", d)'
  BY <1>1 DEF Coming
<1> QED BY <1>1, <1>2, <1>3, <1>4, WorkingDay

(* The other steps change nothing of it, or shut down the program.         *)
LEMMA StillDay == DayFollowing /\ (unsaved \/ Tick \/ Shutdown \/ UNCHANGED vars) => DayFollowing'
<1> SUFFICES ASSUME DayFollowing, unsaved \/ Tick \/ Shutdown \/ UNCHANGED vars PROVE DayFollowing'
  OBVIOUS
<1>1. CASE shutdown' /\ UNCHANGED <<scenario, rows>> /\ (out' = <<>> \/ out' = out)
  BY <1>1, NothingComes DEF DayFollowing, DayOutRight, DayCovered, RainActive
<1>2. CASE UNCHANGED <<scenario, rows, message, data, stack, out, pending, shutdown>>
  <2>1. DayOutRight'
    BY <1>2 DEF DayFollowing, DayOutRight
  <2>2. \A d \in message : Coming("rr_24", d) => Coming("rr_24", d)'
    BY <1>2 DEF Coming
  <2> QED BY <1>2, <2>1, <2>2, WorkingDay
<1> QED BY <1>1, <1>2 DEF unsaved, End, Tick, Shutdown, vars, newDataVars

(* What is saved of half a day was made of what was observed: of it waits  *)
(* nothing else.  Then the day will be computed anew, or has been, in the  *)
(* same message.                                                           *)
LEMMA SaveHalf ==
  ASSUME Inv, Typed, HoursStored, Echoing, RainEchoing, save,
         NEW a \in rows', NEW b \in rows', Halves(a, b), a \in Sent \/ b \in Sent
  PROVE  DayStored(a, b)' \/ DayComing(a, b)'
<1>1. rows' = Put(rows, Sent)
  BY DEF save
<1>2. pending = <<>>
  <2>1. \E j \in DOMAIN out : out[j].param = RR_12
    BY DEF Sent, Halves
  <2>2. HoursObserved
    BY DEF HoursObserved, HoursStored, OfHours
  <2> QED BY <2>1, <2>2 DEF Echoing, Alone, RainEchoing, RainObserving
<1>3. /\ \A j \in DOMAIN pending' : pending'[j] \subseteq Sent
      /\ \A x \in Sent : \E j \in DOMAIN pending' : x \in pending'[j]
  BY <1>2, NothingComes, EchoesOfSave
<1>4. \A x, y \in Sent : Key(x) = Key(y) => x = y
  BY SentOneForEachKey DEF OneForEachKey
<1>5. CASE \E x \in Sent : DayRight(x, a, b)
  <2>1. PICK x \in Sent : DayRight(x, a, b)
    BY <1>5
  <2>2. x \in rows'
    BY <1>1, <2>1, PutStores
  <2>3. \A y \in Sent : ~DayWrong(y, a, b)
    BY <1>4, <2>1 DEF DayRight, DayWrong
  <2> QED BY <1>3, <2>1, <2>2, <2>3 DEF DayStored
<1>6. CASE (\A x \in Sent : ~DayRight(x, a, b)) /\ \E x \in rows' : DayRight(x, a, b)
  <2>1. PICK x \in rows' : DayRight(x, a, b) /\ x \notin Sent
    BY <1>6
  <2>2. \A y \in Sent : Key(y) # Key(x)
    BY <1>1, <2>1 DEF Put
  <2>3. \A y \in Sent : ~DayWrong(y, a, b)
    BY <2>1, <2>2 DEF DayRight, DayWrong
  <2> QED BY <1>3, <2>1, <2>3 DEF DayStored
<1>7. CASE (\A x \in Sent : ~DayRight(x, a, b)) /\ \A x \in rows' : ~DayRight(x, a, b)
  <2>1. PICK d \in {a, b} : d \in Sent
    OBVIOUS
  <2>2. \E j \in DOMAIN pending' : d \in pending'[j]
    BY <1>3, <2>1
  <2>3. \A j \in DOMAIN pending' : \A x \in pending'[j] : ~DayRight(x, a, b)
    BY <1>3, <1>7
  <2> QED BY <1>7, <2>1, <2>2, <2>3 DEF DayComing
<1> QED BY <1>5, <1>6, <1>7

(* Where neither half is saved, what is saved of the day is right, and     *)
(* waits behind everything else.                                           *)
LEMMA SaveWhole ==
  ASSUME Inv, Typed, HoursStored, DayFollowing, RainActive, save,
         NEW a \in rows', NEW b \in rows', Halves(a, b), a \notin Sent, b \notin Sent
  PROVE  DayStored(a, b)' \/ DayWaits(a, b)' \/ DayComing(a, b)'
<1>1. rows' = Put(rows, Sent) /\ message' = {} /\ stack = <<>> /\ data = {}
  BY DEF save, Done, End
<1>2. a \in rows /\ b \in rows
  BY <1>1, PutStores
<1>3. \A x \in Sent : Key(x) = DayKey(b) => DayRight(x, a, b)
  BY <1>2 DEF DayFollowing, DayOutRight, Sent
<1>4. \A x \in Sent : ~DayWrong(x, a, b)
  BY <1>3 DEF DayWrong
<1>5. \A j \in DOMAIN pending' : j \notin DOMAIN pending => pending'[j] \subseteq Sent /\ \A k \in DOMAIN pending : k < j
  BY EchoesOfSave
<1>6. \A j \in DOMAIN pending : j \in Int /\ j \in DOMAIN pending' /\ pending'[j] = pending[j]
  BY EchoesOfSave
<1>7. CASE DayStored(a, b)
  <2>1. \A j \in DOMAIN pending' : \A x \in pending'[j] : ~DayWrong(x, a, b)
    <3> TAKE j \in DOMAIN pending'
    <3>1. CASE j \in DOMAIN pending
      BY <1>6, <1>7, <3>1 DEF DayStored
    <3>2. CASE j \notin DOMAIN pending
      BY <1>4, <1>5, <3>2
    <3> QED BY <3>1, <3>2
  <2>2. PICK x \in rows : DayRight(x, a, b)
    BY <1>7 DEF DayStored
  <2>3. CASE \E n \in Sent : Key(n) = Key(x)
    <3>1. PICK n \in Sent : Key(n) = Key(x)
      BY <2>3
    <3>2. DayRight(n, a, b)
      BY <1>3, <2>2, <3>1 DEF DayRight
    <3>3. n \in rows'
      BY <1>1, <3>1, PutStores
    <3> QED BY <2>1, <3>2, <3>3 DEF DayStored
  <2>4. CASE \A n \in Sent : Key(n) # Key(x)
    <3>1. x \in rows'
      BY <1>1, <2>4 DEF Put
    <3> QED BY <2>1, <2>2, <3>1 DEF DayStored
  <2> QED BY <2>3, <2>4
<1>8. CASE DayWaits(a, b)
  <2>1. PICK j \in DOMAIN pending :
          /\ \E x \in pending[j] : DayRight(x, a, b)
          /\ \A k \in DOMAIN pending : k > j => \A x \in pending[k] : ~DayWrong(x, a, b)
    BY <1>8 DEF DayWaits
  <2>2. j \in DOMAIN pending' /\ pending'[j] = pending[j]
    BY <1>6
  <2>3. \A k \in DOMAIN pending' : k > j => \A x \in pending'[k] : ~DayWrong(x, a, b)
    <3> TAKE k \in DOMAIN pending'
    <3> HAVE k > j
    <3>1. CASE k \in DOMAIN pending
      BY <1>6, <2>1, <3>1
    <3>2. CASE k \notin DOMAIN pending
      BY <1>4, <1>5, <3>2
    <3> QED BY <3>1, <3>2
  <2> QED BY <2>1, <2>2, <2>3 DEF DayWaits
<1>9. CASE DayComing(a, b) /\ \E n \in Sent : Key(n) = DayKey(b)
  <2>1. PICK n \in Sent : Key(n) = DayKey(b)
    BY <1>9
  <2>2. DayRight(n, a, b)
    BY <1>3, <2>1
  <2>3. PICK j \in DOMAIN pending' : j \notin DOMAIN pending /\ n \in pending'[j]
    BY EchoesOfSave
  <2>4. \A k \in DOMAIN pending' : k > j => \A x \in pending'[k] : ~DayWrong(x, a, b)
    <3> TAKE k \in DOMAIN pending'
    <3> HAVE k > j
    <3>1. j \in Int /\ k \in Int
      BY EchoesOfSave
    <3>2. k \notin DOMAIN pending
      BY <1>5, <2>3, <3>1
    <3> QED BY <1>4, <1>5, <3>2
  <2> QED BY <2>2, <2>3, <2>4 DEF DayWaits
<1>10. CASE DayComing(a, b) /\ \A n \in Sent : Key(n) # DayKey(b)
  <2>1. \A x \in rows' : ~DayRight(x, a, b)
    BY <1>1, <1>10, PutStores DEF DayComing, DayRight
  <2>2. \A j \in DOMAIN pending' : \A x \in pending'[j] : ~DayRight(x, a, b)
    <3> TAKE j \in DOMAIN pending'
    <3>1. CASE j \in DOMAIN pending
      BY <1>6, <1>10, <3>1 DEF DayComing
    <3>2. CASE j \notin DOMAIN pending
      BY <1>5, <1>10, <3>2 DEF DayRight
    <3> QED BY <3>1, <3>2
  <2>3. ASSUME NEW d \in {a, b}, d \in message, Coming("rr_24", d) PROVE FALSE
    <3>1. AggregateKey("rr_24", d) = DayKey(b)
      BY <1>2, HalvesAre
    <3>2. PICK i \in DOMAIN out : Key(out[i]) = DayKey(b)
      BY <1>1, <2>3, <3>1, NothingComes DEF Coming
    <3>3. out[i].param \in Interesting
      BY <3>2, RainParameters DEF Key, DayKey
    <3>4. PICK x \in rows', j \in DOMAIN out :
            Key(x) = Key(out[i]) /\ Key(out[j]) = Key(out[i]) /\ \A field \in Fields : x[field] = out[j][field]
      BY <1>1, <3>3, SavedAsComputed
    <3>5. DayRight(out[j], a, b)
      BY <1>2, <3>2, <3>4 DEF DayFollowing, DayOutRight
    <3>6. DayRight(x, a, b)
      BY <3>2, <3>4, <3>5 DEF DayRight
    <3> QED BY <2>1, <3>6
  <2>4. PICK d \in {a, b}, j \in DOMAIN pending : d \in pending[j]
    BY <1>10, <2>3 DEF DayComing
  <2>5. \E k \in DOMAIN pending' : d \in pending'[k]
    BY <1>6, <2>4
  <2> QED BY <2>1, <2>2, <2>4, <2>5 DEF DayComing
<1> QED BY <1>2, <1>7, <1>8, <1>9, <1>10 DEF DayFollowing, DayCovered

(* What is saved.                                                          *)
LEMMA SaveDay == Inv /\ Typed /\ HoursStored /\ Echoing /\ RainEchoing /\ DayFollowing /\ save => DayFollowing'
<1> SUFFICES ASSUME Inv, Typed, HoursStored, Echoing, RainEchoing, DayFollowing, save PROVE DayFollowing'
  OBVIOUS
<1>1. out' = <<>> /\ UNCHANGED <<scenario, shutdown>>
  BY DEF save, End
<1>2. DayOutRight'
  BY <1>1, NothingComes DEF DayOutRight
<1>3. DayCovered'
  <2> SUFFICES ASSUME RainActive', NEW a \in rows', NEW b \in rows', Halves(a, b)
               PROVE  DayStored(a, b)' \/ DayWaits(a, b)' \/ DayComing(a, b)'
    BY DEF DayCovered
  <2>1. RainActive
    BY <1>1 DEF RainActive, Unfiltered
  <2> QED BY <2>1, SaveHalf, SaveWhole
<1> QED BY <1>2, <1>3 DEF DayFollowing

(* Every step.                                                             *)
LEMMA NextDayFollowing ==
  /\ PoYieldsFractions /\ Inv /\ Typed /\ HoursStored /\ HoursStored' /\ Echoing /\ RainEchoing
  /\ DayFollowing /\ [Next]_vars
  => DayFollowing'
BY ReceiveDay, TakeEchoDay, SkipDay, AggregateDay, ReturnDay, NewDataDay, SaveDay, SaveRefusedDay, StillDay
   DEF Next, Worker, process

(* Hours without a gap, one by one.                                        *)
LEMMA HourByHour ==
  ASSUME NEW S, NEW end \in Int, NEW hours \in Nat
  PROVE  Hourly(S, end, hours) <=>
           /\ \A x \in S : \E n \in Nat : n < hours /\ x.time = end - n * Hour
           /\ \A n \in Nat : n < hours => \E x \in S : x.time = end - n * Hour
<1> DEFINE T == {end - n * Hour : n \in 0..(hours - 1)}
<1>1. \A n : n \in 0..(hours - 1) <=> n \in Nat /\ n < hours
  OBVIOUS
<1>2. Hourly(S, end, hours) <=> Times(S) = T
  BY DEF Hourly
<1>3. \A t : t \in T <=> \E n \in Nat : n < hours /\ t = end - n * Hour
  BY <1>1
<1>4. \A t : t \in Times(S) <=> \E x \in S : t = x.time
  BY DEF Times
<1> HIDE DEF T
<1>5. Times(S) = T <=> \A t : t \in Times(S) <=> t \in T
  OBVIOUS
<1>6. ASSUME Times(S) = T
      PROVE  /\ \A x \in S : \E n \in Nat : n < hours /\ x.time = end - n * Hour
             /\ \A n \in Nat : n < hours => \E x \in S : x.time = end - n * Hour
  BY <1>3, <1>4, <1>6
<1>7. ASSUME \A x \in S : \E n \in Nat : n < hours /\ x.time = end - n * Hour,
             \A n \in Nat : n < hours => \E x \in S : x.time = end - n * Hour
      PROVE  Times(S) = T
  BY <1>3, <1>4, <1>5, <1>7
<1> QED BY <1>2, <1>6, <1>7

(* Such hours of a day; and the last ones of its halves, with theirs.      *)
IsDay(S, type, end) == Hourly(Read(S, RR_1, type, <<end - Day, end>>), end, 24)

EndHalves(p, q, S, type, end) ==
  /\ p.param = RR_1 /\ q.param = RR_1 /\ p.type = type /\ q.type = type
  /\ p.time = end - 12 * Hour /\ q.time = end
  /\ StandardSpan("rr_12", p.time) = <<end - Day, end - 12 * Hour>>
  /\ StandardSpan("rr_12", q.time) = <<end - 12 * Hour, end>>
  /\ GenerateTime("rr_12", p.time) = p.time /\ GenerateTime("rr_12", q.time) = q.time
  /\ WholeIn("rr_12", p, S) /\ WholeIn("rr_12", q, S)
  /\ Period("rr_12", p, S) \cap Period("rr_12", q, S) = {}
  /\ Period("rr_12", p, S) \cup Period("rr_12", q, S) = Read(S, RR_1, type, <<end - Day, end>>)

(* Some rows are the ends of the two halves of a day.                      *)
DayInHalves(S, type, end) == \E p, q \in S : EndHalves(p, q, S, type, end)

EndOfDay(end) == \E j \in Int : end = 1440 * j + 360

(* A day ends at six.                                                      *)
LEMMA DayEndsAtSix ==
  ASSUME NEW t \in Int
  PROVE  EndOfDay(GenerateTime("rr_24", t))
<1>1. PICK j \in Int : /\ GenerateTime("rr_24", t) = 1440 * j + 360
                       /\ t <= 1440 * j + 360 /\ 1440 * j + 360 < t + 1440
  BY DayTimes
<1> QED BY <1>1 DEF EndOfDay

(* The 24 hours of a day are those of its two halves.                      *)
LEMMA DayOfHalves ==
  ASSUME NEW S, OneForEachKey(S), NEW type, NEW end, EndOfDay(end), IsDay(S, type, end)
  PROVE  DayInHalves(S, type, end)
<1>1. PICK j \in Int : end = 1440 * j + 360
  BY DEF EndOfDay
<1> DEFINE half == end - 12 * Hour
           D == Read(S, RR_1, type, <<end - Day, end>>)
           P == Read(S, RR_1, type, <<end - Day, half>>)
           Q == Read(S, RR_1, type, <<half, end>>)
<1>2. end \in Int /\ half \in Int /\ half = end - 720 /\ Hour = 60 /\ Day = 1440
  BY <1>1 DEF Hour, Day
<1>3. \A x \in S : x.time \in Int
  BY DEF OneForEachKey, Data
<1>4. /\ \A x \in S : x \in D <=> x.param = RR_1 /\ x.type = type /\ end - 1440 < x.time /\ x.time <= end
      /\ \A x \in S : x \in P <=> x.param = RR_1 /\ x.type = type /\ end - 1440 < x.time /\ x.time <= end - 720
      /\ \A x \in S : x \in Q <=> x.param = RR_1 /\ x.type = type /\ end - 720 < x.time /\ x.time <= end
      /\ D \subseteq S /\ P \subseteq S /\ Q \subseteq S
  BY <1>2 DEF Read, InSpan
<1>5. Hourly(D, end, 24)
  BY DEF IsDay
<1> HIDE DEF half, D, P, Q
<1>6. /\ \A x \in D : \E n \in Nat : n < 24 /\ x.time = end - n * 60
      /\ \A n \in Nat : n < 24 => \E x \in D : x.time = end - n * 60
  <2>1. /\ \A x \in D : \E n \in Nat : n < 24 /\ x.time = end - n * Hour
        /\ \A n \in Nat : n < 24 => \E x \in D : x.time = end - n * Hour
    <3>1. end \in Int
      BY <1>2
    <3> QED BY <1>5, <3>1, HourByHour
  <2> QED BY <1>2, <2>1
<1>7. Hourly(P, half, 12)
  <2>1. ASSUME NEW x \in P PROVE \E n \in Nat : n < 12 /\ x.time = half - n * Hour
    <3>1. x \in D /\ x.time <= end - 720 /\ x.time \in Int /\ end - 1440 < x.time
      BY <1>2, <1>3, <1>4
    <3>2. PICK n \in Nat : n < 24 /\ x.time = end - n * 60
      BY <1>6, <3>1
    <3>3. n - 12 \in Nat /\ n - 12 < 12
      BY <1>2, <3>1, <3>2
    <3>4. x.time = half - (n - 12) * 60
      BY <1>2, <3>2, <3>3
    <3>5. x.time = half - (n - 12) * Hour
      BY <1>2, <3>4
    <3> QED BY <3>3, <3>5
  <2>2. ASSUME NEW n \in Nat, n < 12 PROVE \E x \in P : x.time = half - n * Hour
    <3>1. PICK m \in Nat : m = n + 12 /\ m < 24
      BY <2>2
    <3>2. m < 24
      BY <3>1
    <3>3. PICK x \in D : x.time = end - m * 60
      BY <1>6, <3>2
    <3>4. x.time = half - n * Hour /\ end - 1440 < x.time /\ x.time <= end - 720
      BY <1>2, <2>2, <3>1, <3>3
    <3>5. x \in P
      BY <1>4, <3>4
    <3> QED BY <3>4, <3>5
  <2> QED BY <1>2, <2>1, <2>2, HourByHour
<1>8. Hourly(Q, end, 12)
  <2>1. ASSUME NEW x \in Q PROVE \E n \in Nat : n < 12 /\ x.time = end - n * Hour
    <3>1. x \in D /\ end - 720 < x.time /\ x.time \in Int
      BY <1>2, <1>3, <1>4
    <3>2. PICK n \in Nat : n < 24 /\ x.time = end - n * 60
      BY <1>6, <3>1
    <3>3. n < 12
      BY <1>2, <3>1, <3>2
    <3> QED BY <1>2, <3>2, <3>3
  <2>2. ASSUME NEW n \in Nat, n < 12 PROVE \E x \in Q : x.time = end - n * Hour
    <3>1. PICK x \in D : x.time = end - n * 60
      BY <1>6, <2>2
    <3>2. end - 720 < x.time /\ x.time <= end
      BY <1>2, <2>2, <3>1
    <3>3. x \in Q
      BY <1>4, <3>2
    <3> QED BY <1>2, <3>1, <3>3
  <2> QED BY <1>2, <2>1, <2>2, HourByHour
<1>9. P \cap Q = {} /\ P \cup Q = D
  <2>1. \A x \in S : x \in D <=> x \in P \/ x \in Q
    BY <1>2, <1>3, <1>4
  <2>2. \A x \in S : ~(x \in P /\ x \in Q)
    BY <1>2, <1>3, <1>4
  <2> QED BY <1>4, <2>1, <2>2
<1>10. PICK p \in P : p.time = half
  <2>1. PICK x \in P : x.time = half - 0 * Hour
    BY <1>2, <1>7, HourByHour
  <2> QED BY <1>2, <2>1
<1>11. PICK q \in Q : q.time = end
  <2>1. PICK x \in Q : x.time = end - 0 * Hour
    BY <1>2, <1>8, HourByHour
  <2> QED BY <1>2, <2>1
<1>12. TimeOfDay(end) \in sixAmSixPm /\ TimeOfDay(half) \in sixAmSixPm
  <2>1. end % 1440 = 360
    BY <1>1
  <2>2. half % 1440 = 1080
    <3>1. half = 1440 * (j - 1) + 1080 /\ j - 1 \in Int
      BY <1>1, <1>2
    <3> DEFINE i == j - 1
    <3> HIDE DEF i
    <3>2. half = 1440 * i + 1080 /\ i \in Int
      BY <3>1 DEF i
    <3> QED BY <3>2
  <2> QED BY <2>1, <2>2 DEF TimeOfDay, sixAmSixPm, Day, Hour
<1>13. GenerateTime("rr_12", end) = end /\ GenerateTime("rr_12", half) = half
  BY <1>2, <1>12, GeneratedAtSixes
<1>14. StandardSpan("rr_12", half) = <<end - Day, half>> /\ StandardSpan("rr_12", end) = <<half, end>>
  BY <1>2, <1>13, GaugeParameters DEF StandardSpan
<1>15. /\ p \in S /\ q \in S /\ p.param = RR_1 /\ q.param = RR_1 /\ p.type = type /\ q.type = type
  BY <1>4
<1>16. Period("rr_12", p, S) = P /\ Period("rr_12", q, S) = Q
  BY <1>10, <1>11, <1>14, <1>15 DEF Period, P, Q
<1>17. WholeIn("rr_12", p, S) /\ WholeIn("rr_12", q, S)
  BY <1>7, <1>8, <1>10, <1>11, <1>13, <1>16, GaugeParameters DEF WholeIn
<1> QED BY <1>9, <1>10, <1>11, <1>13, <1>14, <1>15, <1>16, <1>17 DEF DayInHalves, EndHalves, half, D

(* Once nothing is coming, half days without levels near are right.        *)
LEMMA HalfIsStored ==
  ASSUME HoursFollowing, RainActive, message = {}, NEW r \in rows, HalfOfHours(r, rows)
  PROVE  \E a \in rows : Right("rr_12", r, a, rows)
BY DEF HoursFollowing, HoursCovered, HoursComing

(* What is right of a half day is the rain of its hours.                   *)
LEMMA RightIsRain ==
  ASSUME NEW r, NEW stored, NEW a, Right("rr_12", r, a, stored), NEW field \in Fields
  PROVE  a[field] = RainIn(Period("rr_12", r, stored), field)
<1> DEFINE obs == Period("rr_12", r, stored)
<1>1. a[field] = Expected("rr_12", obs, field)
  BY DEF Right
<1> HIDE DEF obs
<1>2. Expected("rr_12", obs, field) = IF Missing \in Values(obs, field) THEN Missing ELSE RainOf(obs, field)
  BY ExpectedCases DEF Divided
<1> QED BY <1>1, <1>2, RainIsSum DEF RainIn, obs

(* And then the rain of a day is that of its 24 hours.                     *)
LEMMA DayIsStored ==
  ASSUME Inv, Typed, Past, HoursStored, HoursFollowing, DayFollowing, RainActive, message = {}, pending = <<>>,
         NEW r \in rows, r.param = RR_1, NEW end, end = GenerateTime("rr_24", r.time), IsDay(rows, r.type, end),
         Read(rows, RA, r.type, <<(end - Day) - 11 * Hour, end>>) = {}
  PROVE  \E x \in rows : /\ Key(x) = <<RR_24, end, -r.type>>
                         /\ \A field \in Fields :
                              x[field] = RainIn(Read(rows, RR_1, r.type, <<end - Day, end>>), field)
<1> DEFINE D == Read(rows, RR_1, r.type, <<end - Day, end>>)
<1>1. r.type \in Int /\ r.type > 0 /\ r.time \in Int /\ OneForEachKey(rows)
  BY HourIsObserved DEF Typed
<1>2. EndOfDay(end)
  BY <1>1, DayEndsAtSix
<1>3. PICK j \in Int : end = 1440 * j + 360
  BY <1>2 DEF EndOfDay
<1>4. PICK p \in rows, q \in rows : EndHalves(p, q, rows, r.type, end)
  <2>1. DayInHalves(rows, r.type, end)
    BY <1>1, <1>2, DayOfHalves
  <2> QED BY <2>1 DEF DayInHalves
<1> DEFINE P == Period("rr_12", p, rows)
           Q == Period("rr_12", q, rows)
<1>5. P \in SUBSET Data /\ IsFiniteSet(P) /\ Q \in SUBSET Data /\ IsFiniteSet(Q)
  <2>1. P \subseteq rows /\ Q \subseteq rows
    BY DEF Period, Read
  <2> QED BY <1>1, <2>1, FS_Subset DEF OneForEachKey
<1> HIDE DEF D, P, Q
<1>6. end \in Int /\ \A x \in rows : x.time \in Int
  <2>1. \A x \in rows : x.time \in Int
    BY <1>1 DEF OneForEachKey, Data
  <2>2. 1440 * j + 360 \in Int
    OBVIOUS
  <2> QED BY <1>3, <2>1, <2>2
<1>7. HalfOfHours(p, rows) /\ HalfOfHours(q, rows)
  <2>1. \A x \in rows : ~(/\ x.param = RA /\ x.type = r.type
                          /\ (end - Day) - 11 * Hour < x.time /\ x.time <= end)
    BY DEF Read, InSpan
  <2>2. LevelsNear(p, rows) = {}
    BY <1>4, <1>6, <2>1 DEF EndHalves, LevelsNear, Read, InSpan, Day, Hour
  <2>3. LevelsNear(q, rows) = {}
    BY <1>4, <1>6, <2>1 DEF EndHalves, LevelsNear, Read, InSpan, Day, Hour
  <2> QED BY <1>4, <2>2, <2>3 DEF EndHalves, HalfOfHours
<1>8. PICK a \in rows : Right("rr_12", p, a, rows)
  BY <1>7, HalfIsStored
<1>9. PICK b \in rows : Right("rr_12", q, b, rows)
  BY <1>7, HalfIsStored
<1>10. /\ Key(a) = <<RR_12, end - 12 * Hour, -r.type>> /\ Key(b) = <<RR_12, end, -r.type>>
  <2>1. ResultTime("rr_12", p.time) = p.time /\ ResultTime("rr_12", q.time) = q.time
    BY <1>4, <1>6, GeneratedFullHour DEF EndHalves
  <2> QED BY <1>1, <1>4, <1>8, <1>9, <2>1, RainParameters DEF EndHalves, Right, AggregateKey, Negated
<1>11. Halves(a, b) /\ a # b /\ a \in Data /\ b \in Data /\ b.time = end /\ b.type = -r.type
  <2>1. a.param = RR_12 /\ b.param = RR_12 /\ a.type = b.type /\ a.time = end - 12 * Hour /\ b.time = end /\ b.type = -r.type
    BY <1>10 DEF Key
  <2>2. TimeOfDay(end) = 6 * Hour
    <3>1. end % 1440 = 360
      BY <1>3
    <3> QED BY <3>1 DEF TimeOfDay, Day, Hour
  <2>3. end = (end - 12 * Hour) + 12 * Hour /\ a # b
    BY <1>6, <2>1 DEF Hour
  <2> QED BY <1>1, <2>1, <2>2, <2>3 DEF Halves, OneForEachKey
<1>12. PICK x \in rows : DayRight(x, a, b)
  <2>1. ~DayWaits(a, b) /\ ~DayComing(a, b)
    BY NothingComes DEF DayWaits, DayComing
  <2> QED BY <1>11, <2>1 DEF DayFollowing, DayCovered, DayStored
<1>13. ASSUME NEW field \in Fields PROVE x[field] = RainIn(D, field)
  <2>1. a[field] = RainIn(P, field) /\ b[field] = RainIn(Q, field)
    BY <1>8, <1>9, RightIsRain DEF P, Q
  <2>2. P \cap Q = {} /\ P \cup Q = D
    BY <1>4 DEF EndHalves, P, Q, D
  <2>3. RainIn({a, b}, field) = RainIn(P \cup Q, field)
    BY <1>5, <1>11, <2>1, <2>2, RainOfRain
  <2> QED BY <1>12, <2>2, <2>3 DEF DayRight
<1>14. Key(x) = <<RR_24, end, -r.type>>
  BY <1>11, <1>12 DEF DayRight, DayKey
<1> QED BY <1>13, <1>14 DEF D

(* What is stored at the start: observations that are not of the future,   *)
(* and of half days without levels near, and of days, the rain of what     *)
(* else is stored.                                                         *)
RainSettled ==
  /\ Past
  /\ Unfiltered =>
       /\ \A r \in rows : HalfOfHours(r, rows) => \E a \in rows : Right("rr_12", r, a, rows)
       /\ \A a, b \in rows : Halves(a, b) => \E x \in rows : DayRight(x, a, b)

(* All that has been said of the rain.                                     *)
RainInvariant ==
  /\ Past /\ HoursOnly /\ HoursStored /\ Echoing /\ RainEchoing
  /\ HoursFollowing /\ DayFollowing

(* It holds at the start,                                                  *)
LEMMA InitRain == Init /\ RainSettled /\ HoursOnly => RainInvariant
<1> SUFFICES ASSUME Init, RainSettled, HoursOnly PROVE RainInvariant
  OBVIOUS
<1>1. message = {} /\ pending = <<>> /\ out = <<>> /\ DOMAIN pending = {} /\ DOMAIN out = {}
  BY NothingComes DEF Init
<1>2. Echoing /\ RainEchoing
  BY <1>1, InitEchoing DEF RainEchoing, RainEchoed, RainObserving
<1>3. HoursFollowing
  BY <1>1 DEF RainSettled, HoursFollowing, HoursOutRight, HoursCovered, RainActive
<1>4. DayFollowing
  BY <1>1 DEF RainSettled, DayFollowing, DayOutRight, DayCovered, DayStored, RainActive
<1> QED BY <1>2, <1>3, <1>4, InitHours DEF RainSettled, RainInvariant

(* every step keeps it,                                                    *)
LEMMA NextRainInvariant == PoYieldsFractions /\ Inv /\ Typed /\ RainInvariant /\ [Next]_vars => RainInvariant'
<1> SUFFICES ASSUME PoYieldsFractions, Inv, Typed, RainInvariant, [Next]_vars PROVE RainInvariant'
  OBVIOUS
<1> USE DEF RainInvariant
<1>1. Past'
  BY NextPast
<1>2. HoursOnly'
  <2>1. UNCHANGED scenario
    BY SameScenario
  <2> QED BY <2>1 DEF HoursOnly
<1>3. HoursStored'
  BY NextHours
<1>4. Echoing' /\ RainEchoing'
  BY NextEchoing, NextRain
<1>5. HoursFollowing'
  BY NextHoursFollowing
<1>6. DayFollowing'
  BY <1>3, NextDayFollowing
<1> QED BY <1>1, <1>2, <1>3, <1>4, <1>5, <1>6

(* and where nothing is left to do the rain follows.                       *)
LEMMA RainInvariantFollows == Inv /\ Typed /\ RainInvariant => RainFollows
<1> SUFFICES ASSUME Inv, Typed, RainInvariant, Quiet, NEW r \in rows, r.param = RR_1
             PROVE  LET end  == GenerateTime("rr_24", r.time)
                        span == <<end - Day, end>>
                        S    == Read(rows, RR_1, r.type, span)
                        gauged(within) == Read(rows, RA, r.type, <<within[1] - 11 * Hour, within[2]>>) # {}
                    IN  /\ Whole("rr_12", r) /\ ~gauged(StandardSpan("rr_12", r.time)) => Follows("rr_12", r)
                        /\ Hourly(S, end, 24) /\ ~gauged(span) =>
                             Stored(RR_24, end, -Abs(r.type), LAMBDA field : OrMissing(S, field, RainOf(S, field)))
  BY DEF RainFollows
<1> USE DEF RainInvariant
<1>1. RainActive /\ message = {} /\ pending = <<>>
  BY DEF Quiet, RainActive, Echoing, Resting
<1>2. r.type \in Int /\ r.type > 0 /\ -Abs(r.type) = -r.type
  BY HourIsObserved DEF Abs
<1>3. ASSUME Whole("rr_12", r),
             Read(rows, RA, r.type, <<StandardSpan("rr_12", r.time)[1] - 11 * Hour, StandardSpan("rr_12", r.time)[2]>>) = {}
      PROVE  Follows("rr_12", r)
  <2>1. HalfOfHours(r, rows)
    BY <1>3 DEF HalfOfHours, LevelsNear, Whole, PeriodOf, WholeIn, Period
  <2> QED BY <1>1, <1>2, <2>1, HalfIsStored, RightFollows DEF Divided
<1> DEFINE end == GenerateTime("rr_24", r.time)
           S == Read(rows, RR_1, r.type, <<end - Day, end>>)
<1>4. ASSUME Hourly(S, end, 24), Read(rows, RA, r.type, <<(end - Day) - 11 * Hour, end>>) = {}
      PROVE  Stored(RR_24, end, -Abs(r.type), LAMBDA field : OrMissing(S, field, RainOf(S, field)))
  <2>1. IsDay(rows, r.type, end)
    BY <1>4 DEF IsDay
  <2>2. PICK x \in rows : /\ Key(x) = <<RR_24, end, -r.type>>
                          /\ \A field \in Fields : x[field] = RainIn(S, field)
    BY <1>1, <1>4, <2>1, DayIsStored
  <2> HIDE DEF end, S
  <2>3. ASSUME NEW field \in {"orig", "corr"} PROVE x[field] = OrMissing(S, field, RainOf(S, field))
    BY <2>2, RainIsSum, Zenon DEF RainIn, OrMissing, Fields
  <2> QED BY <1>2, <2>2, <2>3 DEF Stored
<1> QED BY <1>3, <1>4

(* In whatever order the hours come, and their corrections, whatever       *)
(* kvalobs refuses, and in whatever order it sends back what was saved:    *)
(* once everything has been worked off, the rain of every half day is that *)
(* of its twelve hours, and the rain of every day that of its 24 hours.    *)
THEOREM RainFollowsHolds ==
  ASSUME PoYieldsFractions
  PROVE  Spec /\ RainSettled /\ HoursOnly => []RainFollows
<1>1. Inv /\ Typed /\ RainInvariant /\ [Next]_vars => RainInvariant'
  BY NextRainInvariant
<1> QED BY <1>1, InitRain, RainInvariantFollows, SpecInv, SpecTyped, PTL DEF Spec
=============================================================================
