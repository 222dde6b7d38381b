--------------------------- MODULE AggregatorHandler ---------------------------
(***************************************************************************)
(* AggregatorHandler with its aggregators, in one thread: messages are     *)
(* stored, each datum of a message is offered to the aggregators of its    *)
(* parameter, an aggregate is offered to further aggregators before        *)
(* anything is saved (newData, process, getRelevantObsList, save), and     *)
(* kvalobs sends the saved aggregates back as messages.                    *)
(*                                                                         *)
(* `rows' is what KvalobsProxy::getData finds; how two stores become one,  *)
(* and what several threads do to each other, is the subject of            *)
(* KvalobsProxy and AggregationPipeline.  process calls itself: its calls  *)
(* are `stack', the innermost first.                                       *)
(***************************************************************************)
EXTENDS Aggregation, CheckDecision, SequencesExt

CONSTANTS
  Scenarios,     \* stations with the observations they may send
  MaxMessages,   \* bound: messages received from stations
  MaxRefusals    \* bound: times kvalobs refuses what is saved

(* A scenario: the station; what is stored at the start; the messages that *)
(* may come, in any order and repeatedly; the times the clock may show;    *)
(* the station's metadata; the filters of the command line, none if empty; *)
(* and whether the program may be shut down.                               *)
Negative(r) == r.type < 0

(* The types of stations are positive, those of aggregates negative; the   *)
(* pressure is always observed.                                            *)
Proper(r) == r.type \in Int \ {0} /\ (Negative(r) => r.param # PR)

ScenarioAssumptionOf(s) ==
  /\ s.station \in Int
  /\ s.clock # {} /\ s.clock \subseteq Int /\ IsFiniteSet(s.clock)
  /\ \A m \in s.messages : OneForEachKey(m) /\ \A d \in m : Proper(d) /\ ~Negative(d)
  /\ OneForEachKey(s.before) /\ \A r \in s.before : Proper(r)
  /\ s.metadata \in Seq(MetadataEntries)

ASSUME HandlerAssumption ==
  /\ MaxMessages \in Nat /\ MaxRefusals \in Nat
  /\ \A s \in Scenarios : ScenarioAssumptionOf(s)

VARIABLES
  scenario,   \* never changes
  now,        \* the clock
  rows,       \* what is stored
  phase,      \* "idle", or "newData" while a message is processed
  message,    \* the message, a set of data
  data,       \* those of it that newData has not come to yet
  accepted,   \* those that the check deciders let through
  stack,      \* calls of process: a datum, and the aggregator to go on with
  out,        \* toSave of newData
  pending,    \* messages from kvalobs about what was saved
  shutdown,   \* KvApp::shutdown
  count, refusals  \* counters for the bounds

newDataVars == <<message, data, accepted, stack, out>>
history == <<count, refusals>>
vars == <<scenario, now, rows, phase, newDataVars, pending, shutdown, history>>

Init ==
  /\ scenario \in Scenarios
  /\ now = Min(scenario.clock)
  /\ rows = scenario.before
  /\ phase = "idle"
  /\ message = {} /\ data = {} /\ accepted = {} /\ stack = <<>> /\ out = <<>>
  /\ pending = <<>>
  /\ shutdown = FALSE
  /\ count = 0 /\ refusals = 0

-----------------------------------------------------------------------------
(* The outside.                                                            *)

Tick ==
  /\ phase = "idle"
  /\ \E t \in scenario.clock : now < t /\ now' = t
  /\ UNCHANGED <<scenario, rows, phase, newDataVars, pending, shutdown, history>>

Shutdown ==
  /\ scenario.stops /\ ~shutdown
  /\ shutdown' = TRUE
  /\ UNCHANGED <<scenario, now, rows, phase, newDataVars, pending, history>>

-----------------------------------------------------------------------------
(* A message: IncomingHandler::process stores what is interesting and      *)
(* calls newData.  A message here is one KvObsData with the data of one    *)
(* time and type; of a message with several, the code stores all before it *)
(* calls newData for each.  Back production, which calls newData with      *)
(* nothing stored before, is left to Daemon.                               *)

cacheData(m) == rows' = Put(rows, {d \in m : d.param \in Interesting})

Begin(m) ==
  /\ phase = "idle" /\ phase' = "newData"
  /\ cacheData(m)
  /\ message' = m /\ data' = m /\ accepted' = {} /\ stack' = <<>> /\ out' = <<>>
  /\ UNCHANGED <<scenario, now, shutdown, refusals>>

(* From a station.  The messages about our aggregates come before: the     *)
(* late ones are the subject of AggregationPipeline.                       *)
Receive ==
  /\ pending = <<>> /\ count < MaxMessages
  /\ \E m \in scenario.messages :
       /\ \A d \in m : d.time <= now
       /\ Begin(m)
  /\ count' = count + 1
  /\ UNCHANGED pending

(* From kvalobs, about our own aggregates.                                 *)
TakeEcho ==
  /\ pending # <<>>
  /\ Begin(Head(pending))
  /\ pending' = Tail(pending)
  /\ UNCHANGED count

-----------------------------------------------------------------------------
(* AggregatorHandler::process.                                             *)

inIncludeList(val, valList) == valList = {} \/ val \in valList

Allowed(d) ==
  /\ inIncludeList(d.param, scenario.parameters)
  /\ inIncludeList(scenario.station, scenario.stations)
  /\ inIncludeList(d.type, scenario.types)

(* The calls of process after one more, which returns at once if a filter  *)
(* refuses the datum.                                                      *)
Call(d, calls) == IF Allowed(d) THEN <<[datum |-> d, at |-> 1]>> \o calls ELSE calls

Processing == phase = "newData" /\ stack # <<>>
Datum == Head(stack).datum

(* The aggregators of a parameter, in the order they were added.           *)
Remaining ==
  {i \in DOMAIN Registered :
     i >= Head(stack).at /\ Datum.param \in Aggregators[Registered[i]].read}

(* Mutant: the iterator is not moved on when the aggregator is not interested. *)
GoOnNot(i) == <<[Head(stack) EXCEPT !.at = i]>> \o Tail(stack)

GoOn(i) == <<[Head(stack) EXCEPT !.at = i + 1]>> \o Tail(stack)

getRelevantObsList(h, d) ==
  UNION {Read(rows, p, d.type, span) : p \in Aggregators[h].read, span \in {TimeSpan(h, d.time)}}

(* The trigger is added if it is not there, and not updated if it is.      *)
WithTrigger(obs, d) == IF \E o \in obs : Key(o) = Key(d) THEN obs ELSE obs \cup {d}

Outcomes(h, d) ==
  UNION {Process(h, d, WithTrigger(obs, d), rows, scenario.metadata) : obs \in {getRelevantObsList(h, d)}}

(* The aggregator that is offered the datum next, if the program goes on.  *)
Offered == IF shutdown \/ Remaining = {} THEN {} ELSE {Min(Remaining)}

Uninterested ==
  /\ Processing
  /\ \E i \in Offered :
    /\ ~IsInterestedIn(Registered[i], Datum.time, now)
    /\ stack' = GoOn(i)
    /\ UNCHANGED <<scenario, now, rows, phase, message, data, accepted, out, pending, shutdown, history>>

NoAggregate ==
  /\ Processing
  /\ \E i \in Offered :
    /\ IsInterestedIn(Registered[i], Datum.time, now)
    /\ {} \in Outcomes(Registered[i], Datum)
    /\ stack' = GoOn(i)
    /\ UNCHANGED <<scenario, now, rows, phase, message, data, accepted, out, pending, shutdown, history>>

Aggregate ==
  /\ Processing
  /\ \E i \in Offered :
    /\ IsInterestedIn(Registered[i], Datum.time, now)
    /\ \E d \in UNION Outcomes(Registered[i], Datum) :
         out' = Append(out, d) /\ stack' = Call(d, GoOn(i))
    /\ UNCHANGED <<scenario, now, rows, phase, message, data, accepted, pending, shutdown, history>>

Return ==
  /\ Processing /\ Offered = {}
  /\ stack' = Tail(stack)
  /\ UNCHANGED <<scenario, now, rows, phase, message, data, accepted, out, pending, shutdown, history>>

-----------------------------------------------------------------------------
(* AggregatorHandler::newData and save, KvalobsProxy::sendData.            *)

newData ==
  /\ phase = "newData" /\ stack = <<>>
  /\ \E d \in data :
       /\ data' = data \ {d}
       /\ IF CompleteCheckDecider(d, message, rows, scenario.station)
          THEN accepted' = accepted \cup {d} /\ stack' = Call(d, <<>>)
          ELSE UNCHANGED <<accepted, stack>>
  /\ UNCHANGED <<scenario, now, rows, phase, message, out, pending, shutdown, history>>

Done == phase = "newData" /\ stack = <<>> /\ data = {}

End ==
  /\ phase' = "idle"
  /\ message' = {} /\ accepted' = {} /\ out' = <<>>
  /\ UNCHANGED <<data, stack>>

updatesKvalobs_(d) == \A r \in rows : Key(r) = Key(d) => different_(r, d)

(* What is sent of toSave, the last one counting where there are several.  *)
Sent ==
  LET news == {i \in DOMAIN out : out[i].param \in Interesting /\ updatesKvalobs_(out[i])}
  IN  {out[i] : i \in {j \in news : \A k \in news : k > j => Key(out[k]) # Key(out[j])}}

(* kvalobs makes a message of the data of one time and type.               *)
Grouped(S) == {{r \in S : r.time = s.time /\ r.type = s.type} : s \in S}

(* Mutant: what was saved is not heard of again. *)
saveUnheard ==
  /\ Done /\ ~shutdown
  /\ End
  /\ rows' = Put(rows, Sent)
  /\ UNCHANGED <<scenario, now, pending, shutdown, history>>

save ==
  /\ Done /\ ~shutdown
  /\ End
  /\ \E sent \in {Sent} :
       /\ rows' = Put(rows, sent)
       /\ \E order \in SetToSeqs(Grouped(sent)) : pending' = pending \o order
  /\ UNCHANGED <<scenario, now, shutdown, history>>

(* kvalobs refuses: save throws, the message is put back and processed     *)
(* again from the start.                                                   *)
saveRefused ==
  /\ Done /\ ~shutdown
  /\ Sent # {} /\ refusals < MaxRefusals
  /\ refusals' = refusals + 1
  /\ cacheData(message)
  /\ data' = message /\ accepted' = {} /\ out' = <<>>
  /\ UNCHANGED <<scenario, now, phase, message, stack, pending, shutdown, count>>

unsaved ==
  /\ Done /\ shutdown
  /\ End
  /\ UNCHANGED <<scenario, now, rows, pending, shutdown, history>>

process == Uninterested \/ NoAggregate \/ Aggregate \/ Return

Worker == TakeEcho \/ newData \/ process \/ save \/ unsaved

Next == Tick \/ Shutdown \/ Receive \/ Worker \/ saveRefused

Spec == Init /\ [][Next]_vars

(* The thread goes on as long as there is something to do.                 *)
FairSpec == Spec /\ WF_vars(Worker)

-----------------------------------------------------------------------------
(* Properties.                                                             *)

(* Types; and the store has one datum of each key, as the table data that  *)
(* CachedDataAccess::sendData inserts into and deletes from.               *)
TypeOK ==
  /\ scenario \in Scenarios /\ now \in scenario.clock
  /\ rows \subseteq Data /\ Cardinality({Key(r) : r \in rows}) = Cardinality(rows)
  /\ phase \in {"idle", "newData"}
  /\ accepted \subseteq message /\ data \subseteq message /\ message \subseteq Data
  /\ stack \in Seq([datum : Data, at : 1..(Len(Registered) + 1)])
  /\ out \in Seq(Data)
  /\ pending \in Seq(SUBSET Data)
  /\ shutdown \in BOOLEAN
  /\ count \in 0..MaxMessages /\ refusals \in 0..MaxRefusals

(* What stations observed is changed by what stations send and by nothing  *)
(* else: no aggregate, however it was computed, sent and sent back, takes  *)
(* the place of an observation (getDataObject negates the type).           *)
Observed(S) == {r \in S : r.type > 0}

ObservationsUntouched ==
  [][Observed(rows') = Observed(rows) \/ (phase = "idle" /\ count' = count + 1)]_vars

(* process calls itself for what it computed (AggregatorHandler.cc:147):   *)
(* never for data of a parameter and type it is already at work on, and    *)
(* only the outermost call is about an observation, so the calls end.      *)
CascadeEnds ==
  \A i, j \in DOMAIN stack : i < j =>
    /\ Negative(stack[i].datum)
    /\ <<stack[i].datum.param, stack[i].datum.type>> # <<stack[j].datum.param, stack[j].datum.type>>

(* Of the gauge and the hourly rain in one message exactly one is          *)
(* aggregated, whatever is stored and missing: both write RR_12.           *)
OneSource ==
  phase = "newData" /\ data = {} =>
    \A a, b \in message :
      a.param = RA /\ b.param = RR_1 /\ a.time = b.time /\ a.type = b.type
      => (a \in accepted <=> b \notin accepted)

(* The states in which everything that came has been worked off.           *)
Unfiltered == scenario.parameters = {} /\ scenario.stations = {} /\ scenario.types = {}
Quiet == phase = "idle" /\ pending = <<>> /\ ~shutdown /\ Unfiltered

Hourly(S, end, hours) == Times(S) = {end - n * Hour : n \in 0..(hours - 1)}

Stored(param, time, type, value(_)) ==
  \E a \in rows : Key(a) = <<param, time, type>> /\ \A field \in {"orig", "corr"} : a[field] = value(field)

OrMissing(S, field, value) == IF Missing \in Values(S, field) THEN Missing ELSE value

RainOf(S, field) ==
  LET rain == {r \in S : r[field] >= 0}
  IN  IF rain = {} THEN -10 ELSE MapThenSumSet(LAMBDA r : r[field], rain)

Expected(h, S, field) ==
  OrMissing(S, field,
    CASE h \in MinAggregators -> CHOOSE v \in Values(S, field) : \A r \in S : v <= r[field]
      [] h = "tax12" -> CHOOSE v \in Values(S, field) : \A r \in S : r[field] <= v
      [] h = "rr_12" -> RainOf(S, field)
      [] h = "ot_24" -> Total(S, field))

PeriodOf(h, r) == Read(rows, r.param, r.type, StandardSpan(h, r.time))
Whole(h, r) == Hourly(PeriodOf(h, r), GenerateTime(h, r.time), Aggregators[h].hours)

Follows(h, r) ==
  Stored(Aggregators[h].write, GenerateTime(h, r.time), -Abs(r.type),
         LAMBDA field : Expected(h, PeriodOf(h, r), field))

(* Whatever the order in which the observations of a period and their      *)
(* corrections come: in the end the extremes, and the sunshine, of every   *)
(* whole period are those of what is stored.                               *)
AggregatesFollow ==
  Quiet /\ scenario.station < ForeignStation =>
    \A h \in MinMaxAggregators \cup {"ot_24"}, r \in rows :
      r.param \in Aggregators[h].read /\ Whole(h, r) => Follows(h, r)

(* So is the rain of half a day, from observations or from what was itself *)
(* computed; and the rain of a day is the rain of its 24 hours, although   *)
(* it is computed from halves of which one may be stored in an older       *)
(* version while the other is being computed (AggregatorHandler.cc:134 and *)
(* 147): what kvalobs sends back of the halves mends it.  Of a gauge there  *)
(* must be no level in the period, nor in the eleven hours before it, that *)
(* RR1OverridesRADecider looks back at.                                    *)
RainFollows ==
  Quiet =>
    \A r \in {x \in rows : x.param = RR_1} :
      LET end  == GenerateTime("rr_24", r.time)
          span == <<end - Day, end>>
          S    == Read(rows, RR_1, r.type, span)
          gauged(within) == Read(rows, RA, r.type, <<within[1] - 11 * Hour, within[2]>>) # {}
      IN  /\ Whole("rr_12", r) /\ ~gauged(StandardSpan("rr_12", r.time)) => Follows("rr_12", r)
          /\ Hourly(S, end, 24) /\ ~gauged(span) =>
               Stored(RR_24, end, -Abs(r.type), LAMBDA field : OrMissing(S, field, RainOf(S, field)))

(* With a gauge that is never emptied, the rain of a half day is what the  *)
(* gauge rose by, whichever of the two levels came last or was corrected.  *)
Level(t, type, level) == \E r \in rows : Key(r) = <<RA, t, type>> /\ r.orig = level /\ r.corr = level

GaugeFollows ==
  Quiet =>
    \A p, r \in {x \in AtSixes(rows) : x.param = RA /\ x.orig = x.corr /\ valid(x)} :
      /\ r.type = p.type /\ r.time = p.time + 12 * Hour /\ p.orig <= r.orig
      /\ \A x \in ReadAt(rows, RA, p.type, p.time - 12 * Hour) :
           valid(x) /\ x.orig = x.corr /\ x.orig <= p.orig
      /\ \A x \in rows : x.param # RR_1
      => Stored(RR_12, r.time, -r.type, LAMBDA field : r.orig - p.orig)

(* The sea level pressure of a station of this country follows the         *)
(* pressure and temperature it is computed from, unless none was ever sent *)
(* because the reported one was within 0.305 hPa of it.                    *)
PoFollowsFrom(pr, ta, f) ==
  LET computed(field) == OrMissing({pr, ta}, field,
                           Round(ComputePo(pr[field], ta[field], f.um, f.tm, f.hp)))
  IN  \/ Stored(PO, pr.time, -pr.type, computed)
      \/ /\ ReadAt(rows, PO, -pr.type, pr.time) = {}
         /\ \E p \in ReadAt(rows, PO, pr.type, pr.time) :
              \A field \in {"orig", "corr"} : 1000 * Abs(p[field] - computed(field)) < 3050

PoFollows ==
  Quiet /\ scenario.station < ForeignStation =>
    \A pr, ta \in rows :
      pr.param = PR /\ ta.param = TA /\ pr.time = ta.time /\ pr.type = ta.type =>
        \A f \in PoFormulas(pr, scenario.metadata) : PoFollowsFrom(pr, ta, f)

(* A mean or an extreme lies among the values it was made from, the lowest *)
(* temperature counting among those of Koppen's mean.                      *)
Among(h) ==
  \A i \in DOMAIN out, field \in {"orig", "corr"} :
    LET a    == out[i]
        span == <<a.time - Aggregators[h].hours * Hour, a.time>>
        S    == {r \in rows : r.param \in Aggregators[h].read /\ r.type = -a.type /\ InSpan(r.time, span)}
        lows == IF h = "ta_24" THEN {r \in rows : r.param = TAN_12 /\ r.type = -a.type} ELSE {}
    IN  a.param = Aggregators[h].write /\ a[field] # Missing =>
          /\ \E r \in S \cup lows : r[field] # Missing /\ r[field] <= a[field]
          /\ \E r \in S \cup lows : r[field] # Missing /\ a[field] <= r[field]

InRange == \A h \in MinMaxAggregators \cup {"ta_24", "uu_24"} : Among(h)

(* Whatever comes and however often kvalobs refuses, the thread gets       *)
(* through with it, all that comes back from kvalobs included.             *)
WorkedOff == []<>(phase = "idle" /\ pending = <<>>)

-----------------------------------------------------------------------------
(* What a test and a comment of the repository say, and the code does not  *)
(* always do.                                                              *)

(* ra2rr_12_forward.h:41: "recalculations must be made forwards as well as *)
(* backwards in time"; and ra2rr_12ForwardTest.cc:149 expects from three   *)
(* levels what the aggregator backward in time makes of them.              *)
RaFollows ==
  Quiet =>
    \A r, p, q \in {x \in rows : x.param = RA /\ x.orig = x.corr /\ valid(x)} :
      /\ {r.type, p.type} = {q.type} /\ TimeOfDay(r.time) \in sixAmSixPm
      /\ p.time = r.time - 12 * Hour /\ q.time = r.time - Day
      => Stored(RR_12, r.time, -r.type, LAMBDA field : GaugeOfThree(r.orig, p.orig, q.orig))
=============================================================================
