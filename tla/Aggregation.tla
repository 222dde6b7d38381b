------------------------------ MODULE Aggregation ------------------------------
(***************************************************************************)
(* The aggregators, aggregator/: pure functions of a trigger, of the       *)
(* observations read for it, and of the clock.  main.cc names them as      *)
(* Aggregators does.                                                       *)
(*                                                                         *)
(* A list of observations is a set: its order, that of the database, is    *)
(* unspecified.  Where the code depends on it, every possible choice gives *)
(* an outcome of its own.  A kvDataPtr is a set of no or one datum.        *)
(***************************************************************************)
EXTENDS Observations, FiniteSetsExt, Sequences

CONSTANTS
  UseFlags(_, _),            \* kvUseInfo::setUseFlags of fmis and fagg: flags 2 and 3
  ComputePo(_, _, _, _, _)   \* the formula of po::computePo

(* Data, and sets of data as the table of data holds them and messages     *)
(* bring them: one for each key.                                           *)
Data == [param : Int, time : Int, type : Int, orig : Int, corr : Int, fagg : 0..11, ui : Seq(Int)]

OneForEachKey(S) ==
  /\ S \subseteq Data /\ IsFiniteSet(S)
  /\ \A a, b \in S : Key(a) = Key(b) => a = b

ASSUME UseFlagsAssumption ==
  \A fmis \in 0..4, fagg \in 0..11 : UseFlags(fmis, fagg) \in Seq(Int)

-----------------------------------------------------------------------------
(* The aggregators that main adds, and their order.                        *)

Standard(read, write, hours, when) ==
  [read |-> {read}, write |-> write, hours |-> hours, when |-> when]

Mean(read, write) == Standard(read, write, 24, elevenPm)

rr_1  == Standard(RR_01, RR_1, 1, allHours)
rr_12 == Standard(RR_1, RR_12, 12, sixAmSixPm)
rr_24 == Standard(RR_12, RR_24, 24, sixAm)
ra2rr_12 == Standard(RA, RR_12, 25, sixAmSixPm)
ta_24 == Mean(TA, TAM_24)
uu_24 == Mean(UU, UUM_24)
nn_24 == Mean(NN, NNM_24)
ot_24 == Standard(OT_1, OT_24, 24, midnight)
po == [read |-> {PR, TA, PO}, write |-> PO, hours |-> 0, when |-> {}]

Aggregators ==
  [tan12 |-> Standard(TAN, TAN_12, 12, sixAmSixPm),
   tax12 |-> Standard(TAX, TAX_12, 12, sixAmSixPm),
   tgn12 |-> Standard(TGN, TGN_12, 12, sixAmSixPm),
   rr_1 |-> rr_1, rr_12 |-> rr_12, rr_24 |-> rr_24, ra2rr_b |-> ra2rr_12, ra2rr_f |-> ra2rr_12,
   ta_24 |-> ta_24, uu_24 |-> uu_24, nn_24 |-> nn_24, po |-> po, ot_24 |-> ot_24]

Registered == <<"tan12", "tax12", "tgn12", "rr_1", "rr_12", "rr_24", "ra2rr_b",
                "ra2rr_f", "ta_24", "uu_24", "nn_24", "po", "ot_24">>

MinAggregators == {"tan12", "tgn12"}
MinMaxAggregators == MinAggregators \cup {"tax12"}
GaugeAggregators == {"ra2rr_b", "ra2rr_f"}

(* What AggregatorHandler::addHandler declares interesting.                *)
Interesting == UNION {a.read \cup {a.write} : a \in {Aggregators[h] : h \in DOMAIN Aggregators}}

-----------------------------------------------------------------------------
(* When: the time for which a datum takes part in an aggregate, the        *)
(* observations that go into it, and whether it is time yet.               *)

GenerateTime(h, t) ==
  Min({g \in {At(date, 0) + w : date \in {Date(t), Date(t) + 1}, w \in Aggregators[h].when} : t <= g})

StandardSpan(h, t) == <<GenerateTime(h, t) - Aggregators[h].hours * Hour, GenerateTime(h, t)>>

(* Mutant: forward is backward. *)
ForwardSpanBack(t) == StandardSpan("ra2rr_f", t)

ForwardSpan(t) ==
  LET span == StandardSpan("ra2rr_f", t) IN <<span[1] + 13 * Hour, span[2] + 12 * Hour>>

TimeSpan(h, t) ==
  CASE h = "po" -> <<t - 1, t>>   \* a second, within which no time lies
    [] h = "ra2rr_f" -> ForwardSpan(t)
    [] OTHER -> StandardSpan(h, t)

ResultTime(h, t) ==
  IF h = "po" THEN t ELSE LET end == TimeSpan(h, t)[2] IN end - (end % Hour)

IsInterestedIn(h, t, now) ==
  \/ h = "po"
  \/ TimeOfDay(t) \in sixAmSixPm
  \/ t >= now + 30
  \/ TimeSpan(h, t)[2] <= now + 30 + 2 * Hour

-----------------------------------------------------------------------------
(* Which: shouldProcess and extractUsefulData.  Useful is the set of the   *)
(* lists that may come out of both; none if there is no aggregate.         *)

Times(obs) == {o.time : o \in obs}
Clock(obs) == {TimeOfDay(t) : t \in Times(obs)}
AtSixes(obs) == {o \in obs : TimeOfDay(o.time) \in sixAmSixPm}
FullHours(obs) == {o \in obs : FullHour(o.time)}

Enough(h, obs) == Cardinality(obs) >= Aggregators[h].hours

WithinSpan(h, t, obs) == \A o \in obs : InSpan(o.time, TimeSpan(h, t))

BothSixes(t, obs) == TimeOfDay(t) \in sixAmSixPm /\ sixAmSixPm \subseteq Clock(obs)

GaugeReady(t, obs) == Cardinality(obs) > 1 /\ BothSixes(t, obs)

(* Two periods, or three; of two, the middle one must not be missing.      *)
GaugePeriods(sixes) ==
  \/ Cardinality(sixes) = 3
  \/ Cardinality(sixes) = 2 /\ Max(Times(sixes)) - Min(Times(sixes)) = 12 * Hour

MeanReady(obs) ==
  \/ Cardinality(obs) = 24
  \/ Cardinality(obs) = 8 /\ \A o \in obs : HourOf(o.time) % 3 = 0

(* Three observations, six hours apart, on the date of the first one in    *)
(* the list, which may be any; of several within an hour, the first one is *)
(* taken.  (Of an empty list the code asks for the first one nevertheless.)*)
offsetFrom6(t) == HourOf(t) % 6
KoppenHours(t) == {h + offsetFrom6(t) : h \in {6, 12, 18}}

Dates(obs) == {Date(s) : s \in Times(obs)}

matchingObsTimes(date, t, obs) == {At(date, h) : h \in KoppenHours(t)} \subseteq Times(obs)

KoppenReady(t, obs) ==
  /\ offsetFrom6(t) \in {0, 1}
  /\ offsetFrom6(t) = 1 => Cardinality(obs) = 3
  /\ \E date \in Dates(obs) : matchingObsTimes(date, t, obs)

KoppenUseful(t, obs) ==
  IF MeanReady(obs) THEN {obs}
  ELSE IF KoppenReady(t, obs)
       THEN {s \in kSubset(3, {o \in obs : HourOf(o.time) \in KoppenHours(t)}) :
               {HourOf(o.time) : o \in s} = KoppenHours(t)}
       ELSE {}

CloudTimes(t) == {At(Date(t), h) : h \in {6, 12, 18}}

CloudUseful(t, obs) == {o \in obs : o.time \in CloudTimes(t)}

Useful(h, t, obs) ==
  CASE h \in MinMaxAggregators -> {s \in {obs} : Enough(h, s) /\ WithinSpan(h, t, s)}
    [] h = "rr_1"  -> {obs}
    [] h = "rr_12" -> {s \in {obs} : Enough(h, s)}
    [] h = "rr_24" -> {s \in {AtSixes(obs)} : BothSixes(t, obs)}
    [] h \in GaugeAggregators -> {s \in {AtSixes(obs)} : GaugeReady(t, obs) /\ GaugePeriods(s)}
    [] h = "ta_24" -> KoppenUseful(t, FullHours(obs))
    [] h = "uu_24" -> KoppenUseful(t, obs)
    [] h = "nn_24" -> {s \in {CloudUseful(t, obs)} : Cardinality(obs) >= 3 /\ Cardinality(s) = 3}
    [] h = "ot_24" -> {s \in {FullHours(obs)} : Enough(h, s)}

(* Whether there may be none: with Koppen's formula also when the first    *)
(* observation in the list is of a date that lacks one of the three.  The  *)
(* full hours that ta_24 looks at are all of one date.                     *)
MayRefuse(h, t, obs) ==
  \/ Useful(h, t, obs) = {}
  \/ /\ h = "uu_24" /\ ~MeanReady(obs)
     /\ \E date \in Dates(obs) : ~matchingObsTimes(date, t, obs)

-----------------------------------------------------------------------------
(* What: calculate, as a fraction, of one field of the useful data.        *)

Values(obs, field) == {o[field] : o \in obs}
Total(obs, field) == MapThenSumSet(LAMBDA o : o[field], obs)

Extreme(h, obs, field) == IF h \in MinAggregators THEN Min(Values(obs, field)) ELSE Max(Values(obs, field))

RainOfParts(obs, field) == Total({o \in obs : o[field] > 0}, field)

RainSum(obs, field) ==
  LET measured == {o \in obs : o[field] >= 0}
  IN  IF measured = {} THEN -10 ELSE Total(measured, field)

(* Rain from the level of the gauge now, 12 hours ago, and, when the third *)
(* is known, 24 hours ago.                                                 *)
GaugeOfTwo(level, half) == IF level - half <= 0 THEN 0 ELSE level - half

GaugeOfThree(level, half, day) ==
  IF level - half <= 0 THEN 0
  ELSE IF half - day <= -1000 THEN level - half
  ELSE IF level - day <= 0 THEN 0
  ELSE IF half - day > 0 THEN level - half ELSE level - day

GaugeRain(obs, field) ==
  LET level(hours) == (CHOOSE o \in obs : o.time = Max(Times(obs)) - hours * Hour)[field]
  IN  IF Cardinality(obs) = 2 THEN GaugeOfTwo(level(0), level(12))
      ELSE GaugeOfThree(level(0), level(12), level(24))

(* Mutant: every day has 24 observations. *)
AverageOfAllHours(obs, field) == <<Total(obs, field), 24>>

Average(obs, field) == <<Total(obs, field), Cardinality(obs)>>

CloudAverage(obs, field) ==
  <<MapThenSumSet(LAMBDA o : IF o[field] = 90 THEN 80 ELSE o[field], obs), Cardinality(obs)>>

(* Koppen's formulas.  The factor counts in hundredths.                    *)
TemperatureKoppen(obs, field, factor, low) ==
  <<100 * Total(obs, field) - factor * (Total(obs, field) - 3 * low), 300>>

WindKoppen(obs, field, factor) ==
  LET noon == {o \in obs : \E p, q \in obs : p.time < o.time /\ o.time < q.time}
      sides == Total(obs \ noon, field)
  IN  <<100 * sides + factor * (2 * Total(noon, field) - sides), 200>>

(* To the nearest tenth, half away from zero.                              *)
Round(fraction) ==
  LET half == (2 * Abs(fraction[1]) + fraction[2]) \div (2 * fraction[2])
  IN  IF fraction[1] < 0 THEN -half ELSE half

Calculate(h, obs, field, extra) ==
  CASE h \in MinMaxAggregators -> <<Extreme(h, obs, field), 1>>
    [] h = "rr_1" -> <<RainOfParts(obs, field), 1>>
    [] h \in {"rr_12", "rr_24"} -> <<RainSum(obs, field), 1>>
    [] h \in GaugeAggregators -> <<GaugeRain(obs, field), 1>>
    [] h = "ta_24" /\ Cardinality(obs) = 3 -> TemperatureKoppen(obs, field, extra.factor, extra.low[field])
    [] h = "uu_24" /\ Cardinality(obs) = 3 -> WindKoppen(obs, field, extra.factor)
    [] h \in {"ta_24", "uu_24"} /\ Cardinality(obs) # 3 -> Average(obs, field)
    [] h = "nn_24" -> CloudAverage(obs, field)
    [] h = "ot_24" -> <<Total(obs, field), 1>>

-----------------------------------------------------------------------------
(* Station metadata: getStationMetadata returns the first of the most      *)
(* specific ones that are compatible, and throws if there is none.  An     *)
(* entry names the parameter and type it is for; 0 is any.                 *)

MetadataEntries == [name : STRING, param : Int, type : Int, value : Int, from : Int, to : Int]

compatible(entry, name, param, t, type) ==
  /\ entry.name = name
  /\ entry.from <= t /\ t <= entry.to
  /\ entry.param \in {0, param}
  /\ entry.type \in {0, type}

specificCount(entry) == Cardinality({f \in {"param", "type"} : entry[f] # 0})

GetStationMetadata(metadata, name, param, t, type) ==
  LET fit == {i \in DOMAIN metadata : compatible(metadata[i], name, param, t, type)}
      best == {i \in fit : \A j \in fit : specificCount(metadata[j]) <= specificCount(metadata[i])}
  IN  IF best = {} THEN {} ELSE {metadata[Min(best)].value}

-----------------------------------------------------------------------------
(* The datum that comes out: getDataObject and its flags.                  *)

getFmis(flags) ==
  CASE 3 \in flags \/ {1, 2} \subseteq flags -> 3
    [] 1 \in flags /\ {2, 3} \cap flags = {} -> 1
    [] 2 \in flags /\ {1, 3} \cap flags = {} -> 2
    [] 4 \in flags /\ {1, 2, 3} \cap flags = {} -> 4
    [] flags \subseteq {0} -> 0

(* The first of the rules that applies.                                    *)
AggregateFlagRules(fmis, ui2, ui3) ==
  << <<fmis = 2, 11>>,
     <<fmis = 1 /\ 4 \in ui3, 7>>,
     <<fmis = 4 /\ 3 \in ui3, 6>>,
     <<fmis \in {1, 4} /\ 6 \in ui3, 9>>,
     <<fmis = 1 /\ 2 \in ui3, 5>>,
     <<fmis = 4 /\ 1 \in ui3, 4>>,
     <<fmis \in {1, 4} /\ 5 \in ui3, 8>>,
     <<fmis \in {1, 3, 4}, 0>>,
     <<9 \in ui2, 0>>,
     <<2 \in ui2, 3>>,
     <<1 \in ui2, 2>>,
     <<TRUE, 1>> >>

FirstThatApplies(rules) == rules[Min({i \in DOMAIN rules : rules[i][1]})][2]

calculateAggregateFlag(sources) ==
  LET fmis == {getFmis({Fmis(o.orig, o.corr) : o \in sources})}
      ui(n) == {{o.ui[n] : o \in sources}}
  IN  Max({FirstThatApplies(AggregateFlagRules(f, ui2, ui3)) : f \in fmis, ui2 \in ui(1), ui3 \in ui(2)})

(* Mutant: the type keeps its sign, and the aggregate looks observed. *)
NegatedNot(type) == type

Negated(type) == IF type > 0 THEN -type ELSE type

getDataObject(h, d, orig, corr, sources) ==
  LET fagg == calculateAggregateFlag(sources)
  IN  [param |-> Aggregators[h].write, time |-> ResultTime(h, d.time), type |-> Negated(d.type),
       orig |-> orig, corr |-> corr, fagg |-> fagg, ui |-> UseFlags(Fmis(orig, corr), fagg)]

-----------------------------------------------------------------------------
(* StandardAggregator::process.                                            *)

AllOriginal(sources) == \A o \in sources : ~original_missing(o)
AllValid(sources) == \A o \in sources : valid(o)

(* The lowest temperatures of the trigger's date: the first and the last   *)
(* of the TAN_12 found, in either version missing if one of them is.       *)
LowestOf(a, b) ==
  [orig |-> IF original_missing(a) \/ original_missing(b) THEN Missing ELSE Min({a.orig, b.orig}),
   corr |-> IF valid(a) /\ valid(b) THEN Min({a.corr, b.corr}) ELSE Missing]

MinimumTemperatures(d, rows) ==
  LET lows == {r \in rows : /\ r.param = TAN_12 /\ r.type = d.type
                            /\ At(Date(d.time), 6) <= r.time /\ r.time <= At(Date(d.time), 18)}
  IN  {LowestOf(p[1], p[2]) : p \in {q \in lows \X lows : q[1] # q[2]}}

(* koppen_01 to koppen_12: the month is a matter of the calendar, so one   *)
(* name does.                                                              *)
Extras(h, d, useful, rows, metadata) ==
  IF h \notin {"ta_24", "uu_24"} \/ Cardinality(useful) # 3
  THEN {[factor |-> 0, low |-> LowestOf([orig |-> 0, corr |-> 0], [orig |-> 0, corr |-> 0])]}
  ELSE {[factor |-> f, low |-> low] :
          f \in GetStationMetadata(metadata, "koppen", d.param, d.time, d.type),
          low \in IF h = "ta_24" THEN MinimumTemperatures(d, rows)
                  ELSE {[orig |-> 0, corr |-> 0]}}

(* Mutant: what is missing is left out of the calculation. *)
ValueOfTheRest(h, useful, field, extra) ==
  LET rest == {o \in useful : o[field] # Missing}
  IN  IF rest = {} \/ extra.low[field] = Missing THEN Missing
      ELSE Round(Calculate(h, rest, field, extra))

ValueOf(h, useful, field, extra) ==
  IF Missing \in Values(useful, field) \/ extra.low[field] = Missing THEN Missing
  ELSE Round(Calculate(h, useful, field, extra))

(* calculate, and with it whatever it throws, runs only for a version that *)
(* is complete.                                                            *)
Aggregated(h, d, useful, rows, metadata) ==
  LET extras == Extras(h, d, useful, rows, metadata)
  IN  IF ~AllOriginal(useful) /\ ~AllValid(useful)
      THEN {{getDataObject(h, d, Missing, Missing, useful)}}
      ELSE IF extras = {} THEN {{}}
      ELSE {{getDataObject(h, d, ValueOf(h, useful, "orig", e), ValueOf(h, useful, "corr", e), useful)}
              : e \in extras}

StandardProcess(h, d, obs, rows, metadata) ==
  {s \in {{}} : MayRefuse(h, d.time, obs)}
  \cup UNION {Aggregated(h, d, useful, rows, metadata) : useful \in Useful(h, d.time, obs)}

-----------------------------------------------------------------------------
(* po::process.                                                            *)

(* The formula with the metadata it needs: "VS" for two parameters that    *)
(* are no data, and "hp" for the datum itself.                             *)
PoFormulas(d, metadata) ==
  {[um |-> um, tm |-> tm, hp |-> hp] :
     um \in GetStationMetadata(metadata, "VS", UM_VS, d.time, d.type),
     tm \in GetStationMetadata(metadata, "VS", TM_VS, d.time, d.type),
     hp \in GetStationMetadata(metadata, "hp", d.param, d.time, d.type)}

getData(param, t, obs) == {o \in obs : o.param = param /\ o.time = t}

PoValue(pr, ta, field, f) ==
  IF Missing \in {pr[field], ta[field]} THEN Missing
  ELSE Round(ComputePo(pr[field], ta[field], f.um, f.tm, f.hp))

PoDataObject(d, pr, ta, f) ==
  getDataObject("po", d, PoValue(pr, ta, "orig", f), PoValue(pr, ta, "corr", f), {pr, ta})

(* The aggregates there may be of the observations of one time.            *)
ComputedPo(d, obs, metadata) ==
  {PoDataObject(d, pr, ta, f) :
     pr \in getData(PR, d.time, obs), ta \in getData(TA, d.time, obs), f \in PoFormulas(d, metadata)}

(* Less than 0.305: at most three tenths.                                  *)
NoEssentialDifference(a, b) == Abs(a.corr - b.corr) <= 3 /\ Abs(a.orig - b.orig) <= 3

(* Mutant: near the reported value nothing is sent, whatever was sent before. *)
ReportWillDoAlways(d, obs, rows, computed) ==
  \E reported \in getData(PO, d.time, obs) : NoEssentialDifference(reported, computed)

ReportWillDo(d, obs, rows, computed) ==
  /\ ReadAt(rows, PO, -Abs(d.type), d.time) = {}
  /\ \E reported \in getData(PO, d.time, obs) : NoEssentialDifference(reported, computed)

PoProcess(d, obs, rows, metadata) ==
  LET computed == ComputedPo(d, obs, metadata)
  IN  IF computed = {} THEN {{}}
      ELSE {{c} \ {x \in {c} : ReportWillDo(d, obs, rows, x)} : c \in computed}

Process(h, d, obs, rows, metadata) ==
  IF h = "po" THEN PoProcess(d, obs, rows, metadata)
  ELSE StandardProcess(h, d, obs, rows, metadata)
=============================================================================
