-------------------------- MODULE MCAggregatorHandler --------------------------
(* AggregatorHandler for TLC: stations with the observations they send.    *)
EXTENDS AggregatorHandler

CONSTANT Names   \* the scenarios of a run

(* Stand-ins: the real ones are in kvalobs and in floating point.          *)
MCUseFlags(fmis, fagg) ==
  << CASE fmis = 3 -> 9 [] fmis \in {1, 4} -> 2 [] OTHER -> IF fagg = 3 THEN 1 ELSE 0,
     CASE fmis = 1 -> 4 [] fmis = 4 -> 3 [] fmis = 2 -> 6 [] OTHER -> 0 >>
MCComputePo(pr, ta, um, tm, hp) == <<2 * pr + 2 * hp - ta + um + tm, 2>>

Version(p, t, orig, corr) ==
  [param |-> p, time |-> t, type |-> 4, orig |-> orig, corr |-> corr, fagg |-> 0,
   ui |-> MCUseFlags(Fmis(orig, corr), 0)]
Value(p, t, v) == Version(p, t, v, v)
Of(type, S) == {[d EXCEPT !.type = type] : d \in S}
Each(S) == {{d} : d \in S}

Metadata(name, param, type, value) ==
  [name |-> name, param |-> param, type |-> type, value |-> value, from |-> 0, to |-> At(20, 0)]

Plain(before, messages, clock) ==
  [station |-> 1, before |-> before, messages |-> messages, clock |-> clock, metadata |-> <<>>,
   parameters |-> {}, stations |-> {}, types |-> {}, stops |-> FALSE]

(* Observations from day 10 at 19 to day 11 at 6 and the like.             *)
Hours(p, first, last, v) == {Value(p, At(10, h), v) : h \in first..last}
Six == At(11, 6)
Eighteen == At(10, 18)
EarlyMorning == Six + 5
Evening == Eighteen + 5

Morning24 == Hours(RR_1, 7, 17, -10) \cup Hours(RR_1, 19, 29, -10)

Rain == Plain(Morning24,
  Each({Value(RR_1, Eighteen, -10), Value(RR_1, Eighteen, 7), Value(RR_1, Six, 12),
        Version(RR_1, Six, 12, Missing)}), {EarlyMorning})

GaugeRise == Plain({Value(RA, At(10, 6), 1000)},
  Each({Value(RA, At(10, 6), 1000), Value(RA, At(10, 6), 1010), Value(RA, Eighteen, 1010),
        Value(RA, Eighteen, 1025), Value(RA, Six, 1040)}), {At(10, 6), Evening, EarlyMorning})

GaugeFalls == Plain({},
  Each({Value(RA, At(10, 6), 200), Value(RA, Eighteen, 195), Value(RA, Six, 199)}), {Evening, EarlyMorning})

BothSources == Plain(Hours(RR_1, 19, 28, 3) \cup {Value(RA, Eighteen, 1000)},
  {{Value(RA, Six, 1040), Value(RR_1, Six, 4)}, {Value(RA, Six, 1040), Version(RR_1, Six, Missing, 4)},
   {Value(RR_1, At(11, 5), 3)}, {Version(RR_1, At(11, 5), 3, Missing)}}, {EarlyMorning})

Extremes == Plain(UNION {Hours(p, 19, 29, 20 + p) : p \in {TAN, TAX, TGN}},
  {{Value(TAN, Six, 10), Value(TAX, Six, 300), Value(TGN, Six, -20)}}
  \cup Each({Value(TAN, At(11, 2), -33), Version(TAN, At(11, 2), -33, Missing), Value(TAX, At(11, 2), 400),
        Version(TGN, Six, -20, 5)}), {EarlyMorning})

Sunshine == Plain(Hours(OT_1, 1, 23, 600) \cup {Value(OT_1, At(10, 23) + 30, 5)},
  Each({Value(OT_1, At(11, 0), 0), Value(OT_1, At(10, 13), Missing), Value(OT_1, At(10, 13), 90)}),
  {At(11, 0) + 5})

(* From parts of an hour to a day.                                         *)
Cascade == Plain(Of(-4, Hours(RR_1, 19, 29, 1)) \cup Of(-4, {Value(RR_12, Eighteen, -10)}),
  Each({Value(RR_01, Six - 10, 5), Value(RR_01, Six, 6), Value(RR_01, Six, 0)}), {EarlyMorning})

Koppen(p, values) == {Value(p, At(10, h), values[h]) : h \in DOMAIN values}

Temperature == [Plain(
  Koppen(TA, (6 :> 31) @@ (12 :> 90)) \cup Koppen(TAN_12, (6 :> 12) @@ (18 :> 40))
  \cup Of(5, {Value(TA, At(10, 3 * n), 100 + 10 * n) : n \in 0..6} \cup {Value(TA, At(10, 4) + 10, 155)}),
  Each({Value(TA, Eighteen, 50), Value(TA, At(10, 12), -15), Version(TA, At(10, 12), 90, Missing)}
       \cup Of(5, {Value(TA, At(10, 21), 161)})), {Evening, At(10, 21)})
  EXCEPT !.metadata = <<Metadata("koppen", 0, 0, 40), Metadata("koppen", TA, 0, 15)>>]

WindAndClouds == [Plain(
  Koppen(UU, (6 :> 31) @@ (12 :> 90)) \cup Koppen(NN, (6 :> 90) @@ (12 :> 20))
  \cup {Value(UU, At(9, 23) + 30, 44), Value(UU, At(10, 6) + 30, 55)},
  Each({Value(UU, Eighteen, 51), Value(UU, Eighteen, 20), Value(NN, Eighteen, 80), Value(NN, At(10, 12), 90)}),
  {Evening, At(10, 21)}) EXCEPT !.metadata = <<Metadata("koppen", 0, 0, 30), Metadata("koppen", 0, 0, 50)>>]

Pressure == [Plain({},
  {{Value(PR, Six, 9900), Value(TA, Six, 50)}} \cup
  Each({Version(PR, Six, 9900, 9911), Value(PR, Six, 9902), Value(PO, Six, 9978), Value(PO, Six, 9995), Value(TA, Six, 50),
        Value(TA, Six, Missing)}), {EarlyMorning})
  EXCEPT !.metadata = <<Metadata("VS", UM_VS, 0, 6), Metadata("hp", 0, 0, 900),
                        Metadata("VS", TM_VS, 0, 1), Metadata("hp", 0, 4, 100)>>]

Abroad == [Plain(Hours(RR_1, 19, 29, 3) \cup Of(-4, {Value(RR_12, Eighteen, 5)}),
  {{Value(TA, Six, 5), Value(PR, Six, 9900)}, {Value(RR_1, Six, 4), Value(TAN, Six, 3)}}, {EarlyMorning})
  EXCEPT !.station = 100001]

(* With filters, and with a program that may be told to stop.              *)
FilteredRain == [Rain EXCEPT !.types = {4}, !.stops = TRUE]
FilteredAway == [Cascade EXCEPT !.parameters = {RR_01}, !.stations = {1, 2}]

SevenThirteenNineteen == [Plain({},
  Each({Value(UU, At(10, h), 31) : h \in {7, 13, 19}}), {At(10, h) + 5 : h \in {7, 13, 19, 25}})
  EXCEPT !.metadata = <<Metadata("koppen", 0, 0, 30)>>]

MCScenarios ==
  {CASE n = "rain" -> Rain [] n = "gauge" -> GaugeRise [] n = "falls" -> GaugeFalls
     [] n = "both" -> BothSources [] n = "extremes" -> Extremes [] n = "sunshine" -> Sunshine
     [] n = "cascade" -> Cascade [] n = "temperature" -> Temperature [] n = "wind" -> WindAndClouds
     [] n = "pressure" -> Pressure [] n = "abroad" -> Abroad [] n = "types" -> FilteredRain
     [] n = "parameters" -> FilteredAway [] n = "seven" -> SevenThirteenNineteen : n \in Names}
=============================================================================
