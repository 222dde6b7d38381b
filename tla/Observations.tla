------------------------------ MODULE Observations ------------------------------
(***************************************************************************)
(* Observations as the aggregators see them: kvalobs::kvData, the          *)
(* parameters of paramID.h, the times of times.h, the predicates of        *)
(* KvDataFunctors, and the store that data are read from and put into.     *)
(*                                                                         *)
(* Only data of one station, sensor and level ever meet, as every request  *)
(* names them, so a datum is known by its parameter, time and type.  Times *)
(* count in minutes and values in tenths, the precision of kvalobs.        *)
(***************************************************************************)
EXTENDS Integers, FiniteSets

(* The parameters: paramID.h.                                              *)
RR_01 == 105
RR_1 == 106
RR_12 == 109
RR_24 == 110
RA == 104
TA == 211
TAM_24 == 253
TAN == 213
TAN_12 == 214
TAX == 215
TAX_12 == 216
TGN == 223
TGN_12 == 224
UU == 262
UUM_24 == 266
NN == 15
NNM_24 == 16
PO == 173
PR == 178
UM_VS == 284
TM_VS == 285
OT_1 == 121
OT_24 == 122

(* Times: a day has 1440 minutes, and the sets of times.h.                 *)
Hour == 60
Day == 24 * Hour
TimeOfDay(t) == t % Day
Date(t) == t \div Day
HourOf(t) == TimeOfDay(t) \div Hour
FullHour(t) == t % Hour = 0
At(date, hour) == date * Day + hour * Hour

allHours == {h * Hour : h \in 0..23}
sixAmSixPm == {6 * Hour, 18 * Hour}
sixAm == {6 * Hour}
elevenPm == {23 * Hour}
midnight == {0}

(* A value that is missing or rejected, -32767.                            *)
Missing == -327670

original_missing(d) == d.orig = Missing
valid(d) == d.corr # Missing

(* The missing flag of the control information that reject and correct set *)
(* and that kvalobs gives observations.                                    *)
Fmis(orig, corr) ==
  CASE orig = Missing /\ corr = Missing -> 3
    [] orig = Missing /\ corr # Missing -> 1
    [] orig # Missing /\ corr = Missing -> 2
    [] orig # Missing /\ corr # Missing -> IF orig = corr THEN 0 ELSE 4

Abs(n) == IF n < 0 THEN -n ELSE n

(* What tells one datum from another: same_kvData, uniqueKey.              *)
Key(d) == <<d.param, d.time, d.type>>

StationHasParamid(d, paramid, o) == d.param = paramid /\ d.type = o.type

(* Would kvalobs learn something from b if it has a?                       *)
different_(a, b) ==
  \/ a.corr # b.corr
  \/ a.orig # b.orig
  \/ <<a.fagg, Fmis(a.orig, a.corr)>> # <<b.fagg, Fmis(b.orig, b.corr)>>

(* Mutant: what is there is not replaced. *)
PutBeside(rows, new) == rows \cup new

(* The store after data with different keys were inserted or have replaced *)
(* what had their keys.                                                    *)
Put(rows, new) == {r \in rows : \A n \in new : Key(n) # Key(r)} \cup new

(* Requests for one parameter and type within (first, second].             *)
InSpan(t, span) == span[1] < t /\ t <= span[2]

Read(rows, param, type, span) ==
  {r \in rows : r.param = param /\ r.type = type /\ InSpan(r.time, span)}

ReadAt(rows, param, type, time) ==
  {r \in rows : Key(r) = <<param, time, type>>}
=============================================================================
