----------------------------- MODULE CheckDecision -----------------------------
(***************************************************************************)
(* Whether a datum of a message should be aggregated at all: the deciders  *)
(* of checkDecision/.  Pure functions of the datum, of the message it came *)
(* in, and of the store.                                                   *)
(***************************************************************************)
EXTENDS Observations

(* StationRangeFilter: of stations abroad only precipitation.              *)
ForeignStation == 100000
precipitationParameters == {RA, RR_01, RR_1, RR_12, RR_24}

StationRangeFilter(d, station) ==
  ~(station >= ForeignStation /\ d.param \notin precipitationParameters)

(* RR1OverridesRADecider: rain from hourly measurements, or from the gauge *)
(* if that is all there is or if some hour is missing or rejected.         *)
LastHours(t) == <<t - 11 * Hour, t>>

rr1ShouldOverrideRa(d, rows) ==
  LET hourly == Read(rows, RR_1, d.type, LastHours(d.time))
      gauge  == Read(rows, RA, d.type, LastHours(d.time))
  IN  /\ hourly # {}
      /\ gauge # {} => \A r \in hourly : ~original_missing(r) /\ valid(r)

(* Mutant: hourly measurements are aggregated in any case. *)
RR1OverridesRADeciderForRa(d, message, rows) ==
  d.param = RA =>
    ~((\E o \in message : StationHasParamid(o, RR_1, d)) /\ rr1ShouldOverrideRa(d, rows))

RR1OverridesRADecider(d, message, rows) ==
  CASE d.param = RA ->
         ~((\E o \in message : StationHasParamid(o, RR_1, d)) /\ rr1ShouldOverrideRa(d, rows))
    [] d.param = RR_1 -> rr1ShouldOverrideRa(d, rows)
    [] OTHER -> TRUE

CompleteCheckDecider(d, message, rows, station) ==
  /\ StationRangeFilter(d, station)
  /\ RR1OverridesRADecider(d, message, rows)
=============================================================================
