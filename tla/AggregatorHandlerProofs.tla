------------------------ MODULE AggregatorHandlerProofs ------------------------
(***************************************************************************)
(* Theorems about AggregatorHandler for every set of scenarios, every      *)
(* station and clock, and whatever the formulas of the aggregators yield.  *)
(***************************************************************************)
EXTENDS AggregatorHandler, TLAPS, FiniteSetTheorems, SequenceTheorems

-----------------------------------------------------------------------------
(* What the aggregators read and write.                                    *)

Names == {"tan12", "tax12", "tgn12", "rr_1", "rr_12", "rr_24", "ra2rr_b",
          "ra2rr_f", "ta_24", "uu_24", "nn_24", "po", "ot_24"}

(* How far a parameter is from being observed.                             *)
Rank(param) ==
  IF param = RR_24 THEN 4
  ELSE IF param = RR_12 THEN 3
  ELSE IF param \in {TAN_12, TAX_12, TGN_12, RR_1, TAM_24, UUM_24, NNM_24, PO, OT_24} THEN 2
  ELSE 1

(* The aggregators that are registered are these.                          *)
LEMMA RegisteredNames ==
  ASSUME NEW i \in DOMAIN Registered
  PROVE  i \in 1..13 /\ Registered[i] \in Names
BY DEF Registered, Names

(* Every aggregator writes a parameter further from being observed than    *)
(* those it reads, but for po, which reads what it writes as well.         *)
LEMMA WritesAbove ==
  ASSUME NEW h \in Names, NEW p \in Aggregators[h].read
  PROVE  /\ Aggregators[h].write # PR
         /\ \/ Rank(p) < Rank(Aggregators[h].write)
            \/ h = "po" /\ p = PO /\ Aggregators[h].write = PO
BY DEF Names, Aggregators, Standard, Mean, rr_1, rr_12, rr_24, ra2rr_12, ta_24, uu_24, nn_24, ot_24, po,
       Rank, RR_01, RR_1, RR_12, RR_24, RA, TA, TAM_24, TAN, TAN_12, TAX, TAX_12, TGN, TGN_12,
       UU, UUM_24, NN, NNM_24, PO, PR, OT_1, OT_24

(* A set of positions in the list of aggregators has a first one.          *)
LEMMA FirstExists ==
  ASSUME NEW S \in SUBSET (1..13), S # {}
  PROVE  Min(S) \in S
<1> DEFINE Less == {p \in Nat \X Nat : p[1] < p[2]}
<1>1. IsWellFoundedOn(Less, Nat)
  BY NatLessThanWellFounded DEF OpToRel
<1>2. S \subseteq Nat
  OBVIOUS
<1> HIDE DEF Less
<1>3. \E x \in S : \A y \in S : ~(<<y, x>> \in Less)
  BY <1>1, <1>2, WFMin
<1>4. \E x \in S : \A y \in S : x <= y
  BY <1>2, <1>3 DEF Less
<1> QED BY <1>4 DEF Min
-----------------------------------------------------------------------------
(* What comes out of an aggregator, whatever it was computed from.         *)

IsAggregate(a, h, d) == a.param = Aggregators[h].write /\ a.type = Negated(d.type)

LEMMA DataObjectIsAggregate ==
  ASSUME NEW h, NEW d, NEW orig, NEW corr, NEW sources
  PROVE  IsAggregate(getDataObject(h, d, orig, corr, sources), h, d)
BY DEF getDataObject, IsAggregate

LEMMA AggregatedIsAggregate ==
  ASSUME NEW h, NEW d, NEW useful, NEW stored, NEW metadata,
         NEW s \in Aggregated(h, d, useful, stored, metadata), NEW a \in s
  PROVE  IsAggregate(a, h, d)
<1>1. \E orig, corr : a = getDataObject(h, d, orig, corr, useful)
  BY DEF Aggregated
<1> QED BY <1>1, DataObjectIsAggregate

LEMMA StandardIsAggregate ==
  ASSUME NEW h, NEW d, NEW obs, NEW stored, NEW metadata,
         NEW s \in StandardProcess(h, d, obs, stored, metadata), NEW a \in s
  PROVE  IsAggregate(a, h, d)
<1>1. \E useful : s \in Aggregated(h, d, useful, stored, metadata)
  BY DEF StandardProcess
<1> QED BY <1>1, AggregatedIsAggregate

(* po computes from an observation of the pressure.                        *)
LEMMA PoIsAggregate ==
  ASSUME NEW d, NEW obs, NEW stored, NEW metadata,
         NEW s \in PoProcess(d, obs, stored, metadata), NEW a \in s
  PROVE  IsAggregate(a, "po", d) /\ \E o \in obs : o.param = PR
<1>1. a \in ComputedPo(d, obs, metadata)
  BY DEF PoProcess
<1>2. PICK pr \in getData(PR, d.time, obs), ta \in getData(TA, d.time, obs), f \in PoFormulas(d, metadata) :
        a = PoDataObject(d, pr, ta, f)
  BY <1>1 DEF ComputedPo
<1>3. IsAggregate(a, "po", d)
  BY <1>2, DataObjectIsAggregate DEF PoDataObject
<1>4. \E o \in obs : o.param = PR
  BY <1>2 DEF getData
<1> QED BY <1>3, <1>4

LEMMA ProcessIsAggregate ==
  ASSUME NEW h, NEW d, NEW obs, NEW stored, NEW metadata,
         NEW s \in Process(h, d, obs, stored, metadata), NEW a \in s
  PROVE  IsAggregate(a, h, d) /\ (h = "po" => \E o \in obs : o.param = PR)
<1>1. CASE h = "po"
  BY <1>1, PoIsAggregate DEF Process
<1>2. CASE h # "po"
  BY <1>2, StandardIsAggregate DEF Process
<1> QED BY <1>1, <1>2

(* The observations for a datum have its type.                             *)
LEMMA ObservationsOfOneType ==
  ASSUME NEW h, NEW d, NEW o \in WithTrigger(getRelevantObsList(h, d), d)
  PROVE  o = d \/ (o \in rows /\ o.type = d.type)
<1>1. CASE o \in getRelevantObsList(h, d)
  <2>1. \E p, span : o \in Read(rows, p, d.type, span)
    BY <1>1 DEF getRelevantObsList
  <2> QED BY <2>1 DEF Read
<1>2. CASE o = d
  BY <1>2
<1> QED BY <1>1, <1>2 DEF WithTrigger

-----------------------------------------------------------------------------
(* Calls of process.                                                       *)

(* The inner datum is an aggregate of what was made of the outer one, or   *)
(* po's of the pressure that was reported.                                 *)
Below(inner, outer) ==
  /\ Negative(inner)
  /\ \/ Rank(outer.param) < Rank(inner.param)
     \/ inner.param = outer.param /\ ~Negative(outer)

IsCall(c) == c = [datum |-> c.datum, at |-> c.at] /\ Proper(c.datum) /\ c.at \in Nat

IsList(s) == s \in Seq(Range(s))

Nested(calls) == \A i, j \in DOMAIN calls : i < j => Below(calls[i].datum, calls[j].datum)

Calls(calls) ==
  /\ IsList(calls)
  /\ \A i \in DOMAIN calls : IsCall(calls[i])
  /\ Nested(calls)

(* Ranks are numbers, and Below is transitive.                             *)
LEMMA BelowTransitive ==
  ASSUME NEW a, NEW b, NEW c, Below(a, b), Below(b, c)
  PROVE  Below(a, c)
<1>1. Rank(a.param) \in Int /\ Rank(b.param) \in Int /\ Rank(c.param) \in Int
  BY DEF Rank
<1> HIDE DEF Rank
<1> QED BY <1>1 DEF Below

(* A sequence over any set is one over its range.                          *)
LEMMA SeqIsList ==
  ASSUME NEW S, NEW s \in Seq(S)
  PROVE  IsList(s)
BY DEF IsList, Range

LEMMA EmptyCalls == Calls(<<>>)
<1>1. <<>> \in Seq({}) /\ DOMAIN <<>> = {}
  OBVIOUS
<1>2. IsList(<<>>)
  BY <1>1, SeqIsList
<1> QED BY <1>1, <1>2 DEF Calls, Nested

LEMMA TailCalls ==
  ASSUME NEW s, Calls(s), s # <<>>
  PROVE  Calls(Tail(s))
<1> DEFINE t == Tail(s)
<1>1. s \in Seq(Range(s))
  BY DEF Calls, IsList
<1>2. t \in Seq(Range(s)) /\ Len(s) \in Nat /\ DOMAIN t = 1..(Len(s) - 1)
      /\ DOMAIN s = 1..Len(s) /\ \A i \in DOMAIN t : t[i] = s[i + 1]
  BY <1>1
<1>3. IsList(t)
  BY <1>2, SeqIsList
<1>4. \A i \in DOMAIN t : IsCall(t[i])
  BY <1>2 DEF Calls
<1>5. Nested(t)
  BY <1>2 DEF Calls, Nested
<1> QED BY <1>3, <1>4, <1>5 DEF Calls

(* One call more, of a datum below the innermost one.                      *)
LEMMA MoreCalls ==
  ASSUME NEW s, Calls(s), NEW c, IsCall(c), s # <<>> => Below(c.datum, Head(s).datum)
  PROVE  Calls(<<c>> \o s)
<1> DEFINE t == <<c>> \o s
           S == Range(s) \cup {c}
<1>1. s \in Seq(Range(s)) /\ Len(s) \in Nat /\ DOMAIN s = 1..Len(s)
  BY DEF Calls, IsList
<1>2. s \in Seq(S) /\ <<c>> \in Seq(S)
  BY <1>1
<1>3. /\ t \in Seq(S) /\ DOMAIN t = 1..(Len(s) + 1) /\ t[1] = c
      /\ \A i \in DOMAIN t : i # 1 => i - 1 \in DOMAIN s /\ t[i] = s[i - 1]
  <2> HIDE DEF S
  <2> QED BY <1>1, <1>2
<1>4. IsList(t)
  BY <1>3, SeqIsList
<1>5. \A i \in DOMAIN t : IsCall(t[i])
  BY <1>3 DEF Calls
<1>6. \A j \in DOMAIN s : Below(c.datum, s[j].datum)
  <2> SUFFICES ASSUME NEW j \in DOMAIN s
               PROVE  Below(c.datum, s[j].datum)
    OBVIOUS
  <2>1. s # <<>> /\ 1 \in DOMAIN s /\ Head(s) = s[1]
    BY <1>1
  <2>2. Below(c.datum, s[1].datum)
    BY <2>1
  <2>3. CASE j = 1
    BY <2>2, <2>3
  <2>4. CASE j # 1
    <3>1. 1 < j
      BY <1>1, <2>4
    <3>2. Below(s[1].datum, s[j].datum)
      BY <2>1, <3>1 DEF Calls, Nested
    <3> QED BY <2>2, <3>2, BelowTransitive
  <2> QED BY <2>3, <2>4
<1>7. Nested(t)
  <2> SUFFICES ASSUME NEW i \in DOMAIN t, NEW j \in DOMAIN t, i < j
               PROVE  Below(t[i].datum, t[j].datum)
    BY DEF Nested
  <2>1. j # 1 /\ j - 1 \in DOMAIN s /\ t[j] = s[j - 1]
    BY <1>3
  <2>2. CASE i = 1
    BY <1>3, <1>6, <2>1, <2>2
  <2>3. CASE i # 1
    <3>1. i - 1 \in DOMAIN s /\ t[i] = s[i - 1] /\ i - 1 < j - 1
      BY <1>1, <1>3, <2>3
    <3> QED BY <2>1, <3>1 DEF Calls, Nested
  <2> QED BY <2>2, <2>3
<1> QED BY <1>4, <1>5, <1>7 DEF Calls
-----------------------------------------------------------------------------
(* The inductive invariant.                                                *)

Computed(S) == \A d \in S : Proper(d) /\ Negative(d)

AllProper ==
  /\ \A r \in rows : Proper(r)
  /\ \A d \in message : Proper(d)
  /\ Computed(Range(out))
  /\ IsList(pending) /\ \A i \in DOMAIN pending : Computed(pending[i])

(* While a message is processed, what is interesting of it is stored, and  *)
(* nothing else with its keys.                                             *)
Cached ==
  LET new == {d \in message : d.param \in Interesting}
  IN  phase = "newData" =>
        /\ new \subseteq rows
        /\ \A r \in rows, n \in new : Key(r) = Key(n) => r \in new

Decided ==
  phase = "newData" =>
    /\ data \subseteq message
    /\ accepted = {d \in message \ data : CompleteCheckDecider(d, message, rows, scenario.station)}

Inv ==
  /\ scenario \in Scenarios
  /\ IsList(out)
  /\ Calls(stack)
  /\ AllProper
  /\ Cached
  /\ Decided

LEMMA InitInv == Init => Inv
<1> SUFFICES ASSUME Init PROVE Inv
  OBVIOUS
<1>1. Calls(stack) /\ IsList(<<>>)
  BY EmptyCalls DEF Init, Calls
<1>2. AllProper
  <2>1. \A r \in scenario.before : Proper(r)
    BY HandlerAssumption DEF Init, ScenarioAssumptionOf
  <2>2. Range(<<>>) = {} /\ DOMAIN <<>> = {}
    BY DEF Range
  <2> QED BY <1>1, <2>1, <2>2 DEF Init, AllProper, Computed
<1>3. Cached /\ Decided
  BY DEF Init, Cached, Decided
<1> QED BY <1>1, <1>2, <1>3 DEF Init, Inv

-----------------------------------------------------------------------------
(* Storing.                                                                *)

(* What is stored is there, and alone with its keys.                       *)
LEMMA PutStores ==
  ASSUME NEW S, NEW new
  PROVE  /\ new \subseteq Put(S, new)
         /\ \A r \in Put(S, new), n \in new : Key(r) = Key(n) => r \in new
         /\ \A r \in Put(S, new) : r \in S \/ r \in new
BY DEF Put

(* Storing aggregates changes no observation.                              *)
LEMMA PutKeepsObserved ==
  ASSUME NEW S, NEW new, Computed(new)
  PROVE  Observed(Put(S, new)) = Observed(S)
<1>1. \A n \in new : n.type \in Int /\ n.type < 0
  BY DEF Computed, Proper, Negative
<1>2. \A r \in S, n \in new : r.type > 0 => Key(n) # Key(r)
  BY <1>1 DEF Key
<1> QED BY <1>1, <1>2 DEF Observed, Put

LEMMA BeginInv ==
  ASSUME NEW m, Inv, Begin(m), \A d \in m : Proper(d), IsList(pending'),
         \A i \in DOMAIN pending' : Computed(pending'[i])
  PROVE  Inv'
<1> DEFINE new == {d \in m : d.param \in Interesting}
<1>1. /\ phase' = "newData" /\ rows' = Put(rows, new) /\ message' = m /\ data' = m
      /\ accepted' = {} /\ stack' = <<>> /\ out' = <<>> /\ scenario' = scenario
  BY DEF Begin, cacheData
<1>2. Calls(stack')
  BY <1>1, EmptyCalls
<1>3. IsList(out') /\ Range(out') = {}
  BY <1>1, EmptyCalls DEF Calls, Range
<1>4. AllProper'
  <2>1. \A r \in rows' : Proper(r)
    BY <1>1, PutStores DEF Inv, AllProper
  <2> QED BY <1>1, <1>3, <2>1 DEF AllProper, Computed
<1>5. Cached'
  BY <1>1, PutStores DEF Cached
<1>6. Decided'
  BY <1>1 DEF Decided
<1> QED BY <1>1, <1>2, <1>3, <1>4, <1>5, <1>6 DEF Inv, Calls

LEMMA ReceiveInv == Inv /\ Receive => Inv'
<1> SUFFICES ASSUME Inv, Receive PROVE Inv'
  OBVIOUS
<1>1. PICK m \in scenario.messages : Begin(m)
  BY DEF Receive
<1>2. \A d \in m : Proper(d)
  BY HandlerAssumption DEF Inv, ScenarioAssumptionOf
<1>3. IsList(pending') /\ \A i \in DOMAIN pending' : Computed(pending'[i])
  BY DEF Receive, Inv, AllProper
<1> QED BY <1>1, <1>2, <1>3, BeginInv

LEMMA TakeEchoInv == Inv /\ TakeEcho => Inv'
<1> SUFFICES ASSUME Inv, TakeEcho PROVE Inv'
  OBVIOUS
<1> DEFINE S == Range(pending)
<1>1. pending \in Seq(S) /\ pending # <<>>
  BY DEF Inv, AllProper, IsList, TakeEcho
<1>2. /\ Len(pending) \in Nat /\ DOMAIN pending = 1..Len(pending) /\ 1 \in DOMAIN pending
      /\ Head(pending) = pending[1] /\ Tail(pending) \in Seq(S)
      /\ \A i \in DOMAIN Tail(pending) : i + 1 \in DOMAIN pending /\ Tail(pending)[i] = pending[i + 1]
  <2> HIDE DEF S
  <2> QED BY <1>1
<1>3. \A d \in Head(pending) : Proper(d)
  BY <1>2 DEF Inv, AllProper, Computed
<1>4. IsList(pending') /\ \A i \in DOMAIN pending' : Computed(pending'[i])
  BY <1>2, SeqIsList DEF Inv, AllProper, TakeEcho
<1> QED BY <1>3, <1>4, BeginInv DEF TakeEcho
-----------------------------------------------------------------------------
(* Steps of process and newData.                                           *)

(* What stays the same while calls and toSave change.                      *)
LEMMA WorkingInv ==
  ASSUME Inv, UNCHANGED <<scenario, rows, phase, message, pending>>,
         Calls(stack'), IsList(out'), Computed(Range(out')), Decided'
  PROVE  Inv'
BY DEF Inv, AllProper, Cached, Calls, IsCall, Nested, IsList, Computed

LEMMA OfferedAggregator ==
  ASSUME Inv, Processing, NEW i \in Offered
  PROVE  /\ i \in Nat /\ Registered[i] \in Names
         /\ Datum.param \in Aggregators[Registered[i]].read
<1>1. Remaining \in SUBSET (1..13) /\ Remaining # {} /\ i = Min(Remaining)
  BY RegisteredNames DEF Remaining, Offered
<1>2. i \in Remaining
  BY <1>1, FirstExists
<1> QED BY <1>1, <1>2, RegisteredNames DEF Remaining

(* The datum at work, and the outer calls.                                 *)
LEMMA InnermostCall ==
  ASSUME Inv, Processing
  PROVE  /\ Calls(Tail(stack))
         /\ IsCall(Head(stack))
         /\ Tail(stack) # <<>> => Below(Datum, Head(Tail(stack)).datum)
<1>1. stack \in Seq(Range(stack)) /\ stack # <<>>
  BY DEF Inv, Calls, IsList, Processing
<1>2. Calls(Tail(stack))
  BY <1>1, TailCalls DEF Inv
<1>3. 1 \in DOMAIN stack /\ Head(stack) = stack[1]
      /\ (Tail(stack) # <<>> => 2 \in DOMAIN stack /\ Head(Tail(stack)) = stack[2])
  BY <1>1
<1>4. IsCall(Head(stack))
  BY <1>3 DEF Inv, Calls
<1>5. Tail(stack) # <<>> => Below(Datum, Head(Tail(stack)).datum)
  BY <1>3 DEF Inv, Calls, Nested, Datum
<1> QED BY <1>2, <1>4, <1>5

LEMMA GoOnCalls ==
  ASSUME Inv, Processing, NEW i \in Nat
  PROVE  Calls(GoOn(i)) /\ GoOn(i) # <<>> /\ Head(GoOn(i)).datum = Datum
<1> DEFINE c == [Head(stack) EXCEPT !.at = i + 1]
<1>1. IsCall(c) /\ c.datum = Datum
  BY InnermostCall DEF IsCall, Datum
<1>2. Calls(<<c>> \o Tail(stack))
  <2> HIDE DEF c
  <2> QED BY <1>1, InnermostCall, MoreCalls
<1>3. <<c>> \o Tail(stack) # <<>> /\ Head(<<c>> \o Tail(stack)) = c
  <2> DEFINE S == Range(Tail(stack)) \cup {c}
  <2>1. Tail(stack) \in Seq(Range(Tail(stack)))
    BY InnermostCall DEF Calls, IsList
  <2>2. Tail(stack) \in Seq(S) /\ <<c>> \in Seq(S)
    BY <2>1
  <2> HIDE DEF S, c
  <2> QED BY <2>2
<1> QED BY <1>1, <1>2, <1>3 DEF GoOn

LEMMA CallCalls ==
  ASSUME NEW s, Calls(s), NEW d, Proper(d), s # <<>> => Below(d, Head(s).datum)
  PROVE  Calls(Call(d, s))
<1> DEFINE c == [datum |-> d, at |-> 1]
<1>1. IsCall(c) /\ c.datum = d
  BY DEF IsCall
<1> HIDE DEF c
<1>2. Calls(<<c>> \o s)
  BY <1>1, MoreCalls
<1> QED BY <1>2 DEF Call, c

LEMMA SkipInv == Inv /\ (Uninterested \/ NoAggregate) => Inv'
<1> SUFFICES ASSUME Inv, Uninterested \/ NoAggregate PROVE Inv'
  OBVIOUS
<1>1. PICK i \in Offered : stack' = GoOn(i)
  BY DEF Uninterested, NoAggregate
<1>2. Processing /\ UNCHANGED <<scenario, rows, phase, message, data, accepted, out, pending>>
  BY DEF Uninterested, NoAggregate
<1>3. Calls(stack')
  BY <1>1, <1>2, OfferedAggregator, GoOnCalls
<1>4. IsList(out') /\ Computed(Range(out'))
  BY <1>2 DEF Inv, AllProper
<1>5. Decided'
  BY <1>2 DEF Inv, Decided
<1> QED BY <1>2, <1>3, <1>4, <1>5, WorkingInv

LEMMA ReturnInv == Inv /\ Return => Inv'
<1> SUFFICES ASSUME Inv, Return PROVE Inv'
  OBVIOUS
<1>1. Processing /\ stack' = Tail(stack)
      /\ UNCHANGED <<scenario, rows, phase, message, data, accepted, out, pending>>
  BY DEF Return
<1>2. Calls(stack')
  BY <1>1, InnermostCall
<1>3. IsList(out') /\ Computed(Range(out'))
  BY <1>1 DEF Inv, AllProper
<1>4. Decided'
  BY <1>1 DEF Inv, Decided
<1> QED BY <1>1, <1>2, <1>3, <1>4, WorkingInv

(* What an aggregator makes of a datum is below it; of what was computed   *)
(* po makes nothing, as no pressure is ever computed.                      *)
LEMMA AggregateIsBelow ==
  ASSUME Inv, Processing, NEW i \in Offered, NEW d \in UNION Outcomes(Registered[i], Datum)
  PROVE  Proper(d) /\ Negative(d) /\ Below(d, Datum)
<1> DEFINE h == Registered[i]
<1>1. h \in Names /\ Datum.param \in Aggregators[h].read
  BY OfferedAggregator
<1>2. PICK obs : /\ obs = getRelevantObsList(h, Datum)
                 /\ d \in UNION Process(h, Datum, WithTrigger(obs, Datum), rows, scenario.metadata)
  BY DEF Outcomes
<1>3. PICK s \in Process(h, Datum, WithTrigger(obs, Datum), rows, scenario.metadata) : d \in s
  BY <1>2
<1>4. /\ IsAggregate(d, h, Datum)
      /\ h = "po" => \E o \in WithTrigger(obs, Datum) : o.param = PR
  BY <1>3, ProcessIsAggregate
<1>5. Proper(Datum)
  BY InnermostCall DEF IsCall, Datum
<1>6. d.type \in Int /\ d.type < 0
  BY <1>4, <1>5 DEF IsAggregate, Negated, Proper
<1>7. d.param # PR
  BY <1>1, <1>4, WritesAbove DEF IsAggregate
<1>8. h = "po" => ~Negative(Datum)
  <2> SUFFICES ASSUME h = "po", Negative(Datum) PROVE FALSE
    OBVIOUS
  <2>1. PICK o \in WithTrigger(getRelevantObsList(h, Datum), Datum) : o.param = PR
    BY <1>2, <1>4
  <2>2. Proper(o) /\ o.type = Datum.type
    BY <1>5, <2>1, ObservationsOfOneType DEF Inv, AllProper
  <2> QED BY <2>1, <2>2 DEF Proper, Negative
<1>9. Below(d, Datum)
  BY <1>1, <1>4, <1>6, <1>8, WritesAbove DEF IsAggregate, Below, Negative
<1> QED BY <1>6, <1>7, <1>9 DEF Proper, Negative

LEMMA AggregateInv == Inv /\ Aggregate => Inv'
<1> SUFFICES ASSUME Inv, Aggregate PROVE Inv'
  OBVIOUS
<1>1. Processing /\ UNCHANGED <<scenario, rows, phase, message, data, accepted, pending>>
  BY DEF Aggregate
<1>2. PICK i \in Offered : \E d \in UNION Outcomes(Registered[i], Datum) :
        out' = Append(out, d) /\ stack' = Call(d, GoOn(i))
  BY DEF Aggregate
<1>3. PICK d \in UNION Outcomes(Registered[i], Datum) :
        out' = Append(out, d) /\ stack' = Call(d, GoOn(i))
  BY <1>2
<1>4. Proper(d) /\ Negative(d) /\ Below(d, Datum)
  BY <1>1, AggregateIsBelow
<1>5. Calls(stack')
  BY <1>1, <1>3, <1>4, OfferedAggregator, GoOnCalls, CallCalls
<1>6. IsList(out') /\ Computed(Range(out'))
  <2> DEFINE S == Range(out) \cup {d}
  <2>1. Computed(S)
    BY <1>4 DEF Inv, AllProper, Computed
  <2>2. out \in Seq(S) /\ d \in S
    BY DEF Inv, IsList
  <2>3. out' \in Seq(S)
    <3> HIDE DEF S
    <3> QED BY <1>3, <2>2
  <2>4. Range(out') \subseteq S
    <3> HIDE DEF S
    <3> QED BY <2>3 DEF Range
  <2> QED BY <2>1, <2>3, <2>4, SeqIsList DEF Computed
<1>7. Decided'
  BY <1>1 DEF Inv, Decided
<1> QED BY <1>1, <1>5, <1>6, <1>7, WorkingInv

LEMMA NewDataInv == Inv /\ newData => Inv'
<1> SUFFICES ASSUME Inv, newData PROVE Inv'
  OBVIOUS
<1>1. phase = "newData" /\ stack = <<>> /\ UNCHANGED <<scenario, rows, phase, message, out, pending>>
  BY DEF newData
<1>2. PICK d \in data :
        /\ data' = data \ {d}
        /\ IF CompleteCheckDecider(d, message, rows, scenario.station)
           THEN accepted' = accepted \cup {d} /\ stack' = Call(d, <<>>)
           ELSE UNCHANGED <<accepted, stack>>
  BY DEF newData
<1>3. d \in message /\ Proper(d)
  BY <1>1 DEF Inv, AllProper, Decided
<1>4. Calls(stack')
  BY <1>1, <1>2, <1>3, EmptyCalls, CallCalls
<1>5. IsList(out') /\ Computed(Range(out'))
  BY <1>1 DEF Inv, AllProper
<1>6. Decided'
  BY <1>1, <1>2, <1>3 DEF Inv, Decided
<1> QED BY <1>1, <1>4, <1>5, <1>6, WorkingInv
-----------------------------------------------------------------------------
(* Steps of save, and of the outside.                                      *)

LEMMA SentComputed ==
  ASSUME Inv
  PROVE  Computed(Sent) /\ IsFiniteSet(Sent)
<1>1. Sent \subseteq Range(out)
  BY DEF Sent, Range
<1>2. Computed(Sent)
  BY <1>1 DEF Inv, AllProper, Computed
<1>3. IsFiniteSet(Range(out))
  <2>1. Len(out) \in Nat /\ out \in [1..Len(out) -> Range(out)]
        /\ \A r \in Range(out) : \E i \in 1..Len(out) : out[i] = r
    <3>1. out \in Seq(Range(out))
      BY DEF Inv, IsList
    <3>2. Len(out) \in Nat /\ out \in [1..Len(out) -> Range(out)] /\ DOMAIN out = 1..Len(out)
      BY <3>1, LenProperties
    <3> QED BY <3>2 DEF Range
  <2>2. out \in Surjection(1..Len(out), Range(out))
    BY <2>1 DEF Surjection
  <2>3. IsFiniteSet(1..Len(out))
    BY <2>1, FS_Interval
  <2> QED BY <2>2, <2>3, FS_Surjection
<1> QED BY <1>1, <1>2, <1>3, FS_Subset

(* The messages of kvalobs are lists of parts of what was saved.           *)
LEMMA OrderOfGroups ==
  ASSUME NEW S, IsFiniteSet(S), NEW order \in SetToSeqs(Grouped(S))
  PROVE  order \in Seq(SUBSET S)
<1> DEFINE f == [s \in S |-> {r \in S : r.time = s.time /\ r.type = s.type}]
<1>1. f \in Surjection(S, Grouped(S))
  BY DEF Surjection, Grouped
<1>2. Cardinality(Grouped(S)) \in Nat
  BY <1>1, FS_Surjection, FS_CardinalityType
<1>3. order \in Seq(Grouped(S))
  BY <1>2 DEF SetToSeqs
<1>4. Grouped(S) \subseteq SUBSET S
  BY DEF Grouped
<1> QED BY <1>3, <1>4, SeqMonotonic

LEMMA EndInv ==
  ASSUME Inv, End, scenario' = scenario, \A r \in rows' : Proper(r),
         IsList(pending'), \A i \in DOMAIN pending' : Computed(pending'[i])
  PROVE  Inv'
<1>1. phase' = "idle" /\ message' = {} /\ out' = <<>> /\ stack' = stack
  BY DEF End
<1>2. IsList(out') /\ Range(out') = {}
  BY <1>1, EmptyCalls DEF Calls, Range
<1>3. AllProper'
  BY <1>1, <1>2 DEF AllProper, Computed
<1>4. Cached' /\ Decided'
  BY <1>1 DEF Cached, Decided
<1>5. Calls(stack')
  BY <1>1 DEF Inv
<1> QED BY <1>2, <1>3, <1>4, <1>5 DEF Inv, Calls, IsCall, Nested, IsList

LEMMA SaveInv == Inv /\ save => Inv'
<1> SUFFICES ASSUME Inv, save PROVE Inv'
  OBVIOUS
<1>1. PICK order \in SetToSeqs(Grouped(Sent)) : rows' = Put(rows, Sent) /\ pending' = pending \o order
  BY DEF save
<1>2. Computed(Sent) /\ IsFiniteSet(Sent)
  BY SentComputed
<1>3. \A r \in rows' : Proper(r)
  BY <1>1, <1>2, PutStores DEF Inv, AllProper, Computed
<1>4. IsList(pending') /\ \A i \in DOMAIN pending' : Computed(pending'[i])
  <2> DEFINE S == {m \in Range(pending) \cup SUBSET Sent : Computed(m)}
  <2>1. pending \in Seq(Range(pending)) /\ \A m \in Range(pending) : Computed(m)
    BY DEF Inv, AllProper, IsList, Range
  <2>2. \A m \in SUBSET Sent : Computed(m)
    BY <1>2 DEF Computed
  <2>3. Range(pending) \subseteq S /\ SUBSET Sent \subseteq S
    BY <2>1, <2>2
  <2>4. pending \in Seq(S) /\ order \in Seq(S)
    BY <1>2, <2>1, <2>3, OrderOfGroups, SeqMonotonic
  <2>5. pending' \in Seq(S)
    BY <1>1, <2>4, ConcatProperties
  <2>6. \A i \in DOMAIN pending' : pending'[i] \in S
    BY <2>5
  <2> QED BY <2>5, <2>6, SeqIsList
<1> QED BY <1>3, <1>4, EndInv DEF save

LEMMA UnsavedInv == Inv /\ unsaved => Inv'
<1> SUFFICES ASSUME Inv, unsaved PROVE Inv'
  OBVIOUS
<1>1. \A r \in rows' : Proper(r)
  BY DEF unsaved, Inv, AllProper
<1>2. IsList(pending') /\ \A i \in DOMAIN pending' : Computed(pending'[i])
  BY DEF unsaved, Inv, AllProper
<1> QED BY <1>1, <1>2, EndInv DEF unsaved

LEMMA SaveRefusedInv == Inv /\ saveRefused => Inv'
<1> SUFFICES ASSUME Inv, saveRefused PROVE Inv'
  OBVIOUS
<1> DEFINE new == {d \in message : d.param \in Interesting}
<1>1. /\ rows' = Put(rows, new) /\ data' = message /\ accepted' = {} /\ out' = <<>>
      /\ UNCHANGED <<scenario, phase, message, stack, pending>>
  BY DEF saveRefused, cacheData
<1>2. IsList(out') /\ Range(out') = {}
  BY <1>1, EmptyCalls DEF Calls, Range
<1>3. AllProper'
  <2>1. \A r \in rows' : Proper(r)
    BY <1>1, PutStores DEF Inv, AllProper
  <2> QED BY <1>1, <1>2, <2>1 DEF Inv, AllProper, Computed
<1>4. Cached'
  BY <1>1, PutStores DEF Cached
<1>5. Decided'
  BY <1>1 DEF Decided
<1>6. Calls(stack')
  BY <1>1 DEF Inv
<1> QED BY <1>1, <1>2, <1>3, <1>4, <1>5, <1>6 DEF Inv, Calls, IsCall, Nested, IsList

LEMMA OutsideInv == Inv /\ (Tick \/ Shutdown \/ UNCHANGED vars) => Inv'
<1> SUFFICES ASSUME Inv, Tick \/ Shutdown \/ UNCHANGED vars PROVE Inv'
  OBVIOUS
<1>1. UNCHANGED <<scenario, rows, phase, message, data, accepted, stack, out, pending>>
  BY DEF Tick, Shutdown, vars, newDataVars
<1>2. Calls(stack') /\ IsList(out') /\ Computed(Range(out'))
  BY <1>1 DEF Inv, AllProper
<1>3. Decided'
  BY <1>1 DEF Inv, Decided
<1> QED BY <1>1, <1>2, <1>3, WorkingInv

LEMMA NextInv == Inv /\ [Next]_vars => Inv'
BY ReceiveInv, TakeEchoInv, SkipInv, ReturnInv, AggregateInv, NewDataInv, SaveInv,
   UnsavedInv, SaveRefusedInv, OutsideInv DEF Next, Worker, process

(* The invariant holds in every reachable state.                           *)
THEOREM SpecInv == Spec => []Inv
BY InitInv, NextInv, PTL DEF Spec

-----------------------------------------------------------------------------
(* What follows.                                                           *)

(* Calls of process within calls end: each is for a parameter further from *)
(* being observed, or for what po made of a reported pressure.             *)
THEOREM CascadeEndsHolds == Spec => []CascadeEnds
<1>1. Inv => CascadeEnds
  <2> SUFFICES ASSUME Inv, NEW i \in DOMAIN stack, NEW j \in DOMAIN stack, i < j
               PROVE  /\ Negative(stack[i].datum)
                      /\ <<stack[i].datum.param, stack[i].datum.type>>
                           # <<stack[j].datum.param, stack[j].datum.type>>
    BY DEF CascadeEnds
  <2>1. Below(stack[i].datum, stack[j].datum)
    BY DEF Inv, Calls, Nested
  <2>2. Rank(stack[i].datum.param) \in Int /\ Rank(stack[j].datum.param) \in Int
    BY DEF Rank
  <2> HIDE DEF Rank
  <2> QED BY <2>1, <2>2 DEF Below, Negative
<1> QED BY <1>1, SpecInv, PTL

(* Of gauge and hourly rain in one message exactly one is aggregated.      *)
THEOREM OneSourceHolds == Spec => []OneSource
<1>1. Inv => OneSource
  <2> SUFFICES ASSUME Inv, phase = "newData", data = {}, NEW a \in message, NEW b \in message,
                      a.param = RA, b.param = RR_1, a.time = b.time, a.type = b.type
               PROVE  a \in accepted <=> b \notin accepted
    BY DEF OneSource
  <2>1. \A d \in message : d \in accepted <=> CompleteCheckDecider(d, message, rows, scenario.station)
    BY DEF Inv, Decided
  <2>2. rr1ShouldOverrideRa(a, rows) <=> rr1ShouldOverrideRa(b, rows)
    BY DEF rr1ShouldOverrideRa
  <2>3. StationRangeFilter(a, scenario.station) /\ StationRangeFilter(b, scenario.station)
    BY DEF StationRangeFilter, precipitationParameters
  <2>4. StationHasParamid(b, RR_1, a)
    BY DEF StationHasParamid
  <2>5. RA # RR_1
    BY DEF RA, RR_1
  <2>6. RR1OverridesRADecider(a, message, rows) <=> ~rr1ShouldOverrideRa(a, rows)
    BY <2>4, <2>5 DEF RR1OverridesRADecider
  <2>7. RR1OverridesRADecider(b, message, rows) <=> rr1ShouldOverrideRa(b, rows)
    BY <2>5 DEF RR1OverridesRADecider
  <2> QED BY <2>1, <2>2, <2>3, <2>6, <2>7 DEF CompleteCheckDecider
<1> QED BY <1>1, SpecInv, PTL

(* What was observed is changed by what stations send and by nothing else. *)
THEOREM ObservationsUntouchedHolds == Spec => ObservationsUntouched
<1> DEFINE A == Observed(rows') = Observed(rows) \/ (phase = "idle" /\ count' = count + 1)
<1>1. Inv /\ [Next]_vars => [A]_vars
  <2> SUFFICES ASSUME Inv, Next PROVE A
    OBVIOUS
  <2>1. CASE Receive
    BY <2>1 DEF Receive, Begin
  <2>2. CASE TakeEcho
    <3>1. rows' = Put(rows, {d \in Head(pending) : d.param \in Interesting})
      BY <2>2 DEF TakeEcho, Begin, cacheData
    <3>2. pending # <<>> /\ pending \in Seq(Range(pending))
      BY <2>2 DEF TakeEcho, Inv, AllProper, IsList
    <3>3. 1 \in DOMAIN pending /\ Head(pending) = pending[1]
      BY <3>2
    <3>4. Computed({d \in Head(pending) : d.param \in Interesting})
      BY <3>3 DEF Inv, AllProper, Computed
    <3> QED BY <3>1, <3>4, PutKeepsObserved
  <2>3. CASE save
    BY <2>3, SentComputed, PutKeepsObserved DEF save
  <2>4. CASE saveRefused
    <3> DEFINE new == {d \in message : d.param \in Interesting}
    <3>1. rows' = Put(rows, new) /\ phase = "newData"
      BY <2>4 DEF saveRefused, cacheData, Done
    <3>2. new \subseteq rows /\ \A r \in rows, n \in new : Key(r) = Key(n) => r \in new
      BY <3>1 DEF Inv, Cached
    <3>3. Put(rows, new) = rows
      BY <3>2 DEF Put
    <3> QED BY <3>1, <3>3
  <2>5. CASE Tick \/ Shutdown \/ newData \/ process \/ unsaved
    BY <2>5 DEF Tick, Shutdown, newData, process, Uninterested, NoAggregate, Aggregate, Return, unsaved
  <2> QED BY <2>1, <2>2, <2>3, <2>4, <2>5 DEF Next, Worker
<1> QED BY <1>1, SpecInv, PTL DEF Spec, ObservationsUntouched
=============================================================================
