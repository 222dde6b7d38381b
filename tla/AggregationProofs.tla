--------------------------- MODULE AggregationProofs ---------------------------
(***************************************************************************)
(* Theorems about the times, sums, formulas and data of Aggregation, for   *)
(* every time, every value and every number of observations.               *)
(***************************************************************************)
EXTENDS Aggregation, TLAPS, WellFoundedInduction, FiniteSetTheorems

-----------------------------------------------------------------------------
(* Finite sets of numbers, and sums.                                       *)

(* A set of natural numbers that is not empty has a least element.         *)
LEMMA LeastNatural ==
  ASSUME NEW S \in SUBSET Nat, S # {}
  PROVE  \E n \in S : \A m \in S : n <= m
<1> DEFINE Less == {p \in Nat \X Nat : p[1] < p[2]}
<1>1. IsWellFoundedOn(Less, Nat)
  BY NatLessThanWellFounded DEF OpToRel
<1> HIDE DEF Less
<1>2. S \subseteq Nat
  OBVIOUS
<1>3. \E n \in S : \A m \in S : ~(<<m, n>> \in Less)
  BY <1>1, <1>2, WFMin
<1>4. \A m, n \in Nat : m < n => <<m, n>> \in Less
  BY DEF Less
<1>5. PICK n \in S : \A m \in S : ~(<<m, n>> \in Less)
  BY <1>3
<1>6. \A m \in S : ~(m < n) /\ m \in Nat /\ n \in Nat
  BY <1>4, <1>5
<1> QED BY <1>6

(* `sum' adds up, of every part of S, what v gives its elements: one of    *)
(* them and the sum of the others, as MapThenSumSet does.                  *)
chosen(s) == CHOOSE x \in s : TRUE

AddsUp(sum, S, v) ==
  sum = [s \in SUBSET S |-> IF s = {} THEN 0 ELSE v[chosen(s)] + sum[s \ {chosen(s)}]]

(* Without the element that is chosen the set is smaller.                  *)
LEMMA OneLess ==
  ASSUME NEW S, IsFiniteSet(S), NEW s \in SUBSET S, s # {}
  PROVE  /\ chosen(s) \in s /\ s \ {chosen(s)} \in SUBSET S
         /\ Cardinality(s) \in Nat \ {0} /\ Cardinality(s \ {chosen(s)}) = Cardinality(s) - 1
<1>1. chosen(s) \in s
  BY DEF chosen
<1>2. IsFiniteSet(s) /\ Cardinality(s) \in Nat
  BY FS_Subset, FS_CardinalityType
<1>3. Cardinality(s) # 0
  BY <1>2, FS_EmptySet
<1>4. Cardinality(s \ {chosen(s)}) = Cardinality(s) - 1
  BY <1>1, <1>2, FS_RemoveElement
<1> QED BY <1>1, <1>2, <1>3, <1>4

(* There is such a sum: of the parts with up to n elements for every n.    *)
LEMMA SumExists ==
  ASSUME NEW S, IsFiniteSet(S), NEW v
  PROVE  \E sum : AddsUp(sum, S, v)
<1> DEFINE Parts(n) == {s \in SUBSET S : Cardinality(s) <= n}
           Sums(g, n) == g = [s \in Parts(n) |-> IF s = {} THEN 0 ELSE v[chosen(s)] + g[s \ {chosen(s)}]]
           Bad == {n \in Nat : ~ \E g : Sums(g, n)}
<1>1. \A s \in SUBSET S : Cardinality(s) \in Nat /\ (Cardinality(s) = 0 <=> s = {})
  BY FS_Subset, FS_CardinalityType, FS_EmptySet
<1>2. Bad = {}
  <2> SUFFICES ASSUME Bad # {} PROVE FALSE
    OBVIOUS
  <2>1. PICK n \in Bad : \A m \in Bad : n <= m
    <3>1. Bad \in SUBSET Nat
      OBVIOUS
    <3> HIDE DEF Bad
    <3> QED BY <3>1, LeastNatural
  <2>2. n # 0
    <3> SUFFICES ASSUME n = 0 PROVE FALSE
      OBVIOUS
    <3>1. \A s \in Parts(0) : s = {}
      BY <1>1
    <3>2. Sums([s \in Parts(0) |-> 0], 0)
      BY <3>1
    <3> QED BY <3>2
  <2>3. PICK g : Sums(g, n - 1)
    <3>1. n \in Nat /\ n - 1 \in Nat /\ ~(n <= n - 1)
      BY <2>2
    <3>2. n - 1 \notin Bad
      BY <2>1, <3>1
    <3> QED BY <3>1, <3>2
  <2> DEFINE h == [s \in Parts(n) |-> IF s = {} THEN 0 ELSE v[chosen(s)] + g[s \ {chosen(s)}]]
  <2>4. \A s \in Parts(n) : s # {} => s \ {chosen(s)} \in Parts(n - 1) /\ s \ {chosen(s)} \in Parts(n)
    BY <2>1, OneLess
  <2>5. \A s \in Parts(n - 1) : s \in Parts(n) /\ h[s] = g[s]
    <3>1. \A s \in Parts(n - 1) : s \in Parts(n)
      BY <1>1, <2>1
    <3>2. \A s \in Parts(n - 1) : g[s] = IF s = {} THEN 0 ELSE v[chosen(s)] + g[s \ {chosen(s)}]
      <4> HIDE DEF Parts
      <4> QED BY <2>3
    <3> HIDE DEF Parts
    <3> QED BY <3>1, <3>2
  <2>6. Sums(h, n)
    <3>1. \A s \in Parts(n) : s # {} => h[s \ {chosen(s)}] = g[s \ {chosen(s)}]
      <4> HIDE DEF Parts, h
      <4> QED BY <2>4, <2>5
    <3> HIDE DEF Parts
    <3> QED BY <3>1
  <2> HIDE DEF Sums, h
  <2> QED BY <2>6
<1>3. PICK g : Sums(g, Cardinality(S))
  <2>1. Cardinality(S) \in Nat
    BY <1>1
  <2> HIDE DEF Sums
  <2> QED BY <1>2, <2>1
<1>4. Parts(Cardinality(S)) = SUBSET S
  BY FS_Subset
<1> HIDE DEF Parts
<1> QED BY <1>3, <1>4 DEF AddsUp

(* A sum of integers is one, and so is bounded as its parts are.           *)
LEMMA SumBounds ==
  ASSUME NEW S, IsFiniteSet(S), NEW v, NEW lo \in Int, NEW hi \in Int,
         \A x \in S : v[x] \in Int /\ lo <= v[x] /\ v[x] <= hi,
         NEW sum, AddsUp(sum, S, v)
  PROVE  \A s \in SUBSET S :
           sum[s] \in Int /\ Cardinality(s) * lo <= sum[s] /\ sum[s] <= Cardinality(s) * hi
<1> DEFINE Right(s) == sum[s] \in Int /\ Cardinality(s) * lo <= sum[s] /\ sum[s] <= Cardinality(s) * hi
           Bad == {n \in Nat : \E s \in SUBSET S : Cardinality(s) = n /\ ~Right(s)}
<1>1. \A s \in SUBSET S : Cardinality(s) \in Nat /\ (Cardinality(s) = 0 <=> s = {})
  BY FS_Subset, FS_CardinalityType, FS_EmptySet
<1>2. \A s \in SUBSET S : sum[s] = IF s = {} THEN 0 ELSE v[chosen(s)] + sum[s \ {chosen(s)}]
  BY DEF AddsUp
<1>3. Bad = {}
  <2> SUFFICES ASSUME Bad # {} PROVE FALSE
    OBVIOUS
  <2>1. PICK n \in Bad : \A m \in Bad : n <= m
    <3>1. Bad \in SUBSET Nat
      OBVIOUS
    <3> HIDE DEF Bad
    <3> QED BY <3>1, LeastNatural
  <2>2. PICK s \in SUBSET S : Cardinality(s) = n /\ ~Right(s)
    OBVIOUS
  <2>3. s # {}
    <3> SUFFICES ASSUME s = {} PROVE FALSE
      OBVIOUS
    <3>1. sum[s] = 0 /\ Cardinality(s) = 0
      BY <1>1, <1>2
    <3> QED BY <2>2, <3>1
  <2> DEFINE x == chosen(s)
             r == s \ {x}
  <2>4. x \in S /\ r \in SUBSET S /\ n \in Nat \ {0} /\ Cardinality(r) = n - 1
    BY <2>2, <2>3, OneLess
  <2>5. sum[s] = v[x] + sum[r]
    BY <1>2, <2>3
  <2> HIDE DEF x, r
  <2>6. Right(r)
    <3>1. n - 1 \in Nat /\ ~(n <= n - 1)
      BY <2>4
    <3>2. n - 1 \notin Bad
      BY <2>1, <3>1
    <3> HIDE DEF Right
    <3> QED BY <2>4, <3>1, <3>2
  <2>7. n * lo = (n - 1) * lo + lo /\ n * hi = (n - 1) * hi + hi
    BY <2>4
  <2>8. (n - 1) * lo \in Int /\ (n - 1) * hi \in Int
    BY <2>4
  <2> QED BY <2>2, <2>4, <2>5, <2>6, <2>7, <2>8
<1> HIDE DEF Right
<1>4. \A s \in SUBSET S : Right(s)
  BY <1>1, <1>3
<1> QED BY <1>4 DEF Right

(* Sums of integers are integers.                                          *)
LEMMA SumIsInteger ==
  ASSUME NEW S, IsFiniteSet(S), NEW v, \A x \in S : v[x] \in Int,
         NEW sum, AddsUp(sum, S, v)
  PROVE  \A s \in SUBSET S : sum[s] \in Int
<1> DEFINE Bad == {n \in Nat : \E s \in SUBSET S : Cardinality(s) = n /\ sum[s] \notin Int}
<1>1. \A s \in SUBSET S : sum[s] = IF s = {} THEN 0 ELSE v[chosen(s)] + sum[s \ {chosen(s)}]
  BY DEF AddsUp
<1>2. Bad = {}
  <2> SUFFICES ASSUME Bad # {} PROVE FALSE
    OBVIOUS
  <2>1. PICK n \in Bad : \A m \in Bad : n <= m
    <3>1. Bad \in SUBSET Nat
      OBVIOUS
    <3> HIDE DEF Bad
    <3> QED BY <3>1, LeastNatural
  <2>2. PICK s \in SUBSET S : Cardinality(s) = n /\ sum[s] \notin Int
    OBVIOUS
  <2>3. s # {}
    <3>1. s = {} => sum[s] = 0
      BY <1>1
    <3> QED BY <2>2, <3>1
  <2>4. /\ chosen(s) \in s /\ s \ {chosen(s)} \in SUBSET S
        /\ n \in Nat \ {0} /\ Cardinality(s \ {chosen(s)}) = n - 1
    BY <2>2, <2>3, OneLess
  <2>5. sum[s \ {chosen(s)}] \in Int
    <3>1. n - 1 \in Nat /\ ~(n <= n - 1)
      BY <2>4
    <3>2. n - 1 \notin Bad
      BY <2>1, <3>1
    <3> QED BY <2>4, <3>1, <3>2
  <2>6. v[chosen(s)] \in Int
    BY <2>4
  <2> QED BY <1>1, <2>2, <2>3, <2>5, <2>6
<1>3. \A s \in SUBSET S : Cardinality(s) \in Nat
  BY FS_Subset, FS_CardinalityType
<1> QED BY <1>2, <1>3

(* The total of Aggregation is such a sum.                                 *)
LEMMA TotalAddsUp ==
  ASSUME NEW S, IsFiniteSet(S), NEW field
  PROVE  \E sum : AddsUp(sum, S, [o \in S |-> o[field]]) /\ Total(S, field) = sum[S]
<1> DEFINE v == [o \in S |-> o[field]]
           Rule(f) == f = [s \in SUBSET S |->
                 IF s = {} THEN 0 ELSE chosen(s)[field] + f[s \ {chosen(s)}]]
<1>1. \A s \in SUBSET S : s # {} => chosen(s) \in S /\ v[chosen(s)] = chosen(s)[field]
  BY OneLess
<1>2. ASSUME NEW f PROVE AddsUp(f, S, v) <=> Rule(f)
  <2> HIDE DEF v
  <2> QED BY <1>1 DEF AddsUp
<1>3. PICK f : Rule(f)
  BY <1>2, SumExists
<1>4. Rule(CHOOSE g : Rule(g))
  BY <1>3
<1>5. Total(S, field) = (CHOOSE g : Rule(g))[S]
  BY DEF Total, MapThenSumSet, MapThenFoldSet, chosen
<1> HIDE DEF Rule, v
<1> QED BY <1>2, <1>4, <1>5 DEF v

(* A finite set of integers that is not empty has a least and a greatest   *)
(* element.                                                                *)
LEMMA Extremes ==
  ASSUME NEW S \in SUBSET Int, IsFiniteSet(S), S # {}
  PROVE  /\ Min(S) \in S /\ \A x \in S : Min(S) <= x
         /\ Max(S) \in S /\ \A x \in S : x <= Max(S)
<1> DEFINE Has(T) == \E lo, hi \in T : \A x \in T : lo <= x /\ x <= hi
           Bad == {n \in Nat : \E T \in SUBSET S : Cardinality(T) = n /\ T # {} /\ ~Has(T)}
<1>1. Bad = {}
  <2> SUFFICES ASSUME Bad # {} PROVE FALSE
    OBVIOUS
  <2>1. PICK n \in Bad : \A m \in Bad : n <= m
    <3>1. Bad \in SUBSET Nat
      OBVIOUS
    <3> HIDE DEF Bad
    <3> QED BY <3>1, LeastNatural
  <2>2. PICK T \in SUBSET S : Cardinality(T) = n /\ T # {} /\ ~Has(T)
    OBVIOUS
  <2> DEFINE a == chosen(T)
             r == T \ {a}
  <2>3. a \in T /\ r \in SUBSET S /\ n \in Nat \ {0} /\ Cardinality(r) = n - 1
    BY <2>2, OneLess
  <2>4. T = r \cup {a}
    BY <2>3
  <2> HIDE DEF a, r
  <2>5. CASE r = {}
    BY <2>2, <2>3, <2>4, <2>5
  <2>6. CASE r # {}
    <3>1. n - 1 \in Nat /\ ~(n <= n - 1)
      BY <2>3
    <3>2. n - 1 \notin Bad
      BY <2>1, <3>1
    <3>3. Has(r)
      <4> HIDE DEF Has
      <4> QED BY <2>3, <2>6, <3>1, <3>2
    <3>4. PICK lo, hi \in r : \A x \in r : lo <= x /\ x <= hi
      BY <3>3
    <3>5. a \in Int /\ lo \in Int /\ hi \in Int /\ r \subseteq Int
      BY <2>2, <2>3
    <3>6. PICK low \in {a, lo} : low <= a /\ low <= lo
      BY <3>5
    <3>7. PICK high \in {a, hi} : a <= high /\ hi <= high
      BY <3>5
    <3>8. \A x \in T : low <= x /\ x <= high
      BY <2>4, <3>4, <3>5, <3>6, <3>7
    <3>9. low \in T /\ high \in T
      BY <2>4, <3>4
    <3> QED BY <2>2, <3>8, <3>9
  <2> QED BY <2>5, <2>6
<1>2. Has(S)
  <2>1. Cardinality(S) \in Nat
    BY FS_CardinalityType
  <2> HIDE DEF Has
  <2> QED BY <1>1, <2>1
<1>3. PICK lo, hi \in S : \A x \in S : lo <= x /\ x <= hi
  BY <1>2
<1>4. Min(S) \in S /\ \A x \in S : Min(S) <= x
  BY <1>3 DEF Min
<1>5. Max(S) \in S /\ \A x \in S : x <= Max(S)
  BY <1>3 DEF Max
<1> QED BY <1>4, <1>5

(* The values of a field of finitely many data are finitely many.          *)
LEMMA FiniteValues ==
  ASSUME NEW S, IsFiniteSet(S), NEW field
  PROVE  IsFiniteSet(Values(S, field))
<1> DEFINE f == [o \in S |-> o[field]]
<1>1. f \in Surjection(S, Values(S, field))
  BY DEF Surjection, Values
<1> QED BY <1>1, FS_Surjection

(* A sum over data whose field is an integer.                              *)
LEMMA TotalIsInteger ==
  ASSUME NEW S, IsFiniteSet(S), NEW field, \A o \in S : o[field] \in Int
  PROVE  Total(S, field) \in Int
<1>1. PICK sum : AddsUp(sum, S, [o \in S |-> o[field]]) /\ Total(S, field) = sum[S]
  BY TotalAddsUp
<1>2. sum[S] \in Int
  BY <1>1, SumIsInteger
<1> QED BY <1>1, <1>2

(* A total is between as many times the least and the greatest value.      *)
LEMMA TotalBounds ==
  ASSUME NEW S, IsFiniteSet(S), NEW field, NEW lo \in Int, NEW hi \in Int,
         \A o \in S : o[field] \in Int /\ lo <= o[field] /\ o[field] <= hi
  PROVE  /\ Total(S, field) \in Int
         /\ Cardinality(S) * lo <= Total(S, field) /\ Total(S, field) <= Cardinality(S) * hi
<1> DEFINE v == [o \in S |-> o[field]]
<1>1. PICK sum : AddsUp(sum, S, v) /\ Total(S, field) = sum[S]
  BY TotalAddsUp
<1>2. \A o \in S : v[o] \in Int /\ lo <= v[o] /\ v[o] <= hi
  OBVIOUS
<1>3. S \in SUBSET S
  OBVIOUS
<1> HIDE DEF v
<1>4. \A s \in SUBSET S :
           sum[s] \in Int /\ Cardinality(s) * lo <= sum[s] /\ sum[s] <= Cardinality(s) * hi
  BY <1>1, <1>2, SumBounds
<1> QED BY <1>1, <1>3, <1>4

(* The mean of cloud cover is a fraction of integers.                      *)
LEMMA CloudTotalIsInteger ==
  ASSUME NEW S, IsFiniteSet(S), NEW field, \A o \in S : o[field] \in Int
  PROVE  CloudAverage(S, field) \in Int \X {Cardinality(S)}
<1> DEFINE v == [o \in S |-> IF o[field] = 90 THEN 80 ELSE o[field]]
           Rule(f) == f = [s \in SUBSET S |->
                 IF s = {} THEN 0
                 ELSE (IF chosen(s)[field] = 90 THEN 80 ELSE chosen(s)[field]) + f[s \ {chosen(s)}]]
<1>1. \A s \in SUBSET S : s # {} => chosen(s) \in S /\ v[chosen(s)] = (IF chosen(s)[field] = 90 THEN 80 ELSE chosen(s)[field])
  BY OneLess
<1>2. \A x \in S : v[x] \in Int
  OBVIOUS
<1>3. ASSUME NEW f PROVE AddsUp(f, S, v) <=> Rule(f)
  <2> HIDE DEF v
  <2> QED BY <1>1 DEF AddsUp
<1>4. PICK f : Rule(f)
  BY <1>3, SumExists
<1>5. Rule(CHOOSE g : Rule(g))
  BY <1>4
<1>6. CloudAverage(S, field) = <<(CHOOSE g : Rule(g))[S], Cardinality(S)>>
  BY DEF CloudAverage, MapThenSumSet, MapThenFoldSet, chosen
<1> HIDE DEF Rule, v
<1>7. (CHOOSE g : Rule(g))[S] \in Int
  BY <1>2, <1>3, <1>5, SumIsInteger
<1> QED BY <1>6, <1>7

(* Sums of the same numbers are the same.                                  *)
LEMMA SumsAgree ==
  ASSUME NEW S, IsFiniteSet(S), NEW T \in SUBSET S, NEW v, NEW w, \A x \in T : w[x] = v[x],
         NEW sum, AddsUp(sum, S, v), NEW part, AddsUp(part, T, w)
  PROVE  \A s \in SUBSET T : part[s] = sum[s]
<1> DEFINE Bad == {n \in Nat : \E s \in SUBSET T : Cardinality(s) = n /\ part[s] # sum[s]}
<1>1. \A s \in SUBSET S : sum[s] = IF s = {} THEN 0 ELSE v[chosen(s)] + sum[s \ {chosen(s)}]
  BY DEF AddsUp
<1>2. \A s \in SUBSET T : part[s] = IF s = {} THEN 0 ELSE w[chosen(s)] + part[s \ {chosen(s)}]
  BY DEF AddsUp
<1>3. IsFiniteSet(T) /\ \A s \in SUBSET T : s \in SUBSET S /\ Cardinality(s) \in Nat
  BY FS_Subset, FS_CardinalityType
<1>4. Bad = {}
  <2> SUFFICES ASSUME Bad # {} PROVE FALSE
    OBVIOUS
  <2>1. PICK n \in Bad : \A m \in Bad : n <= m
    <3>1. Bad \in SUBSET Nat
      OBVIOUS
    <3> HIDE DEF Bad
    <3> QED BY <3>1, LeastNatural
  <2>2. PICK s \in SUBSET T : Cardinality(s) = n /\ part[s] # sum[s]
    OBVIOUS
  <2>3. s # {}
    BY <1>1, <1>2, <1>3, <2>2
  <2> DEFINE x == chosen(s)
             r == s \ {x}
  <2>4. x \in T /\ r \in SUBSET T /\ n \in Nat \ {0} /\ Cardinality(r) = n - 1
    BY <1>3, <2>2, <2>3, OneLess
  <2>5. sum[s] = v[x] + sum[r] /\ part[s] = w[x] + part[r]
    BY <1>1, <1>2, <1>3, <2>3
  <2> HIDE DEF x, r
  <2>6. part[r] = sum[r]
    <3>1. n - 1 \in Nat /\ ~(n <= n - 1)
      BY <2>4
    <3>2. n - 1 \notin Bad
      BY <2>1, <3>1
    <3> QED BY <2>4, <3>1, <3>2
  <2> QED BY <2>2, <2>4, <2>5, <2>6
<1> QED BY <1>3, <1>4

(* A sum is any of its numbers and the sum of the others.                  *)
LEMMA SumTakesAny ==
  ASSUME NEW S, IsFiniteSet(S), NEW v, \A x \in S : v[x] \in Int, NEW sum, AddsUp(sum, S, v)
  PROVE  \A s \in SUBSET S : \A x \in s : sum[s] = v[x] + sum[s \ {x}]
<1> DEFINE Any(s) == \A x \in s : sum[s] = v[x] + sum[s \ {x}]
           Bad == {n \in Nat : \E s \in SUBSET S : Cardinality(s) = n /\ ~Any(s)}
<1>1. \A s \in SUBSET S : sum[s] = IF s = {} THEN 0 ELSE v[chosen(s)] + sum[s \ {chosen(s)}]
  BY DEF AddsUp
<1>2. \A s \in SUBSET S : sum[s] \in Int /\ Cardinality(s) \in Nat
  BY SumIsInteger, FS_Subset, FS_CardinalityType
<1>3. Bad = {}
  <2> SUFFICES ASSUME Bad # {} PROVE FALSE
    OBVIOUS
  <2>1. PICK n \in Bad : \A m \in Bad : n <= m
    <3>1. Bad \in SUBSET Nat
      OBVIOUS
    <3> HIDE DEF Bad
    <3> QED BY <3>1, LeastNatural
  <2>2. PICK s \in SUBSET S : Cardinality(s) = n /\ ~Any(s)
    OBVIOUS
  <2>3. PICK x \in s : sum[s] # v[x] + sum[s \ {x}]
    BY <2>2
  <2> DEFINE c == chosen(s)
             r == s \ {c}
             q == s \ {x}
             rest == s \ {c, x}
  <2>4. c \in s /\ n \in Nat \ {0} /\ Cardinality(r) = n - 1 /\ sum[s] = v[c] + sum[r]
    BY <1>1, <2>2, OneLess
  <2>5. x # c
    BY <2>3, <2>4
  <2>6. Cardinality(q) = n - 1
    <3>1. IsFiniteSet(s)
      BY FS_Subset
    <3> QED BY <2>2, <3>1, FS_RemoveElement
  <2>7. r \in SUBSET S /\ q \in SUBSET S /\ rest \in SUBSET S
        /\ r \ {x} = rest /\ q \ {c} = rest /\ x \in r /\ c \in q
    BY <2>4, <2>5
  <2> HIDE DEF c, r, q, rest
  <2>8. Any(r) /\ Any(q)
    <3>1. n - 1 \in Nat /\ ~(n <= n - 1)
      BY <2>4
    <3>2. n - 1 \notin Bad
      BY <2>1, <3>1
    <3> HIDE DEF Any
    <3> QED BY <2>4, <2>6, <2>7, <3>1, <3>2
  <2>9. sum[r] = v[x] + sum[rest] /\ sum[q] = v[c] + sum[rest]
    BY <2>7, <2>8
  <2>10. v[x] \in Int /\ v[c] \in Int /\ sum[rest] \in Int
    BY <1>2, <2>4, <2>7
  <2> QED BY <2>3, <2>4, <2>9, <2>10 DEF q
<1> HIDE DEF Any
<1>4. \A s \in SUBSET S : Any(s)
  BY <1>2, <1>3
<1> QED BY <1>4 DEF Any

(* A sum over two parts is the sum of their sums.                          *)
LEMMA SumOfParts ==
  ASSUME NEW S, IsFiniteSet(S), NEW v, \A x \in S : v[x] \in Int, NEW sum, AddsUp(sum, S, v)
  PROVE  \A a, b \in SUBSET S : a \cap b = {} => sum[a \cup b] = sum[a] + sum[b]
<1> SUFFICES ASSUME NEW b \in SUBSET S
             PROVE  \A a \in SUBSET S : a \cap b = {} => sum[a \cup b] = sum[a] + sum[b]
  OBVIOUS
<1>1. sum[{}] = 0
  BY DEF AddsUp
<1>2. \A s \in SUBSET S : sum[s] \in Int /\ Cardinality(s) \in Nat
  BY SumIsInteger, FS_Subset, FS_CardinalityType
<1>3. ASSUME NEW s \in SUBSET S, NEW x \in s
      PROVE  sum[s] = v[x] + sum[s \ {x}]
  BY SumTakesAny
<1> DEFINE Good(a) == a \cap b = {} => sum[a \cup b] = sum[a] + sum[b]
           Bad == {n \in Nat : \E s \in SUBSET S : Cardinality(s) = n /\ ~Good(s)}
<1>4. Bad = {}
  <2> SUFFICES ASSUME Bad # {} PROVE FALSE
    OBVIOUS
  <2>1. PICK n \in Bad : \A m \in Bad : n <= m
    <3>1. Bad \in SUBSET Nat
      OBVIOUS
    <3> HIDE DEF Bad
    <3> QED BY <3>1, LeastNatural
  <2>2. PICK s \in SUBSET S : Cardinality(s) = n /\ ~Good(s)
    OBVIOUS
  <2>3. s # {}
    <3> SUFFICES ASSUME s = {} PROVE FALSE
      OBVIOUS
    <3>1. sum[b] \in Int /\ {} \cup b = b
      BY <1>2
    <3>2. sum[{} \cup b] = sum[{}] + sum[b]
      BY <1>1, <3>1
    <3> QED BY <2>2, <3>2
  <2> DEFINE x == chosen(s)
             r == s \ {x}
  <2>4. x \in s /\ x \in S /\ r \in SUBSET S /\ n \in Nat \ {0} /\ Cardinality(r) = n - 1
    BY <2>2, <2>3, OneLess
  <2>5. r \cap b = {} /\ (s \cup b) \ {x} = r \cup b /\ s \cup b \in SUBSET S /\ x \in s \cup b
        /\ r \cup b \in SUBSET S
    BY <2>2, <2>4
  <2>6. sum[s] = v[x] + sum[r] /\ sum[s \cup b] = v[x] + sum[r \cup b]
    <3> DEFINE all == s \cup b
    <3>1. all \in SUBSET S /\ x \in all /\ all \ {x} = r \cup b
      BY <2>5
    <3> HIDE DEF all, x, Good, Bad
    <3>2. sum[s] = v[x] + sum[s \ {x}]
      BY <1>3, <2>4
    <3>3. sum[all] = v[x] + sum[all \ {x}]
      BY <1>3, <3>1
    <3> QED BY <3>1, <3>2, <3>3 DEF all
  <2> HIDE DEF x, r
  <2>7. Good(r)
    <3>1. n - 1 \in Nat /\ ~(n <= n - 1)
      BY <2>4
    <3>2. n - 1 \notin Bad
      BY <2>1, <3>1
    <3> HIDE DEF Good
    <3> QED BY <2>4, <3>1, <3>2
  <2>8. v[x] \in Int /\ sum[r] \in Int /\ sum[b] \in Int
    BY <1>2, <2>4
  <2> QED BY <2>2, <2>5, <2>6, <2>7, <2>8
<1> HIDE DEF Good
<1>5. \A s \in SUBSET S : Good(s)
  BY <1>2, <1>4
<1> QED BY <1>5 DEF Good

(* So is a total.                                                          *)
LEMMA TotalOfParts ==
  ASSUME NEW A, IsFiniteSet(A), NEW B, IsFiniteSet(B), A \cap B = {}, NEW field,
         \A o \in A \cup B : o[field] \in Int
  PROVE  Total(A \cup B, field) = Total(A, field) + Total(B, field)
<1> DEFINE S == A \cup B
           v == [o \in S |-> o[field]]
<1>1. IsFiniteSet(S) /\ A \in SUBSET S /\ B \in SUBSET S /\ \A x \in S : v[x] \in Int
  BY FS_Union
<1>2. PICK sum : AddsUp(sum, S, v) /\ Total(S, field) = sum[S]
  BY <1>1, TotalAddsUp
<1>3. ASSUME NEW T \in SUBSET S, IsFiniteSet(T) PROVE Total(T, field) = sum[T]
  <2> DEFINE w == [o \in T |-> o[field]]
  <2>1. PICK part : AddsUp(part, T, w) /\ Total(T, field) = part[T]
    BY <1>3, TotalAddsUp
  <2>2. \A x \in T : w[x] = v[x]
    OBVIOUS
  <2> HIDE DEF S, v, w
  <2> QED BY <1>1, <1>2, <2>1, <2>2, SumsAgree
<1> HIDE DEF v
<1>4. sum[A \cup B] = sum[A] + sum[B]
  BY <1>1, <1>2, SumOfParts
<1> QED BY <1>1, <1>2, <1>3, <1>4

(* The total of nothing, and of one.                                       *)
LEMMA TotalOfOne ==
  ASSUME NEW a, NEW field, a[field] \in Int
  PROVE  Total({}, field) = 0 /\ Total({a}, field) = a[field]
<1>1. Total({}, field) = 0
  <2>1. PICK sum : AddsUp(sum, {}, [o \in {} |-> o[field]]) /\ Total({}, field) = sum[{}]
    BY FS_EmptySet, TotalAddsUp
  <2> QED BY <2>1 DEF AddsUp
<1>2. Total({a}, field) = a[field]
  <2> DEFINE v == [o \in {a} |-> o[field]]
  <2>1. PICK sum : AddsUp(sum, {a}, v) /\ Total({a}, field) = sum[{a}]
    BY FS_Singleton, TotalAddsUp
  <2>2. chosen({a}) = a /\ {a} \ {a} = {} /\ v[a] = a[field]
    <3>1. chosen({a}) \in {a}
      BY DEF chosen
    <3> QED BY <3>1
  <2> HIDE DEF v
  <2>3. sum[{}] = 0 /\ sum[{a}] = v[a] + sum[{}]
    BY <2>1, <2>2 DEF AddsUp
  <2> QED BY <2>1, <2>2, <2>3
<1> QED BY <1>1, <1>2

(* A total of what is not negative is not negative.                        *)
LEMMA TotalNotNegative ==
  ASSUME NEW S, IsFiniteSet(S), NEW field, \A o \in S : o[field] \in Int /\ o[field] >= 0
  PROVE  Total(S, field) \in Int /\ Total(S, field) >= 0
<1>1. CASE S = {}
  <2>1. Total({}, field) = 0
    <3>1. PICK sum : AddsUp(sum, {}, [o \in {} |-> o[field]]) /\ Total({}, field) = sum[{}]
      BY FS_EmptySet, TotalAddsUp
    <3> QED BY <3>1 DEF AddsUp
  <2> QED BY <1>1, <2>1
<1>2. CASE S # {}
  <2> DEFINE hi == Max(Values(S, field))
  <2>1. IsFiniteSet(Values(S, field)) /\ Values(S, field) \in SUBSET Int /\ Values(S, field) # {}
    BY <1>2, FiniteValues DEF Values
  <2>2. hi \in Int /\ \A x \in Values(S, field) : x <= hi
    BY <2>1, Extremes
  <2> DEFINE lo == 0
  <2>3. lo \in Int /\ \A o \in S : o[field] \in Int /\ lo <= o[field] /\ o[field] <= hi
    BY <2>2 DEF Values
  <2>4. Cardinality(S) * lo = 0
    BY FS_CardinalityType
  <2> HIDE DEF hi, lo
  <2>5. Total(S, field) \in Int /\ Cardinality(S) * lo <= Total(S, field)
    BY <2>2, <2>3, TotalBounds
  <2> QED BY <2>4, <2>5
<1> QED BY <1>1, <1>2

-----------------------------------------------------------------------------
(* When.                                                                   *)

(* The aggregators for which the times of their aggregates are set, and    *)
(* the hours from one such time to the next.                               *)
Timed == {"tan12", "tax12", "tgn12", "rr_1", "rr_12", "rr_24", "ra2rr_b",
          "ra2rr_f", "ta_24", "uu_24", "nn_24", "ot_24"}

Interval(h) ==
  CASE h = "rr_1" -> 1
    [] h \in {"rr_24", "ta_24", "uu_24", "nn_24", "ot_24"} -> 24
    [] h \in {"tan12", "tax12", "tgn12", "rr_12", "ra2rr_b", "ra2rr_f"} -> 12

(* A set of integers with a lower bound has a least element.               *)
LEMMA LeastOfIntegers ==
  ASSUME NEW S, NEW b \in Int, \A s \in S : s \in Int /\ b <= s, S # {}
  PROVE  Min(S) \in S /\ \A s \in S : Min(S) <= s
<1> DEFINE T == {s - b : s \in S}
<1>1. T \in SUBSET Nat /\ T # {}
  OBVIOUS
<1>2. PICK x \in T : \A y \in T : x <= y
  <2> HIDE DEF T
  <2> QED BY <1>1, LeastNatural
<1>3. PICK z \in S : x = z - b
  OBVIOUS
<1>4. \A s \in S : z <= s
  <2> SUFFICES ASSUME NEW s \in S PROVE z <= s
    OBVIOUS
  <2>1. s - b \in T
    OBVIOUS
  <2>2. z - b <= s - b
    BY <1>2, <1>3, <2>1
  <2> QED BY <2>2
<1> QED BY <1>3, <1>4 DEF Min

(* Within its interval after any time an aggregator has one of its times.  *)
LEMMA TimeWithinInterval ==
  ASSUME NEW h \in Timed, NEW t \in Int
  PROVE  \E date \in {Date(t), Date(t) + 1}, w \in Aggregators[h].when :
           t <= At(date, 0) + w /\ At(date, 0) + w < t + Interval(h) * Hour
<1> DEFINE D == Date(t)
           m == TimeOfDay(t)
           I == Interval(h) * Hour
<1>1. D \in Int /\ m \in Int /\ 0 <= m /\ m < 1440 /\ t = 1440 * D + m
  BY DEF Date, TimeOfDay, Day, Hour
<1>2. At(D, 0) = 1440 * D /\ At(D + 1, 0) = 1440 * D + 1440
  BY <1>1 DEF At, Day, Hour
<1> HIDE DEF D, m, I
<1>3. SUFFICES \E w \in Aggregators[h].when :
        \/ w \in Int /\ m <= w /\ w < m + I
        \/ w \in Int /\ m <= w + 1440 /\ w + 1440 < m + I
  <2>1. PICK w \in Aggregators[h].when :
          \/ w \in Int /\ m <= w /\ w < m + I
          \/ w \in Int /\ m <= w + 1440 /\ w + 1440 < m + I
    BY <1>3
  <2>2. I \in Int
    BY DEF I, Interval, Hour, Timed
  <2>3. CASE w \in Int /\ m <= w /\ w < m + I
    <3>1. t <= At(D, 0) + w /\ At(D, 0) + w < t + I
      BY <1>1, <1>2, <2>2, <2>3
    <3> QED BY <3>1 DEF D, I
  <2>4. CASE w \in Int /\ m <= w + 1440 /\ w + 1440 < m + I
    <3>1. t <= At(D + 1, 0) + w /\ At(D + 1, 0) + w < t + I
      BY <1>1, <1>2, <2>2, <2>4
    <3> QED BY <3>1 DEF D, I
  <2> QED BY <2>1, <2>3, <2>4
<1>4. CASE h = "rr_24"
  <2>1. Aggregators[h].when = {360} /\ I = 1440
    BY <1>4 DEF Aggregators, Standard, rr_24, sixAm, I, Interval, Hour
  <2> QED BY <1>1, <2>1
<1>5. CASE h \in {"ta_24", "uu_24", "nn_24"}
  <2>1. Aggregators[h].when = {1380} /\ I = 1440
    BY <1>5 DEF Aggregators, Standard, Mean, ta_24, uu_24, nn_24, elevenPm, I, Interval, Hour
  <2> QED BY <1>1, <2>1
<1>6. CASE h = "ot_24"
  <2>1. Aggregators[h].when = {0} /\ I = 1440
    BY <1>6 DEF Aggregators, Standard, ot_24, midnight, I, Interval, Hour
  <2> QED BY <1>1, <2>1
<1>7. CASE h \in {"tan12", "tax12", "tgn12", "rr_12", "ra2rr_b", "ra2rr_f"}
  <2>1. Aggregators[h].when = {360, 1080} /\ I = 720
    BY <1>7 DEF Aggregators, Standard, rr_12, ra2rr_12, sixAmSixPm, I, Interval, Hour
  <2> QED BY <1>1, <2>1
<1>8. CASE h = "rr_1"
  <2>1. Aggregators[h].when = {k * 60 : k \in 0..23} /\ I = 60
    BY <1>8 DEF Aggregators, Standard, rr_1, allHours, I, Interval, Hour
  <2>2. PICK k \in Int : m <= 60 * k /\ 60 * k < m + 60
    <3>1. (m + 59) \div 60 \in Int /\ 60 * ((m + 59) \div 60) <= m + 59 /\ m + 59 < 60 * ((m + 59) \div 60) + 60
      BY <1>1
    <3> QED BY <1>1, <3>1
  <2>3. k \in 0..24
    BY <1>1, <2>2
  <2>4. CASE k = 24
    <3>1. 0 \in Aggregators[h].when
      BY <2>1
    <3>2. m <= 1440 /\ 1440 < m + I
      BY <1>1, <2>1, <2>2, <2>4
    <3> QED BY <3>1, <3>2
  <2>5. CASE k # 24
    <3>1. k * 60 \in Aggregators[h].when
      BY <2>1, <2>3, <2>5
    <3>2. k * 60 \in Int /\ m <= k * 60 /\ k * 60 < m + I
      BY <1>1, <2>1, <2>2
    <3> QED BY <3>1, <3>2
  <2> QED BY <2>4, <2>5
<1> QED BY <1>4, <1>5, <1>6, <1>7, <1>8 DEF Timed

(* The time of the aggregate is the next of the aggregator's times.        *)
LEMMA GeneratedTime ==
  ASSUME NEW h \in Timed, NEW t \in Int
  PROVE  /\ GenerateTime(h, t) \in Int
         /\ t <= GenerateTime(h, t) /\ GenerateTime(h, t) < t + Interval(h) * Hour
<1> DEFINE W == Aggregators[h].when
           A == {At(date, 0) + w : date \in {Date(t), Date(t) + 1}, w \in W}
           G == {g \in A : t <= g}
<1>1. W \subseteq Int
  BY DEF Timed, Aggregators, Standard, Mean, rr_1, rr_12, rr_24, ra2rr_12, ta_24, uu_24, nn_24, ot_24,
         allHours, sixAmSixPm, sixAm, elevenPm, midnight, Hour
<1>2. \A date \in {Date(t), Date(t) + 1} : At(date, 0) \in Int
  BY DEF At, Date, Day, Hour
<1>3. PICK date \in {Date(t), Date(t) + 1}, w \in W :
        t <= At(date, 0) + w /\ At(date, 0) + w < t + Interval(h) * Hour
  BY TimeWithinInterval
<1> HIDE DEF W
<1>4. At(date, 0) + w \in G /\ \A g \in G : g \in Int /\ t <= g
  BY <1>1, <1>2, <1>3
<1> HIDE DEF G
<1>5. Min(G) \in G /\ Min(G) <= At(date, 0) + w
  BY <1>4, LeastOfIntegers
<1>6. Interval(h) * Hour \in Int
  BY DEF Interval, Hour, Timed
<1>7. GenerateTime(h, t) = Min(G)
  BY DEF GenerateTime, G, W
<1> QED BY <1>1, <1>2, <1>3, <1>4, <1>5, <1>6, <1>7

(* The time of an aggregate is one of the aggregator's times of the day.   *)
LEMMA GeneratedOnDate ==
  ASSUME NEW h \in Timed, NEW t \in Int
  PROVE  \E date \in Int, w \in Aggregators[h].when : GenerateTime(h, t) = At(date, 0) + w
<1> DEFINE W == Aggregators[h].when
           A == {At(date, 0) + w : date \in {Date(t), Date(t) + 1}, w \in W}
           G == {g \in A : t <= g}
<1>1. Date(t) \in Int
  BY DEF Date, Day, Hour
<1>2. \E g \in A : t <= g
  BY TimeWithinInterval
<1>3. \A g \in A : g \in Int
  <2>1. W \subseteq Int
    BY DEF Timed, Aggregators, Standard, Mean, rr_1, rr_12, rr_24, ra2rr_12, ta_24, uu_24, nn_24, ot_24,
           allHours, sixAmSixPm, sixAm, elevenPm, midnight, Hour
  <2> HIDE DEF W
  <2> QED BY <1>1, <2>1 DEF At, Day, Hour
<1> HIDE DEF W
<1>4. G # {} /\ \A g \in G : g \in Int /\ t <= g
  BY <1>2, <1>3
<1>5. \A g \in G : \E date \in Int, w \in W : g = At(date, 0) + w
  BY <1>1
<1>6. GenerateTime(h, t) = Min(G)
  BY DEF GenerateTime, W
<1> HIDE DEF G, A
<1>7. Min(G) \in G
  BY <1>4, LeastOfIntegers
<1> QED BY <1>5, <1>6, <1>7 DEF W

(* Whatever the datum that triggers an aggregator, and whenever it is      *)
(* from, it lies in the period whose observations are read for it, the     *)
(* period after it included that ra2rr_12_forward looks at.                *)
THEOREM TriggerInSpan ==
  ASSUME NEW h \in DOMAIN Aggregators, NEW t \in Int
  PROVE  InSpan(t, TimeSpan(h, t))
<1>1. CASE h = "po"
  BY <1>1 DEF TimeSpan, InSpan
<1>2. CASE h # "po"
  <2> DEFINE g == GenerateTime(h, t)
  <2>1. h \in Timed
    BY <1>2 DEF Aggregators, Timed
  <2>2. g \in Int /\ t <= g /\ g < t + Interval(h) * Hour
    BY <2>1, GeneratedTime
  <2> HIDE DEF g
  <2>3. CASE h = "ra2rr_f"
    <3>1. Interval(h) * Hour = 720 /\ Aggregators[h].hours * Hour = 1500
      BY <2>3 DEF Interval, Hour, Aggregators, Standard, ra2rr_12
    <3>2. TimeSpan(h, t) = <<g - 1500 + 780, g + 720>>
      BY <2>3, <3>1 DEF TimeSpan, ForwardSpan, StandardSpan, Hour, g
    <3> QED BY <2>2, <3>1, <3>2 DEF InSpan
  <2>4. CASE h # "ra2rr_f"
    <3>1. /\ Aggregators[h].hours * Hour \in Int /\ Interval(h) * Hour \in Int
          /\ Interval(h) * Hour <= Aggregators[h].hours * Hour
      BY <2>1 DEF Timed, Interval, Hour, Aggregators, Standard, Mean, rr_1, rr_12, rr_24, ra2rr_12,
                  ta_24, uu_24, nn_24, ot_24
    <3>2. TimeSpan(h, t) = <<g - Aggregators[h].hours * Hour, g>>
      BY <1>2, <2>4 DEF TimeSpan, StandardSpan, g
    <3> QED BY <2>2, <3>1, <3>2 DEF InSpan
  <2> QED BY <2>3, <2>4
<1> QED BY <1>1, <1>2

-----------------------------------------------------------------------------
(* Which.                                                                  *)

(* Observations of one parameter and type, in the period of a trigger.     *)
Series(h, t, obs) ==
  /\ obs \subseteq Data /\ IsFiniteSet(obs)
  /\ \A o \in obs : InSpan(o.time, TimeSpan(h, t))
  /\ \A a, b \in obs : a.time = b.time => a = b

(* The elements of a set of three.                                         *)
LEMMA ThreeElements ==
  ASSUME NEW S, IsFiniteSet(S), Cardinality(S) = 3
  PROVE  \E a, b, c \in S : a # b /\ a # c /\ b # c /\ S = {a, b, c}
<1>1. S # {}
  BY FS_EmptySet
<1>2. PICK a \in S : TRUE
  BY <1>1
<1> DEFINE R == S \ {a}
<1>3. IsFiniteSet(R) /\ Cardinality(R) = 2
  BY FS_RemoveElement
<1>4. PICK b \in R : TRUE
  <2> HIDE DEF R
  <2> QED BY <1>3, FS_EmptySet
<1> DEFINE Q == R \ {b}
<1>5. Cardinality(Q) = 1 /\ IsFiniteSet(Q)
  <2> HIDE DEF R
  <2> QED BY <1>3, <1>4, FS_RemoveElement
<1>6. PICK c : Q = {c}
  <2> HIDE DEF Q
  <2> QED BY <1>5, FS_Singleton
<1> QED BY <1>4, <1>6

(* Times at sixes are twelve hours apart.                                  *)
LEMMA SixesApart ==
  ASSUME NEW t \in Int, TimeOfDay(t) \in sixAmSixPm
  PROVE  \E k \in Int : t = 720 * k + 360
<1>1. t = 1440 * (t \div 1440) + (t % 1440) /\ t \div 1440 \in Int /\ t % 1440 \in {360, 1080}
  BY DEF TimeOfDay, Day, Hour, sixAmSixPm
<1> DEFINE q == t \div 1440
<1> HIDE DEF q
<1>2. CASE t % 1440 = 360
  <2>1. t = 720 * (2 * q) + 360 /\ 2 * q \in Int
    BY <1>1, <1>2 DEF q
  <2> QED BY <2>1
<1>3. CASE t % 1440 = 1080
  <2>1. t = 720 * (2 * q + 1) + 360 /\ 2 * q + 1 \in Int
    BY <1>1, <1>3 DEF q
  <2> QED BY <2>1
<1> QED BY <1>1, <1>2, <1>3

(* Finitely many observations have finitely many times.                    *)
LEMMA FiniteTimes ==
  ASSUME NEW S \in SUBSET Data, IsFiniteSet(S)
  PROVE  IsFiniteSet(Times(S)) /\ Times(S) \subseteq Int
<1> DEFINE f == [o \in S |-> o.time]
<1>1. f \in Surjection(S, Times(S))
  BY DEF Surjection, Times
<1> QED BY <1>1, FS_Surjection DEF Times, Data

(* ra2rr_12 finds the levels it computes with: two or three levels at      *)
(* sixes within its period are twelve hours apart.                         *)
LEMMA GaugeLevels ==
  ASSUME NEW h \in GaugeAggregators, NEW t \in Int, NEW obs, Series(h, t, obs),
         GaugePeriods(AtSixes(obs)), NEW hours \in {0, 12} \cup {n \in {24} : Cardinality(AtSixes(obs)) = 3}
  PROVE  \E o \in AtSixes(obs) : o.time = Max(Times(AtSixes(obs))) - hours * Hour
<1> DEFINE S == AtSixes(obs)
           M == Max(Times(S))
<1>1. S \in SUBSET Data /\ IsFiniteSet(S)
      /\ \A a, b \in S : a.time = b.time => a = b
  BY FS_Subset DEF AtSixes, Series
<1>2. \A o \in S : o.time \in Int /\ \E k \in Int : o.time = 720 * k + 360
  <2>1. \A o \in S : o.time \in Int /\ TimeOfDay(o.time) \in sixAmSixPm
    BY <1>1 DEF AtSixes, Data
  <2> QED BY <2>1, SixesApart
<1>3. Cardinality(S) \in {2, 3} /\ S # {}
  BY FS_EmptySet DEF GaugePeriods
<1>4. /\ M \in Times(S) /\ \A o \in S : o.time <= M
      /\ Min(Times(S)) \in Times(S)
  <2>1. Times(S) # {}
    BY <1>3 DEF Times
  <2>2. IsFiniteSet(Times(S)) /\ Times(S) \in SUBSET Int
    BY <1>1, FiniteTimes
  <2>3. \A o \in S : o.time \in Times(S)
    BY DEF Times
  <2> HIDE DEF S
  <2> QED BY <2>1, <2>2, <2>3, Extremes
<1>5. PICK last \in S : last.time = M
  BY <1>4 DEF Times
<1>6. CASE hours = 0
  BY <1>2, <1>5, <1>6 DEF Hour
<1>7. CASE hours = 12 /\ Cardinality(S) = 2
  <2>1. M - Min(Times(S)) = 12 * Hour
    BY <1>7 DEF GaugePeriods
  <2>2. PICK first \in S : first.time = Min(Times(S))
    BY <1>4 DEF Times
  <2>3. first.time = M - hours * Hour
    BY <1>2, <1>5, <1>7, <2>1, <2>2 DEF Hour
  <2> QED BY <2>3
<1>8. CASE hours \in {12, 24} /\ Cardinality(S) = 3
  <2>1. \A a, b \in S : a.time < b.time + 1500
    <3>1. GenerateTime("ra2rr_f", t) \in Int /\ GenerateTime("ra2rr_b", t) \in Int
      BY GeneratedTime DEF Timed
    <3>2. TimeSpan(h, t)[1] \in Int /\ TimeSpan(h, t)[2] \in Int /\ TimeSpan(h, t)[2] <= TimeSpan(h, t)[1] + 1500
      BY <3>1 DEF GaugeAggregators, TimeSpan, ForwardSpan, StandardSpan, Aggregators, Standard, ra2rr_12, Hour
    <3> HIDE DEF S
    <3>3. S \subseteq obs
      BY DEF S, AtSixes
    <3> QED BY <1>2, <3>2, <3>3 DEF Series, InSpan
  <2>2. PICK a, b, c \in S : a # b /\ a # c /\ b # c /\ S = {a, b, c}
    <3> HIDE DEF S
    <3> QED BY <1>1, <1>8, ThreeElements
  <2>3. PICK ka \in Int : a.time = 720 * ka + 360
    BY <1>2
  <2>4. PICK kb \in Int : b.time = 720 * kb + 360
    BY <1>2
  <2>5. PICK kc \in Int : c.time = 720 * kc + 360
    BY <1>2
  <2>6. ka # kb /\ ka # kc /\ kb # kc
    BY <1>1, <2>2, <2>3, <2>4, <2>5
  <2>7. /\ 720 * ka < 720 * kb + 1500 /\ 720 * ka < 720 * kc + 1500
        /\ 720 * kb < 720 * ka + 1500 /\ 720 * kb < 720 * kc + 1500
        /\ 720 * kc < 720 * ka + 1500 /\ 720 * kc < 720 * kb + 1500
    BY <2>1, <2>3, <2>4, <2>5
  <2>8. /\ M = 720 * ka + 360 \/ M = 720 * kb + 360 \/ M = 720 * kc + 360
        /\ 720 * ka + 360 <= M /\ 720 * kb + 360 <= M /\ 720 * kc + 360 <= M
    <3> HIDE DEF M
    <3> QED BY <1>4, <1>5, <2>2, <2>3, <2>4, <2>5
  <2>9. hours * Hour \in {720, 1440}
    BY <1>8 DEF Hour
  <2> HIDE DEF M, S
  <2>10. \/ 720 * ka + 360 = M - hours * Hour
         \/ 720 * kb + 360 = M - hours * Hour
         \/ 720 * kc + 360 = M - hours * Hour
    BY <2>6, <2>7, <2>8, <2>9
  <2> QED BY <2>2, <2>3, <2>4, <2>5, <2>10 DEF S, M
<1> QED BY <1>3, <1>6, <1>7, <1>8

(* The selections, aggregator by aggregator.                               *)
LEMMA UsefulCases ==
  ASSUME NEW h \in Timed, NEW t, NEW obs
  PROVE  /\ h \in MinMaxAggregators => Useful(h, t, obs) = {s \in {obs} : Enough(h, s) /\ WithinSpan(h, t, s)}
         /\ h = "rr_1" => Useful(h, t, obs) = {obs}
         /\ h = "rr_12" => Useful(h, t, obs) = {s \in {obs} : Enough(h, s)}
         /\ h = "rr_24" => Useful(h, t, obs) = {s \in {AtSixes(obs)} : BothSixes(t, obs)}
         /\ h \in GaugeAggregators =>
              Useful(h, t, obs) = {s \in {AtSixes(obs)} : GaugeReady(t, obs) /\ GaugePeriods(s)}
         /\ h = "ta_24" => Useful(h, t, obs) = KoppenUseful(t, FullHours(obs))
         /\ h = "uu_24" => Useful(h, t, obs) = KoppenUseful(t, obs)
         /\ h = "nn_24" =>
              Useful(h, t, obs) = {s \in {CloudUseful(t, obs)} : Cardinality(obs) >= 3 /\ Cardinality(s) = 3}
         /\ h = "ot_24" => Useful(h, t, obs) = {s \in {FullHours(obs)} : Enough(h, s)}
<1>1. CASE h \in MinMaxAggregators
  <2>1. h \notin GaugeAggregators /\ h \notin {"rr_1", "rr_12", "rr_24", "ta_24", "uu_24", "nn_24", "ot_24"}
    BY <1>1 DEF MinMaxAggregators, MinAggregators, GaugeAggregators
  <2> QED BY <1>1, <2>1 DEF Useful
<1>2. CASE h \in GaugeAggregators
  <2>1. h \notin MinMaxAggregators /\ h \notin {"rr_1", "rr_12", "rr_24", "ta_24", "uu_24", "nn_24", "ot_24"}
    BY <1>2 DEF MinMaxAggregators, MinAggregators, GaugeAggregators
  <2> QED BY <1>2, <2>1 DEF Useful
<1>3. CASE h \notin MinMaxAggregators /\ h \notin GaugeAggregators
  BY <1>3 DEF Useful
<1> QED BY <1>1, <1>2, <1>3

(* What the selections of an aggregator have in common.                    *)
LEMMA UsefulObservations ==
  ASSUME NEW h \in Timed, NEW t, NEW obs, NEW useful \in Useful(h, t, obs)
  PROVE  useful \subseteq obs
<1>1. CASE h \in MinMaxAggregators \cup {"rr_1", "rr_12"}
  BY <1>1, UsefulCases
<1>2. CASE h \in {"rr_24"} \cup GaugeAggregators
  BY <1>2, UsefulCases DEF AtSixes
<1>3. CASE h = "ta_24"
  <2>1. useful \in KoppenUseful(t, FullHours(obs))
    BY <1>3, UsefulCases
  <2>2. useful \subseteq FullHours(obs)
    BY <2>1 DEF KoppenUseful, kSubset
  <2> QED BY <2>2 DEF FullHours
<1>4. CASE h = "uu_24"
  <2>1. useful \in KoppenUseful(t, obs)
    BY <1>4, UsefulCases
  <2> QED BY <2>1 DEF KoppenUseful, kSubset
<1>5. CASE h \in {"nn_24", "ot_24"}
  <2>1. useful \in {CloudUseful(t, obs), FullHours(obs)}
    BY <1>5, UsefulCases
  <2> QED BY <2>1 DEF CloudUseful, FullHours
<1> QED BY <1>1, <1>2, <1>3, <1>4, <1>5
        DEF Timed, MinMaxAggregators, MinAggregators, GaugeAggregators

(* And how many there are of them.                                         *)
LEMMA UsefulNumbers ==
  ASSUME NEW h \in Timed, NEW t, NEW obs, NEW useful \in Useful(h, t, obs)
  PROVE  /\ h \in MinMaxAggregators => Cardinality(useful) >= 12
         /\ h \in GaugeAggregators => useful = AtSixes(obs) /\ GaugePeriods(useful)
         /\ h \in {"ta_24", "uu_24"} => Cardinality(useful) \in {3, 8, 24}
         /\ h = "nn_24" => Cardinality(useful) = 3
<1>1. h \in MinMaxAggregators => Cardinality(useful) >= 12
  <2> SUFFICES ASSUME h \in MinMaxAggregators PROVE Cardinality(useful) >= 12
    OBVIOUS
  <2>1. Enough(h, useful)
    BY UsefulCases
  <2>2. Aggregators[h].hours = 12
    BY DEF MinMaxAggregators, MinAggregators, Aggregators, Standard
  <2> QED BY <2>1, <2>2 DEF Enough
<1>2. h \in GaugeAggregators => useful = AtSixes(obs) /\ GaugePeriods(useful)
  BY UsefulCases
<1>3. h \in {"ta_24", "uu_24"} => Cardinality(useful) \in {3, 8, 24}
  <2> SUFFICES ASSUME h \in {"ta_24", "uu_24"} PROVE Cardinality(useful) \in {3, 8, 24}
    OBVIOUS
  <2>1. PICK X : useful \in KoppenUseful(t, X)
    BY UsefulCases
  <2> QED BY <2>1 DEF KoppenUseful, kSubset, MeanReady
<1>4. h = "nn_24" => Cardinality(useful) = 3
  BY UsefulCases
<1> QED BY <1>1, <1>2, <1>3, <1>4

(* Of three observations one is in the middle.                             *)
LEMMA ThreeInOrder ==
  ASSUME NEW S \in SUBSET Data, IsFiniteSet(S), Cardinality(S) = 3,
         \A a, b \in S : a.time = b.time => a = b
  PROVE  \E a, b, c \in S : a.time < b.time /\ b.time < c.time /\ S = {a, b, c}
<1>1. PICK x, y, z \in S : x # y /\ x # z /\ y # z /\ S = {x, y, z}
  BY ThreeElements
<1>2. x.time \in Int /\ y.time \in Int /\ z.time \in Int
  BY DEF Data
<1>3. x.time # y.time /\ x.time # z.time /\ y.time # z.time
  BY <1>1
<1>4. CASE x.time < y.time /\ y.time < z.time
  BY <1>1, <1>4
<1>5. CASE x.time < z.time /\ z.time < y.time
  BY <1>1, <1>5
<1>6. CASE y.time < x.time /\ x.time < z.time
  BY <1>1, <1>6
<1>7. CASE y.time < z.time /\ z.time < x.time
  BY <1>1, <1>7
<1>8. CASE z.time < x.time /\ x.time < y.time
  BY <1>1, <1>8
<1>9. CASE z.time < y.time /\ y.time < x.time
  BY <1>1, <1>9
<1>10.
      \/ x.time < y.time /\ y.time < z.time
      \/ x.time < z.time /\ z.time < y.time
      \/ y.time < x.time /\ x.time < z.time
      \/ y.time < z.time /\ z.time < x.time
      \/ z.time < x.time /\ x.time < y.time
      \/ z.time < y.time /\ y.time < x.time
  BY <1>2, <1>3
<1> QED BY <1>4, <1>5, <1>6, <1>7, <1>8, <1>9, <1>10

(* Koppen's formulas weigh the observations, and the lowest temperature,   *)
(* with weights that are not negative.                                     *)
LEMMA TemperatureBetween ==
  ASSUME NEW obs, IsFiniteSet(obs), Cardinality(obs) = 3, NEW field,
         NEW lo \in Int, NEW hi \in Int, NEW factor \in 0..100, NEW low \in Int,
         \A o \in obs : o[field] \in Int /\ lo <= o[field] /\ o[field] <= hi,
         lo <= low, low <= hi
  PROVE  LET mean == TemperatureKoppen(obs, field, factor, low)
         IN  lo * 300 <= mean[1] /\ mean[1] <= hi * 300
<1> DEFINE T == Total(obs, field)
           g == 100 - factor
<1>1. T \in Int /\ 3 * lo <= T /\ T <= 3 * hi
  BY TotalBounds
<1> HIDE DEF T
<1>2. g \in Nat /\ g + factor = 100
  OBVIOUS
<1>3. 100 * T - factor * (T - 3 * low) = g * T + 3 * (factor * low)
  BY <1>1
<1> HIDE DEF g
<1>4. g * (3 * lo) <= g * T /\ g * T <= g * (3 * hi)
  BY <1>1, <1>2
<1>5. factor * lo <= factor * low /\ factor * low <= factor * hi
  OBVIOUS
<1>6. g * (3 * lo) + 3 * (factor * lo) = lo * 300 /\ g * (3 * hi) + 3 * (factor * hi) = hi * 300
  BY <1>2
<1>7. g * T \in Int /\ g * (3 * lo) \in Int /\ g * (3 * hi) \in Int
      /\ factor * lo \in Int /\ factor * low \in Int /\ factor * hi \in Int
  BY <1>1, <1>2
<1>8. lo * 300 <= g * T + 3 * (factor * low) /\ g * T + 3 * (factor * low) <= hi * 300
  BY <1>4, <1>5, <1>6, <1>7
<1> QED BY <1>3, <1>8 DEF TemperatureKoppen, T

(* Koppen's mean of wind speeds is between the least and the greatest.     *)
LEMMA WindBetween ==
  ASSUME NEW obs \in SUBSET Data, IsFiniteSet(obs), Cardinality(obs) = 3, NEW field,
         NEW lo \in Int, NEW hi \in Int, NEW factor \in 0..100,
         \A a, b \in obs : a.time = b.time => a = b,
         \A o \in obs : o[field] \in Int /\ lo <= o[field] /\ o[field] <= hi
  PROVE  LET mean == WindKoppen(obs, field, factor)
         IN  lo * 200 <= mean[1] /\ mean[1] <= hi * 200
<1> DEFINE noon == {o \in obs : \E p, q \in obs : p.time < o.time /\ o.time < q.time}
           s == Total(obs \ noon, field)
           m == Total(noon, field)
           g == 100 - factor
<1>1. PICK a, b, c \in obs : a.time < b.time /\ b.time < c.time /\ obs = {a, b, c}
  BY ThreeInOrder
<1>2. a.time \in Int /\ b.time \in Int /\ c.time \in Int
  BY DEF Data
<1>3. noon = {b}
  BY <1>1, <1>2
<1> HIDE DEF noon
<1>4. /\ IsFiniteSet(noon) /\ Cardinality(noon) = 1
      /\ IsFiniteSet(obs \ noon) /\ Cardinality(obs \ noon) = 2
  <2>1. IsFiniteSet(noon) /\ Cardinality(noon) = 1
    BY <1>3, FS_Singleton
  <2>2. IsFiniteSet(obs \ {b}) /\ Cardinality(obs \ {b}) = 3 - 1
    BY FS_RemoveElement
  <2> QED BY <1>3, <2>1, <2>2
<1>5. m \in Int /\ lo <= m /\ m <= hi
  <2>1. m \in Int /\ 1 * lo <= m /\ m <= 1 * hi
    BY <1>3, <1>4, TotalBounds
  <2> HIDE DEF m
  <2> QED BY <2>1
<1>6. s \in Int /\ 2 * lo <= s /\ s <= 2 * hi
  BY <1>4, TotalBounds
<1> HIDE DEF s, m
<1>7. g \in Nat /\ g + factor = 100
  OBVIOUS
<1>8. 100 * s + factor * (2 * m - s) = g * s + 2 * (factor * m)
  BY <1>5, <1>6
<1> HIDE DEF g
<1>9. g * (2 * lo) <= g * s /\ g * s <= g * (2 * hi)
  BY <1>6, <1>7
<1>10. factor * lo <= factor * m /\ factor * m <= factor * hi
  BY <1>5
<1>11. g * (2 * lo) + 2 * (factor * lo) = lo * 200 /\ g * (2 * hi) + 2 * (factor * hi) = hi * 200
  BY <1>7
<1>12. g * s \in Int /\ g * (2 * lo) \in Int /\ g * (2 * hi) \in Int
      /\ factor * lo \in Int /\ factor * m \in Int /\ factor * hi \in Int
  BY <1>5, <1>6, <1>7
<1>13. lo * 200 <= g * s + 2 * (factor * m) /\ g * s + 2 * (factor * m) <= hi * 200
  BY <1>9, <1>10, <1>11, <1>12
<1> QED BY <1>8, <1>13 DEF WindKoppen, noon, s, m

-----------------------------------------------------------------------------
(* What.                                                                   *)

(* Rain made of the levels of a gauge is never negative, however the       *)
(* levels fall, and to know the level of a day ago never makes it more     *)
(* (the branches of ra2rr_12::calculate).                                  *)
THEOREM GaugeRainBounded ==
  ASSUME NEW level \in Int, NEW half \in Int, NEW day \in Int
  PROVE  /\ GaugeOfTwo(level, half) >= 0 /\ GaugeOfThree(level, half, day) >= 0
         /\ GaugeOfThree(level, half, day) <= GaugeOfTwo(level, half)
BY DEF GaugeOfTwo, GaugeOfThree

(* Rounding goes to the nearest tenth (AbstractAggregator's round).       *)
THEOREM RoundsToNearest ==
  ASSUME NEW num \in Int, NEW den \in Nat \ {0}
  PROVE  /\ Round(<<num, den>>) \in Int
         /\ 2 * Abs(Round(<<num, den>>) * den - num) <= den
<1> DEFINE n == Abs(num)
           q == (2 * n + den) \div (2 * den)
<1>1. n \in Nat /\ (num < 0 => num = -n) /\ (num >= 0 => num = n)
  BY DEF Abs
<1> HIDE DEF n
<1>2. q \in Int /\ (2 * den) * q <= 2 * n + den /\ 2 * n + den < (2 * den) * q + 2 * den
  BY <1>1
<1>3. Round(<<num, den>>) = IF num < 0 THEN -q ELSE q
  BY DEF Round, q, n
<1> HIDE DEF q
<1>4. q * den \in Int /\ (2 * den) * q = 2 * (q * den) /\ (-q) * den = -(q * den)
  BY <1>2
<1>5. CASE num < 0
  <2>1. Round(<<num, den>>) * den - num = n - q * den
    BY <1>1, <1>3, <1>4, <1>5
  <2>2. 2 * Abs(n - q * den) <= den
    BY <1>1, <1>2, <1>4 DEF Abs
  <2> QED BY <1>2, <1>3, <1>5, <2>1, <2>2
<1>6. CASE num >= 0
  <2>1. Round(<<num, den>>) * den - num = q * den - n
    BY <1>1, <1>3, <1>4, <1>6
  <2>2. 2 * Abs(q * den - n) <= den
    BY <1>1, <1>2, <1>4 DEF Abs
  <2> QED BY <1>2, <1>3, <1>6, <2>1, <2>2
<1> QED BY <1>5, <1>6

(* Rounding does not leave bounds that are integers.                       *)
LEMMA RoundBetween ==
  ASSUME NEW num \in Int, NEW den \in Nat \ {0}, NEW lo \in Int, NEW hi \in Int,
         lo * den <= num, num <= hi * den
  PROVE  lo <= Round(<<num, den>>) /\ Round(<<num, den>>) <= hi
<1> DEFINE r == Round(<<num, den>>)
<1>1. r \in Int /\ 2 * Abs(r * den - num) <= den
  BY RoundsToNearest
<1> HIDE DEF r
<1>2. r * den \in Int /\ lo * den \in Int /\ hi * den \in Int
  BY <1>1
<1>3. 2 * (r * den) <= 2 * num + den /\ 2 * num <= 2 * (r * den) + den
  BY <1>1, <1>2 DEF Abs
<1>4. r <= hi
  <2> SUFFICES ASSUME hi + 1 <= r PROVE FALSE
    BY <1>1
  <2>1. (hi + 1) * den <= r * den
    BY <1>1
  <2>2. (hi + 1) * den = hi * den + den
    OBVIOUS
  <2> QED BY <1>2, <1>3, <2>1, <2>2
<1>5. lo <= r
  <2> SUFFICES ASSUME r + 1 <= lo PROVE FALSE
    BY <1>1
  <2>1. (r + 1) * den <= lo * den
    BY <1>1
  <2>2. (r + 1) * den = r * den + den
    BY <1>1
  <2> QED BY <1>2, <1>3, <2>1, <2>2
<1> QED BY <1>4, <1>5 DEF r

(* The formulas, aggregator by aggregator.                                 *)
LEMMA CalculateCases ==
  ASSUME NEW h \in Timed, NEW obs, NEW field, NEW extra
  PROVE  LET result == Calculate(h, obs, field, extra)
         IN  /\ h \in MinMaxAggregators => result = <<Extreme(h, obs, field), 1>>
             /\ h = "rr_1" => result = <<RainOfParts(obs, field), 1>>
             /\ h \in {"rr_12", "rr_24"} => result = <<RainSum(obs, field), 1>>
             /\ h \in GaugeAggregators => result = <<GaugeRain(obs, field), 1>>
             /\ h = "ta_24" /\ Cardinality(obs) = 3 =>
                  result = TemperatureKoppen(obs, field, extra.factor, extra.low[field])
             /\ h = "uu_24" /\ Cardinality(obs) = 3 => result = WindKoppen(obs, field, extra.factor)
             /\ h \in {"ta_24", "uu_24"} /\ Cardinality(obs) # 3 => result = Average(obs, field)
             /\ h = "nn_24" => result = CloudAverage(obs, field)
             /\ h = "ot_24" => result = <<Total(obs, field), 1>>
<1>1. CASE h \in MinMaxAggregators
  <2>1. h \notin GaugeAggregators /\ h \notin {"rr_1", "rr_12", "rr_24", "ta_24", "uu_24", "nn_24", "ot_24"}
    BY <1>1 DEF MinMaxAggregators, MinAggregators, GaugeAggregators
  <2> QED BY <1>1, <2>1 DEF Calculate
<1>2. CASE h \in GaugeAggregators
  <2>1. h \notin MinMaxAggregators /\ h \notin {"rr_1", "rr_12", "rr_24", "ta_24", "uu_24", "nn_24", "ot_24"}
    BY <1>2 DEF MinMaxAggregators, MinAggregators, GaugeAggregators
  <2> QED BY <1>2, <2>1 DEF Calculate
<1>3. CASE h \notin MinMaxAggregators /\ h \notin GaugeAggregators
  BY <1>3 DEF Calculate
<1> QED BY <1>1, <1>2, <1>3

Fraction == Int \X (Nat \ {0})

(* The rain of a gauge, from two levels or three, is an integer.           *)
LEMMA GaugeRainIsInteger ==
  ASSUME NEW h \in GaugeAggregators, NEW t \in Int, NEW obs, Series(h, t, obs),
         GaugePeriods(AtSixes(obs)), NEW field, \A o \in obs : o[field] \in Int
  PROVE  GaugeRain(AtSixes(obs), field) \in Int
<1> DEFINE S == AtSixes(obs)
           level(hours) == (CHOOSE o \in S : o.time = Max(Times(S)) - hours * Hour)[field]
<1>1. \A o \in S : o[field] \in Int
  BY DEF AtSixes
<1>2. ASSUME NEW hours \in {0, 12} \cup {n \in {24} : Cardinality(S) = 3}
      PROVE  level(hours) \in Int
  <2>1. \E o \in S : o.time = Max(Times(S)) - hours * Hour
    BY GaugeLevels
  <2> HIDE DEF S
  <2> QED BY <1>1, <2>1
<1>3. Cardinality(S) = 2 \/ Cardinality(S) = 3
  BY DEF GaugePeriods
<1>4. GaugeRain(S, field) = IF Cardinality(S) = 2 THEN GaugeOfTwo(level(0), level(12))
                            ELSE GaugeOfThree(level(0), level(12), level(24))
  BY DEF GaugeRain
<1>5. level(0) \in Int /\ level(12) \in Int
  BY <1>2
<1>6. Cardinality(S) = 3 => level(24) \in Int
  BY <1>2
<1> HIDE DEF level, S
<1>7. CASE Cardinality(S) = 2
  BY <1>4, <1>5, <1>7 DEF GaugeOfTwo, S
<1>8. CASE Cardinality(S) = 3
  BY <1>4, <1>5, <1>6, <1>8 DEF GaugeOfThree, S
<1> QED BY <1>3, <1>7, <1>8

(* Whatever is selected, the formula of the aggregator can be evaluated:   *)
(* nothing is taken from an empty list, and nothing divided by zero.       *)
LEMMA CalculateYieldsFraction ==
  ASSUME NEW h \in Timed, NEW t \in Int, NEW obs, Series(h, t, obs), NEW useful \in Useful(h, t, obs),
         NEW field, \A o \in obs : o[field] \in Int,
         NEW extra, extra.factor \in Int, extra.low[field] \in Int
  PROVE  Calculate(h, useful, field, extra) \in Fraction
<1>1. /\ useful \subseteq obs /\ useful \in SUBSET Data /\ IsFiniteSet(useful)
      /\ \A o \in useful : o[field] \in Int
  BY UsefulObservations, FS_Subset DEF Series
<1>2. Total(useful, field) \in Int
  BY <1>1, TotalIsInteger
<1>3. CASE h \in MinMaxAggregators
  <2>1. useful # {}
    <3>1. Cardinality(useful) >= 12
      BY <1>3, UsefulNumbers
    <3>2. useful = {} => Cardinality(useful) = 0
      BY FS_EmptySet
    <3> QED BY <3>1, <3>2
  <2>2. Values(useful, field) \in SUBSET Int /\ Values(useful, field) # {}
    BY <1>1, <2>1 DEF Values
  <2>3. Min(Values(useful, field)) \in Int /\ Max(Values(useful, field)) \in Int
    BY <1>1, <2>2, FiniteValues, Extremes
  <2> QED BY <1>3, <2>3, CalculateCases DEF Extreme, Fraction
<1>4. CASE h = "rr_1"
  <2> DEFINE R == {o \in useful : o[field] > 0}
  <2>1. IsFiniteSet(R) /\ \A o \in R : o[field] \in Int
    BY <1>1, FS_Subset
  <2>2. Total(R, field) \in Int
    BY <2>1, TotalIsInteger
  <2> QED BY <1>4, <2>2, CalculateCases DEF RainOfParts, Fraction
<1>5. CASE h \in {"rr_12", "rr_24"}
  <2> DEFINE R == {o \in useful : o[field] >= 0}
  <2>1. IsFiniteSet(R) /\ \A o \in R : o[field] \in Int
    BY <1>1, FS_Subset
  <2>2. Total(R, field) \in Int
    BY <2>1, TotalIsInteger
  <2>3. RainSum(useful, field) \in Int
    BY <2>2 DEF RainSum
  <2> QED BY <1>5, <2>3, CalculateCases DEF Fraction
<1>6. CASE h \in GaugeAggregators
  <2>1. useful = AtSixes(obs) /\ GaugePeriods(useful)
    BY <1>6, UsefulNumbers
  <2>2. GaugeRain(useful, field) \in Int
    BY <1>6, <2>1, GaugeRainIsInteger
  <2> QED BY <1>6, <2>2, CalculateCases DEF Fraction
<1>7. CASE h = "ta_24" /\ Cardinality(useful) = 3
  <2>1. TemperatureKoppen(useful, field, extra.factor, extra.low[field]) \in Fraction
    BY <1>2 DEF TemperatureKoppen, Fraction
  <2> QED BY <1>7, <2>1, CalculateCases
<1>8. CASE h = "uu_24" /\ Cardinality(useful) = 3
  <2> DEFINE noon == {o \in useful : \E p, q \in useful : p.time < o.time /\ o.time < q.time}
  <2>1. /\ IsFiniteSet(noon) /\ \A o \in noon : o[field] \in Int
        /\ IsFiniteSet(useful \ noon) /\ \A o \in useful \ noon : o[field] \in Int
    BY <1>1, FS_Subset
  <2> HIDE DEF noon
  <2>2. Total(noon, field) \in Int /\ Total(useful \ noon, field) \in Int
    BY <2>1, TotalIsInteger
  <2>3. WindKoppen(useful, field, extra.factor) \in Fraction
    BY <2>2 DEF WindKoppen, Fraction, noon
  <2> QED BY <1>8, <2>3, CalculateCases
<1>9. CASE h \in {"ta_24", "uu_24"} /\ Cardinality(useful) # 3
  <2>1. Cardinality(useful) \in Nat \ {0}
    BY <1>9, UsefulNumbers
  <2> QED BY <1>2, <1>9, <2>1, CalculateCases DEF Average, Fraction
<1>10. CASE h = "nn_24"
  <2>1. Cardinality(useful) = 3
    BY <1>10, UsefulNumbers
  <2>2. CloudAverage(useful, field) \in Fraction
    BY <1>1, <2>1, CloudTotalIsInteger DEF Fraction
  <2> QED BY <1>10, <2>2, CalculateCases
<1>11. CASE h = "ot_24"
  BY <1>2, <1>11, CalculateCases DEF Fraction
<1> QED BY <1>3, <1>4, <1>5, <1>6, <1>7, <1>8, <1>9, <1>10, <1>11
        DEF Timed, MinMaxAggregators, MinAggregators, GaugeAggregators

(* Extremes and means lie among the values they are made from.             *)
Bounded == MinMaxAggregators \cup {"ta_24", "uu_24"}

(* The value of an extreme and of a mean, before it is rounded.            *)
LEMMA CalculateBetween ==
  ASSUME NEW h \in Bounded, NEW t \in Int, NEW obs, Series(h, t, obs), NEW useful \in Useful(h, t, obs),
         NEW field, NEW lo \in Int, NEW hi \in Int,
         \A o \in useful : o[field] \in Int /\ lo <= o[field] /\ o[field] <= hi,
         NEW extra, Cardinality(useful) = 3 => extra.factor \in 0..100,
         h = "ta_24" /\ Cardinality(useful) = 3 =>
           extra.low[field] \in Int /\ lo <= extra.low[field] /\ extra.low[field] <= hi
  PROVE  LET result == Calculate(h, useful, field, extra)
         IN  lo * result[2] <= result[1] /\ result[1] <= hi * result[2]
<1>1. useful \subseteq obs /\ useful \in SUBSET Data /\ IsFiniteSet(useful) /\ h \in Timed
  BY UsefulObservations, FS_Subset DEF Series, Bounded, MinMaxAggregators, MinAggregators, Timed
<1>2. CASE h \in MinMaxAggregators
  <2>1. useful # {}
    <3>1. Cardinality(useful) >= 12
      BY <1>1, <1>2, UsefulNumbers
    <3>2. useful = {} => Cardinality(useful) = 0
      BY FS_EmptySet
    <3> QED BY <3>1, <3>2
  <2>2. Values(useful, field) \in SUBSET Int /\ Values(useful, field) # {}
    BY <1>1, <2>1 DEF Values
  <2>3. Min(Values(useful, field)) \in Values(useful, field) /\ Max(Values(useful, field)) \in Values(useful, field)
    BY <1>1, <2>2, FiniteValues, Extremes
  <2>4. \A x \in Values(useful, field) : x \in Int /\ lo * 1 <= x /\ x <= hi * 1
    BY DEF Values
  <2>5. Calculate(h, useful, field, extra) = <<Extreme(h, useful, field), 1>>
    BY <1>1, <1>2, CalculateCases
  <2> QED BY <2>3, <2>4, <2>5 DEF Extreme
<1>3. CASE h = "ta_24" /\ Cardinality(useful) = 3
  <2>1. Calculate(h, useful, field, extra) = TemperatureKoppen(useful, field, extra.factor, extra.low[field])
    BY <1>1, <1>3, CalculateCases
  <2>2. TemperatureKoppen(useful, field, extra.factor, extra.low[field])[2] = 300
    BY DEF TemperatureKoppen
  <2> DEFINE mean == TemperatureKoppen(useful, field, extra.factor, extra.low[field])
  <2>3. lo * 300 <= mean[1] /\ mean[1] <= hi * 300
    BY <1>1, <1>3, TemperatureBetween
  <2> QED BY <2>1, <2>2, <2>3
<1>4. CASE h = "uu_24" /\ Cardinality(useful) = 3
  <2>1. Calculate(h, useful, field, extra) = WindKoppen(useful, field, extra.factor)
    BY <1>1, <1>4, CalculateCases
  <2>2. WindKoppen(useful, field, extra.factor)[2] = 200
    BY DEF WindKoppen
  <2>3. \A a, b \in useful : a.time = b.time => a = b
    BY <1>1 DEF Series
  <2> DEFINE mean == WindKoppen(useful, field, extra.factor)
  <2>4. lo * 200 <= mean[1] /\ mean[1] <= hi * 200
    BY <1>1, <1>4, <2>3, WindBetween
  <2> QED BY <2>1, <2>2, <2>4
<1>5. CASE h \in {"ta_24", "uu_24"} /\ Cardinality(useful) # 3
  <2>1. Cardinality(useful) \in Int
    BY <1>1, <1>5, UsefulNumbers
  <2>2. Cardinality(useful) * lo <= Total(useful, field) /\ Total(useful, field) <= Cardinality(useful) * hi
    BY <1>1, TotalBounds
  <2>3. Calculate(h, useful, field, extra) = <<Total(useful, field), Cardinality(useful)>>
    BY <1>1, <1>5, CalculateCases DEF Average
  <2>4. lo * Cardinality(useful) = Cardinality(useful) * lo /\ hi * Cardinality(useful) = Cardinality(useful) * hi
    BY <2>1
  <2> QED BY <2>2, <2>3, <2>4
<1> QED BY <1>2, <1>3, <1>4, <1>5 DEF Bounded

-----------------------------------------------------------------------------
(* The datum that comes out.                                               *)

(* A part of an interval is finite.                                        *)
LEMMA FinitePart ==
  ASSUME NEW a \in Int, NEW b \in Int, NEW S \in SUBSET (a..b)
  PROVE  IsFiniteSet(S)
BY FS_Interval, FS_Subset

(* The flag for missing values.                                            *)
LEMMA FmisRange ==
  ASSUME NEW orig, NEW corr
  PROVE  Fmis(orig, corr) \in 0..4
BY DEF Fmis

(* That of an aggregate, from those of its sources.                        *)
LEMMA getFmisRange ==
  ASSUME NEW flags \in SUBSET (0..4)
  PROVE  getFmis(flags) \in 0..4
<1>1. CASE 3 \in flags \/ {1, 2} \subseteq flags
  BY <1>1 DEF getFmis
<1>2. CASE ~(3 \in flags \/ {1, 2} \subseteq flags) /\ 1 \in flags
  <2>1. {2, 3} \cap flags = {}
    BY <1>2
  <2> QED BY <1>2, <2>1 DEF getFmis
<1>3. CASE ~(3 \in flags \/ {1, 2} \subseteq flags) /\ 1 \notin flags /\ 2 \in flags
  <2>1. {1, 3} \cap flags = {}
    BY <1>3
  <2> QED BY <1>3, <2>1 DEF getFmis
<1>4. CASE 3 \notin flags /\ 1 \notin flags /\ 2 \notin flags /\ 4 \in flags
  <2>1. {1, 2, 3} \cap flags = {}
    BY <1>4
  <2> QED BY <1>4, <2>1 DEF getFmis
<1>5. CASE 3 \notin flags /\ 1 \notin flags /\ 2 \notin flags /\ 4 \notin flags
  <2>1. flags \subseteq {0}
    BY <1>5
  <2> QED BY <1>5, <2>1 DEF getFmis
<1> QED BY <1>1, <1>2, <1>3, <1>4, <1>5

(* Every rule gives a flag for aggregates.                                 *)
LEMMA RuleRange ==
  ASSUME NEW f, NEW ui2, NEW ui3
  PROVE  FirstThatApplies(AggregateFlagRules(f, ui2, ui3)) \in 0..11
<1> DEFINE rules == AggregateFlagRules(f, ui2, ui3)
           S == {i \in DOMAIN rules : rules[i][1]}
<1>1. DOMAIN rules = 1..12 /\ rules[12][1]
  BY DEF AggregateFlagRules
<1>2. \A i \in 1..12 : rules[i][2] \in 0..11
  BY DEF AggregateFlagRules
<1>3. S \in SUBSET Int /\ IsFiniteSet(S) /\ S # {}
  <2>1. S \in SUBSET (1..12) /\ 12 \in S
    BY <1>1
  <2>2. 1 \in Int /\ 12 \in Int
    OBVIOUS
  <2> HIDE DEF S
  <2>3. IsFiniteSet(S)
    BY <2>1, <2>2, FinitePart
  <2> QED BY <2>1, <2>3
<1>4. Min(S) \in 1..12
  <2> HIDE DEF rules, S
  <2>1. Min(S) \in S
    BY <1>3, Extremes
  <2> QED BY <1>1, <2>1 DEF S
<1> QED BY <1>2, <1>4 DEF FirstThatApplies

(* So does what is made of all the sources.                                *)
LEMMA AggregateFlagRange ==
  ASSUME NEW sources
  PROVE  calculateAggregateFlag(sources) \in 0..11
<1> DEFINE fmis == {getFmis({Fmis(o.orig, o.corr) : o \in sources})}
           ui(n) == {{o.ui[n] : o \in sources}}
           S == {FirstThatApplies(AggregateFlagRules(f, ui2, ui3)) : f \in fmis, ui2 \in ui(1), ui3 \in ui(2)}
<1>1. S \in SUBSET (0..11)
  BY RuleRange
<1>2. S # {}
  <2> DEFINE second == {o.ui[1] : o \in sources}
             third == {o.ui[2] : o \in sources}
             f == getFmis({Fmis(o.orig, o.corr) : o \in sources})
  <2>1. FirstThatApplies(AggregateFlagRules(f, second, third)) \in S
    OBVIOUS
  <2> HIDE DEF S
  <2> QED BY <2>1
<1>3. 0 \in Int /\ 11 \in Int
  OBVIOUS
<1>4. calculateAggregateFlag(sources) = Max(S)
  BY DEF calculateAggregateFlag
<1> HIDE DEF S
<1>5. S \in SUBSET Int /\ IsFiniteSet(S)
  BY <1>1, <1>3, FinitePart
<1>6. Max(S) \in S
  BY <1>2, <1>5, Extremes
<1> QED BY <1>1, <1>4, <1>6

(* The time of an aggregate.                                               *)
LEMMA ResultTimeIsInteger ==
  ASSUME NEW h \in DOMAIN Aggregators, NEW t \in Int
  PROVE  ResultTime(h, t) \in Int
<1>1. CASE h = "po"
  BY <1>1 DEF ResultTime
<1>2. CASE h # "po"
  <2>1. h \in Timed
    BY <1>2 DEF Aggregators, Timed
  <2>2. GenerateTime(h, t) \in Int
    BY <2>1, GeneratedTime
  <2>3. TimeSpan(h, t)[2] \in Int
    BY <1>2, <2>2 DEF TimeSpan, ForwardSpan, StandardSpan, Hour
  <2> QED BY <1>2, <2>3 DEF ResultTime, Hour
<1> QED BY <1>1, <1>2

(* What getDataObject makes is a datum, its flags included.                *)
LEMMA DataObjectIsData ==
  ASSUME NEW h \in DOMAIN Aggregators, NEW d \in Data, NEW orig \in Int, NEW corr \in Int, NEW sources
  PROVE  getDataObject(h, d, orig, corr, sources) \in Data
<1>1. Aggregators[h].write \in Int
  BY DEF Aggregators, Standard, Mean, rr_1, rr_12, rr_24, ra2rr_12, ta_24, uu_24, nn_24, ot_24, po,
       RR_1, RR_12, RR_24, TAM_24, TAN_12, TAX_12, TGN_12, UUM_24, NNM_24, PO, OT_24
<1>2. ResultTime(h, d.time) \in Int
  BY ResultTimeIsInteger DEF Data
<1>3. Negated(d.type) \in Int
  BY DEF Negated, Data
<1>4. calculateAggregateFlag(sources) \in 0..11
  BY AggregateFlagRange
<1>5. UseFlags(Fmis(orig, corr), calculateAggregateFlag(sources)) \in Seq(Int)
  BY <1>4, FmisRange, UseFlagsAssumption
<1> QED BY <1>1, <1>2, <1>3, <1>4, <1>5 DEF getDataObject, Data

(* The lesser of two numbers.                                              *)
LEMMA MinOfTwo ==
  ASSUME NEW x \in Int, NEW y \in Int
  PROVE  Min({x, y}) \in {x, y} /\ Min({x, y}) <= x /\ Min({x, y}) <= y
<1>1. \E m \in {x, y} : \A z \in {x, y} : m <= z
  OBVIOUS
<1> QED BY <1>1 DEF Min

(* Metadata are found among those of the station.                          *)
LEMMA StationMetadata ==
  ASSUME NEW metadata \in Seq(MetadataEntries), NEW name, NEW param, NEW t, NEW type,
         NEW v \in GetStationMetadata(metadata, name, param, t, type)
  PROVE  v \in Int /\ \E i \in DOMAIN metadata : compatible(metadata[i], name, param, t, type) /\ v = metadata[i].value
<1> DEFINE fit == {i \in DOMAIN metadata : compatible(metadata[i], name, param, t, type)}
           best == {i \in fit : \A j \in fit : specificCount(metadata[j]) <= specificCount(metadata[i])}
<1>1. best # {} /\ v = metadata[Min(best)].value
  BY DEF GetStationMetadata
<1>2. Len(metadata) \in Nat /\ DOMAIN metadata = 1..Len(metadata) /\ \A i \in DOMAIN metadata : metadata[i] \in MetadataEntries
  OBVIOUS
<1>3. Min(best) \in best
  <2> DEFINE first == 1
             last == Len(metadata)
  <2>1. best \in SUBSET (first..last)
    BY <1>2
  <2>2. first \in Int /\ last \in Int
    BY <1>2
  <2> HIDE DEF best, first, last
  <2>3. IsFiniteSet(best)
    BY <2>1, <2>2, FinitePart
  <2>4. best \in SUBSET Int
    BY <2>1, <2>2
  <2> QED BY <1>1, <2>3, <2>4, Extremes
<1>4. Min(best) \in DOMAIN metadata /\ compatible(metadata[Min(best)], name, param, t, type)
  BY <1>3
<1> QED BY <1>1, <1>2, <1>4 DEF MetadataEntries

Fields == {"orig", "corr"}

(* The lower of two extremes is one of them, or missing.                   *)
LEMMA LowestOfValues ==
  ASSUME NEW a \in Data, NEW b \in Data, NEW field \in Fields
  PROVE  LET low == LowestOf(a, b)[field]
         IN  low \in Int /\ (low # Missing => low \in {a[field], b[field]} /\ low <= a[field] /\ low <= b[field])
<1>1. a.orig \in Int /\ b.orig \in Int /\ a.corr \in Int /\ b.corr \in Int /\ Missing \in Int
  BY DEF Data, Missing
<1>2. CASE field = "orig"
  BY <1>1, <1>2, MinOfTwo DEF LowestOf
<1>3. CASE field = "corr"
  BY <1>1, <1>3, MinOfTwo DEF LowestOf
<1> QED BY <1>2, <1>3 DEF Fields

(* Koppen's factor and the lowest temperature are numbers.                 *)
LEMMA ExtrasTypes ==
  ASSUME NEW h, NEW d, NEW useful, NEW stored \in SUBSET Data, NEW metadata \in Seq(MetadataEntries),
         NEW e \in Extras(h, d, useful, stored, metadata)
  PROVE  e.factor \in Int /\ \A field \in Fields : e.low[field] \in Int
<1>1. CASE h \notin {"ta_24", "uu_24"} \/ Cardinality(useful) # 3
  <2>1. e = [factor |-> 0, low |-> LowestOf([orig |-> 0, corr |-> 0], [orig |-> 0, corr |-> 0])]
    BY <1>1 DEF Extras
  <2>2. Min({0, 0}) \in Int
    <3>1. \A x \in Int : Min({x, x}) \in Int
      BY MinOfTwo
    <3> QED BY <3>1
  <2> QED BY <2>1, <2>2 DEF LowestOf, Fields, Missing
<1>2. CASE ~(h \notin {"ta_24", "uu_24"} \/ Cardinality(useful) # 3)
  <2> DEFINE lows == IF h = "ta_24" THEN MinimumTemperatures(d, stored) ELSE {[orig |-> 0, corr |-> 0]}
  <2>1. PICK f \in GetStationMetadata(metadata, "koppen", d.param, d.time, d.type), low \in lows :
          e = [factor |-> f, low |-> low]
    BY <1>2 DEF Extras
  <2>2. f \in Int
    BY StationMetadata
  <2>3. CASE h = "ta_24"
    <3>1. \E p \in stored \X stored : low = LowestOf(p[1], p[2])
      BY <2>1, <2>3 DEF MinimumTemperatures
    <3>2. PICK a \in Data, b \in Data : low = LowestOf(a, b)
      BY <3>1
    <3>3. \A field \in Fields : low[field] \in Int
      BY <3>2, LowestOfValues
    <3> QED BY <2>1, <2>2, <3>3
  <2>4. CASE h # "ta_24"
    BY <2>1, <2>2, <2>4 DEF Fields
  <2> QED BY <2>3, <2>4
<1> QED BY <1>1, <1>2

(* Rounding yields an integer.                                             *)
LEMMA RoundedFraction ==
  ASSUME NEW f \in Fraction
  PROVE  Round(f) \in Int
<1>1. f = <<f[1], f[2]>> /\ f[1] \in Int /\ f[2] \in Nat \ {0}
  BY DEF Fraction
<1> QED BY <1>1, RoundsToNearest

(* The value that is saved is an integer.                                  *)
LEMMA ValueOfIsInteger ==
  ASSUME NEW h \in Timed, NEW t \in Int, NEW obs, Series(h, t, obs), NEW useful \in Useful(h, t, obs),
         NEW field \in Fields, NEW extra, extra.factor \in Int, extra.low[field] \in Int
  PROVE  ValueOf(h, useful, field, extra) \in Int
<1>1. \A o \in obs : o[field] \in Int
  BY DEF Series, Data, Fields
<1>2. Calculate(h, useful, field, extra) \in Fraction
  BY <1>1, CalculateYieldsFraction
<1> QED BY <1>2, RoundedFraction DEF ValueOf, Missing

(* What the aggregators but po make of data is data.                       *)
LEMMA StandardIsData ==
  ASSUME NEW h \in Timed, NEW d \in Data, NEW obs, Series(h, d.time, obs), NEW stored \in SUBSET Data,
         NEW metadata \in Seq(MetadataEntries),
         NEW s \in StandardProcess(h, d, obs, stored, metadata), NEW a \in s
  PROVE  a \in Data
<1>1. PICK useful \in Useful(h, d.time, obs) : s \in Aggregated(h, d, useful, stored, metadata)
  BY DEF StandardProcess
<1>2. d.time \in Int /\ Missing \in Int /\ h \in DOMAIN Aggregators
  BY DEF Data, Missing, Timed, Aggregators
<1>3. CASE a = getDataObject(h, d, Missing, Missing, useful)
  BY <1>2, <1>3, DataObjectIsData
<1>4. CASE \E e \in Extras(h, d, useful, stored, metadata) :
             a = getDataObject(h, d, ValueOf(h, useful, "orig", e), ValueOf(h, useful, "corr", e), useful)
  <2>1. PICK e \in Extras(h, d, useful, stored, metadata) :
             a = getDataObject(h, d, ValueOf(h, useful, "orig", e), ValueOf(h, useful, "corr", e), useful)
    BY <1>4
  <2>2. e.factor \in Int /\ \A field \in Fields : e.low[field] \in Int
    BY ExtrasTypes
  <2>3. \A field \in Fields : ValueOf(h, useful, field, e) \in Int
    BY <1>2, <2>2, ValueOfIsInteger
  <2>4. ValueOf(h, useful, "orig", e) \in Int /\ ValueOf(h, useful, "corr", e) \in Int
    BY <2>3 DEF Fields
  <2> QED BY <1>2, <2>1, <2>4, DataObjectIsData
<1> QED BY <1>1, <1>3, <1>4 DEF Aggregated

(* The formula of po yields a number, whatever the pressure.               *)
PoYieldsFractions == \A pr, ta, um, tm, hp \in Int : ComputePo(pr, ta, um, tm, hp) \in Fraction

(* The values of po are numbers, if its formula yields numbers.            *)
LEMMA PoValues ==
  ASSUME PoYieldsFractions, NEW d, NEW metadata \in Seq(MetadataEntries), NEW f \in PoFormulas(d, metadata),
         NEW pr \in Data, NEW ta \in Data, NEW field \in Fields
  PROVE  PoValue(pr, ta, field, f) \in Int
<1>1. PICK um \in GetStationMetadata(metadata, "VS", UM_VS, d.time, d.type),
           tm \in GetStationMetadata(metadata, "VS", TM_VS, d.time, d.type),
           hp \in GetStationMetadata(metadata, "hp", d.param, d.time, d.type) :
        f = [um |-> um, tm |-> tm, hp |-> hp]
  BY DEF PoFormulas
<1>2. um \in Int /\ tm \in Int /\ hp \in Int
  BY StationMetadata
<1>3. pr[field] \in Int /\ ta[field] \in Int
  BY DEF Data, Fields
<1>4. ComputePo(pr[field], ta[field], f.um, f.tm, f.hp) \in Fraction
  BY <1>1, <1>2, <1>3 DEF PoYieldsFractions
<1> QED BY <1>4, RoundedFraction DEF PoValue, Missing

(* So is what po makes, if its formula yields numbers.                     *)
LEMMA PoIsData ==
  ASSUME PoYieldsFractions, NEW d \in Data, NEW obs \in SUBSET Data, NEW stored,
         NEW metadata \in Seq(MetadataEntries),
         NEW s \in PoProcess(d, obs, stored, metadata), NEW a \in s
  PROVE  a \in Data
<1>1. a \in ComputedPo(d, obs, metadata)
  BY DEF PoProcess
<1>2. PICK pr \in getData(PR, d.time, obs), ta \in getData(TA, d.time, obs), f \in PoFormulas(d, metadata) :
        a = PoDataObject(d, pr, ta, f)
  BY <1>1 DEF ComputedPo
<1>3. pr \in Data /\ ta \in Data
  BY <1>2 DEF getData
<1>4. ASSUME NEW field \in Fields
      PROVE  PoValue(pr, ta, field, f) \in Int
  BY <1>2, <1>3, PoValues
<1>5. PoValue(pr, ta, "orig", f) \in Int /\ PoValue(pr, ta, "corr", f) \in Int
  BY <1>4 DEF Fields
<1>6. "po" \in DOMAIN Aggregators
  BY DEF Aggregators
<1> QED BY <1>2, <1>5, <1>6, DataObjectIsData DEF PoDataObject

(* What an aggregator computes, if it computes anything, is a datum.       *)
THEOREM ProcessYieldsData ==
  ASSUME PoYieldsFractions, NEW h \in DOMAIN Aggregators, NEW d \in Data, NEW obs, NEW stored \in SUBSET Data,
         Series(h, d.time, obs) \/ (h = "po" /\ obs \subseteq Data),
         NEW metadata \in Seq(MetadataEntries),
         NEW s \in Process(h, d, obs, stored, metadata), NEW a \in s
  PROVE  a \in Data
<1>1. CASE h = "po"
  BY <1>1, PoIsData DEF Process, Series
<1>2. CASE h # "po"
  <2>1. h \in Timed
    BY <1>2 DEF Aggregators, Timed
  <2> QED BY <1>2, <2>1, StandardIsData DEF Process
<1> QED BY <1>1, <1>2

-----------------------------------------------------------------------------
(* Periods, and the bounds of an extreme and of a mean.                    *)

(* The aggregators of extremes and of sunshine, and of the rain of half    *)
(* days, part the time into periods: all observations of one are for its   *)
(* aggregate.                                                              *)
Parted == MinMaxAggregators \cup {"ot_24"}
Divided == Parted \cup {"rr_12"}

(* What is in the period of another observation has the same period.       *)
LEMMA OnePeriod ==
  ASSUME NEW h \in Divided, NEW t \in Int, NEW u \in Int, InSpan(u, StandardSpan(h, t))
  PROVE  GenerateTime(h, u) = GenerateTime(h, t)
<1> DEFINE g == GenerateTime(h, t)
           f == GenerateTime(h, u)
<1>1. h \in Timed
  BY DEF Divided, Parted, MinMaxAggregators, MinAggregators, Timed
<1>2. g \in Int /\ f \in Int /\ u <= f /\ f < u + Interval(h) * 60
  BY <1>1, GeneratedTime DEF Hour
<1>3. g - Aggregators[h].hours * 60 < u /\ u <= g
  BY DEF InSpan, StandardSpan, Hour
<1>4. CASE h \in MinMaxAggregators \cup {"rr_12"}
  <2>1. Aggregators[h].hours = 12 /\ Aggregators[h].when = {360, 1080} /\ Interval(h) = 12
    BY <1>4 DEF MinMaxAggregators, MinAggregators, Aggregators, Standard, rr_12, sixAmSixPm, Hour, Interval
  <2>2. \A x \in Int : \E k \in Int : GenerateTime(h, x) = 720 * k + 360
    <3> SUFFICES ASSUME NEW x \in Int PROVE \E k \in Int : GenerateTime(h, x) = 720 * k + 360
      OBVIOUS
    <3>1. PICK date \in Int, w \in {360, 1080} : GenerateTime(h, x) = At(date, 0) + w
      BY <1>1, <2>1, GeneratedOnDate
    <3>2. GenerateTime(h, x) = 1440 * date + w
      BY <3>1 DEF At, Day, Hour
    <3>3. CASE w = 360
      <4> DEFINE k == 2 * date
      <4>1. k \in Int /\ GenerateTime(h, x) = 720 * k + 360
        BY <3>2, <3>3
      <4> HIDE DEF k
      <4> QED BY <4>1
    <3>4. CASE w = 1080
      <4> DEFINE k == 2 * date + 1
      <4>1. k \in Int /\ GenerateTime(h, x) = 720 * k + 360
        BY <3>2, <3>4
      <4> HIDE DEF k
      <4> QED BY <4>1
    <3> QED BY <3>1, <3>3, <3>4
  <2>3. PICK k \in Int : g = 720 * k + 360
    BY <2>2
  <2>4. PICK j \in Int : f = 720 * j + 360
    BY <2>2
  <2> HIDE DEF g, f
  <2>5. j = k
    BY <1>2, <1>3, <2>1, <2>3, <2>4
  <2> QED BY <2>3, <2>4, <2>5 DEF g, f
<1>5. CASE h = "ot_24"
  <2>1. Aggregators[h].hours = 24 /\ Aggregators[h].when = {0} /\ Interval(h) = 24
    BY <1>5 DEF Aggregators, Standard, ot_24, midnight, Hour, Interval
  <2>2. \A x \in Int : \E k \in Int : GenerateTime(h, x) = 1440 * k
    <3> SUFFICES ASSUME NEW x \in Int PROVE \E k \in Int : GenerateTime(h, x) = 1440 * k
      OBVIOUS
    <3>1. PICK date \in Int : GenerateTime(h, x) = At(date, 0) + 0
      BY <1>1, <2>1, GeneratedOnDate
    <3>2. GenerateTime(h, x) = 1440 * date
      BY <3>1 DEF At, Day, Hour
    <3> QED BY <3>2
  <2>3. PICK k \in Int : g = 1440 * k
    BY <2>2
  <2>4. PICK j \in Int : f = 1440 * j
    BY <2>2
  <2> HIDE DEF g, f
  <2>5. j = k
    BY <1>2, <1>3, <2>1, <2>3, <2>4
  <2> QED BY <2>3, <2>4, <2>5 DEF g, f
<1> QED BY <1>4, <1>5 DEF Divided, Parted

(* Full hours without a gap.                                               *)
LEMMA HoursOfPeriod ==
  ASSUME NEW obs, IsFiniteSet(obs), \A a, b \in obs : a.time = b.time => a = b,
         NEW end \in Int, end % Hour = 0, NEW hours \in Nat \ {0},
         Times(obs) = {end - n * Hour : n \in 0..(hours - 1)}
  PROVE  Cardinality(obs) = hours /\ FullHours(obs) = obs /\ obs # {} /\ \E o \in obs : o.time = end
<1> DEFINE T == {end - n * Hour : n \in 0..(hours - 1)}
           f == [n \in 0..(hours - 1) |-> end - n * Hour]
           g == [o \in obs |-> o.time]
<1>1. f \in Bijection(0..(hours - 1), T)
  <2>1. \A n, m \in 0..(hours - 1) : end - n * 60 = end - m * 60 => n = m
    OBVIOUS
  <2> QED BY <2>1 DEF Bijection, Injection, Surjection, IsInjective, Hour
<1>2. IsFiniteSet(0..(hours - 1)) /\ Cardinality(0..(hours - 1)) = hours
  BY FS_Interval
<1> HIDE DEF f
<1>3. g \in Bijection(obs, T)
  <2>1. \A o \in obs : o.time \in T
    BY DEF Times
  <2>2. \A x \in T : \E o \in obs : o.time = x
    BY DEF Times
  <2> HIDE DEF T
  <2> QED BY <2>1, <2>2 DEF Bijection, Injection, Surjection, IsInjective
<1> HIDE DEF T, g
<1>4. Cardinality(obs) = Cardinality(T) /\ Cardinality(T) = hours
  BY <1>1, <1>2, <1>3, FS_Bijection DEF ExistsBijection
<1>5. \A o \in obs : o.time % 60 = 0
  <2> SUFFICES ASSUME NEW o \in obs PROVE o.time % 60 = 0
    OBVIOUS
  <2>1. PICK n \in 0..(hours - 1) : o.time = end - n * 60
    BY DEF Times, Hour
  <2>2. n \in Int
    OBVIOUS
  <2> QED BY <2>1, <2>2 DEF Hour
<1>6. FullHours(obs) = obs
  BY <1>5 DEF FullHours, FullHour, Hour
<1>7. end \in T
  <2>1. 0 \in 0..(hours - 1) /\ end - 0 * Hour = end
    BY DEF Hour
  <2> QED BY <2>1 DEF T
<1>8. \E o \in obs : o.time = end
  BY <1>7 DEF T, Times
<1> QED BY <1>4, <1>6, <1>8

(* The aggregators of observations: of extremes, means and sunshine.       *)
Direct == Bounded \cup {"ot_24"}

(* Their times are full hours, and so are those of rain.                   *)
LEMMA GeneratedFullHour ==
  ASSUME NEW h \in Direct \cup {"rr_12", "rr_24"}, NEW t \in Int
  PROVE  /\ GenerateTime(h, t) \in Int /\ GenerateTime(h, t) % Hour = 0
         /\ TimeSpan(h, t) = StandardSpan(h, t)
         /\ TimeSpan(h, t) = <<GenerateTime(h, t) - Aggregators[h].hours * Hour, GenerateTime(h, t)>>
         /\ ResultTime(h, t) = GenerateTime(h, t)
<1> DEFINE g == GenerateTime(h, t)
<1>1. h \in Timed /\ h # "po" /\ h # "ra2rr_f"
  BY DEF Direct, Bounded, MinMaxAggregators, MinAggregators, Timed
<1>2. Aggregators[h].when \subseteq {0, 360, 1080, 1380}
  BY DEF Direct, Bounded, MinMaxAggregators, MinAggregators, Aggregators, Standard, Mean, ta_24, uu_24, ot_24,
         rr_12, rr_24, sixAmSixPm, sixAm, elevenPm, midnight, Hour
<1>3. PICK date \in Int, w \in {0, 360, 1080, 1380} : g = At(date, 0) + w
  BY <1>1, <1>2, GeneratedOnDate
<1>4. PICK k \in {0, 6, 18, 23} : w = 60 * k
  OBVIOUS
<1>5. g = 60 * (24 * date + k)
  BY <1>3, <1>4 DEF At, Day, Hour
<1> HIDE DEF g
<1>6. g \in Int /\ g % 60 = 0
  <2>1. \A n \in Int : (60 * n) % 60 = 0
    OBVIOUS
  <2> QED BY <1>5, <2>1
<1>7. TimeSpan(h, t) = StandardSpan(h, t)
  BY <1>1 DEF TimeSpan
<1>8. StandardSpan(h, t) = <<g - Aggregators[h].hours * Hour, g>>
  BY DEF StandardSpan, g
<1>9. ResultTime(h, t) = g
  BY <1>1, <1>6, <1>7, <1>8 DEF ResultTime, Hour
<1> QED BY <1>6, <1>7, <1>8, <1>9 DEF Hour, g

(* What is given of Koppen's factors: they are between 0 and 1.            *)
KoppenFraction(metadata) ==
  \A i \in DOMAIN metadata : metadata[i].name = "koppen" => metadata[i].value \in 0..100

(* The extras of the means: the factor, and the lowest temperature.        *)
LEMMA ExtrasBetween ==
  ASSUME NEW h \in Bounded, NEW d, NEW useful, Cardinality(useful) = 3,
         NEW stored \in SUBSET Data, NEW metadata \in Seq(MetadataEntries), KoppenFraction(metadata),
         NEW e \in Extras(h, d, useful, stored, metadata), NEW field \in Fields,
         NEW lo \in Int, NEW hi \in Int,
         h = "ta_24" => \A r \in stored : r.param = TAN_12 /\ r.type = d.type /\ r[field] # Missing =>
                          lo <= r[field] /\ r[field] <= hi
  PROVE  /\ h \in {"ta_24", "uu_24"} => e.factor \in 0..100
         /\ h = "ta_24" /\ e.low[field] # Missing =>
              e.low[field] \in Int /\ lo <= e.low[field] /\ e.low[field] <= hi
<1> SUFFICES ASSUME h \in {"ta_24", "uu_24"}
             PROVE  /\ e.factor \in 0..100
                    /\ h = "ta_24" /\ e.low[field] # Missing =>
                          e.low[field] \in Int /\ lo <= e.low[field] /\ e.low[field] <= hi
  OBVIOUS
<1> DEFINE lows == IF h = "ta_24" THEN MinimumTemperatures(d, stored) ELSE {[orig |-> 0, corr |-> 0]}
<1>1. PICK f \in GetStationMetadata(metadata, "koppen", d.param, d.time, d.type), low \in lows :
        e = [factor |-> f, low |-> low]
  BY DEF Extras
<1>2. f \in 0..100
  <2>1. \E i \in DOMAIN metadata :
          compatible(metadata[i], "koppen", d.param, d.time, d.type) /\ f = metadata[i].value
    BY StationMetadata
  <2> QED BY <2>1 DEF compatible, KoppenFraction
<1>3. ASSUME h = "ta_24", low[field] # Missing
      PROVE  low[field] \in Int /\ lo <= low[field] /\ low[field] <= hi
  <2> DEFINE T == {r \in stored : r.param = TAN_12 /\ r.type = d.type}
  <2>1. PICK p \in T \X T : low = LowestOf(p[1], p[2])
    BY <1>1, <1>3 DEF MinimumTemperatures
  <2>2. PICK a \in T, b \in T : low = LowestOf(a, b)
    BY <2>1
  <2>3. a \in Data /\ b \in Data
    OBVIOUS
  <2>4. low[field] \in Int /\ low[field] \in {a[field], b[field]}
    BY <1>3, <2>2, <2>3, LowestOfValues
  <2> QED BY <1>3, <2>4
<1> QED BY <1>1, <1>2, <1>3

(* An extreme, and a mean, lies between two of the values it is made from. *)
THEOREM StandardBetween ==
  ASSUME NEW h \in Bounded, NEW d \in Data, NEW obs, Series(h, d.time, obs),
         NEW stored \in SUBSET Data, IsFiniteSet(stored),
         NEW metadata \in Seq(MetadataEntries), KoppenFraction(metadata),
         NEW s \in StandardProcess(h, d, obs, stored, metadata), NEW a \in s,
         NEW field \in Fields, a[field] # Missing
  PROVE  LET lows == IF h = "ta_24" THEN {r \in stored : r.param = TAN_12 /\ r.type = d.type} ELSE {}
             X    == {r \in obs \cup lows : r[field] # Missing}
         IN  /\ \E r \in X : r[field] <= a[field]
             /\ \E r \in X : a[field] <= r[field]
<1> DEFINE lows == IF h = "ta_24" THEN {r \in stored : r.param = TAN_12 /\ r.type = d.type} ELSE {}
           X    == {r \in obs \cup lows : r[field] # Missing}
           V    == Values(X, field)
<1>1. PICK useful \in Useful(h, d.time, obs) : s \in Aggregated(h, d, useful, stored, metadata)
  BY DEF StandardProcess
<1>2. d.time \in Int /\ h \in Timed
  BY DEF Data, Bounded, MinMaxAggregators, MinAggregators, Timed
<1>3. PICK e \in Extras(h, d, useful, stored, metadata) : a[field] = ValueOf(h, useful, field, e)
  <2>1. CASE a = getDataObject(h, d, Missing, Missing, useful)
    BY <2>1 DEF getDataObject, Fields
  <2>2. CASE \E e \in Extras(h, d, useful, stored, metadata) :
               a = getDataObject(h, d, ValueOf(h, useful, "orig", e), ValueOf(h, useful, "corr", e), useful)
    BY <2>2 DEF getDataObject, Fields
  <2> QED BY <1>1, <2>1, <2>2 DEF Aggregated
<1>4. /\ Missing \notin Values(useful, field) /\ e.low[field] # Missing
      /\ a[field] = Round(Calculate(h, useful, field, e))
  BY <1>3 DEF ValueOf
<1>5. useful \subseteq obs
  BY <1>1, <1>2, UsefulObservations
<1>6. useful \subseteq X
  BY <1>4, <1>5 DEF Values
<1>7. useful # {}
  <2>1. Cardinality(useful) \in Nat \ {0} \/ Cardinality(useful) >= 12
    BY <1>1, <1>2, UsefulNumbers DEF Bounded
  <2>2. useful = {} => Cardinality(useful) = 0
    BY FS_EmptySet
  <2> QED BY <2>1, <2>2
<1>8. IsFiniteSet(X) /\ X \subseteq Data
  <2>1. IsFiniteSet(lows) /\ lows \subseteq Data
    BY FS_Subset, FS_EmptySet
  <2>2. IsFiniteSet(obs \cup lows) /\ obs \subseteq Data
    BY <2>1, FS_Union DEF Series
  <2> QED BY <2>1, <2>2, FS_Subset
<1>9. V \in SUBSET Int /\ V # {} /\ IsFiniteSet(V)
  <2>1. X # {}
    BY <1>6, <1>7
  <2> HIDE DEF X
  <2> QED BY <1>8, <2>1, FiniteValues DEF Values, Data, Fields
<1>10. /\ Min(V) \in V /\ Max(V) \in V
       /\ \A r \in X : r[field] \in Int /\ Min(V) <= r[field] /\ r[field] <= Max(V)
  <2>1. /\ Min(V) \in V /\ Max(V) \in V
        /\ \A v \in V : Min(V) <= v /\ v <= Max(V)
    BY <1>9, Extremes
  <2> HIDE DEF X
  <2> QED BY <1>9, <2>1 DEF Values
<1> DEFINE lo == Min(V)
           hi == Max(V)
<1>11. lo \in Int /\ hi \in Int
  BY <1>9, <1>10
<1>12. \A r \in useful : r[field] \in Int /\ lo <= r[field] /\ r[field] <= hi
  BY <1>6, <1>10
<1>13. h = "ta_24" => \A r \in stored : r.param = TAN_12 /\ r.type = d.type /\ r[field] # Missing =>
                          lo <= r[field] /\ r[field] <= hi
  BY <1>10
<1> HIDE DEF lo, hi, X, V, lows
<1>14. Cardinality(useful) = 3 =>
        /\ h \in {"ta_24", "uu_24"} => e.factor \in 0..100
        /\ h = "ta_24" => e.low[field] \in Int /\ lo <= e.low[field] /\ e.low[field] <= hi
  <2> SUFFICES ASSUME Cardinality(useful) = 3
               PROVE  /\ h \in {"ta_24", "uu_24"} => e.factor \in 0..100
                      /\ h = "ta_24" => e.low[field] \in Int /\ lo <= e.low[field] /\ e.low[field] <= hi
    OBVIOUS
  <2>1. /\ h \in {"ta_24", "uu_24"} => e.factor \in 0..100
        /\ h = "ta_24" /\ e.low[field] # Missing =>
              e.low[field] \in Int /\ lo <= e.low[field] /\ e.low[field] <= hi
    BY <1>11, <1>13, ExtrasBetween
  <2> QED BY <1>4, <2>1
<1> DEFINE result == Calculate(h, useful, field, e)
<1>15. lo * result[2] <= result[1] /\ result[1] <= hi * result[2]
  <2>1. CASE Cardinality(useful) = 3 /\ h \in {"ta_24", "uu_24"}
    BY <1>1, <1>2, <1>11, <1>12, <1>14, <2>1, CalculateBetween
  <2>2. CASE Cardinality(useful) # 3
    BY <1>1, <1>2, <1>11, <1>12, <2>2, CalculateBetween
  <2>3. CASE h \in MinMaxAggregators /\ Cardinality(useful) = 3
    <3>1. Cardinality(useful) >= 12
      BY <1>1, <1>2, <2>3, UsefulNumbers
    <3> QED BY <2>3, <3>1
  <2> QED BY <2>1, <2>2, <2>3 DEF Bounded
<1>16. result \in Fraction
  <2>1. \A o \in obs : o[field] \in Int
    BY DEF Series, Data, Fields
  <2>2. e.factor \in Int /\ e.low[field] \in Int
    BY ExtrasTypes
  <2> QED BY <1>1, <1>2, <2>1, <2>2, CalculateYieldsFraction
<1>17. lo <= a[field] /\ a[field] <= hi
  <2>1. result = <<result[1], result[2]>> /\ result[1] \in Int /\ result[2] \in Nat \ {0}
    BY <1>16 DEF Fraction
  <2> HIDE DEF result
  <2>2. lo <= Round(<<result[1], result[2]>>) /\ Round(<<result[1], result[2]>>) <= hi
    BY <1>11, <1>15, <2>1, RoundBetween
  <2> QED BY <1>4, <2>1, <2>2 DEF result
<1>18. \E r \in X : r[field] <= a[field]
  BY <1>10, <1>17 DEF lo, Values, V
<1>19. \E r \in X : a[field] <= r[field]
  BY <1>10, <1>17 DEF hi, Values, V
<1> QED BY <1>18, <1>19 DEF X, lows

-----------------------------------------------------------------------------
(* The gauge: two levels half a day apart that do not fall.                *)

(* Two levels of the gauge half a day apart, at sixes.                     *)
HalfDay(p, r) ==
  /\ p.param = RA /\ r.param = RA /\ r.type = p.type
  /\ r.time = p.time + 12 * Hour /\ TimeOfDay(p.time) \in sixAmSixPm

(* The time of what is made of a period that ends at a six is its end.     *)
LEMMA GeneratedAtSixes ==
  ASSUME NEW h \in GaugeAggregators \cup {"rr_12"}, NEW t \in Int, TimeOfDay(t) \in sixAmSixPm
  PROVE  GenerateTime(h, t) = t
<1>1. PICK k \in Int : t = 720 * k + 360
  BY SixesApart
<1> DEFINE g == GenerateTime(h, t)
<1>2. h \in Timed /\ Interval(h) = 12 /\ Aggregators[h].when = sixAmSixPm
  BY DEF GaugeAggregators, Timed, Interval, Aggregators, Standard, ra2rr_12, rr_12
<1>3. g \in Int /\ t <= g /\ g < t + 12 * Hour
  BY <1>2, GeneratedTime
<1>4. PICK date \in Int, w \in sixAmSixPm : g = At(date, 0) + w
  BY <1>2, GeneratedOnDate
<1>5. \/ g = 720 * (2 * date) + 360
      \/ g = 720 * (2 * date + 1) + 360
  BY <1>4 DEF At, Day, Hour, sixAmSixPm
<1> HIDE DEF g
<1>6. PICK j \in Int : g = 720 * j + 360
  <2> DEFINE e == 2 * date
  <2>1. e \in Int /\ e + 1 \in Int /\ (g = 720 * e + 360 \/ g = 720 * (e + 1) + 360)
    BY <1>5
  <2> HIDE DEF e
  <2>2. CASE g = 720 * e + 360
    BY <2>1, <2>2
  <2>3. CASE g = 720 * (e + 1) + 360
    <3> DEFINE f == e + 1
    <3>1. f \in Int /\ g = 720 * f + 360
      BY <2>1, <2>3
    <3> HIDE DEF f
    <3> QED BY <3>1
  <2> QED BY <2>1, <2>2, <2>3
<1>7. j = k
  BY <1>1, <1>3, <1>6 DEF Hour
<1> QED BY <1>1, <1>6, <1>7 DEF g

(* Which periods ra2rr_12 takes at sixes, and the time of what it makes.   *)
LEMMA GaugeSpans ==
  ASSUME NEW t \in Int, TimeOfDay(t) \in sixAmSixPm
  PROVE  /\ TimeSpan("ra2rr_b", t) = <<t - 25 * Hour, t>> /\ ResultTime("ra2rr_b", t) = t
         /\ TimeSpan("ra2rr_f", t) = <<t - 12 * Hour, t + 12 * Hour>> /\ ResultTime("ra2rr_f", t) = t + 12 * Hour
<1>1. PICK k \in Int : t = 720 * k + 360
  BY SixesApart
<1>2. \A h \in GaugeAggregators : GenerateTime(h, t) = t
  BY GeneratedAtSixes
<1>3. GenerateTime("ra2rr_b", t) = t /\ GenerateTime("ra2rr_f", t) = t
  BY <1>2 DEF GaugeAggregators
<1>4. Aggregators["ra2rr_b"].hours = 25 /\ Aggregators["ra2rr_f"].hours = 25
  BY DEF Aggregators, Standard, ra2rr_12
<1>5. TimeSpan("ra2rr_b", t) = <<t - 25 * Hour, t>>
  BY <1>3, <1>4 DEF TimeSpan, StandardSpan
<1>6. TimeSpan("ra2rr_f", t) = <<t - 12 * Hour, t + 12 * Hour>>
  <2>1. StandardSpan("ra2rr_f", t) = <<t - 25 * Hour, t>>
    BY <1>3, <1>4 DEF StandardSpan
  <2>2. ForwardSpan(t) = <<t - 25 * Hour + 13 * Hour, t + 12 * Hour>>
    BY <2>1 DEF ForwardSpan
  <2>3. t - 25 * Hour + 13 * Hour = t - 12 * Hour
    BY DEF Hour
  <2> QED BY <2>2, <2>3 DEF TimeSpan
<1>7. t % Hour = 0 /\ (t + 12 * Hour) % Hour = 0
  BY <1>1 DEF Hour
<1>8. ResultTime("ra2rr_b", t) = t /\ ResultTime("ra2rr_f", t) = t + 12 * Hour
  <2>1. ResultTime("ra2rr_b", t) = t - (t % Hour)
    BY <1>5 DEF ResultTime
  <2>2. ResultTime("ra2rr_f", t) = t + 12 * Hour - ((t + 12 * Hour) % Hour)
    <3> DEFINE end == TimeSpan("ra2rr_f", t)[2]
    <3>1. end = t + 12 * Hour
      BY <1>6
    <3>2. ResultTime("ra2rr_f", t) = end - (end % Hour)
      BY DEF ResultTime
    <3> HIDE DEF end
    <3> QED BY <3>1, <3>2 DEF Hour
  <2> QED BY <1>7, <2>1, <2>2 DEF Hour
<1> QED BY <1>5, <1>6, <1>8

(* The levels it finds at sixes: those of the half day, and the one before *)
(* if there is one.                                                        *)
Levels(S, p, r) ==
  \/ S = {p, r}
  \/ \E q \in S : S = {p, q, r} /\ HalfDay(q, p)

(* They rise, and none is missing.                                         *)
Rise(p, r) == \A field \in Fields : p[field] # Missing /\ r[field] # Missing /\ p[field] <= r[field]

(* How many two different things are, and three.                           *)
LEMMA TwoThings ==
  ASSUME NEW a, NEW b, a # b
  PROVE  IsFiniteSet({a, b}) /\ Cardinality({a, b}) = 2
<1>1. IsFiniteSet({a}) /\ Cardinality({a}) = 1 /\ b \notin {a}
  BY FS_Singleton
<1>2. {a, b} = {a} \cup {b}
  OBVIOUS
<1>3. IsFiniteSet({a} \cup {b}) /\ Cardinality({a} \cup {b}) = Cardinality({a}) + 1
  BY ONLY <1>1, FS_AddElement
<1> QED BY ONLY <1>1, <1>2, <1>3

(* Three.                                                                  *)
LEMMA ThreeThings ==
  ASSUME NEW a, NEW b, NEW c, a # b, c # a, c # b
  PROVE  IsFiniteSet({a, b, c}) /\ Cardinality({a, b, c}) = 3
<1>1. IsFiniteSet({a, b}) /\ Cardinality({a, b}) = 2 /\ c \notin {a, b}
  BY TwoThings
<1>2. {a, b, c} = {a, b} \cup {c}
  OBVIOUS
<1>3. IsFiniteSet({a, b} \cup {c}) /\ Cardinality({a, b} \cup {c}) = Cardinality({a, b}) + 1
  BY ONLY <1>1, FS_AddElement
<1> QED BY ONLY <1>1, <1>2, <1>3

(* What a gauge that is never emptied rose by.                             *)
LEMMA RainOfRise ==
  ASSUME NEW S \in SUBSET Data, NEW p \in S, NEW r \in S, HalfDay(p, r), Levels(S, p, r),
         \A x, y \in S : HalfDay(x, y) => Rise(x, y), NEW field \in Fields
  PROVE  /\ GaugeRain(S, field) = r[field] - p[field]
         /\ Missing \notin Values(S, field) /\ GaugePeriods(S)
<1>1. p.time \in Int /\ r.time = p.time + 720 /\ p[field] \in Int /\ r[field] \in Int /\ p # r
  BY DEF Data, HalfDay, Hour, Fields
<1>2. p[field] <= r[field] /\ p[field] # Missing /\ r[field] # Missing
  BY DEF Rise
<1> DEFINE T == Times(S)
           level(hours) == (CHOOSE o \in S : o.time = Max(T) - hours * Hour)[field]
<1>3. GaugeRain(S, field) = IF Cardinality(S) = 2 THEN GaugeOfTwo(level(0), level(12))
                            ELSE GaugeOfThree(level(0), level(12), level(24))
  BY DEF GaugeRain
<1>4. ASSUME T \in SUBSET Int, IsFiniteSet(T), r.time \in T, p.time \in T, \A x \in T : x <= r.time,
             \A x \in S : x.time \in {p.time, r.time, p.time - 720},
             \A x, y \in S : x.time = y.time => x = y
      PROVE  /\ Max(T) = r.time /\ level(0) = r[field] /\ level(12) = p[field]
             /\ \A q \in S : q.time = p.time - 720 => level(24) = q[field]
  <2>1. Max(T) \in T /\ \A x \in T : x <= Max(T)
    BY <1>4, Extremes
  <2>2. Max(T) = r.time
    <3>1. Max(T) \in Int /\ r.time \in Int /\ Max(T) <= r.time /\ r.time <= Max(T)
      BY <1>4, <2>1
    <3> QED BY <3>1
  <2>3. Max(T) - 0 * Hour = r.time /\ Max(T) - 12 * Hour = p.time /\ Max(T) - 24 * Hour = p.time - 720
    BY <1>1, <2>2 DEF Hour
  <2> HIDE DEF T
  <2>4. (CHOOSE o \in S : o.time = Max(T) - 0 * Hour) = r
    BY <1>4, <2>3
  <2>5. (CHOOSE o \in S : o.time = Max(T) - 12 * Hour) = p
    BY <1>4, <2>3
  <2>6. ASSUME NEW q \in S, q.time = p.time - 720
        PROVE  (CHOOSE o \in S : o.time = Max(T) - 24 * Hour) = q
    BY <1>4, <2>3, <2>6
  <2> QED BY <2>2, <2>4, <2>5, <2>6
<1>5. CASE S = {p, r}
  <2>1. T = {p.time, r.time} /\ IsFiniteSet(T)
    <3>1. T = {p.time, r.time}
      BY <1>5 DEF Times
    <3>2. p.time # r.time
      BY <1>1
    <3>3. IsFiniteSet({p.time, r.time})
      BY <3>2, TwoThings
    <3> QED BY <3>1, <3>3
  <2>2. Cardinality(S) = 2
    BY <1>1, <1>5, TwoThings
  <2>3. Max(T) = r.time /\ level(0) = r[field] /\ level(12) = p[field]
    <3> HIDE DEF level
    <3>1. T \in SUBSET Int /\ r.time \in T /\ p.time \in T /\ (\A x \in T : x <= r.time)
          /\ (\A x \in S : x.time \in {p.time, r.time, p.time - 720})
          /\ \A x, y \in S : x.time = y.time => x = y
      BY <1>1, <1>5, <2>1
    <3> QED BY <1>4, <2>1, <3>1
  <2>4. Min(T) = p.time
    <3>1. T \in SUBSET Int /\ T # {}
      BY <1>1, <2>1
    <3>2. Min(T) \in T /\ Min(T) <= p.time
      BY <2>1, <3>1, Extremes
    <3> QED BY <1>1, <2>1, <3>2
  <2>5. GaugePeriods(S)
    BY <1>1, <2>2, <2>3, <2>4 DEF GaugePeriods, Hour
  <2>6. GaugeOfTwo(r[field], p[field]) = r[field] - p[field]
    BY <1>1, <1>2 DEF GaugeOfTwo
  <2>7. Missing \notin Values(S, field)
    BY <1>2, <1>5 DEF Values
  <2> QED BY <1>3, <2>2, <2>3, <2>5, <2>6, <2>7
<1>6. CASE \E q \in S : S = {p, q, r} /\ HalfDay(q, p)
  <2>1. PICK q \in S : S = {p, q, r} /\ HalfDay(q, p)
    BY <1>6
  <2>2. q.time = p.time - 720 /\ q.time \in Int /\ q[field] \in Int /\ q[field] <= p[field] /\ q[field] # Missing
    <3>1. q.time \in Int /\ q[field] \in Int
      BY DEF Data, Fields
    <3>2. p.time = q.time + 720
      BY <2>1 DEF HalfDay, Hour
    <3>3. q[field] <= p[field] /\ q[field] # Missing
      BY <2>1 DEF Rise
    <3> QED BY <1>1, <3>1, <3>2, <3>3
  <2>3. Cardinality(S) = 3
    <3>1. p # q /\ r # p /\ r # q
      BY <1>1, <2>2
    <3> QED BY <2>1, <3>1, ThreeThings
  <2>4. T = {p.time, q.time, r.time} /\ IsFiniteSet(T)
    <3>1. T = {p.time, q.time, r.time}
      BY <2>1 DEF Times
    <3>2. p.time # q.time /\ r.time # p.time /\ r.time # q.time
      BY <1>1, <2>2
    <3>3. IsFiniteSet({p.time, q.time, r.time})
      BY <3>2, ThreeThings
    <3> QED BY <3>1, <3>3
  <2>5. level(0) = r[field] /\ level(12) = p[field] /\ level(24) = q[field]
    <3> HIDE DEF level
    <3>1. T \in SUBSET Int /\ r.time \in T /\ p.time \in T /\ \A x \in T : x <= r.time
      BY <1>1, <2>2, <2>4
    <3>2. \A x \in S : x = p \/ x = q \/ x = r
      BY <2>1
    <3>3. \A x \in S : x.time \in {p.time, r.time, p.time - 720}
      BY <2>2, <3>2
    <3>4. p.time # q.time /\ p.time # r.time /\ q.time # r.time
      BY <1>1, <2>2
    <3>5. \A x, y \in S : x.time = y.time => x = y
      BY <3>2, <3>4
    <3> QED BY <1>4, <2>2, <2>4, <3>1, <3>3, <3>5
  <2>6. GaugePeriods(S)
    BY <2>3 DEF GaugePeriods
  <2>7. GaugeOfThree(r[field], p[field], q[field]) = r[field] - p[field]
    BY <1>1, <1>2, <2>2 DEF GaugeOfThree
  <2>8. Missing \notin Values(S, field)
    BY <1>2, <2>1, <2>2 DEF Values
  <2> QED BY <1>3, <2>3, <2>5, <2>6, <2>7, <2>8
<1> QED BY <1>5, <1>6 DEF Levels

(* A whole number is not rounded.                                          *)
LEMMA WholeNotRounded ==
  ASSUME NEW n \in Int
  PROVE  Round(<<n, 1>>) = n
<1>1. n <= Round(<<n, 1>>) /\ Round(<<n, 1>>) <= n
  BY RoundBetween
<1>2. Round(<<n, 1>>) \in Int
  BY RoundedFraction DEF Fraction
<1> QED BY <1>1, <1>2

(* What triggers them: the end of the half day for the one backward in     *)
(* time, the start for the one forward.                                    *)
TriggersOf(p, r) == {<<"ra2rr_b", r>>, <<"ra2rr_f", p>>}

(* Both aggregators of the gauge find, at sixes, the levels of the half    *)
(* day, the backward one for its end and the forward one for its start.    *)
LEMMA GaugeFinds ==
  ASSUME NEW S, OneForEachKey(S), NEW p \in S, NEW r \in S, HalfDay(p, r),
         NEW h, NEW d, <<h, d>> \in TriggersOf(p, r)
  PROVE  LET found == Read(S, RA, d.type, TimeSpan(h, d.time))
             sixes == AtSixes(found)
         IN  /\ sixes \in SUBSET Data /\ p \in sixes /\ r \in sixes
             /\ Levels(sixes, p, r) /\ GaugeReady(d.time, found)
<1> DEFINE span == TimeSpan(h, d.time)
           found == Read(S, RA, d.type, span)
           sixes == AtSixes(found)
<1>1. (h = "ra2rr_b" /\ d = r) \/ (h = "ra2rr_f" /\ d = p)
  BY DEF TriggersOf
<1>2. /\ p \in Data /\ r \in Data /\ p.time \in Int /\ r.time = p.time + 720
      /\ p.param = RA /\ r.param = RA /\ r.type = p.type /\ d.type = p.type
      /\ TimeOfDay(p.time) \in sixAmSixPm /\ p # r
  BY <1>1 DEF OneForEachKey, HalfDay, Data, Hour
<1>3. PICK k \in Int : p.time = 720 * k + 360
  BY <1>2, SixesApart
<1>4. /\ TimeOfDay(r.time) \in sixAmSixPm
      /\ {TimeOfDay(p.time), TimeOfDay(r.time)} = sixAmSixPm
  BY <1>2 DEF TimeOfDay, sixAmSixPm, Day, Hour
<1>5. ASSUME h = "ra2rr_b", d = r
      PROVE  /\ InSpan(p.time, span) /\ InSpan(r.time, span)
             /\ \A x \in sixes : x.time \in {p.time, r.time, p.time - 720}
  <2>1. span = <<r.time - 1500, r.time>>
    BY <1>2, <1>4, <1>5, GaugeSpans DEF Hour
  <2>2. ASSUME NEW x \in sixes PROVE x.time \in {p.time, r.time, p.time - 720}
    <3>1. x \in S /\ r.time - 1500 < x.time /\ x.time <= r.time /\ TimeOfDay(x.time) \in sixAmSixPm
      BY <2>1 DEF AtSixes, Read, InSpan
    <3>2. x.time \in Int
      BY <3>1 DEF OneForEachKey, Data
    <3>3. PICK j \in Int : x.time = 720 * j + 360
      BY <3>1, <3>2, SixesApart
    <3>4. j \in {k - 1, k, k + 1}
      BY <1>2, <1>3, <3>1, <3>3
    <3> QED BY <1>2, <1>3, <3>3, <3>4
  <2>3. InSpan(p.time, span) /\ InSpan(r.time, span)
    BY <1>2, <2>1 DEF InSpan
  <2> QED BY <2>2, <2>3
<1>6. ASSUME h = "ra2rr_f", d = p
      PROVE  /\ InSpan(p.time, span) /\ InSpan(r.time, span)
             /\ \A x \in sixes : x.time \in {p.time, r.time, p.time - 720}
  <2>1. span = <<p.time - 720, p.time + 720>>
    BY <1>2, <1>6, GaugeSpans DEF Hour
  <2>2. ASSUME NEW x \in sixes PROVE x.time \in {p.time, r.time, p.time - 720}
    <3>1. x \in S /\ p.time - 720 < x.time /\ x.time <= p.time + 720 /\ TimeOfDay(x.time) \in sixAmSixPm
      BY <2>1 DEF AtSixes, Read, InSpan
    <3>2. x.time \in Int
      BY <3>1 DEF OneForEachKey, Data
    <3>3. PICK j \in Int : x.time = 720 * j + 360
      BY <3>1, <3>2, SixesApart
    <3>4. j \in {k, k + 1}
      BY <1>2, <1>3, <3>1, <3>3
    <3> QED BY <1>2, <1>3, <3>3, <3>4
  <2>3. InSpan(p.time, span) /\ InSpan(r.time, span)
    BY <1>2, <2>1 DEF InSpan
  <2> QED BY <2>2, <2>3
<1>7. /\ InSpan(p.time, span) /\ InSpan(r.time, span)
      /\ \A x \in sixes : x.time \in {p.time, r.time, p.time - 720}
  BY <1>1, <1>5, <1>6
<1> HIDE DEF span
<1>8. p \in found /\ r \in found
  BY <1>2, <1>7 DEF Read
<1>9. p \in sixes /\ r \in sixes
  BY <1>2, <1>4, <1>8 DEF AtSixes
<1>10. /\ sixes \subseteq S
      /\ \A x \in sixes : x.param = RA /\ x.type = p.type /\ TimeOfDay(x.time) \in sixAmSixPm
  BY <1>2 DEF AtSixes, Read
<1>11. IsFiniteSet(found)
  <2>1. found \subseteq S
    BY DEF Read
  <2> QED BY <2>1, FS_Subset DEF OneForEachKey
<1> HIDE DEF sixes
<1>12. \A x, y \in sixes : x.time = y.time => x = y
  BY <1>10 DEF OneForEachKey, Key
<1>13. Levels(sixes, p, r)
  <2>1. CASE \E q \in sixes : q.time = p.time - 720
    <3>1. PICK q \in sixes : q.time = p.time - 720
      BY <2>1
    <3>2. sixes = {p, q, r}
      BY <1>7, <1>9, <1>12, <3>1
    <3>3. HalfDay(q, p)
      <4>1. q.time \in Int
        BY <1>10 DEF OneForEachKey, Data
      <4> QED BY <1>2, <1>10, <3>1, <4>1 DEF HalfDay, Hour
    <3> QED BY <3>2, <3>3 DEF Levels
  <2>2. CASE \A q \in sixes : q.time # p.time - 720
    <3>1. sixes = {p, r}
      BY <1>7, <1>9, <1>12, <2>2
    <3> QED BY <3>1 DEF Levels
  <2> QED BY <2>1, <2>2
<1>14. GaugeReady(d.time, found)
  <2> HIDE DEF found
  <2>1. Cardinality(found) > 1
    <3>1. Cardinality({p, r}) = 2
      <4>1. p # r
        BY <1>2
      <4> QED BY ONLY <4>1, TwoThings
    <3>2. {p, r} \subseteq found
      BY <1>8
    <3>3. Cardinality({p, r}) <= Cardinality(found) /\ Cardinality(found) \in Nat
      BY <1>11, <3>2, FS_Subset, FS_CardinalityType
    <3> QED BY <3>1, <3>3
  <2>2. sixAmSixPm \subseteq Clock(found)
    BY <1>4, <1>8 DEF Clock, Times
  <2>3. TimeOfDay(d.time) \in sixAmSixPm
    BY <1>1, <1>2, <1>4
  <2> QED BY <2>1, <2>2, <2>3 DEF GaugeReady, BothSixes
<1>15. sixes \in SUBSET Data
  BY <1>10 DEF OneForEachKey
<1> QED BY <1>9, <1>13, <1>14, <1>15 DEF sixes, span

(* And they make the rain of the half day of what the gauge rose by, if it *)
(* rose.                                                                   *)
LEMMA GaugeMakes ==
  ASSUME NEW S, OneForEachKey(S), NEW p \in S, NEW r \in S, HalfDay(p, r),
         \A x, y \in S : HalfDay(x, y) => Rise(x, y),
         NEW h, NEW d, <<h, d>> \in TriggersOf(p, r), NEW metadata,
         NEW s \in StandardProcess(h, d, Read(S, RA, d.type, TimeSpan(h, d.time)), S, metadata)
  PROVE  s # {} /\ \A a \in s, field \in Fields : a[field] = r[field] - p[field]
<1> DEFINE found == Read(S, RA, d.type, TimeSpan(h, d.time))
           sixes == AtSixes(found)
<1>1. /\ sixes \in SUBSET Data /\ p \in sixes /\ r \in sixes
      /\ Levels(sixes, p, r) /\ GaugeReady(d.time, found)
  BY GaugeFinds
<1>2. h \in GaugeAggregators /\ h \in Timed /\ h \notin {"ta_24", "uu_24"}
  BY DEF TriggersOf, GaugeAggregators, Timed
<1>3. \A x, y \in sixes : HalfDay(x, y) => Rise(x, y)
  BY DEF AtSixes, Read
<1>4. s \in UNION {Aggregated(h, d, useful, S, metadata) : useful \in Useful(h, d.time, found)}
      \/ (Useful(h, d.time, found) = {} /\ s = {})
  BY <1>2 DEF StandardProcess, MayRefuse
<1> HIDE DEF found
<1>5. Useful(h, d.time, found) = {u \in {sixes} : GaugeReady(d.time, found) /\ GaugePeriods(u)}
  BY <1>2, UsefulCases
<1> HIDE DEF sixes
<1>6. \A field \in Fields : /\ GaugeRain(sixes, field) = r[field] - p[field]
                            /\ Missing \notin Values(sixes, field) /\ GaugePeriods(sixes)
  BY <1>1, <1>3, RainOfRise
<1>7. Useful(h, d.time, found) = {sixes}
  BY <1>1, <1>5, <1>6 DEF Fields
<1>8. s \in Aggregated(h, d, sixes, S, metadata)
  BY <1>4, <1>7
<1> DEFINE extras == Extras(h, d, sixes, S, metadata)
           low == LowestOf([orig |-> 0, corr |-> 0], [orig |-> 0, corr |-> 0])
<1>9. extras = {[factor |-> 0, low |-> low]}
  BY <1>2 DEF Extras
<1>10. \A field \in Fields : low[field] # Missing
  <2>1. Min({0, 0}) = 0
    <3>1. 0 \in Int
      OBVIOUS
    <3> QED BY ONLY <3>1, MinOfTwo
  <2> QED BY <2>1 DEF LowestOf, original_missing, valid, Missing, Fields
<1> HIDE DEF low, extras
<1>11. AllOriginal(sixes)
  BY <1>6 DEF AllOriginal, original_missing, Values, Fields
<1>12. PICK e \in extras :
         s = {getDataObject(h, d, ValueOf(h, sixes, "orig", e), ValueOf(h, sixes, "corr", e), sixes)}
  BY <1>8, <1>9, <1>11 DEF Aggregated, extras
<1>13. ASSUME NEW field \in Fields PROVE ValueOf(h, sixes, field, e) = r[field] - p[field]
  <2>1. e.low[field] # Missing
    BY <1>9, <1>10
  <2>2. Calculate(h, sixes, field, e) = <<GaugeRain(sixes, field), 1>>
    BY <1>2, CalculateCases
  <2>3. r[field] - p[field] \in Int
    BY <1>1 DEF Data, Fields
  <2>4. Round(<<r[field] - p[field], 1>>) = r[field] - p[field]
    BY <2>3, WholeNotRounded
  <2> QED BY <1>6, <2>1, <2>2, <2>4 DEF ValueOf
<1> QED BY <1>12, <1>13 DEF getDataObject, Fields

(* What either makes is of half a day that ends, or begins, at its         *)
(* trigger.                                                                *)
LEMMA GaugeMakesAtSixes ==
  ASSUME NEW h \in GaugeAggregators, NEW d, NEW obs, NEW stored, NEW metadata,
         NEW s \in StandardProcess(h, d, obs, stored, metadata), s # {}
  PROVE  TimeOfDay(d.time) \in sixAmSixPm
<1>1. h \in Timed
  BY DEF GaugeAggregators, Timed
<1>2. Useful(h, d.time, obs) # {}
  BY DEF StandardProcess
<1>3. GaugeReady(d.time, obs)
  BY <1>1, <1>2, UsefulCases
<1> QED BY <1>3 DEF GaugeReady, BothSixes

-----------------------------------------------------------------------------
(* Rain that is the sum of rain.                                           *)

(* What was measured; rain is the total of it, and -10 if there was none.  *)
Measured(obs, field) == {o \in obs : o[field] >= 0}

(* A sum of rain is that of what was measured.                             *)
LEMMA RainSumIs ==
  ASSUME NEW obs \in SUBSET Data, IsFiniteSet(obs), NEW field \in Fields
  PROVE  /\ Measured(obs, field) = {} => RainSum(obs, field) = -10
         /\ Measured(obs, field) # {} => RainSum(obs, field) = Total(Measured(obs, field), field)
         /\ RainSum(obs, field) \in Int
         /\ RainSum(obs, field) >= 0 <=> Measured(obs, field) # {}
         /\ RainSum(obs, field) # Missing
         /\ IsFiniteSet(Measured(obs, field)) /\ \A o \in Measured(obs, field) : o[field] \in Int
<1> DEFINE M == Measured(obs, field)
<1>1. IsFiniteSet(M) /\ \A o \in M : o[field] \in Int /\ o[field] >= 0
  <2>1. M \in SUBSET obs
    BY DEF Measured
  <2>2. \A o \in M : o[field] \in Int /\ o[field] >= 0
    BY DEF Measured, Data, Fields
  <2> QED BY <2>1, <2>2, FS_Subset
<1>2. Total(M, field) \in Int /\ Total(M, field) >= 0
  <2> HIDE DEF M
  <2> QED BY <1>1, TotalNotNegative
<1>3. RainSum(obs, field) = IF M = {} THEN -10 ELSE Total(M, field)
  BY DEF RainSum, Measured
<1> HIDE DEF M
<1>4. RainSum(obs, field) # Missing
  BY <1>2, <1>3 DEF Missing
<1> QED BY <1>1, <1>2, <1>3, <1>4 DEF M

(* Rain, unless something is missing.                                      *)
RainIn(obs, field) == IF Missing \in Values(obs, field) THEN Missing ELSE RainSum(obs, field)

(* The rain of two parts is that of the rain of each.                      *)
LEMMA RainOfRain ==
  ASSUME NEW P \in SUBSET Data, IsFiniteSet(P), NEW Q \in SUBSET Data, IsFiniteSet(Q), P \cap Q = {},
         NEW a \in Data, NEW b \in Data, a # b, NEW field \in Fields,
         a[field] = RainIn(P, field), b[field] = RainIn(Q, field)
  PROVE  RainIn({a, b}, field) = RainIn(P \cup Q, field)
<1>1. Values({a, b}, field) = {a[field], b[field]} /\ Values(P \cup Q, field) = Values(P, field) \cup Values(Q, field)
  BY DEF Values
<1>2. RainSum(P, field) # Missing /\ RainSum(Q, field) # Missing
  BY RainSumIs
<1>3. CASE Missing \in Values(P, field) \cup Values(Q, field)
  BY <1>1, <1>3 DEF RainIn
<1>4. CASE Missing \notin Values(P, field) \cup Values(Q, field)
  <2>1. a[field] = RainSum(P, field) /\ b[field] = RainSum(Q, field)
    BY <1>4 DEF RainIn
  <2>2. RainIn({a, b}, field) = RainSum({a, b}, field) /\ RainIn(P \cup Q, field) = RainSum(P \cup Q, field)
    BY <1>1, <1>2, <1>4, <2>1 DEF RainIn
  <2> DEFINE p == Measured(P, field)
             q == Measured(Q, field)
  <2>3. Measured(P \cup Q, field) = p \cup q /\ p \cap q = {}
    BY DEF Measured
  <2>4. Measured({a, b}, field) = Measured({a}, field) \cup Measured({b}, field)
    BY DEF Measured
  <2>5. Measured({a}, field) = (IF p # {} THEN {a} ELSE {}) /\ Measured({b}, field) = (IF q # {} THEN {b} ELSE {})
    <3>1. (a[field] >= 0 <=> p # {}) /\ (b[field] >= 0 <=> q # {})
      BY <2>1, RainSumIs
    <3> QED BY <3>1 DEF Measured
  <2>6. /\ p # {} => a[field] = Total(p, field)
        /\ q # {} => b[field] = Total(q, field)
    BY <2>1, RainSumIs
  <2>7. IsFiniteSet(P \cup Q) /\ P \cup Q \in SUBSET Data /\ IsFiniteSet({a, b}) /\ {a, b} \in SUBSET Data
    BY FS_Union, TwoThings
  <2>8. IsFiniteSet(p) /\ IsFiniteSet(q) /\ \A o \in p \cup q : o[field] \in Int
    BY RainSumIs
  <2>9. Total(p \cup q, field) = Total(p, field) + Total(q, field)
    <3> HIDE DEF p, q
    <3> QED BY <2>3, <2>8, TotalOfParts
  <2>10. Total({}, field) = 0 /\ Total({a}, field) = a[field] /\ Total({b}, field) = b[field]
         /\ Total({a} \cup {b}, field) = a[field] + b[field]
    <3>1. a[field] \in Int /\ b[field] \in Int
      BY DEF Data, Fields
    <3>2. IsFiniteSet({a}) /\ IsFiniteSet({b}) /\ {a} \cap {b} = {} /\ \A o \in {a} \cup {b} : o[field] \in Int
      BY <3>1, FS_Singleton
    <3>3. Total({a} \cup {b}, field) = Total({a}, field) + Total({b}, field)
      BY <3>2, TotalOfParts
    <3> QED BY <3>1, <3>3, TotalOfOne
  <2>11. Total(p, field) \in Int /\ Total(q, field) \in Int
    <3> HIDE DEF p, q
    <3> QED BY <2>8, TotalIsInteger
  <2> HIDE DEF p, q
  <2>12. /\ p \cup q = {} => RainSum(P \cup Q, field) = -10
         /\ p \cup q # {} => RainSum(P \cup Q, field) = Total(p \cup q, field)
    BY <2>3, <2>7, RainSumIs
  <2>13. RainSum({a, b}, field) =
          IF p = {} /\ q = {} THEN -10
          ELSE IF p = {} THEN b[field] ELSE IF q = {} THEN a[field] ELSE a[field] + b[field]
    <3>1. /\ Measured({a, b}, field) = {} => RainSum({a, b}, field) = -10
          /\ Measured({a, b}, field) # {} => RainSum({a, b}, field) = Total(Measured({a, b}, field), field)
      BY <2>7, RainSumIs
    <3>2. Measured({a, b}, field) =
          IF p = {} /\ q = {} THEN {} ELSE IF p = {} THEN {b} ELSE IF q = {} THEN {a} ELSE {a} \cup {b}
      BY <2>4, <2>5
    <3> QED BY <2>10, <3>1, <3>2
  <2>14. RainSum({a, b}, field) = RainSum(P \cup Q, field)
    <3>1. CASE p = {} /\ q = {}
      BY <2>12, <2>13, <3>1
    <3>2. CASE p = {} /\ q # {}
      <4>1. p \cup q = q
        BY <3>2
      <4> QED BY <2>6, <2>12, <2>13, <3>2, <4>1
    <3>3. CASE p # {} /\ q = {}
      <4>1. p \cup q = p
        BY <3>3
      <4> QED BY <2>6, <2>12, <2>13, <3>3, <4>1
    <3>4. CASE p # {} /\ q # {}
      BY <2>6, <2>9, <2>12, <2>13, <3>4
    <3> QED BY <3>1, <3>2, <3>3, <3>4
  <2> QED BY <2>2, <2>14
<1> QED BY <1>3, <1>4

(* What is made of the one selection there is.                             *)
IsMadeOf(s, h, u) ==
  \E extra : /\ \A field \in Fields : extra.low[field] # Missing
             /\ \A a \in s, field \in Fields : a[field] = ValueOf(h, u, field, extra)

(* What StandardProcess makes is made of it.                               *)
LEMMA MadeOfSelection ==
  ASSUME NEW h \in Timed \ {"ta_24", "uu_24"}, NEW d, NEW obs, NEW u, Useful(h, d.time, obs) = {u},
         NEW stored, NEW metadata, NEW s \in StandardProcess(h, d, obs, stored, metadata)
  PROVE  s # {} /\ IsMadeOf(s, h, u)
<1>1. s \in Aggregated(h, d, u, stored, metadata)
  <2>1. ~MayRefuse(h, d.time, obs)
    BY DEF MayRefuse
  <2> QED BY <2>1 DEF StandardProcess
<1> DEFINE extras == Extras(h, d, u, stored, metadata)
           low == LowestOf([orig |-> 0, corr |-> 0], [orig |-> 0, corr |-> 0])
           none == [factor |-> 0, low |-> low]
<1>2. extras = {none}
  BY DEF Extras
<1>3. \A field \in Fields : none.low[field] # Missing
  <2>1. Min({0, 0}) = 0
    <3>1. 0 \in Int
      OBVIOUS
    <3> QED BY ONLY <3>1, MinOfTwo
  <2> QED BY <2>1 DEF LowestOf, original_missing, valid, Missing, Fields
<1> HIDE DEF none, extras
<1>4. CASE ~AllOriginal(u) /\ ~AllValid(u)
  <2>1. s = {getDataObject(h, d, Missing, Missing, u)}
    BY <1>1, <1>4 DEF Aggregated
  <2>2. \A field \in Fields : Missing \in Values(u, field)
    BY <1>4 DEF AllOriginal, AllValid, original_missing, valid, Values, Fields
  <2>3. \A field \in Fields : ValueOf(h, u, field, none) = Missing
    BY <2>2 DEF ValueOf
  <2> QED BY <1>3, <2>1, <2>3 DEF IsMadeOf, getDataObject, Fields
<1>5. CASE AllOriginal(u) \/ AllValid(u)
  <2>1. s = {getDataObject(h, d, ValueOf(h, u, "orig", none), ValueOf(h, u, "corr", none), u)}
    BY <1>1, <1>2, <1>5 DEF Aggregated, extras
  <2> QED BY <1>3, <2>1 DEF IsMadeOf, getDataObject, Fields
<1> QED BY <1>4, <1>5

-----------------------------------------------------------------------------
(* The rain of a day.                                                      *)

(* The rain of two halves of a day, which ends at six in the morning.      *)
Halves(a, b) ==
  /\ a.param = RR_12 /\ b.param = RR_12 /\ a.type = b.type
  /\ TimeOfDay(b.time) = 6 * Hour /\ b.time = a.time + 12 * Hour

(* rr_24 makes the rain of the day that ends at the next six o'clock.      *)
LEMMA DayTimes ==
  ASSUME NEW t \in Int
  PROVE  \E j \in Int : /\ GenerateTime("rr_24", t) = 1440 * j + 360
                        /\ t <= 1440 * j + 360 /\ 1440 * j + 360 < t + 1440
<1> DEFINE g == GenerateTime("rr_24", t)
<1>1. "rr_24" \in Timed /\ Interval("rr_24") = 24 /\ Aggregators["rr_24"].when = {360}
  BY DEF Timed, Interval, Aggregators, Standard, rr_24, sixAm, Hour
<1>2. t <= g /\ g < t + 24 * 60
  BY <1>1, GeneratedTime DEF Hour
<1>3. PICK date \in Int : g = At(date, 0) + 360
  BY <1>1, GeneratedOnDate
<1>4. g = 1440 * date + 360
  BY <1>3 DEF At, Day, Hour
<1> HIDE DEF g
<1> QED BY <1>2, <1>4 DEF g

(* Its triggers at sixes are the two halves.                               *)
LEMMA DayTriggers ==
  ASSUME NEW t \in Int, NEW end \in Int, TimeOfDay(end) = 6 * Hour
  PROVE  /\ t \in {end - 12 * Hour, end} =>
              ResultTime("rr_24", t) = end /\ TimeSpan("rr_24", t) = <<end - Day, end>>
         /\ TimeOfDay(t) \in sixAmSixPm /\ ResultTime("rr_24", t) = end => t \in {end - 12 * Hour, end}
<1> DEFINE g == GenerateTime("rr_24", t)
<1>1. PICK j \in Int : g = 1440 * j + 360 /\ t <= 1440 * j + 360 /\ 1440 * j + 360 < t + 1440
  BY DayTimes
<1>2. ResultTime("rr_24", t) = g /\ TimeSpan("rr_24", t) = <<g - Day, g>>
  <2>1. Aggregators["rr_24"].hours * Hour = Day
    BY DEF Aggregators, Standard, rr_24, Day, Hour
  <2> QED BY <2>1, GeneratedFullHour
<1> HIDE DEF g
<1>3. PICK k \in Int : end = 1440 * k + 360
  <2>1. end = 1440 * (end \div 1440) + (end % 1440) /\ end \div 1440 \in Int /\ end % 1440 = 360
    BY DEF TimeOfDay, Day, Hour
  <2> QED BY <2>1
<1>4. t \in {end - 12 * Hour, end} => g = end
  BY <1>1, <1>3 DEF Hour
<1>5. ASSUME TimeOfDay(t) \in sixAmSixPm, g = end PROVE t \in {end - 12 * Hour, end}
  <2>1. PICK i \in Int : t = 720 * i + 360
    BY <1>5, SixesApart
  <2>2. k = j /\ (i = 2 * k \/ i = 2 * k - 1)
    BY <1>1, <1>3, <1>5, <2>1
  <2> QED BY <1>3, <2>1, <2>2 DEF Hour
<1> QED BY <1>2, <1>4, <1>5

(* What it makes is triggered by one of them.                              *)
LEMMA DayMadeAtSixes ==
  ASSUME NEW d, NEW obs, NEW stored, NEW metadata,
         NEW s \in StandardProcess("rr_24", d, obs, stored, metadata), s # {}
  PROVE  TimeOfDay(d.time) \in sixAmSixPm
<1>1. "rr_24" \in Timed
  BY DEF Timed
<1>2. Useful("rr_24", d.time, obs) # {}
  BY DEF StandardProcess
<1>3. BothSixes(d.time, obs)
  BY <1>1, <1>2, UsefulCases
<1> QED BY <1>3 DEF BothSixes

(* At either it finds both, and nothing else.                              *)
LEMMA DayFinds ==
  ASSUME NEW S, OneForEachKey(S), NEW a \in S, NEW b \in S, Halves(a, b), NEW t \in {a.time, b.time}
  PROVE  LET found == Read(S, RR_12, b.type, TimeSpan("rr_24", t))
         IN  a \in found /\ b \in found /\ AtSixes(found) = {a, b} /\ BothSixes(t, found)
<1> DEFINE found == Read(S, RR_12, b.type, TimeSpan("rr_24", t))
<1>1. a.time \in Int /\ b.time \in Int /\ a.time = b.time - 12 * Hour
  BY DEF Halves, OneForEachKey, Data, Hour
<1>2. TimeSpan("rr_24", t) = <<b.time - Day, b.time>>
  BY <1>1, DayTriggers DEF Halves
<1>3. PICK k \in Int : b.time = 1440 * k + 360
  <2>1. TimeOfDay(b.time) = 6 * Hour
    BY DEF Halves
  <2>2. b.time = 1440 * (b.time \div 1440) + (b.time % 1440) /\ b.time \div 1440 \in Int /\ b.time % 1440 = 360
    BY <1>1, <2>1 DEF TimeOfDay, Day, Hour
  <2> QED BY <2>2
<1>4. TimeOfDay(b.time) = 6 * Hour /\ TimeOfDay(a.time) = 18 * Hour
  <2>1. a.time = 1440 * (k - 1) + 1080 /\ k - 1 \in Int
    BY <1>1, <1>3 DEF Hour
  <2> DEFINE i == k - 1
  <2> HIDE DEF i
  <2>2. a.time % 1440 = 1080
    <3>1. a.time = 1440 * i + 1080 /\ i \in Int
      BY <2>1 DEF i
    <3> QED BY <3>1
  <2> QED BY <2>2 DEF Halves, TimeOfDay, Day, Hour
<1>5. a \in found /\ b \in found
  <2>1. InSpan(a.time, <<b.time - Day, b.time>>) /\ InSpan(b.time, <<b.time - Day, b.time>>)
    BY <1>1 DEF InSpan, Day, Hour
  <2> QED BY <1>2, <2>1 DEF Read, Halves
<1>6. ASSUME NEW x \in found, TimeOfDay(x.time) \in sixAmSixPm PROVE x \in {a, b}
  <2>1. x \in S /\ x.param = RR_12 /\ x.type = b.type /\ x.time \in Int
        /\ b.time - Day < x.time /\ x.time <= b.time
    BY <1>2 DEF Read, InSpan, OneForEachKey, Data
  <2>2. PICK i \in Int : x.time = 720 * i + 360
    BY <1>6, <2>1, SixesApart
  <2>3. i = 2 * k \/ i = 2 * k - 1
    BY <1>3, <2>1, <2>2 DEF Day, Hour
  <2>4. x.time = b.time \/ x.time = a.time
    BY <1>1, <1>3, <2>2, <2>3 DEF Hour
  <2>5. Key(x) = Key(b) \/ Key(x) = Key(a)
    BY <2>1, <2>4 DEF Key, Halves
  <2> QED BY <2>1, <2>5 DEF OneForEachKey
<1> HIDE DEF found
<1>7. AtSixes(found) = {a, b}
  BY <1>4, <1>5, <1>6 DEF AtSixes, sixAmSixPm
<1>8. BothSixes(t, found)
  <2>1. TimeOfDay(a.time) \in Clock(found) /\ TimeOfDay(b.time) \in Clock(found)
    BY <1>5 DEF Clock, Times
  <2> QED BY <1>4, <2>1 DEF BothSixes, sixAmSixPm
<1> QED BY <1>5, <1>7, <1>8 DEF found

(* The rain of the day, made of that of two halves.                        *)
MadeOfHalves(s, a, b) == s # {} /\ \A x \in s, field \in Fields : x[field] = RainIn({a, b}, field)

(* That is what it makes.                                                  *)
LEMMA DayMakes ==
  ASSUME NEW S, OneForEachKey(S), NEW a \in S, NEW b \in S, Halves(a, b), NEW d, d.time \in {a.time, b.time},
         NEW stored, NEW metadata,
         NEW s \in StandardProcess("rr_24", d, Read(S, RR_12, b.type, TimeSpan("rr_24", d.time)), stored, metadata)
  PROVE  MadeOfHalves(s, a, b)
<1> DEFINE found == Read(S, RR_12, b.type, TimeSpan("rr_24", d.time))
<1>1. AtSixes(found) = {a, b} /\ BothSixes(d.time, found)
  BY DayFinds
<1>2. s \in StandardProcess("rr_24", d, found, stored, metadata)
  OBVIOUS
<1> HIDE DEF found
<1>3. "rr_24" \in Timed \ {"ta_24", "uu_24"}
  BY DEF Timed
<1>4. Useful("rr_24", d.time, found) = {{a, b}}
  <2>1. Useful("rr_24", d.time, found) = {u \in {AtSixes(found)} : BothSixes(d.time, found)}
    BY <1>3, UsefulCases
  <2> QED BY <1>1, <2>1
<1>5. s # {} /\ IsMadeOf(s, "rr_24", {a, b})
  BY <1>2, <1>3, <1>4, MadeOfSelection
<1>6. PICK extra : /\ \A field \in Fields : extra.low[field] # Missing
                   /\ \A x \in s, field \in Fields : x[field] = ValueOf("rr_24", {a, b}, field, extra)
  BY <1>5 DEF IsMadeOf
<1>7. ASSUME NEW field \in Fields PROVE ValueOf("rr_24", {a, b}, field, extra) = RainIn({a, b}, field)
  <2>1. {a, b} \in SUBSET Data /\ IsFiniteSet({a, b})
    <3>1. a # b
      BY DEF Halves, OneForEachKey, Data, Hour
    <3> QED BY <3>1, TwoThings DEF OneForEachKey
  <2>2. RainSum({a, b}, field) \in Int
    BY <2>1, RainSumIs
  <2>3. Round(Calculate("rr_24", {a, b}, field, extra)) = RainSum({a, b}, field)
    BY <1>3, <2>2, CalculateCases, WholeNotRounded
  <2> QED BY <1>6, <2>3 DEF ValueOf, RainIn
<1> QED BY <1>5, <1>6, <1>7 DEF MadeOfHalves
=============================================================================
