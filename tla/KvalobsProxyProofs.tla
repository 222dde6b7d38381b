------------------------- MODULE KvalobsProxyProofs -------------------------
(***************************************************************************)
(* Proofs about KvalobsProxy, for any number of readers, observation times *)
(* and versions, any spans of the boundary and any number of crashes.      *)
(***************************************************************************)
EXTENDS KvalobsProxy, TLAPS

LEMMA BoundsNat ==
  /\ MaxTime \in Nat \ {0} /\ ObsTimes \subseteq Nat /\ ObsTimes \subseteq Int
  /\ Lead \in Nat /\ ClearLead \in Nat /\ PopulateSpan \in Nat /\ Keep \in Nat
  /\ MaxCrashes \in Nat /\ MaxFailures \in Nat
BY TimesAssumption

(* The rows of a store are rows, one for each time of the request that the  *)
(* store has.                                                               *)
LEMMA RowsOfFacts ==
  ASSUME NEW store \in [ObsTimes -> Versions \cup {0}], NEW from, NEW to
  PROVE  /\ RowsOf(store, from, to) \subseteq Rows
         /\ TimesOf(RowsOf(store, from, to)) = {t \in InSpan(from, to) : store[t] # 0}
         /\ \A a \in RowsOf(store, from, to) : a[2] = store[a[1]]
<1>1. InSpan(from, to) \subseteq ObsTimes
  BY DEF InSpan
<1>2. ASSUME NEW a \in RowsOf(store, from, to)
      PROVE  /\ a \in Rows /\ a[1] \in InSpan(from, to) /\ store[a[1]] # 0 /\ a[2] = store[a[1]]
  <2>1. PICK t \in InSpan(from, to) : store[t] # 0 /\ a = <<t, store[t]>>
    BY DEF RowsOf
  <2> QED
    BY <2>1, <1>1 DEF Rows
<1>3. ASSUME NEW t \in InSpan(from, to), store[t] # 0
      PROVE  t \in TimesOf(RowsOf(store, from, to))
  <2>1. <<t, store[t]>> \in RowsOf(store, from, to)
    BY <1>3 DEF RowsOf
  <2> QED
    BY <2>1 DEF TimesOf
<1>4. TimesOf(RowsOf(store, from, to)) \subseteq {t \in InSpan(from, to) : store[t] # 0}
  BY <1>2 DEF TimesOf
<1> QED
  BY <1>2, <1>3, <1>4

LEMMA TimesOfRows == ASSUME NEW R, R \subseteq Rows PROVE TimesOf(R) \subseteq ObsTimes
BY DEF TimesOf, Rows

(* What Store leaves in the proxy database.                                 *)
LEMMA StoreFacts ==
  ASSUME TypeOK, Store
  PROVE  /\ cache' \in [ObsTimes -> Versions \cup {0}]
         /\ \A t \in ObsTimes : IF t \in TimesOf(populate.rows)
                                THEN cache'[t] # 0 ELSE cache'[t] = cache[t]
<1>1. /\ populate.rows \subseteq Rows /\ cache \in [ObsTimes -> Versions \cup {0}]
      /\ 0 \notin Versions
  BY TimesAssumption DEF TypeOK
<1>2. ASSUME NEW t \in TimesOf(populate.rows)
      PROVE  (CHOOSE r \in populate.rows : r[1] = t)[2] \in Versions
  <2>1. \E r \in populate.rows : r[1] = t
    BY DEF TimesOf
  <2>2. (CHOOSE r \in populate.rows : r[1] = t) \in populate.rows
    BY <2>1
  <2> QED
    BY <2>2, <1>1 DEF Rows
<1> QED
  BY <1>1, <1>2 DEF Store
-----------------------------------------------------------------------------
LEMMA TypeInit == Init => TypeOK
<1>1. Init => failed \in [Readers -> BOOLEAN]
  BY Zenon DEF Init
<1>2. Init => subscribed \in BOOLEAN /\ repopulated \in BOOLEAN
  BY Zenon DEF Init
<1> QED
  BY <1>1, <1>2, BoundsNat DEF Init, TypeOK, Empty, NoSpan, NoPopulate, UpStates

LEMMA TypeNext == TypeOK /\ [Next]_vars => TypeOK'
<1> SUFFICES ASSUME TypeOK, [Next]_vars PROVE TypeOK'
  OBVIOUS
<1> USE BoundsNat DEF TypeOK
<1>1. CASE Tick
  BY <1>1 DEF Tick, bootVars, readerVars, cleanerVars
<1>2. CASE Crash
  <2>1. failed' \in [Readers -> BOOLEAN]
    BY <1>2, Zenon DEF Crash
  <2>2. subscribed' \in BOOLEAN /\ repopulated' \in BOOLEAN
    BY <1>2, Zenon DEF Crash
  <2> QED
    BY <1>2, <2>1, <2>2 DEF Crash, NoSpan, NoPopulate, UpStates
<1>3. ASSUME NEW t \in ObsTimes, NEW v \in Versions, Arrive(t, v) PROVE TypeOK'
  BY <1>3 DEF Arrive, clockVars, bootVars, readerVars, cleanerVars, Rows
<1>4. ASSUME NEW t \in ObsTimes, NEW v \in Versions, cacheData(t, v) PROVE TypeOK'
  BY <1>4 DEF cacheData, clockVars, bootVars, readerVars, cleanerVars
<1>5. ASSUME NEW repopulate \in Repopulate, Construct(repopulate) PROVE TypeOK'
  <2>1. repopulate \in BOOLEAN
    BY TimesAssumption
  <2>2. repopulated' \in BOOLEAN
    BY <1>5, <2>1, Zenon DEF Construct
  <2> QED
    BY <1>5, <2>2 DEF Construct, clockVars, readerVars, cleanerVars, UpStates
<1>6. CASE ClearBoundary
  BY <1>6 DEF ClearBoundary, clockVars, readerVars, cleanerVars, UpStates
<1>7. CASE EmptyCache
  BY <1>7 DEF EmptyCache, clockVars, readerVars, cleanerVars, UpStates, Empty
<1>8. CASE Fetch
  <2>1. /\ populate'.from \in Int /\ populate'.rows \subseteq Rows
        /\ failures' \in 0..MaxFailures
    <3>1. RowsOf(kvalobs, now - PopulateSpan, now) \subseteq Rows
      BY RowsOfFacts
    <3> QED
      BY <1>8, <3>1 DEF Fetch
  <2> QED
    BY <1>8, <2>1 DEF Fetch, readerVars, cleanerVars, UpStates
<1>9. CASE Store
  <2>1. cache' \in [ObsTimes -> Versions \cup {0}]
    BY <1>9, StoreFacts
  <2> QED
    BY <1>9, <2>1 DEF Store, clockVars, readerVars, cleanerVars, UpStates
<1>10. CASE PopulateBoundary
  BY <1>10 DEF PopulateBoundary, clockVars, readerVars, cleanerVars, UpStates, NoPopulate, Earlier
<1>11. CASE Subscribe
  BY <1>11 DEF Subscribe, clockVars, readerVars, cleanerVars
<1>12. ASSUME NEW r \in Readers, Reader(r) PROVE TypeOK'
  <2>1. ASSUME NEW from \in ObsTimes, NEW to \in ObsTimes, BeginRead(r, from, to) PROVE TypeOK'
    <3>1. {t \in InSpan(from, to) : kvalobs[t] # 0 /\ t \notin TimesOf(inflight)} \subseteq ObsTimes
      BY DEF InSpan
    <3>2. must' \in [Readers -> SUBSET ObsTimes]
      BY <2>1, <3>1 DEF BeginRead
    <3>3. /\ pc' \in [Readers -> {"idle", "locked", "half", "fetched"}]
          /\ span' \in [Readers -> [from : Int, to : Int]]
      BY <2>1 DEF BeginRead
    <3> QED
      BY <2>1, <3>2, <3>3 DEF BeginRead, clockVars, bootVars, cleanerVars
  <2>2. CASE ReadKvalobs(r)
    <3>1. KvalobsPart(span[r].from, span[r].to) \subseteq Rows
      BY RowsOfFacts DEF KvalobsPart
    <3>2. /\ rows' \in [Readers -> SUBSET Rows]
          /\ pc' \in [Readers -> {"idle", "locked", "half", "fetched"}]
          /\ failures' \in 0..MaxFailures
      BY <2>2, <3>1 DEF ReadKvalobs
    <3>3. failed' \in [Readers -> BOOLEAN]
      BY <2>2, Zenon DEF ReadKvalobs
    <3> QED
      BY <2>2, <3>2, <3>3 DEF ReadKvalobs, bootVars, cleanerVars
  <2>3. CASE ReadCache(r)
    <3>1. CachePart(span[r].from, span[r].to) \subseteq Rows
      BY RowsOfFacts DEF CachePart
    <3>2. /\ rows' \in [Readers -> SUBSET Rows]
          /\ pc' \in [Readers -> {"idle", "locked", "half", "fetched"}]
      BY <2>3, <3>1 DEF ReadCache
    <3> QED
      BY <2>3, <3>2 DEF ReadCache, clockVars, bootVars, cleanerVars
  <2>4. CASE EndRead(r)
    <3>1. failed' \in [Readers -> BOOLEAN]
      BY <2>4, Zenon DEF EndRead
    <3>2. /\ rows' \in [Readers -> SUBSET Rows] /\ must' \in [Readers -> SUBSET ObsTimes]
          /\ span' \in [Readers -> [from : Int, to : Int]]
          /\ pc' \in [Readers -> {"idle", "locked", "half", "fetched"}]
      BY <2>4 DEF EndRead, NoSpan
    <3> QED
      BY <2>4, <3>1, <3>2 DEF EndRead, clockVars, bootVars, cleanerVars
  <2> QED
    BY <1>12, <2>1, <2>2, <2>3, <2>4 DEF Reader
<1>13. CASE CleanStart
  BY <1>13 DEF CleanStart, clockVars, bootVars, readerVars
<1>14. CASE CleanBoundary
  BY <1>14 DEF CleanBoundary, clockVars, bootVars, readerVars, Later
<1>15. CASE CleanDelete
  BY <1>15 DEF CleanDelete, clockVars, bootVars, readerVars
<1>16. CASE UNCHANGED vars
  BY <1>16 DEF vars, clockVars, bootVars, readerVars, cleanerVars
<1> QED
  BY <1>1, <1>2, <1>3, <1>4, <1>5, <1>6, <1>7, <1>8, <1>9, <1>10, <1>11, <1>12, <1>13,
     <1>14, <1>15, <1>16 DEF Next, Boot, Cleaner

(* The types are kept by every action, the stores' rows included.           *)
THEOREM TypeCorrect == Spec => []TypeOK
BY TypeInit, TypeNext, PTL DEF Spec
-----------------------------------------------------------------------------
(* Neither store, nor what is under way between them, knows the future.     *)
Known(t) ==
  \/ kvalobs[t] # 0 \/ cache[t] # 0
  \/ t \in TimesOf(inflight) \/ t \in TimesOf(populate.rows)

NothingFromFuture == \A t \in ObsTimes : Known(t) => t < now

Booting == up \in {"clearing", "emptying", "fetching", "storing", "moving"}

(* Who runs when: the subscription comes after the constructor, requests    *)
(* after the subscription, and only --repopulate has steps in between.      *)
BootOrder ==
  /\ subscribed \/ cleaner # "idle" => up = "ready"
  /\ ~subscribed => inflight = {} /\ NobodyReads
  /\ Booting => repopulated

(* The boundary stays where the constructor put it or later, as long as     *)
(* db_populate does not move it back, and the cleaner's limit behind it.    *)
BoundaryAhead ==
  /\ up # "down" /\ ~subscribed => now <= started + Lead
  /\ up # "down" /\ ~repopulated => oldestInProxy >= started + Lead
  /\ cleaner = "deleting" => limit <= oldestInProxy
  /\ up = "emptying" => \A t \in ObsTimes : cache[t] # 0 => t <= oldestInProxy

(* The inductive invariant about the stores.                                *)
StoresInv ==
  TypeOK /\ NothingFromFuture /\ BootOrder /\ BoundaryAhead /\ CoversUnlessRepopulated
-----------------------------------------------------------------------------
(* Time only passes, and only what kvalobs has had is passed on.            *)
LEMMA PastNext == TypeOK /\ NothingFromFuture /\ [Next]_vars => NothingFromFuture'
<1> SUFFICES ASSUME TypeOK, NothingFromFuture, [Next]_vars,
                    NEW s \in ObsTimes, Known(s)'
             PROVE  s < now'
  BY DEF NothingFromFuture
<1> USE BoundsNat
<1>0. /\ s \in Int /\ now \in Int
      /\ Known(s) => s < now
  BY DEF TypeOK, NothingFromFuture
<1>1. CASE Tick
  <2>1. Known(s) /\ now' = now + 2
    BY <1>1 DEF Tick, Known, bootVars
  <2> QED
    BY <2>1, <1>0
<1>2. CASE Crash
  <2>1. Known(s) /\ now' = now
    BY <1>2 DEF Crash, Known, TimesOf, NoPopulate
  <2> QED
    BY <2>1, <1>0
<1>3. ASSUME NEW t \in ObsTimes, NEW v \in Versions, Arrive(t, v) PROVE s < now'
  <2>1. now' = now /\ t < now
    BY <1>3 DEF Arrive, clockVars
  <2>2. Known(s) \/ s = t
    BY <1>3 DEF Arrive, Known, TimesOf, TypeOK, bootVars
  <2> QED
    BY <2>1, <2>2, <1>0
<1>4. ASSUME NEW t \in ObsTimes, NEW v \in Versions, cacheData(t, v) PROVE s < now'
  <2>1. <<t, v>> \in inflight /\ now' = now /\ <<t, v>>[1] = t
    BY <1>4 DEF cacheData, clockVars
  <2>2. Known(t)
    BY <2>1 DEF Known, TimesOf
  <2>3. Known(s) \/ s = t
    BY <1>4 DEF cacheData, Known, TimesOf, TypeOK, bootVars
  <2> QED
    BY <2>1, <2>2, <2>3, <1>0
<1>5. CASE EmptyCache
  <2>1. Known(s) /\ now' = now
    BY <1>5 DEF EmptyCache, Known, Empty, clockVars
  <2> QED
    BY <2>1, <1>0
<1>6. CASE Fetch
  <2>1. Known(s)
    <3>1. CASE populate'.rows = {}
      BY <1>6, <3>1 DEF Fetch, Known, TimesOf
    <3>2. CASE populate'.rows = RowsOf(kvalobs, now - PopulateSpan, now)
      <4>1. s \in TimesOf(populate'.rows) => kvalobs[s] # 0
        BY <3>2, RowsOfFacts DEF TypeOK
      <4> QED
        BY <1>6, <4>1 DEF Fetch, Known
    <3> QED
      BY <1>6, <3>1, <3>2 DEF Fetch
  <2> QED
    BY <1>6, <2>1, <1>0 DEF Fetch
<1>7. CASE Store
  <2>1. Known(s) /\ now' = now
    BY <1>7, StoreFacts DEF Store, Known, clockVars
  <2> QED
    BY <2>1, <1>0
<1>8. CASE PopulateBoundary
  <2>1. Known(s) /\ now' = now
    BY <1>8 DEF PopulateBoundary, Known, TimesOf, NoPopulate, clockVars
  <2> QED
    BY <2>1, <1>0
<1>9. CASE CleanDelete
  <2>1. Known(s) /\ now' = now
    BY <1>9 DEF CleanDelete, Known, clockVars, bootVars
  <2> QED
    BY <2>1, <1>0
<1>10. ASSUME NEW repopulate \in Repopulate, Construct(repopulate) PROVE s < now'
  <2>1. Known(s) /\ now' = now
    BY <1>10 DEF Construct, Known, clockVars
  <2> QED
    BY <2>1, <1>0
<1>11. CASE ClearBoundary \/ Subscribe
  <2>1. Known(s) /\ now' = now
    BY <1>11 DEF ClearBoundary, Subscribe, Known, clockVars
  <2> QED
    BY <2>1, <1>0
<1>12. ASSUME NEW r \in Readers, Reader(r) PROVE s < now'
  <2>1. Known(s) /\ now' = now
    BY <1>12 DEF Reader, BeginRead, ReadKvalobs, ReadCache, EndRead, Known, clockVars, bootVars
  <2> QED
    BY <2>1, <1>0
<1>13. CASE CleanStart \/ CleanBoundary \/ UNCHANGED vars
  <2>1. Known(s) /\ now' = now
    BY <1>13 DEF CleanStart, CleanBoundary, vars, Known, clockVars, bootVars
  <2> QED
    BY <2>1, <1>0
<1> QED
  BY <1>1, <1>2, <1>3, <1>4, <1>5, <1>6, <1>7, <1>8, <1>9, <1>10, <1>11, <1>12, <1>13
  DEF Next, Boot, Cleaner

(* The order of the start and of what may run after it.                     *)
LEMMA BootOrderNext == TypeOK /\ BootOrder /\ [Next]_vars => BootOrder'
<1> SUFFICES ASSUME TypeOK /\ BootOrder, [Next]_vars PROVE BootOrder'
  OBVIOUS
<1> USE BoundsNat DEF TypeOK, BootOrder, Booting, NobodyReads, Reading, UpStates
<1>1. CASE Tick
  BY <1>1 DEF Tick, bootVars, readerVars, cleanerVars
<1>2. CASE Crash
  BY <1>2 DEF Crash, clockVars, readerVars, cleanerVars
<1>3. ASSUME NEW t \in ObsTimes, NEW v \in Versions, Arrive(t, v) PROVE BootOrder'
  BY <1>3 DEF Arrive, clockVars, bootVars, readerVars, cleanerVars
<1>4. ASSUME NEW t \in ObsTimes, NEW v \in Versions, cacheData(t, v) PROVE BootOrder'
  BY <1>4 DEF cacheData, clockVars, bootVars, readerVars, cleanerVars
<1>5. ASSUME NEW repopulate \in Repopulate, Construct(repopulate) PROVE BootOrder'
  BY <1>5 DEF Construct, clockVars, readerVars, cleanerVars
<1>6. CASE ClearBoundary
  BY <1>6 DEF ClearBoundary, clockVars, readerVars, cleanerVars
<1>7. CASE EmptyCache
  BY <1>7 DEF EmptyCache, clockVars, readerVars, cleanerVars
<1>8. CASE Fetch
  BY <1>8 DEF Fetch, readerVars, cleanerVars
<1>9. CASE Store
  BY <1>9 DEF Store, clockVars, readerVars, cleanerVars
<1>10. CASE PopulateBoundary
  BY <1>10 DEF PopulateBoundary, clockVars, readerVars, cleanerVars
<1>11. CASE Subscribe
  BY <1>11 DEF Subscribe, clockVars, readerVars, cleanerVars
<1>12. ASSUME NEW r \in Readers, Reader(r) PROVE BootOrder'
  BY <1>12 DEF Reader, BeginRead, ReadKvalobs, ReadCache, EndRead,
     clockVars, bootVars, cleanerVars
<1>13. CASE CleanStart
  BY <1>13 DEF CleanStart, clockVars, bootVars, readerVars
<1>14. CASE CleanBoundary
  BY <1>14 DEF CleanBoundary, clockVars, bootVars, readerVars
<1>15. CASE CleanDelete
  BY <1>15 DEF CleanDelete, clockVars, bootVars, readerVars
<1>16. CASE UNCHANGED vars
  BY <1>16 DEF vars, clockVars, bootVars, readerVars, cleanerVars
<1> QED
  BY <1>1, <1>2, <1>3, <1>4, <1>5, <1>6, <1>7, <1>8, <1>9, <1>10, <1>11, <1>12,
     <1>13, <1>14, <1>15, <1>16 DEF Next, Boot, Cleaner

(* db_clear and db_cleanup move the boundary past the rows they will delete,*)
(* the constructor past everything there may be before the subscription.    *)
LEMMA BoundaryNext ==
  TypeOK /\ NothingFromFuture /\ BootOrder /\ BoundaryAhead /\ [Next]_vars => BoundaryAhead'
<1> SUFFICES ASSUME TypeOK, NothingFromFuture, BootOrder, BoundaryAhead, [Next]_vars
             PROVE  BoundaryAhead'
  OBVIOUS
<1> USE BoundsNat DEF TypeOK, BootOrder, BoundaryAhead, Booting
<1>1. CASE Tick
  BY <1>1 DEF Tick, bootVars, cleanerVars
<1>2. CASE Crash
  BY <1>2 DEF Crash, clockVars, cleanerVars
<1>3. ASSUME NEW t \in ObsTimes, NEW v \in Versions, Arrive(t, v) PROVE BoundaryAhead'
  BY <1>3 DEF Arrive, clockVars, bootVars, cleanerVars
<1>4. ASSUME NEW t \in ObsTimes, NEW v \in Versions, cacheData(t, v) PROVE BoundaryAhead'
  BY <1>4 DEF cacheData, clockVars, bootVars, cleanerVars
<1>5. ASSUME NEW repopulate \in Repopulate, Construct(repopulate) PROVE BoundaryAhead'
  BY <1>5 DEF Construct, clockVars, cleanerVars
<1>6. CASE ClearBoundary
  <2>1. \A t \in ObsTimes : cache[t] # 0 => t < now
    BY DEF NothingFromFuture, Known
  <2>2. /\ oldestInProxy' = now + ClearLead /\ cache' = cache
        /\ repopulated' /\ up = "clearing" /\ up' = "emptying"
    BY <1>6 DEF ClearBoundary, clockVars
  <2>3. \A t \in ObsTimes : cache[t] # 0 => t <= oldestInProxy'
    BY <2>1, <2>2
  <2> QED
    BY <1>6, <2>2, <2>3 DEF ClearBoundary, clockVars, cleanerVars
<1>7. CASE EmptyCache
  BY <1>7 DEF EmptyCache, clockVars, cleanerVars
<1>8. CASE Fetch
  BY <1>8 DEF Fetch, cleanerVars
<1>9. CASE Store
  BY <1>9 DEF Store, clockVars, cleanerVars
<1>10. CASE PopulateBoundary
  BY <1>10 DEF PopulateBoundary, clockVars, cleanerVars
<1>11. CASE Subscribe
  BY <1>11 DEF Subscribe, clockVars, cleanerVars
<1>12. ASSUME NEW r \in Readers, Reader(r) PROVE BoundaryAhead'
  BY <1>12 DEF Reader, BeginRead, ReadKvalobs, ReadCache, EndRead,
     clockVars, bootVars, cleanerVars
<1>13. CASE CleanStart
  BY <1>13 DEF CleanStart, clockVars, bootVars
<1>14. CASE CleanBoundary
  <2>1. /\ oldestInProxy' >= oldestInProxy /\ limit <= oldestInProxy' /\ oldestInProxy' \in Int
        /\ limit' = limit /\ up = "ready" /\ UNCHANGED <<bootVars, clockVars>>
    BY <1>14 DEF CleanBoundary, Later
  <2> QED
    BY <2>1 DEF bootVars, clockVars
<1>15. CASE CleanDelete
  BY <1>15 DEF CleanDelete, clockVars, bootVars
<1>16. CASE UNCHANGED vars
  BY <1>16 DEF vars, clockVars, bootVars, cleanerVars
<1> QED
  BY <1>1, <1>2, <1>3, <1>4, <1>5, <1>6, <1>7, <1>8, <1>9, <1>10, <1>11, <1>12,
     <1>13, <1>14, <1>15, <1>16 DEF Next, Boot, Cleaner

(* New rows are on their way or stored, and rows are deleted only behind    *)
(* the boundary; when the subscription begins nothing is past it.           *)
LEMMA CoversNext == StoresInv /\ [Next]_vars => CoversUnlessRepopulated'
<1> SUFFICES ASSUME StoresInv, [Next]_vars PROVE CoversUnlessRepopulated'
  OBVIOUS
<1>0. TypeOK /\ BootOrder /\ CoversUnlessRepopulated
  BY DEF StoresInv
<1> USE BoundsNat DEF TypeOK, BootOrder, Booting, CoversUnlessRepopulated, CacheCovers
<1>1. CASE Tick
  BY <1>0, <1>1 DEF Tick, bootVars, cleanerVars
<1>2. CASE Crash
  BY <1>0, <1>2 DEF Crash, clockVars, cleanerVars
<1>3. ASSUME NEW t \in ObsTimes, NEW v \in Versions, Arrive(t, v) PROVE CoversUnlessRepopulated'
  <2>1. subscribed => TimesOf(inflight) \cup {t} \subseteq TimesOf(inflight')
    <3>1. subscribed => inflight' = inflight \cup {<<t, v>>}
      BY <1>3 DEF Arrive
    <3>2. <<t, v>>[1] = t
      OBVIOUS
    <3> QED
      BY <3>1, <3>2, Zenon DEF TimesOf
  <2>2. /\ \A s \in ObsTimes \ {t} : kvalobs'[s] = kvalobs[s]
        /\ UNCHANGED <<cache, oldestInProxy, repopulated, subscribed>>
    BY <1>0, <1>3 DEF Arrive, bootVars
  <2> QED
    BY <1>0, <2>1, <2>2
<1>4. ASSUME NEW t \in ObsTimes, NEW v \in Versions, cacheData(t, v) PROVE CoversUnlessRepopulated'
  <2>1. TimesOf(inflight) \subseteq TimesOf(inflight') \cup {t}
    BY <1>0, <1>4 DEF cacheData, TimesOf
  <2>2. /\ \A s \in ObsTimes \ {t} : cache'[s] = cache[s]
        /\ cache'[t] # 0
        /\ UNCHANGED <<kvalobs, oldestInProxy, repopulated, subscribed>>
    BY <1>0, <1>4, TimesAssumption DEF cacheData, bootVars
  <2> QED
    BY <1>0, <2>1, <2>2
<1>5. ASSUME NEW repopulate \in Repopulate, Construct(repopulate) PROVE CoversUnlessRepopulated'
  BY <1>0, <1>5 DEF Construct, clockVars, cleanerVars
<1>6. CASE ClearBoundary
  BY <1>0, <1>6 DEF ClearBoundary, clockVars, cleanerVars
<1>7. CASE EmptyCache
  BY <1>0, <1>7 DEF EmptyCache, clockVars, cleanerVars
<1>8. CASE Fetch
  BY <1>0, <1>8 DEF Fetch, cleanerVars
<1>9. CASE Store
  BY <1>0, <1>9 DEF Store, clockVars, cleanerVars
<1>10. CASE PopulateBoundary
  BY <1>0, <1>10 DEF PopulateBoundary, clockVars, cleanerVars
<1>11. CASE Subscribe
  BY <1>0, <1>11 DEF Subscribe, StoresInv, BoundaryAhead, NothingFromFuture, Known,
     clockVars, cleanerVars
<1>12. ASSUME NEW r \in Readers, Reader(r) PROVE CoversUnlessRepopulated'
  BY <1>0, <1>12 DEF Reader, BeginRead, ReadKvalobs, ReadCache, EndRead,
     clockVars, bootVars, cleanerVars
<1>13. CASE CleanStart
  BY <1>0, <1>13 DEF CleanStart, clockVars, bootVars
<1>14. CASE CleanBoundary
  <2>1. /\ oldestInProxy \in Int /\ oldestInProxy' \in Int /\ oldestInProxy' >= oldestInProxy
        /\ UNCHANGED <<kvalobs, cache, inflight, subscribed, repopulated>>
    BY <1>0, <1>14 DEF CleanBoundary, Later, bootVars
  <2>2. \A t \in ObsTimes : t > oldestInProxy' => t > oldestInProxy
    BY <2>1
  <2> QED
    BY <1>0, <2>1, <2>2
<1>15. CASE CleanDelete
  <2>1. /\ limit \in Int /\ oldestInProxy \in Int /\ limit <= oldestInProxy
        /\ UNCHANGED <<kvalobs, oldestInProxy, inflight, subscribed, repopulated>>
        /\ \A t \in ObsTimes : ~(t < limit) => cache'[t] = cache[t]
    BY <1>0, <1>15 DEF CleanDelete, StoresInv, BoundaryAhead, bootVars
  <2>2. \A t \in ObsTimes : t > oldestInProxy => ~(t < limit)
    BY <2>1
  <2> QED
    BY <1>0, <2>1, <2>2
<1>16. CASE UNCHANGED vars
  BY <1>0, <1>16 DEF vars, clockVars, bootVars, cleanerVars
<1> QED
  BY <1>1, <1>2, <1>3, <1>4, <1>5, <1>6, <1>7, <1>8, <1>9, <1>10, <1>11, <1>12,
     <1>13, <1>14, <1>15, <1>16 DEF Next, Boot, Cleaner

LEMMA StoresInvariance == Spec => []StoresInv
<1>1. Init => StoresInv
  BY TypeInit DEF Init, StoresInv, NothingFromFuture, Known, TimesOf, NoPopulate, Empty, BootOrder,
     Booting, NobodyReads, Reading, BoundaryAhead, CoversUnlessRepopulated, CacheCovers
<1>2. StoresInv /\ [Next]_vars => StoresInv'
  BY TypeNext, PastNext, BootOrderNext, BoundaryNext, CoversNext DEF StoresInv
<1> QED
  BY <1>1, <1>2, PTL DEF Spec

(* Whatever crashes, restarts, cleanups and orders of arrival there were,   *)
(* an observation later than the boundary is in the proxy database or on    *)
(* its way there, unless this run began with --repopulate.                  *)
THEOREM CoversUnlessRepopulatedHolds == Spec => []CoversUnlessRepopulated
BY StoresInvariance, PTL DEF StoresInv

(* The steps that take rows out of the proxy database are the last one of   *)
(* db_clear and of db_cleanup, both of which moved the boundary before.     *)
LEMMA DeletedBehind ==
  ASSUME StoresInv, Next, NEW t \in ObsTimes, cache[t] # 0, cache'[t] = 0
  PROVE  t <= oldestInProxy'
<1>1. TypeOK /\ BoundaryAhead
  BY DEF StoresInv
<1>2. EmptyCache \/ CleanDelete
  <2>1. ~Store
    BY <1>1, StoreFacts
  <2>2. ASSUME NEW s \in ObsTimes, NEW v \in Versions, cacheData(s, v) PROVE FALSE
    BY <1>1, <2>2, TimesAssumption DEF cacheData, TypeOK
  <2>3. cache' # cache
    OBVIOUS
  <2> QED
    BY <2>1, <2>2, <2>3 DEF Next, Tick, Crash, Arrive, Boot, Construct, ClearBoundary, Fetch,
       PopulateBoundary, Subscribe, Reader, BeginRead, ReadKvalobs, ReadCache, EndRead, Cleaner,
       CleanStart, CleanBoundary
<1>3. CASE EmptyCache
  BY <1>1, <1>3 DEF EmptyCache, BoundaryAhead
<1>4. CASE CleanDelete
  <2>1. t < limit /\ limit <= oldestInProxy /\ oldestInProxy' = oldestInProxy
    BY <1>1, <1>4 DEF CleanDelete, BoundaryAhead
  <2> QED
    BY <1>1, <2>1, BoundsNat DEF TypeOK
<1> QED
  BY <1>2, <1>3, <1>4

(* A row leaves the proxy database only when requests for its time already  *)
(* go to kvalobs, at the end of db_clear and of db_cleanup.                 *)
THEOREM OnlyUnservedRowsDeletedHolds == Spec => OnlyUnservedRowsDeleted
<1> DEFINE Deleted == \A t \in ObsTimes : (cache[t] # 0 /\ cache'[t] = 0) => t <= oldestInProxy'
<1>1. StoresInv /\ [Next]_vars => [Deleted]_vars
  BY DeletedBehind
<1>2. OnlyUnservedRowsDeleted <=> [][Deleted]_vars
  BY DEF OnlyUnservedRowsDeleted
<1> QED
  BY <1>1, <1>2, StoresInvariance, PTL DEF Spec
-----------------------------------------------------------------------------
(***************************************************************************)
(* The requests.                                                           *)
(***************************************************************************)
(* The clock shows odd times, and so does all that is read from it.         *)
OddTimes ==
  /\ now % 2 = 1
  /\ up # "down" => oldestInProxy % 2 = 1
  /\ cleaner = "waiting" => limit % 2 = 1
  /\ up \in {"storing", "moving"} => populate.from % 2 = 1

(* What a request has got: first from kvalobs, not past the boundary, then  *)
(* from the proxy database, after it.                                       *)
RowsRight(r) ==
  /\ pc[r] # "idle" => span[r].from \in ObsTimes
  /\ pc[r] \in {"idle", "locked"} => rows[r] = {}
  /\ pc[r] = "half" => \A a \in rows[r] : a[1] <= oldestInProxy
  /\ pc[r] \in {"half", "fetched"} =>
       /\ \A a \in rows[r] : a[1] \in InSpan(span[r].from, span[r].to)
       /\ \A a, b \in rows[r] : a[1] = b[1] => a = b

(* What a request must still find, and where it will.                       *)
MustFound(r) ==
  /\ must[r] \subseteq InSpan(span[r].from, span[r].to)
  /\ pc[r] = "idle" => must[r] = {}
  /\ pc[r] \in {"idle", "locked"} => ~failed[r]
  /\ pc[r] = "locked" => \A t \in must[r] : kvalobs[t] # 0
  /\ pc[r] \in {"locked", "half"} /\ ~repopulated =>
       \A t \in must[r] : t > oldestInProxy => cache[t] # 0
  /\ pc[r] = "half" /\ ~failed[r] =>
       \A t \in must[r] : t <= oldestInProxy => t \in TimesOf(rows[r])
  /\ pc[r] = "fetched" /\ ~failed[r] /\ ~repopulated => must[r] \subseteq TimesOf(rows[r])

RowsRightAll == \A r \in Readers : RowsRight(r)
MustFoundAll == \A r \in Readers : MustFound(r)

ReadsInv == StoresInv /\ OddTimes /\ RowsRightAll
CompleteInv == StoresInv /\ MustFoundAll

(* The part from kvalobs reaches to the boundary and not beyond it.         *)
LEMMA KvalobsPartFacts ==
  ASSUME TypeOK, NEW from \in Int, NEW to \in Int
  PROVE  /\ \A a \in KvalobsPart(from, to) :
              /\ a[1] \in ObsTimes /\ a[1] <= oldestInProxy
              /\ from # oldestInProxy => a[1] \in InSpan(from, to)
         /\ \A a, b \in KvalobsPart(from, to) : a[1] = b[1] => a = b
         /\ \A t \in InSpan(from, to) :
              t <= oldestInProxy /\ kvalobs[t] # 0 => t \in TimesOf(KvalobsPart(from, to))
<1> USE BoundsNat
<1> DEFINE upto == Earlier(to, oldestInProxy)
           R == RowsOf(kvalobs, from, upto)
<1>1. /\ upto \in Int /\ upto <= to /\ upto <= oldestInProxy
      /\ oldestInProxy \in Int /\ (upto = to \/ upto = oldestInProxy)
  BY DEF Earlier, TypeOK
<1>2. /\ R \subseteq Rows
      /\ TimesOf(R) = {t \in InSpan(from, upto) : kvalobs[t] # 0}
      /\ \A a \in R : a[2] = kvalobs[a[1]]
  BY RowsOfFacts DEF TypeOK
<1>3. KvalobsPart(from, to) = IF from <= oldestInProxy THEN R ELSE {}
  BY DEF KvalobsPart
<1> HIDE DEF upto, R
<1>4. ASSUME NEW a \in R, from <= oldestInProxy
      PROVE  /\ a[1] \in ObsTimes /\ a[1] <= oldestInProxy
             /\ from # oldestInProxy => a[1] \in InSpan(from, to)
  <2>1. a[1] \in InSpan(from, upto)
    BY <1>2 DEF TimesOf
  <2>2. a[1] \in ObsTimes /\ a[1] \in Int
    BY <2>1 DEF InSpan
  <2>3. (from < a[1] /\ a[1] <= upto) \/ (from = upto /\ a[1] = from)
    BY <2>1 DEF InSpan
  <2> QED
    BY <1>1, <1>4, <2>2, <2>3 DEF InSpan
<1>5. \A a, b \in R : a[1] = b[1] => a = b
  BY <1>2 DEF Rows
<1>6. ASSUME NEW t \in InSpan(from, to), t <= oldestInProxy, kvalobs[t] # 0
      PROVE  t \in TimesOf(KvalobsPart(from, to))
  <2>1. t \in ObsTimes /\ t \in Int /\ ((from < t /\ t <= to) \/ (from = to /\ t = from))
    BY DEF InSpan
  <2>2. from <= oldestInProxy /\ t \in InSpan(from, upto)
    BY <1>1, <1>6, <2>1 DEF InSpan
  <2> QED
    BY <1>2, <1>3, <1>6, <2>2
<1> QED
  BY <1>3, <1>4, <1>5, <1>6

(* The part from the proxy database is what comes after the boundary.       *)
LEMMA CachePartFacts ==
  ASSUME TypeOK, NEW from \in Int, NEW to \in Int
  PROVE  /\ \A a \in CachePart(from, to) :
              a[1] \in ObsTimes /\ a[1] > oldestInProxy /\ a[1] \in InSpan(from, to)
         /\ \A a, b \in CachePart(from, to) : a[1] = b[1] => a = b
         /\ \A t \in InSpan(from, to) :
              t > oldestInProxy /\ cache[t] # 0 => t \in TimesOf(CachePart(from, to))
<1> USE BoundsNat
<1> DEFINE after == Later(from, oldestInProxy)
           R == RowsOf(cache, after, to)
<1>1. /\ after \in Int /\ after >= from /\ after >= oldestInProxy /\ oldestInProxy \in Int
      /\ after = from \/ after = oldestInProxy
  BY DEF Later, TypeOK
<1>2. /\ R \subseteq Rows
      /\ TimesOf(R) = {t \in InSpan(after, to) : cache[t] # 0}
      /\ \A a \in R : a[2] = cache[a[1]]
  BY RowsOfFacts DEF TypeOK
<1>3. CachePart(from, to) = IF to > oldestInProxy THEN R ELSE {}
  BY DEF CachePart
<1> HIDE DEF after, R
<1>4. ASSUME NEW a \in R, to > oldestInProxy
      PROVE  a[1] \in ObsTimes /\ a[1] > oldestInProxy /\ a[1] \in InSpan(from, to)
  <2>1. a[1] \in InSpan(after, to)
    BY <1>2 DEF TimesOf
  <2>2. a[1] \in ObsTimes /\ a[1] \in Int
    BY <2>1 DEF InSpan
  <2>3. (after < a[1] /\ a[1] <= to) \/ (after = to /\ a[1] = after)
    BY <2>1 DEF InSpan
  <2> QED
    BY <1>1, <1>4, <2>2, <2>3 DEF InSpan
<1>5. \A a, b \in R : a[1] = b[1] => a = b
  BY <1>2 DEF Rows
<1>6. ASSUME NEW t \in InSpan(from, to), t > oldestInProxy, cache[t] # 0
      PROVE  t \in TimesOf(CachePart(from, to))
  <2>1. t \in ObsTimes /\ t \in Int /\ ((from < t /\ t <= to) \/ (from = to /\ t = from))
    BY DEF InSpan
  <2>2. to > oldestInProxy /\ t \in InSpan(after, to)
    BY <1>1, <1>6, <2>1 DEF InSpan
  <2> QED
    BY <1>2, <1>3, <1>6, <2>2
<1> QED
  BY <1>3, <1>4, <1>5, <1>6

(* While somebody reads, the boundary stays.                                *)
LEMMA BoundaryStays ==
  ASSUME TypeOK, BootOrder, Next, ~NobodyReads, ~Crash
  PROVE  oldestInProxy' = oldestInProxy /\ up' = up /\ repopulated' = repopulated
<1>1. up = "ready" /\ subscribed
  BY DEF BootOrder
<1>2. ~Boot
  BY <1>1 DEF Boot, Construct, ClearBoundary, EmptyCache, Fetch, Store, PopulateBoundary, Subscribe
<1> QED
  BY <1>2 DEF Next, Tick, Arrive, cacheData, Reader, BeginRead, ReadKvalobs, ReadCache, EndRead,
     Cleaner, CleanStart, CleanBoundary, CleanDelete, bootVars
-----------------------------------------------------------------------------
(* What is read from the clock and moved by whole hours stays odd.          *)
LEMMA OddShift ==
  ASSUME NEW n \in Int, NEW d \in Int, n % 2 = 1, d % 2 = 0
  PROVE  (n + d) % 2 = 1 /\ (n - d) % 2 = 1
OBVIOUS

LEMMA OddNext == TypeOK /\ OddTimes /\ [Next]_vars => OddTimes'
<1> SUFFICES ASSUME TypeOK, OddTimes, [Next]_vars PROVE OddTimes'
  OBVIOUS
<1>0. /\ (now + 2) % 2 = 1 /\ (now + Lead) % 2 = 1 /\ (now + ClearLead) % 2 = 1
      /\ (now - PopulateSpan) % 2 = 1 /\ (now - Keep) % 2 = 1
  <2>1. now \in Int /\ now % 2 = 1 /\ 2 % 2 = 0
    BY BoundsNat DEF TypeOK, OddTimes
  <2> QED
    BY <2>1, BoundsNat, ParityAssumption, OddShift
<1> USE DEF OddTimes
<1>1. CASE Tick
  BY <1>0, <1>1 DEF Tick, bootVars, cleanerVars
<1>2. CASE Crash
  BY <1>2 DEF Crash
<1>3. ASSUME NEW repopulate \in Repopulate, Construct(repopulate) PROVE OddTimes'
  <2>1. up' \notin {"storing", "moving"}
    BY <1>3 DEF Construct
  <2> QED
    BY <1>0, <1>3, <2>1 DEF Construct, clockVars, cleanerVars
<1>4. CASE ClearBoundary
  BY <1>0, <1>4 DEF ClearBoundary, clockVars, cleanerVars
<1>5. CASE EmptyCache
  BY <1>5 DEF EmptyCache, clockVars, cleanerVars
<1>6. CASE Fetch
  <2>1. populate'.from = now - PopulateSpan
    BY <1>6 DEF Fetch
  <2> QED
    BY <1>0, <1>6, <2>1 DEF Fetch, cleanerVars
<1>7. CASE Store \/ Subscribe
  BY <1>7 DEF Store, Subscribe, clockVars, cleanerVars
<1>8. CASE PopulateBoundary
  BY <1>8 DEF PopulateBoundary, Earlier, clockVars, cleanerVars
<1>9. CASE CleanStart
  BY <1>0, <1>9 DEF CleanStart, clockVars, bootVars
<1>10. CASE CleanBoundary
  BY <1>10 DEF CleanBoundary, Later, clockVars, bootVars
<1>11. CASE CleanDelete
  BY <1>11 DEF CleanDelete, clockVars, bootVars
<1>12. ASSUME \/ \E t \in ObsTimes, v \in Versions : Arrive(t, v) \/ cacheData(t, v)
              \/ \E r \in Readers : Reader(r)
              \/ UNCHANGED vars
       PROVE  OddTimes'
  BY <1>12 DEF Arrive, cacheData, Reader, BeginRead, ReadKvalobs, ReadCache, EndRead, vars,
     clockVars, bootVars, cleanerVars
<1> QED
  BY <1>1, <1>2, <1>3, <1>4, <1>5, <1>6, <1>7, <1>8, <1>9, <1>10, <1>11, <1>12
  DEF Next, Boot, Cleaner
-----------------------------------------------------------------------------
(* Everybody but the reader itself leaves a request and its boundary alone, *)
(* and a crash ends it.                                                     *)
LEMMA OthersLeaveReader ==
  ASSUME TypeOK, BootOrder, Next, NEW q \in Readers
  PROVE  \/ Crash
         \/ Reader(q)
         \/ /\ pc'[q] = pc[q] /\ span'[q] = span[q] /\ rows'[q] = rows[q]
            /\ must'[q] = must[q] /\ failed'[q] = failed[q]
            /\ Reading(q) => oldestInProxy' = oldestInProxy
<1>1. ASSUME NEW r \in Readers, Reader(r), r # q
      PROVE  /\ pc'[q] = pc[q] /\ span'[q] = span[q] /\ rows'[q] = rows[q]
             /\ must'[q] = must[q] /\ failed'[q] = failed[q]
  <2>1. ASSUME NEW from, NEW to, BeginRead(r, from, to)
        PROVE  /\ pc'[q] = pc[q] /\ span'[q] = span[q] /\ rows'[q] = rows[q]
               /\ must'[q] = must[q] /\ failed'[q] = failed[q]
    BY <1>1, <2>1 DEF BeginRead, TypeOK
  <2>2. ASSUME ReadKvalobs(r) \/ ReadCache(r) \/ EndRead(r)
        PROVE  /\ pc'[q] = pc[q] /\ span'[q] = span[q] /\ rows'[q] = rows[q]
               /\ must'[q] = must[q] /\ failed'[q] = failed[q]
    BY <1>1, <2>2 DEF ReadKvalobs, ReadCache, EndRead, TypeOK
  <2> QED
    BY <1>1, <2>1, <2>2 DEF Reader
<1>2. Crash \/ (\E r \in Readers : Reader(r)) \/ UNCHANGED readerVars
  BY DEF Next, Tick, Arrive, cacheData, Boot, Construct, ClearBoundary, EmptyCache, Fetch, Store,
     PopulateBoundary, Subscribe, Cleaner, CleanStart, CleanBoundary, CleanDelete
<1>3. Reading(q) /\ ~Crash => oldestInProxy' = oldestInProxy
  BY BoundaryStays DEF NobodyReads
<1> QED
  BY <1>1, <1>2, <1>3 DEF readerVars

LEMMA RowsRightNext == ReadsInv /\ [Next]_vars => RowsRightAll'
<1> SUFFICES ASSUME ReadsInv, [Next]_vars, NEW q \in Readers PROVE RowsRight(q)'
  BY DEF RowsRightAll
<1>0. TypeOK /\ BootOrder /\ OddTimes /\ RowsRight(q)
  BY DEF ReadsInv, StoresInv, RowsRightAll
<1>1. CASE Crash
  BY <1>1 DEF Crash, RowsRight
<1>2. ASSUME NEW from \in ObsTimes, NEW to \in ObsTimes, BeginRead(q, from, to)
      PROVE  RowsRight(q)'
  BY <1>0, <1>2 DEF BeginRead, RowsRight, TypeOK
<1>3. CASE ReadKvalobs(q)
  <2>1. /\ pc[q] = "locked" /\ pc'[q] = "half" /\ span' = span /\ rows[q] = {}
        /\ oldestInProxy' = oldestInProxy /\ span[q].from \in ObsTimes
        /\ rows'[q] = {} \/ rows'[q] = KvalobsPart(span[q].from, span[q].to)
    BY <1>0, <1>3 DEF ReadKvalobs, RowsRight, TypeOK
  <2>2. span[q].from # oldestInProxy
    <3>1. up = "ready"
      BY <1>0, <2>1 DEF BootOrder, NobodyReads, Reading
    <3> QED
      BY <1>0, <2>1, <3>1, ParityAssumption DEF OddTimes
  <2>3. span[q].from \in Int /\ span[q].to \in Int
    BY <1>0 DEF TypeOK
  <2>4. /\ \A a \in rows'[q] : a[1] <= oldestInProxy /\ a[1] \in InSpan(span[q].from, span[q].to)
        /\ \A a, b \in rows'[q] : a[1] = b[1] => a = b
    BY <1>0, <2>1, <2>2, <2>3, KvalobsPartFacts
  <2> QED
    BY <2>1, <2>4 DEF RowsRight
<1>4. CASE ReadCache(q)
  <2>1. /\ pc[q] = "half" /\ pc'[q] = "fetched" /\ span' = span
        /\ rows'[q] = rows[q] \cup CachePart(span[q].from, span[q].to)
    BY <1>0, <1>4 DEF ReadCache, TypeOK
  <2>2. span[q].from \in Int /\ span[q].to \in Int
    BY <1>0 DEF TypeOK
  <2>3. /\ \A a \in CachePart(span[q].from, span[q].to) :
             a[1] \in ObsTimes /\ a[1] > oldestInProxy /\ a[1] \in InSpan(span[q].from, span[q].to)
        /\ \A a, b \in CachePart(span[q].from, span[q].to) : a[1] = b[1] => a = b
    BY <1>0, <2>2, CachePartFacts
  <2>4. ASSUME NEW a \in rows[q], NEW b \in CachePart(span[q].from, span[q].to) PROVE a[1] # b[1]
    <3>1. a[1] <= oldestInProxy /\ b[1] > oldestInProxy /\ b[1] \in Int /\ oldestInProxy \in Int
      BY <1>0, <2>1, <2>3, BoundsNat DEF RowsRight, TypeOK
    <3> QED
      BY <3>1
  <2>5. /\ \A a \in rows'[q] : a[1] \in InSpan(span[q].from, span[q].to)
        /\ \A a, b \in rows'[q] : a[1] = b[1] => a = b
    BY <1>0, <2>1, <2>3, <2>4 DEF RowsRight
  <2>6. span'[q].from \in ObsTimes
    BY <1>0, <2>1 DEF RowsRight
  <2> QED
    BY <2>1, <2>5, <2>6 DEF RowsRight
<1>5. CASE EndRead(q)
  BY <1>0, <1>5 DEF EndRead, RowsRight, TypeOK
<1>6. CASE /\ pc'[q] = pc[q] /\ span'[q] = span[q] /\ rows'[q] = rows[q]
           /\ Reading(q) => oldestInProxy' = oldestInProxy
  BY <1>0, <1>6 DEF RowsRight, Reading
<1> QED
  BY <1>0, <1>1, <1>2, <1>3, <1>4, <1>5, <1>6, OthersLeaveReader DEF Reader, vars, readerVars

LEMMA ReadsInvariance == Spec => []ReadsInv
<1>1. Init => OddTimes /\ RowsRightAll
  BY DEF Init, OddTimes, RowsRightAll, RowsRight
<1>2. ReadsInv /\ [Next]_vars => OddTimes' /\ RowsRightAll'
  BY OddNext, RowsRightNext DEF ReadsInv, StoresInv
<1> QED
  BY <1>1, <1>2, StoresInvariance, PTL DEF Spec, ReadsInv

(* A request never gets two versions of one observation: the parts are      *)
(* fetched apart, and kvalobs and the proxy database may differ, but they   *)
(* meet at a boundary that stays as long as the request holds the lock.     *)
THEOREM ReadOneVersionHolds == Spec => []ReadOneVersion
<1>1. ReadsInv => ReadOneVersion
  BY DEF ReadsInv, RowsRightAll, RowsRight, ReadOneVersion
<1> QED
  BY <1>1, ReadsInvariance, PTL

(* A request gets nothing outside its times.  This needs that the boundary  *)
(* is never an observation time: asked for from the boundary on, kvalobs    *)
(* would be sent a request for the single time at the boundary.             *)
THEOREM ReadInSpanHolds == Spec => []ReadInSpan
<1>1. ReadsInv => ReadInSpan
  BY DEF ReadsInv, RowsRightAll, RowsRight, ReadInSpan, TimesOf
<1> QED
  BY <1>1, ReadsInvariance, PTL
-----------------------------------------------------------------------------
(* What a request waits for does not go away.                               *)
LEMMA StoresKeep ==
  ASSUME StoresInv, Next, ~NobodyReads, ~Crash, NEW t \in ObsTimes
  PROVE  /\ kvalobs[t] # 0 => kvalobs'[t] # 0
         /\ t > oldestInProxy /\ cache[t] # 0 => cache'[t] # 0
<1>1. TypeOK /\ BootOrder
  BY DEF StoresInv
<1>2. kvalobs[t] # 0 => kvalobs'[t] # 0
  <2>1. ASSUME NEW s \in ObsTimes, NEW v \in Versions, Arrive(s, v)
        PROVE  kvalobs[t] # 0 => kvalobs'[t] # 0
    BY <1>1, <2>1, TimesAssumption DEF Arrive, TypeOK
  <2>2. (\E s \in ObsTimes, v \in Versions : Arrive(s, v)) \/ kvalobs' = kvalobs
    BY DEF Next, Tick, Crash, cacheData, Boot, Construct, ClearBoundary, EmptyCache, Fetch, Store,
       PopulateBoundary, Subscribe, Reader, BeginRead, ReadKvalobs, ReadCache, EndRead, Cleaner,
       CleanStart, CleanBoundary, CleanDelete
  <2> QED
    BY <2>1, <2>2
<1>3. t > oldestInProxy /\ cache[t] # 0 => cache'[t] # 0
  <2>1. oldestInProxy' = oldestInProxy /\ t \in Int /\ oldestInProxy \in Int
    BY <1>1, BoundaryStays, BoundsNat DEF TypeOK
  <2> QED
    BY <2>1, DeletedBehind
<1> QED
  BY <1>2, <1>3

LEMMA MustFoundNext == CompleteInv /\ [Next]_vars => MustFoundAll'
<1> SUFFICES ASSUME CompleteInv, [Next]_vars, NEW q \in Readers PROVE MustFound(q)'
  BY DEF MustFoundAll
<1>0. /\ TypeOK /\ BootOrder /\ CoversUnlessRepopulated
      /\ MustFound(q)
  BY DEF CompleteInv, StoresInv, MustFoundAll
<1>1. CASE Crash
  BY <1>1 DEF Crash, MustFound
<1>2. ASSUME NEW from \in ObsTimes, NEW to \in ObsTimes, BeginRead(q, from, to)
      PROVE  MustFound(q)'
  <2>1. /\ pc[q] = "idle" /\ pc'[q] = "locked" /\ ~failed[q] /\ failed' = failed
        /\ span'[q].from = from /\ span'[q].to = to /\ subscribed
        /\ must'[q] = {t \in InSpan(from, to) : kvalobs[t] # 0 /\ t \notin TimesOf(inflight)}
        /\ UNCHANGED <<kvalobs, cache, oldestInProxy, repopulated>>
    BY <1>0, <1>2 DEF BeginRead, MustFound, TypeOK, bootVars
  <2>2. must'[q] \subseteq InSpan(span'[q].from, span'[q].to)
    BY <2>1
  <2>3. \A t \in must'[q] : kvalobs[t] # 0 /\ (~repopulated /\ t > oldestInProxy => cache[t] # 0)
    <3>1. must'[q] \subseteq ObsTimes
      BY <2>1 DEF InSpan
    <3> QED
      BY <1>0, <2>1, <3>1 DEF CoversUnlessRepopulated, CacheCovers
  <2> QED
    BY <2>1, <2>2, <2>3 DEF MustFound
<1>3. CASE ReadKvalobs(q)
  <2>1. /\ pc[q] = "locked" /\ pc'[q] = "half" /\ ~failed[q]
        /\ failed'[q] \/ rows'[q] = KvalobsPart(span[q].from, span[q].to)
        /\ UNCHANGED <<kvalobs, cache, oldestInProxy, repopulated, span, must>>
    BY <1>0, <1>3 DEF ReadKvalobs, MustFound, TypeOK, bootVars
  <2>2. span[q].from \in Int /\ span[q].to \in Int
    BY <1>0 DEF TypeOK
  <2>3. ~failed'[q] => \A t \in must[q] : t <= oldestInProxy => t \in TimesOf(rows'[q])
    BY <1>0, <2>1, <2>2, KvalobsPartFacts DEF MustFound
  <2> QED
    BY <1>0, <2>1, <2>3 DEF MustFound
<1>4. CASE ReadCache(q)
  <2>1. /\ pc[q] = "half" /\ pc'[q] = "fetched"
        /\ rows'[q] = rows[q] \cup CachePart(span[q].from, span[q].to)
        /\ UNCHANGED <<kvalobs, cache, oldestInProxy, repopulated, span, must, failed>>
    BY <1>0, <1>4 DEF ReadCache, TypeOK, bootVars
  <2>2. span[q].from \in Int /\ span[q].to \in Int
    BY <1>0 DEF TypeOK
  <2>3. ASSUME ~repopulated, ~failed[q], NEW t \in must[q] PROVE t \in TimesOf(rows'[q])
    <3>1. t \in InSpan(span[q].from, span[q].to) /\ t \in Int /\ oldestInProxy \in Int
      BY <1>0, BoundsNat DEF MustFound, TypeOK
    <3>2. CASE t <= oldestInProxy
      <4>1. t \in TimesOf(rows[q])
        BY <1>0, <2>1, <2>3, <3>2 DEF MustFound
      <4> QED
        BY <2>1, <4>1 DEF TimesOf
    <3>3. CASE t > oldestInProxy
      <4>1. t \in TimesOf(CachePart(span[q].from, span[q].to))
        BY <1>0, <2>1, <2>2, <2>3, <3>1, <3>3, CachePartFacts DEF MustFound
      <4> QED
        BY <2>1, <4>1 DEF TimesOf
    <3> QED
      BY <3>1, <3>2, <3>3
  <2> QED
    BY <1>0, <2>1, <2>3 DEF MustFound
<1>5. CASE EndRead(q)
  BY <1>0, <1>5 DEF EndRead, MustFound, TypeOK
<1>6. CASE /\ Next /\ ~Crash
           /\ pc'[q] = pc[q] /\ span'[q] = span[q] /\ rows'[q] = rows[q]
           /\ must'[q] = must[q] /\ failed'[q] = failed[q]
           /\ Reading(q) => oldestInProxy' = oldestInProxy
  <2>1. CASE pc[q] = "idle"
    BY <1>0, <1>6, <2>1 DEF MustFound
  <2>2. CASE pc[q] # "idle"
    <3>1. ~NobodyReads /\ oldestInProxy' = oldestInProxy
      BY <1>6, <2>2 DEF NobodyReads, Reading
    <3>2. repopulated' = repopulated
      BY <1>0, <1>6, <3>1, BoundaryStays
    <3>3. \A t \in ObsTimes : /\ kvalobs[t] # 0 => kvalobs'[t] # 0
                              /\ t > oldestInProxy /\ cache[t] # 0 => cache'[t] # 0
      BY <1>6, <3>1, StoresKeep DEF CompleteInv
    <3>4. must[q] \subseteq ObsTimes
      BY <1>0 DEF TypeOK
    <3> QED
      BY <1>0, <1>6, <2>2, <3>1, <3>2, <3>3, <3>4 DEF MustFound
  <2> QED
    BY <2>1, <2>2
<1>7. CASE UNCHANGED vars
  BY <1>0, <1>7 DEF MustFound, vars, bootVars, readerVars
<1> QED
  BY <1>0, <1>1, <1>2, <1>3, <1>4, <1>5, <1>6, <1>7, OthersLeaveReader DEF Reader

(* A request misses nothing that was there when it began, wherever the      *)
(* boundary was and whatever arrives or is cleaned up meanwhile.  It is the *)
(* coverage of the proxy database that makes it so, and the lock that keeps *)
(* the boundary while the two parts are fetched.                            *)
THEOREM ReadCompleteHolds == Spec => []ReadComplete
<1>1. Init => MustFoundAll
  BY DEF Init, MustFoundAll, MustFound
<1>2. CompleteInv /\ [Next]_vars => MustFoundAll'
  BY MustFoundNext
<1>3. MustFoundAll => ReadComplete
  BY DEF MustFoundAll, MustFound, ReadComplete
<1> QED
  BY <1>1, <1>2, <1>3, StoresInvariance, PTL DEF Spec, CompleteInv
=============================================================================
