---------------------------- MODULE KvalobsProxy ----------------------------
(***************************************************************************)
(* src/proxy/KvalobsProxy.{h,cc} with the two stores it stands between,    *)
(* CachedDataAccess (a local database) and KvalobsDataAccess (kvalobs, over*)
(* the network): how getData divides a request between them at             *)
(* oldestInProxy, while observations arrive, the cleaner moves the boundary*)
(* and deletes, and the program is killed and restarted.                   *)
(*                                                                         *)
(* One series is modelled: one station, parameter, type, sensor and level, *)
(* so a row is an observation time and a version of the observation.       *)
(* Observation times are even and the clock shows odd times, as the clock, *)
(* read in microseconds, never hits the full minute of an observation.     *)
(*                                                                         *)
(* setOldestInProxy, and with it a boundary that is not a date, is left    *)
(* out: only the tests call it.                                            *)
(*                                                                         *)
(* timeMutex_ is the lock of AbstractRWLock: a reader holds it from        *)
(* BeginRead to EndRead; the scopes of the write lock hold one assignment  *)
(* each, so they are single actions, enabled when nobody reads.            *)
(***************************************************************************)
EXTENDS Integers, FiniteSets

CONSTANTS
  Readers,        \* threads that call getData
  ObsTimes,       \* the observation times there are
  Versions,       \* the versions an observation may have; 0 is no observation
  MaxTime,        \* bound: the last time the clock shows
  Lead,           \* the 2 hours the constructor adds to the clock
  ClearLead,      \* the 1 hour db_clear adds
  PopulateSpan,   \* the 24 hours db_repopulate fetches
  Keep,           \* the 35 days db_cleanup keeps
  Repopulate,     \* the choices of --repopulate, a set of BOOLEANs
  MaxCrashes,     \* bound: crashes
  MaxFailures     \* bound: retrievals from kvalobs that fail

ASSUME TimesAssumption ==
  /\ MaxTime \in Nat \ {0} /\ ObsTimes \subseteq 1..MaxTime
  /\ Versions \subseteq Nat \ {0}
  /\ Lead \in Nat /\ ClearLead \in Nat /\ PopulateSpan \in Nat /\ Keep \in Nat
  /\ MaxCrashes \in Nat /\ MaxFailures \in Nat
  /\ Repopulate \subseteq BOOLEAN

(* Observations are at even times, and all spans are whole hours or days,   *)
(* which no reading of the clock at an odd time makes even.                 *)
ASSUME ParityAssumption ==
  /\ \A t \in ObsTimes : t % 2 = 0
  /\ Lead % 2 = 0 /\ ClearLead % 2 = 0 /\ PopulateSpan % 2 = 0 /\ Keep % 2 = 0

VARIABLES
  now,             \* the clock
  kvalobs,         \* the version of each observation in kvalobs
  cache,           \* the version of each observation in the proxy database
  oldestInProxy,   \* KvalobsProxy::oldestInProxy
  up,              \* how far the program has come
  started,         \* when the constructor read the clock
  subscribed,      \* the subscription to new data is in force
  inflight,        \* <<time, version>> sent to us and not yet cached
  populate,        \* [from, rows] of db_populate
  repopulated,     \* history: this run of the program was started with --repopulate
  pc,              \* where each reader is
  span,            \* [from, to] each reader asked for
  rows,            \* what each reader has got so far
  must,            \* history: what each reader must find
  failed,          \* history: whether the reader's retrieval failed
  cleaner,         \* where the cleaner is
  limit,           \* t in db_cleanup
  crashes, failures

clockVars   == <<now, crashes, failures>>
bootVars    == <<up, started, subscribed, populate, repopulated>>
readerVars  == <<pc, span, rows, must, failed>>
cleanerVars == <<cleaner, limit>>
vars == <<clockVars, kvalobs, cache, oldestInProxy, bootVars, inflight, readerVars, cleanerVars>>

UpStates == {"down", "clearing", "emptying", "fetching", "storing", "moving", "ready"}
Rows == ObsTimes \X Versions

Earlier(a, b) == IF a < b THEN a ELSE b
Later(a, b)   == IF a < b THEN b ELSE a

(* The observation times a request (from, to] is about; a request for a     *)
(* single time includes it.                                                 *)
InSpan(from, to) == {t \in ObsTimes : (from < t /\ t <= to) \/ (from = to /\ t = from)}

(* The rows of a store for the request (from, to].  kvalobs includes the    *)
(* start of a span, so KvalobsDataAccess adds a second to it; observations  *)
(* are of full minutes and kvalobs is asked for full seconds, by which that *)
(* is the same half-open span.                                              *)
RowsOf(store, from, to) == {<<t, store[t]>> : t \in {s \in InSpan(from, to) : store[s] # 0}}

TimesOf(R) == {r[1] : r \in R}

NoSpan == [from |-> 0, to |-> 0]
NoPopulate == [from |-> 0, rows |-> {}]
Empty == [t \in ObsTimes |-> 0]

Reading(r) == pc[r] # "idle"
NobodyReads == \A r \in Readers : ~Reading(r)

Init ==
  /\ now = 1
  /\ kvalobs = Empty /\ cache = Empty
  /\ oldestInProxy = 0
  /\ up = "down" /\ started = 0 /\ subscribed = FALSE /\ populate = NoPopulate
  /\ repopulated = FALSE
  /\ inflight = {}
  /\ pc = [r \in Readers |-> "idle"]
  /\ span = [r \in Readers |-> NoSpan]
  /\ rows = [r \in Readers |-> {}]
  /\ must = [r \in Readers |-> {}]
  /\ failed = [r \in Readers |-> FALSE]
  /\ cleaner = "idle" /\ limit = 0
  /\ crashes = 0 /\ failures = 0
-----------------------------------------------------------------------------
(***************************************************************************)
(* The world.                                                              *)
(***************************************************************************)
(* Time passes.  Assumption: the program subscribes within Lead of its      *)
(* start.                                                                   *)
Tick ==
  /\ now + 2 <= MaxTime
  /\ (up # "down" /\ ~subscribed) => now + 2 <= started + Lead
  /\ now' = now + 2
  /\ UNCHANGED <<crashes, failures, kvalobs, cache, oldestInProxy, bootVars, inflight, readerVars,
                 cleanerVars>>

(* kvalobs gets a new or corrected observation, never one from the future,  *)
(* and tells its subscribers.  Versions are numbered in their order.        *)
Arrive(t, v) ==
  /\ t < now /\ v > kvalobs[t]
  /\ kvalobs' = [kvalobs EXCEPT ![t] = v]
  /\ inflight' = IF subscribed THEN inflight \cup {<<t, v>>} ELSE inflight
  /\ UNCHANGED <<clockVars, cache, oldestInProxy, bootVars, readerVars, cleanerVars>>

(* The program is killed or stops.  The database file stays.                *)
Crash ==
  /\ up # "down" /\ crashes < MaxCrashes
  /\ crashes' = crashes + 1
  /\ up' = "down" /\ started' = 0 /\ subscribed' = FALSE /\ populate' = NoPopulate
  /\ repopulated' = FALSE
  /\ oldestInProxy' = 0
  /\ inflight' = {}
  /\ pc' = [r \in Readers |-> "idle"]
  /\ span' = [r \in Readers |-> NoSpan]
  /\ rows' = [r \in Readers |-> {}]
  /\ must' = [r \in Readers |-> {}]
  /\ failed' = [r \in Readers |-> FALSE]
  /\ cleaner' = "idle" /\ limit' = 0
  /\ UNCHANGED <<now, failures, kvalobs, cache>>
-----------------------------------------------------------------------------
(***************************************************************************)
(* The constructor, with db_repopulate = db_clear; db_populate, and the    *)
(* subscription that AggregatorRunner makes later.                         *)
(***************************************************************************)
(* Mutant: the boundary is the clock.                                       *)
ConstructNow(repopulate) ==
  /\ up = "down"
  /\ oldestInProxy' = now
  /\ started' = now
  /\ up' = IF repopulate THEN "clearing" ELSE "ready"
  /\ repopulated' = repopulate
  /\ UNCHANGED <<clockVars, kvalobs, cache, subscribed, populate, inflight, readerVars, cleanerVars>>

Construct(repopulate) ==
  /\ up = "down"
  /\ oldestInProxy' = now + Lead
  /\ started' = now
  /\ up' = IF repopulate THEN "clearing" ELSE "ready"
  /\ repopulated' = repopulate
  /\ UNCHANGED <<clockVars, kvalobs, cache, subscribed, populate, inflight, readerVars, cleanerVars>>

(* db_clear: first the boundary, under the write lock ...                   *)
ClearBoundary ==
  /\ up = "clearing"
  /\ NobodyReads
  /\ oldestInProxy' = now + ClearLead
  /\ up' = "emptying"
  /\ UNCHANGED <<clockVars, kvalobs, cache, started, subscribed, populate, repopulated, inflight, readerVars,
                 cleanerVars>>

(* ... then the rows.                                                       *)
EmptyCache ==
  /\ up = "emptying"
  /\ cache' = Empty
  /\ up' = "fetching"
  /\ UNCHANGED <<clockVars, kvalobs, oldestInProxy, started, subscribed, populate, repopulated, inflight,
                 readerVars, cleanerVars>>

(* db_populate: fetch from kvalobs, with the half-open span getAllData makes *)
(* of the request (see RowsOf); a failure is logged and gives no rows       *)
Fetch ==
  /\ up = "fetching"
  /\ up' = "storing"
  /\ \/ /\ populate' = [from |-> now - PopulateSpan, rows |-> RowsOf(kvalobs, now - PopulateSpan, now)]
        /\ UNCHANGED failures
     \/ /\ failures < MaxFailures /\ failures' = failures + 1
        /\ populate' = [from |-> now - PopulateSpan, rows |-> {}]
  /\ UNCHANGED <<now, crashes, kvalobs, cache, oldestInProxy, started, subscribed, repopulated, inflight,
                 readerVars, cleanerVars>>

(* ... store the rows ...                                                   *)
Store ==
  /\ up = "storing"
  /\ cache' = [t \in ObsTimes |->
                 IF t \in TimesOf(populate.rows)
                 THEN (CHOOSE r \in populate.rows : r[1] = t)[2]
                 ELSE cache[t]]
  /\ up' = "moving"
  /\ UNCHANGED <<clockVars, kvalobs, oldestInProxy, started, subscribed, populate, repopulated, inflight,
                 readerVars, cleanerVars>>

(* ... and move the boundary, under the write lock.                         *)
PopulateBoundary ==
  /\ up = "moving"
  /\ NobodyReads
  /\ oldestInProxy' = Earlier(oldestInProxy, populate.from)
  /\ up' = "ready"
  /\ populate' = NoPopulate
  /\ UNCHANGED <<clockVars, kvalobs, cache, started, subscribed, repopulated, inflight, readerVars, cleanerVars>>

Subscribe ==
  /\ up = "ready" /\ ~subscribed
  /\ subscribed' = TRUE
  /\ UNCHANGED <<clockVars, kvalobs, cache, oldestInProxy, up, started, populate, repopulated, inflight,
                 readerVars, cleanerVars>>

(* A handler thread passes what arrived to cacheData, in any order: there   *)
(* are several threads.  cache_.sendData replaces the row of that time.     *)
cacheData(t, v) ==
  /\ <<t, v>> \in inflight
  /\ inflight' = inflight \ {<<t, v>>}
  /\ cache' = [cache EXCEPT ![t] = v]
  /\ UNCHANGED <<clockVars, kvalobs, oldestInProxy, bootVars, readerVars, cleanerVars>>
-----------------------------------------------------------------------------
(***************************************************************************)
(* getData.                                                                *)
(***************************************************************************)
BeginRead(r, from, to) ==
  /\ subscribed
  /\ pc[r] = "idle"
  /\ pc' = [pc EXCEPT ![r] = "locked"]
  /\ span' = [span EXCEPT ![r] = [from |-> from, to |-> to]]
  /\ must' = [must EXCEPT ![r] =
                {t \in InSpan(from, to) : kvalobs[t] # 0 /\ t \notin TimesOf(inflight)}]
  /\ UNCHANGED <<clockVars, kvalobs, cache, oldestInProxy, bootVars, inflight, rows, failed, cleanerVars>>

(* Mutant: without min(to, oldestInProxy).                                  *)
KvalobsPartAll(from, to) ==
  IF from <= oldestInProxy THEN RowsOf(kvalobs, from, to) ELSE {}

(* What getData fetches from kvalobs: everything up to the boundary.        *)
KvalobsPart(from, to) ==
  IF from <= oldestInProxy
  THEN RowsOf(kvalobs, from, Earlier(to, oldestInProxy))
  ELSE {}

(* Mutant: without max(from, oldestInProxy), all from the boundary.         *)
CachePartAll(from, to) ==
  IF to > oldestInProxy THEN RowsOf(cache, oldestInProxy, to) ELSE {}

(* What it fetches from the proxy database: everything after it.            *)
CachePart(from, to) ==
  IF to > oldestInProxy
  THEN RowsOf(cache, Later(from, oldestInProxy), to)
  ELSE {}

ReadKvalobs(r) ==
  /\ pc[r] = "locked"
  /\ pc' = [pc EXCEPT ![r] = "half"]
  /\ \/ /\ rows' = [rows EXCEPT ![r] = KvalobsPart(span[r].from, span[r].to)]
        /\ UNCHANGED <<failed, failures>>
     \/ /\ span[r].from <= oldestInProxy
        /\ failures < MaxFailures /\ failures' = failures + 1
        /\ failed' = [failed EXCEPT ![r] = TRUE]
        /\ UNCHANGED rows
  /\ UNCHANGED <<now, crashes, kvalobs, cache, oldestInProxy, bootVars, inflight, span, must, cleanerVars>>

(* A row that kvalobs gave already is left out: rows is a set.              *)
ReadCache(r) ==
  /\ pc[r] = "half"
  /\ pc' = [pc EXCEPT ![r] = "fetched"]
  /\ rows' = [rows EXCEPT ![r] = @ \cup CachePart(span[r].from, span[r].to)]
  /\ UNCHANGED <<clockVars, kvalobs, cache, oldestInProxy, bootVars, inflight, span, must, failed,
                 cleanerVars>>

EndRead(r) ==
  /\ pc[r] = "fetched"
  /\ pc' = [pc EXCEPT ![r] = "idle"]
  /\ span' = [span EXCEPT ![r] = NoSpan]
  /\ rows' = [rows EXCEPT ![r] = {}]
  /\ must' = [must EXCEPT ![r] = {}]
  /\ failed' = [failed EXCEPT ![r] = FALSE]
  /\ UNCHANGED <<clockVars, kvalobs, cache, oldestInProxy, bootVars, inflight, cleanerVars>>
-----------------------------------------------------------------------------
(***************************************************************************)
(* db_cleanup, in the cleaner's thread.                                    *)
(***************************************************************************)
CleanStart ==
  /\ up = "ready" /\ cleaner = "idle"
  /\ limit' = now - Keep
  /\ cleaner' = "waiting"
  /\ UNCHANGED <<clockVars, kvalobs, cache, oldestInProxy, bootVars, inflight, readerVars>>

(* Mutant: the boundary is moved without the write lock.                    *)
CleanBoundaryUnlocked ==
  /\ cleaner = "waiting"
  /\ oldestInProxy' = Later(oldestInProxy, limit)
  /\ cleaner' = "deleting"
  /\ UNCHANGED <<clockVars, kvalobs, cache, bootVars, inflight, readerVars, limit>>

(* Mutant: min instead of max.                                              *)
CleanBoundaryMin ==
  /\ cleaner = "waiting"
  /\ NobodyReads
  /\ oldestInProxy' = Earlier(oldestInProxy, limit)
  /\ cleaner' = "deleting"
  /\ UNCHANGED <<clockVars, kvalobs, cache, bootVars, inflight, readerVars, limit>>

CleanBoundary ==
  /\ cleaner = "waiting"
  /\ NobodyReads
  /\ oldestInProxy' = Later(oldestInProxy, limit)
  /\ cleaner' = "deleting"
  /\ UNCHANGED <<clockVars, kvalobs, cache, bootVars, inflight, readerVars, limit>>

(* Mutant: the deleted rows can no longer be asked for.                     *)
CleanDeleteSchema ==
  /\ cleaner = "deleting"
  /\ cache' = [t \in {s \in ObsTimes : s >= limit} |-> cache[t]]
  /\ cleaner' = "idle" /\ limit' = 0
  /\ UNCHANGED <<clockVars, kvalobs, oldestInProxy, bootVars, inflight, readerVars>>

CleanDelete ==
  /\ cleaner = "deleting"
  /\ cache' = [t \in ObsTimes |-> IF t < limit THEN 0 ELSE cache[t]]
  /\ cleaner' = "idle" /\ limit' = 0
  /\ UNCHANGED <<clockVars, kvalobs, oldestInProxy, bootVars, inflight, readerVars>>
-----------------------------------------------------------------------------
Boot ==
  \/ \E repopulate \in Repopulate : Construct(repopulate)
  \/ ClearBoundary \/ EmptyCache \/ Fetch \/ Store \/ PopulateBoundary
  \/ Subscribe

Reader(r) ==
  \/ \E from, to \in ObsTimes : from <= to /\ BeginRead(r, from, to)
  \/ ReadKvalobs(r) \/ ReadCache(r) \/ EndRead(r)

Cleaner == CleanStart \/ CleanBoundary \/ CleanDelete

Next ==
  \/ Tick \/ Crash
  \/ \E t \in ObsTimes, v \in Versions : Arrive(t, v) \/ cacheData(t, v)
  \/ Boot
  \/ \E r \in Readers : Reader(r)
  \/ Cleaner

Spec == Init /\ [][Next]_vars
-----------------------------------------------------------------------------
TypeOK ==
  /\ now \in 1..MaxTime
  /\ kvalobs \in [ObsTimes -> Versions \cup {0}]
  /\ cache \in [ObsTimes -> Versions \cup {0}]
  /\ oldestInProxy \in Int
  /\ up \in UpStates
  /\ started \in 0..MaxTime
  /\ subscribed \in BOOLEAN /\ repopulated \in BOOLEAN
  /\ inflight \subseteq Rows
  /\ populate.from \in Int /\ populate.rows \subseteq Rows
  /\ pc \in [Readers -> {"idle", "locked", "half", "fetched"}]
  /\ span \in [Readers -> [from : Int, to : Int]]
  /\ rows \in [Readers -> SUBSET Rows]
  /\ must \in [Readers -> SUBSET ObsTimes]
  /\ failed \in [Readers -> BOOLEAN]
  /\ cleaner \in {"idle", "waiting", "deleting"}
  /\ limit \in Int
  /\ crashes \in 0..MaxCrashes
  /\ failures \in 0..MaxFailures

(* What getData will look for in the proxy database alone is there: every   *)
(* observation later than oldestInProxy that kvalobs has, but for those on  *)
(* their way to us.                                                         *)
CacheCovers ==
  subscribed =>
    \A t \in ObsTimes :
      (t > oldestInProxy /\ kvalobs[t] # 0 /\ t \notin TimesOf(inflight)) => cache[t] # 0

(* So it is through restarts, of whose downtime nobody told us, and         *)
(* cleanups; it is not so when db_populate has moved the boundary back.     *)
CoversUnlessRepopulated == ~repopulated => CacheCovers

(* A request misses no observation that was there, and not just on its way, *)
(* when it began, whatever the cleaner does meanwhile -- unless the         *)
(* retrieval from kvalobs failed, which getData does not report.            *)
ReadComplete ==
  \A r \in Readers :
    (pc[r] = "fetched" /\ ~failed[r] /\ ~repopulated) => must[r] \subseteq TimesOf(rows[r])

(* A request never gets two versions of one observation, although the parts *)
(* are fetched at different moments from stores that differ.                *)
ReadOneVersion ==
  \A r \in Readers : pc[r] = "fetched" =>
    \A a, b \in rows[r] : a[1] = b[1] => a = b

(* A request gets nothing outside the times it asked for: the earliest time *)
(* is not included.  AggregatorHandler throws when it is.                   *)
ReadInSpan ==
  \A r \in Readers : pc[r] = "fetched" =>
    TimesOf(rows[r]) \subseteq InSpan(span[r].from, span[r].to)

(* A row leaves the proxy database only when requests for its time go to    *)
(* kvalobs.                                                                 *)
OnlyUnservedRowsDeleted ==
  [][\A t \in ObsTimes :
        (cache[t] # 0 /\ cache'[t] = 0) => t <= oldestInProxy']_vars
=============================================================================
