# kvaggregated in TLA+

`kvAgregated` receives weather observations from kvalobs, computes aggregates
(sums, means, extremes over 1, 12 or 24 hours) and sends them back. This
directory models it from the command line to the value of an aggregate: the
threads, the cache, the network service and the restarts, and the thirteen
aggregators with what decides whether they run. The models are checked with
TLC, and what matters most is proved with TLAPS. Paths below are relative to `src/src/`.

## The system

| component | state | operations | what makes it correct |
|---|---|---|---|
| `proxy/ReadWriteLock.h` | `count_`, `writer_`, one condition | constructors and destructors of two scopes | exclusion; no lost wakeup; every request granted |
| `proxy/IncomingHandler` | `queue`, `threadsStopping`, a pool of threads | `onKvDataEvent`, the thread loop, `startThreads`, `stopThreads`, destructor | no message lost, doubled or slept over; nobody left after a stop |
| `proxy/KvalobsProxy` | `oldestInProxy`, the interesting parameters, the cleaner's thread | `getData`, `cacheData`, `sendData`, `db_cleanup`, `db_clear`, `db_populate`, constructor | `getData` finds everything once, although two stores are behind it |
| `proxy/CachedDataAccess` | the local database, which outlives the program | insert or replace, select, delete | covers all times after the boundary |
| `proxy/KvalobsDataAccess` | none (kvalobs, over the network) | retrieve, send | a failure is not taken for an answer |
| `AggregatorHandler` | the table of aggregators | `newData`, `process`, `getRelevantObsList`, `save` | kvalobs ends up with the aggregate of what it has |
| `aggregator/*` | none: pure functions of a list of observations | `isInterestedIn`, `getTimeSpan`, `process`, `calculate` | the value, time, flags and type of the aggregate |
| `checkDecision/*` | none | `shouldRunChecksOn` | which observations lead to an aggregate; gauge and hourly rain never both |
| `KvDataFunctors` | none | predicates of data | - |
| `WorkLoop`, `AggregatorRunner`, `main.cc` | `shutdown_`, the runner thread, the command queue, log, pid file | `main`, `runAgregator`, `start_thread`, `run`, `stop`, destruction | messages are handed on; the end is orderly from wherever it comes |
| `BackProduction` | `from_`, `to_`, the current hour | the reading of the period, the loop over the hours | the whole period is produced |
| `configuration/AggregatorConfiguration` | the options given | `parse` and the accessors | what cannot be read ends the program, with an exit code |
| metrics, logging | - | - | output only, not modelled |

How they interact: kvcpp puts data events into the command queue; the runner
thread hands them to `IncomingHandler`; one of its threads stores the data in
the proxy (`cacheData`) and calls `AggregatorHandler::newData`, which reads
what it needs through `KvalobsProxy::getData` (under the read lock), and sends
the aggregate through `KvalobsProxy::sendData` (under `sendDataMutex_`), which
stores it in the proxy too. The cleaner's thread moves `oldestInProxy` under
the write lock once a day. Back production calls `newData` from a thread of
its own. kvalobs sends the aggregates back as events.

`newData` offers each datum of a message to the check deciders, then to
`process`, which offers it to the aggregators of its parameter one after the
other and calls itself for each aggregate that comes out, before anything is
saved: a measurement of ten minutes may become rain of an hour, of twelve and
of a day in one go.

What is hard: the interleavings of these threads, the condition variables, two
stores read at different moments, the echo of our own data, failing messages
and retrievals, restarts over a database that has been left behind,
observations and corrections that come in any order into aggregates of
aggregates, and what is left behind when something throws at any point between
the command line and the end. `PROJECT.json` lists each hazard at its
line with the properties that cover it.

## Modules

| module | models | stands on |
|---|---|---|
| `AbstractRWLock` | what users of a readers/writer lock rely on | |
| `ReadWriteLock` | `proxy/ReadWriteLock.h` | refines `AbstractRWLock` |
| `ReadWriteLockProofs` | theorems about it | |
| `IncomingHandler` | `proxy/IncomingHandler.cc` | |
| `IncomingHandlerProofs` | theorems about it | |
| `KvalobsProxy` | boundary, reads, cleanup, restart, repopulation | `timeMutex_` is the lock of `AbstractRWLock` |
| `KvalobsProxyProofs` | theorems about it | |
| `AggregationPipeline` | an observation from kvalobs to its aggregate in kvalobs, between threads | the queue of `IncomingHandler`, the cache side of `KvalobsProxy` |
| `AggregationPipelineProofs` | theorems about it | |
| `Observations` | data, parameters, times, `different_`, `KvDataFunctors`, the store by key | |
| `Aggregation` | `aggregator/*`, and the choice of station metadata | `Observations` |
| `AggregationProofs` | theorems about it | |
| `CheckDecision` | `checkDecision/*` | `Observations` |
| `AggregatorHandler` | `AggregatorHandler.cc` with all aggregators, and what kvalobs sends back, in one thread | `Aggregation`, `CheckDecision` |
| `AggregatorHandlerProofs` | theorems about it: which data, calls and decisions there are | |
| `AggregatorHandlerDataProofs` | theorems about the values of its data | the two modules of proofs above |
| `Configuration` | `AggregatorConfiguration`, the texts of a period of back production | |
| `Daemon` | `main.cc`, `WorkLoop`, `AggregatorRunner`, `BackProduction`, the cleaner's thread | `Configuration`; `IncomingHandler` with one thread |
| `DaemonProofs` | theorems about it | |
| `MC...` | values of the constants for TLC | |

**ReadWriteLock.** The variables are the two words of `RWMutex` and a program
counter per thread. Each stretch of code under the inner mutex is one action.
`notify_one` picks any sleeping thread; a woken thread competes for the mutex
with newcomers, and may also wake spuriously.

**IncomingHandler.** One action per critical section. `stopThreads` sets the
flag and notifies without the mutex, so the worker between its test and its
wait is a state of its own (`committed`). Messages are numbered in the order
received. `process` either returns or throws. The owner calls `startThreads`,
`stopThreads` and the destructor one after the other.

**KvalobsProxy.** One series (station, parameter, type, sensor, level) is
enough: the stores never mix series. A row is a time and a version. Observation
times are even and the clock is odd: the boundary comes from a clock with
microseconds and never equals the full minute of an observation.
A request is the half-open span that the code makes of it: for the database by
its `WHERE`, for kvalobs, which includes both ends, by a second added to the
start (`KvalobsDataAccess.cpp:88`); that is the same as long as kvalobs is asked
for full seconds, which kvcpp, not in the repository, is assumed to do.
`--repopulate` may be chosen at every start. `Crash` loses everything but the
database and what kvalobs has. `setOldestInProxy` is left out, as only the
tests call it, and with it a boundary that is not a date.

**AggregationPipeline.** One aggregate of two observations, its value
abstracted to the versions it was computed from. The number of threads and
whether kvalobs echoes our aggregates are chosen at the start. It is an
aggregate made from whatever observations there are, as `rr_1`; one that needs
all of them is made later, and then in the same way. That a program which is
shutting down stops saving is in `Daemon` and `AggregatorHandler`, not here.

**Observations, Aggregation, CheckDecision.** Operators without state. A datum
is a record of parameter, time, type, both values, the aggregate flag and two
use flags; its station, sensor and level are those of every request, so they
are left out. Times are minutes, values tenths, and a list of observations is a
set: its order is the database's, and where the code depends on it (Koppen's
observations of one hour, the date of the first observation, the first and
last of the minimum temperatures) each
choice gives an outcome. `Aggregators` is the table that `runAgregator` fills;
`Useful` is `shouldProcess` with `extractUsefulData`; `Process` gives the set
of possible results, `{}` for none. `UseFlags` (kvalobs' use information) and
`ComputePo` (the formula of the sea level pressure) are parameters. `Round` is
the rounding to tenths; sums and means before it are exact, not in `float`.

**AggregatorHandler.** A scenario is a station: what is stored, which messages
may come, the times of the clock, metadata, filters. `stack` holds the calls of
`process`, innermost first, each a datum and the place of its iterator;
`Uninterested`, `NoAggregate`, `Aggregate` and `Return` are one turn of its
loop. `save` stores what differs from what is stored and lets kvalobs send it
back, a message for each time and type, in any order; `saveRefused` is the
exception and the retry of the whole message. One thread: the next message is
taken when the last is done. A message is one `KvObsData`, the data of one time
and type: of a message with several the code stores all before it calls
`newData`, and so saves, for each, which is not modelled; nor is `newData`
called by back production, with nothing stored before.

**Configuration.** A text is what a conversion makes of it, the set of no or
one value; a command line is a record of the options given and of such texts.

**Daemon.** The main thread's steps in the order of C++, what may throw at each
(the log, the pid file, the application, the proxy database, the period), and
the unwinding from there. `~AggregatorRunner` is empty, so `incomingHandler`
and the queue are destroyed before `~WorkLoop` stops the runner thread. The
four threads of `incomingHandler` are one (`worker`), of which the wait and the
end are kept: `HandlerStopped` is the flag and the notification of
`stopThreads`, `HandlerGone` the join after it, which returns only when the
thread has ended. A thread that is `committed` to its wait at that moment
becomes `missed`, asleep after the notification, and the join then waits until
the runner thread, which still runs, brings another message, or for ever. What a
use of a destroyed object does is undefined; the model lets it pass (a message
goes nowhere, an empty queue stays empty) and the liveness of shutdown is
claimed only for executions that survive it. The thread of the cleaner and the
removal of the pid file are steps of their own. What `KvApp::run` may throw
while the thread of back production lives is not modelled, nor are exceptions
in the runner thread.

In the component modules a definition marked *Mutant* is a wrong variant of the
definition after it, with which the property it is paired with in
`PROJECT.json` is violated.

## Runs

| run | instance | shows |
|---|---|---|
| `rwlock` | 4 threads, 2 requests each | exclusion, truthful counters, no lost wakeup, no deadlock, every request granted, refinement |
| `incoming` | 2 workers, 3 messages, 1 failure per message, 2 starts | messages in one place, no sleep over work, order, what a stop guarantees, every message processed |
| `proxy` | 1 reader, 2 times, 2 versions, clock to 7, a crash, a failed retrieval | complete reads in one version, coverage through restart, deletion of unserved rows only |
| `pipeline` | 1 or 2 threads, 2 observations, 2 versions, 3 messages, a refusal, echo or not | the aggregate follows (one thread, no echo), the proxy follows (one thread), nothing sent twice, all worked off |
| `daemon` | 11 command lines, 2 messages, up to 4 hours, a failed retrieval, an exception | messages handed on, whole period, nobody left and no pid file, whatever throws; shutdown ends, but for the missed notification |
| `handler` | 13 stations, 3 messages each, a refused save | what was observed is untouched, the calls end, one source of rain, the aggregates follow, all worked off |
| `proxy_repopulate` | violation of `CacheCovers` | finding 1 |
| `pipeline_threads` | violation of `AggregateFollows`, 2 threads, 2 messages | finding 2 |
| `pipeline_echo` | violation of `AggregateFollows`, 1 thread and echoes | finding 3 |
| `daemon_dispatch` | violation of `DispatchToLiveHandler` | finding 4 |
| `daemon_invalid` | violation of `NeverTerminated`, 2 command lines | finding 5 |
| `handler_forward` | violation of `RaFollows`, 1 station | finding 6 |

What `handler` checks of values. `AggregatesFollow`: when everything that came
has been worked off, the extremes and the sunshine of every whole period are
those of what is stored, in both versions, missing if one is missing.
`RainFollows`: so is the rain of half a day, from observations or from what was
itself computed; and the rain of a day is that of its 24 hours, although it is
computed from halves of which one may be stored in an older version. It leaves
out the half days for which a level of a gauge lies within, or in the eleven
hours before: while an hour is missing, `RR1OverridesRADecider` counts half a day
back from each datum, so that a correction of an early hour is left to the gauge.
`GaugeFollows` and `PoFollows`: the same for the gauge and the sea level
pressure, under the conditions the code sets (of stations abroad only
precipitation is aggregated, and no sea level pressure is sent as long as the
reported one is near enough and none was sent before). `InRange`: no mean or
extreme lies outside the values it was made from. The expected values are
defined from the store, beside the code's way of getting there. The stations
are chosen so that every aggregator computes, from 24, 8 and 3 observations,
with corrections, missing values, values within the hour, several types,
metadata of several degrees, a station abroad, filters, and a shutdown.

Why the bounds are enough. *rwlock*: two sleepers of each kind beside a holder,
and each thread again in the queue after having been inside. *incoming*: a
message taken by a busy worker needs two workers and two messages, a failure
behind fresh ones a third; the proofs cover all numbers. *proxy*: one time on
each side of the boundary before and after it is moved; readers do not disturb
each other but for the lock, which is checked for itself, so one is enough
(the proofs cover any number of readers and times, and any spans);
spans of the model (2 hours lead, 35 days kept) keep their order, not their
length. *pipeline*: an observation, its correction, and the correction taken
back or the other observation. *daemon*: more hours than exceptions and
failures, more messages than the runner holds, and a command line for each
outcome of parsing and of reading a period (the proofs cover all numbers and
all command lines). *handler*: a period that is complete but for one
observation, that observation, and two corrections of it or of another one;
the refusal falls on each of these messages. The times and hours are those of
the code, not scaled. A behaviour may end
when the bounds are used up, so deadlock is checked only in `rwlock`, where the
end is made explicit.

Fairness. Threads: weak fairness for each, as the operating system schedules
every thread that can run. In `ReadWriteLock` a holder leaves its scope: between
the constructor and the destructor the code makes one retrieval or one
assignment. In `IncomingHandler` the owner goes on once it has called
`stopThreads`, and spurious wakeups do not come for ever. In `AggregatorHandler` the one
thread is fair over all its steps: it runs as long as it has something to do,
and kvalobs refuses at most `MaxRefusals` times. In `Daemon` each thread is
fair by itself. No fairness for the
outside: messages need not arrive, nobody needs to stop the program.

## Findings

1. `--repopulate` fetches before the program subscribes, then declares the
   proxy to be complete for those 24 hours. What reaches kvalobs in between, or
   everything when the retrieval fails, is missing for `getData`.
2. With more than one handler thread (four by default) a correction may be
   without effect. One thread has taken the observation from the queue, another
   one the correction; the correction is stored in the proxy first, then the
   observation over it. Both aggregate the older version, which stays in the
   proxy and in the aggregate. This is the shortest trace, with two versions of
   one observation. There is another way, which TLC shows with `MaxVersion = 1`,
   when nothing is corrected: of two threads with two observations the one that
   read the proxy before the other observation was there sends last, and the
   aggregate in kvalobs lacks that observation.
3. A late echo of our own aggregate replaces a newer one in the proxy; a
   correction that is taken back is then not sent.
4. `WorkLoop::stop` never calls `onStop`; the runner thread outlives the
   objects it works on.
5. `BackProduction`'s `parseTime` throws a pointer to an exception, which
   nobody catches: a period whose first time cannot be read terminates the
   program, with its pid file in place.
6. `ra2rr_12_forward` never sees the third level of the gauge: a level that
   comes late or is corrected recalculates the half day after it from two
   levels, with another result than in order.

Seen while modelling, without a run:

- The help of `--proxy-database-name` says "If the file does not exist, it
  will be created" (`configuration/AggregatorConfiguration.cpp:55`);
  `proxy/ProxyDatabaseConnection.cpp:52` throws "no such file", as nobody asks
  it to create one. `Connectable` is what the code does.
- The means of a station that observes at 07, 13 and 19
  (`../test/ta_24Test.cc:179`, `../test/uu_24Test.cc:152` expect a value) are not
  computed when the observations come in time: until 20:30 the period that
  ends at 23 is refused (`aggregator/StandardAggregator.cc:107`). The station
  "seven" of `handler` is such a one.
- `AggregatorHandler.cc:134` says that the trigger is updated in the list of
  observations; it is only added when it is not there. For observations the
  store has the same version; for aggregates what kvalobs sends back mends it,
  which `RainFollows` checks.
- `KoppenBasedMeanValueAggregator.cc:66` takes the first of a list that may be
  empty, and the date of the first of a list in no order: for `uu_24` an
  observation of the evening before, between 23 and 24, decides by its place
  whether there is a mean.
- The program may hang when it is told to stop: `IncomingHandler::stopThreads`
  (`proxy/IncomingHandler.cc:143-156`) sets the flag and notifies without the
  mutex, and a thread between its test and its wait sleeps through both, so
  that it is joined for ever. `OnlyMissedSleep` and `StopReturnsUnlessMissed`
  show that this is the only way, for the pool; `ShutdownEnds` and
  `MessagesHandedOn` except it (`JoinHangs`) for the program.
- The cleaner's first time is computed with `seconds()`, the seconds field of
  a duration (`proxy/KvalobsProxy.cc:83`).
- Back production includes the hour that begins at the end of the period; it
  is not interrupted by a shutdown, as `mainLoop_.stopping()` cannot become
  true before it has been joined. Its number of hours is read as unsigned, so
  that a negative one is accepted and becomes a very large one.

## Proofs

All theorems hold for every value of the constants that the named assumptions
allow (finite sets of threads, natural numbers as bounds, any set of stations).

`ReadWriteLockProofs`: type correctness; `count_` and `writer_` agree with who
is inside, by which `count_` never falls below zero; exclusion, for which the
inductive invariant adds that at most one thread writes and none reads then;
no lost wakeup, for which the counters must be truthful first (the last reader
notifies because `count_` is zero only then); and step by step the refinement
of `AbstractRWLock`.

`IncomingHandlerProofs`: type correctness; each message in one place, where the
invariant ties `data[w]` to the worker's state; nobody left after a stop;
order of fresh messages, from the order of arrival and the emptiness of `tries`
for messages behind; no sleep over work, by counting the workers on their way
against the queue; and that only a worker that was committed when `notify_all`
ran sleeps through a stop.

`KvalobsProxyProofs`: type correctness; coverage, from the order of the start
(the subscription comes last, and only `--repopulate` has steps in between),
from the boundary being ahead of everything there can be when the subscription
begins, and from the cleaner's limit never passing it; by the same invariant,
that only rows behind the boundary are deleted. On top of these, request by
request: what the two parts hold at each stage gives complete reads and one
version of each observation, as the boundary stays while somebody reads. That
a request gets nothing outside its times needs `ParityAssumption`: the clock,
read in microseconds, never hits the full minute of an observation.
`TimesAssumption` says no more of the spans than that they are natural numbers,
so nothing depends on `Lead` being larger than `ClearLead` or on `Keep`. What
is assumed of the world is in `Tick`: the program subscribes within `Lead` of
its start.

`DaemonProofs`: type correctness, which needs that a message is in one place
(`Bounded`: queue, runner's hand and handler together are no more than the
events); nobody left, from one conjunct for each thread and resource that says
at which points of main it can exist (`Control`), so that every way out, by an
exception or in order, passes its end; the whole period, from the hours before
`f` being done (`HoursDone`). `DaemonAssumption` wants command lines whose
switches are known and whose periods are numbers.

`AggregationPipelineProofs`: type correctness; that nothing is sent twice, as
the holder of `sendDataMutex_` has compared with what kvalobs still has
(`Mutex`, `NoEchoes`); and for one thread that proxy and aggregate follow:
the last message in the queue about each observation, or the thread's hands,
or else the proxy, has the version in kvalobs (`ObsFollow`, `AggFollow`), and
what has been computed is of what the proxy has (`Computes`). The lemmas about
queues say what is the last message of a kind after each operation.

`AggregatorHandlerProofs`, for every set of stations, and whatever
`UseFlags`, `ComputePo` and the sums yield. That observations are untouched:
everything computed has a negative type, and a message that is processed again
is stored as it was (`AllProper`, `Cached`). That the calls end: inside each
other they are for parameters of rising rank (`WritesAbove`: each aggregator
writes a parameter further from being observed than those it reads, but po,
which also reads the pressure reported in the parameter it writes), and po
makes nothing of what was computed, because no pressure ever is. That there
is one source of rain: the decision for one of the two is the opposite of the
other's, and the store stays as it is while a message is processed
(`Decided`). The assumption: the types of observations are positive, those of
what is stored are not zero, and pressure is not among the stored aggregates.

`AggregationProofs`, about one call of an aggregator: for every aggregator and
every time, the trigger lies in the period that is read for it, the shifted one
of `ra2rr_12_forward` included; rain made of levels is never negative, and a
third level never makes it more than two do; rounding goes to a nearest tenth;
what is made of any set of observations is data again; and an extreme or a mean
lies between the lowest and the highest value it was made of, Koppen's formulas
and the rounding included. Sums over a set are not computed by induction over
the set, but taken for what their defining equation says: a set that has a sum
not between so many times its bounds would have a part with one element less
and the same fault, and among the sizes of such sets there is a smallest.

`AggregatorHandlerDataProofs`, for every set of stations and messages. Types,
and that the store has one datum of each key: `Put` replaces, a message and an
echo have one datum of each key (`Typed`). That extremes and means are among
what is stored, at every moment: what waits in `out` was made from `rows`,
which stay while a message is processed, and their triggers are data of the
message, which are stored.

Then, in the same module, that aggregates follow what they are computed from.
Both theorems rest on one invariant about what comes back from kvalobs,
`Echoing`: of the parameters that are computed from observations only (`Firm`),
an echo says what is stored already (`Echoed`), because it was saved for a
message of a station (`Observing`), and none of those is processed while an
echo waits (`Alone`). On this stand two invariants of the same form, which say
what is true *while* there is work. What waits in `out` is right (`OutRight`,
`PoOutRight`); and what is stored is right, or a datum of the message will
still trigger it - it is in `data`, or in a call on the stack that has not come
to that aggregator yet - or it has, and what it made waits in `out`
(`Coming`, `Covered`, `PoCovered`).

`AggregatesFollow` (`Following`): the observations of a period part the time,
so that whatever is stored of a period makes the same aggregate, and a whole
period is not refused for being early (`Past`). The core is that what the code
computes from what it reads, with the trigger, in its own order of tests, is
what `Expected` says of the store. `PoFollows` (`PoFollowing`): beside the right
aggregate there is a second way of being well, `Reported`: no aggregate is
stored and a report within three tenths is. It ends only with a message that
has a datum of the pair or a report, which then is coming; nothing that is
saved or sent back can end it, unless a datum of the message asked for it, and
then it is replaced by what is right. If po makes nothing of a pair, that is how
it stands (`PoNotNeeded`).

`GaugeFollows` (`GaugeFollowing`): two aggregators, ra2rr_12 backwards and
forwards in time, make the rain of half a day from up to three levels; which of
them does, and from what, depends on the level that came last. The lemma
`GaugeMakes` says that each, given the two levels half a day apart and whatever
else is stored of its span, makes their difference; `GaugeFinds`, that it reads
far enough. The invariant has the same form as the others (`GaugeOutRight`,
`GaugeCovered`), with one about the echoes: the rain of a half day that kvalobs
sends back is what is stored (`GaugeEchoing`).

`RainFollows` (`RainInvariant`), in two layers. The rain of half a day is made of
hours that were observed, and its invariant has the form of the others
(`HoursFollowing`), away from the levels of a gauge, which would write the same
key. The rain of a day is made of two half days, and a day computed from an
older half day is sent in the same message as the new half day, whose echo
makes the right one; the echo of the old one may come after that, and is then
stored over it. So the invariant is about the queue (`DayFollowing`). Of two half
days that are stored one of three things is true: the right day is stored, and
no wrong one waits in the queue (`DayStored`); a right one waits, behind all that
are wrong (`DayWaits`); or none is right, stored or waiting, and a half day waits
or is being processed that will trigger the computation (`DayComing`). The last
must say that none is right: a day that equals what is stored is not sent
again, so a right one that is stored, with a wrong one in the queue, would not
be repaired. It does not come to that, because a half day is saved for a message
of a station only, when nothing waits (`RainEchoing`, `Alone`): in this module the
echoes come before the next message; late ones are the subject of
`AggregationPipeline`. At the end, that
the day is the rain of its 24 hours and not only of two numbers is `DayOfHalves`
(its hours are those of two half days) with `RainOfRain` of `AggregationProofs`:
the sum of two sums of rain is the sum, missing values and the -10 of no rain
included.

Hypotheses, beside the assumptions named in the modules. `PoYieldsFractions`:
the formula of the sea level pressure yields a number. `KoppenFraction`, for
`InRange`: Koppen's factor of a station lies between 0 and 1, being a weight;
with another one the mean would lie outside.
`NeverEmptied`, for `GaugeFollows`: no level that the station may send lies below
one half a day before. A level below the one before (the gauge was emptied, or
the value is wrong) makes no rain; and then what is made of three levels depends
on the first of them, a correction of which computes the half day after it only.
The station "gauge" of `handler` satisfies it.
`GaugeSettled`: at the start the rain of half days follows the levels.
`HoursOnly`, for `RainFollows`: the station sends rain of hours, not of half days
or of fractions of hours, from which the same keys would be written; and
`RainSettled`: at the start half days and days follow the hours. All stations of
`handler` that send rain of hours satisfy both; "cascade" sends rain of ten
minutes, so that there `RainFollows` is only model-checked.
`Settled`, for `AggregatesFollow`: at the start what is stored is not of the
future, and aggregates of whole periods are right; nothing recomputes them if
no message comes, so this is what the program relies on. `PoFollowsHolds`
likewise supposes `PoFollows` at the start, and `HeightForAll`: the station
metadata of the height name no parameter. po looks the height up for the
parameter of whichever datum triggers it, so that of two heights for two
parameters the last trigger would decide. `UseFlagsAssumption`:
the use information is a number.

Only model-checked: liveness (fairness and `ENABLED` are out of the prover's
reach), and of the safety properties what lies outside the hypotheses above:
`GaugeFollows` for a gauge that is emptied, and `RainFollows` for hours that are
themselves computed.

## Not modelled

- Metrics and logging: output only.
- The SQL driver, kvcpp and CORBA: external. A statement is atomic; an
  insertion that fails for another reason than a duplicate is left out.
- Floating point beyond tenths, the formula `po::computePo` and its second
  method, which only tests call; Koppen's factor by month is one factor.
- `KvalobsProxy::setOldestInProxy`, which only tests call, and the hour at
  which the cleaner wakes up: it may at any time.
- Exceptions in the runner thread, which only a failing mutex or lack of
  memory could cause.
- Sensors, levels and stations beside each other: every request names one, so
  they never meet.

## Plan

Done: everything above; each invariant and action property that a passing run
checks is a theorem. What is left: several threads over whole aggregates
(`AggregationPipeline` has one aggregate of two observations,
`AggregatorHandler` one thread); and `RainFollows` without `HoursOnly`, for which
the hours would need the invariant about the queue that days have.
