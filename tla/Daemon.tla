-------------------------------- MODULE Daemon --------------------------------
(***************************************************************************)
(* The program from its command line to its end: main.cc, WorkLoop.{h,cpp},*)
(* AggregatorRunner.{h,cpp} and BackProduction.{h,cc}.                     *)
(*                                                                         *)
(* The main thread opens the log, the pid file and the data access, starts *)
(* back production and the runner, hands itself to KvApp::run, and when    *)
(* that returns waits for back production and destroys what it has made,   *)
(* the latest first, as it does when something throws on the way.  The     *)
(* runner thread takes messages from the command queue to the              *)
(* IncomingHandler, whose own threads are the subject of IncomingHandler:  *)
(* here they are one thread, of which only the wait for messages and the   *)
(* end are kept.  That is enough for the one notification that thread may  *)
(* miss, the last, after which the join in the destructor has no end.      *)
(*                                                                         *)
(* Times count in half hours, so that an hour of back production holds an  *)
(* observation of the full hour and one within the hour.                   *)
(***************************************************************************)
EXTENDS Configuration, FiniteSets

CONSTANTS
  CommandLines,  \* what the program may be started with
  Now,           \* the time at which it is started
  ObsTimes,      \* the times kvalobs has observations of
  MaxEvents,     \* bound: messages from kvalobs
  MaxFailures,   \* bound: retrievals of back production that fail
  MaxThrows      \* bound: exceptions from what back production calls

ASSUME DaemonAssumption ==
  /\ \A line \in CommandLines :
       line.given \subseteq Switches /\ line.period.from \subseteq Int /\ line.period.to \in Int
  /\ Now \in Nat
  /\ ObsTimes \subseteq Nat
  /\ MaxEvents \in Nat /\ MaxFailures \in Nat /\ MaxThrows \in Nat

VARIABLES
  commandLine, \* never changes
  shutdown,    \* KvApp::shutdown()
  main,        \* where the main thread is
  result,      \* what main returns, 2 before it does
  pidFile,     \* who wrote the pid file: "nobody", "another", "us"
  dataAccess,  \* "none", "proxy", or "direct" to kvalobs
  cleaner,     \* where the thread of KvalobsProxy::Cleaner is
  cleanerStop, \* Cleaner::SharedData::stop_
  thread,      \* WorkLoop::thread: the runner thread has been created
  runner,      \* where the runner thread is
  shutdown_,   \* WorkLoop::shutdown_
  que,         \* messages in AggregatorRunner::queue
  incoming,    \* messages given to incomingHandler
  handler,     \* AggregatorRunner::incomingHandler
  worker,      \* where the thread of incomingHandler is
  back,        \* where back production is
  period,      \* BackProduction::from_ and to_
  f,           \* the hour back production is at
  sent,        \* times whose observations back production has aggregated
  skipped,     \* history: hours passed over because their retrieval failed
  events, failures, throws

outerVars  == <<commandLine, result, pidFile, dataAccess, cleaner, cleanerStop>>
mainVars   == <<main, thread, outerVars>>
runnerVars == <<runner, que, incoming>>
handlerVars == <<handler, worker>>
backVars   == <<back, period, f, sent, skipped, failures, throws>>
vars == <<shutdown, mainVars, runnerVars, shutdown_, handlerVars, backVars, events>>

Beginning == {"init", "log", "pid", "app", "data"}
Subscribed == {"subscribed", "starting", "running", "waiting"}
MainStates == Beginning \cup {"runner", "destroying", "handlerStopping", "handlerJoining", "handlerGone", "stop", "joining",
                "returned", "cleanerJoining", "dataGone", "done", "aborted"} \cup Subscribed
RunnerStates == {"none", "looking", "getting", "dispatching", "exited"}
(* "missed": asleep, and the notification that should wake it came before.  *)
HandlerStates == {"none", "running", "cleared", "stopping", "destroyed"}
WorkerStates == {"none", "looking", "committed", "asleep", "missed", "exited"}
BackStates == {"none", "looking", "fetching", "sending", "exited"}
CleanerStates == {"none", "waiting", "cleaning", "exited"}
Ended == {"done", "aborted"}

(* wdh.addStation(s, time, time + 1 hour - 1 second)                        *)
HourOf(t) == {s \in ObsTimes : t <= s /\ s < t + 2}

Init ==
  /\ commandLine \in CommandLines
  /\ shutdown = FALSE
  /\ main = "init" /\ thread = FALSE /\ result = 2
  /\ pidFile \in {"nobody", "another"}
  /\ dataAccess = "none" /\ cleaner = "none" /\ cleanerStop = FALSE
  /\ runner = "none" /\ shutdown_ = FALSE
  /\ que = 0 /\ incoming = 0
  /\ handler = "none" /\ worker = "none"
  /\ back = "none" /\ period = <<0, 0>> /\ f = 0 /\ sent = {} /\ skipped = {}
  /\ events = 0 /\ failures = 0 /\ throws = 0
-----------------------------------------------------------------------------
(* A signal to KvApp, or the end of the CORBA loop.                         *)
AppShutdown ==
  /\ ~shutdown
  /\ main \notin {"init", "log", "pid", "app"} \cup Ended
  /\ shutdown' = TRUE
  /\ UNCHANGED <<mainVars, runnerVars, shutdown_, handlerVars, backVars, events>>

(* kvalobs sends new data, into the queue the constructor of AggregatorRunner *)
(* subscribed with.  Assumption: none comes once the queue is being destroyed.*)
Event ==
  /\ main \in Subscribed
  /\ events < MaxEvents
  /\ events' = events + 1
  /\ que' = que + 1
  /\ UNCHANGED <<shutdown, mainVars, runner, incoming, shutdown_, handlerVars, backVars>>
-----------------------------------------------------------------------------
(***************************************************************************)
(* The main thread, up to runAgregator and after it.                       *)
(***************************************************************************)
Elsewhere == <<shutdown, thread, runnerVars, shutdown_, backVars, events>>

Go(from, to) == main = from /\ main' = to

Parse ==
  /\ main = "init"
  /\ IF parse(commandLine) = "No_Action"
     THEN main' = "log" /\ UNCHANGED result
     ELSE main' = "done" /\ result' = ExitCode(parse(commandLine))
  /\ UNCHANGED <<Elsewhere, commandLine, pidFile, dataAccess, cleaner, cleanerStop, handlerVars>>

(* createLog, which throws if the directory cannot be made or is a file.    *)
CreateLog ==
  /\ \/ Go("log", "pid") /\ UNCHANGED result
     \/ ~logToStdOut(commandLine) /\ Go("log", "done") /\ result' = 1
  /\ UNCHANGED <<Elsewhere, commandLine, pidFile, dataAccess, cleaner, cleanerStop, handlerVars>>

(* setupPidFile throws if there is a pid file of a running program, or one  *)
(* that cannot be read.                                                     *)
SetupPidFile ==
  /\ \/ /\ ~runInDaemonMode(commandLine)
        /\ Go("pid", "app") /\ UNCHANGED <<pidFile, result>>
     \/ /\ runInDaemonMode(commandLine) /\ pidFile = "nobody"
        /\ Go("pid", "app") /\ pidFile' = "us" /\ UNCHANGED result
     \/ /\ runInDaemonMode(commandLine) /\ pidFile = "another"
        /\ Go("pid", "done") /\ result' = 1 /\ UNCHANGED pidFile
  /\ UNCHANGED <<Elsewhere, commandLine, dataAccess, cleaner, cleanerStop, handlerVars>>

CreateApp ==
  /\ \/ Go("app", "data") /\ UNCHANGED result
     \/ Go("app", "dataGone") /\ result' = 1
  /\ UNCHANGED <<Elsewhere, commandLine, pidFile, dataAccess, cleaner, cleanerStop, handlerVars>>

(* The connection to the proxy database: a file that is not there is not    *)
(* made, whatever the help of --proxy-database-name says.                   *)
Connectable(database) == database \in {"memory", "file"}

(* It may be refused nevertheless.  The cleaner starts last in the          *)
(* constructor of KvalobsProxy.  Access to kvalobs itself takes nothing.    *)
(* The aggregators are made thereafter.                                     *)
OpenDataAccess ==
  /\ \/ /\ runInDaemonMode(commandLine) /\ Connectable(proxyDatabaseName(commandLine))
        /\ Go("data", "runner") /\ dataAccess' = "proxy" /\ cleaner' = "waiting"
        /\ UNCHANGED result
     \/ /\ runInDaemonMode(commandLine)
        /\ Go("data", "dataGone") /\ result' = 1 /\ UNCHANGED <<dataAccess, cleaner>>
     \/ /\ ~runInDaemonMode(commandLine)
        /\ Go("data", "runner") /\ dataAccess' = "direct" /\ UNCHANGED <<cleaner, result>>
  /\ UNCHANGED <<Elsewhere, commandLine, pidFile, cleanerStop, handlerVars>>

(* AggregatorRunner's constructor starts the thread of incomingHandler and  *)
(* subscribes.                                                              *)
CreateRunner ==
  /\ Go("runner", "subscribed")
  /\ handler' = "running" /\ worker' = "looking"
  /\ UNCHANGED <<Elsewhere, outerVars>>

(* ~KvalobsProxy: stop the cleaner, and join it.                            *)
CloseDataAccess ==
  /\ Go("returned", IF dataAccess = "proxy" THEN "cleanerJoining" ELSE "dataGone")
  /\ cleanerStop' = TRUE
  /\ UNCHANGED <<Elsewhere, commandLine, result, pidFile, dataAccess, cleaner, handlerVars>>

CleanerJoined ==
  /\ Go("cleanerJoining", "dataGone") /\ cleaner = "exited"
  /\ dataAccess' = "none"
  /\ UNCHANGED <<Elsewhere, commandLine, result, pidFile, cleaner, cleanerStop, handlerVars>>

(* ~PidFileHelper removes what it made, and main returns.                   *)
RemovePidFile ==
  /\ Go("dataGone", "done")
  /\ pidFile' = IF pidFile = "us" THEN "nobody" ELSE pidFile
  /\ result' = IF result = 2 THEN 0 ELSE result
  /\ UNCHANGED <<Elsewhere, commandLine, dataAccess, cleaner, cleanerStop, handlerVars>>
-----------------------------------------------------------------------------
(* The thread of KvalobsProxy::Cleaner: the wait ends at its time or when   *)
(* it is notified.                                                          *)
Cleaner ==
  /\ main \notin Ended
  /\ \/ cleaner = "waiting" /\ cleanerStop /\ cleaner' = "exited"
     \/ cleaner = "waiting" /\ ~cleanerStop /\ cleaner' = "cleaning"
     \/ cleaner = "cleaning" /\ cleaner' = "waiting"
  /\ UNCHANGED <<Elsewhere, main, commandLine, result, pidFile, dataAccess, cleanerStop, handlerVars>>
-----------------------------------------------------------------------------
(***************************************************************************)
(* The main thread in runAgregator.                                        *)
(***************************************************************************)
(* The period of back production: the one given, or the last three hours.   *)
BackPeriods ==
  IF backProduction(commandLine) THEN Periods(commandLine.period) ELSE {LastThreeHours(Now)}

(* boost::thread t(back), or back() in the main thread, which is then       *)
(* waiting for it.                                                          *)
StartBack ==
  /\ Go("subscribed", IF runInDaemonMode(commandLine) THEN "starting" ELSE "waiting")
  /\ period' \in BackPeriods
  /\ f' = period'[1] /\ back' = "looking"
  /\ UNCHANGED <<shutdown, thread, outerVars, runnerVars, shutdown_, handlerVars, sent, skipped,
                 failures, throws, events>>

(* The constructor of BackProduction throws what main catches ...           *)
InvalidPeriod ==
  /\ BackPeriods = {} /\ ~ThrowsPointer(commandLine.period)
  /\ Go("subscribed", "destroying")
  /\ result' = 1
  /\ UNCHANGED <<Elsewhere, commandLine, pidFile, dataAccess, cleaner, cleanerStop, handlerVars>>

(* ... or what nobody catches: the process is terminated as it is.          *)
Terminate ==
  /\ BackPeriods = {} /\ ThrowsPointer(commandLine.period)
  /\ Go("subscribed", "aborted")
  /\ UNCHANGED <<Elsewhere, outerVars, handlerVars>>

(* runner.start_thread(), then KvApp::run                                   *)
StartRunner ==
  /\ main = "starting"
  /\ runner' = "looking" /\ thread' = TRUE
  /\ main' = "running"
  /\ UNCHANGED <<shutdown, outerVars, que, incoming, shutdown_, handlerVars, backVars, events>>

RunReturns ==
  /\ main = "running" /\ shutdown
  /\ main' = "waiting"
  /\ UNCHANGED <<shutdown, thread, outerVars, runnerVars, shutdown_, handlerVars, backVars, events>>

(* t.join()                                                                 *)
BackJoined ==
  /\ main = "waiting" /\ back = "exited"
  /\ main' = "destroying"
  /\ UNCHANGED <<shutdown, thread, outerVars, runnerVars, shutdown_, handlerVars, backVars, events>>

(* The thread of incomingHandler that has decided to wait holds its mutex   *)
(* until it does.                                                           *)
MutexFree == worker # "committed"

(* A sleeping thread is notified; nothing happens when none sleeps.         *)
Notify == worker' = IF worker \in {"asleep", "missed"} THEN "looking" ELSE worker

(* ~AggregatorRunner does nothing, so its members go first: incomingHandler *)
(* empties its queue ...                                                    *)
HandlerCleared ==
  /\ main = "destroying"
  /\ MutexFree
  /\ incoming' = 0
  /\ handler' = "cleared"
  /\ main' = "handlerStopping"
  /\ UNCHANGED <<shutdown, thread, outerVars, runner, que, shutdown_, worker, backVars, events>>

(* Mutant: stopThreads() does not notify.                                   *)
HandlerStoppedUntold ==
  /\ main = "handlerStopping"
  /\ handler' = "stopping"
  /\ main' = "handlerJoining"
  /\ UNCHANGED <<shutdown, thread, outerVars, runnerVars, shutdown_, worker, backVars, events>>

(* ... tells its thread to stop and notifies it, both without the mutex, so *)
(* also while the thread is about to wait ...                               *)
HandlerStopped ==
  /\ main = "handlerStopping"
  /\ handler' = "stopping"
  /\ Notify
  /\ main' = "handlerJoining"
  /\ UNCHANGED <<shutdown, thread, outerVars, runnerVars, shutdown_, backVars, events>>

(* ... joins it, which takes for ever if it missed the notification ...     *)
HandlerGone ==
  /\ main = "handlerJoining" /\ worker = "exited"
  /\ handler' = "destroyed"
  /\ main' = "handlerGone"
  /\ UNCHANGED <<shutdown, thread, outerVars, runnerVars, shutdown_, worker, backVars, events>>

(* ... then the command queue ...                                           *)
QueueGone ==
  /\ main = "handlerGone"
  /\ que' = 0
  /\ main' = "stop"
  /\ UNCHANGED <<shutdown, thread, outerVars, runner, incoming, shutdown_, handlerVars, backVars, events>>

(* Mutant: stop() does not join.                                            *)
StopUnjoined ==
  /\ main = "stop"
  /\ shutdown_' = TRUE
  /\ main' = "returned"
  /\ UNCHANGED <<shutdown, thread, outerVars, runnerVars, handlerVars, backVars, events>>

(* ... and at last ~WorkLoop calls stop(), which joins a thread if any.     *)
Stop ==
  /\ main = "stop"
  /\ shutdown_' = TRUE
  /\ main' = IF thread THEN "joining" ELSE "returned"
  /\ UNCHANGED <<shutdown, thread, outerVars, runnerVars, handlerVars, backVars, events>>

RunnerJoined ==
  /\ main = "joining" /\ runner = "exited"
  /\ main' = "returned" /\ thread' = FALSE
  /\ UNCHANGED <<shutdown, outerVars, runnerVars, shutdown_, handlerVars, backVars, events>>
-----------------------------------------------------------------------------
(***************************************************************************)
(* The runner thread: AggregatorRunner::run and processData.               *)
(***************************************************************************)
RunnerLooks ==
  /\ runner = "looking"
  /\ runner' = IF shutdown_ THEN "exited" ELSE "getting"
  /\ UNCHANGED <<shutdown, mainVars, que, incoming, shutdown_, handlerVars, backVars, events>>

(* Mutant: the thread ends when no message has come.                        *)
GetOrEnd ==
  /\ runner = "getting"
  /\ \/ que > 0 /\ que' = que - 1 /\ runner' = "dispatching"
     \/ que = 0 /\ runner' = "exited" /\ UNCHANGED que
  /\ UNCHANGED <<shutdown, mainVars, incoming, shutdown_, handlerVars, backVars, events>>

(* Mutant: a message is taken although there may be none.                   *)
GetUnchecked ==
  /\ runner = "getting"
  /\ que' = que - 1 /\ runner' = "dispatching"
  /\ UNCHANGED <<shutdown, mainVars, incoming, shutdown_, handlerVars, backVars, events>>

(* queue.get(1): a message, or none after a second.                         *)
Get ==
  /\ runner = "getting"
  /\ \/ que > 0 /\ que' = que - 1 /\ runner' = "dispatching"
     \/ que = 0 /\ runner' = "looking" /\ UNCHANGED que
  /\ UNCHANGED <<shutdown, mainVars, incoming, shutdown_, handlerVars, backVars, events>>

(* data->dispatchEvent(incomingHandler): onKvDataEvent                      *)
Dispatch ==
  /\ runner = "dispatching"
  /\ MutexFree
  /\ incoming' = incoming + 1
  /\ Notify
  /\ runner' = "looking"
  /\ UNCHANGED <<shutdown, mainVars, que, shutdown_, handler, backVars, events>>

(* The thread of incomingHandler works a message off, waits for one, or     *)
(* ends.  A spurious wakeup, which could only end a wait, and messages that *)
(* throw are left to IncomingHandler.                                       *)
HandlerWorks ==
  /\ main \notin Ended
  /\ \/ /\ worker = "looking" /\ handler # "stopping" /\ incoming > 0
        /\ incoming' = incoming - 1 /\ UNCHANGED worker
     \/ /\ worker = "looking" /\ handler # "stopping" /\ incoming = 0
        /\ worker' = "committed" /\ UNCHANGED incoming
     \/ /\ worker = "committed"
        /\ worker' = IF handler = "stopping" THEN "missed" ELSE "asleep"
        /\ UNCHANGED incoming
     \/ /\ worker = "looking" /\ handler = "stopping"
        /\ worker' = "exited" /\ UNCHANGED incoming
  /\ UNCHANGED <<shutdown, mainVars, runner, que, shutdown_, handler, backVars, events>>
-----------------------------------------------------------------------------
(***************************************************************************)
(* Back production.                                                        *)
(***************************************************************************)
BackLooks ==
  /\ back = "looking"
  /\ back' = IF ~shutdown_ /\ f <= period[2] THEN "fetching" ELSE "exited"
  /\ UNCHANGED <<shutdown, mainVars, runnerVars, shutdown_, handlerVars, period, f, sent, skipped, failures,
                 throws, events>>

NextHour == f' = f + 2 /\ back' = "looking"

(* processData returns when getKvData fails or has nothing, and the loop    *)
(* goes on to the next hour in both cases.                                  *)
Fetch ==
  /\ back = "fetching"
  /\ \/ HourOf(f) # {} /\ back' = "sending" /\ UNCHANGED <<f, skipped, failures>>
     \/ HourOf(f) = {} /\ NextHour /\ UNCHANGED <<skipped, failures>>
     \/ /\ failures < MaxFailures /\ failures' = failures + 1
        /\ skipped' = skipped \cup {f}
        /\ NextHour
  /\ UNCHANGED <<shutdown, mainVars, runnerVars, shutdown_, handlerVars, period, sent, throws, events>>

(* callbacks_.send(dataList): AggregatorHandler::newData, which aggregates  *)
(* and saves nothing any more when the program is shutting down.            *)
Send ==
  /\ back = "sending"
  /\ sent' = IF shutdown THEN sent ELSE sent \cup HourOf(f)
  /\ NextHour
  /\ UNCHANGED <<shutdown, mainVars, runnerVars, shutdown_, handlerVars, period, skipped, failures, throws, events>>

(* Mutant: the hour that failed is passed over.                             *)
HourThrowsOn ==
  /\ back \in {"fetching", "sending"}
  /\ throws < MaxThrows /\ throws' = throws + 1
  /\ NextHour
  /\ UNCHANGED <<shutdown, mainVars, runnerVars, shutdown_, handlerVars, period, sent, skipped, failures, events>>

(* getKvData or the callbacks throw: logged, and the same hour again.       *)
HourThrows ==
  /\ back \in {"fetching", "sending"}
  /\ throws < MaxThrows /\ throws' = throws + 1
  /\ back' = "looking"
  /\ UNCHANGED <<shutdown, mainVars, runnerVars, shutdown_, handlerVars, period, f, sent, skipped, failures, events>>
-----------------------------------------------------------------------------
Main ==
  \/ Parse \/ CreateLog \/ SetupPidFile \/ CreateApp \/ OpenDataAccess \/ CreateRunner
  \/ StartBack \/ InvalidPeriod \/ Terminate
  \/ StartRunner \/ RunReturns \/ BackJoined
  \/ HandlerCleared \/ HandlerStopped \/ HandlerGone \/ QueueGone \/ Stop \/ RunnerJoined
  \/ CloseDataAccess \/ CleanerJoined \/ RemovePidFile

Runner == RunnerLooks \/ Get \/ Dispatch
Back == BackLooks \/ Fetch \/ Send \/ HourThrows

Next == AppShutdown \/ Event \/ Main \/ Cleaner \/ Runner \/ HandlerWorks \/ Back

Spec == Init /\ [][Next]_vars

(* Every thread that can go on is scheduled; whether the program is ever    *)
(* told to stop, and whether data arrives, is left open.                    *)
FairSpec ==
  Spec /\ WF_vars(Main) /\ WF_vars(Cleaner) /\ WF_vars(Runner) /\ WF_vars(HandlerWorks) /\ WF_vars(Back)
-----------------------------------------------------------------------------
TypeOK ==
  /\ commandLine \in CommandLines
  /\ shutdown \in BOOLEAN /\ shutdown_ \in BOOLEAN /\ thread \in BOOLEAN
  /\ main \in MainStates /\ runner \in RunnerStates /\ back \in BackStates
  /\ result \in 0..2 /\ pidFile \in {"nobody", "another", "us"}
  /\ dataAccess \in {"none", "proxy", "direct"}
  /\ cleaner \in CleanerStates /\ cleanerStop \in BOOLEAN
  /\ handler \in HandlerStates /\ worker \in WorkerStates
  /\ que \in 0..MaxEvents /\ incoming \in 0..MaxEvents
  /\ period \in Int \X Int /\ f \in Int /\ sent \subseteq ObsTimes /\ skipped \subseteq Int
  /\ events \in 0..MaxEvents /\ failures \in 0..MaxFailures /\ throws \in 0..MaxThrows

(* When main closes the data access no thread is left that uses it or the   *)
(* callbacks, and when it returns none at all, from wherever it went wrong; *)
(* its pid file is gone then, and another program's is not.                 *)
NobodyLeft ==
  /\ main \in {"returned", "cleanerJoining", "dataGone", "done"} =>
       runner \in {"none", "exited"} /\ back \in {"none", "exited"} /\ worker \in {"none", "exited"}
  /\ main = "done" => cleaner \in {"none", "exited"} /\ pidFile # "us"
  /\ dataAccess = "proxy" /\ runInDaemonMode(commandLine) => pidFile # "another"

(* Back production has been through its whole period when it ends in a      *)
(* program that goes on: of every hour the observations were aggregated,    *)
(* unless they could not be retrieved, whatever was thrown on the way.      *)
WholePeriod ==
  (back = "exited" /\ ~shutdown) =>
    \A h \in period[1]..period[2] :
      (h - period[1]) % 2 = 0 /\ h \notin skipped => HourOf(h) \subseteq sent

(* The notification of IncomingHandler::stopThreads came while its thread   *)
(* was about to wait, and no message comes any more to wake it: then the    *)
(* destructor waits for ever (IncomingHandler.cc:143-156).                  *)
JoinHangs == [](worker = "missed")

(* Every message that arrives is handed on, unless the program ends or      *)
(* hangs doing so.                                                          *)
MessagesHandedOn ==
  (que > 0 \/ incoming > 0) ~>
    (shutdown \/ main \in Ended \/ (que = 0 /\ incoming = 0) \/ JoinHangs)

(* A program that is told to stop ends, if it does not hang in the one      *)
(* known way.                                                               *)
ShutdownEnds == shutdown ~> (main \in Ended \/ JoinHangs)

(* The handler the runner dispatches to has not been stopped or destroyed:  *)
(* WorkLoop.h says that onStop, which stops it, is called by stop before    *)
(* the thread is stopped, and IncomingHandler.cc that it is not destroyed   *)
(* but when stopping.                                                       *)
DispatchToLiveHandler == runner = "dispatching" => handler # "destroyed"

(* The constructor of BackProduction throws std::logic_error, which main    *)
(* catches, if the period is invalid (BackProduction.h:32): the program is  *)
(* never terminated with its threads running and its pid file in place.     *)
NeverTerminated == main # "aborted"
=============================================================================
