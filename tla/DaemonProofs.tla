----------------------------- MODULE DaemonProofs -----------------------------
(***************************************************************************)
(* Proofs about Daemon, for any command lines, observation times and       *)
(* numbers of messages, failures and exceptions.                           *)
(***************************************************************************)
EXTENDS Daemon, TLAPS

-----------------------------------------------------------------------------
(* The inductive invariant.  What NobodyLeft says of the end is the sum of *)
(* what each thread and each thing made is known to be at every point of   *)
(* the main thread on the way there.                                       *)

After == {"returned", "cleanerJoining", "dataGone", "done"}
Ending == {"destroying", "handlerStopping", "handlerJoining", "handlerGone", "stop", "joining"} \cup After

HandlerControl ==
  /\ main \in Beginning \cup {"runner"} => worker = "none"
  /\ main \in {"handlerGone", "stop", "joining"} => worker = "exited"
  /\ main \in After => worker \in {"none", "exited"}

RunnerControl ==
  /\ ~thread => runner \in {"none", "exited"}
  /\ main \in Beginning \cup {"runner", "subscribed", "starting"} \cup After => ~thread

BackControl ==
  /\ main \in Beginning \cup {"runner", "subscribed"} => back = "none"
  /\ main \in Ending => back \in {"none", "exited"}
  /\ shutdown_ => main \in {"joining"} \cup After

DataControl ==
  /\ main \in Beginning => dataAccess = "none"
  /\ main \in {"dataGone", "done"} => dataAccess # "proxy"
  /\ dataAccess # "proxy" => cleaner \in {"none", "exited"}

PidControl ==
  /\ main \in {"init", "log", "pid", "done"} => pidFile # "us"
  /\ main \in {"app", "data"} /\ runInDaemonMode(commandLine) => pidFile = "us"
  /\ dataAccess = "proxy" /\ runInDaemonMode(commandLine) => pidFile # "another"

Control == HandlerControl /\ RunnerControl /\ BackControl /\ DataControl /\ PidControl

(* A message taken from the queue is in the hands of the runner until it   *)
(* is dispatched: nothing is counted twice.                                *)
InHand == IF runner = "dispatching" THEN 1 ELSE 0
Bounded == que + incoming + InHand <= events

(* The hours before f are done, unless skipped or shut down.               *)
HoursDone ==
  back # "none" =>
    /\ (f - period[1]) % 2 = 0
    /\ back = "exited" => f > period[2]
    /\ ~shutdown =>
         \A h \in Int : period[1] <= h /\ h < f /\ (h - period[1]) % 2 = 0 /\ h \notin skipped
                        => HourOf(h) \subseteq sent

Inv == TypeOK /\ Control /\ Bounded /\ HoursDone

-----------------------------------------------------------------------------
(* TypeOK in two parts: where everything is, and the data.                 *)

ControlTypes ==
  /\ main \in MainStates /\ runner \in RunnerStates /\ back \in BackStates
  /\ pidFile \in {"nobody", "another", "us"}
  /\ dataAccess \in {"none", "proxy", "direct"}
  /\ cleaner \in CleanerStates
  /\ handler \in HandlerStates /\ worker \in WorkerStates

Switched ==
  shutdown \in BOOLEAN /\ shutdown_ \in BOOLEAN /\ thread \in BOOLEAN /\ cleanerStop \in BOOLEAN

DataTypes ==
  /\ commandLine \in CommandLines
  /\ result \in 0..2
  /\ que \in 0..MaxEvents /\ incoming \in 0..MaxEvents
  /\ period \in Int \X Int /\ f \in Int /\ sent \subseteq ObsTimes /\ skipped \subseteq Int
  /\ events \in 0..MaxEvents /\ failures \in 0..MaxFailures /\ throws \in 0..MaxThrows

LEMMA TypeParts == TypeOK <=> ControlTypes /\ Switched /\ DataTypes
BY DEF TypeOK, ControlTypes, Switched, DataTypes

(* The periods there may be are pairs of integers.                         *)
LEMMA PeriodsAreTimes ==
  ASSUME commandLine \in CommandLines
  PROVE  BackPeriods \subseteq Int \X Int
<1>1. commandLine.period.from \subseteq Int /\ commandLine.period.to \in Int
  BY DaemonAssumption
<1>2. Periods(commandLine.period) \subseteq Int \X Int
  BY <1>1 DEF Periods
<1>3. LastThreeHours(Now) \in Int \X Int
  BY DaemonAssumption DEF LastThreeHours
<1> QED
  BY <1>2, <1>3 DEF BackPeriods

(* The exit code of a command line that ends the program.                  *)
LEMMA ExitCodeType == ASSUME NEW r PROVE ExitCode(r) \in 0..2
BY DEF ExitCode

-----------------------------------------------------------------------------
(* Every step keeps the types: where each thread is, ...                   *)
LEMMA ControlTypesStep ==
  ASSUME ControlTypes, Next
  PROVE  ControlTypes'
<1> USE DEF ControlTypes, MainStates, Beginning, Subscribed, RunnerStates, BackStates, CleanerStates,
            HandlerStates, WorkerStates, handlerVars, Notify
<1>1. CASE Parse
  BY <1>1 DEF Parse, Elsewhere, runnerVars, backVars
<1>2. CASE CreateLog
  BY <1>2 DEF CreateLog, Go, Elsewhere, runnerVars, backVars
<1>3. CASE SetupPidFile
  BY <1>3 DEF SetupPidFile, Go, Elsewhere, runnerVars, backVars
<1>4. CASE CreateApp
  BY <1>4 DEF CreateApp, Go, Elsewhere, runnerVars, backVars
<1>5. CASE OpenDataAccess
  BY <1>5 DEF OpenDataAccess, Go, Elsewhere, runnerVars, backVars
<1>6. CASE CreateRunner
  BY <1>6 DEF CreateRunner, Go, Elsewhere, outerVars, runnerVars, backVars
<1>7. CASE StartBack
  BY <1>7 DEF StartBack, Go, outerVars, runnerVars
<1>8. CASE InvalidPeriod
  BY <1>8 DEF InvalidPeriod, Go, Elsewhere, runnerVars, backVars
<1>9. CASE Terminate
  BY <1>9 DEF Terminate, Go, Elsewhere, outerVars, runnerVars, backVars
<1>10. CASE StartRunner
  BY <1>10 DEF StartRunner, outerVars, backVars
<1>11. CASE RunReturns
  BY <1>11 DEF RunReturns, outerVars, runnerVars, backVars
<1>12. CASE BackJoined
  BY <1>12 DEF BackJoined, outerVars, runnerVars, backVars
<1>13. CASE HandlerCleared
  BY <1>13 DEF HandlerCleared, outerVars, backVars
<1>14. CASE HandlerStopped
  BY <1>14 DEF HandlerStopped, outerVars, runnerVars, backVars
<1>15. CASE HandlerGone
  BY <1>15 DEF HandlerGone, outerVars, runnerVars, backVars
<1>16. CASE QueueGone
  BY <1>16 DEF QueueGone, outerVars, backVars
<1>17. CASE Stop
  BY <1>17 DEF Stop, outerVars, runnerVars, backVars
<1>18. CASE RunnerJoined
  BY <1>18 DEF RunnerJoined, outerVars, runnerVars, backVars
<1>19. CASE CloseDataAccess
  BY <1>19 DEF CloseDataAccess, Go, Elsewhere, runnerVars, backVars
<1>20. CASE CleanerJoined
  BY <1>20 DEF CleanerJoined, Go, Elsewhere, runnerVars, backVars
<1>21. CASE RemovePidFile
  BY <1>21 DEF RemovePidFile, Go, Elsewhere, runnerVars, backVars
<1>22. CASE AppShutdown
  BY <1>22 DEF AppShutdown, mainVars, runnerVars, backVars, outerVars
<1>23. CASE Event
  BY <1>23 DEF Event, mainVars, backVars, outerVars
<1>24. CASE Cleaner
  BY <1>24 DEF Cleaner, Elsewhere, runnerVars, backVars
<1>25. CASE RunnerLooks
  BY <1>25 DEF RunnerLooks, mainVars, backVars, outerVars
<1>26. CASE Get
  BY <1>26 DEF Get, mainVars, backVars, outerVars
<1>27. CASE Dispatch
  BY <1>27 DEF Dispatch, mainVars, backVars, outerVars
<1>28. CASE HandlerWorks
  BY <1>28 DEF HandlerWorks, mainVars, backVars, outerVars
<1>29. CASE BackLooks
  BY <1>29 DEF BackLooks, mainVars, runnerVars, outerVars
<1>30. CASE Fetch
  BY <1>30 DEF Fetch, mainVars, runnerVars, NextHour, outerVars
<1>31. CASE Send
  BY <1>31 DEF Send, mainVars, runnerVars, NextHour, outerVars
<1>32. CASE HourThrows
  BY <1>32 DEF HourThrows, mainVars, runnerVars, outerVars
<1> QED
  BY <1>1, <1>2, <1>3, <1>4, <1>5, <1>6, <1>7, <1>8, <1>9, <1>10, <1>11, <1>12, <1>13,
    <1>14, <1>15, <1>16, <1>17, <1>18, <1>19, <1>20, <1>21, <1>22, <1>23, <1>24, <1>25,
    <1>26, <1>27, <1>28, <1>29, <1>30, <1>31, <1>32
  DEF Next, Main, Runner, Back

(* ... and what is switched on and off.                                     *)
LEMMA SwitchedStep ==
  ASSUME Switched, Next
  PROVE  Switched'
<1> USE DEF Switched
<1>1. CASE Parse
  BY <1>1 DEF Parse, Elsewhere, runnerVars, backVars
<1>2. CASE CreateLog
  BY <1>2 DEF CreateLog, Go, Elsewhere, runnerVars, backVars
<1>3. CASE SetupPidFile
  BY <1>3 DEF SetupPidFile, Go, Elsewhere, runnerVars, backVars
<1>4. CASE CreateApp
  BY <1>4 DEF CreateApp, Go, Elsewhere, runnerVars, backVars
<1>5. CASE OpenDataAccess
  BY <1>5 DEF OpenDataAccess, Go, Elsewhere, runnerVars, backVars
<1>6. CASE CreateRunner
  BY <1>6 DEF CreateRunner, Go, Elsewhere, outerVars, runnerVars, backVars
<1>7. CASE StartBack
  BY <1>7 DEF StartBack, Go, outerVars, runnerVars
<1>8. CASE InvalidPeriod
  BY <1>8 DEF InvalidPeriod, Go, Elsewhere, runnerVars, backVars
<1>9. CASE Terminate
  BY <1>9 DEF Terminate, Go, Elsewhere, outerVars, runnerVars, backVars
<1>10. CASE StartRunner
  BY <1>10 DEF StartRunner, outerVars, backVars
<1>11. CASE RunReturns
  BY <1>11 DEF RunReturns, outerVars, runnerVars, backVars
<1>12. CASE BackJoined
  BY <1>12 DEF BackJoined, outerVars, runnerVars, backVars
<1>13. CASE HandlerCleared
  BY <1>13 DEF HandlerCleared, outerVars, backVars
<1>14. CASE HandlerStopped
  BY <1>14 DEF HandlerStopped, outerVars, runnerVars, backVars
<1>15. CASE HandlerGone
  BY <1>15 DEF HandlerGone, outerVars, runnerVars, backVars
<1>16. CASE QueueGone
  BY <1>16 DEF QueueGone, outerVars, backVars
<1>17. CASE Stop
  BY <1>17 DEF Stop, outerVars, runnerVars, backVars
<1>18. CASE RunnerJoined
  BY <1>18 DEF RunnerJoined, outerVars, runnerVars, backVars
<1>19. CASE CloseDataAccess
  BY <1>19 DEF CloseDataAccess, Go, Elsewhere, runnerVars, backVars
<1>20. CASE CleanerJoined
  BY <1>20 DEF CleanerJoined, Go, Elsewhere, runnerVars, backVars
<1>21. CASE RemovePidFile
  BY <1>21 DEF RemovePidFile, Go, Elsewhere, runnerVars, backVars
<1>22. CASE AppShutdown
  BY <1>22 DEF AppShutdown, mainVars, runnerVars, backVars, outerVars
<1>23. CASE Event
  BY <1>23 DEF Event, mainVars, backVars, outerVars
<1>24. CASE Cleaner
  BY <1>24 DEF Cleaner, Elsewhere, runnerVars, backVars
<1>25. CASE RunnerLooks
  BY <1>25 DEF RunnerLooks, mainVars, backVars, outerVars
<1>26. CASE Get
  BY <1>26 DEF Get, mainVars, backVars, outerVars
<1>27. CASE Dispatch
  BY <1>27 DEF Dispatch, mainVars, backVars, outerVars
<1>28. CASE HandlerWorks
  BY <1>28 DEF HandlerWorks, mainVars, backVars, outerVars
<1>29. CASE BackLooks
  BY <1>29 DEF BackLooks, mainVars, runnerVars, outerVars
<1>30. CASE Fetch
  BY <1>30 DEF Fetch, mainVars, runnerVars, NextHour, outerVars
<1>31. CASE Send
  BY <1>31 DEF Send, mainVars, runnerVars, NextHour, outerVars
<1>32. CASE HourThrows
  BY <1>32 DEF HourThrows, mainVars, runnerVars, outerVars
<1> QED
  BY <1>1, <1>2, <1>3, <1>4, <1>5, <1>6, <1>7, <1>8, <1>9, <1>10, <1>11, <1>12, <1>13,
    <1>14, <1>15, <1>16, <1>17, <1>18, <1>19, <1>20, <1>21, <1>22, <1>23, <1>24, <1>25,
    <1>26, <1>27, <1>28, <1>29, <1>30, <1>31, <1>32
  DEF Next, Main, Runner, Back

(* The handler is there from the runner's construction to its destruction. *)
LEMMA HandlerControlStep ==
  ASSUME HandlerControl, Next
  PROVE  HandlerControl'
<1> USE DEF HandlerControl, After, Beginning, Subscribed, handlerVars, Notify
<1>1. CASE Parse
  BY <1>1 DEF Parse, Elsewhere, runnerVars, backVars
<1>2. CASE CreateLog
  BY <1>2 DEF CreateLog, Go, Elsewhere, runnerVars, backVars
<1>3. CASE SetupPidFile
  BY <1>3 DEF SetupPidFile, Go, Elsewhere, runnerVars, backVars
<1>4. CASE CreateApp
  BY <1>4 DEF CreateApp, Go, Elsewhere, runnerVars, backVars
<1>5. CASE OpenDataAccess
  BY <1>5 DEF OpenDataAccess, Go, Elsewhere, runnerVars, backVars
<1>6. CASE CreateRunner
  BY <1>6 DEF CreateRunner, Go, Elsewhere, outerVars, runnerVars, backVars
<1>7. CASE StartBack
  BY <1>7 DEF StartBack, Go, outerVars, runnerVars
<1>8. CASE InvalidPeriod
  BY <1>8 DEF InvalidPeriod, Go, Elsewhere, runnerVars, backVars
<1>9. CASE Terminate
  BY <1>9 DEF Terminate, Go, Elsewhere, outerVars, runnerVars, backVars
<1>10. CASE StartRunner
  BY <1>10 DEF StartRunner, outerVars, backVars
<1>11. CASE RunReturns
  BY <1>11 DEF RunReturns, outerVars, runnerVars, backVars
<1>12. CASE BackJoined
  BY <1>12 DEF BackJoined, outerVars, runnerVars, backVars
<1>13. CASE HandlerCleared
  BY <1>13 DEF HandlerCleared, outerVars, backVars
<1>14. CASE HandlerStopped
  BY <1>14 DEF HandlerStopped, outerVars, runnerVars, backVars
<1>15. CASE HandlerGone
  BY <1>15 DEF HandlerGone, outerVars, runnerVars, backVars
<1>16. CASE QueueGone
  BY <1>16 DEF QueueGone, outerVars, backVars
<1>17. CASE Stop
  BY <1>17 DEF Stop, outerVars, runnerVars, backVars
<1>18. CASE RunnerJoined
  BY <1>18 DEF RunnerJoined, outerVars, runnerVars, backVars
<1>19. CASE CloseDataAccess
  BY <1>19 DEF CloseDataAccess, Go, Elsewhere, runnerVars, backVars
<1>20. CASE CleanerJoined
  BY <1>20 DEF CleanerJoined, Go, Elsewhere, runnerVars, backVars
<1>21. CASE RemovePidFile
  BY <1>21 DEF RemovePidFile, Go, Elsewhere, runnerVars, backVars
<1>22. CASE AppShutdown
  BY <1>22 DEF AppShutdown, mainVars, runnerVars, backVars, outerVars
<1>23. CASE Event
  BY <1>23 DEF Event, mainVars, backVars, outerVars
<1>24. CASE Cleaner
  BY <1>24 DEF Cleaner, Elsewhere, runnerVars, backVars
<1>25. CASE RunnerLooks
  BY <1>25 DEF RunnerLooks, mainVars, backVars, outerVars
<1>26. CASE Get
  BY <1>26 DEF Get, mainVars, backVars, outerVars
<1>27. CASE Dispatch
  BY <1>27 DEF Dispatch, mainVars, backVars, outerVars
<1>28. CASE HandlerWorks
  BY <1>28 DEF HandlerWorks, mainVars, backVars, outerVars
<1>29. CASE BackLooks
  BY <1>29 DEF BackLooks, mainVars, runnerVars, outerVars
<1>30. CASE Fetch
  BY <1>30 DEF Fetch, mainVars, runnerVars, NextHour, outerVars
<1>31. CASE Send
  BY <1>31 DEF Send, mainVars, runnerVars, NextHour, outerVars
<1>32. CASE HourThrows
  BY <1>32 DEF HourThrows, mainVars, runnerVars, outerVars
<1> QED
  BY <1>1, <1>2, <1>3, <1>4, <1>5, <1>6, <1>7, <1>8, <1>9, <1>10, <1>11, <1>12, <1>13,
    <1>14, <1>15, <1>16, <1>17, <1>18, <1>19, <1>20, <1>21, <1>22, <1>23, <1>24, <1>25,
    <1>26, <1>27, <1>28, <1>29, <1>30, <1>31, <1>32
  DEF Next, Main, Runner, Back

(* The runner thread is joined before main goes on to the end.             *)
LEMMA RunnerControlStep ==
  ASSUME RunnerControl, ControlTypes, Next
  PROVE  RunnerControl'
<1> USE DEF RunnerControl, ControlTypes, RunnerStates, MainStates, After, Beginning, Subscribed
<1>1. CASE Parse
  BY <1>1 DEF Parse, Elsewhere, runnerVars, backVars
<1>2. CASE CreateLog
  BY <1>2 DEF CreateLog, Go, Elsewhere, runnerVars, backVars
<1>3. CASE SetupPidFile
  BY <1>3 DEF SetupPidFile, Go, Elsewhere, runnerVars, backVars
<1>4. CASE CreateApp
  BY <1>4 DEF CreateApp, Go, Elsewhere, runnerVars, backVars
<1>5. CASE OpenDataAccess
  BY <1>5 DEF OpenDataAccess, Go, Elsewhere, runnerVars, backVars
<1>6. CASE CreateRunner
  BY <1>6 DEF CreateRunner, Go, Elsewhere, outerVars, runnerVars, backVars
<1>7. CASE StartBack
  BY <1>7 DEF StartBack, Go, outerVars, runnerVars
<1>8. CASE InvalidPeriod
  BY <1>8 DEF InvalidPeriod, Go, Elsewhere, runnerVars, backVars
<1>9. CASE Terminate
  BY <1>9 DEF Terminate, Go, Elsewhere, outerVars, runnerVars, backVars
<1>10. CASE StartRunner
  BY <1>10 DEF StartRunner, outerVars, backVars
<1>11. CASE RunReturns
  BY <1>11 DEF RunReturns, outerVars, runnerVars, backVars
<1>12. CASE BackJoined
  BY <1>12 DEF BackJoined, outerVars, runnerVars, backVars
<1>13. CASE HandlerCleared
  BY <1>13 DEF HandlerCleared, outerVars, backVars
<1>14. CASE HandlerStopped
  BY <1>14 DEF HandlerStopped, outerVars, runnerVars, backVars
<1>15. CASE HandlerGone
  BY <1>15 DEF HandlerGone, outerVars, runnerVars, backVars
<1>16. CASE QueueGone
  BY <1>16 DEF QueueGone, outerVars, backVars
<1>17. CASE Stop
  BY <1>17 DEF Stop, outerVars, runnerVars, backVars
<1>18. CASE RunnerJoined
  BY <1>18 DEF RunnerJoined, outerVars, runnerVars, backVars
<1>19. CASE CloseDataAccess
  BY <1>19 DEF CloseDataAccess, Go, Elsewhere, runnerVars, backVars
<1>20. CASE CleanerJoined
  BY <1>20 DEF CleanerJoined, Go, Elsewhere, runnerVars, backVars
<1>21. CASE RemovePidFile
  BY <1>21 DEF RemovePidFile, Go, Elsewhere, runnerVars, backVars
<1>22. CASE AppShutdown
  BY <1>22 DEF AppShutdown, mainVars, runnerVars, backVars, outerVars
<1>23. CASE Event
  BY <1>23 DEF Event, mainVars, backVars, outerVars
<1>24. CASE Cleaner
  BY <1>24 DEF Cleaner, Elsewhere, runnerVars, backVars
<1>25. CASE RunnerLooks
  BY <1>25 DEF RunnerLooks, mainVars, backVars, outerVars
<1>26. CASE Get
  BY <1>26 DEF Get, mainVars, backVars, outerVars
<1>27. CASE Dispatch
  BY <1>27 DEF Dispatch, mainVars, backVars, outerVars
<1>28. CASE HandlerWorks
  BY <1>28 DEF HandlerWorks, mainVars, backVars, outerVars
<1>29. CASE BackLooks
  BY <1>29 DEF BackLooks, mainVars, runnerVars, outerVars
<1>30. CASE Fetch
  BY <1>30 DEF Fetch, mainVars, runnerVars, NextHour, outerVars
<1>31. CASE Send
  BY <1>31 DEF Send, mainVars, runnerVars, NextHour, outerVars
<1>32. CASE HourThrows
  BY <1>32 DEF HourThrows, mainVars, runnerVars, outerVars
<1> QED
  BY <1>1, <1>2, <1>3, <1>4, <1>5, <1>6, <1>7, <1>8, <1>9, <1>10, <1>11, <1>12, <1>13,
    <1>14, <1>15, <1>16, <1>17, <1>18, <1>19, <1>20, <1>21, <1>22, <1>23, <1>24, <1>25,
    <1>26, <1>27, <1>28, <1>29, <1>30, <1>31, <1>32
  DEF Next, Main, Runner, Back

(* Back production is over before anything is destroyed.                   *)
LEMMA BackControlStep ==
  ASSUME BackControl, ControlTypes, Next
  PROVE  BackControl'
<1> USE DEF BackControl, ControlTypes, BackStates, MainStates, After, Ending, Beginning, Subscribed
<1>1. CASE Parse
  BY <1>1 DEF Parse, Elsewhere, runnerVars, backVars
<1>2. CASE CreateLog
  BY <1>2 DEF CreateLog, Go, Elsewhere, runnerVars, backVars
<1>3. CASE SetupPidFile
  BY <1>3 DEF SetupPidFile, Go, Elsewhere, runnerVars, backVars
<1>4. CASE CreateApp
  BY <1>4 DEF CreateApp, Go, Elsewhere, runnerVars, backVars
<1>5. CASE OpenDataAccess
  BY <1>5 DEF OpenDataAccess, Go, Elsewhere, runnerVars, backVars
<1>6. CASE CreateRunner
  BY <1>6 DEF CreateRunner, Go, Elsewhere, outerVars, runnerVars, backVars
<1>7. CASE StartBack
  BY <1>7 DEF StartBack, Go, outerVars, runnerVars
<1>8. CASE InvalidPeriod
  BY <1>8 DEF InvalidPeriod, Go, Elsewhere, runnerVars, backVars
<1>9. CASE Terminate
  BY <1>9 DEF Terminate, Go, Elsewhere, outerVars, runnerVars, backVars
<1>10. CASE StartRunner
  BY <1>10 DEF StartRunner, outerVars, backVars
<1>11. CASE RunReturns
  BY <1>11 DEF RunReturns, outerVars, runnerVars, backVars
<1>12. CASE BackJoined
  BY <1>12 DEF BackJoined, outerVars, runnerVars, backVars
<1>13. CASE HandlerCleared
  BY <1>13 DEF HandlerCleared, outerVars, backVars
<1>14. CASE HandlerStopped
  BY <1>14 DEF HandlerStopped, outerVars, runnerVars, backVars
<1>15. CASE HandlerGone
  BY <1>15 DEF HandlerGone, outerVars, runnerVars, backVars
<1>16. CASE QueueGone
  BY <1>16 DEF QueueGone, outerVars, backVars
<1>17. CASE Stop
  BY <1>17 DEF Stop, outerVars, runnerVars, backVars
<1>18. CASE RunnerJoined
  BY <1>18 DEF RunnerJoined, outerVars, runnerVars, backVars
<1>19. CASE CloseDataAccess
  BY <1>19 DEF CloseDataAccess, Go, Elsewhere, runnerVars, backVars
<1>20. CASE CleanerJoined
  BY <1>20 DEF CleanerJoined, Go, Elsewhere, runnerVars, backVars
<1>21. CASE RemovePidFile
  BY <1>21 DEF RemovePidFile, Go, Elsewhere, runnerVars, backVars
<1>22. CASE AppShutdown
  BY <1>22 DEF AppShutdown, mainVars, runnerVars, backVars, outerVars
<1>23. CASE Event
  BY <1>23 DEF Event, mainVars, backVars, outerVars
<1>24. CASE Cleaner
  BY <1>24 DEF Cleaner, Elsewhere, runnerVars, backVars
<1>25. CASE RunnerLooks
  BY <1>25 DEF RunnerLooks, mainVars, backVars, outerVars
<1>26. CASE Get
  BY <1>26 DEF Get, mainVars, backVars, outerVars
<1>27. CASE Dispatch
  BY <1>27 DEF Dispatch, mainVars, backVars, outerVars
<1>28. CASE HandlerWorks
  BY <1>28 DEF HandlerWorks, mainVars, backVars, outerVars
<1>29. CASE BackLooks
  BY <1>29 DEF BackLooks, mainVars, runnerVars, outerVars
<1>30. CASE Fetch
  BY <1>30 DEF Fetch, mainVars, runnerVars, NextHour, outerVars
<1>31. CASE Send
  BY <1>31 DEF Send, mainVars, runnerVars, NextHour, outerVars
<1>32. CASE HourThrows
  BY <1>32 DEF HourThrows, mainVars, runnerVars, outerVars
<1> QED
  BY <1>1, <1>2, <1>3, <1>4, <1>5, <1>6, <1>7, <1>8, <1>9, <1>10, <1>11, <1>12, <1>13,
    <1>14, <1>15, <1>16, <1>17, <1>18, <1>19, <1>20, <1>21, <1>22, <1>23, <1>24, <1>25,
    <1>26, <1>27, <1>28, <1>29, <1>30, <1>31, <1>32
  DEF Next, Main, Runner, Back

(* The cleaner lives no longer than the data access.                       *)
LEMMA DataControlStep ==
  ASSUME DataControl, ControlTypes, Next
  PROVE  DataControl'
<1> USE DEF DataControl, ControlTypes, CleanerStates, Beginning, MainStates, Subscribed
<1>1. CASE Parse
  BY <1>1 DEF Parse, Elsewhere, runnerVars, backVars
<1>2. CASE CreateLog
  BY <1>2 DEF CreateLog, Go, Elsewhere, runnerVars, backVars
<1>3. CASE SetupPidFile
  BY <1>3 DEF SetupPidFile, Go, Elsewhere, runnerVars, backVars
<1>4. CASE CreateApp
  BY <1>4 DEF CreateApp, Go, Elsewhere, runnerVars, backVars
<1>5. CASE OpenDataAccess
  BY <1>5 DEF OpenDataAccess, Go, Elsewhere, runnerVars, backVars
<1>6. CASE CreateRunner
  BY <1>6 DEF CreateRunner, Go, Elsewhere, outerVars, runnerVars, backVars
<1>7. CASE StartBack
  BY <1>7 DEF StartBack, Go, outerVars, runnerVars
<1>8. CASE InvalidPeriod
  BY <1>8 DEF InvalidPeriod, Go, Elsewhere, runnerVars, backVars
<1>9. CASE Terminate
  BY <1>9 DEF Terminate, Go, Elsewhere, outerVars, runnerVars, backVars
<1>10. CASE StartRunner
  BY <1>10 DEF StartRunner, outerVars, backVars
<1>11. CASE RunReturns
  BY <1>11 DEF RunReturns, outerVars, runnerVars, backVars
<1>12. CASE BackJoined
  BY <1>12 DEF BackJoined, outerVars, runnerVars, backVars
<1>13. CASE HandlerCleared
  BY <1>13 DEF HandlerCleared, outerVars, backVars
<1>14. CASE HandlerStopped
  BY <1>14 DEF HandlerStopped, outerVars, runnerVars, backVars
<1>15. CASE HandlerGone
  BY <1>15 DEF HandlerGone, outerVars, runnerVars, backVars
<1>16. CASE QueueGone
  BY <1>16 DEF QueueGone, outerVars, backVars
<1>17. CASE Stop
  BY <1>17 DEF Stop, outerVars, runnerVars, backVars
<1>18. CASE RunnerJoined
  BY <1>18 DEF RunnerJoined, outerVars, runnerVars, backVars
<1>19. CASE CloseDataAccess
  BY <1>19 DEF CloseDataAccess, Go, Elsewhere, runnerVars, backVars
<1>20. CASE CleanerJoined
  BY <1>20 DEF CleanerJoined, Go, Elsewhere, runnerVars, backVars
<1>21. CASE RemovePidFile
  BY <1>21 DEF RemovePidFile, Go, Elsewhere, runnerVars, backVars
<1>22. CASE AppShutdown
  BY <1>22 DEF AppShutdown, mainVars, runnerVars, backVars, outerVars
<1>23. CASE Event
  BY <1>23 DEF Event, mainVars, backVars, outerVars
<1>24. CASE Cleaner
  BY <1>24 DEF Cleaner, Elsewhere, runnerVars, backVars
<1>25. CASE RunnerLooks
  BY <1>25 DEF RunnerLooks, mainVars, backVars, outerVars
<1>26. CASE Get
  BY <1>26 DEF Get, mainVars, backVars, outerVars
<1>27. CASE Dispatch
  BY <1>27 DEF Dispatch, mainVars, backVars, outerVars
<1>28. CASE HandlerWorks
  BY <1>28 DEF HandlerWorks, mainVars, backVars, outerVars
<1>29. CASE BackLooks
  BY <1>29 DEF BackLooks, mainVars, runnerVars, outerVars
<1>30. CASE Fetch
  BY <1>30 DEF Fetch, mainVars, runnerVars, NextHour, outerVars
<1>31. CASE Send
  BY <1>31 DEF Send, mainVars, runnerVars, NextHour, outerVars
<1>32. CASE HourThrows
  BY <1>32 DEF HourThrows, mainVars, runnerVars, outerVars
<1> QED
  BY <1>1, <1>2, <1>3, <1>4, <1>5, <1>6, <1>7, <1>8, <1>9, <1>10, <1>11, <1>12, <1>13,
    <1>14, <1>15, <1>16, <1>17, <1>18, <1>19, <1>20, <1>21, <1>22, <1>23, <1>24, <1>25,
    <1>26, <1>27, <1>28, <1>29, <1>30, <1>31, <1>32
  DEF Next, Main, Runner, Back

(* The pid file is ours as long as the program runs as a daemon.           *)
LEMMA PidControlStep ==
  ASSUME PidControl, ControlTypes, Next
  PROVE  PidControl'
<1> USE DEF PidControl, ControlTypes, MainStates, Beginning, Subscribed
<1>1. CASE Parse
  BY <1>1 DEF Parse, Elsewhere, runnerVars, backVars
<1>2. CASE CreateLog
  BY <1>2 DEF CreateLog, Go, Elsewhere, runnerVars, backVars
<1>3. CASE SetupPidFile
  BY <1>3 DEF SetupPidFile, Go, Elsewhere, runnerVars, backVars
<1>4. CASE CreateApp
  BY <1>4 DEF CreateApp, Go, Elsewhere, runnerVars, backVars
<1>5. CASE OpenDataAccess
  BY <1>5 DEF OpenDataAccess, Go, Elsewhere, runnerVars, backVars
<1>6. CASE CreateRunner
  BY <1>6 DEF CreateRunner, Go, Elsewhere, outerVars, runnerVars, backVars
<1>7. CASE StartBack
  BY <1>7 DEF StartBack, Go, outerVars, runnerVars
<1>8. CASE InvalidPeriod
  BY <1>8 DEF InvalidPeriod, Go, Elsewhere, runnerVars, backVars
<1>9. CASE Terminate
  BY <1>9 DEF Terminate, Go, Elsewhere, outerVars, runnerVars, backVars
<1>10. CASE StartRunner
  BY <1>10 DEF StartRunner, outerVars, backVars
<1>11. CASE RunReturns
  BY <1>11 DEF RunReturns, outerVars, runnerVars, backVars
<1>12. CASE BackJoined
  BY <1>12 DEF BackJoined, outerVars, runnerVars, backVars
<1>13. CASE HandlerCleared
  BY <1>13 DEF HandlerCleared, outerVars, backVars
<1>14. CASE HandlerStopped
  BY <1>14 DEF HandlerStopped, outerVars, runnerVars, backVars
<1>15. CASE HandlerGone
  BY <1>15 DEF HandlerGone, outerVars, runnerVars, backVars
<1>16. CASE QueueGone
  BY <1>16 DEF QueueGone, outerVars, backVars
<1>17. CASE Stop
  BY <1>17 DEF Stop, outerVars, runnerVars, backVars
<1>18. CASE RunnerJoined
  BY <1>18 DEF RunnerJoined, outerVars, runnerVars, backVars
<1>19. CASE CloseDataAccess
  BY <1>19 DEF CloseDataAccess, Go, Elsewhere, runnerVars, backVars
<1>20. CASE CleanerJoined
  BY <1>20 DEF CleanerJoined, Go, Elsewhere, runnerVars, backVars
<1>21. CASE RemovePidFile
  BY <1>21 DEF RemovePidFile, Go, Elsewhere, runnerVars, backVars
<1>22. CASE AppShutdown
  BY <1>22 DEF AppShutdown, mainVars, runnerVars, backVars, outerVars
<1>23. CASE Event
  BY <1>23 DEF Event, mainVars, backVars, outerVars
<1>24. CASE Cleaner
  BY <1>24 DEF Cleaner, Elsewhere, runnerVars, backVars
<1>25. CASE RunnerLooks
  BY <1>25 DEF RunnerLooks, mainVars, backVars, outerVars
<1>26. CASE Get
  BY <1>26 DEF Get, mainVars, backVars, outerVars
<1>27. CASE Dispatch
  BY <1>27 DEF Dispatch, mainVars, backVars, outerVars
<1>28. CASE HandlerWorks
  BY <1>28 DEF HandlerWorks, mainVars, backVars, outerVars
<1>29. CASE BackLooks
  BY <1>29 DEF BackLooks, mainVars, runnerVars, outerVars
<1>30. CASE Fetch
  BY <1>30 DEF Fetch, mainVars, runnerVars, NextHour, outerVars
<1>31. CASE Send
  BY <1>31 DEF Send, mainVars, runnerVars, NextHour, outerVars
<1>32. CASE HourThrows
  BY <1>32 DEF HourThrows, mainVars, runnerVars, outerVars
<1> QED
  BY <1>1, <1>2, <1>3, <1>4, <1>5, <1>6, <1>7, <1>8, <1>9, <1>10, <1>11, <1>12, <1>13,
    <1>14, <1>15, <1>16, <1>17, <1>18, <1>19, <1>20, <1>21, <1>22, <1>23, <1>24, <1>25,
    <1>26, <1>27, <1>28, <1>29, <1>30, <1>31, <1>32
  DEF Next, Main, Runner, Back

(* No step makes messages of none.                                         *)
LEMMA BoundedStep ==
  ASSUME Bounded, DataTypes, Next
  PROVE  Bounded'
<1> USE DEF Bounded, DataTypes, InHand
<1>1. CASE Parse
  BY <1>1 DEF Parse, Elsewhere, runnerVars
<1>2. CASE CreateLog
  BY <1>2 DEF CreateLog, Go, Elsewhere, runnerVars, backVars
<1>3. CASE SetupPidFile
  BY <1>3 DEF SetupPidFile, Go, Elsewhere, runnerVars, backVars
<1>4. CASE CreateApp
  BY <1>4 DEF CreateApp, Go, Elsewhere, runnerVars, backVars
<1>5. CASE OpenDataAccess
  BY <1>5 DEF OpenDataAccess, Go, Elsewhere, runnerVars, backVars
<1>6. CASE CreateRunner
  BY <1>6 DEF CreateRunner, Go, Elsewhere, outerVars, runnerVars, backVars
<1>7. CASE StartBack
  BY <1>7 DEF StartBack, Go, outerVars, runnerVars
<1>8. CASE InvalidPeriod
  BY <1>8 DEF InvalidPeriod, Go, Elsewhere, runnerVars, backVars
<1>9. CASE Terminate
  BY <1>9 DEF Terminate, Go, Elsewhere, outerVars, runnerVars, backVars
<1>10. CASE StartRunner
  BY <1>10 DEF StartRunner, outerVars, backVars
<1>11. CASE RunReturns
  BY <1>11 DEF RunReturns, outerVars, runnerVars, backVars
<1>12. CASE BackJoined
  BY <1>12 DEF BackJoined, outerVars, runnerVars, backVars
<1>13. CASE HandlerCleared
  BY <1>13 DEF HandlerCleared, outerVars, backVars
<1>14. CASE HandlerStopped
  BY <1>14 DEF HandlerStopped, outerVars, runnerVars, backVars
<1>15. CASE HandlerGone
  BY <1>15 DEF HandlerGone, outerVars, runnerVars, backVars
<1>16. CASE QueueGone
  BY <1>16 DEF QueueGone, outerVars, backVars
<1>17. CASE Stop
  BY <1>17 DEF Stop, outerVars, runnerVars, backVars
<1>18. CASE RunnerJoined
  BY <1>18 DEF RunnerJoined, outerVars, runnerVars, backVars
<1>19. CASE CloseDataAccess
  BY <1>19 DEF CloseDataAccess, Go, Elsewhere, runnerVars, backVars
<1>20. CASE CleanerJoined
  BY <1>20 DEF CleanerJoined, Go, Elsewhere, runnerVars, backVars
<1>21. CASE RemovePidFile
  BY <1>21 DEF RemovePidFile, Go, Elsewhere, runnerVars, backVars
<1>22. CASE AppShutdown
  BY <1>22 DEF AppShutdown, mainVars, runnerVars, backVars, outerVars
<1>23. CASE Event
  BY <1>23 DEF Event, mainVars, backVars, outerVars
<1>24. CASE Cleaner
  BY <1>24 DEF Cleaner, Elsewhere, runnerVars, backVars
<1>25. CASE RunnerLooks
  BY <1>25 DEF RunnerLooks, mainVars, backVars, outerVars
<1>26. CASE Get
  BY <1>26 DEF Get, mainVars, backVars, outerVars
<1>27. CASE Dispatch
  BY <1>27 DEF Dispatch, mainVars, backVars, outerVars
<1>28. CASE HandlerWorks
  BY <1>28 DEF HandlerWorks, mainVars, backVars, outerVars
<1>29. CASE BackLooks
  BY <1>29 DEF BackLooks, mainVars, runnerVars, outerVars
<1>30. CASE Fetch
  BY <1>30 DEF Fetch, mainVars, runnerVars, NextHour, outerVars
<1>31. CASE Send
  BY <1>31 DEF Send, mainVars, runnerVars, NextHour, outerVars
<1>32. CASE HourThrows
  BY <1>32 DEF HourThrows, mainVars, runnerVars, outerVars
<1> QED
  BY <1>1, <1>2, <1>3, <1>4, <1>5, <1>6, <1>7, <1>8, <1>9, <1>10, <1>11, <1>12, <1>13,
    <1>14, <1>15, <1>16, <1>17, <1>18, <1>19, <1>20, <1>21, <1>22, <1>23, <1>24, <1>25,
    <1>26, <1>27, <1>28, <1>29, <1>30, <1>31, <1>32
  DEF Next, Main, Runner, Back

(* The data keep their types; the counters stay within the bounds because  *)
(* every message was sent by kvalobs.                                      *)
LEMMA DataTypesStep ==
  ASSUME DataTypes, Bounded, Bounded', Next
  PROVE  DataTypes'
<1> USE DEF DataTypes, Bounded, InHand
<1>0. MaxEvents \in Nat /\ MaxFailures \in Nat /\ MaxThrows \in Nat
  BY DaemonAssumption
<1> USE <1>0
<1>1. CASE Parse
  BY <1>1, ExitCodeType DEF Parse, Elsewhere, runnerVars, backVars
<1>2. CASE CreateLog
  BY <1>2 DEF CreateLog, Go, Elsewhere, runnerVars, backVars
<1>3. CASE SetupPidFile
  BY <1>3 DEF SetupPidFile, Go, Elsewhere, runnerVars, backVars
<1>4. CASE CreateApp
  BY <1>4 DEF CreateApp, Go, Elsewhere, runnerVars, backVars
<1>5. CASE OpenDataAccess
  BY <1>5 DEF OpenDataAccess, Go, Elsewhere, runnerVars, backVars
<1>6. CASE CreateRunner
  BY <1>6 DEF CreateRunner, Go, Elsewhere, outerVars, runnerVars, backVars
<1>7. CASE StartBack
  <2>1. period' \in Int \X Int
    BY <1>7, PeriodsAreTimes DEF StartBack
  <2>2. f' \in Int
    BY <1>7, <2>1 DEF StartBack
  <2> QED
    BY <1>7, <2>1, <2>2 DEF StartBack, outerVars, runnerVars
<1>8. CASE InvalidPeriod
  BY <1>8 DEF InvalidPeriod, Go, Elsewhere, runnerVars, backVars
<1>9. CASE Terminate
  BY <1>9 DEF Terminate, Go, Elsewhere, outerVars, runnerVars, backVars
<1>10. CASE StartRunner
  BY <1>10 DEF StartRunner, outerVars, backVars
<1>11. CASE RunReturns
  BY <1>11 DEF RunReturns, outerVars, runnerVars, backVars
<1>12. CASE BackJoined
  BY <1>12 DEF BackJoined, outerVars, runnerVars, backVars
<1>13. CASE HandlerCleared
  BY <1>13 DEF HandlerCleared, outerVars, backVars
<1>14. CASE HandlerStopped
  BY <1>14 DEF HandlerStopped, outerVars, runnerVars, backVars
<1>15. CASE HandlerGone
  BY <1>15 DEF HandlerGone, outerVars, runnerVars, backVars
<1>16. CASE QueueGone
  BY <1>16 DEF QueueGone, outerVars, backVars
<1>17. CASE Stop
  BY <1>17 DEF Stop, outerVars, runnerVars, backVars
<1>18. CASE RunnerJoined
  BY <1>18 DEF RunnerJoined, outerVars, runnerVars, backVars
<1>19. CASE CloseDataAccess
  BY <1>19 DEF CloseDataAccess, Go, Elsewhere, runnerVars, backVars
<1>20. CASE CleanerJoined
  BY <1>20 DEF CleanerJoined, Go, Elsewhere, runnerVars, backVars
<1>21. CASE RemovePidFile
  BY <1>21 DEF RemovePidFile, Go, Elsewhere, runnerVars, backVars
<1>22. CASE AppShutdown
  BY <1>22 DEF AppShutdown, mainVars, runnerVars, backVars, outerVars
<1>23. CASE Event
  BY <1>23 DEF Event, mainVars, backVars, outerVars
<1>24. CASE Cleaner
  BY <1>24 DEF Cleaner, Elsewhere, runnerVars, backVars
<1>25. CASE RunnerLooks
  BY <1>25 DEF RunnerLooks, mainVars, backVars, outerVars
<1>26. CASE Get
  BY <1>26 DEF Get, mainVars, backVars, outerVars
<1>27. CASE Dispatch
  BY <1>27 DEF Dispatch, mainVars, backVars, outerVars
<1>28. CASE HandlerWorks
  BY <1>28 DEF HandlerWorks, mainVars, backVars, outerVars
<1>29. CASE BackLooks
  BY <1>29 DEF BackLooks, mainVars, runnerVars, outerVars
<1>30. CASE Fetch
  <2>1. skipped' \subseteq Int
    <3>1. skipped' = skipped \/ skipped' = skipped \cup {f}
      BY <1>30, Zenon DEF Fetch
    <3>2. f \in Int /\ skipped \subseteq Int
      OBVIOUS
    <3> QED
      BY <3>1, <3>2, Zenon
  <2>2. f' \in Int
    BY <1>30 DEF Fetch, NextHour
  <2>3. failures' \in 0..MaxFailures
    BY <1>30 DEF Fetch
  <2> QED
    BY <1>30, <2>1, <2>2, <2>3 DEF Fetch, mainVars, runnerVars, outerVars
<1>31. CASE Send
  <2>1. sent' \subseteq ObsTimes
    BY <1>31 DEF Send, HourOf
  <2> QED
    BY <1>31, <2>1 DEF Send, NextHour, mainVars, outerVars, runnerVars
<1>32. CASE HourThrows
  BY <1>32 DEF HourThrows, mainVars, runnerVars, outerVars
<1> QED
  BY <1>1, <1>2, <1>3, <1>4, <1>5, <1>6, <1>7, <1>8, <1>9, <1>10, <1>11, <1>12, <1>13,
    <1>14, <1>15, <1>16, <1>17, <1>18, <1>19, <1>20, <1>21, <1>22, <1>23, <1>24, <1>25,
    <1>26, <1>27, <1>28, <1>29, <1>30, <1>31, <1>32
  DEF Next, Main, Runner, Back

(* An hour that is behind: the period is done up to the next one.           *)
LEMMA HourPassed ==
  ASSUME DataTypes, DataTypes', HoursDone, back \in BackStates \ {"none", "exited"},
         period' = period, skipped \subseteq skipped', sent \subseteq sent',
         f' = f + 2, back' = "looking", shutdown' = shutdown,
         shutdown \/ f \in skipped' \/ HourOf(f) \subseteq sent'
  PROVE  HoursDone'
<1> USE DEF DataTypes
<1>1. (f - period[1]) % 2 = 0
  BY DEF HoursDone, BackStates
<1>2. (f' - period'[1]) % 2 = 0
  BY <1>1
<1>3. ASSUME ~shutdown', NEW h \in Int, period'[1] <= h, h < f', (h - period'[1]) % 2 = 0, h \notin skipped'
      PROVE  HourOf(h) \subseteq sent'
  <2>1. h < f \/ h = f
    BY <1>1, <1>3
  <2>2. CASE h < f
    BY <1>3, <2>2 DEF HoursDone, BackStates
  <2>3. CASE h = f
    BY <1>3, <2>3
  <2> QED
    BY <2>1, <2>2, <2>3
<1> QED
  BY <1>2, <1>3 DEF HoursDone, HourOf

(* The loop of back production leaves no hour behind; it ends at the end of *)
(* the period, because nobody tells it to stop before main has joined it.  *)
LEMMA HoursDoneStep ==
  ASSUME HoursDone, Control, DataTypes, DataTypes', Next
  PROVE  HoursDone'
<1>1. CASE Parse
  BY <1>1 DEF HoursDone, HourOf, Parse, Elsewhere, runnerVars, backVars
<1>2. CASE CreateLog
  BY <1>2 DEF HoursDone, HourOf, CreateLog, Go, Elsewhere, runnerVars, backVars
<1>3. CASE SetupPidFile
  BY <1>3 DEF HoursDone, HourOf, SetupPidFile, Go, Elsewhere, runnerVars, backVars
<1>4. CASE CreateApp
  BY <1>4 DEF HoursDone, HourOf, CreateApp, Go, Elsewhere, runnerVars, backVars
<1>5. CASE OpenDataAccess
  BY <1>5 DEF HoursDone, HourOf, OpenDataAccess, Go, Elsewhere, runnerVars, backVars
<1>6. CASE CreateRunner
  BY <1>6 DEF HoursDone, HourOf, CreateRunner, Go, Elsewhere, outerVars, runnerVars, backVars
<1>7. CASE StartBack
  <2>1. f' = period'[1] /\ period' \in Int \X Int /\ back' = "looking"
    BY <1>7 DEF StartBack, DataTypes
  <2>2. (f' - period'[1]) % 2 = 0
    BY <2>1
  <2> QED
    BY <2>1, <2>2 DEF HoursDone, HourOf
<1>8. CASE InvalidPeriod
  BY <1>8 DEF HoursDone, HourOf, InvalidPeriod, Go, Elsewhere, runnerVars, backVars
<1>9. CASE Terminate
  BY <1>9 DEF HoursDone, HourOf, Terminate, Go, Elsewhere, outerVars, runnerVars, backVars
<1>10. CASE StartRunner
  BY <1>10 DEF HoursDone, HourOf, StartRunner, outerVars, backVars
<1>11. CASE RunReturns
  BY <1>11 DEF HoursDone, HourOf, RunReturns, outerVars, runnerVars, backVars
<1>12. CASE BackJoined
  BY <1>12 DEF HoursDone, HourOf, BackJoined, outerVars, runnerVars, backVars
<1>13. CASE HandlerCleared
  BY <1>13 DEF HoursDone, HourOf, HandlerCleared, outerVars, backVars
<1>14. CASE HandlerStopped
  BY <1>14 DEF HoursDone, HourOf, HandlerStopped, outerVars, runnerVars, backVars
<1>15. CASE HandlerGone
  BY <1>15 DEF HoursDone, HourOf, HandlerGone, outerVars, runnerVars, backVars
<1>16. CASE QueueGone
  BY <1>16 DEF HoursDone, HourOf, QueueGone, outerVars, backVars
<1>17. CASE Stop
  BY <1>17 DEF HoursDone, HourOf, Stop, outerVars, runnerVars, backVars
<1>18. CASE RunnerJoined
  BY <1>18 DEF HoursDone, HourOf, RunnerJoined, outerVars, runnerVars, backVars
<1>19. CASE CloseDataAccess
  BY <1>19 DEF HoursDone, HourOf, CloseDataAccess, Go, Elsewhere, runnerVars, backVars
<1>20. CASE CleanerJoined
  BY <1>20 DEF HoursDone, HourOf, CleanerJoined, Go, Elsewhere, runnerVars, backVars
<1>21. CASE RemovePidFile
  BY <1>21 DEF HoursDone, HourOf, RemovePidFile, Go, Elsewhere, runnerVars, backVars
<1>22. CASE AppShutdown
  BY <1>22 DEF HoursDone, HourOf, AppShutdown, mainVars, runnerVars, backVars, outerVars
<1>23. CASE Event
  BY <1>23 DEF HoursDone, HourOf, Event, mainVars, backVars, outerVars
<1>24. CASE Cleaner
  BY <1>24 DEF HoursDone, HourOf, Cleaner, Elsewhere, runnerVars, backVars
<1>25. CASE RunnerLooks
  BY <1>25 DEF HoursDone, HourOf, RunnerLooks, mainVars, backVars, outerVars
<1>26. CASE Get
  BY <1>26 DEF HoursDone, HourOf, Get, mainVars, backVars, outerVars
<1>27. CASE Dispatch
  BY <1>27 DEF HoursDone, HourOf, Dispatch, mainVars, backVars, outerVars
<1>28. CASE HandlerWorks
  BY <1>28 DEF HoursDone, HourOf, HandlerWorks, mainVars, backVars, outerVars
<1>29. CASE BackLooks
  <2>1. ~shutdown_
    BY <1>29 DEF BackLooks, Control, BackControl, Ending, After
  <2> QED
    BY <1>29, <2>1 DEF BackLooks, mainVars, outerVars, runnerVars, HoursDone, HourOf, DataTypes
<1>30. CASE Fetch
  <2>1. CASE back' = "sending"
    BY <1>30, <2>1 DEF Fetch, mainVars, outerVars, runnerVars, HoursDone, HourOf, NextHour
  <2>2. CASE back' # "sending"
    <3>1. f \in skipped' \/ HourOf(f) \subseteq sent'
      BY <1>30, <2>2 DEF Fetch, DataTypes
    <3>2. f' = f + 2 /\ back' = "looking" /\ back = "fetching" /\ period' = period
          /\ shutdown' = shutdown /\ skipped \subseteq skipped' /\ sent' = sent
      BY <1>30, <2>2 DEF Fetch, NextHour
    <3> QED
      BY <3>1, <3>2, HourPassed DEF BackStates
  <2> QED
    BY <2>1, <2>2
<1>31. CASE Send
  <2>1. f' = f + 2 /\ back' = "looking" /\ back = "sending" /\ period' = period
        /\ shutdown' = shutdown /\ skipped' = skipped
    BY <1>31 DEF Send, NextHour
  <2>2. sent \subseteq sent' /\ (shutdown \/ HourOf(f) \subseteq sent')
    BY <1>31 DEF Send
  <2> QED
    BY <2>1, <2>2, HourPassed DEF BackStates
<1>32. CASE HourThrows
  BY <1>32 DEF HourThrows, HoursDone, HourOf
<1> QED
  BY <1>1, <1>2, <1>3, <1>4, <1>5, <1>6, <1>7, <1>8, <1>9, <1>10, <1>11, <1>12, <1>13,
    <1>14, <1>15, <1>16, <1>17, <1>18, <1>19, <1>20, <1>21, <1>22, <1>23, <1>24, <1>25,
    <1>26, <1>27, <1>28, <1>29, <1>30, <1>31, <1>32
  DEF Next, Main, Runner, Back

-----------------------------------------------------------------------------
(* The invariant of the specification.                                     *)

LEMMA InitInv == Init => Inv
<1> SUFFICES ASSUME Init PROVE Inv
  OBVIOUS
<1> USE DEF Init
<1>1. ControlTypes
  BY DEF ControlTypes, MainStates, Beginning, RunnerStates, BackStates, CleanerStates,
         HandlerStates, WorkerStates
<1>2. Switched
  BY Zenon DEF Switched
<1>3. DataTypes
  <2>1. MaxEvents \in Nat /\ MaxFailures \in Nat /\ MaxThrows \in Nat
    BY DaemonAssumption
  <2> QED
    BY <2>1 DEF DataTypes
<1>4. Control
  BY DEF Control, HandlerControl, RunnerControl, BackControl, DataControl, PidControl, Beginning,
         After, Ending
<1>5. Bounded /\ HoursDone
  BY DEF Bounded, InHand, HoursDone
<1> QED
  BY <1>1, <1>2, <1>3, <1>4, <1>5, TypeParts DEF Inv

LEMMA NextInv == Inv /\ [Next]_vars => Inv'
<1> SUFFICES ASSUME Inv, [Next]_vars PROVE Inv'
  OBVIOUS
<1> USE DEF Inv
<1>0. ControlTypes /\ Switched /\ DataTypes
  BY TypeParts
<1>1. CASE Next
  <2>1. ControlTypes' /\ Switched'
    BY <1>0, <1>1, ControlTypesStep, SwitchedStep
  <2>2. Bounded'
    BY <1>0, <1>1, BoundedStep
  <2>3. DataTypes'
    BY <1>0, <1>1, <2>2, DataTypesStep
  <2>4. TypeOK'
    BY <2>1, <2>3 DEF TypeOK, ControlTypes, Switched, DataTypes
  <2>5. Control'
    BY <1>0, <1>1, HandlerControlStep, RunnerControlStep, BackControlStep, DataControlStep,
       PidControlStep DEF Control
  <2>6. HoursDone'
    BY <1>0, <1>1, <2>3, HoursDoneStep
  <2> QED
    BY <2>2, <2>4, <2>5, <2>6
<1>2. CASE UNCHANGED vars
  <2> USE <1>2 DEF vars, mainVars, outerVars, runnerVars, handlerVars, backVars
  <2>1. TypeOK'
    BY DEF TypeOK
  <2>2. Control'
    BY DEF Control, HandlerControl, RunnerControl, BackControl, DataControl, PidControl
  <2>3. Bounded' /\ HoursDone'
    BY DEF Bounded, InHand, HoursDone, HourOf
  <2> QED
    BY <2>1, <2>2, <2>3
<1> QED
  BY <1>1, <1>2

(* The invariant holds in every reachable state.                           *)
THEOREM SpecInv == Spec => []Inv
BY InitInv, NextInv, PTL DEF Spec

(* Type correctness: the counters stay within their bounds because a       *)
(* message is in one place only.                                           *)
THEOREM TypeCorrect == Spec => []TypeOK
<1>1. Inv => TypeOK
  BY DEF Inv
<1> QED
  BY <1>1, SpecInv, PTL

(* From wherever the program went wrong: what main destroys, and main when *)
(* it returns, leaves no thread behind and no pid file of ours, and never  *)
(* touches the pid file of another program.                                *)
THEOREM NobodyLeftHolds == Spec => []NobodyLeft
<1>1. Inv => NobodyLeft
  <2> SUFFICES ASSUME Inv PROVE NobodyLeft
    OBVIOUS
  <2>1. main \in After => runner \in {"none", "exited"} /\ back \in {"none", "exited"}
                         /\ worker \in {"none", "exited"}
    BY DEF Inv, Control, RunnerControl, BackControl, HandlerControl, Ending
  <2>2. main = "done" => cleaner \in {"none", "exited"} /\ pidFile # "us"
    BY DEF Inv, Control, DataControl, PidControl
  <2>3. dataAccess = "proxy" /\ runInDaemonMode(commandLine) => pidFile # "another"
    BY DEF Inv, Control, PidControl
  <2> QED
    BY <2>1, <2>2, <2>3 DEF NobodyLeft, After
<1> QED
  BY <1>1, SpecInv, PTL

(* For any period, any observations, any failures and any exceptions: when *)
(* back production ends and the program goes on, every hour of the period  *)
(* that could be retrieved has been aggregated.                            *)
THEOREM WholePeriodHolds == Spec => []WholePeriod
<1>1. Inv => WholePeriod
  <2> SUFFICES ASSUME Inv, back = "exited", ~shutdown, NEW h \in period[1]..period[2],
                      (h - period[1]) % 2 = 0, h \notin skipped
               PROVE  HourOf(h) \subseteq sent
    BY DEF WholePeriod
  <2>1. f > period[2] /\ f \in Int /\ period[1] \in Int /\ period[2] \in Int
    BY DEF Inv, HoursDone, TypeOK
  <2>2. h \in Int /\ period[1] <= h /\ h < f
    BY <2>1
  <2> QED
    BY <2>2 DEF Inv, HoursDone
<1> QED
  BY <1>1, SpecInv, PTL
=============================================================================
