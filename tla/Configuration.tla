----------------------------- MODULE Configuration -----------------------------
(***************************************************************************)
(* What the command line asks for: AggregatorConfiguration, and the period *)
(* of back production, whose text BackProduction reads.                    *)
(*                                                                         *)
(* A text is what a conversion makes of it: the set of no or one value.    *)
(* A command line is a record: whether program_options can read it; the    *)
(* options given; the elements of the lists that follow --stations,        *)
(* --parameter and --type, all occurrences together; the period that       *)
(* follows --back-production; and what the name that follows               *)
(* --proxy-database-name stands for.  Times count in half hours.           *)
(***************************************************************************)
EXTENDS Integers, Sequences

CONSTANT DefaultDatabase  \* what the default name of the proxy database stands for

Switches == {"help", "version", "log-to-stdout", "daemon-mode", "repopulate",
             "back-production", "proxy-database-name"}

Given(line, option) == option \in line.given

(* createIntList and getOptionList: a list is read as a whole or throws.   *)
IntLists(texts) ==
  IF \E i \in DOMAIN texts : texts[i] = {} THEN {}
  ELSE {[i \in DOMAIN texts |-> CHOOSE n \in texts[i] : TRUE]}

ListOptions == {"stations", "parameter", "type"}

parse(line) ==
  CASE ~line.readable -> "Exit_Failure"
    [] line.readable /\ ({"help", "version"} \cap line.given # {}) -> "Exit_Success"
    [] line.readable /\ {"help", "version"} \cap line.given = {} ->
         IF \E option \in ListOptions : IntLists(line[option]) = {} THEN "Exit_Failure" ELSE "No_Action"

(* ParseResult as main returns it.                                         *)
ExitCode(result) == IF result = "Exit_Success" THEN 0 ELSE 1

logToStdOut(line) == Given(line, "log-to-stdout")
backProduction(line) == Given(line, "back-production")
daemonMode(line) == Given(line, "daemon-mode")
runInDaemonMode(line) == ~backProduction(line) \/ daemonMode(line)

Databases == {"memory", "file", "directory", "absent"}

ASSUME ConfigurationAssumption == DefaultDatabase \in Databases

proxyDatabaseName(line) ==
  IF Given(line, "proxy-database-name") THEN line.database ELSE DefaultDatabase

(* The period: `from', and what follows the comma, if there is one: number *)
(* of hours or a time, nothing, or something else.  One that cannot be     *)
(* read throws; Periods is then empty.  A number is one even with a sign,  *)
(* but what lexical_cast makes of it is unsigned.                          *)
Periods(spec) ==
  {<<from, IF spec.kind = "none" THEN from
           ELSE IF spec.kind = "hours" THEN from + 2 * spec.to ELSE spec.to>> :
     from \in IF spec.kind \in {"none", "hours", "time"} THEN spec.from ELSE {}}

(* parseTime throws a pointer to an exception, all else an exception.      *)
ThrowsPointer(spec) == spec.from = {}

(* Without a period, the last three hours before the full hour.            *)
LastThreeHours(now) == <<now - (now % 2) - 6, now - (now % 2)>>
=============================================================================
