------------------------------ MODULE MCDaemon ------------------------------
(* Daemon for TLC: command lines. *)
EXTENDS Daemon

Line(given, p) ==
  [readable |-> TRUE, given |-> given, stations |-> <<>>, parameter |-> <<>>, type |-> <<>>,
   period |-> p, database |-> "memory"]
Period(from, kind, to) == [from |-> from, kind |-> kind, to |-> to]
NoPeriod == Period({}, "none", 0)

Plain == Line({"repopulate"}, NoPeriod)
Hours == Line({"back-production", "log-to-stdout"}, Period({0}, "hours", 2))
Span == Line({"back-production", "daemon-mode", "proxy-database-name"}, Period({2}, "time", 4))
OneHour == Line({"back-production", "proxy-database-name"}, Period({2}, "none", 0))
NoFile == [Line({"daemon-mode", "proxy-database-name"}, NoPeriod) EXCEPT !.database = "absent"]
NoSecond == Line({"back-production", "daemon-mode"}, Period({0}, "empty", 0))
NoTime == Line({"back-production", "daemon-mode"}, Period({}, "hours", 2))

MCLines ==
  {Plain, Hours, Span, OneHour, NoFile, NoSecond, NoTime, Line({"help"}, NoPeriod),
   [Plain EXCEPT !.readable = FALSE], [Plain EXCEPT !.stations = <<{1}, {}>>],
   [Hours EXCEPT !.stations = <<{1}, {2}>>, !.type = <<{4}>>]}
MCDaemonLine == {Plain}
MCInvalidLines == {NoSecond, NoTime}
=============================================================================
