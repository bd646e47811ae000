----------------------------- MODULE MCLogging -----------------------------
(***************************************************************************)
(* The logging of the library: the registry of loggers and appenders, the  *)
(* appenders at work inside one call of logger::log, the texts they make,  *)
(* the exceptions that carry log messages, and the zipkin client that logs *)
(* spans.  A behaviour exercises one of them, "part", and leaves the       *)
(* others in their first state.                                            *)
(***************************************************************************)
EXTENDS Logging, LogAppenders, ExceptionFlow, Zipkin

VARIABLE part

-----------------------------------------------------------------------------
(* Values of constants. *)

AppenderNames == {"stderr", "stdout", "gelf"}
Logger(n, parent, level, apps) == [name |-> n, parent |-> parent, level |-> level, appenders |-> apps]
Appender(n, type) == [name |-> n, type |-> type]
\* The default; one with a parent, no level and an appender of an unknown
\* type; and one whose second appender throws.
Configurations == {DefaultConfig,
  [appenders |-> <<Appender("stderr", "console"), Appender("gelf", "gelf"), Appender("stdout", "unknown")>>,
   loggers |-> <<Logger("default", "none", 0, <<"gelf", "stderr">>),
                 Logger("net", "default", NotSet, <<"gelf", "stdout">>)>>],
  [appenders |-> <<Appender("stderr", "console"), Appender("gelf", "throws")>>,
   loggers |-> <<Logger("default", "none", 0, <<"stderr">>)>>]}

Codes == [t \in Fc |-> CASE t = "timeout" -> 2 [] t = "assert" -> 10 [] t = "exception" -> 0
                         [] t = "unhandled" -> 1 [] t = "wrapper" -> 13 [] t = "custom" -> 99]

-----------------------------------------------------------------------------

vars == <<part, logVars, appVars, excVars, zipkinVars, call>>

Init ==
  /\ part \in {"registry", "appender", "text", "exception", "zipkin"}
  /\ LogInit /\ AppInit /\ ExcInit /\ ZipkinInit /\ CallInit

RegistryStep == part = "registry" /\ LogNext /\ UNCHANGED <<part, appVars, excVars, zipkinVars, call>>
AppenderStep == part = "appender" /\ AppNext /\ UNCHANGED <<part, logVars, excVars, zipkinVars, call>>
TextStep == part = "text" /\ LogTextNext /\ UNCHANGED <<part, logVars, appVars, excVars, zipkinVars>>
ExceptionStep == part = "exception" /\ ExcNext /\ UNCHANGED <<part, logVars, appVars, zipkinVars, call>>
ZipkinStep == part = "zipkin" /\ ZipkinNext /\ UNCHANGED <<part, logVars, appVars, excVars, call>>

Next == RegistryStep \/ AppenderStep \/ TextStep \/ ExceptionStep \/ ZipkinStep

\* No action with fairness is enabled in the first state of LogAppenders or Zipkin.
Spec == Init /\ [][Next]_vars /\ AppFairness /\ ZipkinFairness

\* What reaches a server, a file or a console is what was logged.
LoggedIsKept == AppendersWhole /\ LogTextKept
=============================================================================
