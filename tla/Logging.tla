------------------------------ MODULE Logging ------------------------------
(***************************************************************************)
(* fc::logger and fc::log_config: loggers are handles to shared            *)
(* implementations; the maps of loggers and appenders are rebuilt by       *)
(* configure_logging while threads log through handles they took earlier.  *)
(* Each operation under log_mutex is one action; what a macro does outside *)
(* the mutex (is_enabled, and the gap between get() and log()) is a step   *)
(* of its own.  An appender is <<generation, position in its config>>.     *)
(***************************************************************************)
EXTENDS Naturals, Sequences, SequencesExt, FiniteSetsExt

CONSTANTS
  Thread,
  Name, DefaultLogger,        \* logger names
  Static,                     \* names of the program's static loggers
  AppenderName,
  LoggingConfig,              \* the configurations tried: see DefaultConfig
  MaxLevel,                   \* log levels are 0..MaxLevel
  MaxGeneration,              \* configurations applied in a behaviour
  Impl                        \* the numbers of the logger implementations

\* There is an implementation for every reference, and one more for a new logger.
ASSUME LoggingAssumption ==
  /\ DefaultLogger \in Name /\ Static \subseteq Name /\ "none" \notin Name
  /\ Impl \subseteq Nat \ {0} /\ 1 \in Impl /\ {MaxLevel, MaxGeneration} \subseteq Nat \ {0}
  /\ IsFiniteSet(Name) /\ IsFiniteSet(Thread) /\ IsFiniteSet(Impl)
  /\ Cardinality(Name) + Cardinality(Static) + Cardinality(Thread) < Cardinality(Impl)

VARIABLES
  loggerMap,     \* name -> implementation, 0 for no entry
  appenderMap,   \* name -> appender, << >> for no entry
  impl,          \* implementation -> its level and appenders
  handle,        \* name -> the implementation of the program's static logger of that name
  gen, ok,       \* configurations applied so far; whether the last one was
  pc             \* what a thread in a logging macro does next

logVars == <<loggerMap, appenderMap, impl, handle, gen, ok, pc>>

Warn == 1
NewImpl == [level |-> Warn, apps |-> << >>]
NoImpl == [level |-> 0, apps |-> << >>]
Idle == [at |-> "idle", name |-> DefaultLogger, impl |-> 0]

\* logging_config::default_config, as the form of a configuration: appenders
\* with a name and a type, loggers with a name, a parent, a level (MaxLevel + 1
\* when not set) and the names of appenders.
DefaultConfig ==
  [appenders |-> <<[name |-> "stderr", type |-> "console"], [name |-> "stdout", type |-> "console"]>>,
   loggers |-> <<[name |-> DefaultLogger, parent |-> "none", level |-> 0, appenders |-> <<"stderr">>]>>]
NotSet == MaxLevel + 1

\* A configuration has an entry for a logger once, which names an appender once.
ASSUME ConfigAssumption == \A cfg \in LoggingConfig :
  /\ cfg.appenders \in Seq([name : AppenderName, type : {"console", "gelf", "dmlog", "unknown", "throws"}])
  /\ cfg.loggers \in Seq([name : Name, parent : Name \cup {"none"}, level : 0..NotSet, appenders : Seq(AppenderName)])
  /\ \A i, j \in DOMAIN cfg.loggers : cfg.loggers[i].name = cfg.loggers[j].name => i = j
  /\ \A i \in DOMAIN cfg.loggers : IsInjective(cfg.loggers[i].appenders)

\* Static initialisation has applied the default configuration.
LogInit ==
  /\ loggerMap = [n \in Name |-> IF n = DefaultLogger THEN 1 ELSE 0]
  /\ appenderMap = [a \in AppenderName |->
        CASE a = "stderr" -> <<0, 1>> [] a = "stdout" -> <<0, 2>> [] OTHER -> << >>]
  /\ handle = CHOOSE h \in [Static -> Impl \ {1}] : IsInjective(h)     \* static loggers made with logger()
  /\ impl = [i \in Impl |-> CASE i = 1 -> [level |-> 0, apps |-> << <<0, 1>> >>]
                              [] i \in Range(handle) -> NewImpl [] OTHER -> NoImpl]
  /\ gen = 0 /\ ok = TRUE
  /\ pc = [t \in Thread |-> Idle]

(* Implementations are reference counted: one that no map entry, handle or   *)
(* macro refers to is free.                                                  *)
Held(map, h, p) == (Range(map) \cup Range(h) \cup {p[t].impl : t \in Thread}) \ {0}
Collected(im, map, h, p) == [i \in Impl |-> IF i \in Held(map, h, p) THEN im[i] ELSE NoImpl]

\* logger_map[name]: a missing entry is made, with a logger of its own.
Entry(st, name) ==
  IF st.map[name] # 0 THEN st
  ELSE LET i == CHOOSE j \in Impl : j \notin Range(st.map) \cup st.held
       IN [st EXCEPT !.map[name] = i, !.impl[i] = NewImpl]
Maps == [map |-> loggerMap, impl |-> impl, held |-> Held(loggerMap, handle, pc)]

-----------------------------------------------------------------------------
(* configure_logging, under the mutex: clear, make the appenders, make the   *)
(* loggers.  An unknown type is skipped; a constructor that throws ends it   *)
(* with the maps as they are.                                                *)

Fails(cfg) == \E i \in DOMAIN cfg.appenders : cfg.appenders[i].type = "throws"
AppendersOf(cfg, a) ==
  {i \in DOMAIN cfg.appenders : /\ cfg.appenders[i].name = a /\ cfg.appenders[i].type # "unknown"
                                /\ \A j \in 1..i : cfg.appenders[j].type # "throws"}
NewAppenderMap(cfg, g) ==
  [a \in AppenderName |-> IF AppendersOf(cfg, a) = {} THEN << >> ELSE <<g, Max(AppendersOf(cfg, a))>>]

\* The loop over the appenders of a logger: those that were found are added.
Attached(before, names, apps) ==
  LET to[j \in 0..Len(names)] ==
        IF j = 0 THEN before
        ELSE IF apps[names[j]] = << >> THEN to[j - 1] ELSE Append(to[j - 1], apps[names[j]])
  IN to[Len(names)]
ConfigureLogger(st, lc, apps) ==
  LET own == Entry(st, lc.name)
      both == IF lc.parent = "none" THEN own ELSE Entry(own, lc.parent)
      i == both.map[lc.name]
  IN [both EXCEPT !.impl[i] = [level |-> IF lc.level = NotSet THEN @.level ELSE lc.level,
                               apps |-> Attached(@.apps, lc.appenders, apps)]]
\* The loop over the loggers.
Configured(st, loggers, apps) ==
  LET after[i \in 0..Len(loggers)] == IF i = 0 THEN st ELSE ConfigureLogger(after[i - 1], loggers[i], apps)
  IN after[Len(loggers)]

\* Mutant: the loggers of the last configuration stay.
Cleared_Kept == Maps
Cleared == [Maps EXCEPT !.map = [n \in Name |-> 0], !.held = Held([n \in Name |-> 0], handle, pc)]

configure_logging(cfg) ==
  /\ gen < MaxGeneration
  /\ gen' = gen + 1
  /\ ok' = ~Fails(cfg)
  /\ appenderMap' = NewAppenderMap(cfg, gen + 1)
  /\ LET st == IF Fails(cfg) THEN Cleared
               ELSE Configured(Cleared, cfg.loggers, appenderMap')
     IN /\ loggerMap' = st.map
        /\ impl' = Collected(st.impl, st.map, handle, pc)
  /\ UNCHANGED <<handle, pc>>

\* logger::update: the entry of that name; without one, the default logger
\* under that name; without that, no change.
update_logger(n) ==
  LET target == IF loggerMap[n] # 0 THEN loggerMap[n] ELSE loggerMap[DefaultLogger] IN
  /\ target # 0
  /\ handle' = [handle EXCEPT ![n] = target]
  /\ loggerMap' = [loggerMap EXCEPT ![n] = target]
  /\ impl' = Collected(impl, loggerMap', handle', pc)
  /\ UNCHANGED <<appenderMap, gen, ok, pc>>

\* set_log_level through a handle changes the shared implementation.
set_log_level(n, l) ==
  /\ impl' = [impl EXCEPT ![handle[n]].level = l]
  /\ UNCHANGED <<loggerMap, appenderMap, handle, gen, ok, pc>>

-----------------------------------------------------------------------------
(* The macros: is_enabled first, then log.                                   *)

Enabled(i, l) == l >= impl[i].level

\* fc_ilog( log, ... ) on a static logger: no lock is taken to look at the level.
CheckHandle(t, n, l) ==
  /\ pc[t] = Idle
  /\ Enabled(handle[n], l)
  /\ pc' = [pc EXCEPT ![t] = [at |-> "handle", name |-> n, impl |-> 0]]
  /\ UNCHANGED <<loggerMap, appenderMap, impl, handle, gen, ok>>

\* ilog( ... ) and ulog( ... ): get() once to look at the level, ...
GetAndCheck(t, n, l) ==
  LET st == Entry(Maps, n) IN
  /\ pc[t] = Idle
  /\ pc' = IF l >= st.impl[st.map[n]].level
           THEN [pc EXCEPT ![t] = [at |-> "get", name |-> n, impl |-> 0]] ELSE pc
  /\ loggerMap' = st.map /\ impl' = st.impl
  /\ UNCHANGED <<appenderMap, handle, gen, ok>>

\* ... and get() again for the logger that logs.
GetAgain(t) ==
  LET st == Entry(Maps, pc[t].name) IN
  /\ pc[t].at = "get"
  /\ loggerMap' = st.map /\ impl' = st.impl
  /\ pc' = [pc EXCEPT ![t].at = "log", ![t].impl = st.map[pc[t].name]]
  /\ UNCHANGED <<appenderMap, handle, gen, ok>>

\* logger::log: under the mutex, to the appenders (see LogAppenders) of the
\* implementation the handle has by now, or of the one get() returned.
log(t) ==
  /\ pc[t].at \in {"handle", "log"}
  /\ pc' = [pc EXCEPT ![t] = Idle]
  /\ impl' = Collected(impl, loggerMap, handle, pc')
  /\ UNCHANGED <<loggerMap, appenderMap, handle, gen, ok>>

LogNext ==
  \/ \E cfg \in LoggingConfig : configure_logging(cfg)
  \/ \E n \in Static : update_logger(n)
  \/ \E n \in Static, l \in 0..MaxLevel : set_log_level(n, l)
  \/ \E t \in Thread, n \in Static, l \in 0..MaxLevel : CheckHandle(t, n, l)
  \/ \E t \in Thread, n \in Name, l \in 0..MaxLevel : GetAndCheck(t, n, l)
  \/ \E t \in Thread : GetAgain(t) \/ log(t)

LogSpec == LogInit /\ [][LogNext]_logVars

-----------------------------------------------------------------------------
LogTypeOK ==
  /\ loggerMap \in [Name -> Impl \cup {0}] /\ handle \in [Static -> Impl]
  /\ \A a \in AppenderName : appenderMap[a] = << >> \/ appenderMap[a] \in (0..gen) \X (Nat \ {0})
  /\ \A i \in Impl : impl[i].level \in 0..MaxLevel
  /\ gen \in 0..MaxGeneration /\ ok \in BOOLEAN
  /\ \A t \in Thread : pc[t].at \in {"idle", "handle", "get", "log"} /\ pc[t].impl \in Impl \cup {0}

\* The maps only hold what the last configure_logging made: a logger in
\* logger_map never writes to an appender of an earlier configuration, whatever
\* handles, updates and half-done macros did in between.
MapIsCurrent ==
  \A n \in Name : loggerMap[n] # 0 => \A a \in Range(impl[loggerMap[n]].apps) : a[1] = gen

\* A logger, also one that is only reachable through an old handle, writes to
\* the appenders of one configuration and to each of them once.
OneConfiguration ==
  \A i \in Impl : /\ \A a, b \in Range(impl[i].apps) : a[1] = b[1]
                  /\ IsInjective(impl[i].apps)

\* After a configuration that failed part-way no logger of the map has an
\* appender: what the macros log is lost until logging is configured again.
FailedIsSilent == ~ok => \A n \in Name : loggerMap[n] # 0 => impl[loggerMap[n]].apps = << >>

\* A logger the program holds keeps its appenders until it is updated: a new
\* configuration builds new loggers and never edits one a handle or a thread
\* inside a macro refers to.
HeldIsStable ==
  [][\A i \in Held([n \in Name |-> 0], handle, pc) :
       i \in Held([n \in Name |-> 0], handle', pc') => impl'[i].apps = impl[i].apps]_logVars

\* Loggers and appenders belong together: to one configuration, and to the last
\* one wherever the map leads.
LogConsistent == LogTypeOK /\ MapIsCurrent /\ OneConfiguration /\ FailedIsSilent
=============================================================================
