------------------------------- MODULE Zipkin -------------------------------
(***************************************************************************)
(* fc::zipkin, the client that reports trace spans to a zipkin server: the *)
(* RAII spans the application's threads create, move and destroy, the      *)
(* strand they post to, the one worker thread that sends each span by an   *)
(* HTTP post, the count of failures that disables it, and shutdown() with  *)
(* its toggled flag.                                                       *)
(*                                                                         *)
(* zipkin::log reads the flags and only then posts: the two are separate   *)
(* steps here, between which any other thread may run.                     *)
(***************************************************************************)
EXTENDS Integers, Sequences, FiniteSets

CONSTANTS
  Obj,           \* zipkin_span objects the application has room for
  NoSpan,
  MaxErrors,     \* max_consecutive_errors, 9 in the code
  IdMod,         \* 2^64, the modulus of next_id
  MaxSpans,      \* bound on the spans created
  MaxShutdowns   \* bound on the application's calls of shutdown()

ASSUME ZipkinAssumption ==
  /\ NoSpan \notin [n : Nat, id : Nat]
  /\ IdMod \in Nat \ {0, 1}
  /\ {MaxErrors, MaxSpans, MaxShutdowns} \subseteq Nat

VARIABLES
  zip,        \* zipkin_config's pointer: "null", "live", "dead", or "terminated"
  next_id,
  created,    \* number of spans created so far
  obj,        \* the span data each object holds
  flagged,    \* spans to which the template to_id gave the id 0
  at,         \* where its object is: "free", "alive", "checked" (inside log())
  queue,      \* handlers posted to work_strand
  current,    \* the span the worker is posting to the server
  reported,   \* outcome of every post made: [n, ok]
  consecutive_errors,
  stopped,
  work_guard,
  worker,     \* "none", "running", "ended" (ctx.run returned)
  main,       \* the thread that shuts down: "idle", "joining", "joining_dtor"
  joined,     \* thread.join() was done, the thread is not joinable
  shutdowns,  \* calls of shutdown() so far
  late,       \* spans posted after ctx.run returned
  dropped     \* spans refused by zipkin::log or by impl::log

spanVars == <<next_id, created, obj, at, flagged>>
workVars == <<queue, current, reported, consecutive_errors, worker, late, dropped>>
stopVars == <<stopped, work_guard, main, joined, shutdowns>>
zipkinVars == <<zip, spanVars, workVars, stopVars>>

Span == [n : 1..MaxSpans, id : 0..(IdMod - 1)]

ZipkinInit ==
  /\ zip = "null"
  /\ next_id = 0 /\ created = 0
  /\ obj = [o \in Obj |-> NoSpan]
  /\ at = [o \in Obj |-> "free"]
  /\ flagged = {}
  /\ queue = << >> /\ current = NoSpan /\ reported = << >>
  /\ late = {} /\ dropped = {}
  /\ consecutive_errors = 0
  /\ worker = "none"
  /\ stopped = 0 /\ work_guard = TRUE /\ main = "idle" /\ joined = FALSE
  /\ shutdowns = 0

\* zipkin_config::init: the object is made and its thread started.
ConfigInit ==
  /\ zip = "null"
  /\ zip' = "live"
  /\ worker' = "running"
  /\ UNCHANGED <<spanVars, queue, current, reported, consecutive_errors, late, dropped,
                 stopVars>>

-----------------------------------------------------------------------------
(* Spans. *)

\* Mutant: the seed is not drawn again when the counter has wrapped.
get_next_unique_id_NoReseed ==
  IF created = 0 THEN 1..(IdMod - 1) ELSE {next_id}

\* The ids zipkin::get_next_unique_id may return: the counter, or any nonzero
\* seed when the counter is 0, at the start and each time it has wrapped.
get_next_unique_id ==
  IF next_id = 0 THEN 1..(IdMod - 1) ELSE {next_id}

\* A trace, or a span of it: fc_create_trace, fc_create_span and
\* fc_create_span_from_token, all of which first test is_enabled().  Which
\* trace it belongs to, its name and its tags are carried along unread.
Create(o) ==
  /\ zip = "live"
  /\ at[o] = "free"
  /\ created < MaxSpans
  /\ \E id \in get_next_unique_id :
       /\ obj' = [obj EXCEPT ![o] = [n |-> created + 1, id |-> id]]
       /\ next_id' = (id + 1) % IdMod
  /\ at' = [at EXCEPT ![o] = "alive"]
  /\ created' = created + 1
  /\ UNCHANGED <<zip, flagged, workVars, stopVars>>

\* zipkin_span::to_id of a sha256: the last word of the hash, except for 0.
to_id(h) == IF h = 0 THEN 1 ELSE h

\* The template to_id for any other type: the last word, whatever it is.
to_id_T(h) == h

\* fc_create_trace_with_id: the id is taken from a hash the caller has, a sha256
\* or another type with four words, and the counter is left alone.
CreateWithId(o, h, sha) ==
  /\ zip = "live"
  /\ at[o] = "free"
  /\ created < MaxSpans
  /\ LET id == IF sha THEN to_id(h) ELSE to_id_T(h)
     IN  /\ obj' = [obj EXCEPT ![o] = [n |-> created + 1, id |-> id]]
         /\ flagged' = IF ~sha /\ id = 0 THEN flagged \cup {created + 1} ELSE flagged
  /\ at' = [at EXCEPT ![o] = "alive"]
  /\ created' = created + 1
  /\ UNCHANGED <<zip, next_id, workVars, stopVars>>

\* Mutant: the moved-from object keeps its id.
Move_KeepId(o, p) ==
  /\ at[o] = "alive" /\ at[p] = "free"
  /\ obj' = [obj EXCEPT ![p] = obj[o]]
  /\ at' = [at EXCEPT ![p] = "alive"]
  /\ UNCHANGED <<zip, next_id, created, flagged, workVars, stopVars>>

\* zipkin_span's move constructor: the source is left with id 0.
Move(o, p) ==
  /\ at[o] = "alive" /\ at[p] = "free"
  /\ obj' = [obj EXCEPT ![p] = obj[o], ![o].id = 0]
  /\ at' = [at EXCEPT ![p] = "alive"]
  /\ UNCHANGED <<zip, next_id, created, flagged, workVars, stopVars>>

\* zipkin::log returns without posting.
Refuses == consecutive_errors > MaxErrors \/ stopped = 1

\* ~zipkin_span: an object with id 0 is done; otherwise log() reads the flags
\* and either drops the span or goes on to post it.
Destroy(o) ==
  /\ zip = "live"
  /\ at[o] = "alive"
  /\ IF obj[o].id = 0 \/ Refuses
       THEN /\ at' = [at EXCEPT ![o] = "free"]
            /\ obj' = [obj EXCEPT ![o] = NoSpan]
            /\ dropped' = IF obj[o].id = 0 THEN dropped ELSE dropped \cup {obj[o].n}
       ELSE /\ at' = [at EXCEPT ![o] = "checked"]
            /\ UNCHANGED <<obj, dropped>>
  /\ UNCHANGED <<zip, next_id, created, flagged, queue, current, reported,
                 consecutive_errors, worker, late, stopVars>>

\* The rest of zipkin::log: the handler is posted, whatever happened since.
Post(o) ==
  /\ at[o] = "checked"
  /\ queue' = Append(queue, obj[o])
  /\ late' = IF worker = "ended" THEN late \cup {obj[o].n} ELSE late
  /\ at' = [at EXCEPT ![o] = "free"]
  /\ obj' = [obj EXCEPT ![o] = NoSpan]
  /\ UNCHANGED <<zip, next_id, created, flagged, current, reported,
                 consecutive_errors, worker, dropped, stopVars>>

-----------------------------------------------------------------------------
(* The worker: ctx.run() on its thread, one handler of the strand at a time, *)
(* for as long as the process lives.                                         *)

\* The handler starts: impl::log drops the span if too many posts failed.
TakeHandler ==
  /\ zip # "terminated"
  /\ worker = "running" /\ current = NoSpan /\ queue # << >>
  /\ IF consecutive_errors > MaxErrors
       THEN /\ dropped' = dropped \cup {Head(queue).n}
            /\ UNCHANGED current
       ELSE /\ current' = Head(queue)
            /\ UNCHANGED dropped
  /\ queue' = Tail(queue)
  /\ UNCHANGED <<zip, spanVars, reported, consecutive_errors, worker, late, stopVars>>

\* Mutant: a post that succeeds does not end the run of errors.
PostSync_NoReset(ok) ==
  /\ zip # "terminated"
  /\ current # NoSpan
  /\ reported' = Append(reported, [n |-> current.n, ok |-> ok])
  /\ consecutive_errors' = IF ok THEN consecutive_errors ELSE consecutive_errors + 1
  /\ current' = NoSpan
  /\ UNCHANGED <<zip, spanVars, queue, worker, late, dropped, stopVars>>

\* http.post_sync returns, and the run of errors ends, or throws (a bad url,
\* no connection, a timeout, an error status), which is counted and swallowed.
PostSync(ok) ==
  /\ zip # "terminated"
  /\ current # NoSpan
  /\ reported' = Append(reported, [n |-> current.n, ok |-> ok])
  /\ consecutive_errors' = IF ok THEN 0 ELSE consecutive_errors + 1
  /\ current' = NoSpan
  /\ UNCHANGED <<zip, spanVars, queue, worker, late, dropped, stopVars>>

\* Mutant: the context is stopped rather than drained.
RunReturns_Stop ==
  /\ zip # "terminated"
  /\ worker = "running" /\ ~work_guard /\ current = NoSpan
  /\ worker' = "ended"
  /\ UNCHANGED <<zip, spanVars, queue, current, reported, consecutive_errors,
                 late, dropped, stopVars>>

\* ctx.run() returns when no guard is held and no handler is left.
RunReturns ==
  /\ zip # "terminated"
  /\ worker = "running" /\ ~work_guard /\ queue = << >> /\ current = NoSpan
  /\ worker' = "ended"
  /\ UNCHANGED <<zip, spanVars, queue, current, reported, consecutive_errors,
                 late, dropped, stopVars>>

-----------------------------------------------------------------------------
(* Shutdown. *)

\* zipkin_config::shutdown.  "stopped ^= 1" yields the toggled value: a call
\* that turns it to 1 returns at once, one that turns it back to 0 releases
\* the guard and joins.  A thread already joined cannot be joined again.
Shutdown ==
  /\ zip = "live" /\ main = "idle" /\ shutdowns < MaxShutdowns
  /\ shutdowns' = shutdowns + 1
  /\ stopped' = 1 - stopped
  /\ IF stopped' = 1
       THEN UNCHANGED <<work_guard, main>>
       ELSE /\ work_guard' = FALSE
            /\ main' = IF joined THEN "idle" ELSE "joining"
  /\ UNCHANGED <<zip, joined, spanVars, workVars>>

\* ~zipkin at the end of the process, when no thread uses a span any more:
\* shutdown() once more, then the members.  Destroying a thread that was not
\* joined is std::terminate.
Destruct ==
  /\ zip = "live" /\ main = "idle"
  /\ \A o \in Obj : at[o] = "free"
  /\ stopped' = 1 - stopped
  /\ IF stopped' = 1 \/ joined
       THEN /\ zip' = IF joined THEN "dead" ELSE "terminated"
            /\ UNCHANGED <<work_guard, main>>
       ELSE /\ work_guard' = FALSE
            /\ main' = "joining_dtor"
            /\ UNCHANGED zip
  /\ UNCHANGED <<joined, shutdowns, spanVars, workVars>>

\* thread.join() returns.
Join ==
  /\ main # "idle" /\ worker = "ended"
  /\ joined' = TRUE
  /\ main' = "idle"
  /\ zip' = IF main = "joining_dtor" THEN "dead" ELSE zip
  /\ UNCHANGED <<stopped, work_guard, shutdowns, spanVars, workVars>>

Ended == zip \in {"dead", "terminated"} /\ UNCHANGED zipkinVars

ZipkinNext ==
  \/ ConfigInit
  \/ \E o \in Obj : Create(o) \/ Destroy(o) \/ Post(o)
  \/ \E o \in Obj, h \in 0..(IdMod - 1), sha \in BOOLEAN : CreateWithId(o, h, sha)
  \/ \E o, p \in Obj : Move(o, p)
  \/ TakeHandler
  \/ \E ok \in BOOLEAN : PostSync(ok)
  \/ RunReturns
  \/ Shutdown
  \/ Destruct
  \/ Join
  \/ Ended

\* The worker thread runs whenever it has something to run, and every post it
\* makes ends by its deadline; a thread that passed log()'s check goes on.
ZipkinFairness ==
  /\ WF_zipkinVars(TakeHandler) /\ WF_zipkinVars(RunReturns) /\ WF_zipkinVars(Join)
  /\ WF_zipkinVars(\E ok \in BOOLEAN : PostSync(ok))
  /\ \A o \in Obj : WF_zipkinVars(Post(o))

ZipkinSafeSpec == ZipkinInit /\ [][ZipkinNext]_zipkinVars
ZipkinSpec == ZipkinSafeSpec /\ ZipkinFairness

-----------------------------------------------------------------------------
(* Properties. *)

TypeOK ==
  /\ zip \in {"null", "live", "dead", "terminated"}
  /\ next_id \in 0..(IdMod - 1)
  /\ created \in 0..MaxSpans
  /\ obj \in [Obj -> Span \cup {NoSpan}]
  /\ at \in [Obj -> {"free", "alive", "checked"}]
  /\ queue \in Seq(Span)
  /\ current \in Span \cup {NoSpan}
  /\ reported \in Seq([n : 1..MaxSpans, ok : BOOLEAN])
  /\ consecutive_errors \in 0..(MaxErrors + 1)
  /\ stopped \in {0, 1}
  /\ work_guard \in BOOLEAN
  /\ worker \in {"none", "running", "ended"}
  /\ main \in {"idle", "joining", "joining_dtor"}
  /\ joined \in BOOLEAN
  /\ shutdowns \in 0..MaxShutdowns
  /\ late \subseteq 1..MaxSpans
  /\ dropped \subseteq 1..MaxSpans
  /\ flagged \subseteq 1..MaxSpans

\* The object holds a span that was not moved out of it: ~zipkin_span logs it.
Owns(o) == at[o] # "free" /\ obj[o].id # 0

\* The number n is among the spans of the worker.
Known(n) ==
  \/ \E i \in 1..Len(reported) : reported[i].n = n
  \/ current # NoSpan /\ current.n = n
  \/ \E i \in 1..Len(queue) : queue[i].n = n

\* The span is on its way: some object will log it, the worker has it, or it was
\* refused because reporting is disabled or stopped.
Accounted(n) == (\E o \in Obj : Owns(o) /\ obj[o].n = n) \/ Known(n) \/ n \in dropped

\* No span is lost between its creation and the server, through wraps of the
\* counter, moves, destructors and refusals, but for exactly those to which the
\* template to_id gave the id 0, in spite of zipkin.cpp's "avoid 0 since id of 0 is
\* used as a flag": their destructor takes them for moved-from ones.
NothingLost == \A n \in 1..created : Accounted(n) <=> n \notin flagged

\* The spans that reached the worker, oldest first.
Logged ==
  [i \in 1..Len(reported) |-> reported[i].n]
    \o (IF current = NoSpan THEN << >> ELSE <<current.n>>)
    \o [i \in 1..Len(queue) |-> queue[i].n]

\* A span is logged at most once, through any chain of moves and destructors
\* of the objects that held it, and no object still holds one that was logged.
LoggedOnce ==
  /\ \A i, j \in 1..Len(Logged) : Logged[i] = Logged[j] => i = j
  /\ \A o \in Obj : at[o] # "free" /\ obj[o].id # 0
                      => \A i \in 1..Len(Logged) : Logged[i] # obj[o].n

\* The last k posts failed.
FailedLast(k) ==
  /\ Len(reported) >= k
  /\ \A i \in (Len(reported) - k + 1)..Len(reported) : ~reported[i].ok

\* Reporting is disabled by MaxErrors + 1 failures in a row (the code's limit is
\* exceeded, not met: see NineDisable) and by nothing else, and not one
\* post is made after that, not even for the spans that were queued or past
\* log()'s check when the last failure came.
DisabledByFailures ==
  /\ consecutive_errors > MaxErrors <=> FailedLast(MaxErrors + 1)
  /\ ~FailedLast(MaxErrors + 2)
  /\ FailedLast(MaxErrors + 1) => current = NoSpan

\* zipkin.hpp of init(): "9 consecutive failures and zipkin is disabled".
NineDisable == FailedLast(MaxErrors) => consecutive_errors > MaxErrors

\* When the thread was joined the queue was drained: what is left in it was
\* posted by a thread that passed log()'s check before and posted after.
JoinedMeansDrained ==
  joined => /\ current = NoSpan
            /\ \A i \in 1..Len(queue) : queue[i].n \in late

\* Every span posted while the worker ran is handled: sent, failed, or dropped
\* because reporting is disabled; unless ~zipkin terminates the process first.
SpanHandled ==
  \A n \in 1..MaxSpans :
    ((\E i \in 1..Len(queue) : queue[i].n = n) /\ n \notin late)
      ~> \/ zip = "terminated"
         \/ /\ \A i \in 1..Len(queue) : queue[i].n # n
            /\ current = NoSpan \/ (current # NoSpan /\ current.n # n)

\* zipkin.hpp of shutdown(): "finish logging all queued up spans".
ShutdownDrains ==
  [][Shutdown /\ main' = "idle" => queue = << >> /\ current = NoSpan]_zipkinVars

\* Failures alone disable reporting, and a joined thread has drained its queue.
ZipkinSound == TypeOK /\ DisabledByFailures /\ JoinedMeansDrained
=============================================================================
