---------------------------- MODULE LogAppenders ----------------------------
(***************************************************************************)
(* What happens to a message inside logger::log: the GELF appender splits  *)
(* it into datagrams of Body bytes that a udp_socket sends, the dmlog      *)
(* appender writes it to a file with fwrite until everything is written or *)
(* the stream fails.  The network loses, repeats and reorders datagrams.   *)
(* A message is a number m of compressed bytes, whose content is m itself. *)
(* The texts the appenders make are pure functions: log_level, log_context *)
(* and log_message as variants, the columns of a console line, the fields  *)
(* of a GELF message with the ones the configuration adds.                 *)
(***************************************************************************)
EXTENDS ClientCall, SequencesExt, FiniteSetsExt

CONSTANTS
  Body,            \* max_payload_size - header_length
  Header,          \* header_length
  Chunk,           \* number of values of a sequence or count byte (256)
  Sizes,           \* sizes of the messages logged
  LineSize,        \* bytes of a dmlog line
  MaxLogged,       \* messages logged in a behaviour
  MaxField         \* lengths tried for the fields of a console line

ASSUME LogAppendersAssumption ==
  /\ {Body, Header, Chunk, LineSize, MaxLogged, MaxField} \subseteq Nat \ {0} /\ Sizes \subseteq Nat

VARIABLES
  gelf,      \* has the appender an endpoint; its socket: "null", "closed", "open"
  job,       \* where logger::log is: its message and what is sent or written of it
  pending,   \* datagrams handed to async_send_to, kept alive by the handler
  wire,      \* datagrams in the network or received: what a server can see
  out,       \* bytes in the dmlog file, each <<message number, position>>
  is_stopped, \* dmlog_appender::is_stopped
  logged     \* the messages logged so far

appVars == <<gelf, job, pending, wire, out, is_stopped, logged>>

NoJob == [at |-> "idle", m |-> 0, bytes |-> 0, packets |-> 0]

AppInit ==
  /\ gelf = [endpoint |-> FALSE, sock |-> "null"]
  /\ job = NoJob /\ pending = {} /\ wire = {} /\ out = << >> /\ is_stopped = FALSE /\ logged = << >>

\* gelf_appender::initialize: an address is parsed, a name is resolved (or
\* neither), then the socket is made and opened; every failure is swallowed.
initialize ==
  /\ job.at = "idle"
  /\ ~gelf.endpoint
  /\ gelf' \in {[endpoint |-> TRUE, sock |-> "open"],     \* resolved and opened
                [endpoint |-> TRUE, sock |-> "closed"]}   \* resolved, open() threw
  /\ UNCHANGED <<job, pending, wire, out, is_stopped, logged>>

\* logger::log calls the appenders one after the other: GELF, then dmlog.
log_message(m) ==
  /\ job.at = "idle" /\ Len(logged) < MaxLogged
  /\ logged' = Append(logged, m)
  /\ job' = [NoJob EXCEPT !.at = IF gelf.endpoint THEN "gelf" ELSE "dmlog", !.m = m]
  /\ UNCHANGED <<gelf, pending, wire, out, is_stopped>>

-----------------------------------------------------------------------------
(* GELF.  A datagram: the message id, sequence number and count (0 when the  *)
(* message is not split), and the bytes it carries.                          *)

Datagram(id, seq, count, from, to) ==
  [id |-> id, seq |-> seq, count |-> count, from |-> from, to |-> to]
\* Mutant: the last, partial packet is not counted.
total_number_of_packets_Floor(m) == m \div Body
total_number_of_packets(m) == (m + Body - 1) \div Body
bytes_to_send(m, sent) == Min({m - sent, Body})
Fits(m) == m <= Body + Header

NextDatagram ==
  IF Fits(job.m) THEN Datagram(job.m, 0, 0, 0, job.m)
  ELSE Datagram(job.m, (job.packets % Chunk), (total_number_of_packets(job.m) % Chunk),
                job.bytes, job.bytes + bytes_to_send(job.m, job.bytes))

\* udp_socket::send_to: sent at once, or would_block and left to async_send_to
\* with a copy of the shared buffer; other errors are ignored.
send_to(d) ==
  \/ /\ gelf.sock = "open" /\ wire' = wire \cup {d} /\ UNCHANGED pending
  \/ /\ gelf.sock = "open" /\ pending' = pending \cup {d} /\ UNCHANGED wire
  \/ UNCHANGED <<wire, pending>>

GelfSend ==
  /\ job.at = "gelf" /\ (job.bytes < job.m \/ (job.packets = 0 /\ Fits(job.m)))
  /\ send_to(NextDatagram)
  /\ job' = [job EXCEPT !.packets = @ + 1,
                        !.bytes = IF Fits(job.m) THEN job.m ELSE @ + bytes_to_send(job.m, @)]
  /\ UNCHANGED <<gelf, out, is_stopped, logged>>

\* The message is out, and FC_ASSERT compares the packets sent with the count.
GelfDone ==
  /\ job.at = "gelf" /\ job.bytes >= job.m /\ (job.packets > 0 \/ ~Fits(job.m))
  /\ job' = [job EXCEPT !.at = "dmlog", !.bytes = 0, !.packets = 0]
  /\ UNCHANGED <<gelf, pending, wire, out, is_stopped, logged>>

\* The handler of async_send_to: sent late, or an error that is swallowed.
AsyncSent(d) ==
  /\ pending' = pending \ {d}
  /\ wire' \in {wire, wire \cup {d}}
  /\ UNCHANGED <<gelf, job, out, is_stopped, logged>>

-----------------------------------------------------------------------------
(* dmlog.                                                                    *)

Line(n, from, k) == [i \in 1..k |-> <<n, from + i>>]

Rest(written) == job.bytes + written

\* One turn of the loop: fwrite writes some of what remains; nothing written
\* with an errno other than EINTR stops the appender for good.
fwrite(written, eintr) ==
  /\ job.at = "dmlog" /\ ~is_stopped /\ job.bytes < LineSize
  /\ out' = out \o Line(Len(logged), job.bytes, written)
  /\ job' = [job EXCEPT !.bytes = Rest(written)]
  /\ is_stopped' = (written = 0 /\ ~eintr)
  /\ UNCHANGED <<gelf, pending, wire, logged>>

\* Mutant: the loop does not look at is_stopped.
DmlogDone_NoStop ==
  /\ job.at = "dmlog" /\ job.bytes >= LineSize
  /\ job' = NoJob
  /\ UNCHANGED <<gelf, pending, wire, out, is_stopped, logged>>
DmlogDone ==
  /\ job.at = "dmlog" /\ (is_stopped \/ job.bytes >= LineSize)
  /\ job' = NoJob
  /\ UNCHANGED <<gelf, pending, wire, out, is_stopped, logged>>

AppNext ==
  \/ initialize
  \/ \E m \in Sizes : log_message(m)
  \/ GelfSend \/ GelfDone
  \/ \E d \in pending : AsyncSent(d)
  \/ \E written \in 0..(LineSize - job.bytes), eintr \in BOOLEAN : fwrite(written, eintr)
  \/ DmlogDone

\* The logging thread runs on; fwrite does not answer EINTR for ever.
AppFairness ==
  /\ WF_appVars(GelfSend) /\ WF_appVars(GelfDone) /\ WF_appVars(DmlogDone)
  /\ WF_appVars(\E written \in 1..LineSize : written <= LineSize - job.bytes /\ fwrite(written, FALSE))

AppSpec == AppInit /\ [][AppNext]_appVars /\ AppFairness

-----------------------------------------------------------------------------
(* A GELF server puts a message together from count datagrams of one id with *)
(* all the sequence numbers, in whatever order they came.                    *)
Assembled(id, count) ==
  LET got == {d \in wire : d.id = id /\ d.count = count}
  IN /\ got # {}
     /\ count > 0 => \A q \in 0..(count - 1) : \E d \in got : d.seq = q
     /\ count = 0 => Cardinality(got) = 1

\* What a server assembles is a message that was logged, whole and in order:
\* the bytes of consecutive datagrams meet, up to the last byte.  (For messages
\* whose number of packets fits the count byte.)
GelfReassembles ==
  \A d \in wire : total_number_of_packets(d.id) < Chunk /\ Assembled(d.id, d.count) =>
    LET got == {e \in wire : e.id = d.id /\ e.count = d.count} IN
    /\ d.id \in Range(logged)
    /\ \E e \in got : e.from = 0
    /\ \A e \in got : e.to # d.id => \E f \in got : f.seq = e.seq + 1 /\ f.from = e.to

\* FC_ASSERT( number_of_packets_sent == total_number_of_packets ) holds, and no
\* datagram is larger than the payload limit, whatever happens to the datagrams.
PacketsCounted ==
  /\ job.at = "gelf" /\ ~Fits(job.m) /\ job.bytes >= job.m => job.packets = total_number_of_packets(job.m)
  /\ \A d \in wire \cup pending : d.to - d.from + (IF d.count = 0 THEN 0 ELSE Header) <= Body + Header

\* The dmlog file holds whole lines in the order they were logged; only the
\* line being written, or the one at which the appender stopped, is cut off,
\* and nothing follows it.
DmlogWhole ==
  \A i \in DOMAIN out :
    /\ i > 1 => out[i] = (IF out[i - 1][2] = LineSize THEN <<out[i - 1][1] + 1, 1>>
                          ELSE <<out[i - 1][1], out[i - 1][2] + 1>>)
    /\ i = Len(out) /\ out[i][2] < LineSize => is_stopped \/ (job.at = "dmlog" /\ out[i][1] = Len(logged))

\* logger::log comes back: no outcome of the sends and of fwrite keeps the
\* thread, which holds log_mutex, inside an appender for ever.
LogReturns == job.at # "idle" ~> job.at = "idle"

\* No appender tears, mixes or miscounts what it was given.
AppendersWhole == GelfReassembles /\ PacketsCounted /\ DmlogWhole

-----------------------------------------------------------------------------
(* Levels, contexts and messages as variants. *)

Level == {"all", "debug", "info", "warn", "error", "off"}

\* to_variant and from_variant of log_level: the name, or a bad cast.
level_to_variant(l) == l
level_from_variant(s) == IF s \in Level THEN Ok(s) ELSE Throw("all")

(* A log_context is its level, file, line, method, hostname, thread and task *)
(* names, timestamp and context; here the ones whose conversion differs.     *)
Context == [level : Level, file : {"f"}, task_name : {"", "task"}, context : {"", "c1", "c1 -> c2"}]

\* log_context::to_variant: the task name is not written, the context only if there is one.
context_to_variant(c) ==
  [f \in {"level", "file"} \cup (IF c.context # "" THEN {"context"} ELSE {}) |->
     IF f = "level" THEN level_to_variant(c.level) ELSE c[f]]
\* log_context( variant )
context_from_variant(v) ==
  [level |-> level_from_variant(v["level"]).value, file |-> v["file"],
   task_name |-> IF "task_name" \in DOMAIN v THEN v["task_name"] ELSE "",
   context |-> IF "context" \in DOMAIN v THEN v["context"] ELSE ""]
message_to_variant(m) == [context |-> context_to_variant(m.context), format |-> m.format, data |-> m.data]
message_from_variant(v) == [context |-> context_from_variant(v.context), format |-> v.format, data |-> v.data]

-----------------------------------------------------------------------------
(* The console line, as the widths of its columns.                           *)

fixed_size(s, len) == Min({s, len}) + (IF len < s THEN s - len ELSE 0)

\* The position of the last ':' of the method, if any, starts the name.
method_name(me, colon) == Min({20, IF colon > 0 THEN me - colon ELSE me})

\* <3> for the levels syslog knows, when JOURNAL_STREAM is set.
syslog_header(use, level) == IF use /\ level \in {"error", "warn", "info", "debug"} THEN 3 ELSE 0

\* Everything in front of the message: level, time (23 characters), thread,
\* file and line, method (a column only if there is one), bracket.
LinePrefix(m) ==
  syslog_header(m.syslog, m.level)
    + fixed_size(5, m.levelName) + 1 + 23 + 1 + fixed_size(9, m.thread) + 1
    + fixed_size(29, Min({22, m.file}) + 1 + fixed_size(6, m.line)) + 1
    + (IF m.method > 0 THEN fixed_size(20, method_name(m.method, m.colon)) + 1 ELSE 0) + 2

-----------------------------------------------------------------------------
(* The GELF fields.  Field names: the ones the appender sets, a reserved one *)
(* it does not set ("_id"), and free ones, valid or not.                     *)

OwnFields == {"version", "host", "short_message", "timestamp", "_timestamp_ns", "_log_id", "level",
              "context", "_line", "_file", "_method_name", "_thread_name", "_task_name"}
Underscored == {"_timestamp_ns", "_log_id", "_line", "_file", "_method_name", "_thread_name", "_task_name",
                "_id", "_user", "_zone"}
reserved_field_names ==
  {"_id", "_timestamp_ns", "_log_id", "_line", "_file", "_method_name", "_thread_name", "_task_name"}

\* gelf_appender::impl( args ): endpoint and host are taken out, the rest are
\* user fields, refused if reserved or not of the form _name.
user_fields(args) == args \ {"endpoint", "host"}
GelfAccepts(args) ==
  /\ {"endpoint", "host"} \subseteq args
  /\ user_fields(args) \cap reserved_field_names = {}
  /\ user_fields(args) \subseteq Underscored

\* The message: the appender's fields, then the user's over them.
GelfMessage(args, has_context, has_task) ==
  LET own == OwnFields \ ((IF has_context THEN {} ELSE {"context"}) \cup (IF has_task THEN {} ELSE {"_task_name"}))
  IN [f \in own \cup user_fields(args) |-> IF f \in user_fields(args) THEN "user" ELSE "own"]

-----------------------------------------------------------------------------
Widths == {0, 5, 22, 23, MaxField}
ConvertMessage == Calls("message", [context : Context, format : {"fmt"}, data : {"args"}])
WriteConsoleLine ==
  Calls("console", [syslog : BOOLEAN, level : Level, levelName : 3..5, thread : Widths, file : Widths,
                    line : 1..7, method : Widths, colon : {0, 1}])
MakeGelf == Calls("gelf", [args : {a \cup {"endpoint", "host"} : a \in SUBSET (Underscored \cup {"level", "bad name"})},
                           has_context : BOOLEAN, has_task : BOOLEAN])
LogTextNext == ConvertMessage \/ WriteConsoleLine \/ MakeGelf

\* A log message crosses a variant unchanged, except for the task name, which is lost.
MessageRoundTrip ==
  call.name = "message" =>
    message_from_variant(message_to_variant(call.in)) = [call.in EXCEPT !.context.task_name = ""]

\* The messages on the console start in one column, whatever the lengths of
\* thread, file, line and method are (if there is a method name).
ConsoleAligned ==
  call.name = "console" /\ call.in.method > 0 =>
    LinePrefix(call.in) - syslog_header(call.in.syslog, call.in.level) = 93

\* No field of the configuration replaces one the appender sets, and none
\* that GELF reserves is sent.
GelfFieldsKept ==
  call.name = "gelf" /\ GelfAccepts(call.in.args) =>
    LET msg == GelfMessage(call.in.args, call.in.has_context, call.in.has_task)
    IN \A f \in DOMAIN msg : (f \in OwnFields => msg[f] = "own") /\ f # "_id"

\* What a message says survives its conversions and its layout.
LogTextKept == MessageRoundTrip /\ ConsoleAligned /\ GelfFieldsKept
=============================================================================
