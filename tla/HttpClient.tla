----------------------------- MODULE HttpClient -----------------------------
(***************************************************************************)
(* fc::http_client: synchronous HTTP posts over a cache of kept-alive      *)
(* connections, each network operation run asynchronously against a        *)
(* deadline timer on the client's own io_context.                          *)
(*                                                                         *)
(* sync_do_with_deadline is modelled handler by handler: operations and    *)
(* the timer complete in any order, their handlers queue up in "ready",    *)
(* and RunOne is one turn of its loop.  The handlers write to local        *)
(* variables of the call (f_result, timer_expired, timer_cancelled), which *)
(* are the variables of the same names here.  The server answers the       *)
(* requests of a connection in order, at any time, or closes it.           *)
(***************************************************************************)
EXTENDS Naturals, Sequences

CONSTANTS
  Url,           \* destinations: [proto, host, port], port 0 when none is given
  MaxRequests,   \* bound on the calls of post_sync
  None           \* std::nullopt; no connection; no response

ASSUME UrlAssumption ==
  /\ Url \subseteq [proto : {"http", "https", "unix"}, host : STRING, port : Nat]
  /\ MaxRequests \in Nat

\* The urls of the small instance: one host with either protocol, without a port
\* and with the port that stands in for it in the cache, and a unix socket.
SmallUrls == [proto : {"http", "https"}, host : {"h"}, port : {0, 80}]
               \cup {[proto |-> "unix", host |-> "s", port |-> 0]}

VARIABLES
  _connections,     \* connection_map
  dest,             \* the url of the call in progress
  req,              \* its number
  wait,             \* the sync_do_with_deadline in progress, or "idle"
  op,               \* the asynchronous operation outstanding, or "none"
  timer,            \* "none", "armed" or "queued"
  ready,            \* handlers ready to run, in order
  f_result, timer_expired, timer_cancelled,
  cancelled,        \* of sync_connect_with_timeout
  res,              \* the response read
  last              \* how the last call ended

waitVars == <<wait, op, timer, ready, f_result, timer_expired, timer_cancelled, cancelled>>
vars == <<_connections, dest, req, waitVars, res, last>>

-----------------------------------------------------------------------------
(* Destinations and the cache. *)

default_proto_ports == [proto \in {"http", "https"} |-> IF proto = "http" THEN 80 ELSE 443]

\* Where a url leads to: create_raw_connection, create_ssl_connection and
\* create_unix_connection.
Endpoint(u) ==
  IF u.proto = "unix" THEN <<u.host, 0>>
  ELSE <<u.host, IF u.port # 0 THEN u.port ELSE default_proto_ports[u.proto]>>

\* Port 80 stands in for a missing one, whatever the protocol.
url_to_host_key(u) ==
  <<u.proto, u.host, IF u.port # 0 THEN u.port ELSE 80>>

Key == {url_to_host_key(u) : u \in Url}

\* A connection: its other end, the requests on their way or unanswered, the
\* responses on their way back, and whether the server has closed it.
NewConnection(u) ==
  [peer |-> Endpoint(u), requests |-> << >>, responses |-> << >>, closed |-> FALSE]

Response == [of : Nat, keep_alive : BOOLEAN, status : {"ok", "error"}]

Connection ==
  [peer : {Endpoint(u) : u \in Url}, requests : Seq(1..MaxRequests),
   responses : Seq(Response), closed : BOOLEAN]

ASSUME NoneAssumption ==
  None \notin Connection /\ None \notin Response /\ None \notin {"ok", "error", "aborted"}

Init ==
  /\ _connections = [k \in Key |-> None]
  /\ dest = None /\ req = 0
  /\ wait = "idle" /\ op = "none" /\ timer = "none" /\ ready = << >>
  /\ f_result = None /\ timer_expired = FALSE /\ timer_cancelled = FALSE
  /\ cancelled = FALSE
  /\ res = None /\ last = None

-----------------------------------------------------------------------------
(* Running one operation against the deadline. *)

\* sync_do_with_deadline up to its loop: fresh locals, the timer armed, the
\* operation started (f(f_result)).
StartWait(w) ==
  /\ wait' = w
  /\ op' = IF w = "connect" THEN "resolve" ELSE w
  /\ timer' = "armed"
  /\ ready' = << >>
  /\ f_result' = None /\ timer_expired' = FALSE /\ timer_cancelled' = FALSE
  /\ cancelled' = FALSE

\* The outstanding operation completes and its handler is ready.  A read
\* succeeds with the oldest response of the connection.
Completes(ec) ==
  /\ op # "none"
  /\ ready' = Append(ready, [handler |-> op, ec |-> ec])
  /\ op' = "none"
  /\ IF op = "read" /\ ec = "ok"
       THEN LET k == url_to_host_key(dest)
            IN  /\ _connections[k].responses # << >>
                /\ res' = Head(_connections[k].responses)
                /\ _connections' = [_connections EXCEPT ![k].responses = Tail(@)]
       ELSE UNCHANGED <<_connections, res>>
  /\ UNCHANGED <<dest, req, wait, timer, f_result, timer_expired, timer_cancelled,
                 cancelled, last>>

\* The deadline passes: the timer's handler is queued with success.
DeadlinePasses ==
  /\ timer = "armed"
  /\ timer' = "queued"
  /\ ready' = Append(ready, [handler |-> "timer", ec |-> "ok"])
  /\ UNCHANGED <<_connections, dest, req, wait, op, f_result, timer_expired,
                 timer_cancelled, cancelled, res, last>>

\* Mutant: the timer's handler does not look at timer_cancelled.
Expires_Always(h) == h.handler = "timer"

\* The timer's handler: too late once the result is there.
Expires(h) == h.handler = "timer" /\ ~timer_cancelled

\* The resolver's handler goes on to connect, unless it was cancelled.
Connects(h) == h.handler = "resolve" /\ h.ec = "ok" /\ ~cancelled

\* The final handler of the operation, which emplaces the result.
Result(h) ==
  IF h.handler = "timer" \/ (h.handler = "resolve" /\ h.ec = "ok")
    THEN f_result
    ELSE h.ec

\* Mutant: the cancel function of the read is missing.
CanCancel_NotRead(o) == o \notin {"none", "connect", "read"}

\* The cancel function reaches the resolver of a connect but not its socket;
\* the other waits cancel the socket.
CanCancel(o) == o \notin {"none", "connect"}

\* One turn of the loop: run_one() runs a handler, then the body cancels the
\* timer if there is a result, or the operation if the deadline has passed.
RunOne ==
  /\ ready # << >>
  /\ LET h    == Head(ready)
         rest == Tail(ready)
         o    == IF Connects(h) THEN "connect" ELSE op
         t    == IF h.handler = "timer" THEN "none" ELSE timer
     IN  /\ f_result' = Result(h)
         /\ timer_expired' = (timer_expired \/ Expires(h))
         /\ \/ /\ f_result' # None
               /\ timer_cancelled' = TRUE
               /\ timer' = IF t = "armed" THEN "queued" ELSE t
               /\ ready' = IF t = "armed"
                             THEN Append(rest, [handler |-> "timer", ec |-> "aborted"])
                             ELSE rest
               /\ op' = o
               /\ UNCHANGED cancelled
            \/ /\ f_result' = None /\ timer_expired'
               /\ cancelled' = TRUE
               /\ ready' = IF CanCancel(o)
                             THEN Append(rest, [handler |-> o, ec |-> "aborted"])
                             ELSE rest
               /\ op' = IF CanCancel(o) THEN "none" ELSE o
               /\ timer' = t
               /\ UNCHANGED timer_cancelled
            \/ /\ f_result' = None /\ ~timer_expired'
               /\ ready' = rest /\ op' = o /\ timer' = t
               /\ UNCHANGED <<timer_cancelled, cancelled>>
  /\ UNCHANGED <<_connections, dest, req, wait, res, last>>

\* Mutant: the loop is left as soon as there is a result.
LoopEnds_AtResult ==
  wait # "idle" /\ (f_result # None \/ (ready = << >> /\ op = "none" /\ timer = "none"))

\* run_one() returns 0: no handler is left, ready or outstanding.
LoopEnds == wait # "idle" /\ ready = << >> /\ op = "none" /\ timer = "none"

\* What sync_do_with_deadline returns.
ErrorCode == IF timer_expired THEN "timed_out" ELSE f_result

-----------------------------------------------------------------------------
(* post_sync. *)

\* The request is handed to the connection and the write is started.
StartWrite(u, n, conn) ==
  /\ _connections' = [_connections EXCEPT
       ![url_to_host_key(u)] = [conn EXCEPT !.requests = Append(@, n)]]
  /\ StartWait("write")

\* post_sync with a cached connection: get_connection finds it.  Its own end is
\* open (the client closes a socket only by erasing it), so check_closed keeps it.
PostOnCached(u) ==
  /\ wait = "idle" /\ req < MaxRequests
  /\ _connections[url_to_host_key(u)] # None
  /\ dest' = u /\ req' = req + 1 /\ res' = None
  /\ StartWrite(u, req + 1, _connections[url_to_host_key(u)])
  /\ UNCHANGED last

\* post_sync without one: create_connection resolves and connects first.
PostOnNew(u) ==
  /\ wait = "idle" /\ req < MaxRequests
  /\ _connections[url_to_host_key(u)] = None
  /\ u.proto \in {"http", "https"}
  /\ dest' = u /\ req' = req + 1 /\ res' = None
  /\ StartWait("connect")
  /\ UNCHANGED <<_connections, last>>

\* A unix socket is connected by a blocking call, which fails or succeeds.
PostOnUnix(u, ok) ==
  /\ wait = "idle" /\ req < MaxRequests
  /\ _connections[url_to_host_key(u)] = None
  /\ u.proto = "unix"
  /\ dest' = u /\ req' = req + 1 /\ res' = None
  /\ IF ok
       THEN StartWrite(u, req + 1, NewConnection(u)) /\ UNCHANGED last
       ELSE /\ last' = [req |-> req + 1, how |-> "failed", of |-> 0]
            /\ UNCHANGED <<_connections, waitVars>>

\* The connection is established: a TLS handshake for https, then the write.
Connected ==
  /\ LoopEnds /\ ErrorCode = "ok"
  /\ wait \in {"connect", "handshake"}
  /\ IF wait = "connect" /\ dest.proto = "https"
       THEN StartWait("handshake") /\ UNCHANGED _connections
       ELSE StartWrite(dest, req, NewConnection(dest))
  /\ UNCHANGED <<dest, req, res, last>>

\* The request was sent: the response is read.
Written ==
  /\ LoopEnds /\ ErrorCode = "ok" /\ wait = "write"
  /\ StartWait("read")
  /\ UNCHANGED <<_connections, dest, req, res, last>>

\* The response was read: the connection is kept if the server keeps it, and
\* the call returns it or, for a 500 or a 404, throws.
ResponseRead ==
  /\ LoopEnds /\ ErrorCode = "ok" /\ wait = "read"
  /\ _connections' = IF res.keep_alive THEN _connections
                     ELSE [_connections EXCEPT ![url_to_host_key(dest)] = None]
  /\ last' = [req |-> req, of |-> res.of,
              how |-> IF res.status = "ok" THEN "returned" ELSE "threw"]
  /\ wait' = "idle"
  /\ UNCHANGED <<dest, req, op, timer, ready, f_result, timer_expired,
                 timer_cancelled, cancelled, res>>

\* Mutant: the scoped eraser is missing.
Failed_NoEraser ==
  /\ LoopEnds /\ ErrorCode # "ok"
  /\ last' = [req |-> req, how |-> "failed", of |-> 0]
  /\ wait' = "idle"
  /\ UNCHANGED <<_connections, dest, req, op, timer, ready, f_result, timer_expired,
                 timer_cancelled, cancelled, res>>

\* The wait failed or timed out: the call throws, and the scoped eraser of
\* post_sync removes the connection (one that was never stored is just dropped).
Failed ==
  /\ LoopEnds /\ ErrorCode # "ok"
  /\ _connections' = [_connections EXCEPT ![url_to_host_key(dest)] = None]
  /\ last' = [req |-> req, how |-> "failed", of |-> 0]
  /\ wait' = "idle"
  /\ UNCHANGED <<dest, req, op, timer, ready, f_result, timer_expired,
                 timer_cancelled, cancelled, res>>

-----------------------------------------------------------------------------
(* The server. *)

\* It answers the oldest request of a connection; without keep-alive it closes.
Answers(k, keep_alive, status) ==
  /\ _connections[k] # None /\ ~_connections[k].closed
  /\ _connections[k].requests # << >>
  /\ _connections' = [_connections EXCEPT
       ![k].requests = Tail(@),
       ![k].responses = Append(@, [of |-> Head(_connections[k].requests),
                                   keep_alive |-> keep_alive, status |-> status]),
       ![k].closed = ~keep_alive]
  /\ UNCHANGED <<dest, req, waitVars, res, last>>

\* It closes a connection, idle or not: the client is not told.
Closes(k) ==
  /\ _connections[k] # None /\ ~_connections[k].closed
  /\ _connections' = [_connections EXCEPT ![k].closed = TRUE]
  /\ UNCHANGED <<dest, req, waitVars, res, last>>

\* Every request allowed by the bound was made.
Finished == wait = "idle" /\ req = MaxRequests /\ UNCHANGED vars

Client ==
  \/ RunOne \/ Connected \/ Written \/ ResponseRead \/ Failed

Next ==
  \/ \E u \in Url : PostOnCached(u) \/ PostOnNew(u)
  \/ \E u \in Url, ok \in BOOLEAN : PostOnUnix(u, ok)
  \/ \E ec \in {"ok", "error"} : Completes(ec)
  \/ DeadlinePasses
  \/ Client
  \/ \E k \in Key, b \in BOOLEAN, s \in {"ok", "error"} : Answers(k, b, s)
  \/ \E k \in Key : Closes(k)
  \/ Finished

\* The client's thread runs what is ready, and time passes.
Fairness == WF_vars(Client) /\ WF_vars(DeadlinePasses)

\* The operating system gives up on a connect in the end.
ConnectEnds == WF_vars(op = "connect" /\ \E ec \in {"ok", "error"} : Completes(ec))

SafeSpec == Init /\ [][Next]_vars
Spec == SafeSpec /\ Fairness
NetSpec == Spec /\ ConnectEnds

-----------------------------------------------------------------------------
(* Properties. *)

TypeOK ==
  /\ _connections \in [Key -> {None} \cup Connection]
  /\ dest \in Url \cup {None}
  /\ req \in 0..MaxRequests
  /\ wait \in {"idle", "connect", "handshake", "write", "read"}
  /\ op \in {"none", "resolve", "connect", "handshake", "write", "read"}
  /\ timer \in {"none", "armed", "queued"}
  /\ ready \in Seq([handler : {"timer", "resolve", "connect", "handshake", "write", "read"},
                     ec : {"ok", "error", "aborted"}])
  /\ f_result \in {None, "ok", "error", "aborted"}
  /\ {timer_expired, timer_cancelled, cancelled} \subseteq BOOLEAN
  /\ res \in Response \cup {None}
  /\ last \in {None} \cup [req : 1..MaxRequests, of : 0..MaxRequests,
                           how : {"failed", "returned", "threw"}]

\* A call that got a response got the one to its own request: a response that
\* comes after its call gave up is never taken for the answer to a later one.
ResponseIsOwn == last # None /\ last.how # "failed" => last.of = last.req

\* Between calls a cached connection owes nothing: no request of an earlier
\* call is unanswered on it and no response is left to be read.
CachedIsQuiet ==
  wait = "idle" => \A k \in Key :
    _connections[k] # None =>
      _connections[k].requests = << >> /\ _connections[k].responses = << >>

\* sync_do_with_deadline leaves no handler behind: each holds references to
\* its locals, so one that ran later would write to a dead frame.
NoHandlerLeft ==
  wait = "idle" => ready = << >> /\ op = "none" /\ timer = "none"

\* *f_result is only read when it was set.
ResultIsSet == LoopEnds => timer_expired \/ f_result # None

\* The race of the timer with the result is decided by the handler that ran
\* first: a timer that was already queued when the result came is ignored.
LateTimerIgnored == [][timer_expired' /\ ~timer_expired /\ wait' = wait => f_result = None]_vars

\* The connection over which the call in progress talks.
Used == _connections[url_to_host_key(dest)]

\* The urls whose key two endpoints share: https without a port means 443, but is
\* cached under 80.
SharesKey(u) == u.proto = "https" /\ u.port \in {0, 80}

\* Every request goes to the endpoint its url names, through a connection cached
\* by any earlier call too; the https urls of one host that share a key may get
\* each other's connection, and no one else's.  (http_client.cpp has a "mapping of
\* protocols to their standard ports", which the key does not use.)
SentToEndpoint ==
  wait \in {"write", "read"} =>
    \/ Used.peer = Endpoint(dest)
    \/ SharesKey(dest) /\ Used.peer \in {<<dest.host, 80>>, <<dest.host, 443>>}

\* zipkin.hpp: "the timeout in microseconds for each http call".  Once the
\* deadline has passed the call ends.
DeadlineEndsCall == timer_expired ~> (wait = "idle")

\* Requests and responses are not mixed up: each request goes where its key
\* says and each call gets its own response.
AnswersMatch == ResponseIsOwn /\ SentToEndpoint

\* A call leaves nothing behind, neither handlers in the context nor traffic on
\* a cached connection, and its result is set when it is read.
CallsClean == TypeOK /\ CachedIsQuiet /\ NoHandlerLeft /\ ResultIsSet
=============================================================================
