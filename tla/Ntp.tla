-------------------------------- MODULE Ntp --------------------------------
(***************************************************************************)
(* fc::ntp: the offset of the local clock from that of time servers.  The  *)
(* network may lose, delay, reorder and duplicate datagrams; the servers'  *)
(* clocks differ from the local one by Skew.  Fibers of the ntp thread     *)
(* send requests and read replies while other threads call get_time.       *)
(***************************************************************************)
EXTENDS Integers, FiniteSets

CONSTANTS Server, Skew,              \* the time servers and how far each is ahead
          Second, Fraction, Seconds, \* ticks and ntp fractions in a second, seconds before the count wraps
          Era,                       \* seconds of the ntp count at tick 0 (2208988800)
          MaxDelay, Day,             \* a round trip that is stale, an offset that is refused
          Interval,                  \* values of _request_interval_sec
          Start, MaxNow, MaxRequests, MaxInFlight

ASSUME NtpAssumption ==
  /\ Skew \in [Server -> Int] /\ IsFiniteSet(Server) /\ Server # {}
  /\ {Second, Fraction, Seconds, MaxDelay, Day} \subseteq Nat \ {0} /\ Fraction >= 2 * Second
  /\ {Era, Start, MaxNow, MaxRequests, MaxInFlight} \cup Interval \subseteq Nat /\ Start <= MaxNow
  /\ \A s \in Server : Start + Skew[s] >= 0

Never == -1

VARIABLES now,          \* the local clock
          net,          \* datagrams that may still arrive
          hosts,        \* _ntp_hosts
          socket_open,  \* _sock is open
          loop,         \* read_loop: "new", "reading", "storing" or "ended"
          task,         \* _request_time_task_done: "none", "pending" or "done"
          sched,        \* when _scheduled_request_time is due
          delta,        \* _last_ntp_delta_microseconds
          initialized,  \* _last_ntp_delta_initialized
          getter,       \* a thread in get_time and the offset it used
          closing,      \* ~ntp: "none", "task", "loop" or "done"
          requests      \* how often request_now has run
ntpVars == <<now, net, hosts, socket_open, loop, task, sched, delta, initialized, getter, closing, requests>>

Datagram(type, server, origin, received, sent) ==
  [type |-> type, server |-> server, origin |-> origin, received |-> received, sent |-> sent]

\* A bound: the datagrams under way.
Bounded == Cardinality(net') <= MaxInFlight
Zero == [seconds |-> 0, fraction |-> 0]

NtpInit ==
  /\ now = Start /\ net = {} /\ hosts = {CHOOSE s \in Server : TRUE} /\ socket_open = FALSE
  /\ loop = "new" /\ task = "none" /\ sched = Never /\ delta = 0 /\ initialized = FALSE
  /\ getter = "idle" /\ closing = "none" /\ requests = 0

-----------------------------------------------------------------------------
(* Time stamps: seconds modulo the width of their field, and a fraction *)

\* The half added before the division is half a second of fractions, not half a tick.
fc_time_point_to_ntp_timestamp(t) ==
  [seconds |-> (t \div Second + Era) % Seconds,
   fraction |-> ((t % Second) * Fraction + Fraction \div 2) \div Second]

ntp_timestamp_to_fc_time_point(stamp) ==
  ((stamp.seconds - Era) % Seconds) * Second + (stamp.fraction * Second + Fraction \div 2) \div Fraction

-----------------------------------------------------------------------------
(* Requests *)

\* A request to each host that resolves; a host that does not, and a socket
\* that cannot send, are logged and passed over.
Request(s) == Datagram("request", s, fc_time_point_to_ntp_timestamp(now), Zero, Zero)
request_now ==
  /\ requests' = requests + 1
  /\ \E found \in SUBSET hosts : net' = (IF socket_open THEN net \cup {Request(s) : s \in found} ELSE net) /\ Bounded

request_time_task ==
  /\ task = "pending" /\ request_now /\ task' = "done"
  /\ UNCHANGED <<now, hosts, socket_open, loop, sched, delta, initialized, getter, closing>>

\* The scheduled request runs, and schedules the next one an interval later.
reschedule == \E interval \in Interval : sched' = now + interval
ScheduledRequest ==
  /\ sched # Never /\ now >= sched /\ closing = "none" /\ requests < MaxRequests /\ request_now /\ reschedule
  /\ UNCHANGED <<now, hosts, socket_open, loop, task, delta, initialized, getter, closing>>
set_request_interval ==
  /\ loop # "new" /\ closing = "none" /\ sched = Never /\ reschedule
  /\ requests < MaxRequests     \* a bound: once, while a request may follow
  /\ UNCHANGED <<now, net, hosts, socket_open, loop, task, delta, initialized, getter, closing, requests>>
RequestNow ==
  /\ loop # "new" /\ closing = "none" /\ requests < MaxRequests /\ request_now
  /\ UNCHANGED <<now, hosts, socket_open, loop, task, sched, delta, initialized, getter, closing>>
add_server(s) ==
  /\ loop # "new" /\ closing = "none" /\ s \notin hosts /\ hosts' = hosts \cup {s}
  /\ UNCHANGED <<now, net, socket_open, loop, task, sched, delta, initialized, getter, closing, requests>>

-----------------------------------------------------------------------------
(* The read loop *)

start_read_loop ==
  /\ loop = "new" /\ loop' = "reading" /\ socket_open' = TRUE /\ task' = "pending"
  /\ UNCHANGED <<now, net, hosts, sched, delta, initialized, getter, closing, requests>>

\* Twice the offset, and the time the reply was under way.
Offset(m) == (ntp_timestamp_to_fc_time_point(m.received) - ntp_timestamp_to_fc_time_point(m.origin))
             + (ntp_timestamp_to_fc_time_point(m.sent) - now)
RoundTrip(m) == (now - ntp_timestamp_to_fc_time_point(m.origin))
                - (ntp_timestamp_to_fc_time_point(m.sent) - ntp_timestamp_to_fc_time_point(m.received))
\* Mutant: the sum of the two differences is taken for the offset.
Half_Not(n) == n
\* C++ division, which cuts towards zero.
Half(n) == IF n >= 0 THEN n \div 2 ELSE -((-n) \div 2)

\* The offset is stored; the flag follows.
Store(offset) ==
  /\ delta' = offset /\ loop' = "storing" /\ initialized' = initialized

\* A reply, which may arrive again, is stale, refused or taken.
read_loop(m) ==
  /\ loop = "reading" /\ socket_open /\ m \in net /\ m.type = "reply"
  /\ \E rest \in {net, net \ {m}} :
       \/ /\ RoundTrip(m) > MaxDelay /\ requests < MaxRequests /\ requests' = requests + 1
          /\ \E found \in SUBSET hosts :
               net' = rest \cup {Request(s) : s \in found} /\ Bounded
          /\ UNCHANGED <<loop, delta, initialized>>
       \/ /\ RoundTrip(m) <= MaxDelay /\ net' = rest /\ requests' = requests
          /\ LET offset == Half(Offset(m)) IN
               IF offset < Day /\ offset > -Day THEN Store(offset) ELSE UNCHANGED <<loop, delta, initialized>>
  /\ UNCHANGED <<now, hosts, socket_open, task, sched, getter, closing>>
StoreFlag ==
  /\ loop = "storing" /\ initialized' = TRUE /\ loop' = "reading"
  /\ UNCHANGED <<now, net, hosts, socket_open, task, sched, delta, getter, closing, requests>>
\* An error of the socket ends the loop for good.
ReadFails ==
  /\ loop = "reading" /\ loop' = "ended"
  /\ UNCHANGED <<now, net, hosts, socket_open, task, sched, delta, initialized, getter, closing, requests>>

\* get_time: the flag first, then the offset.
get_time ==
  /\ closing = "none"
  /\ \/ getter = "idle" /\ initialized /\ getter' = "flag"
     \/ getter = "flag" /\ getter' = "idle"
  /\ UNCHANGED <<now, net, hosts, socket_open, loop, task, sched, delta, initialized, closing, requests>>

-----------------------------------------------------------------------------
(* ~ntp, in the ntp thread: close, cancel, and wait for the two fibers *)

CloseSocket == socket_open' = FALSE /\ net' = {}
Destroy ==
  /\ \/ closing = "none" /\ loop # "new" /\ CloseSocket /\ sched' = Never /\ closing' = "task"
     \/ closing = "task" /\ task = "done" /\ closing' = "loop" /\ UNCHANGED <<socket_open, net, sched>>
     \/ closing = "loop" /\ loop = "ended" /\ closing' = "done" /\ UNCHANGED <<socket_open, net, sched>>
  /\ UNCHANGED <<now, hosts, loop, task, delta, initialized, getter, requests>>

-----------------------------------------------------------------------------
(* The servers, the network and the clock *)

ServerReceives(m) ==
  /\ m.type = "request"
  /\ net' = (net \ {m}) \cup {[m EXCEPT !.type = "held", !.received = fc_time_point_to_ntp_timestamp(now + Skew[m.server])]}
  /\ UNCHANGED <<now, hosts, socket_open, loop, task, sched, delta, initialized, getter, closing, requests>>
ServerSends(m) ==
  /\ m.type = "held"
  /\ net' = (net \ {m}) \cup {[m EXCEPT !.type = "reply", !.sent = fc_time_point_to_ntp_timestamp(now + Skew[m.server])]}
  /\ UNCHANGED <<now, hosts, socket_open, loop, task, sched, delta, initialized, getter, closing, requests>>
Lose(m) ==
  /\ net' = net \ {m}
  /\ UNCHANGED <<now, hosts, socket_open, loop, task, sched, delta, initialized, getter, closing, requests>>
\* A bound: the time of a client that is being destroyed is not followed.
Tick ==
  /\ now < MaxNow /\ closing = "none" /\ now' = now + 1
  /\ UNCHANGED <<net, hosts, socket_open, loop, task, sched, delta, initialized, getter, closing, requests>>

NtpNext ==
  \/ start_read_loop \/ request_time_task \/ ScheduledRequest \/ set_request_interval \/ RequestNow
  \/ \E s \in Server : add_server(s)
  \/ \E m \in net : read_loop(m) \/ ServerReceives(m) \/ ServerSends(m) \/ Lose(m)
  \/ StoreFlag \/ ReadFails \/ get_time \/ Destroy \/ Tick

\* The fibers run; a read of a closed socket fails.
NtpFairness ==
  /\ WF_ntpVars(request_time_task) /\ WF_ntpVars(StoreFlag) /\ WF_ntpVars(Destroy /\ closing # "none")
  /\ WF_ntpVars(~socket_open /\ ReadFails)
NtpSpec == NtpInit /\ [][NtpNext]_ntpVars /\ NtpFairness

-----------------------------------------------------------------------------
\* Each of the three stamps may be a tick too high.
Rounding == 3
\* The clock of some server that was asked.
Accurate(d) == \E s \in hosts : 2 * (d - Skew[s]) <= MaxDelay + Rounding /\ 2 * (Skew[s] - d) <= MaxDelay + Rounding

\* Whatever the network lost, delayed, reordered or repeated, an offset the read
\* loop has announced differs from that of a server by at most half the round
\* trip it accepts, and the rounding of the time stamps.
DeltaAccurate == initialized => Accurate(delta)

\* get_time, which reads flag and offset while the read loop writes them: a thread
\* that has seen the flag never corrects the clock by an offset no reply gave.
TimeIsCorrected == getter = "flag" => Accurate(delta)

\* A time stamp comes back as the same tick or the one after it.
StampExact == LET t == ntp_timestamp_to_fc_time_point(fc_time_point_to_ntp_timestamp(now)) IN t \in {now, now + 1}

\* The destructor, which waits for the request task and for the read loop,
\* returns: closing the socket ends a read that no reply would ever end.
DestroyReturns == closing # "none" ~> closing = "done"

\* The client's clock is right once it says so.
ClockSound == DeltaAccurate /\ TimeIsCorrected /\ StampExact
=============================================================================
