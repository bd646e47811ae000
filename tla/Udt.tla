-------------------------------- MODULE Udt --------------------------------
(***************************************************************************)
(* udt_socket, udt_server and the udt_epoll_service they share.  A fiber   *)
(* that cannot read, write or accept registers its socket with the epoll   *)
(* thread and waits on a promise.  The service's mutexes are shared by all *)
(* threads, so that a fiber may lose the processor at every lock; between  *)
(* two locks it runs alone.  A socket has one reader and one writer.       *)
(***************************************************************************)
EXTENDS Integers, FiniteSets

CONSTANTS UdtFiber, Sock, Listener,   \* fibers, client sockets and the server's socket
          Nobody, MaxPending

ASSUME UdtAssumption == Listener \notin Sock /\ Nobody \notin UdtFiber /\ MaxPending \in Nat \ {0}

Socket == Sock \cup {Listener}
Kind == {"read", "write"}

VARIABLES id,        \* of each socket: "none", "blocking", "open" or "closed"
          pending,   \* what a socket has for its reader
          room,      \* whether a socket takes what is written
          epoll,     \* [kind -> sockets registered with epoll]
          promises,  \* [kind -> [socket -> the fiber whose promise is kept]]
          ready,     \* [kind -> sockets epoll_wait found ready]
          poll,      \* poll_loop: "wait", "read" or "write"
          running      \* [fiber -> where it is, and in which call]
udtVars == <<id, pending, room, epoll, promises, ready, poll, running>>

Resting == [pc |-> "idle", op |-> "none", sock |-> Listener, target |-> Listener]
Busy(op, s) == {f \in UdtFiber : running[f].op = op /\ running[f].sock = s}
KindOf(op) == IF op = "write" THEN "write" ELSE "read"

UdtInit ==
  /\ id = [s \in Socket |-> IF s = Listener THEN "open" ELSE "none"]
  /\ pending = [s \in Socket |-> 0] /\ room = [s \in Socket |-> TRUE]
  /\ epoll = [k \in Kind |-> {}] /\ ready = [k \in Kind |-> {}]
  /\ promises = [k \in Kind |-> [s \in Socket |-> Nobody]]
  /\ poll = "wait" /\ running = [f \in UdtFiber |-> Resting]

Return(f) == running' = [running EXCEPT ![f] = Resting]

-----------------------------------------------------------------------------
(* readsome, writesome and accept: try; on "would block" register and wait *)

\* notify_read and notify_write up to their lock; a socket that is closed is an error.
notify(f, op, s, target) ==
  /\ IF id[s] = "closed" THEN Return(f) /\ epoll' = epoll
     ELSE /\ epoll' = [epoll EXCEPT ![KindOf(op)] = @ \cup {s}]
          /\ running' = [running EXCEPT ![f] = [pc |-> "lock", op |-> op, sock |-> s, target |-> target]]
  /\ UNCHANGED <<id, pending, room>>

readsome(f, s) ==
  IF id[s] # "closed" /\ pending[s] > 0
  THEN pending' = [pending EXCEPT ![s] = @ - 1] /\ Return(f) /\ UNCHANGED <<epoll, id, room>>
  ELSE notify(f, "read", s, s)
writesome(f, s) ==
  IF id[s] # "closed" /\ room[s]
  THEN \E more \in BOOLEAN : room' = [room EXCEPT ![s] = more] /\ Return(f) /\ UNCHANGED <<epoll, id, pending>>
  ELSE notify(f, "write", s, s)
\* The accepted socket must not be open.
accept(f, target) ==
  IF id[Listener] # "closed" /\ pending[Listener] > 0
  THEN /\ pending' = [pending EXCEPT ![Listener] = @ - 1] /\ id' = [id EXCEPT ![target] = "open"]
       /\ Return(f) /\ UNCHANGED <<epoll, room>>
  ELSE notify(f, "accept", Listener, target)

Begin(f) ==
  /\ running[f].pc = "idle"
  /\ \/ \E s \in Sock : id[s] = "open" /\ Busy("read", s) = {} /\ readsome(f, s)
     \/ \E s \in Sock : id[s] = "open" /\ Busy("write", s) = {} /\ writesome(f, s)
     \/ \E s \in Sock : id[s] = "none" /\ id[Listener] = "open" /\ Busy("accept", Listener) = {} /\ accept(f, s)
  /\ UNCHANGED <<promises, ready, poll>>
\* After the promise was set the call is tried again.
Retry(f) ==
  /\ running[f].pc = "retry"
  /\ \/ running[f].op = "read" /\ readsome(f, running[f].sock)
     \/ running[f].op = "write" /\ writesome(f, running[f].sock)
     \/ running[f].op = "accept" /\ accept(f, running[f].target)
  /\ UNCHANGED <<promises, ready, poll>>
\* The locked part of notify_read and notify_write.
Keep(f) ==
  /\ running[f].pc = "lock" /\ poll # KindOf(running[f].op)
  /\ promises' = [promises EXCEPT ![KindOf(running[f].op)][running[f].sock] = f]
  /\ running' = [running EXCEPT ![f].pc = "wait"]
  /\ UNCHANGED <<id, pending, room, epoll, ready, poll>>

-----------------------------------------------------------------------------
(* The epoll thread *)

\* A socket is ready when there is something to read, room to write, or an error.
Ready(k) == {s \in epoll[k] : id[s] = "closed" \/ IF k = "read" THEN pending[s] > 0 ELSE room[s]}
epoll_wait ==
  /\ poll = "wait" /\ \E k \in Kind : Ready(k) # {}
  /\ ready' = [k \in Kind |-> Ready(k)] /\ poll' = "read"
  /\ UNCHANGED <<id, pending, room, epoll, promises, running>>

\* The fibers whose promises of kind k for these sockets are kept.
Waiting(k, socks) == {f \in UdtFiber : \E s \in socks : promises[k][s] = f}
\* Mutant: the promises are set but stay in the map.
Forget_Not(k, socks) == promises' = promises
Forget(k, socks) == promises' = [promises EXCEPT ![k] = [s \in Socket |-> IF s \in socks THEN Nobody ELSE @[s]]]
poll_loop(k) ==
  /\ poll = k /\ poll' = IF k = "read" THEN "write" ELSE "wait"
  /\ running' = [f \in UdtFiber |-> IF f \in Waiting(k, ready[k]) THEN [running[f] EXCEPT !.pc = "retry"] ELSE running[f]]
  /\ Forget(k, ready[k]) /\ ready' = [ready EXCEPT ![k] = {}]
  /\ UNCHANGED <<id, pending, room, epoll>>

-----------------------------------------------------------------------------
(* Opening and closing *)

\* connect_to: open, then connect in a thread of its own and make the socket non-blocking.
connect_to(f, s) ==
  /\ \/ /\ running[f].pc = "idle" /\ id[s] = "none" /\ Busy("accept", Listener) = {}
        /\ id' = [id EXCEPT ![s] = "blocking"]
        /\ running' = [running EXCEPT ![f] = [pc |-> "connect", op |-> "connect", sock |-> s, target |-> s]]
     \/ /\ running[f].pc = "connect" /\ running[f].sock = s /\ Return(f)
        /\ id' \in {[id EXCEPT ![s] = IF id[s] = "closed" THEN "closed" ELSE r] : r \in {"open", "blocking"}}
  /\ UNCHANGED <<pending, room, epoll, promises, ready, poll>>

\* close: the promises are removed, then the socket is closed.
BeginClose(f, s) ==
  /\ running[f].pc = "idle" /\ Busy("close", s) = {}
  /\ running' = [running EXCEPT ![f] = [pc |-> "read", op |-> "close", sock |-> s, target |-> s]]
  /\ UNCHANGED <<pending, room, epoll, promises, ready, poll>>
udt_close(f, s) == id[s] \in {"open", "blocking"} /\ id' = id /\ BeginClose(f, s)
\* The server's socket is closed first, then its promises are removed.
server_close(f) == id[Listener] = "open" /\ id' = [id EXCEPT ![Listener] = "closed"] /\ BeginClose(f, Listener)

\* The fiber that waits gets an exception, and its call ends with it.
Abort(k, s, f, next) == [g \in UdtFiber |-> IF g = f THEN next ELSE IF g \in Waiting(k, {s}) THEN Resting ELSE running[g]]
remove(f) ==
  /\ running[f].op = "close" /\ poll # running[f].pc
  /\ LET s == running[f].sock IN
       \/ /\ running[f].pc = "read" /\ Forget("read", {s})
          /\ running' = Abort("read", s, f, [running[f] EXCEPT !.pc = "write"]) /\ UNCHANGED <<id, epoll>>
       \/ /\ running[f].pc = "write" /\ Forget("write", {s}) /\ running' = Abort("write", s, f, Resting)
          /\ epoll' = [k \in Kind |-> epoll[k] \ {s}] /\ id' = [id EXCEPT ![s] = "closed"]
  /\ UNCHANGED <<pending, room, ready, poll>>

\* The peers: data, connections and room arrive.
Arrive(s) ==
  /\ id[s] = "open"
  /\ \/ pending[s] < MaxPending /\ pending' = [pending EXCEPT ![s] = @ + 1] /\ room' = room
     \/ s # Listener /\ ~room[s] /\ room' = [room EXCEPT ![s] = TRUE] /\ pending' = pending
  /\ UNCHANGED <<id, epoll, promises, ready, poll, running>>

UdtNext ==
  \/ \E f \in UdtFiber : Begin(f) \/ Retry(f) \/ Keep(f) \/ remove(f) \/ server_close(f)
  \/ \E f \in UdtFiber, s \in Sock : connect_to(f, s) \/ udt_close(f, s)
  \/ epoll_wait \/ \E k \in Kind : poll_loop(k)
  \/ \E s \in Socket : Arrive(s)

\* Every fiber that can run does, and so does the epoll thread.
UdtFairness ==
  /\ WF_udtVars(epoll_wait) /\ \A k \in Kind : WF_udtVars(poll_loop(k))
  /\ \A f \in UdtFiber : WF_udtVars(Retry(f)) /\ SF_udtVars(Keep(f)) /\ SF_udtVars(remove(f))
UdtSpec == UdtInit /\ [][UdtNext]_udtVars /\ UdtFairness

-----------------------------------------------------------------------------
\* A promise in the maps belongs to a fiber that waits for it on that socket, so
\* that the epoll thread and close, which race for it, never set one twice.
PromiseKept == \A k \in Kind, s \in Socket : promises[k][s] # Nobody =>
  LET c == running[promises[k][s]] IN c.pc = "wait" /\ KindOf(c.op) = k /\ c.sock = s

\* No wakeup is lost: a fiber that waits on an open socket is in the map, and its
\* socket in the epoll set, whatever the epoll thread found before it got there.
WakeupPossible == \A f \in UdtFiber :
  LET c == running[f] IN (c.pc = "wait" /\ id[c.sock] = "open" /\ Busy("close", c.sock) = {}) =>
    promises[KindOf(c.op)][c.sock] = f /\ c.sock \in epoll[KindOf(c.op)]

Waits(f) == running[f].pc = "wait"
\* What a fiber waits for is there: data, a connection or room.
Satisfied(c) == IF KindOf(c.op) = "read" THEN pending[c.sock] > 0 ELSE room[c.sock]
ClosedOrClosing(s) == id[s] = "closed" \/ Busy("close", s) # {}
\* The promise of a fiber is kept, and the close of its socket has yet to remove it.
ToBeRemoved(f, c) ==
  /\ promises[KindOf(c.op)][c.sock] = f
  /\ \E g \in Busy("close", c.sock) : running[g].pc \in {"read", KindOf(c.op)}

\* A fiber that reads, writes or accepts and whose promise is kept before close
\* removes the promises of its kind gets its exception.  (One that registers
\* behind that, between notify_read's epoll_add_usock and its lock, is not found
\* by close and waits for good: nothing is claimed of it.)
CloseWakes == \A f \in UdtFiber : (Waits(f) /\ ToBeRemoved(f, running[f])) ~> ~ Waits(f)

\* A fiber that waits for data, a connection or room on an open socket is woken
\* once it has come, unless the socket is being closed.
DataWakes == \A f \in UdtFiber :
  (Waits(f) /\ Satisfied(running[f])) ~> (~ Waits(f) \/ ClosedOrClosing(running[f].sock))

\* No fiber that waits on a socket is forgotten or woken twice.
NoWakeupLost == PromiseKept /\ WakeupPossible
=============================================================================
