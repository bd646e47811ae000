-------------------------- MODULE HttpClientProofs --------------------------
(***************************************************************************)
(* The safety of fc::http_client for any set of destinations and any       *)
(* number of calls: a call returns the response to its own request, leaves *)
(* no handler in the io_context and no traffic on a cached connection, and *)
(* a deadline that passes after the result came is ignored.                *)
(*                                                                         *)
(* Every request goes where its url says, but for the https urls of a host *)
(* that name no port or port 80: url_to_host_key takes a missing port for  *)
(* 80, so that the two share a cached connection, to port 443 or to 80.    *)
(***************************************************************************)
EXTENDS HttpClient, SequenceTheorems, TLAPS

\* The operations a wait may have outstanding.
OpsOf(w) ==
  CASE w = "connect" -> {"resolve", "connect"}
    [] w \in {"handshake", "write", "read"} -> {w}
    [] OTHER -> {}

\* The handler of the wait's operation is ready to run.
OpIsReady == \E i \in 1..Len(ready) : ready[i].handler # "timer"

\* What is outstanding and what is ready belongs to the wait in progress, and
\* until there is a result the operation is under way, unless it was given up.
HandlersOfWait ==
  /\ \A i \in 1..Len(ready) : ready[i].handler \in {"timer"} \cup OpsOf(wait)
  /\ op \in {"none"} \cup OpsOf(wait)
  /\ wait = "idle" => ready = << >> /\ timer = "none"
  /\ wait # "idle" /\ f_result = None => op # "none" \/ OpIsReady \/ timer_expired
  /\ cancelled => timer_expired
  /\ f_result # None => timer_cancelled

\* Nothing is on its way on this connection.
IsQuiet(c) == c.requests = << >> /\ c.responses = << >>

\* The request of the call in progress is on its way, or its response is, or
\* the response was read; nothing else is on the connection.
Carries(c) ==
  \/ c.requests = <<req>> /\ c.responses = << >>
  \/ /\ c.requests = << >> /\ Len(c.responses) = 1 /\ c.responses[1].of = req
  \/ IsQuiet(c) /\ res # None /\ res.of = req

\* The call in progress has its connection and talks over it.
Writing == wait \in {"write", "read"}

\* The connection of the call in progress carries its traffic, the others none.
Traffic ==
  /\ wait # "idle" => dest \in Url /\ req \in 1..MaxRequests
  /\ \A k \in Key : _connections[k] # None /\ ~(Writing /\ k = url_to_host_key(dest))
                      => IsQuiet(_connections[k])
  /\ Writing => /\ _connections[url_to_host_key(dest)] # None
                /\ Carries(_connections[url_to_host_key(dest)])

\* A read that completed has brought the response.
ReadBrings ==
  wait = "read" /\ (f_result = "ok" \/ \E i \in 1..Len(ready) :
                                         ready[i].handler = "read" /\ ready[i].ec = "ok")
    => /\ res # None /\ res.of = req
       /\ IsQuiet(_connections[url_to_host_key(dest)])

\* The inductive invariant.
HttpInv ==
  TypeOK /\ HandlersOfWait /\ Traffic /\ ReadBrings /\ ResponseIsOwn

-----------------------------------------------------------------------------

\* The cache key of a url is a key.
LEMMA KeyOfUrl == \A u \in Url : url_to_host_key(u) \in Key
BY DEF Key

\* Before the first call nothing is cached, outstanding or ready.
LEMMA HttpInitInv == Init => HttpInv
<1> SUFFICES ASSUME Init PROVE HttpInv
  OBVIOUS
<1>1. TypeOK
  <2>1. _connections \in [Key -> {None} \cup Connection]
    BY DEF Init
  <2>2. ready \in Seq([handler : {"timer", "resolve", "connect", "handshake", "write", "read"},
                       ec : {"ok", "error", "aborted"}])
    BY DEF Init
  <2>3. {timer_expired, timer_cancelled, cancelled} \subseteq BOOLEAN
    BY DEF Init
  <2>4. req \in 0..MaxRequests
    BY UrlAssumption DEF Init
  <2> QED
    BY <2>1, <2>2, <2>3, <2>4 DEF Init, TypeOK
<1>2. HandlersOfWait
  BY DEF Init, HandlersOfWait
<1>3. Traffic /\ ReadBrings /\ ResponseIsOwn
  BY DEF Init, Traffic, ReadBrings, ResponseIsOwn, Writing
<1> QED
  BY <1>1, <1>2, <1>3 DEF HttpInv

\* sync_do_with_deadline starts with fresh locals and one operation.
LEMMA WaitStarts ==
  ASSUME NEW w \in {"connect", "handshake", "write", "read"}, StartWait(w)
  PROVE  /\ HandlersOfWait'
         /\ Len(ready') = 0
         /\ f_result' = None
BY DEF StartWait, HandlersOfWait, OpsOf

\* The types of the variables of a wait that starts.
LEMMA WaitTyped ==
  ASSUME NEW w \in {"connect", "handshake", "write", "read"}, StartWait(w)
  PROVE  /\ wait' \in {"idle", "connect", "handshake", "write", "read"}
         /\ op' \in {"none", "resolve", "connect", "handshake", "write", "read"}
         /\ timer' \in {"none", "armed", "queued"}
         /\ ready' \in Seq([handler : {"timer", "resolve", "connect", "handshake", "write", "read"},
                            ec : {"ok", "error", "aborted"}])
         /\ f_result' \in {None, "ok", "error", "aborted"}
         /\ {timer_expired', timer_cancelled', cancelled'} \subseteq BOOLEAN
<1>1. {timer_expired', timer_cancelled', cancelled'} \subseteq BOOLEAN
  BY DEF StartWait
<1>2. ready' \in Seq([handler : {"timer", "resolve", "connect", "handshake", "write", "read"},
                      ec : {"ok", "error", "aborted"}])
  BY DEF StartWait
<1> QED
  BY <1>1, <1>2 DEF StartWait

\* A connection is made, or taken from the cache, and gets the call's request.
LEMMA WriteStarts ==
  ASSUME HttpInv, NEW u \in Url, NEW n \in 1..MaxRequests, NEW c \in Connection, IsQuiet(c),
         StartWrite(u, n, c), dest' = u, req' = n, wait \notin {"write", "read"},
         res' \in Response \cup {None}, UNCHANGED last
  PROVE  HttpInv'
<1> DEFINE d == [c EXCEPT !.requests = Append(@, n)]
           k == url_to_host_key(u)
<1>1. /\ TypeOK /\ Traffic /\ ResponseIsOwn /\ k \in Key
      /\ _connections' = [_connections EXCEPT ![k] = d] /\ StartWait("write")
  BY KeyOfUrl DEF HttpInv, StartWrite
<1>2. d \in Connection /\ d # None /\ d.requests = <<n>> /\ d.responses = << >>
  <2>1. Append(c.requests, n) = <<n>> /\ <<n>> \in Seq(1..MaxRequests)
    BY DEF IsQuiet
  <2>2. d = [c EXCEPT !.requests = <<n>>]
    BY <2>1 DEF Connection
  <2> QED
    BY <2>1, <2>2, NoneAssumption DEF IsQuiet, Connection
<1>3. /\ _connections'[k] = d /\ _connections' \in [Key -> {None} \cup Connection]
      /\ \A j \in Key \ {k} : _connections'[j] = _connections[j]
  BY <1>1, <1>2 DEF TypeOK
<1>4. wait' = "write"
  BY <1>1 DEF StartWait
<1>5. TypeOK'
  BY <1>1, <1>3, WaitTyped, UrlAssumption DEF TypeOK
<1>6. HandlersOfWait'
  BY <1>1, WaitStarts
<1>7. Traffic'
  BY <1>1, <1>2, <1>3, <1>4 DEF Traffic, Carries, Writing, IsQuiet
<1>8. ReadBrings' /\ ResponseIsOwn'
  BY <1>1, <1>4 DEF ReadBrings, ResponseIsOwn
<1> QED
  BY <1>5, <1>6, <1>7, <1>8 DEF HttpInv

\* A connection that was just made has carried nothing.
LEMMA NewConnectionIsQuiet ==
  ASSUME NEW u \in Url
  PROVE  NewConnection(u) \in Connection /\ IsQuiet(NewConnection(u))
BY DEF NewConnection, Connection, IsQuiet

-----------------------------------------------------------------------------
(* The actions, one after the other. *)

\* post_sync on a cached connection, which is quiet between calls.
LEMMA PostOnCachedStep ==
  ASSUME HttpInv, NEW u \in Url, PostOnCached(u)
  PROVE  HttpInv'
<1>1. url_to_host_key(u) \in Key /\ req + 1 \in 1..MaxRequests
  BY KeyOfUrl, UrlAssumption DEF HttpInv, TypeOK, PostOnCached
<1>2. _connections[url_to_host_key(u)] \in Connection
  BY <1>1 DEF HttpInv, TypeOK, PostOnCached
<1>3. IsQuiet(_connections[url_to_host_key(u)])
  BY <1>1 DEF HttpInv, Traffic, PostOnCached, Writing
<1> QED
  BY <1>1, <1>2, <1>3, WriteStarts DEF PostOnCached

\* A call that has to connect first leaves the cache alone.
LEMMA PostOnNewStep ==
  ASSUME HttpInv, NEW u \in Url, PostOnNew(u)
  PROVE  HttpInv'
<1>1. TypeOK /\ Traffic /\ ResponseIsOwn /\ req + 1 \in 1..MaxRequests
  BY UrlAssumption DEF HttpInv, TypeOK, PostOnNew
<1>2. StartWait("connect") /\ wait' = "connect" /\ UNCHANGED <<_connections, last>>
  BY DEF PostOnNew, StartWait
<1>3. TypeOK'
  BY <1>1, <1>2, WaitTyped, UrlAssumption DEF TypeOK, PostOnNew
<1>4. HandlersOfWait'
  BY <1>2, WaitStarts
<1>5. Traffic'
  BY <1>1, <1>2 DEF Traffic, Writing, PostOnNew, IsQuiet
<1>6. ReadBrings' /\ ResponseIsOwn'
  BY <1>1, <1>2 DEF ReadBrings, ResponseIsOwn
<1> QED
  BY <1>3, <1>4, <1>5, <1>6 DEF HttpInv

\* A unix socket that cannot be connected ends the call before any wait.
LEMMA PostOnUnixStep ==
  ASSUME HttpInv, NEW u \in Url, NEW ok \in BOOLEAN, PostOnUnix(u, ok)
  PROVE  HttpInv'
<1>1. TypeOK /\ HandlersOfWait /\ Traffic /\ ResponseIsOwn /\ wait = "idle" /\ req + 1 \in 1..MaxRequests
  BY UrlAssumption DEF HttpInv, TypeOK, PostOnUnix
<1>2. CASE ok
  BY <1>1, <1>2, NewConnectionIsQuiet, WriteStarts DEF PostOnUnix
<1>3. CASE ~ok
  <2>1. /\ UNCHANGED <<_connections, waitVars>> /\ dest' = u /\ req' = req + 1 /\ res' = None
        /\ last' = [req |-> req + 1, how |-> "failed", of |-> 0]
    BY <1>3 DEF PostOnUnix
  <2>2. last' \in [req : 1..MaxRequests, of : 0..MaxRequests, how : {"failed", "returned", "threw"}]
    BY <1>1, <2>1, UrlAssumption
  <2>3. TypeOK'
    BY <1>1, <2>1, <2>2, UrlAssumption DEF TypeOK, waitVars
  <2>4. HandlersOfWait'
    BY <1>1, <2>1 DEF HandlersOfWait, waitVars, OpIsReady
  <2>5. Traffic' /\ ReadBrings' /\ ResponseIsOwn'
    BY <1>1, <2>1 DEF Traffic, Writing, ReadBrings, ResponseIsOwn, waitVars, IsQuiet
  <2> QED
    BY <2>3, <2>4, <2>5 DEF HttpInv
<1> QED
  BY <1>2, <1>3

\* What run_one appends to the ready handlers, and takes from them.
HandlerType == [handler : {"timer", "resolve", "connect", "handshake", "write", "read"},
                ec : {"ok", "error", "aborted"}]

\* An asynchronous operation completes: a read that succeeds takes the response.
LEMMA CompletesStep ==
  ASSUME HttpInv, NEW ec \in {"ok", "error"}, Completes(ec)
  PROVE  HttpInv'
<1> DEFINE k == url_to_host_key(dest)
           h == [handler |-> op, ec |-> ec]
<1>1. TypeOK /\ HandlersOfWait /\ Traffic /\ ReadBrings /\ ResponseIsOwn
  BY DEF HttpInv
<1>2. wait # "idle" /\ op \in OpsOf(wait)
  BY <1>1 DEF HandlersOfWait, Completes, OpsOf
<1>3. dest \in Url /\ k \in Key
  BY <1>1, <1>2, KeyOfUrl DEF Traffic
<1>4. /\ ready \in Seq(HandlerType) /\ h \in HandlerType /\ ready' = Append(ready, h)
      /\ Len(ready) \in Nat
  BY <1>1 DEF TypeOK, HandlerType, Completes
<1>5. /\ ready' \in Seq(HandlerType) /\ Len(ready') = Len(ready) + 1 /\ ready'[Len(ready) + 1] = h
      /\ \A i \in 1..Len(ready) : ready'[i] = ready[i]
  BY <1>4
<1>6. /\ UNCHANGED <<dest, req, wait, timer, f_result, timer_expired, timer_cancelled, cancelled, last>>
      /\ op' = "none"
  BY DEF Completes
<1>7. HandlersOfWait'
  <2>1. \A i \in 1..Len(ready') : ready'[i].handler \in {"timer"} \cup OpsOf(wait')
    BY <1>1, <1>2, <1>4, <1>5, <1>6 DEF HandlersOfWait
  <2>2. OpIsReady'
    <3>1. ready'[Len(ready) + 1].handler # "timer" /\ Len(ready) + 1 \in 1..Len(ready')
      BY <1>2, <1>4, <1>5 DEF OpsOf
    <3> QED
      BY <3>1 DEF OpIsReady
  <2> QED
    BY <1>1, <1>2, <1>6, <2>1, <2>2 DEF HandlersOfWait
<1>8. CASE op = "read" /\ ec = "ok"
  <2>1. /\ _connections[k].responses # << >> /\ res' = Head(_connections[k].responses)
        /\ _connections' = [_connections EXCEPT ![k].responses = Tail(@)]
    BY <1>8 DEF Completes
  <2>2. wait = "read" /\ Writing
    BY <1>2, <1>8 DEF OpsOf, Writing
  <2>3. _connections[k] \in Connection /\ Carries(_connections[k])
    BY <1>1, <1>3, <2>2 DEF Traffic, TypeOK
  <2>4. /\ _connections[k].responses \in Seq(Response) /\ _connections[k].requests = << >>
        /\ Len(_connections[k].responses) = 1 /\ _connections[k].responses[1].of = req
    BY <2>1, <2>3 DEF Carries, IsQuiet, Connection
  <2>5. res' \in Response /\ res'.of = req /\ res' # None
    BY <2>1, <2>4, NoneAssumption
  <2>6. Tail(_connections[k].responses) = << >>
    <3>1. Tail(_connections[k].responses) \in Seq(Response) /\ Len(Tail(_connections[k].responses)) = 0
      BY <2>1, <2>4
    <3> QED
      BY <3>1, EmptySeq
  <2> DEFINE d == [_connections[k] EXCEPT !.responses = << >>]
  <2>7. d \in Connection /\ IsQuiet(d) /\ d # None
    BY <2>3, <2>4, NoneAssumption DEF Connection, IsQuiet
  <2>8. _connections' = [_connections EXCEPT ![k] = d]
    BY <1>1, <1>3, <2>1, <2>6 DEF TypeOK
  <2>9. /\ _connections' \in [Key -> {None} \cup Connection] /\ _connections'[k] = d
        /\ \A j \in Key \ {k} : _connections'[j] = _connections[j]
    BY <1>1, <1>3, <2>7, <2>8 DEF TypeOK
  <2>10. TypeOK'
    BY <1>1, <1>5, <1>6, <2>5, <2>9 DEF TypeOK, HandlerType
  <2>11. Traffic' /\ ReadBrings' /\ ResponseIsOwn'
    BY <1>1, <1>3, <1>6, <2>2, <2>5, <2>7, <2>9
    DEF Traffic, Writing, ReadBrings, ResponseIsOwn, Carries, IsQuiet
  <2> QED
    BY <1>7, <2>10, <2>11 DEF HttpInv
<1>9. CASE ~(op = "read" /\ ec = "ok")
  <2>1. UNCHANGED <<_connections, res>>
    BY <1>9 DEF Completes
  <2>2. TypeOK'
    BY <1>1, <1>5, <1>6, <2>1 DEF TypeOK, HandlerType
  <2>3. Traffic' /\ ResponseIsOwn'
    BY <1>1, <1>6, <2>1 DEF Traffic, Writing, ResponseIsOwn, Carries, IsQuiet
  <2>4. ReadBrings'
    <3>1. ASSUME NEW i \in 1..Len(ready'), ready'[i].handler = "read", ready'[i].ec = "ok"
          PROVE  i \in 1..Len(ready) /\ ready[i].handler = "read" /\ ready[i].ec = "ok"
      BY <1>4, <1>5, <1>9, <3>1
    <3> QED
      BY <1>1, <1>6, <2>1, <3>1 DEF ReadBrings, IsQuiet
  <2> QED
    BY <1>7, <2>2, <2>3, <2>4 DEF HttpInv
<1> QED
  BY <1>8, <1>9

\* The deadline passes.
LEMMA DeadlineStep ==
  ASSUME HttpInv, DeadlinePasses
  PROVE  HttpInv'
<1> DEFINE h == [handler |-> "timer", ec |-> "ok"]
<1>1. TypeOK /\ HandlersOfWait /\ Traffic /\ ReadBrings /\ ResponseIsOwn
  BY DEF HttpInv
<1>2. ready \in Seq(HandlerType) /\ h \in HandlerType /\ ready' = Append(ready, h) /\ Len(ready) \in Nat
  BY <1>1 DEF TypeOK, HandlerType, DeadlinePasses
<1>3. /\ ready' \in Seq(HandlerType) /\ Len(ready') = Len(ready) + 1 /\ ready'[Len(ready) + 1] = h
      /\ \A i \in 1..Len(ready) : ready'[i] = ready[i]
  BY <1>2
<1>4. /\ UNCHANGED <<_connections, dest, req, wait, op, f_result, timer_expired, timer_cancelled,
                     cancelled, res, last>>
      /\ timer = "armed" /\ timer' = "queued"
  BY DEF DeadlinePasses
<1>5. TypeOK'
  BY <1>1, <1>3, <1>4 DEF TypeOK, HandlerType
<1>6. HandlersOfWait'
  <2>1. \A i \in 1..Len(ready') : ready'[i].handler \in {"timer"} \cup OpsOf(wait')
    BY <1>1, <1>2, <1>3, <1>4 DEF HandlersOfWait
  <2>2. OpIsReady => OpIsReady'
    BY <1>2, <1>3 DEF OpIsReady
  <2> QED
    BY <1>1, <1>4, <2>1, <2>2 DEF HandlersOfWait
<1>7. Traffic' /\ ResponseIsOwn'
  BY <1>1, <1>4 DEF Traffic, Writing, ResponseIsOwn, Carries, IsQuiet
<1>8. ReadBrings'
  <2>1. ASSUME NEW i \in 1..Len(ready'), ready'[i].handler = "read"
        PROVE  i \in 1..Len(ready) /\ ready'[i] = ready[i]
    BY <1>2, <1>3, <2>1
  <2> QED
    BY <1>1, <1>4, <2>1 DEF ReadBrings, IsQuiet
<1> QED
  BY <1>5, <1>6, <1>7, <1>8 DEF HttpInv

\* The handlers after a turn of the loop: those that were waiting behind the
\* first, and perhaps one more, of the timer or of an operation cancelled.
LEMMA HandlersAfterTurn ==
  ASSUME HttpInv, RunOne
  PROVE  /\ ready' \in Seq(HandlerType)
         /\ \A i \in 1..Len(ready) : i > 1 => \E j \in 1..Len(ready') : ready'[j] = ready[i]
         /\ \A j \in 1..Len(ready') :
              \/ \E i \in 1..Len(ready) : ready'[j] = ready[i]
              \/ ready'[j].ec = "aborted" /\ ready'[j].handler \in {"timer"} \cup OpsOf(wait)
<1>1. TypeOK /\ HandlersOfWait
  BY DEF HttpInv
<1>2. ready \in Seq(HandlerType) /\ ready # << >> /\ Len(ready) \in Nat \ {0} /\ Head(ready) = ready[1]
  BY <1>1 DEF TypeOK, HandlerType, RunOne
<1> DEFINE rest == Tail(ready)
           o == IF Connects(Head(ready)) THEN "connect" ELSE op
<1>3. /\ rest \in Seq(HandlerType) /\ Len(rest) = Len(ready) - 1
      /\ \A i \in 1..Len(rest) : rest[i] = ready[i + 1]
  BY <1>2, HeadTailProperties
<1>4. o \in {"none"} \cup OpsOf(wait) /\ OpsOf(wait) \subseteq {"resolve", "connect", "handshake", "write", "read"}
  <2>1. Connects(Head(ready)) => wait = "connect"
    BY <1>1, <1>2 DEF HandlersOfWait, Connects, OpsOf
  <2> QED
    BY <1>1, <2>1 DEF HandlersOfWait, OpsOf
<1>5. \/ ready' = rest
      \/ \E x \in {"timer"} \cup OpsOf(wait) : ready' = Append(rest, [handler |-> x, ec |-> "aborted"])
  <2>1. CanCancel(o) => o \in OpsOf(wait)
    BY <1>4 DEF CanCancel
  <2> QED
    BY <2>1 DEF RunOne
<1> HIDE DEF rest, o
<1>6. \A i \in 1..Len(ready) : i > 1 => i - 1 \in 1..Len(rest) /\ rest[i - 1] = ready[i]
  BY <1>2, <1>3
<1>7. \A j \in 1..Len(rest) : j + 1 \in 1..Len(ready) /\ rest[j] = ready[j + 1]
  BY <1>2, <1>3
<1>8. CASE ready' = rest
  BY <1>3, <1>6, <1>7, <1>8
<1>9. ASSUME NEW x \in {"timer"} \cup OpsOf(wait), ready' = Append(rest, [handler |-> x, ec |-> "aborted"])
      PROVE  /\ ready' \in Seq(HandlerType)
             /\ \A i \in 1..Len(ready) : i > 1 => \E j \in 1..Len(ready') : ready'[j] = ready[i]
             /\ \A j \in 1..Len(ready') :
                  \/ \E i \in 1..Len(ready) : ready'[j] = ready[i]
                  \/ ready'[j].ec = "aborted" /\ ready'[j].handler \in {"timer"} \cup OpsOf(wait)
  <2> DEFINE e == [handler |-> x, ec |-> "aborted"]
  <2>1. e \in HandlerType
    BY <1>4, <1>9 DEF HandlerType
  <2>2. /\ ready' \in Seq(HandlerType) /\ Len(ready') = Len(rest) + 1 /\ ready'[Len(rest) + 1] = e
        /\ \A i \in 1..Len(rest) : ready'[i] = rest[i]
    BY <1>3, <1>9, <2>1, AppendProperties
  <2>3. Len(rest) \in Nat
    BY <1>3
  <2>4. \A i \in 1..Len(ready) : i > 1 => \E j \in 1..Len(ready') : ready'[j] = ready[i]
    BY <1>6, <2>2, <2>3
  <2>5. \A j \in 1..Len(ready') : j \in 1..Len(rest) \/ ready'[j] = e
    BY <2>2, <2>3
  <2> QED
    BY <1>7, <2>2, <2>4, <2>5
<1> QED
  BY <1>5, <1>8, <1>9

\* One turn of the loop.
LEMMA RunOneStep ==
  ASSUME HttpInv, RunOne
  PROVE  HttpInv'
<1> DEFINE h == Head(ready)
           o == IF Connects(h) THEN "connect" ELSE op
           t == IF h.handler = "timer" THEN "none" ELSE timer
<1>1. TypeOK /\ HandlersOfWait /\ Traffic /\ ReadBrings /\ ResponseIsOwn
  BY DEF HttpInv
<1>2. ready \in Seq(HandlerType) /\ ready # << >> /\ Len(ready) \in Nat \ {0} /\ h = ready[1] /\ h \in HandlerType
  <2>1. ready \in Seq(HandlerType) /\ ready # << >>
    BY <1>1 DEF TypeOK, HandlerType, RunOne
  <2> QED
    BY <2>1
<1>3. wait # "idle" /\ h.handler \in {"timer"} \cup OpsOf(wait) /\ 1 \in 1..Len(ready)
  BY <1>1, <1>2 DEF HandlersOfWait
<1>4. /\ f_result' = Result(h) /\ timer_expired' = (timer_expired \/ Expires(h))
      /\ UNCHANGED <<_connections, dest, req, wait, res, last>>
      /\ \/ f_result' # None /\ timer_cancelled' = TRUE /\ UNCHANGED cancelled
         \/ f_result' = None /\ timer_expired' /\ cancelled' = TRUE /\ UNCHANGED timer_cancelled
         \/ /\ f_result' = None /\ ~timer_expired' /\ op' = o
            /\ UNCHANGED <<timer_cancelled, cancelled>>
  BY DEF RunOne
<1>5. op' \in {"none", o} /\ timer' \in {"none", "armed", "queued"}
  <2>1. t \in {"none", "armed", "queued"}
    BY <1>1 DEF TypeOK
  <2> QED
    BY <2>1 DEF RunOne
<1>6. o \in {"none"} \cup OpsOf(wait)
  <2>1. Connects(h) => wait = "connect"
    BY <1>3 DEF Connects, OpsOf
  <2> QED
    BY <1>1, <2>1 DEF HandlersOfWait, OpsOf
<1>7. f_result' \in {None, "ok", "error", "aborted"}
  BY <1>1, <1>2, <1>4 DEF Result, TypeOK, HandlerType
<1>8. {timer_expired', timer_cancelled', cancelled'} \subseteq BOOLEAN
  <2>1. timer_expired \in BOOLEAN /\ timer_cancelled \in BOOLEAN /\ cancelled \in BOOLEAN
    BY <1>1 DEF TypeOK
  <2>2. timer_expired' \in BOOLEAN
    BY <1>4
  <2>3. timer_cancelled' \in BOOLEAN /\ cancelled' \in BOOLEAN
    BY <1>4, <2>1, Zenon
  <2> QED
    BY <2>2, <2>3
<1>9. TypeOK'
  <2>1. op' \in {"none", "resolve", "connect", "handshake", "write", "read"}
    BY <1>5, <1>6 DEF OpsOf
  <2> QED
    BY <1>1, <1>4, <1>5, <1>7, <1>8, <2>1, HandlersAfterTurn DEF TypeOK, HandlerType
<1>10. HandlersOfWait'
  <2>1. \A i \in 1..Len(ready') : ready'[i].handler \in {"timer"} \cup OpsOf(wait')
    BY <1>1, <1>4, HandlersAfterTurn DEF HandlersOfWait
  <2>2. op' \in {"none"} \cup OpsOf(wait')
    BY <1>4, <1>5, <1>6
  <2>3. ASSUME f_result' = None, ~timer_expired' PROVE op' # "none" \/ OpIsReady'
    <3>1. op' = o /\ ~timer_expired /\ ~cancelled
      BY <1>1, <1>4, <2>3 DEF HandlersOfWait
    <3>2. f_result = None /\ (h.handler = "timer" \/ (h.handler = "resolve" /\ h.ec = "ok"))
      <4>1. h.ec # None
        BY <1>2, NoneAssumption DEF HandlerType
      <4> QED
        BY <1>4, <2>3, <4>1 DEF Result
    <3>3. CASE h.handler = "resolve" /\ h.ec = "ok"
      BY <3>1, <3>3 DEF Connects
    <3>4. CASE h.handler = "timer"
      <4>1. op # "none" \/ OpIsReady
        BY <1>1, <1>3, <3>1, <3>2 DEF HandlersOfWait
      <4>2. o = op
        BY <3>4 DEF Connects
      <4>3. ASSUME NEW i \in 1..Len(ready), ready[i].handler # "timer" PROVE OpIsReady'
        <5>1. i > 1
          BY <1>2, <3>4, <4>3
        <5>2. PICK j \in 1..Len(ready') : ready'[j] = ready[i]
          BY <5>1, HandlersAfterTurn
        <5> QED
          BY <4>3, <5>2 DEF OpIsReady
      <4> QED
        BY <3>1, <4>1, <4>2, <4>3 DEF OpIsReady
    <3> QED
      BY <3>2, <3>3, <3>4
  <2>4. cancelled' => timer_expired'
    BY <1>1, <1>4 DEF HandlersOfWait
  <2>5. f_result' # None => timer_cancelled'
    BY <1>4
  <2> QED
    BY <1>3, <1>4, <2>1, <2>2, <2>3, <2>4, <2>5 DEF HandlersOfWait
<1>11. Traffic' /\ ResponseIsOwn'
  BY <1>1, <1>4 DEF Traffic, Writing, ResponseIsOwn, Carries, IsQuiet
<1>12. ReadBrings'
  <2>1. ASSUME wait = "read", f_result' = "ok"
        PROVE  f_result = "ok" \/ \E i \in 1..Len(ready) : ready[i].handler = "read" /\ ready[i].ec = "ok"
    BY <1>2, <1>3, <1>4, <2>1 DEF Result, OpsOf
  <2>2. ASSUME NEW j \in 1..Len(ready'), ready'[j].handler = "read", ready'[j].ec = "ok"
        PROVE  \E i \in 1..Len(ready) : ready[i].handler = "read" /\ ready[i].ec = "ok"
    BY <2>2, HandlersAfterTurn
  <2> QED
    BY <1>1, <1>4, <2>1, <2>2 DEF ReadBrings, IsQuiet
<1> QED
  BY <1>9, <1>10, <1>11, <1>12 DEF HttpInv

\* The connection is there: a handshake or the write begins.
LEMMA ConnectedStep ==
  ASSUME HttpInv, Connected
  PROVE  HttpInv'
<1>1. TypeOK /\ Traffic /\ ResponseIsOwn /\ wait \in {"connect", "handshake"}
  BY DEF HttpInv, Connected
<1>2. dest \in Url /\ req \in 1..MaxRequests /\ UNCHANGED <<dest, req, res, last>>
  BY <1>1 DEF Traffic, Connected
<1>3. CASE wait = "connect" /\ dest.proto = "https"
  <2>1. StartWait("handshake") /\ wait' = "handshake" /\ UNCHANGED _connections
    BY <1>3 DEF Connected, StartWait
  <2>2. TypeOK'
    BY <1>1, <1>2, <2>1, WaitTyped DEF TypeOK
  <2>3. HandlersOfWait'
    BY <2>1, WaitStarts
  <2>4. Traffic' /\ ReadBrings' /\ ResponseIsOwn'
    BY <1>1, <1>2, <2>1 DEF Traffic, Writing, ReadBrings, ResponseIsOwn, IsQuiet
  <2> QED
    BY <2>2, <2>3, <2>4 DEF HttpInv
<1>4. CASE ~(wait = "connect" /\ dest.proto = "https")
  <2>1. StartWrite(dest, req, NewConnection(dest)) /\ res' \in Response \cup {None}
    BY <1>1, <1>2, <1>4 DEF Connected, TypeOK
  <2>2. PICK u \in Url : u = dest
    BY <1>2
  <2>3. PICK n \in 1..MaxRequests : n = req
    BY <1>2
  <2> QED
    BY <1>1, <1>2, <2>1, <2>2, <2>3, NewConnectionIsQuiet, WriteStarts
<1> QED
  BY <1>3, <1>4

\* The request was written: the read begins.
LEMMA WrittenStep ==
  ASSUME HttpInv, Written
  PROVE  HttpInv'
<1>1. /\ TypeOK /\ Traffic /\ ResponseIsOwn /\ wait = "write" /\ wait' = "read" /\ StartWait("read")
      /\ UNCHANGED <<_connections, dest, req, res, last>>
  BY DEF HttpInv, Written, StartWait
<1>2. TypeOK'
  BY <1>1, WaitTyped DEF TypeOK
<1>3. HandlersOfWait' /\ Len(ready') = 0 /\ f_result' = None
  BY <1>1, WaitStarts
<1>4. Traffic' /\ ResponseIsOwn'
  BY <1>1 DEF Traffic, Writing, ResponseIsOwn, IsQuiet, Carries
<1>5. ReadBrings'
  BY <1>3, NoneAssumption DEF ReadBrings
<1> QED
  BY <1>2, <1>3, <1>4, <1>5 DEF HttpInv

\* A wait that ends leaves nothing behind in the context.
LEMMA LoopEndsClean ==
  ASSUME HttpInv, LoopEnds, wait' = "idle",
         UNCHANGED <<op, timer, ready, f_result, timer_expired, timer_cancelled, cancelled>>
  PROVE  HandlersOfWait'
BY DEF HttpInv, HandlersOfWait, LoopEnds, OpsOf

\* The call returns its response, or throws on account of its status.
LEMMA ResponseReadStep ==
  ASSUME HttpInv, ResponseRead
  PROVE  HttpInv'
<1> DEFINE k == url_to_host_key(dest)
<1>1. TypeOK /\ Traffic /\ ReadBrings /\ wait = "read" /\ f_result = "ok"
  BY DEF HttpInv, ResponseRead, ErrorCode
<1>2. /\ res # None /\ res.of = req /\ IsQuiet(_connections[k]) /\ res \in Response
      /\ dest \in Url /\ k \in Key /\ req \in 1..MaxRequests
  BY <1>1, KeyOfUrl DEF ReadBrings, Traffic, TypeOK
<1>3. _connections' = _connections \/ _connections' = [_connections EXCEPT ![k] = None]
  BY DEF ResponseRead
<1>4. /\ last'.req = req /\ last'.of = req
      /\ last' \in [req : 1..MaxRequests, of : 0..MaxRequests, how : {"failed", "returned", "threw"}]
  <2>1. last' = [req |-> req, of |-> res.of, how |-> IF res.status = "ok" THEN "returned" ELSE "threw"]
    BY DEF ResponseRead
  <2>2. req \in 0..MaxRequests
    BY <1>1 DEF TypeOK
  <2> QED
    BY <1>2, <2>1, <2>2
<1>5. /\ wait' = "idle"
      /\ UNCHANGED <<dest, req, op, timer, ready, f_result, timer_expired, timer_cancelled, cancelled, res>>
  BY DEF ResponseRead
<1>6. TypeOK'
  <2>1. _connections' \in [Key -> {None} \cup Connection]
    BY <1>1, <1>3 DEF TypeOK
  <2> QED
    BY <1>1, <1>4, <1>5, <2>1 DEF TypeOK
<1>7. HandlersOfWait'
  BY <1>5, LoopEndsClean DEF ResponseRead
<1>8. Traffic'
  <2>1. \A j \in Key : _connections'[j] # None => _connections'[j] = _connections[j]
    BY <1>1, <1>2, <1>3 DEF TypeOK
  <2>2. \A j \in Key : _connections[j] # None => IsQuiet(_connections[j])
    BY <1>1, <1>2 DEF Traffic
  <2> QED
    BY <1>5, <2>1, <2>2 DEF Traffic, Writing
<1>9. ReadBrings' /\ ResponseIsOwn'
  BY <1>4, <1>5 DEF ReadBrings, ResponseIsOwn
<1> QED
  BY <1>6, <1>7, <1>8, <1>9 DEF HttpInv

\* The call throws and its connection is erased.
LEMMA FailedStep ==
  ASSUME HttpInv, Failed
  PROVE  HttpInv'
<1> DEFINE k == url_to_host_key(dest)
<1>1. TypeOK /\ Traffic /\ wait # "idle"
  BY DEF HttpInv, Failed, LoopEnds
<1>2. dest \in Url /\ k \in Key /\ req \in 1..MaxRequests
  BY <1>1, KeyOfUrl DEF Traffic
<1>3. /\ _connections' = [_connections EXCEPT ![k] = None] /\ wait' = "idle"
      /\ last' = [req |-> req, how |-> "failed", of |-> 0]
      /\ UNCHANGED <<dest, req, op, timer, ready, f_result, timer_expired, timer_cancelled, cancelled, res>>
  BY DEF Failed
<1>4. TypeOK'
  <2>1. _connections' \in [Key -> {None} \cup Connection]
    BY <1>1, <1>3 DEF TypeOK
  <2>2. last' \in [req : 1..MaxRequests, of : 0..MaxRequests, how : {"failed", "returned", "threw"}]
    BY <1>2, <1>3, UrlAssumption
  <2> QED
    BY <1>1, <1>3, <2>1, <2>2 DEF TypeOK
<1>5. HandlersOfWait'
  BY <1>3, LoopEndsClean DEF Failed
<1>6. Traffic'
  <2>1. _connections'[k] = None /\ \A j \in Key \ {k} : _connections'[j] = _connections[j]
    BY <1>1, <1>2, <1>3 DEF TypeOK
  <2> QED
    BY <1>1, <1>3, <2>1 DEF Traffic, Writing
<1>7. ReadBrings' /\ ResponseIsOwn'
  BY <1>3 DEF ReadBrings, ResponseIsOwn
<1> QED
  BY <1>4, <1>5, <1>6, <1>7 DEF HttpInv

\* The server answers only where a request is waiting, which is on the
\* connection of the call in progress.
LEMMA AnswersStep ==
  ASSUME HttpInv, NEW k \in Key, NEW keep_alive \in BOOLEAN, NEW status \in {"ok", "error"},
         Answers(k, keep_alive, status)
  PROVE  HttpInv'
<1>1. TypeOK /\ HandlersOfWait /\ Traffic /\ ReadBrings /\ ResponseIsOwn
  BY DEF HttpInv
<1>2. /\ UNCHANGED <<dest, req, waitVars, res, last>>
      /\ _connections[k] # None /\ _connections[k].requests # << >>
  BY DEF Answers
<1>3. Writing /\ k = url_to_host_key(dest) /\ _connections[k] \in Connection
  BY <1>1, <1>2 DEF Traffic, TypeOK, IsQuiet
<1>4. _connections[k].requests = <<req>> /\ _connections[k].responses = << >> /\ req \in 1..MaxRequests
  BY <1>1, <1>2, <1>3 DEF Traffic, Carries, IsQuiet, Writing
<1> DEFINE r == [of |-> req, keep_alive |-> keep_alive, status |-> status]
           d == [_connections[k] EXCEPT !.requests = << >>, !.responses = <<r>>, !.closed = ~keep_alive]
<1>5. r \in Response
  BY <1>4, UrlAssumption DEF Response
<1>6. /\ d \in Connection /\ d # None /\ d.requests = << >> /\ Len(d.responses) = 1
      /\ d.responses[1].of = req
  <2>1. << >> \in Seq(1..MaxRequests) /\ <<r>> \in Seq(Response)
    BY <1>5
  <2>2. d \in Connection /\ d.requests = << >> /\ d.responses = <<r>>
    BY <1>3, <2>1 DEF Connection
  <2> QED
    BY <2>2, NoneAssumption
<1>7. _connections' = [_connections EXCEPT ![k] = d]
  <2>1. /\ Tail(_connections[k].requests) = << >> /\ Head(_connections[k].requests) = req
        /\ Append(_connections[k].responses, r) = <<r>>
    BY <1>4
  <2>2. _connections' = [_connections EXCEPT
       ![k].requests = Tail(@),
       ![k].responses = Append(@, [of |-> Head(_connections[k].requests),
                                   keep_alive |-> keep_alive, status |-> status]),
       ![k].closed = ~keep_alive]
    BY DEF Answers
  <2> QED
    BY <1>1, <1>3, <2>1, <2>2 DEF TypeOK, Connection
<1>8. /\ _connections' \in [Key -> {None} \cup Connection] /\ _connections'[k] = d
      /\ \A j \in Key \ {k} : _connections'[j] = _connections[j]
  BY <1>1, <1>6, <1>7 DEF TypeOK
<1>9. TypeOK'
  BY <1>1, <1>2, <1>8 DEF TypeOK, waitVars
<1>10. HandlersOfWait'
  BY <1>1, <1>2 DEF HandlersOfWait, waitVars, OpIsReady
<1>11. Traffic' /\ ResponseIsOwn'
  BY <1>1, <1>2, <1>3, <1>6, <1>8 DEF Traffic, Writing, Carries, ResponseIsOwn, waitVars, IsQuiet
<1>12. ReadBrings'
  <2>1. ~IsQuiet(_connections[k])
    BY <1>2 DEF IsQuiet
  <2> QED
    BY <1>1, <1>2, <1>3, <2>1 DEF ReadBrings, waitVars
<1> QED
  BY <1>9, <1>10, <1>11, <1>12 DEF HttpInv

\* The server closes a connection, which changes nothing the client looks at.
LEMMA ClosesStep ==
  ASSUME HttpInv, NEW k \in Key, Closes(k)
  PROVE  HttpInv'
<1>1. TypeOK /\ HandlersOfWait /\ Traffic /\ ReadBrings /\ ResponseIsOwn
  BY DEF HttpInv
<1>2. /\ UNCHANGED <<dest, req, waitVars, res, last>> /\ _connections[k] # None
      /\ _connections' = [_connections EXCEPT ![k].closed = TRUE]
  BY DEF Closes
<1> DEFINE d == [_connections[k] EXCEPT !.closed = TRUE]
<1>3. /\ d \in Connection /\ d # None /\ d.requests = _connections[k].requests
      /\ d.responses = _connections[k].responses
  <2>1. _connections[k] \in Connection
    BY <1>1, <1>2 DEF TypeOK
  <2> QED
    BY <2>1, NoneAssumption DEF Connection
<1>4. /\ _connections' \in [Key -> {None} \cup Connection] /\ _connections'[k] = d
      /\ \A j \in Key \ {k} : _connections'[j] = _connections[j]
  BY <1>1, <1>2, <1>3 DEF TypeOK
<1>5. TypeOK'
  BY <1>1, <1>2, <1>4 DEF TypeOK, waitVars
<1>6. HandlersOfWait'
  BY <1>1, <1>2 DEF HandlersOfWait, waitVars, OpIsReady
<1>7. \A j \in Key : /\ _connections'[j] = None <=> _connections[j] = None
                     /\ _connections'[j].requests = _connections[j].requests
                     /\ _connections'[j].responses = _connections[j].responses
  BY <1>2, <1>3, <1>4
<1>8. Traffic'
  BY <1>1, <1>2, <1>7, KeyOfUrl DEF Traffic, Writing, Carries, waitVars, IsQuiet
<1>9. ReadBrings' /\ ResponseIsOwn'
  BY <1>1, <1>2, <1>7, KeyOfUrl DEF Traffic, ReadBrings, ResponseIsOwn, waitVars, IsQuiet
<1> QED
  BY <1>5, <1>6, <1>8, <1>9 DEF HttpInv

-----------------------------------------------------------------------------
(* The theorems. *)

\* Every behaviour of the client and its servers keeps the invariant.
THEOREM HttpInvariance == SafeSpec => []HttpInv
<1>1. HttpInv /\ [Next]_vars => HttpInv'
  <2> SUFFICES ASSUME HttpInv, [Next]_vars PROVE HttpInv'
    OBVIOUS
  <2>1. CASE UNCHANGED vars
    BY <2>1 DEF HttpInv, vars, waitVars, TypeOK, HandlersOfWait, OpIsReady, Traffic, Writing, Carries,
                IsQuiet, ReadBrings, ResponseIsOwn
  <2>2. CASE Client
    BY <2>2, RunOneStep, ConnectedStep, WrittenStep, ResponseReadStep, FailedStep DEF Client
  <2> QED
    BY <2>1, <2>2, PostOnCachedStep, PostOnNewStep, PostOnUnixStep, CompletesStep, DeadlineStep,
       AnswersStep, ClosesStep DEF Next, Finished
<1> QED
  BY <1>1, HttpInitInv, PTL DEF SafeSpec

\* sync_do_with_deadline and post_sync: a call leaves neither a handler in the
\* context nor traffic on a cached connection, and reads a result that is set.
THEOREM CallsAreClean == SafeSpec => []CallsClean
<1>1. HttpInv => CallsClean
  <2> SUFFICES ASSUME HttpInv PROVE CallsClean
    OBVIOUS
  <2>1. TypeOK
    BY DEF HttpInv
  <2>2. CachedIsQuiet
    BY DEF HttpInv, Traffic, Writing, IsQuiet, CachedIsQuiet
  <2>3. NoHandlerLeft
    BY DEF HttpInv, HandlersOfWait, NoHandlerLeft, OpsOf
  <2>4. ResultIsSet
    BY DEF HttpInv, HandlersOfWait, ResultIsSet, LoopEnds, OpIsReady
  <2> QED
    BY <2>1, <2>2, <2>3, <2>4 DEF CallsClean
<1> QED
  BY <1>1, HttpInvariance, PTL

\* The timer's handler looks at timer_cancelled: once there is a result the
\* deadline can no longer expire.
THEOREM LateTimerIsIgnored == SafeSpec => LateTimerIgnored
<1> DEFINE Ignored == timer_expired' /\ ~timer_expired /\ wait' = wait => f_result = None
<1>1. HttpInv /\ [Next]_vars => [Ignored]_vars
  <2> SUFFICES ASSUME HttpInv, Next, timer_expired', ~timer_expired PROVE f_result = None
    OBVIOUS
  <2>1. RunOne
    BY DEF Next, Client, Connected, Written, ResponseRead, Failed, PostOnCached, PostOnNew, PostOnUnix,
           StartWrite, StartWait, Completes, DeadlinePasses, Answers, Closes, Finished, vars, waitVars
  <2>2. ~timer_cancelled
    BY <2>1 DEF RunOne, Expires
  <2> QED
    BY <2>2 DEF HttpInv, HandlersOfWait
<1> QED
  BY <1>1, HttpInvariance, PTL DEF SafeSpec, LateTimerIgnored

\* Urls that share a key in the cache lead to one endpoint, or they are https
\* urls with a missing port and with the port that stands in for it.
LEMMA KeysApart ==
  ASSUME NEW u \in Url, NEW v \in Url, url_to_host_key(u) = url_to_host_key(v)
  PROVE  \/ Endpoint(u) = Endpoint(v)
         \/ SharesKey(v) /\ Endpoint(u) \in {<<v.host, 80>>, <<v.host, 443>>}
<1>1. /\ u \in [proto : {"http", "https", "unix"}, host : STRING, port : Nat]
      /\ v \in [proto : {"http", "https", "unix"}, host : STRING, port : Nat]
  BY UrlAssumption
<1>2. /\ u.proto = v.proto /\ u.host = v.host
      /\ (IF u.port # 0 THEN u.port ELSE 80) = (IF v.port # 0 THEN v.port ELSE 80)
  BY DEF url_to_host_key
<1>3. CASE u.proto = "unix"
  BY <1>2, <1>3 DEF Endpoint
<1>4. CASE u.proto = "https"
  <2>1. CASE u.port = v.port
    BY <1>2, <2>1 DEF Endpoint
  <2>2. CASE u.port # v.port
    <3>1. u.port \in {0, 80} /\ v.port \in {0, 80}
      BY <1>1, <1>2, <2>2
    <3> QED
      BY <1>2, <1>4, <3>1 DEF SharesKey, Endpoint, default_proto_ports
  <2> QED
    BY <2>1, <2>2
<1>5. CASE u.proto = "http"
  BY <1>1, <1>2, <1>5 DEF Endpoint, default_proto_ports
<1> QED
  BY <1>1, <1>3, <1>4, <1>5

\* A cached connection leads where some url of its key says.
PeersOfKeys ==
  \A k \in Key : _connections[k] # None =>
    \E u \in Url : url_to_host_key(u) = k /\ _connections[k].peer = Endpoint(u)

\* Every step keeps it: a connection is cached under the key of the url it was made for.
LEMMA PeersStep == HttpInv /\ PeersOfKeys /\ [Next]_vars => PeersOfKeys'
<1> SUFFICES ASSUME HttpInv, PeersOfKeys, [Next]_vars PROVE PeersOfKeys'
  OBVIOUS
<1>1. TypeOK /\ Traffic
  BY DEF HttpInv
<1>2. ASSUME \A k \in Key : _connections'[k] # None =>
               _connections[k] # None /\ _connections'[k].peer = _connections[k].peer
      PROVE  PeersOfKeys'
  BY <1>2 DEF PeersOfKeys
<1>3. ASSUME NEW u \in Url, NEW n, NEW c \in Connection, StartWrite(u, n, c),
             c.peer = Endpoint(u) \/ c = _connections[url_to_host_key(u)]
      PROVE  PeersOfKeys'
  <2>1. /\ url_to_host_key(u) \in Key
        /\ _connections' = [_connections EXCEPT ![url_to_host_key(u)] = [c EXCEPT !.requests = Append(@, n)]]
    BY <1>3, KeyOfUrl DEF StartWrite
  <2>2. [c EXCEPT !.requests = Append(@, n)].peer = c.peer
    BY DEF Connection
  <2>3. \A k \in Key : _connections'[k] = IF k = url_to_host_key(u) THEN [c EXCEPT !.requests = Append(@, n)]
                                          ELSE _connections[k]
    BY <1>1, <2>1 DEF TypeOK
  <2>4. c # None
    BY NoneAssumption
  <2>5. CASE c.peer = Endpoint(u)
    BY <2>1, <2>2, <2>3, <2>5 DEF PeersOfKeys
  <2>6. CASE c = _connections[url_to_host_key(u)]
    BY <1>2, <2>2, <2>3, <2>4, <2>6
  <2> QED
    BY <1>3, <2>5, <2>6
<1>4. ASSUME NEW u \in Url, PostOnCached(u) PROVE PeersOfKeys'
  <2>1. _connections[url_to_host_key(u)] \in Connection
    BY <1>1, <1>4, KeyOfUrl DEF TypeOK, PostOnCached
  <2> QED
    BY <1>3, <1>4, <2>1 DEF PostOnCached
<1>5. ASSUME NEW u \in Url PROVE NewConnection(u) \in Connection /\ NewConnection(u).peer = Endpoint(u)
  BY NewConnectionIsQuiet DEF NewConnection
<1>6. ASSUME NEW u \in Url, NEW ok \in BOOLEAN, PostOnUnix(u, ok) PROVE PeersOfKeys'
  BY <1>2, <1>3, <1>5, <1>6 DEF PostOnUnix
<1>7. CASE Connected
  <2>1. dest \in Url
    BY <1>1, <1>7 DEF Connected, Traffic
  <2> QED
    BY <1>2, <1>3, <1>5, <1>7, <2>1 DEF Connected
<1>8. ASSUME NEW k \in Key, _connections[k] # None, NEW d,
             _connections' = [_connections EXCEPT ![k] = d], d.peer = _connections[k].peer
      PROVE  PeersOfKeys'
  BY <1>1, <1>2, <1>8 DEF TypeOK
<1>9. ASSUME NEW ec, Completes(ec) PROVE PeersOfKeys'
  <2> DEFINE k == url_to_host_key(dest)
             d == [_connections[k] EXCEPT !.responses = Tail(@)]
  <2>1. CASE UNCHANGED _connections
    BY <1>2, <2>1
  <2>2. CASE op = "read" /\ _connections' = [_connections EXCEPT ![k].responses = Tail(@)]
    <3>1. wait = "read"
      BY <2>2 DEF HttpInv, HandlersOfWait, OpsOf
    <3>2. k \in Key /\ _connections[k] \in Connection /\ _connections[k] # None
      BY <1>1, <3>1, KeyOfUrl DEF Traffic, Writing, TypeOK
    <3>3. d.peer = _connections[k].peer /\ _connections' = [_connections EXCEPT ![k] = d]
      BY <1>1, <2>2, <3>2 DEF Connection, TypeOK
    <3> QED
      BY <1>8, <3>2, <3>3
  <2> QED
    BY <1>9, <2>1, <2>2 DEF Completes
<1>10. ASSUME NEW k \in Key, NEW b, NEW s, Answers(k, b, s) PROVE PeersOfKeys'
  <2>1. _connections[k] # None /\ _connections[k] \in Connection
    BY <1>1, <1>10 DEF Answers, TypeOK
  <2>2. \A j \in Key : j # k => _connections'[j] = _connections[j]
    BY <1>1, <1>10 DEF Answers, TypeOK
  <2>3. _connections'[k].peer = _connections[k].peer
    BY <1>1, <1>10, <2>1 DEF Answers, TypeOK, Connection
  <2> QED
    BY <1>2, <2>1, <2>2, <2>3
<1>11. ASSUME NEW k \in Key, Closes(k) PROVE PeersOfKeys'
  <2>1. _connections[k] # None /\ _connections[k] \in Connection
    BY <1>1, <1>11 DEF Closes, TypeOK
  <2>2. \A j \in Key : j # k => _connections'[j] = _connections[j]
    BY <1>1, <1>11 DEF Closes, TypeOK
  <2>3. _connections'[k].peer = _connections[k].peer
    BY <1>1, <1>11, <2>1 DEF Closes, TypeOK, Connection
  <2> QED
    BY <1>2, <2>1, <2>2, <2>3
<1>12. CASE ResponseRead \/ Failed
  <2>1. _connections' = _connections \/ _connections' = [_connections EXCEPT ![url_to_host_key(dest)] = None]
    BY <1>12 DEF ResponseRead, Failed
  <2> QED
    BY <1>1, <1>2, <2>1 DEF TypeOK
<1>13. ASSUME UNCHANGED _connections PROVE PeersOfKeys'
  BY <1>2, <1>13
<1> QED
  BY <1>4, <1>6, <1>7, <1>9, <1>10, <1>11, <1>12, <1>13
  DEF Next, Client, PostOnNew, DeadlinePasses, RunOne, Written, Finished, vars

\* get_connection and post_sync: every request is written to a connection that
\* leads to the endpoint of its url, or for the https urls that share a key to
\* the endpoint of one of them, and every response that is returned, or thrown
\* on account of its status, is the response to the call's own request.
THEOREM AnswersAreMatched == SafeSpec => []AnswersMatch
<1>1. Init => PeersOfKeys
  BY DEF Init, PeersOfKeys
<1>2. SafeSpec => []PeersOfKeys
  BY <1>1, HttpInvariance, PeersStep, PTL DEF SafeSpec
<1>3. HttpInv /\ PeersOfKeys => AnswersMatch
  <2> SUFFICES ASSUME HttpInv, PeersOfKeys, wait \in {"write", "read"} PROVE SentToEndpoint
    BY DEF HttpInv, AnswersMatch, SentToEndpoint
  <2>1. dest \in Url /\ _connections[url_to_host_key(dest)] # None
    BY DEF HttpInv, Traffic, Writing
  <2>2. PICK u \in Url : /\ url_to_host_key(u) = url_to_host_key(dest)
                         /\ _connections[url_to_host_key(dest)].peer = Endpoint(u)
    BY <2>1, KeyOfUrl DEF PeersOfKeys
  <2>3. \/ Endpoint(u) = Endpoint(dest)
        \/ SharesKey(dest) /\ Endpoint(u) \in {<<dest.host, 80>>, <<dest.host, 443>>}
    BY <2>1, <2>2, KeysApart
  <2> QED
    BY <2>2, <2>3 DEF SentToEndpoint, Used
<1> QED
  BY <1>2, <1>3, HttpInvariance, PTL
=============================================================================
