--------------------------- MODULE NetworkProofs ---------------------------
(***************************************************************************)
(* Every call over an api_connection ends with what its own request asked  *)
(* for, whatever the number of fibers, handlers, apis and calls: the       *)
(* invariant of Rpc that its run checks on a small instance.               *)
(*                                                                         *)
(* The argument follows one id.  A request with this id is at any time in  *)
(* one place: with the fiber that is about to send it, on its way, with    *)
(* the handler that asks back, or answered on its way back.  Each step     *)
(* moves it from one place to the next, so that it is never in two of them *)
(* and never twice in one; and what it carries from place to place fits    *)
(* what the fiber with this id asked for.                                  *)
(*                                                                         *)
(* No fiber that waits on a udt socket is forgotten, for every set of      *)
(* fibers and sockets; and the clock of the ntp client is right once it    *)
(* says so, for all servers, skews and delays, before the time stamps come *)
(* round.                                                                  *)
(***************************************************************************)
EXTENDS Rpc, Udt, Ntp, FiniteSetTheorems, SequenceTheorems, WellFoundedInduction, TLAPS

-----------------------------------------------------------------------------
(* The messages of a channel. *)

\* The messages of a sequence.
Msgs(s) == {s[i] : i \in DOMAIN s}

\* The ids of its messages of some types.
Ids(s, T) == {m.id : m \in {x \in Msgs(s) : x.type \in T}}

\* No two of them share an id.
Once(s, T) == \A i, j \in DOMAIN s : s[i].type \in T /\ s[j].type \in T /\ s[i].id = s[j].id => i = j

\* An empty channel carries nothing.
LEMMA EmptyChannel == Msgs(<< >>) = {} /\ \A T : Ids(<< >>, T) = {} /\ Once(<< >>, T)
  BY DEF Msgs, Ids, Once

\* Where the messages are after the first is taken.
LEMMA TailAt ==
  ASSUME NEW M, NEW s \in Seq(M), s # << >>
  PROVE  /\ Tail(s) \in Seq(M) /\ 1 \in DOMAIN s /\ Head(s) = s[1] /\ Head(s) \in M
         /\ \A i \in DOMAIN Tail(s) : i \in Int /\ i + 1 \in DOMAIN s /\ Tail(s)[i] = s[i + 1] /\ i + 1 # 1
         /\ \A i \in DOMAIN s : i = 1 \/ (i - 1 \in DOMAIN Tail(s) /\ Tail(s)[i - 1] = s[i])
<1> DEFINE t == Tail(s)
<1>1. t \in Seq(M) /\ Len(t) = Len(s) - 1 /\ \A i \in 1..Len(t) : t[i] = s[i + 1]
  BY HeadTailProperties
<1>2. Len(s) \in Nat \ {0} /\ DOMAIN s = 1..Len(s) /\ Head(s) = s[1] /\ Head(s) \in M
  BY EmptySeq, LenProperties, HeadTailProperties
<1>3. DOMAIN t = 1..Len(t)
  BY <1>1, LenProperties
<1> HIDE DEF t
<1>4. \A i \in DOMAIN t : i \in Int /\ i + 1 \in DOMAIN s /\ t[i] = s[i + 1] /\ i + 1 # 1
  BY <1>1, <1>2, <1>3
<1>5. \A i \in DOMAIN s : i = 1 \/ (i - 1 \in DOMAIN t /\ t[i - 1] = s[i])
  <2> SUFFICES ASSUME NEW i \in DOMAIN s, i # 1 PROVE i - 1 \in DOMAIN t /\ t[i - 1] = s[i]
    OBVIOUS
  <2>1. i - 1 \in 1..Len(t) /\ (i - 1) + 1 = i
    BY <1>1, <1>2
  <2> QED
    BY <1>1, <1>3, <2>1
<1>6. 1 \in DOMAIN s
  BY <1>2
<1> QED
  BY <1>1, <1>2, <1>4, <1>5, <1>6 DEF t

\* Taking the first message takes that message.
LEMMA TakeFirst ==
  ASSUME NEW M, NEW s \in Seq(M), s # << >>
  PROVE  /\ Tail(s) \in Seq(M)
         /\ Head(s) \in Msgs(s) /\ Head(s) \in M
         /\ Msgs(s) = Msgs(Tail(s)) \cup {Head(s)}
<1> DEFINE t == Tail(s)
<1>1. /\ t \in Seq(M) /\ 1 \in DOMAIN s /\ Head(s) = s[1] /\ Head(s) \in M
      /\ \A i \in DOMAIN t : i \in Int /\ i + 1 \in DOMAIN s /\ t[i] = s[i + 1] /\ i + 1 # 1
      /\ \A i \in DOMAIN s : i = 1 \/ (i - 1 \in DOMAIN t /\ t[i - 1] = s[i])
  BY TailAt
<1> HIDE DEF t
<1>2. Msgs(s) = Msgs(t) \cup {s[1]}
  BY <1>1 DEF Msgs
<1> QED
  BY <1>1, <1>2 DEF t, Msgs

\* It takes the one occurrence of its id.
LEMMA TakeOnce ==
  ASSUME NEW M, NEW s \in Seq(M), s # << >>, NEW T, Once(s, T)
  PROVE  Once(Tail(s), T) /\ (Head(s).type \in T => Head(s).id \notin Ids(Tail(s), T))
<1> DEFINE t == Tail(s)
<1>1. /\ 1 \in DOMAIN s /\ Head(s) = s[1]
      /\ \A i \in DOMAIN t : i \in Int /\ i + 1 \in DOMAIN s /\ t[i] = s[i + 1] /\ i + 1 # 1
  BY TailAt
<1> HIDE DEF t
<1>2. Once(t, T)
  <2> SUFFICES ASSUME NEW i \in DOMAIN t, NEW j \in DOMAIN t, t[i].type \in T, t[j].type \in T, t[i].id = t[j].id
               PROVE  i = j
    BY DEF Once
  <2>1. i + 1 = j + 1
    BY <1>1 DEF Once
  <2> QED
    BY <1>1, <2>1
<1>3. ASSUME s[1].type \in T PROVE s[1].id \notin Ids(t, T)
  <2> SUFFICES ASSUME s[1].id \in Ids(t, T) PROVE FALSE
    OBVIOUS
  <2>1. PICK m \in Msgs(t) : m.type \in T /\ m.id = s[1].id
    BY DEF Ids
  <2>2. PICK i \in DOMAIN t : m = t[i]
    BY DEF Msgs
  <2> QED
    BY <1>1, <1>3, <2>1, <2>2 DEF Once
<1> QED
  BY <1>1, <1>2, <1>3 DEF t

\* A message put at the end adds its id, once if it was not there.
LEMMA PutLast ==
  ASSUME NEW M, NEW s \in Seq(M), NEW m \in M
  PROVE  /\ Append(s, m) \in Seq(M)
         /\ Msgs(Append(s, m)) = Msgs(s) \cup {m}
         /\ \A T : Once(s, T) /\ (m.type \in T => m.id \notin Ids(s, T)) => Once(Append(s, m), T)
<1> DEFINE t == Append(s, m)
<1>1. t \in Seq(M) /\ Len(t) = Len(s) + 1 /\ (\A i \in 1..Len(s) : t[i] = s[i]) /\ t[Len(s) + 1] = m
  BY AppendProperties
<1>2. Len(s) \in Nat /\ DOMAIN s = 1..Len(s) /\ DOMAIN t = 1..Len(t)
  BY <1>1, LenProperties
<1> HIDE DEF t
<1>3. /\ \A i \in DOMAIN s : i \in DOMAIN t /\ t[i] = s[i] /\ i # Len(s) + 1
      /\ \A i \in DOMAIN t : i \in DOMAIN s \/ i = Len(s) + 1
      /\ Len(s) + 1 \in DOMAIN t
  BY <1>1, <1>2
<1>4. Msgs(t) = Msgs(s) \cup {m}
  BY <1>1, <1>3 DEF Msgs
<1>5. ASSUME NEW T, Once(s, T), m.type \in T => m.id \notin Ids(s, T) PROVE Once(t, T)
  <2> SUFFICES ASSUME NEW i \in DOMAIN t, NEW j \in DOMAIN t, t[i].type \in T, t[j].type \in T, t[i].id = t[j].id
               PROVE  i = j
    BY DEF Once
  <2>1. ASSUME NEW k \in DOMAIN s, t[k].type \in T, m.type \in T PROVE t[k].id # m.id
    BY <1>3, <1>5, <2>1 DEF Ids, Msgs
  <2>2. CASE i \in DOMAIN s /\ j \in DOMAIN s
    BY <1>3, <1>5, <2>2 DEF Once
  <2>3. CASE i \in DOMAIN s /\ j = Len(s) + 1
    BY <1>1, <2>1, <2>3
  <2>4. CASE i = Len(s) + 1 /\ j \in DOMAIN s
    BY <1>1, <2>1, <2>4
  <2> QED
    BY <1>3, <2>2, <2>3, <2>4
<1> QED
  BY <1>1, <1>4, <1>5 DEF t

\* A set of natural numbers has a least one.
LEMMA LeastNatural ==
  ASSUME NEW S \in SUBSET Nat, S # {}
  PROVE  \E x \in S : \A y \in S : x <= y
<1> DEFINE R == {ss \in Nat \X Nat : ss[1] < ss[2]}
<1>1. IsWellFoundedOn(R, Nat)
  BY NatLessThanWellFounded, Zenon DEF OpToRel
<1>2. \A x, y \in Nat : <<y, x>> \in R <=> y < x
  OBVIOUS
<1> HIDE DEF R
<1>3. PICK x \in S : \A y \in S : ~(<<y, x>> \in R)
  BY <1>1, WFMin
<1>4. ASSUME NEW y \in S PROVE x <= y
  <2>1. x \in Nat /\ y \in Nat
    OBVIOUS
  <2>2. ~(y < x)
    BY <1>2, <1>3, <2>1
  <2> QED
    BY <2>1, <2>2
<1> QED
  BY <1>4

-----------------------------------------------------------------------------
(* The inductive invariant. *)

\* The types of messages, the data they carry and what a fiber keeps.
Requests == {"call", "callback"}
Answers == {"result", "error"}
Datum == Api \cup Nat \cup {None}
IdOrNone == Nat \cup {None}
Messages == [type : Requests \cup Answers \cup {"notice"}, id : IdOrNone, api : Nat, method : Method, arg : Datum]
Outcomes == [type : {"value", "none", "error", "closed", "missed", "nothing"}, value : Datum]
Fibers == [pc : {"idle", "started", "sent", "waiting", "done"}, id : IdOrNone, api : Nat, method : Method,
           arg : Datum, outcome : Outcomes, answer : IdOrNone]

\* The types of the variables, and the bound on the ids of the client.
RpcType ==
  /\ chan \in [Peer -> Seq(Messages)]
  /\ next_id \in [Peer -> Nat] /\ next_id["client"] <= MaxId
  /\ awaiting \in [Peer -> SUBSET Nat]
  /\ apis \in Seq(Api) /\ callbacks \in Nat /\ subs \in SUBSET Nat
  /\ fiber \in [Fiber -> Fibers]

\* Which messages go which way, and which fibers have ids and requests to answer.
Kinds ==
  /\ \A m \in Msgs(chan["server"]) : m.type \in {"call"} \cup Answers /\ m.id \in Nat
  /\ \A m \in Msgs(chan["client"]) : /\ m.type \in {"callback", "notice"} \cup Answers
                                     /\ m.type # "notice" => m.id \in Nat
  /\ \A f \in Fiber : fiber[f].pc \in {"started", "sent", "waiting"} => fiber[f].id \in Nat
  /\ \A f \in Caller : fiber[f].answer = None
  /\ \A h \in Handler : fiber[h].pc = "idle" <=> fiber[h].answer = None

\* The places of the requests of a peer: on their way, with a handler, answered.
Requested(p) == Ids(chan[Other(p)], Requests)
Replied(p) == Ids(chan[p], Answers)
Asking(p) == {fiber[h].answer : h \in {x \in Handler : p = "client" /\ fiber[x].answer # None}}
Places(p) == Requested(p) \cup Replied(p) \cup Asking(p)

\* A request is in one place only, and once there.
Unique(p) ==
  /\ Once(chan[Other(p)], Requests) /\ Once(chan[p], Answers)
  /\ Requested(p) \cap Replied(p) = {} /\ Requested(p) \cap Asking(p) = {} /\ Replied(p) \cap Asking(p) = {}
  /\ Places(p) \subseteq 0..(next_id[p] - 1)

\* Fibers, and handlers with a request to answer, have ids of their own; a
\* request that is not yet sent is in none of the places.
OwnIds ==
  /\ \A f \in Fiber : fiber[f].id # None => fiber[f].id \in 0..(next_id[At(f)] - 1)
  /\ \A f, g \in Fiber : At(f) = At(g) /\ fiber[f].id # None /\ fiber[f].id = fiber[g].id => f = g
  /\ \A g, h \in Handler : fiber[g].answer # None /\ fiber[g].answer = fiber[h].answer => g = h
  /\ \A f \in Fiber : fiber[f].pc = "started" => fiber[f].id \notin Places(At(f))

\* An awaited request is in one of the places while the connection is up.
Present ==
  open => \A f \in Fiber : fiber[f].pc \in {"sent", "waiting"} /\ fiber[f].id \in awaiting[At(f)] =>
            fiber[f].id \in Places(At(f))

\* What a call of a method with an argument may return.
Matches(as, method, arg, value) ==
  /\ method = "get" => value = arg
  /\ method # "fail"
  /\ method = "open" => value \in Nat /\ value < Len(as) /\ (arg \notin Proxy => as[value + 1] = arg)
  /\ method \in {"sub", "ask"} => value = None

\* What is in a place fits the fiber with its id, and so does what a call ended with.
Content ==
  /\ \A f \in Caller :
       /\ fiber[f].pc = "done" /\ fiber[f].outcome.type = "value" =>
            Matches(apis, fiber[f].method, fiber[f].arg, fiber[f].outcome.value)
       /\ fiber[f].id # None =>
            /\ \A m \in Msgs(chan["server"]) : m.type = "call" /\ m.id = fiber[f].id =>
                 m.method = fiber[f].method /\ m.arg = fiber[f].arg
            /\ \A h \in Handler : fiber[h].answer = fiber[f].id => fiber[f].method = "ask"
            /\ \A m \in Msgs(chan["client"]) : m.type = "result" /\ m.id = fiber[f].id =>
                 Matches(apis, fiber[f].method, fiber[f].arg, m.arg)
  /\ \A m \in Msgs(chan["server"]) : m.type \in Answers => m.arg = None
  /\ \A h \in Handler : fiber[h].outcome.value = None

\* The arguments of a method: a callback is one of the n the client has registered.
Fits(n, method, arg) ==
  /\ method = "open" => arg \in Api
  /\ method \in {"sub", "ask"} => arg \in 0..(n - 1)

\* Every callback anyone holds is registered.
Known ==
  /\ \A f \in Caller : Fits(callbacks, fiber[f].method, fiber[f].arg)
  /\ \A h \in Handler : fiber[h].pc # "idle" => fiber[h].arg \in 0..(callbacks - 1)
  /\ \A m \in Msgs(chan["server"]) : m.type = "call" => Fits(callbacks, m.method, m.arg)
  /\ \A m \in Msgs(chan["client"]) : m.type \in {"callback", "notice"} => m.arg \in 0..(callbacks - 1)
  /\ subs \subseteq 0..(callbacks - 1)

\* The inductive invariant.
RpcInv == RpcType /\ Kinds /\ (\A p \in Peer : Unique(p)) /\ OwnIds /\ Present /\ Content /\ Known

-----------------------------------------------------------------------------
(* What a method returns. *)

\* Apis are only added, so what matched goes on matching.
LEMMA MatchesStay ==
  ASSUME NEW as \in Seq(Api), NEW bs \in Seq(Api), Len(as) <= Len(bs),
         \A i \in 1..Len(as) : bs[i] = as[i],
         NEW method, NEW arg, NEW value, Matches(as, method, arg, value)
  PROVE  Matches(bs, method, arg, value)
<1>1. Len(as) \in Nat /\ Len(bs) \in Nat
  BY LenProperties
<1>2. ASSUME value \in Nat, value < Len(as) PROVE value < Len(bs) /\ bs[value + 1] = as[value + 1]
  <2>1. \A v, m, n \in Nat : v < m /\ m <= n => v + 1 \in 1..m /\ v < n
    OBVIOUS
  <2>2. value + 1 \in 1..Len(as) /\ value < Len(bs)
    BY <1>1, <1>2, <2>1
  <2> QED
    BY <2>2
<1> QED
  BY <1>2 DEF Matches

\* register_api finds the api or adds it, and only adds.
LEMMA RegisterOK ==
  ASSUME apis \in Seq(Api), NEW a \in Api
  PROVE  LET r == register_api(a) IN
         /\ r.apis \in Seq(Api) /\ Len(apis) <= Len(r.apis)
         /\ \A i \in 1..Len(apis) : r.apis[i] = apis[i]
         /\ r.id \in Nat /\ r.id < Len(r.apis)
         /\ a \notin Proxy => r.apis[r.id + 1] = a
<1> DEFINE r == register_api(a)
           same == {i \in DOMAIN apis : get_handle(apis[i]) = get_handle(a)}
<1>1. Len(apis) \in Nat /\ DOMAIN apis = 1..Len(apis) /\ \A i \in 1..Len(apis) : apis[i] \in Api
  BY LenProperties, ElementOfSeq
<1>2. CASE same = {}
  <2>1. r.id = Len(apis) /\ r.apis = Append(apis, a)
    BY <1>2 DEF register_api
  <2>2. /\ r.apis \in Seq(Api) /\ Len(r.apis) = Len(apis) + 1 /\ r.apis[Len(apis) + 1] = a
        /\ \A i \in 1..Len(apis) : r.apis[i] = apis[i]
    BY <2>1, AppendProperties
  <2> HIDE DEF r
  <2> QED
    BY <1>1, <2>1, <2>2 DEF r
<1>3. CASE same # {}
  <2> DEFINE k == CHOOSE i \in same : \A j \in same : i <= j
  <2>1. same \in SUBSET Nat
    BY <1>1
  <2>2. r.id = k - 1 /\ r.apis = apis
    BY <1>3 DEF register_api
  <2> HIDE DEF same
  <2>3. k \in same
    BY <1>3, <2>1, LeastNatural
  <2> HIDE DEF k
  <2>4. k \in 1..Len(apis) /\ get_handle(apis[k]) = get_handle(a)
    BY <1>1, <2>3 DEF same
  <2>5. ASSUME a \notin Proxy PROVE apis[k] = a
    BY <1>1, <2>4, <2>5, RpcAssumption DEF get_handle
  <2>6. r.id \in Nat /\ r.id < Len(apis) /\ r.id + 1 = k
    BY <1>1, <2>2, <2>4
  <2> HIDE DEF r
  <2> QED
    BY <1>1, <2>2, <2>5, <2>6 DEF r
<1> QED
  BY <1>2, <1>3

\* What comes of a call: the registrations grow, and a value fits the method.
Received(r, method, arg) ==
  /\ r.apis \in Seq(Api) /\ Len(apis) <= Len(r.apis)
  /\ \A i \in 1..Len(apis) : r.apis[i] = apis[i]
  /\ r.outcome \in Outcomes /\ r.outcome.type \in {"value", "error"}
  /\ r.outcome.type = "value" => Matches(r.apis, method, arg, r.outcome.value)
  /\ r.outcome.type = "error" => r.outcome.value = None
  /\ r.subs \in SUBSET Nat /\ r.subs \subseteq subs \cup (IF method = "sub" THEN {arg} ELSE {})
  /\ method = "ask" => r.apis = apis /\ r.subs = subs

\* A call returns what it must, or throws, and adds apis and subscriptions.
LEMMA ReceiveOK ==
  ASSUME apis \in Seq(Api), subs \in SUBSET Nat, callbacks \in Nat,
         NEW api \in Nat, NEW method \in Method, NEW arg \in Datum,
         method = "open" => arg \in Api, method \in {"sub", "ask"} => arg \in Nat
  PROVE  Received(receive_call(api, method, arg), method, arg)
<1> DEFINE r == receive_call(api, method, arg)
<1>1. Len(apis) \in Nat
  BY LenProperties
<1>2. CASE api >= Len(apis) \/ method = "fail"
  <2>1. r = [outcome |-> Thrown("error"), apis |-> apis, subs |-> subs]
    BY <1>2 DEF receive_call
  <2> QED
    BY <1>1, <2>1 DEF Thrown, Outcomes, Datum, Received
<1>3. CASE ~(api >= Len(apis) \/ method = "fail")
  <2>1. CASE method = "get"
    <3>1. r = [outcome |-> Value(arg), apis |-> apis, subs |-> subs]
      BY <1>3, <2>1 DEF receive_call
    <3>2. r.apis = apis /\ r.subs = subs /\ r.outcome = Value(arg)
      BY <3>1
    <3>3. r.outcome.type = "value" /\ r.outcome.value = arg /\ r.outcome \in Outcomes
      BY <3>2 DEF Value, Outcomes, Datum
    <3> HIDE DEF r
    <3>4. Matches(apis, method, arg, arg)
      BY <2>1 DEF Matches
    <3>5. Len(apis) <= Len(apis) /\ \A i \in 1..Len(apis) : apis[i] = apis[i]
      BY <1>1
    <3> QED
      BY <2>1, <3>2, <3>3, <3>4, <3>5, Zenon DEF r, Received
  <2>2. CASE method = "open"
    <3> DEFINE g == register_api(arg)
    <3>1. r = [outcome |-> Value(g.id), apis |-> g.apis, subs |-> subs]
      BY <1>3, <2>2 DEF receive_call
    <3>2. /\ g.apis \in Seq(Api) /\ Len(apis) <= Len(g.apis)
          /\ \A i \in 1..Len(apis) : g.apis[i] = apis[i]
          /\ g.id \in Nat /\ g.id < Len(g.apis)
          /\ arg \notin Proxy => g.apis[g.id + 1] = arg
      BY <2>2, RegisterOK
    <3> HIDE DEF g
    <3> QED
      BY <1>1, <2>2, <3>1, <3>2 DEF Value, Outcomes, Matches, Datum, Received
  <2>3. CASE method = "sub"
    <3>1. r = [outcome |-> Value(None), apis |-> apis, subs |-> subs \cup {arg}]
      BY <1>3, <2>3 DEF receive_call
    <3>2. r.apis = apis /\ r.subs = subs \cup {arg} /\ r.outcome = Value(None)
      BY <3>1
    <3>3. r.outcome.type = "value" /\ r.outcome.value = None /\ r.outcome \in Outcomes
      BY <3>2 DEF Value, Outcomes, Datum
    <3> HIDE DEF r
    <3>4. Matches(apis, method, arg, None)
      BY <2>3 DEF Matches
    <3>5. Len(apis) <= Len(apis) /\ \A i \in 1..Len(apis) : apis[i] = apis[i]
      BY <1>1
    <3> QED
      BY <2>3, <3>2, <3>3, <3>4, <3>5, Zenon DEF r, Received
  <2>4. CASE method = "ask"
    <3>1. r = [outcome |-> Value(None), apis |-> apis, subs |-> subs]
      BY <1>3, <2>4 DEF receive_call
    <3>2. r.apis = apis /\ r.subs = subs /\ r.outcome = Value(None)
      BY <3>1
    <3>3. r.outcome.type = "value" /\ r.outcome.value = None /\ r.outcome \in Outcomes
      BY <3>2 DEF Value, Outcomes, Datum
    <3> HIDE DEF r
    <3>4. Matches(apis, method, arg, None)
      BY <2>4 DEF Matches
    <3>5. Len(apis) <= Len(apis) /\ \A i \in 1..Len(apis) : apis[i] = apis[i]
      BY <1>1
    <3> QED
      BY <2>4, <3>2, <3>3, <3>4, <3>5, Zenon DEF r, Received
  <2> QED
    BY <1>3, <2>1, <2>2, <2>3, <2>4 DEF Method
<1> QED
  BY <1>2, <1>3

-----------------------------------------------------------------------------
(* The two peers, and where a message counts. *)

\* Callers are the client's, handlers the server's.
LEMMA PeerFacts ==
  /\ Peer = {"client", "server"} /\ "client" \in Peer /\ "server" \in Peer
  /\ Other("client") = "server" /\ Other("server") = "client"
  /\ \A f \in Caller : At(f) = "client" /\ f \in Fiber /\ f \notin Handler
  /\ \A h \in Handler : At(h) = "server" /\ h \in Fiber /\ h \notin Caller
  /\ \A f \in Fiber : At(f) \in Peer /\ (f \in Caller \/ f \in Handler)
  BY RpcAssumption DEF Peer, Other, At, Fiber

\* The ids below one number are below a larger one.
LEMMA Below ==
  ASSUME NEW x \in Nat, NEW y \in Nat, x <= y
  PROVE  0..(x - 1) \subseteq 0..(y - 1)
  OBVIOUS

\* The arguments a client may give.
LEMMA ArgFacts ==
  ASSUME callbacks \in Nat, NEW method \in Method, NEW api \in Used(method), NEW arg \in Takes(method)
  PROVE  api \in Nat /\ arg \in Datum /\ MaxId \in Nat
<1>1. MaxId \in Nat /\ Arg \subseteq Nat
  BY RpcAssumption
<1>2. api \in Nat
  BY DEF Used
<1>3. arg \in Datum
  BY <1>1 DEF Takes, Datum
<1> QED
  BY <1>1, <1>2, <1>3

\* A message, or a handler with a request to answer, is a place of its id.
LEMMA InPlaces ==
  /\ \A m \in Msgs(chan["server"]) : /\ m.type = "call" => m.id \in Places("client")
                                     /\ m.type \in Answers => m.id \in Places("server")
  /\ \A m \in Msgs(chan["client"]) : /\ m.type = "callback" => m.id \in Places("server")
                                     /\ m.type \in Answers => m.id \in Places("client")
  /\ \A h \in Handler : fiber[h].answer # None => fiber[h].answer \in Places("client")
<1>1. /\ Requested("client") = Ids(chan["server"], Requests) /\ Requested("server") = Ids(chan["client"], Requests)
      /\ Replied("client") = Ids(chan["client"], Answers) /\ Replied("server") = Ids(chan["server"], Answers)
  BY PeerFacts DEF Requested, Replied
<1>2. "call" \in Requests /\ "callback" \in Requests
  BY DEF Requests
<1>3. \A h \in Handler : fiber[h].answer # None => fiber[h].answer \in Asking("client")
  BY DEF Asking
<1>4. \A s, T : \A m \in Msgs(s) : m.type \in T => m.id \in Ids(s, T)
  BY DEF Ids
<1> QED
  BY <1>1, <1>2, <1>3, <1>4 DEF Places

\* A step that moves no message and keeps what the handlers answer moves no id.
LEMMA QuietPlaces ==
  ASSUME chan' = chan, \A h \in Handler : fiber'[h].answer = fiber[h].answer
  PROVE  \A p \in Peer : /\ Requested(p)' = Requested(p) /\ Replied(p)' = Replied(p)
                         /\ Asking(p)' = Asking(p) /\ Places(p)' = Places(p)
<1> SUFFICES ASSUME NEW p \in Peer
             PROVE  /\ Requested(p)' = Requested(p) /\ Replied(p)' = Replied(p)
                    /\ Asking(p)' = Asking(p) /\ Places(p)' = Places(p)
  OBVIOUS
<1>1. Requested(p)' = Requested(p) /\ Replied(p)' = Replied(p)
  BY DEF Requested, Replied, Ids, Msgs
<1>2. Asking(p)' = Asking(p)
  BY DEF Asking
<1> QED
  BY <1>1, <1>2 DEF Places

\* What it keeps of the invariant, when no id is used up and none is taken back.
LEMMA QuietUnique ==
  ASSUME \A p \in Peer : Unique(p), chan' = chan, \A h \in Handler : fiber'[h].answer = fiber[h].answer,
         next_id \in [Peer -> Nat], next_id' \in [Peer -> Nat], \A p \in Peer : next_id[p] <= next_id'[p]
  PROVE  \A p \in Peer : Unique(p)'
<1> SUFFICES ASSUME NEW p \in Peer PROVE Unique(p)'
  OBVIOUS
<1>1. /\ Requested(p)' = Requested(p) /\ Replied(p)' = Replied(p)
      /\ Asking(p)' = Asking(p) /\ Places(p)' = Places(p)
  BY QuietPlaces
<1>2. 0..(next_id[p] - 1) \subseteq 0..(next_id'[p] - 1)
  <2>1. next_id[p] \in Nat /\ next_id'[p] \in Nat /\ next_id[p] <= next_id'[p]
    OBVIOUS
  <2> QED
    BY <2>1
<1> QED
  BY <1>1, <1>2 DEF Unique, Once

-----------------------------------------------------------------------------
(* The fibers of the client. *)

\* A call starts with an id nobody has.
LEMMA StartStep ==
  ASSUME RpcInv, NEW f \in Caller, NEW method \in Method, NEW api \in Used(method), NEW arg \in Takes(method),
         start_remote_call(f, api, method, arg)
  PROVE  RpcInv'
<1> DEFINE k == next_id["client"]
           new == [Idle EXCEPT !.pc = "started", !.id = k, !.api = api, !.method = method, !.arg = arg]
<1>1. /\ k < MaxId
      /\ fiber' = [fiber EXCEPT ![f] = new]
      /\ next_id' = [next_id EXCEPT !["client"] = @ + 1]
      /\ awaiting' = [awaiting EXCEPT !["client"] = @ \cup {k}]
      /\ callbacks' = IF method \in {"sub", "ask"} THEN callbacks + 1 ELSE callbacks
      /\ UNCHANGED <<transport, open, chan, apis, subs, notices>>
  BY DEF start_remote_call, convert_callbacks
<1>2. RpcType /\ Kinds /\ (\A p \in Peer : Unique(p)) /\ OwnIds /\ Present /\ Content /\ Known
  BY DEF RpcInv
<1>3. k \in Nat /\ MaxId \in Nat /\ f \in Fiber /\ api \in Nat /\ arg \in Datum /\ callbacks \in Nat
  <2>1. k \in Nat /\ callbacks \in Nat
    BY <1>2, PeerFacts DEF RpcType
  <2> QED
    BY <2>1, PeerFacts, ArgFacts
<1>4. /\ new.pc = "started" /\ new.id = k /\ new.method = method /\ new.arg = arg /\ new.answer = None
      /\ new.outcome.type = "none"
  BY DEF Idle, Thrown
<1>5. new \in Fibers
  BY <1>3 DEF Idle, Thrown, Fibers, IdOrNone, Outcomes, Datum, Method
<1> HIDE DEF new
<1>6. /\ fiber'[f] = new /\ \A g \in Fiber : g # f => fiber'[g] = fiber[g]
      /\ fiber' \in [Fiber -> Fibers]
  BY <1>1, <1>2, <1>3, <1>5 DEF RpcType
<1>7. \A h \in Handler : fiber'[h] = fiber[h]
  BY <1>6, PeerFacts
<1>8. /\ next_id' \in [Peer -> Nat] /\ next_id'["client"] = k + 1 /\ next_id'["server"] = next_id["server"]
      /\ awaiting' \in [Peer -> SUBSET Nat] /\ awaiting'["client"] = awaiting["client"] \cup {k}
      /\ awaiting'["server"] = awaiting["server"]
  BY <1>1, <1>2, <1>3, PeerFacts DEF RpcType
<1>9. callbacks' \in Nat /\ callbacks <= callbacks'
  BY <1>1, <1>3
<1>10. RpcType'
  BY <1>1, <1>2, <1>3, <1>6, <1>8, <1>9 DEF RpcType
<1>11. Kinds'
  BY <1>1, <1>2, <1>3, <1>4, <1>6, <1>7 DEF Kinds
<1>12. \A p \in Peer : Unique(p)'
  <2>1. \A p \in Peer : next_id[p] <= next_id'[p]
    BY <1>2, <1>3, <1>8, PeerFacts DEF RpcType
  <2> QED
    BY <1>1, <1>2, <1>7, <1>8, <2>1, QuietUnique DEF RpcType
<1>13. \A p \in Peer : Places(p)' = Places(p)
  BY <1>1, <1>7, QuietPlaces
<1>14. Places("client") \subseteq 0..(k - 1) /\ k \notin Places("client")
  BY <1>2, <1>3, PeerFacts DEF Unique
<1>15. \A g \in Caller : fiber[g].id # k
  BY <1>2, <1>3, PeerFacts, RpcAssumption DEF OwnIds
<1>16. OwnIds'
  <2>1. \A g \in Fiber : fiber'[g].id # None => fiber'[g].id \in 0..(next_id'[At(g)] - 1)
    BY <1>2, <1>3, <1>4, <1>6, <1>8, PeerFacts DEF OwnIds, RpcType
  <2>2. \A g, h \in Fiber : At(g) = At(h) /\ fiber'[g].id # None /\ fiber'[g].id = fiber'[h].id => g = h
    BY <1>2, <1>4, <1>6, <1>15, PeerFacts DEF OwnIds
  <2>3. \A g, h \in Handler : fiber'[g].answer # None /\ fiber'[g].answer = fiber'[h].answer => g = h
    BY <1>2, <1>7 DEF OwnIds
  <2>4. \A g \in Fiber : fiber'[g].pc = "started" => fiber'[g].id \notin Places(At(g))'
    BY <1>2, <1>4, <1>6, <1>13, <1>14, PeerFacts DEF OwnIds
  <2> QED
    BY <2>1, <2>2, <2>3, <2>4 DEF OwnIds
<1>17. Present'
  BY <1>1, <1>2, <1>4, <1>6, <1>8, <1>13, <1>15, PeerFacts DEF Present
<1>18. Content'
  <2>1. \A m \in Msgs(chan["server"]) : m.type = "call" => m.id # k
    BY <1>14, InPlaces
  <2>2. \A m \in Msgs(chan["client"]) : m.type = "result" => m.id # k
    BY <1>14, InPlaces DEF Answers
  <2>3. \A h \in Handler : fiber[h].answer # k
    BY <1>3, <1>14, InPlaces, RpcAssumption
  <2> QED
    BY <1>1, <1>2, <1>4, <1>6, <1>7, <2>1, <2>2, <2>3, PeerFacts DEF Content
<1>19. Known'
  <2>1. Fits(callbacks', method, arg)
    BY <1>1, <1>3, <1>9 DEF Fits, Takes
  <2>2. \A m, a : Fits(callbacks, m, a) => Fits(callbacks', m, a)
    BY <1>3, <1>9 DEF Fits
  <2>3. 0..(callbacks - 1) \subseteq 0..(callbacks' - 1)
    BY <1>3, <1>9, Below
  <2> QED
    BY <1>1, <1>2, <1>4, <1>6, <1>7, <2>1, <2>2, <2>3, PeerFacts DEF Known
<1> QED
  BY <1>10, <1>11, <1>12, <1>16, <1>17, <1>18, <1>19 DEF RpcInv

\* The apis, callbacks and subscriptions after a step have only grown.
Grown ==
  /\ apis' \in Seq(Api) /\ Len(apis) <= Len(apis') /\ \A i \in 1..Len(apis) : apis'[i] = apis[i]
  /\ callbacks' \in Nat /\ callbacks <= callbacks'
  /\ subs' \in SUBSET Nat /\ subs' \subseteq 0..(callbacks' - 1)

\* Then what matched and what fitted still does.
LEMMA GrownKeeps ==
  ASSUME RpcInv, Grown
  PROVE  /\ \A method, arg, value : Matches(apis, method, arg, value) => Matches(apis', method, arg, value)
         /\ \A method, arg : Fits(callbacks, method, arg) => Fits(callbacks', method, arg)
         /\ 0..(callbacks - 1) \subseteq 0..(callbacks' - 1)
<1>1. apis \in Seq(Api) /\ callbacks \in Nat
  BY DEF RpcInv, RpcType
<1>2. \A method, arg, value : Matches(apis, method, arg, value) => Matches(apis', method, arg, value)
  BY <1>1, MatchesStay DEF Grown
<1>3. 0..(callbacks - 1) \subseteq 0..(callbacks' - 1)
  BY <1>1, Below DEF Grown
<1>4. \A method, arg : Fits(callbacks, method, arg) => Fits(callbacks', method, arg)
  BY <1>3 DEF Fits
<1> QED
  BY <1>2, <1>3, <1>4

\* A step that changes nothing of them.
LEMMA GrownNot ==
  ASSUME RpcInv, UNCHANGED <<apis, callbacks, subs>>
  PROVE  Grown
<1>1. apis \in Seq(Api) /\ callbacks \in Nat /\ subs \in SUBSET Nat /\ subs \subseteq 0..(callbacks - 1)
  BY DEF RpcInv, RpcType, Known
<1>2. Len(apis) \in Nat
  BY <1>1, LenProperties
<1> QED
  BY <1>1, <1>2 DEF Grown

\* A call of the transports that have no wait ends in one step, with what its
\* method returned.
LEMMA OneStepStep ==
  ASSUME RpcInv, NEW f \in Caller, NEW api \in Nat, NEW method \in Method, NEW arg \in Datum,
         NEW outcome \in Outcomes, OneStep(f, api, method, arg, outcome), Grown, Fits(callbacks', method, arg),
         outcome.type = "value" => Matches(apis', method, arg, outcome.value)
  PROVE  RpcInv'
<1> DEFINE k == next_id["client"]
           new == [Idle EXCEPT !.pc = "done", !.api = api, !.method = method, !.arg = arg, !.outcome = outcome]
<1>1. /\ k < MaxId
      /\ fiber' = [fiber EXCEPT ![f] = new]
      /\ next_id' = [next_id EXCEPT !["client"] = @ + 1]
      /\ UNCHANGED <<transport, open, chan, awaiting, notices>>
  BY DEF OneStep
<1>2. RpcType /\ Kinds /\ (\A p \in Peer : Unique(p)) /\ OwnIds /\ Present /\ Content /\ Known
  BY DEF RpcInv
<1>3. k \in Nat /\ MaxId \in Nat /\ f \in Fiber
  BY <1>2, PeerFacts, RpcAssumption DEF RpcType
<1>4. /\ new.pc = "done" /\ new.id = None /\ new.method = method /\ new.arg = arg /\ new.answer = None
      /\ new.outcome = outcome
  BY DEF Idle
<1>5. new \in Fibers
  BY DEF Idle, Thrown, Fibers, IdOrNone, Method
<1> HIDE DEF new
<1>6. /\ fiber'[f] = new /\ \A g \in Fiber : g # f => fiber'[g] = fiber[g]
      /\ fiber' \in [Fiber -> Fibers]
  BY <1>1, <1>2, <1>3, <1>5 DEF RpcType
<1>7. \A h \in Handler : fiber'[h] = fiber[h]
  BY <1>6, PeerFacts
<1>8. next_id' \in [Peer -> Nat] /\ next_id'["client"] = k + 1 /\ next_id'["server"] = next_id["server"]
  BY <1>1, <1>2, <1>3, PeerFacts DEF RpcType
<1>9. /\ \A m, a, v : Matches(apis, m, a, v) => Matches(apis', m, a, v)
      /\ \A m, a : Fits(callbacks, m, a) => Fits(callbacks', m, a)
      /\ 0..(callbacks - 1) \subseteq 0..(callbacks' - 1)
  BY GrownKeeps
<1>10. RpcType'
  BY <1>1, <1>2, <1>3, <1>6, <1>8 DEF RpcType, Grown
<1>11. Kinds'
  BY <1>1, <1>2, <1>3, <1>4, <1>6, <1>7 DEF Kinds
<1>12. \A p \in Peer : Unique(p)'
  <2>1. \A p \in Peer : next_id[p] <= next_id'[p]
    BY <1>2, <1>3, <1>8, PeerFacts DEF RpcType
  <2> QED
    BY <1>1, <1>2, <1>7, <1>8, <2>1, QuietUnique DEF RpcType
<1>13. \A p \in Peer : Places(p)' = Places(p)
  BY <1>1, <1>7, QuietPlaces
<1>14. OwnIds'
  <2>1. \A g \in Fiber : fiber'[g].id # None => fiber'[g].id \in 0..(next_id'[At(g)] - 1)
    BY <1>2, <1>3, <1>4, <1>6, <1>8, PeerFacts DEF OwnIds, RpcType
  <2>2. \A g, h \in Fiber : At(g) = At(h) /\ fiber'[g].id # None /\ fiber'[g].id = fiber'[h].id => g = h
    BY <1>2, <1>4, <1>6, PeerFacts DEF OwnIds
  <2>3. \A g, h \in Handler : fiber'[g].answer # None /\ fiber'[g].answer = fiber'[h].answer => g = h
    BY <1>2, <1>7 DEF OwnIds
  <2>4. \A g \in Fiber : fiber'[g].pc = "started" => fiber'[g].id \notin Places(At(g))'
    BY <1>2, <1>4, <1>6, <1>13, PeerFacts DEF OwnIds
  <2> QED
    BY <2>1, <2>2, <2>3, <2>4 DEF OwnIds
<1>15. Present'
  BY <1>1, <1>2, <1>4, <1>6, <1>13, PeerFacts DEF Present
<1>16. Content'
  BY <1>1, <1>2, <1>4, <1>6, <1>7, <1>9, PeerFacts DEF Content
<1>17. Known'
  BY <1>1, <1>2, <1>4, <1>6, <1>7, <1>9, PeerFacts DEF Known, Grown
<1> QED
  BY <1>10, <1>11, <1>12, <1>14, <1>15, <1>16, <1>17 DEF RpcInv

\* The arguments of a call fit its method once its callback is registered.
LEMMA TakesFits ==
  ASSUME callbacks \in Nat, NEW method \in Method, NEW arg \in Takes(method),
         method \in {"sub", "ask"} => callbacks' = callbacks + 1
  PROVE  /\ Fits(callbacks', method, arg)
         /\ method = "open" => arg \in Api
         /\ method \in {"sub", "ask"} => arg \in Nat /\ arg = callbacks
  BY DEF Fits, Takes

\* Calls over the other transports.
LEMMA CallDirectly ==
  ASSUME RpcInv, CallLocally \/ CallHttp \/ ServeHttp \/ CallCli
  PROVE  RpcInv'
<1>1. apis \in Seq(Api) /\ callbacks \in Nat /\ subs \in SUBSET Nat /\ subs \subseteq 0..(callbacks - 1)
  BY DEF RpcInv, RpcType, Known
<1>2. ASSUME NEW method \in Method, NEW arg \in Takes(method), NEW api \in Nat, arg \in Datum,
             NEW r, r = receive_call(api, method, arg), apis' = r.apis,
             callbacks' \in {callbacks, callbacks + 1}, method \in {"sub", "ask"} => callbacks' = callbacks + 1,
             subs' \in {subs, r.subs}
      PROVE  /\ Grown /\ Fits(callbacks', method, arg) /\ r.outcome \in Outcomes
             /\ r.outcome.type = "value" => Matches(apis', method, arg, r.outcome.value)
  <2>1. /\ Fits(callbacks', method, arg) /\ (method = "open" => arg \in Api)
        /\ method \in {"sub", "ask"} => arg \in Nat /\ arg = callbacks
    BY <1>1, <1>2, TakesFits
  <2>2. /\ r.apis \in Seq(Api) /\ Len(apis) <= Len(r.apis)
        /\ \A i \in 1..Len(apis) : r.apis[i] = apis[i]
        /\ r.outcome \in Outcomes /\ r.outcome.type \in {"value", "error"}
        /\ r.outcome.type = "value" => Matches(r.apis, method, arg, r.outcome.value)
        /\ r.subs \in SUBSET Nat /\ r.subs \subseteq subs \cup (IF method = "sub" THEN {arg} ELSE {})
    <3>1. Received(receive_call(api, method, arg), method, arg)
      BY <1>1, <1>2, <2>1, ReceiveOK
    <3> QED
      BY <1>2, <3>1 DEF Received
  <2>3. callbacks' \in Nat /\ callbacks <= callbacks'
    BY <1>1, <1>2
  <2>4. 0..(callbacks - 1) \subseteq 0..(callbacks' - 1)
    BY <1>1, <2>3, Below
  <2>5. subs' \in SUBSET Nat /\ subs' \subseteq 0..(callbacks' - 1)
    <3>1. CASE subs' = subs
      BY <1>1, <2>4, <3>1
    <3>2. CASE subs' = r.subs
      <4>1. method = "sub" => arg \in 0..(callbacks' - 1)
        BY <1>1, <1>2, <2>1
      <4> QED
        BY <1>1, <2>2, <2>4, <3>2, <4>1
    <3> QED
      BY <1>2, <3>1, <3>2
  <2> QED
    BY <1>2, <2>1, <2>2, <2>3, <2>5 DEF Grown
<1>3. CASE CallLocally
  <2>1. PICK f \in Caller, m \in Method : \E i \in Used(m), a \in Takes(m) : local_send_call(f, i, m, a)
    BY <1>3 DEF CallLocally
  <2>2. PICK i \in Used(m), a \in Takes(m) : local_send_call(f, i, m, a)
    BY <2>1
  <2> DEFINE r == receive_call(i, m, a)
  <2>3. OneStep(f, i, m, a, r.outcome) /\ apis' = r.apis /\ subs' = r.subs /\ convert_callbacks(m)
    BY <2>2 DEF local_send_call
  <2>4. i \in Nat /\ a \in Datum
    BY <1>1, ArgFacts
  <2>5. callbacks' \in {callbacks, callbacks + 1} /\ (m \in {"sub", "ask"} => callbacks' = callbacks + 1)
    BY <2>3 DEF convert_callbacks
  <2> HIDE DEF r
  <2>6. /\ Grown /\ Fits(callbacks', m, a) /\ r.outcome \in Outcomes
        /\ r.outcome.type = "value" => Matches(apis', m, a, r.outcome.value)
    BY <1>2, <2>3, <2>4, <2>5 DEF r
  <2> QED
    BY <2>3, <2>4, <2>6, OneStepStep
<1>4. CASE CallHttp
  <2>1. PICK f \in Caller, m \in Method : \E i \in Used(m), a \in Takes(m) : http_send_call(f, i, m, a)
    BY <1>4 DEF CallHttp
  <2>2. PICK i \in Used(m), a \in Takes(m) : http_send_call(f, i, m, a)
    BY <2>1
  <2> DEFINE o == Thrown("nothing")
  <2>3. OneStep(f, i, m, a, o) /\ convert_callbacks(m) /\ UNCHANGED <<apis, subs>>
    BY <2>2 DEF http_send_call
  <2>4. i \in Nat /\ a \in Datum
    BY <1>1, ArgFacts
  <2>5. o \in Outcomes /\ o.type # "value"
    BY DEF Thrown, Outcomes, Datum
  <2> HIDE DEF o
  <2>6. callbacks' \in Nat /\ callbacks <= callbacks' /\ (m \in {"sub", "ask"} => callbacks' = callbacks + 1)
    BY <1>1, <2>3 DEF convert_callbacks
  <2>7. Fits(callbacks', m, a)
    BY <1>1, <2>6, TakesFits
  <2>8. Grown
    <3>1. 0..(callbacks - 1) \subseteq 0..(callbacks' - 1)
      BY <1>1, <2>6, Below
    <3>2. Len(apis) \in Nat
      BY <1>1, LenProperties
    <3>3. subs' \in SUBSET Nat /\ subs' \subseteq 0..(callbacks' - 1)
      BY <1>1, <2>3, <3>1
    <3>4. apis' \in Seq(Api) /\ Len(apis) <= Len(apis') /\ \A j \in 1..Len(apis) : apis'[j] = apis[j]
      BY <1>1, <2>3, <3>2
    <3> QED
      BY <2>6, <3>3, <3>4 DEF Grown
  <2> QED
    BY <2>3, <2>4, <2>5, <2>7, <2>8, OneStepStep
<1>5. CASE ServeHttp
  <2>1. PICK f \in Caller, m \in Plain : \E i \in Used(m), a \in Takes(m) : on_request(f, i, m, a)
    BY <1>5 DEF ServeHttp
  <2>2. PICK i \in Used(m), a \in Takes(m) : on_request(f, i, m, a)
    BY <2>1
  <2> DEFINE r == receive_call(i, m, a)
  <2>3. OneStep(f, i, m, a, r.outcome) /\ apis' = r.apis /\ UNCHANGED <<subs, callbacks>>
    BY <2>2 DEF on_request
  <2>4. m \in Method /\ m \notin {"sub", "ask"}
    BY DEF Plain, Method
  <2>5. i \in Nat /\ a \in Datum
    BY <1>1, <2>4, ArgFacts
  <2> HIDE DEF r
  <2>6. /\ Grown /\ Fits(callbacks', m, a) /\ r.outcome \in Outcomes
        /\ r.outcome.type = "value" => Matches(apis', m, a, r.outcome.value)
    BY <1>2, <2>3, <2>4, <2>5 DEF r
  <2> QED
    BY <2>3, <2>4, <2>5, <2>6, OneStepStep
<1>6. CASE CallCli
  <2>1. PICK f \in Caller, m \in Plain : \E a \in Takes(m) : cli_run(f, m, a)
    BY <1>6 DEF CallCli
  <2>2. PICK a \in Takes(m) : cli_run(f, m, a)
    BY <2>1
  <2> DEFINE r == receive_call(0, m, a)
  <2>3. OneStep(f, 0, m, a, r.outcome) /\ apis' = r.apis /\ UNCHANGED <<subs, callbacks>>
    BY <2>2 DEF cli_run
  <2>4. m \in Method /\ m \notin {"sub", "ask"} /\ 0 \in Used(m) /\ 0 \in Nat
    BY DEF Plain, Method, Used
  <2>5. a \in Datum
    BY <1>1, <2>4, ArgFacts
  <2> HIDE DEF r
  <2>6. /\ Grown /\ Fits(callbacks', m, a) /\ r.outcome \in Outcomes
        /\ r.outcome.type = "value" => Matches(apis', m, a, r.outcome.value)
    BY <1>2, <2>3, <2>4, <2>5 DEF r
  <2> QED
    BY <2>3, <2>4, <2>5, <2>6, OneStepStep
<1> QED
  BY <1>3, <1>4, <1>5, <1>6

-----------------------------------------------------------------------------
(* The places of a peer's requests, for the channel its requests go to, the *)
(* one their answers come by, and the requests the handlers have.           *)

\* An id is in one of them only, and once there.
OnePlace(req, ans, asked, n) ==
  /\ Once(req, Requests) /\ Once(ans, Answers)
  /\ Ids(req, Requests) \cap Ids(ans, Answers) = {} /\ Ids(req, Requests) \cap asked = {}
  /\ Ids(ans, Answers) \cap asked = {}
  /\ Ids(req, Requests) \cup Ids(ans, Answers) \cup asked \subseteq 0..(n - 1)

\* An id in none of them.
Nowhere(key, req, ans, asked) == key \notin Ids(req, Requests) /\ key \notin Ids(ans, Answers) /\ key \notin asked

\* This is what Unique says of a peer.
LEMMA UniqueIs ==
  ASSUME NEW p \in Peer
  PROVE  Unique(p) <=> OnePlace(chan[Other(p)], chan[p], Asking(p), next_id[p])
  BY DEF Unique, OnePlace, Places, Requested, Replied

\* The ids of a channel before and after its first message is taken.
LEMMA TakenIds ==
  ASSUME NEW s \in Seq(Messages), s # << >>, NEW T
  PROVE  /\ Head(s).type \in T => Ids(s, T) = Ids(Tail(s), T) \cup {Head(s).id}
         /\ Head(s).type \notin T => Ids(s, T) = Ids(Tail(s), T)
<1>1. Msgs(s) = Msgs(Tail(s)) \cup {Head(s)}
  BY TakeFirst
<1> QED
  BY <1>1 DEF Ids

\* The ids of a channel after a message is put last.
LEMMA PutIds ==
  ASSUME NEW s \in Seq(Messages), NEW m \in Messages, NEW T
  PROVE  /\ m.type \in T => Ids(Append(s, m), T) = Ids(s, T) \cup {m.id}
         /\ m.type \notin T => Ids(Append(s, m), T) = Ids(s, T)
<1>1. Msgs(Append(s, m)) = Msgs(s) \cup {m}
  BY PutLast
<1> QED
  BY <1>1 DEF Ids

\* A request is taken: it is now nowhere.
LEMMA TakeRequest ==
  ASSUME NEW req \in Seq(Messages), NEW ans \in Seq(Messages), NEW asked, NEW n,
         OnePlace(req, ans, asked, n), req # << >>
  PROVE  /\ OnePlace(Tail(req), ans, asked, n)
         /\ Head(req).type \in Requests => /\ Nowhere(Head(req).id, Tail(req), ans, asked)
                                           /\ Head(req).id \in 0..(n - 1)
<1>1. /\ Once(Tail(req), Requests)
      /\ Head(req).type \in Requests => Head(req).id \notin Ids(Tail(req), Requests)
  <2>1. Once(req, Requests)
    BY DEF OnePlace
  <2> QED
    BY <2>1, TakeOnce
<1>2. /\ Head(req).type \in Requests => Ids(req, Requests) = Ids(Tail(req), Requests) \cup {Head(req).id}
      /\ Head(req).type \notin Requests => Ids(req, Requests) = Ids(Tail(req), Requests)
  BY TakenIds
<1> QED
  BY <1>1, <1>2, Zenon DEF OnePlace, Nowhere

\* An answer is taken: it is now nowhere.
LEMMA TakeAnswer ==
  ASSUME NEW req \in Seq(Messages), NEW ans \in Seq(Messages), NEW asked, NEW n,
         OnePlace(req, ans, asked, n), ans # << >>
  PROVE  /\ OnePlace(req, Tail(ans), asked, n)
         /\ Head(ans).type \in Answers => Nowhere(Head(ans).id, req, Tail(ans), asked)
<1>1. /\ Once(Tail(ans), Answers)
      /\ Head(ans).type \in Answers => Head(ans).id \notin Ids(Tail(ans), Answers)
  <2>1. Once(ans, Answers)
    BY DEF OnePlace
  <2> QED
    BY <2>1, TakeOnce
<1>2. /\ Head(ans).type \in Answers => Ids(ans, Answers) = Ids(Tail(ans), Answers) \cup {Head(ans).id}
      /\ Head(ans).type \notin Answers => Ids(ans, Answers) = Ids(Tail(ans), Answers)
  BY TakenIds
<1> QED
  BY <1>1, <1>2, Zenon DEF OnePlace, Nowhere

\* A request that is nowhere is sent.
LEMMA PutRequest ==
  ASSUME NEW req \in Seq(Messages), NEW ans \in Seq(Messages), NEW asked, NEW n,
         OnePlace(req, ans, asked, n), NEW m \in Messages,
         m.type \in Requests => Nowhere(m.id, req, ans, asked) /\ m.id \in 0..(n - 1)
  PROVE  OnePlace(Append(req, m), ans, asked, n)
<1>1. Once(Append(req, m), Requests)
  BY PutLast DEF OnePlace, Nowhere
<1>2. /\ m.type \in Requests => Ids(Append(req, m), Requests) = Ids(req, Requests) \cup {m.id}
      /\ m.type \notin Requests => Ids(Append(req, m), Requests) = Ids(req, Requests)
  BY PutIds
<1> QED
  BY <1>1, <1>2, Zenon DEF OnePlace, Nowhere

\* A request that is nowhere is answered.
LEMMA PutAnswer ==
  ASSUME NEW req \in Seq(Messages), NEW ans \in Seq(Messages), NEW asked, NEW n,
         OnePlace(req, ans, asked, n), NEW m \in Messages,
         m.type \in Answers => Nowhere(m.id, req, ans, asked) /\ m.id \in 0..(n - 1)
  PROVE  OnePlace(req, Append(ans, m), asked, n)
<1>1. Once(Append(ans, m), Answers)
  BY PutLast DEF OnePlace, Nowhere
<1>2. /\ m.type \in Answers => Ids(Append(ans, m), Answers) = Ids(ans, Answers) \cup {m.id}
      /\ m.type \notin Answers => Ids(Append(ans, m), Answers) = Ids(ans, Answers)
  BY PutIds
<1> QED
  BY <1>1, <1>2, Zenon DEF OnePlace, Nowhere

-----------------------------------------------------------------------------
(* Steps that move messages and fibers on. *)

\* A message that a step puts in a channel is one that may be there: it fits
\* the fiber with its id.
Fitting(c, m) ==
  /\ m \in Messages
  /\ c = "server" => /\ m.type \in {"call"} \cup Answers /\ m.id \in Nat
                     /\ m.type \in Answers => m.arg = None
                     /\ m.type = "call" => /\ Fits(callbacks', m.method, m.arg)
                                           /\ \A f \in Caller : fiber[f].id = m.id =>
                                                m.method = fiber[f].method /\ m.arg = fiber[f].arg
  /\ c = "client" => /\ m.type \in {"callback", "notice"} \cup Answers
                     /\ m.type # "notice" => m.id \in Nat
                     /\ m.type \in {"callback", "notice"} => m.arg \in 0..(callbacks' - 1)
                     /\ m.type = "result" => \A f \in Caller : fiber[f].id = m.id =>
                                               Matches(apis', fiber[f].method, fiber[f].arg, m.arg)

\* A fiber goes on with its call, or ends it with what its request asked for.
Ahead(f) ==
  /\ fiber[f].pc \in {"started", "sent", "waiting"} /\ fiber'[f].pc \in {"sent", "waiting", "done"}
  /\ fiber'[f].id = fiber[f].id /\ fiber'[f].method = fiber[f].method /\ fiber'[f].arg = fiber[f].arg
  /\ fiber'[f].answer = fiber[f].answer
  /\ f \in Handler => fiber'[f].outcome.value = None
  /\ f \in Caller /\ fiber'[f].pc = "done" /\ fiber'[f].outcome.type = "value" =>
       Matches(apis', fiber[f].method, fiber[f].arg, fiber'[f].outcome.value)

\* What such a step does to channels, fibers and tables.
Moves ==
  /\ Grown /\ next_id' = next_id
  /\ awaiting' \in [Peer -> SUBSET Nat] /\ fiber' \in [Fiber -> Fibers]
  /\ chan' \in [Peer -> Seq(Messages)]
  /\ \A c \in Peer : \A m \in Msgs(chan'[c]) : m \in Msgs(chan[c]) \/ Fitting(c, m)
  /\ \A f \in Fiber : fiber'[f] = fiber[f] \/ Ahead(f) \/ (f \in Handler /\ fiber'[f] = Idle)

\* It keeps what the invariant says, but for the places.
LEMMA MovesKeep ==
  ASSUME RpcInv, Moves
  PROVE  /\ RpcType' /\ Kinds' /\ Content' /\ Known'
         /\ \A f \in Fiber : fiber'[f].id # None => fiber'[f].id \in 0..(next_id'[At(f)] - 1)
         /\ \A f, g \in Fiber : At(f) = At(g) /\ fiber'[f].id # None /\ fiber'[f].id = fiber'[g].id => f = g
         /\ \A g, h \in Handler : fiber'[g].answer # None /\ fiber'[g].answer = fiber'[h].answer => g = h
<1>1. RpcType /\ Kinds /\ OwnIds /\ Content /\ Known
  BY DEF RpcInv
<1>2. /\ Idle.pc = "idle" /\ Idle.id = None /\ Idle.answer = None /\ Idle.outcome.value = None
  BY DEF Idle, Thrown
<1>3. \A f \in Caller : fiber'[f] = fiber[f] \/ Ahead(f)
  BY PeerFacts DEF Moves
<1>4. \A f \in Caller : /\ fiber'[f].id = fiber[f].id /\ fiber'[f].method = fiber[f].method
                        /\ fiber'[f].arg = fiber[f].arg /\ fiber'[f].answer = fiber[f].answer
  BY <1>3 DEF Ahead
<1>5. \A h \in Handler : \/ fiber'[h].answer = fiber[h].answer /\ fiber'[h].id = fiber[h].id
                         \/ fiber'[h].answer = None /\ fiber'[h].id = None
  <2> SUFFICES ASSUME NEW h \in Handler
               PROVE  \/ fiber'[h].answer = fiber[h].answer /\ fiber'[h].id = fiber[h].id
                      \/ fiber'[h].answer = None /\ fiber'[h].id = None
    OBVIOUS
  <2>1. fiber'[h] = fiber[h] \/ Ahead(h) \/ fiber'[h] = Idle
    BY PeerFacts DEF Moves
  <2> QED
    BY <1>2, <2>1 DEF Ahead
<1>6. \A f \in Fiber : fiber'[f].id = fiber[f].id \/ fiber'[f].id = None
  BY <1>4, <1>5, PeerFacts
<1>7. /\ \A m, a, v : Matches(apis, m, a, v) => Matches(apis', m, a, v)
      /\ \A m, a : Fits(callbacks, m, a) => Fits(callbacks', m, a)
      /\ 0..(callbacks - 1) \subseteq 0..(callbacks' - 1)
  BY GrownKeeps DEF Moves
<1>8. /\ \A m \in Msgs(chan'["server"]) : m \in Msgs(chan["server"]) \/ Fitting("server", m)
      /\ \A m \in Msgs(chan'["client"]) : m \in Msgs(chan["client"]) \/ Fitting("client", m)
  BY PeerFacts DEF Moves
<1>9. RpcType'
  BY <1>1 DEF RpcType, Moves, Grown
<1>10. Kinds'
  <2>1. \A m \in Msgs(chan'["server"]) : m.type \in {"call"} \cup Answers /\ m.id \in Nat
    BY <1>1, <1>8 DEF Kinds, Fitting
  <2>2. \A m \in Msgs(chan'["client"]) : /\ m.type \in {"callback", "notice"} \cup Answers
                                         /\ m.type # "notice" => m.id \in Nat
    BY <1>1, <1>8 DEF Kinds, Fitting
  <2>3. \A f \in Fiber : fiber'[f].pc \in {"started", "sent", "waiting"} => fiber'[f].id \in Nat
    BY <1>1, <1>2 DEF Kinds, Moves, Ahead
  <2>4. \A f \in Caller : fiber'[f].answer = None
    BY <1>1, <1>4 DEF Kinds
  <2>5. \A h \in Handler : fiber'[h].pc = "idle" <=> fiber'[h].answer = None
    BY <1>1, <1>2, PeerFacts DEF Kinds, Moves, Ahead
  <2> QED
    BY <2>1, <2>2, <2>3, <2>4, <2>5 DEF Kinds
<1>11. Content'
  <2>1. ASSUME NEW f \in Caller, fiber'[f].pc = "done", fiber'[f].outcome.type = "value"
        PROVE  Matches(apis', fiber'[f].method, fiber'[f].arg, fiber'[f].outcome.value)
    BY <1>1, <1>3, <1>4, <1>7, <2>1 DEF Content, Ahead
  <2>2. ASSUME NEW f \in Caller, fiber'[f].id # None
        PROVE  /\ \A m \in Msgs(chan'["server"]) : m.type = "call" /\ m.id = fiber'[f].id =>
                    m.method = fiber'[f].method /\ m.arg = fiber'[f].arg
               /\ \A h \in Handler : fiber'[h].answer = fiber'[f].id => fiber'[f].method = "ask"
               /\ \A m \in Msgs(chan'["client"]) : m.type = "result" /\ m.id = fiber'[f].id =>
                    Matches(apis', fiber'[f].method, fiber'[f].arg, m.arg)
    <3>1. ASSUME NEW m \in Msgs(chan'["server"]), m.type = "call", m.id = fiber'[f].id
          PROVE  m.method = fiber'[f].method /\ m.arg = fiber'[f].arg
      BY <1>1, <1>4, <1>8, <2>2, <3>1 DEF Content, Fitting
    <3>2. ASSUME NEW h \in Handler, fiber'[h].answer = fiber'[f].id
          PROVE  fiber'[f].method = "ask"
      BY <1>1, <1>4, <1>5, <2>2, <3>2 DEF Content
    <3>3. ASSUME NEW m \in Msgs(chan'["client"]), m.type = "result", m.id = fiber'[f].id
          PROVE  Matches(apis', fiber'[f].method, fiber'[f].arg, m.arg)
      BY <1>1, <1>4, <1>7, <1>8, <2>2, <3>3 DEF Content, Fitting
    <3> QED
      BY <3>1, <3>2, <3>3
  <2>3. \A m \in Msgs(chan'["server"]) : m.type \in Answers => m.arg = None
    BY <1>1, <1>8 DEF Content, Fitting
  <2>4. \A h \in Handler : fiber'[h].outcome.value = None
    BY <1>1, <1>2, PeerFacts DEF Content, Moves, Ahead
  <2> QED
    BY <2>1, <2>2, <2>3, <2>4 DEF Content
<1>12. Known'
  <2>1. ASSUME NEW f \in Caller PROVE Fits(callbacks', fiber'[f].method, fiber'[f].arg)
    <3>1. Fits(callbacks, fiber[f].method, fiber[f].arg)
      BY <1>1 DEF Known
    <3> QED
      BY <1>4, <1>7, <3>1 DEF Fits
  <2>2. \A h \in Handler : fiber'[h].pc # "idle" => fiber'[h].arg \in 0..(callbacks' - 1)
    BY <1>1, <1>2, <1>7, PeerFacts DEF Known, Moves, Ahead
  <2>3. \A m \in Msgs(chan'["server"]) : m.type = "call" => Fits(callbacks', m.method, m.arg)
    BY <1>1, <1>7, <1>8 DEF Known, Fitting
  <2>4. \A m \in Msgs(chan'["client"]) : m.type \in {"callback", "notice"} => m.arg \in 0..(callbacks' - 1)
    BY <1>1, <1>7, <1>8 DEF Known, Fitting
  <2>5. subs' \subseteq 0..(callbacks' - 1)
    BY DEF Moves, Grown
  <2> QED
    BY <2>1, <2>2, <2>3, <2>4, <2>5 DEF Known
<1>13. next_id' = next_id
  BY DEF Moves
<1> QED
  BY <1>1, <1>5, <1>6, <1>9, <1>10, <1>11, <1>12, <1>13 DEF OwnIds

\* What is left to show of a step that moves messages and fibers.
LEMMA MovesStep ==
  ASSUME RpcInv, Moves, \A p \in Peer : Unique(p)', Present',
         \A f \in Fiber : fiber'[f].pc = "started" => fiber'[f].id \notin Places(At(f))'
  PROVE  RpcInv'
<1>1. OwnIds'
  BY MovesKeep DEF OwnIds
<1> QED
  BY <1>1, MovesKeep DEF RpcInv

\* A fiber that has still to send its request was there before the step.
LEMMA StillStarted ==
  ASSUME Moves, NEW f \in Fiber, fiber'[f].pc = "started"
  PROVE  fiber'[f] = fiber[f]
<1>1. fiber'[f] = fiber[f] \/ Ahead(f) \/ fiber'[f] = Idle
  BY DEF Moves
<1> QED
  BY <1>1 DEF Ahead, Idle

\* It is enough that no id comes to a place.
LEMMA TakingStep ==
  ASSUME RpcInv, Moves, \A p \in Peer : Unique(p)', Present', \A p \in Peer : Places(p)' \subseteq Places(p)
  PROVE  RpcInv'
<1>1. ASSUME NEW f \in Fiber, fiber'[f].pc = "started" PROVE fiber'[f].id \notin Places(At(f))'
  <2>1. fiber'[f] = fiber[f]
    BY <1>1, StillStarted
  <2>2. At(f) \in Peer /\ fiber[f].id \notin Places(At(f))
    BY <1>1, <2>1, PeerFacts DEF RpcInv, OwnIds
  <2> QED
    BY <2>1, <2>2
<1> QED
  BY <1>1, MovesStep

\* Fibers go on, and no message moves.
LEMMA QuietStep ==
  ASSUME RpcInv, UNCHANGED <<open, chan, next_id, apis, callbacks, subs>>, fiber' \in [Fiber -> Fibers],
         awaiting' \in [Peer -> SUBSET Nat], \A p \in Peer : awaiting'[p] \subseteq awaiting[p],
         \A f \in Fiber : \/ fiber'[f] = fiber[f]
                          \/ Ahead(f) /\ (fiber[f].pc = "started" => fiber'[f].pc = "done")
  PROVE  RpcInv'
<1>1. RpcType /\ (\A p \in Peer : Unique(p)) /\ Present
  BY DEF RpcInv
<1>2. Moves
  <2>1. Grown
    BY GrownNot
  <2> QED
    BY <1>1, <2>1 DEF Moves, RpcType
<1>3. \A h \in Handler : fiber'[h].answer = fiber[h].answer
  BY PeerFacts DEF Ahead
<1>4. \A p \in Peer : Places(p)' = Places(p)
  BY <1>3, QuietPlaces
<1>5. \A p \in Peer : Unique(p)'
  <2>1. \A p \in Peer : next_id[p] <= next_id'[p]
    BY <1>1 DEF RpcType
  <2> QED
    BY <1>1, <1>3, <2>1, QuietUnique DEF RpcType
<1>6. Present'
  <2> SUFFICES ASSUME open, NEW f \in Fiber, fiber'[f].pc \in {"sent", "waiting"}, fiber'[f].id \in awaiting'[At(f)]
               PROVE  fiber'[f].id \in Places(At(f))
    BY <1>4, PeerFacts DEF Present
  <2>1. fiber[f].pc \in {"sent", "waiting"} /\ fiber'[f].id = fiber[f].id
    BY DEF Ahead
  <2> QED
    BY <1>1, <2>1, PeerFacts DEF Present
<1> QED
  BY <1>2, <1>4, <1>5, <1>6, TakingStep

\* A fiber waits, or finds its promise gone.
LEMMA WaitStep ==
  ASSUME RpcInv, NEW f \in Fiber, wait_for_response(f)
  PROVE  RpcInv'
<1> DEFINE new == IF fiber[f].id \in awaiting[At(f)] THEN [fiber[f] EXCEPT !.pc = "waiting"]
                  ELSE [fiber[f] EXCEPT !.pc = "done", !.outcome = Thrown("missed")]
<1>1. /\ fiber[f].pc = "sent" /\ fiber' = [fiber EXCEPT ![f] = new]
      /\ UNCHANGED <<open, chan, next_id, awaiting, apis, callbacks, subs>>
  BY DEF wait_for_response
<1>2. fiber \in [Fiber -> Fibers] /\ awaiting \in [Peer -> SUBSET Nat]
  BY DEF RpcInv, RpcType
<1>3. /\ new.id = fiber[f].id /\ new.method = fiber[f].method /\ new.arg = fiber[f].arg
      /\ new.answer = fiber[f].answer /\ new.pc \in {"waiting", "done"}
      /\ new.outcome = fiber[f].outcome \/ new.outcome = Thrown("missed")
      /\ new.pc = "done" => new.outcome = Thrown("missed")
      /\ new \in Fibers
  <2>1. fiber[f] \in Fibers
    BY <1>2
  <2> QED
    BY <2>1 DEF Fibers, Thrown, Outcomes, Datum
<1>4. f \in Handler => fiber[f].outcome.value = None
  BY DEF RpcInv, Content
<1> HIDE DEF new
<1>5. fiber' \in [Fiber -> Fibers] /\ fiber'[f] = new /\ \A g \in Fiber : g # f => fiber'[g] = fiber[g]
  BY <1>1, <1>2, <1>3
<1>6. Thrown("missed").value = None /\ Thrown("missed").type # "value"
  BY DEF Thrown
<1>7. Ahead(f)
  BY <1>1, <1>3, <1>4, <1>5, <1>6 DEF Ahead
<1> QED
  BY <1>1, <1>2, <1>5, <1>7, QuietStep

\* A connection that closes its state throws in those who wait.
LEMMA CloseStep ==
  ASSUME RpcInv, NEW p \in Peer, close(p)
  PROVE  RpcInv'
<1> DEFINE new(f) == [fiber[f] EXCEPT !.pc = "done", !.outcome = Thrown("closed")]
<1>1. /\ fiber' = [f \in Fiber |-> IF At(f) = p /\ fiber[f].pc = "waiting" THEN new(f) ELSE fiber[f]]
      /\ awaiting' = [awaiting EXCEPT ![p] = {}]
      /\ UNCHANGED <<open, chan, next_id, apis, callbacks, subs>>
  BY DEF close
<1>2. fiber \in [Fiber -> Fibers] /\ awaiting \in [Peer -> SUBSET Nat]
  BY DEF RpcInv, RpcType
<1>3. ASSUME NEW f \in Fiber
      PROVE  /\ new(f).id = fiber[f].id /\ new(f).method = fiber[f].method /\ new(f).arg = fiber[f].arg
             /\ new(f).answer = fiber[f].answer /\ new(f).pc = "done" /\ new(f).outcome = Thrown("closed")
             /\ new(f) \in Fibers
  <2>1. fiber[f] \in Fibers
    BY <1>2
  <2> QED
    BY <2>1 DEF Fibers, Thrown, Outcomes, Datum
<1> HIDE DEF new
<1>4. fiber' \in [Fiber -> Fibers]
  BY <1>1, <1>2, <1>3
<1>5. awaiting' \in [Peer -> SUBSET Nat] /\ \A q \in Peer : awaiting'[q] \subseteq awaiting[q]
  BY <1>1, <1>2
<1>6. Thrown("closed").value = None /\ Thrown("closed").type # "value"
  BY DEF Thrown
<1>7. ASSUME NEW f \in Fiber, ~(fiber'[f] = fiber[f])
      PROVE  Ahead(f) /\ (fiber[f].pc = "started" => fiber'[f].pc = "done")
  <2>1. fiber[f].pc = "waiting" /\ fiber'[f] = new(f)
    BY <1>1, <1>7
  <2> QED
    BY <1>3, <1>6, <2>1 DEF Ahead
<1> QED
  BY <1>1, <1>4, <1>5, <1>7, QuietStep

-----------------------------------------------------------------------------
(* Taking a message from a channel and putting one into a channel, with the *)
(* requests A[p] of each peer p that the handlers have.                     *)

\* The ids in the places of p; every id is in one place only; an id of p is in none.
Held(ch, A, p) == Ids(ch[Other(p)], Requests) \cup Ids(ch[p], Answers) \cup A[p]
Orderly(ch, A) == \A p \in Peer : OnePlace(ch[Other(p)], ch[p], A[p], next_id[p])
Lacks(ch, A, p, key) == Nowhere(key, ch[Other(p)], ch[p], A[p])

\* The peer that the request in channel c with this type belongs to.
Owner(c, type) == IF type \in Requests THEN Other(c) ELSE c

\* The channels dh are ch after the first message of c is taken, or m is put there.
Taken(ch, c, dh) == dh = [ch EXCEPT ![c] = Tail(@)]
Put(ch, c, m, dh) == dh = [ch EXCEPT ![c] = Append(@, m)]

\* What the handlers have.
AllAsking == [p \in Peer |-> Asking(p)]

\* There are two peers.
LEMMA OtherFacts ==
  ASSUME NEW p \in Peer
  PROVE  Other(p) \in Peer /\ Other(Other(p)) = p /\ Other(p) # p /\ \A q \in Peer : q = p \/ q = Other(p)
  BY DEF Peer, Other

\* The invariant in these terms.
LEMMA InTheseTerms ==
  /\ (\A p \in Peer : Unique(p)) <=> Orderly(chan, AllAsking)
  /\ \A p \in Peer : Places(p) = Held(chan, AllAsking, p)
<1>1. \A p \in Peer : AllAsking[p] = Asking(p)
  BY DEF AllAsking
<1>2. \A p \in Peer : Unique(p) <=> OnePlace(chan[Other(p)], chan[p], AllAsking[p], next_id[p])
  BY <1>1, UniqueIs
<1> QED
  BY <1>1, <1>2 DEF Orderly, Held, Places, Requested, Replied

\* The type of a message is that of a request, of an answer or neither.
LEMMA MessageTypes ==
  /\ \A t : ~(t \in Requests /\ t \in Answers)
  /\ "notice" \notin Requests /\ "notice" \notin Answers
  /\ \A m \in Messages : m.type \in Requests \/ m.type \in Answers \/ m.type = "notice"
  BY DEF Requests, Answers, Messages

\* What holds when the first message m of c is taken, and afterwards: its id is
\* in no place.
CanTake(ch, A, c, m, o) ==
  /\ ch \in [Peer -> Seq(Messages)] /\ Orderly(ch, A) /\ c \in Peer /\ ch[c] # << >>
  /\ m = Head(ch[c]) /\ o = Owner(c, m.type)
HasTaken(ch, A, c, m, o, dh) ==
  /\ m \in Messages /\ m \in Msgs(ch[c]) /\ o \in Peer
  /\ dh \in [Peer -> Seq(Messages)] /\ Orderly(dh, A) /\ dh[Other(c)] = ch[Other(c)]
  /\ \A p \in Peer : Msgs(dh[p]) \subseteq Msgs(ch[p])
  /\ m.type # "notice" => Lacks(dh, A, o, m.id) /\ Held(ch, A, o) = Held(dh, A, o) \cup {m.id}
  /\ m.type \in Requests => m.id \in 0..(next_id[o] - 1)
  /\ \A p \in Peer : p # o \/ m.type = "notice" => Held(ch, A, p) = Held(dh, A, p)

\* A message is taken.
LEMMA TakeMessage ==
  ASSUME NEW ch, NEW A, NEW c, NEW m, NEW o, NEW dh, CanTake(ch, A, c, m, o), Taken(ch, c, dh)
  PROVE  HasTaken(ch, A, c, m, o, dh)
<1>0. /\ ch \in [Peer -> Seq(Messages)] /\ Orderly(ch, A) /\ c \in Peer /\ ch[c] # << >>
      /\ m = Head(ch[c]) /\ o = Owner(c, m.type)
  BY DEF CanTake
<1> DEFINE d == Other(c)
<1>1. d \in Peer /\ Other(d) = c /\ d # c /\ \A q \in Peer : q = c \/ q = d
  BY <1>0, OtherFacts
<1>2. ch[c] \in Seq(Messages) /\ ch[d] \in Seq(Messages)
  BY <1>0, <1>1
<1>3. m \in Messages /\ m \in Msgs(ch[c]) /\ Tail(ch[c]) \in Seq(Messages) /\ Msgs(Tail(ch[c])) \subseteq Msgs(ch[c])
  BY <1>0, <1>2, TakeFirst
<1>4. dh \in [Peer -> Seq(Messages)] /\ dh[c] = Tail(ch[c]) /\ dh[d] = ch[d]
  BY <1>0, <1>1, <1>3 DEF Taken
<1>5. OnePlace(ch[c], ch[d], A[d], next_id[d]) /\ OnePlace(ch[d], ch[c], A[c], next_id[c])
  BY <1>0, <1>1 DEF Orderly
<1>6. /\ OnePlace(dh[c], dh[d], A[d], next_id[d])
      /\ m.type \in Requests => Nowhere(m.id, dh[c], dh[d], A[d]) /\ m.id \in 0..(next_id[d] - 1)
  BY <1>0, <1>2, <1>4, <1>5, TakeRequest
<1>7. /\ OnePlace(dh[d], dh[c], A[c], next_id[c])
      /\ m.type \in Answers => Nowhere(m.id, dh[d], dh[c], A[c])
  BY <1>0, <1>2, <1>4, <1>5, TakeAnswer
<1>8. /\ m.type \in Requests => Ids(ch[c], Requests) = Ids(dh[c], Requests) \cup {m.id}
      /\ m.type \notin Requests => Ids(ch[c], Requests) = Ids(dh[c], Requests)
  BY <1>0, <1>2, <1>4, TakenIds
<1>9. /\ m.type \in Answers => Ids(ch[c], Answers) = Ids(dh[c], Answers) \cup {m.id}
      /\ m.type \notin Answers => Ids(ch[c], Answers) = Ids(dh[c], Answers)
  BY <1>0, <1>2, <1>4, TakenIds
<1>10. (m.type \in Requests => o = d) /\ (m.type \notin Requests => o = c)
  BY <1>0 DEF Owner
<1>11. \A p \in Peer : Msgs(dh[p]) \subseteq Msgs(ch[p])
  BY <1>0, <1>1, <1>3, <1>4
<1>12. Orderly(dh, A)
  BY <1>1, <1>6, <1>7, Zenon DEF Orderly
<1>13. m.type \in Requests \/ m.type \in Answers \/ m.type = "notice"
  BY <1>3, MessageTypes
<1> HIDE DEF d
<1>14. /\ Held(ch, A, d) = Ids(ch[c], Requests) \cup Ids(ch[d], Answers) \cup A[d]
       /\ Held(dh, A, d) = Ids(dh[c], Requests) \cup Ids(ch[d], Answers) \cup A[d]
       /\ Held(ch, A, c) = Ids(ch[d], Requests) \cup Ids(ch[c], Answers) \cup A[c]
       /\ Held(dh, A, c) = Ids(ch[d], Requests) \cup Ids(dh[c], Answers) \cup A[c]
  BY <1>1, <1>4 DEF Held, d
<1>15. /\ m.type \in Requests => Held(ch, A, d) = Held(dh, A, d) \cup {m.id}
       /\ m.type \notin Requests => Held(ch, A, d) = Held(dh, A, d)
  BY <1>8, <1>14
<1>16. /\ m.type \in Answers => Held(ch, A, c) = Held(dh, A, c) \cup {m.id}
       /\ m.type \notin Answers => Held(ch, A, c) = Held(dh, A, c)
  BY <1>9, <1>14
<1>17. m.type # "notice" => Lacks(dh, A, o, m.id)
  BY <1>1, <1>6, <1>7, <1>10, <1>13 DEF Lacks, d
<1>18. m.type # "notice" => Held(ch, A, o) = Held(dh, A, o) \cup {m.id}
  BY <1>10, <1>13, <1>15, <1>16, MessageTypes
<1>19. \A p \in Peer : p # o \/ m.type = "notice" => Held(ch, A, p) = Held(dh, A, p)
  BY <1>1, <1>10, <1>13, <1>15, <1>16, MessageTypes
<1>20. m.type \in Requests => m.id \in 0..(next_id[o] - 1)
  BY <1>6, <1>10
<1>21. o \in Peer
  BY <1>0, <1>1, <1>10
<1> QED
  BY <1>3, <1>4, <1>11, <1>12, <1>17, <1>18, <1>19, <1>20, <1>21, Zenon DEF HasTaken, d

\* What holds when m is put last into c, and afterwards: its id is in one place.
CanPut(ch, A, c, m, o) ==
  /\ ch \in [Peer -> Seq(Messages)] /\ Orderly(ch, A) /\ c \in Peer /\ m \in Messages /\ o = Owner(c, m.type)
  /\ m.type # "notice" => Lacks(ch, A, o, m.id) /\ m.id \in 0..(next_id[o] - 1)
HasPut(ch, A, c, m, o, dh) ==
  /\ o \in Peer /\ dh \in [Peer -> Seq(Messages)] /\ Orderly(dh, A)
  /\ Msgs(dh[c]) = Msgs(ch[c]) \cup {m} /\ dh[Other(c)] = ch[Other(c)]
  /\ m.type # "notice" => Held(dh, A, o) = Held(ch, A, o) \cup {m.id}
  /\ \A p \in Peer : p # o \/ m.type = "notice" => Held(dh, A, p) = Held(ch, A, p)

\* A message is put.
LEMMA PutMessage ==
  ASSUME NEW ch, NEW A, NEW c, NEW m, NEW o, NEW dh, CanPut(ch, A, c, m, o), Put(ch, c, m, dh)
  PROVE  HasPut(ch, A, c, m, o, dh)
<1>0. /\ ch \in [Peer -> Seq(Messages)] /\ Orderly(ch, A) /\ c \in Peer /\ m \in Messages
      /\ o = Owner(c, m.type)
      /\ m.type # "notice" => Lacks(ch, A, o, m.id) /\ m.id \in 0..(next_id[o] - 1)
  BY DEF CanPut
<1> DEFINE d == Other(c)
<1>1. d \in Peer /\ Other(d) = c /\ d # c /\ \A q \in Peer : q = c \/ q = d
  BY <1>0, OtherFacts
<1>2. ch[c] \in Seq(Messages) /\ ch[d] \in Seq(Messages)
  BY <1>0, <1>1
<1>3. Append(ch[c], m) \in Seq(Messages) /\ Msgs(Append(ch[c], m)) = Msgs(ch[c]) \cup {m}
  BY <1>0, <1>2, PutLast
<1>4. dh \in [Peer -> Seq(Messages)] /\ dh[c] = Append(ch[c], m) /\ dh[d] = ch[d]
  BY <1>0, <1>1, <1>3 DEF Put
<1>5. OnePlace(ch[c], ch[d], A[d], next_id[d]) /\ OnePlace(ch[d], ch[c], A[c], next_id[c])
  BY <1>0, <1>1 DEF Orderly
<1>6. (m.type \in Requests => o = d) /\ (m.type \notin Requests => o = c)
  BY <1>0 DEF Owner
<1>7. m.type \in Requests \/ m.type \in Answers \/ m.type = "notice"
  BY <1>0, MessageTypes
<1>8. m.type # "notice" => Nowhere(m.id, ch[Other(o)], ch[o], A[o]) /\ m.id \in 0..(next_id[o] - 1)
  BY <1>0 DEF Lacks
<1>9. m.type \in Requests => Nowhere(m.id, ch[c], ch[d], A[d]) /\ m.id \in 0..(next_id[d] - 1)
  BY <1>1, <1>6, <1>8, MessageTypes
<1>10. m.type \in Answers => Nowhere(m.id, ch[d], ch[c], A[c]) /\ m.id \in 0..(next_id[c] - 1)
  BY <1>1, <1>6, <1>8, MessageTypes
<1>11. OnePlace(dh[c], dh[d], A[d], next_id[d])
  BY <1>0, <1>2, <1>4, <1>5, <1>9, PutRequest
<1>12. OnePlace(dh[d], dh[c], A[c], next_id[c])
  BY <1>0, <1>2, <1>4, <1>5, <1>10, PutAnswer
<1>13. /\ m.type \in Requests => Ids(dh[c], Requests) = Ids(ch[c], Requests) \cup {m.id}
       /\ m.type \notin Requests => Ids(dh[c], Requests) = Ids(ch[c], Requests)
  BY <1>0, <1>2, <1>4, PutIds
<1>14. /\ m.type \in Answers => Ids(dh[c], Answers) = Ids(ch[c], Answers) \cup {m.id}
       /\ m.type \notin Answers => Ids(dh[c], Answers) = Ids(ch[c], Answers)
  BY <1>0, <1>2, <1>4, PutIds
<1>15. Orderly(dh, A)
  BY <1>1, <1>11, <1>12, Zenon DEF Orderly
<1> HIDE DEF d
<1>16. /\ Held(ch, A, d) = Ids(ch[c], Requests) \cup Ids(ch[d], Answers) \cup A[d]
       /\ Held(dh, A, d) = Ids(dh[c], Requests) \cup Ids(ch[d], Answers) \cup A[d]
       /\ Held(ch, A, c) = Ids(ch[d], Requests) \cup Ids(ch[c], Answers) \cup A[c]
       /\ Held(dh, A, c) = Ids(ch[d], Requests) \cup Ids(dh[c], Answers) \cup A[c]
  BY <1>1, <1>4 DEF Held, d
<1>17. /\ m.type \in Requests => Held(dh, A, d) = Held(ch, A, d) \cup {m.id}
       /\ m.type \notin Requests => Held(dh, A, d) = Held(ch, A, d)
  BY <1>13, <1>16
<1>18. /\ m.type \in Answers => Held(dh, A, c) = Held(ch, A, c) \cup {m.id}
       /\ m.type \notin Answers => Held(dh, A, c) = Held(ch, A, c)
  BY <1>14, <1>16
<1>19. m.type # "notice" => Held(dh, A, o) = Held(ch, A, o) \cup {m.id}
  BY <1>6, <1>7, <1>17, <1>18, MessageTypes
<1>20. \A p \in Peer : p # o \/ m.type = "notice" => Held(dh, A, p) = Held(ch, A, p)
  BY <1>1, <1>6, <1>7, <1>17, <1>18, MessageTypes
<1>21. o \in Peer
  BY <1>0, <1>1, <1>6
<1> QED
  BY <1>3, <1>4, <1>15, <1>19, <1>20, <1>21, Zenon DEF HasPut, d

\* The same after a step that takes no new id.
LEMMA InTheseTermsNext ==
  ASSUME next_id' = next_id, NEW A, \A p \in Peer : A[p] = Asking(p)'
  PROVE  /\ (\A p \in Peer : Unique(p)') <=> Orderly(chan', A)
         /\ \A p \in Peer : Places(p)' = Held(chan', A, p)
<1>1. \A p \in Peer : Unique(p)' <=> OnePlace(chan'[Other(p)], chan'[p], A[p], next_id[p])
  BY DEF Unique, OnePlace, Places, Requested, Replied
<1> QED
  BY <1>1 DEF Orderly, Held, Places, Requested, Replied

\* A step that keeps what the handlers answer keeps what they have.
LEMMA SameAsking ==
  ASSUME \A h \in Handler : fiber'[h].answer = fiber[h].answer
  PROVE  \A p \in Peer : AllAsking[p] = Asking(p) /\ AllAsking[p] = Asking(p)'
  BY DEF AllAsking, Asking

\* An open connection takes the request of a fiber.
LEMMA SendOpenStep ==
  ASSUME RpcInv, NEW f \in Fiber, send_message(f), open
  PROVE  RpcInv'
<1> DEFINE c == Other(At(f))
           new == [fiber[f] EXCEPT !.pc = "sent"]
           m == Message(IF f \in Caller THEN "call" ELSE "callback", fiber[f].id, fiber[f].api,
                        fiber[f].method, fiber[f].arg)
<1>1. /\ fiber[f].pc = "started" /\ chan' = [chan EXCEPT ![c] = Append(@, m)]
      /\ fiber' = [fiber EXCEPT ![f] = new]
      /\ UNCHANGED <<open, next_id, awaiting, apis, callbacks, subs>>
  BY DEF send_message
<1>2. RpcType /\ Kinds /\ (\A p \in Peer : Unique(p)) /\ OwnIds /\ Present /\ Content /\ Known
  BY DEF RpcInv
<1>3. c \in Peer /\ At(f) \in Peer /\ Other(c) = At(f)
  BY PeerFacts, OtherFacts
<1>4. fiber[f] \in Fibers /\ fiber[f].id \in Nat /\ fiber[f].id # None
  BY <1>1, <1>2, RpcAssumption DEF RpcType, Kinds
<1>5. /\ m.id = fiber[f].id /\ m.method = fiber[f].method /\ m.arg = fiber[f].arg
      /\ m.type = (IF f \in Caller THEN "call" ELSE "callback") /\ m \in Messages
  BY <1>4 DEF Message, Messages, Fibers, Requests
<1>6. /\ new.id = fiber[f].id /\ new.method = fiber[f].method /\ new.arg = fiber[f].arg
      /\ new.answer = fiber[f].answer /\ new.pc = "sent" /\ new.outcome = fiber[f].outcome /\ new \in Fibers
  BY <1>4 DEF Fibers
<1> HIDE DEF new, m, c
<1>7. fiber' \in [Fiber -> Fibers] /\ fiber'[f] = new /\ \A g \in Fiber : g # f => fiber'[g] = fiber[g]
  BY <1>1, <1>2, <1>6 DEF RpcType
<1>8. \A h \in Handler : fiber'[h].answer = fiber[h].answer
  BY <1>6, <1>7, PeerFacts
<1>9. \A p \in Peer : AllAsking[p] = Asking(p) /\ AllAsking[p] = Asking(p)'
  BY <1>8, SameAsking
<1>10. m.type \in Requests /\ m.type # "notice" /\ Owner(c, m.type) = At(f)
  BY <1>3, <1>5 DEF Owner, Requests
<1>11. Orderly(chan, AllAsking) /\ \A p \in Peer : Places(p) = Held(chan, AllAsking, p)
  BY <1>2, InTheseTerms
<1>12. fiber[f].id \notin Places(At(f)) /\ fiber[f].id \in 0..(next_id[At(f)] - 1)
  BY <1>1, <1>2, <1>4 DEF OwnIds
<1>13. Lacks(chan, AllAsking, At(f), m.id)
  BY <1>3, <1>5, <1>11, <1>12 DEF Lacks, Nowhere, Held
<1>14. /\ chan' \in [Peer -> Seq(Messages)] /\ Orderly(chan', AllAsking)
       /\ Msgs(chan'[c]) = Msgs(chan[c]) \cup {m} /\ chan'[Other(c)] = chan[Other(c)]
       /\ Held(chan', AllAsking, At(f)) = Held(chan, AllAsking, At(f)) \cup {m.id}
       /\ \A p \in Peer : p # At(f) => Held(chan', AllAsking, p) = Held(chan, AllAsking, p)
  <2>1. chan \in [Peer -> Seq(Messages)]
    BY <1>2 DEF RpcType
  <2>2. CanPut(chan, AllAsking, c, m, At(f)) /\ Put(chan, c, m, chan')
    BY <1>1, <1>3, <1>5, <1>10, <1>11, <1>12, <1>13, <2>1 DEF Put, CanPut
  <2>3. HasPut(chan, AllAsking, c, m, At(f), chan')
    BY <2>2, PutMessage
  <2> QED
    BY <1>10, <2>3 DEF HasPut
<1>15. (\A p \in Peer : Unique(p)') /\ \A p \in Peer : Places(p)' = Held(chan', AllAsking, p)
  BY <1>1, <1>9, <1>14, InTheseTermsNext
<1>16. Places(At(f))' = Places(At(f)) \cup {fiber[f].id} /\ \A p \in Peer : p # At(f) => Places(p)' = Places(p)
  BY <1>3, <1>5, <1>11, <1>14, <1>15
<1>17. Grown
  BY <1>1, GrownNot
<1>18. Fitting(c, m)
  <2>1. CASE f \in Caller
    <3>1. c = "server" /\ m.type = "call"
      BY <1>5, <2>1, PeerFacts DEF c
    <3>2. Fits(callbacks, fiber[f].method, fiber[f].arg)
      BY <1>2, <2>1 DEF Known
    <3>3. Fits(callbacks', m.method, m.arg)
      BY <1>1, <1>5, <3>2 DEF Fits, m, Message
    <3>4. \A g \in Caller : fiber[g].id = m.id => g = f
      BY <1>2, <1>4, <1>5, <2>1, PeerFacts DEF OwnIds
    <3> QED
      BY <1>4, <1>5, <3>1, <3>3, <3>4 DEF Fitting, Answers
  <2>2. CASE f \in Handler
    <3>1. c = "client" /\ m.type = "callback"
      BY <1>5, <2>2, PeerFacts DEF c
    <3>2. m.arg \in 0..(callbacks' - 1)
      BY <1>1, <1>2, <1>5, <2>2 DEF Known
    <3> QED
      BY <1>4, <1>5, <3>1, <3>2 DEF Fitting
  <2> QED
    BY <2>1, <2>2, PeerFacts
<1>19. Ahead(f)
  BY <1>1, <1>2, <1>6, <1>7 DEF Ahead, Content
<1>20. Moves
  <2>1. \A d \in Peer : \A x \in Msgs(chan'[d]) : x \in Msgs(chan[d]) \/ Fitting(d, x)
    BY <1>3, <1>14, <1>18, OtherFacts
  <2> QED
    BY <1>1, <1>2, <1>7, <1>14, <1>17, <1>19, <2>1 DEF Moves, RpcType
<1>21. Present'
  <2> SUFFICES ASSUME NEW g \in Fiber, fiber'[g].pc \in {"sent", "waiting"}, fiber'[g].id \in awaiting[At(g)]
               PROVE  fiber'[g].id \in Places(At(g))'
    BY <1>1 DEF Present
  <2>1. CASE g = f
    BY <1>6, <1>7, <1>16, <2>1
  <2>2. CASE g # f
    BY <1>2, <1>7, <1>16, <2>2, PeerFacts DEF Present
  <2> QED
    BY <2>1, <2>2
<1>22. ASSUME NEW g \in Fiber, fiber'[g].pc = "started" PROVE fiber'[g].id \notin Places(At(g))'
  <2>1. fiber'[g] = fiber[g] /\ g # f
    BY <1>6, <1>7, <1>22
  <2>2. fiber[g].id \notin Places(At(g))
    BY <1>2, <1>22, <2>1 DEF OwnIds
  <2>3. At(g) = At(f) => fiber[g].id # fiber[f].id
    BY <1>2, <1>4, <2>1 DEF OwnIds
  <2> QED
    BY <1>16, <2>1, <2>2, <2>3, PeerFacts
<1> QED
  BY <1>15, <1>20, <1>21, <1>22, MovesStep

\* A closed one throws.
LEMMA SendStep ==
  ASSUME RpcInv, NEW f \in Fiber, send_message(f)
  PROVE  RpcInv'
<1>1. CASE open
  BY <1>1, SendOpenStep
<1>2. CASE ~open
  <2> DEFINE new == [fiber[f] EXCEPT !.pc = "done", !.outcome = Thrown("closed")]
  <2>1. /\ fiber[f].pc = "started" /\ UNCHANGED <<open, chan, next_id, awaiting, apis, callbacks, subs>>
        /\ fiber' = [fiber EXCEPT ![f].pc = "done", ![f].outcome = Thrown("closed")]
    BY <1>2 DEF send_message
  <2>2. fiber \in [Fiber -> Fibers] /\ awaiting \in [Peer -> SUBSET Nat]
    BY DEF RpcInv, RpcType
  <2>3. fiber[f] \in Fibers
    BY <2>2
  <2>4. /\ new.id = fiber[f].id /\ new.method = fiber[f].method /\ new.arg = fiber[f].arg
        /\ new.answer = fiber[f].answer /\ new.pc = "done" /\ new.outcome = Thrown("closed") /\ new \in Fibers
    BY <2>3 DEF Fibers, Thrown, Outcomes, Datum
  <2>5. fiber' = [fiber EXCEPT ![f] = new]
    BY <2>1, <2>2, <2>3 DEF Fibers
  <2> HIDE DEF new
  <2>6. fiber' \in [Fiber -> Fibers] /\ fiber'[f] = new /\ \A g \in Fiber : g # f => fiber'[g] = fiber[g]
    BY <2>2, <2>4, <2>5
  <2>7. Thrown("closed").value = None /\ Thrown("closed").type # "value"
    BY DEF Thrown
  <2>8. Ahead(f)
    BY <2>1, <2>4, <2>6, <2>7 DEF Ahead
  <2> QED
    BY <2>1, <2>2, <2>4, <2>6, <2>8, QuietStep
<1> QED
  BY <1>1, <1>2

\* The channels after a message was handled, without a reply and with one.
LEMMA HandledOK ==
  ASSUME chan \in [Peer -> Seq(Messages)], NEW c \in Peer, chan[c] # << >>,
         NEW dh, dh = [chan EXCEPT ![c] = Tail(@)], NEW m \in Messages
  PROVE  /\ Handled(c, << >>) => Taken(chan, c, chan')
         /\ Handled(c, <<m>>) => Taken(chan, c, dh) /\ Put(dh, Other(c), m, chan')
<1> DEFINE d == Other(c)
<1>1. d \in Peer /\ d # c
  BY OtherFacts
<1>2. chan[d] \in Seq(Messages) /\ chan[c] \in Seq(Messages)
  BY <1>1
<1>3. chan[d] \o << >> = chan[d]
  BY <1>2, ConcatEmptySeq
<1>4. chan[d] \o <<m>> = Append(chan[d], m)
  BY <1>2, AppendIsConcat
<1> HIDE DEF d
<1>5. [chan EXCEPT ![c] = Tail(@), ![d] = @ \o << >>] = [chan EXCEPT ![c] = Tail(@)]
  BY <1>1, <1>2, <1>3
<1>6. [chan EXCEPT ![c] = Tail(@), ![d] = @ \o <<m>>] = [dh EXCEPT ![d] = Append(@, m)]
  BY <1>1, <1>2, <1>4
<1> QED
  BY <1>5, <1>6 DEF Handled, Taken, Put, d

\* Taking the first message of c.
LEMMA TakeMoves ==
  ASSUME RpcInv, NEW c \in Peer, chan[c] # << >>, Handled(c, << >>), next_id' = next_id,
         \A h \in Handler : fiber'[h].answer = fiber[h].answer,
         NEW m, m = Head(chan[c])
  PROVE  /\ chan' \in [Peer -> Seq(Messages)] /\ m \in Messages /\ m \in Msgs(chan[c])
         /\ \A p \in Peer : Unique(p)' /\ Msgs(chan'[p]) \subseteq Msgs(chan[p]) /\ Places(p)' \subseteq Places(p)
         /\ \A p \in Peer : p = Owner(c, m.type) /\ m.type # "notice" => Places(p) = Places(p)' \cup {m.id}
         /\ \A p \in Peer : p # Owner(c, m.type) \/ m.type = "notice" => Places(p)' = Places(p)
<1> DEFINE o == Owner(c, m.type)
<1>1. chan \in [Peer -> Seq(Messages)] /\ \A p \in Peer : Unique(p)
  BY DEF RpcInv, RpcType
<1>2. \A p \in Peer : AllAsking[p] = Asking(p) /\ AllAsking[p] = Asking(p)'
  BY SameAsking
<1>3. Orderly(chan, AllAsking) /\ \A p \in Peer : Places(p) = Held(chan, AllAsking, p)
  BY <1>1, InTheseTerms
<1>4. chan[c] \in Seq(Messages)
  BY <1>1
<1>5. Head(chan[c]) \in Messages
  BY <1>4, TakeFirst
<1>6. Taken(chan, c, chan')
  BY <1>1, <1>5, HandledOK
<1>7. CanTake(chan, AllAsking, c, m, o)
  BY <1>1, <1>3 DEF CanTake
<1>8. HasTaken(chan, AllAsking, c, m, o, chan')
  BY <1>6, <1>7, TakeMessage
<1>9. /\ m \in Messages /\ m \in Msgs(chan[c]) /\ o \in Peer
      /\ chan' \in [Peer -> Seq(Messages)] /\ Orderly(chan', AllAsking)
      /\ \A p \in Peer : Msgs(chan'[p]) \subseteq Msgs(chan[p])
      /\ m.type # "notice" => Held(chan, AllAsking, o) = Held(chan', AllAsking, o) \cup {m.id}
      /\ \A p \in Peer : p # o \/ m.type = "notice" => Held(chan, AllAsking, p) = Held(chan', AllAsking, p)
  BY <1>8 DEF HasTaken
<1>10. (\A p \in Peer : Unique(p)') /\ \A p \in Peer : Places(p)' = Held(chan', AllAsking, p)
  BY <1>2, <1>9, InTheseTermsNext
<1>11. \A p \in Peer : p = o /\ m.type # "notice" => Places(p) = Places(p)' \cup {m.id}
  BY <1>3, <1>9, <1>10
<1>12. \A p \in Peer : p # o \/ m.type = "notice" => Places(p)' = Places(p)
  BY <1>3, <1>9, <1>10
<1>13. \A p \in Peer : Places(p)' \subseteq Places(p)
  BY <1>9, <1>11, <1>12
<1> QED
  BY <1>9, <1>10, <1>11, <1>12, <1>13

\* Answering the request that is the first message of c.
LEMMA ReplyMoves ==
  ASSUME RpcInv, NEW c \in Peer, chan[c] # << >>, NEW m \in Messages, Handled(c, <<m>>), next_id' = next_id,
         \A h \in Handler : fiber'[h].answer = fiber[h].answer,
         Head(chan[c]).type \in Requests, m.type \in Answers, m.id = Head(chan[c]).id
  PROVE  /\ chan' \in [Peer -> Seq(Messages)]
         /\ \A p \in Peer : Unique(p)' /\ Places(p)' = Places(p)
         /\ \A d \in Peer : \A x \in Msgs(chan'[d]) : x \in Msgs(chan[d]) \/ (d = Other(c) /\ x = m)
<1> DEFINE dh == [chan EXCEPT ![c] = Tail(@)]
           r == Head(chan[c])
           o == Other(c)
<1>1. chan \in [Peer -> Seq(Messages)] /\ \A p \in Peer : Unique(p)
  BY DEF RpcInv, RpcType
<1>2. \A p \in Peer : AllAsking[p] = Asking(p) /\ AllAsking[p] = Asking(p)'
  BY SameAsking
<1>3. Orderly(chan, AllAsking) /\ \A p \in Peer : Places(p) = Held(chan, AllAsking, p)
  BY <1>1, InTheseTerms
<1>4. o \in Peer /\ Other(o) = c /\ o # c /\ \A q \in Peer : q = o \/ q = c
  BY OtherFacts
<1>5. o = Owner(c, r.type) /\ o = Owner(o, m.type) /\ r.type # "notice" /\ m.type # "notice"
  BY MessageTypes DEF Owner
<1>6. Taken(chan, c, dh) /\ Put(dh, o, m, chan')
  BY <1>1, HandledOK
<1>7. CanTake(chan, AllAsking, c, r, o)
  BY <1>1, <1>3, <1>5 DEF CanTake
<1> HIDE DEF dh, r, o
<1>8. HasTaken(chan, AllAsking, c, r, o, dh)
  BY <1>6, <1>7, TakeMessage
<1>9. /\ dh \in [Peer -> Seq(Messages)] /\ Orderly(dh, AllAsking) /\ \A p \in Peer : Msgs(dh[p]) \subseteq Msgs(chan[p])
      /\ Lacks(dh, AllAsking, o, r.id) /\ r.id \in 0..(next_id[o] - 1)
      /\ Held(chan, AllAsking, o) = Held(dh, AllAsking, o) \cup {r.id}
      /\ \A p \in Peer : p # o => Held(chan, AllAsking, p) = Held(dh, AllAsking, p)
  BY <1>5, <1>8 DEF HasTaken, r
<1>10. CanPut(dh, AllAsking, o, m, o)
  BY <1>4, <1>5, <1>9 DEF CanPut, r
<1>11. HasPut(dh, AllAsking, o, m, o, chan')
  BY <1>6, <1>10, PutMessage
<1>12. /\ chan' \in [Peer -> Seq(Messages)] /\ Orderly(chan', AllAsking)
       /\ Msgs(chan'[o]) = Msgs(dh[o]) \cup {m} /\ chan'[c] = dh[c]
       /\ Held(chan', AllAsking, o) = Held(dh, AllAsking, o) \cup {m.id}
       /\ \A p \in Peer : p # o => Held(chan', AllAsking, p) = Held(dh, AllAsking, p)
  BY <1>4, <1>5, <1>11 DEF HasPut
<1>13. (\A p \in Peer : Unique(p)') /\ \A p \in Peer : Places(p)' = Held(chan', AllAsking, p)
  BY <1>2, <1>12, InTheseTermsNext
<1>14. \A p \in Peer : Held(chan', AllAsking, p) = Held(chan, AllAsking, p)
  BY <1>4, <1>9, <1>12 DEF r
<1>15. \A d \in Peer : \A x \in Msgs(chan'[d]) : x \in Msgs(chan[d]) \/ (d = o /\ x = m)
  BY <1>4, <1>9, <1>12
<1> QED
  BY <1>3, <1>12, <1>13, <1>14, <1>15 DEF o

\* A step that changes no fiber and no place.
LEMMA SamePlacesStep ==
  ASSUME RpcInv, Grown, UNCHANGED <<open, next_id, awaiting, fiber>>, chan' \in [Peer -> Seq(Messages)],
         \A c \in Peer : \A m \in Msgs(chan'[c]) : m \in Msgs(chan[c]) \/ Fitting(c, m),
         \A p \in Peer : Unique(p)' /\ Places(p)' = Places(p)
  PROVE  RpcInv'
<1>1. RpcType /\ Present
  BY DEF RpcInv
<1>2. Moves
  BY <1>1 DEF Moves, RpcType
<1>3. Present'
  BY <1>1, PeerFacts DEF Present
<1> QED
  BY <1>2, <1>3, TakingStep

-----------------------------------------------------------------------------
(* The handlers of messages. *)

\* A kept callback is called.
LEMMA NoticeStep ==
  ASSUME RpcInv, NEW cb \in subs, send_notice(cb)
  PROVE  RpcInv'
<1> DEFINE m == Message("notice", None, 0, "get", cb)
<1>1. /\ chan' = [chan EXCEPT !["client"] = Append(@, m)]
      /\ UNCHANGED <<open, next_id, awaiting, apis, callbacks, subs, fiber>>
  BY DEF send_notice
<1>2. RpcType /\ (\A p \in Peer : Unique(p)) /\ Known
  BY DEF RpcInv
<1>3. cb \in Nat /\ cb \in 0..(callbacks - 1)
  BY <1>2 DEF RpcType, Known
<1>4. m.type = "notice" /\ m.arg = cb /\ m \in Messages
  BY <1>3 DEF Message, Messages, IdOrNone, Method, Datum
<1> HIDE DEF m
<1>5. Fitting("client", m)
  BY <1>1, <1>3, <1>4 DEF Fitting, Answers
<1>6. \A p \in Peer : AllAsking[p] = Asking(p) /\ AllAsking[p] = Asking(p)'
  BY <1>1, SameAsking
<1>7. Orderly(chan, AllAsking) /\ \A p \in Peer : Places(p) = Held(chan, AllAsking, p)
  BY <1>2, InTheseTerms
<1>8. CanPut(chan, AllAsking, "client", m, Owner("client", m.type)) /\ Put(chan, "client", m, chan')
  BY <1>1, <1>2, <1>4, <1>7, PeerFacts DEF CanPut, Put, RpcType
<1>9. HasPut(chan, AllAsking, "client", m, Owner("client", m.type), chan')
  BY <1>8, PutMessage
<1>10. /\ chan' \in [Peer -> Seq(Messages)] /\ Orderly(chan', AllAsking)
       /\ Msgs(chan'["client"]) = Msgs(chan["client"]) \cup {m} /\ chan'["server"] = chan["server"]
       /\ \A p \in Peer : Held(chan', AllAsking, p) = Held(chan, AllAsking, p)
  BY <1>4, <1>9, PeerFacts DEF HasPut
<1>11. (\A p \in Peer : Unique(p)') /\ \A p \in Peer : Places(p)' = Held(chan', AllAsking, p)
  BY <1>1, <1>6, <1>10, InTheseTermsNext
<1>12. \A p \in Peer : Places(p)' = Places(p)
  BY <1>7, <1>10, <1>11
<1>13. \A c \in Peer : \A x \in Msgs(chan'[c]) : x \in Msgs(chan[c]) \/ Fitting(c, x)
  BY <1>5, <1>10, PeerFacts
<1>14. Grown
  BY <1>1, GrownNot
<1> QED
  BY <1>1, <1>10, <1>11, <1>12, <1>13, <1>14, SamePlacesStep

\* The connection is lost with its messages.
LEMMA DisconnectStep ==
  ASSUME RpcInv, Disconnect
  PROVE  RpcInv'
<1>1. /\ open' = FALSE /\ chan' = [p \in Peer |-> << >>]
      /\ UNCHANGED <<next_id, awaiting, apis, callbacks, subs, fiber>>
  BY DEF Disconnect
<1>2. RpcType /\ \A p \in Peer : Unique(p)
  BY DEF RpcInv
<1>3. \A p \in Peer : chan'[p] = << >> /\ chan'[Other(p)] = << >>
  BY <1>1, OtherFacts
<1>4. chan' \in [Peer -> Seq(Messages)]
  BY <1>1, EmptySeq
<1>5. \A p \in Peer : Msgs(chan'[p]) = {}
  BY <1>3, EmptyChannel
<1>6. \A p \in Peer : AllAsking[p] = Asking(p) /\ AllAsking[p] = Asking(p)'
  BY <1>1, SameAsking
<1>7. Orderly(chan, AllAsking) /\ \A p \in Peer : Places(p) = Held(chan, AllAsking, p)
  BY <1>2, InTheseTerms
<1>8. Orderly(chan', AllAsking)
  BY <1>3, <1>7, EmptyChannel DEF Orderly, OnePlace
<1>9. \A p \in Peer : Held(chan', AllAsking, p) \subseteq Held(chan, AllAsking, p)
  BY <1>3, EmptyChannel DEF Held
<1>10. (\A p \in Peer : Unique(p)') /\ \A p \in Peer : Places(p)' = Held(chan', AllAsking, p)
  BY <1>1, <1>6, <1>8, InTheseTermsNext
<1>11. \A p \in Peer : Places(p)' \subseteq Places(p)
  BY <1>7, <1>9, <1>10
<1>12. Moves
  <2>1. Grown
    BY <1>1, GrownNot
  <2> QED
    BY <1>1, <1>2, <1>4, <1>5, <2>1 DEF Moves, RpcType
<1>13. Present'
  BY <1>1 DEF Present
<1> QED
  BY <1>10, <1>11, <1>12, <1>13, TakingStep

\* The response to a request is an answer with its id.
LEMMA ResponseIs ==
  ASSUME NEW key \in Nat, NEW outcome \in Outcomes, NEW m, m = Response(key, outcome)
  PROVE  /\ m \in Messages /\ m.id = key /\ m.arg = outcome.value /\ m.type \in Answers
         /\ m.type = "result" => outcome.type = "value"
         /\ Replies(key, outcome) = <<m>>
  BY DEF Response, Replies, Message, Messages, IdOrNone, Method, Datum, Outcomes, Answers

\* The client answers a callback, or takes a notice.
LEMMA CallbackStep ==
  ASSUME RpcInv, OnCallback
  PROVE  RpcInv'
<1> DEFINE r == Head(chan["client"])
           out == receive_callback(r.arg)
           m == Response(r.id, out)
<1>1. /\ chan["client"] # << >> /\ r.type \in {"callback", "notice"}
      /\ Handled("client", IF r.type = "notice" THEN << >> ELSE Replies(r.id, out))
      /\ UNCHANGED <<open, next_id, awaiting, apis, callbacks, subs, fiber>>
  BY DEF OnCallback
<1>2. RpcType /\ Kinds
  BY DEF RpcInv
<1>3. chan["client"] \in Seq(Messages)
  BY <1>2, PeerFacts DEF RpcType
<1>4. r \in Messages /\ r \in Msgs(chan["client"])
  BY <1>1, <1>3, TakeFirst
<1>5. out \in Outcomes /\ out.value = None
  BY DEF receive_callback, Value, Thrown, Outcomes, Datum
<1>6. Grown
  BY <1>1, GrownNot
<1>7. CASE r.type = "notice"
  <2>1. Handled("client", << >>)
    BY <1>1, <1>7
  <2> HIDE DEF r
  <2>2. /\ chan' \in [Peer -> Seq(Messages)]
        /\ \A p \in Peer : Unique(p)' /\ Msgs(chan'[p]) \subseteq Msgs(chan[p])
        /\ \A p \in Peer : Places(p)' = Places(p)
    BY <1>1, <1>7, <2>1, PeerFacts, TakeMoves DEF r
  <2> QED
    BY <1>1, <1>6, <2>2, SamePlacesStep
<1>8. CASE r.type = "callback"
  <2>1. r.id \in Nat
    BY <1>2, <1>4, <1>8 DEF Kinds
  <2> HIDE DEF r, out
  <2>2. /\ m \in Messages /\ m.id = r.id /\ m.arg = None /\ m.type \in Answers
        /\ Replies(r.id, out) = <<m>>
    BY <1>5, <2>1, ResponseIs
  <2> HIDE DEF m
  <2>3. Handled("client", <<m>>)
    BY <1>1, <1>8, <2>2
  <2>4. r.type \in Requests
    BY <1>8 DEF Requests
  <2>5. /\ chan' \in [Peer -> Seq(Messages)]
        /\ \A p \in Peer : Unique(p)' /\ Places(p)' = Places(p)
        /\ \A d \in Peer : \A x \in Msgs(chan'[d]) : x \in Msgs(chan[d]) \/ (d = Other("client") /\ x = m)
    BY <1>1, <2>2, <2>3, <2>4, PeerFacts, ReplyMoves DEF r
  <2>6. Fitting("server", m)
    BY <2>1, <2>2 DEF Fitting, Answers
  <2>7. \A d \in Peer : \A x \in Msgs(chan'[d]) : x \in Msgs(chan[d]) \/ Fitting(d, x)
    BY <2>5, <2>6, PeerFacts
  <2> QED
    BY <1>1, <1>6, <2>5, <2>7, SamePlacesStep
<1> QED
  BY <1>1, <1>7, <1>8

\* A call is answered at once, with what its method returned.
LEMMA CallNowStep ==
  ASSUME RpcInv, chan["server"] # << >>, NEW r, r = Head(chan["server"]), r.type = "call",
         NEW ret, ret = receive_call(r.api, r.method, r.arg),
         Handled("server", Replies(r.id, ret.outcome)), apis' = ret.apis, subs' = ret.subs,
         UNCHANGED <<open, next_id, awaiting, callbacks, fiber>>
  PROVE  RpcInv'
<1> DEFINE m == Response(r.id, ret.outcome)
<1>1. RpcType /\ Kinds /\ Content /\ Known
  BY DEF RpcInv
<1>2. chan["server"] \in Seq(Messages) /\ apis \in Seq(Api) /\ subs \in SUBSET Nat /\ callbacks \in Nat
  BY <1>1, PeerFacts DEF RpcType
<1>3. r \in Messages /\ r \in Msgs(chan["server"])
  BY <1>2, TakeFirst
<1>4. r.id \in Nat /\ Fits(callbacks, r.method, r.arg)
  BY <1>1, <1>3 DEF Kinds, Known
<1>5. r.api \in Nat /\ r.method \in Method /\ r.arg \in Datum
  BY <1>3 DEF Messages
<1>6. (r.method = "open" => r.arg \in Api) /\ (r.method \in {"sub", "ask"} => r.arg \in Nat /\ r.arg \in 0..(callbacks - 1))
  BY <1>4 DEF Fits
<1>7. /\ ret.apis \in Seq(Api) /\ Len(apis) <= Len(ret.apis)
      /\ \A i \in 1..Len(apis) : ret.apis[i] = apis[i]
      /\ ret.outcome \in Outcomes /\ ret.outcome.type \in {"value", "error"}
      /\ ret.outcome.type = "value" => Matches(ret.apis, r.method, r.arg, ret.outcome.value)
      /\ ret.subs \in SUBSET Nat /\ ret.subs \subseteq subs \cup (IF r.method = "sub" THEN {r.arg} ELSE {})
  <2>1. Received(receive_call(r.api, r.method, r.arg), r.method, r.arg)
    BY <1>2, <1>5, <1>6, ReceiveOK
  <2> QED
    BY <2>1 DEF Received
<1>8. Grown
  <2>1. subs' \in SUBSET Nat /\ subs' \subseteq 0..(callbacks' - 1)
    BY <1>1, <1>6, <1>7 DEF Known
  <2>2. callbacks' \in Nat /\ callbacks <= callbacks'
    BY <1>2
  <2> QED
    BY <1>7, <2>1, <2>2 DEF Grown
<1>9. /\ m \in Messages /\ m.id = r.id /\ m.arg = ret.outcome.value /\ m.type \in Answers
      /\ m.type = "result" => ret.outcome.type = "value"
      /\ Replies(r.id, ret.outcome) = <<m>>
  <2>1. r.id \in Nat /\ ret.outcome \in Outcomes /\ m = Response(r.id, ret.outcome)
    BY <1>4, <1>7
  <2> HIDE DEF m
  <2> QED
    BY <2>1, ResponseIs
<1> HIDE DEF m
<1>10. Handled("server", <<m>>) /\ r.type \in Requests
  BY <1>9 DEF Requests
<1>11. /\ chan' \in [Peer -> Seq(Messages)]
       /\ \A p \in Peer : Unique(p)' /\ Places(p)' = Places(p)
       /\ \A d \in Peer : \A x \in Msgs(chan'[d]) : x \in Msgs(chan[d]) \/ (d = Other("server") /\ x = m)
  BY <1>9, <1>10, PeerFacts, ReplyMoves
<1>12. Fitting("client", m)
  <2>1. ASSUME NEW f \in Caller, fiber[f].id = m.id, m.type = "result"
        PROVE  Matches(apis', fiber[f].method, fiber[f].arg, m.arg)
    <3>1. fiber[f].id # None
      BY <1>4, <1>9, <2>1, RpcAssumption
    <3>2. r.method = fiber[f].method /\ r.arg = fiber[f].arg
      BY <1>1, <1>3, <1>9, <2>1, <3>1 DEF Content
    <3> QED
      BY <1>7, <1>9, <2>1, <3>2
  <2> QED
    BY <1>4, <1>9, <2>1 DEF Fitting, Answers
<1>13. \A d \in Peer : \A x \in Msgs(chan'[d]) : x \in Msgs(chan[d]) \/ Fitting(d, x)
  BY <1>11, <1>12, PeerFacts
<1> QED
  BY <1>8, <1>11, <1>13, SamePlacesStep

\* A reply ends the call of the fiber that waits for it.
LEMMA ReplyStep ==
  ASSUME RpcInv, NEW p \in Peer, OnReply(p)
  PROVE  RpcInv'
<1> DEFINE m == Head(chan[p])
           out == IF m.type = "result" THEN Value(m.arg) ELSE Thrown("error")
           new(f) == [fiber[f] EXCEPT !.pc = "done", !.outcome = out]
           Awaits(f) == At(f) = p /\ fiber[f].pc = "waiting" /\ fiber[f].id = m.id
<1>1. /\ chan[p] # << >> /\ m.type \in Answers /\ Handled(p, << >>)
      /\ UNCHANGED <<open, next_id, apis, callbacks, subs>>
      /\ \/ /\ m.id \in awaiting[p] /\ fiber' = [f \in Fiber |-> IF Awaits(f) THEN new(f) ELSE fiber[f]]
            /\ awaiting' = [awaiting EXCEPT ![p] = @ \ {m.id}]
         \/ m.id \notin awaiting[p] /\ UNCHANGED <<fiber, awaiting>>
  BY DEF OnReply, handle_reply, Fulfil, Answers
<1>2. RpcType /\ Kinds /\ Present /\ Content
  BY DEF RpcInv
<1>3. chan[p] \in Seq(Messages) /\ fiber \in [Fiber -> Fibers] /\ awaiting \in [Peer -> SUBSET Nat]
  BY <1>2 DEF RpcType
<1>4. m \in Messages /\ m \in Msgs(chan[p])
  BY <1>1, <1>3, TakeFirst
<1>5. m.id \in Nat /\ m.id # None /\ m.arg \in Datum
  BY <1>1, <1>2, <1>4, RpcAssumption, PeerFacts, MessageTypes DEF Kinds, Messages
<1>6. out \in Outcomes /\ (out.type = "value" => m.type = "result" /\ out.value = m.arg)
      /\ (out.type # "value" => out.value = None)
  BY <1>5 DEF Value, Thrown, Outcomes, Datum
<1> HIDE DEF m, out
<1>7. ASSUME NEW f \in Fiber
      PROVE  /\ new(f).id = fiber[f].id /\ new(f).method = fiber[f].method /\ new(f).arg = fiber[f].arg
             /\ new(f).answer = fiber[f].answer /\ new(f).pc = "done" /\ new(f).outcome = out
             /\ new(f) \in Fibers
  <2>1. fiber[f] \in Fibers
    BY <1>3
  <2> QED
    BY <1>6, <2>1 DEF Fibers
<1> HIDE DEF new
<1>8. /\ fiber' \in [Fiber -> Fibers] /\ awaiting' \in [Peer -> SUBSET Nat]
      /\ \A f \in Fiber : fiber'[f] = fiber[f] \/ (Awaits(f) /\ fiber'[f] = new(f))
      /\ awaiting'[p] = awaiting[p] \ {m.id} /\ \A q \in Peer : awaiting'[q] \subseteq awaiting[q]
  BY <1>1, <1>3, <1>7
<1>9. p = "server" => m.arg = None
  BY <1>1, <1>2, <1>4 DEF Content
<1>10. ASSUME NEW f \in Fiber, Awaits(f), fiber'[f] = new(f) PROVE Ahead(f)
  <2>1. f \in Handler => out.value = None
    BY <1>6, <1>9, <1>10, PeerFacts
  <2>2. ASSUME f \in Caller, out.type = "value"
        PROVE  Matches(apis', fiber[f].method, fiber[f].arg, out.value)
    <3>1. p = "client" /\ m.type = "result" /\ out.value = m.arg
      BY <1>6, <1>10, <2>2, PeerFacts
    <3>2. fiber[f].id = m.id /\ fiber[f].id # None
      BY <1>5, <1>10
    <3> QED
      BY <1>1, <1>2, <1>4, <2>2, <3>1, <3>2 DEF Content
  <2> QED
    BY <1>7, <1>10, <2>1, <2>2 DEF Ahead
<1>11. \A h \in Handler : fiber'[h].answer = fiber[h].answer
  BY <1>7, <1>8, PeerFacts
<1>12. Owner(p, m.type) = p /\ m.type # "notice"
  BY <1>1, MessageTypes DEF Owner
<1>13. /\ chan' \in [Peer -> Seq(Messages)]
       /\ \A q \in Peer : Unique(q)' /\ Msgs(chan'[q]) \subseteq Msgs(chan[q]) /\ Places(q)' \subseteq Places(q)
       /\ m.type # "notice" => Places(p) = Places(p)' \cup {m.id}
       /\ \A q \in Peer : q # p \/ m.type = "notice" => Places(q)' = Places(q)
  <2>1. m = Head(chan[p]) /\ p = Owner(p, m.type)
    BY <1>12 DEF m
  <2>2. chan[p] # << >> /\ Handled(p, << >>) /\ next_id' = next_id
    BY <1>1
  <2> QED
    BY <1>11, <2>1, <2>2, TakeMoves
<1>14. Moves
  <2>1. Grown
    BY <1>1, GrownNot
  <2> QED
    BY <1>1, <1>8, <1>10, <1>13, <2>1 DEF Moves
<1>15. Present'
  <2> SUFFICES ASSUME open, NEW f \in Fiber, fiber'[f].pc \in {"sent", "waiting"}, fiber'[f].id \in awaiting'[At(f)]
               PROVE  fiber'[f].id \in Places(At(f))'
    BY <1>1 DEF Present
  <2>1. fiber'[f] = fiber[f]
    BY <1>7, <1>8
  <2>2. At(f) \in Peer /\ fiber[f].id \in awaiting[At(f)]
    BY <1>8, <2>1, PeerFacts
  <2>3. fiber[f].id \in Places(At(f))
    BY <1>2, <2>1, <2>2 DEF Present
  <2>4. CASE At(f) = p
    BY <1>8, <1>12, <1>13, <2>1, <2>3, <2>4
  <2>5. CASE At(f) # p
    BY <1>13, <2>1, <2>2, <2>3, <2>5
  <2> QED
    BY <2>4, <2>5
<1> QED
  BY <1>13, <1>14, <1>15, TakingStep

\* The requests of a peer that the handlers have, once h has answered its own.
LEMMA AskingLess ==
  ASSUME RpcInv, NEW h \in Handler, fiber[h].answer # None,
         fiber'[h].answer = None, \A g \in Handler : g # h => fiber'[g] = fiber[g]
  PROVE  /\ \A p \in Peer : Asking(p)' \subseteq Asking(p)
         /\ Asking("client") = Asking("client")' \cup {fiber[h].answer} /\ fiber[h].answer \notin Asking("client")'
         /\ Asking("server")' = Asking("server")
<1>1. OwnIds
  BY DEF RpcInv
<1>2. \A p \in Peer : Asking(p)' \subseteq Asking(p)
  BY DEF Asking
<1>3. fiber[h].answer \in Asking("client")
  BY DEF Asking
<1>4. ASSUME fiber[h].answer \in Asking("client")' PROVE FALSE
  <2>1. PICK g \in Handler : fiber'[g].answer # None /\ fiber'[g].answer = fiber[h].answer
    BY <1>4 DEF Asking
  <2>2. g # h /\ fiber[g].answer = fiber[h].answer
    BY <2>1
  <2> QED
    BY <1>1, <2>2 DEF OwnIds
<1>5. ASSUME NEW x \in Asking("client"), x # fiber[h].answer PROVE x \in Asking("client")'
  <2>1. PICK g \in Handler : fiber[g].answer # None /\ fiber[g].answer = x
    BY DEF Asking
  <2>2. g # h /\ fiber'[g] = fiber[g]
    BY <1>5, <2>1
  <2> QED
    BY <2>1, <2>2 DEF Asking
<1>6. Asking("server")' = Asking("server")
  BY DEF Asking
<1>7. Asking("client")' \subseteq Asking("client")
  BY <1>2, PeerFacts
<1> QED
  BY <1>2, <1>3, <1>4, <1>5, <1>6, <1>7

\* A handler that asked back answers its request, or finds the connection closed.
LEMMA AnswerStep ==
  ASSUME RpcInv, NEW h \in Handler, Answer(h)
  PROVE  RpcInv'
<1> DEFINE i == fiber[h].answer
           m == Response(i, fiber[h].outcome)
           A == [p \in Peer |-> Asking(p)']
<1>1. /\ fiber[h].pc = "done" /\ fiber' = [fiber EXCEPT ![h] = Idle]
      /\ chan' = [chan EXCEPT !["client"] = IF open THEN @ \o Replies(i, fiber[h].outcome) ELSE @]
      /\ UNCHANGED <<open, next_id, awaiting, apis, callbacks, subs>>
  BY DEF Answer
<1>2. RpcType /\ Kinds /\ (\A p \in Peer : Unique(p)) /\ OwnIds /\ Present /\ Content
  BY DEF RpcInv
<1>3. /\ fiber \in [Fiber -> Fibers] /\ chan \in [Peer -> Seq(Messages)] /\ h \in Fiber
      /\ chan["client"] \in Seq(Messages) /\ chan["server"] \in Seq(Messages)
  BY <1>2, PeerFacts DEF RpcType
<1>4. fiber[h] \in Fibers
  BY <1>3
<1>5. i \in Nat /\ i # None /\ fiber[h].outcome \in Outcomes /\ fiber[h].outcome.value = None
  <2>1. i # None /\ fiber[h].outcome.value = None
    BY <1>1, <1>2 DEF Kinds, Content
  <2>2. i \in IdOrNone /\ fiber[h].outcome \in Outcomes
    BY <1>4 DEF Fibers
  <2> QED
    BY <2>1, <2>2 DEF IdOrNone
<1>6. Idle \in Fibers /\ Idle.pc = "idle" /\ Idle.answer = None /\ Idle.id = None
  BY DEF Idle, Fibers, Thrown, IdOrNone, Method, Datum, Outcomes
<1>7. fiber' \in [Fiber -> Fibers] /\ fiber'[h] = Idle /\ \A g \in Fiber : g # h => fiber'[g] = fiber[g]
  BY <1>1, <1>3, <1>6
<1>8. /\ \A p \in Peer : Asking(p)' \subseteq Asking(p)
      /\ Asking("client") = Asking("client")' \cup {i} /\ i \notin Asking("client")'
      /\ Asking("server")' = Asking("server")
  BY <1>5, <1>6, <1>7, PeerFacts, AskingLess
<1>9. \A p \in Peer : A[p] = Asking(p)' /\ A[p] \subseteq AllAsking[p]
  BY <1>8 DEF AllAsking
<1>10. /\ m \in Messages /\ m.id = i /\ m.arg = None /\ m.type \in Answers
       /\ Replies(i, fiber[h].outcome) = <<m>>
  <2>1. m = Response(i, fiber[h].outcome)
    OBVIOUS
  <2> HIDE DEF m
  <2> QED
    BY <1>5, <2>1, ResponseIs
<1> HIDE DEF A, m, i
<1>11. Orderly(chan, AllAsking) /\ \A p \in Peer : Places(p) = Held(chan, AllAsking, p)
  BY <1>2, InTheseTerms
<1>12. Orderly(chan, A)
  BY <1>9, <1>11 DEF Orderly, OnePlace
<1>13. \A p \in Peer : Held(chan, A, p) \subseteq Held(chan, AllAsking, p)
  BY <1>9 DEF Held
<1>14. /\ Held(chan, AllAsking, "client") = Held(chan, A, "client") \cup {i}
       /\ Held(chan, AllAsking, "server") = Held(chan, A, "server")
  BY <1>8, <1>9, PeerFacts DEF Held, AllAsking
<1>15. Grown
  BY <1>1, GrownNot
<1>16. \A f \in Fiber : fiber'[f] = fiber[f] \/ (f \in Handler /\ fiber'[f] = Idle)
  BY <1>7
<1>17. CASE ~open
  <2>1. chan' = chan
    BY <1>1, <1>3, <1>17
  <2>2. (\A p \in Peer : Unique(p)') /\ \A p \in Peer : Places(p)' = Held(chan, A, p)
    BY <1>1, <1>9, <1>12, <2>1, InTheseTermsNext
  <2>3. \A p \in Peer : Places(p)' \subseteq Places(p)
    BY <1>11, <1>13, <2>2
  <2>4. Moves
    BY <1>1, <1>2, <1>7, <1>15, <1>16, <2>1 DEF Moves, RpcType
  <2>5. Present'
    BY <1>1, <1>17 DEF Present
  <2> QED
    BY <2>2, <2>3, <2>4, <2>5, TakingStep
<1>18. CASE open
  <2>1. chan' = [chan EXCEPT !["client"] = Append(@, m)]
    <3>1. chan["client"] \o <<m>> = Append(chan["client"], m)
      BY <1>3, <1>10, AppendIsConcat
    <3> QED
      BY <1>1, <1>3, <1>10, <1>18, <3>1
  <2>2. Owner("client", m.type) = "client" /\ m.type # "notice"
    BY <1>10, MessageTypes DEF Owner
  <2>3. Lacks(chan, A, "client", i) /\ i \in 0..(next_id["client"] - 1)
    <3>1. OnePlace(chan["server"], chan["client"], AllAsking["client"], next_id["client"])
      BY <1>11, PeerFacts DEF Orderly
    <3>2. i \in AllAsking["client"] /\ i \notin A["client"]
      BY <1>8, <1>9, PeerFacts DEF AllAsking
    <3> QED
      BY <3>1, <3>2, PeerFacts, Zenon DEF Lacks, Nowhere, OnePlace
  <2>4. CanPut(chan, A, "client", m, "client") /\ Put(chan, "client", m, chan')
    BY <1>3, <1>10, <1>12, <2>1, <2>2, <2>3, PeerFacts DEF CanPut, Put
  <2>5. HasPut(chan, A, "client", m, "client", chan')
    BY <2>4, PutMessage
  <2>6. /\ chan' \in [Peer -> Seq(Messages)] /\ Orderly(chan', A)
        /\ Msgs(chan'["client"]) = Msgs(chan["client"]) \cup {m} /\ chan'["server"] = chan["server"]
        /\ Held(chan', A, "client") = Held(chan, A, "client") \cup {i}
        /\ Held(chan', A, "server") = Held(chan, A, "server")
    BY <1>10, <2>2, <2>5, PeerFacts DEF HasPut
  <2>7. (\A p \in Peer : Unique(p)') /\ \A p \in Peer : Places(p)' = Held(chan', A, p)
    BY <1>1, <1>9, <2>6, InTheseTermsNext
  <2>8. \A p \in Peer : Places(p)' = Places(p)
    BY <1>11, <1>14, <2>6, <2>7, PeerFacts
  <2>9. Fitting("client", m)
    <3>1. ASSUME NEW f \in Caller, fiber[f].id = m.id
          PROVE  Matches(apis', fiber[f].method, fiber[f].arg, m.arg)
      <4>1. fiber[f].method = "ask"
        BY <1>2, <1>5, <1>10, <3>1 DEF Content, i
      <4> QED
        BY <1>10, <4>1 DEF Matches
    <3> QED
      BY <1>5, <1>10, <3>1 DEF Fitting, Answers
  <2>10. Moves
    <3>1. \A c \in Peer : \A x \in Msgs(chan'[c]) : x \in Msgs(chan[c]) \/ Fitting(c, x)
      BY <2>6, <2>9, PeerFacts
    <3> QED
      BY <1>1, <1>2, <1>7, <1>15, <1>16, <2>6, <3>1 DEF Moves, RpcType
  <2>11. Present'
    BY <1>1, <1>2, <1>6, <1>7, <2>8, PeerFacts DEF Present
  <2> QED
    BY <2>7, <2>8, <2>10, <2>11, TakingStep
<1> QED
  BY <1>17, <1>18

\* There is a handler for the next message: the busy ones have requests of
\* their own, of which there are no more than ids of the client.
LEMMA IdleHandler ==
  ASSUME RpcInv, NEW i \in 0..(next_id["client"] - 1), \A h \in Handler : fiber[h].answer # i
  PROVE  \E h \in Handler : fiber[h].pc = "idle"
<1> SUFFICES ASSUME \A h \in Handler : fiber[h].pc # "idle" PROVE FALSE
  OBVIOUS
<1> DEFINE n == next_id["client"]
           T == (0..(n - 1)) \ {i}
           f == [h \in Handler |-> fiber[h].answer]
<1>1. RpcType /\ Kinds /\ (\A p \in Peer : Unique(p)) /\ OwnIds
  BY DEF RpcInv
<1>2. n \in Nat /\ n <= MaxId /\ MaxId \in Nat /\ IsFiniteSet(Handler) /\ Cardinality(Handler) >= MaxId
  BY <1>1, PeerFacts, RpcAssumption DEF RpcType
<1>3. Cardinality(Handler) \in Nat
  BY <1>2, FS_CardinalityType
<1>4. IsFiniteSet(0..(n - 1)) /\ Cardinality(0..(n - 1)) = n
  <2>1. 0 \in Int /\ n - 1 \in Int /\ ~(0 > n - 1)
    BY <1>2
  <2>2. IsFiniteSet(0..(n - 1)) /\ Cardinality(0..(n - 1)) = (n - 1) - 0 + 1
    BY <2>1, FS_Interval
  <2> QED
    BY <1>2, <2>2
<1>5. IsFiniteSet(T) /\ Cardinality(T) = n - 1
  BY <1>4, FS_RemoveElement
<1>6. Places("client") \subseteq 0..(n - 1)
  BY <1>1, PeerFacts DEF Unique
<1>7. \A h \in Handler : fiber[h].answer # None /\ fiber[h].answer \in T
  BY <1>1, <1>6, InPlaces DEF Kinds
<1>8. f \in [Handler -> T]
  BY <1>7
<1>9. Cardinality(T) < Cardinality(Handler)
  BY <1>2, <1>3, <1>5
<1> HIDE DEF n, T, f
<1>10. \E g, h \in Handler : g # h /\ f[g] = f[h]
  BY <1>2, <1>5, <1>8, <1>9, FS_PigeonHole
<1>11. PICK g \in Handler, h \in Handler : g # h /\ f[g] = f[h]
  BY <1>10
<1> QED
  BY <1>1, <1>7, <1>11 DEF OwnIds, f

\* A call that asks back is with a handler.
LEMMA AskStep ==
  ASSUME RpcInv, chan["server"] # << >>, NEW r, r = Head(chan["server"]), r.type = "call", r.method = "ask",
         NEW h, h = CHOOSE x \in Handler : fiber[x].pc = "idle",
         Handled("server", << >>),
         fiber' = [fiber EXCEPT ![h] = [Idle EXCEPT !.pc = "started", !.id = next_id["server"],
                                                    !.arg = r.arg, !.answer = r.id]],
         next_id' = [next_id EXCEPT !["server"] = @ + 1],
         awaiting' = [awaiting EXCEPT !["server"] = @ \cup {next_id["server"]}],
         UNCHANGED <<open, apis, callbacks, subs>>
  PROVE  RpcInv'
<1> DEFINE k == next_id["server"]
           new == [Idle EXCEPT !.pc = "started", !.id = k, !.arg = r.arg, !.answer = r.id]
<1>1. RpcType /\ Kinds /\ (\A p \in Peer : Unique(p)) /\ OwnIds /\ Present /\ Content /\ Known
  BY DEF RpcInv
<1>2. /\ chan \in [Peer -> Seq(Messages)] /\ chan["server"] \in Seq(Messages) /\ fiber \in [Fiber -> Fibers]
      /\ k \in Nat
  BY <1>1, PeerFacts DEF RpcType
<1>3. r \in Messages /\ r \in Msgs(chan["server"])
  BY <1>2, TakeFirst
<1>4. r.id \in Nat /\ r.id # None /\ r.arg \in Datum /\ r.arg \in 0..(callbacks - 1)
  BY <1>1, <1>3, RpcAssumption DEF Kinds, Known, Fits, Messages
<1>5. Orderly(chan, AllAsking) /\ \A p \in Peer : Places(p) = Held(chan, AllAsking, p)
  BY <1>1, InTheseTerms
<1>6. Owner("server", r.type) = "client" /\ r.type \in Requests /\ r.type # "notice"
  BY PeerFacts DEF Owner, Requests
<1>7. CanTake(chan, AllAsking, "server", r, "client") /\ Taken(chan, "server", chan')
  BY <1>2, <1>3, <1>5, <1>6, PeerFacts, HandledOK DEF CanTake
<1>8. HasTaken(chan, AllAsking, "server", r, "client", chan')
  BY <1>7, TakeMessage
<1>9. /\ chan' \in [Peer -> Seq(Messages)] /\ Orderly(chan', AllAsking)
      /\ \A p \in Peer : Msgs(chan'[p]) \subseteq Msgs(chan[p])
      /\ Lacks(chan', AllAsking, "client", r.id) /\ r.id \in 0..(next_id["client"] - 1)
      /\ Held(chan, AllAsking, "client") = Held(chan', AllAsking, "client") \cup {r.id}
      /\ Held(chan, AllAsking, "server") = Held(chan', AllAsking, "server")
  BY <1>6, <1>8, PeerFacts DEF HasTaken
<1>10. \A g \in Handler : fiber[g].answer # r.id
  <2>1. r.id \notin AllAsking["client"]
    BY <1>9 DEF Lacks, Nowhere
  <2> QED
    BY <1>4, <2>1, PeerFacts DEF AllAsking, Asking
<1>11. h \in Handler /\ fiber[h].pc = "idle" /\ h \in Fiber
  <2>1. \E x \in Handler : fiber[x].pc = "idle"
    BY <1>9, <1>10, IdleHandler
  <2> QED
    BY <2>1, PeerFacts
<1>12. /\ new.pc = "started" /\ new.id = k /\ new.arg = r.arg /\ new.answer = r.id /\ new.outcome.value = None
       /\ new \in Fibers
  BY <1>2, <1>4 DEF Idle, Thrown, Fibers, IdOrNone, Outcomes, Datum, Method
<1> HIDE DEF new
<1>13. /\ fiber'[h] = new /\ \A g \in Fiber : g # h => fiber'[g] = fiber[g]
       /\ fiber' \in [Fiber -> Fibers]
  BY <1>2, <1>11, <1>12 DEF new
<1>14. \A f \in Caller : fiber'[f] = fiber[f]
  BY <1>11, <1>13, PeerFacts
<1>15. /\ next_id' \in [Peer -> Nat] /\ next_id'["server"] = k + 1 /\ next_id'["client"] = next_id["client"]
       /\ awaiting' \in [Peer -> SUBSET Nat] /\ awaiting'["server"] = awaiting["server"] \cup {k}
       /\ awaiting'["client"] = awaiting["client"]
  BY <1>1, <1>2, PeerFacts DEF RpcType
<1>16. Asking("client")' = Asking("client") \cup {r.id} /\ Asking("server")' = {} /\ Asking("server") = {}
  <2>1. fiber[h].answer = None
    BY <1>1, <1>11 DEF Kinds
  <2>2. \A g \in Handler : g # h => fiber'[g].answer = fiber[g].answer
    BY <1>13, PeerFacts
  <2>3. fiber'[h].answer = r.id
    BY <1>12, <1>13
  <2>4. Asking("client")' \subseteq Asking("client") \cup {r.id}
    BY <2>2, <2>3 DEF Asking
  <2>5. Asking("client") \subseteq Asking("client")'
    BY <2>1, <2>2 DEF Asking
  <2>6. r.id \in Asking("client")'
    BY <1>4, <1>11, <2>3 DEF Asking
  <2>7. Asking("server")' = {} /\ Asking("server") = {}
    BY DEF Asking
  <2> QED
    BY <2>4, <2>5, <2>6, <2>7
<1>17. AllAsking["client"] = Asking("client") /\ AllAsking["server"] = Asking("server")
  BY PeerFacts DEF AllAsking
<1>18. Unique("client")'
  <2>1. OnePlace(chan'["server"], chan'["client"], Asking("client"), next_id["client"])
    BY <1>9, <1>17, PeerFacts DEF Orderly
  <2>2. Nowhere(r.id, chan'["server"], chan'["client"], Asking("client"))
    BY <1>9, <1>17, PeerFacts DEF Lacks
  <2>3. OnePlace(chan'["server"], chan'["client"], Asking("client")', next_id'["client"])
    BY <1>9, <1>15, <1>16, <2>1, <2>2, Zenon DEF OnePlace, Nowhere
  <2>4. Unique("client")' <=> OnePlace(chan'["server"], chan'["client"], Asking("client")', next_id'["client"])
    BY PeerFacts DEF Unique, OnePlace, Places, Requested, Replied
  <2> QED
    BY <2>3, <2>4
<1>19. Unique("server")'
  <2>1. OnePlace(chan'["client"], chan'["server"], Asking("server"), k)
    BY <1>9, <1>17, PeerFacts DEF Orderly
  <2>2. 0..(k - 1) \subseteq 0..((k + 1) - 1)
    BY <1>2
  <2>3. OnePlace(chan'["client"], chan'["server"], Asking("server")', next_id'["server"])
    <3> HIDE DEF k
    <3> QED
      BY <1>15, <1>16, <2>1, <2>2, Zenon DEF OnePlace
  <2>4. Unique("server")' <=> OnePlace(chan'["client"], chan'["server"], Asking("server")', next_id'["server"])
    BY PeerFacts DEF Unique, OnePlace, Places, Requested, Replied
  <2> QED
    BY <2>3, <2>4
<1>20. \A p \in Peer : Places(p)' = Places(p)
  <2>1. /\ Places("client")' = Held(chan', AllAsking, "client") \cup {r.id}
        /\ Places("server")' = Held(chan', AllAsking, "server")
    BY <1>16, <1>17, PeerFacts DEF Places, Requested, Replied, Held
  <2> QED
    BY <1>5, <1>9, <2>1, PeerFacts
<1>21. RpcType'
  BY <1>1, <1>9, <1>13, <1>15 DEF RpcType
<1>22. /\ Msgs(chan'["server"]) \subseteq Msgs(chan["server"]) /\ Msgs(chan'["client"]) \subseteq Msgs(chan["client"])
  BY <1>9, PeerFacts
<1>23. Kinds'
  <2>1. \A f \in Fiber : fiber'[f].pc \in {"started", "sent", "waiting"} => fiber'[f].id \in Nat
    BY <1>1, <1>2, <1>12, <1>13 DEF Kinds
  <2>2. \A g \in Handler : fiber'[g].pc = "idle" <=> fiber'[g].answer = None
    BY <1>1, <1>4, <1>12, <1>13, PeerFacts DEF Kinds
  <2> QED
    BY <1>1, <1>14, <1>22, <2>1, <2>2 DEF Kinds
<1>24. \A g \in Handler : fiber[g].id # k
  BY <1>1, <1>2, PeerFacts, RpcAssumption DEF OwnIds
<1>25. OwnIds'
  <2>1. \A g \in Fiber : fiber'[g].id # None => fiber'[g].id \in 0..(next_id'[At(g)] - 1)
    BY <1>1, <1>2, <1>11, <1>12, <1>13, <1>15, PeerFacts DEF OwnIds, RpcType
  <2>2. \A f, g \in Fiber : At(f) = At(g) /\ fiber'[f].id # None /\ fiber'[f].id = fiber'[g].id => f = g
    <3>1. ASSUME NEW f \in Fiber, f # h, At(f) = At(h) PROVE fiber'[f].id # fiber'[h].id
      <4>1. f \in Handler /\ fiber'[f] = fiber[f]
        BY <1>11, <1>13, <3>1, PeerFacts
      <4> QED
        BY <1>12, <1>13, <1>24, <4>1
    <3>2. ASSUME NEW f \in Fiber, NEW g \in Fiber, f # h, g # h, At(f) = At(g), fiber'[f].id # None,
                 fiber'[f].id = fiber'[g].id
          PROVE  f = g
      <4>1. fiber'[f] = fiber[f] /\ fiber'[g] = fiber[g]
        BY <1>13, <3>2
      <4> QED
        BY <1>1, <3>2, <4>1 DEF OwnIds
    <3> QED
      BY <3>1, <3>2
  <2>3. \A f, g \in Handler : fiber'[f].answer # None /\ fiber'[f].answer = fiber'[g].answer => f = g
    <3>1. ASSUME NEW g \in Handler, g # h PROVE fiber'[g] = fiber[g] /\ fiber'[g].answer # fiber'[h].answer
      <4>1. fiber'[g] = fiber[g]
        BY <1>13, <3>1, PeerFacts
      <4> QED
        BY <1>10, <1>12, <1>13, <4>1
    <3>2. ASSUME NEW f \in Handler, NEW g \in Handler, f # h, g # h, fiber'[f].answer # None,
                 fiber'[f].answer = fiber'[g].answer
          PROVE  f = g
      <4>1. fiber'[f] = fiber[f] /\ fiber'[g] = fiber[g]
        BY <3>1, <3>2
      <4> QED
        BY <1>1, <3>2, <4>1 DEF OwnIds
    <3> QED
      BY <3>1, <3>2
  <2>4. \A g \in Fiber : fiber'[g].pc = "started" => fiber'[g].id \notin Places(At(g))'
    <3>1. k \notin Places("server")
      BY <1>1, <1>2, PeerFacts DEF Unique
    <3> QED
      BY <1>1, <1>11, <1>12, <1>13, <1>20, <3>1, PeerFacts DEF OwnIds
  <2> QED
    BY <2>1, <2>2, <2>3, <2>4 DEF OwnIds
<1>26. Present'
  <2> SUFFICES ASSUME open, NEW f \in Fiber, fiber'[f].pc \in {"sent", "waiting"}, fiber'[f].id \in awaiting'[At(f)]
               PROVE  fiber'[f].id \in Places(At(f))
    BY <1>20, PeerFacts DEF Present
  <2>1. f # h /\ fiber'[f] = fiber[f]
    BY <1>12, <1>13
  <2>2. fiber[f].id \in awaiting[At(f)]
    BY <1>15, <1>24, <2>1, PeerFacts
  <2> QED
    BY <1>1, <2>1, <2>2 DEF Present
<1>27. Content'
  <2>1. ASSUME NEW f \in Caller, fiber[f].id # None, NEW g \in Handler, fiber'[g].answer = fiber[f].id
        PROVE  fiber[f].method = "ask"
    <3>1. CASE g = h
      BY <1>1, <1>3, <1>12, <1>13, <2>1, <3>1 DEF Content
    <3>2. CASE g # h
      BY <1>1, <1>13, <2>1, <3>2, PeerFacts DEF Content
    <3> QED
      BY <3>1, <3>2
  <2>2. \A g \in Handler : fiber'[g].outcome.value = None
    BY <1>1, <1>12, <1>13, PeerFacts DEF Content
  <2>3. ASSUME NEW f \in Caller
        PROVE  /\ fiber[f].pc = "done" /\ fiber[f].outcome.type = "value" =>
                    Matches(apis, fiber[f].method, fiber[f].arg, fiber[f].outcome.value)
               /\ fiber[f].id # None =>
                    /\ \A m \in Msgs(chan'["server"]) : m.type = "call" /\ m.id = fiber[f].id =>
                         m.method = fiber[f].method /\ m.arg = fiber[f].arg
                    /\ \A m \in Msgs(chan'["client"]) : m.type = "result" /\ m.id = fiber[f].id =>
                         Matches(apis, fiber[f].method, fiber[f].arg, m.arg)
    BY <1>1, <1>22 DEF Content
  <2>4. \A m \in Msgs(chan'["server"]) : m.type \in Answers => m.arg = None
    BY <1>1, <1>22 DEF Content
  <2>5. ASSUME NEW f \in Caller
        PROVE  /\ fiber'[f].pc = "done" /\ fiber'[f].outcome.type = "value" =>
                    Matches(apis', fiber'[f].method, fiber'[f].arg, fiber'[f].outcome.value)
               /\ fiber'[f].id # None =>
                    /\ \A m \in Msgs(chan'["server"]) : m.type = "call" /\ m.id = fiber'[f].id =>
                         m.method = fiber'[f].method /\ m.arg = fiber'[f].arg
                    /\ \A g \in Handler : fiber'[g].answer = fiber'[f].id => fiber'[f].method = "ask"
                    /\ \A m \in Msgs(chan'["client"]) : m.type = "result" /\ m.id = fiber'[f].id =>
                         Matches(apis', fiber'[f].method, fiber'[f].arg, m.arg)
    <3>1. fiber'[f] = fiber[f] /\ apis' = apis
      BY <1>14
    <3>2. fiber[f].id # None => \A g \in Handler : fiber'[g].answer = fiber[f].id => fiber[f].method = "ask"
      BY <2>1
    <3> QED
      BY <2>3, <3>1, <3>2
  <2> QED
    BY <2>2, <2>4, <2>5 DEF Content
<1>28. Known'
  <2>1. \A g \in Handler : fiber'[g].pc # "idle" => fiber'[g].arg \in 0..(callbacks - 1)
    BY <1>1, <1>4, <1>12, <1>13, PeerFacts DEF Known
  <2> QED
    BY <1>1, <1>14, <1>22, <2>1 DEF Known
<1> QED
  BY <1>18, <1>19, <1>21, <1>23, <1>25, <1>26, <1>27, <1>28, PeerFacts DEF RpcInv

\* A call request is handled.
LEMMA CallStep ==
  ASSUME RpcInv, OnCall
  PROVE  RpcInv'
<1> DEFINE r == Head(chan["server"])
           ret == receive_call(r.api, r.method, r.arg)
           h == CHOOSE x \in Handler : fiber[x].pc = "idle"
<1>1. chan["server"] # << >> /\ r.type = "call" /\ UNCHANGED <<open, callbacks>>
  BY DEF OnCall
<1>2. \/ /\ Handled("server", Replies(r.id, ret.outcome)) /\ apis' = ret.apis /\ subs' = ret.subs
         /\ UNCHANGED <<fiber, next_id, awaiting>>
      \/ /\ r.method = "ask" /\ Handled("server", << >>)
         /\ fiber' = [fiber EXCEPT ![h] = [Idle EXCEPT !.pc = "started", !.id = next_id["server"],
                                                       !.arg = r.arg, !.answer = r.id]]
         /\ next_id' = [next_id EXCEPT !["server"] = @ + 1]
         /\ awaiting' = [awaiting EXCEPT !["server"] = @ \cup {next_id["server"]}]
         /\ UNCHANGED <<apis, subs>>
  BY DEF OnCall
<1>3. r = Head(chan["server"]) /\ ret = receive_call(r.api, r.method, r.arg)
      /\ h = CHOOSE x \in Handler : fiber[x].pc = "idle"
  OBVIOUS
<1> HIDE DEF r, ret, h
<1>4. CASE /\ Handled("server", Replies(r.id, ret.outcome)) /\ apis' = ret.apis /\ subs' = ret.subs
           /\ UNCHANGED <<fiber, next_id, awaiting>>
  BY <1>1, <1>3, <1>4, CallNowStep
<1>5. CASE /\ r.method = "ask" /\ Handled("server", << >>)
           /\ fiber' = [fiber EXCEPT ![h] = [Idle EXCEPT !.pc = "started", !.id = next_id["server"],
                                                         !.arg = r.arg, !.answer = r.id]]
           /\ next_id' = [next_id EXCEPT !["server"] = @ + 1]
           /\ awaiting' = [awaiting EXCEPT !["server"] = @ \cup {next_id["server"]}]
           /\ UNCHANGED <<apis, subs>>
  BY <1>1, <1>3, <1>5, AskStep
<1> QED
  BY <1>2, <1>4, <1>5

-----------------------------------------------------------------------------
(* The theorems. *)

\* The initial states satisfy the invariant.
LEMMA RpcInitInv ==
  ASSUME RpcInit
  PROVE  RpcInv
<1> DEFINE a == CHOOSE x \in Api \ Proxy : TRUE
<1>1. /\ chan = [p \in Peer |-> << >>] /\ next_id = [p \in Peer |-> 0] /\ awaiting = [p \in Peer |-> {}]
      /\ apis = <<a>> /\ callbacks = 0 /\ subs = {} /\ fiber = [f \in Fiber |-> Idle]
  BY DEF RpcInit
<1>2. a \in Api
  BY RpcAssumption
<1> HIDE DEF a
<1>3. /\ Idle \in Fibers /\ Idle.pc = "idle" /\ Idle.id = None /\ Idle.answer = None /\ Idle.method = "get"
      /\ Idle.outcome.type # "value" /\ Idle.outcome.value = None
  BY DEF Idle, Fibers, Thrown, IdOrNone, Method, Datum, Outcomes
<1>4. \A p \in Peer : chan[p] = << >> /\ chan[Other(p)] = << >> /\ next_id[p] = 0
  BY <1>1, OtherFacts
<1>5. \A f \in Fiber : fiber[f] = Idle
  BY <1>1
<1>6. Msgs(chan["server"]) = {} /\ Msgs(chan["client"]) = {}
  BY <1>4, PeerFacts, EmptyChannel
<1>7. \A p \in Peer : Requested(p) = {} /\ Replied(p) = {} /\ Asking(p) = {} /\ Places(p) = {}
  <2> SUFFICES ASSUME NEW p \in Peer PROVE Requested(p) = {} /\ Replied(p) = {} /\ Asking(p) = {}
    BY DEF Places
  <2>1. Requested(p) = {} /\ Replied(p) = {}
    BY <1>4, EmptyChannel DEF Requested, Replied
  <2>2. Asking(p) = {}
    BY <1>3, <1>5, PeerFacts DEF Asking
  <2> QED
    BY <2>1, <2>2
<1>8. RpcType
  <2>1. chan \in [Peer -> Seq(Messages)]
    BY <1>1, EmptySeq
  <2>2. apis \in Seq(Api)
    BY <1>1, <1>2
  <2>3. next_id \in [Peer -> Nat] /\ next_id["client"] <= MaxId
    BY <1>1, RpcAssumption, PeerFacts
  <2>4. fiber \in [Fiber -> Fibers] /\ awaiting \in [Peer -> SUBSET Nat]
    BY <1>1, <1>3
  <2> QED
    BY <1>1, <2>1, <2>2, <2>3, <2>4 DEF RpcType
<1>9. Kinds
  BY <1>3, <1>5, <1>6, PeerFacts DEF Kinds
<1>10. \A p \in Peer : Unique(p)
  <2> SUFFICES ASSUME NEW p \in Peer PROVE Unique(p)
    OBVIOUS
  <2>1. Once(chan[Other(p)], Requests) /\ Once(chan[p], Answers)
    BY <1>4, EmptyChannel
  <2> QED
    BY <1>7, <2>1 DEF Unique
<1>11. OwnIds
  BY <1>3, <1>5, PeerFacts DEF OwnIds
<1>12. Present
  BY <1>3, <1>5 DEF Present
<1>13. Content
  BY <1>3, <1>5, <1>6, PeerFacts DEF Content
<1>14. Known
  BY <1>1, <1>3, <1>5, <1>6, PeerFacts DEF Known, Fits
<1> QED
  BY <1>8, <1>9, <1>10, <1>11, <1>12, <1>13, <1>14 DEF RpcInv

\* Every step keeps it.
LEMMA RpcNextInv ==
  ASSUME RpcInv, [RpcNext]_rpcVars
  PROVE  RpcInv'
<1>1. CASE StartCall
  <2>1. PICK f \in Caller, m \in Method : \E i \in Used(m), a \in Takes(m) : start_remote_call(f, i, m, a)
    BY <1>1 DEF StartCall
  <2>2. PICK i \in Used(m), a \in Takes(m) : start_remote_call(f, i, m, a)
    BY <2>1
  <2> QED
    BY <2>2, StartStep
<1>2. CASE CallLocally \/ CallHttp \/ ServeHttp \/ CallCli
  BY <1>2, CallDirectly
<1>3. CASE Send
  BY <1>3, SendStep DEF Send
<1>4. CASE Wait
  BY <1>4, WaitStep DEF Wait
<1>5. CASE OnCall
  BY <1>5, CallStep
<1>6. CASE OnCallback
  BY <1>6, CallbackStep
<1>7. CASE Reply
  BY <1>7, ReplyStep DEF Reply
<1>8. CASE AnswerCall
  BY <1>8, AnswerStep DEF AnswerCall
<1>9. CASE Notify
  BY <1>9, NoticeStep DEF Notify
<1>10. CASE Disconnect
  BY <1>10, DisconnectStep
<1>11. CASE Close
  BY <1>11, CloseStep DEF Close
<1>12. CASE UNCHANGED rpcVars
  <2>1. UNCHANGED <<open, chan, next_id, awaiting, apis, callbacks, subs, fiber>>
    BY <1>12 DEF rpcVars
  <2>2. fiber \in [Fiber -> Fibers] /\ awaiting \in [Peer -> SUBSET Nat]
    BY DEF RpcInv, RpcType
  <2> QED
    BY <2>1, <2>2, QuietStep
<1> QED
  BY <1>1, <1>2, <1>3, <1>4, <1>5, <1>6, <1>7, <1>8, <1>9, <1>10, <1>11, <1>12 DEF RpcNext

\* The inductive invariant holds: a request is at any time in one place, and
\* what is there fits the call that sent it (rpc::state, the handlers of
\* websocket_api_connection and the tables of api_connection).
THEOREM RpcInvariance == RpcSpec => []RpcInv
<1>1. RpcInit => RpcInv
  BY RpcInitInv
<1>2. RpcInv /\ [RpcNext]_rpcVars => RpcInv'
  BY RpcNextInv
<1> QED
  BY <1>1, <1>2, PTL DEF RpcSpec

\* A set without two elements has none or one.
LEMMA NoneOrOne ==
  ASSUME NEW S, \A x, y \in S : x = y
  PROVE  (S = {} => Cardinality(S) = 0) /\ (S # {} => Cardinality(S) = 1)
<1>1. ASSUME S # {} PROVE Cardinality(S) = 1
  <2>1. PICK x \in S : TRUE
    BY <1>1
  <2>2. S = {x}
    BY <2>1
  <2> QED
    BY <2>2, FS_Singleton
<1> QED
  BY <1>1, FS_EmptySet

\* An id of one of the places counts once.
LEMMA CountedOnce ==
  ASSUME RpcInv, NEW p \in Peer, NEW key \in Places(p), key # None
  PROVE  OnTheWay(p, key) = 1
<1> DEFINE d == Other(p)
           S1 == {i \in DOMAIN chan[d] : chan[d][i].id = key /\ chan[d][i].type \in {"call", "callback"}}
           S2 == {i \in DOMAIN chan[p] : chan[p][i].id = key /\ chan[p][i].type \in {"result", "error"}}
           S3 == {h \in Handler : p = "client" /\ fiber[h].answer = key}
<1>1. Unique(p) /\ OwnIds
  BY DEF RpcInv
<1>2. \A x, y \in S1 : x = y
  BY <1>1 DEF Unique, Once, Requests
<1>3. \A x, y \in S2 : x = y
  BY <1>1 DEF Unique, Once, Answers
<1>4. \A x, y \in S3 : x = y
  BY <1>1 DEF OwnIds
<1>5. S1 # {} <=> key \in Requested(p)
  BY DEF Requested, Ids, Msgs, Requests
<1>6. S2 # {} <=> key \in Replied(p)
  BY DEF Replied, Ids, Msgs, Answers
<1>7. S3 # {} <=> key \in Asking(p)
  BY DEF Asking
<1>8. OnTheWay(p, key) = Cardinality(S1) + Cardinality(S2) + Cardinality(S3)
  BY DEF OnTheWay
<1> HIDE DEF S1, S2, S3
<1>9. /\ (S1 = {} => Cardinality(S1) = 0) /\ (S1 # {} => Cardinality(S1) = 1)
      /\ (S2 = {} => Cardinality(S2) = 0) /\ (S2 # {} => Cardinality(S2) = 1)
      /\ (S3 = {} => Cardinality(S3) = 0) /\ (S3 # {} => Cardinality(S3) = 1)
  BY <1>2, <1>3, <1>4, NoneOrOne
<1>10. \/ key \in Requested(p) /\ key \notin Replied(p) /\ key \notin Asking(p)
       \/ key \notin Requested(p) /\ key \in Replied(p) /\ key \notin Asking(p)
       \/ key \notin Requested(p) /\ key \notin Replied(p) /\ key \in Asking(p)
  BY <1>1 DEF Unique, Places
<1> QED
  BY <1>5, <1>6, <1>7, <1>8, <1>9, <1>10

\* No call is lost, answered by another's reply or led to another's api, for
\* any number of fibers, handlers, apis and calls (rpc::state::handle_reply,
\* api_connection::register_api and receive_callback).
THEOREM CallsAreSound == RpcSpec => []CallsSound
<1>1. RpcInv => CallsSound
  <2> SUFFICES ASSUME RpcInv PROVE CallsSound
    OBVIOUS
  <2>1. RpcType /\ Kinds /\ OwnIds /\ Present /\ Content /\ Known
    BY DEF RpcInv
  <2>2. apis \in Seq(Api) /\ Len(apis) \in Nat /\ DOMAIN apis = 1..Len(apis) /\ callbacks \in Nat
    BY <2>1, LenProperties DEF RpcType
  <2>3. \A f \in Caller : fiber[f].method \in Method
    BY <2>1, PeerFacts DEF RpcType, Fibers
  <2>4. ReplyIsOwn
    <3> SUFFICES ASSUME NEW f \in Caller, fiber[f].pc = "done", fiber[f].outcome.type = "value"
                 PROVE  CASE fiber[f].method = "get" -> fiber[f].outcome.value = fiber[f].arg
                          [] fiber[f].method = "fail" -> FALSE
                          [] fiber[f].method = "open" -> fiber[f].outcome.value < Len(apis)
                          [] OTHER -> fiber[f].outcome.value = None
      BY DEF ReplyIsOwn
    <3>1. Matches(apis, fiber[f].method, fiber[f].arg, fiber[f].outcome.value)
      BY <2>1 DEF Content
    <3> QED
      BY <2>3, <3>1 DEF Matches, Method
  <2>5. ApiIsRequested
    <3> SUFFICES ASSUME NEW f \in Caller, fiber[f].pc = "done", fiber[f].method = "open",
                        fiber[f].outcome.type = "value", fiber[f].arg \notin Proxy
                 PROVE  /\ fiber[f].outcome.value + 1 \in DOMAIN apis
                        /\ apis[fiber[f].outcome.value + 1] = fiber[f].arg
      BY DEF ApiIsRequested
    <3> DEFINE v == fiber[f].outcome.value
    <3>1. v \in Nat /\ v < Len(apis) /\ apis[v + 1] = fiber[f].arg
      BY <2>1 DEF Content, Matches
    <3> HIDE DEF v
    <3>2. v + 1 \in DOMAIN apis
      BY <2>2, <3>1
    <3> QED
      BY <3>1, <3>2 DEF v
  <2>6. NoLostCall
    <3> SUFFICES ASSUME open, NEW f \in Fiber, fiber[f].pc \in {"sent", "waiting"},
                        fiber[f].id \in awaiting[At(f)]
                 PROVE  OnTheWay(At(f), fiber[f].id) = 1
      BY DEF NoLostCall
    <3>1. At(f) \in Peer /\ fiber[f].id \in Places(At(f)) /\ fiber[f].id # None
      BY <2>1, PeerFacts, RpcAssumption DEF Present, Kinds
    <3> QED
      BY <3>1, CountedOnce
  <2>7. CallbackKnown
    <3>1. \A i \in DOMAIN chan["client"] : chan["client"][i] \in Msgs(chan["client"])
      BY DEF Msgs
    <3>2. \A x \in 0..(callbacks - 1) : x < callbacks
      BY <2>2
    <3> QED
      BY <2>1, <3>1, <3>2 DEF CallbackKnown, Known
  <2> QED
    BY <2>4, <2>5, <2>6, <2>7 DEF CallsSound
<1> QED
  BY <1>1, RpcInvariance, PTL

-----------------------------------------------------------------------------
(* Udt sockets. *)

\* The states of a call.
UdtCall == [pc : {"idle", "lock", "wait", "retry", "connect", "read", "write"},
            op : {"none", "read", "write", "accept", "connect", "close"}, sock : Socket, target : Socket]

UdtType ==
  /\ id \in [Socket -> {"none", "blocking", "open", "closed"}] /\ id[Listener] \in {"open", "closed"}
  /\ epoll \in [Kind -> SUBSET Socket] /\ ready \in [Kind -> SUBSET Socket]
  /\ promises \in [Kind -> [Socket -> UdtFiber \cup {Nobody}]]
  /\ running \in [UdtFiber -> UdtCall]

\* A fiber that waits, or is about to, called read, write or accept.
CallShape(c) ==
  /\ c.pc = "idle" => c.op = "none"
  /\ c.pc \in {"lock", "wait", "retry"} => c.op \in {"read", "write", "accept"}
  /\ c.pc = "connect" => c.op = "connect"
  /\ c.pc \in {"read", "write"} => c.op = "close"

\* The sockets of a call: reads and writes are of sockets that are open or were,
\* an accept is for a socket that is not yet open, a connect for one that nobody uses.
CallSockets(c) ==
  /\ c.op \in {"read", "write"} => c.sock \in Sock /\ id[c.sock] \in {"open", "closed"}
  /\ c.op = "accept" => c.sock = Listener /\ c.target \in Sock /\ id[c.target] = "none"
  /\ c.op = "connect" => c.sock \in Sock /\ id[c.sock] \in {"blocking", "closed"}
  /\ c.op = "close" => id[c.sock] # "none"

\* A fiber that goes for the lock has its socket in the epoll set, unless it was closed.
Registered(c) == c.pc = "lock" /\ id[c.sock] # "closed" => c.sock \in epoll[KindOf(c.op)]

\* A socket has one reader, one writer, one connect, and the server one accept.
OneCaller == \A f, g \in UdtFiber :
  running[f].op = running[g].op /\ running[f].sock = running[g].sock /\ running[f].op \notin {"none", "close"} => f = g

UdtInv ==
  /\ UdtType
  /\ \A f \in UdtFiber : CallShape(running[f]) /\ CallSockets(running[f]) /\ Registered(running[f])
  /\ OneCaller /\ PromiseKept /\ WakeupPossible

\* A fiber is about to close the socket.
Closing(s) == \E h \in UdtFiber : running[h].op = "close" /\ running[h].sock = s

\* WakeupPossible, one fiber at a time.
Wakeup(g) ==
  running[g].pc = "wait" /\ id[running[g].sock] = "open" /\ ~Closing(running[g].sock) =>
    promises[KindOf(running[g].op)][running[g].sock] = g /\ running[g].sock \in epoll[KindOf(running[g].op)]
\* The promise, fiber by fiber.
LEMMA WakeupFor == WakeupPossible <=> \A g \in UdtFiber : Wakeup(g)
<1>1. \A s : Busy("close", s) = {} <=> ~Closing(s)
  BY DEF Busy, Closing
<1> QED
  BY <1>1 DEF WakeupPossible, Wakeup

\* At first nobody waits.
LEMMA UdtStarts == ASSUME UdtInit PROVE UdtInv
<1>1. UdtType
  BY UdtAssumption DEF UdtInit, UdtType, UdtCall, Resting, Socket, Kind
<1>2. \A f \in UdtFiber : running[f] = Resting
  BY DEF UdtInit
<1>3. \A f \in UdtFiber : CallShape(running[f]) /\ CallSockets(running[f]) /\ Registered(running[f])
  BY <1>2 DEF CallShape, CallSockets, Registered, Resting
<1>4. OneCaller /\ WakeupPossible
  BY <1>2 DEF OneCaller, WakeupPossible, Resting
<1>5. PromiseKept
  BY DEF UdtInit, PromiseKept
<1> QED
  BY <1>1, <1>3, <1>4, <1>5 DEF UdtInv

\* No other fiber than f uses the socket.
UsedBy(f, s) == \A g \in UdtFiber \ {f} :
  running[g].op \in {"read", "write", "accept", "connect"} => running[g].sock # s /\ (running[g].op = "accept" => running[g].target # s)

\* A fiber leaves its call, or takes the lock of its call, while sockets only
\* open that nobody uses.
LEMMA FiberMoves ==
  ASSUME UdtInv, NEW f \in UdtFiber, NEW c \in UdtCall, running[f].pc \in {"idle", "retry", "connect"},
         running' = [running EXCEPT ![f] = c], c.pc # "wait",
         epoll' \in [Kind -> SUBSET Socket], \A k \in Kind : epoll[k] \subseteq epoll'[k],
         id' \in [Socket -> {"none", "blocking", "open", "closed"}],
         \A s \in Socket : id'[s] = id[s] \/ (id[s] # "none" /\ id'[s] = "closed") \/ (UsedBy(f, s) /\ id'[s] # "none"),
         id'[Listener] \in {"open", "closed"},
         promises' = promises, ready' = ready,
         CallShape(c), CallSockets(c)', Registered(c)',
         c.op \notin {"none", "close"} => \A g \in UdtFiber \ {f} : ~(running[g].op = c.op /\ running[g].sock = c.sock)
  PROVE  UdtInv'
<1>1. UdtType'
  BY DEF UdtInv, UdtType
<1>2. \A g \in UdtFiber : running'[g] = IF g = f THEN c ELSE running[g]
  BY DEF UdtInv, UdtType
<1>3. ASSUME NEW g \in UdtFiber PROVE (CallShape(running[g]) /\ CallSockets(running[g]) /\ Registered(running[g]))'
  <2>1. CASE g = f
    BY <1>2, <2>1 DEF CallShape, CallSockets, Registered
  <2>2. CASE g # f
    <3>1. running'[g] = running[g] /\ running[g] \in UdtCall
      BY <1>2, <2>2 DEF UdtInv, UdtType
    <3>2. CallShape(running[g]) /\ CallSockets(running[g]) /\ Registered(running[g])
      BY DEF UdtInv
    <3>3. CallSockets(running[g])'
      BY <2>2, <3>1, <3>2 DEF CallSockets, UdtCall, UsedBy, Socket
    <3>4. Registered(running[g])'
      <4> SUFFICES ASSUME running[g].pc = "lock", id'[running[g].sock] # "closed" PROVE running[g].sock \in epoll'[KindOf(running[g].op)]
        BY <3>1 DEF Registered
      <4>1. running[g].op \in {"read", "write", "accept"} /\ running[g].sock \in Socket
        BY <3>1, <3>2 DEF CallShape, UdtCall
      <4>2. id'[running[g].sock] = id[running[g].sock]
        BY <2>2, <4>1 DEF UsedBy
      <4> QED
        BY <3>2, <4>1, <4>2 DEF Registered, KindOf, Kind
    <3> QED
      BY <3>1, <3>2, <3>3, <3>4 DEF CallShape
  <2> QED
    BY <2>1, <2>2
<1>4. OneCaller'
  BY <1>2 DEF OneCaller, UdtInv
<1>5. PromiseKept'
  <2> SUFFICES ASSUME NEW k \in Kind, NEW s \in Socket, promises[k][s] # Nobody
               PROVE  LET d == running'[promises[k][s]] IN d.pc = "wait" /\ KindOf(d.op) = k /\ d.sock = s
    BY DEF PromiseKept
  <2>1. promises[k][s] \in UdtFiber /\ running[promises[k][s]].pc = "wait"
    BY DEF UdtInv, UdtType, PromiseKept
  <2>2. promises[k][s] # f
    BY <2>1
  <2> QED
    BY <1>2, <2>1, <2>2 DEF UdtInv, PromiseKept
<1>6. WakeupPossible'
  <2>0. ASSUME NEW g \in UdtFiber, running'[g].pc = "wait", id'[running'[g].sock] = "open", ~Closing(running[g].sock)'
        PROVE  promises[KindOf(running'[g].op)][running'[g].sock] = g /\ running'[g].sock \in epoll'[KindOf(running'[g].op)]
    <3>1. g # f /\ running'[g] = running[g] /\ running[g] \in UdtCall
      BY <1>2, <2>0 DEF UdtInv, UdtType
    <3>2. running[g].op \in {"read", "write", "accept"} /\ running[g].sock \in Socket
      BY <2>0, <3>1 DEF UdtInv, CallShape, UdtCall
    <3>3. id'[running[g].sock] = id[running[g].sock]
      BY <2>0, <3>1, <3>2 DEF UsedBy
    <3>4. running[f].op # "close"
      BY DEF UdtInv, CallShape
    <3>5. ~Closing(running[g].sock)
      BY <1>2, <2>0, <3>1, <3>4 DEF Closing
    <3>6. promises[KindOf(running[g].op)][running[g].sock] = g /\ running[g].sock \in epoll[KindOf(running[g].op)]
      BY <2>0, <3>1, <3>3, <3>5, WakeupFor DEF UdtInv, Wakeup
    <3> QED
      BY <3>1, <3>2, <3>6 DEF KindOf, Kind
  <2> QED
    <3>1. (\A g \in UdtFiber : Wakeup(g))'
      BY <2>0 DEF Wakeup
    <3> QED
      BY <3>1, WakeupFor, PTL
<1> QED
  BY <1>1, <1>3, <1>4, <1>5, <1>6 DEF UdtInv

\* The locked part of notify: the promise comes into the map.
LEMMA KeepOK == ASSUME UdtInv, NEW f \in UdtFiber, Keep(f) PROVE UdtInv'
<1> DEFINE k == KindOf(running[f].op)
           s == running[f].sock
<1>1. running[f].pc = "lock" /\ running[f] \in UdtCall /\ running[f].op \in {"read", "write", "accept"} /\ k \in Kind /\ s \in Socket
  BY DEF Keep, UdtInv, UdtType, CallShape, UdtCall, KindOf, Kind
<1>2. /\ promises' = [promises EXCEPT ![k][s] = f]
      /\ running' = [running EXCEPT ![f].pc = "wait"] /\ id' = id /\ epoll' = epoll /\ ready' = ready
  BY DEF Keep
<1>3. \A g \in UdtFiber : running'[g] = IF g = f THEN [running[f] EXCEPT !.pc = "wait"] ELSE running[g]
  BY <1>2 DEF UdtInv, UdtType
<1>4. \A j \in Kind, q \in Socket : promises'[j][q] = IF j = k /\ q = s THEN f ELSE promises[j][q]
  BY <1>1, <1>2 DEF UdtInv, UdtType
<1>5. \A g \in UdtFiber : running'[g].op = running[g].op /\ running'[g].sock = running[g].sock /\ running'[g].target = running[g].target
  BY <1>1, <1>3 DEF UdtCall
<1>6. UdtType'
  BY <1>1, <1>2 DEF UdtInv, UdtType, UdtCall
<1>7. \A g \in UdtFiber : (CallShape(running[g]) /\ CallSockets(running[g]) /\ Registered(running[g]))'
  <2> SUFFICES ASSUME NEW g \in UdtFiber PROVE (CallShape(running[g]) /\ CallSockets(running[g]) /\ Registered(running[g]))'
    OBVIOUS
  <2>1. running'[g].pc = (IF g = f THEN "wait" ELSE running[g].pc)
    BY <1>1, <1>3 DEF UdtCall
  <2> QED
    BY <1>1, <1>2, <1>5, <2>1 DEF UdtInv, CallShape, CallSockets, Registered
<1>8. OneCaller'
  BY <1>5 DEF UdtInv, OneCaller
<1>9. running'[f].pc = "wait"
  BY <1>1, <1>3 DEF UdtCall
<1>10. ASSUME NEW j \in Kind, NEW q \in Socket, promises'[j][q] # Nobody
       PROVE  running'[promises'[j][q]].pc = "wait" /\ KindOf(running'[promises'[j][q]].op) = j /\ running'[promises'[j][q]].sock = q
  <2>1. CASE j = k /\ q = s
    BY <1>1, <1>4, <1>5, <1>9, <2>1
  <2>2. CASE ~(j = k /\ q = s)
    <3>1. promises'[j][q] = promises[j][q] /\ promises[j][q] \in UdtFiber /\ running[promises[j][q]].pc = "wait"
      BY <1>4, <1>10, <2>2 DEF UdtInv, UdtType, PromiseKept
    <3>2. running'[promises[j][q]] = running[promises[j][q]]
      BY <1>1, <1>3, <3>1
    <3> QED
      BY <1>10, <3>1, <3>2 DEF UdtInv, PromiseKept
  <2> QED
    BY <2>1, <2>2
<1>11. PromiseKept'
  BY <1>10 DEF PromiseKept
<1>12. ASSUME NEW g \in UdtFiber, running'[g].pc = "wait", id'[running'[g].sock] = "open", ~Closing(running[g].sock)'
       PROVE  promises'[KindOf(running'[g].op)][running'[g].sock] = g /\ running'[g].sock \in epoll'[KindOf(running'[g].op)]
  <2>1. CASE g = f
    BY <1>1, <1>2, <1>4, <1>5, <1>12, <2>1 DEF UdtInv, Registered
  <2>2. CASE g # f
    <3>1. running'[g] = running[g] /\ running[g] \in UdtCall /\ running[g].op \in {"read", "write", "accept"}
      BY <1>3, <1>12, <2>2 DEF UdtInv, UdtType, CallShape
    <3>2. ~Closing(running[g].sock)
      BY <1>5, <1>12, <3>1 DEF Closing
    <3>3. promises[KindOf(running[g].op)][running[g].sock] = g /\ running[g].sock \in epoll[KindOf(running[g].op)]
      BY <1>2, <1>12, <3>1, <3>2, WakeupFor DEF UdtInv, Wakeup
    <3>4. ~(KindOf(running[g].op) = k /\ running[g].sock = s)
      <4>1. running[g].sock = s => running[g].op # running[f].op
        BY <1>1, <2>2 DEF UdtInv, OneCaller
      <4>2. CallSockets(running[g]) /\ CallSockets(running[f])
        BY DEF UdtInv
      <4> QED
        BY <1>1, <3>1, <4>1, <4>2, UdtAssumption DEF CallSockets, KindOf
    <3> QED
      BY <1>2, <1>4, <3>1, <3>3, <3>4 DEF UdtCall, KindOf, Kind
  <2> QED
    BY <2>1, <2>2
<1>13. WakeupPossible'
  <2>1. (\A g \in UdtFiber : Wakeup(g))'
    BY <1>12 DEF Wakeup
  <2> QED
    BY <2>1, WakeupFor, PTL
<1> QED
  BY <1>6, <1>7, <1>8, <1>11, <1>13 DEF UdtInv

\* The promises for some sockets leave the map, and the fibers they were kept for
\* their wait: what is left belongs to fibers that wait.
LEMMA Forgets ==
  ASSUME UdtInv, NEW k \in Kind, NEW socks \in SUBSET Socket, Forget(k, socks),
         \A g \in UdtFiber : running[g].pc = "wait" /\ g \notin Waiting(k, socks) => running'[g] = running[g],
         \A g \in UdtFiber : running'[g].pc = "wait" => running'[g] = running[g] /\ g \notin Waiting(k, socks)
  PROVE  /\ promises' \in [Kind -> [Socket -> UdtFiber \cup {Nobody}]] /\ PromiseKept'
         /\ \A g \in UdtFiber, j \in Kind, s \in Socket : running'[g].pc = "wait" /\ promises[j][s] = g => promises'[j][s] = g
<1>1. promises' = [promises EXCEPT ![k] = [s \in Socket |-> IF s \in socks THEN Nobody ELSE promises[k][s]]]
  BY DEF Forget
<1>2. promises' \in [Kind -> [Socket -> UdtFiber \cup {Nobody}]]
  BY <1>1 DEF UdtInv, UdtType
<1>3. \A j \in Kind, s \in Socket : promises'[j][s] = IF j = k /\ s \in socks THEN Nobody ELSE promises[j][s]
  BY <1>1 DEF UdtInv, UdtType
<1>4. ASSUME NEW j \in Kind, NEW s \in Socket, promises'[j][s] # Nobody
      PROVE  running'[promises'[j][s]].pc = "wait" /\ KindOf(running'[promises'[j][s]].op) = j /\ running'[promises'[j][s]].sock = s
  <2>1. promises'[j][s] = promises[j][s] /\ promises[j][s] \in UdtFiber /\ ~(j = k /\ s \in socks)
    BY <1>3, <1>4 DEF UdtInv, UdtType
  <2>2. running[promises[j][s]].pc = "wait" /\ KindOf(running[promises[j][s]].op) = j /\ running[promises[j][s]].sock = s
    BY <1>4, <2>1 DEF UdtInv, PromiseKept
  <2>3. promises[j][s] \notin Waiting(k, socks)
    <3> SUFFICES ASSUME NEW q \in socks, promises[k][q] = promises[j][s] PROVE FALSE
      BY DEF Waiting
    <3>1. KindOf(running[promises[k][q]].op) = k /\ running[promises[k][q]].sock = q
      BY <1>4, <2>1 DEF UdtInv, PromiseKept
    <3> QED
      BY <2>1, <2>2, <3>1
  <2> QED
    BY <2>1, <2>2, <2>3
<1>5. PromiseKept'
  BY <1>4 DEF PromiseKept
<1>6. ASSUME NEW g \in UdtFiber, NEW j \in Kind, NEW s \in Socket, running'[g].pc = "wait", promises[j][s] = g PROVE promises'[j][s] = g
  <2>1. ~(j = k /\ s \in socks)
    BY <1>6 DEF Waiting
  <2> QED
    BY <1>3, <1>6, <2>1
<1> QED
  BY <1>2, <1>5, <1>6

\* The epoll thread sets the promises of the sockets it found ready.
LEMMA PollOK == ASSUME UdtInv, NEW k \in Kind, poll_loop(k) PROVE UdtInv'
<1>1. /\ running' = [f \in UdtFiber |-> IF f \in Waiting(k, ready[k]) THEN [running[f] EXCEPT !.pc = "retry"] ELSE running[f]]
      /\ Forget(k, ready[k]) /\ ready' = [ready EXCEPT ![k] = {}] /\ id' = id /\ epoll' = epoll
      /\ ready[k] \in SUBSET Socket
  BY DEF poll_loop, UdtInv, UdtType
<1>2. \A g \in Waiting(k, ready[k]) : running[g].pc = "wait"
  BY <1>1, UdtAssumption DEF UdtInv, PromiseKept, Waiting
<1>3. \A g \in UdtFiber : /\ running'[g].op = running[g].op /\ running'[g].sock = running[g].sock /\ running'[g].target = running[g].target
                         /\ running'[g].pc = (IF g \in Waiting(k, ready[k]) THEN "retry" ELSE running[g].pc)
  BY <1>1 DEF UdtInv, UdtType, UdtCall
<1>4. \A g \in UdtFiber : running'[g].pc = "wait" => running'[g] = running[g] /\ g \notin Waiting(k, ready[k])
  BY <1>1, <1>3
<1>5. /\ promises' \in [Kind -> [Socket -> UdtFiber \cup {Nobody}]] /\ PromiseKept'
      /\ \A g \in UdtFiber, j \in Kind, s \in Socket : running'[g].pc = "wait" /\ promises[j][s] = g => promises'[j][s] = g
  BY <1>1, <1>4, Forgets
<1>6. UdtType'
  <2>1. \A g \in UdtFiber : [running[g] EXCEPT !.pc = "retry"] \in UdtCall
    BY DEF UdtInv, UdtType, UdtCall
  <2>2. running' \in [UdtFiber -> UdtCall]
    BY <1>1, <2>1 DEF UdtInv, UdtType
  <2>3. ready' \in [Kind -> SUBSET Socket]
    BY <1>1 DEF UdtInv, UdtType
  <2> QED
    BY <1>1, <1>5, <2>2, <2>3 DEF UdtInv, UdtType
<1>7. \A g \in UdtFiber : (CallShape(running[g]) /\ CallSockets(running[g]) /\ Registered(running[g]))'
  BY <1>1, <1>2, <1>3 DEF UdtInv, CallShape, CallSockets, Registered
<1>8. OneCaller'
  BY <1>3 DEF UdtInv, OneCaller
<1>9. ASSUME NEW g \in UdtFiber, running'[g].pc = "wait", id'[running'[g].sock] = "open", ~Closing(running[g].sock)'
      PROVE  promises'[KindOf(running'[g].op)][running'[g].sock] = g /\ running'[g].sock \in epoll'[KindOf(running'[g].op)]
  <2>1. running'[g] = running[g] /\ running[g] \in UdtCall
    BY <1>4, <1>9 DEF UdtInv, UdtType
  <2>2. ~Closing(running[g].sock)
    BY <1>3, <1>9, <2>1 DEF Closing
  <2>3. promises[KindOf(running[g].op)][running[g].sock] = g /\ running[g].sock \in epoll[KindOf(running[g].op)]
    BY <1>1, <1>9, <2>1, <2>2, WakeupFor DEF UdtInv, Wakeup
  <2> QED
    BY <1>1, <1>5, <1>9, <2>1, <2>3 DEF UdtCall, KindOf, Kind
<1>10. WakeupPossible'
  <2>1. (\A g \in UdtFiber : Wakeup(g))'
    BY <1>9 DEF Wakeup
  <2> QED
    BY <2>1, WakeupFor, PTL
<1> QED
  BY <1>5, <1>6, <1>7, <1>8, <1>10 DEF UdtInv

\* close removes the promise of one kind for its socket; after both the socket is closed.
LEMMA RemoveOK == ASSUME UdtInv, NEW f \in UdtFiber, remove(f) PROVE UdtInv'
<1> DEFINE s == running[f].sock
           k == IF running[f].pc = "read" THEN "read" ELSE "write"
           c == IF running[f].pc = "read" THEN [running[f] EXCEPT !.pc = "write"] ELSE Resting
<1>1. /\ running[f].op = "close" /\ running[f].pc \in {"read", "write"} /\ running[f] \in UdtCall /\ s \in Socket /\ k \in Kind
      /\ Forget(k, {s}) /\ running' = Abort(k, s, f, c) /\ ready' = ready
  BY DEF remove, UdtInv, UdtType, UdtCall, Kind
<1>2. \/ running[f].pc = "read" /\ id' = id /\ epoll' = epoll
      \/ running[f].pc = "write" /\ epoll' = [j \in Kind |-> epoll[j] \ {s}] /\ id' = [id EXCEPT ![s] = "closed"]
  BY DEF remove
<1>3. c \in UdtCall /\ c.pc \in {"write", "idle"} /\ c.op = (IF c.pc = "idle" THEN "none" ELSE "close") /\ (c.pc = "write" => c.sock = s)
  BY <1>1 DEF UdtCall, Resting, Socket
<1> HIDE DEF c
<1>4. \A g \in Waiting(k, {s}) : running[g].pc = "wait" /\ running[g].sock = s
  BY <1>1, UdtAssumption DEF UdtInv, PromiseKept, Waiting
<1>5. \A g \in UdtFiber : running'[g] = IF g = f THEN c ELSE IF g \in Waiting(k, {s}) THEN Resting ELSE running[g]
  BY <1>1 DEF Abort
<1>6. Resting \in UdtCall /\ Resting.pc = "idle" /\ Resting.op = "none"
  BY DEF Resting, UdtCall, Socket
<1>7. \A g \in UdtFiber : running'[g].pc = "wait" => running'[g] = running[g] /\ g \notin Waiting(k, {s})
  BY <1>3, <1>5, <1>6
<1>8. \A g \in UdtFiber : running[g].pc = "wait" /\ g \notin Waiting(k, {s}) => running'[g] = running[g]
  BY <1>1, <1>5
<1>9. /\ promises' \in [Kind -> [Socket -> UdtFiber \cup {Nobody}]] /\ PromiseKept'
      /\ \A g \in UdtFiber, j \in Kind, q \in Socket : running'[g].pc = "wait" /\ promises[j][q] = g => promises'[j][q] = g
  BY <1>1, <1>7, <1>8, Forgets
<1>10. /\ id' \in [Socket -> {"none", "blocking", "open", "closed"}] /\ id'[Listener] \in {"open", "closed"}
       /\ epoll' \in [Kind -> SUBSET Socket]
       /\ \A q \in Socket : id'[q] = id[q] \/ (q = s /\ id'[q] = "closed")
       /\ \A q \in Socket, j \in Kind : id'[q] # "closed" /\ q \in epoll[j] => q \in epoll'[j]
  <2>1. CASE running[f].pc = "read"
    BY <1>1, <1>2, <2>1 DEF UdtInv, UdtType
  <2>2. CASE running[f].pc = "write"
    <3>1. epoll' = [j \in Kind |-> epoll[j] \ {s}] /\ id' = [id EXCEPT ![s] = "closed"]
      BY <1>2, <2>2
    <3>2. \A q \in Socket : id'[q] = IF q = s THEN "closed" ELSE id[q]
      BY <1>1, <3>1 DEF UdtInv, UdtType
    <3>3. id' \in [Socket -> {"none", "blocking", "open", "closed"}] /\ id'[Listener] \in {"open", "closed"}
      BY <1>1, <3>1, <3>2 DEF UdtInv, UdtType, Socket
    <3>4. epoll' \in [Kind -> SUBSET Socket]
      BY <3>1 DEF UdtInv, UdtType
    <3> QED
      BY <3>1, <3>2, <3>3, <3>4
  <2> QED
    BY <1>1, <2>1, <2>2
<1>11. UdtType'
  <2>1. running' \in [UdtFiber -> UdtCall]
    BY <1>1, <1>3, <1>6 DEF Abort, UdtInv, UdtType
  <2> QED
    BY <1>1, <1>9, <1>10, <2>1 DEF UdtInv, UdtType
<1>12. id[s] # "none"
  BY <1>1 DEF UdtInv, CallSockets
<1>13. ASSUME NEW g \in UdtFiber PROVE (CallShape(running[g]) /\ CallSockets(running[g]) /\ Registered(running[g]))'
  <2>1. CASE g = f \/ g \in Waiting(k, {s})
    <3>1. /\ running'[g].pc \in {"write", "idle"} /\ running'[g].op = (IF running'[g].pc = "idle" THEN "none" ELSE "close")
          /\ running'[g].op = "close" => running'[g].sock = s
      BY <1>3, <1>5, <1>6, <2>1
    <3>2. id'[s] # "none"
      BY <1>1, <1>10, <1>12
    <3> QED
      BY <3>1, <3>2 DEF CallShape, CallSockets, Registered
  <2>2. CASE g # f /\ g \notin Waiting(k, {s})
    <3>1. running'[g] = running[g] /\ running[g] \in UdtCall
      BY <1>5, <2>2 DEF UdtInv, UdtType
    <3>2. CallShape(running[g]) /\ CallSockets(running[g]) /\ Registered(running[g])
      BY DEF UdtInv
    <3>3. CallSockets(running[g])'
      BY <1>10, <1>12, <3>1, <3>2 DEF CallSockets, UdtCall, Socket
    <3>4. Registered(running[g])'
      <4>1. KindOf(running[g].op) \in Kind
        BY DEF KindOf, Kind
      <4> QED
        BY <1>10, <3>1, <3>2, <4>1 DEF Registered, UdtCall
    <3> QED
      BY <3>1, <3>2, <3>3, <3>4 DEF CallShape
  <2> QED
    BY <2>1, <2>2
<1>14. OneCaller'
  <2> SUFFICES ASSUME NEW g \in UdtFiber, NEW h \in UdtFiber, running'[g].op = running'[h].op, running'[g].sock = running'[h].sock,
                      running'[g].op \notin {"none", "close"}
               PROVE  g = h
    BY DEF OneCaller
  <2>1. running'[g] = running[g] /\ running'[h] = running[h]
    BY <1>3, <1>5, <1>6
  <2> QED
    BY <2>1 DEF UdtInv, OneCaller
<1>15. ASSUME NEW g \in UdtFiber, running'[g].pc = "wait", id'[running'[g].sock] = "open", ~Closing(running[g].sock)'
       PROVE  promises'[KindOf(running'[g].op)][running'[g].sock] = g /\ running'[g].sock \in epoll'[KindOf(running'[g].op)]
  <2>1. running'[g] = running[g] /\ running[g] \in UdtCall /\ running[g].sock \in Socket /\ KindOf(running[g].op) \in Kind
    BY <1>7, <1>15 DEF UdtInv, UdtType, UdtCall, KindOf, Kind
  <2>2. running[g].sock # s
    <3> SUFFICES ASSUME running[g].sock = s PROVE FALSE
      OBVIOUS
    <3>1. running[f].pc = "read"
      BY <1>1, <1>2, <1>15, <2>1 DEF UdtInv, UdtType
    <3>2. running'[f] = c /\ c = [running[f] EXCEPT !.pc = "write"]
      BY <1>5, <3>1 DEF c
    <3>3. running'[f].op = "close" /\ running'[f].sock = s
      BY <1>1, <3>2 DEF UdtCall
    <3> QED
      BY <1>15, <2>1, <3>3 DEF Closing
  <2>3. ~Closing(running[g].sock)
    <3> SUFFICES ASSUME NEW h \in UdtFiber, running[h].op = "close", running[h].sock = running[g].sock PROVE FALSE
      BY DEF Closing
    <3>1. h # f
      BY <2>2
    <3>2. h \notin Waiting(k, {s})
      BY <1>4, <2>2
    <3>3. running'[h] = running[h]
      BY <1>5, <3>1, <3>2
    <3> QED
      BY <1>15, <2>1, <3>3 DEF Closing
  <2>4. promises[KindOf(running[g].op)][running[g].sock] = g /\ running[g].sock \in epoll[KindOf(running[g].op)]
    BY <1>10, <1>15, <2>1, <2>2, <2>3, WakeupFor DEF UdtInv, Wakeup
  <2> QED
    BY <1>9, <1>10, <1>15, <2>1, <2>4
<1>16. WakeupPossible'
  <2>1. (\A g \in UdtFiber : Wakeup(g))'
    BY <1>15 DEF Wakeup
  <2> QED
    BY <2>1, WakeupFor, PTL
<1> QED
  BY <1>9, <1>11, <1>13, <1>14, <1>16 DEF UdtInv

\* notify: an error on a socket that is closed, else the socket is registered.
LEMMA NotifyOK ==
  ASSUME UdtInv, NEW f \in UdtFiber, running[f].pc \in {"idle", "retry"}, promises' = promises, ready' = ready,
         NEW op \in {"read", "write", "accept"}, NEW s \in Socket, NEW target \in Socket, notify(f, op, s, target),
         op \in {"read", "write"} => s \in Sock /\ id[s] \in {"open", "closed"},
         op = "accept" => s = Listener /\ target \in Sock /\ id[target] = "none",
         \A g \in UdtFiber \ {f} : ~(running[g].op = op /\ running[g].sock = s)
  PROVE  UdtInv'
<1>1. id' = id
  BY DEF notify
<1>2. CASE id[s] = "closed"
  <2>1. running' = [running EXCEPT ![f] = Resting] /\ epoll' = epoll
    BY <1>2 DEF notify, Return
  <2>2. Resting \in UdtCall /\ Resting.pc = "idle" /\ Resting.op = "none"
    BY DEF Resting, UdtCall, Socket
  <2>3. CallShape(Resting) /\ CallSockets(Resting)' /\ Registered(Resting)'
    BY <2>2 DEF CallShape, CallSockets, Registered, Resting
  <2> QED
    BY <1>1, <2>1, <2>2, <2>3, FiberMoves DEF UdtInv, UdtType
<1>3. CASE id[s] # "closed"
  <2> DEFINE c == [pc |-> "lock", op |-> op, sock |-> s, target |-> target]
  <2>1. running' = [running EXCEPT ![f] = c] /\ epoll' = [epoll EXCEPT ![KindOf(op)] = @ \cup {s}]
    BY <1>3 DEF notify
  <2>2. c \in UdtCall /\ c.pc = "lock" /\ c.op = op /\ c.sock = s /\ c.target = target /\ KindOf(op) \in Kind
    BY DEF UdtCall, KindOf, Kind
  <2>3. /\ epoll' \in [Kind -> SUBSET Socket] /\ \A k \in Kind : epoll[k] \subseteq epoll'[k]
        /\ s \in epoll'[KindOf(op)]
    BY <2>1, <2>2 DEF UdtInv, UdtType
  <2>4. CallShape(c) /\ CallSockets(c)' /\ Registered(c)'
    BY <1>1, <2>2, <2>3 DEF CallShape, CallSockets, Registered
  <2> HIDE DEF c
  <2> QED
    BY <1>1, <2>1, <2>2, <2>3, <2>4, FiberMoves DEF UdtInv, UdtType
<1> QED
  BY <1>2, <1>3

\* A call that succeeds ends; an accept opens its target.
LEMMA ReturnOK ==
  ASSUME UdtInv, NEW f \in UdtFiber, running[f].pc \in {"idle", "retry", "connect"}, Return(f),
         epoll' = epoll, promises' = promises, ready' = ready,
         \/ id' = id
         \/ \E s \in Sock, state \in {"open", "blocking"} : id' = [id EXCEPT ![s] = state] /\ UsedBy(f, s)
  PROVE  UdtInv'
<1>1. Resting \in UdtCall /\ Resting.pc = "idle" /\ Resting.op = "none"
  BY DEF Resting, UdtCall, Socket
<1>2. CallShape(Resting) /\ CallSockets(Resting)' /\ Registered(Resting)'
  BY <1>1 DEF CallShape, CallSockets, Registered, Resting
<1>3. /\ id' \in [Socket -> {"none", "blocking", "open", "closed"}] /\ id'[Listener] \in {"open", "closed"}
      /\ \A s \in Socket : id'[s] = id[s] \/ (UsedBy(f, s) /\ id'[s] # "none")
  BY UdtAssumption DEF UdtInv, UdtType, Socket
<1>4. running' = [running EXCEPT ![f] = Resting]
  BY DEF Return
<1>5. epoll' \in [Kind -> SUBSET Socket] /\ \A k \in Kind : epoll[k] \subseteq epoll'[k]
  BY DEF UdtInv, UdtType
<1> QED
  BY <1>1, <1>2, <1>3, <1>4, <1>5, FiberMoves

\* readsome, writesome and accept, first or again.
LEMMA TryOK ==
  ASSUME UdtInv, NEW f \in UdtFiber, running[f].pc \in {"idle", "retry"}, promises' = promises, ready' = ready,
         NEW op \in {"read", "write", "accept"}, NEW s \in Sock,
         \/ op = "read" /\ readsome(f, s) /\ id[s] \in {"open", "closed"}
         \/ op = "write" /\ writesome(f, s) /\ id[s] \in {"open", "closed"}
         \/ op = "accept" /\ accept(f, s) /\ id[s] = "none",
         \A g \in UdtFiber \ {f} : ~(running[g].op = op /\ running[g].sock = IF op = "accept" THEN Listener ELSE s)
  PROVE  UdtInv'
<1>0. s \in Socket /\ Listener \in Socket
  BY DEF Socket
<1>1. CASE op = "read"
  <2>1. CASE notify(f, "read", s, s)
    BY <1>0, <1>1, <2>1, NotifyOK
  <2>2. CASE ~notify(f, "read", s, s)
    BY <1>1, <2>2, ReturnOK DEF readsome
  <2> QED
    BY <2>1, <2>2
<1>2. CASE op = "write"
  <2>1. CASE notify(f, "write", s, s)
    BY <1>0, <1>2, <2>1, NotifyOK
  <2>2. CASE ~notify(f, "write", s, s)
    BY <1>2, <2>2, ReturnOK DEF writesome
  <2> QED
    BY <2>1, <2>2
<1>3. CASE op = "accept"
  <2>1. CASE notify(f, "accept", Listener, s)
    BY <1>0, <1>3, <2>1, NotifyOK
  <2>2. CASE ~notify(f, "accept", Listener, s)
    <3>1. id' = [id EXCEPT ![s] = "open"] /\ Return(f) /\ epoll' = epoll
      BY <1>3, <2>2 DEF accept
    <3>2. UsedBy(f, s)
      <4> SUFFICES ASSUME NEW g \in UdtFiber \ {f}, running[g].op \in {"read", "write", "accept", "connect"}
                   PROVE  running[g].sock # s /\ (running[g].op = "accept" => running[g].target # s)
        BY DEF UsedBy
      <4>1. CallSockets(running[g]) /\ id[s] = "none"
        BY <1>3 DEF UdtInv
      <4> QED
        BY <1>3, <4>1, UdtAssumption DEF CallSockets
    <3> QED
      BY <3>1, <3>2, ReturnOK
  <2> QED
    BY <2>1, <2>2
<1> QED
  BY <1>1, <1>2, <1>3

\* A call begins.
LEMMA BeginOK == ASSUME UdtInv, NEW f \in UdtFiber, Begin(f) PROVE UdtInv'
<1>1. running[f].pc = "idle" /\ promises' = promises /\ ready' = ready
  BY DEF Begin
<1>2. \A op, s : Busy(op, s) = {} => \A g \in UdtFiber : ~(running[g].op = op /\ running[g].sock = s)
  BY DEF Busy
<1>3. ASSUME NEW s \in Sock, id[s] = "open", Busy("read", s) = {}, readsome(f, s) PROVE UdtInv'
  BY <1>1, <1>2, <1>3, TryOK
<1>4. ASSUME NEW s \in Sock, id[s] = "open", Busy("write", s) = {}, writesome(f, s) PROVE UdtInv'
  BY <1>1, <1>2, <1>4, TryOK
<1>5. ASSUME NEW s \in Sock, id[s] = "none", Busy("accept", Listener) = {}, accept(f, s) PROVE UdtInv'
  BY <1>1, <1>2, <1>5, TryOK
<1> QED
  BY <1>3, <1>4, <1>5 DEF Begin

\* A call is tried again after its promise was set.
LEMMA RetryOK == ASSUME UdtInv, NEW f \in UdtFiber, Retry(f) PROVE UdtInv'
<1> DEFINE c == running[f]
<1>1. c.pc = "retry" /\ promises' = promises /\ ready' = ready /\ CallSockets(c) /\ c \in UdtCall
  BY DEF Retry, UdtInv, UdtType
<1>2. c.op # "none" /\ c.op # "close" => \A g \in UdtFiber \ {f} : ~(running[g].op = c.op /\ running[g].sock = c.sock)
  BY DEF UdtInv, OneCaller
<1>3. CASE c.op = "read" /\ readsome(f, c.sock)
  <2>1. c.sock \in Sock /\ id[c.sock] \in {"open", "closed"}
    BY <1>1, <1>3 DEF CallSockets
  <2> QED
    BY <1>1, <1>2, <1>3, <2>1, TryOK
<1>4. CASE c.op = "write" /\ writesome(f, c.sock)
  <2>1. c.sock \in Sock /\ id[c.sock] \in {"open", "closed"}
    BY <1>1, <1>4 DEF CallSockets
  <2> QED
    BY <1>1, <1>2, <1>4, <2>1, TryOK
<1>5. CASE c.op = "accept" /\ accept(f, c.target)
  <2>1. c.sock = Listener /\ c.target \in Sock /\ id[c.target] = "none"
    BY <1>1, <1>5 DEF CallSockets
  <2> QED
    BY <1>1, <1>2, <1>5, <2>1, TryOK
<1> QED
  BY <1>3, <1>4, <1>5 DEF Retry

\* A connect opens a socket nobody uses, in two steps.
LEMMA ConnectOK == ASSUME UdtInv, NEW f \in UdtFiber, NEW s \in Sock, connect_to(f, s) PROVE UdtInv'
<1>0. epoll' = epoll /\ promises' = promises /\ ready' = ready /\ s \in Socket /\ s # Listener
  BY UdtAssumption DEF connect_to, Socket
<1>1. CASE running[f].pc = "idle" /\ id[s] = "none" /\ Busy("accept", Listener) = {}
           /\ id' = [id EXCEPT ![s] = "blocking"]
           /\ running' = [running EXCEPT ![f] = [pc |-> "connect", op |-> "connect", sock |-> s, target |-> s]]
  <2> DEFINE c == [pc |-> "connect", op |-> "connect", sock |-> s, target |-> s]
  <2>1. c \in UdtCall /\ c.pc = "connect" /\ c.op = "connect" /\ c.sock = s /\ running' = [running EXCEPT ![f] = c]
    BY <1>0, <1>1 DEF UdtCall
  <2>2. /\ id' \in [Socket -> {"none", "blocking", "open", "closed"}] /\ id'[Listener] \in {"open", "closed"}
        /\ \A q \in Socket : id'[q] = IF q = s THEN "blocking" ELSE id[q]
    BY <1>0, <1>1 DEF UdtInv, UdtType, Socket
  <2>3. UsedBy(f, s) /\ \A g \in UdtFiber \ {f} : ~(running[g].op = "connect" /\ running[g].sock = s)
    <3> SUFFICES ASSUME NEW g \in UdtFiber \ {f}, running[g].op \in {"read", "write", "accept", "connect"}
                 PROVE  running[g].sock # s /\ (running[g].op = "accept" => running[g].target # s)
      BY DEF UsedBy
    <3>1. CallSockets(running[g]) /\ CallShape(running[g]) /\ running[g] \in UdtCall
      BY DEF UdtInv, UdtType
    <3>2. running[g].op # "accept"
      BY <1>1, <3>1 DEF Busy, CallSockets
    <3> QED
      BY <1>1, <3>1, <3>2 DEF CallSockets
  <2>4. CallShape(c) /\ CallSockets(c)' /\ Registered(c)'
    BY <1>0, <2>1, <2>2 DEF CallShape, CallSockets, Registered
  <2>5. epoll' \in [Kind -> SUBSET Socket] /\ \A k \in Kind : epoll[k] \subseteq epoll'[k]
    BY <1>0 DEF UdtInv, UdtType
  <2> HIDE DEF c
  <2>6. \A q \in Socket : id'[q] = id[q] \/ (UsedBy(f, q) /\ id'[q] # "none")
    BY <2>2, <2>3
  <2> QED
    <3>1. running[f].pc \in {"idle", "retry", "connect"} /\ c.pc # "wait"
      BY <1>1, <2>1
    <3>2. c.op \notin {"none", "close"} => \A g \in UdtFiber \ {f} : ~(running[g].op = c.op /\ running[g].sock = c.sock)
      BY <2>1, <2>3
    <3> QED
      BY <1>0, <2>1, <2>2, <2>4, <2>5, <2>6, <3>1, <3>2, FiberMoves
<1>2. CASE running[f].pc = "connect" /\ running[f].sock = s /\ Return(f)
           /\ id' \in {[id EXCEPT ![s] = IF id[s] = "closed" THEN "closed" ELSE r] : r \in {"open", "blocking"}}
  <2>1. CASE id[s] = "closed"
    <3>1. id' = id
      BY <1>0, <1>2, <2>1 DEF UdtInv, UdtType
    <3> QED
      BY <1>0, <1>2, <3>1, ReturnOK
  <2>2. CASE id[s] # "closed"
    <3>1. running[f].op = "connect" /\ id[s] = "blocking"
      BY <1>2, <2>2 DEF UdtInv, CallShape, CallSockets
    <3>2. UsedBy(f, s)
      <4> SUFFICES ASSUME NEW g \in UdtFiber \ {f}, running[g].op \in {"read", "write", "accept", "connect"}
                   PROVE  running[g].sock # s /\ (running[g].op = "accept" => running[g].target # s)
        BY DEF UsedBy
      <4>1. CallSockets(running[g])
        BY DEF UdtInv
      <4>2. ~(running[g].op = "connect" /\ running[g].sock = s)
        BY <1>2, <3>1 DEF UdtInv, OneCaller
      <4> QED
        BY <1>0, <3>1, <4>1, <4>2 DEF CallSockets
    <3>3. \E state \in {"open", "blocking"} : id' = [id EXCEPT ![s] = state]
      BY <1>2, <2>2
    <3> QED
      BY <1>0, <1>2, <3>2, <3>3, ReturnOK
  <2> QED
    BY <2>1, <2>2
<1> QED
  BY <1>1, <1>2 DEF connect_to

\* A fiber begins to close a socket; the server's is closed at once.
LEMMA BeginCloseOK ==
  ASSUME UdtInv, NEW f \in UdtFiber, NEW s \in Socket, BeginClose(f, s), id[s] # "none",
         id' = id \/ id' = [id EXCEPT ![s] = "closed"]
  PROVE  UdtInv'
<1> DEFINE c == [pc |-> "read", op |-> "close", sock |-> s, target |-> s]
<1>1. /\ running[f].pc = "idle" /\ running' = [running EXCEPT ![f] = c]
      /\ epoll' = epoll /\ promises' = promises /\ ready' = ready
  BY DEF BeginClose
<1>2. c \in UdtCall /\ c.pc = "read" /\ c.op = "close" /\ c.sock = s
  BY DEF UdtCall
<1>3. /\ id' \in [Socket -> {"none", "blocking", "open", "closed"}] /\ id'[Listener] \in {"open", "closed"}
      /\ \A q \in Socket : id'[q] = id[q] \/ (id[q] # "none" /\ id'[q] = "closed")
  BY DEF UdtInv, UdtType, Socket
<1>4. CallShape(c) /\ CallSockets(c)' /\ Registered(c)'
  BY <1>2, <1>3 DEF CallShape, CallSockets, Registered
<1>5. epoll' \in [Kind -> SUBSET Socket] /\ \A k \in Kind : epoll[k] \subseteq epoll'[k]
  BY <1>1 DEF UdtInv, UdtType
<1> HIDE DEF c
<1> QED
  BY <1>1, <1>2, <1>3, <1>4, <1>5, FiberMoves

\* What the peers and epoll_wait do leaves calls and promises alone.
LEMMA QuietOK ==
  ASSUME UdtInv, UNCHANGED <<id, epoll, promises, running>>, ready' \in [Kind -> SUBSET Socket]
  PROVE  UdtInv'
<1>1. UdtType' /\ OneCaller' /\ PromiseKept'
  BY DEF UdtInv, UdtType, OneCaller, PromiseKept
<1>2. \A g \in UdtFiber : (CallShape(running[g]) /\ CallSockets(running[g]) /\ Registered(running[g]))'
  BY DEF UdtInv, CallShape, CallSockets, Registered
<1>3. WakeupPossible'
  BY DEF UdtInv, WakeupPossible, Busy
<1> QED
  BY <1>1, <1>2, <1>3 DEF UdtInv

\* Every step keeps the invariant.
LEMMA UdtKeeps == ASSUME UdtInv, [UdtNext]_udtVars PROVE UdtInv'
<1>0. ready \in [Kind -> SUBSET Socket] /\ Listener \in Socket /\ Sock \subseteq Socket
  BY DEF UdtInv, UdtType, Socket
<1>1. ASSUME NEW f \in UdtFiber, Begin(f) \/ Retry(f) \/ Keep(f) \/ remove(f) PROVE UdtInv'
  BY <1>1, BeginOK, RetryOK, KeepOK, RemoveOK
<1>2. ASSUME NEW f \in UdtFiber, server_close(f) PROVE UdtInv'
  BY <1>0, <1>2, BeginCloseOK DEF server_close
<1>3. ASSUME NEW f \in UdtFiber, NEW s \in Sock, connect_to(f, s) PROVE UdtInv'
  BY <1>3, ConnectOK
<1>4. ASSUME NEW f \in UdtFiber, NEW s \in Sock, udt_close(f, s) PROVE UdtInv'
  BY <1>0, <1>4, BeginCloseOK DEF udt_close
<1>5. CASE epoll_wait
  <2>1. ready' \in [Kind -> SUBSET Socket]
    BY <1>5 DEF epoll_wait, Ready, UdtInv, UdtType
  <2> QED
    BY <1>5, <2>1, QuietOK DEF epoll_wait
<1>6. ASSUME NEW k \in Kind, poll_loop(k) PROVE UdtInv'
  BY <1>6, PollOK
<1>7. ASSUME NEW s \in Socket, Arrive(s) PROVE UdtInv'
  BY <1>0, <1>7, QuietOK DEF Arrive
<1>8. CASE UNCHANGED udtVars
  BY <1>0, <1>8, QuietOK DEF udtVars
<1> QED
  BY <1>1, <1>2, <1>3, <1>4, <1>5, <1>6, <1>7, <1>8 DEF UdtNext

\* The inductive invariant of the udt sockets.
THEOREM UdtInvariance == UdtSpec => []UdtInv
<1>1. UdtInit => UdtInv
  BY UdtStarts
<1>2. UdtInv /\ [UdtNext]_udtVars => UdtInv'
  BY UdtKeeps
<1> QED
  BY <1>1, <1>2, PTL DEF UdtSpec

\* No fiber that waits on a udt socket is forgotten: its promise is stored where
\* epoll finds it, or it was woken, whatever other fibers, the epoll thread and close
\* do in between: NoWakeupLost, for every set of fibers and sockets.
THEOREM WaitersAreKept == UdtSpec => []NoWakeupLost
<1>1. UdtInv => NoWakeupLost
  BY DEF UdtInv, NoWakeupLost
<1> QED
  BY <1>1, UdtInvariance, PTL

-----------------------------------------------------------------------------
(* The ntp client: arithmetic, stamps and packets. *)

\* The clocks stay below the second at which the count of an ntp time stamp comes
\* round (in 2106).
BeforeWrap == MaxNow < Second * Seconds /\ \A s \in Server : MaxNow + Skew[s] < Second * Seconds

\* A remainder is the only one.
LEMMA RemainderUnique ==
  ASSUME NEW c \in Nat \ {0}, NEW x \in Int, NEW k \in Int, NEW y \in 0..(c - 1), x = c * k + y
  PROVE  x % c = y
<1> DEFINE q == x \div c
           r == x % c
<1>1. q \in Int /\ r \in 0..(c - 1) /\ x = c * q + r
  OBVIOUS
<1> HIDE DEF q, r
<1>2. c * (q - k) = y - r
  BY <1>1
<1>3. q - k >= 1 => c * (q - k) >= c
  BY <1>1
<1>4. q - k <= -1 => c * (q - k) <= -c
  BY <1>1
<1>5. q = k
  BY <1>1, <1>2, <1>3, <1>4
<1>6. r = y
  BY <1>1, <1>5
<1> QED
  BY <1>6 DEF r

\* A quotient is the only one.
LEMMA QuotientBetween ==
  ASSUME NEW c \in Nat \ {0}, NEW x \in Int, NEW y \in Int, NEW z \in Int, c * y <= x, x < c * (z + 1)
  PROVE  x \div c \in y..z
<1> DEFINE q == x \div c
           r == x % c
<1>1. q \in Int /\ r \in 0..(c - 1) /\ x = c * q + r
  OBVIOUS
<1> HIDE DEF q, r
<1>2. q < y => c * (q + 1) <= c * y
  BY <1>1
<1>3. c * (q + 1) = c * q + c
  BY <1>1
<1>4. q >= y
  BY <1>1, <1>2, <1>3
<1>5. q > z => c * (z + 1) <= c * q
  BY <1>1
<1>6. q <= z
  BY <1>1, <1>5
<1> QED
  BY <1>1, <1>4, <1>6 DEF q

\* A time stamp comes back as the same tick or the one after it.
LEMMA StampBack ==
  ASSUME NEW t \in Nat, t < Second * Seconds
  PROVE  ntp_timestamp_to_fc_time_point(fc_time_point_to_ntp_timestamp(t)) \in {t, t + 1}
<1> DEFINE S == Second
           F == Fraction
           q == t \div S
           r == t % S
           h == F \div 2
           e == F % 2
           x == r * F + h
           f == x \div S
           g == x % S
           w == q + Era
           v == w % Seconds
<1>0. S \in Nat \ {0} /\ F \in Nat \ {0} /\ Seconds \in Nat \ {0} /\ Era \in Nat /\ F >= 2 * S
  BY NtpAssumption
<1>1. t = S * q + r /\ r \in 0..(S - 1) /\ q \in Int
  BY <1>0
<1>2. h \in Int /\ e \in {0, 1} /\ F = 2 * h + e
  BY <1>0
<1> HIDE DEF q, r, h, e
<1>3. x \in Int
  BY <1>0, <1>1, <1>2
<1> HIDE DEF x
<1>4. f \in Int /\ g \in 0..(S - 1) /\ x = S * f + g
  BY <1>0, <1>3
<1> HIDE DEF f, g
<1>5. f * S + h \in Int /\ F * r <= f * S + h /\ f * S + h < F * (r + 1 + 1)
  <2>1. f * S = x - g
    BY <1>0, <1>3, <1>4
  <2>2. x = r * F + h /\ r * F = F * r /\ F * r \in Int
    BY <1>0, <1>1 DEF x
  <2>3. F * (r + 1 + 1) = F * r + F + F
    BY <1>0, <1>1
  <2> QED
    BY <1>0, <1>2, <1>4, <2>1, <2>2, <2>3
<1>6. (f * S + h) \div F \in r..(r + 1)
  BY <1>0, <1>1, <1>5, QuotientBetween
<1>7. q \in 0..(Seconds - 1)
  <2>1. q < 0 => S * q <= -S
    BY <1>0, <1>1
  <2>2. q >= Seconds => S * q >= S * Seconds
    BY <1>0, <1>1
  <2>3. S * q \in Int /\ S * Seconds \in Int
    BY <1>0, <1>1
  <2> QED
    BY <1>0, <1>1, <2>1, <2>2, <2>3
<1>8. w \in Int /\ v \in 0..(Seconds - 1) /\ w \div Seconds \in Int /\ w = Seconds * (w \div Seconds) + v
  BY <1>0, <1>7
<1>9. (v - Era) % Seconds = q
  <2> DEFINE k == -(w \div Seconds)
  <2>1. k \in Int /\ v - Era = Seconds * k + q /\ v - Era \in Int
    <3>1. Seconds * (-(w \div Seconds)) = -(Seconds * (w \div Seconds))
      BY <1>0, <1>8
    <3> QED
      BY <1>0, <1>7, <1>8, <3>1
  <2> HIDE DEF k, v
  <2> QED
    BY <1>0, <1>7, <2>1, RemainderUnique
<1> HIDE DEF v
<1>10. fc_time_point_to_ntp_timestamp(t) = [seconds |-> v, fraction |-> f]
  BY DEF fc_time_point_to_ntp_timestamp, v, w, f, x, q, r, h
<1>11. ntp_timestamp_to_fc_time_point(fc_time_point_to_ntp_timestamp(t)) = q * S + (f * S + h) \div F
  BY <1>9, <1>10 DEF ntp_timestamp_to_fc_time_point, h
<1>12. q * S = S * q /\ S * q \in Int
  BY <1>0, <1>1
<1> DEFINE d == (f * S + h) \div F
           u == q * S
<1>13. d \in r..(r + 1) /\ u \in Int /\ t = u + r
  BY <1>1, <1>6, <1>12
<1>14. ntp_timestamp_to_fc_time_point(fc_time_point_to_ntp_timestamp(t)) = u + d
  BY <1>11
<1> HIDE DEF d, u
<1> QED
  BY <1>1, <1>13, <1>14

\* Seconds and fraction.
Stamps == [seconds : Int, fraction : Int]
\* A time has a time stamp.
LEMMA StampIsStamp == ASSUME NEW t \in Nat PROVE fc_time_point_to_ntp_timestamp(t) \in Stamps
<1> DEFINE a == t \div Second + Era
           b == (t % Second) * Fraction + Fraction \div 2
<1>1. Second \in Nat \ {0} /\ Fraction \in Nat \ {0} /\ Seconds \in Nat \ {0} /\ Era \in Nat
  BY NtpAssumption
<1>2. t \div Second \in Int /\ t % Second \in Int /\ Fraction \div 2 \in Int
  BY <1>1
<1>3. a \in Int /\ b \in Int
  BY <1>1, <1>2
<1> HIDE DEF a, b
<1>4. a % Seconds \in Int /\ b \div Second \in Int
  BY <1>1, <1>3
<1> QED
  BY <1>4 DEF fc_time_point_to_ntp_timestamp, Stamps, a, b

\* The datagrams: a request was sent at some time, received and answered later.
Datagrams == [type : {"request", "held", "reply"}, server : Server, origin : Stamps, received : Stamps, sent : Stamps]
Genuine(m, t0, t1, t2) ==
  /\ m.origin = fc_time_point_to_ntp_timestamp(t0)
  /\ m.type # "request" => t0 <= t1 /\ m.received = fc_time_point_to_ntp_timestamp(t1 + Skew[m.server])
  /\ m.type = "reply" => t1 <= t2 /\ m.sent = fc_time_point_to_ntp_timestamp(t2 + Skew[m.server])

\* An offset the read loop is about to announce is as good as one it has announced.
NtpInv ==
  /\ now \in Start..MaxNow /\ hosts \in SUBSET Server
  /\ net \in SUBSET Datagrams
  /\ \A m \in net : m.server \in hosts /\ \E t0, t1, t2 \in Start..now : Genuine(m, t0, t1, t2)
  /\ delta \in Int
  /\ initialized \/ loop = "storing" => Accurate(delta)
  /\ getter = "flag" => initialized

\* The constants, and the clocks of the servers.
LEMMA ClocksRun ==
  /\ Start \in Nat /\ MaxNow \in Nat /\ MaxDelay \in Nat /\ Start <= MaxNow /\ Second \in Nat \ {0} /\ Seconds \in Nat \ {0}
  /\ Start..MaxNow \subseteq Nat
  /\ \A s \in Server, t \in Start..MaxNow : Skew[s] \in Int /\ t + Skew[s] \in Nat
<1>1. Start \in Nat /\ MaxNow \in Nat /\ MaxDelay \in Nat /\ Start <= MaxNow /\ Second \in Nat \ {0} /\ Seconds \in Nat \ {0}
  BY NtpAssumption
<1>2. \A s \in Server : Skew[s] \in Int /\ Start + Skew[s] >= 0
  BY NtpAssumption
<1> QED
  BY <1>1, <1>2

\* The offset of a genuine reply is that of its server, give or take half the
\* round trip and the rounding.
LEMMA ReplyIsAccurate ==
  ASSUME NtpInv, BeforeWrap, NEW m \in net, m.type = "reply", RoundTrip(m) <= MaxDelay
  PROVE  Half(Offset(m)) \in Int /\ Accurate(Half(Offset(m)))
<1>1. PICK t0 \in Start..now, t1 \in Start..now, t2 \in Start..now : Genuine(m, t0, t1, t2)
  BY DEF NtpInv
<1>2. now \in Nat /\ now <= MaxNow /\ t0 \in Start..MaxNow /\ t1 \in Start..MaxNow /\ t2 \in Start..MaxNow
  BY ClocksRun DEF NtpInv
<1>3. m.server \in hosts /\ m.server \in Server
  BY DEF NtpInv
<1> DEFINE K == Skew[m.server]
           o == ntp_timestamp_to_fc_time_point(m.origin)
           i == ntp_timestamp_to_fc_time_point(m.received)
           s == ntp_timestamp_to_fc_time_point(m.sent)
<1>4. K \in Int /\ t0 \in Nat /\ t1 + K \in Nat /\ t2 + K \in Nat
  BY <1>2, <1>3, ClocksRun
<1>5. /\ m.origin = fc_time_point_to_ntp_timestamp(t0) /\ m.received = fc_time_point_to_ntp_timestamp(t1 + K)
      /\ m.sent = fc_time_point_to_ntp_timestamp(t2 + K) /\ t0 <= t1 /\ t1 <= t2 /\ t2 <= now
  BY <1>1, <1>2, ClocksRun DEF Genuine
<1>6. t0 < Second * Seconds /\ t1 + K < Second * Seconds /\ t2 + K < Second * Seconds
  <2>1. MaxNow < Second * Seconds /\ MaxNow + K < Second * Seconds /\ Second * Seconds \in Nat
    BY <1>3, ClocksRun DEF BeforeWrap
  <2> HIDE DEF K
  <2> QED
    BY <1>2, <1>4, <2>1, ClocksRun
<1>7. o \in {t0, t0 + 1} /\ i \in {t1 + K, t1 + K + 1} /\ s \in {t2 + K, t2 + K + 1}
  BY <1>4, <1>5, <1>6, StampBack
<1>8. Offset(m) = (i - o) + (s - now) /\ RoundTrip(m) = (now - o) - (s - i)
  BY DEF Offset, RoundTrip
<1> HIDE DEF K, o, i, s
<1> DEFINE n == Offset(m)
<1>9. n \in Int /\ n - 2 * K <= MaxDelay + 2 /\ 2 * K - n <= MaxDelay + 2
  <2>1. t0 \in Int /\ t1 \in Int /\ t2 \in Int /\ now \in Int /\ MaxDelay \in Int
    BY <1>2, ClocksRun
  <2> QED
    BY <1>4, <1>5, <1>7, <1>8, <2>1
<1> HIDE DEF n
<1>10. Half(n) \in Int /\ 2 * Half(n) - n <= 1 /\ n - 2 * Half(n) <= 1
  BY <1>9 DEF Half
<1>11. 2 * (Half(n) - K) <= MaxDelay + 3 /\ 2 * (K - Half(n)) <= MaxDelay + 3
  BY <1>4, <1>9, <1>10, ClocksRun
<1> QED
  BY <1>3, <1>10, <1>11 DEF Accurate, Rounding, K, n

\* A new request is genuine.
LEMMA RequestIsGenuine ==
  ASSUME NtpInv, NEW s \in hosts
  PROVE  Request(s) \in Datagrams /\ Request(s).server = s /\ Genuine(Request(s), now, now, now) /\ now \in Start..now
<1>1. now \in Nat /\ now \in Start..now /\ s \in Server
  BY ClocksRun DEF NtpInv
<1>2. fc_time_point_to_ntp_timestamp(now) \in Stamps /\ Zero \in Stamps
  BY <1>1, StampIsStamp DEF Zero, Stamps
<1> QED
  BY <1>1, <1>2 DEF Request, Datagram, Datagrams, Genuine

\* What is under way stays genuine as time goes and hosts are added.
LEMMA NetKept ==
  ASSUME NtpInv, NEW N \in SUBSET net, NEW found \in SUBSET hosts, net' \subseteq N \cup {Request(s) : s \in found},
         hosts' \in SUBSET Server, hosts \subseteq hosts', now' \in Start..MaxNow, now <= now'
  PROVE  /\ net' \in SUBSET Datagrams
         /\ \A m \in net' : m.server \in hosts' /\ \E t0, t1, t2 \in Start..now' : Genuine(m, t0, t1, t2)
<1>1. now \in Int /\ now' \in Int /\ Start \in Int
  BY ClocksRun DEF NtpInv
<1>2. Start..now \subseteq Start..now'
  BY <1>1
<1> SUFFICES ASSUME NEW m \in net'
             PROVE  m \in Datagrams /\ m.server \in hosts' /\ \E t0, t1, t2 \in Start..now' : Genuine(m, t0, t1, t2)
  OBVIOUS
<1>3. CASE m \in net
  <2>1. PICK t0 \in Start..now, t1 \in Start..now, t2 \in Start..now : Genuine(m, t0, t1, t2)
    BY <1>3 DEF NtpInv
  <2>2. t0 \in Start..now' /\ t1 \in Start..now' /\ t2 \in Start..now'
    BY <1>2
  <2>3. m \in Datagrams /\ m.server \in hosts'
    BY <1>3 DEF NtpInv
  <2> HIDE DEF Genuine
  <2> QED
    BY <2>1, <2>2, <2>3
<1>4. CASE \E s \in found : m = Request(s)
  <2>1. PICK s \in found : m = Request(s)
    BY <1>4
  <2>2. m \in Datagrams /\ m.server = s /\ Genuine(m, now, now, now) /\ now \in Start..now
    BY <2>1, RequestIsGenuine
  <2> QED
    BY <1>2, <2>2
<1> QED
  BY <1>3, <1>4

\* The offset and what is said of it stay.
LEMMA ClaimKept ==
  ASSUME NtpInv, delta' = delta, hosts \subseteq hosts', initialized' = initialized, loop' = "storing" => loop = "storing",
         getter' = "flag" => initialized
  PROVE  /\ delta' \in Int /\ (initialized' \/ loop' = "storing" => Accurate(delta)')
         /\ getter' = "flag" => initialized'
  BY DEF NtpInv, Accurate

\* Steps that send requests at most, and steps that lose datagrams.
LEMMA SendOK ==
  ASSUME NtpInv, NEW N \in SUBSET net, NEW found \in SUBSET hosts, net' \subseteq N \cup {Request(s) : s \in found},
         hosts' \in SUBSET Server, hosts \subseteq hosts', now' \in Start..MaxNow, now <= now',
         delta' = delta, initialized' = initialized, loop' = "storing" => loop = "storing", getter' = "flag" => initialized
  PROVE  NtpInv'
<1>1. /\ net' \in SUBSET Datagrams
      /\ \A m \in net' : m.server \in hosts' /\ \E t0, t1, t2 \in Start..now' : Genuine(m, t0, t1, t2)
  BY NetKept
<1>2. /\ delta' \in Int /\ (initialized' \/ loop' = "storing" => Accurate(delta)')
      /\ getter' = "flag" => initialized'
  BY ClaimKept
<1> QED
  BY <1>1, <1>2 DEF NtpInv

\* A client that has asked nobody yet.
LEMMA NtpStarts == ASSUME NtpInit PROVE NtpInv
<1>1. (CHOOSE s \in Server : TRUE) \in Server
  BY NtpAssumption
<1> QED
  BY <1>1, ClocksRun DEF NtpInit, NtpInv

\* A request is received, and answered, at the time its server's clock says.
LEMMA ServerOK ==
  ASSUME NtpInv, NEW m \in net, ServerReceives(m) \/ ServerSends(m)
  PROVE  NtpInv'
<1> DEFINE stamp == fc_time_point_to_ntp_timestamp(now + Skew[m.server])
<1>1. /\ m \in Datagrams /\ m.server \in hosts /\ m.server \in Server /\ now \in Start..MaxNow /\ now \in Start..now
      /\ \A t \in Start..now : t \in Int /\ t <= now
  BY ClocksRun DEF NtpInv
<1>2. stamp \in Stamps
  BY <1>1, ClocksRun, StampIsStamp
<1>3. PICK t0 \in Start..now, t1 \in Start..now, t2 \in Start..now : Genuine(m, t0, t1, t2)
  BY DEF NtpInv
<1>4. \E n \in Datagrams : /\ net' = (net \ {m}) \cup {n} /\ n.server = m.server
                           /\ \E u0, u1, u2 \in Start..now : Genuine(n, u0, u1, u2)
  <2>1. CASE ServerReceives(m)
    <3> DEFINE n == [m EXCEPT !.type = "held", !.received = stamp]
    <3>1. n \in Datagrams /\ n.type = "held" /\ n.server = m.server /\ n.origin = m.origin /\ n.received = stamp
      BY <1>1, <1>2 DEF Datagrams
    <3>2. Genuine(n, t0, now, now)
      BY <1>1, <1>3, <3>1 DEF Genuine
    <3>3. net' = (net \ {m}) \cup {n}
      BY <2>1 DEF ServerReceives
    <3> HIDE DEF n
    <3> QED
      BY <1>1, <3>1, <3>2, <3>3
  <2>2. CASE ServerSends(m)
    <3> DEFINE n == [m EXCEPT !.type = "reply", !.sent = stamp]
    <3>1. /\ n \in Datagrams /\ n.type = "reply" /\ n.server = m.server /\ n.origin = m.origin
          /\ n.received = m.received /\ n.sent = stamp /\ m.type = "held"
      BY <1>1, <1>2, <2>2 DEF Datagrams, ServerSends
    <3>2. Genuine(n, t0, t1, now)
      BY <1>1, <1>3, <3>1 DEF Genuine
    <3>3. net' = (net \ {m}) \cup {n}
      BY <2>2 DEF ServerSends
    <3> HIDE DEF n
    <3> QED
      BY <1>1, <3>1, <3>2, <3>3
  <2> QED
    BY <2>1, <2>2
<1>5. UNCHANGED <<now, hosts, loop, delta, initialized, getter>>
  BY DEF ServerReceives, ServerSends
<1>6. /\ delta' \in Int /\ (initialized' \/ loop' = "storing" => Accurate(delta)')
      /\ getter' = "flag" => initialized'
  BY <1>5, ClaimKept DEF NtpInv
<1>7. net' \in SUBSET Datagrams /\ \A n \in net' : n.server \in hosts' /\ \E u0, u1, u2 \in Start..now' : Genuine(n, u0, u1, u2)
  BY <1>1, <1>4, <1>5 DEF NtpInv
<1> QED
  BY <1>5, <1>6, <1>7 DEF NtpInv

\* The read loop asks again, or takes the offset, or refuses it.
LEMMA ReadLoopOK ==
  ASSUME NtpInv, BeforeWrap, NEW m \in net, read_loop(m)
  PROVE  NtpInv'
<1>0. /\ UNCHANGED <<now, hosts, getter>> /\ m.type = "reply"
      /\ hosts' \in SUBSET Server /\ hosts \subseteq hosts' /\ now' \in Start..MaxNow /\ now <= now'
  BY ClocksRun DEF read_loop, NtpInv
<1>1. PICK rest \in {net, net \ {m}} :
       \/ /\ \E found \in SUBSET hosts : net' = rest \cup {Request(s) : s \in found}
          /\ UNCHANGED <<loop, delta, initialized>>
       \/ /\ RoundTrip(m) <= MaxDelay /\ net' = rest
          /\ \/ Store(Half(Offset(m)))
             \/ UNCHANGED <<loop, delta, initialized>>
  BY DEF read_loop
<1>2. rest \in SUBSET net /\ {} \in SUBSET hosts
  OBVIOUS
<1>3. CASE UNCHANGED <<loop, delta, initialized>>
  <2>1. \E found \in SUBSET hosts : net' \subseteq rest \cup {Request(s) : s \in found}
    BY <1>1, <1>2
  <2>2. getter' = "flag" => initialized
    BY <1>0 DEF NtpInv
  <2> QED
    BY <1>0, <1>2, <1>3, <2>1, <2>2, SendOK
<1>4. CASE RoundTrip(m) <= MaxDelay /\ net' = rest /\ Store(Half(Offset(m)))
  <2>1. Half(Offset(m)) \in Int /\ Accurate(Half(Offset(m))) /\ delta' = Half(Offset(m)) /\ initialized' = initialized
    BY <1>0, <1>4, ReplyIsAccurate DEF Store
  <2>2. Accurate(delta)'
    BY <1>0, <2>1 DEF Accurate
  <2>3. net' \subseteq rest \cup {Request(s) : s \in {}}
    BY <1>4
  <2>4. /\ net' \in SUBSET Datagrams
        /\ \A n \in net' : n.server \in hosts' /\ \E t0, t1, t2 \in Start..now' : Genuine(n, t0, t1, t2)
    BY <1>0, <1>2, <2>3, NetKept
  <2> QED
    BY <1>0, <2>1, <2>2, <2>4 DEF NtpInv
<1> QED
  BY <1>1, <1>3, <1>4

\* Every step keeps the invariant.
LEMMA NtpKeeps == ASSUME NtpInv, BeforeWrap, [NtpNext]_ntpVars PROVE NtpInv'
<1>0. /\ now \in Start..MaxNow /\ now <= now /\ hosts \in SUBSET Server /\ hosts \subseteq hosts /\ net \in SUBSET net
      /\ {} \in SUBSET hosts /\ (getter = "flag" => initialized) /\ \A N : N \subseteq N \cup {Request(s) : s \in {}}
  BY ClocksRun DEF NtpInv
<1>1. CASE request_time_task \/ ScheduledRequest \/ RequestNow
  <2>1. PICK found \in SUBSET hosts : net' = (IF socket_open THEN net \cup {Request(s) : s \in found} ELSE net)
    BY <1>1 DEF request_time_task, ScheduledRequest, RequestNow, request_now
  <2>2. UNCHANGED <<now, hosts, loop, delta, initialized, getter>>
    BY <1>1 DEF request_time_task, ScheduledRequest, RequestNow
  <2>3. net' \subseteq net \cup {Request(s) : s \in found}
    BY <2>1
  <2> QED
    BY <1>0, <2>2, <2>3, SendOK
<1>2. CASE start_read_loop \/ set_request_interval \/ ReadFails \/ get_time \/ Destroy \/ Tick \/ (\E s \in Server : add_server(s)) \/ UNCHANGED ntpVars
  <2>1. net' \subseteq net
    BY <1>2 DEF start_read_loop, set_request_interval, ReadFails, get_time, Destroy, Tick, add_server, ntpVars, CloseSocket
  <2>2. delta' = delta /\ initialized' = initialized /\ (loop' = "storing" => loop = "storing")
    BY <1>2 DEF start_read_loop, set_request_interval, ReadFails, get_time, Destroy, Tick, add_server, ntpVars
  <2>3. getter' = "flag" => initialized
    BY <1>0, <1>2 DEF start_read_loop, set_request_interval, ReadFails, get_time, Destroy, Tick, add_server, ntpVars
  <2>4. hosts' \in SUBSET Server /\ hosts \subseteq hosts'
    BY <1>0, <1>2 DEF start_read_loop, set_request_interval, ReadFails, get_time, Destroy, Tick, add_server, ntpVars
  <2>5. now' = now \/ (now < MaxNow /\ now' = now + 1)
    BY <1>2 DEF start_read_loop, set_request_interval, ReadFails, get_time, Destroy, Tick, add_server, ntpVars
  <2>6. now' \in Start..MaxNow /\ now <= now'
    BY <1>0, <2>5, ClocksRun
  <2>7. net' \subseteq net \cup {Request(s) : s \in {}}
    BY <2>1
  <2> QED
    BY <1>0, <2>2, <2>3, <2>4, <2>6, <2>7, SendOK
<1>3. CASE StoreFlag
  <2>1. UNCHANGED <<now, net, hosts, delta, getter>> /\ loop = "storing" /\ initialized' = TRUE
    BY <1>3 DEF StoreFlag
  <2>2. Accurate(delta)'
    BY <2>1 DEF NtpInv, Accurate
  <2> QED
    BY <2>1, <2>2 DEF NtpInv
<1>4. ASSUME NEW m \in net, read_loop(m) \/ ServerReceives(m) \/ ServerSends(m) PROVE NtpInv'
  BY <1>4, ReadLoopOK, ServerOK
<1>5. ASSUME NEW m \in net, Lose(m) PROVE NtpInv'
  <2>1. net' \subseteq net \cup {Request(s) : s \in {}} /\ UNCHANGED <<now, hosts, loop, delta, initialized, getter>>
    BY <1>5 DEF Lose
  <2> QED
    BY <1>0, <2>1, SendOK
<1> QED
  BY <1>1, <1>2, <1>3, <1>4, <1>5 DEF NtpNext

\* The inductive invariant of the ntp client, until the time stamps come round.
THEOREM NtpInvariance == ASSUME BeforeWrap PROVE NtpSpec => []NtpInv
<1>1. NtpInit => NtpInv
  BY NtpStarts
<1>2. NtpInv /\ [NtpNext]_ntpVars => NtpInv'
  BY NtpKeeps
<1> QED
  BY <1>1, <1>2, PTL DEF NtpSpec

\* The offset that ntp_client has taken from a reply is that of a server to within half the
\* round trip it accepts and the rounding, get_time() corrects by no other one, and a time survives its time stamp:
\* ClockSound, for all servers, skews, delays and numbers of requests.
THEOREM ClockIsSound == ASSUME BeforeWrap PROVE NtpSpec => []ClockSound
<1>1. ASSUME NtpInv PROVE ClockSound
  <2>1. now \in Nat /\ now < Second * Seconds
    <3>1. MaxNow < Second * Seconds /\ Second * Seconds \in Nat /\ now \in Nat /\ now <= MaxNow
      BY <1>1, ClocksRun DEF BeforeWrap, NtpInv
    <3> QED
      BY <3>1, ClocksRun
  <2>2. StampExact
    BY <2>1, StampBack DEF StampExact
  <2> QED
    BY <1>1, <2>2 DEF ClockSound, DeltaAccurate, TimeIsCorrected, NtpInv
<1>2. NtpInv => ClockSound
  BY <1>1
<1>3. NtpSpec => []NtpInv
  BY NtpInvariance
<1> QED
  BY <1>2, <1>3, PTL
=============================================================================
