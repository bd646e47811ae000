-------------------------------- MODULE Rpc --------------------------------
(***************************************************************************)
(* Remote calls: api_connection with its local, websocket, http and        *)
(* command line transports, and rpc::state, which pairs requests with      *)
(* responses.  The client's fibers call the server; a method is one of     *)
(* "get" (returns its argument), "fail" (throws), "open" (returns an api), *)
(* "sub" (keeps a void callback) and "ask" (calls a callback that returns  *)
(* a value).  The websocket delivers in order until it closes, each        *)
(* message to a handler that may itself wait; sending may let other        *)
(* fibers run.                                                             *)
(***************************************************************************)
EXTENDS Integers, Sequences, FiniteSets

CONSTANTS Caller, Handler,   \* fibers of the client, and of the server's handlers
          Api, Proxy,        \* apis methods return; those without data of their own
          Arg, MaxId, MaxNotices, None

ASSUME RpcAssumption ==
  /\ Proxy \subseteq Api /\ Api \ Proxy # {}                 \* the first api is one of the server's own
  /\ Caller \cap Handler = {} /\ None \notin Api \cup Arg \cup Nat
  /\ Arg \subseteq Nat /\ {MaxId, MaxNotices} \subseteq Nat
  /\ IsFiniteSet(Handler) /\ Cardinality(Handler) >= MaxId    \* a handler for every message

VARIABLES transport, open, chan, next_id, awaiting, apis, callbacks, subs, fiber, notices
rpcVars == <<transport, open, chan, next_id, awaiting, apis, callbacks, subs, fiber, notices>>

Fiber == Caller \cup Handler
Peer == {"client", "server"}
Other(p) == IF p = "client" THEN "server" ELSE "client"
At(f) == IF f \in Caller THEN "client" ELSE "server"
Message(type, id, api, method, arg) == [type |-> type, id |-> id, api |-> api, method |-> method, arg |-> arg]
\* What a call ended with.
Value(v) == [type |-> "value", value |-> v]
Thrown(why) == [type |-> why, value |-> None]
Idle == [pc |-> "idle", id |-> None, api |-> 0, method |-> "get", arg |-> None, outcome |-> Thrown("none"), answer |-> None]

RpcInit ==
  /\ transport \in {"websocket", "local", "http", "cli"} /\ open = TRUE
  /\ chan = [p \in Peer |-> << >>] /\ next_id = [p \in Peer |-> 0]
  /\ awaiting = [p \in Peer |-> {}]
  /\ apis = <<CHOOSE a \in Api \ Proxy : TRUE>> /\ callbacks = 0 /\ subs = {}
  /\ fiber = [f \in Fiber |-> Idle] /\ notices = 0

-----------------------------------------------------------------------------
(* api_connection *)

\* The address of the api's data; a remote api has none.
get_handle(a) == IF a \in Proxy THEN None ELSE a
\* The first api with this handle, or a new one.
register_api(a) ==
  LET same == {i \in DOMAIN apis : get_handle(apis[i]) = get_handle(a)}
  IN IF same = {} THEN [id |-> Len(apis), apis |-> Append(apis, a)]
     ELSE [id |-> (CHOOSE i \in same : \A j \in same : i <= j) - 1, apis |-> apis]

\* receive_call and generic_api::call: what method of the api returns, with the
\* apis and subscriptions after it.
receive_call(api, method, arg) ==
  LET Returns(v) == [outcome |-> Value(v), apis |-> apis, subs |-> subs]
      Throws == [outcome |-> Thrown("error"), apis |-> apis, subs |-> subs]
  IN IF api >= Len(apis) \/ method = "fail" THEN Throws ELSE
     CASE method = "get" -> Returns(arg)
       [] method = "open" -> LET r == register_api(arg) IN [outcome |-> Value(r.id), apis |-> r.apis, subs |-> subs]
       [] method = "sub" -> [outcome |-> Value(None), apis |-> apis, subs |-> subs \cup {arg}]
       [] method = "ask" -> Returns(None)

\* receive_callback and receive_notice: the callback must be registered.
receive_callback(cb) == IF callbacks > cb THEN Value(None) ELSE Thrown("error")

\* The arguments of a call: a callback is registered and its id is sent.
Takes(method) == IF method = "open" THEN Api ELSE IF method \in {"sub", "ask"} THEN {callbacks} ELSE Arg
convert_callbacks(method) == callbacks' = IF method \in {"sub", "ask"} THEN callbacks + 1 ELSE callbacks

-----------------------------------------------------------------------------
(* rpc::state and websocket_api_connection *)

Fulfil(p, id, outcome) ==
  fiber' = [f \in Fiber |-> IF At(f) = p /\ fiber[f].pc = "waiting" /\ fiber[f].id = id
                            THEN [fiber[f] EXCEPT !.pc = "done", !.outcome = outcome] ELSE fiber[f]]

\* start_remote_call, of a client's fiber.
start_remote_call(f, api, method, arg) ==
  /\ fiber[f].pc \in {"idle", "done"} /\ next_id["client"] < MaxId /\ transport = "websocket"
  /\ fiber' = [fiber EXCEPT ![f] = [Idle EXCEPT !.pc = "started", !.id = next_id["client"], !.api = api,
                                                !.method = method, !.arg = arg]]
  /\ next_id' = [next_id EXCEPT !["client"] = @ + 1]
  /\ awaiting' = [awaiting EXCEPT !["client"] = @ \cup {next_id["client"]}]
  /\ convert_callbacks(method)
  /\ UNCHANGED <<transport, open, chan, apis, subs, notices>>

\* send_message throws once the connection is closed; the promise stays behind.
send_message(f) ==
  LET m == fiber[f] IN
  /\ m.pc = "started"
  /\ IF open
     THEN /\ chan' = [chan EXCEPT ![Other(At(f))] =
                        Append(@, Message(IF f \in Caller THEN "call" ELSE "callback", m.id, m.api, m.method, m.arg))]
          /\ fiber' = [fiber EXCEPT ![f].pc = "sent"]
     ELSE fiber' = [fiber EXCEPT ![f].pc = "done", ![f].outcome = Thrown("closed")] /\ UNCHANGED chan
  /\ UNCHANGED <<transport, open, next_id, awaiting, apis, callbacks, subs, notices>>

\* The promise may already have been kept and erased.
wait_for_response(f) ==
  /\ fiber[f].pc = "sent"
  /\ fiber' = [fiber EXCEPT ![f] = IF @.id \in awaiting[At(f)] THEN [@ EXCEPT !.pc = "waiting"]
                                   ELSE [@ EXCEPT !.pc = "done", !.outcome = Thrown("missed")]]
  /\ UNCHANGED <<transport, open, chan, next_id, awaiting, apis, callbacks, subs, notices>>

handle_reply(p, m) ==
  IF m.id \in awaiting[p]
  THEN /\ Fulfil(p, m.id, IF m.type = "result" THEN Value(m.arg) ELSE Thrown("error"))
       /\ awaiting' = [awaiting EXCEPT ![p] = @ \ {m.id}]
  ELSE UNCHANGED <<fiber, awaiting>>

Response(id, outcome) ==
  Message(IF outcome.type = "value" THEN "result" ELSE "error", id, 0, "get", outcome.value)
\* Mutant: an error is not reported to the caller.
Replies_Silent(id, outcome) == IF outcome.type = "value" THEN <<Response(id, outcome)>> ELSE << >>
Replies(id, outcome) == <<Response(id, outcome)>>
\* The channels after p handled its first message and sent these.
Handled(p, replies) == chan' = [chan EXCEPT ![p] = Tail(@), ![Other(p)] = @ \o replies]

\* A "call" request, answered at once, or by the fiber that asks back.
OnCall ==
  LET m == Head(chan["server"])
      r == receive_call(m.api, m.method, m.arg)
  IN /\ chan["server"] # << >> /\ m.type = "call"
     /\ \/ /\ m.method # "ask" \/ r.outcome.type # "value"
           /\ Handled("server", Replies(m.id, r.outcome))
           /\ apis' = r.apis /\ subs' = r.subs
           /\ UNCHANGED <<fiber, next_id, awaiting>>
        \/ /\ m.method = "ask" /\ r.outcome.type = "value"
           /\ Handled("server", << >>)
           /\ LET h == CHOOSE h \in Handler : fiber[h].pc = "idle" IN
              fiber' = [fiber EXCEPT ![h] = [Idle EXCEPT !.pc = "started", !.id = next_id["server"],
                                                         !.arg = m.arg, !.answer = m.id]]
           /\ next_id' = [next_id EXCEPT !["server"] = @ + 1]
           /\ awaiting' = [awaiting EXCEPT !["server"] = @ \cup {next_id["server"]}]
           /\ UNCHANGED <<apis, subs>>
     /\ UNCHANGED <<transport, open, callbacks, notices>>
\* A "callback" request: answered with null whatever the callback returned.
OnCallback ==
  LET m == Head(chan["client"]) IN
  /\ chan["client"] # << >> /\ m.type \in {"callback", "notice"}
  /\ Handled("client", IF m.type = "notice" THEN << >> ELSE Replies(m.id, receive_callback(m.arg)))
  /\ UNCHANGED <<transport, open, next_id, awaiting, apis, callbacks, subs, fiber, notices>>
OnReply(p) ==
  LET m == Head(chan[p]) IN
  /\ chan[p] # << >> /\ m.type \in {"result", "error"}
  /\ handle_reply(p, m) /\ Handled(p, << >>)
  /\ UNCHANGED <<transport, open, next_id, apis, callbacks, subs, notices>>

\* The handler that asked back returns: its request is answered.
Answer(h) ==
  /\ fiber[h].pc = "done"
  /\ chan' = [chan EXCEPT !["client"] = IF open THEN @ \o Replies(fiber[h].answer, fiber[h].outcome) ELSE @]
  /\ fiber' = [fiber EXCEPT ![h] = Idle]
  /\ UNCHANGED <<transport, open, next_id, awaiting, apis, callbacks, subs, notices>>

\* A kept callback is called: a request without id, for which no one waits.
send_notice(cb) ==
  /\ transport = "websocket" /\ open /\ notices < MaxNotices
  /\ chan' = [chan EXCEPT !["client"] = Append(@, Message("notice", None, 0, "get", cb))]
  /\ notices' = notices + 1
  /\ UNCHANGED <<transport, open, next_id, awaiting, apis, callbacks, subs, fiber>>

\* The connection is lost with what is under way; only closed() is signalled.
Disconnect ==
  /\ transport = "websocket" /\ open /\ open' = FALSE
  /\ chan' = [p \in Peer |-> << >>]
  /\ UNCHANGED <<transport, next_id, awaiting, apis, callbacks, subs, fiber, notices>>

\* Mutant: a closed state counts from zero again.
close_Restart(p) ==
  /\ awaiting[p] # {}
  /\ fiber' = [f \in Fiber |-> IF At(f) = p /\ fiber[f].pc = "waiting"
                               THEN [fiber[f] EXCEPT !.pc = "done", !.outcome = Thrown("closed")] ELSE fiber[f]]
  /\ awaiting' = [awaiting EXCEPT ![p] = {}] /\ next_id' = [next_id EXCEPT ![p] = 0]
  /\ UNCHANGED <<transport, open, chan, apis, callbacks, subs, notices>>
\* state::close: whoever waits gets an exception.
close(p) ==
  /\ awaiting[p] # {}
  /\ fiber' = [f \in Fiber |-> IF At(f) = p /\ fiber[f].pc = "waiting"
                               THEN [fiber[f] EXCEPT !.pc = "done", !.outcome = Thrown("closed")] ELSE fiber[f]]
  /\ awaiting' = [awaiting EXCEPT ![p] = {}]
  /\ UNCHANGED <<transport, open, chan, next_id, apis, callbacks, subs, notices>>

-----------------------------------------------------------------------------
(* The other transports end a call in one step. *)

OneStep(f, api, method, arg, outcome) ==
  /\ fiber[f].pc \in {"idle", "done"} /\ next_id["client"] < MaxId
  /\ fiber' = [fiber EXCEPT ![f] = [Idle EXCEPT !.pc = "done", !.api = api, !.method = method, !.arg = arg,
                                                !.outcome = outcome]]
  /\ next_id' = [next_id EXCEPT !["client"] = @ + 1]
  /\ UNCHANGED <<transport, open, chan, awaiting, notices>>

\* local_api_connection calls the other connection directly.
local_send_call(f, api, method, arg) ==
  LET r == receive_call(api, method, arg) IN
  /\ transport = "local" /\ method # "ask"
  /\ OneStep(f, api, method, arg, r.outcome) /\ apis' = r.apis /\ subs' = r.subs
  /\ convert_callbacks(method)
\* Over http a connection only serves; its own calls return null at once.
http_send_call(f, api, method, arg) ==
  /\ transport = "http" /\ OneStep(f, api, method, arg, Thrown("nothing"))
  /\ convert_callbacks(method) /\ UNCHANGED <<apis, subs>>
\* on_request: 200 with the result or 500 with the error.
on_request(f, api, method, arg) ==
  LET r == receive_call(api, method, arg) IN
  /\ transport = "http"
  /\ OneStep(f, api, method, arg, r.outcome) /\ apis' = r.apis /\ UNCHANGED <<subs, callbacks>>
\* A line of the command line calls the first api; the line may not be a call.
cli_run(f, method, arg) ==
  LET r == receive_call(0, method, arg) IN
  /\ transport = "cli"
  /\ OneStep(f, 0, method, arg, r.outcome) /\ apis' = r.apis /\ UNCHANGED <<subs, callbacks>>

\* The second api is used by "get" only.
Used(m) == IF m = "get" THEN 0..1 ELSE {0}
Method == {"get", "fail", "open", "sub", "ask"}
\* A request from outside, or a typed line, carries no callback.
Plain == {"get", "fail", "open"}
StartCall == \E f \in Caller, m \in Method : \E i \in Used(m), a \in Takes(m) : start_remote_call(f, i, m, a)
CallLocally == \E f \in Caller, m \in Method : \E i \in Used(m), a \in Takes(m) : local_send_call(f, i, m, a)
CallHttp == \E f \in Caller, m \in Method : \E i \in Used(m), a \in Takes(m) : http_send_call(f, i, m, a)
ServeHttp == \E f \in Caller, m \in Plain : \E i \in Used(m), a \in Takes(m) : on_request(f, i, m, a)
CallCli == \E f \in Caller, m \in Plain : \E a \in Takes(m) : cli_run(f, m, a)
Send == \E f \in Fiber : send_message(f)
Wait == \E f \in Fiber : wait_for_response(f)
AnswerCall == \E h \in Handler : Answer(h)
Notify == \E cb \in subs : send_notice(cb)
Reply == \E p \in Peer : OnReply(p)
Close == \E p \in Peer : close(p)

RpcNext == \/ StartCall \/ CallLocally \/ CallHttp \/ ServeHttp \/ CallCli \/ Send \/ Wait \/ OnCall \/ OnCallback
           \/ Reply \/ AnswerCall \/ Notify \/ Disconnect \/ Close

\* A fiber that can run runs, and the connection delivers what was sent.
RpcFairness == /\ \A f \in Fiber : WF_rpcVars(send_message(f)) /\ WF_rpcVars(wait_for_response(f))
               /\ WF_rpcVars(OnCall) /\ WF_rpcVars(OnCallback) /\ WF_rpcVars(AnswerCall)
               /\ \A p \in Peer : WF_rpcVars(OnReply(p))
RpcSpec == RpcInit /\ [][RpcNext]_rpcVars /\ RpcFairness

-----------------------------------------------------------------------------
\* A call that returns a value returns what its own request asked for: the
\* argument of a "get", nothing for a subscription or a question.
ReplyIsOwn ==
  \A f \in Caller : fiber[f].pc = "done" /\ fiber[f].outcome.type = "value" =>
    CASE fiber[f].method = "get" -> fiber[f].outcome.value = fiber[f].arg
      [] fiber[f].method = "fail" -> FALSE
      [] fiber[f].method = "open" -> fiber[f].outcome.value < Len(apis)
      [] OTHER -> fiber[f].outcome.value = None

\* The id an "open" returns names, for good, the api that the method returned,
\* if that api has data of its own.
ApiIsRequested ==
  \A f \in Caller : fiber[f].pc = "done" /\ fiber[f].method = "open" /\ fiber[f].outcome.type = "value"
                    /\ fiber[f].arg \notin Proxy =>
    fiber[f].outcome.value + 1 \in DOMAIN apis /\ apis[fiber[f].outcome.value + 1] = fiber[f].arg

\* While the connection is up, the request of a call that is awaited is in
\* exactly one place: on its way, with a handler, or answered on its way back.
OnTheWay(p, id) ==
  Cardinality({i \in DOMAIN chan[Other(p)] : chan[Other(p)][i].id = id /\ chan[Other(p)][i].type \in {"call", "callback"}})
  + Cardinality({i \in DOMAIN chan[p] : chan[p][i].id = id /\ chan[p][i].type \in {"result", "error"}})
  + Cardinality({h \in Handler : p = "client" /\ fiber[h].answer = id})
NoLostCall ==
  open => \A f \in Fiber : fiber[f].pc \in {"sent", "waiting"} /\ fiber[f].id \in awaiting[At(f)] =>
            OnTheWay(At(f), fiber[f].id) = 1

\* A callback that is asked for or notified is one the client registered.
CallbackKnown ==
  /\ \A i \in DOMAIN chan["client"] : chan["client"][i].type \in {"callback", "notice"} => chan["client"][i].arg < callbacks
  /\ \A cb \in subs : cb < callbacks

\* A call returns or throws, unless the connection is lost while it waits.
CallReturns == \A f \in Caller : fiber[f].pc = "started" ~> (fiber[f].pc = "done" \/ ~open)

\* No call is lost, answered by another's reply or led to another's api.
CallsSound == ReplyIsOwn /\ ApiIsRequested /\ NoLostCall /\ CallbackKnown
=============================================================================
