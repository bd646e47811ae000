------------------------------ MODULE WebAuthn ------------------------------
(***************************************************************************)
(* The recovery of a key from a webauthn signature                         *)
(* (elliptic_webauthn.cpp): rapidjson reads the client data and calls the  *)
(* handler for every token; the handler collects three members of the      *)
(* outermost object; then the members, the origin and the authenticator    *)
(* data are checked.  The reader is external: it delivers the tokens of    *)
(* any well-formed document.  The arithmetic of the recovery itself is     *)
(* webauthn_recover of Elliptic.                                           *)
(***************************************************************************)
EXTENDS Integers, Sequences

CONSTANTS Text,        \* the strings a document may hold
          MaxEvents    \* tokens of a document

ASSUME WebAuthnAssumption ==
  {"webauthn.get", "digest", "https"} \subseteq Text /\ MaxEvents \in Nat

VARIABLES
  stack,     \* reader: the open containers, innermost last
  key,       \* reader: the key just read in the outermost object, or "none"
  events,    \* tokens delivered so far
  state, depth, found,      \* handler: current_state, nested depth, members
  given,     \* the strings the document gives the three members, last wins
  strict,    \* whether each of the three was given strings only
  result     \* "reading", "parsed", "rejected", or the presence recovered

wVars == <<stack, key, events, state, depth, found, given, strict, result>>

Members == {"challenge", "origin", "type"}
State == {"start", "key", "dontcare", "nested"} \cup Members
Presence == {"none", "present", "verified"}

---------------------------------------------------------------------------
(* The handler: what each callback makes of the state, or "false". *)

\* basic_stuff: null, booleans and numbers.
basic_stuff(s) == CASE s = "nested" -> "nested"
                    [] s = "dontcare" -> "key"
                    [] OTHER -> "false"

OnString(s) == CASE s \in {"start", "key"} -> "false"
                 [] s = "nested" -> "nested"
                 [] OTHER -> "key"

OnStart(s, isObject) ==
  CASE s = "start" /\ isObject -> "key"
    [] s \in {"dontcare", "nested"} -> "nested"
    [] OTHER -> "false"

\* Mutant: the keys of nested objects are looked at too.
OnKey_Nested(s, k) == CASE s \in {"key", "nested"} -> IF k \in Members THEN k ELSE "dontcare"
                        [] OTHER -> "false"
OnKey(s, k) == CASE s = "key" -> IF k \in Members THEN k ELSE "dontcare"
                 [] s = "nested" -> "nested"
                 [] OTHER -> "false"

OnEnd(s, d, isObject) ==
  CASE s = "nested" -> IF d - 1 = 0 THEN "key" ELSE "nested"
    [] s = "key" /\ isObject -> "key"
    [] OTHER -> "false"

Moves(s) ==
  /\ result = "reading" /\ events < MaxEvents
  /\ events' = events + 1
  /\ IF s = "false" THEN result' = "rejected" /\ state' = state
     ELSE /\ state' = s
          /\ result' = IF stack' = <<>> THEN "parsed" ELSE "reading"

---------------------------------------------------------------------------
(* The reader and its callbacks. *)

Top == IF stack = <<>> THEN "none" ELSE stack[Len(stack)]

\* A value may come at the root, in an array, or after a key.
MayValue == \/ Top = "none" /\ events = 0
            \/ Top = "array"
            \/ Top = "object" /\ key # "none"
MayKey == Top = "object" /\ key = "none"

WebInit ==
  /\ stack = <<>> /\ key = "none" /\ events = 0
  /\ state = "start" /\ depth = 0
  /\ found = [m \in Members |-> ""] /\ given = [m \in Members |-> ""]
  /\ strict = TRUE /\ result = "reading"

AtTop == Len(stack) = 1 /\ key \in Members

\* A value at the outermost level that the document gives a member.
NotString == strict' = (strict /\ ~AtTop /\ stack # <<>>)

Scalar ==
  /\ MayValue
  /\ key' = "none" /\ NotString
  /\ UNCHANGED <<stack, depth, found, given>>
  /\ Moves(basic_stuff(state))

StringValue(v) ==
  /\ MayValue
  /\ key' = "none" /\ strict' = (strict /\ stack # <<>>)
  /\ given' = IF AtTop THEN [given EXCEPT ![key] = v] ELSE given
  /\ found' = IF state \in Members THEN [found EXCEPT ![state] = v] ELSE found
  /\ UNCHANGED <<stack, depth>>
  /\ Moves(OnString(state))

StartContainer(c) ==
  /\ MayValue
  /\ stack' = Append(stack, c)
  /\ key' = "none"
  /\ strict' = (strict /\ ~AtTop /\ (stack = <<>> => c = "object"))
  /\ depth' = IF OnStart(state, c = "object") = "nested" THEN depth + 1 ELSE depth
  /\ UNCHANGED <<found, given>>
  /\ Moves(OnStart(state, c = "object"))

Key(k) ==
  /\ MayKey
  /\ key' = k
  /\ UNCHANGED <<stack, depth, found, given, strict>>
  /\ Moves(OnKey(state, k))

EndContainer ==
  /\ MayKey \/ Top = "array"
  /\ stack' = SubSeq(stack, 1, Len(stack) - 1)
  /\ key' = "none"
  /\ depth' = IF state = "nested" THEN depth - 1 ELSE depth
  /\ UNCHANGED <<found, given, strict>>
  /\ Moves(OnEnd(state, depth, Top = "object"))

---------------------------------------------------------------------------
(* The checks after the parse, in order; any one that fails throws. *)

PresenceOf(auth) == IF auth.verified THEN "verified"
                     ELSE IF auth.present THEN "present" ELSE "none"

Recovers(auth) ==
  /\ found["type"] = "webauthn.get"
  /\ found["challenge"] = "digest"
  /\ found["origin"] = "https"
  /\ auth.long          \* auth_data holds a hash, the flags and a counter
  /\ auth.rpid          \* and the hash is that of the origin's host

RecoverKey(auth) ==
  /\ result = "parsed"
  /\ result' = IF Recovers(auth) THEN PresenceOf(auth) ELSE "refused"
  /\ UNCHANGED <<stack, key, events, state, depth, found, given, strict>>

WebNext ==
  \/ Scalar
  \/ \E v \in Text : StringValue(v)
  \/ \E c \in {"object", "array"} : StartContainer(c)
  \/ \E k \in Members \cup {"other"} : Key(k)
  \/ EndContainer
  \/ \E auth \in [long : BOOLEAN, rpid : BOOLEAN, present : BOOLEAN,
                  verified : BOOLEAN] : RecoverKey(auth)

WebSpec == WebInit /\ [][WebNext]_wVars

---------------------------------------------------------------------------
(* Properties *)

\* What the handler found is what the outermost object of the document gives
\* its members, at every point of the parse: a "challenge" inside a nested
\* value is never taken for the signed one.
FoundIsTopLevel == result # "rejected" => found = given

\* Containers inside a value are counted: the handler knows the outermost
\* object again exactly when the reader is back in it.
DepthTracked ==
  result = "reading" /\ stack # <<>> =>
    /\ state \in State
    /\ (state = "nested") = (Len(stack) > 1)
    /\ depth = Len(stack) - 1

\* The handler refuses a document only if the root is no object or one of the
\* three members is not a string.
NoFalseReject == result = "rejected" => ~strict

\* A key is recovered only from a document whose own members name the type,
\* the digest and a secure origin.
AcceptedIsBound ==
  result \in Presence =>
    given = [m \in Members |-> CASE m = "type" -> "webauthn.get"
                                 [] m = "challenge" -> "digest"
                                 [] m = "origin" -> "https"]

\* The parser finds the members of the outermost object and no others.
ClientDataSound == FoundIsTopLevel /\ AcceptedIsBound /\ DepthTracked /\ NoFalseReject
=============================================================================
