---------------------------- MODULE CryptoProofs ----------------------------
(***************************************************************************)
(* Proofs about the cryptographic parts that MCCrypto composes, for every  *)
(* curve of prime order, all keys and every document:                      *)
(*   - the handler of the client data keeps up with the reader, so that    *)
(*     only members of the outermost object reach the recovery of a        *)
(*     webauthn key (WebInv);                                              *)
(*   - a key or signature is read back from its text, and a public key or  *)
(*     signature from no other text (KeyCalls);                            *)
(*   - the arithmetic modulo the order gives the signer's key back, and    *)
(*     one low s for a key (CurveCalls);                                   *)
(*   - sha3's encoder holds the message however it is cut into writes      *)
(*     (HashInv), and hmac's keys stay apart (HmacCalls);                  *)
(*   - blowfish's network, its modes and the chaining of AES are undone by *)
(*     their inverses (BlowfishCalls, AesCalls).                           *)
(***************************************************************************)
EXTENDS MCCrypto, NaturalsInduction, FiniteSetTheorems, SequenceTheorems, WellFoundedInduction, TLAPS

-----------------------------------------------------------------------------
(* The client data of a webauthn signature. *)

Container == {"object", "array"}
Strings == Text \cup {""}

\* Types.
WebTypes ==
  /\ stack \in Seq(Container) /\ key \in Members \cup {"other", "none"} /\ events \in Nat
  /\ state \in State /\ depth \in Nat /\ strict \in BOOLEAN
  /\ found \in [Members -> Strings] /\ given \in [Members -> Strings]

\* What the handler knows of the reader: at the outermost level which key was
\* read, inside a value how deep it is.
HandlerFollows ==
  \/ stack = << >> /\ state = "start" /\ key = "none" /\ depth = 0
  \/ /\ Len(stack) = 1 /\ stack[1] = "object" /\ depth = 0
     /\ \/ key = "none" /\ state = "key"
        \/ key = "other" /\ state = "dontcare"
        \/ key \in Members /\ state = key
  \/ Len(stack) > 1 /\ stack[1] = "object" /\ depth = Len(stack) - 1 /\ state = "nested"

\* The inductive invariant.
WebInv ==
  /\ WebTypes
  /\ result = "reading" => HandlerFollows
  /\ FoundIsTopLevel /\ AcceptedIsBound /\ NoFalseReject

\* The states of the handler are apart.
LEMMA StatesApart ==
  /\ Members \subseteq State /\ {"start", "key", "dontcare", "nested"} \subseteq State
  /\ \A m \in Members : /\ m # "start" /\ m # "key" /\ m # "dontcare" /\ m # "nested"
                         /\ m # "false" /\ m # "none" /\ m # "other"
  /\ "false" \notin State
  BY DEF Members, State

\* Before the first token.
LEMMA WebStarts == ASSUME WebInit PROVE WebInv
<1>1. WebTypes
  <2>1. << >> \in Seq(Container) /\ "start" \in State /\ "" \in Strings
    BY StatesApart DEF Strings
  <2>2. [m \in Members |-> ""] \in [Members -> Strings]
    BY <2>1
  <2> QED
    BY <2>1, <2>2 DEF WebInit, WebTypes
<1>2. Len(stack) = 0
  BY DEF WebInit
<1> QED
  BY <1>1, <1>2 DEF WebInit, WebInv, HandlerFollows, FoundIsTopLevel, AcceptedIsBound, NoFalseReject, Presence

\* A token: what the next state has to satisfy, if the handler goes on and if not.
LEMMA TokenRead ==
  ASSUME WebInv, NEW s, Moves(s), WebTypes',
         s = "false" => ~strict',
         s # "false" => s \in State /\ found' = given' /\ (stack' # << >> /\ state' = s => HandlerFollows')
  PROVE  WebInv'
<1>1. CASE s = "false"
  BY <1>1 DEF Moves, WebInv, FoundIsTopLevel, AcceptedIsBound, NoFalseReject, Presence
<1>2. CASE s # "false"
  <2>1. state' = s /\ result' = IF stack' = << >> THEN "parsed" ELSE "reading"
    BY <1>2 DEF Moves
  <2>2. found' = given' /\ (stack' # << >> => HandlerFollows')
    BY <1>2, <2>1
  <2> QED
    BY <2>1, <2>2 DEF WebInv, FoundIsTopLevel, AcceptedIsBound, NoFalseReject, Presence
<1> QED
  BY <1>1, <1>2

\* The facts the callbacks start from.
LEMMA Reading ==
  ASSUME WebInv, NEW s, Moves(s)
  PROVE  /\ WebTypes /\ HandlerFollows /\ found = given
         /\ events' \in Nat /\ Len(stack) \in Nat /\ (stack = << >> <=> Len(stack) = 0)
         /\ (s # "false" => state' = s) /\ (s = "false" => state' = state)
<1>1. result = "reading" /\ events' = events + 1
  BY DEF Moves
<1>2. WebTypes /\ HandlerFollows /\ found = given
  BY <1>1 DEF WebInv, FoundIsTopLevel
<1>3. Len(stack) \in Nat /\ (stack = << >> <=> Len(stack) = 0)
  BY <1>2, LenProperties, EmptySeq DEF WebTypes
<1>4. (s # "false" => state' = s) /\ (s = "false" => state' = state)
  BY DEF Moves
<1> QED
  BY <1>1, <1>2, <1>3, <1>4 DEF WebTypes

\* A value that is no string: it is refused where a member is expected.
LEMMA ScalarOK == ASSUME WebInv, Scalar PROVE WebInv'
<1> DEFINE s == basic_stuff(state)
<1>1. /\ MayValue /\ key' = "none" /\ strict' = (strict /\ ~AtTop /\ stack # << >>)
      /\ UNCHANGED <<stack, depth, found, given>> /\ Moves(s)
  BY DEF Scalar, NotString
<1>2. /\ WebTypes /\ HandlerFollows /\ found = given
      /\ events' \in Nat /\ Len(stack) \in Nat /\ (stack = << >> <=> Len(stack) = 0)
      /\ (s # "false" => state' = s) /\ (s = "false" => state' = state)
  BY <1>1, Reading
<1>3. \/ state = "nested" /\ s = "nested"
      \/ state = "dontcare" /\ s = "key"
      \/ state \notin {"nested", "dontcare"} /\ s = "false"
  BY DEF basic_stuff
<1> HIDE DEF s
<1>4. stack # << >> /\ Len(stack) = 1 => key # "none"
  BY <1>1, <1>2 DEF MayValue, Top, HandlerFollows
<1>5. s = "false" => ~strict'
  <2>1. s = "false" => AtTop \/ stack = << >>
    BY <1>2, <1>3, <1>4, StatesApart DEF HandlerFollows, WebTypes, AtTop
  <2> QED
    BY <2>1, <1>1, Zenon
<1>6. WebTypes'
  BY <1>1, <1>2, <1>3, StatesApart DEF WebTypes
<1>7. s # "false" => s \in State /\ found' = given'
  BY <1>1, <1>2, <1>3, StatesApart
<1>8. s # "false" /\ stack' # << >> /\ state' = s => HandlerFollows'
  BY <1>1, <1>2, <1>3, StatesApart DEF HandlerFollows
<1> QED
  BY <1>1, <1>5, <1>6, <1>7, <1>8, TokenRead

\* A string: the member it is given to is the one the handler expects.
LEMMA StringOK == ASSUME WebInv, NEW v \in Text, StringValue(v) PROVE WebInv'
<1> DEFINE s == OnString(state)
<1>1. /\ MayValue /\ key' = "none" /\ strict' = (strict /\ stack # << >>)
      /\ given' = (IF AtTop THEN [given EXCEPT ![key] = v] ELSE given)
      /\ found' = (IF state \in Members THEN [found EXCEPT ![state] = v] ELSE found)
      /\ UNCHANGED <<stack, depth>> /\ Moves(s)
  BY DEF StringValue
<1>2. /\ WebTypes /\ HandlerFollows /\ found = given
      /\ events' \in Nat /\ Len(stack) \in Nat /\ (stack = << >> <=> Len(stack) = 0)
      /\ (s # "false" => state' = s) /\ (s = "false" => state' = state)
  BY <1>1, Reading
<1>3. \/ state \in {"start", "key"} /\ s = "false"
      \/ state = "nested" /\ s = "nested"
      \/ state \notin {"start", "key", "nested"} /\ s = "key"
  BY DEF OnString
<1> HIDE DEF s
<1>4. stack # << >> /\ Len(stack) = 1 => key # "none"
  BY <1>1, <1>2 DEF MayValue, Top, HandlerFollows
<1>5. s = "false" => ~strict'
  <2>1. s = "false" => stack = << >>
    BY <1>2, <1>3, <1>4, StatesApart DEF HandlerFollows, WebTypes
  <2> QED
    BY <2>1, <1>1, Zenon
<1>6. AtTop <=> state \in Members
  <2>1. CASE Len(stack) = 1
    BY <2>1, <1>2, <1>4, StatesApart DEF HandlerFollows, AtTop
  <2>2. CASE Len(stack) # 1
    <3>1. state = "start" \/ state = "nested"
      BY <2>2, <1>2 DEF HandlerFollows
    <3> QED
      BY <2>2, <3>1, StatesApart DEF AtTop
  <2> QED
    BY <2>1, <2>2
<1>7. AtTop => state = key
  BY <1>2, <1>4, StatesApart DEF HandlerFollows, AtTop
<1>8. found' = given'
  BY <1>1, <1>2, <1>6, <1>7
<1>9. WebTypes'
  <2>1. v \in Strings
    BY DEF Strings
  <2>2. found' \in [Members -> Strings]
    BY <2>1, <1>1, <1>2 DEF WebTypes
  <2>3. strict' \in BOOLEAN
    BY <1>1, Zenon
  <2>4. state' \in State
    BY <1>2, <1>3, StatesApart DEF WebTypes
  <2> QED
    BY <2>2, <2>3, <2>4, <1>1, <1>2, <1>8 DEF WebTypes
<1>10. s # "false" => s \in State
  BY <1>3, StatesApart
<1>11. s # "false" /\ stack' # << >> /\ state' = s => HandlerFollows'
  BY <1>1, <1>2, <1>3, StatesApart DEF HandlerFollows
<1> QED
  BY <1>1, <1>5, <1>8, <1>9, <1>10, <1>11, TokenRead

\* An object or an array: the root has to be an object, and a member neither.
LEMMA StartOK == ASSUME WebInv, NEW c \in Container, StartContainer(c) PROVE WebInv'
<1> DEFINE s == OnStart(state, c = "object")
<1>1. /\ MayValue /\ key' = "none" /\ strict' = (strict /\ ~AtTop /\ (stack = << >> => c = "object"))
      /\ depth' = (IF s = "nested" THEN depth + 1 ELSE depth)
      /\ stack' = Append(stack, c)
      /\ UNCHANGED <<found, given>> /\ Moves(s)
  BY DEF StartContainer
<1>2. /\ WebTypes /\ HandlerFollows /\ found = given
      /\ events' \in Nat /\ Len(stack) \in Nat /\ (stack = << >> <=> Len(stack) = 0)
      /\ (s # "false" => state' = s) /\ (s = "false" => state' = state)
  BY <1>1, Reading
<1>3. \/ state = "start" /\ c = "object" /\ s = "key"
      \/ state \in {"dontcare", "nested"} /\ s = "nested"
      \/ state \notin {"dontcare", "nested"} /\ ~(state = "start" /\ c = "object") /\ s = "false"
  BY DEF OnStart
<1> HIDE DEF s
<1>4. stack # << >> /\ Len(stack) = 1 => key # "none"
  BY <1>1, <1>2 DEF MayValue, Top, HandlerFollows
<1>5. s = "false" => ~strict'
  <2>1. s = "false" => AtTop \/ (stack = << >> /\ c # "object")
    BY <1>2, <1>3, <1>4, StatesApart DEF HandlerFollows, WebTypes, AtTop
  <2> QED
    BY <2>1, <1>1, Zenon
<1>6. /\ stack' \in Seq(Container) /\ Len(stack') = Len(stack) + 1
      /\ stack = << >> => stack'[1] = c
      /\ stack # << >> => stack'[1] = stack[1]
  BY <1>1, <1>2, AppendProperties DEF WebTypes
<1>7. WebTypes'
  <2>1. strict' \in BOOLEAN
    BY <1>1, Zenon
  <2>2. state' \in State
    BY <1>2, <1>3, StatesApart DEF WebTypes
  <2> QED
    BY <2>1, <2>2, <1>1, <1>2, <1>6 DEF WebTypes
<1>8. s # "false" => s \in State /\ found' = given'
  BY <1>1, <1>2, <1>3, StatesApart
<1>9. s # "false" /\ stack' # << >> /\ state' = s => HandlerFollows'
  <2>1. CASE state = "start"
    BY <2>1, <1>1, <1>2, <1>3, <1>6, StatesApart DEF HandlerFollows
  <2>2. CASE state # "start"
    BY <2>2, <1>1, <1>2, <1>3, <1>6, StatesApart DEF HandlerFollows
  <2> QED
    BY <2>1, <2>2
<1> QED
  BY <1>1, <1>5, <1>7, <1>8, <1>9, TokenRead

\* A key: inside a value it is not looked at.
LEMMA KeyOK == ASSUME WebInv, NEW k \in Members \cup {"other"}, Key(k) PROVE WebInv'
<1> DEFINE s == OnKey(state, k)
<1>1. /\ MayKey /\ key' = k /\ UNCHANGED <<stack, depth, found, given, strict>> /\ Moves(s)
  BY DEF Key
<1>2. /\ WebTypes /\ HandlerFollows /\ found = given
      /\ events' \in Nat /\ Len(stack) \in Nat /\ (stack = << >> <=> Len(stack) = 0)
      /\ (s # "false" => state' = s) /\ (s = "false" => state' = state)
  BY <1>1, Reading
<1>3. \/ state = "key" /\ k \in Members /\ s = k
      \/ state = "key" /\ k = "other" /\ s = "dontcare"
      \/ state = "nested" /\ s = "nested"
      \/ state \notin {"key", "nested"} /\ s = "false"
  BY StatesApart DEF OnKey
<1> HIDE DEF s
<1>4. stack # << >> /\ (Len(stack) = 1 => key = "none")
  BY <1>1, <1>2 DEF MayKey, Top
<1>5. s # "false"
  BY <1>2, <1>3, <1>4, StatesApart DEF HandlerFollows
<1>6. WebTypes'
  BY <1>1, <1>2, <1>3, StatesApart DEF WebTypes
<1>7. s \in State /\ found' = given'
  BY <1>1, <1>2, <1>3, <1>5, StatesApart
<1>8. HandlerFollows'
  BY <1>1, <1>2, <1>3, <1>4, <1>5, StatesApart DEF HandlerFollows
<1> QED
  BY <1>1, <1>5, <1>6, <1>7, <1>8, TokenRead

\* The end of an object or an array: the handler is back in the outermost
\* object when the reader is.
LEMMA EndOK == ASSUME WebInv, EndContainer PROVE WebInv'
<1> DEFINE s == OnEnd(state, depth, Top = "object")
<1>1. /\ MayKey \/ Top = "array"
      /\ key' = "none" /\ stack' = SubSeq(stack, 1, Len(stack) - 1)
      /\ depth' = (IF state = "nested" THEN depth - 1 ELSE depth)
      /\ UNCHANGED <<found, given, strict>> /\ Moves(s)
  BY DEF EndContainer
<1>2. /\ WebTypes /\ HandlerFollows /\ found = given
      /\ events' \in Nat /\ Len(stack) \in Nat /\ (stack = << >> <=> Len(stack) = 0)
      /\ (s # "false" => state' = s) /\ (s = "false" => state' = state)
  BY <1>1, Reading
<1>3. \/ state = "nested" /\ depth - 1 = 0 /\ s = "key"
      \/ state = "nested" /\ depth - 1 # 0 /\ s = "nested"
      \/ state = "key" /\ Top = "object" /\ s = "key"
      \/ state # "nested" /\ ~(state = "key" /\ Top = "object") /\ s = "false"
  BY DEF OnEnd
<1> HIDE DEF s
<1>4. stack # << >> /\ (Len(stack) = 1 => key = "none" /\ Top = "object")
  BY <1>1, <1>2 DEF MayKey, Top, HandlerFollows
<1>5. s # "false"
  BY <1>2, <1>3, <1>4, StatesApart DEF HandlerFollows
<1>6. /\ stack' \in Seq(Container) /\ Len(stack') = Len(stack) - 1
      /\ Len(stack) > 1 => stack'[1] = stack[1]
  <2>1. stack \in Seq(Container) /\ Len(stack) >= 1
    BY <1>2, <1>4 DEF WebTypes
  <2> DEFINE n == Len(stack) - 1
  <2>2. n \in 0..Len(stack) /\ stack' = SubSeq(stack, 1, n) /\ n \in Nat
    BY <2>1, <1>1, <1>2
  <2>3. \A i \in 1..n : i \in 1..Len(stack) /\ stack[i] \in Container
    BY <2>1, <2>2, ElementOfSeq
  <2>4. Len(stack') = n /\ \A i \in 1..n : stack'[i] = stack[i]
    <3>1. \A i \in 1..n : stack[i] \in Container
      BY <2>3
    <3>2. /\ Len(SubSeq(stack, 1, n)) = IF 1 <= n THEN n - 1 + 1 ELSE 0
          /\ \A i \in 1..(n - 1 + 1) : SubSeq(stack, 1, n)[i] = stack[1 + i - 1]
      BY <3>1, <2>2, SubSeqProperties
    <3> HIDE DEF n
    <3> QED
      BY <3>2, <2>2
  <2>5. stack' \in Seq(Container)
    BY <2>1, <2>2, SubSeqProperties
  <2> QED
    BY <2>2, <2>4, <2>5
<1>7. Len(stack') = 0 <=> stack' = << >>
  BY <1>6, EmptySeq
<1>8. WebTypes'
  BY <1>1, <1>2, <1>3, <1>4, <1>5, <1>6, StatesApart DEF WebTypes, HandlerFollows
<1>9. s \in State /\ found' = given'
  BY <1>1, <1>2, <1>3, <1>5, StatesApart
<1>10. stack' # << >> => HandlerFollows'
  <2> SUFFICES ASSUME stack' # << >> PROVE HandlerFollows'
    OBVIOUS
  <2>1. Len(stack) > 1 /\ state = "nested" /\ stack[1] = "object" /\ depth = Len(stack) - 1
    BY <1>2, <1>4, <1>6, <1>7 DEF HandlerFollows
  <2>2. Len(stack') = Len(stack) - 1 /\ stack'[1] = "object" /\ depth' = depth - 1 /\ key' = "none" /\ state' = s
    BY <2>1, <1>1, <1>2, <1>5, <1>6
  <2>3. CASE Len(stack) = 2
    BY <2>1, <2>2, <2>3, <1>3 DEF HandlerFollows
  <2>4. CASE Len(stack) > 2
    BY <2>1, <2>2, <2>4, <1>2, <1>3 DEF HandlerFollows
  <2> QED
    BY <2>1, <2>3, <2>4, <1>2
<1> QED
  BY <1>1, <1>5, <1>8, <1>9, <1>10, TokenRead

\* The checks after the parse.
LEMMA RecoverKeyOK ==
  ASSUME WebInv, NEW auth, RecoverKey(auth)
  PROVE  WebInv'
<1>1. /\ result = "parsed" /\ UNCHANGED <<stack, key, events, state, depth, found, given, strict>>
      /\ result' = IF Recovers(auth) THEN PresenceOf(auth) ELSE "refused"
  BY DEF RecoverKey
<1>2. found = given /\ WebTypes
  BY <1>1 DEF WebInv, FoundIsTopLevel
<1>3. result' \in Presence \cup {"refused"} /\ (result' \in Presence => Recovers(auth))
  BY <1>1 DEF PresenceOf, Presence
<1>4. result' # "reading" /\ result' # "rejected"
  BY <1>3 DEF Presence
<1>5. AcceptedIsBound'
  <2> SUFFICES ASSUME result' \in Presence
               PROVE  given' = [m \in Members |-> CASE m = "type" -> "webauthn.get"
                                                    [] m = "challenge" -> "digest"
                                                    [] m = "origin" -> "https"]
    BY DEF AcceptedIsBound
  <2>1. given["type"] = "webauthn.get" /\ given["challenge"] = "digest" /\ given["origin"] = "https"
    BY <1>2, <1>3 DEF Recovers
  <2> DEFINE f == [m \in Members |-> CASE m = "type" -> "webauthn.get"
                                       [] m = "challenge" -> "digest"
                                       [] m = "origin" -> "https"]
  <2>2. f["type"] = "webauthn.get" /\ f["challenge"] = "digest" /\ f["origin"] = "https"
    BY Zenon DEF Members
  <2>3. f = [m \in Members |-> f[m]]
    <3> DEFINE v(m) == CASE m = "type" -> "webauthn.get" [] m = "challenge" -> "digest" [] m = "origin" -> "https"
    <3>1. f = [m \in Members |-> v(m)]
      BY Zenon
    <3> HIDE DEF v, f
    <3> QED
      BY <3>1
  <2> HIDE DEF f
  <2>5. \A m \in Members : given[m] = f[m]
    BY <2>1, <2>2 DEF Members
  <2>6. given = [m \in Members |-> given[m]]
    BY <1>2 DEF WebTypes
  <2>4. given = f
    BY <2>3, <2>5, <2>6
  <2> QED
    BY <2>4, <1>1 DEF f
<1>6. WebTypes'
  BY <1>1, <1>2 DEF WebTypes
<1> QED
  BY <1>1, <1>2, <1>4, <1>5, <1>6 DEF WebInv, FoundIsTopLevel, NoFalseReject

\* Any token, and the checks.
LEMMA WebKeeps == ASSUME WebInv, WebNext PROVE WebInv'
  BY ScalarOK, StringOK, StartOK, KeyOK, EndOK, RecoverKeyOK DEF WebNext, Container

\* A step of another part.
LEMMA WebRests == ASSUME WebInv, UNCHANGED wVars PROVE WebInv'
<1>1. WebTypes' /\ (result' = "reading" => HandlerFollows')
  BY DEF WebInv, wVars, WebTypes, HandlerFollows
<1>2. FoundIsTopLevel' /\ NoFalseReject'
  BY DEF WebInv, wVars, FoundIsTopLevel, NoFalseReject
<1>3. AcceptedIsBound'
  <2>1. given' = given /\ result' = result
    BY DEF wVars
  <2> QED
    BY <2>1, Zenon DEF WebInv, AcceptedIsBound
<1> QED
  BY <1>1, <1>2, <1>3 DEF WebInv

\* What the invariant says.
LEMMA WebIsSound == ASSUME WebInv PROVE ClientDataSound
<1>1. DepthTracked
  <2> SUFFICES ASSUME result = "reading", stack # << >>
               PROVE  state \in State /\ ((state = "nested") = (Len(stack) > 1)) /\ depth = Len(stack) - 1
    BY DEF DepthTracked
  <2>1. HandlerFollows /\ WebTypes
    BY DEF WebInv
  <2> DEFINE n == Len(stack)
  <2>6. \/ n = 1 /\ depth = 0 /\ (state = "key" \/ state = "dontcare" \/ state \in Members)
        \/ n > 1 /\ depth = n - 1 /\ state = "nested"
    BY <2>1, Zenon DEF HandlerFollows
  <2> HIDE DEF n
  <2>7. depth = n - 1 /\ (state = "nested" <=> n > 1)
    BY <2>6, StatesApart
  <2>2. (state = "nested") <=> (Len(stack) > 1)
    BY <2>7 DEF n
  <2>3. depth = Len(stack) - 1
    BY <2>7 DEF n
  <2>4. state \in State
    BY <2>1 DEF WebTypes
  <2>5. (state = "nested") = (Len(stack) > 1)
    BY <2>2
  <2> QED
    BY <2>3, <2>4, <2>5
<1> QED
  BY <1>1 DEF WebInv, ClientDataSound

-----------------------------------------------------------------------------
(* The calls for the texts of keys. *)

\* The texts that a client asks to read.
ReadTexts == {t \in [words : Words, legacy : BOOLEAN, body : Bodies] : t.legacy => t.words = <<>>}

\* A call has an input of its kind.
KeyCalls ==
  /\ call.name = "print" => \E kd \in Kind : call.in \in [kind : {kd}, key : Storage(kd)]
  /\ call.name = "read" => call.in \in [kind : Kind, text : ReadTexts]
  /\ call.name = "compare" => \E kd \in Kind : call.in \in Storage(kd) \X Storage(kd) \X Storage(kd)

-----------------------------------------------------------------------------
(* The texts of keys and signatures. *)

\* The suites of the kinds.
LEMMA SuitesAre ==
  /\ Suites("private") = <<"K1", "R1">> /\ Len(Suites("private")) = 2
  /\ Suites("public") = <<"K1", "R1", "WA">> /\ Len(Suites("public")) = 3
  /\ Suites("signature") = <<"K1", "R1", "WA">> /\ Len(Suites("signature")) = 3
  BY DEF Suites

\* A suite has one place among those of its kind.
LEMMA SuitePlace ==
  ASSUME NEW kd \in Kind
  PROVE  /\ Len(Suites(kd)) \in Nat
         /\ \A i, j \in 1..Len(Suites(kd)) : Suites(kd)[i] = Suites(kd)[j] => i = j
         /\ \A i \in 1..Len(Suites(kd)) : Suites(kd)[i] \in {"K1", "R1", "WA"}
<1>1. kd = "private" => Suites(kd)[1] = "K1" /\ Suites(kd)[2] = "R1" /\ Len(Suites(kd)) = 2
  BY SuitesAre
<1>2. kd # "private" => Suites(kd)[1] = "K1" /\ Suites(kd)[2] = "R1" /\ Suites(kd)[3] = "WA" /\ Len(Suites(kd)) = 3
  BY SuitesAre DEF Kind
<1> DEFINE w(i) == Suites(kd)[i]
           n == Len(Suites(kd))
<1>3. \/ n = 2 /\ w(1) = "K1" /\ w(2) = "R1"
      \/ n = 3 /\ w(1) = "K1" /\ w(2) = "R1" /\ w(3) = "WA"
  BY <1>1, <1>2
<1> HIDE DEF w, n
<1>4. \A i, j \in 1..n : w(i) = w(j) => i = j
  <2>1. CASE n = 2
    <3>1. \A i \in 1..n : i = 1 \/ i = 2
      BY <2>1
    <3> QED
      BY <3>1, <1>3
  <2>2. CASE n = 3
    <3>1. \A i \in 1..n : i = 1 \/ i = 2 \/ i = 3
      BY <2>2
    <3> QED
      BY <3>1, <2>2, <1>3
  <2> QED
    BY <1>3, <2>1, <2>2
<1>5. \A i \in 1..n : w(i) \in {"K1", "R1", "WA"}
  <2>1. CASE n = 2
    <3>1. \A i \in 1..n : i = 1 \/ i = 2
      BY <2>1
    <3> QED
      BY <3>1, <1>3
  <2>2. CASE n = 3
    <3>1. \A i \in 1..n : i = 1 \/ i = 2 \/ i = 3
      BY <2>2
    <3> QED
      BY <3>1, <2>2, <1>3
  <2> QED
    BY <1>3, <2>1, <2>2
<1>6. n \in Nat
  BY <1>3
<1> QED
  BY <1>4, <1>5, <1>6 DEF w, n

\* The base prefixes are apart.
LEMMA PrefixesApart ==
  /\ BasePrefix("public") = "PUB" /\ BasePrefix("private") = "PVT" /\ BasePrefix("signature") = "SIG"
  /\ \A k, l \in Kind : BasePrefix(k) = BasePrefix(l) => k = l
<1>1. BasePrefix("public") = "PUB" /\ BasePrefix("private") = "PVT" /\ BasePrefix("signature") = "SIG"
  BY Zenon DEF BasePrefix
<1> QED
  BY <1>1 DEF Kind

\* A text with words is read as a prefix and a suite, whatever its kind.
LEMMA ParseOfWords ==
  ASSUME NEW kd \in Kind, NEW t, t.words # << >>
  PROVE  Parse(kd, t) = parse_words(kd, t)
<1>1. CASE kd = "public"
  <2>1. Parse(kd, t) = parse_base58(t)
    BY <1>1, Zenon DEF Parse
  <2> QED
    BY <1>1, <2>1, Zenon DEF parse_base58
<1>2. CASE kd = "private"
  <2>1. Parse(kd, t) = priv_parse_base58(t)
    BY <1>2, Zenon DEF Parse
  <2> QED
    BY <1>2, <2>1, Zenon DEF priv_parse_base58
<1>3. CASE kd = "signature"
  <2>1. Parse(kd, t) = sig_parse_base58(t)
    BY <1>3, Zenon DEF Parse
  <2> QED
    BY <1>3, <2>1, Zenon DEF sig_parse_base58
<1> QED
  BY <1>1, <1>2, <1>3 DEF Kind

\* When a text of words is read: its suite is one of the kind's and bound by
\* the checksum.
LEMMA WordsAccepted ==
  ASSUME NEW kd \in Kind, NEW t, parse_words(kd, t).ok
  PROVE  /\ Len(t.words) = 2 /\ t.words[1] = BasePrefix(kd) /\ ~t.body.empty /\ t.body.extra = 0
         /\ t.body.check = Hash("ripemd160", t.body.data, t.words[2])
         /\ \E i \in 1..Len(Suites(kd)) : /\ Suites(kd)[i] = t.words[2]
                                          /\ parse_words(kd, t) = Ok([which |-> i, data |-> t.body.data])
<1> DEFINE p == parse_words(kd, t)
           q == base58_str_parser(kd, t.words[2], t.body)
           M == {i \in 1..Len(Suites(kd)) : Suites(kd)[i] = t.words[2]}
           bad == Throw([which |-> 1, data |-> 0])
           good == Ok([which |-> CHOOSE i \in M : TRUE, data |-> t.body.data])
<1>1. ~bad.ok
  BY DEF Throw
<1>2. p = IF Len(t.words) = 2 /\ t.words[1] = BasePrefix(kd) /\ ~t.body.empty THEN q ELSE bad
  BY Zenon DEF parse_words
<1>3. q = IF M # {} /\ Unpacks(t.body) /\ calculate_checksum(t.body.data, t.words[2]) = t.body.check THEN good ELSE bad
  BY Zenon DEF base58_str_parser
<1>4. (CHOOSE i \in M : TRUE) \in M <=> M # {}
  BY Zenon
<1> HIDE DEF bad, M, q, good
<1>5. Len(t.words) = 2 /\ t.words[1] = BasePrefix(kd) /\ ~t.body.empty /\ p = q
  BY <1>1, <1>2
<1>6. M # {} /\ Unpacks(t.body) /\ calculate_checksum(t.body.data, t.words[2]) = t.body.check /\ q = good
  BY <1>1, <1>3, <1>5
<1>7. PICK i \in M : good = Ok([which |-> i, data |-> t.body.data])
  BY <1>4, <1>6, Zenon DEF good
<1> QED
  BY <1>5, <1>6, <1>7 DEF M, Unpacks, calculate_checksum

\* A key that is written with its words is read back.
LEMMA WordsReadBack ==
  ASSUME NEW kd \in Kind, NEW k \in Storage(kd), NEW dflt \in Nat, k.which # dflt
  PROVE  /\ base58str(kd, k, dflt).words # << >>
         /\ parse_words(kd, base58str(kd, k, dflt)) = Ok(k)
<1> DEFINE t == base58str(kd, k, dflt)
           w == Suites(kd)[k.which]
           b == Body(k.data, Hash("ripemd160", k.data, w))
           M == {i \in 1..Len(Suites(kd)) : Suites(kd)[i] = w}
<1>1. k.which \in 1..Len(Suites(kd)) /\ k = [which |-> k.which, data |-> k.data]
  BY DEF Storage
<1>2. t = [words |-> <<BasePrefix(kd), w>>, legacy |-> k.which = dflt, body |-> b]
  BY DEF base58str, calculate_checksum
<1>3. ~b.empty /\ b.extra = 0 /\ b.data = k.data /\ b.check = Hash("ripemd160", k.data, w)
  BY DEF Body
<1>4. M = {k.which}
  BY <1>1, SuitePlace
<1> HIDE DEF w, b
<1>5. Len(t.words) = 2 /\ t.words[1] = BasePrefix(kd) /\ t.words[2] = w /\ t.body = b
  BY <1>2
<1>6. base58_str_parser(kd, w, b) = Ok([which |-> CHOOSE i \in M : TRUE, data |-> b.data])
  <2>1. M # {} /\ Unpacks(b) /\ calculate_checksum(b.data, w) = b.check
    BY <1>3, <1>4 DEF Unpacks, calculate_checksum
  <2> QED
    BY <2>1, Zenon DEF base58_str_parser
<1>7. (CHOOSE i \in M : TRUE) = k.which
  BY <1>4
<1>8. base58_str_parser(kd, w, b) = Ok(k)
  BY <1>1, <1>3, <1>6, <1>7
<1> HIDE DEF t, M
<1>9. parse_words(kd, t) = base58_str_parser(kd, w, b)
  BY <1>3, <1>5, Zenon DEF parse_words
<1>10. t.words # << >>
  BY <1>5
<1> QED
  BY <1>8, <1>9, <1>10 DEF t

\* to_string and the parser of the kind: a K1 public key in the old form, a K1
\* private key in the import format, any other with its words.
LEMMA TextReadBack ==
  ASSUME NEW kd \in Kind, NEW k \in Storage(kd)
  PROVE  Parse(kd, to_string(kd, k)) = Ok(k)
<1>0. k.which \in Nat \ {0} /\ k = [which |-> k.which, data |-> k.data]
  BY SuitePlace DEF Storage
<1>1. ASSUME NEW dflt \in Nat, k.which # dflt, to_string(kd, k) = base58str(kd, k, dflt)
      PROVE  Parse(kd, to_string(kd, k)) = Ok(k)
  <2>1. base58str(kd, k, dflt).words # << >> /\ parse_words(kd, base58str(kd, k, dflt)) = Ok(k)
    BY <1>1, WordsReadBack
  <2> QED
    BY <2>1, <1>1, ParseOfWords
<1>2. CASE kd = "public" /\ k.which # 1
  <2>1. to_string(kd, k) = base58str(kd, k, 1)
    BY <1>2, Zenon DEF to_string
  <2> QED
    BY <2>1, <1>1, <1>2
<1>3. CASE kd = "public" /\ k.which = 1
  <2> DEFINE t == to_string(kd, k)
             b == Body(k.data, Hash("ripemd160", k.data, "none"))
  <2>1. t = base58str(kd, k, 1)
    BY <1>3, Zenon DEF to_string
  <2>2. t = [words |-> << >>, legacy |-> k.which = 1, body |-> b]
    BY <2>1, <1>3 DEF base58str, calculate_checksum
  <2>3. ~b.empty /\ b.extra = 0 /\ b.data = k.data /\ b.check = Hash("ripemd160", k.data, "none")
    BY DEF Body
  <2> HIDE DEF b
  <2>4. t.legacy /\ t.words = << >> /\ t.body = b
    <3>1. (k.which = 1) = TRUE
      BY <1>3
    <3>2. t = [words |-> << >>, legacy |-> TRUE, body |-> b]
      BY <2>2, <3>1, Zenon
    <3>3. t.words = << >> /\ t.body = b
      BY <3>2
    <3> HIDE DEF t
    <3>5. t.legacy = TRUE
      BY <3>2
    <3>4. t.legacy
      BY <3>5
    <3> QED
      BY <3>3, <3>4
  <2> HIDE DEF t
  <2>5. parse_base58(t) = Ok([which |-> 1, data |-> b.data])
    <3>1. Unpacks(t.body) /\ calculate_checksum(t.body.data, "none") = t.body.check /\ ~t.body.empty
      BY <2>3, <2>4 DEF Unpacks, calculate_checksum
    <3> QED
      BY <3>1, <2>4, Zenon DEF parse_base58
  <2>6. Parse(kd, t) = parse_base58(t)
    BY <1>3, Zenon DEF Parse
  <2>7. Parse(kd, t) = Ok(k)
    BY <2>3, <2>5, <2>6, <1>0, <1>3
  <2> QED
    BY <2>7 DEF t
<1>4. CASE kd = "private" /\ k.which # 1
  <2>1. to_string(kd, k) = base58str(kd, k, 0)
    BY <1>4, Zenon DEF to_string
  <2> QED
    BY <2>1, <1>0, <1>1
<1>5. CASE kd = "private" /\ k.which = 1
  <2> DEFINE t == to_string(kd, k)
             b == Body(k.data, Hash("sha256x2", k.data, "none"))
  <2>1. t = to_wif(k.data)
    BY <1>5, Zenon DEF to_string
  <2>2. t.words = << >> /\ t.body = b
    BY <2>1 DEF to_wif
  <2>3. ~b.empty /\ b.extra = 0 /\ b.data = k.data /\ b.check.fn = "sha256x2" /\ b.check.data = k.data
    BY DEF Body, Hash
  <2> HIDE DEF t, b
  <2>4. from_wif(b) = Ok([which |-> 1, data |-> Resized(b)])
    BY <2>3 DEF from_wif
  <2>5. Resized(b) = b.data
    BY <2>3 DEF Resized
  <2>6. Parse(kd, t) = from_wif(b)
    BY <1>5, <2>2, Zenon DEF Parse, priv_parse_base58
  <2>7. Parse(kd, t) = Ok(k)
    BY <2>3, <2>4, <2>5, <2>6, <1>0, <1>5
  <2> QED
    BY <2>7 DEF t
<1>6. CASE kd = "signature"
  <2>1. to_string(kd, k) = base58str(kd, k, 0)
    BY <1>6, Zenon DEF to_string
  <2> QED
    BY <2>1, <1>0, <1>1
<1> QED
  BY <1>2, <1>3, <1>4, <1>5, <1>6 DEF Kind

\* Printed keys.
LEMMA PrintedIsRead == ASSUME KeyCalls PROVE KeyTextRoundTrip
<1> SUFFICES ASSUME call.name = "print"
             PROVE  Parse(call.in.kind, to_string(call.in.kind, call.in.key)) = Ok(call.in.key)
  BY DEF KeyTextRoundTrip
<1>1. PICK kd \in Kind : call.in \in [kind : {kd}, key : Storage(kd)]
  BY DEF KeyCalls
<1>2. call.in.kind = kd /\ call.in.key \in Storage(kd)
  BY <1>1
<1> QED
  BY <1>2, TextReadBack

\* The checksum of a text with words binds kind and suite.
LEMMA SuitesAreBound == ASSUME KeyCalls PROVE SuiteBound
<1> DEFINE in == call.in
<1> SUFFICES ASSUME call.name = "read", Len(in.text.words) = 2, Parse(in.kind, in.text).ok,
                    NEW k \in Kind, NEW s \in {"K1", "R1", "WA"},
                    Parse(k, [in.text EXCEPT !.words = <<BasePrefix(in.kind), s>>]).ok
             PROVE  k = in.kind /\ s = in.text.words[2]
  BY DEF SuiteBound
<1> DEFINE t == in.text
           pair == <<BasePrefix(in.kind), s>>
           u == [t EXCEPT !.words = pair]
<1>1. in.kind \in Kind /\ t \in [words : Words, legacy : BOOLEAN, body : Bodies]
  BY DEF KeyCalls, ReadTexts
<1>2. t.words # << >>
  BY EmptySeq
<1>3. parse_words(in.kind, t).ok
  BY <1>1, <1>2, ParseOfWords
<1>4. t.body.check = Hash("ripemd160", t.body.data, t.words[2])
  BY <1>1, <1>3, WordsAccepted
<1>5. pair # << >> /\ pair[1] = BasePrefix(in.kind) /\ pair[2] = s
  OBVIOUS
<1>6. Parse(k, u).ok
  OBVIOUS
<1> HIDE DEF pair, t, in
<1>7. u.words = pair /\ u.body = t.body
  BY <1>1
<1> HIDE DEF u
<1>8. parse_words(k, u).ok
  BY <1>5, <1>6, <1>7, ParseOfWords
<1>9. u.words[1] = BasePrefix(k) /\ u.body.check = Hash("ripemd160", u.body.data, u.words[2])
  BY <1>8, WordsAccepted
<1>10. k = in.kind
  BY <1>1, <1>5, <1>7, <1>9, PrefixesApart
<1>11. Hash("ripemd160", t.body.data, s).prefix = Hash("ripemd160", t.body.data, t.words[2]).prefix
  BY <1>4, <1>5, <1>7, <1>9
<1>12. s = t.words[2]
  BY <1>11 DEF Hash
<1> QED
  BY <1>10, <1>12 DEF t

\* A text that is read is the one that is written.
LEMMA TextsAreUnique == ASSUME KeyCalls PROVE TextIsUnique
<1> DEFINE kd == call.in.kind
           t == call.in.text
           p == Parse(kd, t)
<1> SUFFICES ASSUME call.name = "read", kd # "private", p.ok
             PROVE  t = base58str(kd, p.value, 0) \/ t = to_string(kd, p.value)
  BY DEF TextIsUnique
<1>1. kd \in Kind /\ t \in [words : Words, legacy : BOOLEAN, body : Bodies] /\ (t.legacy => t.words = << >>)
  BY DEF KeyCalls, ReadTexts
<1>2. t = [words |-> t.words, legacy |-> t.legacy, body |-> t.body] /\ t.legacy \in BOOLEAN
  BY <1>1
<1>3. t.body = [empty |-> t.body.empty, data |-> t.body.data, extra |-> t.body.extra, check |-> t.body.check] /\ t.body.empty \in BOOLEAN
  <2>1. t.body \in Bodies
    BY <1>1
  <2> HIDE DEF t
  <2> QED
    BY <2>1 DEF Bodies
<1> HIDE DEF kd, t
<1>4. CASE t.words # << >>
  <2>1. p = parse_words(kd, t)
    BY <1>1, <1>4, ParseOfWords
  <2>2. /\ Len(t.words) = 2 /\ t.words[1] = BasePrefix(kd) /\ ~t.body.empty /\ t.body.extra = 0
        /\ t.body.check = Hash("ripemd160", t.body.data, t.words[2])
        /\ \E i \in 1..Len(Suites(kd)) : /\ Suites(kd)[i] = t.words[2]
                                         /\ parse_words(kd, t) = Ok([which |-> i, data |-> t.body.data])
    BY <2>1, <1>1, WordsAccepted
  <2>3. PICK i \in 1..Len(Suites(kd)) : Suites(kd)[i] = t.words[2] /\ p = Ok([which |-> i, data |-> t.body.data])
    BY <2>1, <2>2
  <2> DEFINE k == [which |-> i, data |-> t.body.data]
             w == t.words[2]
  <2>4. k.which = i /\ k.data = t.body.data /\ i # 0
    BY <1>1, SuitePlace
  <2>5. p.value = k
    BY <2>3 DEF Ok
  <2>6. t.words = <<BasePrefix(kd), w>>
    <3>1. t.words \in {"PUB", "PVT", "SIG"} \X {"K1", "R1", "WA", "??"}
      <4>1. t.words \in Words
        BY <1>1
      <4>2. \A b : Len(<<b>>) = 1
        OBVIOUS
      <4>3. Len(t.words) = 2
        BY <2>2
      <4> HIDE DEF w
      <4> QED
        BY <4>1, <4>2, <4>3, <1>4 DEF Words
    <3>2. t.words = <<t.words[1], t.words[2]>>
      BY <3>1
    <3> QED
      BY <3>2, <2>2
  <2>7. t.legacy = FALSE
    BY <1>1, <1>2, <1>4
  <2>8. t.body = Body(t.body.data, Hash("ripemd160", t.body.data, w))
    <3>1. t.body.empty = FALSE
      BY <2>2, <1>3
    <3> QED
      BY <3>1, <2>2, <1>3, Zenon DEF Body
  <2>9. base58str(kd, k, 0) = [words |-> <<BasePrefix(kd), Suites(kd)[k.which]>>, legacy |-> k.which = 0,
                               body |-> Body(k.data, Hash("ripemd160", k.data, Suites(kd)[k.which]))]
    <3> HIDE DEF k
    <3> QED
      BY <2>4 DEF base58str, calculate_checksum
  <2>10. (k.which = 0) = FALSE
    BY <2>4
  <2> HIDE DEF k, w
  <2>11. base58str(kd, k, 0) = [words |-> <<BasePrefix(kd), w>>, legacy |-> FALSE,
                                body |-> Body(t.body.data, Hash("ripemd160", t.body.data, w))]
    BY <2>3, <2>4, <2>9, <2>10, Zenon DEF w
  <2>12. t = base58str(kd, k, 0)
    BY <2>6, <2>7, <2>8, <2>11, <1>2, Zenon
  <2> QED
    BY <2>5, <2>12
<1>5. CASE t.words = << >>
  <2> DEFINE bad == Throw([which |-> 1, data |-> 0])
             k == [which |-> 1, data |-> t.body.data]
  <2>1. ~bad.ok
    BY DEF Throw
  <2>2. kd = "public"
    <3>1. kd # "signature"
      <4> SUFFICES ASSUME kd = "signature" PROVE FALSE
        OBVIOUS
      <4>1. p = parse_words(kd, t)
        BY Zenon DEF Parse, sig_parse_base58
      <4>2. Len(t.words) = 2
        BY <4>1, <1>1, WordsAccepted
      <4> QED
        BY <4>2, <1>5
    <3> QED
      BY <3>1, <1>1 DEF Kind
  <2>3. p = parse_base58(t)
    BY <2>2, Zenon DEF Parse
  <2>4. t.legacy /\ ~t.body.empty
    <3> SUFFICES ASSUME ~(t.legacy /\ ~t.body.empty) PROVE FALSE
      OBVIOUS
    <3>1. p = parse_words("public", t)
      BY <2>3, Zenon DEF parse_base58
    <3>2. Len(t.words) = 2
      BY <3>1, WordsAccepted DEF Kind
    <3> QED
      BY <3>2, <1>5
  <2>5. p = IF Unpacks(t.body) /\ calculate_checksum(t.body.data, "none") = t.body.check THEN Ok(k) ELSE bad
    BY <2>3, <2>4, <1>5, Zenon DEF parse_base58
  <2> HIDE DEF bad
  <2>6. Unpacks(t.body) /\ t.body.check = Hash("ripemd160", t.body.data, "none") /\ p = Ok(k)
    BY <2>1, <2>5 DEF calculate_checksum
  <2>7. p.value = k /\ k.which = 1 /\ k.data = t.body.data
    BY <2>6 DEF Ok
  <2>8. t.body = Body(t.body.data, Hash("ripemd160", t.body.data, "none"))
    <3>1. t.body.empty = FALSE /\ t.body.extra = 0
      BY <2>4, <2>6, <1>3 DEF Unpacks
    <3> QED
      BY <3>1, <2>6, <1>3, Zenon DEF Body
  <2> HIDE DEF k
  <2>9. base58str(kd, k, 1) = [words |-> << >>, legacy |-> k.which = 1, body |-> Body(k.data, Hash("ripemd160", k.data, "none"))]
    BY <2>7 DEF base58str, calculate_checksum
  <2>10. (k.which = 1) = TRUE /\ t.legacy = TRUE
    BY <2>4, <2>7, <1>2
  <2>11. t = base58str(kd, k, 1)
    BY <2>7, <2>8, <2>9, <2>10, <1>2, <1>5, Zenon
  <2>12. to_string(kd, k) = base58str(kd, k, 1)
    BY <2>2, Zenon DEF to_string
  <2> QED
    BY <2>7, <2>11, <2>12
<1> QED
  BY <1>4, <1>5

\* Keys are ordered by suite, then by bytes.
LEMMA KeysAreOrdered == ASSUME KeyCalls PROVE KeyOrder
<1> SUFFICES ASSUME call.name = "compare"
             PROVE  LET a == call.in[1]
                        b == call.in[2]
                        c == call.in[3]
                    IN  /\ eq_comparator(a, b) \/ less_comparator(a, b) \/ less_comparator(b, a)
                        /\ ~(less_comparator(a, b) /\ (eq_comparator(a, b) \/ less_comparator(b, a)))
                        /\ less_comparator(a, b) /\ less_comparator(b, c) => less_comparator(a, c)
  BY DEF KeyOrder
<1> DEFINE a == call.in[1]
           b == call.in[2]
           c == call.in[3]
<1>1. PICK kd \in Kind : call.in \in Storage(kd) \X Storage(kd) \X Storage(kd)
  BY DEF KeyCalls
<1>2. a \in Storage(kd) /\ b \in Storage(kd) /\ c \in Storage(kd)
  BY <1>1
<1> HIDE DEF a, b, c
<1>3. \A x \in Storage(kd) : x.which \in Int /\ x.data \in Int
  BY SuitePlace, KeysAssumption DEF Storage, Data
<1>4. /\ eq_comparator(a, b) \/ less_comparator(a, b) \/ less_comparator(b, a)
      /\ ~(less_comparator(a, b) /\ (eq_comparator(a, b) \/ less_comparator(b, a)))
      /\ less_comparator(a, b) /\ less_comparator(b, c) => less_comparator(a, c)
  BY <1>2, <1>3 DEF eq_comparator, less_comparator
<1> QED
  BY <1>4 DEF a, b, c

-----------------------------------------------------------------------------
(* Arithmetic modulo the order. *)

\* Numbers that differ by a multiple of the order.
Cong(a, b) == \E q \in Int : a = b + Order * q

\* The order and its half.
LEMMA OrderIs == Order \in Nat \ {0}
  BY EllipticAssumption

\* Division with a remainder.
LEMMA DivMod ==
  ASSUME NEW n \in Nat \ {0}, NEW a \in Int
  PROVE  a % n \in Int /\ 0 <= a % n /\ a % n < n /\ a \div n \in Int /\ a = n * (a \div n) + (a % n)
<1>1. a % n \in 0..(n - 1)
  OBVIOUS
<1>2. a \div n \in Int
  OBVIOUS
<1>3. a = n * (a \div n) + (a % n)
  OBVIOUS
<1> QED
  BY <1>1, <1>2, <1>3

\* A remainder.
LEMMA Remainder ==
  ASSUME NEW a \in Int
  PROVE  /\ a % Order \in Int /\ 0 <= a % Order /\ a % Order < Order
         /\ \E q \in Int : a = (a % Order) + Order * q
<1>0. Order \in Nat \ {0}
  BY OrderIs
<1> DEFINE r == a % Order
           t == a \div Order
<1>1. r \in Int /\ 0 <= r /\ r < Order /\ t \in Int /\ a = Order * t + r
  BY <1>0, DivMod
<1> HIDE DEF r, t
<1>2. a = r + Order * t
  BY <1>0, <1>1
<1> QED
  BY <1>1, <1>2 DEF r

\* The remainder is the only number below the order that differs by a multiple.
LEMMA OneRemainder ==
  ASSUME NEW q \in Int, NEW r \in Int, NEW s \in Int, 0 <= r, r < Order, 0 <= s, s < Order, r = s + Order * q
  PROVE  r = s
<1>0. Order \in Nat \ {0}
  BY OrderIs
<1>1. q >= 1 => Order * q >= Order
  BY <1>0
<1>2. q <= -1 => Order * q <= -Order
  BY <1>0
<1>3. q = 0 => Order * q = 0
  BY <1>0
<1> DEFINE p == Order * q
<1>4. p \in Int
  BY <1>0
<1> HIDE DEF p
<1> QED
  BY <1>0, <1>1, <1>2, <1>3, <1>4 DEF p

\* Numbers that differ by a multiple have one remainder, and the reverse.
LEMMA CongIs ==
  ASSUME NEW a \in Int, NEW b \in Int
  PROVE  Cong(a, b) <=> a % Order = b % Order
<1>0. Order \in Nat \ {0}
  BY OrderIs
<1> DEFINE r == a % Order
           s == b % Order
<1>1. r \in Int /\ 0 <= r /\ r < Order /\ s \in Int /\ 0 <= s /\ s < Order
  BY Remainder
<1>2. PICK p \in Int : a = r + Order * p
  BY Remainder
<1>3. PICK q \in Int : b = s + Order * q
  BY Remainder
<1> HIDE DEF r, s
<1>4. ASSUME Cong(a, b) PROVE r = s
  <2>1. PICK u \in Int : a = b + Order * u
    BY <1>4 DEF Cong
  <2>2. r = s + Order * (q + u - p)
    BY <2>1, <1>0, <1>1, <1>2, <1>3
  <2> QED
    BY <2>2, <1>1, OneRemainder
<1>5. ASSUME r = s PROVE Cong(a, b)
  <2>1. a = b + Order * (p - q)
    BY <1>5, <1>0, <1>1, <1>2, <1>3
  <2> QED
    BY <2>1 DEF Cong
<1> QED
  BY <1>4, <1>5 DEF r, s

\* Congruence goes with sums and products.
LEMMA CongAlgebra ==
  ASSUME NEW a \in Int, NEW b \in Int, NEW c \in Int, NEW d \in Int, Cong(a, b), Cong(c, d)
  PROVE  Cong(a + c, b + d) /\ Cong(a - c, b - d) /\ Cong(a * c, b * d)
<1>0. Order \in Nat \ {0}
  BY OrderIs
<1>1. PICK p \in Int : a = b + Order * p
  BY DEF Cong
<1>2. PICK q \in Int : c = d + Order * q
  BY DEF Cong
<1>3. a + c = b + d + Order * (p + q) /\ a - c = b - d + Order * (p - q)
  BY <1>0, <1>1, <1>2
<1>4. a * c = b * d + Order * (b * q + p * d + p * (Order * q))
  BY <1>0, <1>1, <1>2
<1>5. p + q \in Int /\ p - q \in Int /\ b * q + p * d + p * (Order * q) \in Int
  BY <1>0
<1> QED
  BY <1>3, <1>4, <1>5 DEF Cong

\* Congruence is an equivalence, and a number is congruent to its remainder.
LEMMA CongOrder ==
  /\ \A a \in Int : Cong(a, a) /\ Cong(a % Order, a) /\ Cong(a, a % Order) /\ a % Order \in Int
  /\ \A a, b \in Int : Cong(a, b) => Cong(b, a)
  /\ \A a, b, c \in Int : Cong(a, b) /\ Cong(b, c) => Cong(a, c)
<1>1. \A a \in Int : Cong(a, a) /\ Cong(a % Order, a) /\ Cong(a, a % Order) /\ a % Order \in Int
  <2> SUFFICES ASSUME NEW a \in Int PROVE Cong(a, a) /\ Cong(a % Order, a) /\ Cong(a, a % Order) /\ a % Order \in Int
    OBVIOUS
  <2> DEFINE r == a % Order
  <2>1. r \in Int /\ 0 <= r /\ r < Order
    BY Remainder
  <2>2. PICK q \in Int : a = r + Order * q
    BY Remainder
  <2>3. Cong(a, a)
    BY CongIs
  <2> HIDE DEF r
  <2>4. Cong(a, r)
    BY <2>2 DEF Cong
  <2>5. r = a + Order * (-q)
    BY <2>1, <2>2, OrderIs
  <2>6. Cong(r, a)
    BY <2>5 DEF Cong
  <2> QED
    BY <2>1, <2>3, <2>4, <2>6 DEF r
<1>2. \A a, b \in Int : Cong(a, b) => Cong(b, a)
  BY CongIs
<1>3. \A a, b, c \in Int : Cong(a, b) /\ Cong(b, c) => Cong(a, c)
  BY CongIs
<1> QED
  BY <1>1, <1>2, <1>3

-----------------------------------------------------------------------------
(* The group. *)

\* What the assumption says, for numbers below the order.
LEMMA CurveFacts ==
  /\ Order \in Nat \ {0} /\ Field \in Nat /\ Order < Field /\ Field < 2 * Order
  /\ \A k \in 1..Order - 1 : /\ k \in Int /\ XOf[k] \in 0..(Field - 1) /\ OddY[k] \in BOOLEAN
                             /\ Order - k \in 1..Order - 1
                             /\ XOf[k] = XOf[Order - k] /\ OddY[k] # OddY[Order - k]
  /\ \A j, k \in 1..Order - 1 : XOf[j] = XOf[k] => j = k \/ j = Order - k
<1>0. Order \in Nat \ {0} /\ Field \in Nat /\ Order < Field /\ Field < 2 * Order
  BY EllipticAssumption
<1>1. \A k \in 1..Order - 1 : k \in Int /\ Order - k \in 1..Order - 1
  BY <1>0
<1>2. \A k \in 1..Order - 1 : XOf[k] \in 0..(Field - 1) /\ OddY[k] \in BOOLEAN
  BY EllipticAssumption
<1> QED
  BY <1>0, <1>1, <1>2, EllipticAssumption

\* BN_mod_inverse: the inverse of a number below the order.
LEMMA ModInverse ==
  ASSUME NEW a \in 1..Order - 1
  PROVE  BN_mod_inverse(a) \in 1..Order - 1 /\ BN_mod_inverse(a) \in Int /\ Cong(a * BN_mod_inverse(a), 1)
<1>1. \E b \in 1..Order - 1 : (a * b) % Order = 1
  BY EllipticAssumption
<1> DEFINE b == BN_mod_inverse(a)
<1>2. b \in 1..Order - 1 /\ (a * b) % Order = 1
  BY <1>1, Zenon DEF BN_mod_inverse
<1> HIDE DEF b
<1>3. a \in Int /\ b \in Int /\ a * b \in Int
  BY <1>2, OrderIs
<1>4. Cong(a * b, 1)
  <2> DEFINE c == a * b
  <2>1. Cong(c, c % Order)
    BY <1>3, CongOrder
  <2> QED
    BY <2>1, <1>2
<1> QED
  BY <1>2, <1>3, <1>4 DEF b

\* The order is odd: no point is its own negative.
LEMMA OddOrder ==
  /\ HalfOrder \in Nat /\ Order = 2 * HalfOrder + 1
<1>0. Order \in Nat \ {0}
  BY OrderIs
<1> DEFINE h == Order \div 2
<1>1. h \in Nat /\ (Order = 2 * h \/ Order = 2 * h + 1)
  BY <1>0
<1> HIDE DEF h
<1>2. Order # 2 * h
  <2> SUFFICES ASSUME Order = 2 * h PROVE FALSE
    OBVIOUS
  <2>1. h \in 1..Order - 1 /\ Order - h = h
    BY <1>0, <1>1
  <2>2. OddY[h] # OddY[Order - h]
    BY <2>1, CurveFacts
  <2> QED
    BY <2>1, <2>2
<1> QED
  BY <1>1, <1>2 DEF h, HalfOrder

\* The key that is recovered from a point.
KeyAt(r, s, e, R) ==
  LET rr == BN_mod_inverse(r % Order)
  IN  ((((Order - (e % Order)) * rr) % Order) + ((((s * rr) % Order) * R) % Order)) % Order

\* r1_recover_key finds at most one point.
LEMMA RecoveredKey ==
  ASSUME NEW sig, NEW e, NEW i
  PROVE  /\ r1_recover_key(sig, e, i)
              = {KeyAt(sig.r, sig.s, e, R) : R \in IF sig.r + Order * (i \div 2) < Field /\ sig.r % Order # 0
                                                   THEN PointsAt(sig.r + Order * (i \div 2), i % 2 = 1) ELSE {}}
  BY Zenon DEF r1_recover_key, KeyAt

\* There is one point with a coordinate and a parity.
LEMMA OnePoint ==
  ASSUME NEW x, NEW odd, NEW k \in PointsAt(x, odd)
  PROVE  PointsAt(x, odd) = {k}
<1> SUFFICES ASSUME NEW j \in PointsAt(x, odd) PROVE j = k
  OBVIOUS
<1>1. j \in 1..Order - 1 /\ k \in 1..Order - 1 /\ XOf[j] = XOf[k] /\ OddY[j] = OddY[k]
  BY DEF PointsAt
<1>2. j = k \/ j = Order - k
  BY <1>1, CurveFacts
<1>3. OddY[k] # OddY[Order - k]
  BY <1>1, CurveFacts
<1> QED
  BY <1>1, <1>2, <1>3

\* The terms of the recovered key, without the remainders taken in between.
LEMMA KeyCong ==
  ASSUME NEW r \in Int, NEW s \in Int, NEW e \in Int, NEW R \in Int, r % Order # 0
  PROVE  LET rr == BN_mod_inverse(r % Order)
         IN  /\ rr \in Int /\ Cong(r * rr, 1)
             /\ KeyAt(r, s, e, R) \in Int /\ 0 <= KeyAt(r, s, e, R) /\ KeyAt(r, s, e, R) < Order
             /\ Cong(KeyAt(r, s, e, R), (s * R) * rr - e * rr)
<1>0. Order \in Nat \ {0} /\ Order \in Int
  BY OrderIs
<1> DEFINE rm == r % Order
           rr == BN_mod_inverse(rm)
           em == e % Order
           a == (Order - em) * rr
           b == s * rr
           am == a % Order
           bm == b % Order
           c == bm * R
           cm == c % Order
           q == (am + cm) % Order
<1>1. rm \in Int /\ 0 <= rm /\ rm < Order
  BY Remainder
<1>2. rm \in 1..Order - 1
  BY <1>0, <1>1
<1>3. rr \in Int /\ Cong(rm * rr, 1)
  BY <1>2, ModInverse
<1>4. Cong(rm, r) /\ Cong(r, rm)
  BY CongOrder
<1> HIDE DEF rm, rr
<1>5. Cong(r * rr, 1)
  <2>1. Cong(r * rr, rm * rr)
    BY <1>1, <1>3, <1>4, CongOrder, CongAlgebra
  <2>2. r * rr \in Int /\ rm * rr \in Int
    BY <1>1, <1>3
  <2> QED
    BY <2>1, <2>2, <1>3, CongOrder
<1>6. em \in Int /\ Cong(em, e)
  BY CongOrder
<1> HIDE DEF em
<1>7. a \in Int /\ b \in Int
  BY <1>0, <1>3, <1>6
<1>8. Cong(a, -(e * rr))
  <2>1. Cong(Order, 0)
    <3>1. Order = 0 + Order * 1
      BY <1>0
    <3> QED
      BY <3>1 DEF Cong
  <2>2. Cong(Order - em, 0 - e)
    BY <2>1, <1>0, <1>6, CongAlgebra
  <2>3. Order - em \in Int /\ 0 - e \in Int /\ Cong(rr, rr)
    BY <1>0, <1>3, <1>6, CongOrder
  <2>4. Cong((Order - em) * rr, (0 - e) * rr)
    BY <2>2, <2>3, <1>3, CongAlgebra
  <2>5. (0 - e) * rr = -(e * rr)
    BY <1>3
  <2> QED
    BY <2>4, <2>5
<1>9. am \in Int /\ Cong(am, a) /\ bm \in Int /\ Cong(bm, b)
  <2> HIDE DEF a, b
  <2> QED
    BY <1>7, CongOrder
<1> HIDE DEF am, bm
<1>10. c \in Int
  BY <1>9
<1>11. cm \in Int /\ Cong(cm, c)
  <2> HIDE DEF c
  <2> QED
    BY <1>10, CongOrder
<1>12. Cong(c, (s * R) * rr)
  <2>1. Cong(bm * R, b * R)
    <3> HIDE DEF b
    <3> QED
      BY <1>7, <1>9, CongOrder, CongAlgebra
  <2>2. b * R = (s * R) * rr
    BY <1>3
  <2> QED
    BY <2>1, <2>2
<1> HIDE DEF a, cm
<1>13. Cong(am, -(e * rr)) /\ Cong(cm, (s * R) * rr)
  <2>1. -(e * rr) \in Int /\ (s * R) * rr \in Int
    BY <1>3
  <2> QED
    BY <2>1, <1>7, <1>8, <1>9, <1>10, <1>11, <1>12, CongOrder
<1>14. Cong(am + cm, (s * R) * rr - e * rr)
  <2> DEFINE u == -(e * rr)
             v == (s * R) * rr
  <2>1. u \in Int /\ v \in Int /\ u + v = (s * R) * rr - e * rr
    BY <1>3
  <2>2. Cong(am + cm, u + v)
    <3> HIDE DEF u, v
    <3> QED
      BY <2>1, <1>9, <1>11, <1>13, CongAlgebra DEF u, v
  <2> QED
    BY <2>1, <2>2
<1>15. q \in Int /\ 0 <= q /\ q < Order /\ Cong(q, am + cm)
  <2> DEFINE u == am + cm
  <2>1. u \in Int
    BY <1>9, <1>11
  <2> HIDE DEF u
  <2>2. u % Order \in Int /\ 0 <= u % Order /\ u % Order < Order /\ Cong(u % Order, u)
    BY <2>1, Remainder, CongOrder
  <2> QED
    BY <2>2 DEF u
<1>16. q = KeyAt(r, s, e, R)
  BY DEF q, KeyAt, rm, rr, em, a, am, b, bm, c, cm
<1>17. Cong(q, (s * R) * rr - e * rr)
  <2>1. (s * R) * rr - e * rr \in Int /\ am + cm \in Int
    BY <1>3, <1>9, <1>11
  <2> QED
    BY <2>1, <1>14, <1>15, CongOrder
<1> HIDE DEF q
<1> QED
  BY <1>3, <1>5, <1>15, <1>16, <1>17 DEF rr, rm

\* A number below the order is the remainder of what it is congruent to.
LEMMA RemainderOf ==
  ASSUME NEW a \in Int, NEW b \in Int, 0 <= a, a < Order, Cong(a, b)
  PROVE  a = b % Order
<1>1. b % Order \in Int /\ 0 <= b % Order /\ b % Order < Order /\ Cong(b, b % Order)
  BY Remainder, CongOrder
<1>2. Cong(a, b % Order)
  BY <1>1, CongOrder
<1>3. PICK q \in Int : a = (b % Order) + Order * q
  BY <1>2 DEF Cong
<1> QED
  BY <1>1, <1>3, OneRemainder

\* The point of the nonce gives the key of the secret.
LEMMA KeyOfSecret ==
  ASSUME NEW r \in Int, NEW s \in Int, NEW e \in Int, NEW R \in Int, NEW d \in Int,
         r % Order # 0, Cong(s * R, e + r * d)
  PROVE  KeyAt(r, s, e, R) = d % Order
<1> DEFINE rr == BN_mod_inverse(r % Order)
           k == KeyAt(r, s, e, R)
<1>1. /\ rr \in Int /\ Cong(r * rr, 1) /\ k \in Int /\ 0 <= k /\ k < Order
      /\ Cong(k, (s * R) * rr - e * rr)
  BY KeyCong
<1> HIDE DEF rr, k
<1> DEFINE a == s * R
           b == e + r * d
           o == r * rr
<1>2. a \in Int /\ b \in Int /\ o \in Int /\ a * rr \in Int /\ b * rr \in Int /\ e * rr \in Int /\ o * d \in Int
      /\ a * rr - e * rr \in Int /\ b * rr - e * rr \in Int
  BY <1>1
<1>3. Cong(a, b) /\ Cong(rr, rr) /\ Cong(e * rr, e * rr) /\ Cong(d, d)
  BY <1>1, <1>2, CongOrder
<1>4. b * rr - e * rr = o * d
  BY <1>1
<1>5. Cong(o, 1)
  BY <1>1
<1>6. Cong(k, a * rr - e * rr)
  BY <1>1
<1> HIDE DEF a, b, o
<1>7. Cong(a * rr, b * rr)
  BY <1>1, <1>2, <1>3, CongAlgebra
<1>8. Cong(a * rr - e * rr, b * rr - e * rr)
  <2> DEFINE x == a * rr
             y == b * rr
             z == e * rr
  <2>1. x \in Int /\ y \in Int /\ z \in Int /\ Cong(x, y) /\ Cong(z, z)
    BY <1>2, <1>3, <1>7
  <2> HIDE DEF x, y, z
  <2>2. Cong(x - z, y - z)
    BY <2>1, CongAlgebra
  <2> QED
    BY <2>2 DEF x, y, z
<1>9. Cong(o * d, 1 * d)
  BY <1>2, <1>3, <1>5, CongAlgebra
<1>10. Cong(o * d, d)
  <2>1. 1 * d = d
    OBVIOUS
  <2> QED
    BY <2>1, <1>9
<1>11. Cong(k, d)
  <2> DEFINE x == a * rr - e * rr
             y == o * d
  <2>1. x \in Int /\ y \in Int /\ Cong(k, x) /\ Cong(x, y) /\ Cong(y, d)
    BY <1>2, <1>4, <1>6, <1>8, <1>10
  <2> HIDE DEF x, y
  <2>2. Cong(k, y)
    BY <2>1, <1>1, CongOrder
  <2> QED
    BY <2>1, <2>2, <1>1, CongOrder
<1> QED
  BY <1>1, <1>11, RemainderOf DEF k

\* ECDSA: the signature satisfies the equation that recovery solves.
LEMMA SignatureIs ==
  ASSUME NEW d \in Nat, NEW e \in Nat, NEW k \in 1..Order - 1, NEW raw \in ECDSA_do_sign(d, e, k)
  PROVE  /\ raw.r = XOf[k] % Order /\ raw.r \in 1..Order - 1 /\ raw.s \in 1..Order - 1
         /\ Cong(raw.s * k, e + raw.r * d)
<1>0. Order \in Nat \ {0} /\ k \in Int /\ XOf[k] \in 0..(Field - 1) /\ Field \in Nat
  BY CurveFacts
<1> DEFINE r == XOf[k] % Order
           kk == BN_mod_inverse(k)
           m == e + r * d
           v == kk * m
           s == v % Order
<1>1. raw = [r |-> r, s |-> s] /\ r # 0 /\ s # 0
  BY DEF ECDSA_do_sign
<1>2. r \in Int /\ 0 <= r /\ r < Order
  <2>1. XOf[k] \in Int
    BY <1>0
  <2> QED
    BY <2>1, Remainder
<1>3. kk \in Int /\ Cong(k * kk, 1)
  BY ModInverse
<1> HIDE DEF r, kk
<1>4. m \in Int /\ v \in Int
  BY <1>2, <1>3
<1>5. s \in Int /\ 0 <= s /\ s < Order /\ Cong(s, v)
  <2> HIDE DEF v
  <2> QED
    BY <1>4, Remainder, CongOrder
<1> HIDE DEF s
<1>6. Cong(s * k, m)
  <2> DEFINE o == k * kk
  <2>1. o \in Int /\ v * k = o * m /\ v * k \in Int /\ o * m \in Int /\ 1 * m = m /\ s * k \in Int
    BY <1>0, <1>3, <1>4, <1>5
  <2>2. Cong(o, 1) /\ Cong(m, m) /\ Cong(k, k)
    BY <1>0, <1>3, <1>4, CongOrder
  <2> HIDE DEF o, m, v
  <2>3. Cong(s * k, v * k)
    BY <1>0, <1>4, <1>5, <2>2, CongAlgebra
  <2>4. Cong(o * m, 1 * m)
    BY <1>4, <2>1, <2>2, CongAlgebra
  <2>5. Cong(s * k, o * m) /\ Cong(o * m, m)
    BY <2>1, <2>3, <2>4
  <2> QED
    BY <2>1, <2>5, <1>4, CongOrder
<1>7. raw.r = r /\ raw.s = s
  BY <1>1
<1>8. r \in 1..Order - 1 /\ s \in 1..Order - 1
  BY <1>0, <1>1, <1>2, <1>5
<1> QED
  BY <1>6, <1>7, <1>8 DEF r

\* The recovery id of a signature whose s was made low.
RecId(k, s) == 2 * (XOf[k] \div Order) + (IF OddY[k] # (s > HalfOrder) THEN 1 ELSE 0)
\* The point it belongs to.
LowPoint(k, s) == IF s > HalfOrder THEN Order - k ELSE k

\* With a low s the point is the nonce's or its negative, and the id says which.
LEMMA LowSigned ==
  ASSUME NEW d \in Nat, NEW e \in Nat, NEW k \in 1..Order - 1, NEW raw \in ECDSA_do_sign(d, e, k)
  PROVE  /\ LowS(raw.s) \in 1..HalfOrder /\ RecId(k, raw.s) \in 0..3
         /\ \A sig : sig.r = raw.r /\ sig.s = LowS(raw.s) => r1_recover_key(sig, e, RecId(k, raw.s)) = {d % Order}
<1> DEFINE r == raw.r
           s == raw.s
           l == LowS(s)
           P == LowPoint(k, s)
           i == RecId(k, s)
           x == XOf[k]
<1>0. /\ Order \in Nat \ {0} /\ Field \in Nat /\ Field < 2 * Order /\ k \in Int /\ x \in 0..(Field - 1)
      /\ OddY[k] \in BOOLEAN /\ Order - k \in 1..Order - 1 /\ OddY[Order - k] \in BOOLEAN
      /\ XOf[Order - k] = x /\ OddY[k] # OddY[Order - k]
  BY CurveFacts
<1>1. r = x % Order /\ r \in 1..Order - 1 /\ s \in 1..Order - 1 /\ Cong(s * k, e + r * d)
  BY SignatureIs
<1>2. HalfOrder \in Nat /\ Order = 2 * HalfOrder + 1
  BY OddOrder
<1> HIDE DEF r, s, x
<1>3. l \in 1..HalfOrder /\ l \in Int /\ P \in 1..Order - 1 /\ P \in Int /\ XOf[P] = x
  BY <1>0, <1>1, <1>2 DEF LowS, LowPoint, x
<1>4. Cong(l * P, e + r * d)
  <2>1. CASE ~(s > HalfOrder)
    BY <2>1, <1>1 DEF LowS, LowPoint
  <2>2. CASE s > HalfOrder
    <3>1. l = Order - s /\ P = Order - k
      BY <2>2 DEF LowS, LowPoint
    <3>2. l * P = s * k + Order * (Order - s - k)
      BY <3>1, <1>0, <1>1
    <3>3. Cong(l * P, s * k)
      <4>1. Order - s - k \in Int
        BY <1>0, <1>1
      <4> QED
        BY <3>2, <4>1 DEF Cong
    <3>4. l * P \in Int /\ s * k \in Int /\ e + r * d \in Int
      BY <1>0, <1>1, <1>3
    <3> HIDE DEF l, P
    <3> QED
      BY <3>3, <3>4, <1>1, CongOrder
  <2> QED
    BY <2>1, <2>2
<1>5. PICK t \in {0, 1} : x \div Order = t /\ x = Order * t + r
  <2> DEFINE u == x \div Order
  <2>1. x \in Int /\ u \in Int /\ x = Order * u + r /\ 0 <= r /\ r < Order
    BY <1>0, <1>1, DivMod
  <2> HIDE DEF u
  <2>2. u >= 2 => Order * u >= 2 * Order
    BY <2>1, <1>0
  <2>3. u <= -1 => Order * u <= -Order
    BY <2>1, <1>0
  <2> DEFINE w == Order * u
  <2>4. w \in Int
    BY <2>1, <1>0
  <2>6. x = w + r /\ (u >= 2 => w >= 2 * Order) /\ (u <= -1 => w <= -Order)
    BY <2>1, <2>2, <2>3
  <2> HIDE DEF w
  <2>7. x < 2 * Order /\ x >= 0
    BY <1>0
  <2>5. u = 0 \/ u = 1
    <3>1. u \in Int /\ r \in Int /\ x \in Int /\ Order \in Int /\ 0 <= r /\ r < Order
      BY <2>1, <1>0, <1>1
    <3>2. ~(u >= 2)
      BY <3>1, <2>4, <2>6, <2>7
    <3>3. ~(u <= -1)
      BY <3>1, <2>4, <2>6, <2>7
    <3> QED
      BY <3>1, <3>2, <3>3
  <2> QED
    BY <2>1, <2>5 DEF u
<1>6. PICK b \in {0, 1} : i = 2 * t + b /\ OddY[P] = (b = 1)
  <2> DEFINE g == OddY[k] # (s > HalfOrder)
             b == IF g THEN 1 ELSE 0
  <2>1. i = 2 * t + b
    BY <1>5 DEF RecId, x
  <2>2. g <=> OddY[P] = TRUE
    <3>1. CASE s > HalfOrder
      <4>1. (s > HalfOrder) = TRUE /\ P = Order - k
        BY <3>1 DEF LowPoint
      <4>2. g <=> OddY[k] # TRUE
        BY <4>1, Zenon
      <4>3. OddY[k] # TRUE <=> OddY[Order - k] = TRUE
        <5>1. OddY[k] = TRUE \/ OddY[k] = FALSE
          BY <1>0, Zenon
        <5>2. OddY[Order - k] = TRUE \/ OddY[Order - k] = FALSE
          BY <1>0, Zenon
        <5>3. OddY[k] # OddY[Order - k]
          BY <1>0
        <5>4. ASSUME OddY[k] # TRUE PROVE OddY[Order - k] = TRUE
          <6>1. OddY[k] = FALSE
            BY <5>1, <5>4, Zenon
          <6>2. OddY[Order - k] # FALSE
            BY <5>3, <6>1, Zenon
          <6> QED
            BY <5>2, <6>2, Zenon
        <5>5. ASSUME OddY[Order - k] = TRUE PROVE OddY[k] # TRUE
          BY <5>3, <5>5, Zenon
        <5> QED
          BY <5>4, <5>5, Zenon
      <4> QED
        BY <4>1, <4>2, <4>3, Zenon
    <3>2. CASE ~(s > HalfOrder)
      <4>1. (s > HalfOrder) = FALSE /\ P = k
        BY <3>2 DEF LowPoint
      <4>2. g <=> OddY[k] # FALSE
        BY <4>1, Zenon
      <4>3. OddY[k] # FALSE <=> OddY[k] = TRUE
        BY <1>0, Zenon
      <4> QED
        BY <4>1, <4>2, <4>3, Zenon
    <3> QED
      BY <3>1, <3>2
  <2>3. OddY[P] \in BOOLEAN
    BY <1>3, CurveFacts
  <2> HIDE DEF g
  <2>4. b \in {0, 1} /\ (g <=> b = 1)
    OBVIOUS
  <2> HIDE DEF b, P
  <2>5. OddY[P] = (b = 1)
    <3>1. CASE g
      <4>1. OddY[P] = TRUE /\ (b = 1) = TRUE
        BY <3>1, <2>2, <2>4
      <4> QED
        BY <4>1, Zenon
    <3>2. CASE ~g
      <4>1. OddY[P] = FALSE
        BY <3>2, <2>2, <2>3, Zenon
      <4>2. (b = 1) = FALSE
        BY <3>2, <2>4
      <4> QED
        BY <4>1, <4>2, Zenon
    <3> QED
      BY <3>1, <3>2
  <2> QED
    BY <2>1, <2>4, <2>5
<1> HIDE DEF i, l, P
<1>7. i \in 0..3 /\ i \div 2 = t /\ i % 2 = b
  BY <1>5, <1>6
<1>8. ASSUME NEW sig, sig.r = r, sig.s = l PROVE r1_recover_key(sig, e, i) = {d % Order}
  <2>1. r + Order * (i \div 2) = x /\ x < Field
    BY <1>0, <1>1, <1>5, <1>7
  <2>2. r % Order = r /\ r # 0 /\ r \in Int
    BY <1>0, <1>1
  <2>3. P \in PointsAt(x, i % 2 = 1)
    <3>1. OddY[P] = (i % 2 = 1)
      BY <1>6, <1>7, Zenon
    <3> QED
      BY <3>1, <1>3, Zenon DEF PointsAt
  <2>4. PointsAt(x, i % 2 = 1) = {P}
    BY <2>3, OnePoint
  <2>5. KeyAt(r, l, e, P) = d % Order
    BY <2>2, <1>3, <1>4, KeyOfSecret
  <2>6. r1_recover_key(sig, e, i) = {KeyAt(r, l, e, R) : R \in {P}}
    <3>1. sig.r + Order * (i \div 2) < Field /\ sig.r % Order # 0
      BY <2>1, <2>2, <1>8
    <3>2. PointsAt(sig.r + Order * (i \div 2), i % 2 = 1) = {P}
      BY <2>1, <2>4, <1>8
    <3> QED
      BY <3>1, <3>2, <1>8, RecoveredKey
  <2> QED
    BY <2>5, <2>6
<1> QED
  BY <1>3, <1>7, <1>8 DEF l, i, r, s

-----------------------------------------------------------------------------
(* Signatures and keys. *)

\* The calls have inputs of their kinds.
CurveCalls ==
  /\ call.name = "sign" => call.in \in [secret : Word256, digest : Word256, nonce : 1..Order - 1]
  /\ call.name = "recover" => call.in \in [c : Compact, digest : {0, 3, Order}]
  /\ call.name = "derive" => call.in \in [secret : Word256, offset : Word256]

\* Words are numbers.
LEMMA WordsAreNumbers == Word256 \subseteq Nat
  BY EllipticAssumption DEF Word256

\* The result depends on r and s only.
LEMMA SameRS ==
  ASSUME NEW a, NEW b, NEW e, NEW i, a.r = b.r, a.s = b.s
  PROVE  r1_recover_key(a, e, i) = r1_recover_key(b, e, i)
  BY RecoveredKey

\* r1: the search for the id ends with one that gives the signer's key.
LEMMA SignsR1 ==
  ASSUME NEW d \in Nat, NEW e \in Nat, NEW k \in 1..Order - 1
  PROVE  /\ r1_sign_compact(d, e, k) = {} => ECDSA_do_sign(d, e, k) = {}
         /\ \A c \in r1_sign_compact(d, e, k) : /\ r1_recover(c, e) = {r1_public(d)}
                                                /\ webauthn_recover(c, e) = {r1_public(d)} \ {Infinity}
<1> DEFINE pub == r1_public(d)
           sig(raw) == [r |-> raw.r, s |-> LowS(raw.s)]
           ids(raw) == {i \in 0..3 : r1_recover_key(sig(raw), e, i) = {pub}}
           least(raw) == {j \in ids(raw) : \A l \in ids(raw) : j <= l}
           form(raw) == {[header |-> i + 27 + 4, r |-> sig(raw).r, s |-> sig(raw).s] : i \in least(raw)}
<1>1. \A raw \in ECDSA_do_sign(d, e, k) : LowS(raw.s) \in 1..HalfOrder /\ ids(raw) # {}
  <2> SUFFICES ASSUME NEW raw \in ECDSA_do_sign(d, e, k) PROVE LowS(raw.s) \in 1..HalfOrder /\ ids(raw) # {}
    OBVIOUS
  <2>1. /\ LowS(raw.s) \in 1..HalfOrder /\ RecId(k, raw.s) \in 0..3
        /\ \A g : g.r = raw.r /\ g.s = LowS(raw.s) => r1_recover_key(g, e, RecId(k, raw.s)) = {d % Order}
    BY LowSigned
  <2>2. sig(raw).r = raw.r /\ sig(raw).s = LowS(raw.s)
    OBVIOUS
  <2> HIDE DEF sig
  <2>3. r1_recover_key(sig(raw), e, RecId(k, raw.s)) = {pub}
    BY <2>1, <2>2 DEF r1_public
  <2>4. RecId(k, raw.s) \in ids(raw)
    BY <2>1, <2>3
  <2> QED
    BY <2>1, <2>4
<1>2. \A raw \in ECDSA_do_sign(d, e, k) : least(raw) # {}
  <2> SUFFICES ASSUME NEW raw \in ECDSA_do_sign(d, e, k) PROVE least(raw) # {}
    OBVIOUS
  <2> DEFINE I == ids(raw)
  <2>1. I # {} /\ I \subseteq 0..3
    BY <1>1
  <2> HIDE DEF I
  <2>2. \E j \in I : \A l \in I : j <= l
    <3>1. \A l \in I : l \in Int /\ 0 <= l /\ (l = 0 \/ l = 1 \/ l = 2 \/ l = 3)
      BY <2>1
    <3>2. CASE 0 \in I
      BY <3>1, <3>2
    <3>3. CASE 0 \notin I /\ 1 \in I
      <4>1. \A l \in I : 1 <= l
        BY <3>1, <3>3
      <4> QED
        BY <3>3, <4>1
    <3>4. CASE 0 \notin I /\ 1 \notin I /\ 2 \in I
      <4>1. \A l \in I : 2 <= l
        BY <3>1, <3>4
      <4> QED
        BY <3>4, <4>1
    <3>5. CASE 0 \notin I /\ 1 \notin I /\ 2 \notin I
      <4>1. \A l \in I : l = 3
        BY <3>1, <3>5
      <4>2. 3 \in I
        BY <4>1, <2>1
      <4>3. \A l \in I : 3 <= l
        BY <4>1
      <4> QED
        BY <4>2, <4>3
    <3> QED
      BY <3>2, <3>3, <3>4, <3>5
  <2> QED
    BY <2>2 DEF I
<1>3. r1_sign_compact(d, e, k) = UNION {form(raw) : raw \in ECDSA_do_sign(d, e, k)}
  BY Zenon DEF r1_sign_compact, signature_from_ecdsa
<1>4. r1_sign_compact(d, e, k) = {} => ECDSA_do_sign(d, e, k) = {}
  <2> SUFFICES ASSUME NEW raw \in ECDSA_do_sign(d, e, k) PROVE r1_sign_compact(d, e, k) # {}
    OBVIOUS
  <2>1. PICK j : j \in least(raw)
    BY <1>2
  <2> HIDE DEF sig, least
  <2>2. [header |-> j + 27 + 4, r |-> sig(raw).r, s |-> sig(raw).s] \in form(raw)
    BY <2>1
  <2> HIDE DEF form
  <2> QED
    BY <2>2, <1>3
<1>5. ASSUME NEW c \in r1_sign_compact(d, e, k)
      PROVE  r1_recover(c, e) = {pub} /\ webauthn_recover(c, e) = {pub} \ {Infinity}
  <2>1. PICK raw \in ECDSA_do_sign(d, e, k) : c \in form(raw)
    <3> HIDE DEF form
    <3> QED
      BY <1>3, <1>5
  <2>2. PICK j \in ids(raw) : c = [header |-> j + 27 + 4, r |-> sig(raw).r, s |-> sig(raw).s]
    <3> HIDE DEF ids, sig
    <3> QED
      BY <2>1
  <2>3. j \in 0..3 /\ r1_recover_key(sig(raw), e, j) = {pub}
    <3> HIDE DEF sig
    <3> QED
      BY <2>2
  <2>4. LowS(raw.s) \in 1..HalfOrder /\ HalfOrder \in Nat
    BY <1>1, OddOrder
  <2>5. sig(raw).s = LowS(raw.s)
    OBVIOUS
  <2> HIDE DEF sig, ids
  <2>6. c.header = j + 27 + 4 /\ c.r = sig(raw).r /\ c.s = sig(raw).s
    BY <2>2
  <2>7. c.header \in 31..34 /\ c.header - 31 = j /\ c.header >= 31 /\ 27 <= c.header /\ c.header < 35
    BY <2>3, <2>6
  <2>8. c.s <= HalfOrder
    BY <2>4, <2>5, <2>6
  <2>9. r1_recover_key(c, e, c.header - 31) = {pub}
    BY <2>3, <2>6, <2>7, SameRS
  <2>10. HeaderOk(c, 27) /\ HeaderOk(c, 31)
    BY <2>7 DEF HeaderOk
  <2>11. IdOf(c.header) = c.header - 31
    BY <2>7 DEF IdOf
  <2> QED
    BY <2>8, <2>9, <2>10, <2>11 DEF r1_recover, webauthn_recover
<1> QED
  BY <1>4, <1>5

\* k1: the id comes with the signature.
LEMMA SignsK1 ==
  ASSUME NEW d \in Nat, NEW e \in Nat, NEW k \in 1..Order - 1, NEW canonical \in BOOLEAN,
         NEW c \in k1_sign_compact(d, e, canonical, {k})
  PROVE  k1_recover_key(c, e, canonical) = k1_public(d)
<1> DEFINE form(raw) == [header |-> 27 + 4 + 2 * (XOf[k] \div Order) + (IF OddY[k] # (raw.s > HalfOrder) THEN 1 ELSE 0),
                         r |-> raw.r, s |-> LowS(raw.s)]
<1>1. k1_valid(d) /\ c \in UNION {secp_sign(d, e, n) : n \in {k}} /\ (canonical => is_canonical(c))
  BY DEF k1_sign_compact
<1>2. c \in secp_sign(d, e, k)
  BY <1>1
<1>3. PICK raw \in ECDSA_do_sign(d, e, k) : c = form(raw)
  BY <1>2, Zenon DEF secp_sign
<1> DEFINE i == RecId(k, raw.s)
<1>4. /\ LowS(raw.s) \in 1..HalfOrder /\ i \in 0..3
      /\ \A g : g.r = raw.r /\ g.s = LowS(raw.s) => r1_recover_key(g, e, i) = {d % Order}
  BY LowSigned
<1>5. raw.r \in 1..Order - 1 /\ Order \in Nat \ {0} /\ HalfOrder \in Nat /\ Order = 2 * HalfOrder + 1
  BY SignatureIs, OddOrder, OrderIs
<1>6. c.r = raw.r /\ c.s = LowS(raw.s) /\ c.header = 31 + i
  <2>1. c.r = raw.r /\ c.s = LowS(raw.s)
    BY <1>3
  <2> DEFINE t == 2 * (XOf[k] \div Order)
             b == IF OddY[k] # (raw.s > HalfOrder) THEN 1 ELSE 0
  <2>2. c.header = 27 + 4 + t + b /\ i = t + b
    BY <1>3 DEF RecId
  <2>3. t \in Int /\ b \in Int
    <3>1. XOf[k] \in Int
      BY CurveFacts
    <3>2. XOf[k] \div Order \in Int
      BY <3>1, <1>5, DivMod
    <3> QED
      BY <3>2
  <2> HIDE DEF t, b
  <2> QED
    BY <2>1, <2>2, <2>3
<1> HIDE DEF i
<1>7. (c.header - 27) % 4 = i /\ 27 <= c.header /\ c.header < 35
  BY <1>4, <1>6
<1>8. {c.r, c.s} \subseteq 1..Order - 1
  BY <1>4, <1>5, <1>6
<1>9. r1_recover_key(c, e, i) = {d % Order}
  BY <1>4, <1>6
<1>10. d % Order = d /\ d # 0 /\ k1_public(d) = {d}
  BY <1>1, <1>5 DEF k1_valid, k1_public
<1>11. secp_recover(c, e, i) = {d}
  BY <1>8, <1>9, <1>10 DEF secp_recover, Infinity
<1>12. HeaderOk(c, 27)
  BY <1>7 DEF HeaderOk
<1>13. k1_recover_key(c, e, canonical) = secp_recover(c, e, i)
  BY <1>1, <1>7, <1>12, Zenon DEF k1_recover_key
<1> QED
  BY <1>10, <1>11, <1>13

\* Signed calls.
LEMMA SignerIsRecovered == ASSUME CurveCalls PROVE RecoverIsSigner
<1> DEFINE d == call.in.secret
           e == call.in.digest
           k == call.in.nonce
           r1 == r1_sign_compact(d, e, k)
<1> SUFFICES ASSUME call.name = "sign"
             PROVE  /\ r1 = {} => ECDSA_do_sign(d, e, k) = {}
                    /\ \A c \in r1 : r1_recover(c, e) = {r1_public(d)}
                    /\ \A c \in r1 : webauthn_recover(c, e) = {r1_public(d)} \ {Infinity}
                    /\ \A canonical \in BOOLEAN : \A c \in k1_sign_compact(d, e, canonical, {k}) :
                         k1_recover_key(c, e, canonical) = k1_public(d)
  BY Zenon DEF RecoverIsSigner, SignedK1
<1>1. d \in Nat /\ e \in Nat /\ k \in 1..Order - 1
  BY WordsAreNumbers DEF CurveCalls
<1> HIDE DEF d, e, k
<1>2. /\ r1 = {} => ECDSA_do_sign(d, e, k) = {}
      /\ \A c \in r1 : r1_recover(c, e) = {r1_public(d)}
      /\ \A c \in r1 : webauthn_recover(c, e) = {r1_public(d)} \ {Infinity}
  BY <1>1, SignsR1
<1>3. \A canonical \in BOOLEAN : \A c \in k1_sign_compact(d, e, canonical, {k}) :
        k1_recover_key(c, e, canonical) = k1_public(d)
  BY <1>1, SignsK1
<1> QED
  BY <1>2, <1>3

\* k1_recover and public_key( compact_signature ) parse alike.
LEMMA RecoveriesAgreeOnAll == ASSUME CurveCalls PROVE RecoveriesAgree
<1> DEFINE c == call.in.c
           e == call.in.digest
           a == k1_recover_key(c, e, FALSE)
           b == k1_recover(c, e, <<65, 32>>)
<1> SUFFICES ASSUME call.name = "recover"
             PROVE  /\ a = b.key
                    /\ (b.error = "none") = (a # {})
                    /\ k1_recover_key(c, e, TRUE) \subseteq a
  BY Zenon DEF RecoveriesAgree
<1>1. c \in Compact
  BY DEF CurveCalls
<1>2. c.r \in Nat /\ c.s \in Nat /\ Order \in Nat
  BY <1>1, WordsAreNumbers, OrderIs DEF Compact
<1> DEFINE i == (c.header - 27) % 4
           q == secp_recover(c, e, i)
<1>3. ~(c.r < Order /\ c.s < Order) => q = {}
  <2> SUFFICES ASSUME ~(c.r < Order /\ c.s < Order) PROVE q = {}
    OBVIOUS
  <2>1. ~({c.r, c.s} \subseteq 1..Order - 1)
    BY <1>2
  <2> QED
    BY <2>1, Zenon DEF secp_recover
<1>4. a = IF HeaderOk(c, 27) THEN q ELSE {}
  BY Zenon DEF k1_recover_key
<1>5. k1_recover_key(c, e, TRUE) = IF HeaderOk(c, 27) /\ is_canonical(c) THEN q ELSE {}
  BY Zenon DEF k1_recover_key
<1>6. b = IF ~HeaderOk(c, 27) \/ c.r >= Order \/ c.s >= Order THEN [error |-> "invalid_signature", key |-> {}]
          ELSE [error |-> IF q = {} THEN "recover_error" ELSE "none", key |-> q]
  BY DEF k1_recover
<1> HIDE DEF c, e, q, a, b
<1>7. CASE ~HeaderOk(c, 27) \/ c.r >= Order \/ c.s >= Order
  <2>1. b.error = "invalid_signature" /\ b.key = {}
    BY <1>6, <1>7
  <2>2. a = {} /\ k1_recover_key(c, e, TRUE) = {}
    <3>1. CASE ~HeaderOk(c, 27)
      BY <3>1, <1>4, <1>5
    <3>2. CASE c.r >= Order \/ c.s >= Order
      <4>1. ~(c.r < Order /\ c.s < Order)
        BY <3>2, <1>2
      <4>2. q = {}
        BY <4>1, <1>3
      <4> QED
        BY <4>2, <1>4, <1>5
    <3> QED
      BY <3>1, <3>2, <1>7
  <2> QED
    BY <2>1, <2>2
<1>8. CASE HeaderOk(c, 27) /\ ~(c.r >= Order) /\ ~(c.s >= Order)
  <2>1. b.error = (IF q = {} THEN "recover_error" ELSE "none") /\ b.key = q
    BY <1>6, <1>8
  <2>2. a = q /\ k1_recover_key(c, e, TRUE) \subseteq q
    BY <1>4, <1>5, <1>8
  <2> QED
    BY <2>1, <2>2
<1> QED
  BY <1>7, <1>8

\* Derived keys: sums of remainders.
LEMMA DerivedKeys == ASSUME CurveCalls PROVE DerivationCommutes
<1> DEFINE a == call.in.secret
           b == call.in.offset
           pub == r1_public(a)
           der == r1_public(generate_from_seed(a, b))
<1> SUFFICES ASSUME call.name = "derive"
             PROVE  /\ mult(pub, b) = der
                    /\ add(pub, b) \subseteq {der}
                    /\ add(pub, b) = {} => b > Order \/ der = Infinity
  BY Zenon DEF DerivationCommutes
<1>0. a \in Nat /\ b \in Nat
  <2>1. a \in Word256 /\ b \in Word256
    BY DEF CurveCalls
  <2> HIDE DEF a, b
  <2> QED
    BY <2>1, WordsAreNumbers
<1>1. a \in Int /\ b \in Int
  BY <1>0
<1> HIDE DEF a, b
<1> DEFINE ar == a % Order
           br == b % Order
           c == a + b
           cr == c % Order
<1>2. c \in Int
  BY <1>1
<1>3. ar \in Int /\ br \in Int /\ Cong(ar, a) /\ Cong(br, b)
  BY <1>1, CongOrder
<1>4. cr \in Int /\ 0 <= cr /\ cr < Order /\ Cong(cr, c) /\ Cong(c, cr)
  <2> HIDE DEF c
  <2> QED
    BY <1>2, Remainder, CongOrder
<1> HIDE DEF ar, br, cr
<1>5. Cong(br + ar, b + a) /\ b + a = c
  BY <1>1, <1>3, CongAlgebra
<1>6. (br + ar) % Order = cr % Order
  <2> DEFINE x == br + ar
  <2>1. x \in Int /\ Cong(x, c)
    BY <1>3, <1>5
  <2> HIDE DEF x, c
  <2>2. Cong(x, cr)
    BY <2>1, <1>2, <1>4, CongOrder
  <2>3. x % Order = cr % Order
    BY <2>1, <2>2, <1>4, CongIs
  <2> QED
    BY <2>3 DEF x
<1>7. pub = ar /\ der = cr % Order /\ mult(pub, b) = (br + ar) % Order /\ r1_public(b) = br
  BY DEF r1_public, generate_from_seed, mult, ar, br, cr
<1>8. add(pub, b) = IF b > Order \/ (br + ar) % Order = Infinity THEN {} ELSE {(br + ar) % Order}
  BY <1>7, Zenon DEF add
<1> QED
  BY <1>6, <1>7, <1>8

\* Shared secrets: a product has one remainder.
LEMMA SharedSecrets == ASSUME CurveCalls PROVE SharedSecretAgrees
<1> DEFINE a == call.in.secret
           b == call.in.offset
<1> SUFFICES ASSUME call.name = "derive"
             PROVE  /\ r1_shared(a, r1_public(b)) = r1_shared(b, r1_public(a))
                    /\ \A p \in k1_public(a), q \in k1_public(b) :
                         k1_shared(a, q) = k1_shared(b, p) /\ k1_shared(a, q) # {}
  BY Zenon DEF SharedSecretAgrees
<1>0. a \in Nat /\ b \in Nat
  <2>1. a \in Word256 /\ b \in Word256
    BY DEF CurveCalls
  <2> HIDE DEF a, b
  <2> QED
    BY <2>1, WordsAreNumbers
<1>1. a \in Int /\ b \in Int
  BY <1>0
<1> HIDE DEF a, b
<1>2. \A x, y \in Int : (x * (y % Order)) % Order = (x * y) % Order
  <2> SUFFICES ASSUME NEW x \in Int, NEW y \in Int PROVE (x * (y % Order)) % Order = (x * y) % Order
    OBVIOUS
  <2> DEFINE z == y % Order
  <2>1. z \in Int /\ Cong(z, y) /\ Cong(x, x)
    BY CongOrder
  <2> HIDE DEF z
  <2>2. Cong(x * z, x * y) /\ x * z \in Int /\ x * y \in Int
    BY <2>1, CongAlgebra
  <2>3. (x * z) % Order = (x * y) % Order
    BY <2>2, CongIs
  <2> QED
    BY <2>3 DEF z
<1>3. (a * r1_public(b)) % Order = (b * r1_public(a)) % Order
  <2>1. a * b = b * a
    BY <1>1
  <2>2. (a * (b % Order)) % Order = (a * b) % Order /\ (b * (a % Order)) % Order = (b * a) % Order
    BY <1>1, <1>2
  <2> QED
    BY <2>1, <2>2, Zenon DEF r1_public
<1>4. r1_shared(a, r1_public(b)) = r1_shared(b, r1_public(a))
  BY <1>3, Zenon DEF r1_shared
<1>5. ASSUME NEW p \in k1_public(a), NEW q \in k1_public(b)
      PROVE  k1_shared(a, q) = k1_shared(b, p) /\ k1_shared(a, q) # {}
  <2>1. p = a /\ q = b /\ k1_valid(a) /\ k1_valid(b)
    BY <1>5 DEF k1_public
  <2>2. a # Infinity /\ b # Infinity
    BY <2>1, <1>1 DEF k1_valid, Infinity
  <2>3. k1_shared(a, b) = {XOf[(a * b) % Order]} /\ k1_shared(b, a) = {XOf[(b * a) % Order]}
    BY <2>1, <2>2 DEF k1_shared
  <2>4. a * b = b * a
    BY <1>1
  <2>5. k1_shared(a, b) = k1_shared(b, a)
    BY <2>3, <2>4, Zenon
  <2>6. k1_shared(a, b) # {}
    <3> DEFINE v == XOf[(a * b) % Order]
    <3>1. k1_shared(a, b) = {v}
      BY <2>3
    <3> HIDE DEF v
    <3> QED
      BY <3>1
  <2> QED
    BY <2>1, <2>5, <2>6
<1> QED
  BY <1>4, <1>5

\* A factor that has an inverse is cancelled.
LEMMA Cancelled ==
  ASSUME NEW a \in Int, NEW b \in Int, NEW p \in Int, NEW q \in Int, Cong(p * q, 1), Cong(a * p, b * p)
  PROVE  Cong(a, b)
<1> DEFINE x == a * p
           y == b * p
           o == p * q
<1>1. x \in Int /\ y \in Int /\ o \in Int /\ x * q = a * o /\ y * q = b * o /\ a * 1 = a /\ b * 1 = b
      /\ a * o \in Int /\ b * o \in Int
  OBVIOUS
<1>2. Cong(x, y) /\ Cong(q, q) /\ Cong(o, 1) /\ Cong(a, a) /\ Cong(b, b)
  BY CongOrder
<1> HIDE DEF x, y, o
<1>3. Cong(x * q, y * q)
  BY <1>1, <1>2, CongAlgebra
<1>4. Cong(a * o, a * 1) /\ Cong(b * o, b * 1)
  BY <1>1, <1>2, CongAlgebra
<1>5. Cong(a * o, b * o) /\ Cong(a * o, a) /\ Cong(b * o, b)
  BY <1>1, <1>3, <1>4
<1> DEFINE u == a * o
           v == b * o
<1>6. u \in Int /\ v \in Int /\ Cong(u, v) /\ Cong(u, a) /\ Cong(v, b)
  BY <1>1, <1>5
<1> HIDE DEF u, v
<1>7. Cong(a, u) /\ Cong(u, b)
  BY <1>6, CongOrder
<1> QED
  BY <1>6, <1>7, CongOrder

\* Two points and values of s that give one key.
LEMMA OneKey ==
  ASSUME NEW r \in Int, NEW e \in Int, NEW s \in Int, NEW R \in Int, NEW t \in Int, NEW S \in Int,
         r % Order # 0, KeyAt(r, s, e, R) = KeyAt(r, t, e, S)
  PROVE  Cong(s * R, t * S)
<1> DEFINE rr == BN_mod_inverse(r % Order)
           k == KeyAt(r, s, e, R)
           l == KeyAt(r, t, e, S)
           a == s * R
           b == t * S
           z == e * rr
<1>1. rr \in Int /\ Cong(r * rr, 1) /\ k \in Int /\ Cong(k, a * rr - z) /\ Cong(l, b * rr - z) /\ k = l
  BY KeyCong
<1> HIDE DEF rr, k, l
<1>2. a \in Int /\ b \in Int /\ z \in Int /\ a * rr \in Int /\ b * rr \in Int
  BY <1>1
<1> HIDE DEF a, b, z
<1> DEFINE x == a * rr
           y == b * rr
<1>3. x \in Int /\ y \in Int /\ Cong(k, x - z) /\ Cong(k, y - z)
  BY <1>1, <1>2
<1> HIDE DEF x, y
<1>4. x - z \in Int /\ y - z \in Int /\ (x - z) + z = x /\ (y - z) + z = y
  BY <1>2, <1>3
<1>5. Cong(x - z, y - z) /\ Cong(z, z)
  BY <1>1, <1>2, <1>3, <1>4, CongOrder
<1>6. Cong(x, y)
  <2> DEFINE u == x - z
             v == y - z
  <2>1. u \in Int /\ v \in Int /\ Cong(u, v) /\ u + z = x /\ v + z = y
    BY <1>4, <1>5
  <2> HIDE DEF u, v
  <2>2. Cong(u + z, v + z)
    BY <2>1, <1>2, <1>5, CongAlgebra
  <2> QED
    BY <2>1, <2>2
<1>7. Cong(rr * r, 1)
  <2>1. rr * r = r * rr
    BY <1>1
  <2> QED
    BY <2>1, <1>1
<1>8. Cong(a, b)
  BY <1>1, <1>2, <1>6, <1>7, Cancelled DEF x, y
<1> QED
  BY <1>8 DEF a, b

\* An accepted signature: its point.
LEMMA AcceptedPoint ==
  ASSUME NEW c, NEW e, r1_recover(c, e) # {}
  PROVE  /\ HeaderOk(c, 27) /\ c.s <= HalfOrder /\ c.r % Order # 0
         /\ \E R \in 1..Order - 1 : /\ XOf[R] = c.r + Order * (IdOf(c.header) \div 2)
                                    /\ r1_recover(c, e) = {KeyAt(c.r, c.s, e, R)}
<1> DEFINE i == IdOf(c.header)
           x == c.r + Order * (i \div 2)
           odd == (i % 2 = 1)
<1>1. HeaderOk(c, 27) /\ c.s <= HalfOrder /\ r1_recover(c, e) = r1_recover_key(c, e, i)
  BY Zenon DEF r1_recover, IdOf
<1>2. r1_recover_key(c, e, i) = {KeyAt(c.r, c.s, e, R) : R \in IF x < Field /\ c.r % Order # 0 THEN PointsAt(x, odd) ELSE {}}
  BY RecoveredKey, Zenon
<1> HIDE DEF i, x, odd
<1>3. x < Field /\ c.r % Order # 0 /\ PointsAt(x, odd) # {}
  BY <1>1, <1>2
<1>4. PICK R : R \in PointsAt(x, odd)
  BY <1>3
<1>5. PointsAt(x, odd) = {R}
  BY <1>4, OnePoint
<1>6. R \in 1..Order - 1 /\ XOf[R] = x
  BY <1>4, Zenon DEF PointsAt
<1>7. r1_recover(c, e) = {KeyAt(c.r, c.s, e, R)}
  BY <1>1, <1>2, <1>3, <1>5
<1> QED
  BY <1>1, <1>3, <1>6, <1>7, Zenon DEF x, i

\* One low s for a key and a coordinate.
LEMMA LowSIsUnique == ASSUME CurveCalls PROVE LowSUnique
<1> DEFINE c == call.in.c
           e == call.in.digest
<1> SUFFICES ASSUME call.name = "recover", NEW h \in 27..34, NEW s \in Word256,
                    r1_recover(c, e) # {}, IdOf(h) \div 2 = IdOf(c.header) \div 2,
                    r1_recover([c EXCEPT !.header = h, !.s = s], e) = r1_recover(c, e)
             PROVE  (s % Order) = (c.s % Order)
  BY Zenon DEF LowSUnique
<1> DEFINE f == [c EXCEPT !.header = h, !.s = s]
<1>1. c \in Compact /\ e \in {0, 3, Order}
  BY DEF CurveCalls
<1>2. r1_recover(c, e) # {} /\ r1_recover(f, e) = r1_recover(c, e) /\ IdOf(h) \div 2 = IdOf(c.header) \div 2
  OBVIOUS
<1> HIDE DEF c, e
<1>3. f.header = h /\ f.s = s /\ f.r = c.r
  BY <1>1 DEF Compact
<1>4. /\ c.r \in Int /\ c.s \in Int /\ 0 <= c.s /\ s \in Int /\ 0 <= s /\ e \in Int /\ c.header \in Int
      /\ Order \in Nat \ {0} /\ HalfOrder \in Nat /\ Order = 2 * HalfOrder + 1
  BY <1>1, WordsAreNumbers, OrderIs, OddOrder DEF Compact
<1> HIDE DEF f
<1>5. PICK R \in 1..Order - 1 : /\ XOf[R] = c.r + Order * (IdOf(c.header) \div 2)
                                /\ r1_recover(c, e) = {KeyAt(c.r, c.s, e, R)}
  BY <1>2, AcceptedPoint
<1>6. HeaderOk(c, 27) /\ c.s <= HalfOrder /\ c.r % Order # 0
  BY <1>2, AcceptedPoint
<1>7. PICK S \in 1..Order - 1 : /\ XOf[S] = f.r + Order * (IdOf(f.header) \div 2)
                                /\ r1_recover(f, e) = {KeyAt(f.r, f.s, e, S)}
  BY <1>2, AcceptedPoint
<1>8. f.s <= HalfOrder
  BY <1>2, AcceptedPoint
<1>9. IdOf(h) \div 2 = IdOf(c.header) \div 2
  BY <1>2, Zenon
<1>10. XOf[S] = XOf[R] /\ KeyAt(c.r, c.s, e, R) = KeyAt(c.r, s, e, S)
  BY <1>2, <1>3, <1>5, <1>7, <1>9
<1>11. R \in Int /\ S \in Int /\ (S = R \/ S = Order - R)
  BY <1>10, CurveFacts
<1>12. Cong(c.s * R, s * S)
  BY <1>4, <1>6, <1>10, <1>11, OneKey
<1>13. PICK q \in Int : Cong(R * q, 1)
  BY ModInverse
<1>14. CASE S = R
  <2>1. Cong(c.s, s)
    BY <1>4, <1>11, <1>12, <1>13, <1>14, Cancelled
  <2> QED
    BY <2>1, <1>4, CongIs
<1>15. CASE S = Order - R
  <2> DEFINE t == c.s
  <2>1. s * S = (-s) * R + Order * s
    BY <1>4, <1>11, <1>15
  <2>2. Cong(s * S, (-s) * R)
    BY <2>1, <1>4 DEF Cong
  <2>3. t * R \in Int /\ s * S \in Int /\ (-s) * R \in Int /\ -s \in Int
    BY <1>4, <1>11
  <2>4. Cong(t * R, (-s) * R)
    <3> DEFINE x == t * R
               y == s * S
               z == (-s) * R
    <3>1. x \in Int /\ y \in Int /\ z \in Int /\ Cong(x, y) /\ Cong(y, z)
      BY <1>12, <2>2, <2>3
    <3> HIDE DEF x, y, z
    <3>2. Cong(x, z)
      BY <3>1, CongOrder
    <3> QED
      BY <3>2 DEF x, z
  <2>5. Cong(t, -s)
    <3> DEFINE m == -s
    <3>1. m \in Int /\ Cong(t * R, m * R)
      BY <2>3, <2>4
    <3> HIDE DEF m
    <3>2. Cong(t, m)
      BY <3>1, <1>4, <1>11, <1>13, Cancelled
    <3> QED
      BY <3>2 DEF m
  <2>6. PICK u \in Int : t = -s + Order * u
    BY <2>5 DEF Cong
  <2>7. t + s = 0 + Order * u /\ t + s \in Int /\ 0 <= t + s /\ t + s < Order
    <3>1. t <= HalfOrder /\ s <= HalfOrder
      BY <1>3, <1>6, <1>8
    <3>2. t + s \in Int /\ 0 <= t + s /\ t + s < Order
      BY <3>1, <1>4
    <3>3. Order * u \in Int
      BY <1>4
    <3> DEFINE w == Order * u
    <3>4. t = -s + w /\ w \in Int
      BY <2>6, <3>3
    <3> HIDE DEF w
    <3>5. t + s = 0 + w
      BY <3>4, <1>4
    <3> QED
      BY <3>2, <3>5 DEF w
  <2>8. t + s = 0
    <3> DEFINE m == t + s
               z == 0
    <3>1. m \in Int /\ 0 <= m /\ m < Order /\ z \in Int /\ 0 <= z /\ z < Order /\ m = z + Order * u
      BY <2>7, <1>4
    <3> HIDE DEF m, z
    <3>2. m = z
      BY <3>1, OneRemainder
    <3> QED
      BY <3>2 DEF m, z
  <2>9. t = 0 /\ s = 0
    BY <2>8, <1>4
  <2> QED
    BY <2>9
<1> QED
  BY <1>11, <1>14, <1>15

\* What the calls of the curves give.
LEMMA SignaturesAreSound == ASSUME CurveCalls PROVE SignaturesSound
  BY SignerIsRecovered, LowSIsUnique, RecoveriesAgreeOnAll, DerivedKeys, SharedSecrets DEF SignaturesSound

-----------------------------------------------------------------------------
(* Induction up to a number, and recursion. *)

\* A set of natural numbers that is not empty has a least member.
LEMMA LeastNumber ==
  ASSUME NEW S \in SUBSET Nat, S # {}
  PROVE  \E x \in S : \A y \in S : x <= y
<1> DEFINE R == {ss \in Nat \X Nat : ss[1] < ss[2]}
<1>1. IsWellFoundedOn(R, Nat)
  BY NatLessThanWellFounded, Zenon DEF OpToRel
<1>2. \A x, y \in Nat : <<y, x>> \in R <=> y < x
  OBVIOUS
<1> HIDE DEF R
<1>3. PICK x \in S : \A y \in S : ~(<<y, x>> \in R)
  BY <1>1, WFMin
<1>4. ASSUME NEW y \in S PROVE x <= y
  <2>1. x \in Nat /\ y \in Nat
    OBVIOUS
  <2>2. ~(y < x)
    BY <1>2, <1>3, <2>1
  <2> QED
    BY <2>1, <2>2
<1> QED
  BY <1>4

\* Induction up to a number, over a set instead of a predicate.
LEMMA UpTo ==
  ASSUME NEW n \in Nat, NEW T, 0 \in T, \A i \in 1..n : i - 1 \in T => i \in T
  PROVE  0..n \subseteq T
<1> DEFINE B == {i \in 0..n : i \notin T}
<1> SUFFICES ASSUME B # {} PROVE FALSE
  OBVIOUS
<1>1. PICK m \in B : \A k \in B : m <= k
  <2>1. B \in SUBSET Nat
    OBVIOUS
  <2> HIDE DEF B
  <2> QED
    BY <2>1, LeastNumber
<1>2. m \in 0..n /\ m \notin T /\ m # 0
  BY <1>1
<1>3. m \in 1..n /\ m - 1 \in 0..n /\ ~(m <= m - 1)
  BY <1>2
<1>4. m - 1 \in T
  BY <1>1, <1>3
<1> QED
  BY <1>2, <1>3, <1>4

\* g is the run of n steps F from s, in the set S.
Runs(g, n, S, s, F) == g \in [0..n -> S] /\ g[0] = s /\ \A i \in 1..n : g[i] = F[i][g[i - 1]]

\* A recursion over 0..n whose steps stay in a set can be run.
LEMMA StepsRun ==
  ASSUME NEW S, NEW n \in Nat, NEW s \in S, NEW F \in [1..n -> [S -> S]]
  PROVE  \E g : Runs(g, n, S, s, F)
<1> DEFINE Run(m) == \E g \in [0..m -> S] : g[0] = s /\ \A i \in 1..m : g[i] = F[i][g[i - 1]]
           T == {m \in 0..n : Run(m)}
<1>1. 0 \in T
  <2> DEFINE g == [i \in 0..0 |-> s]
  <2>1. g \in [0..0 -> S] /\ g[0] = s /\ \A i \in 1..0 : g[i] = F[i][g[i - 1]]
    OBVIOUS
  <2> HIDE DEF g
  <2> QED
    BY <2>1
<1>2. ASSUME NEW m \in 1..n, m - 1 \in T PROVE m \in T
  <2>1. PICK g \in [0..(m - 1) -> S] : g[0] = s /\ \A i \in 1..(m - 1) : g[i] = F[i][g[i - 1]]
    BY <1>2
  <2> DEFINE h == [i \in 0..m |-> IF i = m THEN F[m][g[m - 1]] ELSE g[i]]
  <2>2. g[m - 1] \in S /\ F[m][g[m - 1]] \in S
    <3>1. g[m - 1] \in S
      BY <2>1
    <3> QED
      BY <3>1
  <2>3. h \in [0..m -> S] /\ h[0] = s
    BY <2>1, <2>2
  <2>4. ASSUME NEW i \in 1..m PROVE h[i] = F[i][h[i - 1]]
    <3>1. CASE i = m
      <4>1. h[m - 1] = g[m - 1] /\ h[m] = F[m][g[m - 1]]
        OBVIOUS
      <4> HIDE DEF h
      <4> QED
        BY <3>1, <4>1
    <3>2. CASE i # m
      BY <2>1, <3>2
    <3> QED
      BY <3>1, <3>2
  <2> HIDE DEF h
  <2>5. Run(m)
    BY <2>3, <2>4
  <2> HIDE DEF Run
  <2> QED
    BY <2>5
<1> HIDE DEF T
<1>3. 0..n \subseteq T
  BY <1>1, <1>2, UpTo
<1>4. n \in T
  BY <1>3
<1> QED
  BY <1>4 DEF T, Runs

-----------------------------------------------------------------------------
(* Sequences of blocks. *)

\* Multiples of a length are in order.
LEMMA Multiples ==
  ASSUME NEW L \in Nat, NEW a \in Nat, NEW b \in Nat, a <= b
  PROVE  L * a \in Nat /\ L * b \in Nat /\ L * a <= L * b /\ L * (b + 1) = L * b + L
<1>1. PICK d \in Nat : b = a + d
  <2>1. b - a \in Nat /\ b = a + (b - a)
    OBVIOUS
  <2> QED
    BY <2>1
<1>2. L * d \in Nat /\ L * a \in Nat /\ L * b = L * a + L * d
  BY <1>1
<1> QED
  BY <1>2

\* f is the blocks of length L, one after the other.
Laid(f, seqs, L, A) ==
  /\ f \in [1..(L * Len(seqs)) -> A]
  /\ \A i \in 1..Len(seqs), j \in 1..L : f[L * (i - 1) + j] = seqs[i][j]

\* Blocks of one length, flattened.
LEMMA FlattenIs ==
  ASSUME NEW L \in Nat \ {0}, NEW A, NEW seqs \in Seq([1..L -> A]), Len(seqs) # 0
  PROVE  Laid(FlattenSeq(seqs), seqs, L, A)
<1> DEFINE n == Len(seqs)
           B == [1..L -> A]
           Eq(f) == f = [i \in 1..n |-> IF i = 1 THEN seqs[i] ELSE f[i - 1] \o seqs[i]]
           flat == CHOOSE f : Eq(f)
<1>1. n \in Nat /\ n # 0 /\ \A i \in 1..n : seqs[i] \in B
  OBVIOUS
<1>2. FlattenSeq(seqs) = flat[n]
  BY DEF FlattenSeq
<1> HIDE DEF n
<1>3. \A b \in B : b \in Seq(A) /\ Len(b) = L
  OBVIOUS
<1>4. \E f : Eq(f)
  <2> DEFINE S == Seq(A)
             F == [i \in 1..n |-> [a \in S |-> a \o seqs[i]]]
  <2>1. F \in [1..n -> [S -> S]]
    <3>1. ASSUME NEW i \in 1..n, NEW a \in S PROVE a \o seqs[i] \in S
      <4>1. seqs[i] \in Seq(A)
        BY <1>1, <1>3
      <4> QED
        BY <4>1, ConcatProperties
    <3> HIDE DEF S
    <3> QED
      BY <3>1
  <2>2. << >> \in S
    BY EmptySeq
  <2>3. PICK g : Runs(g, n, S, << >>, F)
    BY <1>1, <2>1, <2>2, StepsRun
  <2>4. g \in [0..n -> S] /\ g[0] = << >>
    BY <2>3 DEF Runs
  <2>5. ASSUME NEW i \in 1..n PROVE g[i] = g[i - 1] \o seqs[i]
    <3>1. g[i] = F[i][g[i - 1]]
      BY <2>3 DEF Runs
    <3>0. i - 1 \in 0..n
      BY <1>1
    <3> HIDE DEF S
    <3>2. g[i - 1] \in S
      BY <2>4, <3>0
    <3>3. F[i][g[i - 1]] = g[i - 1] \o seqs[i]
      BY <3>2
    <3> QED
      BY <3>1, <3>3
  <2> DEFINE f == [i \in 1..n |-> g[i]]
  <2>6. \A i \in 1..n : f[i] = IF i = 1 THEN seqs[i] ELSE f[i - 1] \o seqs[i]
    <3>1. ASSUME NEW i \in 1..n, i = 1 PROVE f[i] = seqs[i]
      <4>1. g[1] = g[0] \o seqs[1]
        <5>1. 1 \in 1..n /\ 1 - 1 = 0
          BY <1>1
        <5> QED
          BY <2>5, <5>1
      <4>2. seqs[1] \in Seq(A)
        BY <1>1, <1>3
      <4>3. << >> \o seqs[1] = seqs[1]
        BY <4>2, ConcatEmptySeq
      <4> QED
        BY <3>1, <4>1, <4>3, <2>4
    <3>2. ASSUME NEW i \in 1..n, i # 1 PROVE f[i] = f[i - 1] \o seqs[i]
      <4>1. i - 1 \in 1..n
        BY <3>2, <1>1
      <4> QED
        BY <4>1, <2>5
    <3> QED
      BY <3>1, <3>2
  <2>7. f = [i \in 1..n |-> IF i = 1 THEN seqs[i] ELSE f[i - 1] \o seqs[i]]
    BY <2>6
  <2> QED
    BY <2>7
<1>5. Eq(flat)
  BY <1>4
<1> HIDE DEF flat
<1>6. \A i \in 1..n : flat[i] = IF i = 1 THEN seqs[i] ELSE flat[i - 1] \o seqs[i]
  BY <1>5
<1> DEFINE Flat(m) == /\ flat[m] \in [1..(L * m) -> A]
                      /\ \A i \in 1..m, j \in 1..L : flat[m][L * (i - 1) + j] = seqs[i][j]
           T == {m \in 0..n : m = 0 \/ Flat(m)}
<1>7. 0 \in T
  BY <1>1
<1>8. ASSUME NEW m \in 1..n, m - 1 \in T PROVE m \in T
  <2>1. CASE m = 1
    <3>1. flat[m] = seqs[m] /\ seqs[m] \in B
      BY <1>1, <1>6, <2>1
    <3>2. L * 1 = L
      OBVIOUS
    <3>3. flat[m] \in [1..(L * m) -> A]
      BY <3>1, <3>2, <2>1
    <3>4. ASSUME NEW i \in 1..m, NEW j \in 1..L PROVE flat[m][L * (i - 1) + j] = seqs[i][j]
      <4>1. i = 1
        BY <2>1
      <4>2. L * (i - 1) + j = j
        BY <4>1
      <4> QED
        BY <4>1, <4>2, <3>1, <2>1
    <3>5. Flat(m)
      BY <3>3, <3>4
    <3> HIDE DEF Flat
    <3> QED
      BY <3>5
  <2>2. CASE m # 1
    <3> DEFINE k == m - 1
               a == flat[k]
               b == seqs[m]
    <3>1. k \in 1..n /\ m = k + 1 /\ k \in Nat
      BY <2>2, <1>1
    <3>2. Flat(k)
      BY <1>8, <3>1
    <3>3. flat[m] = a \o b
      BY <1>6, <2>2
    <3>4. a \in [1..(L * k) -> A] /\ b \in B
      BY <3>2, <1>1
    <3>5. \A i \in 1..k, j \in 1..L : a[L * (i - 1) + j] = seqs[i][j]
      BY <3>2
    <3>6. L * k \in Nat /\ L * m = L * k + L
      BY <3>1, Multiples
    <3> HIDE DEF a, b, k
    <3>7. a \in Seq(A) /\ Len(a) = L * k /\ b \in Seq(A) /\ Len(b) = L
      BY <3>4, <3>6, <1>3
    <3> DEFINE p == L * k
    <3>8. p \in Nat /\ Len(a) = p /\ L * m = p + L
      BY <3>6, <3>7
    <3> HIDE DEF p
    <3>9. /\ a \o b \in [1..(p + L) -> A]
          /\ \A q \in 1..p : (a \o b)[q] = a[q]
          /\ \A j \in 1..L : (a \o b)[p + j] = b[j]
      <4>1. a \o b \in Seq(A) /\ Len(a \o b) = p + L
        BY <3>7, <3>8, ConcatProperties
      <4>2. a \o b \in [1..(p + L) -> A]
        BY <4>1, LenProperties
      <4>3. \A q \in 1..(p + L) : (a \o b)[q] = IF q <= p THEN a[q] ELSE b[q - p]
        BY <3>7, <3>8, ConcatProperties
      <4>4. ASSUME NEW j \in 1..L PROVE (a \o b)[p + j] = b[j]
        <5>1. p + j \in 1..(p + L) /\ ~(p + j <= p) /\ (p + j) - p = j
          BY <3>8
        <5> QED
          BY <5>1, <4>3
      <4>5. ASSUME NEW q \in 1..p PROVE (a \o b)[q] = a[q]
        <5>1. q \in 1..(p + L) /\ q <= p
          BY <3>8
        <5> QED
          BY <5>1, <4>3
      <4> QED
        BY <4>2, <4>4, <4>5
    <3>10. ASSUME NEW i \in 1..m, NEW j \in 1..L PROVE flat[m][L * (i - 1) + j] = seqs[i][j]
      <4>1. CASE i = m
        <5>1. L * (i - 1) + j = p + j
          BY <4>1, <3>1 DEF p
        <5> QED
          BY <5>1, <3>3, <3>9, <4>1 DEF b
      <4>2. CASE i # m
        <5>1. i \in 1..k /\ i - 1 \in Nat /\ i <= k
          BY <4>2, <3>1
        <5>2. L * (i - 1) \in Nat /\ L * i = L * (i - 1) + L /\ L * i <= p
          <6>1. L * i <= L * k
            BY <5>1, <3>1, Multiples
          <6>2. L * (i - 1) \in Nat /\ L * ((i - 1) + 1) = L * (i - 1) + L
            BY <5>1, Multiples
          <6>3. (i - 1) + 1 = i
            BY <5>1
          <6> QED
            BY <6>1, <6>2, <6>3 DEF p
        <5>3. L * (i - 1) + j \in 1..p
          BY <5>2, <3>8
        <5> QED
          BY <5>1, <5>3, <3>3, <3>5, <3>9
      <4> QED
        BY <4>1, <4>2
    <3>11. flat[m] \in [1..(L * m) -> A]
      BY <3>3, <3>8, <3>9
    <3>12. Flat(m)
      BY <3>10, <3>11
    <3> HIDE DEF Flat
    <3> QED
      BY <3>12
  <2> QED
    BY <2>1, <2>2
<1> HIDE DEF T
<1>9. 0..n \subseteq T
  BY <1>1, <1>7, <1>8, UpTo
<1>10. n \in T
  BY <1>1, <1>9
<1>11. Flat(n)
  BY <1>10, <1>1 DEF T
<1> QED
  BY <1>2, <1>11 DEF n, Laid

-----------------------------------------------------------------------------
(* sha3's encoder. *)

\* The bytes of a message, and the blocks.
HashBytes == SUBSET (0..7)
HashBlock == [1..Rate -> HashBytes]

\* What the encoder c took in is the message m: the blocks that were permuted
\* and the bytes since, the rest of the block is zero.
Fed(c, m) ==
  /\ c \in [past : Seq(HashBlock), bytes : HashBlock, point : 0..(Rate - 1)]
  /\ Len(m) = Rate * Len(c.past) + c.point
  /\ \A i \in 1..Len(c.past), j \in 1..Rate : c.past[i][j] = m[Rate * (i - 1) + j]
  /\ \A j \in 1..Rate : c.bytes[j] = IF j <= c.point THEN m[Rate * Len(c.past) + j] ELSE {}

\* The inductive invariant of the encoder.
HashInv ==
  /\ message \in Seq(HashBytes)
  /\ digest = NoDigest => Fed(ctx, message)
  /\ DigestIsOfMessage

\* A block has at least a byte.
LEMMA RateIs == Rate \in Nat \ {0}
  BY HashingAssumption

\* Writing one byte is one step.
LEMMA FoldOne ==
  ASSUME NEW c, NEW b
  PROVE  update(c, <<b>>) = Absorb(c, b)
<1> DEFINE D == DOMAIN <<b>>
           Eq(f) == f = [s \in SUBSET D |-> IF s = {} THEN c
                                            ELSE Absorb(f[s \ {Max(s)}], <<b>>[Max(s)])]
           it == CHOOSE f : Eq(f)
<1>1. D = {1}
  OBVIOUS
<1>2. update(c, <<b>>) = it[D]
  BY DEF update, FoldLeft, MapThenFoldSet
<1>3. Max({1}) = 1
  BY DEF Max
<1>4. \E f : Eq(f)
  <2> DEFINE f == [s \in SUBSET D |-> IF s = {} THEN c ELSE Absorb(c, b)]
  <2>1. \A s \in SUBSET D : f[s] = IF s = {} THEN c ELSE Absorb(f[s \ {Max(s)}], <<b>>[Max(s)])
    <3>1. f[{}] = c
      OBVIOUS
    <3>2. f[{1}] = Absorb(c, b) /\ {1} \ {Max({1})} = {} /\ <<b>>[Max({1})] = b
      BY <1>1, <1>3
    <3>3. \A s \in SUBSET D : s = {} \/ s = {1}
      BY <1>1
    <3> HIDE DEF f
    <3> QED
      BY <3>1, <3>2, <3>3
  <2>2. Eq(f)
    BY <2>1
  <2> QED
    BY <2>2
<1>5. Eq(it)
  BY <1>4
<1> HIDE DEF it
<1>6. it[{}] = c
  BY <1>5
<1>7. it[{1}] = Absorb(it[{1} \ {Max({1})}], <<b>>[Max({1})])
  BY <1>1, <1>5
<1>8. {1} \ {1} = {} /\ <<b>>[1] = b
  OBVIOUS
<1> QED
  BY <1>1, <1>2, <1>3, <1>6, <1>7, <1>8

\* Writing two bytes is two steps.
LEMMA FoldTwo ==
  ASSUME NEW c, NEW a, NEW b
  PROVE  update(c, <<a, b>>) = Absorb(Absorb(c, a), b)
<1> DEFINE q == <<a, b>>
           D == DOMAIN q
           Eq(f) == f = [s \in SUBSET D |-> IF s = {} THEN c ELSE Absorb(f[s \ {Max(s)}], q[Max(s)])]
           it == CHOOSE f : Eq(f)
<1>1. D = {1, 2} /\ q[1] = a /\ q[2] = b
  OBVIOUS
<1>2. update(c, q) = it[D]
  BY DEF update, FoldLeft, MapThenFoldSet
<1>3. Max({1}) = 1 /\ Max({2}) = 2 /\ Max({1, 2}) = 2
  BY DEF Max
<1>4. {1} \ {1} = {} /\ {2} \ {2} = {} /\ {1, 2} \ {2} = {1}
  OBVIOUS
<1>5. SUBSET D = {{}, {1}, {2}, {1, 2}}
  BY <1>1
<1> HIDE DEF q, D
<1>6. \E f : Eq(f)
  <2> DEFINE f == [s \in SUBSET D |-> IF s = {} THEN c
                                      ELSE IF s = {1} THEN Absorb(c, a)
                                      ELSE IF s = {2} THEN Absorb(c, b) ELSE Absorb(Absorb(c, a), b)]
  <2>1. f[{}] = c /\ f[{1}] = Absorb(c, a) /\ f[{2}] = Absorb(c, b) /\ f[{1, 2}] = Absorb(Absorb(c, a), b)
    <3>1. {{}, {1}, {2}, {1, 2}} \subseteq SUBSET D
      BY <1>5
    <3>2. {1} # {} /\ {2} # {} /\ {2} # {1} /\ {1, 2} # {}
      OBVIOUS
    <3>3. {1, 2} # {1} /\ {1, 2} # {2}
      OBVIOUS
    <3>4. f[{}] = c
      BY <3>1
    <3>5. f[{1}] = Absorb(c, a)
      BY <3>1, <3>2
    <3>6. f[{2}] = Absorb(c, b)
      BY <3>1, <3>2
    <3>7. f[{1, 2}] = Absorb(Absorb(c, a), b)
      BY <3>1, <3>2, <3>3
    <3> QED
      BY <3>4, <3>5, <3>6, <3>7
  <2> HIDE DEF f
  <2>2. ASSUME NEW s \in SUBSET D
        PROVE  f[s] = IF s = {} THEN c ELSE Absorb(f[s \ {Max(s)}], q[Max(s)])
    <3>1. s = {} \/ s = {1} \/ s = {2} \/ s = {1, 2}
      BY <1>5
    <3> QED
      BY <3>1, <2>1, <1>1, <1>3, <1>4
  <2>3. f = [s \in SUBSET D |-> f[s]]
    BY DEF f
  <2>4. Eq(f)
    BY <2>2, <2>3
  <2> QED
    BY <2>4
<1>7. Eq(it)
  BY <1>6
<1> HIDE DEF it
<1>8. \A s \in SUBSET D : it[s] = IF s = {} THEN c ELSE Absorb(it[s \ {Max(s)}], q[Max(s)])
  BY <1>7
<1>9. it[{}] = c
  BY <1>8
<1>10. it[{1}] = Absorb(c, a)
  <2>1. {1} \in SUBSET D /\ {1} # {}
    BY <1>5
  <2> QED
    BY <2>1, <1>1, <1>3, <1>4, <1>8, <1>9
<1>11. it[{1, 2}] = Absorb(Absorb(c, a), b)
  <2>1. {1, 2} \in SUBSET D /\ {1, 2} # {}
    BY <1>5
  <2> QED
    BY <2>1, <1>1, <1>3, <1>4, <1>8, <1>10
<1> QED
  BY <1>1, <1>2, <1>11 DEF q

\* A byte more.
LEMMA AbsorbKeeps ==
  ASSUME NEW m \in Seq(HashBytes), NEW b \in HashBytes, NEW c, Fed(c, m)
  PROVE  Fed(Absorb(c, b), Append(m, b)) /\ Append(m, b) \in Seq(HashBytes)
<1> DEFINE t == Append(m, b)
           past == c.past
           bytes == c.bytes
           p == c.point
           n == Len(past)
           r == Rate * n
<1>1. /\ Rate \in Nat \ {0} /\ past \in Seq(HashBlock) /\ bytes \in HashBlock /\ p \in 0..(Rate - 1)
      /\ n \in Nat /\ r \in Nat /\ Len(m) = r + p
  BY RateIs DEF Fed
<1>2. \A i \in 1..n, j \in 1..Rate : past[i][j] = m[Rate * (i - 1) + j]
  BY DEF Fed
<1>3. \A j \in 1..Rate : bytes[j] = IF j <= p THEN m[r + j] ELSE {}
  BY DEF Fed
<1>4. /\ t \in Seq(HashBytes) /\ Len(t) = r + p + 1 /\ t[r + p + 1] = b
      /\ \A i \in 1..(r + p) : t[i] = m[i]
  <2>1. t \in Seq(HashBytes) /\ Len(t) = Len(m) + 1 /\ t[Len(m) + 1] = b /\ \A i \in 1..Len(m) : t[i] = m[i]
    BY AppendProperties
  <2> QED
    BY <2>1, <1>1
<1> DEFINE x == [bytes EXCEPT ![p + 1] = XorBits(@, b)]
<1>5. c = [past |-> past, bytes |-> bytes, point |-> p]
  BY DEF Fed
<1> DEFINE e == [c EXCEPT !.bytes[c.point + 1] = XorBits(@, b), !.point = @ + 1]
<1>6. e = [past |-> past, bytes |-> x, point |-> p + 1]
  <2> DEFINE w == p + 1
  <2>1. e.past = past /\ e.bytes = x /\ e.point = w /\ DOMAIN e = {"past", "bytes", "point"}
    BY <1>5
  <2>2. e = [f \in DOMAIN e |-> e[f]]
    BY <1>5
  <2> HIDE DEF e, x, w
  <2>3. e = [past |-> past, bytes |-> x, point |-> w]
    BY <2>1, <2>2
  <2> QED
    BY <2>3 DEF w
<1>0. Absorb(c, b) = IF e.point >= Rate THEN [update_step(e) EXCEPT !.point = 0] ELSE e
  BY DEF Absorb
<1> HIDE DEF e
<1> HIDE DEF past, bytes, p, n, r, t
<1>7. p + 1 \in 1..Rate /\ bytes[p + 1] = {}
  BY <1>1, <1>3
<1>8. XorBits({}, b) = b
  BY DEF XorBits
<1>9. x \in HashBlock /\ \A j \in 1..Rate : x[j] = IF j = p + 1 THEN b ELSE bytes[j]
  BY <1>1, <1>7, <1>8 DEF HashBlock
<1>10. \A j \in 1..Rate : x[j] = IF j <= p + 1 THEN t[r + j] ELSE {}
  <2> SUFFICES ASSUME NEW j \in 1..Rate PROVE x[j] = IF j <= p + 1 THEN t[r + j] ELSE {}
    OBVIOUS
  <2>1. CASE j = p + 1
    <3>1. t[r + j] = b
      <4>1. r + j = r + p + 1
        BY <2>1, <1>1
      <4> QED
        BY <4>1, <1>4
    <3> QED
      BY <3>1, <2>1, <1>9, <1>1
  <2>2. CASE j <= p
    <3>1. r + j \in 1..(r + p)
      BY <2>2, <1>1
    <3>2. t[r + j] = m[r + j] /\ bytes[j] = m[r + j]
      BY <3>1, <2>2, <1>3, <1>4
    <3>3. j # p + 1 /\ j <= p + 1
      BY <2>2, <1>1
    <3> QED
      BY <3>2, <3>3, <1>9
  <2>3. CASE j > p + 1
    <3>1. bytes[j] = {} /\ j # p + 1 /\ ~(j <= p + 1)
      BY <2>3, <1>1, <1>3
    <3> QED
      BY <3>1, <1>9
  <2> QED
    BY <2>1, <2>2, <2>3, <1>1
<1> HIDE DEF x
<1>11. ASSUME NEW i \in 1..n, NEW j \in 1..Rate
       PROVE  past[i][j] = t[Rate * (i - 1) + j] /\ Rate * (i - 1) + j \in 1..r
  <2>1. Rate * (i - 1) \in Nat /\ Rate * i = Rate * (i - 1) + Rate /\ Rate * i <= r
    <3>1. i - 1 \in Nat /\ i \in Nat /\ (i - 1) + 1 = i /\ i <= n /\ Rate \in Nat
      BY <1>1
    <3>2. Rate * (i - 1) \in Nat /\ Rate * ((i - 1) + 1) = Rate * (i - 1) + Rate
      BY <3>1, Multiples
    <3>3. Rate * i <= Rate * n
      BY <3>1, <1>1, Multiples
    <3> QED
      BY <3>1, <3>2, <3>3 DEF r
  <2> DEFINE z == Rate * (i - 1)
  <2>2. z \in Nat /\ z + Rate <= r
    BY <2>1
  <2>3. past[i][j] = m[z + j]
    BY <1>2
  <2> HIDE DEF z
  <2>4. z + j \in 1..r /\ z + j \in 1..(r + p)
    BY <2>2, <1>1
  <2>5. past[i][j] = t[z + j] /\ z + j \in 1..r
    BY <2>3, <2>4, <1>4
  <2> QED
    BY <2>5 DEF z
<1>12. CASE p + 1 < Rate
  <2>1. Absorb(c, b) = [past |-> past, bytes |-> x, point |-> p + 1]
    <3>1. e.point = p + 1 /\ ~(p + 1 >= Rate)
      BY <1>6, <1>12, <1>1
    <3> QED
      BY <3>1, <1>0, <1>6
  <2> DEFINE d == [past |-> past, bytes |-> x, point |-> p + 1]
  <2>2. d.past = past /\ d.bytes = x /\ d.point = p + 1
    OBVIOUS
  <2>3. d \in [past : Seq(HashBlock), bytes : HashBlock, point : 0..(Rate - 1)]
    BY <1>1, <1>9, <1>12
  <2>4. Len(t) = Rate * Len(past) + (p + 1)
    <3>1. r + p + 1 = r + (p + 1)
      BY <1>1
    <3> QED
      BY <3>1, <1>4 DEF r, n
  <2>5. \A i \in 1..Len(past), j \in 1..Rate : past[i][j] = t[Rate * (i - 1) + j]
    BY <1>11 DEF n
  <2>6. \A j \in 1..Rate : x[j] = IF j <= p + 1 THEN t[Rate * Len(past) + j] ELSE {}
    BY <1>10 DEF r, n
  <2> HIDE DEF d
  <2>7. Fed(d, t)
    BY <2>2, <2>3, <2>4, <2>5, <2>6 DEF Fed
  <2> QED
    BY <2>1, <2>7, <1>4 DEF d, t
<1>13. CASE p + 1 = Rate
  <2> DEFINE d == [past |-> Append(past, x), bytes |-> Zeros, point |-> 0]
             pp == Append(past, x)
  <2>1. Absorb(c, b) = d
    <3>1. e.point >= Rate /\ e.past = past /\ e.bytes = x
      BY <1>6, <1>13, <1>1
    <3> DEFINE u == [update_step(e) EXCEPT !.point = 0]
    <3>2. u \in [past : {pp}, bytes : {Zeros}, point : {0}]
      BY <3>1, <1>6 DEF update_step
    <3> HIDE DEF u, pp
    <3>3. u = [past |-> pp, bytes |-> Zeros, point |-> 0]
      BY <3>2
    <3> QED
      BY <1>0, <3>1, <3>3 DEF u, pp
  <2>2. d.past = pp /\ d.bytes = Zeros /\ d.point = 0
    OBVIOUS
  <2>3. pp \in Seq(HashBlock) /\ Len(pp) = n + 1 /\ pp[n + 1] = x /\ \A i \in 1..n : pp[i] = past[i]
    BY <1>1, <1>9, AppendProperties DEF n
  <2>4. Zeros \in HashBlock /\ \A j \in 1..Rate : Zeros[j] = {}
    BY DEF Zeros, HashBlock, HashBytes
  <2>5. Rate * (n + 1) = r + Rate
    BY <1>1, Multiples DEF r
  <2>6. Len(t) = Rate * (n + 1) + 0
    BY <2>5, <1>1, <1>4, <1>13
  <2> HIDE DEF pp
  <2>7. d \in [past : Seq(HashBlock), bytes : HashBlock, point : 0..(Rate - 1)]
    BY <1>1, <2>3, <2>4 DEF pp
  <2>8. ASSUME NEW i \in 1..(n + 1), NEW j \in 1..Rate PROVE pp[i][j] = t[Rate * (i - 1) + j]
    <3>1. CASE i = n + 1
      <4>1. i - 1 = n
        BY <3>1, <1>1
      <4>2. Rate * (i - 1) + j = r + j
        BY <4>1 DEF r
      <4>3. x[j] = t[r + j]
        BY <1>10, <1>13, <1>1
      <4> QED
        BY <3>1, <4>2, <4>3, <2>3
    <3>2. CASE i # n + 1
      <4>1. i \in 1..n
        BY <3>2, <1>1
      <4> QED
        BY <4>1, <1>11, <2>3
    <3> QED
      BY <3>1, <3>2
  <2>9. \A j \in 1..Rate : Zeros[j] = IF j <= 0 THEN t[Rate * Len(pp) + j] ELSE {}
    <3>1. \A j \in 1..Rate : ~(j <= 0)
      BY <1>1
    <3> QED
      BY <3>1, <2>4
  <2> HIDE DEF d
  <2>10. Fed(d, t)
    BY <2>2, <2>3, <2>6, <2>7, <2>8, <2>9 DEF Fed
  <2> QED
    BY <2>1, <2>10, <1>4 DEF d, t
<1> QED
  BY <1>1, <1>12, <1>13

\* Every place of a sequence of blocks is a place in a block.
LEMMA InBlock ==
  ASSUME NEW L \in Nat \ {0}, NEW n \in Nat, NEW q \in 1..(L * n)
  PROVE  \E i \in 1..n, j \in 1..L : q = L * (i - 1) + j
<1> DEFINE t == (q - 1) \div L
           r == (q - 1) % L
<1>1. q - 1 \in Int /\ 0 <= q - 1 /\ L * n \in Nat
  <2>1. L * n \in Nat
    OBVIOUS
  <2> QED
    BY <2>1
<1>2. r \in Int /\ 0 <= r /\ r < L /\ t \in Int /\ q - 1 = L * t + r
  BY <1>1, DivMod
<1> HIDE DEF t, r
<1>3. t >= 0
  <2> SUFFICES ASSUME t < 0 PROVE FALSE
    BY <1>2
  <2>1. L * t <= -L
    BY <1>2
  <2>2. L * t \in Int
    BY <1>2
  <2> DEFINE x == L * t
  <2>3. x \in Int /\ x <= -L /\ q - 1 = x + r
    BY <2>1, <2>2, <1>2
  <2> HIDE DEF x
  <2> QED
    BY <2>3, <1>1, <1>2
<1>4. t < n
  <2> SUFFICES ASSUME n <= t PROVE FALSE
    BY <1>2
  <2>1. L * n <= L * t /\ L * t \in Nat /\ L * n \in Nat
    BY <1>2, <1>3, Multiples
  <2> DEFINE x == L * t
             y == L * n
  <2>2. x \in Nat /\ y \in Nat /\ y <= x /\ q - 1 = x + r /\ q \in 1..y
    BY <2>1, <1>2
  <2> HIDE DEF x, y
  <2> QED
    BY <2>2, <1>2
<1> DEFINE i == t + 1
           j == r + 1
<1>5. i \in 1..n /\ j \in 1..L /\ i - 1 = t
  BY <1>2, <1>3, <1>4
<1>6. L * t \in Int
  BY <1>2
<1>7. q = L * t + j
  <2> DEFINE x == L * t
  <2>1. x \in Int /\ q - 1 = x + r
    BY <1>2, <1>6
  <2> HIDE DEF x
  <2>2. q = x + j
    BY <2>1, <1>1, <1>2
  <2> QED
    BY <2>2 DEF x
<1>8. q = L * (i - 1) + j
  BY <1>5, <1>7
<1> HIDE DEF i, j
<1> QED
  BY <1>5, <1>8

\* The part of s that is as m.
LEMMA PrefixIs ==
  ASSUME NEW A, NEW s, NEW k \in Nat, NEW m \in Seq(A), Len(m) = k, \A i \in 1..k : s[i] = m[i] /\ s[i] \in A
  PROVE  SubSeq(s, 1, k) = m
<1> DEFINE u == SubSeq(s, 1, k)
<1>1. /\ u \in Seq(A) /\ Len(u) = (IF 1 <= k THEN k - 1 + 1 ELSE 0)
      /\ \A i \in 1..(k - 1 + 1) : u[i] = s[1 + i - 1]
  BY SubSeqProperties
<1> HIDE DEF u
<1>2. Len(u) = k /\ \A i \in 1..k : u[i] = m[i]
  BY <1>1
<1>3. u = m
  BY <1>1, <1>2, SeqEqual
<1> QED
  BY <1>3 DEF u

\* The blocks of a digest are the message, the padding and zeros.
LEMMA ResultIs ==
  ASSUME NEW m \in Seq(HashBytes), NEW c, Fed(c, m), NEW keccak \in BOOLEAN
  PROVE  /\ Recovered(finalize(c, keccak).past) = [message |-> m, nist |-> ~keccak]
         /\ finalize(c, keccak).past # << >>
<1> DEFINE past == c.past
           bytes == c.bytes
           p == c.point
           n == Len(past)
           r == Rate * n
           Pad == IF keccak THEN KeccakPad ELSE NistPad
           y == [bytes EXCEPT ![p + 1] = XorBits(@, Pad)]
           z == [y EXCEPT ![Rate] = XorBits(@, EndBit)]
           blocks == Append(past, z)
<1>1. /\ Rate \in Nat \ {0} /\ past \in Seq(HashBlock) /\ bytes \in HashBlock /\ p \in 0..(Rate - 1)
      /\ n \in Nat /\ r \in Nat /\ Len(m) = r + p
  BY RateIs DEF Fed
<1>2. \A i \in 1..n, j \in 1..Rate : past[i][j] = m[Rate * (i - 1) + j]
  BY DEF Fed
<1>3. \A j \in 1..Rate : bytes[j] = IF j <= p THEN m[r + j] ELSE {}
  BY DEF Fed
<1>4. c = [past |-> past, bytes |-> bytes, point |-> p]
  BY DEF Fed
<1>5. finalize(c, keccak).past = blocks
  <2> DEFINE e == [c EXCEPT !.bytes[c.point + 1] = XorBits(@, Pad)]
             f == [e EXCEPT !.bytes[Rate] = XorBits(@, EndBit)]
  <2>1. finalize(c, keccak) = update_step(f)
    BY DEF finalize
  <2>2. e.past = past /\ e.bytes = y /\ DOMAIN e = {"past", "bytes", "point"}
    BY <1>4
  <2> HIDE DEF y, past
  <2>3. f.past = past /\ f.bytes = z /\ DOMAIN f = {"past", "bytes", "point"}
    <3> HIDE DEF e
    <3>1. f.past = e.past /\ DOMAIN f = DOMAIN e
      BY <2>2
    <3>2. f.bytes = z
      BY <2>2
    <3> QED
      BY <2>2, <3>1, <3>2
  <2> HIDE DEF f, z
  <2>4. update_step(f).past = Append(past, z)
    BY <2>3 DEF update_step
  <2> QED
    BY <2>1, <2>4
<1> HIDE DEF past, bytes, p, n, r
<1>6. /\ Pad \in HashBytes /\ Pad # {} /\ EndBit \in HashBytes /\ (Pad = NistPad <=> ~keccak)
      /\ XorBits({}, Pad) = Pad
  <2>1. NistPad # {} /\ KeccakPad # {} /\ 1 \in NistPad /\ 1 \notin KeccakPad
    BY DEF KeccakPad, NistPad
  <2>2. NistPad \in HashBytes /\ KeccakPad \in HashBytes /\ EndBit \in HashBytes
    BY DEF HashBytes, KeccakPad, NistPad, EndBit
  <2>3. XorBits({}, Pad) = Pad
    BY DEF XorBits
  <2>4. Pad = NistPad <=> ~keccak
    BY <2>1
  <2> QED
    BY <2>1, <2>2, <2>3, <2>4
<1>7. p + 1 \in 1..Rate /\ bytes[p + 1] = {}
  BY <1>1, <1>3
<1>8. y \in HashBlock /\ \A j \in 1..Rate : y[j] = IF j = p + 1 THEN Pad ELSE bytes[j]
  <2> HIDE DEF Pad
  <2> QED
    BY <1>1, <1>6, <1>7 DEF HashBlock
<1> HIDE DEF y, Pad
<1>9. \A a, b \in HashBytes : XorBits(a, b) \in HashBytes /\ XorBits(XorBits(a, b), b) = a
  BY DEF HashBytes, XorBits
<1>10. z \in HashBlock /\ \A j \in 1..Rate : z[j] = IF j = Rate THEN XorBits(y[Rate], EndBit) ELSE y[j]
  <2>1. Rate \in 1..Rate /\ y[Rate] \in HashBytes
    BY <1>1, <1>8 DEF HashBlock
  <2> QED
    BY <2>1, <1>6, <1>8, <1>9 DEF HashBlock
<1> HIDE DEF z
<1>11. /\ blocks \in Seq(HashBlock) /\ Len(blocks) = n + 1 /\ blocks[n + 1] = z
       /\ \A i \in 1..n : blocks[i] = past[i]
  BY <1>1, <1>10, AppendProperties DEF n
<1> HIDE DEF blocks
<1> DEFINE all == FlattenSeq(blocks)
           N == r + Rate
           s == [all EXCEPT ![Len(all)] = XorBits(@, EndBit)]
<1>12. Rate * (n + 1) = N /\ N \in Nat
  BY <1>1, Multiples DEF r
<1>13. /\ all \in [1..N -> HashBytes]
       /\ \A i \in 1..(n + 1), j \in 1..Rate : all[Rate * (i - 1) + j] = blocks[i][j]
  <2>0. Rate \in Nat \ {0}
    BY <1>1
  <2>1. blocks \in Seq([1..Rate -> HashBytes])
    BY <1>11 DEF HashBlock
  <2>3. Len(blocks) # 0
    BY <1>11, <1>1
  <2> HIDE DEF s, N
  <2>4. Laid(all, blocks, Rate, HashBytes)
    BY <2>0, <2>1, <2>3, FlattenIs
  <2>2. /\ all \in [1..(Rate * Len(blocks)) -> HashBytes]
        /\ \A i \in 1..Len(blocks), j \in 1..Rate : all[Rate * (i - 1) + j] = blocks[i][j]
    BY <2>4 DEF Laid
  <2> HIDE DEF all
  <2> QED
    BY <2>2, <1>11, <1>12
<1> HIDE DEF all
<1>14. Len(all) = N /\ all \in Seq(HashBytes)
  BY <1>12, <1>13
<1>15. N \in 1..N
  BY <1>1
<1>16. s \in [1..N -> HashBytes] /\ \A q \in 1..N : s[q] = IF q = N THEN XorBits(all[N], EndBit) ELSE all[q]
  <2>1. all[N] \in HashBytes
    BY <1>13, <1>15
  <2> QED
    BY <2>1, <1>6, <1>9, <1>13, <1>14, <1>15
<1> HIDE DEF s, N
<1>17. ASSUME NEW q \in 1..r PROVE s[q] = m[q]
  <2>1. PICK i \in 1..n, j \in 1..Rate : q = Rate * (i - 1) + j
    BY <1>1, InBlock DEF r
  <2>2. i \in 1..(n + 1) /\ q \in 1..N /\ q # N
    BY <1>1 DEF N
  <2>3. all[q] = past[i][j]
    BY <2>1, <2>2, <1>11, <1>13
  <2> QED
    BY <2>1, <2>2, <2>3, <1>2, <1>16
<1>18. ASSUME NEW j \in 1..Rate PROVE s[r + j] = y[j]
  <2>1. all[r + j] = z[j]
    <3>1. n + 1 \in 1..(n + 1) /\ (n + 1) - 1 = n
      BY <1>1
    <3>2. all[Rate * ((n + 1) - 1) + j] = blocks[n + 1][j]
      BY <3>1, <1>13
    <3> QED
      BY <3>1, <3>2, <1>11 DEF r
  <2>2. r + j \in 1..N /\ (r + j = N <=> j = Rate)
    BY <1>1 DEF N
  <2>3. CASE j = Rate
    <3>1. y[Rate] \in HashBytes
      BY <1>1, <1>8 DEF HashBlock
    <3>2. s[r + j] = XorBits(z[Rate], EndBit) /\ z[Rate] = XorBits(y[Rate], EndBit)
      BY <2>1, <2>2, <2>3, <1>10, <1>16
    <3> QED
      BY <3>1, <3>2, <2>3, <1>6, <1>9
  <2>4. CASE j # Rate
    BY <2>1, <2>2, <2>4, <1>10, <1>16
  <2> QED
    BY <2>3, <2>4
<1> DEFINE l == r + p + 1
<1>19. \A q \in 1..(r + p) : s[q] = m[q]
  <2> SUFFICES ASSUME NEW q \in 1..(r + p) PROVE s[q] = m[q]
    OBVIOUS
  <2>1. CASE q <= r
    <3>1. q \in 1..r
      BY <2>1, <1>1
    <3> QED
      BY <3>1, <1>17
  <2>2. CASE q > r
    <3> DEFINE j == q - r
    <3>1. j \in 1..Rate /\ j <= p /\ r + j = q /\ j # p + 1
      BY <2>2, <1>1
    <3> HIDE DEF j
    <3>2. s[r + j] = y[j] /\ y[j] = bytes[j] /\ bytes[j] = m[r + j]
      BY <3>1, <1>3, <1>8, <1>18
    <3> QED
      BY <3>1, <3>2
  <2> QED
    BY <2>1, <2>2, <1>1
<1>20. l \in 1..N /\ s[l] = Pad
  <2>1. l \in 1..N /\ l = r + (p + 1)
    BY <1>1 DEF N
  <2>2. s[r + (p + 1)] = Pad
    BY <1>7, <1>8, <1>18
  <2> QED
    BY <2>1, <2>2
<1>21. \A q \in (l + 1)..N : s[q] = {}
  <2> SUFFICES ASSUME NEW q \in (l + 1)..N PROVE s[q] = {}
    OBVIOUS
  <2> DEFINE j == q - r
  <2>1. j \in 1..Rate /\ j # p + 1 /\ ~(j <= p) /\ r + j = q
    BY <1>1 DEF N
  <2> HIDE DEF j
  <2>2. s[r + j] = y[j] /\ y[j] = bytes[j] /\ bytes[j] = {}
    BY <2>1, <1>3, <1>8, <1>18
  <2> QED
    BY <2>1, <2>2
<1>22. l \in Nat /\ N \in Nat
  BY <1>1, <1>12
<1>23. Len(s) = N /\ DOMAIN s = 1..N
  BY <1>16, <1>12
<1> HIDE DEF l
<1> DEFINE last == CHOOSE i \in DOMAIN s : s[i] # {} /\ \A j \in (i + 1)..Len(s) : s[j] = {}
<1>24. last = l
  <2> DEFINE Is(i) == i \in 1..N /\ s[i] # {} /\ \A j \in (i + 1)..N : s[j] = {}
  <2>1. Is(l)
    BY <1>6, <1>20, <1>21
  <2>2. ASSUME NEW i, Is(i) PROVE i = l
    <3>1. ~(i < l)
      <4> SUFFICES ASSUME i < l PROVE FALSE
        OBVIOUS
      <4>1. l \in (i + 1)..N
        BY <1>20, <1>22, <2>2
      <4> QED
        BY <4>1, <2>2, <1>6, <1>20
    <3>2. ~(l < i)
      <4> SUFFICES ASSUME l < i PROVE FALSE
        OBVIOUS
      <4>1. i \in (l + 1)..N
        BY <1>22, <2>2
      <4> QED
        BY <4>1, <2>2, <1>21
    <3> QED
      BY <3>1, <3>2, <2>2, <1>22
  <2>3. last = CHOOSE i \in 1..N : s[i] # {} /\ \A j \in (i + 1)..N : s[j] = {}
    BY <1>23
  <2> HIDE DEF last
  <2>4. Is(last)
    BY <2>1, <2>3
  <2> QED
    BY <2>2, <2>4
<1> HIDE DEF last
<1>25. SubSeq(s, 1, l - 1) = m
  <2>1. l - 1 = r + p /\ l - 1 \in Int
    BY <1>1 DEF l
  <2>2. r + p <= N /\ r + p \in Nat
    BY <1>1 DEF N
  <2>3. \A i \in 1..(r + p) : s[i] \in HashBytes
    BY <1>16, <2>2, <1>22
  <2> DEFINE k == r + p
  <2>4. k \in Nat /\ Len(m) = k /\ \A i \in 1..k : s[i] = m[i] /\ s[i] \in HashBytes
    BY <2>2, <2>3, <1>1, <1>19
  <2> HIDE DEF k
  <2>5. SubSeq(s, 1, k) = m
    BY <2>4, PrefixIs
  <2> QED
    BY <2>1, <2>5 DEF k
<1>26. Recovered(blocks) = [message |-> SubSeq(s, 1, last - 1), nist |-> s[last] = NistPad]
  BY DEF Recovered, all, s, last
<1>27. (s[last] = NistPad) = ~keccak
  BY <1>6, <1>20, <1>24
<1>28. Recovered(blocks) = [message |-> m, nist |-> ~keccak]
  BY <1>24, <1>25, <1>26, <1>27
<1>29. blocks # << >>
  BY <1>11, <1>1
<1> QED
  BY <1>5, <1>28, <1>29

\* A new encoder, also after a reset.
LEMMA NothingFed == Fed(sha3_init, << >>) /\ << >> \in Seq(HashBytes)
<1>1. Rate \in Nat \ {0} /\ << >> \in Seq(HashBytes) /\ Len(<< >>) = 0
  BY RateIs, EmptySeq
<1>2. << >> \in Seq(HashBlock)
  BY EmptySeq
<1>3. Zeros \in HashBlock /\ \A j \in 1..Rate : Zeros[j] = {}
  BY DEF Zeros, HashBlock, HashBytes
<1>4. sha3_init \in [past : Seq(HashBlock), bytes : HashBlock, point : 0..(Rate - 1)]
  BY <1>1, <1>2, <1>3 DEF sha3_init
<1>5. sha3_init.past = << >> /\ sha3_init.bytes = Zeros /\ sha3_init.point = 0
  BY DEF sha3_init
<1>6. Rate * 0 + 0 = 0 /\ \A j \in 1..Rate : ~(j <= 0)
  BY <1>1
<1>7. Len(sha3_init.past) = 0 /\ Rate * Len(sha3_init.past) + sha3_init.point = 0
  BY <1>1, <1>5, <1>6
<1>8. \A i \in 1..Len(sha3_init.past) : FALSE
  BY <1>7
<1>9. \A j \in 1..Rate : sha3_init.bytes[j] = IF j <= sha3_init.point THEN << >>[Rate * Len(sha3_init.past) + j] ELSE {}
  BY <1>3, <1>5, <1>6
<1> HIDE DEF sha3_init
<1> QED
  BY <1>1, <1>4, <1>7, <1>8, <1>9 DEF Fed

\* The encoder before the first call.
LEMMA HashStarts == ASSUME HashInit PROVE HashInv
  BY NothingFed DEF HashInit, HashInv, DigestIsOfMessage

\* Every call of the encoder.
LEMMA HashKeeps == ASSUME HashInv, EncodeHash PROVE HashInv'
<1>1. CASE reset
  <2>1. digest' = NoDigest /\ message' = << >> /\ ctx' = sha3_init
    BY <1>1 DEF reset
  <2> QED
    BY <2>1, NothingFed DEF HashInv, DigestIsOfMessage
<1>2. ASSUME NEW data \in {<<b>> : b \in HashByte} \cup {<<b, c>> : b, c \in HashByte}, WriteHash(data)
      PROVE  HashInv'
  <2>1. /\ digest = NoDigest /\ digest' = NoDigest /\ Fed(ctx, message) /\ message \in Seq(HashBytes)
        /\ ctx' = update(ctx, data) /\ message' = message \o data
    BY <1>2 DEF WriteHash, HashInv
  <2>2. HashByte \subseteq HashBytes
    BY HashingAssumption DEF HashBytes
  <2>3. Fed(update(ctx, data), message \o data) /\ message \o data \in Seq(HashBytes)
    <3>1. ASSUME NEW b \in HashByte, data = <<b>> PROVE Fed(update(ctx, data), message \o data) /\ message \o data \in Seq(HashBytes)
      <4>1. message \o <<b>> = Append(message, b)
        BY <2>1, <2>2
      <4>2. Fed(Absorb(ctx, b), Append(message, b)) /\ Append(message, b) \in Seq(HashBytes)
        BY <2>1, <2>2, AbsorbKeeps
      <4>3. update(ctx, <<b>>) = Absorb(ctx, b)
        BY FoldOne
      <4>4. message \o data = Append(message, b)
        BY <3>1, <4>1
      <4>5. update(ctx, data) = Absorb(ctx, b)
        BY <3>1, <4>3
      <4> QED
        BY <4>2, <4>4, <4>5
    <3>2. ASSUME NEW b \in HashByte, NEW c \in HashByte, data = <<b, c>> PROVE Fed(update(ctx, data), message \o data) /\ message \o data \in Seq(HashBytes)
      <4> DEFINE m == Append(message, b)
                 x == Absorb(ctx, b)
      <4>1. Fed(x, m) /\ m \in Seq(HashBytes)
        BY <2>1, <2>2, AbsorbKeeps
      <4>2. message \o <<b, c>> = Append(m, c)
        <5>1. b \in HashBytes /\ c \in HashBytes
          BY <2>2
        <5> QED
          BY <5>1, <2>1
      <4>3. update(ctx, <<b, c>>) = Absorb(x, c)
        BY FoldTwo
      <4> HIDE DEF m, x
      <4>4. Fed(Absorb(x, c), Append(m, c)) /\ Append(m, c) \in Seq(HashBytes)
        BY <4>1, <2>2, AbsorbKeeps
      <4>5. message \o data = Append(m, c)
        BY <3>2, <4>2
      <4>6. update(ctx, data) = Absorb(x, c)
        BY <3>2, <4>3
      <4> QED
        BY <4>4, <4>5, <4>6
    <3> QED
      BY <1>2, <3>1, <3>2
  <2> QED
    BY <2>1, <2>3 DEF HashInv, DigestIsOfMessage
<1>3. ASSUME NEW is_nist \in BOOLEAN, sha3_result(is_nist) PROVE HashInv'
  <2>1. /\ Fed(ctx, message) /\ message \in Seq(HashBytes) /\ message' = message
        /\ digest' = [blocks |-> finalize(ctx, ~is_nist).past, nist |-> is_nist]
    BY <1>3 DEF sha3_result, HashInv
  <2> DEFINE blocks == finalize(ctx, ~is_nist).past
  <2>2. Recovered(blocks) = [message |-> message, nist |-> ~(~is_nist)] /\ blocks # << >>
    BY <2>1, ResultIs
  <2> HIDE DEF blocks
  <2>3. digest'.blocks = blocks /\ digest'.nist = is_nist
    BY <2>1 DEF blocks
  <2>4. digest' # NoDigest
    BY <2>2, <2>3 DEF NoDigest
  <2>5. (~(~is_nist)) = is_nist
    OBVIOUS
  <2>6. DigestIsOfMessage'
    BY <2>1, <2>2, <2>3, <2>5 DEF DigestIsOfMessage
  <2> QED
    BY <2>1, <2>4, <2>6 DEF HashInv
<1> QED
  BY <1>1, <1>2, <1>3 DEF EncodeHash

\* A step of another part leaves the encoder as it is.
LEMMA HashRests == ASSUME HashInv, UNCHANGED hashVars PROVE HashInv'
<1>1. ctx' = ctx /\ message' = message /\ digest' = digest
  BY DEF hashVars
<1> QED
  BY <1>1 DEF HashInv, DigestIsOfMessage

-----------------------------------------------------------------------------
(* hmac. *)

\* The calls of hmac.
HmacCalls == call.name = "hmac" => call.in \in [c : KeyTexts, e : KeyTexts, d : {<< >>, <<ZeroByte>>}]

\* The key that is mixed in, before it is filled up.
Short(c) == IF Len(c) > HmacBlock THEN IdealHash(c) ELSE c

\* A byte of a key: its first component is the same in all of them.
IsByte(b) == b = [pad |-> "", byte |-> b.byte]

\* A key that fits.
LEMMA ShortKey ==
  ASSUME NEW c \in KeyTexts
  PROVE  /\ Len(Short(c)) \in 0..HmacBlock /\ DOMAIN Short(c) = 1..Len(Short(c))
         /\ Short(c) = [i \in 1..Len(Short(c)) |-> Short(c)[i]]
         /\ \A i \in 1..Len(Short(c)) : IsByte(Short(c)[i])
<1>1. PICK n \in 0..(HmacBlock + 2) : c \in [1..n -> {ZeroByte, OneByte}]
  BY DEF KeyTexts
<1>2. HmacBlock \in Nat \ {0}
  BY HashingAssumption
<1>3. Len(c) = n /\ n \in Nat /\ DOMAIN c = 1..n /\ c = [i \in 1..n |-> c[i]]
  BY <1>1, <1>2
<1>4. IsByte(ZeroByte) /\ IsByte(OneByte)
  BY DEF IsByte, ZeroByte, OneByte
<1>5. CASE Len(c) > HmacBlock
  <2> DEFINE x == [pad |-> "", byte |-> c]
  <2>1. Short(c) = <<x>>
    BY <1>5 DEF Short, IdealHash
  <2>2. IsByte(x)
    BY DEF IsByte
  <2> HIDE DEF x
  <2>3. Len(<<x>>) = 1 /\ DOMAIN <<x>> = 1..1 /\ <<x>>[1] = x /\ <<x>> = [i \in 1..1 |-> <<x>>[i]]
    OBVIOUS
  <2> QED
    BY <2>1, <2>2, <2>3, <1>2
<1>6. CASE ~(Len(c) > HmacBlock)
  <2>1. Short(c) = c
    BY <1>6 DEF Short
  <2>2. \A i \in 1..n : IsByte(c[i])
    BY <1>1, <1>4
  <2> QED
    BY <2>1, <2>2, <1>3, <1>6, <1>2
<1> QED
  BY <1>5, <1>6

\* The byte at a place of a key that is filled up with zeros.
ByteAt(k, i) == IF i <= Len(k) THEN k[i].byte ELSE << >>

\* A key without the zeros at its end: how long it is.
Ends(k, t) ==
  /\ t \in 0..Len(k) /\ Trimmed(k) = [i \in 1..t |-> k[i]]
  /\ t # 0 => ByteAt(k, t) # << >>
  /\ \A i \in Nat : i > t => ByteAt(k, i) = << >>

\* A key of bytes.
IsKey(k) == Len(k) \in Nat /\ DOMAIN k = 1..Len(k) /\ \A i \in 1..Len(k) : IsByte(k[i])

\* There is a last byte that is not zero, or none.
LEMMA TrimmedIs ==
  ASSUME NEW k, IsKey(k)
  PROVE  \E t : Ends(k, t)
<1> DEFINE n == Len(k)
           N == {i \in 1..n : k[i] # ZeroByte}
<1>1. n \in Nat /\ DOMAIN k = 1..n /\ \A i \in 1..n : IsByte(k[i])
  BY DEF IsKey
<1>2. \A i \in 1..n : k[i] = ZeroByte <=> ByteAt(k, i) = << >>
  <2>1. ZeroByte.byte = << >> /\ ZeroByte = [pad |-> "", byte |-> << >>]
    BY DEF ZeroByte
  <2> SUFFICES ASSUME NEW i \in 1..n PROVE k[i] = ZeroByte <=> k[i].byte = << >>
    BY <1>1 DEF ByteAt
  <2>2. k[i] = [pad |-> "", byte |-> k[i].byte]
    BY <1>1 DEF IsByte
  <2> QED
    BY <2>1, <2>2
<1>3. \A i \in Nat : i > n => ByteAt(k, i) = << >>
  BY <1>1 DEF ByteAt
<1>4. CASE N = {}
  <2>1. \A i \in DOMAIN k : k[i] = ZeroByte
    BY <1>1, <1>4
  <2>2. Trimmed(k) = << >>
    BY <2>1 DEF Trimmed
  <2>3. [i \in 1..0 |-> k[i]] = << >>
    OBVIOUS
  <2>4. ASSUME NEW i \in Nat, i > 0 PROVE ByteAt(k, i) = << >>
    <3>1. CASE i <= n
      BY <3>1, <2>4, <2>1, <1>1, <1>2
    <3>2. CASE i > n
      BY <3>2, <1>3
    <3> QED
      BY <3>1, <3>2, <1>1
  <2>5. Ends(k, 0)
    BY <2>2, <2>3, <2>4, <1>1 DEF Ends
  <2> QED
    BY <2>5
<1>5. CASE N # {}
  <2> DEFINE Final(i) == k[i] # ZeroByte /\ \A j \in (i + 1)..n : k[j] = ZeroByte
             t == CHOOSE i \in 1..n : Final(i)
  <2>1. \E i \in 1..n : Final(i)
    <3> DEFINE C == {n - i : i \in N}
    <3>1. C \in SUBSET Nat /\ C # {}
      BY <1>1, <1>5
    <3>2. PICK x \in C : \A y \in C : x <= y
      <4> HIDE DEF C
      <4> QED
        BY <3>1, LeastNumber
    <3>3. PICK i \in N : x = n - i
      BY <3>2
    <3>4. \A j \in N : n - i <= n - j
      BY <3>2, <3>3
    <3>5. i \in 1..n /\ k[i] # ZeroByte
      BY <3>3
    <3>6. ASSUME NEW j \in (i + 1)..n PROVE k[j] = ZeroByte
      <4>1. j \in 1..n /\ ~(n - i <= n - j)
        BY <1>1, <3>5
      <4> QED
        BY <4>1, <3>4
    <3> QED
      BY <3>5, <3>6
  <2>2. t \in 1..n /\ Final(t)
    BY <2>1
  <2>3. Trimmed(k) = SubSeq(k, 1, t)
    <3>1. \E i \in DOMAIN k : k[i] # ZeroByte
      BY <1>1, <1>5
    <3>2. Trimmed(k) = SubSeq(k, 1, CHOOSE i \in DOMAIN k : k[i] # ZeroByte /\ \A j \in (i + 1)..Len(k) : k[j] = ZeroByte)
      BY <3>1 DEF Trimmed
    <3> QED
      BY <3>2, <1>1
  <2> HIDE DEF t
  <2>4. SubSeq(k, 1, t) = [i \in 1..t |-> k[i]]
    <3> DEFINE f == [i \in 1..t |-> k[i]]
               A == {k[i] : i \in 1..t}
    <3>1. f \in [1..t -> A] /\ t \in Nat
      BY <2>2, <1>1
    <3>2. f \in Seq(A) /\ Len(f) = t /\ \A i \in 1..t : k[i] = f[i] /\ k[i] \in A
      BY <3>1
    <3> HIDE DEF f, A
    <3>3. SubSeq(k, 1, t) = f
      BY <3>1, <3>2, PrefixIs
    <3> QED
      BY <3>3 DEF f
  <2>5. ASSUME NEW i \in Nat, i > t PROVE ByteAt(k, i) = << >>
    <3>1. CASE i <= n
      <4>1. i \in (t + 1)..n /\ i \in 1..n
        BY <3>1, <2>5, <2>2, <1>1
      <4> QED
        BY <4>1, <2>2, <1>2
    <3>2. CASE i > n
      BY <3>2, <1>3
    <3> QED
      BY <3>1, <3>2, <1>1
  <2>6. t \in 0..n /\ ByteAt(k, t) # << >>
    BY <2>2, <1>1, <1>2
  <2>7. Ends(k, t)
    BY <2>3, <2>4, <2>5, <2>6 DEF Ends
  <2> QED
    BY <2>7
<1> QED
  BY <1>4, <1>5

\* Keys that are filled up alike are alike without the zeros at their ends.
LEMMA TrimmedAlike ==
  ASSUME NEW k, IsKey(k), NEW l, IsKey(l), NEW h \in Nat, Len(k) <= h, Len(l) <= h
  PROVE  Trimmed(k) = Trimmed(l) <=> \A i \in 1..h : ByteAt(k, i) = ByteAt(l, i)
<1>1. PICK t : Ends(k, t)
  BY TrimmedIs
<1>2. PICK u : Ends(l, u)
  BY TrimmedIs
<1>3. Len(k) \in Nat /\ Len(l) \in Nat
  BY DEF IsKey
<1>4. t \in 0..Len(k) /\ u \in 0..Len(l)
  BY <1>1, <1>2 DEF Ends
<1> DEFINE f == [i \in 1..t |-> k[i]]
           g == [i \in 1..u |-> l[i]]
<1>5. Trimmed(k) = f /\ Trimmed(l) = g
  BY <1>1, <1>2 DEF Ends
<1>6. t # 0 => ByteAt(k, t) # << >>
  BY <1>1 DEF Ends
<1>7. u # 0 => ByteAt(l, u) # << >>
  BY <1>2 DEF Ends
<1>8. \A i \in Nat : (i > t => ByteAt(k, i) = << >>) /\ (i > u => ByteAt(l, i) = << >>)
  BY <1>1, <1>2 DEF Ends
<1>9. ASSUME f = g, NEW i \in 1..h PROVE ByteAt(k, i) = ByteAt(l, i)
  <2>1. DOMAIN f = 1..t /\ DOMAIN g = 1..u
    OBVIOUS
  <2>2. t = u
    <3>1. 1..t = 1..u
      BY <1>9, <2>1
    <3> QED
      BY <3>1, <1>3, <1>4
  <2>3. CASE i <= t
    <3>1. i \in 1..t /\ i \in 1..u
      BY <2>2, <2>3, <1>3, <1>4
    <3>2. f[i] = k[i] /\ g[i] = l[i]
      BY <3>1
    <3>3. k[i] = l[i]
      BY <3>2, <1>9
    <3>4. i <= Len(k) /\ i <= Len(l)
      BY <3>1, <1>3, <1>4
    <3> QED
      BY <3>3, <3>4 DEF ByteAt
  <2>4. CASE i > t
    <3>1. i \in Nat /\ i > u
      BY <2>2, <2>4
    <3> QED
      BY <3>1, <2>4, <1>8
  <2> QED
    BY <2>3, <2>4, <1>3, <1>4
<1>10. ASSUME \A i \in 1..h : ByteAt(k, i) = ByteAt(l, i) PROVE f = g
  <2>1. ~(t < u)
    <3> SUFFICES ASSUME t < u PROVE FALSE
      OBVIOUS
    <3>1. u \in 1..h /\ u # 0 /\ u \in Nat /\ u > t
      BY <1>3, <1>4
    <3> QED
      BY <3>1, <1>7, <1>8, <1>10
  <2>2. ~(u < t)
    <3> SUFFICES ASSUME u < t PROVE FALSE
      OBVIOUS
    <3>1. t \in 1..h /\ t # 0 /\ t \in Nat /\ t > u
      BY <1>3, <1>4
    <3> QED
      BY <3>1, <1>6, <1>8, <1>10
  <2>3. t = u
    BY <2>1, <2>2, <1>3, <1>4
  <2>4. ASSUME NEW i \in 1..t PROVE k[i] = l[i]
    <3>1. i \in 1..h /\ i \in 1..Len(k) /\ i \in 1..Len(l)
      BY <2>3, <1>3, <1>4
    <3>2. k[i].byte = l[i].byte
      BY <3>1, <1>10, <1>3 DEF ByteAt
    <3>3. k[i] = [pad |-> "", byte |-> k[i].byte] /\ l[i] = [pad |-> "", byte |-> l[i].byte]
      BY <3>1 DEF IsKey, IsByte
    <3> QED
      BY <3>2, <3>3
  <2> QED
    BY <2>3, <2>4
<1> QED
  BY <1>5, <1>9, <1>10

\* The same hmac means the same bytes of the key that is filled up.
LEMMA HmacAlike ==
  ASSUME NEW c \in KeyTexts, NEW e \in KeyTexts, NEW d
  PROVE  hmac_digest(c, d) = hmac_digest(e, d)
           <=> \A i \in 1..HmacBlock : ByteAt(Short(c), i) = ByteAt(Short(e), i)
<1>0. HmacBlock \in Nat \ {0}
  BY HashingAssumption
<1>1. \A x, pad : add_key(x, pad) = [i \in 1..HmacBlock |-> [pad |-> pad, byte |-> ByteAt(Short(x), i)]]
  BY DEF add_key, ByteAt, Short
<1>2. ASSUME \A i \in 1..HmacBlock : ByteAt(Short(c), i) = ByteAt(Short(e), i)
      PROVE  hmac_digest(c, d) = hmac_digest(e, d)
  <2>1. ASSUME NEW pad PROVE add_key(c, pad) = add_key(e, pad)
    BY <1>1, <1>2
  <2> QED
    BY <2>1 DEF hmac_digest
<1>3. ASSUME hmac_digest(c, d) = hmac_digest(e, d), NEW i \in 1..HmacBlock
      PROVE  ByteAt(Short(c), i) = ByteAt(Short(e), i)
  <2> DEFINE a == add_key(c, "outer")
             b == add_key(e, "outer")
             x == [pad |-> "", byte |-> add_key(c, "inner") \o d]
             y == [pad |-> "", byte |-> add_key(e, "inner") \o d]
             A == {a[j] : j \in 1..HmacBlock} \cup {b[j] : j \in 1..HmacBlock} \cup {x, y}
  <2>1. <<[pad |-> "", byte |-> a \o <<x>>]>> = <<[pad |-> "", byte |-> b \o <<y>>]>>
    BY <1>3 DEF hmac_digest, IdealHash
  <2>2. /\ DOMAIN a = 1..HmacBlock /\ a = [j \in 1..HmacBlock |-> a[j]] /\ a[i].byte = ByteAt(Short(c), i)
        /\ DOMAIN b = 1..HmacBlock /\ b = [j \in 1..HmacBlock |-> b[j]] /\ b[i].byte = ByteAt(Short(e), i)
    BY <1>1
  <2> HIDE DEF a, b, x, y
  <2>3. a \o <<x>> = b \o <<y>>
    <3> DEFINE v == a \o <<x>>
               w == b \o <<y>>
    <3>1. <<[pad |-> "", byte |-> v]>> = <<[pad |-> "", byte |-> w]>>
      BY <2>1
    <3> HIDE DEF v, w
    <3>2. [pad |-> "", byte |-> v] = [pad |-> "", byte |-> w]
      BY <3>1
    <3>3. v = w
      BY <3>2
    <3> QED
      BY <3>3 DEF v, w
  <2>4. a \in [1..HmacBlock -> A] /\ b \in [1..HmacBlock -> A]
    BY <2>2
  <2>5. x \in A /\ y \in A
    OBVIOUS
  <2> HIDE DEF A
  <2>6. a \in Seq(A) /\ Len(a) = HmacBlock /\ b \in Seq(A) /\ Len(b) = HmacBlock
    BY <2>4, <1>0
  <2>7. <<x>> \in Seq(A) /\ Len(<<x>>) = 1 /\ <<y>> \in Seq(A) /\ Len(<<y>>) = 1
    BY <2>5
  <2>8. (a \o <<x>>)[i] = a[i] /\ (b \o <<y>>)[i] = b[i]
    <3>1. i \in 1..(HmacBlock + 1) /\ i <= HmacBlock
      BY <1>0
    <3> QED
      BY <3>1, <2>6, <2>7, ConcatProperties
  <2> QED
    BY <2>2, <2>3, <2>8
<1> QED
  BY <1>2, <1>3

\* hmac tells keys apart.
LEMMA KeysAreApart == ASSUME HmacCalls PROVE KeysApart
<1> SUFFICES ASSUME call.name = "hmac"
             PROVE  hmac_digest(call.in.c, call.in.d) = hmac_digest(call.in.e, call.in.d)
                      <=> Trimmed(Short(call.in.c)) = Trimmed(Short(call.in.e))
  BY DEF KeysApart, Short
<1> DEFINE c == call.in.c
           e == call.in.e
           d == call.in.d
<1>1. c \in KeyTexts /\ e \in KeyTexts
  BY DEF HmacCalls
<1> HIDE DEF c, e, d
<1>2. HmacBlock \in Nat
  BY HashingAssumption
<1>3. IsKey(Short(c)) /\ IsKey(Short(e)) /\ Len(Short(c)) <= HmacBlock /\ Len(Short(e)) <= HmacBlock
  BY <1>1, <1>2, ShortKey DEF IsKey
<1>4. Trimmed(Short(c)) = Trimmed(Short(e)) <=> \A i \in 1..HmacBlock : ByteAt(Short(c), i) = ByteAt(Short(e), i)
  BY <1>2, <1>3, TrimmedAlike
<1>5. hmac_digest(c, d) = hmac_digest(e, d) <=> \A i \in 1..HmacBlock : ByteAt(Short(c), i) = ByteAt(Short(e), i)
  BY <1>1, HmacAlike
<1> QED
  BY <1>4, <1>5 DEF c, e, d

-----------------------------------------------------------------------------
(* Folds. *)

\* The greatest number of an interval, and of a set below a number in it.
LEMMA GreatestIs ==
  ASSUME NEW n \in Nat, NEW s \in SUBSET (1..n), n \in s
  PROVE  Max(s) = n
<1>1. \A y \in s : n >= y
  OBVIOUS
<1>2. \A x \in s : (\A y \in s : x >= y) => x = n
  <2> SUFFICES ASSUME NEW x \in s, \A y \in s : x >= y PROVE x = n
    OBVIOUS
  <2>1. x >= n /\ n >= x /\ x \in Nat
    BY <1>1
  <2> QED
    BY <2>1
<1> QED
  BY <1>1, <1>2 DEF Max

\* f folds the steps F over the subsets of 1..n.
Folds(f, n, S, s0, F) ==
  /\ f \in [SUBSET (1..n) -> S]
  /\ \A s \in SUBSET (1..n) : f[s] = IF s = {} THEN s0 ELSE F[Max(s)][f[s \ {Max(s)}]]

\* A set of numbers that is not empty has a greatest, which is in it.
LEMMA GreatestIn ==
  ASSUME NEW n \in Nat, NEW s \in SUBSET (1..n), s # {}
  PROVE  Max(s) \in s
<1> DEFINE C == {n - i : i \in s}
<1>1. C \in SUBSET Nat /\ C # {}
  <2>1. \A i \in s : n - i \in Nat
    OBVIOUS
  <2>2. PICK i \in s : TRUE
    OBVIOUS
  <2>3. n - i \in C
    BY <2>2
  <2> QED
    BY <2>1, <2>3
<1>2. PICK x \in C : \A y \in C : x <= y
  <2> HIDE DEF C
  <2> QED
    BY <1>1, LeastNumber
<1>3. PICK i \in s : x = n - i
  BY <1>2
<1>4. \A j \in s : n - i <= n - j
  BY <1>2, <1>3
<1>5. \A j \in s : i >= j
  BY <1>4
<1> QED
  BY <1>5 DEF Max

\* A fold over 1..n whose steps stay in a set exists.
LEMMA FoldsExist ==
  ASSUME NEW n \in Nat, NEW S, NEW s0 \in S, NEW F \in [1..n -> [S -> S]]
  PROVE  \E f : Folds(f, n, S, s0, F)
<1> DEFINE Has(m) == \E f : Folds(f, m, S, s0, F)
           T == {m \in 0..n : Has(m)}
<1>1. 0 \in T
  <2> DEFINE f == [s \in SUBSET (1..0) |-> s0]
  <2>1. f \in [SUBSET (1..0) -> S]
    OBVIOUS
  <2>2. \A s \in SUBSET (1..0) : s = {} /\ f[s] = s0
    OBVIOUS
  <2> HIDE DEF f
  <2>3. Folds(f, 0, S, s0, F)
    BY <2>1, <2>2 DEF Folds
  <2> QED
    BY <2>3
<1>2. ASSUME NEW m \in 1..n, m - 1 \in T PROVE m \in T
  <2>1. PICK f : Folds(f, m - 1, S, s0, F)
    BY <1>2
  <2>2. m \in Nat /\ m - 1 \in Nat
    OBVIOUS
  <2> DEFINE low == SUBSET (1..(m - 1))
             h == [s \in SUBSET (1..m) |-> IF m \in s THEN F[m][f[s \ {m}]] ELSE f[s]]
  <2>3. \A s \in SUBSET (1..m) : s \ {m} \in low /\ (m \notin s => s \in low)
    BY <2>2
  <2>4. /\ f \in [low -> S]
        /\ \A s \in low : f[s] = IF s = {} THEN s0 ELSE F[Max(s)][f[s \ {Max(s)}]]
    BY <2>1 DEF Folds
  <2>5. h \in [SUBSET (1..m) -> S]
    <3>1. ASSUME NEW s \in SUBSET (1..m) PROVE h[s] \in S
      <4>1. f[s \ {m}] \in S /\ (m \notin s => f[s] \in S)
        BY <2>3, <2>4
      <4> QED
        BY <4>1
    <3> QED
      BY <3>1
  <2>6. ASSUME NEW s \in SUBSET (1..m) PROVE h[s] = IF s = {} THEN s0 ELSE F[Max(s)][h[s \ {Max(s)}]]
    <3>1. CASE m \in s
      <4>1. Max(s) = m /\ s # {}
        BY <3>1, <2>2, GreatestIs
      <4>2. s \ {m} \in SUBSET (1..m) /\ m \notin s \ {m}
        OBVIOUS
      <4>3. h[s \ {m}] = f[s \ {m}] /\ h[s] = F[m][f[s \ {m}]]
        BY <3>1, <4>2
      <4> HIDE DEF h
      <4> QED
        BY <4>1, <4>3
    <3>2. CASE m \notin s
      <4>1. h[s] = f[s] /\ s \in low
        BY <3>2, <2>3
      <4>2. f[s] = IF s = {} THEN s0 ELSE F[Max(s)][f[s \ {Max(s)}]]
        BY <4>1, <2>4
      <4>3. h[s \ {Max(s)}] = f[s \ {Max(s)}]
        BY <3>2
      <4> HIDE DEF h
      <4> QED
        BY <4>1, <4>2, <4>3
    <3> QED
      BY <3>1, <3>2
  <2> HIDE DEF h
  <2>7. Folds(h, m, S, s0, F)
    BY <2>5, <2>6 DEF Folds
  <2>8. Has(m)
    BY <2>7
  <2> HIDE DEF Has
  <2> QED
    BY <2>8
<1> HIDE DEF T
<1>3. 0..n \subseteq T
  BY <1>1, <1>2, UpTo
<1>4. n \in T
  BY <1>3
<1> QED
  BY <1>4 DEF T

\* it goes through the steps F along the intervals from 1.
Follows(it, n, S, s0, F) ==
  /\ it[{}] = s0
  /\ \A i \in 1..n : it[1..(i - 1)] \in S => it[1..i] = F[i][it[1..(i - 1)]]

\* v is where a run ends.
EndsRun(v, n, S, s0, F) == \E g : Runs(g, n, S, s0, F) /\ v = g[n]

\* What a fold comes to: it runs through the steps.
LEMMA FoldRuns ==
  ASSUME NEW n \in Nat, NEW S, NEW s0 \in S, NEW F \in [1..n -> [S -> S]], NEW it, Follows(it, n, S, s0, F)
  PROVE  EndsRun(it[1..n], n, S, s0, F)
<1>1. /\ it[{}] = s0
      /\ \A i \in 1..n : it[1..(i - 1)] \in S => it[1..i] = F[i][it[1..(i - 1)]]
  BY DEF Follows
<1>2. PICK g : Runs(g, n, S, s0, F)
  BY StepsRun
<1>3. g \in [0..n -> S] /\ g[0] = s0 /\ \A i \in 1..n : g[i] = F[i][g[i - 1]]
  BY <1>2 DEF Runs
<1> DEFINE T == {m \in 0..n : it[1..m] = g[m]}
<1>4. 0 \in T
  <2>1. 1..0 = {}
    OBVIOUS
  <2> QED
    BY <2>1, <1>1, <1>3
<1>5. ASSUME NEW m \in 1..n, m - 1 \in T PROVE m \in T
  <2>1. m - 1 \in 0..n /\ it[1..(m - 1)] = g[m - 1]
    BY <1>5
  <2>2. g[m - 1] \in S
    BY <2>1, <1>3
  <2> QED
    BY <2>1, <2>2, <1>1, <1>3
<1> HIDE DEF T
<1>6. 0..n \subseteq T
  BY <1>4, <1>5, UpTo
<1>7. n \in T
  BY <1>6
<1> QED
  BY <1>2, <1>7 DEF T, EndsRun

\* What a function that folds over subsets does from one interval to the next.
LEMMA FoldAlong ==
  ASSUME NEW n \in Nat, NEW i \in 1..n
  PROVE  1..i \in SUBSET (1..n) /\ 1..i # {} /\ Max(1..i) = i /\ (1..i) \ {i} = 1..(i - 1)
<1>1. i \in Nat /\ i \in 1..i /\ 1..i \in SUBSET (1..i) /\ 1..i \in SUBSET (1..n) /\ (1..i) \ {i} = 1..(i - 1)
  OBVIOUS
<1> QED
  BY <1>1, GreatestIs

-----------------------------------------------------------------------------
(* Words. *)

\* A word is its two bytes.
LEMMA WordIs ==
  ASSUME NEW f \in [1..2 -> Bit]
  PROVE  f = <<f[1], f[2]>> /\ f \in WordOf
<1>1. f[1] \in Bit /\ f[2] \in Bit
  OBVIOUS
<1>2. f = <<f[1], f[2]>>
  OBVIOUS
<1> QED
  BY <1>1, <1>2 DEF WordOf

\* What a word is made of.
LEMMA WordHas ==
  ASSUME NEW a \in WordOf
  PROVE  a = <<a[1], a[2]>> /\ a[1] \in Bit /\ a[2] \in Bit /\ DOMAIN a = 1..2
  BY DEF WordOf

\* Mixing twice gives a word back.
LEMMA XorTwice ==
  ASSUME NEW a \in WordOf, NEW b \in WordOf
  PROVE  Xor(a, b) \in WordOf /\ Xor(Xor(a, b), b) = a
<1> DEFINE x == Xor(a, b)
           y == Xor(x, b)
<1>1. a[1] \in Bit /\ a[2] \in Bit /\ DOMAIN a = 1..2 /\ a = <<a[1], a[2]>>
  BY WordHas
<1>2. b[1] \in Bit /\ b[2] \in Bit
  BY WordHas
<1>3. x = [i \in 1..2 |-> (a[i] + b[i]) % 2]
  BY <1>1 DEF Xor
<1>4. \A i \in 1..2 : a[i] \in Bit /\ b[i] \in Bit
  BY <1>1, <1>2
<1>5. \A i \in 1..2 : (a[i] + b[i]) % 2 \in Bit
  BY <1>4 DEF Bit
<1>6. x \in [1..2 -> Bit]
  BY <1>3, <1>5
<1>7. x \in WordOf
  BY <1>6, WordIs
<1>8. y = [i \in 1..2 |-> (x[i] + b[i]) % 2]
  BY <1>6 DEF Xor
<1>9. \A i \in 1..2 : (((a[i] + b[i]) % 2) + b[i]) % 2 = a[i]
  BY <1>4 DEF Bit
<1> HIDE DEF x, y
<1>10. \A i \in 1..2 : y[i] = a[i]
  BY <1>3, <1>8, <1>9
<1>11. y \in [1..2 -> Bit] /\ y[1] = a[1] /\ y[2] = a[2]
  BY <1>8, <1>10, <1>4
<1>12. y = a
  BY <1>1, <1>11, WordIs
<1> QED
  BY <1>7, <1>12 DEF x, y

\* A block is its two words.
LEMMA BlockHas ==
  ASSUME NEW b \in Block
  PROVE  b = <<b[1], b[2]>> /\ b[1] \in WordOf /\ b[2] \in WordOf
  BY DEF Block

\* The same of blocks.
LEMMA XorBlockTwice ==
  ASSUME NEW a \in Block, NEW b \in Block
  PROVE  XorBlock(a, b) \in Block /\ XorBlock(XorBlock(a, b), b) = a
<1>1. a = <<a[1], a[2]>> /\ a[1] \in WordOf /\ a[2] \in WordOf /\ b[1] \in WordOf /\ b[2] \in WordOf
  BY BlockHas
<1> DEFINE x == Xor(a[1], b[1])
           y == Xor(a[2], b[2])
<1>2. x \in WordOf /\ y \in WordOf /\ Xor(x, b[1]) = a[1] /\ Xor(y, b[2]) = a[2]
  BY <1>1, XorTwice
<1>3. XorBlock(a, b) = <<x, y>>
  BY DEF XorBlock
<1> HIDE DEF x, y
<1>4. XorBlock(<<x, y>>, b) = <<Xor(x, b[1]), Xor(y, b[2])>>
  BY DEF XorBlock
<1> QED
  BY <1>1, <1>2, <1>3, <1>4 DEF Block

-----------------------------------------------------------------------------
(* The Feistel network. *)

\* One round of the network.
Round(P, S, lr, i) == IF i \in {1, Len(P)} THEN lr ELSE <<Xor(lr[2], Xor(S[lr[1]], P[i])), lr[1]>>

\* The rounds as a function.
Rounds(P, S) == [i \in 1..Len(P) |-> [lr \in Block |-> Round(P, S, lr, i)]]

\* A key schedule: the subkeys and the box.
Schedule(P, S) == P \in Seq(WordOf) /\ Len(P) > 1 /\ S \in [WordOf -> WordOf]

\* A round stays in the blocks.
LEMMA RoundsStay ==
  ASSUME NEW P, NEW S, Schedule(P, S)
  PROVE  Rounds(P, S) \in [1..Len(P) -> [Block -> Block]]
<1>1. ASSUME NEW i \in 1..Len(P), NEW lr \in Block PROVE Round(P, S, lr, i) \in Block
  <2>1. lr[1] \in WordOf /\ lr[2] \in WordOf
    BY BlockHas
  <2>2. S[lr[1]] \in WordOf /\ P[i] \in WordOf
    BY <2>1 DEF Schedule
  <2>3. Xor(lr[2], Xor(S[lr[1]], P[i])) \in WordOf
    BY <2>1, <2>2, XorTwice
  <2> QED
    BY <2>1, <2>3 DEF Round, Block
<1> QED
  BY <1>1 DEF Rounds

\* The network is the run of its rounds.
LEMMA NetworkRuns ==
  ASSUME NEW P, NEW S, Schedule(P, S), NEW b \in Block
  PROVE  \E g : /\ Runs(g, Len(P), Block, <<Xor(b[1], P[1]), b[2]>>, Rounds(P, S))
                /\ encrypt(P, S, b) = <<Xor(g[Len(P)][2], P[Len(P)]), g[Len(P)][1]>>
<1> DEFINE n == Len(P)
           s0 == <<Xor(b[1], P[1]), b[2]>>
           F == Rounds(P, S)
           q == [i \in DOMAIN P |-> i]
           Eq(f) == f = [s \in SUBSET (DOMAIN q) |-> IF s = {} THEN s0 ELSE Round(P, S, f[s \ {Max(s)}], q[Max(s)])]
           it == CHOOSE f : Eq(f)
<1>1. n \in Nat /\ n > 1 /\ DOMAIN P = 1..n /\ P[1] \in WordOf
  BY DEF Schedule
<1>2. s0 \in Block
  <2>1. b[1] \in WordOf /\ b[2] \in WordOf
    BY BlockHas
  <2>2. Xor(b[1], P[1]) \in WordOf
    BY <1>1, <2>1, XorTwice
  <2> QED
    BY <2>1, <2>2 DEF Block
<1>3. F \in [1..n -> [Block -> Block]]
  BY RoundsStay
<1>4. encrypt(P, S, b) = <<Xor(it[DOMAIN q][2], P[n]), it[DOMAIN q][1]>>
  BY DEF encrypt, FoldLeftDomain, FoldLeft, MapThenFoldSet, Round
<1>5. DOMAIN q = 1..n /\ \A i \in 1..n : q[i] = i
  BY <1>1
<1>6. \A i \in 1..n, lr \in Block : F[i][lr] = Round(P, S, lr, i)
  BY DEF Rounds
<1> HIDE DEF n, s0, F, q
<1>7. \E f : Eq(f)
  <2>1. PICK f : Folds(f, n, Block, s0, F)
    BY <1>1, <1>2, <1>3, FoldsExist
  <2>2. /\ f \in [SUBSET (1..n) -> Block]
        /\ \A s \in SUBSET (1..n) : f[s] = IF s = {} THEN s0 ELSE F[Max(s)][f[s \ {Max(s)}]]
    BY <2>1 DEF Folds
  <2>3. ASSUME NEW s \in SUBSET (1..n)
        PROVE  f[s] = IF s = {} THEN s0 ELSE Round(P, S, f[s \ {Max(s)}], q[Max(s)])
    <3>1. CASE s # {}
      <4>1. Max(s) \in 1..n
        BY <3>1, <1>1, GreatestIn
      <4>2. f[s \ {Max(s)}] \in Block
        BY <2>2
      <4> QED
        BY <3>1, <4>1, <4>2, <2>2, <1>5, <1>6
    <3> QED
      BY <3>1, <2>2
  <2>4. Eq(f)
    BY <2>2, <2>3, <1>5
  <2> QED
    BY <2>4
<1>8. Eq(it)
  BY <1>7
<1> HIDE DEF it
<1>9. it[{}] = s0
  BY <1>8
<1>10. ASSUME NEW i \in 1..n, it[1..(i - 1)] \in Block PROVE it[1..i] = F[i][it[1..(i - 1)]]
  <2>1. 1..i \in SUBSET (1..n) /\ 1..i # {} /\ Max(1..i) = i /\ (1..i) \ {i} = 1..(i - 1)
    BY <1>1, FoldAlong
  <2>2. it[1..i] = Round(P, S, it[(1..i) \ {Max(1..i)}], q[Max(1..i)])
    BY <1>8, <1>5, <2>1
  <2>3. q[Max(1..i)] = i /\ (1..i) \ {Max(1..i)} = 1..(i - 1)
    BY <2>1, <1>5
  <2> DEFINE z == it[1..(i - 1)]
  <2>4. it[1..i] = Round(P, S, z, i)
    BY <2>2, <2>3
  <2>5. z \in Block
    BY <1>10
  <2> HIDE DEF z
  <2>6. F[i][z] = Round(P, S, z, i)
    BY <2>5, <1>6
  <2>7. it[1..i] = F[i][z]
    BY <2>4, <2>6
  <2> QED
    BY <2>7 DEF z
<1>11. Follows(it, n, Block, s0, F)
  BY <1>9, <1>10 DEF Follows
<1>12. EndsRun(it[1..n], n, Block, s0, F)
  BY <1>1, <1>2, <1>3, <1>11, FoldRuns
<1> QED
  BY <1>4, <1>5, <1>12 DEF EndsRun, n, s0, F

\* The block that is made of a block is a block.
LEMMA EncryptStays ==
  ASSUME NEW P, NEW S, Schedule(P, S), NEW b \in Block
  PROVE  encrypt(P, S, b) \in Block
<1> DEFINE n == Len(P)
<1>1. PICK g : /\ Runs(g, n, Block, <<Xor(b[1], P[1]), b[2]>>, Rounds(P, S))
               /\ encrypt(P, S, b) = <<Xor(g[n][2], P[n]), g[n][1]>>
  BY NetworkRuns
<1>2. n \in Nat /\ n > 1 /\ P[n] \in WordOf
  BY DEF Schedule
<1> HIDE DEF n
<1>3. g[n] \in Block
  <2>1. g \in [0..n -> Block]
    BY <1>1 DEF Runs
  <2> QED
    BY <2>1, <1>2
<1>4. g[n][1] \in WordOf /\ g[n][2] \in WordOf
  BY <1>3, BlockHas
<1>5. Xor(g[n][2], P[n]) \in WordOf
  BY <1>2, <1>4, XorTwice
<1> QED
  BY <1>1, <1>4, <1>5 DEF Block

\* Reversed subkeys.
LEMMA ReversedSchedule ==
  ASSUME NEW P, NEW S, Schedule(P, S)
  PROVE  /\ Schedule(Reverse(P), S) /\ Len(Reverse(P)) = Len(P)
         /\ \A i \in 1..Len(P) : Reverse(P)[i] = P[(Len(P) - i) + 1]
<1> DEFINE n == Len(P)
           R == Reverse(P)
<1>1. n \in Nat /\ n > 1 /\ \A i \in 1..n : P[i] \in WordOf
  BY DEF Schedule
<1>2. R = [i \in 1..n |-> P[(n - i) + 1]]
  BY DEF Reverse
<1> HIDE DEF n, R
<1>3. \A i \in 1..n : (n - i) + 1 \in 1..n
  BY <1>1
<1>4. R \in [1..n -> WordOf]
  BY <1>1, <1>2, <1>3
<1>5. R \in Seq(WordOf) /\ Len(R) = n
  BY <1>1, <1>4
<1>6. Schedule(R, S)
  BY <1>1, <1>5 DEF Schedule
<1>7. \A i \in 1..n : R[i] = P[(n - i) + 1]
  BY <1>2
<1> QED
  BY <1>5, <1>6, <1>7 DEF n, R

\* The two halves of a block, swapped.
Swap(b) == <<b[2], b[1]>>

\* A round undoes the round of the same subkey, up to the order of the halves.
LEMMA RoundUndone ==
  ASSUME NEW a \in Block, NEW s \in WordOf, NEW p \in WordOf
  PROVE  LET c == <<Xor(a[2], Xor(s, p)), a[1]>>
         IN  c[2] = a[1] /\ <<Xor(c[1], Xor(s, p)), c[2]>> = Swap(a)
<1>1. a[1] \in WordOf /\ a[2] \in WordOf
  BY BlockHas
<1> DEFINE x == Xor(s, p)
<1>2. x \in WordOf
  BY XorTwice
<1> HIDE DEF x
<1>3. Xor(Xor(a[2], x), x) = a[2]
  BY <1>1, <1>2, XorTwice
<1>4. <<Xor(a[2], x), a[1]>>[1] = Xor(a[2], x) /\ <<Xor(a[2], x), a[1]>>[2] = a[1]
  OBVIOUS
<1> QED
  BY <1>3, <1>4 DEF Swap, x

\* What the network makes of a block, the network with the subkeys in reverse
\* makes into that block again.
LEMMA Decrypted ==
  ASSUME NEW P, NEW S, Schedule(P, S), NEW b \in Block
  PROVE  decrypt(P, S, encrypt(P, S, b)) = b
<1> DEFINE n == Len(P)
           R == Reverse(P)
           c == encrypt(P, S, b)
<1>1. n \in Nat /\ n > 1 /\ S \in [WordOf -> WordOf] /\ \A i \in 1..n : P[i] \in WordOf
  BY DEF Schedule
<1>2. Schedule(R, S) /\ Len(R) = n /\ \A i \in 1..n : R[i] = P[(n - i) + 1]
  BY ReversedSchedule
<1>3. c \in Block
  BY EncryptStays
<1>4. PICK g : Runs(g, n, Block, <<Xor(b[1], P[1]), b[2]>>, Rounds(P, S)) /\ c = <<Xor(g[n][2], P[n]), g[n][1]>>
  BY NetworkRuns
<1> HIDE DEF c
<1>5. PICK h : /\ Runs(h, n, Block, <<Xor(c[1], R[1]), c[2]>>, Rounds(R, S))
               /\ encrypt(R, S, c) = <<Xor(h[n][2], R[n]), h[n][1]>>
  <2> HIDE DEF R, n
  <2> QED
    BY <1>2, <1>3, NetworkRuns
<1>6. /\ g \in [0..n -> Block] /\ g[0] = <<Xor(b[1], P[1]), b[2]>>
      /\ \A i \in 1..n : g[i] = Round(P, S, g[i - 1], i)
  <2>1. g \in [0..n -> Block] /\ g[0] = <<Xor(b[1], P[1]), b[2]>> /\ \A i \in 1..n : g[i] = Rounds(P, S)[i][g[i - 1]]
    BY <1>4 DEF Runs
  <2>2. \A i \in 1..n : g[i - 1] \in Block
    BY <2>1, <1>1
  <2> QED
    BY <2>1, <2>2 DEF Rounds
<1>7. /\ h \in [0..n -> Block] /\ h[0] = <<Xor(c[1], R[1]), c[2]>>
      /\ \A i \in 1..n : h[i] = Round(R, S, h[i - 1], i)
  <2>1. h \in [0..n -> Block] /\ h[0] = <<Xor(c[1], R[1]), c[2]>> /\ \A i \in 1..n : h[i] = Rounds(R, S)[i][h[i - 1]]
    BY <1>5 DEF Runs
  <2>2. \A i \in 1..n : h[i - 1] \in Block
    BY <2>1, <1>1
  <2> QED
    BY <2>1, <2>2, <1>2 DEF Rounds
<1> HIDE DEF n, R
<1>8. ASSUME NEW i \in 2..(n - 1) PROVE g[i] = <<Xor(g[i - 1][2], Xor(S[g[i - 1][1]], P[i])), g[i - 1][1]>>
  <2>1. i \in 1..n /\ i \notin {1, n}
    BY <1>1
  <2>2. g[i] = Round(P, S, g[i - 1], i)
    BY <2>1, <1>6
  <2>3. Len(P) = n
    BY DEF n
  <2> QED
    BY <2>1, <2>2, <2>3 DEF Round
<1>9. ASSUME NEW i \in 2..(n - 1) PROVE h[i] = <<Xor(h[i - 1][2], Xor(S[h[i - 1][1]], R[i])), h[i - 1][1]>>
  <2>1. i \in 1..n /\ i \notin {1, n}
    BY <1>1
  <2>2. h[i] = Round(R, S, h[i - 1], i)
    BY <2>1, <1>7
  <2>3. Len(R) = n
    BY <1>2
  <2> QED
    BY <2>1, <2>2, <2>3 DEF Round
<1>10. g[1] = g[0] /\ g[n] = g[n - 1] /\ h[1] = h[0] /\ h[n] = h[n - 1]
  <2>1. 1 \in 1..n /\ n \in 1..n /\ 1 - 1 = 0
    BY <1>1
  <2>2. g[1] = Round(P, S, g[1 - 1], 1) /\ g[n] = Round(P, S, g[n - 1], n)
    BY <2>1, <1>6
  <2>3. h[1] = Round(R, S, h[1 - 1], 1) /\ h[n] = Round(R, S, h[n - 1], n)
    BY <2>1, <1>7
  <2>4. Len(P) = n
    BY DEF n
  <2> QED
    BY <2>1, <2>2, <2>3, <2>4, <1>2 DEF Round
<1>11. \A i \in 0..n : g[i] \in Block /\ g[i] = <<g[i][1], g[i][2]>> /\ g[i][1] \in WordOf /\ g[i][2] \in WordOf
  <2>1. ASSUME NEW i \in 0..n PROVE g[i] \in Block
    BY <1>6
  <2> QED
    BY <2>1, BlockHas
<1>12. h[0] = Swap(g[n])
  <2>1. R[1] = P[n]
    <3>1. 1 \in 1..n /\ (n - 1) + 1 = n
      BY <1>1
    <3> QED
      BY <3>1, <1>2
  <2>2. c[1] = Xor(g[n][2], P[n]) /\ c[2] = g[n][1]
    BY <1>4
  <2>3. n \in 0..n /\ n \in 1..n
    BY <1>1
  <2>4. g[n][2] \in WordOf /\ P[n] \in WordOf
    BY <2>3, <1>11, <1>1
  <2>5. Xor(Xor(g[n][2], P[n]), P[n]) = g[n][2]
    BY <2>4, XorTwice
  <2> QED
    BY <1>7, <2>1, <2>2, <2>5 DEF Swap
<1> DEFINE T == {i \in 0..(n - 1) : h[i] = Swap(g[n - i])}
<1>13. 0 \in T
  <2>1. n - 0 = n /\ 0 \in 0..(n - 1)
    BY <1>1
  <2> QED
    BY <2>1, <1>12
<1>14. ASSUME NEW i \in 1..(n - 1), i - 1 \in T PROVE i \in T
  <2>1. h[i - 1] = Swap(g[n - (i - 1)])
    BY <1>14
  <2>2. CASE i = 1
    <3>1. i - 1 = 0 /\ n - (i - 1) = n /\ n - i = n - 1
      BY <2>2, <1>1
    <3>2. h[i] = Swap(g[n - i])
      BY <2>1, <2>2, <3>1, <1>10
    <3> QED
      BY <3>2, <1>1
  <2>3. CASE i # 1
    <3> DEFINE j == n - (i - 1)
               a == g[j - 1]
               s == S[a[1]]
    <3>1. i \in 2..(n - 1) /\ j \in 2..(n - 1) /\ j - 1 = n - i /\ j - 1 \in 0..n /\ j \in 1..n /\ i \in 1..n /\ (n - i) + 1 = j
      BY <2>3, <1>1
    <3>2. R[i] = P[j]
      BY <3>1, <1>2
    <3>3. a \in Block /\ a[1] \in WordOf
      BY <3>1, <1>11
    <3>4. s \in WordOf /\ P[j] \in WordOf
      BY <3>1, <3>3, <1>1
    <3>5. g[j] = <<Xor(a[2], Xor(s, P[j])), a[1]>>
      BY <3>1, <1>8
    <3>6. h[i - 1] = Swap(g[j])
      BY <2>1
    <3>7. h[i] = <<Xor(h[i - 1][2], Xor(S[h[i - 1][1]], P[j])), h[i - 1][1]>>
      BY <3>1, <3>2, <1>9
    <3> HIDE DEF j, a, s
    <3>8. g[j][2] = a[1] /\ <<Xor(g[j][1], Xor(s, P[j])), g[j][2]>> = Swap(a)
      BY <3>3, <3>4, <3>5, RoundUndone
    <3>9. h[i - 1][2] = g[j][1] /\ h[i - 1][1] = g[j][2]
      BY <3>6 DEF Swap
    <3>10. S[h[i - 1][1]] = s
      BY <3>8, <3>9 DEF s
    <3>11. h[i] = Swap(a)
      BY <3>7, <3>8, <3>9, <3>10
    <3> QED
      BY <3>1, <3>11 DEF a
  <2> QED
    BY <2>2, <2>3
<1>15. n - 1 \in T
  <2> HIDE DEF T
  <2>1. n - 1 \in Nat /\ n - 1 \in 0..(n - 1)
    BY <1>1
  <2>2. 0..(n - 1) \subseteq T
    BY <2>1, <1>13, <1>14, UpTo
  <2> QED
    BY <2>1, <2>2
<1>16. h[n] = Swap(g[0])
  <2>1. n - (n - 1) = 1
    BY <1>1
  <2> QED
    BY <2>1, <1>15, <1>10
<1>17. encrypt(R, S, c) = b
  <2>1. b = <<b[1], b[2]>> /\ b[1] \in WordOf
    BY BlockHas
  <2>2. h[n][1] = b[2] /\ h[n][2] = Xor(b[1], P[1])
    BY <1>16, <1>6 DEF Swap
  <2>3. R[n] = P[1] /\ P[1] \in WordOf
    <3>1. n \in 1..n /\ (n - n) + 1 = 1 /\ 1 \in 1..n
      BY <1>1
    <3> QED
      BY <3>1, <1>1, <1>2
  <2>4. Xor(Xor(b[1], P[1]), P[1]) = b[1]
    BY <2>1, <2>3, XorTwice
  <2> QED
    BY <1>5, <2>1, <2>2, <2>3, <2>4
<1> QED
  BY <1>17 DEF decrypt, R, c

-----------------------------------------------------------------------------
(* The key schedule. *)

\* The number of subkeys.
LEMMA SubkeysAre ==
  /\ Len(InitP) \in Nat /\ Len(InitP) > 1 /\ DOMAIN InitP = 1..Len(InitP)
  /\ \A i \in 1..Len(InitP) : InitP[i] \in WordOf
<1>1. Len(InitP) \in Nat /\ Len(InitP) > 0 /\ Len(InitP) % 2 = 0 /\ DOMAIN InitP = 1..Len(InitP)
      /\ \A i \in 1..Len(InitP) : InitP[i] \in WordOf
  BY CiphersAssumption
<1>2. Len(InitP) # 1
  BY <1>1
<1> QED
  BY <1>1, <1>2

\* Subkeys, and boxes.
Subkey == [1..Len(InitP) -> WordOf]
Box == [WordOf -> WordOf]

\* Subkeys and a box are a schedule.
LEMMA ScheduleIs ==
  ASSUME NEW P \in Subkey, NEW S \in Box
  PROVE  Schedule(P, S)
<1>1. P \in Seq(WordOf) /\ Len(P) = Len(InitP)
  BY SubkeysAre DEF Subkey
<1> QED
  BY <1>1, SubkeysAre DEF Schedule, Box

\* The key is mixed into the subkeys.
LEMMA LoadedIs ==
  ASSUME NEW k \in Seq(Bit), Len(k) # 0
  PROVE  Loaded(k) \in Subkey
<1> DEFINE N == Len(InitP)
           m == Len(k)
           W(i) == [b \in 1..2 |-> k[((2 * (i - 1) + b - 1) % m) + 1]]
<1>1. N \in Nat /\ DOMAIN InitP = 1..N /\ \A i \in 1..N : InitP[i] \in WordOf
  BY SubkeysAre
<1>2. m \in Nat \ {0} /\ \A i \in 1..m : k[i] \in Bit
  OBVIOUS
<1>3. Loaded(k) = [i \in 1..N |-> Xor(InitP[i], W(i))]
  BY <1>1 DEF Loaded
<1> HIDE DEF m, N
<1>4. ASSUME NEW i \in 1..N PROVE Xor(InitP[i], W(i)) \in WordOf
  <2>1. ASSUME NEW b \in 1..2 PROVE k[((2 * (i - 1) + b - 1) % m) + 1] \in Bit
    <3> DEFINE a == 2 * (i - 1) + b - 1
    <3>1. a \in Int
      BY <1>1
    <3> HIDE DEF a
    <3>2. a % m \in 0..(m - 1)
      BY <3>1, <1>2
    <3>3. (a % m) + 1 \in 1..m
      BY <3>2, <1>2
    <3>4. k[(a % m) + 1] \in Bit
      BY <3>3, <1>2
    <3> QED
      BY <3>4 DEF a
  <2>2. W(i) \in [1..2 -> Bit]
    BY <2>1
  <2> HIDE DEF W
  <2>3. W(i) \in WordOf
    BY <2>2, WordIs
  <2> QED
    BY <2>3, <1>1, XorTwice
<1> HIDE DEF W
<1> QED
  BY <1>3, <1>4 DEF Subkey, N

\* The state while the subkeys are mixed, and one step.
Mixing == [P : Subkey, block : Block]
Mix(st, i) ==
  IF i % 2 = 0 THEN st ELSE
    LET b == encrypt(st.P, InitS, st.block)
    IN  [P |-> [st.P EXCEPT ![i] = b[1], ![i + 1] = b[2]], block |-> b]

\* A step of it.
LEMMA MixStays ==
  ASSUME NEW st \in Mixing, NEW i
  PROVE  Mix(st, i) \in Mixing
<1> DEFINE b == encrypt(st.P, InitS, st.block)
           Q == [st.P EXCEPT ![i] = b[1], ![i + 1] = b[2]]
<1>1. st.P \in Subkey /\ st.block \in Block
  BY DEF Mixing
<1>2. Schedule(st.P, InitS)
  BY <1>1, CiphersAssumption, ScheduleIs DEF Box
<1>3. b \in Block
  BY <1>1, <1>2, EncryptStays
<1> HIDE DEF b
<1>4. b[1] \in WordOf /\ b[2] \in WordOf
  BY <1>3, BlockHas
<1>5. Q \in Subkey
  BY <1>1, <1>4 DEF Subkey
<1>6. Mix(st, i) = IF i % 2 = 0 THEN st ELSE [P |-> Q, block |-> b]
  BY DEF Mix, b
<1> HIDE DEF Q
<1> QED
  BY <1>3, <1>5, <1>6 DEF Mixing

\* The state while the box is mixed, and one step.
Boxing == [P : Subkey, S : Box, block : Block]
MixBox(words, st, i) ==
  IF i % 2 = 0 THEN st ELSE
    LET b == encrypt(st.P, st.S, st.block)
    IN  [st EXCEPT !.S = [st.S EXCEPT ![words[i]] = b[1], ![words[i + 1]] = b[2]], !.block = b]

\* A step of it.
LEMMA BoxStays ==
  ASSUME NEW words, NEW st \in Boxing, NEW i
  PROVE  MixBox(words, st, i) \in Boxing
<1> DEFINE b == encrypt(st.P, st.S, st.block)
           Q == [st.S EXCEPT ![words[i]] = b[1], ![words[i + 1]] = b[2]]
<1>1. st.P \in Subkey /\ st.S \in Box /\ st.block \in Block
  BY DEF Boxing
<1>2. Schedule(st.P, st.S)
  BY <1>1, ScheduleIs
<1>3. b \in Block
  BY <1>1, <1>2, EncryptStays
<1> HIDE DEF b
<1>4. b[1] \in WordOf /\ b[2] \in WordOf
  BY <1>3, BlockHas
<1>5. Q \in Box
  BY <1>1, <1>4 DEF Box
<1>6. MixBox(words, st, i) = IF i % 2 = 0 THEN st ELSE [st EXCEPT !.S = Q, !.block = b]
  BY DEF MixBox, b
<1> HIDE DEF Q
<1> QED
  BY <1>3, <1>5, <1>6 DEF Boxing

\* The subkeys that are mixed.
MixedOf(k) == FoldLeftDomain(Mix, [P |-> Loaded(k), block |-> <<<<0, 0>>, <<0, 0>>>>], InitP)

\* They are subkeys.
LEMMA MixedIs ==
  ASSUME NEW k \in Seq(Bit), Len(k) # 0
  PROVE  MixedOf(k) \in Mixing
<1> DEFINE n == Len(InitP)
           s0 == [P |-> Loaded(k), block |-> <<<<0, 0>>, <<0, 0>>>>]
           F == [i \in 1..n |-> [a \in Mixing |-> Mix(a, i)]]
           q == [i \in DOMAIN InitP |-> i]
           Eq(f) == f = [s \in SUBSET (DOMAIN q) |-> IF s = {} THEN s0 ELSE Mix(f[s \ {Max(s)}], q[Max(s)])]
           it == CHOOSE f : Eq(f)
<1>1. n \in Nat /\ DOMAIN InitP = 1..n
  BY SubkeysAre
<1>2. s0 \in Mixing
  <2>1. <<<<0, 0>>, <<0, 0>>>> \in Block
    BY DEF Block, WordOf, Bit
  <2> QED
    BY <2>1, LoadedIs DEF Mixing
<1>3. F \in [1..n -> [Mixing -> Mixing]]
  BY MixStays
<1>4. MixedOf(k) = it[DOMAIN q]
  BY DEF MixedOf, FoldLeftDomain, FoldLeft, MapThenFoldSet
<1>5. DOMAIN q = 1..n /\ \A i \in 1..n : q[i] = i
  BY <1>1
<1>6. \A i \in 1..n, a \in Mixing : F[i][a] = Mix(a, i)
  OBVIOUS
<1> HIDE DEF n, s0, F, q
<1>7. \E f : Eq(f)
  <2>1. PICK f : Folds(f, n, Mixing, s0, F)
    BY <1>1, <1>2, <1>3, FoldsExist
  <2>2. /\ f \in [SUBSET (1..n) -> Mixing]
        /\ \A s \in SUBSET (1..n) : f[s] = IF s = {} THEN s0 ELSE F[Max(s)][f[s \ {Max(s)}]]
    BY <2>1 DEF Folds
  <2>3. ASSUME NEW s \in SUBSET (1..n)
        PROVE  f[s] = IF s = {} THEN s0 ELSE Mix(f[s \ {Max(s)}], q[Max(s)])
    <3>1. CASE s # {}
      <4>1. Max(s) \in 1..n
        BY <3>1, <1>1, <1>2, <1>3, GreatestIn
      <4>2. f[s \ {Max(s)}] \in Mixing
        BY <2>2
      <4> QED
        BY <3>1, <4>1, <4>2, <2>2, <1>5, <1>6
    <3> QED
      BY <3>1, <2>2
  <2>4. Eq(f)
    BY <2>2, <2>3, <1>5, <1>6
  <2> QED
    BY <2>4
<1>8. Eq(it)
  BY <1>7
<1> HIDE DEF it
<1>9. it[{}] = s0
  BY <1>8
<1>10. ASSUME NEW i \in 1..n, it[1..(i - 1)] \in Mixing PROVE it[1..i] = F[i][it[1..(i - 1)]]
  <2>1. 1..i \in SUBSET (1..n) /\ 1..i # {} /\ Max(1..i) = i /\ (1..i) \ {i} = 1..(i - 1)
    BY <1>1, <1>2, <1>3, FoldAlong
  <2>2. it[1..i] = Mix(it[(1..i) \ {Max(1..i)}], q[Max(1..i)])
    BY <1>8, <1>5, <1>6, <2>1
  <2>3. q[Max(1..i)] = q[i] /\ (1..i) \ {Max(1..i)} = 1..(i - 1)
    BY <2>1, <1>5, <1>6
  <2> DEFINE z == it[1..(i - 1)]
  <2>4. it[1..i] = Mix(z, q[i])
    BY <2>2, <2>3
  <2>5. z \in Mixing
    BY <1>10
  <2> HIDE DEF z
  <2>6. F[i][z] = Mix(z, q[i])
    BY <2>5, <1>5, <1>6
  <2>7. it[1..i] = F[i][z]
    BY <2>4, <2>6
  <2> QED
    BY <2>7 DEF z
<1>11. EndsRun(it[1..n], n, Mixing, s0, F)
  <2>1. Follows(it, n, Mixing, s0, F)
    BY <1>9, <1>10 DEF Follows
  <2> QED
    BY <2>1, <1>1, <1>2, <1>3, FoldRuns
<1>12. PICK g : Runs(g, n, Mixing, s0, F) /\ it[1..n] = g[n]
  BY <1>11 DEF EndsRun
<1>13. g[n] \in Mixing
  BY <1>12, <1>1 DEF Runs
<1> QED
  BY <1>4, <1>5, <1>12, <1>13

\* The words in some order.
LEMMA WordsAre ==
  \E m \in Nat : SetToSeq(WordOf) \in [1..m -> WordOf]
<1>1. IsFiniteSet(WordOf)
  <2>1. IsFiniteSet(Bit)
    <3>1. 0 \in Int /\ 1 \in Int
      OBVIOUS
    <3>2. IsFiniteSet(0..1)
      BY <3>1, FS_Interval
    <3> QED
      BY <3>2 DEF Bit
  <2> QED
    BY <2>1, FS_Product DEF WordOf
<1> DEFINE m == Cardinality(WordOf)
<1>2. m \in Nat /\ ExistsBijection(1..m, WordOf)
  BY <1>1, FS_CardinalityType
<1>3. PICK f \in [1..m -> WordOf] : \A a, b \in 1..m : f[a] = f[b] => a = b
  BY <1>2 DEF ExistsBijection, Bijection, Injection, IsInjective
<1>4. IsInjective(f)
  BY <1>3 DEF IsInjective
<1>5. SetToSeq(WordOf) \in [1..m -> WordOf]
  BY <1>3, <1>4 DEF SetToSeq
<1> QED
  BY <1>2, <1>5

\* The schedule of a key.
LEMMA StartIs ==
  ASSUME NEW k \in Seq(Bit), Len(k) # 0
  PROVE  Schedule(Scheduled(k).P, Scheduled(k).S)
<1> DEFINE words == SetToSeq(WordOf)
           mixed == MixedOf(k)
           s0 == [P |-> mixed.P, S |-> InitS, block |-> mixed.block]
           q == [i \in DOMAIN words |-> i]
           Eq(f) == f = [s \in SUBSET (DOMAIN q) |-> IF s = {} THEN s0 ELSE MixBox(words, f[s \ {Max(s)}], q[Max(s)])]
           it == CHOOSE f : Eq(f)
<1>1. PICK n \in Nat : words \in [1..n -> WordOf]
  BY WordsAre
<1> DEFINE F == [i \in 1..n |-> [a \in Boxing |-> MixBox(words, a, i)]]
<1>2. s0 \in Boxing
  <2>1. mixed \in Mixing
    BY MixedIs
  <2> HIDE DEF mixed
  <2> QED
    BY <2>1, CiphersAssumption DEF Mixing, Boxing, Box
<1>3. F \in [1..n -> [Boxing -> Boxing]]
  BY BoxStays
<1>4. Scheduled(k) = it[DOMAIN q]
  BY DEF Scheduled, MixedOf, Mix, MixBox, FoldLeftDomain, FoldLeft, MapThenFoldSet
<1>5. DOMAIN q = 1..n /\ \A i \in 1..n : q[i] = i
  BY <1>1
<1>6. \A i \in 1..n, a \in Boxing : F[i][a] = MixBox(words, a, i)
  OBVIOUS
<1> HIDE DEF words, s0, F, q
<1>7. \E f : Eq(f)
  <2>1. PICK f : Folds(f, n, Boxing, s0, F)
    BY <1>1, <1>2, <1>3, FoldsExist
  <2>2. /\ f \in [SUBSET (1..n) -> Boxing]
        /\ \A s \in SUBSET (1..n) : f[s] = IF s = {} THEN s0 ELSE F[Max(s)][f[s \ {Max(s)}]]
    BY <2>1 DEF Folds
  <2>3. ASSUME NEW s \in SUBSET (1..n)
        PROVE  f[s] = IF s = {} THEN s0 ELSE MixBox(words, f[s \ {Max(s)}], q[Max(s)])
    <3>1. CASE s # {}
      <4>1. Max(s) \in 1..n
        BY <3>1, <1>1, <1>2, <1>3, GreatestIn
      <4>2. f[s \ {Max(s)}] \in Boxing
        BY <2>2
      <4> QED
        BY <3>1, <4>1, <4>2, <2>2, <1>5, <1>6
    <3> QED
      BY <3>1, <2>2
  <2>4. Eq(f)
    BY <2>2, <2>3, <1>5, <1>6
  <2> QED
    BY <2>4
<1>8. Eq(it)
  BY <1>7
<1> HIDE DEF it
<1>9. it[{}] = s0
  BY <1>8
<1>10. ASSUME NEW i \in 1..n, it[1..(i - 1)] \in Boxing PROVE it[1..i] = F[i][it[1..(i - 1)]]
  <2>1. 1..i \in SUBSET (1..n) /\ 1..i # {} /\ Max(1..i) = i /\ (1..i) \ {i} = 1..(i - 1)
    BY <1>1, <1>2, <1>3, FoldAlong
  <2>2. it[1..i] = MixBox(words, it[(1..i) \ {Max(1..i)}], q[Max(1..i)])
    BY <1>8, <1>5, <1>6, <2>1
  <2>3. q[Max(1..i)] = q[i] /\ (1..i) \ {Max(1..i)} = 1..(i - 1)
    BY <2>1, <1>5, <1>6
  <2> DEFINE z == it[1..(i - 1)]
  <2>4. it[1..i] = MixBox(words, z, q[i])
    BY <2>2, <2>3
  <2>5. z \in Boxing
    BY <1>10
  <2> HIDE DEF z
  <2>6. F[i][z] = MixBox(words, z, q[i])
    BY <2>5, <1>5, <1>6
  <2>7. it[1..i] = F[i][z]
    BY <2>4, <2>6
  <2> QED
    BY <2>7 DEF z
<1>11. EndsRun(it[1..n], n, Boxing, s0, F)
  <2>1. Follows(it, n, Boxing, s0, F)
    BY <1>9, <1>10 DEF Follows
  <2> QED
    BY <2>1, <1>1, <1>2, <1>3, FoldRuns
<1>12. PICK g : Runs(g, n, Boxing, s0, F) /\ it[1..n] = g[n]
  BY <1>11 DEF EndsRun
<1>13. Scheduled(k) \in Boxing
  BY <1>12, <1>1, <1>4, <1>5 DEF Runs
<1>14. Scheduled(k).P \in Subkey /\ Scheduled(k).S \in Box
  BY <1>13 DEF Boxing
<1> QED
  BY <1>14, ScheduleIs

-----------------------------------------------------------------------------
(* The modes. *)

\* The state of a mode, and what it makes of a block.
Chaining == [out : Seq(Block), chain : Block]
EncBlock(k, mode, chain, w) ==
  CASE mode = "CBC" -> encrypt(k.P, k.S, XorBlock(w, chain))
    [] mode = "CFB" -> XorBlock(w, encrypt(k.P, k.S, chain))
    [] mode = "ECB" -> encrypt(k.P, k.S, w)
DecBlock(k, mode, chain, w) ==
  CASE mode = "CBC" -> XorBlock(decrypt(k.P, k.S, w), chain)
    [] mode = "CFB" -> XorBlock(w, encrypt(k.P, k.S, chain))
    [] mode = "ECB" -> decrypt(k.P, k.S, w)

\* The next chain, after the cipher block c.
NextChain(mode, chain, c) == IF mode = "ECB" THEN chain ELSE c

\* The block function with reversed subkeys stays in the blocks.
LEMMA DecryptStays ==
  ASSUME NEW P, NEW S, Schedule(P, S), NEW b \in Block
  PROVE  decrypt(P, S, b) \in Block
<1>1. Schedule(Reverse(P), S)
  BY ReversedSchedule
<1>2. encrypt(Reverse(P), S, b) \in Block
  BY <1>1, EncryptStays
<1> QED
  BY <1>2 DEF decrypt

\* The blocks of a mode.
LEMMA BlocksStay ==
  ASSUME NEW k, Schedule(k.P, k.S), NEW mode \in Mode, NEW chain \in Block, NEW w \in Block
  PROVE  EncBlock(k, mode, chain, w) \in Block /\ DecBlock(k, mode, chain, w) \in Block
<1> DEFINE e == encrypt(k.P, k.S, chain)
           f == encrypt(k.P, k.S, XorBlock(w, chain))
           g == decrypt(k.P, k.S, w)
<1>1. e \in Block /\ g \in Block /\ encrypt(k.P, k.S, w) \in Block
  BY EncryptStays, DecryptStays
<1>2. f \in Block
  BY EncryptStays, XorBlockTwice
<1> HIDE DEF e, f, g
<1>3. XorBlock(w, e) \in Block /\ XorBlock(g, chain) \in Block
  BY <1>1, XorBlockTwice
<1>4. mode = "CBC" \/ mode = "CFB" \/ mode = "ECB"
  BY DEF Mode
<1> QED
  BY <1>1, <1>2, <1>3, <1>4 DEF EncBlock, DecBlock, e, f, g

\* Every mode decrypts a block with the chain it was encrypted with.
LEMMA BlockBack ==
  ASSUME NEW k, Schedule(k.P, k.S), NEW mode \in Mode, NEW chain \in Block, NEW w \in Block
  PROVE  DecBlock(k, mode, chain, EncBlock(k, mode, chain, w)) = w
<1> DEFINE e == encrypt(k.P, k.S, chain)
           x == XorBlock(w, chain)
           c == encrypt(k.P, k.S, x)
<1>1. e \in Block /\ x \in Block /\ XorBlock(x, chain) = w
  BY EncryptStays, XorBlockTwice
<1>2. CASE mode = "CBC"
  <2>1. decrypt(k.P, k.S, c) = x
    <3> HIDE DEF x
    <3> QED
      BY <1>1, Decrypted
  <2>2. EncBlock(k, mode, chain, w) = c
    BY <1>2 DEF EncBlock
  <2> HIDE DEF c, x
  <2>3. DecBlock(k, mode, chain, c) = XorBlock(decrypt(k.P, k.S, c), chain)
    BY <1>2 DEF DecBlock
  <2> QED
    BY <1>1, <2>1, <2>2, <2>3
<1>3. CASE mode = "CFB"
  <2>1. EncBlock(k, mode, chain, w) = XorBlock(w, e)
    BY <1>3 DEF EncBlock
  <2>2. DecBlock(k, mode, chain, XorBlock(w, e)) = XorBlock(XorBlock(w, e), e)
    BY <1>3 DEF DecBlock
  <2> HIDE DEF e
  <2>3. XorBlock(XorBlock(w, e), e) = w
    BY <1>1, XorBlockTwice
  <2> QED
    BY <2>1, <2>2, <2>3
<1>4. CASE mode = "ECB"
  <2>1. EncBlock(k, mode, chain, w) = encrypt(k.P, k.S, w)
    BY <1>4 DEF EncBlock
  <2>2. DecBlock(k, mode, chain, encrypt(k.P, k.S, w)) = decrypt(k.P, k.S, encrypt(k.P, k.S, w))
    BY <1>4 DEF DecBlock
  <2>3. decrypt(k.P, k.S, encrypt(k.P, k.S, w)) = w
    BY Decrypted
  <2> QED
    BY <2>1, <2>2, <2>3
<1> QED
  BY <1>2, <1>3, <1>4 DEF Mode

\* What a mode does when it encrypts a block.
LEMMA EncryptStepIs ==
  ASSUME NEW k, Schedule(k.P, k.S), NEW mode \in Mode, NEW st \in Chaining, NEW w \in Block
  PROVE  /\ EncryptStep(k, mode, st, w) \in Chaining
         /\ EncryptStep(k, mode, st, w).out = Append(st.out, EncBlock(k, mode, st.chain, w))
         /\ EncryptStep(k, mode, st, w).chain = NextChain(mode, st.chain, EncBlock(k, mode, st.chain, w))
<1>1. st = [out |-> st.out, chain |-> st.chain] /\ st.out \in Seq(Block) /\ st.chain \in Block
  BY DEF Chaining
<1> DEFINE c == EncBlock(k, mode, st.chain, w)
           d == NextChain(mode, st.chain, EncBlock(k, mode, st.chain, w))
<1>2. c \in Block /\ EncBlock(k, mode, st.chain, w) \in Block
  BY <1>1, BlocksStay
<1>3. d \in Block
  BY <1>1, <1>2 DEF NextChain
<1>4. EncryptStep(k, mode, st, w) = [out |-> Append(st.out, c), chain |-> d]
  <2>1. mode = "CBC" \/ mode = "CFB" \/ mode = "ECB"
    BY DEF Mode
  <2> QED
    BY <1>1, <2>1 DEF EncryptStep, EncBlock, NextChain
<1> HIDE DEF c, d
<1>5. Append(st.out, c) \in Seq(Block)
  BY <1>1, <1>2, AppendProperties
<1> QED
  BY <1>3, <1>4, <1>5 DEF Chaining, c, d

\* What a mode does when it decrypts a block.
LEMMA DecryptStepIs ==
  ASSUME NEW k, Schedule(k.P, k.S), NEW mode \in Mode, NEW st \in Chaining, NEW w \in Block
  PROVE  /\ DecryptStep(k, mode, st, w) \in Chaining
         /\ DecryptStep(k, mode, st, w).out = Append(st.out, DecBlock(k, mode, st.chain, w))
         /\ DecryptStep(k, mode, st, w).chain = NextChain(mode, st.chain, w)
<1>1. st = [out |-> st.out, chain |-> st.chain] /\ st.out \in Seq(Block) /\ st.chain \in Block
  BY DEF Chaining
<1> DEFINE c == DecBlock(k, mode, st.chain, w)
           d == NextChain(mode, st.chain, w)
<1>2. c \in Block /\ EncBlock(k, mode, st.chain, w) \in Block
  BY <1>1, BlocksStay
<1>3. d \in Block
  BY <1>1, <1>2 DEF NextChain
<1>4. DecryptStep(k, mode, st, w) = [out |-> Append(st.out, c), chain |-> d]
  <2>1. mode = "CBC" \/ mode = "CFB" \/ mode = "ECB"
    BY DEF Mode
  <2> QED
    BY <1>1, <2>1 DEF DecryptStep, DecBlock, NextChain
<1> HIDE DEF c, d
<1>5. Append(st.out, c) \in Seq(Block)
  BY <1>1, <1>2, AppendProperties
<1> QED
  BY <1>3, <1>4, <1>5 DEF Chaining, c, d

\* The blocks B are encrypted in a mode.
Enciphered(k, mode, chain, B) ==
  FoldLeft(LAMBDA st, w : EncryptStep(k, mode, st, w), [out |-> <<>>, chain |-> chain], B)

\* r is what became of them: its blocks, and the chains ch between them.
EncryptChain(r, ch, k, mode, chain, B) ==
  /\ r.out \in Seq(Block) /\ Len(r.out) = Len(B) /\ ch \in [0..Len(B) -> Block] /\ ch[0] = chain
  /\ \A i \in 1..Len(B) : /\ r.out[i] = EncBlock(k, mode, ch[i - 1], B[i])
                          /\ ch[i] = NextChain(mode, ch[i - 1], r.out[i])

\* Every block of them is one step.
LEMMA EncryptRuns ==
  ASSUME NEW k, Schedule(k.P, k.S), NEW mode \in Mode, NEW chain \in Block, NEW B \in Seq(Block)
  PROVE  \E ch : EncryptChain(Enciphered(k, mode, chain, B), ch, k, mode, chain, B)
<1> DEFINE n == Len(B)
           s0 == [out |-> <<>>, chain |-> chain]
           F == [i \in 1..n |-> [a \in Chaining |-> EncryptStep(k, mode, a, B[i])]]
           Eq(f) == f = [s \in SUBSET (DOMAIN B) |-> IF s = {} THEN s0 ELSE EncryptStep(k, mode, f[s \ {Max(s)}], B[Max(s)])]
           it == CHOOSE f : Eq(f)
           r == Enciphered(k, mode, chain, B)
<1>1. n \in Nat /\ \A i \in 1..n : B[i] \in Block
  OBVIOUS
<1>2. s0 \in Chaining
  BY EmptySeq DEF Chaining
<1>3. F \in [1..n -> [Chaining -> Chaining]]
  BY EncryptStepIs
<1>4. r = it[DOMAIN B]
  BY DEF Enciphered, FoldLeft, MapThenFoldSet
<1>5. DOMAIN B = 1..n
  OBVIOUS
<1>6. \A i \in 1..n, a \in Chaining : F[i][a] = EncryptStep(k, mode, a, B[i])
  OBVIOUS
<1>7. s0.out = <<>> /\ s0.chain = chain
  OBVIOUS
<1> HIDE DEF n, s0, F, r
<1>8. \E f : Eq(f)
  <2>1. PICK f : Folds(f, n, Chaining, s0, F)
    BY <1>1, <1>2, <1>3, FoldsExist
  <2>2. /\ f \in [SUBSET (1..n) -> Chaining]
        /\ \A s \in SUBSET (1..n) : f[s] = IF s = {} THEN s0 ELSE F[Max(s)][f[s \ {Max(s)}]]
    BY <2>1 DEF Folds
  <2>3. ASSUME NEW s \in SUBSET (1..n)
        PROVE  f[s] = IF s = {} THEN s0 ELSE EncryptStep(k, mode, f[s \ {Max(s)}], B[Max(s)])
    <3>1. CASE s # {}
      <4>1. Max(s) \in 1..n
        BY <3>1, <1>1, <1>2, <1>3, GreatestIn
      <4>2. f[s \ {Max(s)}] \in Chaining
        BY <2>2
      <4> QED
        BY <3>1, <4>1, <4>2, <2>2, <1>5, <1>6
    <3> QED
      BY <3>1, <2>2
  <2>4. Eq(f)
    BY <2>2, <2>3, <1>5, <1>6
  <2> QED
    BY <2>4
<1>9. Eq(it)
  BY <1>8
<1> HIDE DEF it
<1>10. it[{}] = s0
  BY <1>9
<1>11. ASSUME NEW i \in 1..n, it[1..(i - 1)] \in Chaining PROVE it[1..i] = F[i][it[1..(i - 1)]]
  <2>1. 1..i \in SUBSET (1..n) /\ 1..i # {} /\ Max(1..i) = i /\ (1..i) \ {i} = 1..(i - 1)
    BY <1>1, <1>2, <1>3, FoldAlong
  <2>2. it[1..i] = EncryptStep(k, mode, it[(1..i) \ {Max(1..i)}], B[Max(1..i)])
    BY <1>9, <1>5, <1>6, <2>1
  <2>3. B[Max(1..i)] = B[i] /\ (1..i) \ {Max(1..i)} = 1..(i - 1)
    BY <2>1, <1>5, <1>6
  <2> DEFINE z == it[1..(i - 1)]
  <2>4. it[1..i] = EncryptStep(k, mode, z, B[i])
    BY <2>2, <2>3
  <2>5. z \in Chaining
    BY <1>11
  <2> HIDE DEF z
  <2>6. F[i][z] = EncryptStep(k, mode, z, B[i])
    BY <2>5, <1>5, <1>6
  <2>7. it[1..i] = F[i][z]
    BY <2>4, <2>6
  <2> QED
    BY <2>7 DEF z
<1>12. EndsRun(it[1..n], n, Chaining, s0, F)
  <2>1. Follows(it, n, Chaining, s0, F)
    BY <1>10, <1>11 DEF Follows
  <2> QED
    BY <2>1, <1>1, <1>2, <1>3, FoldRuns
<1>13. PICK g : Runs(g, n, Chaining, s0, F) /\ it[1..n] = g[n]
  BY <1>12 DEF EndsRun
<1>14. g \in [0..n -> Chaining] /\ g[0] = s0 /\ \A i \in 1..n : g[i] = F[i][g[i - 1]]
  BY <1>13 DEF Runs
<1>15. \A i \in 0..n : g[i].out \in Seq(Block) /\ g[i].chain \in Block
  BY <1>14 DEF Chaining
<1> DEFINE W(i) == EncBlock(k, mode, g[i - 1].chain, B[i])
           C(i) == NextChain(mode, g[i - 1].chain, W(i))
<1>16. ASSUME NEW i \in 1..n PROVE W(i) \in Block /\ g[i].out = Append(g[i - 1].out, W(i)) /\ g[i].chain = C(i)
  <2>1. i - 1 \in 0..n /\ B[i] \in Block
    BY <1>1
  <2>2. g[i - 1] \in Chaining /\ g[i - 1].chain \in Block
    BY <2>1, <1>14, <1>15
  <2>3. g[i] = EncryptStep(k, mode, g[i - 1], B[i])
    BY <2>2, <1>14, <1>6
  <2>4. W(i) \in Block
    BY <2>1, <2>2, BlocksStay
  <2> DEFINE a == g[i - 1]
             w == B[i]
             z == EncryptStep(k, mode, a, w)
  <2> HIDE DEF a, w, z
  <2>5. a \in Chaining /\ w \in Block
    BY <2>1, <2>2 DEF a, w
  <2>6. z.out = Append(a.out, EncBlock(k, mode, a.chain, w)) /\ z.chain = NextChain(mode, a.chain, EncBlock(k, mode, a.chain, w))
    BY <2>5, EncryptStepIs DEF z
  <2>7. g[i] = z
    BY <2>3 DEF a, w, z
  <2> QED
    BY <2>4, <2>6, <2>7 DEF a, w
<1> HIDE DEF W, C
<1> DEFINE T == {m \in 0..n : Len(g[m].out) = m /\ \A j \in 1..m : g[m].out[j] = W(j)}
<1>17. 0 \in T
  <2>1. g[0].out = <<>>
    BY <1>14, <1>7
  <2>2. Len(<<>>) = 0
    OBVIOUS
  <2> QED
    BY <2>1, <2>2, <1>1
<1>18. ASSUME NEW m \in 1..n, m - 1 \in T PROVE m \in T
  <2> DEFINE o == g[m - 1].out
  <2>1. m - 1 \in 0..n /\ m \in 0..n /\ Len(o) = m - 1 /\ \A j \in 1..(m - 1) : o[j] = W(j)
    BY <1>18
  <2>2. o \in Seq(Block) /\ g[m].out = Append(o, W(m)) /\ W(m) \in Block
    BY <2>1, <1>15, <1>16
  <2> HIDE DEF o
  <2>3. Len(g[m].out) = m
    BY <2>1, <2>2, AppendProperties
  <2>4. ASSUME NEW j \in 1..m PROVE g[m].out[j] = W(j)
    <3>1. CASE j = m
      BY <3>1, <2>1, <2>2, AppendProperties
    <3>2. CASE j # m
      <4>1. j \in 1..(m - 1)
        BY <3>2
      <4> QED
        BY <4>1, <2>1, <2>2, AppendProperties
    <3> QED
      BY <3>1, <3>2
  <2> QED
    BY <2>1, <2>3, <2>4
<1>19. n \in T
  <2> HIDE DEF T
  <2>1. 0..n \subseteq T
    BY <1>1, <1>17, <1>18, UpTo
  <2> QED
    BY <2>1, <1>1
<1>20. r = g[n]
  BY <1>4, <1>5, <1>13
<1>21. r.out \in Seq(Block) /\ Len(r.out) = n /\ \A j \in 1..n : r.out[j] = W(j)
  BY <1>19, <1>20, <1>15, <1>1
<1> DEFINE ch == [i \in 0..n |-> g[i].chain]
<1>22. ch \in [0..n -> Block] /\ ch[0] = chain
  BY <1>15, <1>14, <1>7, <1>1
<1>23. ASSUME NEW i \in 1..n
       PROVE  r.out[i] = EncBlock(k, mode, ch[i - 1], B[i]) /\ ch[i] = NextChain(mode, ch[i - 1], r.out[i])
  <2>1. i - 1 \in 0..n /\ i \in 0..n
    BY <1>1
  <2>2. ch[i - 1] = g[i - 1].chain /\ ch[i] = g[i].chain
    BY <2>1
  <2> HIDE DEF ch
  <2>3. r.out[i] = W(i) /\ g[i].chain = C(i)
    BY <1>16, <1>21
  <2> QED
    BY <2>2, <2>3 DEF W, C
<1> HIDE DEF ch
<1>24. EncryptChain(r, ch, k, mode, chain, B)
  BY <1>21, <1>22, <1>23 DEF EncryptChain, n
<1> QED
  BY <1>24 DEF r

\* The blocks B are decrypted in a mode.
Deciphered(k, mode, chain, B) ==
  FoldLeft(LAMBDA st, w : DecryptStep(k, mode, st, w), [out |-> <<>>, chain |-> chain], B)

\* r is what became of them: its blocks, and the chains ch between them.
DecryptChain(r, ch, k, mode, chain, B) ==
  /\ r.out \in Seq(Block) /\ Len(r.out) = Len(B) /\ ch \in [0..Len(B) -> Block] /\ ch[0] = chain
  /\ \A i \in 1..Len(B) : /\ r.out[i] = DecBlock(k, mode, ch[i - 1], B[i])
                          /\ ch[i] = NextChain(mode, ch[i - 1], B[i])

\* Every block of them is one step.
LEMMA DecryptRuns ==
  ASSUME NEW k, Schedule(k.P, k.S), NEW mode \in Mode, NEW chain \in Block, NEW B \in Seq(Block)
  PROVE  \E ch : DecryptChain(Deciphered(k, mode, chain, B), ch, k, mode, chain, B)
<1> DEFINE n == Len(B)
           s0 == [out |-> <<>>, chain |-> chain]
           F == [i \in 1..n |-> [a \in Chaining |-> DecryptStep(k, mode, a, B[i])]]
           Eq(f) == f = [s \in SUBSET (DOMAIN B) |-> IF s = {} THEN s0 ELSE DecryptStep(k, mode, f[s \ {Max(s)}], B[Max(s)])]
           it == CHOOSE f : Eq(f)
           r == Deciphered(k, mode, chain, B)
<1>1. n \in Nat /\ \A i \in 1..n : B[i] \in Block
  OBVIOUS
<1>2. s0 \in Chaining
  BY EmptySeq DEF Chaining
<1>3. F \in [1..n -> [Chaining -> Chaining]]
  BY DecryptStepIs
<1>4. r = it[DOMAIN B]
  BY DEF Deciphered, FoldLeft, MapThenFoldSet
<1>5. DOMAIN B = 1..n
  OBVIOUS
<1>6. \A i \in 1..n, a \in Chaining : F[i][a] = DecryptStep(k, mode, a, B[i])
  OBVIOUS
<1>7. s0.out = <<>> /\ s0.chain = chain
  OBVIOUS
<1> HIDE DEF n, s0, F, r
<1>8. \E f : Eq(f)
  <2>1. PICK f : Folds(f, n, Chaining, s0, F)
    BY <1>1, <1>2, <1>3, FoldsExist
  <2>2. /\ f \in [SUBSET (1..n) -> Chaining]
        /\ \A s \in SUBSET (1..n) : f[s] = IF s = {} THEN s0 ELSE F[Max(s)][f[s \ {Max(s)}]]
    BY <2>1 DEF Folds
  <2>3. ASSUME NEW s \in SUBSET (1..n)
        PROVE  f[s] = IF s = {} THEN s0 ELSE DecryptStep(k, mode, f[s \ {Max(s)}], B[Max(s)])
    <3>1. CASE s # {}
      <4>1. Max(s) \in 1..n
        BY <3>1, <1>1, <1>2, <1>3, GreatestIn
      <4>2. f[s \ {Max(s)}] \in Chaining
        BY <2>2
      <4> QED
        BY <3>1, <4>1, <4>2, <2>2, <1>5, <1>6
    <3> QED
      BY <3>1, <2>2
  <2>4. Eq(f)
    BY <2>2, <2>3, <1>5, <1>6
  <2> QED
    BY <2>4
<1>9. Eq(it)
  BY <1>8
<1> HIDE DEF it
<1>10. it[{}] = s0
  BY <1>9
<1>11. ASSUME NEW i \in 1..n, it[1..(i - 1)] \in Chaining PROVE it[1..i] = F[i][it[1..(i - 1)]]
  <2>1. 1..i \in SUBSET (1..n) /\ 1..i # {} /\ Max(1..i) = i /\ (1..i) \ {i} = 1..(i - 1)
    BY <1>1, <1>2, <1>3, FoldAlong
  <2>2. it[1..i] = DecryptStep(k, mode, it[(1..i) \ {Max(1..i)}], B[Max(1..i)])
    BY <1>9, <1>5, <1>6, <2>1
  <2>3. B[Max(1..i)] = B[i] /\ (1..i) \ {Max(1..i)} = 1..(i - 1)
    BY <2>1, <1>5, <1>6
  <2> DEFINE z == it[1..(i - 1)]
  <2>4. it[1..i] = DecryptStep(k, mode, z, B[i])
    BY <2>2, <2>3
  <2>5. z \in Chaining
    BY <1>11
  <2> HIDE DEF z
  <2>6. F[i][z] = DecryptStep(k, mode, z, B[i])
    BY <2>5, <1>5, <1>6
  <2>7. it[1..i] = F[i][z]
    BY <2>4, <2>6
  <2> QED
    BY <2>7 DEF z
<1>12. EndsRun(it[1..n], n, Chaining, s0, F)
  <2>1. Follows(it, n, Chaining, s0, F)
    BY <1>10, <1>11 DEF Follows
  <2> QED
    BY <2>1, <1>1, <1>2, <1>3, FoldRuns
<1>13. PICK g : Runs(g, n, Chaining, s0, F) /\ it[1..n] = g[n]
  BY <1>12 DEF EndsRun
<1>14. g \in [0..n -> Chaining] /\ g[0] = s0 /\ \A i \in 1..n : g[i] = F[i][g[i - 1]]
  BY <1>13 DEF Runs
<1>15. \A i \in 0..n : g[i].out \in Seq(Block) /\ g[i].chain \in Block
  BY <1>14 DEF Chaining
<1> DEFINE W(i) == DecBlock(k, mode, g[i - 1].chain, B[i])
           C(i) == NextChain(mode, g[i - 1].chain, B[i])
<1>16. ASSUME NEW i \in 1..n PROVE W(i) \in Block /\ g[i].out = Append(g[i - 1].out, W(i)) /\ g[i].chain = C(i)
  <2>1. i - 1 \in 0..n /\ B[i] \in Block
    BY <1>1
  <2>2. g[i - 1] \in Chaining /\ g[i - 1].chain \in Block
    BY <2>1, <1>14, <1>15
  <2>3. g[i] = DecryptStep(k, mode, g[i - 1], B[i])
    BY <2>2, <1>14, <1>6
  <2>4. W(i) \in Block
    BY <2>1, <2>2, BlocksStay
  <2> DEFINE a == g[i - 1]
             w == B[i]
             z == DecryptStep(k, mode, a, w)
  <2> HIDE DEF a, w, z
  <2>5. a \in Chaining /\ w \in Block
    BY <2>1, <2>2 DEF a, w
  <2>6. z.out = Append(a.out, DecBlock(k, mode, a.chain, w)) /\ z.chain = NextChain(mode, a.chain, w)
    BY <2>5, DecryptStepIs DEF z
  <2>7. g[i] = z
    BY <2>3 DEF a, w, z
  <2> QED
    BY <2>4, <2>6, <2>7 DEF a, w
<1> HIDE DEF W, C
<1> DEFINE T == {m \in 0..n : Len(g[m].out) = m /\ \A j \in 1..m : g[m].out[j] = W(j)}
<1>17. 0 \in T
  <2>1. g[0].out = <<>>
    BY <1>14, <1>7
  <2>2. Len(<<>>) = 0
    OBVIOUS
  <2> QED
    BY <2>1, <2>2, <1>1
<1>18. ASSUME NEW m \in 1..n, m - 1 \in T PROVE m \in T
  <2> DEFINE o == g[m - 1].out
  <2>1. m - 1 \in 0..n /\ m \in 0..n /\ Len(o) = m - 1 /\ \A j \in 1..(m - 1) : o[j] = W(j)
    BY <1>18
  <2>2. o \in Seq(Block) /\ g[m].out = Append(o, W(m)) /\ W(m) \in Block
    BY <2>1, <1>15, <1>16
  <2> HIDE DEF o
  <2>3. Len(g[m].out) = m
    BY <2>1, <2>2, AppendProperties
  <2>4. ASSUME NEW j \in 1..m PROVE g[m].out[j] = W(j)
    <3>1. CASE j = m
      BY <3>1, <2>1, <2>2, AppendProperties
    <3>2. CASE j # m
      <4>1. j \in 1..(m - 1)
        BY <3>2
      <4> QED
        BY <4>1, <2>1, <2>2, AppendProperties
    <3> QED
      BY <3>1, <3>2
  <2> QED
    BY <2>1, <2>3, <2>4
<1>19. n \in T
  <2> HIDE DEF T
  <2>1. 0..n \subseteq T
    BY <1>1, <1>17, <1>18, UpTo
  <2> QED
    BY <2>1, <1>1
<1>20. r = g[n]
  BY <1>4, <1>5, <1>13
<1>21. r.out \in Seq(Block) /\ Len(r.out) = n /\ \A j \in 1..n : r.out[j] = W(j)
  BY <1>19, <1>20, <1>15, <1>1
<1> DEFINE ch == [i \in 0..n |-> g[i].chain]
<1>22. ch \in [0..n -> Block] /\ ch[0] = chain
  BY <1>15, <1>14, <1>7, <1>1
<1>23. ASSUME NEW i \in 1..n
       PROVE  r.out[i] = DecBlock(k, mode, ch[i - 1], B[i]) /\ ch[i] = NextChain(mode, ch[i - 1], B[i])
  <2>1. i - 1 \in 0..n /\ i \in 0..n
    BY <1>1
  <2>2. ch[i - 1] = g[i - 1].chain /\ ch[i] = g[i].chain
    BY <2>1
  <2> HIDE DEF ch
  <2>3. r.out[i] = W(i) /\ g[i].chain = C(i)
    BY <1>16, <1>21
  <2> QED
    BY <2>2, <2>3 DEF W, C
<1> HIDE DEF ch
<1>24. DecryptChain(r, ch, k, mode, chain, B)
  BY <1>21, <1>22, <1>23 DEF DecryptChain, n
<1> QED
  BY <1>24 DEF r

\* What is encrypted in a mode is decrypted in it, block by block.
LEMMA ModeBack ==
  ASSUME NEW k, Schedule(k.P, k.S), NEW mode \in Mode, NEW chain \in Block, NEW B \in Seq(Block)
  PROVE  LET C == Enciphered(k, mode, chain, B).out
         IN  C \in Seq(Block) /\ Len(C) = Len(B) /\ Deciphered(k, mode, chain, C).out = B
<1> DEFINE n == Len(B)
           e == Enciphered(k, mode, chain, B)
           C == e.out
           d == Deciphered(k, mode, chain, C)
           D == d.out
<1>1. PICK ch : EncryptChain(e, ch, k, mode, chain, B)
  BY EncryptRuns
<1>2. /\ C \in Seq(Block) /\ Len(C) = n /\ ch \in [0..n -> Block] /\ ch[0] = chain
      /\ \A i \in 1..n : C[i] = EncBlock(k, mode, ch[i - 1], B[i]) /\ ch[i] = NextChain(mode, ch[i - 1], C[i])
  BY <1>1 DEF EncryptChain
<1>3. n \in Nat /\ \A i \in 1..n : B[i] \in Block
  OBVIOUS
<1> HIDE DEF e, C
<1>4. PICK dh : DecryptChain(d, dh, k, mode, chain, C)
  BY <1>2, DecryptRuns
<1>5. /\ D \in Seq(Block) /\ Len(D) = n /\ dh \in [0..n -> Block] /\ dh[0] = chain
      /\ \A i \in 1..n : D[i] = DecBlock(k, mode, dh[i - 1], C[i]) /\ dh[i] = NextChain(mode, dh[i - 1], C[i])
  BY <1>2, <1>4 DEF DecryptChain
<1> HIDE DEF d, D, n
<1> DEFINE T == {i \in 0..n : dh[i] = ch[i]}
<1>6. 0 \in T
  BY <1>2, <1>3, <1>5
<1>7. ASSUME NEW i \in 1..n, i - 1 \in T PROVE i \in T
  BY <1>7, <1>2, <1>3, <1>5
<1> HIDE DEF T
<1>8. 0..n \subseteq T
  BY <1>3, <1>6, <1>7, UpTo
<1>9. ASSUME NEW i \in 1..n PROVE D[i] = B[i]
  <2>1. i - 1 \in 0..n
    BY <1>3
  <2>2. dh[i - 1] = ch[i - 1] /\ ch[i - 1] \in Block
    BY <2>1, <1>8, <1>2 DEF T
  <2>3. DecBlock(k, mode, ch[i - 1], EncBlock(k, mode, ch[i - 1], B[i])) = B[i]
    BY <2>2, <1>3, BlockBack
  <2> QED
    BY <2>2, <2>3, <1>2, <1>5
<1>10. D = B
  <2>1. Len(D) = Len(B)
    BY <1>5 DEF n
  <2> QED
    BY <2>1, <1>5, <1>9, SeqEqual
<1> QED
  BY <1>2, <1>10 DEF e, C, d, D, n

-----------------------------------------------------------------------------
(* Bytes and blocks. *)

\* The bytes of a block.
LEMMA BlockBytes ==
  ASSUME NEW b \in Block
  PROVE  /\ BlockToBytes(b) \in [1..4 -> Bit]
         /\ BlockToBytes(b)[1] = b[1][1] /\ BlockToBytes(b)[2] = b[1][2]
         /\ BlockToBytes(b)[3] = b[2][1] /\ BlockToBytes(b)[4] = b[2][2]
<1> DEFINE x == b[1]
           y == b[2]
<1>1. x \in WordOf /\ y \in WordOf
  BY BlockHas
<1>2. BlockToBytes(b) = x \o y
  BY DEF BlockToBytes
<1> HIDE DEF x, y
<1>3. x \in Seq(Bit) /\ y \in Seq(Bit) /\ Len(x) = 2 /\ Len(y) = 2
  <2>1. x = <<x[1], x[2]>> /\ x[1] \in Bit /\ x[2] \in Bit
    BY <1>1, WordHas
  <2>2. y = <<y[1], y[2]>> /\ y[1] \in Bit /\ y[2] \in Bit
    BY <1>1, WordHas
  <2>3. \A a, c \in Bit : <<a, c>> \in Seq(Bit) /\ Len(<<a, c>>) = 2
    OBVIOUS
  <2> QED
    BY <2>1, <2>2, <2>3
<1>4. /\ x \o y \in Seq(Bit) /\ Len(x \o y) = 4
      /\ \A i \in 1..4 : (x \o y)[i] = IF i <= 2 THEN x[i] ELSE y[i - 2]
  BY <1>3, ConcatProperties
<1>5. (x \o y)[1] = x[1] /\ (x \o y)[2] = x[2] /\ (x \o y)[3] = y[1] /\ (x \o y)[4] = y[2]
  BY <1>4
<1>6. x \o y \in [1..4 -> Bit]
  BY <1>4, LenProperties
<1> QED
  BY <1>2, <1>5, <1>6 DEF x, y

\* bs are the bytes of the blocks C.
BytesLaid(bs, C) ==
  /\ bs \in Seq(Bit) /\ Len(bs) = 4 * Len(C)
  /\ \A i \in 1..Len(C) : /\ bs[4 * i - 3] = C[i][1][1] /\ bs[4 * i - 2] = C[i][1][2]
                          /\ bs[4 * i - 1] = C[i][2][1] /\ bs[4 * i] = C[i][2][2]

\* BlockToBytes lays the blocks one after the other.
LEMMA BytesAre ==
  ASSUME NEW C \in Seq(Block), Len(C) # 0
  PROVE  BytesLaid(BytesOf(C), C)
<1> DEFINE n == Len(C)
           q == [i \in DOMAIN C |-> BlockToBytes(C[i])]
           f == FlattenSeq(q)
<1>1. n \in Nat /\ n # 0 /\ DOMAIN C = 1..n /\ \A i \in 1..n : C[i] \in Block
  OBVIOUS
<1>2. q \in [1..n -> [1..4 -> Bit]]
  BY <1>1, BlockBytes
<1>3. \A i \in 1..n : q[i] = BlockToBytes(C[i])
  BY <1>1
<1>4. BytesOf(C) = f
  BY DEF BytesOf
<1> HIDE DEF q, n
<1>5. q \in Seq([1..4 -> Bit]) /\ Len(q) = n
  BY <1>1, <1>2
<1>6. Laid(f, q, 4, Bit)
  <2>1. 4 \in Nat \ {0} /\ Len(q) # 0
    BY <1>1, <1>5
  <2> QED
    BY <2>1, <1>5, FlattenIs
<1> HIDE DEF f
<1>7. f \in [1..(4 * n) -> Bit] /\ \A i \in 1..n, j \in 1..4 : f[4 * (i - 1) + j] = q[i][j]
  BY <1>5, <1>6 DEF Laid
<1>8. f \in Seq(Bit) /\ Len(f) = 4 * n
  BY <1>1, <1>7
<1>9. ASSUME NEW i \in 1..n
      PROVE  /\ f[4 * i - 3] = C[i][1][1] /\ f[4 * i - 2] = C[i][1][2]
             /\ f[4 * i - 1] = C[i][2][1] /\ f[4 * i] = C[i][2][2]
  <2>1. 4 * (i - 1) + 1 = 4 * i - 3 /\ 4 * (i - 1) + 2 = 4 * i - 2 /\ 4 * (i - 1) + 3 = 4 * i - 1 /\ 4 * (i - 1) + 4 = 4 * i
    BY <1>1
  <2>2. 1 \in 1..4 /\ 2 \in 1..4 /\ 3 \in 1..4 /\ 4 \in 1..4
    OBVIOUS
  <2>3. f[4 * (i - 1) + 1] = q[i][1] /\ f[4 * (i - 1) + 2] = q[i][2] /\ f[4 * (i - 1) + 3] = q[i][3] /\ f[4 * (i - 1) + 4] = q[i][4]
    BY <1>7, <2>2
  <2>4. q[i][1] = C[i][1][1] /\ q[i][2] = C[i][1][2] /\ q[i][3] = C[i][2][1] /\ q[i][4] = C[i][2][2]
    BY <1>1, <1>3, BlockBytes
  <2> QED
    BY <2>1, <2>3, <2>4
<1> QED
  BY <1>4, <1>8, <1>9 DEF BytesLaid, n

\* BytesToBlock reads them back.
LEMMA BlocksAre ==
  ASSUME NEW s \in Seq(Bit), NEW m \in Nat, Len(s) = 4 * m
  PROVE  BlocksOf(s) \in Seq(Block) /\ Len(BlocksOf(s)) = m /\ BytesLaid(s, BlocksOf(s))
<1> DEFINE K(i) == BytesToBlock(SubSeq(s, 4 * i - 3, 4 * i))
           B == BlocksOf(s)
<1>1. Len(s) \div 4 = m
  OBVIOUS
<1>2. B = [i \in 1..m |-> K(i)]
  BY <1>1 DEF BlocksOf
<1>3. ASSUME NEW i \in 1..m
      PROVE  /\ K(i) \in Block /\ s[4 * i - 3] = K(i)[1][1] /\ s[4 * i - 2] = K(i)[1][2]
             /\ s[4 * i - 1] = K(i)[2][1] /\ s[4 * i] = K(i)[2][2]
  <2> DEFINE a == 4 * i - 3
             z == 4 * i
             u == SubSeq(s, a, z)
             v == SubSeq(u, 1, 2)
             w == SubSeq(u, 3, 4)
  <2>1. a \in Int /\ z \in Int /\ a <= z /\ z - a + 1 = 4 /\ a \in 1..Len(s) /\ z \in 1..Len(s)
    OBVIOUS
  <2>2. K(i) = <<v, w>>
    BY DEF BytesToBlock
  <2>3. a + 1 - 1 = a /\ a + 2 - 1 = 4 * i - 2 /\ a + 3 - 1 = 4 * i - 1 /\ a + 4 - 1 = z
    OBVIOUS
  <2> HIDE DEF a, z
  <2>4. \A j \in a..z : s[j] \in Bit
    <3> SUFFICES ASSUME NEW j \in a..z PROVE s[j] \in Bit
      OBVIOUS
    <3>1. j \in 1..Len(s)
      BY <2>1
    <3> QED
      BY <3>1
  <2>5. u \in Seq(Bit) /\ Len(u) = 4 /\ \A j \in 1..4 : u[j] = s[a + j - 1]
    BY <2>1, <2>4, SubSeqProperties
  <2> HIDE DEF u
  <2>6. \A j \in 1..4 : u[j] \in Bit
    BY <2>5, ElementOfSeq
  <2>7. v \in Seq(Bit) /\ Len(v) = 2 /\ v[1] = u[1] /\ v[2] = u[2]
    <3>1. v \in Seq(Bit) /\ Len(v) = 2 /\ \A j \in 1..2 : v[j] = u[1 + j - 1]
      BY <2>6, SubSeqProperties
    <3> QED
      BY <3>1
  <2>8. w \in Seq(Bit) /\ Len(w) = 2 /\ w[1] = u[3] /\ w[2] = u[4]
    <3>1. w \in Seq(Bit) /\ Len(w) = 2 /\ \A j \in 1..2 : w[j] = u[3 + j - 1]
      BY <2>6, SubSeqProperties
    <3> QED
      BY <3>1
  <2> HIDE DEF v, w
  <2>9. v \in [1..2 -> Bit] /\ w \in [1..2 -> Bit]
    BY <2>7, <2>8, LenProperties
  <2>10. v \in WordOf /\ w \in WordOf
    BY <2>9, WordIs
  <2>11. K(i) \in Block /\ K(i)[1] = v /\ K(i)[2] = w
    BY <2>2, <2>10 DEF Block
  <2> HIDE DEF K
  <2>12. u[1] = s[a] /\ u[2] = s[4 * i - 2] /\ u[3] = s[4 * i - 1] /\ u[4] = s[z]
    BY <2>3, <2>5
  <2> QED
    BY <2>7, <2>8, <2>11, <2>12 DEF a, z
<1> HIDE DEF K
<1>4. B \in [1..m -> Block]
  BY <1>2, <1>3
<1>5. B \in Seq(Block) /\ Len(B) = m
  BY <1>4
<1> HIDE DEF B
<1>6. ASSUME NEW i \in 1..m
      PROVE  /\ s[4 * i - 3] = B[i][1][1] /\ s[4 * i - 2] = B[i][1][2]
             /\ s[4 * i - 1] = B[i][2][1] /\ s[4 * i] = B[i][2][2]
  BY <1>2, <1>3
<1>7. BytesLaid(s, B)
  BY <1>5, <1>6 DEF BytesLaid
<1> QED
  BY <1>5, <1>7 DEF B

\* Blocks have the same bytes only if they are the same.
LEMMA LaidOnce ==
  ASSUME NEW bs, NEW C \in Seq(Block), NEW D \in Seq(Block), BytesLaid(bs, C), BytesLaid(bs, D)
  PROVE  C = D
<1>1. Len(C) \in Nat /\ Len(D) \in Nat
  OBVIOUS
<1>2. 4 * Len(C) = 4 * Len(D)
  BY DEF BytesLaid
<1>3. Len(C) = Len(D)
  BY <1>1, <1>2
<1>4. ASSUME NEW i \in 1..Len(C) PROVE C[i] = D[i]
  <2>1. C[i] \in Block /\ D[i] \in Block
    BY <1>3
  <2>2. C[i][1][1] = D[i][1][1] /\ C[i][1][2] = D[i][1][2] /\ C[i][2][1] = D[i][2][1] /\ C[i][2][2] = D[i][2][2]
    BY <1>3 DEF BytesLaid
  <2> DEFINE c == C[i]
             d == D[i]
  <2> HIDE DEF c, d
  <2>3. c = <<c[1], c[2]>> /\ c[1] \in WordOf /\ c[2] \in WordOf /\ d = <<d[1], d[2]>> /\ d[1] \in WordOf /\ d[2] \in WordOf
    BY <2>1, BlockHas DEF c, d
  <2>4. c[1] = <<c[1][1], c[1][2]>> /\ c[2] = <<c[2][1], c[2][2]>> /\ d[1] = <<d[1][1], d[1][2]>> /\ d[2] = <<d[2][1], d[2][2]>>
    BY <2>3, WordHas
  <2>5. c[1] = d[1] /\ c[2] = d[2]
    BY <2>2, <2>4 DEF c, d
  <2> QED
    BY <2>3, <2>5 DEF c, d
<1> QED
  BY <1>3, <1>4, SeqEqual

\* Bytes are laid out from blocks in one way.
LEMMA LaidAlike ==
  ASSUME NEW bs, NEW cs, NEW C \in Seq(Block), BytesLaid(bs, C), BytesLaid(cs, C)
  PROVE  bs = cs
<1> DEFINE n == Len(C)
<1>1. n \in Nat /\ bs \in Seq(Bit) /\ cs \in Seq(Bit) /\ Len(bs) = 4 * n /\ Len(cs) = 4 * n
  BY DEF BytesLaid
<1>2. \A i \in 1..n : /\ bs[4 * i - 3] = cs[4 * i - 3] /\ bs[4 * i - 2] = cs[4 * i - 2]
                      /\ bs[4 * i - 1] = cs[4 * i - 1] /\ bs[4 * i] = cs[4 * i]
  BY DEF BytesLaid
<1> HIDE DEF n
<1>3. ASSUME NEW q \in 1..(4 * n) PROVE bs[q] = cs[q]
  <2>1. PICK i \in 1..n, j \in 1..4 : q = 4 * (i - 1) + j
    <3>1. 4 \in Nat \ {0}
      OBVIOUS
    <3> QED
      BY <3>1, <1>1, InBlock
  <2>2. q = 4 * i - 3 \/ q = 4 * i - 2 \/ q = 4 * i - 1 \/ q = 4 * i
    BY <2>1, <1>1
  <2> QED
    BY <2>2, <1>2
<1> QED
  BY <1>1, <1>3, SeqEqual

-----------------------------------------------------------------------------
(* Buffers. *)

\* A buffer cut in two.
LEMMA CutAt ==
  ASSUME NEW A, NEW s \in Seq(A), NEW n \in 0..Len(s)
  PROVE  /\ SubSeq(s, 1, n) \in Seq(A) /\ Len(SubSeq(s, 1, n)) = n
         /\ SubSeq(s, n + 1, Len(s)) \in Seq(A) /\ Len(SubSeq(s, n + 1, Len(s))) = Len(s) - n
         /\ SubSeq(s, 1, n) \o SubSeq(s, n + 1, Len(s)) = s
<1> DEFINE L == Len(s)
           k == n + 1
<1>1. L \in Nat /\ n \in Nat /\ n <= L /\ k \in Int /\ \A i \in 1..L : s[i] \in A
  OBVIOUS
<1> HIDE DEF k
<1>2. SubSeq(s, 1, n) \in Seq(A) /\ Len(SubSeq(s, 1, n)) = IF 1 <= n THEN n - 1 + 1 ELSE 0
  BY <1>1, SubSeqProperties
<1>3. SubSeq(s, k, L) \in Seq(A) /\ Len(SubSeq(s, k, L)) = IF k <= L THEN L - k + 1 ELSE 0
  <2>1. \A i \in k..L : s[i] \in A
    BY <1>1 DEF k
  <2> HIDE DEF L
  <2> QED
    BY <2>1, <1>1, SubSeqProperties
<1>4. SubSeq(s, 1, n) \o SubSeq(s, n + 1, L) = SubSeq(s, 1, L)
  <2>1. 1 \in 1..(L + 1) /\ n \in (1 - 1)..L /\ L \in n..L
    BY <1>1
  <2> QED
    BY <2>1, ConcatAdjacentSubSeq
<1>5. SubSeq(s, 1, L) = s
  BY SubSeqFull
<1>6. Len(SubSeq(s, 1, n)) = n
  BY <1>1, <1>2
<1>7. SubSeq(s, n + 1, L) \in Seq(A) /\ Len(SubSeq(s, n + 1, L)) = L - n
  <2>1. (IF k <= L THEN L - k + 1 ELSE 0) = L - n
    <3> HIDE DEF L
    <3> QED
      BY <1>1 DEF k
  <2>2. SubSeq(s, k, L) \in Seq(A) /\ Len(SubSeq(s, k, L)) = L - n
    BY <2>1, <1>3
  <2> QED
    BY <2>2 DEF k
<1> QED
  BY <1>2, <1>4, <1>5, <1>6, <1>7

\* Two sequences joined, and cut at the same place.
LEMMA Joined ==
  ASSUME NEW A, NEW x \in Seq(A), NEW t \in Seq(A)
  PROVE  /\ x \o t \in Seq(A) /\ Len(x \o t) = Len(x) + Len(t)
         /\ SubSeq(x \o t, 1, Len(x)) = x
         /\ SubSeq(x \o t, Len(x) + 1, Len(x) + Len(t)) = t
<1> DEFINE z == x \o t
           a == Len(x)
           b == Len(t)
           c == Len(x) + Len(t)
<1>1. /\ z \in Seq(A) /\ Len(z) = c
      /\ \A i \in 1..c : z[i] = IF i <= a THEN x[i] ELSE t[i - a]
  BY ConcatProperties
<1>2. a \in Nat /\ b \in Nat /\ c \in Nat /\ c = a + b /\ (\A i \in 1..a : x[i] \in A) /\ (\A i \in 1..b : t[i] \in A)
  OBVIOUS
<1> HIDE DEF z
<1>3. SubSeq(z, 1, a) = x
  <2>1. \A i \in 1..a : z[i] = x[i] /\ z[i] \in A
    BY <1>1, <1>2
  <2> QED
    BY <1>2, <2>1, PrefixIs
<1>4. SubSeq(z, a + 1, c) = t
  <2> DEFINE m == a + 1
             u == SubSeq(z, m, c)
  <2>1. m \in Int /\ c \in Int /\ \A i \in m..c : z[i] \in A
    <3> SUFFICES ASSUME NEW i \in m..c PROVE z[i] \in A
      BY <1>2
    <3>1. i \in 1..c
      BY <1>2
    <3> QED
      BY <3>1, <1>1, ElementOfSeq
  <2>2. c - m + 1 = b /\ (IF m <= c THEN c - m + 1 ELSE 0) = b
    BY <1>2
  <2> HIDE DEF m, c
  <2>3. u \in Seq(A) /\ Len(u) = b /\ \A i \in 1..b : u[i] = z[m + i - 1]
    BY <2>1, <2>2, SubSeqProperties
  <2> HIDE DEF u
  <2>4. ASSUME NEW i \in 1..b PROVE u[i] = t[i]
    <3>1. m + i - 1 = a + i /\ a + i \in 1..c /\ ~(a + i <= a) /\ (a + i) - a = i
      BY <1>2 DEF m
    <3>2. z[a + i] = t[i]
      BY <3>1, <1>1
    <3> QED
      BY <3>1, <3>2, <2>3
  <2>5. u = t
    BY <2>3, <2>4, SeqEqual
  <2> QED
    BY <2>5 DEF u, m
<1> QED
  BY <1>1, <1>3, <1>4 DEF z

\* The bytes that the first n of a buffer are encrypted to.
CipherBytes(k, chain, h, mode) == BytesOf(Enciphered(k, mode, chain, BlocksOf(h)).out)
PlainBytes(k, chain, h, mode) == BytesOf(Deciphered(k, mode, chain, BlocksOf(h)).out)

\* The whole blocks of a buffer are encrypted to as many, and decrypted again.
LEMMA BytesBack ==
  ASSUME NEW k, Schedule(k.P, k.S), NEW mode \in Mode, NEW chain \in Block,
         NEW h \in Seq(Bit), ~BadLength(Len(h))
  PROVE  /\ CipherBytes(k, chain, h, mode) \in Seq(Bit) /\ Len(CipherBytes(k, chain, h, mode)) = Len(h)
         /\ PlainBytes(k, chain, CipherBytes(k, chain, h, mode), mode) = h
<1> DEFINE n == Len(h)
           m == n \div 4
           B == BlocksOf(h)
           C == Enciphered(k, mode, chain, B).out
           x == BytesOf(C)
<1>1. n \in Nat /\ m \in Nat /\ n = 4 * m /\ m # 0
  <2>1. n \in Nat /\ n # 0 /\ n % 4 = 0
    BY DEF BadLength
  <2> HIDE DEF n
  <2> QED
    BY <2>1
<1> HIDE DEF m
<1>2. B \in Seq(Block) /\ Len(B) = m /\ BytesLaid(h, B)
  BY <1>1, BlocksAre
<1> HIDE DEF B
<1>3. C \in Seq(Block) /\ Len(C) = Len(B) /\ Deciphered(k, mode, chain, C).out = B
  BY <1>2, ModeBack
<1> HIDE DEF C
<1>4. BytesLaid(x, C)
  BY <1>1, <1>2, <1>3, BytesAre
<1>5. x \in Seq(Bit) /\ Len(x) = 4 * m
  BY <1>2, <1>3, <1>4 DEF BytesLaid
<1> HIDE DEF x
<1>6. BlocksOf(x) = C
  <2>1. BlocksOf(x) \in Seq(Block) /\ BytesLaid(x, BlocksOf(x))
    BY <1>1, <1>5, BlocksAre
  <2> QED
    BY <2>1, <1>3, <1>4, LaidOnce
<1>7. BytesOf(B) = h
  <2>1. BytesLaid(BytesOf(B), B)
    BY <1>1, <1>2, BytesAre
  <2> QED
    BY <2>1, <1>2, LaidAlike
<1>8. CipherBytes(k, chain, h, mode) = x
  BY DEF CipherBytes, x, C, B
<1>9. PlainBytes(k, chain, x, mode) = h
  BY <1>3, <1>6, <1>7 DEF PlainBytes
<1> QED
  BY <1>1, <1>5, <1>8, <1>9

\* What the calls on a buffer return.
LEMMA InPlace ==
  ASSUME NEW k, NEW mode, NEW chain, NEW buf, NEW n, ~BadLength(n)
  PROVE  /\ encrypt_in_place(k, chain, buf, n, mode) =
              Ok(CipherBytes(k, chain, SubSeq(buf, 1, n), mode) \o SubSeq(buf, n + 1, Len(buf)))
         /\ decrypt_in_place(k, chain, buf, n, mode) =
              Ok(PlainBytes(k, chain, SubSeq(buf, 1, n), mode) \o SubSeq(buf, n + 1, Len(buf)))
  BY DEF encrypt_in_place, decrypt_in_place, CipherBytes, PlainBytes, Enciphered, Deciphered

\* The calls of blowfish.
BlowfishCalls ==
  call.name = "blowfish" =>
    call.in \in [key : Keysets, chain : Block, buf : Seq(Bit), n : Nat, mode : Mode]

\* The schedules of the keys that start takes, cut or not.
LEMMA KeysetsAre ==
  ASSUME NEW ks \in Keysets, start(ks).ok
  PROVE  Schedule(start(ks).value.P, start(ks).value.S)
<1>1. <<>> \in Seq(Bit) /\ <<1>> \in Seq(Bit) /\ <<1, 0, 0>> \in Seq(Bit) /\ <<1, 0, 0, 1>> \in Seq(Bit)
  BY DEF Bit
<1>2. ks \in Seq(Bit) /\ Len(ks) \in Nat
  BY <1>1 DEF Keysets
<1>3. Len(ks) >= 1
  BY DEF start, Throw
<1> DEFINE n == IF Len(ks) > MaxKey THEN MaxKey ELSE Len(ks)
           k == SubSeq(ks, 1, n)
<1>4. n \in Nat /\ 1 <= n /\ n <= Len(ks)
  BY <1>2, <1>3, CiphersAssumption
<1>5. start(ks).value = Scheduled(k)
  BY <1>2, <1>3 DEF start, Ok
<1> HIDE DEF n
<1>6. k \in Seq(Bit) /\ Len(k) # 0
  BY <1>2, <1>4
<1> HIDE DEF k
<1> QED
  BY <1>5, <1>6, StartIs

\* Buffers are decrypted to what was encrypted.
LEMMA BuffersBack == ASSUME BlowfishCalls PROVE BlowfishRoundTrip
<1> SUFFICES ASSUME call.name = "blowfish", call.in.n <= Len(call.in.buf), start(call.in.key).ok PROVE BlowfishRoundTrip
  BY DEF BlowfishRoundTrip
<1> DEFINE in == call.in
           k == start(in.key).value
           chain == in.chain
           buf == in.buf
           n == in.n
           mode == in.mode
           c == encrypt_in_place(k, chain, buf, n, mode)
           blank == [i \in DOMAIN buf |-> 0]
           d == encrypt_to(k, chain, buf, blank, n, mode)
<1>1. in.key \in Keysets /\ chain \in Block /\ buf \in Seq(Bit) /\ n \in Nat /\ mode \in Mode /\ n <= Len(buf)
  BY DEF BlowfishCalls
<1>2. Schedule(k.P, k.S)
  BY <1>1, KeysetsAre
<1> SUFFICES ASSUME c.ok
             PROVE  /\ decrypt_in_place(k, chain, c.value, n, mode) = Ok(buf)
                    /\ SubSeq(c.value, n + 1, Len(buf)) = SubSeq(buf, n + 1, Len(buf))
                    /\ SubSeq(d.value, 1, n) = SubSeq(c.value, 1, n)
                    /\ decrypt_to(k, chain, d.value, buf, n, mode) = Ok(buf)
  BY DEF BlowfishRoundTrip
<1> HIDE DEF in, k, chain, buf, n, mode
<1>3. ~BadLength(n)
  BY DEF encrypt_in_place, Throw
<1> DEFINE h == SubSeq(buf, 1, n)
           t == SubSeq(buf, n + 1, Len(buf))
           x == CipherBytes(k, chain, h, mode)
           y == SubSeq(blank, n + 1, Len(blank))
<1>4. Len(buf) \in Nat /\ n \in 0..Len(buf)
  BY <1>1
<1>5. h \in Seq(Bit) /\ Len(h) = n /\ t \in Seq(Bit) /\ Len(t) = Len(buf) - n /\ h \o t = buf
  BY <1>1, <1>4, CutAt
<1>6. blank \in Seq(Bit) /\ Len(blank) = Len(buf)
  <2>1. blank \in [1..Len(buf) -> Bit]
    BY <1>1 DEF Bit
  <2> HIDE DEF blank
  <2> QED
    BY <2>1, <1>4
<1> HIDE DEF blank
<1>7. y \in Seq(Bit) /\ Len(y) = Len(buf) - n
  <2>1. n \in 0..Len(blank)
    BY <1>4, <1>6
  <2> QED
    BY <2>1, <1>6, CutAt
<1>8. c = Ok(x \o t)
  BY <1>3, InPlace
<1> HIDE DEF h, c
<1>9. x \in Seq(Bit) /\ Len(x) = n /\ PlainBytes(k, chain, x, mode) = h
  BY <1>1, <1>2, <1>3, <1>5, BytesBack
<1> HIDE DEF x, t, y
<1>10. /\ x \o t \in Seq(Bit) /\ Len(x \o t) = Len(buf)
       /\ SubSeq(x \o t, 1, n) = x /\ SubSeq(x \o t, n + 1, Len(buf)) = t
  <2>1. n + (Len(buf) - n) = Len(buf)
    BY <1>1, <1>4
  <2>2. Len(x) + Len(t) = Len(buf)
    BY <2>1, <1>5, <1>9
  <2>3. /\ x \o t \in Seq(Bit) /\ Len(x \o t) = Len(x) + Len(t)
        /\ SubSeq(x \o t, 1, Len(x)) = x /\ SubSeq(x \o t, Len(x) + 1, Len(x) + Len(t)) = t
    <3>1. x \in Seq(Bit) /\ t \in Seq(Bit)
      BY <1>5, <1>9
    <3> QED
      BY <3>1, Joined
  <2> QED
    BY <2>2, <2>3, <1>9
<1>11. decrypt_in_place(k, chain, x \o t, n, mode) = Ok(buf)
  <2> DEFINE w == x \o t
  <2> HIDE DEF w
  <2>1. decrypt_in_place(k, chain, w, n, mode) = Ok(PlainBytes(k, chain, SubSeq(w, 1, n), mode) \o SubSeq(w, n + 1, Len(w)))
    BY <1>3, InPlace
  <2>2. SubSeq(w, 1, n) = x /\ SubSeq(w, n + 1, Len(w)) = t
    BY <1>10 DEF w
  <2>3. decrypt_in_place(k, chain, w, n, mode) = Ok(h \o t)
    BY <2>1, <2>2, <1>9
  <2> QED
    BY <2>3, <1>5 DEF w
<1>12. c.ok /\ c.value = x \o t
  BY <1>8 DEF Ok
<1>13. d = Ok(x \o y)
  <2>1. d = Ok(SubSeq(c.value, 1, n) \o y)
    BY <1>12 DEF encrypt_to, c, y
  <2> QED
    BY <2>1, <1>10, <1>12
<1> HIDE DEF d
<1>14. d.value = x \o y
  BY <1>13 DEF Ok
<1>15. SubSeq(x \o y, 1, n) = x /\ x \o y \in Seq(Bit)
  BY <1>7, <1>9, Joined
<1>16. decrypt_to(k, chain, x \o y, buf, n, mode) = Ok(buf)
  <2> DEFINE w == x \o y
             u == SubSeq(w, n + 1, Len(w))
             r == decrypt_in_place(k, chain, w, n, mode)
  <2> HIDE DEF w
  <2>1. r = Ok(PlainBytes(k, chain, SubSeq(w, 1, n), mode) \o u)
    BY <1>3, InPlace
  <2>2. SubSeq(w, 1, n) = x
    BY <1>15 DEF w
  <2>3. u \in Seq(Bit)
    <3>1. w \in Seq(Bit) /\ Len(w) = Len(x) + Len(y)
      BY <1>7, <1>9, Joined DEF w
    <3>2. n \in 0..Len(w)
      BY <3>1, <1>7, <1>9, <1>4
    <3> QED
      BY <3>1, <3>2, CutAt
  <2>4. r = Ok(h \o u)
    BY <2>1, <2>2, <1>9
  <2> HIDE DEF u
  <2>5. SubSeq(h \o u, 1, n) = h
    BY <2>3, <1>5, Joined
  <2>6. r.ok /\ r.value = h \o u
    BY <2>4 DEF Ok
  <2>7. decrypt_to(k, chain, w, buf, n, mode) = Ok(SubSeq(r.value, 1, n) \o t)
    BY <2>6 DEF decrypt_to, t
  <2> HIDE DEF r
  <2>8. decrypt_to(k, chain, w, buf, n, mode) = Ok(h \o t)
    BY <2>5, <2>6, <2>7
  <2> QED
    BY <2>8, <1>5 DEF w
<1> QED
  BY <1>10, <1>11, <1>12, <1>14, <1>15, <1>16 DEF t

-----------------------------------------------------------------------------
(* AES. *)

\* A block of AES.
AesBlock == AesByte \X AesByte

\* What it is made of.
LEMMA AesBlockHas ==
  ASSUME NEW b \in AesBlock
  PROVE  b = <<b[1], b[2]>> /\ b[1] \in AesByte /\ b[2] \in AesByte
  BY DEF AesBlock

\* The block function of a key can be undone, and comes to every block.
LEMMA AesBack ==
  ASSUME NEW k \in 0..1, NEW b \in AesBlock
  PROVE  /\ AesEncrypt(k, b) \in AesBlock /\ AesDecrypt(k, AesEncrypt(k, b)) = b
         /\ AesDecrypt(k, b) \in AesBlock
<1> DEFINE E(x) == AesEncrypt(k, x)
<1>1. ASSUME NEW x \in AesBlock PROVE E(x) = <<(x[2] + k) % 4, (x[1] + x[2] + 1) % 4>> /\ E(x) \in AesBlock
  <2>1. x[1] \in 0..3 /\ x[2] \in 0..3
    BY AesBlockHas DEF AesByte
  <2>2. (x[2] + k) % 4 \in 0..3 /\ (x[1] + x[2] + 1) % 4 \in 0..3
    BY <2>1
  <2> QED
    BY <2>2 DEF AesEncrypt, AesBlock, AesByte
<1>2. ASSUME NEW x \in AesBlock, NEW y \in AesBlock, E(x) = E(y) PROVE x = y
  <2>1. x = <<x[1], x[2]>> /\ x[1] \in 0..3 /\ x[2] \in 0..3 /\ y = <<y[1], y[2]>> /\ y[1] \in 0..3 /\ y[2] \in 0..3
    BY AesBlockHas DEF AesByte
  <2>2. (x[2] + k) % 4 = (y[2] + k) % 4 /\ (x[1] + x[2] + 1) % 4 = (y[1] + y[2] + 1) % 4
    BY <1>1, <1>2
  <2>3. x[2] = y[2]
    BY <2>1, <2>2
  <2>4. x[1] = y[1]
    BY <2>1, <2>2, <2>3
  <2> QED
    BY <2>1, <2>3, <2>4
<1>3. \E x \in AesBlock : E(x) = b
  <2> DEFINE u == (b[1] + 4 - k) % 4
             v == (b[2] + 7 - u) % 4
             x == <<v, u>>
  <2>1. b = <<b[1], b[2]>> /\ b[1] \in 0..3 /\ b[2] \in 0..3
    BY AesBlockHas DEF AesByte
  <2>2. u \in 0..3 /\ (u + k) % 4 = b[1]
    BY <2>1
  <2> HIDE DEF u
  <2>3. v \in 0..3 /\ (v + u + 1) % 4 = b[2]
    BY <2>1, <2>2
  <2> HIDE DEF v
  <2>4. x \in AesBlock /\ x[1] = v /\ x[2] = u
    BY <2>2, <2>3 DEF AesBlock, AesByte
  <2> HIDE DEF x
  <2>5. E(x) = b
    BY <1>1, <2>1, <2>2, <2>3, <2>4
  <2> QED
    BY <2>4, <2>5
<1> HIDE DEF E
<1>4. AesDecrypt(k, E(b)) = b
  <2>1. AesDecrypt(k, E(b)) = CHOOSE x \in AesBlock : E(x) = E(b)
    BY DEF AesDecrypt, AesBlock, E
  <2> QED
    BY <2>1, <1>2
<1>5. AesDecrypt(k, b) \in AesBlock
  <2>1. AesDecrypt(k, b) = CHOOSE x \in AesBlock : E(x) = b
    BY DEF AesDecrypt, AesBlock, E
  <2> QED
    BY <2>1, <1>3
<1> QED
  BY <1>1, <1>4, <1>5 DEF E

\* The chain is taken off again.
LEMMA AesMix ==
  ASSUME NEW a \in AesBlock, NEW b \in AesBlock
  PROVE  XorAes(a, b) \in AesBlock /\ SubAes(a, b) \in AesBlock /\ SubAes(XorAes(a, b), b) = a
<1>1. a = <<a[1], a[2]>> /\ a[1] \in 0..3 /\ a[2] \in 0..3 /\ b[1] \in 0..3 /\ b[2] \in 0..3
  BY AesBlockHas DEF AesByte
<1> DEFINE x == (a[1] + b[1]) % 4
           y == (a[2] + b[2]) % 4
<1>2. x \in 0..3 /\ y \in 0..3 /\ (x + 4 - b[1]) % 4 = a[1] /\ (y + 4 - b[2]) % 4 = a[2]
  BY <1>1
<1>3. (a[1] + 4 - b[1]) % 4 \in 0..3 /\ (a[2] + 4 - b[2]) % 4 \in 0..3
  BY <1>1
<1>4. XorAes(a, b) = <<x, y>> /\ SubAes(a, b) = <<(a[1] + 4 - b[1]) % 4, (a[2] + 4 - b[2]) % 4>>
  BY DEF XorAes, SubAes
<1> HIDE DEF x, y
<1>5. SubAes(<<x, y>>, b) = <<(x + 4 - b[1]) % 4, (y + 4 - b[2]) % 4>>
  BY DEF SubAes
<1>6. XorAes(a, b) \in AesBlock /\ SubAes(a, b) \in AesBlock
  BY <1>2, <1>3, <1>4 DEF AesBlock, AesByte
<1>7. SubAes(<<x, y>>, b) = a
  BY <1>1, <1>2, <1>5
<1> QED
  BY <1>4, <1>6, <1>7

\* The pair of bytes at place i.
PairAt(s, i) == <<s[2 * i - 1], s[2 * i]>>

\* The pairs of a text of whole blocks.
LEMMA PairsAre ==
  ASSUME NEW s \in Seq(AesByte), NEW n \in Nat, Len(s) = 2 * n
  PROVE  Pairs(s) \in Seq(AesBlock) /\ Len(Pairs(s)) = n /\ \A i \in 1..n : Pairs(s)[i] = PairAt(s, i)
<1> DEFINE B == Pairs(s)
<1>1. Len(s) \div 2 = n
  OBVIOUS
<1>2. B = [i \in 1..n |-> PairAt(s, i)]
  BY <1>1 DEF Pairs, PairAt
<1>3. ASSUME NEW i \in 1..n PROVE PairAt(s, i) \in AesBlock
  <2>1. 2 * i - 1 \in 1..Len(s) /\ 2 * i \in 1..Len(s)
    OBVIOUS
  <2>2. s[2 * i - 1] \in AesByte /\ s[2 * i] \in AesByte
    BY <2>1, ElementOfSeq
  <2> QED
    BY <2>2 DEF PairAt, AesBlock
<1>4. B \in [1..n -> AesBlock]
  BY <1>2, <1>3
<1>5. B \in Seq(AesBlock) /\ Len(B) = n
  BY <1>4
<1> QED
  BY <1>2, <1>5

\* The state of the chaining, what it makes of a block, and a step.
AesState == [out : Seq(AesByte), chain : AesBlock]
CbcIn(k, chain, b) == AesEncrypt(k, XorAes(b, chain))
CbcOut(k, chain, c) == SubAes(AesDecrypt(k, c), chain)
CbcEnc(k, st, b) == LET c == AesEncrypt(k, XorAes(b, st.chain)) IN [out |-> st.out \o c, chain |-> c]
CbcDec(k, st, c) == [out |-> st.out \o SubAes(AesDecrypt(k, c), st.chain), chain |-> c]

\* A block is two bytes.
LEMMA AesBytes ==
  ASSUME NEW c \in AesBlock
  PROVE  c \in Seq(AesByte) /\ Len(c) = 2
<1>1. c = <<c[1], c[2]>> /\ c[1] \in AesByte /\ c[2] \in AesByte
  BY AesBlockHas
<1>2. \A x, y \in AesByte : <<x, y>> \in Seq(AesByte) /\ Len(<<x, y>>) = 2
  OBVIOUS
<1> QED
  BY <1>1, <1>2

\* The blocks of the chaining, and that each decrypts what the other encrypts.
LEMMA CbcBlocks ==
  ASSUME NEW k \in 0..1, NEW chain \in AesBlock, NEW b \in AesBlock
  PROVE  /\ CbcIn(k, chain, b) \in AesBlock /\ CbcOut(k, chain, b) \in AesBlock
         /\ CbcOut(k, chain, CbcIn(k, chain, b)) = b
<1> DEFINE x == XorAes(b, chain)
<1>1. x \in AesBlock /\ SubAes(x, chain) = b
  BY AesMix
<1> HIDE DEF x
<1>2. AesEncrypt(k, x) \in AesBlock /\ AesDecrypt(k, AesEncrypt(k, x)) = x
  BY <1>1, AesBack
<1>3. AesDecrypt(k, b) \in AesBlock
  BY AesBack
<1>4. SubAes(AesDecrypt(k, b), chain) \in AesBlock
  BY <1>3, AesMix
<1> QED
  BY <1>1, <1>2, <1>4 DEF CbcIn, CbcOut, x

\* A step of the chaining.
LEMMA CbcEncIs ==
  ASSUME NEW k \in 0..1, NEW st \in AesState, NEW b \in AesBlock
  PROVE  /\ CbcEnc(k, st, b) \in AesState
         /\ CbcEnc(k, st, b).out = st.out \o CbcIn(k, st.chain, b)
         /\ CbcEnc(k, st, b).chain = CbcIn(k, st.chain, b)
<1>1. st.out \in Seq(AesByte) /\ st.chain \in AesBlock
  BY DEF AesState
<1> DEFINE c == CbcIn(k, st.chain, b)
<1>2. c \in AesBlock
  BY <1>1, CbcBlocks
<1>3. c \in Seq(AesByte)
  BY <1>2, AesBytes
<1>4. CbcEnc(k, st, b) = [out |-> st.out \o c, chain |-> CbcIn(k, st.chain, b)]
  BY DEF CbcEnc, CbcIn
<1> HIDE DEF c
<1>5. st.out \o c \in Seq(AesByte)
  BY <1>1, <1>3, ConcatProperties
<1>6. CbcIn(k, st.chain, b) \in AesBlock
  BY <1>1, CbcBlocks
<1> QED
  BY <1>4, <1>5, <1>6 DEF AesState, c

\* r is what the encrypted text s became, block by block, with the chains ch.
EncChain(r, ch, k, iv, s, n) ==
  /\ r.out \in Seq(AesByte) /\ Len(r.out) = 2 * n /\ r.chain = ch[n]
  /\ ch \in [0..n -> AesBlock] /\ ch[0] = iv
  /\ \A i \in 1..n : /\ PairAt(r.out, i) = CbcIn(k, ch[i - 1], PairAt(s, i))
                     /\ ch[i] = CbcIn(k, ch[i - 1], PairAt(s, i))

\* Every block is one step.
LEMMA EncRuns ==
  ASSUME NEW k \in 0..1, NEW iv \in AesBlock, NEW s \in Seq(AesByte), NEW n \in Nat, Len(s) = 2 * n
  PROVE  \E ch : EncChain(CbcEncrypt(k, iv, s), ch, k, iv, s, n)
<1> DEFINE B == Pairs(s)
           s0 == [out |-> <<>>, chain |-> iv]
           F == [i \in 1..n |-> [a \in AesState |-> CbcEnc(k, a, B[i])]]
           Eq(f) == f = [t \in SUBSET (DOMAIN B) |-> IF t = {} THEN s0 ELSE CbcEnc(k, f[t \ {Max(t)}], B[Max(t)])]
           it == CHOOSE f : Eq(f)
           r == CbcEncrypt(k, iv, s)
<1>1. B \in Seq(AesBlock) /\ Len(B) = n /\ \A i \in 1..n : B[i] = PairAt(s, i)
  BY PairsAre
<1>2. n \in Nat /\ \A i \in 1..n : B[i] \in AesBlock
  <2> HIDE DEF B
  <2> QED
    BY <1>1
<1>3. s0 \in AesState
  BY EmptySeq DEF AesState
<1>4. F \in [1..n -> [AesState -> AesState]]
  <2> HIDE DEF B
  <2> QED
    BY <1>2, CbcEncIs
<1>5. r = it[DOMAIN B]
  BY DEF CbcEncrypt, CbcEnc, FoldLeft, MapThenFoldSet
<1>6. DOMAIN B = 1..n
  <2> HIDE DEF B
  <2> QED
    BY <1>1
<1>7. \A i \in 1..n, a \in AesState : F[i][a] = CbcEnc(k, a, B[i])
  OBVIOUS
<1>8. s0.out = <<>> /\ s0.chain = iv
  OBVIOUS
<1> HIDE DEF B, s0, F, r
<1>9. \E f : Eq(f)
  <2>1. PICK f : Folds(f, n, AesState, s0, F)
    BY <1>2, <1>3, <1>4, FoldsExist
  <2>2. /\ f \in [SUBSET (1..n) -> AesState]
        /\ \A t \in SUBSET (1..n) : f[t] = IF t = {} THEN s0 ELSE F[Max(t)][f[t \ {Max(t)}]]
    BY <2>1 DEF Folds
  <2>3. ASSUME NEW t \in SUBSET (1..n)
        PROVE  f[t] = IF t = {} THEN s0 ELSE CbcEnc(k, f[t \ {Max(t)}], B[Max(t)])
    <3>1. CASE t # {}
      <4>1. Max(t) \in 1..n
        BY <3>1, <1>2, <1>3, <1>4, GreatestIn
      <4>2. f[t \ {Max(t)}] \in AesState
        BY <2>2
      <4> QED
        BY <3>1, <4>1, <4>2, <2>2, <1>6, <1>7
    <3> QED
      BY <3>1, <2>2
  <2>4. Eq(f)
    BY <2>2, <2>3, <1>6, <1>7
  <2> QED
    BY <2>4
<1>10. Eq(it)
  BY <1>9
<1> HIDE DEF it
<1>11. it[{}] = s0
  BY <1>10
<1>12. ASSUME NEW i \in 1..n, it[1..(i - 1)] \in AesState PROVE it[1..i] = F[i][it[1..(i - 1)]]
  <2>1. 1..i \in SUBSET (1..n) /\ 1..i # {} /\ Max(1..i) = i /\ (1..i) \ {i} = 1..(i - 1)
    BY <1>2, <1>3, <1>4, FoldAlong
  <2>2. it[1..i] = CbcEnc(k, it[(1..i) \ {Max(1..i)}], B[Max(1..i)])
    BY <1>10, <1>6, <1>7, <2>1
  <2>3. B[Max(1..i)] = B[i] /\ (1..i) \ {Max(1..i)} = 1..(i - 1)
    BY <2>1, <1>6, <1>7
  <2> DEFINE z == it[1..(i - 1)]
  <2>4. it[1..i] = CbcEnc(k, z, B[i])
    BY <2>2, <2>3
  <2>5. z \in AesState
    BY <1>12
  <2> HIDE DEF z
  <2>6. F[i][z] = CbcEnc(k, z, B[i])
    BY <2>5, <1>6, <1>7
  <2>7. it[1..i] = F[i][z]
    BY <2>4, <2>6
  <2> QED
    BY <2>7 DEF z
<1>13. EndsRun(it[1..n], n, AesState, s0, F)
  <2>1. Follows(it, n, AesState, s0, F)
    BY <1>11, <1>12 DEF Follows
  <2> QED
    BY <2>1, <1>2, <1>3, <1>4, FoldRuns
<1>14. PICK g : Runs(g, n, AesState, s0, F) /\ it[1..n] = g[n]
  BY <1>13 DEF EndsRun
<1>15. g \in [0..n -> AesState] /\ g[0] = s0 /\ \A i \in 1..n : g[i] = F[i][g[i - 1]]
  BY <1>14 DEF Runs
<1>16. \A i \in 0..n : g[i].out \in Seq(AesByte) /\ g[i].chain \in AesBlock
  BY <1>15 DEF AesState
<1> DEFINE W(i) == CbcIn(k, g[i - 1].chain, PairAt(s, i))
           C(i) == W(i)
<1>17. ASSUME NEW i \in 1..n PROVE W(i) \in AesBlock /\ g[i].out = g[i - 1].out \o W(i) /\ g[i].chain = C(i)
  <2> DEFINE a == g[i - 1]
             w == B[i]
             z == CbcEnc(k, a, w)
  <2>1. i - 1 \in 0..n /\ w \in AesBlock /\ w = PairAt(s, i)
    BY <1>1, <1>2
  <2>2. a \in AesState /\ a.chain \in AesBlock
    BY <2>1, <1>15, <1>16
  <2>3. g[i] = z
    BY <2>2, <1>15, <1>7
  <2> HIDE DEF a, w, z
  <2>4. CbcIn(k, a.chain, w) \in AesBlock
    BY <2>1, <2>2, CbcBlocks
  <2>5. z.out = a.out \o CbcIn(k, a.chain, w) /\ z.chain = CbcIn(k, a.chain, w)
    BY <2>1, <2>2, CbcEncIs DEF z
  <2> QED
    BY <2>1, <2>3, <2>4, <2>5 DEF a
<1> HIDE DEF W, C
<1> DEFINE T == {m \in 0..n : Len(g[m].out) = 2 * m /\ \A j \in 1..m : PairAt(g[m].out, j) = W(j)}
<1>18. 0 \in T
  <2>1. g[0].out = <<>>
    BY <1>15, <1>8
  <2>2. Len(<<>>) = 0
    OBVIOUS
  <2> QED
    BY <2>1, <2>2, <1>2
<1>19. ASSUME NEW m \in 1..n, m - 1 \in T PROVE m \in T
  <2> DEFINE o == g[m - 1].out
             w == W(m)
             z == o \o w
             l == 2 * (m - 1)
  <2>1. m - 1 \in 0..n /\ m \in 0..n /\ Len(o) = l /\ \A j \in 1..(m - 1) : PairAt(o, j) = W(j)
    BY <1>19
  <2>2. o \in Seq(AesByte) /\ g[m].out = z /\ w \in AesBlock
    BY <2>1, <1>16, <1>17
  <2>3. w \in Seq(AesByte) /\ Len(w) = 2 /\ w = <<w[1], w[2]>>
    BY <2>2, AesBytes, AesBlockHas
  <2>4. l \in Nat /\ l + 2 = 2 * m
    BY <1>2
  <2> HIDE DEF o, w, l
  <2>5. Len(z) = l + 2 /\ \A i \in 1..(l + 2) : z[i] = IF i <= l THEN o[i] ELSE w[i - l]
    BY <2>1, <2>2, <2>3, ConcatProperties
  <2> HIDE DEF z
  <2>6. ASSUME NEW j \in 1..m PROVE PairAt(z, j) = W(j)
    <3>1. CASE j = m
      <4>1. 2 * j - 1 = l + 1 /\ 2 * j = l + 2 /\ (l + 1) - l = 1 /\ (l + 2) - l = 2 /\ ~(l + 1 <= l) /\ ~(l + 2 <= l)
            /\ l + 1 \in 1..(l + 2) /\ l + 2 \in 1..(l + 2)
        BY <3>1, <2>4
      <4>2. z[l + 1] = w[1] /\ z[l + 2] = w[2]
        BY <4>1, <2>5
      <4> QED
        BY <3>1, <4>1, <4>2, <2>3 DEF PairAt, w
    <3>2. CASE j # m
      <4>1. j \in 1..(m - 1) /\ 2 * j - 1 <= l /\ 2 * j <= l /\ 2 * j - 1 \in 1..(l + 2) /\ 2 * j \in 1..(l + 2)
        BY <3>2, <2>4
      <4>2. z[2 * j - 1] = o[2 * j - 1] /\ z[2 * j] = o[2 * j]
        BY <4>1, <2>5
      <4>3. PairAt(z, j) = PairAt(o, j)
        BY <4>2 DEF PairAt
      <4> QED
        BY <4>1, <4>3, <2>1
    <3> QED
      BY <3>1, <3>2
  <2>7. Len(g[m].out) = 2 * m
    BY <2>2, <2>4, <2>5
  <2> QED
    BY <2>1, <2>2, <2>6, <2>7
<1>20. n \in T
  <2> HIDE DEF T
  <2>1. 0..n \subseteq T
    BY <1>2, <1>18, <1>19, UpTo
  <2> QED
    BY <2>1, <1>2
<1>21. r = g[n]
  BY <1>5, <1>6, <1>14
<1>22. r.out \in Seq(AesByte) /\ Len(r.out) = 2 * n /\ \A j \in 1..n : PairAt(r.out, j) = W(j)
  BY <1>20, <1>21, <1>16, <1>2
<1> DEFINE ch == [i \in 0..n |-> g[i].chain]
<1>23. ch \in [0..n -> AesBlock] /\ ch[0] = iv /\ ch[n] = r.chain
  BY <1>16, <1>15, <1>8, <1>2, <1>21
<1>24. ASSUME NEW i \in 1..n
       PROVE  PairAt(r.out, i) = CbcIn(k, ch[i - 1], PairAt(s, i)) /\ ch[i] = CbcIn(k, ch[i - 1], PairAt(s, i))
  <2>1. i - 1 \in 0..n /\ i \in 0..n
    BY <1>2
  <2>2. ch[i - 1] = g[i - 1].chain /\ ch[i] = g[i].chain
    BY <2>1
  <2> HIDE DEF ch
  <2>3. PairAt(r.out, i) = W(i) /\ g[i].chain = C(i)
    BY <1>17, <1>22
  <2> QED
    BY <2>2, <2>3 DEF W, C
<1> HIDE DEF ch
<1>25. EncChain(r, ch, k, iv, s, n)
  BY <1>22, <1>23, <1>24 DEF EncChain
<1> QED
  BY <1>25 DEF r

\* A step of the chaining.
LEMMA CbcDecIs ==
  ASSUME NEW k \in 0..1, NEW st \in AesState, NEW b \in AesBlock
  PROVE  /\ CbcDec(k, st, b) \in AesState
         /\ CbcDec(k, st, b).out = st.out \o CbcOut(k, st.chain, b)
         /\ CbcDec(k, st, b).chain = b
<1>1. st.out \in Seq(AesByte) /\ st.chain \in AesBlock
  BY DEF AesState
<1> DEFINE c == CbcOut(k, st.chain, b)
<1>2. c \in AesBlock
  BY <1>1, CbcBlocks
<1>3. c \in Seq(AesByte)
  BY <1>2, AesBytes
<1>4. CbcDec(k, st, b) = [out |-> st.out \o c, chain |-> b]
  BY DEF CbcDec, CbcOut
<1> HIDE DEF c
<1>5. st.out \o c \in Seq(AesByte)
  BY <1>1, <1>3, ConcatProperties
<1>6. b \in AesBlock
  BY <1>1, CbcBlocks
<1> QED
  BY <1>4, <1>5, <1>6 DEF AesState, c

\* r is what the decrypted text s became, block by block, with the chains ch.
DecChain(r, ch, k, iv, s, n) ==
  /\ r.out \in Seq(AesByte) /\ Len(r.out) = 2 * n /\ r.chain = ch[n]
  /\ ch \in [0..n -> AesBlock] /\ ch[0] = iv
  /\ \A i \in 1..n : /\ PairAt(r.out, i) = CbcOut(k, ch[i - 1], PairAt(s, i))
                     /\ ch[i] = PairAt(s, i)

\* Every block is one step.
LEMMA DecRuns ==
  ASSUME NEW k \in 0..1, NEW iv \in AesBlock, NEW s \in Seq(AesByte), NEW n \in Nat, Len(s) = 2 * n
  PROVE  \E ch : DecChain(CbcDecrypt(k, iv, s), ch, k, iv, s, n)
<1> DEFINE B == Pairs(s)
           s0 == [out |-> <<>>, chain |-> iv]
           F == [i \in 1..n |-> [a \in AesState |-> CbcDec(k, a, B[i])]]
           Eq(f) == f = [t \in SUBSET (DOMAIN B) |-> IF t = {} THEN s0 ELSE CbcDec(k, f[t \ {Max(t)}], B[Max(t)])]
           it == CHOOSE f : Eq(f)
           r == CbcDecrypt(k, iv, s)
<1>1. B \in Seq(AesBlock) /\ Len(B) = n /\ \A i \in 1..n : B[i] = PairAt(s, i)
  BY PairsAre
<1>2. n \in Nat /\ \A i \in 1..n : B[i] \in AesBlock
  <2> HIDE DEF B
  <2> QED
    BY <1>1
<1>3. s0 \in AesState
  BY EmptySeq DEF AesState
<1>4. F \in [1..n -> [AesState -> AesState]]
  <2> HIDE DEF B
  <2> QED
    BY <1>2, CbcDecIs
<1>5. r = it[DOMAIN B]
  BY DEF CbcDecrypt, CbcDec, FoldLeft, MapThenFoldSet
<1>6. DOMAIN B = 1..n
  <2> HIDE DEF B
  <2> QED
    BY <1>1
<1>7. \A i \in 1..n, a \in AesState : F[i][a] = CbcDec(k, a, B[i])
  OBVIOUS
<1>8. s0.out = <<>> /\ s0.chain = iv
  OBVIOUS
<1> HIDE DEF B, s0, F, r
<1>9. \E f : Eq(f)
  <2>1. PICK f : Folds(f, n, AesState, s0, F)
    BY <1>2, <1>3, <1>4, FoldsExist
  <2>2. /\ f \in [SUBSET (1..n) -> AesState]
        /\ \A t \in SUBSET (1..n) : f[t] = IF t = {} THEN s0 ELSE F[Max(t)][f[t \ {Max(t)}]]
    BY <2>1 DEF Folds
  <2>3. ASSUME NEW t \in SUBSET (1..n)
        PROVE  f[t] = IF t = {} THEN s0 ELSE CbcDec(k, f[t \ {Max(t)}], B[Max(t)])
    <3>1. CASE t # {}
      <4>1. Max(t) \in 1..n
        BY <3>1, <1>2, <1>3, <1>4, GreatestIn
      <4>2. f[t \ {Max(t)}] \in AesState
        BY <2>2
      <4> QED
        BY <3>1, <4>1, <4>2, <2>2, <1>6, <1>7
    <3> QED
      BY <3>1, <2>2
  <2>4. Eq(f)
    BY <2>2, <2>3, <1>6, <1>7
  <2> QED
    BY <2>4
<1>10. Eq(it)
  BY <1>9
<1> HIDE DEF it
<1>11. it[{}] = s0
  BY <1>10
<1>12. ASSUME NEW i \in 1..n, it[1..(i - 1)] \in AesState PROVE it[1..i] = F[i][it[1..(i - 1)]]
  <2>1. 1..i \in SUBSET (1..n) /\ 1..i # {} /\ Max(1..i) = i /\ (1..i) \ {i} = 1..(i - 1)
    BY <1>2, <1>3, <1>4, FoldAlong
  <2>2. it[1..i] = CbcDec(k, it[(1..i) \ {Max(1..i)}], B[Max(1..i)])
    BY <1>10, <1>6, <1>7, <2>1
  <2>3. B[Max(1..i)] = B[i] /\ (1..i) \ {Max(1..i)} = 1..(i - 1)
    BY <2>1, <1>6, <1>7
  <2> DEFINE z == it[1..(i - 1)]
  <2>4. it[1..i] = CbcDec(k, z, B[i])
    BY <2>2, <2>3
  <2>5. z \in AesState
    BY <1>12
  <2> HIDE DEF z
  <2>6. F[i][z] = CbcDec(k, z, B[i])
    BY <2>5, <1>6, <1>7
  <2>7. it[1..i] = F[i][z]
    BY <2>4, <2>6
  <2> QED
    BY <2>7 DEF z
<1>13. EndsRun(it[1..n], n, AesState, s0, F)
  <2>1. Follows(it, n, AesState, s0, F)
    BY <1>11, <1>12 DEF Follows
  <2> QED
    BY <2>1, <1>2, <1>3, <1>4, FoldRuns
<1>14. PICK g : Runs(g, n, AesState, s0, F) /\ it[1..n] = g[n]
  BY <1>13 DEF EndsRun
<1>15. g \in [0..n -> AesState] /\ g[0] = s0 /\ \A i \in 1..n : g[i] = F[i][g[i - 1]]
  BY <1>14 DEF Runs
<1>16. \A i \in 0..n : g[i].out \in Seq(AesByte) /\ g[i].chain \in AesBlock
  BY <1>15 DEF AesState
<1> DEFINE W(i) == CbcOut(k, g[i - 1].chain, PairAt(s, i))
           C(i) == PairAt(s, i)
<1>17. ASSUME NEW i \in 1..n PROVE W(i) \in AesBlock /\ g[i].out = g[i - 1].out \o W(i) /\ g[i].chain = C(i)
  <2> DEFINE a == g[i - 1]
             w == B[i]
             z == CbcDec(k, a, w)
  <2>1. i - 1 \in 0..n /\ w \in AesBlock /\ w = PairAt(s, i)
    BY <1>1, <1>2
  <2>2. a \in AesState /\ a.chain \in AesBlock
    BY <2>1, <1>15, <1>16
  <2>3. g[i] = z
    BY <2>2, <1>15, <1>7
  <2> HIDE DEF a, w, z
  <2>4. CbcOut(k, a.chain, w) \in AesBlock
    BY <2>1, <2>2, CbcBlocks
  <2>5. z.out = a.out \o CbcOut(k, a.chain, w) /\ z.chain = w
    BY <2>1, <2>2, CbcDecIs DEF z
  <2> QED
    BY <2>1, <2>3, <2>4, <2>5 DEF a
<1> HIDE DEF W, C
<1> DEFINE T == {m \in 0..n : Len(g[m].out) = 2 * m /\ \A j \in 1..m : PairAt(g[m].out, j) = W(j)}
<1>18. 0 \in T
  <2>1. g[0].out = <<>>
    BY <1>15, <1>8
  <2>2. Len(<<>>) = 0
    OBVIOUS
  <2> QED
    BY <2>1, <2>2, <1>2
<1>19. ASSUME NEW m \in 1..n, m - 1 \in T PROVE m \in T
  <2> DEFINE o == g[m - 1].out
             w == W(m)
             z == o \o w
             l == 2 * (m - 1)
  <2>1. m - 1 \in 0..n /\ m \in 0..n /\ Len(o) = l /\ \A j \in 1..(m - 1) : PairAt(o, j) = W(j)
    BY <1>19
  <2>2. o \in Seq(AesByte) /\ g[m].out = z /\ w \in AesBlock
    BY <2>1, <1>16, <1>17
  <2>3. w \in Seq(AesByte) /\ Len(w) = 2 /\ w = <<w[1], w[2]>>
    BY <2>2, AesBytes, AesBlockHas
  <2>4. l \in Nat /\ l + 2 = 2 * m
    BY <1>2
  <2> HIDE DEF o, w, l
  <2>5. Len(z) = l + 2 /\ \A i \in 1..(l + 2) : z[i] = IF i <= l THEN o[i] ELSE w[i - l]
    BY <2>1, <2>2, <2>3, ConcatProperties
  <2> HIDE DEF z
  <2>6. ASSUME NEW j \in 1..m PROVE PairAt(z, j) = W(j)
    <3>1. CASE j = m
      <4>1. 2 * j - 1 = l + 1 /\ 2 * j = l + 2 /\ (l + 1) - l = 1 /\ (l + 2) - l = 2 /\ ~(l + 1 <= l) /\ ~(l + 2 <= l)
            /\ l + 1 \in 1..(l + 2) /\ l + 2 \in 1..(l + 2)
        BY <3>1, <2>4
      <4>2. z[l + 1] = w[1] /\ z[l + 2] = w[2]
        BY <4>1, <2>5
      <4> QED
        BY <3>1, <4>1, <4>2, <2>3 DEF PairAt, w
    <3>2. CASE j # m
      <4>1. j \in 1..(m - 1) /\ 2 * j - 1 <= l /\ 2 * j <= l /\ 2 * j - 1 \in 1..(l + 2) /\ 2 * j \in 1..(l + 2)
        BY <3>2, <2>4
      <4>2. z[2 * j - 1] = o[2 * j - 1] /\ z[2 * j] = o[2 * j]
        BY <4>1, <2>5
      <4>3. PairAt(z, j) = PairAt(o, j)
        BY <4>2 DEF PairAt
      <4> QED
        BY <4>1, <4>3, <2>1
    <3> QED
      BY <3>1, <3>2
  <2>7. Len(g[m].out) = 2 * m
    BY <2>2, <2>4, <2>5
  <2> QED
    BY <2>1, <2>2, <2>6, <2>7
<1>20. n \in T
  <2> HIDE DEF T
  <2>1. 0..n \subseteq T
    BY <1>2, <1>18, <1>19, UpTo
  <2> QED
    BY <2>1, <1>2
<1>21. r = g[n]
  BY <1>5, <1>6, <1>14
<1>22. r.out \in Seq(AesByte) /\ Len(r.out) = 2 * n /\ \A j \in 1..n : PairAt(r.out, j) = W(j)
  BY <1>20, <1>21, <1>16, <1>2
<1> DEFINE ch == [i \in 0..n |-> g[i].chain]
<1>23. ch \in [0..n -> AesBlock] /\ ch[0] = iv /\ ch[n] = r.chain
  BY <1>16, <1>15, <1>8, <1>2, <1>21
<1>24. ASSUME NEW i \in 1..n
       PROVE  PairAt(r.out, i) = CbcOut(k, ch[i - 1], PairAt(s, i)) /\ ch[i] = PairAt(s, i)
  <2>1. i - 1 \in 0..n /\ i \in 0..n
    BY <1>2
  <2>2. ch[i - 1] = g[i - 1].chain /\ ch[i] = g[i].chain
    BY <2>1
  <2> HIDE DEF ch
  <2>3. PairAt(r.out, i) = W(i) /\ g[i].chain = C(i)
    BY <1>17, <1>22
  <2> QED
    BY <2>2, <2>3 DEF W, C
<1> HIDE DEF ch
<1>25. DecChain(r, ch, k, iv, s, n)
  BY <1>22, <1>23, <1>24 DEF DecChain
<1> QED
  BY <1>25 DEF r

\* The chained blocks decrypt to the text, and to the same chain.
LEMMA CbcBack ==
  ASSUME NEW k \in 0..1, NEW iv \in AesBlock, NEW s \in Seq(AesByte), NEW n \in Nat, Len(s) = 2 * n
  PROVE  LET e == CbcEncrypt(k, iv, s)
         IN  /\ e.out \in Seq(AesByte) /\ Len(e.out) = Len(s) /\ e.chain \in AesBlock
             /\ CbcDecrypt(k, iv, e.out).out = s /\ CbcDecrypt(k, iv, e.out).chain = e.chain
<1> DEFINE e == CbcEncrypt(k, iv, s)
           o == e.out
           d == CbcDecrypt(k, iv, o)
           p == d.out
<1>1. PICK ch : EncChain(e, ch, k, iv, s, n)
  BY EncRuns
<1>2. /\ o \in Seq(AesByte) /\ Len(o) = 2 * n /\ e.chain = ch[n] /\ ch \in [0..n -> AesBlock] /\ ch[0] = iv
      /\ \A i \in 1..n : PairAt(o, i) = CbcIn(k, ch[i - 1], PairAt(s, i)) /\ ch[i] = CbcIn(k, ch[i - 1], PairAt(s, i))
  BY <1>1 DEF EncChain
<1> HIDE DEF e, o
<1>3. PICK dh : DecChain(d, dh, k, iv, o, n)
  BY <1>2, DecRuns
<1>4. /\ p \in Seq(AesByte) /\ Len(p) = 2 * n /\ d.chain = dh[n] /\ dh \in [0..n -> AesBlock] /\ dh[0] = iv
      /\ \A i \in 1..n : PairAt(p, i) = CbcOut(k, dh[i - 1], PairAt(o, i)) /\ dh[i] = PairAt(o, i)
  BY <1>3 DEF DecChain
<1> HIDE DEF d, p
<1>5. ASSUME NEW i \in 0..n PROVE dh[i] = ch[i]
  <2>1. CASE i = 0
    BY <2>1, <1>2, <1>4
  <2>2. CASE i # 0
    <3>1. i \in 1..n
      BY <2>2
    <3> QED
      BY <3>1, <1>2, <1>4
  <2> QED
    BY <2>1, <2>2
<1>6. ASSUME NEW i \in 1..n PROVE p[2 * i - 1] = s[2 * i - 1] /\ p[2 * i] = s[2 * i]
  <2>1. i - 1 \in 0..n
    OBVIOUS
  <2>2. dh[i - 1] = ch[i - 1] /\ ch[i - 1] \in AesBlock
    BY <2>1, <1>2, <1>5
  <2>3. PairAt(s, i) \in AesBlock
    <3>1. 2 * i - 1 \in 1..Len(s) /\ 2 * i \in 1..Len(s)
      OBVIOUS
    <3>2. s[2 * i - 1] \in AesByte /\ s[2 * i] \in AesByte
      BY <3>1, ElementOfSeq
    <3> QED
      BY <3>2 DEF PairAt, AesBlock
  <2>4. CbcOut(k, ch[i - 1], CbcIn(k, ch[i - 1], PairAt(s, i))) = PairAt(s, i)
    BY <2>2, <2>3, CbcBlocks
  <2>5. PairAt(p, i) = PairAt(s, i)
    BY <2>2, <2>4, <1>2, <1>4
  <2> QED
    BY <2>5 DEF PairAt
<1>7. ASSUME NEW q \in 1..(2 * n) PROVE p[q] = s[q]
  <2>1. PICK i \in 1..n, j \in 1..2 : q = 2 * (i - 1) + j
    <3>1. 2 \in Nat \ {0}
      OBVIOUS
    <3> QED
      BY <3>1, InBlock
  <2>2. q = 2 * i - 1 \/ q = 2 * i
    BY <2>1
  <2> QED
    BY <2>2, <1>6
<1>8. p = s
  BY <1>4, <1>7, SeqEqual
<1>9. d.chain = e.chain /\ e.chain \in AesBlock
  <2>1. n \in 0..n
    OBVIOUS
  <2> QED
    BY <2>1, <1>2, <1>4, <1>5
<1> QED
  BY <1>2, <1>8, <1>9 DEF e, o, d, p

\* A text is padded to whole blocks.
LEMMA PaddedIs ==
  ASSUME NEW s \in Seq(AesByte)
  PROVE  LET p == Padded(s)
             n == Len(p)
         IN  /\ p \in Seq(AesByte) /\ n \in Nat /\ n # 0 /\ n % 2 = 0
             /\ IF p[n] = 1 THEN SubSeq(p, 1, n - 1) = s
                ELSE p[n] = 2 /\ p[n - 1] = 2 /\ SubSeq(p, 1, n - 2) = s
<1> DEFINE a == Len(s)
           t == IF a % 2 = 1 THEN <<1>> ELSE <<2, 2>>
           p == s \o t
           n == Len(p)
<1>1. a \in Nat
  OBVIOUS
<1>2. Padded(s) = p
  BY DEF Padded
<1>3. <<1>> \in Seq(AesByte) /\ Len(<<1>>) = 1 /\ <<2, 2>> \in Seq(AesByte) /\ Len(<<2, 2>>) = 2
  BY DEF AesByte
<1>4. t \in Seq(AesByte)
  BY <1>3
<1>5. /\ p \in Seq(AesByte) /\ n = a + Len(t) /\ SubSeq(p, 1, a) = s
      /\ \A i \in 1..(a + Len(t)) : p[i] = IF i <= a THEN s[i] ELSE t[i - a]
  <2> HIDE DEF t
  <2>1. p \in Seq(AesByte) /\ Len(p) = Len(s) + Len(t) /\ SubSeq(p, 1, Len(s)) = s
    BY <1>4, Joined
  <2>2. \A i \in 1..(Len(s) + Len(t)) : p[i] = IF i <= Len(s) THEN s[i] ELSE t[i - Len(s)]
    BY <1>4, ConcatProperties
  <2> QED
    BY <2>1, <2>2
<1> HIDE DEF p, n, a
<1>6. CASE a % 2 = 1
  <2>1. t = <<1>> /\ Len(t) = 1 /\ t[1] = 1
    BY <1>6, <1>3
  <2> HIDE DEF t
  <2>2. n = a + 1 /\ n - 1 = a /\ n % 2 = 0 /\ n \in Nat /\ n # 0
    BY <2>1, <1>1, <1>5, <1>6
  <2>3. p[n] = 1
    <3>1. a + 1 \in 1..(a + 1) /\ ~(a + 1 <= a) /\ (a + 1) - a = 1
      BY <1>1
    <3>2. p[a + 1] = t[1]
      BY <3>1, <1>5, <2>1
    <3> QED
      BY <3>2, <2>1, <2>2
  <2>4. SubSeq(p, 1, n - 1) = s
    BY <2>2, <1>5
  <2> QED
    BY <1>2, <1>5, <2>2, <2>3, <2>4 DEF n
<1>7. CASE a % 2 # 1
  <2>1. t = <<2, 2>> /\ Len(t) = 2 /\ t[1] = 2 /\ t[2] = 2
    BY <1>7, <1>3
  <2> HIDE DEF t
  <2>2. n = a + 2 /\ n - 1 = a + 1 /\ n - 2 = a /\ n % 2 = 0 /\ n \in Nat /\ n # 0
    BY <2>1, <1>1, <1>5, <1>7
  <2>3. p[n] = 2 /\ p[n - 1] = 2
    <3>1. a + 1 \in 1..(a + 2) /\ ~(a + 1 <= a) /\ (a + 1) - a = 1 /\ a + 2 \in 1..(a + 2) /\ ~(a + 2 <= a) /\ (a + 2) - a = 2
      BY <1>1
    <3>2. p[a + 1] = t[1] /\ p[a + 2] = t[2]
      BY <3>1, <1>5, <2>1
    <3> QED
      BY <3>2, <2>1, <2>2
  <2>4. SubSeq(p, 1, n - 2) = s
    BY <2>2, <1>5
  <2> QED
    BY <1>2, <1>5, <2>2, <2>3, <2>4 DEF n
<1> QED
  BY <1>6, <1>7

\* A key of AES: the key and the vector are halves of a hash.
IsAesKey(h) == h.k \in 0..1 /\ h.iv \in AesBlock

\* A text of whole blocks.
LEMMA Halves ==
  ASSUME NEW n \in Nat, n % 2 = 0
  PROVE  \E m \in Nat : n = 2 * m
<1>1. n \div 2 \in Nat /\ n = 2 * (n \div 2)
  OBVIOUS
<1> QED
  BY <1>1

\* What aes_encrypt gives aes_decrypt takes back.
LEMMA TextBack ==
  ASSUME NEW h, IsAesKey(h), NEW s \in Seq(AesByte)
  PROVE  /\ aes_encrypt(h, s) \in Seq(AesByte) /\ aes_decrypt(h, aes_encrypt(h, s)) = Ok(s)
<1> DEFINE p == Padded(s)
           n == Len(p)
           e == CbcEncrypt(h.k, h.iv, p)
           c == e.out
           d == CbcDecrypt(h.k, h.iv, c)
<1>1. /\ p \in Seq(AesByte) /\ n \in Nat /\ n # 0 /\ n % 2 = 0
      /\ IF p[n] = 1 THEN SubSeq(p, 1, n - 1) = s ELSE p[n] = 2 /\ p[n - 1] = 2 /\ SubSeq(p, 1, n - 2) = s
  BY PaddedIs
<1> HIDE DEF p
<1>2. PICK m \in Nat : n = 2 * m
  BY <1>1, Halves
<1>3. h.k \in 0..1 /\ h.iv \in AesBlock
  BY DEF IsAesKey
<1>4. c \in Seq(AesByte) /\ Len(c) = n /\ d.out = p
  BY <1>1, <1>2, <1>3, CbcBack
<1>5. aes_encrypt(h, s) = c
  BY DEF aes_encrypt, p
<1> HIDE DEF e, c
<1>6. aes_decrypt(h, c) =
        IF Len(c) = 0 \/ Len(c) % 2 = 1 THEN Throw(<<>>)
        ELSE IF p[n] = 1 THEN Ok(SubSeq(p, 1, n - 1))
        ELSE IF p[n] = 2 /\ p[n - 1] = 2 THEN Ok(SubSeq(p, 1, n - 2))
        ELSE Throw(<<>>)
  BY <1>4 DEF aes_decrypt
<1>7. ~(Len(c) = 0 \/ Len(c) % 2 = 1)
  BY <1>1, <1>4
<1> HIDE DEF n, d
<1>8. aes_decrypt(h, c) = Ok(s)
  BY <1>1, <1>6, <1>7
<1> QED
  BY <1>4, <1>5, <1>8

\* The calls of AES.
AesCalls ==
  call.name = "aes" => call.in \in [key : AesKeys, plain : Seq(AesByte), cut : Nat]

\* The keys of the calls.
LEMMA AesKeysAre ==
  ASSUME NEW h \in AesKeys
  PROVE  IsAesKey(h)
<1>1. <<0, 0>> \in AesBlock /\ <<3, 1>> \in AesBlock
  BY DEF AesBlock, AesByte
<1> QED
  BY <1>1 DEF AesKeys, IsAesKey

\* A file is loaded as it was saved, or not at all.
LEMMA LoadedIsSaved == ASSUME AesCalls PROVE LoadIsSaved
<1> SUFFICES ASSUME call.name = "aes" PROVE LoadIsSaved
  BY DEF LoadIsSaved
<1> DEFINE in == call.in
           h == in.key
           s == in.plain
           cut == in.cut
           file == aes_save(h, s)
           short == [file EXCEPT !.bytes = SubSeq(@, 1, cut)]
           taken == IF cut < file.size THEN short ELSE file
           c == aes_encrypt(h, s)
<1>1. h \in AesKeys /\ s \in Seq(AesByte) /\ cut \in Nat
  BY DEF AesCalls
<1> SUFFICES ASSUME NEW g \in AesKeys
             PROVE  LET r == aes_load(taken, g)
                    IN  (r.ok => r.value = s /\ g = h) /\ (g = h /\ cut >= file.size => r.ok)
  BY DEF LoadIsSaved
<1> HIDE DEF in
<1>2. c \in Seq(AesByte) /\ aes_decrypt(h, c) = Ok(s)
  BY <1>1, AesKeysAre, TextBack
<1> HIDE DEF h, s, cut, c
<1>3. file = [check |-> Checksum(h, c), size |-> Len(c), bytes |-> c]
  BY DEF aes_save, c, h, s
<1> HIDE DEF file
<1>4. file.check = Checksum(h, c) /\ file.size = Len(c) /\ file.bytes = c
  BY <1>3
<1>5. taken.check = Checksum(h, c) /\ taken.size = Len(c)
  BY <1>3
<1>6. cut >= file.size => taken = file
  BY <1>1, <1>2, <1>4
<1> HIDE DEF taken
<1> DEFINE r == aes_load(taken, g)
           b == [i \in 1..taken.size |-> IF i <= Len(taken.bytes) THEN taken.bytes[i] ELSE 0]
<1>7. r = IF Checksum(g, b) = Checksum(h, c) THEN aes_decrypt(g, b) ELSE Throw(<<>>)
  BY <1>5 DEF aes_load
<1>8. ASSUME r.ok PROVE r.value = s /\ g = h
  <2> HIDE DEF b
  <2>1. Checksum(g, b) = Checksum(h, c)
    BY <1>7, <1>8 DEF Throw
  <2>2. g = h /\ b = c
    <3> DEFINE x == [key |-> g, cipher |-> b]
               y == [key |-> h, cipher |-> c]
    <3>1. x = y
      BY <2>1 DEF Checksum
    <3>2. x.key = g /\ x.cipher = b /\ y.key = h /\ y.cipher = c
      OBVIOUS
    <3> HIDE DEF x, y
    <3> QED
      BY <3>1, <3>2
  <2>3. r = Ok(s)
    BY <1>2, <1>7, <2>1, <2>2
  <2> HIDE DEF r
  <2> QED
    BY <2>2, <2>3 DEF Ok
<1>9. ASSUME g = h, cut >= file.size PROVE r.ok
  <2>1. taken.bytes = c /\ taken.size = Len(c)
    BY <1>4, <1>6, <1>9
  <2>2. b = [i \in 1..Len(c) |-> c[i]]
    BY <2>1, <1>2
  <2>3. b = c
    <3>1. c \in [1..Len(c) -> AesByte]
      BY <1>2, LenProperties
    <3> HIDE DEF b
    <3> QED
      BY <2>2, <3>1
  <2> HIDE DEF b
  <2>4. r = Ok(s)
    BY <2>3, <1>2, <1>7, <1>9
  <2> HIDE DEF r
  <2> QED
    BY <2>4 DEF Ok
<1> HIDE DEF r
<1> QED
  BY <1>8, <1>9 DEF r

\* encode and decode of whole blocks.
LEMMA EncodeIs ==
  ASSUME NEW st, NEW chunk \in Seq(AesByte), st.ok \in BOOLEAN,
         st = [key |-> st.key, chain |-> st.chain, held |-> <<>>, out |-> st.out, ok |-> st.ok]
  PROVE  LET r == CbcEncrypt(st.key, st.chain, chunk)
             e == encode(st, chunk)
         IN  /\ e.ok = (st.ok /\ 2 * (Len(chunk) \div 2) = Len(chunk))
             /\ 2 * (Len(chunk) \div 2) = Len(chunk) =>
                  e = [key |-> st.key, chain |-> r.chain, held |-> <<>>, out |-> st.out \o r.out, ok |-> st.ok]
<1> DEFINE n == Len(chunk)
           w == 2 * (n \div 2)
           q == CbcEncrypt(st.key, st.chain, SubSeq(chunk, 1, w))
           r == CbcEncrypt(st.key, st.chain, chunk)
           e == encode(st, chunk)
<1>1. st.held \o chunk = chunk
  <2>1. st.held = <<>>
    OBVIOUS
  <2> QED
    BY <2>1, ConcatEmptySeq
<1>2. e = [st EXCEPT !.chain = q.chain, !.out = @ \o q.out, !.held = SubSeq(chunk, w + 1, n), !.ok = @ /\ w = n]
  BY <1>1 DEF encode
<1>3. n \in Nat
  OBVIOUS
<1> HIDE DEF n, w, q
<1>4. e = [key |-> st.key, chain |-> q.chain, held |-> SubSeq(chunk, w + 1, n), out |-> st.out \o q.out, ok |-> st.ok /\ w = n]
  BY <1>2
<1> HIDE DEF e
<1>5. e.ok = (st.ok /\ w = n)
  BY <1>4
<1>6. ASSUME w = n PROVE q = r /\ SubSeq(chunk, w + 1, n) = <<>>
  <2>1. SubSeq(chunk, 1, n) = chunk
    BY SubSeqFull DEF n
  <2>2. w + 1 \in Int /\ n < w + 1
    BY <1>3, <1>6
  <2>3. SubSeq(chunk, w + 1, n) = <<>>
    BY <1>3, <2>2, SubSeqEmpty
  <2>4. q = r
    BY <1>6, <2>1 DEF q
  <2> QED
    BY <2>3, <2>4
<1> HIDE DEF r
<1>7. ASSUME w = n
      PROVE  e = [key |-> st.key, chain |-> r.chain, held |-> <<>>, out |-> st.out \o r.out, ok |-> st.ok]
  <2>1. (st.ok /\ w = n) = st.ok
    BY <1>7, Zenon
  <2> QED
    BY <1>4, <1>6, <1>7, <2>1
<1> QED
  BY <1>5, <1>7 DEF e, n, w, r

\* The fields of an encoder.
Coder(st) == st = [key |-> st.key, chain |-> st.chain, held |-> st.held, out |-> st.out, ok |-> st.ok]

\* A call that fails leaves an encoder that failed, whatever is written after.
LEMMA EncodeFails ==
  ASSUME NEW st, Coder(st), NEW chunk
  PROVE  Coder(encode(st, chunk)) /\ (encode(st, chunk).ok => st.ok)
<1> DEFINE held == st.held \o chunk
           w == 2 * (Len(held) \div 2)
           r == CbcEncrypt(st.key, st.chain, SubSeq(held, 1, w))
           e == encode(st, chunk)
<1>1. e = [st EXCEPT !.chain = r.chain, !.out = @ \o r.out, !.held = SubSeq(held, w + 1, Len(held)), !.ok = @ /\ w = Len(chunk)]
  BY DEF encode
<1> DEFINE good == st.ok /\ w = Len(chunk)
<1> HIDE DEF held, w, r
<1>2. e = [key |-> st.key, chain |-> r.chain, held |-> SubSeq(held, w + 1, Len(held)), out |-> st.out \o r.out,
           ok |-> good]
  BY <1>1 DEF Coder
<1> HIDE DEF e, good
<1>3. e.ok = good /\ Coder(e)
  BY <1>2 DEF Coder
<1> QED
  BY <1>3 DEF e, good

\* decode.
LEMMA DecodeIs ==
  ASSUME NEW st, Coder(st), NEW chunk
  PROVE  LET r == CbcDecrypt(st.key, st.chain, chunk)
         IN  decode(st, chunk) = [key |-> st.key, chain |-> r.chain, held |-> st.held, out |-> st.out \o r.out,
                                  ok |-> st.ok /\ Len(chunk) % 2 = 0]
<1> DEFINE r == CbcDecrypt(st.key, st.chain, chunk)
<1>1. decode(st, chunk) = [st EXCEPT !.chain = r.chain, !.out = @ \o r.out, !.ok = @ /\ Len(chunk) % 2 = 0]
  BY DEF decode
<1> HIDE DEF r
<1>2. decode(st, chunk) = [key |-> st.key, chain |-> r.chain, held |-> st.held, out |-> st.out \o r.out,
                           ok |-> st.ok /\ Len(chunk) % 2 = 0]
  BY <1>1 DEF Coder
<1> QED
  BY <1>2 DEF r

\* What was streamed is decoded to the text.
LEMMA StreamBack == ASSUME AesCalls PROVE StreamRoundTrip
<1> SUFFICES ASSUME call.name = "aes", call.in.cut <= Len(call.in.plain) PROVE StreamRoundTrip
  BY DEF StreamRoundTrip
<1> DEFINE in == call.in
           h == in.key
           s == in.plain
           cut == in.cut
           a == SubSeq(s, 1, cut)
           b == SubSeq(s, cut + 1, Len(s))
           f == encode(Fresh(h), a)
           e == encode(f, b)
           g == decode(Fresh(h), SubSeq(e.out, 1, cut))
           d == decode(g, SubSeq(e.out, cut + 1, Len(e.out)))
<1>1. h \in AesKeys /\ s \in Seq(AesByte) /\ cut \in Nat /\ cut <= Len(s)
  BY DEF AesCalls
<1> SUFFICES ASSUME e.ok PROVE d.ok /\ d.out = s
  <2>1. <<a, b>>[1] = a /\ <<a, b>>[2] = b
    OBVIOUS
  <2> QED
    BY <2>1 DEF StreamRoundTrip
<1> HIDE DEF in
<1>2. h.k \in 0..1 /\ h.iv \in AesBlock
  BY <1>1, AesKeysAre DEF IsAesKey
<1> HIDE DEF h, s, cut
<1>3. Len(s) \in Nat /\ cut \in 0..Len(s)
  BY <1>1
<1>4. a \in Seq(AesByte) /\ Len(a) = cut /\ b \in Seq(AesByte) /\ Len(b) = Len(s) - cut /\ a \o b = s
  BY <1>1, <1>3, CutAt
<1> HIDE DEF a, b
<1> DEFINE F == Fresh(h)
<1>5. F = [key |-> h.k, chain |-> h.iv, held |-> <<>>, out |-> <<>>, ok |-> TRUE]
  BY DEF Fresh
<1> HIDE DEF F
<1>6. F.key = h.k /\ F.chain = h.iv /\ F.held = <<>> /\ F.out = <<>> /\ F.ok = TRUE
  BY <1>5
<1>7. Coder(F)
  BY <1>5, <1>6 DEF Coder
<1> DEFINE p == CbcEncrypt(h.k, h.iv, a)
           q == CbcEncrypt(h.k, p.chain, b)
           Whole(x) == 2 * (Len(x) \div 2) = Len(x)
<1>8. /\ f.ok = (F.ok /\ Whole(a))
      /\ Whole(a) => f = [key |-> h.k, chain |-> p.chain, held |-> <<>>, out |-> <<>> \o p.out, ok |-> F.ok]
  <2>1. F = [key |-> F.key, chain |-> F.chain, held |-> <<>>, out |-> F.out, ok |-> F.ok] /\ F.ok \in BOOLEAN
    BY <1>5, <1>6
  <2>2. f = encode(F, a)
    BY DEF F
  <2>3. /\ encode(F, a).ok = (F.ok /\ Whole(a))
        /\ Whole(a) => encode(F, a) = [key |-> F.key, chain |-> CbcEncrypt(F.key, F.chain, a).chain, held |-> <<>>,
                            out |-> F.out \o CbcEncrypt(F.key, F.chain, a).out, ok |-> F.ok]
    BY <2>1, <1>4, EncodeIs
  <2> HIDE DEF f
  <2> QED
    BY <2>2, <2>3, <1>6
<1>9. Coder(f) /\ f.ok
  <2>1. f = encode(F, a)
    BY DEF F
  <2>2. Coder(f)
    BY <2>1, <1>7, EncodeFails
  <2> HIDE DEF f
  <2> QED
    BY <2>2, EncodeFails
<1>10. Whole(a)
  BY <1>6, <1>8, <1>9
<1>11. f = [key |-> h.k, chain |-> p.chain, held |-> <<>>, out |-> <<>> \o p.out, ok |-> TRUE]
  BY <1>6, <1>8, <1>10
<1> HIDE DEF f
<1>12. PICK m \in Nat : Len(a) = 2 * m
  <2>1. Len(a) \in Nat /\ Len(a) \div 2 \in Nat
    BY <1>4
  <2> QED
    BY <2>1, <1>10
<1>13. /\ p.out \in Seq(AesByte) /\ Len(p.out) = cut /\ p.chain \in AesBlock
       /\ CbcDecrypt(h.k, h.iv, p.out).out = a /\ CbcDecrypt(h.k, h.iv, p.out).chain = p.chain
  BY <1>2, <1>4, <1>12, CbcBack
<1> HIDE DEF p
<1>14. <<>> \o p.out = p.out
  BY <1>13, ConcatEmptySeq
<1>15. f = [key |-> h.k, chain |-> p.chain, held |-> <<>>, out |-> p.out, ok |-> TRUE]
  BY <1>11, <1>14
<1>16. f.key = h.k /\ f.chain = p.chain /\ f.out = p.out /\ f.ok = TRUE
  BY <1>15
<1>17. /\ e.ok = (f.ok /\ Whole(b))
       /\ Whole(b) => e = [key |-> h.k, chain |-> q.chain, held |-> <<>>, out |-> p.out \o q.out, ok |-> f.ok]
  <2>1. f = [key |-> f.key, chain |-> f.chain, held |-> <<>>, out |-> f.out, ok |-> f.ok] /\ f.ok \in BOOLEAN
    BY <1>15, <1>16
  <2>2. /\ e.ok = (f.ok /\ Whole(b))
        /\ Whole(b) => e = [key |-> f.key, chain |-> CbcEncrypt(f.key, f.chain, b).chain, held |-> <<>>,
                            out |-> f.out \o CbcEncrypt(f.key, f.chain, b).out, ok |-> f.ok]
    BY <2>1, <1>4, EncodeIs
  <2> HIDE DEF e
  <2> QED
    BY <2>2, <1>16
<1>18. Whole(b)
  BY <1>16, <1>17
<1> HIDE DEF e
<1>19. e.out = p.out \o q.out
  <2>1. e = [key |-> h.k, chain |-> q.chain, held |-> <<>>, out |-> p.out \o q.out, ok |-> f.ok]
    BY <1>17, <1>18
  <2> DEFINE o == p.out \o q.out
  <2> HIDE DEF o, q
  <2>2. e.out = o
    BY <2>1 DEF o
  <2> QED
    BY <2>2 DEF o
<1>20. PICK j \in Nat : Len(b) = 2 * j
  <2>1. Len(b) \in Nat /\ Len(b) \div 2 \in Nat
    BY <1>4
  <2> QED
    BY <2>1, <1>18
<1>21. /\ q.out \in Seq(AesByte) /\ Len(q.out) = Len(b)
       /\ CbcDecrypt(h.k, p.chain, q.out).out = b
  BY <1>2, <1>4, <1>13, <1>20, CbcBack
<1> HIDE DEF q
<1>22. SubSeq(e.out, 1, cut) = p.out /\ SubSeq(e.out, cut + 1, Len(e.out)) = q.out
  <2>1. /\ Len(p.out \o q.out) = Len(p.out) + Len(q.out)
        /\ SubSeq(p.out \o q.out, 1, Len(p.out)) = p.out
        /\ SubSeq(p.out \o q.out, Len(p.out) + 1, Len(p.out) + Len(q.out)) = q.out
    <3> DEFINE u == p.out
               v == q.out
    <3>1. u \in Seq(AesByte) /\ v \in Seq(AesByte)
      BY <1>13, <1>21
    <3> HIDE DEF u, v
    <3>2. /\ Len(u \o v) = Len(u) + Len(v) /\ SubSeq(u \o v, 1, Len(u)) = u
          /\ SubSeq(u \o v, Len(u) + 1, Len(u) + Len(v)) = v
      BY <3>1, Joined
    <3> QED
      BY <3>2 DEF u, v
  <2> QED
    BY <2>1, <1>13, <1>19
<1>23. g = [key |-> h.k, chain |-> p.chain, held |-> <<>>, out |-> a, ok |-> TRUE]
  <2>1. g = decode(F, p.out)
    BY <1>22 DEF F
  <2> DEFINE r == CbcDecrypt(F.key, F.chain, p.out)
  <2>2. decode(F, p.out) = [key |-> F.key, chain |-> r.chain, held |-> F.held, out |-> F.out \o r.out,
                            ok |-> F.ok /\ Len(p.out) % 2 = 0]
    BY <1>7, DecodeIs
  <2>3. r.out = a /\ r.chain = p.chain
    BY <1>6, <1>13
  <2>4. F.out \o r.out = a
    BY <2>3, <1>4, <1>6, ConcatEmptySeq
  <2>5. (F.ok /\ Len(p.out) % 2 = 0) = TRUE
    <3>1. Len(p.out) % 2 = 0
      <4>1. Len(p.out) = 2 * m
        BY <1>4, <1>12, <1>13
      <4>2. (2 * m) % 2 = 0
        OBVIOUS
      <4> QED
        BY <4>1, <4>2
    <3> QED
      BY <3>1, <1>6, Zenon
  <2> HIDE DEF r, g
  <2> QED
    BY <2>1, <2>2, <2>3, <2>4, <2>5, <1>6
<1> HIDE DEF g
<1>24. g.key = h.k /\ g.chain = p.chain /\ g.out = a /\ g.ok = TRUE /\ Coder(g)
  BY <1>23 DEF Coder
<1>25. d.ok /\ d.out = s
  <2>1. d = decode(g, q.out)
    BY <1>22
  <2> DEFINE r == CbcDecrypt(g.key, g.chain, q.out)
  <2>2. decode(g, q.out) = [key |-> g.key, chain |-> r.chain, held |-> g.held, out |-> g.out \o r.out,
                            ok |-> g.ok /\ Len(q.out) % 2 = 0]
    BY <1>24, DecodeIs
  <2>3. r.out = b
    BY <1>21, <1>24
  <2>4. Len(q.out) % 2 = 0
    BY <1>20, <1>21
  <2> DEFINE good == g.ok /\ Len(q.out) % 2 = 0
             o == g.out \o r.out
  <2>5. good
    BY <2>4, <1>24
  <2>6. o = s
    BY <2>3, <1>4, <1>24
  <2>7. d = [key |-> g.key, chain |-> r.chain, held |-> g.held, out |-> o, ok |-> good]
    BY <2>1, <2>2
  <2> HIDE DEF r, d, good, o
  <2>8. d.out = o /\ d.ok = good
    BY <2>7
  <2> QED
    BY <2>5, <2>6, <2>8
<1> QED
  BY <1>25

-----------------------------------------------------------------------------
(* The calls of the ciphers. *)

\* The buffers and the texts of the calls are sequences.
LEMMA Buffers ==
  /\ UNION {[1..n -> Bit] : n \in {3, 5, 4 * MaxBlocks}} \subseteq Seq(Bit)
  /\ Plains \subseteq Seq(AesByte)
<1>1. {3, 5, 4 * MaxBlocks} \subseteq Nat /\ 0..MaxPlain \subseteq Nat
  BY CiphersAssumption
<1>2. \A n \in Nat : \A f \in [1..n -> Bit] : f \in Seq(Bit)
  OBVIOUS
<1>3. \A n \in Nat : \A f \in [1..n -> AesByte] : f \in Seq(AesByte)
  OBVIOUS
<1> QED
  BY <1>1, <1>2, <1>3 DEF Plains

\* A client calls blowfish.
LEMMA BlowfishAsks == ASSUME Blowfish PROVE call'.name = "blowfish" /\ BlowfishCalls'
<1> DEFINE chains == {<<<<0, 0>>, <<0, 0>>>>, <<<<1, 0>>, <<1, 1>>>>}
           bufs == UNION {[1..n -> Bit] : n \in {3, 5, 4 * MaxBlocks}}
           sizes == {0, 3, 4, 4 * MaxBlocks}
<1>1. chains \subseteq Block
  BY DEF Block, WordOf, Bit
<1>2. bufs \subseteq Seq(Bit)
  BY Buffers
<1>3. sizes \subseteq Nat
  BY CiphersAssumption
<1>4. PICK i \in [key : Keysets, chain : chains, buf : bufs, n : sizes, mode : Mode] : call' = [name |-> "blowfish", in |-> i]
  BY DEF Blowfish, Calls
<1> HIDE DEF chains, bufs, sizes
<1>5. i \in [key : Keysets, chain : Block, buf : Seq(Bit), n : Nat, mode : Mode]
  BY <1>1, <1>2, <1>3
<1> QED
  BY <1>4, <1>5 DEF BlowfishCalls

\* A client calls AES.
LEMMA AesAsks == ASSUME Aes PROVE call'.name = "aes" /\ AesCalls'
<1>1. 0..(MaxPlain + 2) \subseteq Nat
  BY CiphersAssumption
<1>2. PICK i \in [key : AesKeys, plain : Plains, cut : 0..(MaxPlain + 2)] : call' = [name |-> "aes", in |-> i]
  BY DEF Aes, Calls
<1>3. i \in [key : AesKeys, plain : Seq(AesByte), cut : Nat]
  BY <1>1, Buffers
<1> QED
  BY <1>2, <1>3 DEF AesCalls

-----------------------------------------------------------------------------
(* The composition. *)

\* The handler keeps up with the reader in every step of the composition.
THEOREM WebInvariance == Spec => []WebInv
<1>1. Init => WebInv
  BY WebStarts DEF Init
<1>2. WebInv /\ [Next]_vars => WebInv'
  <2>1. [Next]_vars => WebNext \/ UNCHANGED wVars
    BY DEF Next, EllipticStep, KeysStep, WebStep, CiphersStep, HashStep, HmacStep, vars
  <2> QED
    BY <2>1, WebKeeps, WebRests
<1> QED
  BY <1>1, <1>2, PTL DEF Spec

\* elliptic_webauthn.cpp: whatever document the reader delivers, the handler's
\* depth is the reader's, what it collects is what the outermost object gives
\* its members, a key is recovered only where they name the type, the digest
\* and a secure origin, and no document is refused whose members are strings.
THEOREM ClientDataIsSound == Spec => []ClientDataSound
<1>1. WebInv => ClientDataSound
  BY WebIsSound
<1> QED
  BY <1>1, WebInvariance, PTL

\* A call of a function has an input of the function's kind.
CallsInv == KeyCalls /\ CurveCalls /\ HmacCalls /\ BlowfishCalls /\ AesCalls

\* Every call that a client makes has its input from the sets of the actions,
\* and the other parts make calls of other names.
THEOREM CallsInvariance == Spec => []CallsInv
<1>1. Init => CallsInv
  BY DEF Init, CallInit, NoCall, CallsInv, KeyCalls, CurveCalls, HmacCalls, BlowfishCalls, AesCalls
<1>2. ASSUME CallsInv, [Next]_vars PROVE CallsInv'
  <2>1. CASE EllipticNext
    <3>1. CASE Sign
      BY <3>1 DEF Sign, Calls, CallsInv, KeyCalls, CurveCalls, HmacCalls, BlowfishCalls, AesCalls
    <3>2. CASE Recover
      BY <3>2 DEF Recover, Calls, CallsInv, KeyCalls, CurveCalls, HmacCalls, BlowfishCalls, AesCalls
    <3>3. CASE Derive
      BY <3>3 DEF Derive, Calls, CallsInv, KeyCalls, CurveCalls, HmacCalls, BlowfishCalls, AesCalls
    <3> QED
      BY <2>1, <3>1, <3>2, <3>3 DEF EllipticNext
  <2>2. CASE KeysNext
    <3>1. CASE PrintKey
      BY <3>1 DEF PrintKey, Calls, CallsInv, KeyCalls, CurveCalls, HmacCalls, BlowfishCalls, AesCalls
    <3>2. CASE ReadKey
      BY <3>2 DEF ReadKey, Calls, CallsInv, KeyCalls, CurveCalls, HmacCalls, BlowfishCalls, AesCalls, ReadTexts
    <3>3. CASE Compare
      BY <3>3 DEF Compare, Calls, CallsInv, KeyCalls, CurveCalls, HmacCalls, BlowfishCalls, AesCalls
    <3> QED
      BY <2>2, <3>1, <3>2, <3>3 DEF KeysNext
  <2>3. CASE CiphersNext
    <3>1. CASE Blowfish
      BY <3>1, BlowfishAsks DEF CallsInv, KeyCalls, CurveCalls, HmacCalls, AesCalls
    <3>2. CASE Aes
      BY <3>2, AesAsks DEF CallsInv, KeyCalls, CurveCalls, HmacCalls, BlowfishCalls
    <3> QED
      BY <2>3, <3>1, <3>2 DEF CiphersNext
  <2>4. CASE AskHmac
    BY <2>4 DEF AskHmac, Calls, CallsInv, KeyCalls, CurveCalls, HmacCalls, BlowfishCalls, AesCalls
  <2>5. CASE UNCHANGED call
    BY <1>2, <2>5 DEF CallsInv, KeyCalls, CurveCalls, HmacCalls, BlowfishCalls, AesCalls
  <2> QED
    BY <1>2, <2>1, <2>2, <2>3, <2>4, <2>5
       DEF Next, EllipticStep, KeysStep, WebStep, CiphersStep, HashStep, HmacStep, vars
<1> QED
  BY <1>1, <1>2, PTL DEF Spec

\* public_key.cpp, private_key.cpp and signature.cpp: a key or a signature of
\* any suite is read back from its text; a public key or signature is read
\* from no other text, nor one suite or kind as another; keys of all suites are
\* ordered.
THEOREM KeyTextsStaySound == Spec => []KeyTextsSound
<1>1. CallsInv => KeyTextsSound
  BY PrintedIsRead, SuitesAreBound, TextsAreUnique, KeysAreOrdered DEF CallsInv, KeyTextsSound
<1> QED
  BY <1>1, CallsInvariance, PTL

\* elliptic_r1.cpp, elliptic_secp256k1.cpp and elliptic_impl_priv.cpp, on any
\* curve of prime order: whoever recovers a key from a compact signature gets
\* the signer's, an r1 signature has one low s, the two recoveries of k1 agree,
\* and derived keys and shared secrets are the same on both sides.
THEOREM SignaturesStaySound == Spec => []SignaturesSound
<1>1. CallsInv => SignaturesSound
  BY SignaturesAreSound DEF CallsInv
<1> QED
  BY <1>1, CallsInvariance, PTL

\* The encoder holds the message in every step of the composition.
THEOREM HashInvariance == Spec => []HashInv
<1>1. Init => HashInv
  BY HashStarts DEF Init
<1>2. HashInv /\ [Next]_vars => HashInv'
  <2>1. [Next]_vars => EncodeHash \/ UNCHANGED hashVars
    BY DEF Next, EllipticStep, KeysStep, WebStep, CiphersStep, HashStep, HmacStep, vars
  <2> QED
    BY <2>1, HashKeeps, HashRests
<1> QED
  BY <1>1, <1>2, PTL DEF Spec

\* sha3.cpp and hmac.hpp: however a message is cut into writes, the digest is
\* made from that message and its padding, and from no other message; two keys
\* of an hmac give the same code only if they differ in zeros at their end.
THEOREM HashingStaysSound == Spec => []HashingSound
<1>1. HashInv /\ CallsInv => HashingSound
  BY KeysAreApart DEF CallsInv, HashInv, HashingSound
<1> QED
  BY <1>1, HashInvariance, CallsInvariance, PTL

\* blowfish.cpp and aes.cpp: a buffer is decrypted to what was encrypted, in
\* every mode, for any number of rounds and any boxes, and a text is loaded or
\* decoded as it was saved or streamed; with what sha3 and hmac tell apart.
THEOREM PrimitivesStaySound == Spec => []PrimitivesSound
<1>1. CallsInv => CiphersRoundTrip
  BY BuffersBack, LoadedIsSaved, StreamBack DEF CallsInv, CiphersRoundTrip
<1>2. CiphersRoundTrip /\ HashingSound => PrimitivesSound
  BY DEF PrimitivesSound
<1> QED
  BY <1>1, <1>2, HashingStaysSound, CallsInvariance, PTL
=============================================================================
