--------------------------- MODULE LoggingProofs ---------------------------
(***************************************************************************)
(* The logging of the library, for any constants.  What fc::exception      *)
(* keeps on its way: its log is the list of the frames it passed, and type *)
(* and code stay.  What the appenders send and write: every datagram of    *)
(* gelf is a logged message or a packet of one, the packets cover it once, *)
(* and the file of dmlog has whole lines in order.  And the registry:      *)
(* configure_logging builds loggers of its own, whatever handles, updates  *)
(* and half-done macros hold in between.                                   *)
(***************************************************************************)
EXTENDS MCLogging, NaturalsInduction, FiniteSetTheorems, SequenceTheorems, WellFoundedInduction, TLAPS

-----------------------------------------------------------------------------
(* Exceptions. *)

\* The messages of a log name the frames that added them.
Frame == {"throw", "a", "b"}

\* The exceptions there are.
Exceptions ==
  [type : Fc \cup Foreign, code : {0} \cup {Code[t] : t \in Fc}, log : Seq(Frame),
   inner : {"none", "std", "other"}]

\* Types; without an exception the variables are at rest.
ExcType ==
  /\ exc \in Exceptions /\ born \in Exceptions /\ trail \in Seq(Frame)
  /\ where \in {"none", "flying", "stored", "variant"}
  /\ where = "none" => exc = NoExc /\ born = NoExc /\ trail = << >>

\* A foreign exception is on its way as it was thrown; a frame that gives it a
\* message makes an fc exception of it.
ForeignAsThrown ==
  /\ exc.type \in Foreign => trail = << >>
  /\ exc.type \in Foreign \/ born.type \in Foreign => exc = born /\ where = "flying"

\* The log and the code of an fc exception.
FcAsThrown == exc.type \in Fc => exc.log = trail /\ exc.code = born.code

\* A registered type is lost only inside a variant, where its code stands for it.
RegisteredAsThrown ==
  born.type \in Registered =>
    /\ born.code = Code[born.type] /\ exc.inner = "none"
    /\ exc.type = born.type \/ (where = "variant" /\ exc.type = "exception")

\* The inductive invariant.
ExcInv == ExcType /\ ForeignAsThrown /\ FcAsThrown /\ RegisteredAsThrown

\* Types of the library and types from outside are apart.
LEMMA TypesApart ==
  /\ Fc \cap Foreign = {} /\ Registered \subseteq Fc /\ Registered \cap Foreign = {}
  /\ "exception" \in Fc \ Registered /\ "unhandled" \in Fc \ Registered /\ "wrapper" \in Fc \ Registered
  BY ExceptionAssumption DEF Fc, Foreign

\* exception_factory: the type registered for a code is the only one.
LEMMA FactoryFinds == \A t \in Registered : FactoryType(Code[t]) = t
<1> SUFFICES ASSUME NEW t \in Registered PROVE FactoryType(Code[t]) = t
  OBVIOUS
<1>1. \A u \in Registered : Code[u] = Code[t] => u = t
  BY ExceptionAssumption
<1>2. \E u \in Registered : Code[u] = Code[t]
  OBVIOUS
<1> DEFINE u == CHOOSE u \in Registered : Code[u] = Code[t]
<1>3. u \in Registered /\ Code[u] = Code[t]
  BY <1>2
<1>4. u = t
  BY <1>1, <1>3
<1> QED
  BY <1>2, <1>4 DEF FactoryType

\* What the factory finds is a type of the library.
LEMMA FactoryInFc == \A c : FactoryType(c) \in Fc
<1> SUFFICES ASSUME NEW c PROVE FactoryType(c) \in Fc
  OBVIOUS
<1>1. CASE \E t \in Registered : Code[t] = c
  <2>1. (CHOOSE t \in Registered : Code[t] = c) \in Registered
    BY <1>1
  <2> QED
    BY <1>1, <2>1, TypesApart DEF FactoryType
<1>2. CASE ~\E t \in Registered : Code[t] = c
  BY <1>2, TypesApart DEF FactoryType
<1> QED
  BY <1>1, <1>2

\* The exceptions the actions make are exceptions.
LEMMA MadeExceptions ==
  /\ NoExc \in Exceptions
  /\ \A t \in Fc \cup Foreign, m \in Seq(Frame), i \in {"none", "std", "other"} : Exc(t, 0, m, i) \in Exceptions
  /\ \A t, u \in Fc, m \in Seq(Frame), i \in {"none", "std", "other"} : Exc(t, Code[u], m, i) \in Exceptions
  BY TypesApart DEF Exc, NoExc, Exceptions

\* Logs of one message and none, and longer ones.
LEMMA Logs ==
  /\ << >> \in Seq(Frame) /\ \A m \in Frame : <<m>> \in Seq(Frame) /\ Append(<< >>, m) = <<m>>
  /\ \A s \in Seq(Frame), m \in Frame : Append(s, m) \in Seq(Frame)
  BY AppendProperties

\* No exception, no trail.
LEMMA ExcInitInv == ExcInit => ExcInv
  BY MadeExceptions, TypesApart
  DEF ExcInit, Quiet, ExcInv, ExcType, ForeignAsThrown, FcAsThrown, RegisteredAsThrown, NoExc, Exc

\* Throwing starts a trail.
LEMMA ThrowStep ==
  ASSUME ExcInv, \/ \E t \in Fc \ {"wrapper"} : ThrowFc(t)
                 \/ \E t \in Foreign : ThrowForeign(t)
  PROVE  ExcInv'
<1>1. ASSUME NEW t \in Fc \ {"wrapper"}, ThrowFc(t) PROVE ExcInv'
  <2>1. exc' = Exc(t, CodeThrown(t), <<"throw">>, "none") /\ where' = "flying" /\ trail' = <<"throw">> /\ born' = exc'
    BY <1>1 DEF ThrowFc
  <2>2. exc' \in Exceptions
    BY <2>1, MadeExceptions, TypesApart, Logs DEF CodeThrown, Frame
  <2>3. ExcType'
    BY <2>1, <2>2, Logs DEF ExcType, Frame
  <2>4. exc'.type = t /\ exc'.log = trail' /\ exc'.inner = "none" /\ exc'.code = CodeThrown(t)
    BY <2>1 DEF Exc
  <2>5. ForeignAsThrown' /\ FcAsThrown'
    BY <2>1, <2>4, TypesApart DEF ForeignAsThrown, FcAsThrown
  <2>6. RegisteredAsThrown'
    BY <2>1, <2>4, TypesApart DEF RegisteredAsThrown, CodeThrown
  <2> QED
    BY <2>3, <2>5, <2>6 DEF ExcInv
<1>2. ASSUME NEW t \in Foreign, ThrowForeign(t) PROVE ExcInv'
  <2>1. exc' = Exc(t, 0, << >>, "none") /\ where' = "flying" /\ trail' = << >> /\ born' = exc'
    BY <1>2 DEF ThrowForeign
  <2>2. exc' \in Exceptions
    BY <2>1, MadeExceptions, Logs
  <2>3. exc'.type = t
    BY <2>1 DEF Exc
  <2> QED
    BY <2>1, <2>2, <2>3, TypesApart DEF ExcInv, ExcType, ForeignAsThrown, FcAsThrown, RegisteredAsThrown
<1> QED
  BY <1>1, <1>2

\* A frame adds to log and trail alike, or wraps what came from outside.
LEMMA RethrowStep ==
  ASSUME ExcInv, NEW m \in {"a", "b"}, Rethrow(m)
  PROVE  ExcInv'
<1>1. where = "flying" /\ where' = where /\ ~Passes(exc) /\ trail' = Append(trail, m) /\ trail' \in Seq(Frame)
  BY Logs DEF Rethrow, ExcInv, ExcType, Frame
<1>2. exc \in Exceptions /\ born \in Exceptions /\ trail \in Seq(Frame)
  BY DEF ExcInv, ExcType
<1>3. CASE exc.type \in Fc
  <2>1. exc' = [exc EXCEPT !.log = Append(@, m)] /\ born' = born
    BY <1>3, TypesApart DEF Rethrow, Appended, Foreign
  <2> DEFINE lg == Append(exc.log, m)
  <2>0. lg \in Seq(Frame) /\ exc' = [exc EXCEPT !.log = lg]
    BY <1>2, <2>1, Logs DEF Exceptions, Frame
  <2> HIDE DEF lg
  <2>2. exc' \in Exceptions /\ exc'.type = exc.type /\ exc'.code = exc.code /\ exc'.inner = exc.inner
        /\ exc'.log = lg
    BY <1>2, <2>0 DEF Exceptions
  <2>3. exc.log = trail /\ born.type \notin Foreign
    BY <1>3, TypesApart DEF ExcInv, FcAsThrown, ForeignAsThrown
  <2>4. ExcType'
    BY <1>1, <1>2, <2>1, <2>2 DEF ExcType
  <2>5. ForeignAsThrown' /\ FcAsThrown' /\ RegisteredAsThrown'
    BY <1>1, <1>3, <2>1, <2>2, <2>3, TypesApart
    DEF lg, ExcInv, ForeignAsThrown, FcAsThrown, RegisteredAsThrown
  <2> QED
    BY <2>4, <2>5 DEF ExcInv
<1>4. CASE exc.type \notin Fc
  <2>1. exc.type \in {"std", "other"} /\ trail = << >>
    BY <1>1, <1>2, <1>4 DEF Exceptions, Foreign, Passes, ExcInv, ForeignAsThrown
  <2>2. exc' = Wrapped(exc, m) /\ born' = exc'
    BY <1>4, <2>1 DEF Rethrow
  <2>3. PICK t \in {"wrapper", "unhandled"}, c \in {0, Code["wrapper"]}, i \in {"std", "other"} :
          exc' = Exc(t, c, <<m>>, i)
    BY <2>2 DEF Wrapped
  <2>4. exc' \in Exceptions
    BY <2>3, MadeExceptions, TypesApart, Logs DEF Frame
  <2>5. exc'.type = t /\ exc'.log = <<m>> /\ <<m>> = trail'
    BY <1>1, <2>1, <2>3, Logs DEF Exc, Frame
  <2>6. ExcType'
    BY <1>1, <2>2, <2>4 DEF ExcType
  <2> QED
    BY <2>2, <2>5, <2>6, TypesApart DEF ExcInv, ForeignAsThrown, FcAsThrown, RegisteredAsThrown
<1> QED
  BY <1>3, <1>4

\* Dropped or at the end of its thread: nothing remains.
LEMMA GoneStep ==
  ASSUME ExcInv, Drop \/ Terminate
  PROVE  ExcInv'
<1>1. exc' = NoExc /\ where' = "none" /\ trail' = << >> /\ born' = NoExc
  BY DEF Drop, Terminate
<1> QED
  BY <1>1, MadeExceptions, TypesApart
  DEF ExcInv, ExcType, ForeignAsThrown, FcAsThrown, RegisteredAsThrown, NoExc, Exc

\* A copy is the exception; a variant keeps log and code.
LEMMA CopyStep ==
  ASSUME ExcInv, Copy \/ Convert
  PROVE  ExcInv'
<1>1. exc.type \in Fc /\ exc \in Exceptions /\ born.type \notin Foreign /\ trail' = trail /\ born' = born
  BY TypesApart DEF Copy, Convert, ExcInv, ExcType, ForeignAsThrown
<1>2. CASE Copy
  BY <1>1, <1>2, TypesApart DEF Copy, ExcInv, ExcType, ForeignAsThrown, FcAsThrown, RegisteredAsThrown
<1>3. CASE Convert
  <2>1. exc' = [exc EXCEPT !.type = "exception", !.inner = "none"] /\ where' = "variant"
    BY <1>3 DEF Convert
  <2>2. exc' \in Exceptions /\ exc'.type = "exception" /\ exc'.inner = "none" /\ exc'.log = exc.log /\ exc'.code = exc.code
    BY <1>1, <2>1, TypesApart DEF Exceptions
  <2> QED
    BY <1>1, <2>1, <2>2, TypesApart DEF ExcInv, ExcType, ForeignAsThrown, FcAsThrown, RegisteredAsThrown
<1> QED
  BY <1>2, <1>3

\* dynamic_rethrow_exception: the inner exception, or the type of the code.
LEMMA DynamicRethrowStep ==
  ASSUME ExcInv, DynamicRethrow
  PROVE  ExcInv'
<1>1. where \in {"stored", "variant"} /\ where' = "flying" /\ exc \in Exceptions /\ born \in Exceptions /\ trail \in Seq(Frame)
  BY DEF DynamicRethrow, ExcInv, ExcType
<1>2. exc.type \in Fc /\ born.type \notin Foreign
  BY <1>1 DEF ExcInv, ForeignAsThrown, Exceptions
<1>3. CASE exc.inner # "none"
  <2>1. exc' = Exc(exc.inner, 0, << >>, "none") /\ trail' = << >> /\ born' = exc'
    BY <1>3 DEF DynamicRethrow
  <2>2. exc.inner \in Foreign
    BY <1>1, <1>3 DEF Exceptions, Foreign
  <2>3. exc' \in Exceptions /\ exc'.type = exc.inner
    BY <2>1, <2>2, MadeExceptions, Logs DEF Exc
  <2> QED
    BY <1>1, <2>1, <2>2, <2>3, TypesApart DEF ExcInv, ExcType, ForeignAsThrown, FcAsThrown, RegisteredAsThrown
<1>4. CASE exc.inner = "none"
  <2>1. exc' = [exc EXCEPT !.type = RethrownType(exc)] /\ trail' = trail /\ born' = born
    BY <1>4 DEF DynamicRethrow
  <2>2. RethrownType(exc) \in Fc
    BY <1>2, FactoryInFc DEF RethrownType
  <2>3. exc' \in Exceptions /\ exc'.type = RethrownType(exc) /\ exc'.inner = "none" /\ exc'.log = exc.log /\ exc'.code = exc.code
    BY <1>1, <1>4, <2>1, <2>2 DEF Exceptions
  <2>4. born.type \in Registered => RethrownType(exc) = born.type
    <3> SUFFICES ASSUME born.type \in Registered PROVE RethrownType(exc) = born.type
      OBVIOUS
    <3>1. exc.code = Code[born.type]
      BY <1>2 DEF ExcInv, FcAsThrown, RegisteredAsThrown
    <3>2. exc.type = born.type \/ exc.type = "exception"
      BY DEF ExcInv, RegisteredAsThrown
    <3>3. "exception" \notin Registered \cup {"custom"}
      BY TypesApart
    <3> QED
      BY <3>1, <3>2, <3>3, FactoryFinds DEF RethrownType
  <2>5. ExcType'
    BY <1>1, <2>1, <2>3 DEF ExcType
  <2>6. ForeignAsThrown' /\ FcAsThrown'
    BY <1>2, <2>1, <2>2, <2>3, TypesApart DEF ExcInv, ForeignAsThrown, FcAsThrown
  <2>7. RegisteredAsThrown'
    BY <2>1, <2>3, <2>4 DEF ExcInv, RegisteredAsThrown
  <2> QED
    BY <2>5, <2>6, <2>7 DEF ExcInv
<1> QED
  BY <1>3, <1>4

\* The invariant holds of every exception on its way.
THEOREM ExceptionInvariance == ExcSpec => []ExcInv
<1>1. ExcInv /\ [ExcNext]_excVars => ExcInv'
  <2>1. ASSUME ExcInv, UNCHANGED excVars PROVE ExcInv'
    BY <2>1 DEF excVars, ExcInv, ExcType, ForeignAsThrown, FcAsThrown, RegisteredAsThrown
  <2> QED
    BY <2>1, ThrowStep, RethrowStep, GoneStep, CopyStep, DynamicRethrowStep DEF ExcNext
<1> QED
  BY <1>1, ExcInitInv, PTL DEF ExcSpec

\* The macros, dynamic_copy_exception, the variants and the factory: log, type
\* and code of an exception survive every chain of frames, copies, conversions
\* and rethrows, and no frame hides a bad_alloc.
THEOREM ExceptionSurvives == ExcSpec => []TrailSurvives
<1>1. ExcInv => TrailSurvives
  <2> SUFFICES ASSUME ExcInv PROVE TrailSurvives
    OBVIOUS
  <2>1. LogIsTrail
    BY DEF ExcInv, FcAsThrown, LogIsTrail
  <2>2. TypeSurvives
    BY DEF ExcInv, RegisteredAsThrown, TypeSurvives
  <2>3. CodeSurvives
    BY DEF ExcInv, FcAsThrown, ForeignAsThrown, CodeSurvives, Foreign
  <2> QED
    BY <2>1, <2>2, <2>3 DEF TrailSurvives
<1> QED
  BY <1>1, ExceptionInvariance, PTL

-----------------------------------------------------------------------------
(* The appenders: packets. *)

\* How many bytes of a message of m bytes its first q packets carry.
Upto(m, q) == IF q * Body <= m THEN q * Body ELSE m

\* The datagram with packet q of a message, and that of a message that is not split.
Packet(m, q) == Datagram(m, q % Chunk, total_number_of_packets(m) % Chunk, Upto(m, q), Upto(m, q + 1))
Whole(m) == Datagram(m, 0, 0, 0, m)

\* The number of packets of a message that is split.
LEMMA PacketsOf ==
  ASSUME NEW m \in Nat, m > 0
  PROVE  /\ total_number_of_packets(m) \in Nat \ {0}
         /\ (total_number_of_packets(m) - 1) * Body < m /\ m <= total_number_of_packets(m) * Body
<1> DEFINE t == total_number_of_packets(m)
           r == (m + Body - 1) % Body
<1>0. Body \in Nat \ {0}
  BY LogAppendersAssumption
<1>1. t \in Int /\ r \in 0..(Body - 1) /\ m + Body - 1 = Body * t + r
  BY <1>0 DEF total_number_of_packets
<1> HIDE DEF t, r
<1>2. Body * (t - 1) = Body * t - Body
  BY <1>0, <1>1
<1>3. Body * (t - 1) < m /\ m <= Body * t
  BY <1>0, <1>1, <1>2
<1>4. Body * t = t * Body /\ Body * (t - 1) = (t - 1) * Body
  BY <1>0, <1>1
<1>5. t >= 1
  <2>1. SUFFICES ASSUME t <= 0 PROVE FALSE
    BY <1>1
  <2>2. Body * t <= 0
    BY <2>1, <1>0, <1>1
  <2> QED
    BY <2>2, <1>3, <1>0, <1>1
<1> QED
  BY <1>1, <1>3, <1>4, <1>5 DEF t

\* Products with the size of a packet are in order.
LEMMA PacketOrder ==
  ASSUME NEW p \in Nat, NEW q \in Nat
  PROVE  /\ p * Body \in Nat /\ (p + 1) * Body = p * Body + Body /\ 0 * Body = 0
         /\ p < q <=> p * Body < q * Body
         /\ p < q => (p + 1) * Body <= q * Body
<1>0. Body \in Nat \ {0}
  BY LogAppendersAssumption
<1>1. p < q => (p + 1) * Body <= q * Body
  <2>1. SUFFICES ASSUME p < q PROVE (p + 1) * Body <= q * Body
    OBVIOUS
  <2>2. PICK d \in Nat : q = p + 1 + d
    <3>1. q - p - 1 \in Nat /\ q = p + 1 + (q - p - 1)
      BY <2>1
    <3> QED
      BY <3>1
  <2>3. q * Body = (p + 1) * Body + d * Body /\ d * Body >= 0
    BY <2>2, <1>0
  <2> QED
    BY <2>3, <1>0
<1>2. q <= p => q * Body <= p * Body
  <2>1. SUFFICES ASSUME q <= p PROVE q * Body <= p * Body
    OBVIOUS
  <2>2. PICK d \in Nat : p = q + d
    <3>1. p - q \in Nat /\ p = q + (p - q)
      BY <2>1
    <3> QED
      BY <3>1
  <2>3. p * Body = q * Body + d * Body /\ d * Body >= 0
    BY <2>2, <1>0
  <2> QED
    BY <2>3, <1>0
<1>3. p * Body \in Nat /\ (p + 1) * Body = p * Body + Body /\ 0 * Body = 0 /\ q * Body \in Nat
  BY <1>0
<1> QED
  BY <1>0, <1>1, <1>2, <1>3

\* A packet carries at most Body bytes, and the last ends the message.
LEMMA PacketBytes ==
  ASSUME NEW m \in Nat, ~Fits(m), NEW q \in Nat
  PROVE  /\ total_number_of_packets(m) \in Nat \ {0, 1}
         /\ Upto(m, q) \in Nat /\ Upto(m, 0) = 0
         /\ Upto(m, q + 1) - Upto(m, q) <= Body
         /\ Upto(m, q) >= m <=> q >= total_number_of_packets(m)
         /\ Upto(m, q) # m => Upto(m, q) = q * Body /\ q < total_number_of_packets(m)
         /\ q < total_number_of_packets(m) => Upto(m, q) = q * Body /\ Upto(m, q) < m
         /\ q < total_number_of_packets(m) => Upto(m, q + 1) = Upto(m, q) + bytes_to_send(m, Upto(m, q))
<1> DEFINE t == total_number_of_packets(m)
<1>0. Body \in Nat \ {0} /\ Header \in Nat /\ m > Body
  BY LogAppendersAssumption DEF Fits
<1>1. t \in Nat \ {0} /\ (t - 1) * Body < m /\ m <= t * Body
  BY PacketsOf, <1>0
<1>2. t # 1
  <2>1. 1 * Body = Body
    BY <1>0
  <2> QED
    BY <2>1, <1>0, <1>1
<1> HIDE DEF t
<1>3. q * Body \in Nat /\ (q + 1) * Body = q * Body + Body /\ 0 * Body = 0
  BY PacketOrder
<1>4. q >= t => q * Body >= m
  <2>1. ~(q < t) => ~(q * Body < t * Body)
    BY PacketOrder, <1>1
  <2>2. t * Body \in Nat
    BY PacketOrder, <1>1
  <2> QED
    BY <2>1, <2>2, <1>1, <1>3
<1>5. q < t => q * Body < m
  <2>1. SUFFICES ASSUME q < t PROVE q * Body < m
    OBVIOUS
  <2>2. t - 1 \in Nat /\ ~(t - 1 < q)
    BY <2>1, <1>1
  <2>3. ~((t - 1) * Body < q * Body) /\ (t - 1) * Body \in Nat
    BY <2>2, PacketOrder
  <2> QED
    BY <2>3, <1>1, <1>3
<1>6. Upto(m, q) \in Nat /\ Upto(m, 0) = 0 /\ Upto(m, q + 1) - Upto(m, q) <= Body
  BY <1>0, <1>3 DEF Upto
<1>7. Upto(m, q) >= m <=> q >= t
  BY <1>0, <1>1, <1>3, <1>4, <1>5 DEF Upto
<1>8. Upto(m, q) # m => Upto(m, q) = q * Body /\ q < t
  BY <1>0, <1>1, <1>3, <1>4, <1>5 DEF Upto
<1>9. q < t => Upto(m, q) = q * Body /\ Upto(m, q) < m
  BY <1>0, <1>1, <1>3, <1>4, <1>5 DEF Upto
<1>10. q < t => Upto(m, q + 1) = Upto(m, q) + bytes_to_send(m, Upto(m, q))
  <2>1. SUFFICES ASSUME q < t PROVE Upto(m, q + 1) = Upto(m, q) + bytes_to_send(m, Upto(m, q))
    OBVIOUS
  <2> DEFINE u == Upto(m, q)
  <2>2. u = q * Body /\ u < m /\ u \in Nat
    BY <2>1, <1>9, <1>6
  <2>3. Upto(m, q + 1) = IF u + Body <= m THEN u + Body ELSE m
    BY <2>2, <1>3 DEF Upto
  <2> HIDE DEF u
  <2>4. bytes_to_send(m, u) = IF m - u <= Body THEN m - u ELSE Body
    BY <2>2, <1>0 DEF bytes_to_send, Min
  <2> QED
    BY <2>2, <2>3, <2>4, <1>0 DEF u
<1> QED
  BY <1>1, <1>2, <1>6, <1>7, <1>8, <1>9, <1>10 DEF t

-----------------------------------------------------------------------------
(* The appenders: the invariant. *)

\* Every datagram is the whole of a message that was logged, or a packet of it.
Carries(d) == \E m \in Range(logged) :
  IF Fits(m) THEN d = Whole(m)
  ELSE \E q \in 0..(total_number_of_packets(m) - 1) : d = Packet(m, q)
DatagramsInv == \A d \in wire \cup pending : Carries(d)

\* A message that is split is sent packet by packet.
JobInv ==
  /\ job \in [at : {"idle", "gelf", "dmlog"}, m : Nat, bytes : Nat, packets : Nat]
  /\ logged \in Seq(Sizes) /\ (job.at # "idle" => logged # << >>)
  /\ job.at = "gelf" => job.m \in Range(logged)
  /\ job.at = "gelf" /\ ~Fits(job.m) =>
       job.packets <= total_number_of_packets(job.m) /\ job.bytes = Upto(job.m, job.packets)
  /\ job.at = "dmlog" => job.bytes <= LineSize

\* In the file a byte is followed by the next of its line, the last by the first of the next line.
Chained(s) ==
  \A i \in 2..Len(s) : s[i] = (IF s[i - 1][2] = LineSize THEN <<s[i - 1][1] + 1, 1>>
                               ELSE <<s[i - 1][1], s[i - 1][2] + 1>>)
\* The file ends after n lines and b bytes of the next.
Ends(s, n, b) ==
  IF n = 0 /\ b = 0 THEN s = << >>
  ELSE s # << >> /\ s[Len(s)] = IF b = 0 THEN <<n, LineSize>> ELSE <<n + 1, b>>
FileInv ==
  /\ out \in Seq(Nat \X (1..LineSize)) /\ is_stopped \in BOOLEAN
  /\ Chained(out)
  /\ ~is_stopped => CASE job.at = "idle" -> Ends(out, Len(logged), 0)
                   [] job.at = "gelf" -> Ends(out, Len(logged) - 1, 0)
                   [] job.at = "dmlog" -> Ends(out, Len(logged) - 1, job.bytes)

AppInv == JobInv /\ DatagramsInv /\ FileInv

\* Nothing is logged at first.
LEMMA AppStarts == ASSUME AppInit PROVE AppInv
<1>1. JobInv
  BY DEF AppInit, JobInv, NoJob
<1>2. DatagramsInv
  BY DEF AppInit, DatagramsInv
<1>3. out = << >> /\ Len(out) = 0 /\ is_stopped = FALSE /\ job.at = "idle" /\ Len(logged) = 0
  BY DEF AppInit, NoJob
<1>4. FileInv
  <2>1. out \in Seq(Nat \X (1..LineSize))
    BY <1>3
  <2>2. Chained(out)
    BY <1>3 DEF Chained
  <2>3. Ends(out, Len(logged), 0)
    BY <1>3 DEF Ends
  <2> QED
    BY <2>1, <2>2, <2>3, <1>3 DEF FileInv
<1> QED
  BY <1>1, <1>2, <1>4 DEF AppInv

\* Sizes are those of messages, and LineSize of a line.
LEMMA AppConstants == Sizes \subseteq Nat /\ LineSize \in Nat \ {0} /\ Body \in Nat \ {0} /\ Chunk \in Nat \ {0} /\ Header \in Nat
  BY LogAppendersAssumption

\* A step that logs and sends nothing keeps the datagrams.
LEMMA DatagramsKept ==
  ASSUME DatagramsInv, logged' = logged, NEW d, Carries(d), wire' \cup pending' \subseteq wire \cup pending \cup {d}
  PROVE  DatagramsInv'
<1>1. \A e : Carries(e) => Carries(e)'
  BY DEF Carries
<1> QED
  BY <1>1 DEF DatagramsInv

\* Messages that were logged stay so.
LEMMA LoggedGrows ==
  ASSUME NEW m \in Sizes, logged \in Seq(Sizes), logged' = Append(logged, m)
  PROVE  /\ logged' \in Seq(Sizes) /\ Len(logged') = Len(logged) + 1 /\ logged' # << >>
         /\ m \in Range(logged') /\ Range(logged) \subseteq Range(logged')
<1>1. logged' \in Seq(Sizes) /\ Len(logged') = Len(logged) + 1 /\ logged'[Len(logged) + 1] = m
  OBVIOUS
<1>2. \A i \in 1..Len(logged) : logged'[i] = logged[i]
  OBVIOUS
<1>3. DOMAIN logged = 1..Len(logged) /\ DOMAIN logged' = 1..(Len(logged) + 1) /\ Len(logged) \in Nat
  BY <1>1
<1>4. m \in Range(logged')
  BY <1>1, <1>3 DEF Range
<1>5. Range(logged) \subseteq Range(logged')
  BY <1>2, <1>3 DEF Range
<1> QED
  BY <1>1, <1>3, <1>4, <1>5

\* initialize makes the socket.
LEMMA InitializeOK == ASSUME AppInv, initialize PROVE AppInv'
  BY DEF AppInv, initialize, JobInv, DatagramsInv, Carries, FileInv

\* A message is logged.
LEMMA LogOK == ASSUME AppInv, NEW m \in Sizes, log_message(m) PROVE AppInv'
<1>1. /\ job.at = "idle" /\ logged' = Append(logged, m) /\ logged \in Seq(Sizes) /\ Len(logged) \in Nat
      /\ UNCHANGED <<pending, wire, out, is_stopped>>
  BY DEF AppInv, JobInv, log_message
<1>2. /\ job'.at \in {"gelf", "dmlog"} /\ job'.m = m /\ job'.bytes = 0 /\ job'.packets = 0
      /\ job' \in [at : {"idle", "gelf", "dmlog"}, m : Nat, bytes : Nat, packets : Nat]
  BY AppConstants DEF log_message, NoJob
<1>3. /\ logged' \in Seq(Sizes) /\ Len(logged') = Len(logged) + 1 /\ logged' # << >>
      /\ m \in Range(logged') /\ Range(logged) \subseteq Range(logged')
  BY <1>1, LoggedGrows
<1>4. JobInv'
  <2>1. ~Fits(m) => job'.packets <= total_number_of_packets(m) /\ job'.bytes = Upto(m, job'.packets)
    BY <1>2, PacketBytes, AppConstants
  <2> QED
    BY <2>1, <1>2, <1>3, AppConstants DEF JobInv, Fits, Upto, total_number_of_packets
<1>5. DatagramsInv'
  BY <1>1, <1>3 DEF AppInv, DatagramsInv, Carries
<1>6. FileInv'
  <2>1. ~is_stopped => Ends(out, Len(logged') - 1, 0)
    BY <1>1, <1>3 DEF AppInv, FileInv
  <2>2. Ends(out, Len(logged') - 1, 0) = Ends(out, Len(logged) - 1, 0)'
    BY <1>1 DEF Ends
  <2> QED
    BY <2>1, <1>1, <1>2 DEF AppInv, FileInv, Ends, Chained
<1> QED
  BY <1>4, <1>5, <1>6 DEF AppInv

\* A datagram is sent, at once, later or not at all.
LEMMA GelfSendOK == ASSUME AppInv, GelfSend PROVE AppInv'
<1> DEFINE m == job.m
           q == job.packets
<1>1. /\ job.at = "gelf" /\ m \in Range(logged) /\ m \in Nat /\ q \in Nat /\ job.bytes \in Nat
      /\ logged' = logged /\ out' = out /\ is_stopped' = is_stopped
      /\ wire' \cup pending' \subseteq wire \cup pending \cup {NextDatagram}
  BY DEF AppInv, JobInv, GelfSend, send_to
<1>2. ~Fits(m) => /\ q < total_number_of_packets(m) /\ job.bytes = Upto(m, q)
                  /\ Upto(m, q + 1) = job.bytes + bytes_to_send(m, job.bytes)
                  /\ total_number_of_packets(m) \in Nat /\ Upto(m, q + 1) \in Nat
  <2>1. SUFFICES ASSUME ~Fits(m)
                 PROVE  /\ q < total_number_of_packets(m) /\ job.bytes = Upto(m, q)
                        /\ Upto(m, q + 1) = job.bytes + bytes_to_send(m, job.bytes)
                        /\ total_number_of_packets(m) \in Nat /\ Upto(m, q + 1) \in Nat
    OBVIOUS
  <2>2. job.bytes < m /\ job.bytes = Upto(m, q)
    BY <2>1, <1>1 DEF GelfSend, AppInv, JobInv
  <2>3. q < total_number_of_packets(m) /\ total_number_of_packets(m) \in Nat
    BY <2>1, <2>2, <1>1, PacketBytes
  <2>4. Upto(m, q + 1) \in Nat
    BY <2>1, <1>1, PacketBytes
  <2> QED
    BY <2>1, <2>2, <2>3, <2>4, <1>1, PacketBytes
<1>3. Carries(NextDatagram)
  <2>1. Fits(m) => NextDatagram = Whole(m)
    BY DEF NextDatagram, Whole
  <2>2. ~Fits(m) => NextDatagram = Packet(m, q) /\ q \in 0..(total_number_of_packets(m) - 1)
    BY <1>1, <1>2 DEF NextDatagram, Packet
  <2> QED
    BY <2>1, <2>2, <1>1 DEF Carries
<1>4. DatagramsInv'
  BY <1>1, <1>3, DatagramsKept DEF AppInv
<1>5. JobInv'
  <2>1. /\ job' = [job EXCEPT !.packets = job.packets + 1,
                              !.bytes = IF Fits(m) THEN m ELSE job.bytes + bytes_to_send(m, job.bytes)]
        /\ job \in [at : {"idle", "gelf", "dmlog"}, m : Nat, bytes : Nat, packets : Nat]
        /\ logged \in Seq(Sizes) /\ logged # << >>
    BY <1>1 DEF GelfSend, AppInv, JobInv
  <2>2. /\ job'.at = "gelf" /\ job'.m = m /\ job'.packets = q + 1
        /\ job'.bytes = IF Fits(m) THEN m ELSE Upto(m, q + 1)
    BY <2>1, <1>1, <1>2
  <2>3. job' \in [at : {"idle", "gelf", "dmlog"}, m : Nat, bytes : Nat, packets : Nat]
    <3> DEFINE b == IF Fits(m) THEN m ELSE job.bytes + bytes_to_send(m, job.bytes)
    <3>1. b \in Nat /\ q + 1 \in Nat
      BY <1>1, <1>2
    <3> HIDE DEF b
    <3>2. job' = [job EXCEPT !.packets = q + 1, !.bytes = b]
      BY <2>1 DEF b
    <3> QED
      BY <2>1, <3>1, <3>2
  <2>4. ~Fits(m) => q + 1 <= total_number_of_packets(m)
    BY <1>1, <1>2
  <2> QED
    BY <2>1, <2>2, <2>3, <2>4, <1>1 DEF JobInv, Fits, Upto, total_number_of_packets
<1>6. FileInv'
  <2>1. job'.at = "gelf"
    BY <1>1 DEF GelfSend, AppInv, JobInv
  <2> QED
    BY <2>1, <1>1 DEF AppInv, FileInv, Ends, Chained
<1> QED
  BY <1>4, <1>5, <1>6 DEF AppInv

\* The next appender has its turn.
LEMMA GelfDoneOK == ASSUME AppInv, GelfDone PROVE AppInv'
<1>1. /\ job.at = "gelf" /\ job' = [job EXCEPT !.at = "dmlog", !.bytes = 0, !.packets = 0]
      /\ job \in [at : {"idle", "gelf", "dmlog"}, m : Nat, bytes : Nat, packets : Nat]
      /\ UNCHANGED <<pending, wire, out, is_stopped, logged>>
  BY DEF GelfDone, AppInv, JobInv
<1>2. job' \in [at : {"idle", "gelf", "dmlog"}, m : Nat, bytes : Nat, packets : Nat] /\ job'.at = "dmlog" /\ job'.bytes = 0
  BY <1>1
<1>3. JobInv'
  BY <1>1, <1>2, AppConstants DEF AppInv, JobInv
<1>4. DatagramsInv'
  BY <1>1 DEF AppInv, DatagramsInv, Carries
<1>5. FileInv'
  BY <1>1, <1>2 DEF AppInv, FileInv, Ends, Chained
<1> QED
  BY <1>3, <1>4, <1>5 DEF AppInv

\* A late datagram is sent or dropped.
LEMMA AsyncSentOK == ASSUME AppInv, NEW d \in pending, AsyncSent(d) PROVE AppInv'
<1>1. /\ wire' \cup pending' \subseteq wire \cup pending \cup {d} /\ UNCHANGED <<job, out, is_stopped, logged>>
  BY DEF AsyncSent
<1>2. DatagramsInv'
  BY <1>1, DatagramsKept DEF AppInv, DatagramsInv
<1>3. JobInv'
  BY <1>1 DEF AppInv, JobInv, Fits, Upto, total_number_of_packets
<1>4. FileInv'
  BY <1>1 DEF AppInv, FileInv, Ends, Chained
<1> QED
  BY <1>2, <1>3, <1>4 DEF AppInv

\* dmlog has written the line, or has stopped.
LEMMA DmlogDoneOK == ASSUME AppInv, DmlogDone PROVE AppInv'
<1>1. /\ job.at = "dmlog" /\ (is_stopped \/ job.bytes >= LineSize) /\ job' = NoJob /\ job.bytes \in Nat
      /\ job.bytes <= LineSize /\ logged \in Seq(Sizes) /\ logged # << >>
      /\ UNCHANGED <<pending, wire, out, is_stopped, logged>>
  BY DEF DmlogDone, AppInv, JobInv
<1>2. JobInv'
  BY <1>1 DEF JobInv, NoJob
<1>3. DatagramsInv'
  BY <1>1 DEF AppInv, DatagramsInv, Carries
<1>4. FileInv'
  <2>1. ~is_stopped => Ends(out, Len(logged) - 1, job.bytes) /\ job.bytes = LineSize
    BY <1>1, AppConstants DEF AppInv, FileInv
  <2>2. Len(logged) \in Nat \ {0}
    BY <1>1, EmptySeq
  <2>3. ~is_stopped => Ends(out, Len(logged), 0)
    BY <2>1, <2>2, AppConstants DEF Ends
  <2>4. job'.at = "idle"
    BY <1>1 DEF NoJob
  <2> QED
    BY <2>3, <2>4, <1>1 DEF AppInv, FileInv, Ends, Chained
<1> QED
  BY <1>2, <1>3, <1>4 DEF AppInv

\* What is written goes on where the file ended.
LEMMA LineGoesOn ==
  ASSUME NEW s \in Seq(Nat \X (1..LineSize)), NEW n \in Nat \ {0}, NEW b \in Nat, NEW w \in Nat,
         b < LineSize, b + w <= LineSize, Chained(s), Ends(s, n - 1, b),
         NEW e, e = s \o Line(n, b, w)
  PROVE  e \in Seq(Nat \X (1..LineSize)) /\ Chained(e) /\ Ends(e, n - 1, b + w)
<1> DEFINE line == Line(n, b, w)
           k == Len(s)
<1>0. LineSize \in Nat
  BY AppConstants
<1>1. \A i \in 1..w : <<n, b + i>> \in Nat \X (1..LineSize)
  BY <1>0
<1>2. line = [i \in 1..w |-> <<n, b + i>>]
  BY DEF Line
<1> HIDE DEF line
<1> DEFINE D == Nat \X (1..LineSize)
<1>3. line \in Seq(D)
  <2>1. \A i \in 1..w : <<n, b + i>> \in D
    BY <1>1
  <2> HIDE DEF D
  <2>2. line \in [1..w -> D]
    BY <2>1, <1>2
  <2> QED
    BY <2>2, SeqDef
<1>4. Len(line) = w
  BY <1>2
<1>5. k \in Nat /\ e \in Seq(Nat \X (1..LineSize)) /\ Len(e) = k + w
  <2>1. s \in Seq(D) /\ e = s \o line
    BY DEF line
  <2> HIDE DEF D
  <2>2. k \in Nat /\ e \in Seq(D) /\ Len(e) = k + w
    BY <2>1, <1>3, <1>4
  <2> QED
    BY <2>2 DEF D
<1>6. \A i \in 1..k : e[i] = s[i]
  BY <1>3, <1>4 DEF line
<1>7. \A i \in 1..w : e[k + i] = <<n, b + i>>
  <2>1. \A i \in 1..w : e[k + i] = line[i]
    BY <1>3, <1>4 DEF line
  <2> QED
    BY <2>1, <1>2
<1>8. k > 0 => (b = 0 => s[k] = <<n - 1, LineSize>>) /\ (b > 0 => s[k] = <<n, b>>)
  <2>1. SUFFICES ASSUME k > 0 PROVE (b = 0 => s[k] = <<n - 1, LineSize>>) /\ (b > 0 => s[k] = <<n, b>>)
    OBVIOUS
  <2>2. s # << >>
    BY <2>1
  <2>3. n - 1 + 1 = n
    OBVIOUS
  <2> QED
    BY <2>2, <2>3 DEF Ends
<1> HIDE DEF k
<1>9. Chained(e)
  <2>1. SUFFICES ASSUME NEW i \in 2..(k + w)
                 PROVE  e[i] = (IF e[i - 1][2] = LineSize THEN <<e[i - 1][1] + 1, 1>>
                                ELSE <<e[i - 1][1], e[i - 1][2] + 1>>)
    BY <1>5 DEF Chained
  <2>0. i \in Nat /\ i >= 2 /\ i <= k + w
    BY <1>5
  <2>2. CASE i <= k
    <3>1. i \in 2..k /\ i \in 1..k /\ i - 1 \in 1..k
      BY <2>2, <2>0, <1>5
    <3>2. s[i] = (IF s[i - 1][2] = LineSize THEN <<s[i - 1][1] + 1, 1>> ELSE <<s[i - 1][1], s[i - 1][2] + 1>>)
      BY <3>1 DEF Chained, k
    <3> QED
      BY <3>1, <3>2, <1>6
  <2>3. CASE i = k + 1
    <3>1. k > 0 /\ k \in 1..k /\ 1 \in 1..w /\ i - 1 = k
      BY <2>3, <2>0, <1>5
    <3>2. e[i] = <<n, b + 1>> /\ e[i - 1] = s[k]
      BY <3>1, <2>3, <1>6, <1>7
    <3>3. CASE b = 0
      <4>1. s[k] = <<n - 1, LineSize>>
        BY <3>1, <3>3, <1>8
      <4>2. n - 1 + 1 = n /\ b + 1 = 1
        BY <3>3
      <4> QED
        BY <4>1, <4>2, <3>2
    <3>4. CASE b > 0
      <4>1. s[k] = <<n, b>> /\ b # LineSize
        BY <3>1, <3>4, <1>8, <1>0
      <4> QED
        BY <4>1, <3>2
    <3>5. b = 0 \/ b > 0
      OBVIOUS
    <3> QED
      BY <3>3, <3>4, <3>5, Zenon
  <2>4. CASE i > k + 1
    <3> DEFINE j == i - k
    <3>1. j \in 1..w /\ j - 1 \in 1..w /\ i = k + j /\ i - 1 = k + (j - 1)
      BY <2>4, <2>0, <1>5
    <3> HIDE DEF j
    <3>2. e[i] = <<n, b + j>> /\ e[i - 1] = <<n, b + (j - 1)>>
      BY <3>1, <1>7
    <3>3. b + (j - 1) # LineSize /\ b + (j - 1) + 1 = b + j
      BY <3>1, <1>0
    <3> QED
      BY <3>2, <3>3
  <2>5. i <= k \/ i = k + 1 \/ i > k + 1
    BY <2>0, <1>5
  <2> QED
    BY <2>2, <2>3, <2>4, <2>5, Zenon
<1>10. Ends(e, n - 1, b + w)
  <2>1. CASE w = 0
    <3>1. e = s
      BY <2>1, <1>5, <1>6, SeqEqual DEF k
    <3>2. b + w = b
      BY <2>1
    <3> QED
      BY <3>1, <3>2
  <2>2. CASE w > 0
    <3>1. w \in 1..w /\ k + w > 0
      BY <2>2, <1>5
    <3>2. e[k + w] = <<n, b + w>> /\ Len(e) = k + w
      BY <3>1, <1>5, <1>7
    <3>3. e # << >>
      BY <3>1, <3>2
    <3>4. b + w # 0 /\ n - 1 + 1 = n
      BY <2>2
    <3> QED
      BY <3>2, <3>3, <3>4 DEF Ends
  <2> QED
    BY <2>1, <2>2
<1> QED
  BY <1>5, <1>9, <1>10

\* fwrite writes some of the rest of the line.
LEMMA FwriteOK ==
  ASSUME AppInv, NEW written \in 0..(LineSize - job.bytes), NEW eintr \in BOOLEAN, fwrite(written, eintr)
  PROVE  AppInv'
<1> DEFINE n == Len(logged)
           b == job.bytes
<1>1. /\ job.at = "dmlog" /\ is_stopped = FALSE /\ b < LineSize /\ b \in Nat
      /\ job \in [at : {"idle", "gelf", "dmlog"}, m : Nat, bytes : Nat, packets : Nat]
      /\ logged \in Seq(Sizes) /\ logged # << >>
  BY DEF fwrite, AppInv, JobInv, FileInv
<1>2. /\ out' = out \o Line(n, b, written) /\ is_stopped' = (written = 0 /\ ~eintr)
      /\ job' = [job EXCEPT !.bytes = b + written]
      /\ UNCHANGED <<gelf, pending, wire, logged>>
  BY DEF fwrite, Rest
<1>3. n \in Nat \ {0}
  BY <1>1, EmptySeq
<1>4. written \in Nat /\ b + written \in Nat /\ b + written <= LineSize
  <2>1. LineSize \in Nat
    BY AppConstants
  <2> QED
    BY <2>1, <1>1
<1>5. /\ job'.at = "dmlog" /\ job'.bytes = b + written
      /\ job' \in [at : {"idle", "gelf", "dmlog"}, m : Nat, bytes : Nat, packets : Nat]
  BY <1>1, <1>2, <1>4
<1>6. JobInv'
  BY <1>1, <1>2, <1>4, <1>5 DEF JobInv
<1>7. DatagramsInv'
  BY <1>2 DEF AppInv, DatagramsInv, Carries
<1>8. out \in Seq(Nat \X (1..LineSize)) /\ Chained(out) /\ Ends(out, n - 1, b)
  BY <1>1 DEF AppInv, FileInv
<1>9. out' \in Seq(Nat \X (1..LineSize)) /\ Chained(out') /\ Ends(out', n - 1, b + written)
  <2> HIDE DEF n, b
  <2> QED
    BY <1>1, <1>2, <1>3, <1>4, <1>8, LineGoesOn
<1>10. FileInv'
  <2>1. is_stopped' \in BOOLEAN /\ Len(logged') = n
    BY <1>2
  <2>2. Chained(out)' /\ Ends(out', Len(logged') - 1, job'.bytes)
    BY <2>1, <1>5, <1>9 DEF Chained
  <2> QED
    BY <2>1, <2>2, <1>5, <1>9 DEF FileInv, Ends
<1> QED
  BY <1>6, <1>7, <1>10 DEF AppInv
\* A step of the appenders keeps the invariant,
LEMMA AppKeeps == ASSUME AppInv, AppNext PROVE AppInv'
  BY InitializeOK, LogOK, GelfSendOK, GelfDoneOK, AsyncSentOK, FwriteOK, DmlogDoneOK DEF AppNext
\* and so does one of another part.
LEMMA AppRests == ASSUME AppInv, UNCHANGED appVars PROVE AppInv'
<1>1. UNCHANGED <<job, pending, wire, out, is_stopped, logged>>
  BY DEF appVars
<1>2. JobInv'
  BY <1>1 DEF AppInv, JobInv, Fits, Upto, total_number_of_packets
<1>3. DatagramsInv'
  BY <1>1 DEF AppInv, DatagramsInv, Carries
<1>4. FileInv'
  BY <1>1 DEF AppInv, FileInv, Ends, Chained
<1> QED
  BY <1>2, <1>3, <1>4 DEF AppInv

-----------------------------------------------------------------------------
(* The appenders: what a server and a file hold. *)

\* Datagrams of one message are alike in their count.
LEMMA DatagramIs ==
  ASSUME AppInv, NEW d \in wire \cup pending
  PROVE  /\ d.id \in Range(logged) /\ d.id \in Nat
         /\ Fits(d.id) => d = Whole(d.id)
         /\ ~Fits(d.id) => \E q \in 0..(total_number_of_packets(d.id) - 1) : d = Packet(d.id, q)
<1>1. PICK m \in Range(logged) :
        IF Fits(m) THEN d = Whole(m) ELSE \E q \in 0..(total_number_of_packets(m) - 1) : d = Packet(m, q)
  BY DEF AppInv, DatagramsInv, Carries
<1>2. d.id = m
  BY <1>1 DEF Whole, Packet, Datagram
<1>3. m \in Nat
  <2>1. logged \in Seq(Sizes)
    BY DEF AppInv, JobInv
  <2>2. PICK i \in DOMAIN logged : m = logged[i]
    BY DEF Range
  <2>3. logged[i] \in Sizes
    BY <2>1, <2>2
  <2> QED
    BY <2>2, <2>3, AppConstants
<1> QED
  BY <1>1, <1>2, <1>3

\* send_message's chunks: what a server puts together is a message that was
\* logged, and its datagrams meet from the first byte to the last.
LEMMA GelfIsWhole == ASSUME AppInv PROVE GelfReassembles
<1>1. SUFFICES ASSUME NEW d \in wire, total_number_of_packets(d.id) < Chunk, Assembled(d.id, d.count)
               PROVE  LET got == {e \in wire : e.id = d.id /\ e.count = d.count} IN
                      /\ d.id \in Range(logged) /\ \E e \in got : e.from = 0
                      /\ \A e \in got : e.to # d.id => \E f \in got : f.seq = e.seq + 1 /\ f.from = e.to
  BY DEF GelfReassembles
<1> DEFINE m == d.id
           t == total_number_of_packets(m)
           got == {e \in wire : e.id = m /\ e.count = d.count}
<1>2. m \in Range(logged) /\ m \in Nat
  BY DatagramIs
<1>3. CASE Fits(m)
  <2>1. \A e \in got : e = Whole(m)
    BY <1>3, DatagramIs
  <2>2. d \in got
    OBVIOUS
  <2> QED
    BY <2>1, <2>2, <1>2 DEF Whole, Datagram
<1>4. CASE ~Fits(m)
  <2>1. t \in Nat \ {0, 1} /\ t < Chunk /\ Chunk \in Nat
    BY <1>1, <1>2, <1>4, PacketBytes, AppConstants
  <2> HIDE DEF t
  <2>2. ASSUME NEW e \in got
        PROVE  /\ e.seq \in 0..(t - 1) /\ e.count = t /\ e.from = Upto(m, e.seq) /\ e.to = Upto(m, e.seq + 1)
    <3>1. PICK q \in 0..(t - 1) : e = Packet(m, q)
      BY <1>4, DatagramIs DEF t
    <3>2. q % Chunk = q /\ t % Chunk = t
      BY <2>1
    <3> QED
      BY <3>1, <3>2 DEF Packet, Datagram, t
  <2>3. d \in got
    OBVIOUS
  <2>4. \A q \in 0..(t - 1) : \E e \in got : e.seq = q
    <3>1. d.count = t /\ t > 0
      BY <2>1, <2>2, <2>3
    <3> QED
      BY <3>1, <1>1 DEF Assembled
  <2>5. \E e \in got : e.from = 0
    <3>1. PICK e \in got : e.seq = 0
      BY <2>1, <2>4
    <3>2. Upto(m, 0) = 0
      BY <1>2, <1>4, PacketBytes
    <3> QED
      BY <3>1, <3>2, <2>2
  <2>6. ASSUME NEW e \in got, e.to # m PROVE \E f \in got : f.seq = e.seq + 1 /\ f.from = e.to
    <3>1. e.seq \in 0..(t - 1) /\ e.to = Upto(m, e.seq + 1)
      BY <2>2, <2>6
    <3>2. e.seq + 1 \in Nat
      BY <3>1, <2>1
    <3>3. e.seq + 1 < t
      BY <3>1, <3>2, <2>6, <1>2, <1>4, PacketBytes DEF t
    <3>4. PICK f \in got : f.seq = e.seq + 1
      BY <3>2, <3>3, <2>1, <2>4
    <3> QED
      BY <3>1, <3>4, <2>2
  <2> QED
    BY <1>2, <2>5, <2>6
<1> QED
  BY <1>3, <1>4

\* The assertion on the number of packets holds, and no datagram is too large.
LEMMA PacketsAreCounted == ASSUME AppInv PROVE PacketsCounted
<1>1. job.at = "gelf" /\ ~Fits(job.m) /\ job.bytes >= job.m => job.packets = total_number_of_packets(job.m)
  <2>1. SUFFICES ASSUME job.at = "gelf", ~Fits(job.m), job.bytes >= job.m PROVE job.packets = total_number_of_packets(job.m)
    OBVIOUS
  <2>2. /\ job.m \in Nat /\ job.packets \in Nat /\ job.packets <= total_number_of_packets(job.m)
        /\ job.bytes = Upto(job.m, job.packets)
    BY <2>1 DEF AppInv, JobInv
  <2>3. job.packets >= total_number_of_packets(job.m) /\ total_number_of_packets(job.m) \in Nat
    BY <2>1, <2>2, PacketBytes
  <2> QED
    BY <2>2, <2>3
<1>2. ASSUME NEW d \in wire \cup pending PROVE d.to - d.from + (IF d.count = 0 THEN 0 ELSE Header) <= Body + Header
  <2>1. d.id \in Nat
    BY DatagramIs
  <2>2. CASE Fits(d.id)
    <3>1. d.to = d.id /\ d.from = 0 /\ d.count = 0
      BY <2>2, DatagramIs DEF Whole, Datagram
    <3> QED
      BY <3>1, <2>1, <2>2, AppConstants DEF Fits
  <2>3. CASE ~Fits(d.id)
    <3>1. PICK q \in 0..(total_number_of_packets(d.id) - 1) : d = Packet(d.id, q)
      BY <2>3, DatagramIs
    <3>2. q \in Nat /\ q + 1 \in Nat
      BY <2>1, <2>3, PacketBytes
    <3>3. Upto(d.id, q + 1) - Upto(d.id, q) <= Body /\ Upto(d.id, q) \in Nat /\ Upto(d.id, q + 1) \in Nat
      BY <3>2, <2>1, <2>3, PacketBytes
    <3>4. d.to = Upto(d.id, q + 1) /\ d.from = Upto(d.id, q)
      BY <3>1 DEF Packet, Datagram
    <3> QED
      BY <3>3, <3>4, AppConstants
  <2> QED
    BY <2>2, <2>3
<1> QED
  BY <1>1, <1>2 DEF PacketsCounted

\* dmlog: lines are whole and in order; only the last may be cut off.
LEMMA DmlogIsWhole == ASSUME AppInv PROVE DmlogWhole
<1>1. SUFFICES ASSUME NEW i \in DOMAIN out
      PROVE  /\ i > 1 => out[i] = (IF out[i - 1][2] = LineSize THEN <<out[i - 1][1] + 1, 1>>
                                   ELSE <<out[i - 1][1], out[i - 1][2] + 1>>)
             /\ i = Len(out) /\ out[i][2] < LineSize => is_stopped \/ (job.at = "dmlog" /\ out[i][1] = Len(logged))
  BY DEF DmlogWhole
<1>2. out \in Seq(Nat \X (1..LineSize)) /\ i \in 1..Len(out) /\ Len(out) \in Nat
  BY <1>1 DEF AppInv, FileInv
<1>3. ASSUME i > 1 PROVE out[i] = (IF out[i - 1][2] = LineSize THEN <<out[i - 1][1] + 1, 1>>
                                   ELSE <<out[i - 1][1], out[i - 1][2] + 1>>)
  <2>1. i \in 2..Len(out)
    BY <1>2, <1>3
  <2> QED
    BY <2>1 DEF AppInv, FileInv, Chained
<1>4. ASSUME i = Len(out), out[i][2] < LineSize, ~is_stopped PROVE job.at = "dmlog" /\ out[i][1] = Len(logged)
  <2>1. out # << >> /\ Len(logged) \in Nat /\ job.at \in {"idle", "gelf", "dmlog"} /\ LineSize \in Nat /\ job.bytes \in Nat
    BY <1>2, AppConstants DEF AppInv, JobInv
  <2>2. \A n : Ends(out, n, 0) => out[i] = <<n, LineSize>>
    BY <2>1, <1>4 DEF Ends
  <2>3. \A n : ~Ends(out, n, 0)
    BY <2>2, <2>1, <1>4
  <2>4. job.at = "dmlog" /\ Ends(out, Len(logged) - 1, job.bytes)
    BY <2>1, <2>3, <1>4 DEF AppInv, FileInv
  <2>5. job.bytes # 0
    BY <2>3, <2>4
  <2>6. out[i] = <<Len(logged) - 1 + 1, job.bytes>>
    BY <2>1, <2>4, <2>5, <1>4 DEF Ends
  <2> QED
    BY <2>1, <2>4, <2>6
<1> QED
  BY <1>3, <1>4

\* What the invariant says of the appenders.
LEMMA AppendersAreWhole == ASSUME AppInv PROVE AppendersWhole
  BY GelfIsWhole, PacketsAreCounted, DmlogIsWhole DEF AppendersWhole

-----------------------------------------------------------------------------
(* The texts. *)

\* The inputs of the three calls.
Messages == [context : Context, format : {"fmt"}, data : {"args"}]
ConsoleLines ==
  [syslog : BOOLEAN, level : Level, levelName : 3..5, thread : Widths, file : Widths,
   line : 1..7, method : Widths, colon : {0, 1}]

\* The call the client made is one of the three.
CallInv ==
  \/ call = NoCall
  \/ call.name = "message" /\ call.in \in Messages
  \/ call.name = "console" /\ call.in \in ConsoleLines
  \/ call.name = "gelf"

\* No message has been made at first.
LEMMA CallStarts == ASSUME CallInit PROVE CallInv
  BY DEF CallInit, CallInv

\* A call makes messages and lines of the console.
LEMMA CallKeeps == ASSUME CallInv, LogTextNext PROVE CallInv'
<1>1. CASE ConvertMessage
  BY <1>1 DEF ConvertMessage, Calls, CallInv, Messages
<1>2. CASE WriteConsoleLine
  <2>1. PICK i \in ConsoleLines : call' = [name |-> "console", in |-> i]
    BY <1>2 DEF WriteConsoleLine, Calls, ConsoleLines
  <2>2. call'.name = "console" /\ call'.in = i
    BY <2>1
  <2> HIDE DEF ConsoleLines
  <2> QED
    BY <2>1, <2>2 DEF CallInv
<1>3. CASE MakeGelf
  <2>1. \E i : call' = [name |-> "gelf", in |-> i]
    BY <1>3 DEF MakeGelf, Calls
  <2>2. call'.name = "gelf"
    BY <2>1
  <2> QED
    BY <2>2 DEF CallInv
<1> QED
  BY <1>1, <1>2, <1>3 DEF LogTextNext

\* A context loses its task name in a variant and nothing else.
LEMMA ContextComesBack ==
  ASSUME NEW c \in Context
  PROVE  context_from_variant(context_to_variant(c)) = [c EXCEPT !.task_name = ""]
<1> DEFINE v == context_to_variant(c)
<1>1. c.level \in Level
  BY DEF Context
<1>2. DOMAIN v = {"level", "file"} \cup (IF c.context # "" THEN {"context"} ELSE {})
  BY DEF context_to_variant
<1>3. v["level"] = c.level /\ v["file"] = c.file /\ (c.context # "" => v["context"] = c.context)
  BY DEF context_to_variant, level_to_variant
<1>4. "task_name" \notin DOMAIN v /\ ("context" \in DOMAIN v <=> c.context # "")
  BY <1>2
<1>5. level_from_variant(v["level"]).value = c.level
  BY <1>1, <1>3 DEF level_from_variant, Ok
<1> HIDE DEF v
<1>6. context_from_variant(v) = [level |-> c.level, file |-> c.file, task_name |-> "", context |-> c.context]
  <2>1. (IF "task_name" \in DOMAIN v THEN v["task_name"] ELSE "") = ""
    BY <1>4
  <2>2. (IF "context" \in DOMAIN v THEN v["context"] ELSE "") = c.context
    BY <1>3, <1>4
  <2> QED
    BY <2>1, <2>2, <1>3, <1>5 DEF context_from_variant
<1>7. [c EXCEPT !.task_name = ""] = [level |-> c.level, file |-> c.file, task_name |-> "", context |-> c.context]
  <2> DEFINE e == [c EXCEPT !.task_name = ""]
  <2>1. e \in Context
    BY DEF Context
  <2>2. e.level = c.level /\ e.file = c.file /\ e.task_name = "" /\ e.context = c.context
    BY DEF Context
  <2> HIDE DEF e
  <2>3. e = [level |-> e.level, file |-> e.file, task_name |-> e.task_name, context |-> e.context]
    BY <2>1 DEF Context
  <2>4. e = [level |-> c.level, file |-> c.file, task_name |-> "", context |-> c.context]
    BY <2>2, <2>3
  <2> QED
    BY <2>4 DEF e
<1> QED
  BY <1>6, <1>7 DEF v

\* A log_message that was written to a variant is read back, without its task.
LEMMA MessagesComeBack == ASSUME CallInv PROVE MessageRoundTrip
<1>1. SUFFICES ASSUME call.name = "message"
               PROVE  message_from_variant(message_to_variant(call.in)) = [call.in EXCEPT !.context.task_name = ""]
  BY DEF MessageRoundTrip
<1> DEFINE m == call.in
<1>2. m \in Messages
  BY <1>1 DEF CallInv, NoCall
<1> HIDE DEF m
<1>3. m.context \in Context
  BY <1>2 DEF Messages
<1>4. message_from_variant(message_to_variant(m)) =
        [context |-> [m.context EXCEPT !.task_name = ""], format |-> m.format, data |-> m.data]
  BY <1>3, ContextComesBack DEF message_from_variant, message_to_variant
<1>5. [m EXCEPT !.context.task_name = ""] =
        [context |-> [m.context EXCEPT !.task_name = ""], format |-> m.format, data |-> m.data]
  <2> DEFINE d == [m.context EXCEPT !.task_name = ""]
  <2>1. [m EXCEPT !.context.task_name = ""] = [m EXCEPT !.context = d]
    OBVIOUS
  <2>2. m = [context |-> m.context, format |-> m.format, data |-> m.data]
    BY <1>2 DEF Messages
  <2> HIDE DEF d
  <2>3. [m EXCEPT !.context = d] = [context |-> d, format |-> m.format, data |-> m.data]
    BY <2>2
  <2> QED
    BY <2>1, <2>3 DEF d
<1> QED
  BY <1>4, <1>5 DEF m

\* A column has its width, whatever is in it.
LEMMA ColumnWidth ==
  ASSUME NEW s \in Nat, NEW len \in Nat
  PROVE  fixed_size(s, len) = s /\ Min({s, len}) \in Nat
<1>1. Min({s, len}) = IF s <= len THEN s ELSE len
  BY DEF Min
<1> QED
  BY <1>1 DEF fixed_size

\* The columns before the message on a console line have a fixed width.
LEMMA ConsoleIsAligned == ASSUME CallInv PROVE ConsoleAligned
<1>1. SUFFICES ASSUME call.name = "console", call.in.method > 0
               PROVE  LinePrefix(call.in) - syslog_header(call.in.syslog, call.in.level) = 93
  BY DEF ConsoleAligned
<1> DEFINE m == call.in
           h == syslog_header(m.syslog, m.level)
<1>2. m \in ConsoleLines
  BY <1>1 DEF CallInv, NoCall
<1>3. Widths \subseteq Nat
  BY LogAppendersAssumption DEF Widths
<1>a. m.method > 0
  BY <1>1
<1> HIDE DEF m
<1>4. /\ m.levelName \in Nat /\ m.thread \in Nat /\ m.file \in Nat /\ m.line \in Nat /\ m.method \in Nat
      /\ m.colon \in {0, 1} /\ m.method > 0
  <2>1. /\ m.levelName \in 3..5 /\ m.thread \in Widths /\ m.file \in Widths /\ m.line \in 1..7
        /\ m.method \in Widths /\ m.colon \in {0, 1}
    BY <1>2 DEF ConsoleLines
  <2>2. m.thread \in Nat /\ m.file \in Nat /\ m.method \in Nat
    BY <2>1, <1>3, Zenon
  <2>3. m.levelName \in Nat /\ m.line \in Nat
    BY <2>1
  <2> QED
    BY <2>1, <2>2, <2>3, <1>a, Zenon
<1>5. fixed_size(5, m.levelName) = 5 /\ fixed_size(9, m.thread) = 9 /\ fixed_size(6, m.line) = 6
  BY <1>4, ColumnWidth
<1>6. fixed_size(29, Min({22, m.file}) + 1 + fixed_size(6, m.line)) = 29
  <2> DEFINE w == Min({22, m.file}) + 1 + fixed_size(6, m.line)
  <2>1. Min({22, m.file}) \in Nat
    BY <1>4, ColumnWidth
  <2>2. w \in Nat
    BY <2>1, <1>5
  <2> HIDE DEF w
  <2>3. fixed_size(29, w) = 29
    BY <2>2, ColumnWidth
  <2> QED
    BY <2>3 DEF w
<1>7. fixed_size(20, method_name(m.method, m.colon)) = 20
  <2> DEFINE w == IF m.colon > 0 THEN m.method - m.colon ELSE m.method
  <2>1. w \in Nat
    BY <1>4
  <2> HIDE DEF w
  <2>2. method_name(m.method, m.colon) = Min({20, w})
    BY DEF method_name, w
  <2>3. Min({20, w}) \in Nat
    BY <2>1, ColumnWidth
  <2> QED
    BY <2>2, <2>3, ColumnWidth
<1>8. h \in Nat
  BY DEF syslog_header
<1> HIDE DEF h
<1>9. LinePrefix(m) = h + 5 + 1 + 23 + 1 + 9 + 1 + 29 + 1 + (20 + 1) + 2
  BY <1>4, <1>5, <1>6, <1>7 DEF LinePrefix, h
<1>10. LinePrefix(m) - h = 93
  BY <1>8, <1>9
<1> QED
  BY <1>10 DEF h, m

\* The fields of gelf: the user's never replace the appender's own, whatever they are.
LEMMA FieldsAreKept == GelfFieldsKept
<1>1. ASSUME NEW args, NEW c, NEW t, GelfAccepts(args), NEW f \in DOMAIN GelfMessage(args, c, t)
      PROVE  (f \in OwnFields => GelfMessage(args, c, t)[f] = "own") /\ f # "_id"
  <2> DEFINE own == OwnFields \ ((IF c THEN {} ELSE {"context"}) \cup (IF t THEN {} ELSE {"_task_name"}))
             user == user_fields(args)
  <2>1. GelfMessage(args, c, t) = [g \in own \cup user |-> IF g \in user THEN "user" ELSE "own"]
    BY DEF GelfMessage
  <2>2. own \subseteq OwnFields
    OBVIOUS
  <2>3. user \cap reserved_field_names = {} /\ user \subseteq Underscored
    BY <1>1 DEF GelfAccepts
  <2> HIDE DEF own, user
  <2>4. f \in own \cup user /\ GelfMessage(args, c, t)[f] = IF f \in user THEN "user" ELSE "own"
    BY <1>1, <2>1
  <2>5. Underscored \cap OwnFields \subseteq reserved_field_names
    BY DEF Underscored, OwnFields, reserved_field_names
  <2>6. "_id" \in reserved_field_names /\ "_id" \notin OwnFields
    BY DEF OwnFields, reserved_field_names
  <2> QED
    BY <2>2, <2>3, <2>4, <2>5, <2>6
<1> QED
  BY <1>1 DEF GelfFieldsKept

\* What the invariant says of the texts.
LEMMA TextIsKept == ASSUME CallInv PROVE LogTextKept
  BY MessagesComeBack, ConsoleIsAligned, FieldsAreKept DEF LogTextKept

-----------------------------------------------------------------------------
(* Induction up to a number, and recursion *)

\* A set of natural numbers that is not empty has a least member.
LEMMA LeastNumber ==
  ASSUME NEW S \in SUBSET Nat, S # {}
  PROVE  \E x \in S : \A y \in S : x <= y
<1> DEFINE R == {ss \in Nat \X Nat : ss[1] < ss[2]}
<1>1. IsWellFoundedOn(R, Nat)
  BY NatLessThanWellFounded, Zenon DEF OpToRel
<1>2. \A x, y \in Nat : <<y, x>> \in R <=> y < x
  OBVIOUS
<1> HIDE DEF R
<1>3. PICK x \in S : \A y \in S : ~(<<y, x>> \in R)
  BY <1>1, WFMin
<1>4. ASSUME NEW y \in S PROVE x <= y
  <2>1. x \in Nat /\ y \in Nat
    OBVIOUS
  <2>2. ~(y < x)
    BY <1>2, <1>3, <2>1
  <2> QED
    BY <2>1, <2>2
<1> QED
  BY <1>4

\* Induction up to a number, over a set instead of a predicate.
LEMMA UpTo ==
  ASSUME NEW n \in Nat, NEW T, 0 \in T, \A i \in 1..n : i - 1 \in T => i \in T
  PROVE  0..n \subseteq T
<1> DEFINE B == {i \in 0..n : i \notin T}
<1> SUFFICES ASSUME B # {} PROVE FALSE
  OBVIOUS
<1>1. PICK m \in B : \A k \in B : m <= k
  <2>1. B \in SUBSET Nat
    OBVIOUS
  <2> HIDE DEF B
  <2> QED
    BY <2>1, LeastNumber
<1>2. m \in 0..n /\ m \notin T /\ m # 0
  BY <1>1
<1>3. m \in 1..n /\ m - 1 \in 0..n /\ ~(m <= m - 1)
  BY <1>2
<1>4. m - 1 \in T
  BY <1>1, <1>3
<1> QED
  BY <1>2, <1>3, <1>4

\* g is the run of n steps F from s, in the set S.
Runs(g, n, S, s, F) == g \in [0..n -> S] /\ g[0] = s /\ \A i \in 1..n : g[i] = F[i][g[i - 1]]

\* A recursion over 0..n whose steps stay in a set can be run.
LEMMA StepsRun ==
  ASSUME NEW S, NEW n \in Nat, NEW s \in S, NEW F \in [1..n -> [S -> S]]
  PROVE  \E g : Runs(g, n, S, s, F)
<1> DEFINE Run(m) == \E g \in [0..m -> S] : g[0] = s /\ \A i \in 1..m : g[i] = F[i][g[i - 1]]
           T == {m \in 0..n : Run(m)}
<1>1. 0 \in T
  <2> DEFINE g == [i \in 0..0 |-> s]
  <2>1. g \in [0..0 -> S] /\ g[0] = s /\ \A i \in 1..0 : g[i] = F[i][g[i - 1]]
    OBVIOUS
  <2> HIDE DEF g
  <2> QED
    BY <2>1
<1>2. ASSUME NEW m \in 1..n, m - 1 \in T PROVE m \in T
  <2>1. PICK g \in [0..(m - 1) -> S] : g[0] = s /\ \A i \in 1..(m - 1) : g[i] = F[i][g[i - 1]]
    BY <1>2
  <2> DEFINE h == [i \in 0..m |-> IF i = m THEN F[m][g[m - 1]] ELSE g[i]]
  <2>2. g[m - 1] \in S /\ F[m][g[m - 1]] \in S
    <3>1. g[m - 1] \in S
      BY <2>1
    <3> QED
      BY <3>1
  <2>3. h \in [0..m -> S] /\ h[0] = s
    BY <2>1, <2>2
  <2>4. ASSUME NEW i \in 1..m PROVE h[i] = F[i][h[i - 1]]
    <3>1. CASE i = m
      <4>1. h[m - 1] = g[m - 1] /\ h[m] = F[m][g[m - 1]]
        OBVIOUS
      <4> HIDE DEF h
      <4> QED
        BY <3>1, <4>1
    <3>2. CASE i # m
      BY <2>1, <3>2
    <3> QED
      BY <3>1, <3>2
  <2> HIDE DEF h
  <2>5. Run(m)
    BY <2>3, <2>4
  <2> HIDE DEF Run
  <2> QED
    BY <2>5
<1> HIDE DEF T
<1>3. 0..n \subseteq T
  BY <1>1, <1>2, UpTo
<1>4. n \in T
  BY <1>3
<1> QED
  BY <1>4 DEF T, Runs


-----------------------------------------------------------------------------
(* Loggers: implementations *)

Appenders == Nat \X (Nat \ {0})
Impls == [level : 0..MaxLevel, apps : Seq(Appenders)]

\* The maps while H is held outside of them.
MapsOf(H) == [map : [Name -> Impl \cup {0}], impl : [Impl -> Impls], held : {H}]

\* What a thread in a macro does next.
Macros == [at : {"idle", "handle", "get", "log"}, name : Name, impl : Impl \cup {0}]

\* As many as handles and threads can hold.
Few(H) == H \subseteq Impl /\ IsFiniteSet(H) /\ Cardinality(H) <= Cardinality(Static) + Cardinality(Thread)

\* The constants.
LEMMA LogConstants ==
  /\ DefaultLogger \in Name /\ Static \subseteq Name /\ 1 \in Impl /\ 0 \notin Impl /\ Impl \subseteq Nat
  /\ MaxLevel \in Nat \ {0} /\ MaxGeneration \in Nat
  /\ IsFiniteSet(Name) /\ IsFiniteSet(Static) /\ IsFiniteSet(Thread) /\ IsFiniteSet(Impl)
  /\ Cardinality(Name) \in Nat /\ Cardinality(Static) \in Nat /\ Cardinality(Thread) \in Nat /\ Cardinality(Impl) \in Nat
  /\ Cardinality(Name) + Cardinality(Static) + Cardinality(Thread) < Cardinality(Impl)
<1>1. IsFiniteSet(Static)
  BY LoggingAssumption, FS_Subset
<1> QED
  BY <1>1, LoggingAssumption, FS_CardinalityType

\* A function has no more values than arguments.
LEMMA FewValues ==
  ASSUME NEW S, IsFiniteSet(S), NEW f, DOMAIN f = S
  PROVE  IsFiniteSet(Range(f)) /\ Cardinality(Range(f)) <= Cardinality(S)
<1> DEFINE g == [x \in S |-> f[x]]
<1>2. g \in Surjection(S, Range(f))
  BY DEF Surjection, Range
<1> QED
  BY <1>2, FS_Surjection

\* A new logger finds an implementation nobody has.
LEMMA ImplFound ==
  ASSUME NEW H, Few(H), NEW map \in [Name -> Impl \cup {0}]
  PROVE  \E j \in Impl : j \notin Range(map) \cup H
<1> SUFFICES ASSUME Impl \subseteq Range(map) \cup H PROVE FALSE
  OBVIOUS
<1>1. IsFiniteSet(Range(map)) /\ Cardinality(Range(map)) <= Cardinality(Name)
  BY LogConstants, FewValues
<1>2. IsFiniteSet(H) /\ Cardinality(H) <= Cardinality(Static) + Cardinality(Thread)
  BY DEF Few
<1> DEFINE R == Range(map)
<1> HIDE DEF R
<1>3. /\ IsFiniteSet(R \cup H) /\ Cardinality(R \cup H) = Cardinality(R) + Cardinality(H) - Cardinality(R \cap H)
  BY <1>1, <1>2, FS_Union DEF R
<1>4. Cardinality(R \cap H) \in Nat
  BY <1>1, FS_Subset, FS_CardinalityType DEF R
<1>5. Cardinality(Impl) <= Cardinality(R \cup H)
  BY <1>3, FS_Subset DEF R
<1>6. Cardinality(R) \in Nat /\ Cardinality(H) \in Nat
  BY <1>1, <1>2, FS_CardinalityType DEF R
<1>7. Cardinality(R) <= Cardinality(Name)
  BY <1>1 DEF R
<1> QED
  BY <1>2, <1>3, <1>4, <1>5, <1>6, <1>7, LogConstants

\* What handles and threads hold is not too much.
LEMMA HeldIsFew ==
  ASSUME NEW h \in [Static -> Impl], NEW p \in [Thread -> Macros]
  PROVE  /\ Few(Held([n \in Name |-> 0], h, p))
         /\ Held([n \in Name |-> 0], h, p) = (Range(h) \cup {p[t].impl : t \in Thread}) \ {0}
<1> DEFINE z == [n \in Name |-> 0]
           w == [t \in Thread |-> p[t].impl]
           H == (Range(h) \cup Range(w)) \ {0}
<1>1. Held(z, h, p) = H
  <2>1. Range(z) = {0}
    BY LogConstants DEF Range
  <2>2. Range(w) = {p[t].impl : t \in Thread}
    BY DEF Range
  <2> QED
    BY <2>1, <2>2 DEF Held
<1>2. IsFiniteSet(Range(h)) /\ Cardinality(Range(h)) <= Cardinality(Static)
  BY LogConstants, FewValues
<1>3. IsFiniteSet(Range(w)) /\ Cardinality(Range(w)) <= Cardinality(Thread)
  BY LogConstants, FewValues
<1>4. H \subseteq Impl
  <2>1. \A t \in Thread : p[t].impl \in Impl \cup {0}
    BY DEF Macros
  <2> QED
    BY <2>1 DEF Range
<1> DEFINE A == Range(h)
           B == Range(w)
<1> HIDE DEF A, B, w
<1>5. IsFiniteSet(A \cup B) /\ Cardinality(A \cup B) = Cardinality(A) + Cardinality(B) - Cardinality(A \cap B)
  BY <1>2, <1>3, FS_Union DEF A, B
<1>6. Cardinality(A \cap B) \in Nat /\ Cardinality(A) \in Nat /\ Cardinality(B) \in Nat
  BY <1>2, <1>3, FS_Subset, FS_CardinalityType DEF A, B
<1>7. IsFiniteSet(H) /\ Cardinality(H) <= Cardinality(A \cup B)
  <2>1. H \in SUBSET (A \cup B)
    BY DEF A, B
  <2> QED
    BY <2>1, <1>5, FS_Subset
<1>8. Cardinality(H) \in Nat
  BY <1>7, FS_CardinalityType
<1>9. Few(H)
  <2>1. Cardinality(A) <= Cardinality(Static) /\ Cardinality(B) <= Cardinality(Thread)
    BY <1>2, <1>3 DEF A, B
  <2> HIDE DEF H
  <2> QED
    BY <2>1, <1>4, <1>5, <1>6, <1>7, <1>8, LogConstants DEF Few
<1>10. H = (Range(h) \cup {p[t].impl : t \in Thread}) \ {0}
  BY DEF w, Range
<1> QED
  BY <1>1, <1>9, <1>10

\* logger_map[name] makes a missing entry and changes nothing else.
LEMMA EntryOf ==
  ASSUME NEW H, NEW st \in MapsOf(H), \E j \in Impl : j \notin Range(st.map) \cup H, NEW n \in Name, NEW e, e = Entry(st, n)
  PROVE  /\ e \in MapsOf(H) /\ e.map[n] \in Impl
         /\ \A m \in Name \ {n} : e.map[m] = st.map[m]
         /\ st.map[n] # 0 => e = st
         /\ st.map[n] = 0 => /\ e.map[n] \notin Range(st.map) \cup H /\ e.impl[e.map[n]] = NewImpl
                             /\ \A i \in Impl \ {e.map[n]} : e.impl[i] = st.impl[i]
<1>1. st.map \in [Name -> Impl \cup {0}] /\ st.impl \in [Impl -> Impls] /\ st.held = H
  BY DEF MapsOf
<1>2. CASE st.map[n] # 0
  <2>1. e = st
    BY <1>2 DEF Entry
  <2> QED
    BY <2>1, <1>1, <1>2
<1>3. CASE st.map[n] = 0
  <2> DEFINE i == CHOOSE j \in Impl : j \notin Range(st.map) \cup st.held
  <2>1. i \in Impl /\ i \notin Range(st.map) \cup H
    BY <1>1
  <2>2. e = [st EXCEPT !.map[n] = i, !.impl[i] = NewImpl]
    BY <1>3 DEF Entry
  <2> HIDE DEF i
  <2>3. NewImpl \in Impls
    BY LogConstants DEF NewImpl, Warn, Impls
  <2>4. e.map = [st.map EXCEPT ![n] = i] /\ e.impl = [st.impl EXCEPT ![i] = NewImpl] /\ e.held = H
    BY <2>2, <1>1 DEF MapsOf
  <2>5. e \in MapsOf(H)
    <3>1. [st.map EXCEPT ![n] = i] \in [Name -> Impl \cup {0}]
      BY <1>1, <2>1
    <3>2. [st.impl EXCEPT ![i] = NewImpl] \in [Impl -> Impls]
      BY <1>1, <2>1, <2>3
    <3>3. e = [map |-> e.map, impl |-> e.impl, held |-> e.held]
      BY <2>2 DEF MapsOf
    <3> QED
      BY <3>1, <3>2, <3>3, <2>4 DEF MapsOf
  <2>6. e.map[n] = i /\ \A m \in Name \ {n} : e.map[m] = st.map[m]
    BY <2>4, <1>1
  <2>7. e.impl[i] = NewImpl /\ \A k \in Impl \ {i} : e.impl[k] = st.impl[k]
    BY <2>4, <2>1, <1>1
  <2> QED
    BY <2>1, <2>5, <2>6, <2>7, <1>3
<1> QED
  BY <1>2, <1>3

\* So it does while few are held.
LEMMA EntryIs ==
  ASSUME NEW H, Few(H), NEW st \in MapsOf(H), NEW n \in Name, NEW e, e = Entry(st, n)
  PROVE  /\ e \in MapsOf(H) /\ e.map[n] \in Impl
         /\ \A m \in Name \ {n} : e.map[m] = st.map[m]
         /\ st.map[n] # 0 => e = st
         /\ st.map[n] = 0 => /\ e.map[n] \notin Range(st.map) \cup H /\ e.impl[e.map[n]] = NewImpl
                             /\ \A i \in Impl \ {e.map[n]} : e.impl[i] = st.impl[i]
<1>1. \E j \in Impl : j \notin Range(st.map) \cup H
  BY ImplFound DEF MapsOf
<1> QED
  BY <1>1, EntryOf

-----------------------------------------------------------------------------
(* Loggers: the appenders that are added *)

\* What the map of appenders holds: different appenders under different names.
AppenderMaps ==
  {f \in [AppenderName -> Appenders \cup {<< >>}] :
     \A a, b \in AppenderName : f[a] # << >> /\ f[a] = f[b] => a = b}

\* g is the list after each of the names.
Attaches(g, names, apps) ==
  /\ g \in [0..Len(names) -> Seq(Appenders)]
  /\ \A j \in 1..Len(names) : g[j] = IF apps[names[j]] = << >> THEN g[j - 1] ELSE Append(g[j - 1], apps[names[j]])

\* The loop over the names runs.
LEMMA AttachRuns ==
  ASSUME NEW before \in Seq(Appenders), NEW names \in Seq(AppenderName), NEW apps \in AppenderMaps
  PROVE  \E g : Attaches(g, names, apps) /\ g[0] = before /\ Attached(before, names, apps) = g[Len(names)]
<1> DEFINE n == Len(names)
           S == Seq(Appenders)
           Step(s, j) == IF apps[names[j]] = << >> THEN s ELSE Append(s, apps[names[j]])
           F == [j \in 1..n |-> [s \in S |-> Step(s, j)]]
           Rec(h) == h = [j \in 0..n |-> IF j = 0 THEN before ELSE Step(h[j - 1], j)]
           h == CHOOSE h : Rec(h)
<1>0. n \in Nat /\ before \in S /\ \A j \in 1..n : apps[names[j]] \in Appenders \cup {<< >>}
  <2>1. n \in Nat /\ \A j \in 1..n : names[j] \in AppenderName
    BY LenProperties, ElementOfSeq
  <2> QED
    BY <2>1 DEF AppenderMaps
<1>1. \A j \in 1..n, s \in S : Step(s, j) \in S
  BY <1>0
<1>2. Attached(before, names, apps) = h[n]
  BY DEF Attached
<1> HIDE DEF n, S, Step
<1>3. F \in [1..n -> [S -> S]] /\ \A j \in 1..n, s \in S : F[j][s] = Step(s, j)
  BY <1>1
<1> HIDE DEF F
<1>4. PICK g : Runs(g, n, S, before, F)
  BY <1>0, <1>3, StepsRun
<1>5. g \in [0..n -> S] /\ g[0] = before
  BY <1>4 DEF Runs
<1>6. ASSUME NEW j \in 1..n PROVE g[j] = Step(g[j - 1], j)
  <2>1. g[j - 1] \in S
    BY <1>0, <1>5
  <2> QED
    BY <1>3, <1>4, <2>1 DEF Runs
<1>7. Rec(g)
  <2>1. \A j \in 0..n : g[j] = IF j = 0 THEN before ELSE Step(g[j - 1], j)
    BY <1>0, <1>5, <1>6
  <2>2. g = [j \in 0..n |-> g[j]]
    BY <1>5
  <2> QED
    BY <2>1, <2>2
<1>8. Rec(h)
  <2> HIDE DEF Rec
  <2> QED
    BY <1>7
<1> HIDE DEF h
<1>9. h[0] = before /\ \A j \in 1..n : h[j] = Step(h[j - 1], j)
  BY <1>0, <1>8
<1> DEFINE T == {j \in 0..n : h[j] \in S}
<1>10. 0..n \subseteq T
  <2>1. 0 \in T
    BY <1>0, <1>9
  <2>2. ASSUME NEW j \in 1..n, j - 1 \in T PROVE j \in T
    BY <2>2, <1>0, <1>1, <1>9
  <2> HIDE DEF T
  <2> QED
    BY <2>1, <2>2, <1>0, UpTo
<1>11. h \in [0..n -> S]
  <2>1. h = [j \in 0..n |-> h[j]]
    BY <1>8
  <2>2. \A j \in 0..n : h[j] \in S
    BY <1>10
  <2> HIDE DEF Rec
  <2> QED
    BY <2>1, <2>2
<1>12. Attaches(h, names, apps)
  BY <1>9, <1>11 DEF Attaches, n, S, Step
<1> QED
  BY <1>2, <1>9, <1>12 DEF n

\* The list s has appenders of the map, each once.
OfMap(s, apps) == Range(s) \subseteq Range(apps) \ {<< >>} /\ IsInjective(s)

\* A list that is built up from nothing has each appender once.
LEMMA AttachedIs ==
  ASSUME NEW before \in Seq(Appenders), NEW names \in Seq(AppenderName), NEW apps \in AppenderMaps
  PROVE  /\ Attached(before, names, apps) \in Seq(Appenders)
         /\ before = << >> /\ IsInjective(names) => OfMap(Attached(before, names, apps), apps)
<1>1. PICK g : Attaches(g, names, apps) /\ g[0] = before /\ Attached(before, names, apps) = g[Len(names)]
  BY AttachRuns
<1> DEFINE n == Len(names)
<1>2. n \in Nat /\ names \in [1..n -> AppenderName]
  BY LenProperties
<1>3. g \in [0..n -> Seq(Appenders)] /\ \A j \in 1..n : g[j] = IF apps[names[j]] = << >> THEN g[j - 1] ELSE Append(g[j - 1], apps[names[j]])
  BY <1>1 DEF Attaches
<1>4. g[n] \in Seq(Appenders)
  BY <1>2, <1>3
<1>5. ASSUME before = << >>, IsInjective(names) PROVE OfMap(g[n], apps)
  <2> DEFINE From(s, j) == /\ \A k \in 1..Len(s) : \E i \in 1..j : s[k] = apps[names[i]] /\ s[k] # << >>
                           /\ \A k, m \in 1..Len(s) : s[k] = s[m] => k = m
             T == {j \in 0..n : From(g[j], j)}
  <2> HIDE DEF n
  <2>1. 0 \in T
    <3>1. g[0] = << >> /\ Len(g[0]) = 0
      BY <1>1, <1>5
    <3> QED
      BY <3>1, <1>2
  <2>2. ASSUME NEW j \in 1..n, j - 1 \in T PROVE j \in T
    <3> DEFINE s == g[j - 1]
               a == apps[names[j]]
    <3>1. s \in Seq(Appenders) /\ From(s, j - 1) /\ j - 1 \in 0..n
      BY <2>2, <1>2, <1>3
    <3>2. CASE a = << >>
      <4>1. g[j] = s
        BY <3>2, <1>3
      <4>2. From(s, j)
        BY <3>1, <1>2
      <4>3. j \in 0..n /\ From(g[j], j)
        BY <4>1, <4>2, <1>2
      <4> HIDE DEF From
      <4> QED
        BY <4>3
    <3>3. CASE a # << >>
      <4> DEFINE e == g[j]
      <4>1. e = Append(s, a)
        BY <3>3, <1>3
      <4>2. a \in Appenders /\ \A i \in 1..n : apps[names[i]] = a => i = j
        <5>1. \A i \in 1..n : names[i] \in AppenderName
          BY <1>2
        <5>2. \A i \in 1..n : names[i] = names[j] => i = j
          BY <1>2, <1>5 DEF IsInjective
        <5> QED
          BY <5>1, <5>2, <3>3 DEF AppenderMaps
      <4> HIDE DEF s, a, e
      <4>3. /\ Len(s) \in Nat /\ Len(e) = Len(s) + 1 /\ e[Len(s) + 1] = a
            /\ \A k \in 1..Len(s) : e[k] = s[k]
        BY <4>1, <4>2, <3>1
      <4>4. \A k \in 1..Len(s) : s[k] # a /\ \E i \in 1..j : s[k] = apps[names[i]] /\ s[k] # << >>
        <5>1. SUFFICES ASSUME NEW k \in 1..Len(s) PROVE s[k] # a /\ \E i \in 1..j : s[k] = apps[names[i]] /\ s[k] # << >>
          OBVIOUS
        <5>2. PICK i \in 1..(j - 1) : s[k] = apps[names[i]] /\ s[k] # << >>
          BY <3>1
        <5>3. i \in 1..n /\ i \in 1..j /\ i # j
          BY <1>2
        <5> QED
          BY <5>2, <5>3, <4>2
      <4>5. \A k \in 1..Len(e) : \E i \in 1..j : e[k] = apps[names[i]] /\ e[k] # << >>
        <5>1. SUFFICES ASSUME NEW k \in 1..Len(e) PROVE \E i \in 1..j : e[k] = apps[names[i]] /\ e[k] # << >>
          OBVIOUS
        <5>2. CASE k \in 1..Len(s)
          BY <5>2, <4>3, <4>4
        <5>3. CASE k = Len(s) + 1
          <6>1. j \in 1..j
            BY <1>2
          <6> QED
            BY <6>1, <5>3, <4>3, <3>3 DEF a
        <5> QED
          BY <5>2, <5>3, <4>3
      <4>6. \A k, m \in 1..Len(e) : e[k] = e[m] => k = m
        <5>1. \A k, m \in 1..Len(s) : s[k] = s[m] => k = m
          BY <3>1
        <5>2. \A k \in 1..Len(e) : k \in 1..Len(s) \/ k = Len(s) + 1
          BY <4>3
        <5> QED
          BY <5>1, <5>2, <4>3, <4>4
      <4> QED
        BY <4>5, <4>6, <1>2 DEF e
    <3> QED
      BY <3>2, <3>3
  <2>3. 0..n \subseteq T
    <3> HIDE DEF T
    <3> QED
      BY <2>1, <2>2, <1>2, UpTo
  <2>4. From(g[n], n)
    BY <2>3, <1>2
  <2>5. DOMAIN g[n] = 1..Len(g[n])
    BY <1>4 DEF n
  <2>6. \A i \in 1..n : names[i] \in DOMAIN apps
    BY <1>2 DEF AppenderMaps
  <2>7. Range(g[n]) \subseteq Range(apps) \ {<< >>}
    BY <2>4, <2>5, <2>6 DEF Range
  <2>8. IsInjective(g[n])
    BY <2>4, <2>5 DEF IsInjective
  <2> QED
    BY <2>7, <2>8 DEF OfMap
<1> QED
  BY <1>1, <1>4, <1>5

-----------------------------------------------------------------------------
(* Loggers: configure_logging *)

\* A logger of a configuration.
LoggerEntries == [name : Name, parent : Name \cup {"none"}, level : 0..NotSet, appenders : Seq(AppenderName)]

\* The maps while they are rebuilt and the loggers C are configured: no logger
\* is one that was held before, im is what those had; no two names have the same
\* logger; and its appenders are of the map, none if it is not configured yet.
Rebuilt(st, H, C, apps, im) ==
  /\ st \in MapsOf(H)
  /\ \A n \in Name : st.map[n] \notin H
  /\ \A m, n \in Name : st.map[m] # 0 /\ st.map[m] = st.map[n] => m = n
  /\ \A i \in H : st.impl[i] = im[i]
  /\ \A n \in Name : st.map[n] # 0 => OfMap(st.impl[st.map[n]].apps, apps)
  /\ \A n \in Name \ C : st.map[n] # 0 => st.impl[st.map[n]].apps = << >>

\* An entry is made on the way.
LEMMA EntryRebuilt ==
  ASSUME NEW H, Few(H), NEW st, NEW C, NEW apps \in AppenderMaps, NEW im, Rebuilt(st, H, C, apps, im), NEW n \in Name
  PROVE  Rebuilt(Entry(st, n), H, C, apps, im) /\ Entry(st, n).map[n] \in Impl
<1> DEFINE e == Entry(st, n)
<1>1. st \in MapsOf(H)
  BY DEF Rebuilt
<1>2. /\ e \in MapsOf(H) /\ e.map[n] \in Impl
      /\ \A m \in Name \ {n} : e.map[m] = st.map[m]
      /\ st.map[n] # 0 => e = st
      /\ st.map[n] = 0 => /\ e.map[n] \notin Range(st.map) \cup H /\ e.impl[e.map[n]] = NewImpl
                          /\ \A i \in Impl \ {e.map[n]} : e.impl[i] = st.impl[i]
  <2> HIDE DEF e
  <2> QED
    BY <1>1, EntryIs DEF e
<1> HIDE DEF e
<1>3. CASE st.map[n] # 0
  BY <1>2, <1>3 DEF e
<1>4. CASE st.map[n] = 0
  <2> DEFINE i == e.map[n]
  <2>1. /\ i \notin Range(st.map) /\ i \notin H /\ i \in Impl /\ i # 0 /\ e.impl[i] = NewImpl
        /\ \A k \in Impl \ {i} : e.impl[k] = st.impl[k]
    BY <1>2, <1>4, LogConstants
  <2>2. st.map \in [Name -> Impl \cup {0}] /\ H \subseteq Impl
    BY <1>1 DEF MapsOf, Few
  <2>3. \A m \in Name : st.map[m] # i
    BY <2>1, <2>2 DEF Range
  <2>4. OfMap(NewImpl.apps, apps) /\ NewImpl.apps = << >>
    BY DEF NewImpl, OfMap, Range, IsInjective
  <2> HIDE DEF i
  <2>5. \A m \in Name : e.map[m] \notin H
    BY <2>1, <1>2 DEF Rebuilt, i
  <2>6. \A m, k \in Name : e.map[m] # 0 /\ e.map[m] = e.map[k] => m = k
    BY <2>3, <1>2 DEF Rebuilt, i
  <2>7. \A k \in H : e.impl[k] = im[k]
    BY <2>1, <2>2 DEF Rebuilt
  <2>8. \A m \in Name \ {n} : e.map[m] # 0 => e.impl[e.map[m]] = st.impl[st.map[m]] /\ st.map[m] # 0
    BY <2>1, <2>2, <2>3, <1>2
  <2>9. \A m \in Name : e.map[m] # 0 => OfMap(e.impl[e.map[m]].apps, apps)
    BY <2>1, <2>4, <2>8 DEF Rebuilt, i
  <2>10. \A m \in Name \ C : e.map[m] # 0 => e.impl[e.map[m]].apps = << >>
    BY <2>1, <2>4, <2>8 DEF Rebuilt, i
  <2>11. Rebuilt(e, H, C, apps, im)
    BY <1>2, <2>5, <2>6, <2>7, <2>9, <2>10 DEF Rebuilt
  <2> QED
    BY <2>11, <1>2 DEF e
<1> QED
  BY <1>3, <1>4

\* One turn of the loop over the loggers.
LEMMA LoggerRebuilt ==
  ASSUME NEW H, Few(H), NEW st, NEW C, NEW apps \in AppenderMaps, NEW im, NEW lc \in LoggerEntries,
         Rebuilt(st, H, C, apps, im), lc.name \notin C, IsInjective(lc.appenders)
  PROVE  Rebuilt(ConfigureLogger(st, lc, apps), H, C \cup {lc.name}, apps, im)
<1>0. lc.name \in Name /\ lc.parent \in Name \cup {"none"} /\ lc.level \in 0..NotSet /\ lc.appenders \in Seq(AppenderName)
  BY DEF LoggerEntries
<1> DEFINE own == Entry(st, lc.name)
           both == IF lc.parent = "none" THEN own ELSE Entry(own, lc.parent)
           n == lc.name
           i == both.map[n]
           old == both.impl[i]
           new == [level |-> IF lc.level = NotSet THEN old.level ELSE lc.level,
                   apps |-> Attached(old.apps, lc.appenders, apps)]
           c == ConfigureLogger(st, lc, apps)
<1>1. Rebuilt(own, H, C, apps, im) /\ own.map[n] \in Impl
  BY <1>0, EntryRebuilt
<1>2. Rebuilt(both, H, C, apps, im) /\ both.map[n] \in Impl
  <2>1. CASE lc.parent = "none"
    BY <2>1, <1>1
  <2>2. CASE lc.parent # "none"
    <3>1. lc.parent \in Name
      BY <2>2, <1>0
    <3> HIDE DEF own
    <3>2. both = Entry(own, lc.parent)
      BY <2>2
    <3>3. Rebuilt(Entry(own, lc.parent), H, C, apps, im)
      BY <3>1, <1>1, EntryRebuilt
    <3>4. own \in MapsOf(H)
      BY <1>1 DEF Rebuilt
    <3>5. own.map[n] # 0
      BY <1>1, LogConstants
    <3>6. Entry(own, lc.parent).map[n] \in Impl
      <4>1. CASE lc.parent = n
        BY <4>1, <1>0, <1>1, EntryRebuilt
      <4>2. CASE lc.parent # n
        <5>1. Entry(own, lc.parent).map[n] = own.map[n]
          BY <4>2, <3>1, <3>4, <1>0, EntryIs
        <5> QED
          BY <5>1, <1>1
      <4> QED
        BY <4>1, <4>2
    <3> QED
      BY <3>2, <3>3, <3>6
  <2> QED
    BY <2>1, <2>2
<1>3. c = [both EXCEPT !.impl[i] = new]
  BY DEF ConfigureLogger
<1> HIDE DEF own, both, c, new, old
<1>4. both \in MapsOf(H) /\ both.map \in [Name -> Impl \cup {0}] /\ both.impl \in [Impl -> Impls] /\ both.held = H
  BY <1>2 DEF Rebuilt, MapsOf
<1>5. i \in Impl /\ i # 0 /\ i \notin H /\ old \in Impls /\ old.apps = << >>
  <2>1. i \in Impl /\ i # 0 /\ i \notin H /\ old \in Impls
    BY <1>0, <1>2, <1>4, LogConstants DEF Rebuilt, old
  <2>2. both.impl[both.map[n]].apps = << >>
    BY <1>0, <2>1, <1>2 DEF Rebuilt
  <2> QED
    BY <2>1, <2>2 DEF old
<1>6. new \in Impls /\ OfMap(new.apps, apps)
  <2>1. old.apps \in Seq(Appenders) /\ old.level \in 0..MaxLevel
    BY <1>5 DEF Impls
  <2>2. Attached(old.apps, lc.appenders, apps) \in Seq(Appenders) /\ OfMap(Attached(old.apps, lc.appenders, apps), apps)
    BY <2>1, <1>0, <1>5, AttachedIs
  <2>3. (IF lc.level = NotSet THEN old.level ELSE lc.level) \in 0..MaxLevel
    BY <2>1, <1>0, LogConstants DEF NotSet
  <2> QED
    BY <2>2, <2>3 DEF Impls, new
<1>7. c.map = both.map /\ c.impl = [both.impl EXCEPT ![i] = new] /\ c.held = H
  BY <1>3, <1>4 DEF MapsOf
<1>8. c \in MapsOf(H)
  <2>1. c.impl \in [Impl -> Impls]
    BY <1>4, <1>5, <1>6, <1>7
  <2>2. c = [map |-> c.map, impl |-> c.impl, held |-> c.held]
    BY <1>3, <1>4 DEF MapsOf
  <2> QED
    BY <2>1, <2>2, <1>4, <1>7 DEF MapsOf
<1>9. c.impl[i] = new /\ \A k \in Impl \ {i} : c.impl[k] = both.impl[k]
  BY <1>4, <1>5, <1>7
<1>10. \A k \in H : c.impl[k] = im[k]
  BY <1>2, <1>5, <1>9 DEF Rebuilt, Few
<1>11. \A m \in Name \ {n} : c.map[m] # 0 => c.impl[c.map[m]] = both.impl[both.map[m]] /\ both.map[m] # 0
  BY <1>0, <1>2, <1>4, <1>5, <1>7, <1>9 DEF Rebuilt
<1>12. \A m \in Name : c.map[m] # 0 => OfMap(c.impl[c.map[m]].apps, apps)
  BY <1>2, <1>6, <1>7, <1>9, <1>11 DEF Rebuilt
<1>13. \A m \in Name \ (C \cup {n}) : c.map[m] # 0 => c.impl[c.map[m]].apps = << >>
  BY <1>2, <1>11 DEF Rebuilt
<1>14. Rebuilt(c, H, C \cup {n}, apps, im)
  BY <1>2, <1>7, <1>8, <1>10, <1>12, <1>13 DEF Rebuilt
<1> QED
  BY <1>14 DEF c

\* In any case a turn of the loop leaves maps.
LEMMA LoggerStays ==
  ASSUME NEW H, Few(H), NEW st \in MapsOf(H), NEW apps \in AppenderMaps, NEW lc \in LoggerEntries
  PROVE  ConfigureLogger(st, lc, apps) \in MapsOf(H)
<1>0. lc.name \in Name /\ lc.parent \in Name \cup {"none"} /\ lc.level \in 0..NotSet /\ lc.appenders \in Seq(AppenderName)
  BY DEF LoggerEntries
<1> DEFINE own == Entry(st, lc.name)
           both == IF lc.parent = "none" THEN own ELSE Entry(own, lc.parent)
           n == lc.name
           i == both.map[n]
           old == both.impl[i]
           new == [level |-> IF lc.level = NotSet THEN old.level ELSE lc.level,
                   apps |-> Attached(old.apps, lc.appenders, apps)]
           c == ConfigureLogger(st, lc, apps)
<1>1. own \in MapsOf(H) /\ own.map[n] \in Impl
  BY <1>0, EntryIs
<1>2. both \in MapsOf(H) /\ both.map[n] \in Impl
  <2>1. CASE lc.parent = "none"
    BY <2>1, <1>1
  <2>2. CASE lc.parent # "none"
    <3>1. lc.parent \in Name /\ both = Entry(own, lc.parent)
      BY <2>2, <1>0
    <3> HIDE DEF own, both
    <3> QED
      BY <3>1, <1>0, <1>1, EntryIs
  <2> QED
    BY <2>1, <2>2
<1>3. c = [both EXCEPT !.impl[i] = new]
  BY DEF ConfigureLogger
<1> HIDE DEF own, both, c, new, old
<1>4. both.map \in [Name -> Impl \cup {0}] /\ both.impl \in [Impl -> Impls] /\ both.held = H
  BY <1>2 DEF MapsOf
<1>5. old \in Impls
  BY <1>2, <1>4 DEF old
<1>6. new \in Impls
  <2>1. old.apps \in Seq(Appenders) /\ old.level \in 0..MaxLevel
    BY <1>5 DEF Impls
  <2>2. Attached(old.apps, lc.appenders, apps) \in Seq(Appenders)
    BY <2>1, <1>0, AttachedIs
  <2>3. (IF lc.level = NotSet THEN old.level ELSE lc.level) \in 0..MaxLevel
    BY <2>1, <1>0, LogConstants DEF NotSet
  <2> QED
    BY <2>2, <2>3 DEF Impls, new
<1>7. c.map = both.map /\ c.impl = [both.impl EXCEPT ![i] = new] /\ c.held = H
  BY <1>3, <1>4, <1>2 DEF MapsOf
<1>8. c.impl \in [Impl -> Impls]
  BY <1>2, <1>4, <1>6, <1>7
<1>9. c = [map |-> c.map, impl |-> c.impl, held |-> c.held]
  BY <1>3, <1>2 DEF MapsOf
<1>10. c \in MapsOf(H)
  BY <1>4, <1>7, <1>8, <1>9 DEF MapsOf
<1> QED
  BY <1>10 DEF c

\* g is the maps after each of the loggers.
Rebuilds(g, H, loggers, apps) ==
  /\ g \in [0..Len(loggers) -> MapsOf(H)]
  /\ \A i \in 1..Len(loggers) : g[i] = ConfigureLogger(g[i - 1], loggers[i], apps)

\* The loop over the loggers runs.
LEMMA ConfigureRuns ==
  ASSUME NEW H, Few(H), NEW st \in MapsOf(H), NEW apps \in AppenderMaps, NEW loggers \in Seq(LoggerEntries)
  PROVE  \E g : Rebuilds(g, H, loggers, apps) /\ g[0] = st /\ Configured(st, loggers, apps) = g[Len(loggers)]
<1> DEFINE n == Len(loggers)
           S == MapsOf(H)
           Step(s, j) == ConfigureLogger(s, loggers[j], apps)
           F == [j \in 1..n |-> [s \in S |-> Step(s, j)]]
           Rec(h) == h = [j \in 0..n |-> IF j = 0 THEN st ELSE Step(h[j - 1], j)]
           h == CHOOSE h : Rec(h)
<1>0. n \in Nat /\ st \in S /\ \A j \in 1..n : loggers[j] \in LoggerEntries
  BY LenProperties, ElementOfSeq
<1>1. \A j \in 1..n, s \in S : Step(s, j) \in S
  BY <1>0, LoggerStays
<1>2. Configured(st, loggers, apps) = h[n]
  BY DEF Configured
<1> HIDE DEF n, S, Step
<1>3. F \in [1..n -> [S -> S]] /\ \A j \in 1..n, s \in S : F[j][s] = Step(s, j)
  BY <1>1
<1> HIDE DEF F
<1>4. PICK g : Runs(g, n, S, st, F)
  BY <1>0, <1>3, StepsRun
<1>5. g \in [0..n -> S] /\ g[0] = st
  BY <1>4 DEF Runs
<1>6. ASSUME NEW j \in 1..n PROVE g[j] = Step(g[j - 1], j)
  <2>1. g[j - 1] \in S
    BY <1>0, <1>5
  <2> QED
    BY <1>3, <1>4, <2>1 DEF Runs
<1>7. Rec(g)
  <2>1. \A j \in 0..n : g[j] = IF j = 0 THEN st ELSE Step(g[j - 1], j)
    BY <1>0, <1>5, <1>6
  <2>2. g = [j \in 0..n |-> g[j]]
    BY <1>5
  <2> QED
    BY <2>1, <2>2
<1>8. Rec(h)
  <2> HIDE DEF Rec
  <2> QED
    BY <1>7
<1> HIDE DEF h
<1>9. h[0] = st /\ \A j \in 1..n : h[j] = Step(h[j - 1], j)
  BY <1>0, <1>8
<1> DEFINE T == {j \in 0..n : h[j] \in S}
<1>10. 0..n \subseteq T
  <2>1. 0 \in T
    BY <1>0, <1>9
  <2>2. ASSUME NEW j \in 1..n, j - 1 \in T PROVE j \in T
    BY <2>2, <1>0, <1>1, <1>9
  <2> HIDE DEF T
  <2> QED
    BY <2>1, <2>2, <1>0, UpTo
<1>11. h \in [0..n -> S]
  <2>1. h = [j \in 0..n |-> h[j]]
    BY <1>8
  <2>2. \A j \in 0..n : h[j] \in S
    BY <1>10
  <2> HIDE DEF Rec
  <2> QED
    BY <2>1, <2>2
<1>12. Rebuilds(h, H, loggers, apps)
  BY <1>9, <1>11 DEF Rebuilds, n, S, Step
<1> QED
  BY <1>2, <1>9, <1>12 DEF n

\* After the loop the maps are rebuilt.
LEMMA ConfiguredIs ==
  ASSUME NEW H, Few(H), NEW st, NEW apps \in AppenderMaps, NEW im, NEW loggers \in Seq(LoggerEntries),
         Rebuilt(st, H, {}, apps, im),
         \A i, j \in DOMAIN loggers : loggers[i].name = loggers[j].name => i = j,
         \A i \in DOMAIN loggers : IsInjective(loggers[i].appenders)
  PROVE  \E C : Rebuilt(Configured(st, loggers, apps), H, C, apps, im)
<1> DEFINE n == Len(loggers)
           Names(j) == {loggers[k].name : k \in 1..j}
<1>1. st \in MapsOf(H)
  BY DEF Rebuilt
<1>2. PICK g : Rebuilds(g, H, loggers, apps) /\ g[0] = st /\ Configured(st, loggers, apps) = g[Len(loggers)]
  BY <1>1, ConfigureRuns
<1>3. n \in Nat /\ DOMAIN loggers = 1..n /\ \A j \in 1..n : loggers[j] \in LoggerEntries
  BY LenProperties, ElementOfSeq
<1> DEFINE T == {j \in 0..n : Rebuilt(g[j], H, Names(j), apps, im)}
<1>4. 0 \in T
  <2>1. Names(0) = {}
    OBVIOUS
  <2> HIDE DEF Names
  <2>2. Rebuilt(g[0], H, Names(0), apps, im)
    BY <2>1, <1>2, Zenon
  <2>3. 0 \in 0..n
    BY <1>3
  <2> QED
    BY <2>2, <2>3
<1>5. ASSUME NEW j \in 1..n, j - 1 \in T PROVE j \in T
  <2>1. Rebuilt(g[j - 1], H, Names(j - 1), apps, im) /\ j \in 0..n
    BY <1>3, <1>5
  <2>2. g[j] = ConfigureLogger(g[j - 1], loggers[j], apps)
    BY <1>2 DEF Rebuilds
  <2>3. loggers[j].name \notin Names(j - 1)
    <3>1. \A k \in 1..(j - 1) : k \in 1..n /\ k # j
      BY <1>3
    <3> QED
      BY <3>1, <1>3
  <2>4. Names(j) = Names(j - 1) \cup {loggers[j].name}
    <3>1. \A k : k \in 1..j <=> k \in 1..(j - 1) \/ k = j
      BY <1>3
    <3> QED
      BY <3>1
  <2>5. IsInjective(loggers[j].appenders) /\ loggers[j] \in LoggerEntries
    BY <1>3
  <2> HIDE DEF Names
  <2>6. Rebuilt(g[j], H, Names(j), apps, im)
    BY <2>1, <2>2, <2>3, <2>4, <2>5, LoggerRebuilt
  <2> QED
    BY <2>1, <2>6
<1>6. 0..n \subseteq T
  <2> HIDE DEF T, n
  <2> QED
    BY <1>3, <1>4, <1>5, UpTo
<1>7. Rebuilt(g[n], H, Names(n), apps, im)
  <2> HIDE DEF Names, n
  <2>1. n \in 0..n
    BY <1>3
  <2>2. n \in T
    <3> HIDE DEF T
    <3> QED
      BY <2>1, <1>6
  <2> QED
    BY <2>2
<1> QED
  BY <1>2, <1>7

-----------------------------------------------------------------------------
(* Loggers: the invariant *)

\* The inductive invariant: no appender is of a configuration still to come.
LogInv ==
  /\ loggerMap \in [Name -> Impl \cup {0}] /\ handle \in [Static -> Impl] /\ impl \in [Impl -> Impls]
  /\ appenderMap \in [AppenderName -> Appenders \cup {<< >>}]
  /\ \A a \in AppenderName : appenderMap[a] # << >> => appenderMap[a][1] \in 0..gen
  /\ gen \in 0..MaxGeneration /\ ok \in BOOLEAN /\ pc \in [Thread -> Macros]
  /\ MapIsCurrent /\ OneConfiguration /\ FailedIsSilent

\* What the program holds, and what a step does to it.
Kept == Held([n \in Name |-> 0], handle, pc)
Stable == \A i \in Kept : i \in Kept' => impl'[i].apps = impl[i].apps

\* The lists of one implementation, of one configuration and each once.
LEMMA EmptyList ==
  /\ << >> \in Seq(Appenders) /\ IsInjective(<< >>) /\ Range(<< >>) = {} /\ NoImpl \in Impls /\ NoImpl.apps = << >>
  /\ NewImpl \in Impls /\ NewImpl.apps = << >>
<1>1. << >> \in Seq(Appenders) /\ IsInjective(<< >>) /\ Range(<< >>) = {}
  BY DEF IsInjective, Range
<1> QED
  BY <1>1, LogConstants DEF NoImpl, NewImpl, Warn, Impls

\* Reference counting keeps what is held and frees the rest.
LEMMA CollectedIs ==
  ASSUME NEW im \in [Impl -> Impls], NEW map, NEW h, NEW p
  PROVE  /\ Collected(im, map, h, p) \in [Impl -> Impls]
         /\ \A i \in Impl : Collected(im, map, h, p)[i] = IF i \in Held(map, h, p) THEN im[i] ELSE NoImpl
  BY EmptyList DEF Collected

\* Held are the loggers of the map and what handles and threads have.
LEMMA HeldIs ==
  ASSUME NEW map \in [Name -> Impl \cup {0}], NEW h \in [Static -> Impl], NEW p \in [Thread -> Macros]
  PROVE  /\ \A n \in Name : map[n] # 0 => map[n] \in Held(map, h, p)
         /\ Held([n \in Name |-> 0], h, p) \subseteq Held(map, h, p)
         /\ \A i \in Held(map, h, p) : i \in Held([n \in Name |-> 0], h, p) \/ \E n \in Name : i = map[n]
<1>1. Held([n \in Name |-> 0], h, p) = (Range(h) \cup {p[t].impl : t \in Thread}) \ {0}
  BY HeldIsFew
<1>2. Held(map, h, p) = (Range(map) \cup Range(h) \cup {p[t].impl : t \in Thread}) \ {0}
  BY DEF Held
<1>3. \A i : i \in Range(map) <=> \E n \in Name : i = map[n]
  BY DEF Range
<1> QED
  BY <1>1, <1>2, <1>3

\* A step after which the map has loggers it had before.
LEMMA Recollected ==
  ASSUME LogInv, loggerMap' \in [Name -> Impl \cup {0}], handle' \in [Static -> Impl], pc' \in [Thread -> Macros],
         \A n \in Name : loggerMap'[n] # 0 => \E m \in Name : loggerMap'[n] = loggerMap[m],
         impl' = Collected(impl, loggerMap', handle', pc'), UNCHANGED <<appenderMap, gen, ok>>
  PROVE  LogInv' /\ Stable
<1>1. /\ impl' \in [Impl -> Impls]
      /\ \A i \in Impl : impl'[i] = IF i \in Held(loggerMap', handle', pc') THEN impl[i] ELSE NoImpl
  BY CollectedIs DEF LogInv
<1>2. \A n \in Name : loggerMap'[n] # 0 => /\ impl'[loggerMap'[n]] = impl[loggerMap'[n]] /\ loggerMap'[n] \in Impl
                                           /\ \E m \in Name : loggerMap[m] # 0 /\ loggerMap'[n] = loggerMap[m]
  <2>1. \A n \in Name : loggerMap'[n] # 0 => loggerMap'[n] \in Held(loggerMap', handle', pc')
    BY HeldIs
  <2> QED
    BY <1>1, <2>1
<1>3. MapIsCurrent'
  BY <1>2 DEF LogInv, MapIsCurrent
<1>4. OneConfiguration'
  <2>1. SUFFICES ASSUME NEW i \in Impl
                 PROVE  (\A a, b \in Range(impl'[i].apps) : a[1] = b[1]) /\ IsInjective(impl'[i].apps)
    BY DEF OneConfiguration
  <2>2. CASE impl'[i] = impl[i]
    BY <2>2 DEF LogInv, OneConfiguration
  <2>3. CASE impl'[i] = NoImpl
    BY <2>3, EmptyList
  <2> QED
    BY <1>1, <2>2, <2>3
<1>5. FailedIsSilent'
  BY <1>2 DEF LogInv, FailedIsSilent
<1>6. Stable
  <2>1. SUFFICES ASSUME NEW i \in Kept, i \in Kept' PROVE impl'[i].apps = impl[i].apps
    BY DEF Stable
  <2>2. Kept' = Held([n \in Name |-> 0], handle', pc')
    BY DEF Kept, Held
  <2>3. i \in Held(loggerMap', handle', pc')
    BY <2>1, <2>2, HeldIs
  <2>4. i \in Impl
    BY HeldIsFew DEF LogInv, Few, Kept
  <2> QED
    BY <1>1, <2>3, <2>4
<1>7. LogInv'
  BY <1>1, <1>3, <1>4, <1>5 DEF LogInv
<1> QED
  BY <1>6, <1>7

\* A step that looks up a logger, and makes it if it is not there.
LEMMA LookedUp ==
  ASSUME LogInv, NEW n \in Name, NEW st, st = Entry(Maps, n), loggerMap' = st.map, impl' = st.impl,
         pc' \in [Thread -> Macros], UNCHANGED <<appenderMap, handle, gen, ok>>
  PROVE  LogInv' /\ Stable /\ st.map[n] \in Impl
<1> DEFINE H == Held(loggerMap, handle, pc)
<1>1. loggerMap \in [Name -> Impl \cup {0}] /\ handle \in [Static -> Impl] /\ pc \in [Thread -> Macros] /\ impl \in [Impl -> Impls]
  BY DEF LogInv
<1>2. Maps \in MapsOf(H) /\ Maps.map = loggerMap /\ Maps.impl = impl
  BY <1>1 DEF Maps, MapsOf
<1>3. \E j \in Impl : j \notin Range(Maps.map) \cup H
  <2>1. PICK j \in Impl : j \notin Range(loggerMap) \cup Kept
    BY <1>1, HeldIsFew, ImplFound DEF Kept
  <2>2. \A i \in H : i \in Kept \/ i \in Range(loggerMap)
    <3>1. \A i \in H : i \in Kept \/ \E m \in Name : i = loggerMap[m]
      BY <1>1, HeldIs DEF Kept
    <3> QED
      BY <3>1, <1>1 DEF Range
  <2> QED
    BY <2>1, <2>2, <1>2
<1>4. Kept \subseteq H /\ H \subseteq Impl
  <2>1. Kept \subseteq H
    BY <1>1, HeldIs DEF Kept
  <2>2. Kept \subseteq Impl
    BY <1>1, HeldIsFew DEF Few, Kept
  <2>3. \A i \in H : i \in Kept \/ \E m \in Name : i = loggerMap[m]
    BY <1>1, HeldIs DEF Kept
  <2>4. 0 \notin H
    BY DEF Held
  <2> QED
    BY <2>1, <2>2, <2>3, <2>4, <1>1
<1> HIDE DEF H
<1>5. /\ st \in MapsOf(H) /\ st.map[n] \in Impl
      /\ \A m \in Name \ {n} : st.map[m] = loggerMap[m]
      /\ loggerMap[n] # 0 => st = Maps
      /\ loggerMap[n] = 0 => /\ st.map[n] \notin Range(loggerMap) \cup H /\ st.impl[st.map[n]] = NewImpl
                             /\ \A i \in Impl \ {st.map[n]} : st.impl[i] = impl[i]
  BY <1>2, <1>3, EntryOf
<1>6. \A m \in Name : loggerMap'[m] # 0 => \/ loggerMap'[m] = loggerMap[m] /\ impl'[loggerMap'[m]] = impl[loggerMap[m]]
                                           \/ impl'[loggerMap'[m]] = NewImpl
  BY <1>1, <1>2, <1>5 DEF Range
<1>7. \A i \in Impl : impl'[i] = impl[i] \/ (impl'[i] = NewImpl /\ i \notin H)
  BY <1>2, <1>5
<1>8. MapIsCurrent'
  BY <1>6, EmptyList DEF LogInv, MapIsCurrent
<1>9. OneConfiguration'
  <2>1. SUFFICES ASSUME NEW i \in Impl
                 PROVE  (\A a, b \in Range(impl'[i].apps) : a[1] = b[1]) /\ IsInjective(impl'[i].apps)
    BY DEF OneConfiguration
  <2>2. CASE impl'[i] = impl[i]
    BY <2>2 DEF LogInv, OneConfiguration
  <2>3. CASE impl'[i] = NewImpl
    BY <2>3, EmptyList
  <2> QED
    BY <1>7, <2>2, <2>3
<1>10. FailedIsSilent'
  BY <1>6, EmptyList DEF LogInv, FailedIsSilent
<1>11. Stable
  BY <1>4, <1>7 DEF Stable
<1>12. LogInv'
  BY <1>5, <1>8, <1>9, <1>10 DEF LogInv, MapsOf
<1> QED
  BY <1>5, <1>11, <1>12

\* A set of numbers up to n that is not empty has a greatest member.
LEMMA GreatestNumber ==
  ASSUME NEW n \in Nat, NEW S \in SUBSET (1..n), S # {}
  PROVE  Max(S) \in S
<1> DEFINE U == {k \in Nat : \A y \in S : y <= k}
<1>1. n \in U
  OBVIOUS
<1>2. PICK k \in U : \A j \in U : k <= j
  <2>1. U \in SUBSET Nat /\ U # {}
    BY <1>1
  <2> HIDE DEF U
  <2> QED
    BY <2>1, LeastNumber
<1>3. k \in S
  <2> SUFFICES ASSUME k \notin S PROVE FALSE
    OBVIOUS
  <2>1. \A y \in S : y \in 1..n /\ y < k
    BY <1>2
  <2>0. PICK y0 \in S : y0 \in 1..n /\ y0 < k
    BY <2>1
  <2>2. k \in Nat /\ k >= 1
    BY <2>0, <1>2
  <2>3. \A y \in S : y <= k - 1
    BY <2>1, <2>2
  <2>4. k - 1 \in U
    BY <2>2, <2>3
  <2>5. k <= k - 1
    <3> HIDE DEF U
    <3> QED
      BY <2>4, <1>2
  <2> QED
    BY <2>2, <2>5
<1>4. \A y \in S : k >= y
  BY <1>2
<1> QED
  BY <1>3, <1>4, Zenon DEF Max

\* The map of appenders after a configuration.
LEMMA NewAppendersAre ==
  ASSUME NEW cfg \in LoggingConfig, NEW g \in Nat
  PROVE  /\ NewAppenderMap(cfg, g) \in AppenderMaps
         /\ \A a \in AppenderName : NewAppenderMap(cfg, g)[a] # << >> => NewAppenderMap(cfg, g)[a][1] = g
<1> DEFINE f == NewAppenderMap(cfg, g)
           n == Len(cfg.appenders)
           Of(a) == AppendersOf(cfg, a)
<1>1. n \in Nat /\ DOMAIN cfg.appenders = 1..n
  BY ConfigAssumption, LenProperties
<1>2. \A a \in AppenderName : Of(a) \in SUBSET (1..n)
  BY <1>1 DEF AppendersOf
<1>3. \A a \in AppenderName : Of(a) # {} => Max(Of(a)) \in Of(a) /\ Max(Of(a)) \in Nat \ {0} /\ cfg.appenders[Max(Of(a))].name = a
  <2>1. SUFFICES ASSUME NEW a \in AppenderName, Of(a) # {}
                 PROVE  Max(Of(a)) \in Of(a) /\ Max(Of(a)) \in Nat \ {0} /\ cfg.appenders[Max(Of(a))].name = a
    OBVIOUS
  <2>2. \A k \in Of(a) : cfg.appenders[k].name = a
    BY DEF AppendersOf
  <2> HIDE DEF Of, n
  <2>3. Max(Of(a)) \in Of(a)
    BY <2>1, <1>1, <1>2, GreatestNumber
  <2>4. Max(Of(a)) \in 1..n
    BY <2>3, <1>2
  <2>5. Max(Of(a)) \in Nat \ {0}
    BY <2>4, <1>1
  <2> QED
    BY <2>2, <2>3, <2>5
<1>4. f = [a \in AppenderName |-> IF Of(a) = {} THEN << >> ELSE <<g, Max(Of(a))>>]
  BY DEF NewAppenderMap
<1> HIDE DEF Of, f, n
<1>5. \A a \in AppenderName : Of(a) # {} => f[a] = <<g, Max(Of(a))>> /\ f[a] \in Appenders /\ f[a] # << >>
  <2>1. SUFFICES ASSUME NEW a \in AppenderName, Of(a) # {}
                 PROVE  f[a] = <<g, Max(Of(a))>> /\ f[a] \in Appenders /\ f[a] # << >>
    OBVIOUS
  <2>2. f[a] = <<g, Max(Of(a))>>
    BY <2>1, <1>4
  <2> DEFINE k == Max(Of(a))
  <2>3. k \in Nat \ {0}
    BY <2>1, <1>3
  <2> HIDE DEF k
  <2>4. <<g, k>> \in Appenders /\ <<g, k>> # << >>
    BY <2>3 DEF Appenders
  <2> QED
    BY <2>2, <2>4 DEF k
<1>6. \A a \in AppenderName : Of(a) = {} => f[a] = << >>
  BY <1>4
<1>7. \A a, b \in AppenderName : f[a] # << >> /\ f[a] = f[b] => a = b
  <2>1. SUFFICES ASSUME NEW a \in AppenderName, NEW b \in AppenderName, f[a] # << >>, f[a] = f[b] PROVE a = b
    OBVIOUS
  <2>2. Of(a) # {} /\ Of(b) # {}
    BY <2>1, <1>6
  <2>3. f[a] = <<g, Max(Of(a))>> /\ f[b] = <<g, Max(Of(b))>>
    BY <2>2, <1>5
  <2>4. Max(Of(a)) = Max(Of(b))
    <3> DEFINE x == Max(Of(a))
               y == Max(Of(b))
    <3>1. f[a] = <<g, x>> /\ f[b] = <<g, y>>
      BY <2>3
    <3> HIDE DEF x, y
    <3>2. <<g, x>> = <<g, y>>
      BY <3>1, <2>1
    <3>3. x = y
      BY <3>2
    <3> QED
      BY <3>3 DEF x, y
  <2> QED
    BY <2>2, <2>4, <1>3
<1>8. f \in [AppenderName -> Appenders \cup {<< >>}]
  <2>1. \A a \in AppenderName : f[a] \in Appenders \cup {<< >>}
    BY <1>5, <1>6
  <2>2. f = [a \in AppenderName |-> f[a]]
    BY <1>4
  <2> QED
    BY <2>1, <2>2
<1>9. \A a \in AppenderName : f[a] # << >> => f[a][1] = g
  <2>1. SUFFICES ASSUME NEW a \in AppenderName, f[a] # << >> PROVE f[a][1] = g
    OBVIOUS
  <2>2. f[a] = <<g, Max(Of(a))>>
    BY <2>1, <1>5, <1>6
  <2> QED
    BY <2>2
<1>10. f \in AppenderMaps
  BY <1>7, <1>8 DEF AppenderMaps
<1> QED
  BY <1>9, <1>10 DEF f

\* A configuration is applied, or fails.
LEMMA ConfigureOK ==
  ASSUME LogInv, NEW cfg \in LoggingConfig, configure_logging(cfg)
  PROVE  LogInv' /\ Stable
<1> DEFINE g == gen + 1
           apps == NewAppenderMap(cfg, g)
           st == IF Fails(cfg) THEN Cleared ELSE Configured(Cleared, cfg.loggers, apps)
<1>1. loggerMap \in [Name -> Impl \cup {0}] /\ handle \in [Static -> Impl] /\ pc \in [Thread -> Macros] /\ impl \in [Impl -> Impls]
  BY DEF LogInv
<1>2. /\ gen \in Nat /\ g \in Nat /\ g \in 0..MaxGeneration /\ gen' = g /\ ok' = ~Fails(cfg) /\ appenderMap' = apps
      /\ loggerMap' = st.map /\ impl' = Collected(st.impl, st.map, handle, pc)
      /\ UNCHANGED <<handle, pc>>
  <2>1. gen \in Nat /\ g \in Nat /\ g \in 0..MaxGeneration
    BY LogConstants DEF LogInv, configure_logging
  <2>2. gen' = g /\ ok' = ~Fails(cfg) /\ appenderMap' = apps /\ UNCHANGED <<handle, pc>>
    BY DEF configure_logging
  <2> HIDE DEF apps
  <2>3. loggerMap' = st.map /\ impl' = Collected(st.impl, st.map, handle, pc)
    BY <2>2 DEF configure_logging
  <2> QED
    BY <2>1, <2>2, <2>3
<1>3. apps \in AppenderMaps /\ \A a \in AppenderName : apps[a] # << >> => apps[a][1] = g
  BY <1>2, NewAppendersAre
<1>4. Few(Kept)
  BY <1>1, HeldIsFew DEF Kept
<1>5. Cleared.map = [n \in Name |-> 0] /\ Cleared.impl = impl /\ Cleared.held = Kept /\ Cleared \in MapsOf(Kept)
  <2> DEFINE z == [n \in Name |-> 0]
  <2>1. z \in [Name -> Impl \cup {0}]
    OBVIOUS
  <2> DEFINE old == Held(loggerMap, handle, pc)
             now == Held(z, handle, pc)
  <2>3. Cleared = [[map |-> loggerMap, impl |-> impl, held |-> old] EXCEPT !.map = z, !.held = now]
    BY DEF Cleared, Maps
  <2>4. now = Kept
    BY DEF Kept
  <2> HIDE DEF z, old, now
  <2>2. Cleared = [map |-> z, impl |-> impl, held |-> Kept]
    BY <2>3, <2>4
  <2> QED
    BY <2>1, <2>2, <1>1 DEF MapsOf, z
<1> HIDE DEF apps
<1>6. Rebuilt(Cleared, Kept, {}, apps, impl)
  <2>1. \A n \in Name : Cleared.map[n] = 0 /\ 0 \notin Kept
    BY <1>4, <1>5, LogConstants DEF Few
  <2> QED
    BY <2>1, <1>5 DEF Rebuilt
<1>7. PICK C : Rebuilt(st, Kept, C, apps, impl)
  <2>1. CASE Fails(cfg)
    BY <2>1, <1>6
  <2>2. CASE ~Fails(cfg)
    <3>1. /\ cfg.loggers \in Seq(LoggerEntries)
          /\ \A i, j \in DOMAIN cfg.loggers : cfg.loggers[i].name = cfg.loggers[j].name => i = j
          /\ \A i \in DOMAIN cfg.loggers : IsInjective(cfg.loggers[i].appenders)
      BY ConfigAssumption DEF LoggerEntries
    <3>2. \E C : Rebuilt(Configured(Cleared, cfg.loggers, apps), Kept, C, apps, impl)
      BY <3>1, <1>3, <1>4, <1>6, ConfiguredIs
    <3> QED
      BY <3>2, <2>2
  <2> QED
    BY <2>1, <2>2
<1>8. Fails(cfg) => \A n \in Name : st.map[n] = 0
  BY <1>5
<1> HIDE DEF st
<1>9. st.map \in [Name -> Impl \cup {0}] /\ st.impl \in [Impl -> Impls]
  BY <1>7 DEF Rebuilt, MapsOf
<1>10. /\ impl' \in [Impl -> Impls]
       /\ \A i \in Impl : impl'[i] = IF i \in Held(st.map, handle, pc) THEN st.impl[i] ELSE NoImpl
  BY <1>2, <1>9, CollectedIs
<1>11. \A i \in Kept : i \in Impl /\ impl'[i] = impl[i]
  <2>1. Kept \subseteq Held(st.map, handle, pc) /\ Kept \subseteq Impl
    BY <1>1, <1>4, <1>9, HeldIs DEF Kept, Few
  <2> QED
    BY <2>1, <1>7, <1>10 DEF Rebuilt
<1>12. \A n \in Name : st.map[n] # 0 => st.map[n] \in Impl /\ OfMap(impl'[st.map[n]].apps, apps)
  <2>1. \A n \in Name : st.map[n] # 0 => st.map[n] \in Impl /\ st.map[n] \in Held(st.map, handle, pc)
    BY <1>1, <1>9, HeldIs
  <2> QED
    BY <2>1, <1>7, <1>10 DEF Rebuilt
<1>13. \A s : OfMap(s, apps) => (\A a \in Range(s) : a[1] = g) /\ IsInjective(s)
  <2>1. \A a \in Range(apps) \ {<< >>} : a[1] = g
    BY <1>3 DEF Range, AppenderMaps
  <2> QED
    BY <2>1 DEF OfMap
<1>14. \A i \in Impl : \/ i \in Kept
                       \/ \E n \in Name : st.map[n] # 0 /\ i = st.map[n]
                       \/ impl'[i] = NoImpl
  <2>1. \A i \in Held(st.map, handle, pc) : i \in Kept \/ \E n \in Name : i = st.map[n]
    BY <1>1, <1>9, HeldIs DEF Kept
  <2> QED
    BY <2>1, <1>10, LogConstants
<1>15. MapIsCurrent'
  BY <1>2, <1>12, <1>13 DEF MapIsCurrent
<1>16. OneConfiguration'
  <2>1. SUFFICES ASSUME NEW i \in Impl
                 PROVE  (\A a, b \in Range(impl'[i].apps) : a[1] = b[1]) /\ IsInjective(impl'[i].apps)
    BY DEF OneConfiguration
  <2>2. CASE i \in Kept
    <3>1. impl'[i] = impl[i]
      BY <2>2, <1>11
    <3> QED
      BY <3>1 DEF LogInv, OneConfiguration
  <2>3. CASE \E n \in Name : st.map[n] # 0 /\ i = st.map[n]
    BY <2>3, <1>12, <1>13
  <2>4. CASE impl'[i] = NoImpl
    BY <2>4, EmptyList
  <2> QED
    BY <1>14, <2>2, <2>3, <2>4
<1>17. FailedIsSilent'
  BY <1>2, <1>8 DEF FailedIsSilent
<1>18. Stable
  BY <1>11 DEF Stable
<1>19. LogInv'
  <2>1. apps \in [AppenderName -> Appenders \cup {<< >>}] /\ \A a \in AppenderName : apps[a] # << >> => apps[a][1] \in 0..g
    BY <1>2, <1>3 DEF AppenderMaps
  <2>2. ok' \in BOOLEAN
    BY <1>2
  <2> HIDE DEF g
  <2> QED
    BY <2>1, <2>2, <1>1, <1>2, <1>9, <1>10, <1>15, <1>16, <1>17 DEF LogInv
<1> QED
  BY <1>18, <1>19

\* The default configuration has been applied.
LEMMA LogStarts == ASSUME LogInit PROVE LogInv
<1>0. handle \in [Static -> Impl \ {1}]
  <2> DEFINE J == Impl \ {1}
  <2>1. IsFiniteSet(J) /\ Cardinality(J) = Cardinality(Impl) - 1
    BY LogConstants, FS_RemoveElement
  <2>2. Cardinality(Name) # 0
    BY LogConstants, FS_EmptySet
  <2>3. Cardinality(Static) <= Cardinality(J)
    BY <2>1, LogConstants
  <2>4. PICK f : f \in Bijection(1..Cardinality(Static), Static)
    BY LogConstants, FS_CardinalityType DEF ExistsBijection
  <2>5. PICK e : e \in Bijection(1..Cardinality(J), J)
    BY <2>1, FS_CardinalityType DEF ExistsBijection
  <2> DEFINE num == [n \in Static |-> CHOOSE k \in 1..Cardinality(Static) : f[k] = n]
             h == [n \in Static |-> e[num[n]]]
  <2>6. \A n \in Static : num[n] \in 1..Cardinality(Static) /\ f[num[n]] = n
    BY <2>4 DEF Bijection, Surjection
  <2>7. \A n \in Static : num[n] \in 1..Cardinality(J)
    BY <2>1, <2>3, <2>6, LogConstants
  <2> HIDE DEF num, J
  <2>8. h \in [Static -> J]
    BY <2>5, <2>7 DEF Bijection, Surjection
  <2>9. IsInjective(h)
    <3>1. \A m, n \in Static : e[num[m]] = e[num[n]] => num[m] = num[n]
      BY <2>5, <2>7 DEF Bijection, Injection, IsInjective
    <3> QED
      BY <3>1, <2>6 DEF IsInjective
  <2>10. handle = CHOOSE x \in [Static -> J] : IsInjective(x)
    BY DEF LogInit, J
  <2>11. handle \in [Static -> J]
    <3> HIDE DEF h
    <3> QED
      BY <2>8, <2>9, <2>10
  <2> QED
    BY <2>11 DEF J
<1>1. handle \in [Static -> Impl]
  BY <1>0
<1>2. loggerMap \in [Name -> Impl \cup {0}] /\ pc \in [Thread -> Macros] /\ gen \in 0..MaxGeneration /\ gen = 0 /\ ok = TRUE
  BY LogConstants DEF LogInit, Macros, Idle
<1>3. /\ appenderMap \in [AppenderName -> Appenders \cup {<< >>}]
      /\ \A a \in AppenderName : appenderMap[a] # << >> => appenderMap[a][1] \in 0..gen
  <2>1. <<0, 1>> \in Appenders /\ <<0, 2>> \in Appenders
    BY DEF Appenders
  <2>2. \A a \in AppenderName : appenderMap[a] \in {<<0, 1>>, <<0, 2>>, << >>}
    BY DEF LogInit
  <2>3. appenderMap = [a \in AppenderName |-> appenderMap[a]]
    BY DEF LogInit
  <2>4. \A a \in AppenderName : appenderMap[a] \in Appenders \cup {<< >>}
    BY <2>1, <2>2
  <2> QED
    BY <2>2, <2>3, <2>4, <1>2
<1> DEFINE first == [level |-> 0, apps |-> << <<0, 1>> >>]
<1>4. /\ \A i \in Impl : impl[i] = first \/ impl[i] = NewImpl \/ impl[i] = NoImpl
      /\ impl[1] = first /\ impl = [i \in Impl |-> impl[i]]
  <2>1. impl = [i \in Impl |-> CASE i = 1 -> first [] i \in Range(handle) -> NewImpl [] OTHER -> NoImpl]
    BY DEF LogInit
  <2> HIDE DEF first
  <2>2. \A i \in Impl : impl[i] = CASE i = 1 -> first [] i \in Range(handle) -> NewImpl [] OTHER -> NoImpl
    BY <2>1
  <2>3. \A i \in Impl : impl[i] = first \/ impl[i] = NewImpl \/ impl[i] = NoImpl
    BY <2>2
  <2>4. 1 \notin Range(handle)
    BY <1>0 DEF Range
  <2>5. 1 \in Impl
    BY LogConstants
  <2>6. impl[1] = first
    BY <2>2, <2>4, <2>5
  <2>7. impl = [i \in Impl |-> impl[i]]
    <3> DEFINE v(i) == CASE i = 1 -> first [] i \in Range(handle) -> NewImpl [] OTHER -> NoImpl
    <3>1. impl = [i \in Impl |-> v(i)]
      BY <2>1
    <3> HIDE DEF v
    <3> QED
      BY <3>1
  <2> QED
    BY <2>3, <2>6, <2>7
<1>5. /\ first \in Impls /\ IsInjective(first.apps) /\ Range(first.apps) = {<<0, 1>>}
  <2> DEFINE one == << <<0, 1>> >>
  <2>1. one \in Seq(Appenders) /\ DOMAIN one = {1} /\ one[1] = <<0, 1>>
    BY DEF Appenders
  <2>2. IsInjective(one) /\ Range(one) = {<<0, 1>>}
    <3> HIDE DEF one
    <3> QED
      BY <2>1 DEF IsInjective, Range
  <2> HIDE DEF one
  <2>3. [level |-> 0, apps |-> one] \in Impls
    BY <2>1, LogConstants DEF Impls
  <2> QED
    BY <2>2, <2>3 DEF one
<1> HIDE DEF first
<1>6. impl \in [Impl -> Impls]
  BY <1>4, <1>5, EmptyList
<1>7. OneConfiguration
  <2>1. SUFFICES ASSUME NEW i \in Impl
                 PROVE  (\A a, b \in Range(impl[i].apps) : a[1] = b[1]) /\ IsInjective(impl[i].apps)
    BY DEF OneConfiguration
  <2>2. CASE impl[i] = first
    BY <2>2, <1>5
  <2>3. CASE impl[i] = NewImpl
    BY <2>3, EmptyList
  <2>4. CASE impl[i] = NoImpl
    BY <2>4, EmptyList
  <2> QED
    BY <1>4, <2>2, <2>3, <2>4
<1>8. MapIsCurrent
  <2>1. \A n \in Name : loggerMap[n] # 0 => loggerMap[n] = 1
    BY DEF LogInit
  <2> QED
    BY <2>1, <1>2, <1>4, <1>5 DEF MapIsCurrent
<1>9. FailedIsSilent
  BY <1>2 DEF FailedIsSilent
<1> QED
  BY <1>1, <1>2, <1>3, <1>6, <1>7, <1>8, <1>9 DEF LogInv

\* Any step of the registry.
LEMMA LogKeeps == ASSUME LogInv, LogNext PROVE LogInv' /\ Stable
<1>0. /\ loggerMap \in [Name -> Impl \cup {0}] /\ handle \in [Static -> Impl] /\ pc \in [Thread -> Macros]
      /\ impl \in [Impl -> Impls] /\ Static \subseteq Name /\ DefaultLogger \in Name /\ Idle \in Macros
  BY LogConstants DEF LogInv, Idle, Macros
<1>1. ASSUME NEW cfg \in LoggingConfig, configure_logging(cfg) PROVE LogInv' /\ Stable
  BY <1>1, ConfigureOK
<1>2. ASSUME NEW n \in Static, update_logger(n) PROVE LogInv' /\ Stable
  <2> DEFINE target == IF loggerMap[n] # 0 THEN loggerMap[n] ELSE loggerMap[DefaultLogger]
  <2>1. /\ target # 0 /\ handle' = [handle EXCEPT ![n] = target] /\ loggerMap' = [loggerMap EXCEPT ![n] = target]
        /\ impl' = Collected(impl, loggerMap', handle', pc) /\ UNCHANGED <<appenderMap, gen, ok, pc>>
    BY <1>2 DEF update_logger
  <2>2. target \in Impl /\ \E m \in Name : target = loggerMap[m]
    BY <2>1, <1>0
  <2> HIDE DEF target
  <2>3. loggerMap' \in [Name -> Impl \cup {0}] /\ handle' \in [Static -> Impl]
    BY <2>1, <2>2, <1>0
  <2>4. \A m \in Name : loggerMap'[m] # 0 => \E k \in Name : loggerMap'[m] = loggerMap[k]
    BY <2>1, <2>2, <1>0
  <2>5. impl' = Collected(impl, loggerMap', handle', pc')
    BY <2>1
  <2> QED
    BY <2>1, <2>3, <2>4, <2>5, <1>0, Recollected
<1>3. ASSUME NEW n \in Static, NEW l \in 0..MaxLevel, set_log_level(n, l) PROVE LogInv' /\ Stable
  <2> DEFINE i == handle[n]
  <2>1. i \in Impl
    BY <1>0
  <2>2. impl' = [impl EXCEPT ![i] = [impl[i] EXCEPT !.level = l]] /\ UNCHANGED <<loggerMap, appenderMap, handle, gen, ok, pc>>
    BY <1>3 DEF set_log_level
  <2> HIDE DEF i
  <2>3. [impl[i] EXCEPT !.level = l] \in Impls /\ [impl[i] EXCEPT !.level = l].apps = impl[i].apps
    BY <2>1, <1>0 DEF Impls
  <2>4. impl' \in [Impl -> Impls] /\ \A k \in Impl : impl'[k].apps = impl[k].apps
    BY <2>1, <2>2, <2>3, <1>0
  <2>5. MapIsCurrent' /\ FailedIsSilent'
    BY <2>2, <2>4, <1>0 DEF LogInv, MapIsCurrent, FailedIsSilent
  <2>6. OneConfiguration'
    BY <2>4 DEF LogInv, OneConfiguration
  <2>7. Stable
    <3>1. Kept \subseteq Impl
      BY <1>0, HeldIsFew DEF Kept, Few
    <3> QED
      BY <3>1, <2>4 DEF Stable
  <2>8. LogInv'
    BY <2>2, <2>4, <2>5, <2>6 DEF LogInv
  <2> QED
    BY <2>7, <2>8
<1>4. ASSUME NEW t \in Thread, NEW n \in Static, NEW l \in 0..MaxLevel, CheckHandle(t, n, l) PROVE LogInv' /\ Stable
  <2>1. pc' \in [Thread -> Macros] /\ UNCHANGED <<loggerMap, appenderMap, impl, handle, gen, ok>>
    BY <1>0, <1>4 DEF CheckHandle, Macros
  <2>2. MapIsCurrent' /\ FailedIsSilent' /\ OneConfiguration' /\ Stable
    BY <2>1 DEF LogInv, MapIsCurrent, FailedIsSilent, OneConfiguration, Stable
  <2> QED
    BY <2>1, <2>2 DEF LogInv
<1>5. ASSUME NEW t \in Thread, NEW n \in Name, NEW l \in 0..MaxLevel, GetAndCheck(t, n, l) PROVE LogInv' /\ Stable
  <2> DEFINE st == Entry(Maps, n)
  <2>1. /\ loggerMap' = st.map /\ impl' = st.impl /\ UNCHANGED <<appenderMap, handle, gen, ok>>
        /\ pc' = pc \/ pc' = [pc EXCEPT ![t] = [at |-> "get", name |-> n, impl |-> 0]]
    BY <1>5 DEF GetAndCheck
  <2>2. [at |-> "get", name |-> n, impl |-> 0] \in Macros
    BY DEF Macros
  <2>3. pc' \in [Thread -> Macros]
    BY <2>1, <2>2, <1>0
  <2> HIDE DEF st
  <2> QED
    BY <2>1, <2>3, LookedUp DEF st
<1>6. ASSUME NEW t \in Thread, GetAgain(t) PROVE LogInv' /\ Stable
  <2> DEFINE n == pc[t].name
             st == Entry(Maps, n)
  <2>1. n \in Name /\ pc[t] \in Macros
    BY <1>0 DEF Macros
  <2>2. /\ loggerMap' = st.map /\ impl' = st.impl /\ UNCHANGED <<appenderMap, handle, gen, ok>>
        /\ pc' = [pc EXCEPT ![t] = [pc[t] EXCEPT !.at = "log", !.impl = st.map[n]]]
    BY <1>6 DEF GetAgain
  <2>3. st.map[n] \in Impl
    <3> DEFINE H == Held(loggerMap, handle, pc)
    <3>1. Maps \in MapsOf(H) /\ Maps.map = loggerMap
      BY <1>0 DEF Maps, MapsOf
    <3>2. PICK j \in Impl : j \notin Range(loggerMap) \cup Kept
      BY <1>0, HeldIsFew, ImplFound DEF Kept
    <3>3. \A i \in H : i \in Kept \/ i \in Range(loggerMap)
      <4>1. \A i \in H : i \in Kept \/ \E m \in Name : i = loggerMap[m]
        BY <1>0, HeldIs DEF Kept
      <4> QED
        BY <4>1, <1>0 DEF Range
    <3> HIDE DEF H, n
    <3> QED
      BY <3>1, <3>2, <3>3, <2>1, EntryOf
  <2>4. pc' \in [Thread -> Macros]
    <3> HIDE DEF st, n
    <3>1. [pc[t] EXCEPT !.at = "log", !.impl = st.map[n]] \in Macros
      BY <2>1, <2>3 DEF Macros
    <3> QED
      BY <3>1, <2>2, <1>0
  <2> HIDE DEF st, n
  <2> QED
    BY <2>1, <2>2, <2>4, LookedUp DEF st
<1>7. ASSUME NEW t \in Thread, log(t) PROVE LogInv' /\ Stable
  <2>1. /\ pc' = [pc EXCEPT ![t] = Idle] /\ impl' = Collected(impl, loggerMap, handle, pc')
        /\ UNCHANGED <<loggerMap, appenderMap, handle, gen, ok>>
    BY <1>7 DEF log
  <2>2. pc' \in [Thread -> Macros] /\ loggerMap' \in [Name -> Impl \cup {0}] /\ handle' \in [Static -> Impl]
    BY <2>1, <1>0
  <2>3. impl' = Collected(impl, loggerMap', handle', pc') /\ \A n \in Name : loggerMap'[n] # 0 => \E m \in Name : loggerMap'[n] = loggerMap[m]
    BY <2>1
  <2> QED
    BY <2>1, <2>2, <2>3, Recollected
<1> QED
  BY <1>1, <1>2, <1>3, <1>4, <1>5, <1>6, <1>7 DEF LogNext

\* A step of another part changes nothing here.
LEMMA LogRests == ASSUME LogInv, UNCHANGED logVars PROVE LogInv'
  BY DEF LogInv, logVars, MapIsCurrent, OneConfiguration, FailedIsSilent

\* What the invariant says.
LEMMA LogIsConsistent == ASSUME LogInv PROVE LogConsistent
<1>1. LogTypeOK
  <2>1. \A a \in AppenderName : appenderMap[a] = << >> \/ appenderMap[a] \in (0..gen) \X (Nat \ {0})
    BY DEF LogInv, Appenders
  <2>2. \A i \in Impl : impl[i].level \in 0..MaxLevel
    BY DEF LogInv, Impls
  <2>3. \A t \in Thread : pc[t].at \in {"idle", "handle", "get", "log"} /\ pc[t].impl \in Impl \cup {0}
    BY DEF LogInv, Macros
  <2> QED
    BY <2>1, <2>2, <2>3 DEF LogInv, LogTypeOK
<1> QED
  BY <1>1 DEF LogInv, LogConsistent

-----------------------------------------------------------------------------
(* The composition. *)

\* The appenders and the texts keep their invariants in every step of the
\* composition.
THEOREM AppendersInvariance == Spec => [](AppInv /\ CallInv)
<1>1. Init => AppInv /\ CallInv
  BY AppStarts, CallStarts DEF Init
<1>2. AppInv /\ CallInv /\ [Next]_vars => (AppInv /\ CallInv)'
  <2>1. UNCHANGED call /\ CallInv => CallInv'
    BY DEF CallInv
  <2>2. [Next]_vars => (AppNext \/ UNCHANGED appVars) /\ (LogTextNext \/ UNCHANGED call)
    BY DEF Next, RegistryStep, AppenderStep, TextStep, ExceptionStep, ZipkinStep, vars
  <2> QED
    BY <2>1, <2>2, AppKeeps, AppRests, CallKeeps
<1> QED
  BY <1>1, <1>2, PTL DEF Spec

\* gelf_appender, dmlog_appender and the console: what a server assembles from the
\* datagrams, whichever were lost, sent late or failed, is a logged message from
\* its first byte to its last; the lines of the file are whole and in order up to
\* the one at which the appender is_stopped; and the texts keep what was logged.
THEOREM LoggedStaysWhole == Spec => []LoggedIsKept
<1>1. AppInv /\ CallInv => LoggedIsKept
  BY AppendersAreWhole, TextIsKept DEF LoggedIsKept
<1> QED
  BY <1>1, AppendersInvariance, PTL

\* The registry keeps its invariant in every step of the composition.
THEOREM LogInvariance == Spec => []LogInv
<1>1. Init => LogInv
  BY LogStarts DEF Init
<1>2. LogInv /\ [Next]_vars => LogInv'
  <2>1. [Next]_vars => LogNext \/ UNCHANGED logVars
    BY DEF Next, RegistryStep, AppenderStep, TextStep, ExceptionStep, ZipkinStep, vars
  <2> QED
    BY <2>1, LogKeeps, LogRests
<1> QED
  BY <1>1, <1>2, PTL DEF Spec

\* configure_logging, update and the macros: a logger of the map writes only to
\* appenders of the last configuration, any logger to those of one, and to each
\* once; after a failed configuration the map is silent.
THEOREM LoggersAreConsistent == Spec => []LogConsistent
<1>1. LogInv => LogConsistent
  BY LogIsConsistent
<1> QED
  BY <1>1, LogInvariance, PTL

\* configure_logging never edits a logger that a handle or a thread inside a
\* macro refers to.
THEOREM HeldLoggersAreStable == Spec => HeldIsStable
<1> DEFINE Stays == \A i \in Held([n \in Name |-> 0], handle, pc) :
                      i \in Held([n \in Name |-> 0], handle', pc') => impl'[i].apps = impl[i].apps
<1>1. LogInv /\ [Next]_vars => [Stays]_logVars
  <2>1. [Next]_vars => LogNext \/ UNCHANGED logVars
    BY DEF Next, RegistryStep, AppenderStep, TextStep, ExceptionStep, ZipkinStep, vars
  <2>2. Stable => Stays
    BY DEF Stable, Kept
  <2> QED
    BY <2>1, <2>2, LogKeeps
<1> QED
  BY <1>1, LogInvariance, PTL DEF Spec, HeldIsStable
=============================================================================
