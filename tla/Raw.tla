-------------------------------- MODULE Raw --------------------------------
(***************************************************************************)
(* fc::raw::pack and unpack over datastream<char*>: the byte format of the *)
(* reflected types, the containers, the variable-length integers and       *)
(* fc::variant.                                                            *)
(*                                                                         *)
(* A byte has Group + 1 bits, of which a variable-length integer uses      *)
(* Group (7 of 8), and such an integer has Word bits (32).  A C++ type is  *)
(* a record T(k, n, of); what unpack does depends on the value the target  *)
(* had before, which is its argument old.                                  *)
(***************************************************************************)
EXTENDS ClientCall, SequencesExt, FiniteSetsExt

CONSTANTS
  Group, Word,
  MaxCount,          \* MAX_NUM_ARRAY_ELEMENTS
  MaxBytes,          \* MAX_SIZE_OF_BYTE_ARRAYS
  MaxInput           \* length of the byte strings tried

T(k, n, of) == [k |-> k, n |-> n, of |-> of]

(* The C++ types by how they are packed: as n bytes of memory, ... *)
Fixed(n) == T("fixed", n, << >>)
TimePointSec == Fixed(1)
TimePoint == Fixed(2)
Microseconds == Fixed(2)
Enum == Fixed(2)                              \* as an int64
TrivialArray(n) == Fixed(n)
Number(n) == Fixed(n)
(* ... as a count and characters, ... *)
VectorChar == T("bytes", 0, << >>)
String == T("bytes", 0, << >>)
SharedString == T("shared_string", 0, << >>)
Path == String
(* ... field by field, ... *)
Reflected(of) == T("struct", 0, of)
Pair(t, u) == Reflected(<<t, u>>)
Array(n, t) == Reflected([i \in 1..n |-> t])
UInt256 == Pair(Number(1), Number(1))         \* the low half first
Safe(t) == t
(* ... behind a flag, a count or an index, ... *)
Bool == T("bool", 0, << >>)
Uint == T("uint", 0, << >>)
Sint == T("int", 0, << >>)
Opt(t) == T("optional", 0, <<t>>)
SharedPtr(t) == T("optional", 0, <<t>>)
CArray(n, t) == T("carray", n, <<t>>)
Vector(t) == T("vector", 0, <<t>>)
Deque(t) == Vector(t)
List(t) == T("list", 0, <<t>>)
Set(t) == T("set", 0, <<t>>)
UnorderedSet(t) == T("unordered_set", 0, <<t>>)
FlatSet(t) == UnorderedSet(t)
Map(t, u) == T("map", 0, <<t, u>>)
UnorderedMap(t, u) == Map(t, u)
FlatMap(t, u) == Map(t, u)
FlatMultiset(t) == T("multiset", 0, <<t>>)
FlatMultimap(t, u) == T("multimap", 0, <<t, u>>)
BoostVector(t) == T("boost_vector", 0, <<t>>)
BoostVectorChar == VectorChar
BoostNumbers(n) == T("numbers", n, << >>)     \* a vector of a fundamental type of n bytes
StaticVariant(of) == T("variant", 0, of)
(* ... as an fc::variant, or into a local that is then assigned. *)
Dynamic == T("dynamic", 0, << >>)
Local(t) == T("local", 0, <<t>>)
LogMessage == T("message", 0, <<Dynamic>>)     \* a local variant, which must be an object
Exception == Local(Reflected(<<Fixed(1), String, String, Vector(LogMessage)>>))

RawByte == 0..(2^(Group + 1) - 1)
Read(v, rest) == [ok |-> TRUE, v |-> v, rest |-> rest]
RangeError(old) == [ok |-> FALSE, v |-> old, rest |-> << >>]
Drop(s, n) == SubSeq(s, n + 1, Len(s))

\* datastream::read and get: all the bytes, or a throw.
ReadBytes(s, n, old) == IF n <= Len(s) THEN Read(SubSeq(s, 1, n), Drop(s, n)) ELSE RangeError(old)

-----------------------------------------------------------------------------
(* unsigned_int and signed_int: groups of low bits first, the top bit of a   *)
(* byte says that another follows.                                           *)

PackUint[val \in Nat] ==
  <<(val % 2^Group) + (IF val \div 2^Group > 0 THEN 2^Group ELSE 0)>>
    \o (IF val \div 2^Group > 0 THEN PackUint[val \div 2^Group] ELSE << >>)

\* Mutant: the negative numbers collide with the positive ones.
ZigZag_NoSign(n) == IF n >= 0 THEN 2 * n ELSE -2 * n

ZigZag(n) == IF n >= 0 THEN 2 * n ELSE -2 * n - 1
UnZigZag(v) == IF v % 2 = 0 THEN v \div 2 ELSE -(v \div 2) - 1

\* A reader of unsigned_int stops when the word is full, one of signed_int never.
More(signed, bytes) == signed \/ bytes * Group < Word

\* The bytes the loop of unpack takes.
VarLength(s, signed) ==
  LET ends == {i \in DOMAIN s : s[i] < 2^Group \/ ~ More(signed, i)}
  IN  IF ends = {} THEN 0 ELSE Min(ends)

\* Shifted groups are or'ed together; a shift by the word or more (signed_int
\* only, undefined) is the shift modulo the word of the usual processors.
VarValue(s, n) ==
  LET bits == {b \in UNION {{(((i - 1) * Group) % Word) + j : j \in {j \in 0..(Group - 1) : (s[i] \div 2^j) % 2 = 1}} :
                              i \in 1..n} : b < Word}
  IN  FoldSet(LAMBDA b, sum : sum + 2^b, 0, bits)

ReadVar(s, signed, old) ==
  LET n == VarLength(s, signed)
  IN  IF n = 0 THEN RangeError(old)
      ELSE Read(IF signed THEN UnZigZag(VarValue(s, n)) ELSE VarValue(s, n), Drop(s, n))

-----------------------------------------------------------------------------
(* pack. *)

\* fc::variant: the tag and the type of what follows it (the number types, and
\* the string and blob, are packed alike and have one tag each here).
TagType(tag) ==
  CASE tag = 0 -> T("null", 0, << >>)
    [] tag = 1 -> Fixed(1)
    [] tag = 2 -> Bool
    [] tag = 3 -> String
    [] tag = 4 -> Vector(Dynamic)
    [] OTHER -> T("object", 0, <<String, Dynamic>>)
Tags == 0..5

Sorted(S) == SetToSortSeq(S, LAMBDA a, b : a[1] < b[1])

\* The elements of a container in the order of its iterators.
Elements(t, v) ==
  CASE t.k \in {"set", "unordered_set"} -> Sorted(v)
    [] t.k = "map" -> [i \in 1..Cardinality(DOMAIN v) |-> <<Sorted(DOMAIN v)[i], v[Sorted(DOMAIN v)[i]]>>]
    [] OTHER -> v
Containers == {"vector", "boost_vector", "list", "set", "unordered_set", "map", "multiset", "multimap", "object"}

\* What an element of a container is packed as.
ElementType(t) == IF t.k \in {"map", "multimap", "object"} THEN Reflected(t.of) ELSE t.of[1]

\* The assertions of pack: a count or a number of bytes above the limit throws,
\* at whatever depth; only the members of an object are not counted.
RECURSIVE Asserted(_, _)
Asserted(t, v) ==
  LET all(types, vals) == \A i \in DOMAIN vals : Asserted(types[i], vals[i])
      same(vals) == all([i \in DOMAIN vals |-> ElementType(t)], vals)
  IN  CASE t.k \in {"bytes", "shared_string"} -> Len(v) <= MaxBytes
        [] t.k \in Containers -> (t.k = "object" \/ Len(Elements(t, v)) <= MaxCount) /\ same(Elements(t, v))
        [] t.k = "numbers" -> Len(v) <= MaxCount
        [] t.k \in {"optional", "carray"} -> same(v)
        [] t.k = "struct" -> all(t.of, v)
        [] t.k = "variant" -> Asserted(t.of[v[1] + 1], v[2])
        [] t.k \in {"local", "message"} -> Asserted(t.of[1], v)
        [] t.k = "dynamic" -> Asserted(TagType(v[1]), v[2])
        [] OTHER -> TRUE

RECURSIVE Packing(_, _)
Packing(t, v) ==
  LET each(types, vals) == FlattenSeq([i \in DOMAIN vals |-> Packing(types[i], vals[i])])
      same(vals) == each([i \in DOMAIN vals |-> ElementType(t)], vals)
  IN  CASE t.k = "fixed" -> v
        [] t.k = "bool" -> <<IF v THEN 1 ELSE 0>>
        [] t.k = "null" -> << >>
        [] t.k = "uint" -> PackUint[v]
        [] t.k = "int" -> PackUint[ZigZag(v)]
        [] t.k \in {"bytes", "shared_string"} -> PackUint[Len(v)] \o v
        [] t.k \in Containers -> PackUint[Len(Elements(t, v))] \o same(Elements(t, v))
        \* As many bytes as there are elements, whatever the size of an element.
        [] t.k = "numbers" -> PackUint[Len(v)] \o SubSeq(FlattenSeq(v), 1, Len(v))
        [] t.k = "optional" -> IF v = << >> THEN <<0>> ELSE <<1>> \o same(v)
        [] t.k = "struct" -> each(t.of, v)
        [] t.k = "carray" -> PackUint[t.n] \o same(v)
        [] t.k = "variant" -> PackUint[v[1]] \o Packing(t.of[v[1] + 1], v[2])
        [] t.k \in {"local", "message"} -> Packing(t.of[1], v)
        [] OTHER -> <<v[1]>> \o Packing(TagType(v[1]), v[2])

Pack(t, v) == IF Asserted(t, v) THEN Ok(Packing(t, v)) ELSE Throw(<< >>)

-----------------------------------------------------------------------------
(* unpack. *)

RECURSIVE Default(_)
Default(t) ==
  CASE t.k = "fixed" -> [i \in 1..t.n |-> 0]
    [] t.k = "bool" -> FALSE
    [] t.k \in {"uint", "int"} -> 0
    [] t.k \in {"set", "unordered_set"} -> {}
    [] t.k \in {"bytes", "shared_string", "vector", "boost_vector", "list", "optional", "map", "multiset", "multimap", "numbers",
             "object", "null"} -> << >>
    [] t.k = "struct" -> [i \in DOMAIN t.of |-> Default(t.of[i])]
    [] t.k = "carray" -> [i \in 1..t.n |-> Default(t.of[1])]
    [] t.k = "variant" -> <<0, Default(t.of[1])>>
    [] t.k = "local" -> Default(t.of[1])
    [] t.k = "message" -> <<5, << >>>>
    [] OTHER -> <<0, << >>>>

\* What a container holds before its elements are read: std::set and std::list
\* are not cleared.
Start(t, old) == IF t.k \in {"set", "list"} THEN old ELSE Default(t)

\* What an element is unpacked into: std::vector and the deques are resized, so
\* their first elements are the old ones; elsewhere an element is new.
Before(t, old, i) == IF t.k = "vector" /\ i <= Len(old) THEN old[i] ELSE Default(ElementType(t))

\* What a multiset or multimap is sorted by.
SortKey(t, e) == IF t.k = "multimap" THEN e[1][1] ELSE e[1]

\* The elements whose memory begins with these bytes; the rest of it is zero.
FromMemory(bytes, width) ==
  [i \in DOMAIN bytes |-> [j \in 1..width |-> LET k == (i - 1) * width + j IN IF k <= Len(bytes) THEN bytes[k] ELSE 0]]

\* insert and push_back; mutable_variant_object::set replaces an equal key.
Insert(t, c, e) ==
  CASE t.k \in {"set", "unordered_set"} -> c \cup {e}
    [] t.k = "map" -> c @@ (e[1] :> e[2])
    [] t.k \in {"multiset", "multimap"} ->
         SelectSeq(c, LAMBDA x : SortKey(t, x) <= SortKey(t, e)) \o <<e>>
           \o SelectSeq(c, LAMBDA x : SortKey(t, x) > SortKey(t, e))
    [] t.k = "object" -> IF \E i \in DOMAIN c : c[i][1] = e[1]
                           THEN [i \in DOMAIN c |-> IF c[i][1] = e[1] THEN e ELSE c[i]] ELSE Append(c, e)
    [] OTHER -> Append(c, e)

RECURSIVE Unpack(_, _, _)
Unpack(t, s, old) ==
  LET many(types, start, olds, put(_, _)) ==
        FoldLeft(LAMBDA r, i :
                   IF ~ r.ok THEN r
                   ELSE LET e == Unpack(types[i], r.rest, olds[i])
                        IN  [e EXCEPT !.v = IF e.ok THEN put(r.v, e.v) ELSE r.v],
                 start, [i \in DOMAIN types |-> i])
      count == ReadVar(s, FALSE, old)
      fresh(n) == [i \in 1..n |-> ElementType(t)]
  IN  CASE t.k = "fixed" -> ReadBytes(s, t.n, old)
        [] t.k = "bool" -> LET b == ReadBytes(s, 1, old)
                           IN  IF ~ b.ok \/ b.v[1] > 1 THEN RangeError(old) ELSE Read(b.v[1] = 1, b.rest)
        [] t.k = "null" -> Read(old, s)
        [] t.k \in {"uint", "int"} -> ReadVar(s, t.k = "int", old)
        [] t.k \in {"bytes", "shared_string"} ->
             IF ~ count.ok \/ count.v > MaxBytes \/ (t.k = "shared_string" /\ old # << >>) THEN RangeError(old)
             ELSE ReadBytes(count.rest, count.v, old)
        [] t.k \in Containers ->
             IF ~ count.ok \/ (t.k # "object" /\ count.v > MaxCount) THEN RangeError(old)
             ELSE many(fresh(count.v), Read(Start(t, old), count.rest),
                       [i \in 1..count.v |-> Before(t, old, i)], LAMBDA c, e : Insert(t, c, e))
        [] t.k = "numbers" ->
             LET b == ReadBytes(count.rest, count.v, old)
             IN  IF ~ count.ok \/ count.v > MaxCount \/ ~ b.ok THEN RangeError(old)
                 ELSE Read(FromMemory(b.v, t.n), b.rest)
        [] t.k = "optional" ->
             LET b == Unpack(Bool, s, FALSE)
                 v == Unpack(t.of[1], b.rest, Default(t.of[1]))
             IN  IF ~ b.ok THEN RangeError(old) ELSE IF ~ b.v THEN Read(old, b.rest)
                 ELSE [v EXCEPT !.v = <<@>>]
        [] t.k = "struct" -> many(t.of, Read(<< >>, s), old, Append)
        [] t.k = "carray" -> IF ~ count.ok \/ count.v # t.n THEN RangeError(old)
                             ELSE many(fresh(t.n), Read(<< >>, count.rest), old, Append)
        [] t.k = "variant" ->
             IF ~ count.ok \/ count.v >= Len(t.of) THEN RangeError(old)
             ELSE LET e == Unpack(t.of[count.v + 1], count.rest, Default(t.of[count.v + 1]))
                  IN  [e EXCEPT !.v = <<count.v, @>>]
        [] t.k = "local" -> Unpack(t.of[1], s, Default(t.of[1]))
        [] t.k = "message" -> LET e == Unpack(Dynamic, s, Default(Dynamic))
                              IN  IF ~ e.ok \/ e.v[1] # 5 THEN RangeError(old) ELSE e
        [] OTHER ->
             LET tag == ReadBytes(s, 1, old)
                 e == Unpack(TagType(tag.v[1]), tag.rest, Default(TagType(tag.v[1])))
             IN  IF ~ tag.ok \/ tag.v[1] \notin Tags THEN RangeError(old)
                 ELSE IF tag.v[1] = 0 THEN Read(old, tag.rest)
                 ELSE [e EXCEPT !.v = <<tag.v[1], @>>]

-----------------------------------------------------------------------------
(* The calls. *)

Types ==
  {TimePointSec, TimePoint, Microseconds, Enum, TrivialArray(2), Number(1), Bool, Uint, Safe(Sint), VectorChar, String,
   SharedString, Path, LogMessage, Exception, Opt(Uint), SharedPtr(Bool), Vector(Opt(Bool)), Deque(Bool), List(Uint),
   Set(Fixed(1)), UnorderedSet(Fixed(1)), FlatSet(Fixed(1)), Map(Fixed(1), Bool), UnorderedMap(Fixed(1), Bool),
   FlatMap(Fixed(1), Bool), FlatMultiset(Fixed(1)), FlatMultimap(Fixed(1), Bool), BoostVector(Opt(Bool)), BoostVectorChar,
   BoostNumbers(1), BoostNumbers(2), Reflected(<<Uint, String, Bool>>), Pair(Sint, Set(Fixed(1))), Array(2, Opt(Bool)), UInt256,
   CArray(2, Sint), StaticVariant(<<Bool, Set(Fixed(1)), Uint>>)}

Elems == {<<0>>, <<1>>, <<2^(Group + 1) - 1>>}
Short == {<< >>, <<0>>, <<2^Group, 1>>, [i \in 1..(MaxBytes + 1) |-> 1]}
RECURSIVE ValuesOf(_)
ValuesOf(t) ==
  CASE t.k = "fixed" -> [1..t.n -> {0, 1, 2^(Group + 1) - 1}]
    [] t.k = "bool" -> BOOLEAN
    [] t.k = "uint" -> 0..(2^Word - 1)
    [] t.k = "int" -> -(2^(Word - 1))..(2^(Word - 1) - 1)
    [] t.k \in {"bytes", "shared_string"} -> Short
    [] t.k \in {"set", "unordered_set"} -> SUBSET Elems
    [] t.k = "map" -> UNION {[D -> BOOLEAN] : D \in SUBSET Elems}
    [] t.k \in {"multiset", "multimap"} ->
         {s \in SeqOf(IF t.k = "multiset" THEN Elems ELSE Elems \X BOOLEAN, MaxCount + 1) :
            \A i \in 2..Len(s) : SortKey(t, s[i - 1]) <= SortKey(t, s[i])}
    [] t.k = "numbers" -> SeqOf([1..t.n -> {0, 1}], MaxCount + 1)
    [] t.k = "optional" -> {<< >>} \cup {<<v>> : v \in ValuesOf(t.of[1])}
    [] t.k = "list" -> SeqOf({0, 1, 2^Word - 1}, MaxCount + 1)
    [] t.k \in {"vector", "boost_vector"} -> SeqOf(ValuesOf(t.of[1]), MaxCount + 1)
    [] t.k = "message" -> {<<5, << >>>>} \cup {<<5, <<<<k, <<3, <<1>>>>>>>>>> : k \in Short \ {<< >>}}
    [] t = Exception -> {<<<<1>>, n, << >>, log>> : n \in Short \ {<<0>>}, log \in SeqOf(ValuesOf(LogMessage), 2)}
    [] t.k = "struct" /\ Len(t.of) = 2 -> ValuesOf(t.of[1]) \X ValuesOf(t.of[2])
    [] t.k = "struct" -> ValuesOf(t.of[1]) \X ValuesOf(t.of[2]) \X ValuesOf(t.of[3])
    [] t.k = "carray" -> {<<a, b>> : a \in ValuesOf(t.of[1]), b \in {-1, 0}}
    [] t.k = "variant" -> UNION {{<<i - 1, v>> : v \in ValuesOf(t.of[i])} : i \in DOMAIN t.of}
    [] OTHER -> LET flat == {<<0, << >>>>} \cup {<<1, <<b>>>> : b \in RawByte} \cup {<<2, TRUE>>} \cup {<<3, b>> : b \in Short}
                IN  flat \cup {<<4, vs>> : vs \in SeqOf(flat, 2)}
                         \cup {<<5, o>> : o \in {<<e>> : e \in Short \X flat}
                                            \cup {<<<<<< >>, d>>, <<<<0>>, e>>>> : d \in flat, e \in flat}}

PackValue == \E t \in Types : Calls("pack", {[t |-> t, v |-> v] : v \in ValuesOf(t)})
UnpackBytes == \E t \in Types : Calls("unpack", {[t |-> t, v |-> s] : s \in SeqOf(RawByte, MaxInput)})

RawNext == PackValue \/ UnpackBytes

-----------------------------------------------------------------------------
(* Properties. *)

\* Of the memory of a boost vector of numbers the first size() bytes are kept.
Survives(t, v) == IF t.k = "numbers" THEN FromMemory(SubSeq(FlattenSeq(v), 1, Len(v)), t.n) ELSE v

\* What pack takes is unpacked again, with nothing left over, into a new value;
\* but of a boost vector of numbers wider than a byte only a part.  The limits of
\* pack and unpack agree: what pack refuses, unpack would not have taken.
PackRoundTrip ==
  call.name = "pack" =>
    LET t == call.in.t
        p == Pack(t, call.in.v)
        bytes == Packing(t, call.in.v)
        back == Unpack(t, bytes \o <<1>>, Default(t))
    IN  IF p.ok THEN p.value = bytes /\ back = Read(Survives(t, call.in.v), <<1>>) ELSE ~ back.ok

\* No packed value is a proper prefix of another: unpacking a cut-off packing
\* throws, wherever it was cut, and never yields a value.
CutOffThrows ==
  call.name = "pack" =>
    LET t == call.in.t
        p == Pack(t, call.in.v)
    IN  \A n \in 0..(Len(p.value) - 1) : ~ Unpack(t, SubSeq(p.value, 1, n), Default(t)).ok

\* Whatever bytes unpack accepts, the value can be packed, into no more bytes
\* than were read, and unpacks to itself: repacking reaches a fixed point at once.
RepackShrinks ==
  call.name = "unpack" =>
    LET t == call.in.t
        r == Unpack(t, call.in.v, Default(t))
        p == Pack(t, r.v)
    IN  r.ok => /\ p.ok
                /\ Len(p.value) <= Len(call.in.v) - Len(r.rest)
                /\ Unpack(t, p.value, Default(t)) = Read(r.v, << >>)

RECURSIVE Keeps(_)
Keeps(t) ==
  \/ t.k \in {"set", "list", "optional", "dynamic", "shared_string"}
  \/ t.k \in {"struct", "carray", "vector"} /\ \E i \in DOMAIN t.of : Keeps(t.of[i])

\* Unpacking into a used object, whatever it held, gives what unpacking into a
\* new one does, for every type but std::set, std::list, std::optional,
\* shared_ptr and variant, whose old contents can survive (a shared_string must
\* be empty), and what is built of these in place: a std::vector or deque of
\* optionals too, as its elements are kept.  Each of these does keep something.
OverwritesOld ==
  call.name = "pack" =>
    LET t == call.in.t
        into(v, old) == Unpack(t, Packing(t, v), old)
    IN  IF ~ Keeps(t) THEN \A old \in ValuesOf(t) : into(call.in.v, old) = into(call.in.v, Default(t)) \/ ~ Pack(t, call.in.v).ok
        ELSE call.in.v = Default(t) => \E v, old \in ValuesOf(t) : Pack(t, v).ok /\ into(v, old) # into(v, Default(t))

\* What is packed is what is unpacked, and nothing else unpacks.
RawKept == PackRoundTrip /\ CutOffThrows /\ RepackShrinks /\ OverwritesOld
=============================================================================
