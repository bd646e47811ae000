---------------------------- MODULE VariantValue ----------------------------
(***************************************************************************)
(* The conversions, comparisons and arithmetic of fc::variant, the         *)
(* to_variant/from_variant of the standard types, and format_string.       *)
(*                                                                         *)
(* 64-bit words have Bits bits, the narrower types Narrow bits.  A double  *)
(* is NaN or a number of quarters of Significant leading bits, fewer       *)
(* than a word has; infinities and the sign of zero are left out.  A text  *)
(* is what a conversion tells apart: the decimals of an integer, a number  *)
(* with a fixed number of places (halves), "nan", base64 with so many '='  *)
(* after it, or a word of no such form.                                    *)
(***************************************************************************)
EXTENDS ClientCall, SequencesExt, FiniteSetsExt

CONSTANTS
  Bits, Narrow,
  Significant,       \* significant bits of a double (53 of 64)
  MaxElements,       \* MAX_NUM_ARRAY_ELEMENTS
  MaxByteArray,      \* MAX_SIZE_OF_BYTE_ARRAYS
  MaxSize,           \* minimize_max_size of format_string
  MaxFormat          \* length of the formats tried

ASSUME ValueAssumption ==
  /\ {Bits, Narrow, Significant, MaxElements, MaxByteArray, MaxSize, MaxFormat} \subseteq Nat \ {0}
  /\ Narrow < Bits /\ 1 < Significant /\ Significant < Bits

V(t, n, s, items) == [type |-> t, n |-> n, s |-> s, items |-> items]
Text(kind, n, pads) == [kind |-> kind, n |-> n, pads |-> pads]
Empty == Text("word", 0, 0)
WordTrue == Text("word", 1, 0)
WordFalse == Text("word", 2, 0)
Dec(n) == Text("int", n, 0)
Fixed(halves) == Text("fixed", halves, 0)
TextNaN == Text("nan", 0, 0)
Base64(data, pads) == Text("base64", data, pads)      \* data: the length of the blob

Null == V("null", 0, Empty, << >>)
Int64(n) == V("int64", n, Empty, << >>)
Uint64(n) == V("uint64", n, Empty, << >>)
Double(x) == V("double", x.q, IF x.nan THEN TextNaN ELSE Empty, << >>)
Bool(b) == V("bool", IF b THEN 1 ELSE 0, Empty, << >>)
Str(t) == V("string", 0, t, << >>)
Array(items) == V("array", 0, Empty, items)
Object == V("object", 0, Empty, << >>)
Blob(n) == V("blob", n, Empty, << >>)

ToUnsigned(n, w) == n % 2^w
ToSigned(n, w) == ((n + 2^(w - 1)) % 2^w) - 2^(w - 1)
Signed64 == -(2^(Bits - 1))..(2^(Bits - 1) - 1)
Unsigned64 == 0..(2^Bits - 1)

-----------------------------------------------------------------------------
(* Doubles. *)

NaN == [nan |-> TRUE, q |-> 0]
Real(n) == [nan |-> FALSE, q |-> n]

\* The whole number nearest to num / den, of two the even one.
Nearest(num, den) ==
  LET q == num \div den
      rest == 2 * (num % den)
  IN  IF rest > den \/ (rest = den /\ q % 2 = 1) THEN q + 1 ELSE q
\* The double nearest to num / den quarters: what the last of its bits stands for grows with it.
Rounded(num, den) ==
  LET size == IF num < 0 THEN -num ELSE num
      ulp == 2^(CHOOSE e \in 0..size : size < den * 2^(Significant + e) /\ (e = 0 \/ size >= den * 2^(Significant + e - 1)))
      near == ulp * Nearest(size, den * ulp)
  IN  Real(IF num < 0 THEN -near ELSE near)
DoubleOf(n) == Rounded(4 * n, 1)       \* static_cast<double> of an integer

\* A cast to an integer cuts towards zero.  C++ leaves it undefined when the
\* result is not of the type: undef is what the machine then gives.
Trunc(q) == IF q >= 0 THEN q \div 4 ELSE -((-q) \div 4)
DoubleTo(type, x, undef) == IF ~ x.nan /\ Trunc(x.q) \in type THEN Trunc(x.q) ELSE undef

-----------------------------------------------------------------------------
(* variant::as_... *)

\* Mutant: the most negative number is refused.
to_int64_OpenRange(t) ==
  IF t.kind = "int" /\ t.n \in Signed64 \ {-(2^(Bits - 1))} THEN Ok(t.n) ELSE Throw(0)

\* to_int64: the decimals of a number in range.
to_int64(t) ==
  IF t.kind = "int" /\ t.n \in Signed64 THEN Ok(t.n) ELSE Throw(0)

\* to_uint64: lexical_cast takes a minus sign and negates modulo the width.
to_uint64(t) ==
  IF t.kind = "int" /\ t.n \in (1 - 2^Bits)..(2^Bits - 1) THEN Ok(ToUnsigned(t.n, Bits)) ELSE Throw(0)

to_double(t) ==
  CASE t.kind = "int" -> Ok(DoubleOf(t.n)) [] t.kind = "fixed" -> Ok(Rounded(2 * t.n, 1))
    [] t.kind = "nan" -> Ok(NaN) [] OTHER -> Throw(NaN)

IsNaN(v) == v.type = "double" /\ v.s = TextNaN
Held(v) == IF IsNaN(v) THEN NaN ELSE Real(v.n)      \* the double a variant holds

as_int64(v, undef) ==
  CASE v.type = "string" -> to_int64(v.s)
    [] v.type = "double" -> Ok(DoubleTo(Signed64, Held(v), undef))
    [] v.type = "uint64" -> Ok(ToSigned(v.n, Bits))
    [] v.type \in {"int64", "bool", "null"} -> Ok(v.n)
    [] OTHER -> Throw(0)

as_uint64(v, undef) ==
  CASE v.type = "string" -> to_uint64(v.s)
    [] v.type = "double" -> Ok(DoubleTo(Unsigned64, Held(v), undef))
    [] v.type = "int64" -> Ok(ToUnsigned(v.n, Bits))
    [] v.type \in {"uint64", "bool", "null"} -> Ok(v.n)
    [] OTHER -> Throw(0)

as_double(v) ==
  CASE v.type = "string" -> to_double(v.s)
    [] v.type = "double" -> Ok(Held(v))
    [] v.type \in {"int64", "uint64", "bool", "null"} -> Ok(DoubleOf(v.n))
    [] OTHER -> Throw(NaN)

as_bool(v) ==
  CASE v.type = "string" -> IF v.s \in {WordTrue, WordFalse} THEN Ok(v.s = WordTrue) ELSE Throw(FALSE)
    [] v.type \in {"array", "object", "blob"} -> Throw(FALSE)
    [] OTHER -> Ok(v.n # 0 \/ IsNaN(v))

PadsOf(len) == (3 - (len % 3)) % 3      \* of base64_encode

as_string(v) ==
  CASE v.type = "string" -> Ok(v.s)
    [] v.type = "double" -> Ok(IF IsNaN(v) THEN TextNaN ELSE Fixed(Nearest(v.n, 2)))
    [] v.type \in {"int64", "uint64"} -> Ok(Dec(v.n))
    [] v.type = "bool" -> Ok(IF v.n = 1 THEN WordTrue ELSE WordFalse)
    [] v.type = "blob" -> Ok(IF v.n = 0 THEN Empty ELSE Base64(v.n, PadsOf(v.n) + 1))
    [] v.type = "null" -> Ok(Empty)
    [] OTHER -> Throw(Empty)

\* A blob of raw characters is told from one of decoded data by its text.
RawText(t) == [data |-> 0, raw |-> t]
Data(n) == [data |-> n, raw |-> Empty]

\* as_blob: only a text that ends in '=' is decoded; a number gives its own bytes.
as_blob(v) ==
  CASE v.type = "null" -> Ok(Data(0))
    [] v.type = "blob" -> Ok(Data(v.n))
    [] v.type = "string" -> IF v.s = Empty THEN Ok(Data(0))
                            ELSE IF v.s.pads > 0 THEN Ok(Data(v.s.n)) ELSE Ok(RawText(v.s))
    [] v.type \in {"object", "array"} -> Throw(Data(0))
    [] OTHER -> Ok(Data(8))

\* from_variant of a blob decodes whatever the text ends in.
blob_from_variant(v) ==
  LET t == as_string(v)
  IN  IF ~ t.ok \/ (t.value # Empty /\ t.value.kind # "base64") THEN Throw(Data(0)) ELSE Ok(Data(t.value.n))
blob_to_variant(n) == Str(IF n = 0 THEN Empty ELSE Base64(n, PadsOf(n)))

\* Vectors of bytes are texts of hex digits, up to a limit.  A std::vector takes
\* no text with an odd digit left over; a boost vector drops the digit.
Hex(digits) == IF digits = 0 THEN Empty ELSE Text("hex", digits, 0)
bytes_to_variant(n) == IF n > MaxByteArray THEN Throw(Null) ELSE Ok(Str(Hex(2 * n)))
HexOnly(v) == v.type = "string" /\ (v.s = Empty \/ v.s.kind = "hex") /\ v.s.n <= 2 * MaxByteArray
bytes_from_variant(v) == IF HexOnly(v) /\ v.s.n % 2 = 0 THEN Ok(v.s.n \div 2) ELSE Throw(0)
boost_bytes_from_variant(v) == IF HexOnly(v) THEN Ok(v.s.n \div 2) ELSE Throw(0)

-----------------------------------------------------------------------------
(* Comparison. *)

\* std::string compares by some total order.
Rank(t) ==
  t.n + t.pads * 1000 + (CASE t.kind = "int" -> 10000 [] t.kind = "fixed" -> 20000 [] t.kind = "word" -> 30000 [] OTHER -> 40000)

Ordered(x, y) == IF x < y THEN "less" ELSE IF x = y THEN "equal" ELSE "greater"
Compared(x, y, order(_, _)) == IF x.ok /\ y.ok THEN Ok(order(x.value, y.value)) ELSE Throw("unordered")

\* How two variants compare, as the first of string, double, int64 and uint64
\* that one of them is.  (Only the second case meets a double: nothing undefined.)
Order(a, b) ==
  LET either(t) == a.type = t \/ b.type = t
      texts(t, u) == Ordered(Rank(t), Rank(u))
      doubles(x, y) == IF x.nan \/ y.nan THEN "unordered" ELSE Ordered(x.q, y.q)
  IN  IF either("string") THEN Compared(as_string(a), as_string(b), texts)
      ELSE IF either("double") THEN Compared(as_double(a), as_double(b), doubles)
      ELSE IF either("int64") THEN Compared(as_int64(a, 0), as_int64(b, 0), Ordered)
      ELSE IF either("uint64") THEN Compared(as_uint64(a, 0), as_uint64(b, 0), Ordered)
      ELSE Throw("unordered")

Scalar(a, b) == \E t \in {"string", "double", "int64", "uint64"} : a.type = t \/ b.type = t

\* operator==: arrays by their elements; other pairs are never equal.
RECURSIVE Eq(_, _)
Eq(a, b) ==
  IF Scalar(a, b)
    THEN LET o == Order(a, b) IN IF o.ok THEN Ok(o.value = "equal") ELSE Throw(FALSE)
  ELSE IF a.type = "array" /\ b.type = "array"
    THEN IF Len(a.items) # Len(b.items) THEN Ok(FALSE)
         ELSE FoldLeft(LAMBDA r, i : IF r.ok /\ r.value THEN Eq(a.items[i], b.items[i]) ELSE r,
                       Ok(TRUE), [i \in DOMAIN a.items |-> i])
  ELSE IF a.type = "array" \/ b.type = "array" THEN Throw(FALSE)
  ELSE Ok(FALSE)

\* operator< and, with the operands swapped, operator>; <= compares the same way.
LessThan(a, b) ==
  LET o == Order(a, b) IN IF o.ok THEN Ok(o.value = "less") ELSE Throw(FALSE)
LessEq(a, b) ==
  LET o == Order(a, b) IN IF o.ok THEN Ok(o.value \in {"less", "equal"}) ELSE Throw(FALSE)

-----------------------------------------------------------------------------
(* Arithmetic: by the same precedence of types.  Arrays are left out: their  *)
(* results are written beyond the end of an empty vector.                    *)

\* Division cuts towards zero; by zero it is undefined and not asked for.
Quotient(x, y) == LET q == (IF x < 0 THEN -x ELSE x) \div (IF y < 0 THEN -y ELSE y) IN IF (x < 0) = (y < 0) THEN q ELSE -q
Apply(op, x, y) == CASE op = "-" -> x - y [] op = "*" -> x * y [] op = "/" -> Quotient(x, y) [] OTHER -> x + y

\* The result of a double operation is rounded; a product of quarters counts sixteenths.
DoubleApply(op, x, y) ==
  IF x.nan \/ y.nan THEN NaN
  ELSE CASE op = "*" -> Rounded(x.q * y.q, 4)
         [] op = "/" -> Rounded(4 * (IF y.q < 0 THEN -x.q ELSE x.q), IF y.q < 0 THEN -y.q ELSE y.q)
         [] OTHER -> Rounded(Apply(op, x.q, y.q), 1)

Joined(t, u) == Text("joined", Rank(t), Rank(u))

Arith(op, a, b) ==
  LET either(t) == a.type = t \/ b.type = t
      with(x, y, f(_, _)) == IF x.ok /\ y.ok THEN Ok(f(x.value, y.value)) ELSE Throw(Null)
      signed(x, y) == Int64(ToSigned(Apply(op, x, y), Bits))
      unsigned(x, y) == Uint64(ToUnsigned(Apply(op, x, y), Bits))
      double(x, y) == Double(DoubleApply(op, x, y))
  IN  IF op = "+" /\ either("string") 
        THEN LET x == as_string(a)
                 y == as_string(b)
             IN  IF x.ok /\ y.ok THEN Ok(Str(Joined(x.value, y.value))) ELSE Throw(Null)
      ELSE IF op = "-" /\ either("string") THEN Throw(Null)      \* calls itself on the two texts, without end
      ELSE IF either("double") THEN with(as_double(a), as_double(b), double)
      ELSE IF either("int64") THEN with(as_int64(a, 0), as_int64(b, 0), signed)
      ELSE IF either("uint64") THEN with(as_uint64(a, 0), as_uint64(b, 0), unsigned)
      ELSE Throw(Null)

-----------------------------------------------------------------------------
(* to_variant and from_variant. *)

\* Integers of w bits; from_variant casts without a check.
int_to_variant(n, signed) == IF signed THEN Int64(n) ELSE Uint64(n)
int_from_variant(v, w, signed, undef) ==
  LET r == IF signed THEN as_int64(v, undef) ELSE as_uint64(v, undef)
  IN  IF ~ r.ok THEN r ELSE Ok(IF signed THEN ToSigned(r.value, w) ELSE ToUnsigned(r.value, w))

\* 128-bit integers are texts; a number is taken if it has the same sign type.
int128_to_variant(n) == Str(Dec(n))
int128_from_variant(v, signed) ==
  IF v.type = (IF signed THEN "int64" ELSE "uint64") THEN Ok(v.n)
  ELSE IF v.type = "string" /\ v.s.kind = "int" THEN Ok(v.s.n)
  ELSE Throw(0)

\* The containers: a sequence of elements (the order in which a set or a map
\* iterates is not modelled), up to a limit.
range_to_variant(c) == IF Len(c) > MaxElements THEN Throw(Null) ELSE Ok(Array(c))

Distinct(s) == SelectSeq([i \in DOMAIN s |-> <<i, s[i]>>], LAMBDA e : \A j \in 1..(e[1] - 1) : s[j] # s[e[1]])
FirstOf(s) == [i \in DOMAIN Distinct(s) |-> Distinct(s)[i][2]]
FirstKeys(s) ==
  SelectSeq([i \in DOMAIN s |-> <<i, s[i]>>], LAMBDA e : \A j \in 1..(e[1] - 1) : s[j][1] # s[e[1]][1])

\* vector and deque append, the sets insert what is not there yet.
range_from_variant(v, unique) ==
  IF v.type # "array" \/ Len(v.items) > MaxElements THEN Throw(<< >>)
  ELSE Ok(IF unique THEN FirstOf(v.items) ELSE v.items)

\* A pair is an array of two; what is missing keeps its default.
pair_to_variant(p) == Array(p)
pair_from_variant(v) ==
  IF v.type # "array" THEN Throw(<<Null, Null>>)
  ELSE Ok(<<IF Len(v.items) > 0 THEN v.items[1] ELSE Null, IF Len(v.items) > 1 THEN v.items[2] ELSE Null>>)

\* The maps: arrays of pairs; a map keeps the first entry of a key, a multimap all.
map_from_variant(v, multi) ==
  LET pairs == [i \in DOMAIN v.items |-> pair_from_variant(v.items[i])]
      got == [i \in DOMAIN pairs |-> pairs[i].value]
      first == FirstKeys(got)
  IN  IF v.type # "array" \/ Len(v.items) > MaxElements \/ \E i \in DOMAIN pairs : ~ pairs[i].ok
        THEN Throw(<< >>)
        ELSE Ok(IF multi THEN got ELSE [i \in DOMAIN first |-> first[i][2]])
map_to_variant(m) == range_to_variant([i \in DOMAIN m |-> pair_to_variant(m[i])])

\* The boost vector and the flat containers convert alike.
boost_vector_from_variant(v) == range_from_variant(v, FALSE)
flat_set_from_variant(v, multi) == range_from_variant(v, ~multi)
flat_map_from_variant(v, multi) == map_from_variant(v, multi)
flat_to_variant(c) == range_to_variant(c)

\* std::array: at() throws when elements are missing; more are ignored.
array_from_variant(v, size) ==
  IF v.type # "array" \/ Len(v.items) < size THEN Throw(<< >>) ELSE Ok(SubSeq(v.items, 1, size))

\* optional and the smart pointers: null is the empty one.
None == << >>
optional_to_variant(o) == IF o = None THEN Null ELSE o[1]
optional_from_variant(v) == IF v.type = "null" THEN None ELSE <<v>>

\* std::variant: an array of the index and the value; from_index takes an int.
static_to_variant(index, v) == Array(<<Uint64(index), v>>)
static_from_variant(v, alternatives, undef) ==
  IF v.type # "array" THEN Throw(<<0, Null>>)
  ELSE IF Len(v.items) < 2 THEN Ok(<<0, Null>>)
  ELSE LET i == as_uint64(v.items[1], undef)
           index == ToSigned(i.value, Narrow)
       IN  IF i.ok /\ index \in 0..(alternatives - 1) THEN Ok(<<index, v.items[2]>>) ELSE Throw(<<0, Null>>)

-----------------------------------------------------------------------------
(* format_string: characters are "$", "{", "}", the key "k" and a control      *)
(* character "c"; an argument is [type, ctl, len], where len is the length of  *)
(* its text and ctl whether it consists of control characters.                 *)

Find(s, c, from) ==
  LET hits == {i \in DOMAIN s : i >= from /\ s[i] = c} IN IF hits = {} THEN 0 ELSE Min(hits)
Dots == <<".", ".", ".">>
Filled(n) == [i \in 1..n |-> "v"]
\* clean_append: a control character becomes \u00xx.  (Bytes that are not UTF-8,
\* which are dropped, are left out.)
Escaped == <<"u", "u", "u", "u", "u", "u">>
Cleaned(s) == FlattenSeq([i \in DOMAIN s |-> IF s[i] = "c" THEN Escaped ELSE <<s[i]>>])
ArgText(arg, n) == Cleaned([i \in 1..n |-> IF arg.ctl THEN "c" ELSE "v"])

\* The text of an argument, or Throw when it is left as it is.
Substitute(arg, result, minimize, sub) ==
  CASE arg.type = "object" ->
         IF minimize /\ (Len(result) >= MaxSize \/ arg.len > sub) THEN Throw(<< >>) ELSE Ok(Filled(arg.len))
    [] arg.type = "blob" ->
         IF minimize /\ arg.len > sub THEN Throw(<< >>) ELSE Ok(Filled(((arg.len + 2) \div 3) * 4 + 1))
    [] arg.type = "string" ->
         IF minimize /\ arg.len > sub
           THEN Ok(ArgText(arg, Min({sub, MaxSize - Len(result)})) \o Dots)
           ELSE Ok(ArgText(arg, arg.len))
    [] OTHER -> Ok(Filled(arg.len))

\* The loop: text up to the next '$', then a key in braces or a character.
RECURSIVE FormatFrom(_, _, _, _, _, _)
FormatFrom(f, prev, result, minimize, args, sub) ==
  IF prev > Len(f) THEN result
  ELSE
    LET next == Find(f, "$", prev)
        text == result \o Cleaned(SubSeq(f, prev, IF next = 0 THEN Len(f) ELSE next - 1))
        open == next + 1
        close == Find(f, "}", open)
    IN  IF next = 0 THEN text
        ELSE IF minimize /\ Len(text) > MaxSize THEN text \o Dots
        ELSE IF open <= Len(f) /\ f[open] = "{"
          THEN IF close = 0 THEN text \o Cleaned(SubSeq(f, open, Len(f)))      \* no '}': the rest, without the '$'
               ELSE LET key == SubSeq(f, open + 1, close - 1)
                        r == IF key \in DOMAIN args THEN Substitute(args[key], text, minimize, sub) ELSE Throw(<< >>)
                    IN  FormatFrom(f, close + 1,
                                   text \o (IF r.ok THEN r.value ELSE <<"$", "{">> \o Cleaned(key) \o <<"}">>),
                                   minimize, args, sub)
        ELSE FormatFrom(f, open + 1, text \o (IF open <= Len(f) THEN Cleaned(<<f[open]>>) ELSE << >>), minimize, args, sub)

format_string(frmt, args, minimize) ==
  LET f == IF minimize /\ Len(frmt) > MaxSize THEN SubSeq(frmt, 1, MaxSize) \o Dots ELSE frmt
      n == IF DOMAIN args = {} THEN 1 ELSE Cardinality(DOMAIN args)
      sub == IF minimize THEN (Max({MaxSize, Len(f)}) - Len(f)) \div n ELSE MaxSize
  IN  FormatFrom(f, 1, << >>, minimize, args, sub)

-----------------------------------------------------------------------------
(* The calls. *)

\* Every double up to the first beyond the integers, on both sides, and NaN.
Doubles == {NaN} \cup {Rounded(q, 1) : q \in -(6 * 2^Bits)..(6 * 2^Bits)}
Scalars ==
  {Null, Bool(TRUE), Bool(FALSE), Object, Blob(0), Blob(2), Blob(3)}
    \cup {Int64(n) : n \in Signed64} \cup {Uint64(n) : n \in Unsigned64} \cup {Double(x) : x \in Doubles}
    \cup {Str(t) : t \in {Empty, WordTrue, Dec(1), Dec(-1), Fixed(1), TextNaN, Base64(3, 0)}}
Values == Scalars \cup {Array(<< >>), Array(<<Int64(1)>>), Array(<<Object>>)}

CompareValues == Calls("compare", [a : Values, b : Values])
ConvertInt == Calls("int", 0..(2^Bits - 1))
CastDouble == Calls("double", [x : Doubles, undef : Signed64 \cup Unsigned64])
ConvertBlob == Calls("blob", 0..7)
ConvertRange ==
  Calls("range", SeqOf({Uint64(0), Uint64(1), Null, Array(<<Uint64(0), Uint64(1)>>), Array(<<Uint64(0), Uint64(0)>>)}, MaxElements + 1))
Format ==
  Calls("format", [f : SeqOf({"c", "$", "{", "k", "}"}, MaxFormat), min : BOOLEAN,
                   arg : {<< >>} \cup {<<[type |-> t, ctl |-> c, len |-> n]>> :
                                        t \in {"object", "blob", "string"}, c \in BOOLEAN, n \in {1, 8 * MaxSize}}])

ValueNext == CompareValues \/ ConvertInt \/ CastDouble \/ ConvertBlob \/ ConvertRange \/ Format

-----------------------------------------------------------------------------
(* Properties. *)

\* Where two variants can be ordered at all, exactly one of less, equal and
\* greater holds, whatever their types, unless one is compared as NaN, when none
\* does; the order of the operands does not decide whether a comparison throws.
Trichotomy ==
  call.name = "compare" =>
    LET a == call.in.a
        b == call.in.b
        less == LessThan(a, b)
        eq == Eq(a, b)
        texts == "string" \in {a.type, b.type}
        true == {i \in 1..3 : <<less.value, eq.value, LessThan(b, a).value>>[i]}
    IN  /\ Eq(b, a) = eq
        /\ less.ok <=> LessThan(b, a).ok
        /\ less.ok => /\ eq.ok
                      /\ Cardinality(true) = IF ~ texts /\ (IsNaN(a) \/ IsNaN(b)) THEN 0 ELSE 1
                      /\ LessEq(a, b).value <=> less.value \/ eq.value

\* Taking off what was added gives back a value that operator== holds equal to
\* the first: of integers for every mix of types, also when the sum wraps; of
\* doubles when the sum was not rounded.
SubUndoesAdd ==
  call.name = "compare" =>
    LET a == call.in.a
        b == call.in.b
        sum == Arith("+", a, b)
        back == Arith("-", sum.value, b)
        exact == sum.value.type = "double" =>
                   /\ ~ IsNaN(sum.value)
                   /\ sum.value.n = as_double(a).value.q + as_double(b).value.q
    IN  sum.ok /\ sum.value.type # "string" /\ exact => back.ok /\ Eq(back.value, a) = Ok(TRUE)

\* An integer up to 2^53 survives a double.  A larger one may change, but keeps
\* its order, and the way back is defined but for the unsigned ones that round
\* up to 2^64 (and the signed ones that round up to 2^63).
IntThroughDouble ==
  call.name = "compare" /\ {call.in.a.type, call.in.b.type} \subseteq {"int64", "uint64"} =>
    LET a == call.in.a
        d(v) == as_double(v).value
        back(undef) == IF a.type = "int64" THEN as_int64(Double(d(a)), undef) ELSE as_uint64(Double(d(a)), undef)
        top == IF a.type = "int64" THEN Bits - 1 ELSE Bits
    IN  /\ a.n \in -(2^Significant)..(2^Significant) => back(0) = Ok(a.n) /\ back(1) = Ok(a.n)
        /\ back(0) = back(1) <=> a.n < 2^top - 2^(top - Significant - 1)
        /\ a.n <= call.in.b.n => d(a).q <= d(call.in.b).q

\* A double is cut to an integer when that is one of the type, and is then less
\* than one away; the text of a double, which has a fixed number of places, gives
\* it back unless it is so small that its bits go beyond them.
DoubleKept ==
  call.name = "double" =>
    LET x == call.in.x
        close(n) == n * 4 - x.q \in -3..3
        inside(type) == ~ x.nan /\ \E n \in type : close(n) /\ (x.q >= 0 => n * 4 <= x.q) /\ (x.q <= 0 => n * 4 >= x.q)
        got == as_double(Str(as_string(Double(x)).value))
    IN  /\ inside(Signed64) => close(as_int64(Double(x), call.in.undef).value)
        /\ inside(Unsigned64) => close(as_uint64(Double(x), call.in.undef).value)
        /\ got.ok /\ (x.nan <=> got.value.nan)
        /\ x.q \notin {-3, -1, 1, 3} => got.value = x

\* Dividing a product that did not wrap by one factor gives back the other, for
\* every mix of integer types.
DivUndoesMul ==
  call.name = "compare" =>
    LET a == call.in.a
        b == call.in.b
        product == Arith("*", a, b)
    IN  {a.type, b.type} \subseteq {"int64", "uint64", "bool"} /\ b.n # 0 /\ a.n >= 0 /\ b.n >= 0 /\ product.ok
          /\ a.n * b.n < 2^(Bits - 1) => Eq(Arith("/", product.value, b).value, a) = Ok(TRUE)

\* Integers of every width survive a variant, a text of it, and a 64-bit text.
IntRoundTrip ==
  call.name = "int" =>
    \A w \in {Narrow, Bits}, signed \in BOOLEAN :
      LET n == IF signed THEN ToSigned(call.in, w) ELSE ToUnsigned(call.in, w)
          v == int_to_variant(n, signed)
      IN  /\ int_from_variant(v, w, signed, 0) = Ok(n)
          /\ int_from_variant(Str(as_string(v).value), w, signed, 0) = Ok(n)
          /\ int128_from_variant(int128_to_variant(n), signed) = Ok(n)

\* The truth of a bool survives its text, and a text is refused unless it is one.
BoolRoundTrip ==
  call.name = "compare" /\ as_string(call.in.a).ok =>
    LET text == as_bool(Str(as_string(call.in.a).value))
    IN  /\ call.in.a.type = "bool" => text.ok /\ text = as_bool(call.in.a)
        /\ call.in.a.type \notin {"bool", "string"} => ~text.ok

\* A blob variant survives its own text, read by either conversion, and the
\* text to_variant makes of a blob survives from_variant.
BlobRoundTrip ==
  call.name = "blob" =>
    LET v == Blob(call.in)
    IN  /\ as_blob(Str(as_string(v).value)) = Ok(Data(call.in))
        /\ blob_from_variant(Str(as_string(v).value)) = Ok(Data(call.in))
        /\ blob_from_variant(blob_to_variant(call.in)) = Ok(Data(call.in))

\* The bytes that can be written as hex are read back by either vector, and
\* what a std::vector takes it writes again as it was.
BytesRoundTrip ==
  call.name = "blob" =>
    LET made == bytes_to_variant(call.in)
        taken == bytes_from_variant(Str(Hex(call.in)))
    IN  /\ made.ok <=> call.in <= MaxByteArray
        /\ made.ok => {bytes_from_variant(made.value), boost_bytes_from_variant(made.value)} = {Ok(call.in)}
        /\ taken.ok => bytes_to_variant(taken.value) = Ok(Str(Hex(call.in))) /\ boost_bytes_from_variant(Str(Hex(call.in))) = taken

\* What a container was read from need not be what it writes (duplicates, pairs
\* that are too short), but what it writes it reads back, up to the limit.
ContainersStable ==
  call.name = "range" =>
    LET a == Array(call.in)
        stable(from(_), to(_)) ==
          from(a).ok => to(from(a).value).ok /\ from(to(from(a).value).value) = from(a)
        seqFrom(v) == range_from_variant(v, FALSE)
        setFrom(v) == range_from_variant(v, TRUE)
        mapFrom(v) == map_from_variant(v, FALSE)
        multiFrom(v) == map_from_variant(v, TRUE)
        boostFrom(v) == boost_vector_from_variant(v)
        flatSetFrom(v) == flat_set_from_variant(v, FALSE)
        flatMapFrom(v) == flat_map_from_variant(v, FALSE)
        flatMapTo(m) == flat_to_variant([i \in DOMAIN m |-> pair_to_variant(m[i])])
        fixedFrom(v) == array_from_variant(v, 2)
        staticFrom(v) == static_from_variant(v, 2, 0)
        staticTo(s) == Ok(static_to_variant(s[1], s[2]))
    IN  /\ range_to_variant(call.in).ok <=> range_from_variant(a, FALSE).ok
        /\ stable(seqFrom, range_to_variant) /\ stable(setFrom, range_to_variant)
        /\ stable(boostFrom, flat_to_variant) /\ stable(flatSetFrom, flat_to_variant) /\ stable(flatMapFrom, flatMapTo)
        /\ flatMapFrom(a) = mapFrom(a) /\ flat_map_from_variant(a, TRUE) = multiFrom(a) /\ flat_set_from_variant(a, TRUE) = seqFrom(a)
        /\ stable(mapFrom, map_to_variant) /\ stable(multiFrom, map_to_variant)
        /\ stable(fixedFrom, range_to_variant) /\ stable(staticFrom, staticTo)
        /\ \A i \in DOMAIN call.in :
             LET o == optional_from_variant(call.in[i]) IN optional_from_variant(optional_to_variant(o)) = o

Args(arg) == IF arg = << >> THEN << >> ELSE (<<"k">> :> arg[1])

\* A minimized message has a bounded size, however long its arguments are and
\* however often the format names them: what precedes an argument, the argument
\* (or its key) and what follows the last one are each cut.  The cut comes before
\* control characters are escaped, so the bound is not the 1024 asked for but
\* seven times that.  (Cutting never subtracts more than it has.)
FormatBounded ==
  call.name = "format" /\ call.in.min =>
    Len(format_string(call.in.f, Args(call.in.arg), TRUE)) <= (1 + Len(Escaped)) * MaxSize + 2 * Len(Dots)

\* With no argument the text of the format is kept, but for '$' signs and with
\* its control characters escaped.
FormatKeepsText ==
  call.name = "format" /\ ~ call.in.min /\ call.in.arg = << >> =>
    LET text(s) == SelectSeq(s, LAMBDA c : c # "$")
    IN  text(format_string(call.in.f, << >>, FALSE)) = text(Cleaned(call.in.f))

\* Variants compare, compute and convert as the values they hold.
VariantsKept ==
  /\ Trichotomy /\ SubUndoesAdd /\ IntThroughDouble /\ DoubleKept /\ DivUndoesMul /\ IntRoundTrip /\ BoolRoundTrip /\ BlobRoundTrip /\ BytesRoundTrip
  /\ ContainersStable /\ FormatBounded /\ FormatKeepsText
=============================================================================
