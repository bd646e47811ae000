-------------------------------- MODULE Json --------------------------------
(***************************************************************************)
(* fc::json: the legacy parser, the strict and relaxed parsers of          *)
(* json_relaxed.hpp, the writer and the pretty printer.                    *)
(*                                                                         *)
(* A text is a sequence of symbols: punctuation, digits, letters, one      *)
(* symbol for each of the words null, true and false, "eol" for \n, "cr"   *)
(* for \r, "ctl" for a control character, "eot" for ^D, "nul" for \0 and   *)
(* "bad" for 0xff, which as a char equals EOF and is not UTF-8.  Integers  *)
(* have Bits bits (64).                                                    *)
(***************************************************************************)
EXTENDS ClientCall, SequencesExt, FiniteSetsExt

CONSTANTS
  Bits,
  DepthMod,           \* max_depth is an unsigned integer below DepthMod
  Alphabet, MaxText,  \* the texts parsed are Alphabet strings up to MaxText
  StringSymbols       \* the symbols of the strings that are written

Quote == "\""
White == {" ", "eol", "cr"}
Digit == {"0", "1", "2", "3", "4", "5", "6", "7", "8", "9"}
TokenLetter == {"n", "r", "e", "null", "true", "false"}      \* of null, true, false
Letter == TokenLetter \cup {"b", "o", "x", "u"}
Alnum == Digit \cup Letter
MaxUint == 2^Bits - 1
MinInt == -(2^(Bits - 1))

(* A variant: its type, its number, its text, and its elements with keys. *)
V(t, n, s, a) == [t |-> t, n |-> n, s |-> s, a |-> a]
Null == V("null", 0, << >>, << >>)
Bool(b) == V("bool", IF b THEN 1 ELSE 0, << >>, << >>)
Uint(n) == V("uint64", n, << >>, << >>)
Sint(n) == V("int64", n, << >>, << >>)
Double(s) == V("double", 0, s, << >>)
Str(s) == V("string", 0, s, << >>)
Blob(s) == V("blob", 0, s, << >>)                  \* s: what as_string gives
Array(a) == V("array", 0, << >>, a)
Object(a) == V("object", 0, << >>, a)
Member(k, v) == [k |-> k, v |-> v]
Element(v) == Member(<< >>, v)

(* What reading from a stream ends with: a value, a parse_error_exception,   *)
(* an eof_exception, or never.                                               *)
Got(v, rest) == [st |-> "ok", v |-> v, rest |-> rest]
Failed(st) == [st |-> st, v |-> Null, rest |-> << >>]
Error == Failed("error")
Eof == Failed("eof")
Hang == Failed("hang")
AsError(r) == IF r.st = "eof" THEN Error ELSE r

Rest(s, n) == SubSeq(s, n + 1, Len(s))
Peek(in) == IF in = << >> THEN "EOF" ELSE Head(in)
Leading(in, set) == IF \E i \in DOMAIN in : in[i] \notin set
                    THEN Min({i \in DOMAIN in : in[i] \notin set}) - 1 ELSE Len(in)
skip_white_space(in) == Rest(in, Leading(in, White))

-----------------------------------------------------------------------------
(* Escapes, tokens and strings. *)

\* What parseEscape returns for the symbol after the backslash.
parseEscape(c) == CASE c = "n" -> "eol" [] c = "r" -> "cr" [] c = "EOF" -> "bad" [] OTHER -> c

\* The text of a token of "plain" symbols and escapes; a symbol of "ends" that follows is eaten.
RECURSIVE Token(_, _, _, _)
Token(in, acc, plain, ends) ==
  CASE Peek(in) = "\\"   -> Token(Rest(in, 2), Append(acc, parseEscape(Peek(Tail(in)))), plain, ends)
    [] Peek(in) \in plain -> Token(Tail(in), Append(acc, Head(in)), plain, ends)
    [] Peek(in) \in ends  -> Got(Str(acc), Tail(in))
    [] OTHER              -> Got(Str(acc), in)

stringFromToken(in) == Token(in, << >>, Alnum \cup {"-", ".", ":"}, {" ", "eol"})
tokenFromStream(in) == Token(in, << >>, Alnum \cup {"-", ".", "+"}, {" ", "eol", ",", ":", "nul", "eot"})

\* The legacy string: everything up to the closing quote.
RECURSIVE LegacyString(_, _)
LegacyString(in, acc) ==
  CASE Peek(in) = "\\" -> LegacyString(Rest(in, 2), Append(acc, parseEscape(Peek(Tail(in)))))
    [] Peek(in) = Quote -> Got(Str(acc), Tail(in))
    [] Peek(in) \in {"eot", "EOF"} -> Error
    [] OTHER -> LegacyString(Tail(in), Append(acc, Head(in)))

\* The body of a string the relaxed parsers read, closed by q.
RECURSIVE QuotedString(_, _, _, _)
QuotedString(in, q, acc, allow_escape) ==
  CASE Peek(in) \in {"EOF", "bad"} -> Eof
    [] Peek(in) = q -> Got(Str(acc), Tail(in))
    [] Peek(in) \in {"eot", "cr", "eol"} -> Error
    [] Peek(in) = "\\" /\ allow_escape ->
         QuotedString(Rest(in, 2), q, Append(acc, parseEscape(Peek(Tail(in)))), allow_escape)
    [] OTHER -> QuotedString(Tail(in), q, Append(acc, Head(in)), allow_escape)

\* The body of a triple-quoted string: the end of the stream is not noticed.
RECURSIVE TripleString(_, _, _, _)
TripleString(in, q, acc, allow_escape) ==
  CASE Peek(in) = "EOF" -> Hang
    [] Peek(in) = q /\ Leading(in, {q}) >= 3 -> Got(Str(acc), Rest(in, 3))
    [] Peek(in) = "eot" -> Error
    [] Peek(in) = "\\" /\ allow_escape ->
         TripleString(Rest(in, 2), q, Append(acc, parseEscape(Peek(Tail(in)))), allow_escape)
    [] OTHER -> TripleString(Tail(in), q, Append(acc, Head(in)), allow_escape)

\* Two quotes are an empty string, or open a triple-quoted one.
AfterTwoQuotes(in, q, strict, allow_escape) ==
  CASE Peek(in) # q -> Got(Str(<< >>), in)
    [] strict -> Error
    [] OTHER -> TripleString(Tail(in), q, << >>, allow_escape)

quoteStringFromStream(in, strict, allow_escape) ==
  LET q == Peek(in) IN
  CASE q \notin {Quote, "'"} -> Error
    [] q = "'" /\ strict -> Error
    [] Leading(in, {q}) >= 2 -> AfterTwoQuotes(Rest(in, 2), q, strict, allow_escape)
    [] OTHER -> QuotedString(Tail(in), q, << >>, allow_escape)

\* A key: quoted, raw or, outside strict mode, a bare token.
stringFromStream(in, strict) ==
  CASE Peek(in) \in {Quote, "'"} -> quoteStringFromStream(in, strict, TRUE)
    [] Peek(in) = "r" /\ ~strict /\ Peek(Tail(in)) \in {Quote, "'"} ->
         quoteStringFromStream(Tail(in), strict, FALSE)
    [] Peek(in) \in Alnum \cup {"-", ".", "+"} -> IF strict THEN Error ELSE tokenFromStream(in)
    [] Peek(in) = "EOF" -> Eof
    [] OTHER -> Error

-----------------------------------------------------------------------------
(* Numbers. *)

CharValue(c) ==
  CASE c \in Digit -> CHOOSE d \in 0..9 : ToString(d) = c
    [] c \in {"b", "e", "n", "o", "r", "u", "x"} ->
         CASE c = "b" -> 11 [] c = "e" -> 14 [] c = "n" -> 23 [] c = "o" -> 24
           [] c = "r" -> 27 [] c = "u" -> 30 [] c = "x" -> 33
    [] OTHER -> 255

\* One digit more, or -1 for an illegal character or an overflow.
Accumulate(base, val, c) ==
  IF CharValue(c) = 255 \/ val > MaxUint \div base \/ val * base + CharValue(c) > MaxUint
  THEN -1 ELSE val * base + CharValue(c)

parseInt(base, token, start) ==
  LET val == FoldLeft(LAMBDA v, c : IF v = -1 THEN -1 ELSE Accumulate(base, v, c), 0,
                      SubSeq(token, start, Len(token)))
  IN CASE start > Len(token) \/ val = -1 -> Error
       [] token[1] # "-" -> Got(Uint(val), << >>)
       [] val > -MinInt -> Error
       [] OTHER -> Got(Sint(-val), << >>)

\* What is no number is an error in strict mode and a string otherwise.
NoNumber(strict, token) == IF strict THEN Error ELSE Got(Str(token), << >>)
maybeParseInt(strict, base, token, start) ==
  LET r == parseInt(base, token, start) IN IF r.st = "ok" THEN r ELSE NoNumber(strict, token)

\* After "e": an optional sign and digits make a double.
Exponent(strict, token, i) ==
  LET digits == IF i <= Len(token) /\ token[i] \in {"+", "-"} THEN i + 1 ELSE i
      other == {token[j] : j \in digits..Len(token)} \ Digit
  IN IF digits > Len(token) \/ other # {} THEN NoNumber(strict, token) ELSE Got(Double(token), << >>)

\* The integer or exponent that starts at i; a dot makes a string of it.
Decimal(strict, token, i) ==
  LET j == i + Leading(SubSeq(token, i, Len(token)), Digit) IN
  CASE j > Len(token) -> parseInt(10, token, i)
    [] token[j] = "." -> Got(Str(token), << >>)
    [] token[j] = "e" -> Exponent(strict, token, j + 1)
    [] token[j] \in Letter \cup {"-", "+"} -> NoNumber(strict, token)
    [] OTHER -> Error

\* 0b, 0o and 0x: the binary literal loses its first digit (start i + 3).
Prefixed(strict, token, i) ==
  CASE strict -> Error
    [] token[i + 1] = "b" -> IF i + 2 > Len(token) THEN Error ELSE maybeParseInt(strict, 2, token, i + 3)
    [] token[i + 1] = "o" -> maybeParseInt(strict, 8, token, i + 2)
    [] token[i + 1] = "x" -> maybeParseInt(strict, 16, token, i + 2)

parseNumberOrStr(strict, token) ==
  LET i == IF token # << >> /\ token[1] \in {"+", "-"} THEN 2 ELSE 1 IN
  CASE token = << >> \/ (strict /\ token[1] = "+") \/ i > Len(token) -> Error
    [] token[i] = "0" /\ i = Len(token) -> Got(Uint(0), << >>)
    [] token[i] = "0" /\ token[i + 1] \in {"b", "o", "x"} -> Prefixed(strict, token, i)
    [] token[i] = "0" /\ strict /\ token[i + 1] \notin {".", "e"} -> Error
    [] token[i] \in Digit -> Decimal(strict, token, i)
    [] token[i] \in Letter \cup {"-", ".", "+"} -> NoNumber(strict, token)
    [] OTHER -> Error

numberFromStream(in, strict) ==
  LET t == tokenFromStream(in)
      r == parseNumberOrStr(strict, t.v.s)
  IN IF r.st = "ok" /\ ~(strict /\ r.v.t = "string") THEN Got(r.v, t.rest) ELSE Error

\* The legacy number: a sign, digits with at most one dot; with letters behind, a string.
number_from_stream(in, string_doubles) ==
  LET neg == Peek(in) = "-"
      body == IF neg THEN Tail(in) ELSE in
      n == Leading(body, Digit \cup {"."})
      dots == Cardinality({i \in 1..n : body[i] = "."})
      str == SubSeq(in, 1, (IF neg THEN 1 ELSE 0) + n)
      rest == Rest(body, n)
      tail == stringFromToken(rest)
      int == parseInt(10, str, IF neg THEN 2 ELSE 1)
  IN CASE dots > 1 -> Error
       [] Peek(rest) \in Alnum -> Got(Str(str \o tail.v.s), tail.rest)
       [] n = 0 \/ str \in {<<".">>, <<"-", ".">>} -> Error
       [] dots = 1 -> Got(IF string_doubles THEN Str(str) ELSE Double(str), rest)
       [] OTHER -> IF int.st = "ok" THEN Got(int.v, rest) ELSE Error

Word(s) == CASE s = <<"null">> -> Null [] s = <<"true">> -> Bool(TRUE)
             [] s = <<"false">> -> Bool(FALSE) [] OTHER -> Str(s)

\* The legacy word: "nullx" is null, with x left in the stream.
token_from_stream(in) ==
  LET n == Leading(in, TokenLetter)
      str == SubSeq(in, 1, n)
      tail == stringFromToken(Rest(in, n))
  IN IF Word(str).t # "string" THEN Got(Word(str), Rest(in, n)) ELSE Got(Str(str \o tail.v.s), tail.rest)

wordFromStream(in, strict) ==
  LET t == tokenFromStream(in) IN
  IF strict /\ Word(t.v.s).t = "string" THEN Error ELSE Got(Word(t.v.s), t.rest)

-----------------------------------------------------------------------------
(* Values.  The parse types: "legacy", "legacy_strings" (doubles as          *)
(* strings), "strict" and "relaxed".  Only the legacy ones look at d.        *)

Legacy(m) == m \in {"legacy", "legacy_strings"}

\* mutable_variant_object::operator(): a repeated key keeps its place.
SetMember(a, k, v) ==
  IF \E i \in DOMAIN a : a[i].k = k THEN [i \in DOMAIN a |-> IF a[i].k = k THEN Member(k, v) ELSE a[i]]
  ELSE Append(a, Member(k, v))

Deeper(d) == (d - 1) % DepthMod

RECURSIVE variant_from_stream(_, _, _), objectFromStream(_, _, _, _), arrayFromStream(_, _, _, _)
legacy_variant(in, d, m) ==
  CASE d = 0 -> Error
    [] Peek(in) \in {"EOF", "nul", "eot", "bad"} -> Eof
    [] Peek(in) = Quote -> LegacyString(Tail(in), << >>)
    [] Peek(in) = "{" -> objectFromStream(Tail(in), << >>, Deeper(d), m)
    [] Peek(in) = "[" -> arrayFromStream(Tail(in), << >>, Deeper(d), m)
    [] Peek(in) \in Digit \cup {"-", "."} -> number_from_stream(in, m = "legacy_strings")
    [] Peek(in) \in {"n", "null", "true", "false"} -> token_from_stream(in)
    [] OTHER -> Error

relaxed_variant(in, d, m) ==
  CASE Peek(in) \in {"EOF", "nul", "eot", "bad"} -> Eof
    [] Peek(in) = Quote -> stringFromStream(in, m = "strict")
    [] Peek(in) = "{" -> objectFromStream(Tail(in), << >>, Deeper(d), m)
    [] Peek(in) = "[" -> arrayFromStream(Tail(in), << >>, Deeper(d), m)
    [] Peek(in) \in Digit \cup {"-", ".", "+"} -> numberFromStream(in, m = "strict")
    [] Peek(in) \in Letter -> wordFromStream(in, m = "strict")
    [] OTHER -> Error

variant_from_stream(stream, d, m) ==
  LET in == skip_white_space(stream) IN IF Legacy(m) THEN legacy_variant(in, d, m) ELSE relaxed_variant(in, d, m)

\* The members after the ones in acc; an end of file inside an object is a parse error.
objectFromStream(in, acc, d, m) ==
  LET key == IF Legacy(m) THEN (IF Peek(in) = Quote THEN LegacyString(Tail(in), << >>) ELSE Error)
             ELSE stringFromStream(in, m = "strict")
      colon == skip_white_space(key.rest)
      val == variant_from_stream(Tail(colon), Deeper(d), m)
  IN CASE Peek(in) = "}" -> Got(Object(acc), Tail(in))
       [] Peek(in) = "," -> objectFromStream(Tail(in), acc, d, m)
       [] Peek(in) \in White -> objectFromStream(skip_white_space(in), acc, d, m)
       [] OTHER -> IF key.st # "ok" THEN AsError(key)
                   ELSE IF Peek(colon) # ":" THEN Error
                   ELSE IF val.st # "ok" THEN AsError(val)
                   ELSE objectFromStream(val.rest, SetMember(acc, key.v.s, val.v), d, m)

arrayFromStream(in, acc, d, m) ==
  LET val == variant_from_stream(in, Deeper(d), m)
  IN CASE Peek(in) = "]" -> Got(Array(acc), Tail(in))
       [] Peek(in) = "," -> arrayFromStream(Tail(in), acc, d, m)
       [] Peek(in) \in White -> arrayFromStream(skip_white_space(in), acc, d, m)
       [] OTHER -> IF val.st # "ok" THEN val ELSE arrayFromStream(val.rest, Append(acc, Element(val.v)), d, m)

\* What follows the value is not looked at.
from_string(text, m, d) == variant_from_stream(text, d, m)
from_file(content, m, d) == variant_from_stream(content, d, m)

\* Values up to an eof_exception, always with the relaxed parser.
RECURSIVE variants_from_string(_, _), VariantsAfter(_, _)
VariantsAfter(val, acc) ==
  CASE val.st = "eof" -> Got(Array(acc), << >>)
    [] val.st = "ok" -> variants_from_string(val.rest, Append(acc, Element(val.v)))
    [] OTHER -> val
variants_from_string(in, acc) == VariantsAfter(variant_from_stream(in, 0, "relaxed"), acc)

-----------------------------------------------------------------------------
(* Writing. *)

\* Mutant: a backslash is left alone.
Escaped_NoBackslash(c) ==
  CASE c = "eol" -> <<"\\", "n">> [] c = "cr" -> <<"\\", "r">> [] c = Quote -> <<"\\", Quote>>
    [] c = "ctl" -> <<"\\", "u", "0">> [] OTHER -> <<c>>

Escaped(c) ==
  CASE c = "eol" -> <<"\\", "n">> [] c = "cr" -> <<"\\", "r">> [] c \in {Quote, "\\"} -> <<"\\", c>>
    [] c \in {"ctl", "eot", "nul"} -> <<"\\", "u", "0">> [] OTHER -> <<c>>

\* Control characters as \u00xx; what is not UTF-8 is pruned.
escape_string(s, escape_control_chars) ==
  LET e(c) == IF escape_control_chars \/ c \in {"ctl", "eot", "nul"} THEN Escaped(c) ELSE <<c>>
  IN SelectSeq(FlattenSeq([i \in DOMAIN s |-> e(s[i])]), LAMBDA c : c # "bad")

Quoted(s) == <<Quote>> \o s \o <<Quote>>
DigitsOf(n) == (IF n > 9 THEN <<ToString(n \div 10)>> ELSE << >>) \o <<ToString(n % 10)>>   \* below 100
Decimals(n) == IF n < 0 THEN <<"-">> \o DigitsOf(-n) ELSE DigitsOf(n)
Large(n) == n > 2^(Bits \div 2) - 1                               \* > 0xffffffff
Joined(parts) == FlattenSeq([i \in DOMAIN parts |-> IF i = 1 THEN parts[i] ELSE <<",">> \o parts[i]])

RECURSIVE to_stream(_, _)
to_stream(v, stringify) ==
  CASE v.t = "null" -> <<"null">>
    [] v.t \in {"int64", "uint64"} ->
         IF stringify /\ Large(v.n) THEN Quoted(Decimals(v.n)) ELSE Decimals(v.n)
    [] v.t = "double" -> IF stringify THEN Quoted(v.s) ELSE v.s
    [] v.t = "bool" -> IF v.n = 1 THEN <<"true">> ELSE <<"false">>
    [] v.t \in {"string", "blob"} -> Quoted(escape_string(v.s, TRUE))
    [] v.t = "array" -> <<"[">> \o Joined([i \in DOMAIN v.a |-> to_stream(v.a[i].v, stringify)]) \o <<"]">>
    [] v.t = "object" ->
         <<"{">> \o Joined([i \in DOMAIN v.a |-> Quoted(escape_string(v.a[i].k, TRUE)) \o <<":">>
                                                 \o to_stream(v.a[i].v, stringify)]) \o <<"}">>

to_string(v, stringify) == to_stream(v, stringify)

\* One symbol of pretty_print.  p: the output, the nesting, and three flags.
Indented(p, c) ==
  IF p.first THEN [p EXCEPT !.out = @ \o <<"eol">> \o [i \in 1..p.level |-> " "] \o <<c>>, !.first = FALSE]
  ELSE [p EXCEPT !.out = Append(@, c)]
PrettyQuote(p) == [Indented(p, Quote) EXCEPT !.quote = IF p.escape THEN @ ELSE ~@, !.escape = FALSE]
PrettyClose(p, c, last) ==
  LET eol == IF last \in {"[", "{"} THEN << >> ELSE <<"eol">>
      pad == IF p.first THEN << >> ELSE [i \in 1..(p.level - 1) |-> " "]
  IN [p EXCEPT !.out = @ \o eol \o pad \o <<c>>, !.level = @ - 1, !.first = FALSE]
Pretty(p, c, last) ==
  CASE c = "\\" -> [p EXCEPT !.out = Append(@, c), !.escape = p.quote /\ ~@]
    [] c = ":" -> [p EXCEPT !.out = @ \o (IF p.quote THEN <<c>> ELSE <<c, " ">>)]
    [] c = Quote -> PrettyQuote(p)
    [] c \in {"{", "[", "}", "]", ","} /\ p.quote -> [p EXCEPT !.out = Append(@, c), !.escape = FALSE]
    [] c \in {"{", "["} -> [p EXCEPT !.out = Append(@, c), !.level = @ + 1, !.first = TRUE]
    [] c \in {"}", "]"} -> PrettyClose(p, c, last)
    [] c = "," -> [p EXCEPT !.out = Append(@, c), !.first = TRUE]
    [] c \in {"n", "r", "u"} -> [Indented(p, c) EXCEPT !.escape = FALSE]
    [] OTHER -> Indented(p, c)
pretty_print(s) ==
  FoldLeft(LAMBDA p, i : Pretty(p, s[i], IF i = 1 THEN "EOF" ELSE s[i - 1]),
           [out |-> << >>, level |-> 0, first |-> FALSE, quote |-> FALSE, escape |-> FALSE],
           [i \in DOMAIN s |-> i]).out

to_pretty_string(v, stringify) == pretty_print(to_string(v, stringify))
save_to_file(v, pretty, stringify) == IF pretty THEN to_pretty_string(v, stringify) ELSE to_stream(v, stringify)

-----------------------------------------------------------------------------
(* Clients.  Values of up to three levels, every text over the alphabet.     *)

Mode == {"legacy", "legacy_strings", "strict", "relaxed"}
Scalar == {Null, Bool(TRUE), Bool(FALSE), Double(<<"1", ".", "0">>), Blob(<<"x", "=">>)}
          \cup {Uint(n) : n \in 0..MaxUint} \cup {Sint(n) : n \in MinInt..(-MinInt - 1)}
          \cup {Str(s) : s \in SeqOf(StringSymbols, 2)}
Inner == {Null, Uint(1), Str(<<"\\">>), Str(<<Quote, "]">>), Array(<< >>), Object(<< >>)}
Level2 == {Array(<<Element(v)>>) : v \in Inner} \cup {Array(<<Element(v), Element(Uint(1))>>) : v \in Inner}
          \cup {Object(<<Member(k, v)>>) : k \in SeqOf(StringSymbols, 1), v \in Inner}
          \cup {Object(<<Member(<<"x">>, v), Member(<<"n">>, w)>>) : v, w \in Inner}
Level3 == {Array(<<Element(v), Element(w)>>) : v \in Level2, w \in Inner}
          \cup {Object(<<Member(<<"x">>, v), Member(<<"o">>, w)>>) : v \in Level2, w \in Inner}
Values == Scalar \cup Inner \cup Level2 \cup Level3
Documents == [value : Values, m : Mode, d : 1..4, stringify : BOOLEAN]
Texts == [text : SeqOf(Alphabet, MaxText)]
Literals == [text : {s \o t : s \in {<< >>, <<"-">>}, t \in SeqOf({"0", "1", "6", "8"}, 3)}, m : Mode]

WriteAndRead == Calls("write", Documents)
ReadText == Calls("text", Texts)
ReadInteger == Calls("integer", Literals)
ReadMany == Calls("many", [values : SeqOf(Inner \cup {Bool(FALSE), Double(<<"1", ".", "0">>)}, 3)])
JsonNext == WriteAndRead \/ ReadText \/ ReadInteger \/ ReadMany

-----------------------------------------------------------------------------
(* Properties. *)

RECURSIVE Depth(_), Kept(_, _, _), Plain(_)
\* The number of arrays and objects around the innermost element.
Depth(v) == Max({0} \cup {1 + Depth(v.a[i].v) : i \in DOMAIN v.a})
\* The value a written value is expected to come back as.
Kept(v, m, stringify) ==
  CASE v.t \in {"int64", "uint64"} /\ stringify /\ Large(v.n) -> Str(Decimals(v.n))
    [] v.t = "int64" /\ v.n >= 0 -> Uint(v.n)
    [] v.t = "double" /\ (stringify \/ m # "legacy") -> Str(v.s)
    [] v.t = "blob" -> Str(v.s)
    [] OTHER -> [v EXCEPT !.a = [i \in DOMAIN @ |-> Member(@[i].k, Kept(@[i].v, m, stringify))]]
\* No control characters and nothing that is not UTF-8.
Plain(v) == /\ Range(v.s) \cap {"ctl", "eot", "nul", "bad"} = {}
            /\ \A i \in DOMAIN v.a : Range(v.a[i].k) \cap {"ctl", "bad"} = {} /\ Plain(v.a[i].v)
Doubles(v) == v.t = "double" \/ \E i \in DOMAIN v.a : v.a[i].v.t = "double"

\* A value written by to_string is read back by every parser: the same
\* structure, keys and texts.  (Non-negative integers come back unsigned,
\* doubles as strings outside the legacy parser; the strict parser refuses a
\* number with a dot.)  The legacy parser reads what is nested less than
\* max_depth / 2 levels deep; for deeper values see DepthLimited.
ReadBack(c, r) ==
  Plain(c.value) /\ ~(c.m = "strict" /\ Doubles(c.value) /\ ~c.stringify)
    /\ (Legacy(c.m) => 2 * Depth(c.value) < c.d)
  => r = Got(Kept(c.value, c.m, c.stringify), << >>)

\* With an even max_depth, such as the default of 200, the legacy parser refuses
\* what is nested max_depth / 2 levels deep or deeper.  An odd one passes zero
\* between two checks and wraps: nothing is "Too many nested items" then, and
\* such a value is read to any depth.
DepthLimited(c, r) ==
  Legacy(c.m) /\ 2 * Depth(c.value) >= c.d =>
    IF c.d % 2 = 0 THEN r = Error ELSE Plain(c.value) => r = Got(Kept(c.value, c.m, c.stringify), << >>)

\* A written value is read back, or refused for its depth when the limit is even,
\* and so is a file that is printed prettily, which changes the layout and never
\* the value: strings with quotes, backslashes and brackets included.
WrittenIsRead ==
  call.name = "write" =>
    \A r \in {from_string(to_string(call.in.value, call.in.stringify), call.in.m, call.in.d)},
       p \in {from_file(save_to_file(call.in.value, TRUE, call.in.stringify), call.in.m, call.in.d)} :
      ReadBack(call.in, r) /\ DepthLimited(call.in, r) /\ p.st = r.st /\ p.v = r.v

\* Three quotes in a row.
TripleQuoted(text) ==
  \E i \in 1..(Len(text) - 2), q \in {Quote, "'"} : \A j \in i..(i + 2) : text[j] = q
\* A triple-quoted string that nothing in the rest of the text could close.
NeverClosed(text) == Leading(text, {Quote}) = 3 /\ \A i \in 4..Len(text) : text[i] \notin {Quote, "\\"}

\* What the strict parser accepts, the relaxed one reads as the same value; and
\* only the relaxed parser, and only on a text with three quotes in a row, does
\* not come to an end.  On one that leaves them open it never does, although the
\* loop throws "unexpected EOF in string": it does not see the end of the input.
ParserEnds ==
  call.name = "text" =>
    \A r \in {[m \in Mode |-> from_string(call.in.text, m, 2)]} :
      /\ r["strict"].st = "ok" => r["relaxed"] = r["strict"]
      /\ \A m \in Mode : r[m].st = "hang" => m = "relaxed" /\ TripleQuoted(call.in.text)
      /\ NeverClosed(call.in.text) => r["relaxed"].st = "hang"

\* A decimal integer is read exactly, up to the limits of uint64 and int64, or refused.
RECURSIVE DecimalValue(_)
DecimalValue(s) == IF s = << >> THEN 0 ELSE DecimalValue(Front(s)) * 10 + CharValue(Last(s))
IntegerExact ==
  call.name = "integer" =>
    LET c == call.in
        neg == Peek(c.text) = "-"
        n == IF neg THEN -DecimalValue(Tail(c.text)) ELSE DecimalValue(c.text)
    IN \A r \in {from_string(c.text, c.m, 2)} :
         /\ r.st = "ok" => r.v.n = n /\ (neg => n >= MinInt) /\ n <= MaxUint
         /\ r.st # "ok" => \/ c.text \in {<< >>, <<"-">>}
                           \/ n < MinInt \/ n > MaxUint
                           \/ c.m = "strict" /\ Len(c.text) > 1 /\ c.text[IF neg THEN 2 ELSE 1] = "0"

\* Values written one after the other, separated by a blank, are all read
\* back by variants_from_string, in order.
StreamIsRead ==
  call.name = "many" =>
    LET vs == call.in.values
        text == FlattenSeq([i \in DOMAIN vs |-> to_string(vs[i], FALSE) \o <<" ">>])
    IN variants_from_string(text, << >>)
         = Got(Array([i \in DOMAIN vs |-> Element(Kept(vs[i], "relaxed", FALSE))]), << >>)

\* What is written is what each parser reads, deep nesting is refused just by even
\* limits, and every text without three quotes in a row ends the parser.
JsonKept == WrittenIsRead /\ ParserEnds /\ IntegerExact /\ StreamIsRead
=============================================================================
