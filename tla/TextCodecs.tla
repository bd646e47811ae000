----------------------------- MODULE TextCodecs -----------------------------
(***************************************************************************)
(* The encodings of bytes as text: base58, base36, base64 and hex, the     *)
(* sign-magnitude bytes of base58's CBigNum, and the smaz compressor.      *)
(*                                                                         *)
(* A character of an alphabet is the number of its digit; Pad is '=',      *)
(* Space a blank, Bad a character of no alphabet.  The big numbers of      *)
(* OpenSSL are their bytes, the most significant first and no leading 0.   *)
(***************************************************************************)
EXTENDS ClientCall, SequencesExt, FiniteSetsExt

CONSTANTS
  Byte,            \* the bytes inputs are made of
  MaxLen,          \* length of the byte strings encoded
  MaxText,         \* length of the texts decoded
  Codebook,        \* smaz: the words that have a code, a sequence of texts
  MaxVerb,         \* smaz: the longest verbatim run (256 in the code)
  MaxPlain         \* smaz: length of the texts compressed

ASSUME TextAssumption ==
  /\ Byte \subseteq 0..255
  /\ {MaxLen, MaxText, MaxVerb, MaxPlain} \subseteq Nat

Pad == 64
Space == 98
Bad == 99

Zeros(n) == [i \in 1..n |-> 0]
RECURSIVE DropZeros(_)
DropZeros(s) == IF s # << >> /\ Head(s) = 0 THEN DropZeros(Tail(s)) ELSE s
LeadingZeros(s) == Len(s) - Len(DropZeros(s))

-----------------------------------------------------------------------------
(* Numbers of any size (BN_div by a word, BN_mul and BN_add of a word). *)

DivWord(n, w) ==
  LET step(acc, b) == [q |-> Append(acc.q, (acc.r * 256 + b) \div w), r |-> (acc.r * 256 + b) % w]
      d == FoldLeft(step, [q |-> << >>, r |-> 0], n)
  IN  [q |-> DropZeros(d.q), r |-> d.r]

RECURSIVE Carry(_)
Carry(c) == IF c = 0 THEN << >> ELSE Append(Carry(c \div 256), c % 256)
MulAdd(n, w, d) ==
  LET step(b, acc) == [s |-> <<(b * w + acc.c) % 256>> \o acc.s, c |-> (b * w + acc.c) \div 256]
      p == FoldRight(step, n, [s |-> << >>, c |-> d])
  IN  Carry(p.c) \o p.s

\* The digits of n in a base, the least significant first.
RECURSIVE Digits(_, _)
Digits(n, base) ==
  IF n = << >> THEN << >>
  ELSE LET d == DivWord(n, base) IN <<d.r>> \o Digits(d.q, base)

Number(digits, base) == DropZeros(FoldLeft(LAMBDA n, d : MulAdd(n, base, d), << >>, digits))

-----------------------------------------------------------------------------
(* base58 *)

\* Mutant: the zero digits at the front are those of the number only.
EncodeBase58_NoZeros(bytes) == Reverse(Digits(DropZeros(bytes), 58))

\* EncodeBase58: digits, then a '1' per leading zero byte, then reversed.
EncodeBase58(bytes) ==
  Reverse(Digits(DropZeros(bytes), 58) \o Zeros(LeadingZeros(bytes)))

IsDigit58(c) == c \in 0..57

RECURSIVE SkipSpace(_)
SkipSpace(s) == IF s # << >> /\ Head(s) = Space THEN SkipSpace(Tail(s)) ELSE s

\* CBigNum::getvch: little endian, a zero byte on top when the sign bit is taken.
getvch(n) ==
  IF n = << >> THEN << >> ELSE Reverse(IF n[1] >= 128 THEN <<0>> \o n ELSE n)

\* DecodeBase58: blanks around the digits are skipped; any other character fails.
DecodeBase58(text) ==
  LET psz == SkipSpace(text)
      n == IF \E i \in DOMAIN psz : ~ IsDigit58(psz[i])
             THEN (CHOOSE i \in DOMAIN psz : ~ IsDigit58(psz[i]) /\ \A j \in 1..(i-1) : IsDigit58(psz[j])) - 1
             ELSE Len(psz)
      digits == SubSeq(psz, 1, n)
      v == getvch(Number(digits, 58))
      k == Len(v)
      \* the sign byte is trimmed when the byte below it has the top bit
      vchTmp == IF k >= 2 /\ v[k] = 0 /\ v[k - 1] >= 128 THEN Front(v) ELSE v
  IN  IF SkipSpace(SubSeq(psz, n + 1, Len(psz))) # << >>
        THEN Throw(<< >>)
        ELSE Ok(Zeros(LeadingZeros(digits)) \o Reverse(vchTmp))

to_base58(bytes) == IF bytes = << >> THEN << >> ELSE EncodeBase58(bytes)
from_base58(text) == DecodeBase58(text)

\* The form that writes to a caller's buffer.
from_base58_buf(text, size) ==
  LET d == DecodeBase58(text)
  IN  IF ~ d.ok \/ Len(d.value) > size THEN Throw(<< >>) ELSE d

-----------------------------------------------------------------------------
(* CBigNum: numbers as sign and magnitude, the sign in the top bit. *)

\* The bytes of a number of two bytes, most significant first, and BN_mpi2bn.
Bytes2(n) == <<n \div 256, n % 256>>
MpiValue(s) ==
  IF s = << >> THEN 0
  ELSE LET sign == IF s[1] >= 128 THEN -1 ELSE 1
       IN  sign * FoldLeft(LAMBDA v, b : v * 256 + b, 0, [s EXCEPT ![1] = @ % 128])

\* The bytes of a magnitude, given the sign bit in or before the first of them.
Mpi(neg, magnitude) ==
  LET s == DropZeros(magnitude)
  IN  IF s = << >> THEN << >>
      ELSE IF s[1] >= 128 THEN <<(IF neg THEN 128 ELSE 0)>> \o s
      ELSE IF neg THEN [s EXCEPT ![1] = @ + 128] ELSE s

\* setint64 and setuint64, for words of two bytes.
setint64(n) == Mpi(n < 0, Bytes2(IF n < 0 THEN -n ELSE n))
setuint64(n) == Mpi(FALSE, Bytes2(n))

\* GetCompact: the size and the first three bytes; SetCompact back.
GetCompact(mpi) ==
  Len(mpi) * 2^24 + FoldLeft(LAMBDA v, i : v * 256 + (IF i <= Len(mpi) THEN mpi[i] ELSE 0), 0, <<1, 2, 3>>)

SetCompact(c) ==
  LET size == c \div 2^24
  IN  [i \in 1..size |-> CASE i = 1 -> (c \div 2^16) % 256 [] i = 2 -> (c \div 2^8) % 256 [] i = 3 -> c % 256 [] OTHER -> 0]

-----------------------------------------------------------------------------
(* base36 *)

\* to_base36: the digits of the number, then a '0' per leading zero byte.
to_base36(bytes) == Zeros(LeadingZeros(bytes)) \o Reverse(Digits(DropZeros(bytes), 36))

\* The buffer it writes them to from the end, the terminator included.
out36(len) == (len * 16) \div 10 + 2

\* from_base36: a character of no alphabet counts as a digit 0.
from_base36(text) ==
  LET n == Number([i \in DOMAIN text |-> IF text[i] = Bad THEN 0 ELSE text[i]], 36)
  IN  Zeros(LeadingZeros(text)) \o n

-----------------------------------------------------------------------------
(* base64 *)

Sextets(a, b, c) ==
  <<a \div 4, (a % 4) * 16 + b \div 16, (b % 16) * 4 + c \div 64, c % 64>>

\* base64_encode_impl: groups of three bytes; the last is filled and padded.
RECURSIVE base64_encode(_)
base64_encode(bytes) ==
  IF Len(bytes) >= 3
    THEN Sextets(bytes[1], bytes[2], bytes[3]) \o base64_encode(SubSeq(bytes, 4, Len(bytes)))
  ELSE IF Len(bytes) = 2
    THEN SubSeq(Sextets(bytes[1], bytes[2], 0), 1, 3) \o <<Pad>>
  ELSE IF Len(bytes) = 1
    THEN SubSeq(Sextets(bytes[1], 0, 0), 1, 2) \o <<Pad, Pad>>
  ELSE << >>

Octets(a, b, c, d) ==
  <<(a * 4 + (b % 64) \div 16) % 256, ((b % 16) * 16 + (c % 64) \div 4) % 256, ((c % 4) * 64 + d) % 256>>

\* The group cut short by the end or the padding: missing characters look up
\* the terminator of the alphabet, whose index is 64.
Tail64(s) ==
  IF s = << >> THEN << >>
  ELSE LET c(i) == IF i <= Len(s) THEN s[i] ELSE 64
       IN  SubSeq(Octets(c(1), c(2), c(3), c(4)), 1, Len(s) - 1)

RECURSIVE Groups64(_)
Groups64(s) ==
  IF Len(s) < 4 THEN Tail64(s)
  ELSE Octets(s[1], s[2], s[3], s[4]) \o Groups64(SubSeq(s, 5, Len(s)))

\* base64_decode_impl: ends at the first '='; a character of no alphabet before it throws.
base64_decode(text) ==
  LET n == IF Contains(text, Pad) THEN SelectInSeq(text, LAMBDA c : c = Pad) - 1 ELSE Len(text)
      s == SubSeq(text, 1, n)
  IN  IF \E i \in DOMAIN s : s[i] \notin 0..63 THEN Throw(<< >>) ELSE Ok(Groups64(s))

-----------------------------------------------------------------------------
(* hex *)

to_hex(bytes) == FlattenSeq([i \in DOMAIN bytes |-> <<bytes[i] \div 16, bytes[i] % 16>>])

\* from_hex into a buffer: an odd last digit is the high half of its byte; the
\* digits are read until the text or the buffer ends.
RECURSIVE from_hex(_, _)
from_hex(text, room) ==
  IF text = << >> \/ room = 0 THEN Ok(<< >>)
  ELSE IF text[1] \notin 0..15 \/ (Len(text) > 1 /\ text[2] \notin 0..15) THEN Throw(<< >>)
  ELSE LET low == IF Len(text) > 1 THEN text[2] ELSE 0
           rest == from_hex(SubSeq(text, 3, Len(text)), room - 1)
       IN  IF rest.ok THEN Ok(<<text[1] * 16 + low>> \o rest.value) ELSE rest

-----------------------------------------------------------------------------
(* smaz *)

\* The longest word of the codebook that the text starts with, 0 if none.
Match(text) ==
  LET hits == {k \in DOMAIN Codebook : IsPrefix(Codebook[k], text)}
  IN  IF hits = {} THEN 0 ELSE CHOOSE k \in hits : \A j \in hits : Len(Codebook[k]) >= Len(Codebook[j])

Code(k) == [kind |-> "code", arg |-> k]
Lit(c) == [kind |-> "lit", arg |-> c]        \* a byte of a verbatim run
Mark(n) == [kind |-> "mark", arg |-> n]      \* 254, or 255 and the length less 1

\* A verbatim run of one byte takes two bytes of output, a longer one 2 more.
Verbatim(verb) ==
  IF verb = << >> THEN << >>
  ELSE IF Len(verb) = 1 THEN <<Mark(1), Lit(verb[1])>>
  ELSE <<Mark(2), Mark(Len(verb) - 1)>> \o [i \in DOMAIN verb |-> Lit(verb[i])]

FullRun(verb) == Len(verb) = MaxVerb

\* smaz_compress: a byte without a match joins the run, which is flushed
\* before a code, when full, and at the end.
RECURSIVE Compress(_, _)
Compress(text, verb) ==
  IF text = << >> THEN Verbatim(verb)
  ELSE LET k == Match(text)
       IN  IF k # 0
             THEN Verbatim(verb) \o <<Code(k)>> \o Compress(SubSeq(text, Len(Codebook[k]) + 1, Len(text)), << >>)
             ELSE LET v == Append(verb, text[1])
                  IN  IF FullRun(v) THEN Verbatim(v) \o Compress(Tail(text), << >>)
                                    ELSE Compress(Tail(text), v)

\* The output has room for as many bytes as the input.
smaz_compress(text) ==
  LET out == Compress(text, << >>) IN IF Len(out) > Len(text) THEN Throw(<< >>) ELSE Ok(out)

\* The byte that holds the length less 1 holds at most MaxVerb - 1.
RECURSIVE smaz_decompress(_)
smaz_decompress(in) ==
  IF in = << >> THEN << >>
  ELSE IF in[1].kind = "code" THEN Codebook[in[1].arg] \o smaz_decompress(Tail(in))
  ELSE IF in[1].kind = "lit" THEN <<0>> \o smaz_decompress(Tail(in))    \* taken for a code
  ELSE IF in[1].arg = 1 THEN <<in[2].arg>> \o smaz_decompress(SubSeq(in, 3, Len(in)))
  ELSE LET n == (in[2].arg % MaxVerb) + 1
       IN  [i \in 1..n |-> in[2 + i].arg] \o smaz_decompress(SubSeq(in, 3 + n, Len(in)))

-----------------------------------------------------------------------------
(* The calls. *)

ByteStrings == SeqOf(Byte, MaxLen)
EncodeBytes == Calls("bytes", ByteStrings)
DecodeText58 == Calls("text58", SeqOf({0, 1, 57, Space, Bad}, MaxText))
DecodeText64 == Calls("text64", SeqOf({0, 1, 63, Pad, Bad}, MaxText))
ConvertNumber == Calls("number", -66000..66000 \cap {s * n + d : s \in {-1, 1}, n \in {0, 127, 128, 255, 256, 32767, 32768, 65535}, d \in {-1, 0}})
CompressText == Calls("smaz", SeqOf({1, 2, 3}, MaxPlain))

TextNext == EncodeBytes \/ DecodeText58 \/ DecodeText64 \/ ConvertNumber \/ CompressText

-----------------------------------------------------------------------------
(* Properties. *)

\* What every encoder writes, its decoder reads back: leading zero bytes, bytes
\* with the top bit and groups of every length included.
Base58RoundTrip == call.name = "bytes" => from_base58(to_base58(call.in)) = Ok(call.in)
Base36RoundTrip ==
  call.name = "bytes" =>
    /\ from_base36(to_base36(call.in)) = call.in
    /\ Len(to_base36(call.in)) + 1 <= out36(Len(call.in))
Base64RoundTrip ==
  call.name = "bytes" =>
    /\ base64_decode(base64_encode(call.in)) = Ok(call.in)
    \* variant::as_string adds one more '=' to a blob's text
    /\ base64_decode(Append(base64_encode(call.in), Pad)) = Ok(call.in)
HexRoundTrip ==
  call.name = "bytes" => from_hex(to_hex(call.in), Len(call.in)) = Ok(call.in)

\* Decoding a text gives bytes whose encoding is the text without its blanks:
\* no two base58 texts of digits stand for the same bytes.
Base58Canonical ==
  call.name = "text58" =>
    LET d == from_base58(call.in)
    IN  /\ d.ok => to_base58(d.value) = SelectSeq(call.in, IsDigit58)
        /\ \A size \in 0..2 : from_base58_buf(call.in, size).ok <=> d.ok /\ Len(d.value) <= size

\* A text that decodes has a length between 3/4 of its characters, less what a
\* group cut short drops, and characters after the padding have no effect.
Base64Length ==
  call.name = "text64" =>
    LET d == base64_decode(call.in)
        n == IF Contains(call.in, Pad) THEN SelectInSeq(call.in, LAMBDA c : c = Pad) - 1 ELSE Len(call.in)
    IN  d.ok => /\ Len(d.value) = (n * 3) \div 4
                /\ d = base64_decode(SubSeq(call.in, 1, n))

\* The bytes CBigNum gives OpenSSL stand for the number, whatever its sign and
\* top bit; the compact form of one of up to three bytes is exact.
BigNumExact ==
  call.name = "number" =>
    LET n == call.in
    IN  /\ -32768 <= n /\ n <= 32767 => MpiValue(setint64(n)) = n
        /\ 0 <= n /\ n <= 65535 => MpiValue(setuint64(n)) = n
        /\ -32768 <= n /\ n <= 32767 => MpiValue(SetCompact(GetCompact(setint64(n)))) = n

\* What smaz compresses it can restore, runs longer than the limit included.
SmazRoundTrip ==
  call.name = "smaz" =>
    LET c == smaz_compress(call.in) IN c.ok => smaz_decompress(c.value) = call.in

\* Every encoding of bytes, numbers and texts is undone by its decoder.
CodecsRoundTrip ==
  /\ Base58RoundTrip /\ Base36RoundTrip /\ Base64RoundTrip /\ HexRoundTrip
  /\ Base58Canonical /\ Base64Length /\ BigNumExact /\ SmazRoundTrip
=============================================================================
