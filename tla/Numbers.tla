------------------------------ MODULE Numbers ------------------------------
(***************************************************************************)
(* Small value types: safe<T>, fixed_string<Storage> and the times.        *)
(* An integer has Bits bits; a fixed_string has Storage bytes, of which 0  *)
(* is the terminator; a second has Scale^Places milliseconds, and so many  *)
(* microseconds has one of those, a fraction is written in base Scale.     *)
(***************************************************************************)
EXTENDS ClientCall, SequencesExt, FiniteSetsExt

CONSTANTS Bits, Storage, Char, MaxString, Scale, Places, SecBits

-----------------------------------------------------------------------------
(* safe<T> *)

min(signed) == IF signed THEN -(2^(Bits - 1)) ELSE 0
max(signed) == IF signed THEN 2^(Bits - 1) - 1 ELSE 2^Bits - 1
InRange(n, signed) == min(signed) <= n /\ n <= max(signed)
\* C++ division and remainder: towards zero.
TDiv(a, b) == LET q == (IF a < 0 THEN -a ELSE a) \div (IF b < 0 THEN -b ELSE b)
              IN IF (a < 0) # (b < 0) THEN -q ELSE q
TMod(a, b) == a - b * TDiv(a, b)
\* The value an operation of T leaves: unsigned ones wrap.
Wrap(n, signed) == IF signed THEN n ELSE n % (2^Bits)

Checked(n, bad, signed) == IF bad THEN Throw(0) ELSE Ok(Wrap(n, signed))

safe_add(a, b, s) == Checked(a + b, (b > 0 /\ a > max(s) - b) \/ (b < 0 /\ a < min(s) - b), s)
safe_sub(a, b, s) == Checked(a - b, (b > 0 /\ a < min(s) + b) \/ (b < 0 /\ a > max(s) + b), s)
\* The guards of operator *, by the signs of the operands.
safe_mul(a, b, s) ==
  Checked(a * b, \/ a > 0 /\ b > 0 /\ a > TDiv(max(s), b)
                 \/ a > 0 /\ b <= 0 /\ b < TDiv(min(s), a)
                 \/ a <= 0 /\ b > 0 /\ a < TDiv(min(s), b)
                 \/ a <= 0 /\ b <= 0 /\ a # 0 /\ b < TDiv(max(s), a), s)
\* b == -1 compares with the largest value when T is unsigned.
MinusOne(b, s) == b = (IF s THEN -1 ELSE max(s))
safe_div(a, b, s) == IF b = 0 THEN Throw(0) ELSE Checked(TDiv(a, b), a = min(s) /\ MinusOne(b, s), s)
safe_mod(a, b, s) == IF b = 0 THEN Throw(0) ELSE Checked(TMod(a, b), a = min(s) /\ MinusOne(b, s), s)
safe_neg(a, s) == Checked(-a, a = min(s), s)
\* +=, -=, *=, /=, %=, ++ and -- are these.
Safe(op, a, b, s) ==
  CASE op = "+" -> safe_add(a, b, s) [] op = "-" -> safe_sub(a, b, s) [] op = "*" -> safe_mul(a, b, s)
    [] op = "/" -> safe_div(a, b, s) [] op = "%" -> safe_mod(a, b, s) [] op = "neg" -> safe_neg(a, s)
Exact(op, a, b) ==
  CASE op = "+" -> a + b [] op = "-" -> a - b [] op = "*" -> a * b
    [] op = "/" -> TDiv(a, b) [] op = "%" -> TMod(a, b) [] op = "neg" -> -a

-----------------------------------------------------------------------------
(* fixed_string *)

\* The constructors and assignments from a string: cut or padded with zeros.
fixed_string(str) == [i \in 1..Storage |-> IF i <= Len(str) THEN str[i] ELSE 0]
size(data) == IF data[Storage] # 0 THEN Storage
              ELSE IF \E i \in 1..Storage : data[i] = 0 THEN Min({i \in 1..Storage : data[i] = 0}) - 1
              ELSE Storage
to_std_string(data) == SubSeq(data, 1, size(data))
\* raw::pack: the size and that many bytes; raw::unpack reads them over the old
\* ones and leaves the rest of the target as it was.
pack_fixed(data) == to_std_string(data)
unpack_fixed(bytes, old) == [i \in 1..Storage |-> IF i <= Len(bytes) THEN bytes[i] ELSE old[i]]

-----------------------------------------------------------------------------
(* time_point and its ISO text: seconds and the digits of the fraction.      *)

Milli == Scale^Places
Second == Milli * Milli
Fraction(ms) == [i \in 1..Places |-> ((ms \div Scale^(Places - i)) % Scale)]
time_to_string(count) == [secs |-> count \div Second, frac |-> Fraction((count % Second) \div Milli)]
\* from_iso_string: time_point_sec has SecBits bits (32); a fraction of fewer
\* digits is filled up, of more digits is read as so many milliseconds more.
ReadFraction(frac) ==
  LET ms == frac \o [i \in 1..(Places - Len(frac)) |-> 0]
  IN FoldLeft(LAMBDA v, d : v * Scale + d, 1, ms) - Milli
time_from_iso_string(text) == ((text.secs % (2^SecBits)) * Second) + ReadFraction(text.frac) * Milli

(* get_approximate_relative_time_string: the number and the unit (in seconds) *)
(* it prints, with the months behind the years.                               *)
Day == 86400
LeftMonths(days, years) == (days - years * 365 + 15) \div 30
Approximate(s) ==
  LET minutes == (s + 30) \div 60
      hours == (minutes + 30) \div 60
      days == (hours + 12) \div 24
      weeks == (days + 3) \div 7
      months == (days + 15) \div 30
      years == days \div 365
  IN CASE s < 90 -> s
       [] minutes < 90 -> minutes * 60
       [] hours < 90 -> hours * 3600
       [] days < 90 -> days * Day
       [] weeks < 70 -> weeks * 7 * Day
       [] months < 12 -> months * 30 * Day
       [] OTHER -> years * 365 * Day + (IF months < 60 THEN LeftMonths(days, years) * 30 * Day ELSE 0)
relative_time(event, now) ==
  [ago |-> IF now < event THEN -Approximate(event - now) ELSE Approximate(now - event)]

-----------------------------------------------------------------------------
Op == {"+", "-", "*", "/", "%", "neg"}
Strings == SeqOf(Char, MaxString)
Near(n) == {n - 1, n, n + 1}
Spans == 0..200 \cup UNION {Near(n) : n \in {3600, 5370, 5400, 90 * 3600, 4 * Day, 90 * Day, 489 * Day, 490 * Day,
                              731 * Day, 1784 * Day, 1785 * Day, 1825 * Day, 2000 * Day, 7300 * Day}}
Compute == Calls("safe", {x \in [op : Op, a : min(TRUE)..max(FALSE), b : min(TRUE)..max(FALSE), s : BOOLEAN] :
                            InRange(x.a, x.s) /\ InRange(x.b, x.s)})
UseFixed == Calls("fixed", [str : Strings, old : Strings])
UseTime == Calls("time", [count : 0..(Second * 2^SecBits - 1)])
Describe == Calls("span", [s : Spans])
NumbersNext == Compute \/ UseFixed \/ UseTime \/ Describe

\* safe<T> throws exactly when the result does not fit, and is exact
\* otherwise.  (The unsigned type is left out for unary minus; 0 / max and
\* 0 % max are refused for it although they fit.)
SafeExact ==
  call.name = "safe" =>
    LET c == call.in
        r == Safe(c.op, c.a, c.b, c.s)
        defined == c.op \in {"/", "%"} => c.b # 0
    IN (c.op = "neg" => c.s) =>
         /\ r.ok => defined /\ r.value = Exact(c.op, c.a, c.b) /\ InRange(r.value, c.s)
         /\ ~r.ok /\ defined => \/ ~InRange(Exact(c.op, c.a, c.b), c.s)
                                \/ c.op \in {"/", "%"} /\ c.a = min(c.s) /\ MinusOne(c.b, c.s)

Cut(str) == SubSeq(str, 1, Min({Len(str), Storage}))

\* A string comes back from a fixed_string up to its capacity, all of it, and
\* through pack and unpack into a fresh one.
FixedKeeps ==
  call.name = "fixed" /\ (\A i \in DOMAIN call.in.str : call.in.str[i] # 0) =>
    LET data == fixed_string(call.in.str) IN
    /\ to_std_string(data) = Cut(call.in.str)
    /\ unpack_fixed(pack_fixed(data), fixed_string(<< >>)) = data

\* A time point of an unsigned 32-bit second comes back from its text, to the millisecond.
TimeRoundTrip ==
  call.name = "time" =>
    time_from_iso_string(time_to_string(call.in.count)) = (call.in.count \div Milli) * Milli

\* The approximate time is at most half as much again as the exact one and at
\* least two thirds of it (90 minutes are "2 hours"), before and after now alike.
RelativeClose ==
  call.name = "span" =>
    LET s == call.in.s
        a == relative_time(0, s).ago
    IN /\ 2 * a <= 3 * s /\ 3 * a >= 2 * s
       /\ relative_time(s, 0).ago = -a

\* Integers, short strings and times are kept exactly or refused.
NumbersExact == SafeExact /\ FixedKeeps /\ TimeRoundTrip /\ RelativeClose
=============================================================================
