------------------------------ MODULE Uint128 ------------------------------
(***************************************************************************)
(* fc::uint128, two 64-bit words with hand-written carries, shifts,        *)
(* products and division, and fc::real128, a decimal fixed point on it.    *)
(*                                                                         *)
(* The words have 2 * Quarter bits instead of 64; a text is the sequence   *)
(* of its digits.  PRECISION, 10^18 in the code, is a smaller power of 10. *)
(***************************************************************************)
EXTENDS ClientCall, SequencesExt, FiniteSetsExt

CONSTANTS
  Quarter,       \* a quarter of the width (32 bits in the code)
  Magnitude      \* PRECISION = 10^Magnitude

\* As 10^18 < 2^64: an integer part of one word always has its fixed point.
ASSUME UintAssumption ==
  /\ Quarter \in Nat \ {0} /\ Magnitude \in Nat \ {0}
  /\ 10^Magnitude < 2^(2 * Quarter)

Half == 2 * Quarter           \* halfsize: the bits of a word
Word == 2^Half
Size == 2 * Half
Full == Word * Word
PRECISION == 10^Magnitude

U(h, l) == [hi |-> h, lo |-> l]
Uint == [hi : 0..(Word - 1), lo : 0..(Word - 1)]
Value(u) == u.hi * Word + u.lo
Of(n) == U((n % Full) \div Word, n % Word)       \* a number as its two words
Zero == U(0, 0)

\* The widening constructor of a word with a sign: -(l<0) is the high word.
OfSigned(l) == U(IF l < 0 THEN Word - 1 ELSE 0, l % Word)

-----------------------------------------------------------------------------
(* The operators of the class. *)

Inc(u) == LET l == (u.lo + 1) % Word IN U((u.hi + (IF l = 0 THEN 1 ELSE 0)) % Word, l)
Not(u) == U(Word - 1 - u.hi, Word - 1 - u.lo)
Neg(u) == Inc(Not(u))
Less(a, b) == IF a.hi = b.hi THEN a.lo < b.lo ELSE a.hi < b.hi

\* Mutant: no carry when the low words add up to exactly a full word.
Add_NoCarry(a, b) ==
  LET l == (a.lo + b.lo) % Word IN U((a.hi + b.hi + (IF 0 < l /\ l < a.lo THEN 1 ELSE 0)) % Word, l)

\* operator+=: a low word below its old value means a carry.
Add(a, b) ==
  LET l == (a.lo + b.lo) % Word IN U((a.hi + b.hi + (IF l < a.lo THEN 1 ELSE 0)) % Word, l)

Sub(a, b) == Add(a, Neg(b))

\* operator<<= and >>= by n bits.
Shl(u, n) ==
  IF n >= Size THEN Zero
  ELSE LET v == IF n >= Half THEN U(u.lo, 0) ELSE u
           k == IF n >= Half THEN n - Half ELSE n
       IN  U((v.hi * 2^k + v.lo \div 2^(Half - k)) % Word, (v.lo * 2^k) % Word)

Shr(u, n) ==
  IF n >= Size THEN Zero
  ELSE LET v == IF n >= Half THEN U(0, u.hi) ELSE u
           k == IF n >= Half THEN n - Half ELSE n
       IN  U(v.hi \div 2^k, v.lo \div 2^k + (v.hi % 2^k) * 2^(Half - k))

\* The quarter words of a number, the lowest first.
Quarters(u) == <<u.lo % 2^Quarter, u.lo \div 2^Quarter, u.hi % 2^Quarter, u.hi \div 2^Quarter>>

\* operator*=: the cross terms by columns, highest first, each sum shifted up.
Mul(x, y) ==
  LET a == Quarters(x)
      b == Quarters(y)
      column(k) == [i \in 1..k |-> U(0, a[k + 1 - i] * b[i])]
      sum(acc, k) == FoldLeft(Add, Shl(acc, Quarter), column(k))
  IN  FoldLeft(sum, Zero, <<4, 3, 2, 1>>)

\* full_product: the four products of words, added word by word.
full_product(x, y) ==
  LET P(m, n) == Mul(U(0, m), U(0, n))
      s == P(x.lo, y.lo)
      r == P(x.hi, y.lo)
      q == P(x.lo, y.hi)
      p == P(x.hi, y.hi)
      acc == Add(Add(U(0, s.hi), U(0, q.lo)), U(0, r.lo))
      acc2 == Add(Add(Add(U(0, acc.hi), U(0, q.hi)), U(0, r.hi)), U(0, p.lo))
  IN  [hi |-> U((acc2.hi + p.hi) % Word, acc2.lo), lo |-> U(acc.lo, s.lo)]

Fits(n, d) == ~ Less(n, d)

\* divide: the denominator is shifted up below the numerator's top bit, then
\* taken off on the way down; x is the weight of the quotient's bit.
RECURSIVE ShiftUp(_, _, _)
ShiftUp(n, d, x) ==
  IF Fits(n, d) /\ d.hi < Word \div 2 THEN ShiftUp(n, Shl(d, 1), Shl(x, 1)) ELSE [d |-> d, x |-> x]
RECURSIVE TakeOff(_, _, _, _)
TakeOff(n, d, x, answer) ==
  IF x = Zero THEN [quotient |-> answer, remainder |-> n]
  ELSE IF Fits(n, d) THEN TakeOff(Sub(n, d), Shr(d, 1), Shr(x, 1), Add(answer, x))
  ELSE TakeOff(n, Shr(d, 1), Shr(x, 1), answer)

divide(n, d) ==
  IF d = Zero THEN Throw(Zero)
  ELSE LET top == ShiftUp(n, d, U(0, 1)) IN Ok(TakeOff(n, top.d, top.x, Zero))

\* operator/= goes through a library type.
Div(a, b) == Of(Value(a) \div Value(b))

\* popcount: bits are added in pairs, then pairs of pairs, in each word.
RECURSIVE PopWord(_, _)
PopWord(x, w) ==
  IF w = Half THEN x
  ELSE LET fields == [i \in 0..(Half \div (2 * w) - 1) |->
                        ((x \div 2^(2 * w * i)) % 2^w) + ((x \div 2^(2 * w * i + w)) % 2^w)]
       IN  PopWord(FoldFunctionOnSet(LAMBDA a, b : a + b, 0, [i \in DOMAIN fields |-> fields[i] * 2^(2 * w * i)], DOMAIN fields), 2 * w)
popcount(u) == PopWord(u.lo, 1) + PopWord(u.hi, 1)

-----------------------------------------------------------------------------
(* Text. *)

Minus == 98
HexMark == 99          \* 'x'

Signed(minus, radix, v) == IF minus THEN Neg(v) ELSE v

\* The constructor of a text: an optional sign, 0 or 0x for another radix, and
\* digits up to the first character that is none.
FromText(sz) ==
  LET minus == sz # << >> /\ sz[1] = Minus
      s == IF minus THEN Tail(sz) ELSE sz
      octal == s # << >> /\ s[1] = 0
      hex == octal /\ Len(s) > 1 /\ s[2] = HexMark
      radix == IF hex THEN 16 ELSE IF octal THEN 8 ELSE 10
      digits == SubSeq(s, IF hex THEN 3 ELSE IF octal THEN 2 ELSE 1, Len(s))
      step(acc, c) ==
        IF acc.done \/ c >= radix THEN [acc EXCEPT !.done = TRUE]
        ELSE [acc EXCEPT !.v = Add(Mul(acc.v, Of(radix)), Of(c))]
      v == FoldLeft(step, [done |-> FALSE, v |-> Zero], digits).v
  IN  Signed(minus, radix, v)

\* operator std::string: digits from the last to the first.
RECURSIVE ToText(_)
ToText(u) ==
  LET d == divide(u, Of(10)).value
  IN  IF d.quotient = Zero THEN <<d.remainder.lo>> ELSE Append(ToText(d.quotient), d.remainder.lo)

-----------------------------------------------------------------------------
(* real128 *)

Point == 97

RealOf(n) == Mul(Of(n), Of(PRECISION))

\* The products and quotients go through bigint, whose decimal text is parsed.
RealMul(a, b) == Of((Value(a) * Value(b)) \div PRECISION)
RealDiv(a, b) == IF Value(b) = 0 THEN Throw(Zero) ELSE Ok(Of((Value(a) * PRECISION) \div Value(b)))

Digit == 0..9
\* The digits at the start of a text, and a word's value of them, which wraps.
Leading(s) == LET bad == SelectInSeq(s, LAMBDA c : c \notin Digit) IN IF bad = 0 THEN s ELSE SubSeq(s, 1, bad - 1)
WordOf(digits) == FoldLeft(LAMBDA v, c : (v * 10 + c) % Word, 0, digits)

\* A text's number: digits, which a word holds, or a point at once; then the
\* digits after the point over their power of 10, which a word holds too.
RealFromText(s) ==
  LET int == Leading(s)
      rest == SubSeq(s, Len(int) + 1, Len(s))
      frac == IF rest # << >> /\ rest[1] = Point THEN Leading(Tail(rest)) ELSE << >>
      part == IF frac = << >> THEN Ok(Zero) ELSE RealDiv(RealOf(WordOf(frac)), RealOf(10^Len(frac) % Word))
  IN  IF (int = << >> /\ (s = << >> \/ s[1] # Point)) \/ ~ part.ok THEN Throw(Zero)
      ELSE Ok(Add(RealOf(WordOf(int)), part.value))

RECURSIVE PopZeros(_)
PopZeros(s) == IF s # << >> /\ Last(s) = 0 THEN PopZeros(Front(s)) ELSE s

\* operator std::string: PRECISION is added to the fraction to keep its zeros.
RealText(r) ==
  LET q == divide(r, Of(PRECISION)).value
  IN  PopZeros(ToText(Div(r, Of(PRECISION))) \o <<Point>> \o Tail(ToText(Add(q.remainder, Of(PRECISION)))))

-----------------------------------------------------------------------------
(* The calls. *)

Boundary == {n + d : n \in {0, 2^Quarter, Word \div 2, Word, Full \div 2, Full}, d \in {-2, -1, 0, 1, 2}} \cap 0..(Full - 1)
BinaryOp == Calls("u128", [a : {Of(n) : n \in Boundary}, b : {Of(n) : n \in Boundary}])
UnaryOp == Calls("u128text", {Of(n) : n \in 0..(Full - 1)})
ParseNumber == Calls("u128parse", SeqOf({0, 1, 7, 8, 15, Minus, HexMark}, 4))

ParseReal == Calls("r128parse", SeqOf({0, 1, 9, Point, Minus}, 6))

UintNext == BinaryOp \/ UnaryOp \/ ParseNumber \/ ParseReal

-----------------------------------------------------------------------------
(* Properties. *)

\* The hand-written words compute the arithmetic of numbers below 2^128: sums
\* and differences with their carries, products, and their shifts by any count.
ArithmeticExact ==
  call.name = "u128" =>
    LET a == call.in.a
        b == call.in.b
        va == Value(a)
        vb == Value(b)
    IN  /\ Add(a, b) = Of(va + vb)
        /\ Sub(a, b) = Of(va - vb)
        /\ Mul(a, b) = Of(va * vb)
        /\ Less(a, b) <=> va < vb
        /\ va <= Word \div 2 => OfSigned(-va) = Neg(a)
        /\ \A n \in 0..(Size + 1) : Shl(a, n) = Of(va * 2^n) /\ Value(Shr(a, n)) = va \div 2^n

\* full_product keeps the whole product: nothing carries out of the top word.
ProductExact ==
  call.name = "u128" =>
    LET p == full_product(call.in.a, call.in.b)
    IN  Value(p.hi) * Full + Value(p.lo) = Value(call.in.a) * Value(call.in.b)

\* The bitwise division ends with the quotient and a remainder below the
\* divisor, also when the divisor has the top bit, and refuses a zero divisor.
DivisionExact ==
  call.name = "u128" =>
    LET d == divide(call.in.a, call.in.b)
        q == Value(d.value.quotient)
        r == Value(d.value.remainder)
    IN  IF Value(call.in.b) = 0 THEN ~ d.ok
        ELSE q * Value(call.in.b) + r = Value(call.in.a) /\ 0 <= r /\ r < Value(call.in.b)

\* A fixed point divided and multiplied by the same one loses less than what
\* one unit of the quotient stands for, when the quotient fits.
RealInverse ==
  call.name = "u128" /\ Value(call.in.b) # 0 =>
    LET a == call.in.a
        b == call.in.b
        back == Value(RealMul(RealDiv(a, b).value, b))
    IN  (Value(a) * PRECISION) \div Value(b) < Full =>
          back <= Value(a) /\ Value(a) - back <= Value(b) \div PRECISION + 1

\* A number read back from its text is the same.  A fixed point is the same
\* exactly when its integer part fits the one word the text is read into: above
\* that, real128's own text is read as another number, with no error.
TextExact ==
  call.name = "u128text" =>
    /\ FromText(ToText(call.in)) = call.in
    /\ LET back == RealFromText(RealText(call.in))
       IN  back.ok /\ (back.value = call.in <=> Value(call.in) \div PRECISION < Word)
    /\ popcount(call.in) = Cardinality({i \in 0..(Size - 1) : (Value(call.in) \div 2^i) % 2 = 1})

\* A text with neither a digit nor a point at its start is refused.  One whose
\* integer part fits a word and whose fraction has no more digits than the
\* fixed point is read exactly, whatever follows the digits.
RealParsed ==
  call.name = "r128parse" =>
    LET s == call.in
        r == RealFromText(s)
        int == Leading(s)
        point == Len(int) < Len(s) /\ s[Len(int) + 1] = Point
        frac == IF point THEN Leading(SubSeq(s, Len(int) + 2, Len(s))) ELSE << >>
        n(t) == FoldLeft(LAMBDA v, c : v * 10 + c, 0, t)
    IN  /\ (s = << >> \/ s[1] \notin Digit \cup {Point}) => ~ r.ok
        /\ (int # << >> \/ point) /\ n(int) < Word /\ Len(frac) <= Magnitude =>
             r = Ok(Of(n(int) * PRECISION + n(frac) * 10^(Magnitude - Len(frac))))

\* A sign applies in every radix, and what follows the digits is ignored.
ParseSigned ==
  call.name = "u128parse" =>
    /\ (call.in = << >> \/ call.in[1] # Minus) => FromText(<<Minus>> \o call.in) = Neg(FromText(call.in))
    /\ FromText(Append(call.in, Minus)) = FromText(call.in) \/ call.in = << >>

\* uint128 and real128 are the numbers they stand for.
UintExact == ArithmeticExact /\ ProductExact /\ DivisionExact /\ RealInverse /\ TextExact /\ RealParsed /\ ParseSigned
=============================================================================
