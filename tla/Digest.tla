------------------------------- MODULE Digest -------------------------------
(***************************************************************************)
(* What the digest types (sha256 and its kin) compute beside the hashing:  *)
(* shifts, order, the floating logarithm of sha256 and conversions.  A     *)
(* digest has four bytes of DigestBits bits (32 of 8), just enough for its *)
(* bits to be counted in one byte; a logarithm is a byte that counts bits  *)
(* and three bytes of mantissa.                                            *)
(***************************************************************************)
EXTENDS ClientCall

CONSTANTS DigestBits, SampleBytes

ASSUME DigestAssumption == DigestBits = 4 /\ SampleBytes \subseteq 0..(2^DigestBits - 1)

N == 4
ByteSpan == 2^DigestBits
AllBits == N * DigestBits
Mantissa == 3 * DigestBits
DigestOf(n) == [i \in 1..N |-> ((n \div ByteSpan^(N - i)) % ByteSpan)]
ValueOf(h) == ((h[1] * ByteSpan + h[2]) * ByteSpan + h[3]) * ByteSpan + h[4]

-----------------------------------------------------------------------------
(* Shifts: whole bytes first, then the bits across each pair of bytes *)

bytes_l(h, k) == [i \in 1..N |-> IF i + k <= N THEN h[i + k] ELSE 0]
bytes_r(h, k) == [i \in 1..N |-> IF i - k >= 1 THEN h[i - k] ELSE 0]
shift_l(h, i) ==
  LET in == IF i >= DigestBits THEN bytes_l(h, i \div DigestBits) ELSE h
      r == i % DigestBits
  IN [p \in 1..N |-> ((in[p] * 2^r) % ByteSpan) + IF p < N THEN in[p + 1] \div 2^(DigestBits - r) ELSE 0]
shift_r(h, i) ==
  LET in == IF i >= DigestBits THEN bytes_r(h, i \div DigestBits) ELSE h
      r == i % DigestBits
  IN [p \in 1..N |-> (in[p] \div 2^r) + IF p > 1 THEN (in[p - 1] * 2^(DigestBits - r)) % ByteSpan ELSE 0]

\* memcmp: the first byte that differs decides.
less(a, b) == \E i \in 1..N : a[i] < b[i] /\ \A j \in 1..(i - 1) : a[j] = b[j]

-----------------------------------------------------------------------------
(* The logarithm *)

\* Leading zero bits: a table for each byte up to the first that is not zero.
char2lzbits(c) == CHOOSE z \in 0..DigestBits : c < 2^(DigestBits - z) /\ (z < DigestBits => c >= 2^(DigestBits - z - 1))
clz(h) ==
  IF \A i \in 1..N : h[i] = 0 THEN AllBits
  ELSE LET first == CHOOSE i \in 1..N : h[i] # 0 /\ \A j \in 1..(i - 1) : h[j] = 0
       IN DigestBits * (first - 1) + char2lzbits(h[first])

\* The four bytes from the first that is not zero.
Window(h, offset) == ValueOf([i \in 1..N |-> IF offset + i <= N THEN h[offset + i] ELSE 0])
\* The number of bits below the leading one, and the bits after it.
approx_log_32(h) ==
  LET lzbits == clz(h)
      nzbits == AllBits - 1 - lzbits
      y == Window(h, lzbits \div DigestBits) \div 2^(nzbits % DigestBits)
  IN IF lzbits >= AllBits THEN 0
     ELSE nzbits * 2^Mantissa + (IF (y \div 2^Mantissa) % 2 = 1 THEN y - 2^Mantissa ELSE y + 2^Mantissa)

set_to_inverse_approx_log_32(x) ==
  LET nzbits == x \div 2^Mantissa
      one == DigestOf((x % 2^Mantissa) + 2^Mantissa)
  IN IF nzbits = 0 THEN DigestOf(0)
     ELSE IF nzbits <= Mantissa THEN shift_r(one, Mantissa - nzbits) ELSE shift_l(one, nzbits - Mantissa)

-----------------------------------------------------------------------------
(* Conversions *)

\* The constructor from hex digits fills up with zeros.
digest_from_hex(bytes, old) == [i \in 1..N |-> IF i <= Len(bytes) THEN bytes[i] ELSE 0]
\* from_variant copies what the blob has and keeps the rest, an empty one clears.
from_variant(blob, old) ==
  IF Len(blob) = 0 THEN DigestOf(0) ELSE [i \in 1..N |-> IF i <= Len(blob) THEN blob[i] ELSE old[i]]

-----------------------------------------------------------------------------
Samples == [1..N -> SampleBytes]
Blobs == UNION {[1..n -> SampleBytes] : n \in 0..(N + 1)}
ShiftDigest == Calls("shift", [h : Samples, i : 0..(AllBits + 1)])
LogDigest == Calls("log", [n : 0..(2^AllBits - 1)])
ConvertDigest == Calls("convert", [bytes : Blobs, old : {[i \in 1..N |-> b] : b \in SampleBytes}])
DigestNext == ShiftDigest \/ LogDigest \/ ConvertDigest

\* The shifts of a digest are those of the number its bytes spell, for every
\* distance, the multiples of a byte and those past the end included.
ShiftExact == call.name = "shift" =>
  LET v == ValueOf(call.in.h) IN
    /\ ValueOf(shift_l(call.in.h, call.in.i)) = (v * 2^(call.in.i % AllBits) * (IF call.in.i >= AllBits THEN 0 ELSE 1)) % (2^AllBits)
    /\ ValueOf(shift_r(call.in.h, call.in.i)) = IF call.in.i >= AllBits THEN 0 ELSE v \div 2^call.in.i

\* Turning a digest into its logarithm and back clears the bits beyond the
\* mantissa and nothing else (one has the logarithm of zero), and a larger digest
\* never has a smaller logarithm.
LogInverse == call.name = "log" =>
  LET n == call.in.n
      h == DigestOf(n)
      back == ValueOf(set_to_inverse_approx_log_32(approx_log_32(h)))
      bits == AllBits - 1 - clz(h)
      grain == IF bits > Mantissa THEN 2^(bits - Mantissa) ELSE 1
  IN /\ IF n <= 1 THEN back = 0 ELSE back = n - (n % grain)
     /\ n > 0 => approx_log_32(DigestOf(n - 1)) <= approx_log_32(h)
     /\ n > 0 => less(DigestOf(n - 1), h)

\* A digest read from text does not depend on the memory it is read into, and
\* one of full length comes back from its bytes.
ConversionClean == call.name = "convert" =>
  LET b == call.in.bytes IN
    /\ \A s \in SampleBytes : digest_from_hex(b, call.in.old) = digest_from_hex(b, [i \in 1..N |-> s])
    /\ Len(b) >= N => digest_from_hex(b, call.in.old) = SubSeq(b, 1, N) /\ from_variant(b, call.in.old) = SubSeq(b, 1, N)

\* A digest is the number its bytes spell.
DigestExact == ShiftExact /\ LogInverse /\ ConversionClean
=============================================================================
