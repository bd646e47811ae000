--------------------------- MODULE MCConversions ---------------------------
(***************************************************************************)
(* The conversions of the library on bounded inputs: a client makes one    *)
(* call of one of them.  An integer has Bits bits in all of them.          *)
(***************************************************************************)
EXTENDS TextCodecs, Addresses, Uint128, Digest, VariantValue

CONSTANTS
  Storage, Char, MaxString, Scale, Places, SecBits,        \* Numbers
  Group, WordBits, MaxCount, MaxBytes, MaxInput,           \* Raw
  DepthMod, Alphabet, MaxJson, StringSymbols               \* Json

VARIABLE part     \* the module whose functions are called

Num == INSTANCE Numbers
R == INSTANCE Raw WITH Word <- WordBits
J == INSTANCE Json WITH MaxText <- MaxJson

-----------------------------------------------------------------------------
(* Values of constants. *)

\* smaz: words of one, two and three letters, one the start of another.
Words == <<<<1>>, <<1, 2>>, <<2, 2, 1>>>>

\* Every symbol one of the parsers looks for, a digit, and a letter none does.
JsonSymbols == {"\"", "'", "\\", "{", "}", "[", "]", ",", ":", " ", "1", "0", "-", ".", "r", "null", "e"}
\* Symbols that are escaped or not, that end a token, and that cannot be written.
WrittenSymbols == {"\"", "\\", "eol", "n", "]", "ctl", "bad"}

-----------------------------------------------------------------------------

vars == <<part, call>>

Init == CallInit /\ part \in {"text", "address", "uint", "digest", "value", "number", "raw", "json"}

TextStep == part = "text" /\ TextNext /\ UNCHANGED part
AddressStep == part = "address" /\ AddressesNext /\ UNCHANGED part
UintStep == part = "uint" /\ UintNext /\ UNCHANGED part
DigestStep == part = "digest" /\ DigestNext /\ UNCHANGED part
ValueStep == part = "value" /\ ValueNext /\ UNCHANGED part
NumberStep == part = "number" /\ Num!NumbersNext /\ UNCHANGED part
RawStep == part = "raw" /\ R!RawNext /\ UNCHANGED part
JsonStep == part = "json" /\ J!JsonNext /\ UNCHANGED part

Next ==
  \/ TextStep \/ AddressStep \/ UintStep \/ DigestStep
  \/ ValueStep \/ NumberStep \/ RawStep \/ JsonStep

Spec == Init /\ [][Next]_vars

\* Texts that stand for bytes, numbers or addresses are read back as what they
\* were written from: base58, base36, base64, hex, smaz, url, ip and utf8.
TextKept == CodecsRoundTrip /\ AddressesStable

\* uint128, real128, safe, times, fixed strings and digests compute exactly, or
\* refuse, at every edge of their width.
NumbersKept == UintExact /\ DigestExact /\ Num!NumbersExact

\* Packing and unpacking of raw.hpp and datastream.hpp.
PackedKept == R!RawKept

\* Writing and the three parsers of json.cpp and json_relaxed.hpp.
WrittenKept == J!JsonKept
=============================================================================
