-------------------------------- MODULE Keys --------------------------------
(***************************************************************************)
(* fc::crypto::public_key, private_key and signature: a variant over the   *)
(* suites K1, R1 and WA, its checksummed text and its comparison           *)
(* (public_key.cpp, private_key.cpp, signature.cpp, crypto/common.hpp).    *)
(* A text is the words before its '_' signs and a base58 body; base58 is a *)
(* bijection (TextCodecs), so the body is the bytes it stands for: a key   *)
(* or signature, some bytes too many or missing, and a checksum.  Hashes   *)
(* are external and taken to be free of collisions.                        *)
(***************************************************************************)
EXTENDS ClientCall

CONSTANT MaxData          \* keys and signatures are the numbers 0..MaxData

ASSUME KeysAssumption == MaxData \in Nat

Data == 0..MaxData
Kind == {"public", "private", "signature"}

\* The suites of a kind, in the order of the variant, and its base prefix.
Suites(kind) == IF kind = "private" THEN <<"K1", "R1">> ELSE <<"K1", "R1", "WA">>
BasePrefix(kind) == CASE kind = "public" -> "PUB"
                      [] kind = "private" -> "PVT"
                      [] kind = "signature" -> "SIG"

Storage(kind) == [which : 1..Len(Suites(kind)), data : Data]

---------------------------------------------------------------------------
(* Texts. *)

Hash(fn, data, prefix) == [fn |-> fn, data |-> data, prefix |-> prefix]

\* checksummed_data::calculate_checksum; "none" when there is no prefix.
calculate_checksum(data, prefix) == Hash("ripemd160", data, prefix)

Body(data, check) == [empty |-> FALSE, data |-> data, extra |-> 0, check |-> check]

\* Mutant: the checksum of a key in the old format is taken over a prefix.
base58str_Prefixed(kind, key, default) ==
  LET suite == Suites(kind)[key.which]
  IN  [words |-> IF key.which = default THEN <<>>
                 ELSE <<BasePrefix(kind), suite>>,
       legacy |-> key.which = default,
       body |-> Body(key.data, calculate_checksum(key.data, suite))]
\* base58str_visitor: the default suite is written without its prefix, and
\* its checksum leaves the prefix out.
base58str(kind, key, default) ==
  LET suite == Suites(kind)[key.which]
      prefix == IF key.which = default THEN "none" ELSE suite
  IN  [words |-> IF key.which = default THEN <<>>
                 ELSE <<BasePrefix(kind), suite>>,
       legacy |-> key.which = default,
       body |-> Body(key.data, calculate_checksum(key.data, prefix))]

\* The text import format of old private keys, without a word.
to_wif(secret) ==
  [words |-> <<>>, legacy |-> FALSE, body |-> Body(secret, Hash("sha256x2", secret, "none"))]

\* to_string: K1 public keys keep the legacy form, K1 private keys are WIF.
to_string(kind, key) ==
  CASE kind = "public" -> base58str(kind, key, 1)
    [] kind = "private" /\ key.which = 1 -> to_wif(key.data)
    [] OTHER -> base58str(kind, key, 0)

\* sha256 from a variant of another size: cut, or zero where bytes are missing.
Resized(body) == IF body.extra < 0 THEN body.data - (body.data % 2) ELSE body.data

\* from_wif takes a single and a double sha256, and any size.
from_wif(body) ==
  IF ~body.empty /\ body.check.fn \in {"sha256", "sha256x2"} /\ body.check.data = body.data
  THEN Ok([which |-> 1, data |-> Resized(body)])
  ELSE Throw([which |-> 1, data |-> 0])

\* The body is exactly a key and its checksum: a shorter one throws in unpack,
\* a longer one fails the assertion on what remains.
Unpacks(body) == ~body.empty /\ body.extra = 0

\* base58_str_parser: the suites are tried in turn for the word before '_'.
base58_str_parser(kind, word, body) ==
  LET matching == {i \in 1..Len(Suites(kind)) : Suites(kind)[i] = word}
  IN  IF /\ matching # {} /\ Unpacks(body)
         /\ calculate_checksum(body.data, word) = body.check
      THEN Ok([which |-> CHOOSE i \in matching : TRUE, data |-> body.data])
      ELSE Throw([which |-> 1, data |-> 0])

\* The form with a base prefix and a suite, of all three kinds.
parse_words(kind, text) ==
  IF Len(text.words) = 2 /\ text.words[1] = BasePrefix(kind) /\ ~text.body.empty
  THEN base58_str_parser(kind, text.words[2], text.body)
  ELSE Throw([which |-> 1, data |-> 0])

parse_base58(text) ==
  IF text.legacy /\ text.words = <<>> /\ ~text.body.empty
  THEN IF Unpacks(text.body) /\ calculate_checksum(text.body.data, "none") = text.body.check
       THEN Ok([which |-> 1, data |-> text.body.data])
       ELSE Throw([which |-> 1, data |-> 0])
  ELSE parse_words("public", text)

priv_parse_base58(text) ==
  IF text.words = <<>> THEN from_wif(text.body) ELSE parse_words("private", text)

sig_parse_base58(text) == parse_words("signature", text)

Parse(kind, text) ==
  CASE kind = "public" -> parse_base58(text)
    [] kind = "private" -> priv_parse_base58(text)
    [] kind = "signature" -> sig_parse_base58(text)

---------------------------------------------------------------------------
(* Comparison of two variants. *)

eq_comparator(a, b) == a.which = b.which /\ a.data = b.data

less_comparator(a, b) ==
  a.which < b.which \/ (a.which = b.which /\ a.data < b.data)

---------------------------------------------------------------------------
(* The calls. *)

Words == {<<>>} \cup {<<b>> : b \in {"PUB", "PVT", "SIG"}}
           \cup ({"PUB", "PVT", "SIG"} \X {"K1", "R1", "WA", "??"})
Checks == [fn : {"ripemd160", "sha256", "sha256x2", "garbage"}, data : Data,
           prefix : {"none", "K1", "R1", "WA"}]
Bodies == [empty : BOOLEAN, data : Data, extra : {-1, 0, 1}, check : Checks]

PrintKey == \E kind \in Kind :
            Calls("print", [kind : {kind}, key : Storage(kind)])
ReadKey == Calls("read", [kind : Kind, text :
           {t \in [words : Words, legacy : BOOLEAN, body : Bodies] :
              t.legacy => t.words = <<>>}])
Compare == \E kind \in Kind :
             Calls("compare", Storage(kind) \X Storage(kind) \X Storage(kind))

KeysNext == PrintKey \/ ReadKey \/ Compare

\* A key or signature of any suite is read back from its own text.
KeyTextRoundTrip ==
  call.name = "print" =>
    Parse(call.in.kind, to_string(call.in.kind, call.in.key)) = Ok(call.in.key)

\* A text says one suite only: with another suite, or another kind, in its
\* words the same body is refused.
SuiteBound ==
  call.name = "read" =>
    LET in == call.in
    IN  Len(in.text.words) = 2 /\ Parse(in.kind, in.text).ok =>
          \A k \in Kind, s \in {"K1", "R1", "WA"} :
            Parse(k, [in.text EXCEPT !.words = <<BasePrefix(in.kind), s>>]).ok
              => k = in.kind /\ s = in.text.words[2]

\* A text of a public key or signature that is accepted is the one to_string
\* writes, up to the legacy form of K1 keys: nothing can be appended.
TextIsUnique ==
  call.name = "read" /\ call.in.kind # "private" =>
    LET in == call.in
        key == Parse(in.kind, in.text)
    IN  key.ok => in.text \in {base58str(in.kind, key.value, 0),
                               to_string(in.kind, key.value)}

\* The comparison orders keys of different suites too: it is total and
\* transitive, so keys can be kept in a map.
KeyOrder ==
  call.name = "compare" =>
    LET a == call.in[1]
        b == call.in[2]
        c == call.in[3]
    IN  /\ eq_comparator(a, b) \/ less_comparator(a, b) \/ less_comparator(b, a)
        /\ ~(less_comparator(a, b) /\ (eq_comparator(a, b) \/ less_comparator(b, a)))
        /\ less_comparator(a, b) /\ less_comparator(b, c) => less_comparator(a, c)

\* Keys and signatures have one text each, and every text one meaning.
KeyTextsSound == KeyTextRoundTrip /\ SuiteBound /\ TextIsUnique /\ KeyOrder
=============================================================================
