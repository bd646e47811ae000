----------------------------- MODULE Primitives -----------------------------
(***************************************************************************)
(* The ciphers and the hashes the library computes itself.  blowfish       *)
(* (blowfish.cpp) is its own code: the Feistel network, the key schedule   *)
(* and the three modes over buffers, here with bytes of one bit, words of  *)
(* two bytes and fewer rounds.  AES (aes.cpp) is OpenSSL's: its block      *)
(* function is external, and padding, chaining, the streaming encoder and  *)
(* the file format are modelled around it with blocks of two bytes.  sha3  *)
(* (sha3.cpp) has an encoder that is fed in pieces, and hmac (hmac.hpp)    *)
(* wraps a hash.                                                           *)
(***************************************************************************)
EXTENDS ClientCall, SequencesExt

CONSTANTS InitP,       \* the initial subkeys, one per round and two more
          InitS,       \* the initial S-box: a word for every word
          MaxKey,      \* bytes of a key that count (56)
          MaxBlocks,   \* blocks of a buffer
          MaxPlain     \* bytes of a text given to AES

Bit == 0..1
WordOf == Bit \X Bit
Xor(a, b) == [i \in DOMAIN a |-> (a[i] + b[i]) % 2]
Block == WordOf \X WordOf
XorBlock(a, b) == <<Xor(a[1], b[1]), Xor(a[2], b[2])>>

ASSUME CiphersAssumption ==
  /\ InitP \in Seq(WordOf) /\ Len(InitP) > 0 /\ Len(InitP) % 2 = 0 /\ InitS \in [WordOf -> WordOf]
  /\ MaxKey \in Nat \ {0} /\ MaxBlocks \in Nat /\ MaxPlain \in Nat

---------------------------------------------------------------------------
(* Blowfish. *)

\* The 16 rounds, unrolled in pairs in the code; both halves are swapped at
\* the end.
encrypt(P, S, block) ==
  LET n == Len(P)
      rounds == FoldLeftDomain(
        LAMBDA lr, i : IF i \in {1, n} THEN lr
                       ELSE <<Xor(lr[2], Xor(S[lr[1]], P[i])), lr[1]>>,
        <<Xor(block[1], P[1]), block[2]>>, P)
  IN  <<Xor(rounds[2], P[n]), rounds[1]>>

\* The same network with the subkeys in reverse.
decrypt(P, S, block) == encrypt(Reverse(P), S, block)

\* The key bytes are taken over and over until every subkey has been mixed.
Loaded(key) ==
  [i \in DOMAIN InitP |->
     Xor(InitP[i], [b \in 1..2 |-> key[((2 * (i - 1) + b - 1) % Len(key)) + 1]])]

\* "Reflect P and S boxes through the evolving Blowfish"
Scheduled(key) ==
  LET mixed == FoldLeftDomain(
        LAMBDA st, i : IF i % 2 = 0 THEN st ELSE
          LET b == encrypt(st.P, InitS, st.block)
          IN  [P |-> [st.P EXCEPT ![i] = b[1], ![i + 1] = b[2]], block |-> b],
        [P |-> Loaded(key), block |-> <<<<0, 0>>, <<0, 0>>>>], InitP)
      words == SetToSeq(WordOf)
  IN  FoldLeftDomain(
        LAMBDA st, i : IF i % 2 = 0 THEN st ELSE
          LET b == encrypt(st.P, st.S, st.block)
          IN  [st EXCEPT !.S = [st.S EXCEPT ![words[i]] = b[1], ![words[i + 1]] = b[2]],
                         !.block = b],
        [P |-> mixed.P, S |-> InitS, block |-> mixed.block], words)

\* No key is refused; of a long one the first bytes count.
start(key) ==
  IF Len(key) < 1 THEN Throw([P |-> InitP, S |-> InitS])
  ELSE Ok(Scheduled(SubSeq(key, 1, IF Len(key) > MaxKey THEN MaxKey ELSE Len(key))))

\* BytesToBlock and BlockToBytes, left word first and high byte first.
BytesToBlock(bytes) == <<SubSeq(bytes, 1, 2), SubSeq(bytes, 3, 4)>>
BlockToBytes(block) == block[1] \o block[2]

Mode == {"ECB", "CBC", "CFB"}

\* The block a mode makes of the next input, and the next chain.
EncryptStep(k, mode, st, work) ==
  CASE mode = "CBC" -> LET c == encrypt(k.P, k.S, XorBlock(work, st.chain))
                       IN  [out |-> Append(st.out, c), chain |-> c]
    [] mode = "CFB" -> LET c == XorBlock(work, encrypt(k.P, k.S, st.chain))
                       IN  [out |-> Append(st.out, c), chain |-> c]
    [] mode = "ECB" -> [st EXCEPT !.out = Append(@, encrypt(k.P, k.S, work))]

\* Mutant: the chain is not advanced after a block.
DecryptStep_OldChain(k, mode, st, work) ==
  [st EXCEPT !.out = Append(@, CASE mode = "CBC" -> XorBlock(decrypt(k.P, k.S, work), st.chain)
                                 [] mode = "CFB" -> XorBlock(work, encrypt(k.P, k.S, st.chain))
                                 [] mode = "ECB" -> decrypt(k.P, k.S, work))]
DecryptStep(k, mode, st, work) ==
  CASE mode = "CBC" -> [out |-> Append(st.out, XorBlock(decrypt(k.P, k.S, work), st.chain)),
                        chain |-> work]
    [] mode = "CFB" -> [out |-> Append(st.out, XorBlock(work, encrypt(k.P, k.S, st.chain))),
                        chain |-> work]
    [] mode = "ECB" -> [st EXCEPT !.out = Append(@, decrypt(k.P, k.S, work))]

BlocksOf(bytes) == [i \in 1..Len(bytes) \div 4 |-> BytesToBlock(SubSeq(bytes, 4 * i - 3, 4 * i))]
BytesOf(blocks) == FlattenSeq([i \in DOMAIN blocks |-> BlockToBytes(blocks[i])])

BadLength(n) == n = 0 \/ n % 4 # 0

\* encrypt and decrypt of a buffer in place: the first n bytes of it.
encrypt_in_place(k, chain, buf, n, mode) ==
  IF BadLength(n) THEN Throw(buf)
  ELSE Ok(BytesOf(FoldLeft(LAMBDA st, w : EncryptStep(k, mode, st, w),
                           [out |-> <<>>, chain |-> chain],
                           BlocksOf(SubSeq(buf, 1, n))).out)
            \o SubSeq(buf, n + 1, Len(buf)))

decrypt_in_place(k, chain, buf, n, mode) ==
  IF BadLength(n) THEN Throw(buf)
  ELSE Ok(BytesOf(FoldLeft(LAMBDA st, w : DecryptStep(k, mode, st, w),
                           [out |-> <<>>, chain |-> chain],
                           BlocksOf(SubSeq(buf, 1, n))).out)
            \o SubSeq(buf, n + 1, Len(buf)))

\* The same from one buffer to another.
encrypt_to(k, chain, in, out, n, mode) ==
  LET r == encrypt_in_place(k, chain, in, n, mode)
  IN  IF r.ok THEN Ok(SubSeq(r.value, 1, n) \o SubSeq(out, n + 1, Len(out))) ELSE Throw(out)

decrypt_to(k, chain, in, out, n, mode) ==
  LET r == decrypt_in_place(k, chain, in, n, mode)
  IN  IF r.ok THEN Ok(SubSeq(r.value, 1, n) \o SubSeq(out, n + 1, Len(out))) ELSE Throw(out)

---------------------------------------------------------------------------
(* AES.  External: the block function of a key, a permutation of pairs of  *)
(* bytes of two values, and PKCS padding, here the number of bytes added   *)
(* (1 or 2) in each of them.                                               *)

AesByte == 0..3
AesEncrypt(k, b) == <<(b[2] + k) % 4, (b[1] + b[2] + 1) % 4>>
AesDecrypt(k, c) == CHOOSE b \in AesByte \X AesByte : AesEncrypt(k, b) = c
XorAes(a, b) == <<(a[1] + b[1]) % 4, (a[2] + b[2]) % 4>>
SubAes(a, b) == <<(a[1] + 4 - b[1]) % 4, (a[2] + 4 - b[2]) % 4>>
Pairs(s) == [i \in 1..Len(s) \div 2 |-> <<s[2 * i - 1], s[2 * i]>>]

CbcEncrypt(k, iv, s) ==
  FoldLeft(LAMBDA st, b : LET c == AesEncrypt(k, XorAes(b, st.chain))
                          IN  [out |-> st.out \o c, chain |-> c],
           [out |-> <<>>, chain |-> iv], Pairs(s))
CbcDecrypt(k, iv, s) ==
  FoldLeft(LAMBDA st, c : [out |-> st.out \o SubAes(AesDecrypt(k, c), st.chain), chain |-> c],
           [out |-> <<>>, chain |-> iv], Pairs(s))

Padded(s) == s \o (IF Len(s) % 2 = 1 THEN <<1>> ELSE <<2, 2>>)

\* aes_encrypt: the key is the first half of the hash, the vector the second;
\* the result is cut to what the cipher wrote.
aes_encrypt(key, plain) == CbcEncrypt(key.k, key.iv, Padded(plain)).out

\* aes_decrypt: the final step checks the length and the padding.
aes_decrypt(key, cipher) ==
  LET text == CbcDecrypt(key.k, key.iv, cipher).out
      n == Len(text)
  IN  IF Len(cipher) = 0 \/ Len(cipher) % 2 = 1 THEN Throw(<<>>)
      ELSE IF text[n] = 1 THEN Ok(SubSeq(text, 1, n - 1))
      ELSE IF text[n] = 2 /\ text[n - 1] = 2 THEN Ok(SubSeq(text, 1, n - 2))
      ELSE Throw(<<>>)

\* aes_encoder and aes_decoder: no padding, so that a call that does not end
\* with a block fails the assertion on the length written.
encode(st, chunk) ==
  LET held == st.held \o chunk
      whole == 2 * (Len(held) \div 2)
      r == CbcEncrypt(st.key, st.chain, SubSeq(held, 1, whole))
  IN  [st EXCEPT !.chain = r.chain, !.out = @ \o r.out,
                 !.held = SubSeq(held, whole + 1, Len(held)),
                 !.ok = @ /\ whole = Len(chunk)]

decode(st, chunk) ==
  LET r == CbcDecrypt(st.key, st.chain, chunk)
  IN  [st EXCEPT !.chain = r.chain, !.out = @ \o r.out, !.ok = @ /\ Len(chunk) % 2 = 0]

Fresh(key) == [key |-> key.k, chain |-> key.iv, held |-> <<>>, out |-> <<>>, ok |-> TRUE]

\* aes_save writes the checksum of key and cipher text, then the cipher text.
Checksum(key, cipher) == [key |-> key, cipher |-> cipher]
aes_save(key, plain) ==
  LET cipher == aes_encrypt(key, plain)
  IN  [check |-> Checksum(key, cipher), size |-> Len(cipher), bytes |-> cipher]

\* aes_load: the stream does not throw at the end of the file, so the bytes
\* that are missing are zero; the checksum decides.
aes_load(file, key) ==
  LET cipher == [i \in 1..file.size |-> IF i <= Len(file.bytes) THEN file.bytes[i] ELSE 0]
  IN  IF Checksum(key, cipher) = file.check THEN aes_decrypt(key, cipher) ELSE Throw(<<>>)

---------------------------------------------------------------------------
(* The calls. *)

AesKeys == [k : 0..1, iv : {<<0, 0>>, <<3, 1>>}]
Keysets == {<<>>, <<1>>, <<1, 0, 0>>, <<1, 0, 0, 1>>}   \* none, short, full and too long
Plains == UNION {[1..n -> AesByte] : n \in 0..MaxPlain}

Blowfish == Calls("blowfish",
  [key : Keysets, chain : {<<<<0, 0>>, <<0, 0>>>>, <<<<1, 0>>, <<1, 1>>>>},
   buf : UNION {[1..n -> Bit] : n \in {3, 5, 4 * MaxBlocks}},
   n : {0, 3, 4, 4 * MaxBlocks}, mode : Mode])
Aes == Calls("aes", [key : AesKeys, plain : Plains, cut : 0..MaxPlain + 2])

CiphersNext == Blowfish \/ Aes

\* What blowfish encrypts under a key it took it decrypts, in every mode, in place
\* and from one buffer to another, and it leaves the bytes after the first n alone.
BlowfishRoundTrip ==
  call.name = "blowfish" /\ call.in.n <= Len(call.in.buf) /\ start(call.in.key).ok =>
    LET in == call.in
        k == start(in.key).value
        c == encrypt_in_place(k, in.chain, in.buf, in.n, in.mode)
        blank == [i \in DOMAIN in.buf |-> 0]
        d == encrypt_to(k, in.chain, in.buf, blank, in.n, in.mode)
    IN  c.ok => /\ decrypt_in_place(k, in.chain, c.value, in.n, in.mode) = Ok(in.buf)
                /\ SubSeq(c.value, in.n + 1, Len(in.buf)) = SubSeq(in.buf, in.n + 1, Len(in.buf))
                /\ SubSeq(d.value, 1, in.n) = SubSeq(c.value, 1, in.n)
                /\ decrypt_to(k, in.chain, d.value, in.buf, in.n, in.mode) = Ok(in.buf)

\* A saved text is loaded back, and a file that was cut short, or another
\* key, is refused: nothing else is ever returned for it.
LoadIsSaved ==
  call.name = "aes" =>
    LET in == call.in
        file == aes_save(in.key, in.plain)
        short == [file EXCEPT !.bytes = SubSeq(@, 1, in.cut)]
    IN  \A key \in AesKeys :
          LET r == aes_load(IF in.cut < file.size THEN short ELSE file, key)
          IN  /\ r.ok => r.value = in.plain /\ key = in.key
              /\ key = in.key /\ in.cut >= file.size => r.ok

\* As long as no call threw, the encoder's output decodes to its input,
\* however the text was cut into calls.
StreamRoundTrip ==
  call.name = "aes" /\ call.in.cut <= Len(call.in.plain) =>
    LET in == call.in
        chunks == <<SubSeq(in.plain, 1, in.cut),
                    SubSeq(in.plain, in.cut + 1, Len(in.plain))>>
        e == encode(encode(Fresh(in.key), chunks[1]), chunks[2])
        d == decode(decode(Fresh(in.key), SubSeq(e.out, 1, in.cut)),
                    SubSeq(e.out, in.cut + 1, Len(e.out)))
    IN  e.ok => d.ok /\ d.out = in.plain

\* What was encrypted, saved or streamed is what is decrypted, or nothing is.
CiphersRoundTrip == BlowfishRoundTrip /\ LoadIsSaved /\ StreamRoundTrip

-----------------------------------------------------------------------------
(* sha3's encoder, over an ideal permutation: update_step makes a state    *)
(* that tells which blocks went into it and is otherwise unknown, so that  *)
(* what is xored into it afterwards is kept beside it.  A byte is the set  *)
(* of its bits.                                                            *)

CONSTANTS Rate,         \* size, 136 bytes of a block
          HashByte,     \* bytes of a message
          MaxMessage,   \* bytes written before a reset
          HmacBlock     \* internal_block_size

ASSUME HashingAssumption == /\ {Rate, MaxMessage, HmacBlock} \subseteq Nat \ {0}
                            /\ {} \in HashByte /\ HashByte \subseteq SUBSET (0..7)

VARIABLES ctx,       \* sha3_impl: the blocks that were permuted, what was xored in since, point
          message,   \* the bytes written since the last reset
          digest     \* the result the encoder gave last, and for which variant, or None
hashVars == <<ctx, message, digest>>

XorBits(a, b) == (a \ b) \cup (b \ a)
Zeros == [i \in 1..Rate |-> {}]
NistPad == {1, 2}      \* 0x06
KeccakPad == {0}       \* 0x01
EndBit == {7}          \* 0x80
NoDigest == [blocks |-> << >>, nist |-> TRUE]

sha3_init == [past |-> << >>, bytes |-> Zeros, point |-> 0]
update_step(c) == [c EXCEPT !.past = Append(@, c.bytes), !.bytes = Zeros]
\* A byte is xored in; a block that is full is permuted at once.
Absorb(c, b) ==
  LET s == [c EXCEPT !.bytes[c.point + 1] = XorBits(@, b), !.point = @ + 1]
  IN  IF s.point >= Rate THEN [update_step(s) EXCEPT !.point = 0] ELSE s
update(c, data) == FoldLeft(Absorb, c, data)
finalize(c, keccak) ==
  LET padded == [c EXCEPT !.bytes[c.point + 1] = XorBits(@, IF keccak THEN KeccakPad ELSE NistPad)]
  IN  update_step([padded EXCEPT !.bytes[Rate] = XorBits(@, EndBit)])

HashInit == ctx = sha3_init /\ message = << >> /\ digest = NoDigest

\* sha3::encoder.  result() leaves the permuted state behind: a client resets
\* before it writes again.
WriteHash(data) ==
  /\ digest = NoDigest /\ Len(message) + Len(data) <= MaxMessage
  /\ ctx' = update(ctx, data) /\ message' = message \o data /\ UNCHANGED digest
sha3_result(is_nist) ==
  /\ digest = NoDigest
  /\ ctx' = finalize(ctx, ~is_nist) /\ digest' = [blocks |-> ctx'.past, nist |-> is_nist] /\ UNCHANGED message
reset == ctx' = sha3_init /\ message' = << >> /\ digest' = NoDigest

EncodeHash ==
  \/ \E data \in {<<b>> : b \in HashByte} \cup {<<b, c>> : b, c \in HashByte} : WriteHash(data)
  \/ \E is_nist \in BOOLEAN : sha3_result(is_nist)
  \/ reset

-----------------------------------------------------------------------------
(* hmac over an ideal hash, whose digest is one byte that tells its input *)

IdealHash(s) == <<[pad |-> "", byte |-> s]>>
\* A key longer than a block is hashed, a shorter one is filled up with zeros.
add_key(c, pad) ==
  LET key == IF Len(c) > HmacBlock THEN IdealHash(c) ELSE c
  IN  [i \in 1..HmacBlock |-> [pad |-> pad, byte |-> IF i <= Len(key) THEN key[i].byte ELSE << >>]]
hmac_digest(c, d) == IdealHash(add_key(c, "outer") \o IdealHash(add_key(c, "inner") \o d))

ZeroByte == [pad |-> "", byte |-> << >>]
OneByte == [pad |-> "", byte |-> <<[pad |-> "one", byte |-> << >>]>>]
KeyTexts == UNION {[1..n -> {ZeroByte, OneByte}] : n \in 0..(HmacBlock + 2)}
AskHmac == Calls("hmac", [c : KeyTexts, e : KeyTexts, d : {<< >>, <<ZeroByte>>}])

-----------------------------------------------------------------------------
\* The message the blocks of a digest were made from: their bytes without the
\* end bit, up to the last that is not zero, which is the padding.
Recovered(blocks) ==
  LET all == FlattenSeq(blocks)
      s == [all EXCEPT ![Len(all)] = XorBits(@, EndBit)]
      last == CHOOSE i \in DOMAIN s : s[i] # {} /\ \A j \in (i + 1)..Len(s) : s[j] = {}
  IN  [message |-> SubSeq(s, 1, last - 1), nist |-> s[last] = NistPad]

\* A digest depends on the bytes written since the reset and on nothing else, not
\* on how they were cut into writes; two messages, or the two variants of one,
\* never feed the permutation alike, also where the padding meets the end of a
\* block or a byte of the message looks like it.
DigestIsOfMessage ==
  digest # NoDigest => Recovered(digest.blocks) = [message |-> message, nist |-> digest.nist]

\* Without the zeros at its end, which are all a key can lose.
Trimmed(key) == IF \A i \in DOMAIN key : key[i] = ZeroByte THEN << >>
                ELSE SubSeq(key, 1, CHOOSE i \in DOMAIN key : key[i] # ZeroByte /\ \A j \in (i + 1)..Len(key) : key[j] = ZeroByte)
\* Two keys have the same hmac only if they differ in zeros at the end, or one is
\* the hash of the other.
KeysApart ==
  call.name = "hmac" =>
    LET short(c) == Trimmed(IF Len(c) > HmacBlock THEN IdealHash(c) ELSE c)
    IN  hmac_digest(call.in.c, call.in.d) = hmac_digest(call.in.e, call.in.d) <=> short(call.in.c) = short(call.in.e)

\* sha3's encoder and hmac tell messages and keys apart.
HashingSound == DigestIsOfMessage /\ KeysApart
=============================================================================
