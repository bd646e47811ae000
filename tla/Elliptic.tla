------------------------------ MODULE Elliptic ------------------------------
(***************************************************************************)
(* The two ECDSA implementations behind fc::crypto keys: r1 (OpenSSL,      *)
(* elliptic_r1.cpp) and k1 (libsecp256k1, elliptic_secp256k1.cpp,          *)
(* elliptic_impl_priv.cpp, elliptic_common.cpp, k1_recover.cpp), and the   *)
(* recovery of webauthn signatures.  The curve is external: a group of     *)
(* prime order Order whose point k*G is written k, with the x coordinate   *)
(* and the parity of y given by the constants XOf and OddY.  Everything    *)
(* the library itself computes around the curve (low s, recovery ids,      *)
(* headers, canonical form, key derivation, shared secrets) is modelled.   *)
(***************************************************************************)
EXTENDS ClientCall, FiniteSets

CONSTANTS Order,      \* the order of the group, an odd prime
          Field,      \* the order of the field of the coordinates
          XOf, OddY,  \* coordinates of k*G for k in 1..Order-1
          ByteSize    \* values of a byte: a secret, digest, r or s has two

\* The order is prime, so that numbers below it have inverses; two points with
\* one x are each other's negative; an x is below twice the order.
ASSUME EllipticAssumption ==
  /\ {Order, Field, ByteSize} \subseteq Nat \ {0}
  /\ Order < Field /\ Field < 2 * Order /\ Field <= ByteSize * ByteSize
  /\ \A k \in 1..Order - 1 : \E b \in 1..Order - 1 : (k * b) % Order = 1
  /\ XOf \in [1..Order - 1 -> 0..Field - 1] /\ OddY \in [1..Order - 1 -> BOOLEAN]
  /\ \A k \in 1..Order - 1 :
       XOf[k] = XOf[Order - k] /\ OddY[k] # OddY[Order - k]
  /\ \A j, k \in 1..Order - 1 : XOf[j] = XOf[k] => j = k \/ j = Order - k

Word256 == 0..ByteSize * ByteSize - 1
Compact == [header : 26..35, r : Word256, s : Word256]
Infinity == 0
HalfOrder == Order \div 2                     \* BN_rshift1(order)

---------------------------------------------------------------------------
(* External: arithmetic modulo the order and of the group. *)

BN_mod_inverse(a) == CHOOSE b \in 1..Order - 1 : (a * b) % Order = 1

\* EC_POINT_set_compressed_coordinates: the points with this x and parity.
PointsAt(x, odd) == {k \in 1..Order - 1 : XOf[k] = x /\ OddY[k] = odd}

\* The raw ECDSA signature of digest e by secret d with nonce k, or none.
ECDSA_do_sign(d, e, k) ==
  LET r == XOf[k] % Order
      s == (BN_mod_inverse(k) * (e + r * d)) % Order
  IN  IF r = 0 \/ s = 0 THEN {} ELSE {[r |-> r, s |-> s]}

---------------------------------------------------------------------------
(* Curve r1. *)

\* private_key::get_public_key of the key regenerated from a secret: the
\* secret is not required to be below the order.
r1_public(secret) == secret % Order

\* ECDSA_SIG_recover_key_GFp: the set of the recovered key, empty on failure.
r1_recover_key(sig, e, recid) ==
  LET x == sig.r + Order * (recid \div 2)
      Q(R) == LET rr == BN_mod_inverse(sig.r % Order)
              IN  ((((Order - (e % Order)) * rr) % Order)
                    + ((((sig.s * rr) % Order) * R) % Order)) % Order
  IN  {Q(R) : R \in IF x < Field /\ sig.r % Order # 0
                    THEN PointsAt(x, recid % 2 = 1) ELSE {}}

\* Mutant: a high s is left as it is.
LowS_Keep(s) == s
\* "want to always use the low S value"
LowS(s) == IF s > HalfOrder THEN Order - s ELSE s

\* signature_from_ecdsa: the first recovery id that gives the signer's key.
signature_from_ecdsa(raw, pub, e) ==
  LET sig == [r |-> raw.r, s |-> LowS(raw.s)]
      ids == {i \in 0..3 : r1_recover_key(sig, e, i) = {pub}}
  IN  {[header |-> i + 27 + 4, r |-> sig.r, s |-> sig.s] :
         i \in {j \in ids : \A l \in ids : j <= l}}

\* private_key::sign_compact, with the nonce the library draws.
r1_sign_compact(secret, e, nonce) ==
  UNION {signature_from_ecdsa(raw, r1_public(secret), e) :
           raw \in ECDSA_do_sign(secret, e, nonce)}

HeaderOk(c, low) == low <= c.header /\ c.header < 35

\* The recovery id of a header; those of compressed keys are 4 higher.
IdOf(h) == IF h >= 31 THEN h - 31 ELSE h - 27

\* public_key( compact_signature, digest ): the key, or {} for an exception.
r1_recover(c, e) ==
  IF HeaderOk(c, 27) /\ c.s <= HalfOrder
  THEN r1_recover_key(c, e, IdOf(c.header)) ELSE {}

\* webauthn recovers from the digest of its own data; only compressed keys, and
\* only one whose encoding has the full size, which the point at infinity has not.
webauthn_recover(c, e) ==
  IF HeaderOk(c, 31) THEN r1_recover_key(c, e, c.header - 31) \ {Infinity} ELSE {}

\* public_key::mult and add: the key of the digest plus this key.
mult(pub, digest) == ((digest % Order) + pub) % Order

add(pub, digest) ==
  LET sum == (r1_public(digest) + pub) % Order
  IN  IF digest > Order \/ sum = Infinity THEN {} ELSE {sum}

\* generate_from_seed, both curves: (seed + offset) % order as the secret.
generate_from_seed(seed, offset) == (seed + offset) % Order

\* ECDH: the x coordinate of the product, hashed; {} stands for the zero hash
\* that is returned when the product has none.
r1_shared(secret, pub) ==
  IF (secret * pub) % Order = Infinity THEN {}
  ELSE {XOf[(secret * pub) % Order]}

---------------------------------------------------------------------------
(* Curve k1. *)

k1_valid(secret) == 0 < secret /\ secret < Order

k1_public(secret) == IF k1_valid(secret) THEN {secret} ELSE {}

High(w) == w \div ByteSize      \* the first of the two bytes of a word
TopBit(b) == b >= ByteSize \div 2

\* public_key::is_canonical
is_canonical(c) ==
  \A w \in {c.r, c.s} :
    /\ ~TopBit(High(w))
    /\ ~(High(w) = 0 /\ ~TopBit(w % ByteSize))

\* secp256k1_ecdsa_sign_recoverable: low s, and the id of the nonce's point.
secp_sign(secret, e, nonce) ==
  {[header |-> 27 + 4 + 2 * (XOf[nonce] \div Order)
                 + (IF OddY[nonce] # (raw.s > HalfOrder) THEN 1 ELSE 0),
    r |-> raw.r, s |-> LowS(raw.s)] : raw \in ECDSA_do_sign(secret, e, nonce)}

\* private_key::sign_compact: other nonces are tried until the signature is
\* canonical; the signatures the loop may end with.
k1_sign_compact(secret, e, require_canonical, nonces) ==
  IF ~k1_valid(secret) THEN {}
  ELSE {c \in UNION {secp_sign(secret, e, k) : k \in nonces} :
          require_canonical => is_canonical(c)}

\* secp256k1 parses r and s below the order and refuses zero.
secp_recover(c, e, recid) ==
  IF {c.r, c.s} \subseteq 1..Order - 1
  THEN r1_recover_key(c, e, recid) \ {Infinity} ELSE {}

\* public_key( compact_signature, digest, check_canonical )
k1_recover_key(c, e, check_canonical) ==
  IF HeaderOk(c, 27) /\ (check_canonical => is_canonical(c))
  THEN secp_recover(c, e, (c.header - 27) % 4) ELSE {}

\* fc::k1_recover: the same, for callers that hold bytes.
k1_recover(c, e, sizes) ==
  IF sizes # <<65, 32>> THEN [error |-> "input_error", key |-> {}]
  ELSE IF ~HeaderOk(c, 27) \/ c.r >= Order \/ c.s >= Order
  THEN [error |-> "invalid_signature", key |-> {}]
  ELSE LET key == secp_recover(c, e, (c.header - 27) % 4)
       IN  [error |-> IF key = {} THEN "recover_error" ELSE "none", key |-> key]

k1_shared(secret, pub) ==
  IF k1_valid(secret) /\ pub # Infinity
  THEN {XOf[(secret * pub) % Order]} ELSE {}

---------------------------------------------------------------------------
(* The calls. *)

Sign == Calls("sign", [secret : Word256, digest : Word256,
                       nonce : 1..Order - 1])
Recover == Calls("recover", [c : Compact, digest : {0, 3, Order}])
Derive == Calls("derive", [secret : Word256, offset : Word256])

EllipticNext == Sign \/ Recover \/ Derive

SignedK1(in, canonical) ==
  k1_sign_compact(in.secret, in.digest, canonical, {in.nonce})

\* A compact signature gives back the key of its signer, on both curves,
\* whatever the nonce; a k1 signature made canonical passes the check for it.
\* A secret that is a multiple of the order has the point at infinity for its
\* key: r1 signs with it and recovers it, webauthn refuses it.
RecoverIsSigner ==
  call.name = "sign" =>
    LET in == call.in
        r1 == r1_sign_compact(in.secret, in.digest, in.nonce)
    IN  /\ r1 = {} => ECDSA_do_sign(in.secret, in.digest, in.nonce) = {}
        /\ \A c \in r1 : r1_recover(c, in.digest) = {r1_public(in.secret)}
        /\ \A c \in r1 : webauthn_recover(c, in.digest)
                           = {r1_public(in.secret)} \ {Infinity}
        /\ \A canonical \in BOOLEAN : \A c \in SignedK1(in, canonical) :
             k1_recover_key(c, in.digest, canonical) = k1_public(in.secret)

\* Refusing a high s leaves one s for a key, a digest and an x of the nonce's
\* point, whichever parity the header claims: negating s is no second signature.
\* The header itself is not unique: h and h + 4, an uncompressed and a compressed
\* key, name one recovery and are both accepted.
LowSUnique ==
  call.name = "recover" =>
    LET c == call.in.c
        e == call.in.digest
    IN  \A h \in 27..34, s \in Word256 :
          (/\ r1_recover(c, e) # {}
           /\ IdOf(h) \div 2 = IdOf(c.header) \div 2
           /\ r1_recover([c EXCEPT !.header = h, !.s = s], e)
                = r1_recover(c, e))
          => (s % Order) = (c.s % Order)

\* The two k1 recoveries agree, and k1 recovers no key from a signature that
\* r1's arithmetic would not: an error of one is an error of the other.
RecoveriesAgree ==
  call.name = "recover" =>
    LET in == call.in
        a == k1_recover_key(in.c, in.digest, FALSE)
        b == k1_recover(in.c, in.digest, <<65, 32>>)
    IN  /\ a = b.key
        /\ (b.error = "none") = (a # {})
        /\ k1_recover_key(in.c, in.digest, TRUE) \subseteq a

\* A key derived from the public key is the public key of the derived secret,
\* so a client without the secret computes the same key as its owner.
DerivationCommutes ==
  call.name = "derive" =>
    LET pub == r1_public(call.in.secret)
        derived == r1_public(generate_from_seed(call.in.secret, call.in.offset))
    IN  /\ mult(pub, call.in.offset) = derived
        /\ add(pub, call.in.offset) \subseteq {derived}
        /\ add(pub, call.in.offset) = {} =>
             call.in.offset > Order \/ derived = Infinity

\* Two owners compute the same shared secret, each from the other's key.
SharedSecretAgrees ==
  call.name = "derive" =>
    LET a == call.in.secret
        b == call.in.offset
    IN  /\ r1_shared(a, r1_public(b)) = r1_shared(b, r1_public(a))
        /\ \A p \in k1_public(a), q \in k1_public(b) :
             k1_shared(a, q) = k1_shared(b, p) /\ k1_shared(a, q) # {}

\* Whoever recovers a key from a signature gets the signer's, derived keys and
\* shared secrets agree on both sides.
SignaturesSound ==
  RecoverIsSigner /\ LowSUnique /\ RecoveriesAgree /\ DerivationCommutes /\ SharedSecretAgrees
=============================================================================
