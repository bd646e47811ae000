------------------------------ MODULE MCCrypto ------------------------------
(***************************************************************************)
(* Signatures and keys over a small curve, their texts, the client data of *)
(* a WebAuthn signature, the ciphers, sha3 and hmac.  A behaviour          *)
(* exercises one of them, "part", and leaves the others in their first     *)
(* state.                                                                  *)
(***************************************************************************)
EXTENDS Elliptic, Keys, WebAuthn, Primitives

VARIABLE part

-----------------------------------------------------------------------------
(* Values of constants. *)

\* The multiples of a generator of a curve of order 11 over the field of 13.
CurveX == <<2, 12, 8, 3, 7, 7, 3, 8, 12, 2>>
CurveOdd == <<FALSE, FALSE, FALSE, TRUE, FALSE, TRUE, FALSE, TRUE, TRUE, TRUE>>

\* A Feistel network of four rounds over words of two bits.
Subkeys == <<<<0, 1>>, <<1, 0>>, <<1, 1>>, <<0, 0>>, <<0, 1>>, <<1, 1>>>>
SBox == [w \in WordOf |-> CASE w = <<0, 0>> -> <<1, 0>> [] w = <<0, 1>> -> <<1, 0>>
                            [] w = <<1, 0>> -> <<0, 1>> [] OTHER -> <<1, 1>>]

-----------------------------------------------------------------------------

\* Message bytes: zero, the paddings, the end bit and a padding with it.
PadLike == {{}, {0}, {1, 2}, {7}, {1, 2, 7}}

vars == <<part, call, wVars, hashVars>>

Init == CallInit /\ WebInit /\ HashInit /\ part \in {"elliptic", "keys", "webauthn", "ciphers", "hash", "hmac"}

EllipticStep == part = "elliptic" /\ EllipticNext /\ UNCHANGED <<part, wVars, hashVars>>
KeysStep == part = "keys" /\ KeysNext /\ UNCHANGED <<part, wVars, hashVars>>
WebStep == part = "webauthn" /\ WebNext /\ UNCHANGED <<part, call, hashVars>>
CiphersStep == part = "ciphers" /\ CiphersNext /\ UNCHANGED <<part, wVars, hashVars>>
HashStep == part = "hash" /\ EncodeHash /\ UNCHANGED <<part, call, wVars>>
HmacStep == part = "hmac" /\ AskHmac /\ UNCHANGED <<part, wVars, hashVars>>

Next == EllipticStep \/ KeysStep \/ WebStep \/ CiphersStep \/ HashStep \/ HmacStep

Spec == Init /\ [][Next]_vars

\* The ciphers decrypt what they encrypt, and hashes tell messages and keys apart.
PrimitivesSound == CiphersRoundTrip /\ HashingSound
=============================================================================
