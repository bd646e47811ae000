----------------------------- MODULE Addresses -----------------------------
(***************************************************************************)
(* Texts of the network: fc::url, ip::address and ip::endpoint, and the    *)
(* pruning of texts that are not UTF-8.  A text is a sequence of symbols:  *)
(* separators, letters, the digits "0" and "1" of numbers written in base  *)
(* two, "ip" for a dotted address; a port has PortBits bits (16).          *)
(***************************************************************************)
EXTENDS ClientCall, SequencesExt, FiniteSetsExt

CONSTANTS PortBits, MaxUrl, MaxEndpoint, MaxUtf8, Octet

ASSUME AddressesAssumption == {PortBits, MaxUrl, MaxEndpoint, MaxUtf8} \subseteq Nat \ {0} /\ Octet \subseteq 0..255

-----------------------------------------------------------------------------
(* Lines, and numbers *)

Position(s, c) == IF \E i \in DOMAIN s : s[i] = c THEN Min({i \in DOMAIN s : s[i] = c}) ELSE 0
\* std::getline: up to the separator, which is taken too, or to the end.
getline(s, c) ==
  LET p == Position(s, c)
  IN IF p = 0 THEN [line |-> s, rest |-> << >>] ELSE [line |-> SubSeq(s, 1, p - 1), rest |-> SubSeq(s, p + 1, Len(s))]
Signs == {"+", "-"}
Unsigned(s) == IF s # << >> /\ s[1] \in Signs THEN Tail(s) ELSE s
IsNumber(s) == Unsigned(s) # << >> /\ \A i \in DOMAIN Unsigned(s) : Unsigned(s)[i] \in {"0", "1"}
DigitsValue(s) == FoldLeft(LAMBDA n, d : 2 * n + IF d = "1" THEN 1 ELSE 0, 0, Unsigned(s))
NumberOf(s) == IF s # << >> /\ s[1] = "-" THEN 0 - DigitsValue(s) ELSE DigitsValue(s)
\* lexical_cast to an unsigned type: a sign is taken, the digits must fit, and a
\* minus wraps what they give.
lexical_cast(s, bits) == IF IsNumber(s) /\ DigitsValue(s) < 2^bits THEN Ok(NumberOf(s) % 2^bits) ELSE Throw(0)
NumberText(n) ==
  IF n = 0 THEN <<"0">>
  ELSE LET len == CHOOSE k \in 1..PortBits : 2^(k - 1) <= n /\ n < 2^k
       IN [i \in 1..len |-> IF (n \div 2^(len - i)) % 2 = 1 THEN "1" ELSE "0"]

-----------------------------------------------------------------------------
(* url: an optional part is << >> or <<the part>> *)

PathOf(lpath) == <<"/">> \o lpath
UserPass(s, text) ==
  IF Position(s, "@") = 0 THEN [user |-> << >>, pass |-> << >>, rest |-> text]
  ELSE LET g == getline(text, "@")
           u == getline(g.line, ":")
       IN IF Position(g.line, ":") = 0 THEN [user |-> <<g.line>>, pass |-> << >>, rest |-> g.rest]
          ELSE [user |-> <<u.line>>, pass |-> <<getline(u.rest, ":").line>>, rest |-> g.rest]
url_port(s) == lexical_cast(s, 4 * PortBits)     \* to_uint64: 64 bits
NoUrl == [proto |-> << >>, user |-> << >>, pass |-> << >>, host |-> << >>, port |-> << >>, path |-> << >>]
\* The port keeps its low bits, whatever the number; what follows "?" is dropped,
\* as _args, on which _query waits, is never set.
parse(s) ==
  LET proto == getline(s, ":")
      up == UserPass(s, getline(getline(proto.rest, "/").rest, "/").rest)
      hp == getline(up.rest, "/")
      pos == Position(hp.line, ":")
      digits == SubSeq(hp.line, pos + 1, Len(hp.line))
      path == PathOf(getline(hp.rest, "?").line)
      Url(host, port) == [proto |-> proto.line, user |-> up.user, pass |-> up.pass, host |-> host, port |-> port, path |-> path]
  IN IF pos = 0 THEN Ok(Url(hp.line, << >>))
     ELSE IF ~url_port(digits).ok THEN Throw(NoUrl)
     ELSE Ok(Url(SubSeq(hp.line, 1, pos - 1), <<url_port(digits).value % 2^PortBits>>))
url_string(u) ==
  u.proto \o <<":", "/", "/">>
  \o (IF u.user = << >> THEN << >> ELSE u.user[1] \o (IF u.pass = << >> THEN << >> ELSE <<":">> \o u.pass[1]) \o <<"@">>)
  \o u.host \o (IF u.port = << >> THEN << >> ELSE <<":">> \o NumberText(u.port[1])) \o u.path

-----------------------------------------------------------------------------
(* address and endpoint *)

\* Two halves of 16 bits, compared as the 32 bits they are.
AtLeast(a, b) == a[1] > b[1] \/ (a[1] = b[1] /\ a[2] >= b[2])
Within(a, lo, hi) == AtLeast(a, lo) /\ AtLeast(hi, a)
Address(o1, o2, o3, o4) == <<o1 * 256 + o2, o3 * 256 + o4>>
is_private_address(a) ==
  \/ Within(a, Address(10, 0, 0, 0), Address(10, 255, 255, 255)) \/ Within(a, Address(172, 16, 0, 0), Address(172, 31, 255, 255))
  \/ Within(a, Address(192, 168, 0, 0), Address(192, 168, 255, 255)) \/ Within(a, Address(169, 254, 0, 0), Address(169, 254, 255, 255))
is_multicast_address(a) == Within(a, Address(224, 0, 0, 0), Address(239, 255, 255, 255))

endpoint_string(e) == e.ip \o <<":">> \o NumberText(e.port)
\* A number that does not fit is refused; "-1" is the highest port.
endpoint_port(digits) == lexical_cast(digits, PortBits)
\* Up to the first colon an address, behind it a port; without a colon the whole
\* text is taken for both.
from_string(s) ==
  LET g == getline(s, ":")
      digits == IF Position(s, ":") = 0 THEN s ELSE g.rest
      port == endpoint_port(digits)
  IN IF g.line = <<"ip">> /\ port.ok THEN Ok([ip |-> g.line, port |-> port.value]) ELSE Throw([ip |-> << >>, port |-> 0])

-----------------------------------------------------------------------------
(* UTF-8: "a" is ASCII, "c2" leads two bytes and "e1" three, "80" and "a0"   *)
(* follow; c2 80 is a C1 control character.                                  *)

Follows == {"80", "a0"}
\* utf8::internal::validate_next: the length of the character at i, 0 if there is none.
validate_next(s, i) ==
  CASE s[i] \in {"a", "esc"} -> 1
    [] s[i] = "c2" /\ i + 1 <= Len(s) -> IF s[i + 1] \in Follows THEN 2 ELSE 0
    [] s[i] = "e1" /\ i + 2 <= Len(s) -> IF s[i + 1] \in Follows /\ s[i + 2] \in Follows THEN 3 ELSE 0
    [] OTHER -> 0
Control(s, i) == s[i] = "c2" /\ i < Len(s) /\ s[i + 1] = "80"
\* Where the text stops being valid, from i on: past its end if it does not.
find_invalid(s, start) ==
  LET find[i \in 1..(Len(s) + 1)] ==
        IF i > Len(s) THEN i ELSE IF validate_next(s, i) = 0 \/ Control(s, i) THEN i ELSE find[i + validate_next(s, i)]
  IN find[start]
is_valid_utf8(s) == find_invalid(s, 1) = Len(s) + 1
After(s, i) == i + 1
\* Valid stretches are copied, a control character is escaped, other bytes are dropped one by one.
prune_invalid_utf8(s) ==
  LET prune[i \in 1..(Len(s) + 1)] ==
        LET j == find_invalid(s, i)
            escape == IF j <= Len(s) /\ Control(s, j) THEN <<"esc">> ELSE << >>
        IN SubSeq(s, i, j - 1) \o escape \o IF j > Len(s) THEN << >> ELSE prune[After(s, j)]
  IN prune[1]

-----------------------------------------------------------------------------
UrlSymbols == {":", "/", "@", "?", "h", "1", "-"}
UseUrl == Calls("url", SeqOf(UrlSymbols, MaxUrl) \cup {<<"h", ":", "/", "/">> \o s : s \in SeqOf(UrlSymbols, MaxUrl)})
UseAddress == Calls("address", [o1 : Octet, o2 : Octet, o3 : Octet])
UseEndpoint == Calls("endpoint", SeqOf({"ip", ":", "0", "1", "-", "+"}, MaxEndpoint))
UseUtf8 == Calls("utf8", SeqOf({"a", "c2", "e1", "80", "a0"}, MaxUtf8))
AddressesNext == UseUrl \/ UseAddress \/ UseEndpoint \/ UseUtf8

\* A url that was parsed is printed as a text that parses to the same url, for
\* every text the parser takes, however odd.
UrlStable == call.name = "url" => LET u == parse(call.in) IN u.ok => parse(url_string(u.value)) = u

\* The comparisons of whole addresses pick out the blocks the comments give by
\* their octets, and none is of both kinds.
KindByOctets == call.name = "address" =>
  LET o == call.in
      a == Address(o.o1, o.o2, o.o3, 255)
  IN /\ is_private_address(a) <=> \/ o.o1 = 10 \/ (o.o1 = 172 /\ o.o2 \in 16..31)
                                  \/ <<o.o1, o.o2>> \in {<<192, 168>>, <<169, 254>>}
     /\ is_multicast_address(a) <=> o.o1 \in 224..239
     /\ ~(is_private_address(a) /\ is_multicast_address(a))

\* An endpoint that is read prints as a text that reads as the same endpoint.  Its
\* port is the number of its text unless that has a minus, which lexical_cast
\* takes: then it is the number short of 2^16; one that does not fit is refused.
EndpointStable == call.name = "endpoint" =>
  LET e == from_string(call.in) IN e.ok =>
    /\ from_string(endpoint_string(e.value)) = e
    /\ LET n == NumberOf(getline(call.in, ":").rest)
       IN  e.value.port = IF n < 0 THEN 2^PortBits + n ELSE n

\* The characters of a text, with the bytes that belong to none left out.
Characters(s) ==
  LET chars[i \in 1..(Len(s) + 3)] ==
        IF i > Len(s) THEN << >>
        ELSE LET n == validate_next(s, i) IN
               IF n = 0 THEN chars[i + 1] ELSE (IF Control(s, i) THEN <<"esc">> ELSE SubSeq(s, i, i + n - 1)) \o chars[i + n]
  IN chars[1]
\* Pruning gives a valid text: every character of the input in its place, each
\* control character escaped once, and nothing but stray bytes lost.
PruneExact == call.name = "utf8" =>
  LET p == prune_invalid_utf8(call.in) IN
    p = Characters(call.in) /\ is_valid_utf8(p) /\ (is_valid_utf8(call.in) => p = call.in)

\* Urls, addresses, endpoints and utf8 texts mean the same before and after.
AddressesStable == UrlStable /\ KindByOctets /\ EndpointStable /\ PruneExact
=============================================================================
