-------------------------------- MODULE Stun --------------------------------
(***************************************************************************)
(* Stun.parse_request (ext/stun/stun_ruby.c) on a little-endian host: what  *)
(* it makes of a datagram, and the Binding response it builds. Octets are   *)
(* numbers; a request is [first, second, length, cookie, transaction], the  *)
(* last two being sequences of octets.                                      *)
(***************************************************************************)
EXTENDS Integers, Sequences, Bitwise

MagicCookie == <<33, 18, 164, 66>>
STUN_MESSAGE_MIN_SIZE == 20

\* A uint16_t in memory, and htons, which truncates its argument.
Load(octets) == octets[1] + 256 * octets[2]
Store(n) == <<n % 256, n \div 256>>
htons(n) == 256 * (n % 256) + ((n \div 256) % 256)

Masked(octets, key) == [i \in DOMAIN octets |-> octets[i] ^^ key[i]]

\* The attribute for a source [ip, port]. htons leaves of an IPv4 address the
\* first two octets.
xor_port(request, source) == Store(htons(source.port ^^ Load(request.cookie)))
xor_ipv4(request, source) ==
    Store(htons(Load(source.ip) ^^ Load(request.cookie))) \o <<0, 0>>
xor_ipv6(request, source) == Masked(source.ip, request.cookie \o request.transaction)

Xored(request, source) ==
    LET v6 == Len(source.ip) = 16
    IN [type |-> "XOR-MAPPED-ADDRESS", family |-> IF v6 THEN 2 ELSE 1,
        length |-> IF v6 THEN 20 ELSE 8,
        port |-> xor_port(request, source),
        address |-> IF v6 THEN xor_ipv6(request, source) ELSE xor_ipv4(request, source)]

Mapped(request, source) ==
    LET v6 == Len(source.ip) = 16
    IN [type |-> "MAPPED-ADDRESS", family |-> IF v6 THEN 2 ELSE 1,
        length |-> IF v6 THEN 20 ELSE 8,
        port |-> Store(htons(source.port)),
        address |-> source.ip]

\* Faulty variant: every client is answered as one of RFC 5389.
AttributeXored(request, source) == Xored(request, source)

\* A client of RFC 3489 has no magic cookie.
Attribute(request, source) ==
    IF request.cookie = MagicCookie THEN Xored(request, source) ELSE Mapped(request, source)

\* parse_request: nil for what is no STUN request, false for an invalid one, or
\* the response.
Refused(answer) == [answer |-> answer, length |-> 0]

parse_request(request, source) ==
    IF request.first # 0 THEN Refused("nil")
    ELSE IF request.length < STUN_MESSAGE_MIN_SIZE \/ request.second # 1 THEN Refused("false")
    ELSE [answer |-> "response", length |-> IF Len(source.ip) = 16 THEN 24 ELSE 12,
          cookie |-> request.cookie, transaction |-> request.transaction,
          attribute |-> Attribute(request, source)]
=============================================================================
