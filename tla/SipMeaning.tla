----------------------------- MODULE SipMeaning -----------------------------
(***************************************************************************)
(* What a datagram says, read without a parser, and the properties that     *)
(* compare it with what the parser and the connection have made of it.      *)
(***************************************************************************)
EXTENDS UdpConnection

Lines == DOMAIN datagram.lines
Named(names) == {i \in Lines : datagram.lines[i].name.text \in names}
FirstOf(names) == CHOOSE i \in Named(names) : \A j \in Named(names) : i <= j
First(names) == datagram.lines[FirstOf(names)].values[1]

\* All the values of the lines with these names, in order.
AllValues(names) ==
    FlattenSeq([i \in Lines |-> IF i \in Named(names) THEN datagram.lines[i].values ELSE <<>>])

ViaNames == {"Via", "V"}
FromNames == {"From", "F"}
ToNames == {"To", "T"}
CallIdNames == {"Call-ID", "I"}
ContactNames == {"Contact", "M"}
LengthNames == {"Content-Length", "L"}
AddressNames == FromNames \cup ToNames \cup {"Route"} \cup ContactNames

\* A text of which nothing is left to convert but what the marks say.
Plain(t, kept) == IF t = Nil THEN Nil ELSE [t EXCEPT !.marks = @ \cap kept]

Decimal(n) == IF n = Nil THEN Nil
              ELSE FoldLeft(LAMBDA sum, d : 10 * sum + d, 0, n.digits)

LastParam(params, key) ==
    LET last == CHOOSE i \in DOMAIN params :
                /\ params[i].key.text = key
                /\ \A j \in i + 1..Len(params) : params[j].key.text # key
    IN params[last]
HasParam(params, key) == \E i \in DOMAIN params : params[i].key.text = key
ParamValue(params, key) == IF HasParam(params, key) THEN LastParam(params, key).value ELSE Nil

\* The parameters as a map: names without regard to capitals, values as they are.
ParamMap(params) ==
    LET keys == {Plain(params[i].key, {}) : i \in DOMAIN params}
    IN IF keys = {} THEN <<>> ELSE [k \in keys |-> ParamValue(params, k.text)]

UriMeaning(u) ==
    LET sip == u.scheme.text \in {"sip", "sips"}
        tel == u.scheme.text = "tel"
        transport == ParamValue(u.params, "transport")
    IN [scheme |-> IF sip \/ tel THEN u.scheme.text ELSE Plain(u.scheme, {}),
        user |-> IF sip THEN Plain(u.user, {"upper"}) ELSE IF tel THEN Plain(u.user, {}) ELSE Nil,
        host |-> IF sip THEN Plain(u.host, {}) ELSE Nil,
        host_type |-> IF ~sip THEN Nil ELSE IF u.type = "ipv6" THEN "ipv6_reference" ELSE u.type,
        port |-> IF sip THEN Decimal(u.port) ELSE Nil,
        params |-> ParamMap(u.params),
        transport_param |-> IF transport = Nil THEN Nil
                            ELSE IF transport.text \in Transports THEN transport.text
                            ELSE Plain(transport, {}),
        lr_param |-> HasParam(u.params, "lr"), ob_param |-> HasParam(u.params, "ob"),
        ovid_param |-> ParamValue(u.params, "ovid"),
        phone_context_param |-> Plain(ParamValue(u.params, "phone-context"), {}),
        headers |-> u.headers, uri |-> u, display_name |-> Nil]

AddressMeaning(v) ==
    [UriMeaning(v.uri) EXCEPT
       !.display_name = Plain(v.display, {"upper", "escaped"})]

\* The flag for a quoted name is cleared where a URI ends. A Contact that ceases
\* to be an address behind a quoted name leaves it set for the next address.
Ends(l) == l.cut \in {Nil, "rest"} \/ Len(l.values) > 1
LeavesQuoted(l) ==
    LET v == Last(l.values)
    IN /\ l.name.text \in ContactNames
       /\ l.cut \in {"name", "uri"}
       /\ v.display # Nil
       /\ "quoted" \in v.display.marks
Mutilated(i) ==
    \E j \in 1..i - 1 :
       /\ LeavesQuoted(datagram.lines[j])
       /\ \A k \in Named(AddressNames) \cap (j + 1..i - 1) : ~Ends(datagram.lines[k])

\* The same address, whatever the name if it may be mutilated.
SameAddress(a, b, i) ==
    IF Mutilated(i) THEN [a EXCEPT !.display_name = Nil] = [b EXCEPT !.display_name = Nil]
    ELSE a = b

----------------------------------------------------------------------------
(* The message that was accepted.                                           *)

AtFinished == stage = "loop" /\ state = "finished" /\ datagram.kind = "message"
msg == parser.parsed

\* Each header of an accepted message is stored with all its values, those of
\* repeated lines included, in order and under its full name, although a value
\* is written only when the next line begins; the top Via of a request from
\* another host is written anew, from its parts.
HeadersExact ==
    AtFinished =>
    LET FullName(i) == headerize(datagram.lines[i].name)
        Single(i) == datagram.lines[i].name.text
                       \notin ViaNames \cup {"Route"} \cup ContactNames
        ValuesOf(i) == IF Single(i) THEN <<Text(i, 1)>>
                       ELSE [k \in DOMAIN datagram.lines[i].values |-> Text(i, k)]
        Spelled(f) == FlattenSeq([i \in Lines |-> IF FullName(i) = f THEN ValuesOf(i) ELSE <<>>])
        top == First(ViaNames)
        Written(f) == IF f = "Via" /\ NeedsReceived(msg)
                      THEN <<[core |-> Spelled(f)[1], branch |-> ParamValue(top.params, "branch"),
                              received |-> SourceHost, rport |-> HasParam(top.params, "rport"),
                              alias |-> HasParam(top.params, "alias"),
                              params |-> msg.via_params]>> \o Tail(Spelled(f))
                      ELSE Spelled(f)
    IN msg.headers = [f \in {FullName(i) : i \in Lines} |-> Written(f)]

\* The top Via: the parameters without a place of their own are kept in a map.
ViaMeaning(v) ==
    /\ msg.via_sent_by_host = v.host
    /\ msg.via_sent_by_port = Decimal(v.port)
    /\ msg.via_branch = ParamValue(v.params, "branch")
    /\ msg.via_received = ParamValue(v.params, "received")
    /\ msg.via_has_rport = HasParam(v.params, "rport")
    /\ msg.via_has_alias = HasParam(v.params, "alias")
    /\ msg.via_params = ParamMap(SelectSeq(v.params, LAMBDA p :
                                p.key.text \notin {"branch", "received", "rport", "alias"}))

Tags(names) == [i \in DOMAIN AllValues(names) |-> Plain(AllValues(names)[i], {})]

NumberOf(names) == IF Named(names) = {} THEN Nil ELSE First(names)
LeadingZero(n) == n # Nil /\ n.digits[1] = 0

\* The Contact of an accepted message is known exactly if there is one, with one
\* address (text behind the address is overlooked), and it is that address, with
\* the parameters behind it.
ContactExact ==
    LET all == AllValues(ContactNames)
        line == FirstOf(ContactNames)
        single == Len(all) = 1 /\ datagram.lines[line].cut \in {Nil, "rest"}
    IN IF ~single THEN msg.contact = Nil
       ELSE /\ SameAddress(msg.contact, AddressMeaning(all[1]), line)
            /\ msg.contact_params = IF all[1].params = <<>> THEN Nil
                                    ELSE [params |-> all[1].params]
            /\ msg.contact_has_reg_id = HasParam(all[1].params, "reg-id")

\* The parts of an accepted message are those its text spells, each from the
\* place it belongs to, whatever the order of the headers, their compact forms
\* and the headers that are repeated: a URI, a parameter or a tag never goes to
\* another header's object, and a parameter without a value does not take that
\* of another. A Contact is known only if it is the only one. The exceptions: a
\* display name behind a Contact that leaves the flag for quotes set, and a CSeq
\* or Content-Length that begins with a zero, which strtol reads as octal.
PartsExact ==
    AtFinished =>
    LET from == First(FromNames)
        to == First(ToNames)
        routes == AllValues({"Route"})
        method == IF msg.class = "request" THEN datagram.start.method
                  ELSE datagram.lines[FirstOf({"CSeq"})].values[2]
    IN /\ msg.class = "request" => msg.ruri = UriMeaning(datagram.start.uri)
       /\ msg.sip_method = method.text /\ msg.is_unknown_method = (method.text \notin Methods)
       /\ msg.status_code = IF msg.class = "request" THEN Nil ELSE Decimal(datagram.start.status)
       /\ SameAddress(msg.from, AddressMeaning(from), FirstOf(FromNames))
       /\ SameAddress(msg.to, AddressMeaning(to), FirstOf(ToNames))
       /\ msg.from_tag = ParamValue(from.params, "tag")
       /\ msg.to_tag = ParamValue(to.params, "tag")
       /\ IF routes = <<>> THEN msg.routes = Nil
          ELSE /\ Len(msg.routes) = Len(routes)
               /\ \A k \in DOMAIN routes :
                    [msg.routes[k] EXCEPT !.display_name = Nil] = UriMeaning(routes[k].uri)
       /\ ViaMeaning(First(ViaNames))
       /\ msg.num_vias = Len(AllValues(ViaNames))
       /\ msg.call_id = First(CallIdNames)
       /\ LeadingZero(NumberOf({"CSeq"})) \/ msg.cseq = Decimal(NumberOf({"CSeq"}))
       /\ \/ LeadingZero(NumberOf(LengthNames))
          \/ msg.content_length = Decimal(NumberOf(LengthNames))
       /\ msg.max_forwards = Decimal(NumberOf({"Max-Forwards"}))
       /\ msg.require = Tags({"Require"}) /\ msg.proxy_require = Tags({"Proxy-Require"})
       /\ msg.supported = Tags({"Supported", "K"})
       /\ ContactExact

\* The parser of single URIs makes of an address what the message parser makes
\* of it in a header: Uri.parse of the Request-URI and NameAddr.parse of From,
\* To and Route agree with the message, although two machines with actions of
\* their own read them.
UriParsersAgree ==
    AtFinished =>
    LET routes == AllValues({"Route"})
        bare == [display |-> Nil, brackets |-> FALSE, uri |-> datagram.start.uri, params |-> <<>>]
    IN /\ msg.class = "request" => parse_uri(bare, FALSE) = msg.ruri
       /\ SameAddress(parse_uri(First(FromNames), TRUE), msg.from, FirstOf(FromNames))
       /\ SameAddress(parse_uri(First(ToNames), TRUE), msg.to, FirstOf(ToNames))
       /\ \A k \in DOMAIN routes :
            \/ \E i \in Named({"Route"}) : Mutilated(i)
            \/ parse_uri(routes[k], TRUE) = msg.routes[k]

----------------------------------------------------------------------------
(* The datagram.                                                            *)

Once(names) == Len(AllValues(names)) = 1
AtMostOnce(names) == Cardinality(Named(names)) <= 1

\* A message that has the headers it must have, and those it may have once, once.
Acceptable ==
    /\ Named(ViaNames) # {}
    /\ Once(FromNames) /\ Once(ToNames) /\ Once(CallIdNames)
    /\ Cardinality(Named({"CSeq"})) = 1
    /\ AtMostOnce({"Max-Forwards"}) /\ AtMostOnce(LengthNames)

BranchConforms ==
    LET branch == ParamValue(First(ViaNames).params, "branch")
    IN branch # Nil /\ "z9hG4bK" \in branch.marks
LengthRight == datagram.body = IF Named(LengthNames) = {} THEN 0 ELSE Decimal(First(LengthNames))

\* What a datagram deserves when it is alone.
Deserved ==
    LET answerable == datagram.start.kind = "request" /\ datagram.start.method.text # "ACK"
    IN CASE datagram.kind \in {"crlf", "broken"} -> "ignored"
         [] datagram.kind = "keepalive" -> "answered"
         [] datagram.kind = "stun" -> IF datagram.request.length >= 20
                                         /\ datagram.request.second = 1
                                      THEN "answered" ELSE "ignored"
         [] OTHER -> IF Acceptable /\ BranchConforms /\ LengthRight THEN "processed"
                     ELSE IF Acceptable /\ answerable THEN "answered" ELSE "ignored"

\* Each datagram gets what it deserves, whatever the same or another peer has
\* sent before on the one socket, with its one buffer and one parser, unless
\* an exception has left something in them: a whole message with its core headers, a branch
\* of RFC 3261 and as many octets of body as it says is processed, others are
\* answered or ignored, never kept for the next one to trip over.
EachOnItsOwn ==
    /\ stage = "idle" /\ fate # "none" /\ ~raised
    /\ datagram.kind = "message" => ~LeadingZero(NumberOf(LengthNames))
    => fate = Deserved

\* What a client reads in the answer to its STUN request (RFC 5389, 15.2).
Decoded(answer, request) ==
    LET a == answer.attribute
        key == request.cookie \o request.transaction
        plain == a.type = "MAPPED-ADDRESS"
        port == IF plain THEN a.port ELSE Masked(a.port, key)
    IN [port |-> 256 * port[1] + port[2],
        ip |-> IF plain THEN a.address ELSE Masked(a.address, key)]

\* A STUN client is answered with its own transaction, lengths that add up, and
\* the attribute that its version of the protocol knows.  It can decode its
\* address and port from a MAPPED-ADDRESS, and its IPv6 address from a
\* XOR-MAPPED-ADDRESS.  A port or an IPv4 address that is XORed is left out: the
\* code puts its octets into the wrong order.
StunAnswers ==
    datagram.kind = "stun" /\ fate = "answered" =>
    LET d == Decoded(sent, datagram.request)
        compatible == datagram.request.cookie # MagicCookie
    IN /\ compatible <=> sent.attribute.type = "MAPPED-ADDRESS"
       /\ sent.transaction = datagram.request.transaction
       /\ sent.attribute.length = 4 + Len(sent.attribute.address)
       /\ sent.length = 4 + sent.attribute.length
       /\ compatible \/ Len(datagram.source.ip) = 16 => d.ip = datagram.source.ip
       /\ compatible => d.port = datagram.source.port
=============================================================================
