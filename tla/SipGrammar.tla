----------------------------- MODULE SipGrammar -----------------------------
(***************************************************************************)
(* The grammar of SIP messages and URIs as sip_message_parser.c and         *)
(* sip_uri_parser.c have compiled it: which of the parser's actions the     *)
(* text of a message line, of a header value or of a URI executes, and in   *)
(* which order. A text is what it spells: a record. An action that sets or  *)
(* follows a pointer comes with the text that begins or ends there.         *)
(***************************************************************************)
EXTENDS ParserText

----------------------------------------------------------------------------
(* URIs: [scheme, user, host, type, port, params, headers]; their           *)
(* parameters: [key, value].                                                *)

Transports == {"udp", "tcp", "tls", "sctp", "ws", "wss"}

\* The parameters that have an action of their own besides.
KnownParam(p) ==
    CASE p.key.text = "transport" /\ p.value # Nil ->
           On("sip_uri_transport_"
              \o (IF p.value.text \in Transports THEN p.value.text ELSE "unknown"), p.value)
      [] p.key.text = "lr" -> Act("sip_uri_has_lr")
      [] p.key.text = "ob" -> Act("sip_uri_has_ob")
      [] p.key.text = "ovid" /\ p.value # Nil -> On("sip_uri_ovid", p.value)
      [] p.key.text = "phone-context" /\ p.value # Nil -> On("uri_tel_phone_context", p.value)
      [] OTHER -> <<>>

\* Those of them whose value has one.
Converted == {"transport", "ovid", "phone-context"}

UriParam(p) ==
    On("start_uri_param_key", p.key) \o On("uri_param_key_len", p.key)
    \o Optional(p.value, On("start_uri_param_value", p.value)
                         \o (IF p.key.text \in Converted THEN On("mark", p.value) ELSE <<>>)
                         \o On("uri_param_value_len", p.value))
    \o Act("write_uri_param") \o KnownParam(p)

SipUri(u) ==
    On("start_uri", u) \o On("mark", u.scheme)
    \o Act("uri_is_" \o u.scheme.text) \o On("uri_scheme", u.scheme)
    \o Optional(u.user, Marked(u.user, "uri_user"))
    \o Marked(u.host, "uri_host_" \o u.type)
    \o Optional(u.port, Marked(u.port, "uri_port"))
    \o Each(u.params, UriParam)
    \o Optional(u.headers, Marked(u.headers, "uri_headers"))
    \o On("write_uri", u)

TelUri(u) ==
    On("start_uri", u) \o On("mark", u.scheme)
    \o Act("uri_is_tel") \o On("uri_scheme", u.scheme)
    \o Marked(u.user, "uri_user")
    \o Each(u.params, UriParam)
    \o On("write_uri", u)

AbsoluteUri(u) ==
    On("start_uri", u) \o On("mark", u.scheme)
    \o Act("uri_is_unknown") \o On("uri_scheme", u.scheme)
    \o On("write_uri", u)

AddrSpec(u) == CASE u.scheme.text \in {"sip", "sips"} -> SipUri(u)
                 [] u.scheme.text = "tel" -> TelUri(u)
                 [] OTHER -> AbsoluteUri(u)

DisplayName(d) ==
    On("mark", d)
    \o (IF "quoted" \in d.marks THEN Act("uri_display_name_quoted") ELSE <<>>)
    \o On("uri_display_name", d)

\* [display, brackets, uri, params]: a name-addr, or a URI without brackets,
\* the parameters of which belong to the header.
NameAddr(v) == Optional(v.display, DisplayName(v.display)) \o AddrSpec(v.uri)

----------------------------------------------------------------------------
(* The start line: [kind, method, uri, status].                             *)

Methods == {"INVITE", "ACK", "CANCEL", "PRACK", "BYE", "REFER", "INFO", "UPDATE", "OPTIONS",
            "REGISTER", "MESSAGE", "SUBSCRIBE", "NOTIFY", "PUBLISH", "PULL", "PUSH", "STORE"}

\* A method that is known is also a token.
Method(m) == On("mark", m)
             \o (IF m.text \in Methods THEN Act("msg_method_" \o m.text) ELSE <<>>)
             \o Act("msg_method_unknown")

RequestLine(l) ==
    Method(l.method) \o Act("msg_request") \o On("msg_method", l.method) \o Act("init_ruri")
    \o Act("do_request_uri") \o AddrSpec(l.uri)
    \o Marked(l.version, "msg_sip_version")

StatusLine(l) ==
    On("mark", l.version) \o Act("msg_response") \o On("msg_sip_version", l.version)
    \o Marked(l.status, "msg_status_code")
    \o Marked(l.reason, "msg_reason_phrase")

StartLine(l) == IF l.kind = "request" THEN RequestLine(l) ELSE StatusLine(l)

----------------------------------------------------------------------------
(* A header line: [name, values, cut]. A value is written to the message    *)
(* when the next value or the next line begins.                             *)

\* The text of the k-th value of the n-th header line.
Text(n, k) == [line |-> n, value |-> k]

HeaderName(name) ==
    Act("write_hdr_value") \o On("start_hdr_field", name) \o On("write_hdr_field", name)

Value(at, actions) == On("start_hdr_value", at) \o actions \o On("store_hdr_value", at)

\* The values of a list, each of which is a value of its own, with what a comma
\* executes between them.
Values(values, separator) ==
    FlattenSeq([k \in DOMAIN values |-> IF k = 1 THEN values[k] ELSE separator \o values[k]])

GenericHeader(n, vs) == Value(Text(n, 1), <<>>)

CallIdHeader(n, vs) == Act("new_call_id") \o Value(Text(n, 1), Marked(vs[1], "msg_call_id"))
ContentLengthHeader(n, vs) ==
    Act("new_content_length") \o Value(Text(n, 1), Marked(vs[1], "msg_content_length"))
MaxForwardsHeader(n, vs) ==
    Act("new_max_forwards") \o Value(Text(n, 1), Marked(vs[1], "msg_max_forwards"))

\* The method is read only if it is not known yet.
CSeqHeader(n, vs, method) ==
    Act("new_cseq")
    \o Value(Text(n, 1), Marked(vs[1], "msg_cseq_number")
                       \o (IF method = Nil THEN Method(vs[2]) \o On("msg_method", vs[2]) ELSE <<>>))

OptionTags(n, vs, action) ==
    LET Tag(t) == Marked(t, action) IN Value(Text(n, 1), Each(vs, Tag))

\* The parameters of From and To.
AddressParam(p, action) == IF p.key.text = "tag" THEN Marked(p.value, action) ELSE <<>>

FromHeader(n, vs) ==
    LET Param(p) == AddressParam(p, "from_tag")
    IN Act("init_from") \o Act("new_from")
       \o Value(Text(n, 1), Act("do_from_uri") \o NameAddr(vs[1]) \o Each(vs[1].params, Param))

ToHeader(n, vs) ==
    LET Param(p) == AddressParam(p, "to_tag")
    IN Act("init_to") \o Act("new_to")
       \o Value(Text(n, 1), Act("do_to_uri") \o NameAddr(vs[1]) \o Each(vs[1].params, Param))

RouteHeader(n, vs) ==
    LET routes == [k \in DOMAIN vs |-> Value(Text(n, k), Act("do_route_uri") \o NameAddr(vs[k]))]
    IN Act("init_route") \o Act("init_route_uri")
       \o Values(routes, Act("init_route_uri") \o Act("write_hdr_value"))

\* Via: [host, port, params] behind the protocol and the transport.
ViaParameter(p) ==
    On("start_header_param_key", p.key)
    \o CASE p.key.text = "branch" ->
              On("mark", p.value)
              \o (IF "z9hG4bK" \in p.value.marks THEN Act("via_branch_rfc3261") ELSE <<>>)
              \o On("via_branch", p.value)
         [] p.key.text = "received" -> Marked(p.value, "via_received")
         [] p.key.text = "rport" -> Act("via_has_rport")
         [] p.key.text = "alias" -> Act("via_has_alias")
         [] OTHER -> On("header_param_key_len", p.key)
                     \o Optional(p.value, On("start_header_param_value", p.value)
                                          \o On("header_param_value_len", p.value))
                     \o Act("write_via_param")

ViaHeader(n, vs) ==
    LET One(at, v) ==
            Act("new_via")
            \o Value(at, Marked(v.host, "via_sent_by_host")
                         \o Optional(v.port, Marked(v.port, "via_sent_by_port"))
                         \o On("write_header_via_core", at)
                         \o Each(v.params, ViaParameter))
    IN Act("init_via")
       \o Values([k \in DOMAIN vs |-> One(Text(n, k), vs[k])], Act("write_hdr_value"))

\* Contact: addresses, or any text. A text that begins like a list of addresses
\* executes the actions of the list up to the character where it ceases to be
\* one: at the start, the name or the URI of the last, or behind it.
BeforeUri(v) == IF v.display = Nil THEN <<>> ELSE DisplayName(v.display)

ContactParams(v) ==
    LET Param(p) == IF p.key.text = "reg-id" THEN Act("contact_has_reg_id_param") ELSE <<>>
    IN On("mark", [params |-> v.params]) \o Each(v.params, Param)
       \o On("contact_params", [params |-> v.params]) \o Act("contact_is_valid")

ContactValue(at, v, cut) ==
    On("start_hdr_value", at) \o Act("do_contact_uri")
    \o (CASE cut = "start" -> <<>>
          [] cut = "name" -> BeforeUri(v)
          [] cut = "uri" -> BeforeUri(v) \o Front(AddrSpec(v.uri))
          [] OTHER -> NameAddr(v) \o ContactParams(v))
    \o On("store_hdr_value", at)

ContactHeader(n, vs, cut) ==
    LET contacts == [k \in DOMAIN vs |->
                       ContactValue(Text(n, k), vs[k], IF k = Len(vs) THEN cut ELSE Nil)]
    IN Act("new_contact") \o Act("init_contact")
       \o Values(contacts, Act("contact_is_invalid") \o Act("write_hdr_value") \o Act("new_contact"))

----------------------------------------------------------------------------
\* A header line, which ends the value before it. The names of the headers
\* the parser knows, and their compact forms.
HeaderLine(l, n, method) ==
    HeaderName(l.name)
    \o CASE l.name.text \in {"Via", "V"} -> ViaHeader(n, l.values)
         [] l.name.text \in {"From", "F"} -> FromHeader(n, l.values)
         [] l.name.text \in {"To", "T"} -> ToHeader(n, l.values)
         [] l.name.text \in {"Call-ID", "I"} -> CallIdHeader(n, l.values)
         [] l.name.text = "CSeq" -> CSeqHeader(n, l.values, method)
         [] l.name.text = "Max-Forwards" -> MaxForwardsHeader(n, l.values)
         [] l.name.text \in {"Content-Length", "L"} -> ContentLengthHeader(n, l.values)
         [] l.name.text = "Route" -> RouteHeader(n, l.values)
         [] l.name.text \in {"Contact", "M"} -> ContactHeader(n, l.values, l.cut)
         [] l.name.text = "Require" -> OptionTags(n, l.values, "require_option_tag")
         [] l.name.text = "Proxy-Require" -> OptionTags(n, l.values, "proxy_require_option_tag")
         [] l.name.text \in {"Supported", "K"} -> OptionTags(n, l.values, "supported_option_tag")
         [] OTHER -> GenericHeader(n, l.values)

\* Faulty variant: the value of the last header is not written.
EmptyLineDone == Act("done")

\* The empty line behind the headers, and the two before a message that are a
\* keepalive of the Outbound mechanism.
EmptyLine == Act("write_hdr_value") \o Act("done")
DoubleCRLF == Act("outbound_keepalive") \o Act("done")
=============================================================================
