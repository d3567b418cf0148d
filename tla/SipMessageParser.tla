-------------------------- MODULE SipMessageParser --------------------------
(***************************************************************************)
(* The SIP message parser: the actions of sip_message_parser.c on its       *)
(* struct, and the functions of sip_parser_ruby.c that they call to fill    *)
(* the Request or Response object (`parsed`). A parser is the record of the *)
(* struct's fields. A pointer is the text that begins where it points to.   *)
(***************************************************************************)
EXTENDS SipGrammar, TLC

----------------------------------------------------------------------------
(* Conversions.                                                             *)

my_rb_str_hex_unescape(text) == Without(text, {"escaped"})
my_rb_str_tel_number_clean(text) == Without(text, {"separators", "upper"})
utils_normalize_ipv6(text) == Without(text, {"longhand"})

\* PTR_TO(mark)+1 and LEN(mark, p)-2: without the first and the last character.
Unquoted(text) == IF "quoted" \in text.marks THEN Without(text, {"quoted"})
                  ELSE [text EXCEPT !.marks = @ \cup {"mutilated"}]

\* common_headers.h.
short_headers ==
    [A |-> "Accept-Contact", U |-> "Allow-Events", I |-> "Call-ID", M |-> "Contact",
     E |-> "Content-Encoding", L |-> "Content-Length", C |-> "Content-Type", O |-> "Event",
     F |-> "From", Y |-> "Identity", N |-> "Identity-Info", R |-> "Refer-To",
     B |-> "Referred-By", J |-> "Reject-Contact", D |-> "Request-Disposition",
     X |-> "Session-Expires", S |-> "Subject", K |-> "Supported", T |-> "To", V |-> "Via"]

\* The name of a header is looked up, or put into the usual capitals.
headerize(name) == IF name.text \in DOMAIN short_headers THEN short_headers[name.text]
                   ELSE name.text

----------------------------------------------------------------------------
(* The objects.                                                             *)

\* A new Uri or NameAddr.
NewUri == [scheme |-> Nil, user |-> Nil, host |-> Nil, host_type |-> Nil, port |-> Nil,
           params |-> <<>>, transport_param |-> Nil, lr_param |-> FALSE, ob_param |-> FALSE,
           ovid_param |-> Nil, phone_context_param |-> Nil, headers |-> Nil, uri |-> Nil,
           display_name |-> Nil]

\* A new Request or Response (or, without any parts, the symbol for a keepalive).
NewMessage(class) ==
    [class |-> class, headers |-> <<>>, sip_method |-> Nil, is_unknown_method |-> FALSE,
     status_code |-> Nil, reason_phrase |-> Nil, sip_version |-> Nil,
     ruri |-> Nil, from |-> Nil, to |-> Nil, routes |-> Nil, contact |-> Nil,
     from_tag |-> Nil, to_tag |-> Nil, contact_params |-> Nil, contact_has_reg_id |-> FALSE,
     call_id |-> Nil, cseq |-> Nil, max_forwards |-> Nil, content_length |-> Nil,
     via_sent_by_host |-> Nil, via_sent_by_port |-> Nil, via_branch |-> Nil,
     via_branch_rfc3261 |-> FALSE, via_received |-> Nil, via_has_rport |-> FALSE,
     via_has_alias |-> FALSE, via_core_value |-> Nil, via_params |-> <<>>, num_vias |-> Nil,
     hdr_via |-> Nil, hdr_from |-> Nil, hdr_to |-> Nil, hdr_route |-> Nil,
     require |-> <<>>, proxy_require |-> <<>>, supported |-> <<>>]

\* The pointers and flags of the struct. The lengths of parameters are left as
\* they are.
ResetPointers(old) ==
    [old EXCEPT
       !.cs = "start", !.mark = Nil,
       !.hdr_field_start = Nil, !.hdr_field_len = Nil,
       !.hdr_value_start = Nil, !.hdr_value_len = Nil, !.hdr_field_name = "any",
       !.uri_start = Nil, !.uri_param_key_start = Nil, !.uri_param_value_start = Nil,
       !.header_param_key_start = Nil, !.header_param_value_start = Nil,
       !.method = Nil, !.method_set = FALSE,
       !.contact_is_valid = FALSE, !.route_found = FALSE,
       !.do_uri = FALSE, !.uri_owner = Nil, !.uri_scheme = Nil,
       !.uri_display_name_quoted = FALSE,
       !.parsed = Nil]

\* Faulty variant: the Call-ID headers are not counted anew.
sip_message_parser_init_call_id(old) ==
    [ResetPointers(old) EXCEPT !.num = [h \in DOMAIN @ |-> IF h = "call_id" THEN @[h] ELSE 0]]

sip_message_parser_init(old) == [ResetPointers(old) EXCEPT !.num = [h \in DOMAIN @ |-> 0]]

\* SipMessageParser_alloc.
NewParser ==
    [cs |-> "start", mark |-> Nil,
     hdr_field_start |-> Nil, hdr_field_len |-> Nil,
     hdr_value_start |-> Nil, hdr_value_len |-> Nil, hdr_field_name |-> "any",
     uri_start |-> Nil, uri_param_key_start |-> Nil, uri_param_key_len |-> Nil,
     uri_param_value_start |-> Nil, uri_param_value_len |-> Nil,
     header_param_key_start |-> Nil, header_param_key_len |-> Nil,
     header_param_value_start |-> Nil, header_param_value_len |-> Nil,
     method |-> Nil, method_set |-> FALSE,
     num |-> [h \in {"via", "from", "to", "call_id", "cseq", "max_forwards",
                     "content_length", "contact"} |-> 0],
     contact_is_valid |-> FALSE, route_found |-> FALSE,
     do_uri |-> FALSE, uri_owner |-> Nil, uri_scheme |-> Nil,
     uri_display_name_quoted |-> FALSE, parsed |-> Nil]

----------------------------------------------------------------------------
(* The functions of sip_parser_ruby.c that set a part of a URI: the object  *)
(* after action a, at the end of a text that began at a pointer of s.       *)

uri_scheme(o, s, text) ==
    [o EXCEPT !.scheme = IF s.uri_scheme = "unknown" THEN my_rb_str_downcase(text)
                         ELSE s.uri_scheme]

uri_user(o, s, text) ==
    [o EXCEPT !.user = IF s.uri_scheme = "tel" THEN my_rb_str_tel_number_clean(text)
                       ELSE my_rb_str_hex_unescape(text)]

uri_host(o, text, type) ==
    LET name == my_rb_str_downcase(Without(text, {"dot"}))
    IN [o EXCEPT !.host = IF type = "ipv6" THEN utils_normalize_ipv6(name) ELSE name,
                 !.host_type = IF type = "ipv6" THEN "ipv6_reference" ELSE type]

uri_param(o, s) ==
    [o EXCEPT !.params = (my_rb_str_downcase(Span(s.uri_param_key_start, s.uri_param_key_len)) :>
                            (IF s.uri_param_value_len = Nil THEN Nil
                             ELSE Span(s.uri_param_value_start, s.uri_param_value_len)))
                         @@ @]

uri_known_param(o, a, text) ==
    CASE a = "sip_uri_transport_unknown" -> [o EXCEPT !.transport_param = my_rb_str_downcase(text)]
      [] a = "sip_uri_ovid" -> [o EXCEPT !.ovid_param = text]
      [] a = "uri_tel_phone_context" ->
           [o EXCEPT !.phone_context_param = my_rb_str_downcase(Without(text, {"dot"}))]
      [] OTHER -> [o EXCEPT !.transport_param = text.text]

uri_has_param(o, a) == CASE a = "sip_uri_has_lr" -> [o EXCEPT !.lr_param = TRUE]
                         [] a = "sip_uri_has_ob" -> [o EXCEPT !.ob_param = TRUE]

uri_display_name(o, s, text) ==
    [o EXCEPT !.display_name = IF s.uri_display_name_quoted THEN Unquoted(text) ELSE text]

UriActions == {"uri_scheme", "uri_user", "uri_host_domain", "uri_host_ipv4", "uri_host_ipv6",
               "uri_port", "write_uri_param", "uri_headers", "uri_tel_phone_context",
               "sip_uri_has_lr", "sip_uri_has_ob", "sip_uri_ovid", "sip_uri_transport_unknown",
               "uri_display_name"}
              \cup {"sip_uri_transport_" \o t : t \in Transports}

\* What either parser does to a URI object.
SetUri(o, s, a, end) ==
    LET text == Span(s.mark, end)
    IN CASE a = "uri_scheme" -> uri_scheme(o, s, text)
         [] a = "uri_user" -> uri_user(o, s, text)
         [] a = "uri_host_domain" -> uri_host(o, text, "domain")
         [] a = "uri_host_ipv4" -> uri_host(o, text, "ipv4")
         [] a = "uri_host_ipv6" -> uri_host(o, text, "ipv6")
         [] a = "uri_port" -> [o EXCEPT !.port = str_to_int(text)]
         [] a = "write_uri_param" -> uri_param(o, s)
         [] a = "uri_headers" -> [o EXCEPT !.headers = text]
         [] a = "uri_display_name" -> uri_display_name(o, s, text)
         [] a \in {"sip_uri_has_lr", "sip_uri_has_ob"} -> uri_has_param(o, a)
         [] OTHER -> uri_known_param(o, a, text)

----------------------------------------------------------------------------
(* The actions on pointers, which both parsers have.                        *)

Pointers == {"mark", "start_uri", "start_uri_param_key", "uri_param_key_len",
             "start_uri_param_value", "uri_param_value_len", "uri_display_name_quoted",
             "uri_is_sip", "uri_is_sips", "uri_is_tel", "uri_is_unknown"}

\* Faulty variant: a parameter without a value takes the one before it.
ParamKeyLenOnly(s, text) == [s EXCEPT !.uri_param_key_len = text]

\* "If current param has no value don't take previous param's value."
ParamKeyLen(s, text) == [s EXCEPT !.uri_param_key_len = text, !.uri_param_value_len = Nil]

SetPointer(s, a, text) ==
    CASE a = "mark" -> [s EXCEPT !.mark = text]
      [] a = "start_uri" -> [s EXCEPT !.uri_start = text]
      [] a = "start_uri_param_key" -> [s EXCEPT !.uri_param_key_start = text]
      [] a = "uri_param_key_len" -> ParamKeyLen(s, text)
      [] a = "start_uri_param_value" -> [s EXCEPT !.uri_param_value_start = text]
      [] a = "uri_param_value_len" -> [s EXCEPT !.uri_param_value_len = text]
      [] a = "uri_display_name_quoted" -> [s EXCEPT !.uri_display_name_quoted = TRUE]
      [] a = "uri_is_sip" -> [s EXCEPT !.uri_scheme = "sip"]
      [] a = "uri_is_sips" -> [s EXCEPT !.uri_scheme = "sips"]
      [] a = "uri_is_tel" -> [s EXCEPT !.uri_scheme = "tel"]
      [] a = "uri_is_unknown" -> [s EXCEPT !.uri_scheme = "unknown"]

\* Those the message parser executes only if the URI is wanted.
OnlyIfDoUri == Pointers \ {"mark", "uri_display_name_quoted"}

----------------------------------------------------------------------------
(* The message.                                                             *)

\* The object that the URI belongs to, and the message with that object changed.
get_uri_object(m, owner) == IF owner = "route" THEN Last(m.routes) ELSE m[owner]

set_uri_object(m, owner, o) ==
    IF owner = "route" THEN [m EXCEPT !.routes[Len(m.routes)] = o] ELSE [m EXCEPT ![owner] = o]

UriAction(s, a, end) ==
    LET o == get_uri_object(s.parsed, s.uri_owner)
    IN IF s.do_uri THEN [s EXCEPT !.parsed = set_uri_object(@, s.uri_owner, SetUri(o, s, a, end))]
       ELSE s

\* The URI ends.
write_uri(s, end) ==
    LET o == [get_uri_object(s.parsed, s.uri_owner) EXCEPT !.uri = Span(s.uri_start, end)]
    IN [s EXCEPT !.parsed = IF s.do_uri THEN set_uri_object(@, s.uri_owner, o) ELSE @,
                 !.do_uri = FALSE, !.uri_owner = Nil, !.uri_scheme = Nil,
                 !.uri_display_name_quoted = FALSE]

\* A URI begins; that of From, To and Contact is wanted the first time only.
do_uri(s, owner) ==
    IF owner \in {"ruri", "route"} \/ s.num[owner] = 1
    THEN [s EXCEPT !.do_uri = TRUE, !.uri_owner = owner] ELSE s

init_component(s, a) ==
    CASE a = "init_ruri" -> [s EXCEPT !.parsed.ruri = NewUri]
      [] a = "init_from" -> [s EXCEPT !.parsed.from = NewUri, !.hdr_field_name = "from"]
      [] a = "init_to" -> [s EXCEPT !.parsed.to = NewUri, !.hdr_field_name = "to"]
      [] a = "init_contact" -> [s EXCEPT !.parsed.contact = NewUri, !.hdr_field_name = "contact"]
      [] a = "init_route" ->
           IF s.route_found THEN s
           ELSE [s EXCEPT !.parsed.routes = <<>>, !.hdr_field_name = "route", !.route_found = TRUE]
      [] a = "init_route_uri" -> [s EXCEPT !.parsed.routes = Append(@, NewUri)]
      [] a = "init_via" -> [s EXCEPT !.hdr_field_name = "via"]

\* write_hdr_value: the value read last is added to the header's values. The
\* first one of a core header is kept by name as well: hdr_via and hdr_route
\* are the array itself.
header(s) ==
    LET f == headerize(Span(s.hdr_field_start, s.hdr_field_len))
        v == Span(s.hdr_value_start, s.hdr_value_len)
        m == s.parsed
        known == f \in DOMAIN m.headers
    IN IF s.hdr_value_start = Nil THEN s
       ELSE [s EXCEPT !.parsed =
               [m EXCEPT !.headers = (f :> (IF known THEN Append(m.headers[f], v) ELSE <<v>>)) @@ @,
                         !.hdr_via = IF ~known /\ s.hdr_field_name = "via" THEN f ELSE @,
                         !.hdr_route = IF ~known /\ s.hdr_field_name = "route" THEN f ELSE @,
                         !.hdr_from = IF ~known /\ s.hdr_field_name = "from" THEN v ELSE @,
                         !.hdr_to = IF ~known /\ s.hdr_field_name = "to" THEN v ELSE @]]

HeaderActions == {"write_hdr_value", "start_hdr_field", "write_hdr_field", "start_hdr_value",
                  "store_hdr_value"}

HeaderAction(s, a, text) ==
    CASE a = "write_hdr_value" -> header(s)
      [] a = "start_hdr_field" -> [s EXCEPT !.hdr_field_start = text]
      [] a = "write_hdr_field" -> [s EXCEPT !.hdr_field_len = text, !.hdr_field_name = "any"]
      [] a = "start_hdr_value" -> [s EXCEPT !.hdr_value_start = text]
      [] a = "store_hdr_value" -> [s EXCEPT !.hdr_value_len = text]

\* The method is that of the first line that has one.
MethodAction(s, a) ==
    IF a = "msg_method_OPTIONS"
    THEN IF s.method_set THEN s ELSE [s EXCEPT !.method = "OPTIONS", !.method_set = TRUE]
    ELSE IF s.method # Nil THEN s
    ELSE [s EXCEPT !.method = IF a = "msg_method_unknown" THEN "unknown"
                              ELSE CHOOSE x \in Methods : a = "msg_method_" \o x]

msg_method(m, s, text) ==
    IF s.method = "unknown" THEN [m EXCEPT !.sip_method = text.text, !.is_unknown_method = TRUE]
    ELSE [m EXCEPT !.sip_method = s.method]

\* The start line.
StartActions == {"msg_request", "msg_response", "msg_method", "msg_sip_version",
                 "msg_status_code", "msg_reason_phrase"}

StartAction(s, a, end) ==
    LET text == Span(s.mark, end)
    IN CASE a = "msg_request" -> [s EXCEPT !.parsed = NewMessage("request")]
         [] a = "msg_response" -> [s EXCEPT !.parsed = NewMessage("response")]
         [] a = "msg_method" -> [s EXCEPT !.parsed = msg_method(@, s, text)]
         [] a = "msg_sip_version" -> [s EXCEPT !.parsed.sip_version = text]
         [] a = "msg_status_code" -> [s EXCEPT !.parsed.status_code = str_to_int(text)]
         [] a = "msg_reason_phrase" -> [s EXCEPT !.parsed.reason_phrase = text]

\* The top Via.
ViaActions == {"via_sent_by_host", "via_sent_by_port", "via_branch", "via_branch_rfc3261",
               "via_received", "via_has_rport", "via_has_alias", "write_header_via_core",
               "write_via_param"}

ViaAction(s, a, end) ==
    LET text == Span(s.mark, end)
    IN IF s.num["via"] # 1 THEN s ELSE
       CASE a = "via_sent_by_host" -> [s EXCEPT !.parsed.via_sent_by_host = text]
         [] a = "via_sent_by_port" -> [s EXCEPT !.parsed.via_sent_by_port = str_to_int(text)]
         [] a = "via_branch" -> [s EXCEPT !.parsed.via_branch = text]
         [] a = "via_branch_rfc3261" -> [s EXCEPT !.parsed.via_branch_rfc3261 = TRUE]
         [] a = "via_received" -> [s EXCEPT !.parsed.via_received = text]
         [] a = "via_has_rport" -> [s EXCEPT !.parsed.via_has_rport = TRUE]
         [] a = "via_has_alias" -> [s EXCEPT !.parsed.via_has_alias = TRUE]
         [] a = "write_header_via_core" ->
              [s EXCEPT !.parsed.via_core_value = Span(s.hdr_value_start, end)]
         [] a = "write_via_param" ->
              [s EXCEPT !.parsed.via_params =
                 (my_rb_str_downcase(Span(s.header_param_key_start, s.header_param_key_len)) :>
                    (IF s.header_param_value_len = Nil THEN Nil
                     ELSE Span(s.header_param_value_start, s.header_param_value_len))) @@ @]

HeaderParamActions == {"start_header_param_key", "header_param_key_len",
                       "start_header_param_value", "header_param_value_len"}

HeaderParamAction(s, a, text) ==
    CASE a = "start_header_param_key" -> [s EXCEPT !.header_param_key_start = text]
      [] a = "header_param_key_len" -> [s EXCEPT !.header_param_key_len = text,
                                                 !.header_param_value_len = Nil]
      [] a = "start_header_param_value" -> [s EXCEPT !.header_param_value_start = text]
      [] a = "header_param_value_len" -> [s EXCEPT !.header_param_value_len = text]

\* Headers with a single value, counted.
CountActions == {"new_via", "new_from", "new_to", "new_call_id", "new_cseq", "new_max_forwards",
                 "new_content_length", "new_contact"}

CountAction(s, a) ==
    [s EXCEPT !.num = [h \in DOMAIN @ |-> IF a = "new_" \o h THEN @[h] + 1 ELSE @[h]]]

SingleActions == {"msg_call_id", "msg_cseq_number", "msg_max_forwards", "msg_content_length",
                  "from_tag", "to_tag"}

SingleAction(s, a, end) ==
    LET text == Span(s.mark, end)
    IN CASE a = "msg_call_id" ->
              IF s.num["call_id"] = 1 THEN [s EXCEPT !.parsed.call_id = text] ELSE s
         [] a = "msg_cseq_number" ->
              IF s.num["cseq"] = 1 THEN [s EXCEPT !.parsed.cseq = strtol(text)] ELSE s
         [] a = "msg_max_forwards" ->
              IF s.num["max_forwards"] = 1
              THEN [s EXCEPT !.parsed.max_forwards = str_to_int(text)] ELSE s
         [] a = "msg_content_length" ->
              IF s.num["content_length"] = 1
              THEN [s EXCEPT !.parsed.content_length = strtol(text)] ELSE s
         [] a = "from_tag" -> [s EXCEPT !.parsed.from_tag = text]
         [] a = "to_tag" -> [s EXCEPT !.parsed.to_tag = text]

ContactActions == {"contact_params", "contact_has_reg_id_param", "contact_is_valid",
                   "contact_is_invalid"}

ContactAction(s, a, end) ==
    LET text == Span(s.mark, end)
        first == s.num["contact"] = 1
    IN CASE a = "contact_params" ->
              IF first /\ text # [params |-> <<>>]
              THEN [s EXCEPT !.parsed.contact_params = text] ELSE s
         [] a = "contact_has_reg_id_param" ->
              IF first THEN [s EXCEPT !.parsed.contact_has_reg_id = TRUE] ELSE s
         [] a = "contact_is_valid" -> [s EXCEPT !.contact_is_valid = TRUE]
         [] a = "contact_is_invalid" -> [s EXCEPT !.contact_is_valid = FALSE]

option_tag(s, a, end) ==
    LET tag == my_rb_str_downcase(Span(s.mark, end))
    IN CASE a = "require_option_tag" -> [s EXCEPT !.parsed.require = Append(@, tag)]
         [] a = "proxy_require_option_tag" -> [s EXCEPT !.parsed.proxy_require = Append(@, tag)]
         [] a = "supported_option_tag" -> [s EXCEPT !.parsed.supported = Append(@, tag)]

\* One action.
Perform(s, a, text) ==
    CASE a \in OnlyIfDoUri -> IF s.do_uri THEN SetPointer(s, a, text) ELSE s
      [] a \in Pointers \ OnlyIfDoUri -> SetPointer(s, a, text)
      [] a \in UriActions -> UriAction(s, a, text)
      [] a = "write_uri" -> write_uri(s, text)
      [] a = "do_request_uri" -> do_uri(s, "ruri")
      [] a = "do_from_uri" -> do_uri(s, "from")
      [] a = "do_to_uri" -> do_uri(s, "to")
      [] a = "do_route_uri" -> do_uri(s, "route")
      [] a = "do_contact_uri" -> do_uri(s, "contact")
      [] a \in {"init_ruri", "init_from", "init_to", "init_route", "init_route_uri",
                "init_contact", "init_via"} -> init_component(s, a)
      [] a \in HeaderActions -> HeaderAction(s, a, text)
      [] a \in StartActions -> StartAction(s, a, text)
      [] a \in ViaActions -> ViaAction(s, a, text)
      [] a \in HeaderParamActions -> HeaderParamAction(s, a, text)
      [] a \in CountActions -> CountAction(s, a)
      [] a \in SingleActions -> SingleAction(s, a, text)
      [] a \in ContactActions -> ContactAction(s, a, text)
      [] a \in {"require_option_tag", "proxy_require_option_tag", "supported_option_tag"} ->
           option_tag(s, a, text)
      [] a = "outbound_keepalive" -> [s EXCEPT !.parsed = NewMessage(a)]
      [] a = "done" -> [s EXCEPT !.cs = "first_final"]
      [] OTHER -> MethodAction(s, a)

\* sip_message_parser_execute: all the actions of a piece of text.
sip_message_parser_execute(s, actions) ==
    LET after[i \in 0..Len(actions)] ==
          IF i = 0 THEN s ELSE Perform(after[i - 1], actions[i][1], actions[i][2])
    IN after[Len(actions)]

----------------------------------------------------------------------------
(* What the connections ask a parser that has finished.                     *)

\* missing_core_header? and duplicated_core_header?
has_missing_core_header(s) ==
    \E h \in {"via", "from", "to", "cseq", "call_id"} : s.num[h] = 0

has_duplicated_core_header(s) ==
    \E h \in {"from", "to", "cseq", "call_id", "max_forwards", "content_length"} : s.num[h] > 1

\* The number of Vias is stored on the occasion of the latter.
StoreNumVias(s) == [s EXCEPT !.parsed.num_vias = s.num["via"]]

\* post_parsing: a Contact is kept only if it is the only one.
post_parsing(s) ==
    IF s.contact_is_valid /\ s.num["contact"] = 1 THEN s
    ELSE [s EXCEPT !.parsed.contact = Nil]
=============================================================================
