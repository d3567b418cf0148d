------------------------- MODULE HttpRequestParser -------------------------
(***************************************************************************)
(* The parser of the HTTP request that opens a WebSocket connection: the    *)
(* grammar that ws_http_parser.c has compiled, its actions, and the         *)
(* functions of ws_http_parser_ruby.c that fill the HttpRequest (`parsed`). *)
(*                                                                          *)
(* A request is [method, uri, version, lines], a URI [path, query,          *)
(* fragment], a line [name, values].                                        *)
(***************************************************************************)
EXTENDS ParserText

----------------------------------------------------------------------------
(* The grammar: which actions a text executes, in which order.              *)

Methods == {"GET", "POST", "OPTIONS"}

\* A method that is known is also a token.
Method(m) ==
    On("mark", m) \o (IF m.text \in Methods THEN Act("method_" \o m.text) ELSE <<>>)
    \o Act("method_unknown") \o On("req_method", m)

RequestUri(u) ==
    On("mark", u) \o On("request_path", u)
    \o Optional(u.query, On("start_query", u.query) \o On("query", u.query))
    \o Optional(u.fragment, On("start_fragment", u.fragment) \o On("fragment", u.fragment))
    \o On("request_uri", u)

RequestLine(r) == Method(r.method) \o RequestUri(r.uri) \o Marked(r.version, "http_version")

\* The actions on the values of the headers that the parser knows.
ContentLength(v) == Marked(v[1], "content_length")
Host(v) == Marked(v[1], "host") \o Optional(v[2], Marked(v[2], "port"))
Connection(v) == LET Value(t) == Marked(t, "hdr_connection_value") IN Each(v, Value)
Upgrade(v) == Marked(v[1], "hdr_upgrade")
Origin(v) == Marked(v[1], "hdr_origin")
Sec_WebSocket_Version(v) == Marked(v[1], "hdr_sec_websocket_version")
Sec_WebSocket_Key(v) == Marked(v[1], "hdr_sec_websocket_key")
Sec_WebSocket_Protocol(v) ==
    LET Value(t) == Marked(t, "hdr_sec_websocket_protocol_value") IN Each(v, Value)

HeaderValue(name, v) ==
    CASE name = "Content-Length" -> ContentLength(v)
      [] name = "Host" -> Host(v)
      [] name = "Connection" -> Connection(v)
      [] name = "Upgrade" -> Upgrade(v)
      [] name \in {"Origin", "Sec-Websocket-Origin"} -> Origin(v)
      [] name = "Sec-Websocket-Version" -> Sec_WebSocket_Version(v)
      [] name = "Sec-Websocket-Key" -> Sec_WebSocket_Key(v)
      [] name = "Sec-Websocket-Protocol" -> Sec_WebSocket_Protocol(v)
      [] OTHER -> <<>>

\* A header line. The header before it is written first.
HeaderLine(l) ==
    Act("write_hdr_value") \o On("start_hdr_field", l.name) \o On("write_hdr_field", l.name)
    \o On("start_hdr_value", l.values) \o HeaderValue(l.name.text, l.values)
    \o On("store_hdr_value", l.values)

EmptyLine == Act("write_hdr_value") \o Act("done")

----------------------------------------------------------------------------
(* The struct and the object.                                               *)

\* HttpRequest.new.
NewHttpRequest ==
    [headers |-> <<>>, http_method |-> Nil, is_unknown_method |-> FALSE, http_version |-> Nil,
     uri |-> Nil, uri_path |-> Nil, uri_query |-> Nil, uri_fragment |-> Nil,
     host |-> Nil, port |-> Nil, content_length |-> Nil, hdr_connection |-> <<>>,
     hdr_upgrade |-> Nil, hdr_origin |-> Nil, hdr_sec_websocket_version |-> Nil,
     hdr_sec_websocket_key |-> Nil, hdr_sec_websocket_protocol |-> <<>>]

\* HttpRequestParser.new.
ws_http_request_parser_init ==
    [cs |-> "start", mark |-> Nil, hdr_field_start |-> Nil, hdr_field_len |-> Nil,
     hdr_value_start |-> Nil, hdr_value_len |-> Nil, query_start |-> Nil,
     fragment_start |-> Nil, method |-> Nil, parsed |-> NewHttpRequest]

\* A name in the usual capitals, in which the texts of names are spelled.
headerize(name) == name.text

\* Faulty variant: the last header with a name replaces those before it.
header_last(s) ==
    LET f == headerize(Span(s.hdr_field_start, s.hdr_field_len))
        v == Span(s.hdr_value_start, s.hdr_value_len)
    IN IF s.hdr_value_start = Nil THEN s ELSE [s EXCEPT !.parsed.headers = (f :> <<v>>) @@ @]

\* write_hdr_value.
header(s) ==
    LET f == headerize(Span(s.hdr_field_start, s.hdr_field_len))
        v == Span(s.hdr_value_start, s.hdr_value_len)
        h == s.parsed.headers
    IN IF s.hdr_value_start = Nil THEN s
       ELSE [s EXCEPT !.parsed.headers =
               (f :> (IF f \in DOMAIN h THEN Append(h[f], v) ELSE <<v>>)) @@ @]

method_unknown(s) == IF s.method = Nil THEN [s EXCEPT !.method = "unknown"] ELSE s

\* A method that is known is a symbol. For another the code sets a variable
\* that is not the @is_unknown_method which HttpRequest reads (its name lacks
\* the @).
req_method(o, method, text) ==
    IF method = "unknown" THEN [o EXCEPT !.http_method = text.text, !.is_unknown_method = TRUE]
    ELSE [o EXCEPT !.http_method = method]

\* A domain loses its final dot.
req_host(o, text) == [o EXCEPT !.host = my_rb_str_downcase(Without(text, {"dot"}))]

\* The lists of values; an empty one is nil.
req_hdr_connection_value(o, text) ==
    [o EXCEPT !.hdr_connection = Append(@, my_rb_str_downcase(text))]

req_hdr_sec_websocket_protocol_value(o, text) ==
    [o EXCEPT !.hdr_sec_websocket_protocol = Append(@, text)]

\* The actions that set a part of the request, at the end of a text that began
\* at the mark. A header that comes twice leaves the later value.
SetPart(o, s, a, text) ==
    CASE a = "req_method" -> req_method(o, s.method, text)
      [] a = "request_uri" -> [o EXCEPT !.uri = text]
      [] a = "request_path" -> [o EXCEPT !.uri_path = text.path]
      [] a = "http_version" -> [o EXCEPT !.http_version = text]
      [] a = "host" -> req_host(o, text)
      [] a = "port" -> [o EXCEPT !.port = str_to_int(text)]
      [] a = "content_length" -> [o EXCEPT !.content_length = strtol(text)]
      [] a = "hdr_connection_value" -> req_hdr_connection_value(o, text)
      [] a = "hdr_upgrade" -> [o EXCEPT !.hdr_upgrade = my_rb_str_downcase(text)]
      [] a = "hdr_origin" -> [o EXCEPT !.hdr_origin = my_rb_str_downcase(text)]
      [] a = "hdr_sec_websocket_version" ->
           [o EXCEPT !.hdr_sec_websocket_version = str_to_int(text)]
      [] a = "hdr_sec_websocket_key" -> [o EXCEPT !.hdr_sec_websocket_key = text]
      [] a = "hdr_sec_websocket_protocol_value" -> req_hdr_sec_websocket_protocol_value(o, text)

Perform(s, a, text) ==
    CASE a = "mark" -> [s EXCEPT !.mark = text]
      [] a = "start_hdr_field" -> [s EXCEPT !.hdr_field_start = text]
      [] a = "write_hdr_field" -> [s EXCEPT !.hdr_field_len = text]
      [] a = "start_hdr_value" -> [s EXCEPT !.hdr_value_start = text]
      [] a = "store_hdr_value" -> [s EXCEPT !.hdr_value_len = text]
      [] a = "write_hdr_value" -> header(s)
      [] a = "method_unknown" -> method_unknown(s)
      [] a \in {"method_" \o m : m \in Methods} ->
           [s EXCEPT !.method = CHOOSE m \in Methods : a = "method_" \o m]
      [] a = "start_query" -> [s EXCEPT !.query_start = text]
      [] a = "query" -> [s EXCEPT !.parsed.uri_query = Span(s.query_start, text)]
      [] a = "start_fragment" -> [s EXCEPT !.fragment_start = text]
      [] a = "fragment" -> [s EXCEPT !.parsed.uri_fragment = Span(s.fragment_start, text)]
      [] a = "done" -> [s EXCEPT !.cs = "first_final"]
      [] OTHER -> [s EXCEPT !.parsed = SetPart(@, s, a, Span(s.mark, text))]

\* ws_http_request_parser_execute: the actions of a piece of text.
ws_http_request_parser_execute(s, actions) ==
    FoldLeft(LAMBDA state, action : Perform(state, action[1], action[2]), s, actions)
=============================================================================
