------------------------------ MODULE WsServer ------------------------------
(***************************************************************************)
(* The life of a WebSocket connection of OverSIP, from the TLS handshake   *)
(* over the HTTP upgrade to its end (lib/oversip/websocket/listeners/      *)
(* ws_server.rb, wss_server.rb and connection.rb).  What the frames        *)
(* contain is left to WsFraming: here a client sends an HTTP request,      *)
(* which arrives in one piece or in two, and then messages, close frames   *)
(* and frames that the framing layer refuses.                              *)
(*                                                                         *)
(* The script's callbacks on_client_tls_handshake and on_connection run in *)
(* fibers that can be suspended; data that arrive meanwhile are buffered.  *)
(* process_received_data runs to its end in the reactor or in the fiber of *)
(* on_connection: running says where.  unbind calls on_disconnection only  *)
(* `unless $!`, which is set while an exception ends the process: that end *)
(* is left out.                                                            *)
(***************************************************************************)
EXTENDS HttpRequestParser

CONSTANTS
    Requests,   \* HTTP requests, with what is wrong with them: [text, fault]
    MaxFrames   \* bound on the frames a client sends

ASSUME WsConstants ==
    /\ \A r \in Requests : r.fault \in {"none", "broken", "long"}
    /\ MaxFrames \in Nat

VARIABLES
    tls,        \* "none", or the state of on_client_tls_handshake: "before",
                \* "running", "done"
    request,    \* the HTTP request, as the client has written it
    frames,     \* the frames after it
    unsent,     \* pieces that have not arrived
    buffer,     \* pieces in @buffer
    http,       \* @http_parser, with @http_request as `parsed`
    nbytes,     \* @http_parser_nbytes, in pieces
    negotiated, \* @websocket_protocol_negotiated
    state,      \* @state
    running,    \* process_received_data runs: "no", "reactor", "fiber"
    callback,   \* on_connection: "none", "running", "done"
    local_closed, client_closed, ws_established,
    bound,      \* unbind has not been called
    replies,    \* history: HTTP replies sent
    processed,  \* history: messages given to SIP
    first,      \* history: who ended the connection, "nobody" at first
    goodbye     \* history: on_disconnection was called, and what it was told

vars == <<tls, request, frames, unsent, buffer, http, nbytes, negotiated, state, running, callback,
          local_closed, client_closed, ws_established, bound,
          replies, processed, first, goodbye>>

input == <<request, frames>>
parsing == <<http, nbytes, negotiated>>
flags == <<local_closed, client_closed, ws_established>>
history == <<replies, processed>>
final == <<bound, goodbye>>

\* A message, a close frame, or a frame that violates the protocol: this may be
\* a close frame too, one whose reason is not UTF-8.
Frames == {"message", "close", "invalid"}

Total == 2 + Len(frames)

TypeOK ==
    /\ tls \in {"none", "before", "running", "done"}
    /\ request \in Requests
    /\ frames \in Seq(Frames)
    /\ unsent \in 0..Total /\ buffer \in 0..Total
    /\ state \in {"init", "http_headers", "check_http_request",
                  "on_connection_callback", "waiting_for_on_connection",
                  "accept_ws_handshake", "websocket", "ignore",
                  "waiting_for_on_client_tls_handshake"}
    /\ running \in {"no", "reactor", "fiber"}
    /\ callback \in {"none", "running", "done"}
    /\ local_closed \in BOOLEAN /\ client_closed \in BOOLEAN
    /\ ws_established \in BOOLEAN /\ bound \in BOOLEAN
    /\ replies \in Seq({101, 400, 405, 426, 500, 501})
    /\ nbytes \in 0..2 /\ negotiated \in BOOLEAN
    /\ processed \in 0..Len(frames)
    /\ first \in {"nobody", "client", "oversip"}
    /\ goodbye \in {"none", "client", "oversip"}

Init ==
    /\ tls \in {"none", "before"}
    /\ request \in Requests
    /\ frames \in UNION {[1..n -> Frames] : n \in 0..MaxFrames}
    /\ unsent = Total /\ buffer = 0
    /\ http = ws_http_request_parser_init /\ nbytes = 0 /\ negotiated = FALSE
    /\ state = "init" /\ running = "no" /\ callback = "none"
    /\ local_closed = FALSE /\ client_closed = FALSE /\ ws_established = FALSE
    /\ bound = TRUE
    /\ replies = <<>> /\ processed = 0
    /\ first = "nobody" /\ goodbye = "none"

\* close_connection: the flag, and who was first.
Closing ==
    /\ local_closed' = TRUE
    /\ first' = IF first = "nobody" THEN "oversip" ELSE first

\* http_reject, and other refusals, which send no reply.
Refuse(reply) ==
    /\ Closing
    /\ replies' = IF reply = Nil THEN replies ELSE Append(replies, reply)
    /\ state' = "ignore"
    /\ running' = "no"
    /\ UNCHANGED <<client_closed, ws_established, processed>>

-----------------------------------------------------------------------------
(* The reactor.                                                            *)

Waiting == state \in {"waiting_for_on_client_tls_handshake", "waiting_for_on_connection"}

\* Faulty variant: data are processed while a callback decides.
ReceiveDataEager(n) ==
    /\ bound /\ running = "no" /\ n <= unsent
    /\ state # "ignore" /\ tls # "before"
    /\ unsent' = unsent - n
    /\ buffer' = buffer + n
    /\ running' = "reactor"
    /\ state' = CASE state = "waiting_for_on_client_tls_handshake" -> "init"
                  [] state = "waiting_for_on_connection" -> "accept_ws_handshake"
                  [] OTHER -> state
    /\ UNCHANGED <<tls, input, parsing, callback, flags, final, history, first>>

\* receive_data.
ReceiveData(n) ==
    /\ bound /\ running = "no" /\ n <= unsent
    /\ state # "ignore" /\ tls # "before"
    /\ unsent' = unsent - n
    /\ buffer' = buffer + n
    /\ running' = IF Waiting THEN "no" ELSE "reactor"
    /\ UNCHANGED <<tls, input, parsing, state, callback, flags, final, history, first>>

\* ssl_handshake_completed, where the configuration asks for the callback and
\* where it does not.
HandshakeCompleted ==
    /\ bound /\ running = "no"
    /\ tls = "before" /\ ~local_closed
    /\ \/ tls' = "running" /\ state' = "waiting_for_on_client_tls_handshake"
       \/ tls' = "done" /\ UNCHANGED state
    /\ UNCHANGED <<input, parsing, unsent, buffer, running, callback, flags, final, history, first>>

\* timer_tls_handshake.
HandshakeTimeout ==
    /\ bound /\ tls = "before" /\ ~local_closed
    /\ Closing
    /\ UNCHANGED <<tls, input, parsing, unsent, buffer, state, running, callback,
                   client_closed, ws_established, final, history>>

\* on_client_tls_handshake returns.
TlsCallbackEnds ==
    /\ running = "no" /\ tls = "running"
    /\ tls' = "done"
    /\ IF local_closed \/ ~bound
       THEN UNCHANGED <<state, running>>
       ELSE state' = "init" /\ running' = "reactor"
    /\ UNCHANGED <<input, parsing, unsent, buffer, callback, flags, final, history, first>>

\* on_client_tls_handshake raises.
TlsCallbackRaises ==
    /\ running = "no" /\ tls = "running"
    /\ tls' = "done"
    /\ Closing
    /\ UNCHANGED <<input, parsing, unsent, buffer, state, running, callback,
                   client_closed, ws_established, final, history>>

\* Connection#close by the script, at any time, also while it handles a message.
ScriptCloses ==
    /\ bound /\ ~local_closed
    /\ running = "no" \/ (state = "websocket" /\ processed > 0)
    /\ tls # "before"
    /\ Closing
    /\ state' = "ignore"
    /\ buffer' = IF state = "websocket" THEN 0 ELSE buffer
    /\ running' = "no"
    /\ UNCHANGED <<tls, input, parsing, unsent, callback, client_closed,
                   ws_established, final, history>>

\* unbind: the client has gone, or does not answer, or the reactor closes what
\* OverSIP has closed.  on_disconnection is told whether the client ended it.
Unbind(who) ==
    /\ bound /\ running = "no"
    /\ who = "oversip" => local_closed
    /\ bound' = FALSE
    /\ state' = "ignore"
    /\ local_closed' = ((local_closed \/ who = "timeout") /\ ~client_closed)
    /\ first' = IF first # "nobody" THEN first ELSE IF who = "client" THEN "client" ELSE "oversip"
    /\ goodbye' = IF ~ws_established THEN goodbye
                  ELSE IF local_closed' THEN "oversip" ELSE "client"
    /\ UNCHANGED <<tls, input, parsing, unsent, buffer, running, callback, client_closed,
                   ws_established, history>>

-----------------------------------------------------------------------------
(* The rounds of process_received_data.                                    *)

Round(s) == running # "no" /\ state = s

\* state init.
StartHttp ==
    /\ Round("init")
    /\ http' = ws_http_request_parser_init
    /\ nbytes' = 0
    /\ state' = "http_headers"
    /\ UNCHANGED <<tls, input, negotiated, unsent, buffer, running, callback, flags, final,
                   history, first>>

\* The actions of each of the two pieces a request may come in.
Pieces ==
    LET r == request.text
        half == Len(r.lines) \div 2
    IN <<RequestLine(r) \o Each(SubSeq(r.lines, 1, half), HeaderLine),
         Each(SubSeq(r.lines, half + 1, Len(r.lines)), HeaderLine) \o EmptyLine>>

\* @http_parser.execute on what has arrived.
ExecuteHttp(n) ==
    /\ http' = ws_http_request_parser_execute(http, FlattenSeq(SubSeq(Pieces, nbytes + 1, n)))
    /\ nbytes' = n

\* parse_http_headers. What it has read of a request that it gives up is not
\* looked at again.
ParseHttpHeaders ==
    /\ Round("http_headers")
    /\ \/ /\ buffer = 0 /\ running' = "no"
          /\ UNCHANGED <<http, nbytes, buffer, state, flags, history, first>>
       \/ /\ buffer = 1 /\ running' = "no"
          /\ ExecuteHttp(1)
          /\ UNCHANGED <<buffer, state, flags, history, first>>
       \/ /\ buffer >= 2 /\ request.fault # "none"
          /\ Refuse(Nil)
          /\ UNCHANGED <<http, nbytes, buffer>>
       \/ /\ buffer >= 2 /\ request.fault = "none"
          /\ ExecuteHttp(2)
          /\ buffer' = buffer - 2
          /\ state' = "check_http_request"
          /\ UNCHANGED <<running, flags, history, first>>
    /\ UNCHANGED <<tls, input, negotiated, unsent, callback, final>>

WS_VERSIONS == {7, 8, 13}
Word(text) == [text |-> text, marks |-> {}]
WS_SIP_PROTOCOL == Word("sip")

\* The status that check_http_request rejects a request with, if it does.
Rejection(o) ==
    IF o.http_method # "GET" THEN 405
    ELSE IF o.hdr_sec_websocket_version \notin WS_VERSIONS THEN 426
    ELSE IF \/ Word("upgrade") \notin ToSet(o.hdr_connection)
            \/ o.hdr_upgrade # Word("websocket")
            \/ o.hdr_sec_websocket_key = Nil THEN 400
    ELSE IF /\ o.hdr_sec_websocket_protocol # <<>>
            /\ WS_SIP_PROTOCOL \notin ToSet(o.hdr_sec_websocket_protocol) THEN 501
    ELSE Nil

\* check_http_request; OverSIP itself may be loading or terminating.
CheckHttpRequest ==
    LET status == Rejection(http.parsed)
    IN /\ Round("check_http_request")
       /\ \/ Refuse(500) /\ UNCHANGED negotiated
          \/ status # Nil /\ Refuse(status) /\ UNCHANGED negotiated
          \/ /\ status = Nil
             /\ negotiated' = (http.parsed.hdr_sec_websocket_protocol # <<>>)
             /\ state' = "on_connection_callback"
             /\ UNCHANGED <<running, flags, history, first>>
       /\ UNCHANGED <<tls, input, http, nbytes, unsent, buffer, callback, final>>

\* do_on_connection_callback, up to the script's callback.
OnConnection ==
    /\ Round("on_connection_callback")
    /\ state' = "waiting_for_on_connection"
    /\ callback' = "running"
    /\ running' = "no"
    /\ UNCHANGED <<tls, input, parsing, unsent, buffer, flags, final, history, first>>

\* on_connection returns: unless the connection has been closed the fiber goes
\* on with what has arrived meanwhile.
OnConnectionEnds ==
    /\ running = "no" /\ callback = "running"
    /\ callback' = "done"
    /\ IF local_closed \/ ~bound
       THEN UNCHANGED <<state, running>>
       ELSE state' = "accept_ws_handshake" /\ running' = "fiber"
    /\ UNCHANGED <<tls, input, parsing, unsent, buffer, flags, final, history, first>>

\* on_connection raises, or the script rejects the client in it.
OnConnectionRejects ==
    /\ running = "no" /\ callback = "running"
    /\ callback' = "done"
    /\ Refuse(500)
    /\ UNCHANGED <<tls, input, parsing, unsent, buffer, final>>

\* accept_ws_handshake.
AcceptWsHandshake ==
    /\ Round("accept_ws_handshake")
    /\ replies' = Append(replies, 101)
    /\ state' = "websocket"
    /\ UNCHANGED <<tls, input, parsing, unsent, buffer, running, callback, flags, final,
                   processed, first>>

\* Faulty variant: the connection counts as established with its first frame.
WebSocketRoundLate ==
    /\ Round("websocket")
    /\ buffer = 0
    /\ running' = "no"
    /\ UNCHANGED <<tls, input, parsing, unsent, buffer, state, callback, flags, final, history, first>>

\* state websocket: the loop of the framing layer ends.
WebSocketRound ==
    /\ Round("websocket")
    /\ buffer = 0
    /\ ws_established' = TRUE
    /\ running' = "no"
    /\ UNCHANGED <<tls, input, parsing, unsent, buffer, state, callback, local_closed,
                   client_closed, final, history, first>>

\* The frame the client has sent next.
NextFrame == frames[Len(frames) - unsent - buffer + 1]

\* state websocket: a message.
ReceiveMessage ==
    /\ Round("websocket")
    /\ buffer > 0 /\ NextFrame = "message"
    /\ ws_established' = TRUE
    /\ buffer' = buffer - 1
    /\ processed' = processed + 1
    /\ UNCHANGED <<tls, input, parsing, unsent, state, running, callback, local_closed,
                   client_closed, final, replies, first>>

\* The processing of a message raises.  In the fiber of on_connection the
\* exception is taken for one of the callback.
MessageRaises ==
    /\ Round("websocket")
    /\ buffer > 0 /\ NextFrame = "message"
    /\ ws_established' = TRUE
    /\ buffer' = buffer - 1
    /\ processed' = processed + 1
    /\ running' = "no"
    /\ IF running = "fiber"
       THEN /\ Closing
            /\ replies' = Append(replies, 500)
            /\ state' = "ignore"
       ELSE UNCHANGED <<local_closed, first, replies, state>>
    /\ UNCHANGED <<tls, input, parsing, unsent, callback, client_closed, final>>

\* state websocket: a close frame.
ReceiveClose ==
    /\ Round("websocket")
    /\ buffer > 0 /\ NextFrame = "close"
    /\ ws_established' = TRUE
    /\ client_closed' = TRUE
    /\ local_closed' = TRUE
    /\ first' = IF first = "nobody" THEN "client" ELSE first
    /\ buffer' = 0
    /\ state' = "ignore"
    /\ running' = "no"
    /\ UNCHANGED <<tls, input, parsing, unsent, callback, final, history>>

\* state websocket: Connection#close with a status, of a frame that violates
\* the protocol.  It leaves @client_closed alone.
RefuseFrame ==
    /\ Round("websocket")
    /\ buffer > 0 /\ NextFrame = "invalid"
    /\ ws_established' = TRUE
    /\ Closing
    /\ buffer' = 0
    /\ state' = "ignore"
    /\ running' = "no"
    /\ UNCHANGED <<tls, input, parsing, unsent, callback, client_closed, final, history>>

-----------------------------------------------------------------------------
Rounds ==
    \/ StartHttp \/ ParseHttpHeaders \/ CheckHttpRequest \/ OnConnection
    \/ AcceptWsHandshake \/ WebSocketRound \/ ReceiveMessage \/ MessageRaises \/ ReceiveClose
    \/ RefuseFrame

Callbacks ==
    \/ TlsCallbackEnds \/ TlsCallbackRaises
    \/ OnConnectionEnds \/ OnConnectionRejects

Next ==
    \/ Rounds \/ Callbacks
    \/ \E n \in 1..unsent : ReceiveData(n)
    \/ HandshakeCompleted \/ HandshakeTimeout \/ ScriptCloses
    \/ \E who \in {"client", "oversip", "timeout"} : Unbind(who)

\* The loop runs, the network delivers, the handshake gets done or times out,
\* the callbacks return, and a closed connection is unbound.
Fairness ==
    /\ WF_vars(Rounds)
    /\ WF_vars(\E n \in 1..unsent : ReceiveData(n))
    /\ WF_vars(HandshakeCompleted \/ HandshakeTimeout)
    /\ WF_vars(Callbacks)
    /\ WF_vars(Unbind("oversip"))

Spec == Init /\ [][Next]_vars /\ Fairness

-----------------------------------------------------------------------------
(* Properties.                                                             *)

Upgraded == \E i \in 1..Len(replies) : replies[i] = 101

\* A message reaches SIP only after the script has let the client in at every
\* step: the TLS callback and on_connection have returned.
NotBeforeApproval ==
    processed > 0 => (tls \in {"none", "done"} /\ callback = "done" /\ Upgraded)

\* on_disconnection is called for exactly the connections that were upgraded,
\* however soon after the upgrade they end, and it tells the script truly who
\* ended the connection, also when both sides close it at about the same time.
\* Where OverSIP refuses a frame it is OverSIP that ends the connection, even if
\* the frame was a close frame, with a reason that is not UTF-8.
\* In particular a client that went while on_connection was suspended gets no
\* upgrade.
Goodbye ==
    ~bound => goodbye = IF Upgraded THEN first ELSE "none"

\* What the client has written, read without a parser.
Named(name) == {i \in DOMAIN request.text.lines : request.text.lines[i].name.text = name}
AllOf(name) ==
    LET lines == SelectSeq(request.text.lines, LAMBDA l : l.name.text = name)
    IN [i \in DOMAIN lines |-> lines[i].values]
LastOf(name) == IF Named(name) = {} THEN <<Nil, Nil>> ELSE Last(AllOf(name))
Offered == ToSet(FlattenSeq(AllOf("Sec-Websocket-Protocol")))

\* The part of an opening handshake (RFC 6455, 4.2.1) that OverSIP insists on,
\* for the versions that it speaks: names of headers and most values without
\* regard to capitals.  4.2.1 requires more, which check_http_request never
\* looks at: a Host header, HTTP/1.1 or higher, and a key of 16 octets.
CheckedHandshake ==
    /\ request.text.method.text = "GET"
    /\ \E version \in WS_VERSIONS : LastOf("Sec-Websocket-Version")[1] # Nil
                                    /\ Numeral(LastOf("Sec-Websocket-Version")[1].digits, 10) = version
    /\ \E t \in ToSet(FlattenSeq(AllOf("Connection"))) : t.text = "upgrade"
    /\ LastOf("Upgrade")[1] # Nil /\ LastOf("Upgrade")[1].text = "websocket"
    /\ Named("Sec-Websocket-Key") # {}
    /\ Offered = {} \/ WS_SIP_PROTOCOL \in Offered

\* A client is upgraded only if its request has the checked part of an opening
\* handshake, is told that SIP is spoken only if it offered SIP, and is not
\* refused for its request otherwise, not even if this has no Host header or is
\* of HTTP/1.0; and the script is given every header as it was written.  This
\* holds also for requests that repeat a header, and for those that arrive in
\* two pieces.
UpgradeAsAsked ==
    /\ Upgraded => CheckedHandshake /\ (negotiated <=> WS_SIP_PROTOCOL \in Offered)
    /\ CheckedHandshake => \A i \in DOMAIN replies : replies[i] \in {101, 500}
    /\ callback # "none" =>
         LET o == http.parsed
             host == LastOf("Host")[1]
         IN /\ o.headers = [n \in {l.name.text : l \in ToSet(request.text.lines)} |-> AllOf(n)]
            /\ [path |-> o.uri_path, query |-> o.uri_query, fragment |-> o.uri_fragment] = o.uri
            /\ o.uri = request.text.uri
            /\ o.host = IF host = Nil THEN Nil ELSE Word(host.text)

-----------------------------------------------------------------------------
(* The inductive invariant of NotBeforeApproval and Goodbye.               *)

\* Pieces are neither lost nor made up, and once the HTTP request is read only
\* frames are left.
Pieced ==
    /\ unsent + buffer <= Total
    /\ state \in {"check_http_request", "on_connection_callback", "waiting_for_on_connection",
                  "accept_ws_handshake", "websocket"} =>
           unsent + buffer + processed <= Len(frames)

\* The connection goes through its phases in their order: while a callback
\* decides, the loop rests; before on_connection has returned there is no
\* upgrade, and no message.
Phases ==
    /\ tls = "before" => state \in {"init", "ignore"}
    /\ tls = "running" => state \in {"waiting_for_on_client_tls_handshake", "ignore"}
    /\ tls \in {"before", "running"} => running = "no" /\ callback = "none"
    /\ state \in {"init", "http_headers", "check_http_request", "on_connection_callback",
                  "waiting_for_on_client_tls_handshake"} => callback = "none"
    /\ callback = "running" => running = "no" /\ state \in {"waiting_for_on_connection", "ignore"}
    /\ state \in {"accept_ws_handshake", "websocket"} => callback = "done"
    /\ callback # "done" => ~Upgraded /\ processed = 0
    /\ state = "websocket" => Upgraded

\* @ws_established lags behind the upgrade by no more than a round of the loop.
Established ==
    /\ ws_established => Upgraded
    /\ Upgraded => ws_established \/ (running # "no" /\ state = "websocket")
    /\ processed > 0 => ws_established

\* The flags tell who was first, and what OverSIP has closed stays at rest.
Endings ==
    /\ bound => /\ goodbye = "none"
                /\ first = "nobody" <=> ~local_closed
                /\ first = "client" <=> client_closed
                /\ state = "ignore" => local_closed
    /\ bound /\ local_closed =>
           /\ running = "no"
           /\ tls = "before" \/ state \in {"ignore", "waiting_for_on_client_tls_handshake"}
    /\ ~bound => running = "no" /\ first # "nobody"

IInv ==
    /\ TypeOK
    /\ Pieced
    /\ Phases
    /\ Established
    /\ Endings
    /\ Goodbye
=============================================================================
