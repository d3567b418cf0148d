--------------------------- MODULE TcpConnection ---------------------------
(***************************************************************************)
(* One SIP connection over TCP or TLS, or through the TLS tunnel: the      *)
(* receiving side of lib/oversip/sip/listeners/tcp_connection.rb, with     *)
(* tls_server.rb, tls_tunnel_connection.rb and the part of                 *)
(* message_processor.rb that hands a request to the script.                *)
(*                                                                         *)
(* The peer's byte stream is a sequence of messages, of which only the     *)
(* sizes of headers and body matter; the network cuts it anywhere.         *)
(* receive_data runs its loop to the end before the reactor does anything  *)
(* else: busy says who runs the loop, and each of its rounds is one        *)
(* action.  The script's callbacks run in fibers, which can be suspended   *)
(* and end at any later moment.                                            *)
(***************************************************************************)
EXTENDS Integers, Sequences, FiniteSets, Totals

CONSTANTS
    HEADERS_MAX_SIZE,   \* largest headers, in units of the model
    Streams,            \* what peers may send: sequences of messages
    Transports          \* subset of "tcp", "tls", "tls_callback", "tunnel"

\* A "branchless" request has no Via branch and needs a Via received parameter:
\* it has an rport parameter, or its sent-by is not where it comes from.
Kinds == {"request", "cancel", "response", "keepalive", "haproxy",
          "broken", "refused", "branchless"}

\* What the script and the transactions must never see.
Unusable == {"broken", "refused", "branchless"}

Message == [kind: Kinds, hdr: Nat \ {0}, body: Nat]

ASSUME ConnectionConstants ==
    /\ HEADERS_MAX_SIZE \in Nat
    /\ Streams \subseteq Seq(Message)
    /\ Transports \subseteq {"tcp", "tls", "tls_callback", "tunnel"}

Size(m) == m.hdr + m.body

\* The units of a stream.
Units(s) == Total([i \in 1..Len(s) |-> Size(s[i])], 1..Len(s))

VARIABLES
    transport,  \* the kind of connection
    stream,     \* what the peer sends
    unsent,     \* units that have not arrived yet
    buffer,     \* @buffer.size
    taken,      \* units of the current message read from the buffer
    nbytes,     \* @parser_nbytes
    pos,        \* index of the message the connection is at
    msg,        \* index of the message in @msg, 0 for nil
    state,      \* @state
    busy,       \* who runs process_received_data: "no", "reactor", "fiber"
    closed,     \* who closed the connection: "no", "oversip", "script"
    bound,      \* unbind has not been called
    fiber,      \* on_client_tls_handshake: "none", "running", "done"
    handled,    \* history: the messages processed, in order
    raised      \* history: messages whose processing raised an exception

vars == <<transport, stream, unsent, buffer, taken, nbytes, pos, msg, state,
          busy, closed, bound, fiber, handled, raised>>

input == <<transport, stream>>
parsing == <<taken, nbytes, pos, msg>>
history == <<handled, raised>>

Positions == 0..(Len(stream) + 1)

TypeOK ==
    /\ transport \in Transports
    /\ stream \in Streams
    /\ unsent \in Nat /\ buffer \in Nat /\ taken \in Nat /\ nbytes \in Nat
    /\ pos \in Positions \ {0} /\ msg \in Positions
    /\ state \in {"init", "haproxy_protocol", "headers", "body", "finished",
                  "ignore", "waiting_for_on_client_tls_handshake"}
    /\ busy \in {"no", "reactor", "fiber"} /\ bound \in BOOLEAN
    /\ closed \in {"no", "oversip", "script"}
    /\ fiber \in {"none", "running", "done"}
    /\ handled \in Seq(Positions)
    /\ raised \subseteq Positions

Init ==
    /\ transport \in Transports
    /\ stream \in Streams
    /\ transport = "tunnel" <=> (stream # <<>> /\ stream[1].kind = "haproxy")
    /\ unsent = Units(stream)
    /\ buffer = 0 /\ taken = 0 /\ nbytes = 0
    /\ pos = 1 /\ msg = 0
    /\ state = "init" /\ busy = "no"
    /\ closed = "no" /\ bound = TRUE
    /\ fiber = "none"
    /\ handled = <<>> /\ raised = {}

\* close_connection, close_connection_after_writing.
Close(who) == closed' = IF closed = "no" THEN who ELSE closed

\* An exception leaves the loop.  EM.error_handler takes it, and the connection
\* stays as it is; in the fiber of the TLS callback it is rescued there, and
\* the connection closed.
Raise ==
    /\ busy' = "no"
    /\ IF busy = "fiber" THEN Close("oversip") ELSE UNCHANGED closed

\* The message is given up: the connection closes and ignores what follows.
Refuse ==
    /\ Close("oversip")
    /\ state' = "ignore"
    /\ busy' = "no"
    /\ UNCHANGED <<taken, pos, msg, buffer, history>>

-----------------------------------------------------------------------------
(* Data, the TLS handshake and the end of the connection.                  *)

\* receive_data: n more units.  What arrives in state ignore is dropped.
ReceiveData(n) ==
    /\ bound /\ busy = "no" /\ n <= unsent
    /\ state # "ignore"
    /\ transport = "tls_callback" => fiber # "none"
    /\ unsent' = unsent - n
    /\ buffer' = buffer + n
    /\ busy' = IF state = "waiting_for_on_client_tls_handshake" THEN "no" ELSE "reactor"
    /\ UNCHANGED <<input, parsing, state, closed, bound, fiber, history>>

\* ssl_handshake_completed, with the callback enabled.  Without it the
\* connection goes on as a TCP one.
HandshakeCompleted ==
    /\ bound /\ busy = "no"
    /\ transport = "tls_callback" /\ fiber = "none"
    /\ closed = "no"
    /\ fiber' = "running"
    /\ state' = "waiting_for_on_client_tls_handshake"
    /\ UNCHANGED <<input, unsent, buffer, parsing, busy, closed, bound, history>>

\* timer_tls_handshake.
HandshakeTimeout ==
    /\ bound /\ busy = "no"
    /\ transport = "tls_callback" /\ fiber = "none"
    /\ closed = "no"
    /\ Close("oversip")
    /\ UNCHANGED <<input, unsent, buffer, parsing, state, busy, bound, fiber, history>>

\* on_client_tls_handshake returns: if the connection is still there, what
\* has arrived meanwhile is processed.
TlsCallbackEnds ==
    /\ busy = "no" /\ fiber = "running"
    /\ fiber' = "done"
    /\ IF closed = "no" /\ bound
       THEN state' = "init" /\ busy' = "fiber"
       ELSE UNCHANGED <<state, busy>>
    /\ UNCHANGED <<input, unsent, buffer, parsing, closed, bound, history>>

\* on_client_tls_handshake raises.
TlsCallbackRaises ==
    /\ busy = "no" /\ fiber = "running"
    /\ fiber' = "done"
    /\ Close("oversip")
    /\ UNCHANGED <<input, unsent, buffer, parsing, state, busy, bound, history>>

\* The script closes the connection, in a fiber that was suspended.
ScriptCloses ==
    /\ bound /\ busy = "no"
    /\ closed = "no"
    /\ Close("script")
    /\ UNCHANGED <<input, unsent, buffer, parsing, state, busy, bound, fiber, history>>

\* unbind.
Unbind ==
    /\ bound /\ busy = "no"
    /\ bound' = FALSE
    /\ state' = "ignore"
    /\ UNCHANGED <<input, unsent, buffer, parsing, busy, closed, fiber, history>>

-----------------------------------------------------------------------------
(* The rounds of process_received_data.                                    *)

\* state init.
StartMessage ==
    /\ busy # "no" /\ state = "init"
    /\ nbytes' = 0
    /\ state' = IF transport = "tunnel" /\ pos = 1 THEN "haproxy_protocol" ELSE "headers"
    /\ UNCHANGED <<input, unsent, buffer, taken, pos, msg, busy, closed, bound, fiber, history>>

\* parse_haproxy_protocol: the line is there as a whole, or it is an error.
ParseHaproxyProtocol ==
    /\ busy # "no" /\ state = "haproxy_protocol"
    /\ IF buffer >= stream[pos].hdr
       THEN /\ buffer' = buffer - stream[pos].hdr
            /\ pos' = pos + 1
            /\ handled' = Append(handled, pos)
            /\ state' = "headers"
            /\ UNCHANGED <<taken, msg, busy, closed, raised>>
       ELSE Refuse
    /\ UNCHANGED <<input, unsent, nbytes, bound, fiber>>

\* The parser has come to the end of the message in @msg and was not reset.
ParserFinished == state = "headers" /\ msg = pos

\* parse_headers gives the parser what is in the buffer.
Parsing ==
    /\ busy # "no" /\ state = "headers" /\ ~ParserFinished
    /\ buffer > 0 /\ pos \in DOMAIN stream

\* What the parser makes of the buffer: it stops at the end of the headers.
Parsed == IF buffer < stream[pos].hdr THEN buffer ELSE stream[pos].hdr

\* parse_headers leaves the loop: nothing there, or not all of the headers.
AwaitHeaders ==
    /\ busy # "no" /\ state = "headers"
    /\ \/ buffer = 0 /\ UNCHANGED nbytes
       \/ /\ Parsing
          /\ buffer < stream[pos].hdr
          /\ buffer <= HEADERS_MAX_SIZE
          /\ nbytes' = buffer
    /\ busy' = "no"
    /\ UNCHANGED <<input, unsent, buffer, taken, pos, msg, state, closed, bound, fiber, history>>

\* Faulty variant: the connection is closed but its state is kept.
RefuseMessageKeepState ==
    /\ Parsing
    /\ \/ Parsed > HEADERS_MAX_SIZE
       \/ Parsed = stream[pos].hdr /\ stream[pos].kind \in {"broken", "refused"}
    /\ Close("oversip")
    /\ IF Parsed = stream[pos].hdr
       THEN /\ state' = "init" /\ busy' = "reactor" /\ pos' = pos + 1
            /\ buffer' = buffer - Parsed
       ELSE busy' = "no" /\ UNCHANGED <<state, pos, buffer>>
    /\ nbytes' = Parsed
    /\ UNCHANGED <<input, unsent, taken, msg, bound, fiber, history>>

\* parse_headers gives up: a parsing error, headers that are too long, or a
\* message without a core header, an RFC 3261 branch or a Content-Length.
RefuseMessage ==
    /\ Parsing
    /\ \/ Parsed > HEADERS_MAX_SIZE
       \/ Parsed = stream[pos].hdr /\ stream[pos].kind \in {"broken", "refused"}
    /\ Refuse
    /\ nbytes' = Parsed
    /\ UNCHANGED <<input, unsent, bound, fiber>>

\* add_via_received_rport raises before check_via_branch is asked.  The headers
\* are read from the buffer, and neither the state nor the parser is reset.
ViaRaises ==
    /\ Parsing
    /\ Parsed = stream[pos].hdr /\ Parsed <= HEADERS_MAX_SIZE
    /\ stream[pos].kind = "branchless"
    /\ nbytes' = Parsed
    /\ buffer' = buffer - Parsed
    /\ taken' = Parsed
    /\ msg' = pos
    /\ raised' = raised \cup {pos}
    /\ Raise
    /\ UNCHANGED <<input, unsent, pos, state, bound, fiber, handled>>

\* The next data after that.  A finished parser cannot go on: it raises until
\* the buffer reaches beyond the octets it has read, which is an error then.
ExecuteAgain ==
    /\ busy # "no" /\ ParserFinished /\ buffer > 0
    /\ IF buffer <= nbytes
       THEN Raise /\ UNCHANGED <<taken, pos, msg, state, buffer, history>>
       ELSE Refuse
    /\ UNCHANGED <<input, unsent, nbytes, bound, fiber>>

\* parse_headers has the whole headers of a usable message.
HeadersDone ==
    /\ Parsing
    /\ Parsed = stream[pos].hdr /\ Parsed <= HEADERS_MAX_SIZE
    /\ stream[pos].kind \notin Unusable
    /\ nbytes' = Parsed
    /\ buffer' = buffer - Parsed
    /\ IF stream[pos].kind = "keepalive"
       THEN /\ state' = "init"
            /\ pos' = pos + 1
            /\ handled' = Append(handled, pos)
            /\ msg' = 0
            /\ UNCHANGED taken
       ELSE /\ state' = IF stream[pos].body > 0 THEN "body" ELSE "finished"
            /\ taken' = Parsed
            /\ msg' = pos
            /\ UNCHANGED <<pos, handled>>
    /\ UNCHANGED <<input, unsent, busy, closed, bound, fiber, raised>>

\* get_body.
GetBody ==
    /\ busy # "no" /\ state = "body"
    /\ IF buffer < stream[pos].body
       THEN busy' = "no" /\ UNCHANGED <<buffer, taken, state>>
       ELSE /\ buffer' = buffer - stream[pos].body
            /\ taken' = taken + stream[pos].body
            /\ state' = "finished"
            /\ UNCHANGED busy
    /\ UNCHANGED <<input, unsent, nbytes, pos, msg, closed, bound, fiber, history>>

\* Faulty variant: the loop ends after a message, as it does for UDP.
ProcessOnce ==
    /\ busy # "no" /\ state = "finished"
    /\ handled' = Append(handled, msg)
    /\ \/ UNCHANGED closed
       \/ stream[msg].kind = "request" /\ Close("script")
    /\ state' = "init"
    /\ pos' = pos + 1
    /\ taken' = taken - Size(stream[pos])
    /\ busy' = "no"
    /\ UNCHANGED <<input, unsent, buffer, nbytes, msg, bound, fiber, raised>>

\* process_request or process_response, and back to init.  A request that no
\* transaction takes is given to the script, which may close the connection, at
\* once or, when its fiber is suspended, later on: see ScriptCloses.
Process ==
    /\ busy # "no" /\ state = "finished"
    /\ handled' = Append(handled, msg)
    /\ \/ UNCHANGED closed
       \/ stream[msg].kind = "request" /\ Close("script")
    /\ state' = "init"
    /\ pos' = pos + 1
    /\ taken' = taken - Size(stream[pos])
    /\ UNCHANGED <<input, unsent, buffer, nbytes, msg, busy, bound, fiber, raised>>

\* receive_cancel of the proxy raises while it has no client transaction yet,
\* and so does a 503 response whose next target cannot be used.  The state
\* stays finished.
ProcessRaises ==
    /\ busy # "no" /\ state = "finished"
    /\ stream[msg].kind \in {"cancel", "response"}
    /\ handled' = Append(handled, msg)
    /\ raised' = raised \cup {msg}
    /\ Raise
    /\ UNCHANGED <<input, unsent, buffer, parsing, state, bound, fiber>>

-----------------------------------------------------------------------------
Rounds ==
    \/ StartMessage \/ ParseHaproxyProtocol
    \/ AwaitHeaders \/ RefuseMessage \/ ViaRaises \/ ExecuteAgain \/ HeadersDone
    \/ GetBody \/ Process \/ ProcessRaises

Next ==
    \/ Rounds
    \/ \E n \in 1..unsent : ReceiveData(n)
    \/ HandshakeCompleted \/ HandshakeTimeout
    \/ TlsCallbackEnds \/ TlsCallbackRaises
    \/ ScriptCloses \/ Unbind

\* The loop runs, the network delivers, the handshake gets done or times out,
\* and the callback on_client_tls_handshake returns.
Fairness ==
    /\ WF_vars(Rounds)
    /\ WF_vars(\E n \in 1..unsent : ReceiveData(n))
    /\ WF_vars(HandshakeCompleted \/ HandshakeTimeout)
    /\ WF_vars(TlsCallbackEnds \/ TlsCallbackRaises)

Spec == Init /\ [][Next]_vars /\ Fairness

-----------------------------------------------------------------------------
(* Properties.                                                             *)

\* Messages are processed in the order of the stream, without a gap, and one
\* only twice after its processing raised; nothing is processed that is
\* malformed, has no branch, whose headers are too long, or that follows such a
\* message, and nothing before the script has let a TLS client in, whatever has
\* arrived while it was asked.
InOrder ==
    /\ (transport = "tls_callback" /\ fiber # "done") => handled = <<>>
    /\ Len(handled) > 0 => handled[1] = 1
    /\ \A i \in 1..(Len(handled) - 1) :
         \/ handled[i + 1] = handled[i] + 1
         \/ handled[i + 1] = handled[i] /\ handled[i] \in raised
    /\ \A i \in 1..Len(handled) :
         /\ stream[handled[i]].kind \notin Unusable
         /\ stream[handled[i]].kind # "haproxy" =>
                stream[handled[i]].hdr <= HEADERS_MAX_SIZE

\* A message that has arrived as a whole is never left waiting for data that
\* follow it, with one exception: an exception raised while the connection dealt
\* with the message it is at keeps this one and all behind it until more data
\* arrive, and for good if it was the parsing of a branchless request.
NothingStuck ==
    (busy = "no" /\ pos \in DOMAIN stream /\ closed = "no" /\ pos \notin raised
        /\ state \notin {"ignore", "waiting_for_on_client_tls_handshake"})
    => buffer + taken < Size(stream[pos])

-----------------------------------------------------------------------------
(* The inductive invariant.                                                *)

\* Until the script has let a TLS client in nothing of the stream is touched.
Unapproved ==
    /\ fiber = "running" => transport = "tls_callback" /\ state # "init"
    /\ (transport = "tls_callback" /\ fiber # "done") =>
           /\ busy = "no" /\ handled = <<>> /\ taken = 0 /\ msg = 0
           /\ state \in {"init", "ignore", "waiting_for_on_client_tls_handshake"}

\* What the connection has taken of the message it is at, and knows of it.
AtMessage ==
    /\ transport = "tunnel" => stream # <<>> /\ stream[1].kind = "haproxy"
    /\ state = "haproxy_protocol" => transport = "tunnel" /\ pos = 1 /\ busy # "no"
    /\ state \in {"init", "haproxy_protocol",
                  "waiting_for_on_client_tls_handshake"} => taken = 0 /\ msg < pos
    /\ state = "headers" /\ ~ParserFinished => taken = 0 /\ msg < pos
    /\ ParserFinished => pos \in raised /\ pos \in DOMAIN stream
    /\ state \in {"body", "finished"} =>
           /\ pos \in DOMAIN stream /\ msg = pos
           /\ stream[pos].kind \notin Unusable
           /\ stream[pos].hdr <= HEADERS_MAX_SIZE
           /\ taken = IF state = "body" THEN stream[pos].hdr ELSE Size(stream[pos])

\* The message handled last is the one before, or the one that the connection
\* is at, if its processing raised.
HandledUpToHere ==
    IF Len(handled) = 0 THEN pos = 1
    ELSE \/ handled[Len(handled)] = pos - 1
         \/ /\ handled[Len(handled)] = pos
            /\ pos \in raised
            /\ state \in {"finished", "ignore"}

IInv ==
    /\ TypeOK
    /\ Unapproved
    /\ AtMessage
    /\ HandledUpToHere
    /\ InOrder
    /\ NothingStuck
=============================================================================
