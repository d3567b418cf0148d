--------------------------- MODULE UdpConnection ---------------------------
(***************************************************************************)
(* The UDP socket of OverSIP (lib/oversip/sip/listeners/udp_connection.rb): *)
(* one connection object, one buffer and one parser for all peers, with the *)
(* message parser and the STUN server it hands the datagrams to.            *)
(*                                                                          *)
(* What a datagram says is chosen while it is read, one piece at a time:    *)
(* each choice is a step. receive_data runs to its end before the next      *)
(* datagram is read: `stage` says how far it is. @msg is the parser's       *)
(* object, and is not read once the parser is reset.                        *)
(***************************************************************************)
EXTENDS SipUriParser, Stun

CONSTANTS
    StartLines,     \* the start lines, and
    Blocks,         \* the sequences of header lines, a message is made of
    MaxBlocks,      \* bound: blocks of the first message
    MaxBlocksLater, \* bound: blocks of the others
    MaxLines,       \* bound: header lines of a message
    MaxBody,        \* bound: octets behind the headers
    MaxBuffer,      \* bound: datagrams in the buffer
    StunRequests,   \* datagrams that begin with a zero octet
    Sources,        \* where STUN requests come from
    SourceHost      \* the host that SIP messages come from

ASSUME UdpBounds ==
    /\ {MaxBlocks, MaxBlocksLater, MaxLines, MaxBody} \subseteq Nat
    /\ MaxBuffer \in Nat \ {0}

VARIABLES
    state,      \* @state
    parser,     \* @parser
    stage,      \* where receive_data is: idle, loop, execute, parsed
    buffer,     \* @buffer: unread datagrams, perhaps behind the body of another
    datagram,   \* history: what the datagram says, as far as it was read
    fate,       \* history: what became of it
    sent,       \* what was sent last in answer to it
    raised      \* history: an exception has been raised, and is not past

udpVars == <<state, parser, stage, buffer, datagram, fate, sent, raised>>

\* Nothing read yet.
Unread == [kind |-> Nil, start |-> Nil, lines |-> <<>>, ahead |-> <<>>, blocks |-> 0, body |-> 0,
           request |-> Nil, source |-> Nil, later |-> FALSE]

UdpInit ==
    /\ state = "init" /\ stage = "idle" /\ buffer = <<>>
    /\ parser = sip_message_parser_init(NewParser)
    /\ datagram = Unread /\ fate = "none" /\ sent = Nil /\ raised = FALSE

----------------------------------------------------------------------------
(* receive_data.                                                            *)

ReceiveData ==
    /\ stage = "idle" /\ Len(buffer) < MaxBuffer
    /\ buffer' = Append(buffer, "datagram")
    /\ stage' = "loop"
    /\ datagram' = [Unread EXCEPT !.later = datagram.later \/ datagram.kind # Nil]
    /\ fate' = "none" /\ sent' = Nil
    /\ raised' = (raised /\ ~(state = "init" /\ buffer = <<>>))
    /\ UNCHANGED <<state, parser>>

StartMessage ==
    /\ stage = "loop" /\ state = "init"
    /\ parser' = sip_message_parser_init(parser)
    /\ state' = "message"
    /\ UNCHANGED <<stage, buffer, datagram, fate, sent, raised>>

\* parse_message gives up what is in the buffer, with or without an answer.
GiveUp(what, answer) ==
    /\ fate' = what /\ sent' = answer
    /\ buffer' = <<>>
    /\ state' = "init"
    /\ stage' = "idle"
    /\ UNCHANGED raised

\* An exception ends in EM.error_handler: everything stays as it is.
Raise ==
    /\ raised' = TRUE
    /\ stage' = "idle"
    /\ UNCHANGED <<state, fate, sent>>

AtMessage == stage = "loop" /\ state = "message"

----------------------------------------------------------------------------
(* parse_message, up to the parser.                                         *)

IgnoreCRLF ==
    /\ AtMessage /\ buffer = <<"datagram">>
    /\ datagram' = [datagram EXCEPT !.kind = "crlf"]
    /\ GiveUp("ignored", Nil)
    /\ UNCHANGED parser

ReceiveStun(request, source) ==
    LET stun_res == parse_request(request, source)
    IN /\ AtMessage
       /\ stun_res.answer # "nil"
       /\ datagram' = [datagram EXCEPT !.kind = "stun", !.request = request, !.source = source]
       /\ GiveUp(IF stun_res.answer = "false" THEN "ignored" ELSE "answered", stun_res)
       /\ UNCHANGED parser

----------------------------------------------------------------------------
(* @parser.execute. The text ends anywhere; a character that does not       *)
(* belong there is an error.                                                *)

Executing == AtMessage \/ stage = "execute"

Read(actions, next, said) ==
    /\ parser' = [sip_message_parser_execute(parser, actions) EXCEPT !.cs = next]
    /\ stage' = IF next = "first_final" THEN "parsed" ELSE "execute"
    /\ datagram' = said
    /\ UNCHANGED <<state, buffer, fate, sent, raised>>

ReadCRLF ==
    /\ Executing /\ parser.cs = "start"
    /\ Read(<<>>, "crlf", datagram)

ReadKeepalive ==
    /\ Executing /\ parser.cs = "crlf"
    /\ Read(DoubleCRLF, "first_final", [datagram EXCEPT !.kind = "keepalive"])

ReadStartLine(l) ==
    /\ Executing /\ parser.cs \in {"start", "crlf"}
    /\ Read(StartLine(l), "headers", [datagram EXCEPT !.kind = "message", !.start = l])

\* Header lines come in blocks: the rest of a block is read before another.
ActionsOf == [l \in UNION {Range(block) : block \in Blocks}, n \in 1..MaxLines,
              method \in {Nil, "known"} |-> HeaderLine(l, n, method)]

ReadLine(block) ==
    /\ Executing /\ parser.cs = "headers"
    /\ \/ datagram.ahead = block
       \/ /\ datagram.ahead = <<>>
          /\ datagram.blocks < (IF datagram.later THEN MaxBlocksLater ELSE MaxBlocks)
    /\ Len(datagram.lines) + Len(block) <= MaxLines
    /\ Read(ActionsOf[Head(block), Len(datagram.lines) + 1,
                      IF parser.method = Nil THEN Nil ELSE "known"],
            "headers", [datagram EXCEPT !.lines = Append(@, Head(block)), !.ahead = Tail(block),
                                !.blocks = IF datagram.ahead = <<>> THEN @ + 1 ELSE @])

ReadEmptyLine ==
    /\ Executing /\ parser.cs = "headers" /\ datagram.ahead = <<>>
    /\ Read(EmptyLine, "first_final", datagram)

\* A parsing error, or the end of a text that is no whole message.
ParsingFails ==
    /\ Executing /\ parser.cs # "first_final"
    /\ datagram' = [datagram EXCEPT !.kind = "broken"]
    /\ GiveUp("ignored", Nil)
    /\ UNCHANGED parser

\* The parser has finished already, and @parser_nbytes is where: this is a text
\* after an exception. It is an error, or too short to reach there.
ExecuteAgain ==
    /\ AtMessage /\ parser.cs = "first_final"
    /\ \/ GiveUp("ignored", Nil)
       \/ Raise /\ UNCHANGED buffer
    /\ UNCHANGED <<parser, datagram>>

----------------------------------------------------------------------------
(* parse_message, behind the parser. @buffer.read has left the body.        *)

Keepalive ==
    /\ stage = "parsed" /\ parser.parsed.class = "outbound_keepalive"
    /\ GiveUp("answered", [answer |-> "CRLF"])
    /\ UNCHANGED <<parser, datagram>>

\* The message without a Contact that is not kept, with `body` octets behind it.
Checked == post_parsing(parser)
Complete == ~has_missing_core_header(parser) /\ ~has_duplicated_core_header(parser)
AtCheck(body) == /\ stage = "parsed" /\ parser.parsed.class # "outbound_keepalive"
                 /\ datagram' = [datagram EXCEPT !.body = body]

\* valid_message? The second question is asked if the first is answered.
InvalidMessage(body) ==
    /\ AtCheck(body) /\ ~Complete
    /\ GiveUp("ignored", Nil)
    /\ parser' = IF has_missing_core_header(parser) THEN Checked ELSE StoreNumVias(Checked)

\* add_via_received_rport: the top Via with received, and rport if it asks for it.
NeedsReceived(m) == m.class = "request"
                    /\ (m.via_has_rport \/ m.via_sent_by_host.text # SourceHost)

via_received(m) ==
    [core |-> m.via_core_value, branch |-> m.via_branch, received |-> SourceHost,
     rport |-> m.via_has_rport, alias |-> m.via_has_alias, params |-> m.via_params]

add_via_received_rport(s) ==
    IF NeedsReceived(s.parsed)
    THEN [s EXCEPT !.parsed.headers[s.parsed.hdr_via][1] = via_received(s.parsed)] ELSE s

\* The branch is nil: the parameters cannot be appended to it.
ViaRaises(body) ==
    /\ AtCheck(body) /\ Complete
    /\ NeedsReceived(Checked.parsed) /\ parser.parsed.via_branch = Nil
    /\ parser' = StoreNumVias(Checked)
    /\ buffer' = IF body = 0 THEN <<>> ELSE <<"body">>
    /\ Raise

Accepted == add_via_received_rport(StoreNumVias(Checked))
Passed(body) == /\ AtCheck(body) /\ Complete
                /\ ~(NeedsReceived(parser.parsed) /\ parser.parsed.via_branch = Nil)

\* An answer of 400, or none to an ACK or a response.
Reject(m) == IF m.class = "request" /\ m.sip_method # "ACK"
             THEN GiveUp("answered", [answer |-> "400"]) ELSE GiveUp("ignored", Nil)

\* check_via_branch.
BadBranch(body) ==
    /\ Passed(body) /\ ~parser.parsed.via_branch_rfc3261
    /\ Reject(parser.parsed)
    /\ parser' = Accepted

RightLength(m, body) == body = IF m.content_length = Nil THEN 0 ELSE m.content_length

BadLength(body) ==
    /\ Passed(body) /\ parser.parsed.via_branch_rfc3261
    /\ ~RightLength(parser.parsed, body)
    /\ Reject(parser.parsed)
    /\ parser' = Accepted

MessageDone(body) ==
    /\ Passed(body) /\ parser.parsed.via_branch_rfc3261
    /\ RightLength(parser.parsed, body)
    /\ parser' = Accepted
    /\ buffer' = <<>>
    /\ state' = "finished"
    /\ stage' = "loop"
    /\ UNCHANGED <<fate, sent, raised>>

----------------------------------------------------------------------------
\* process_request or process_response. What is in the buffer stays there.
Process ==
    /\ stage = "loop" /\ state = "finished"
    /\ fate' = "processed"
    /\ state' = "init"
    /\ stage' = "idle"
    /\ UNCHANGED <<parser, buffer, datagram, sent, raised>>

\* The CANCEL of a call whose DNS query is not finished.
ProcessRaises ==
    /\ stage = "loop" /\ state = "finished"
    /\ parser.parsed.class = "request" /\ parser.parsed.sip_method = "CANCEL"
    /\ Raise
    /\ UNCHANGED <<parser, buffer, datagram>>

UdpNext ==
    \/ ReceiveData
    \/ StartMessage
    \/ IgnoreCRLF
    \/ \E request \in StunRequests, source \in Sources : ReceiveStun(request, source)
    \/ ReadCRLF
    \/ ReadKeepalive
    \/ \E l \in StartLines : ReadStartLine(l)
    \/ \E block \in Blocks \cup {datagram.ahead} : block # <<>> /\ ReadLine(block)
    \/ ReadEmptyLine
    \/ ParsingFails
    \/ ExecuteAgain
    \/ Keepalive
    \/ \E body \in 0..MaxBody :
         \/ InvalidMessage(body)
         \/ ViaRaises(body)
         \/ BadBranch(body)
         \/ BadLength(body)
         \/ MessageDone(body)
    \/ Process
    \/ ProcessRaises

=============================================================================
