--------------------------- MODULE WsServerProofs ---------------------------
(***************************************************************************)
(* Proofs about WsServer, for any requests and any number of frames.  The  *)
(* parser of the HTTP request is left unexpanded: what it reads decides    *)
(* whether a client is upgraded, not what the script is told about it.     *)
(***************************************************************************)
EXTENDS WsServer, TLAPS

\* The flags, apart from the rest of the types: provers treat them differently.
FlagTypes ==
    /\ local_closed \in BOOLEAN /\ client_closed \in BOOLEAN
    /\ ws_established \in BOOLEAN /\ bound \in BOOLEAN /\ negotiated \in BOOLEAN

OtherTypes ==
    /\ tls \in {"none", "before", "running", "done"}
    /\ request \in Requests
    /\ frames \in Seq(Frames)
    /\ unsent \in 0..Total /\ buffer \in 0..Total
    /\ state \in {"init", "http_headers", "check_http_request",
                  "on_connection_callback", "waiting_for_on_connection",
                  "accept_ws_handshake", "websocket", "ignore",
                  "waiting_for_on_client_tls_handshake"}
    /\ running \in {"no", "reactor", "fiber"}
    /\ callback \in {"none", "running", "done"}
    /\ replies \in Seq({101, 400, 405, 426, 500, 501})
    /\ nbytes \in 0..2
    /\ processed \in 0..Len(frames)
    /\ first \in {"nobody", "client", "oversip"}
    /\ goodbye \in {"none", "client", "oversip"}

LEMMA SplitTypes == TypeOK <=> FlagTypes /\ OtherTypes
BY ZenonT(30) DEF TypeOK, FlagTypes, OtherTypes

\* The number of pieces is a natural number.
LEMMA PieceFacts ==
    ASSUME OtherTypes
    PROVE  /\ Len(frames) \in Nat /\ Total = 2 + Len(frames)
           /\ unsent \in Nat /\ buffer \in Nat /\ processed \in Nat
BY DEF OtherTypes, Total

\* What another reply does to the question whether the client was upgraded.
LEMMA ReplyFacts ==
    ASSUME NEW r \in {101, 400, 405, 426, 500, 501},
           replies \in Seq({101, 400, 405, 426, 500, 501}),
           replies' = Append(replies, r)
    PROVE  /\ replies' \in Seq({101, 400, 405, 426, 500, 501})
           /\ Upgraded' <=> Upgraded \/ r = 101
<1>1. /\ replies' \in Seq({101, 400, 405, 426, 500, 501})
      /\ Len(replies) \in Nat /\ Len(replies') = Len(replies) + 1
      /\ \A i \in 1..Len(replies) : replies'[i] = replies[i]
      /\ replies'[Len(replies) + 1] = r
    OBVIOUS
<1>2. ASSUME Upgraded PROVE Upgraded'
    <2>1. PICK i \in 1..Len(replies) : replies[i] = 101
        BY <1>2 DEF Upgraded
    <2>2. i \in 1..Len(replies') /\ replies'[i] = 101
        BY <1>1, <2>1
    <2>3. QED
        BY <2>2 DEF Upgraded
<1>3. ASSUME r = 101 PROVE Upgraded'
    <2>1. Len(replies) + 1 \in 1..Len(replies')
        BY <1>1
    <2>2. QED
        BY <1>1, <1>3, <2>1 DEF Upgraded
<1>4. ASSUME Upgraded', r # 101 PROVE Upgraded
    <2>1. PICK i \in 1..Len(replies') : replies'[i] = 101
        BY <1>4 DEF Upgraded
    <2>2. i \in 1..Len(replies)
        BY <1>1, <1>4, <2>1
    <2>3. QED
        BY <1>1, <2>1, <2>2 DEF Upgraded
<1>5. QED
    BY <1>1, <1>2, <1>3, <1>4

\* A refusal replies at most once more, and never with an upgrade.
LEMMA RefuseFacts ==
    ASSUME OtherTypes, NEW r, r \in {400, 405, 426, 500, 501} \/ r = Nil, Refuse(r)
    PROVE  /\ replies' \in Seq({101, 400, 405, 426, 500, 501})
           /\ Upgraded' <=> Upgraded
           /\ Closing /\ state' = "ignore" /\ running' = "no"
           /\ UNCHANGED <<client_closed, ws_established, processed>>
<1>1. CASE r = Nil
    BY <1>1 DEF Refuse, OtherTypes, Upgraded
<1>2. CASE r # Nil
    <2>1. r \in {400, 405, 426, 500, 501} /\ replies' = Append(replies, r)
        BY <1>2 DEF Refuse
    <2>2. replies \in Seq({101, 400, 405, 426, 500, 501})
        BY DEF OtherTypes
    <2>3. QED
        BY <2>1, <2>2, ReplyFacts DEF Refuse
<1>3. QED
    BY <1>1, <1>2

\* A new connection satisfies the inductive invariant.
LEMMA InitIInv == Init => IInv
<1> SUFFICES ASSUME Init PROVE IInv
    OBVIOUS
<1>1. frames \in Seq(Frames) /\ Len(frames) \in Nat
    BY WsConstants DEF Init
<1>2. FlagTypes
    BY DEF Init, FlagTypes
<1>3. OtherTypes
    BY <1>1 DEF Init, OtherTypes, Total
<1>4. ~Upgraded
    BY DEF Init, Upgraded
<1>5. Pieced /\ Phases /\ Established
    BY <1>1, <1>4 DEF Init, Pieced, Phases, Established, Total
<1>6. Endings /\ Goodbye
    BY DEF Init, Endings, Goodbye
<1>7. QED
    BY <1>2, <1>3, <1>5, <1>6, SplitTypes DEF IInv

\* A step is put together from its parts.
LEMMA Together ==
    ASSUME FlagTypes', OtherTypes', Pieced', Phases', Established', Endings', Goodbye'
    PROVE  IInv'
<1>1. TypeOK'
    BY SplitTypes, PTL
<1>2. QED
    BY <1>1 DEF IInv

\* A refusal, in the loop or when on_connection ends: the connection is closed
\* and ignores what follows.
LEMMA RefuseIInv ==
    ASSUME IInv, NEW r, r \in {400, 405, 426, 500, 501} \/ r = Nil, Refuse(r),
           state # "websocket",
           UNCHANGED <<tls, input, nbytes, negotiated, unsent, buffer, final>>,
           callback' = callback \/ (callback = "running" /\ callback' = "done")
    PROVE  IInv'
<1>a. FlagTypes /\ OtherTypes /\ Pieced /\ Phases /\ Established /\ Endings /\ Goodbye
    BY SplitTypes DEF IInv
<1>b. /\ replies' \in Seq({101, 400, 405, 426, 500, 501})
      /\ Upgraded' <=> Upgraded
      /\ Closing /\ state' = "ignore" /\ running' = "no"
      /\ UNCHANGED <<client_closed, ws_established, processed>>
    BY <1>a, RefuseFacts
<1> USE <1>a, <1>b DEF input, final, Closing
<1>1. FlagTypes'
    BY DEF FlagTypes
<1>2. OtherTypes'
    BY DEF OtherTypes, Total
<1>3. Pieced' /\ Phases' /\ Established'
    BY DEF Pieced, Total, Phases, Established
<1>4. Endings' /\ Goodbye'
    BY DEF FlagTypes, Endings, Goodbye
<1>5. QED
    BY <1>1, <1>2, <1>3, <1>4, Together

\* Every round of the loop, every callback and every event of the reactor
\* preserves the inductive invariant.
LEMMA StepIInv == IInv /\ [Next]_vars => IInv'
<1> SUFFICES ASSUME IInv, [Next]_vars PROVE IInv'
    OBVIOUS
<1>a. FlagTypes /\ OtherTypes /\ Pieced /\ Phases /\ Established /\ Endings /\ Goodbye
    BY SplitTypes DEF IInv
<1>b. /\ Len(frames) \in Nat /\ Total = 2 + Len(frames)
      /\ unsent \in Nat /\ buffer \in Nat /\ processed \in Nat
    BY <1>a, PieceFacts
<1>c. UNCHANGED replies => (Upgraded' <=> Upgraded)
    BY DEF Upgraded
<1> USE DEF input, parsing, flags, history, final
<1>1. CASE StartHttp
    <2>1. Upgraded' <=> Upgraded
        BY <1>1, <1>c DEF StartHttp
    <2>2. FlagTypes'
        BY <1>1, <1>a DEF StartHttp, FlagTypes
    <2>3. OtherTypes'
        BY <1>1, <1>a DEF StartHttp, OtherTypes, Total
    <2>4. Pieced'
        BY <1>1, <1>a DEF StartHttp, Pieced, Total
    <2>5. Phases'
        BY <1>1, <1>a, <2>1 DEF StartHttp, Round, Phases
    <2>6. Established'
        BY <1>1, <1>a, <2>1 DEF StartHttp, Round, Established
    <2>7. Endings'
        BY <1>1, <1>a DEF StartHttp, Round, Endings
    <2>8. Goodbye'
        BY <1>1, <1>a, <2>1 DEF StartHttp, Goodbye
    <2>9. QED
        BY <2>2, <2>3, <2>4, <2>5, <2>6, <2>7, <2>8, Together
<1>2. CASE ParseHttpHeaders
    <2> DEFINE same == UNCHANGED <<tls, input, negotiated, unsent, callback, final, flags, history,
                                   first>>
    <2>1. CASE Refuse(Nil)
        <3>1. /\ state = "http_headers"
              /\ UNCHANGED <<tls, input, negotiated, unsent, callback, final>>
            BY <1>2 DEF ParseHttpHeaders, Round
        <3>2. CASE UNCHANGED <<http, nbytes, buffer>>
            BY <2>1, <3>1, <3>2, RefuseIInv
        <3>3. CASE ~UNCHANGED <<http, nbytes, buffer>>
            <4>1. first' = first /\ UNCHANGED flags
                BY <1>2, <3>3 DEF ParseHttpHeaders
            <4>2. local_closed /\ running # "no"
                BY <1>2, <2>1, <4>1 DEF ParseHttpHeaders, Round, Refuse, Closing
            <4>3. QED
                BY <1>a, <4>2 DEF Endings
        <3>4. QED
            BY <3>2, <3>3
    <2>2. CASE ~Refuse(Nil)
        <3>1. /\ state = "http_headers" /\ running # "no" /\ same
              /\ \/ running' = "no" /\ state' = state /\ buffer' = buffer
                 \/ /\ buffer >= 2 /\ buffer' = buffer - 2
                    /\ state' = "check_http_request" /\ running' = running
              /\ nbytes' = nbytes \/ nbytes' = 1 \/ nbytes' = 2
            BY <1>2, <2>2 DEF ParseHttpHeaders, ExecuteHttp, Round
        <3> HIDE <1>2
        <3>2. Upgraded' <=> Upgraded
            BY <1>c, <3>1
        <3>3. FlagTypes'
            BY <1>a, <3>1 DEF FlagTypes
        <3>4. OtherTypes'
            BY <1>a, <3>1 DEF OtherTypes, Total
        <3>5. Pieced'
            <4>1. processed = 0
                BY <1>a, <3>1 DEF Phases
            <4>2. QED
                BY <1>a, <1>b, <3>1, <4>1 DEF Pieced, Total
        <3>6. Phases' /\ Established'
            BY <1>a, <3>1, <3>2 DEF Phases, Established
        <3>7. Endings' /\ Goodbye'
            BY <1>a, <3>1 DEF Endings, Goodbye
        <3>8. QED
            BY <3>3, <3>4, <3>5, <3>6, <3>7, Together
    <2>3. QED
        BY <2>1, <2>2
<1>3. CASE CheckHttpRequest
    <2> DEFINE status == Rejection(http.parsed)
    <2>1. status \in {400, 405, 426, 501} \/ status = Nil
        BY DEF Rejection
    <2> HIDE DEF status
    <2>2. /\ state = "check_http_request" /\ running # "no"
          /\ UNCHANGED <<tls, input, http, nbytes, unsent, buffer, callback, final>>
          /\ \/ Refuse(500) /\ UNCHANGED negotiated
             \/ Refuse(status) /\ UNCHANGED negotiated
             \/ /\ negotiated' = (http.parsed.hdr_sec_websocket_protocol # <<>>)
                /\ state' = "on_connection_callback"
                /\ UNCHANGED <<running, flags, history, first>>
        BY <1>3 DEF CheckHttpRequest, Round, status
    <2>3. CASE \/ Refuse(500) /\ UNCHANGED negotiated
               \/ Refuse(status) /\ UNCHANGED negotiated
        <3>1. PICK r : /\ r \in {400, 405, 426, 500, 501} \/ r = Nil
                       /\ Refuse(r) /\ UNCHANGED negotiated
            BY <2>1, <2>3
        <3>2. QED
            BY <2>2, <3>1, RefuseIInv
    <2>4. CASE /\ negotiated' = (http.parsed.hdr_sec_websocket_protocol # <<>>)
               /\ state' = "on_connection_callback"
               /\ UNCHANGED <<running, flags, history, first>>
        <3>1. Upgraded' <=> Upgraded
            BY <1>c, <2>4
        <3>2. FlagTypes'
            BY <1>a, <2>2, <2>4 DEF FlagTypes
        <3>3. OtherTypes'
            BY <1>a, <2>2, <2>4 DEF OtherTypes, Total
        <3>4. Pieced' /\ Phases' /\ Established'
            BY <1>a, <2>2, <2>4, <3>1 DEF Pieced, Total, Phases, Established
        <3>5. Endings' /\ Goodbye'
            BY <1>a, <2>2, <2>4 DEF Endings, Goodbye
        <3>6. QED
            BY <3>2, <3>3, <3>4, <3>5, Together
    <2>5. QED
        BY <2>2, <2>3, <2>4
<1>4. CASE OnConnection
    <2>1. Upgraded' <=> Upgraded
        BY <1>4, <1>c DEF OnConnection
    <2>2. FlagTypes'
        BY <1>4, <1>a DEF OnConnection, FlagTypes
    <2>3. OtherTypes'
        BY <1>4, <1>a DEF OnConnection, OtherTypes, Total
    <2>4. Pieced'
        BY <1>4, <1>a DEF OnConnection, Round, Pieced, Total
    <2>5. Phases'
        BY <1>4, <1>a, <2>1 DEF OnConnection, Round, Phases
    <2>6. Established'
        BY <1>4, <1>a, <2>1 DEF OnConnection, Round, Established
    <2>7. Endings'
        BY <1>4, <1>a DEF OnConnection, Round, Endings
    <2>8. Goodbye'
        BY <1>4, <1>a, <2>1 DEF OnConnection, Goodbye
    <2>9. QED
        BY <2>2, <2>3, <2>4, <2>5, <2>6, <2>7, <2>8, Together
<1>5. CASE AcceptWsHandshake
    <2>1. /\ running # "no" /\ state = "accept_ws_handshake" /\ state' = "websocket"
          /\ UNCHANGED <<tls, input, parsing, unsent, buffer, running, callback, flags, final,
                         processed, first>>
        BY <1>5 DEF AcceptWsHandshake, Round
    <2>2. Upgraded' /\ replies' \in Seq({101, 400, 405, 426, 500, 501})
        BY <1>5, <1>a, ReplyFacts DEF AcceptWsHandshake, OtherTypes
    <2>3. FlagTypes'
        BY <1>a, <2>1 DEF FlagTypes
    <2>4. OtherTypes'
        BY <1>a, <2>1, <2>2 DEF OtherTypes, Total
    <2>5. Pieced' /\ Phases' /\ Established'
        BY <1>a, <2>1, <2>2 DEF Pieced, Total, Phases, Established
    <2>6. Endings' /\ Goodbye'
        BY <1>a, <2>1 DEF Endings, Goodbye
    <2>7. QED
        BY <2>3, <2>4, <2>5, <2>6, Together
<1>6. CASE WebSocketRound
    <2>1. Upgraded' <=> Upgraded
        BY <1>6, <1>c DEF WebSocketRound
    <2>2. FlagTypes'
        BY <1>6, <1>a DEF WebSocketRound, FlagTypes
    <2>3. OtherTypes'
        BY <1>6, <1>a DEF WebSocketRound, OtherTypes, Total
    <2>4. Pieced'
        BY <1>6, <1>a DEF WebSocketRound, Pieced, Total
    <2>5. Phases'
        BY <1>6, <1>a, <2>1 DEF WebSocketRound, Phases
    <2>6. Established'
        BY <1>6, <1>a, <2>1 DEF WebSocketRound, Round, Established, Phases
    <2>7. Endings'
        BY <1>6, <1>a DEF WebSocketRound, Endings
    <2>8. Goodbye'
        BY <1>6, <1>a, <2>1 DEF WebSocketRound, Goodbye
    <2>9. QED
        BY <2>2, <2>3, <2>4, <2>5, <2>6, <2>7, <2>8, Together
<1>7. CASE ReceiveMessage
    <2>1. Upgraded' <=> Upgraded
        BY <1>7, <1>c DEF ReceiveMessage
    <2>2. FlagTypes'
        BY <1>7, <1>a DEF ReceiveMessage, FlagTypes
    <2>3. OtherTypes'
        BY <1>7, <1>a DEF ReceiveMessage, Round, OtherTypes, Total, Pieced
    <2>4. Pieced'
        BY <1>7, <1>a, <1>b DEF ReceiveMessage, Pieced, Total
    <2>5. Phases'
        BY <1>7, <1>a, <2>1 DEF ReceiveMessage, Round, Phases
    <2>6. Established'
        BY <1>7, <1>a, <2>1 DEF ReceiveMessage, Round, Established, Phases
    <2>7. Endings'
        BY <1>7, <1>a DEF ReceiveMessage, Endings
    <2>8. Goodbye'
        BY <1>7, <1>a, <2>1 DEF ReceiveMessage, Goodbye
    <2>9. QED
        BY <2>2, <2>3, <2>4, <2>5, <2>6, <2>7, <2>8, Together
<1>8. CASE MessageRaises
    <2>0. /\ Upgraded' <=> Upgraded
          /\ replies' \in Seq({101, 400, 405, 426, 500, 501})
        <3>1. CASE UNCHANGED replies
            BY <1>a, <1>c, <3>1 DEF OtherTypes
        <3>2. CASE replies' = Append(replies, 500)
            BY <1>a, <3>2, ReplyFacts DEF OtherTypes
        <3>3. QED
            BY <1>8, <3>1, <3>2 DEF MessageRaises
    <2>1. Upgraded' <=> Upgraded
        BY <2>0
    <2>2. FlagTypes'
        BY <1>8, <1>a DEF MessageRaises, Round, Closing, FlagTypes
    <2>3. OtherTypes'
        BY <1>8, <1>a, <2>0 DEF MessageRaises, Round, Closing, OtherTypes, Total, Pieced
    <2>4. Pieced'
        BY <1>8, <1>a, <1>b DEF MessageRaises, Pieced, Total
    <2>5. Phases'
        BY <1>8, <1>a, <2>1 DEF MessageRaises, Round, Phases
    <2>6. Established'
        BY <1>8, <1>a, <2>1 DEF MessageRaises, Round, Established, Phases
    <2>7. Endings'
        BY <1>8, <1>a DEF MessageRaises, Closing, Endings
    <2>8. Goodbye'
        BY <1>8, <1>a, <2>1 DEF MessageRaises, Closing, OtherTypes, Goodbye
    <2>9. QED
        BY <2>2, <2>3, <2>4, <2>5, <2>6, <2>7, <2>8, Together
<1>9. CASE ReceiveClose
    <2>1. Upgraded' <=> Upgraded
        BY <1>9, <1>c DEF ReceiveClose
    <2>2. FlagTypes'
        BY <1>9, <1>a DEF ReceiveClose, FlagTypes
    <2>3. OtherTypes'
        BY <1>9, <1>a DEF ReceiveClose, OtherTypes, Total
    <2>4. Pieced'
        BY <1>9, <1>a, <1>b DEF ReceiveClose, Pieced, Total
    <2>5. Phases'
        BY <1>9, <1>a, <2>1 DEF ReceiveClose, Phases
    <2>6. Established'
        BY <1>9, <1>a, <2>1 DEF ReceiveClose, Round, Established, Phases
    <2>7. Endings'
        BY <1>9, <1>a DEF ReceiveClose, Round, Endings
    <2>8. Goodbye'
        BY <1>9, <1>a, <2>1 DEF ReceiveClose, OtherTypes, Goodbye
    <2>9. QED
        BY <2>2, <2>3, <2>4, <2>5, <2>6, <2>7, <2>8, Together
<1>9a. CASE RefuseFrame
    <2>1. Upgraded' <=> Upgraded
        BY <1>9a, <1>c DEF RefuseFrame
    <2>2. FlagTypes'
        BY <1>9a, <1>a DEF RefuseFrame, Closing, FlagTypes
    <2>3. OtherTypes'
        BY <1>9a, <1>a DEF RefuseFrame, Closing, OtherTypes, Total
    <2>4. Pieced'
        BY <1>9a, <1>a, <1>b DEF RefuseFrame, Pieced, Total
    <2>5. Phases'
        BY <1>9a, <1>a, <2>1 DEF RefuseFrame, Phases
    <2>6. Established'
        BY <1>9a, <1>a, <2>1 DEF RefuseFrame, Round, Established, Phases
    <2>7. Endings'
        BY <1>9a, <1>a DEF RefuseFrame, Closing, Round, Endings
    <2>8. Goodbye'
        BY <1>9a, <1>a, <2>1 DEF RefuseFrame, Closing, OtherTypes, Goodbye
    <2>9. QED
        BY <2>2, <2>3, <2>4, <2>5, <2>6, <2>7, <2>8, Together
<1>10. CASE TlsCallbackEnds
    <2>1. Upgraded' <=> Upgraded
        BY <1>10, <1>c DEF TlsCallbackEnds
    <2>2. FlagTypes'
        BY <1>10, <1>a DEF TlsCallbackEnds, FlagTypes
    <2>3. OtherTypes'
        BY <1>10, <1>a DEF TlsCallbackEnds, OtherTypes, Total
    <2>4. Pieced'
        BY <1>10, <1>a DEF TlsCallbackEnds, Pieced, Total
    <2>5. Phases'
        BY <1>10, <1>a, <2>1 DEF TlsCallbackEnds, Phases
    <2>6. Established'
        BY <1>10, <1>a, <2>1 DEF TlsCallbackEnds, Established
    <2>7. Endings'
        BY <1>10, <1>a DEF TlsCallbackEnds, Endings
    <2>8. Goodbye'
        BY <1>10, <1>a, <2>1 DEF TlsCallbackEnds, Goodbye
    <2>9. QED
        BY <2>2, <2>3, <2>4, <2>5, <2>6, <2>7, <2>8, Together
<1>11. CASE TlsCallbackRaises
    <2>1. Upgraded' <=> Upgraded
        BY <1>11, <1>c DEF TlsCallbackRaises
    <2>2. FlagTypes'
        BY <1>11, <1>a DEF TlsCallbackRaises, Closing, FlagTypes
    <2>3. OtherTypes'
        BY <1>11, <1>a DEF TlsCallbackRaises, Closing, OtherTypes, Total
    <2>4. Pieced'
        BY <1>11, <1>a DEF TlsCallbackRaises, Pieced, Total
    <2>5. Phases'
        BY <1>11, <1>a, <2>1 DEF TlsCallbackRaises, Phases
    <2>6. Established'
        BY <1>11, <1>a, <2>1 DEF TlsCallbackRaises, Established
    <2>7. Endings'
        BY <1>11, <1>a DEF TlsCallbackRaises, Closing, Endings, Phases
    <2>8. Goodbye'
        BY <1>11, <1>a, <2>1 DEF TlsCallbackRaises, Closing, OtherTypes, Goodbye
    <2>9. QED
        BY <2>2, <2>3, <2>4, <2>5, <2>6, <2>7, <2>8, Together
<1>12. CASE OnConnectionEnds
    <2>1. Upgraded' <=> Upgraded
        BY <1>12, <1>c DEF OnConnectionEnds
    <2>2. FlagTypes'
        BY <1>12, <1>a DEF OnConnectionEnds, FlagTypes
    <2>3. OtherTypes'
        BY <1>12, <1>a DEF OnConnectionEnds, OtherTypes, Total
    <2>4. Pieced'
        BY <1>12, <1>a DEF OnConnectionEnds, Pieced, Total, Phases, Endings
    <2>5. Phases'
        BY <1>12, <1>a DEF OnConnectionEnds, Phases
    <2>6. Established'
        BY <1>12, <1>a, <2>1 DEF OnConnectionEnds, Established
    <2>7. Endings'
        BY <1>12, <1>a DEF OnConnectionEnds, Endings
    <2>8. Goodbye'
        BY <1>12, <1>a, <2>1 DEF OnConnectionEnds, Goodbye
    <2>9. QED
        BY <2>2, <2>3, <2>4, <2>5, <2>6, <2>7, <2>8, Together
<1>13. CASE OnConnectionRejects
    <2>1. /\ callback = "running" /\ callback' = "done" /\ Refuse(500)
          /\ UNCHANGED <<tls, input, parsing, unsent, buffer, final>>
        BY <1>13 DEF OnConnectionRejects
    <2>2. state # "websocket"
        BY <1>a, <2>1 DEF Phases
    <2>3. QED
        BY <2>1, <2>2, RefuseIInv
<1>14. ASSUME NEW n \in 1..unsent, ReceiveData(n)
       PROVE  IInv'
    <2>1. Upgraded' <=> Upgraded
        BY <1>14, <1>c DEF ReceiveData
    <2>2. FlagTypes'
        BY <1>14, <1>a DEF ReceiveData, FlagTypes
    <2>3. OtherTypes'
        BY <1>14, <1>a DEF ReceiveData, OtherTypes, Total, Pieced
    <2>4. Pieced'
        BY <1>14, <1>a, <1>b DEF ReceiveData, Pieced, Total
    <2>5. Phases'
        BY <1>14, <1>a, <2>1 DEF ReceiveData, Waiting, Phases
    <2>6. Established'
        BY <1>14, <1>a, <2>1 DEF ReceiveData, Established
    <2>7. Endings'
        BY <1>14, <1>a DEF ReceiveData, Waiting, Endings
    <2>8. Goodbye'
        BY <1>14 DEF ReceiveData, Goodbye
    <2>9. QED
        BY <2>2, <2>3, <2>4, <2>5, <2>6, <2>7, <2>8, Together
<1>15. CASE HandshakeCompleted
    <2>1. Upgraded' <=> Upgraded
        BY <1>15, <1>c DEF HandshakeCompleted
    <2>2. FlagTypes'
        BY <1>15, <1>a DEF HandshakeCompleted, FlagTypes
    <2>3. OtherTypes'
        BY <1>15, <1>a DEF HandshakeCompleted, OtherTypes, Total
    <2>4. Pieced'
        BY <1>15, <1>a DEF HandshakeCompleted, Pieced, Total
    <2>5. Phases'
        BY <1>15, <1>a, <2>1 DEF HandshakeCompleted, Phases
    <2>6. Established'
        BY <1>15, <1>a, <2>1 DEF HandshakeCompleted, Established
    <2>7. Endings'
        BY <1>15, <1>a DEF HandshakeCompleted, Endings
    <2>8. Goodbye'
        BY <1>15 DEF HandshakeCompleted, Goodbye
    <2>9. QED
        BY <2>2, <2>3, <2>4, <2>5, <2>6, <2>7, <2>8, Together
<1>16. CASE HandshakeTimeout
    <2>1. Upgraded' <=> Upgraded
        BY <1>16, <1>c DEF HandshakeTimeout
    <2>2. FlagTypes'
        BY <1>16, <1>a DEF HandshakeTimeout, Closing, FlagTypes
    <2>3. OtherTypes'
        BY <1>16, <1>a DEF HandshakeTimeout, Closing, OtherTypes, Total
    <2>4. Pieced'
        BY <1>16, <1>a DEF HandshakeTimeout, Pieced, Total
    <2>5. Phases'
        BY <1>16, <1>a, <2>1 DEF HandshakeTimeout, Phases
    <2>6. Established'
        BY <1>16, <1>a, <2>1 DEF HandshakeTimeout, Established
    <2>7. Endings'
        BY <1>16, <1>a DEF HandshakeTimeout, Closing, Endings, Phases
    <2>8. Goodbye'
        BY <1>16 DEF HandshakeTimeout, Goodbye
    <2>9. QED
        BY <2>2, <2>3, <2>4, <2>5, <2>6, <2>7, <2>8, Together
<1>17. CASE ScriptCloses
    <2>1. Upgraded' <=> Upgraded
        BY <1>17, <1>c DEF ScriptCloses
    <2>2. FlagTypes'
        BY <1>17, <1>a DEF ScriptCloses, Closing, FlagTypes
    <2>3. OtherTypes'
        BY <1>17, <1>a DEF ScriptCloses, Closing, OtherTypes, Total
    <2>4. Pieced'
        BY <1>17, <1>a, <1>b DEF ScriptCloses, Pieced, Total
    <2>5. Phases'
        BY <1>17, <1>a, <2>1 DEF ScriptCloses, Phases
    <2>6. Established'
        BY <1>17, <1>a, <2>1 DEF ScriptCloses, Established
    <2>7. Endings'
        BY <1>17, <1>a DEF ScriptCloses, Closing, Endings
    <2>8. Goodbye'
        BY <1>17 DEF ScriptCloses, Goodbye
    <2>9. QED
        BY <2>2, <2>3, <2>4, <2>5, <2>6, <2>7, <2>8, Together
<1>18. ASSUME NEW who \in {"client", "oversip", "timeout"}, Unbind(who)
       PROVE  IInv'
    <2>1. Upgraded' <=> Upgraded
        BY <1>18, <1>c DEF Unbind
    <2>2. FlagTypes'
        BY <1>18, <1>a DEF Unbind, FlagTypes
    <2>3. OtherTypes'
        BY <1>18, <1>a DEF Unbind, OtherTypes, Total
    <2>4. Pieced'
        BY <1>18, <1>a DEF Unbind, Pieced, Total
    <2>5. Phases'
        BY <1>18, <1>a, <2>1 DEF Unbind, Phases
    <2>6. Established'
        BY <1>18, <1>a, <2>1 DEF Unbind, Established
    <2>7. Endings'
        BY <1>18 DEF Unbind, Endings
    <2>8. Goodbye'
        <3>1. /\ bound /\ running = "no"
              /\ who = "oversip" => local_closed
              /\ local_closed' = ((local_closed \/ who = "timeout") /\ ~client_closed)
              /\ first' = IF first # "nobody" THEN first
                          ELSE IF who = "client" THEN "client" ELSE "oversip"
              /\ goodbye' = IF ~ws_established THEN goodbye
                            ELSE IF local_closed' THEN "oversip" ELSE "client"
            BY <1>18 DEF Unbind
        <3>2. Upgraded <=> ws_established
            BY <1>a, <3>1 DEF Established
        <3>3. CASE ~ws_established
            BY <1>a, <2>1, <3>1, <3>2, <3>3 DEF Goodbye, Endings
        <3>4. CASE ws_established
            <4>1. goodbye' = IF local_closed' THEN "oversip" ELSE "client"
                BY <3>1, <3>4
            <4>2. goodbye' = first'
                <5>1. CASE first = "nobody"
                    BY <1>a, <3>1, <4>1, <5>1 DEF Endings
                <5>2. CASE first = "client"
                    BY <1>a, <3>1, <4>1, <5>2 DEF Endings
                <5>3. CASE first = "oversip"
                    <6>1. local_closed /\ ~client_closed
                        BY <1>a, <3>1, <5>3 DEF Endings
                    <6>2. local_closed'
                        BY <3>1, <6>1
                    <6>3. goodbye' = "oversip"
                        BY <4>1, <6>2
                    <6>4. first' = first
                        BY <3>1, <5>3
                    <6>5. QED
                        BY <5>3, <6>3, <6>4
                <5>4. QED
                    BY <1>a, <5>1, <5>2, <5>3 DEF OtherTypes
            <4>3. QED
                BY <2>1, <3>2, <3>4, <4>2 DEF Goodbye
        <3>5. QED
            BY <3>3, <3>4
    <2>9. QED
        BY <2>2, <2>3, <2>4, <2>5, <2>6, <2>7, <2>8, Together
<1>19. CASE UNCHANGED vars
    <2>1. Upgraded' <=> Upgraded
        BY <1>19, <1>c DEF vars
    <2>2. FlagTypes'
        BY <1>19, <1>a DEF vars, FlagTypes
    <2>3. OtherTypes'
        BY <1>19, <1>a DEF vars, OtherTypes, Total
    <2>4. Pieced'
        BY <1>19, <1>a DEF vars, Pieced, Total
    <2>5. Phases'
        BY <1>19, <1>a, <2>1 DEF vars, Phases
    <2>6. Established'
        BY <1>19, <1>a, <2>1 DEF vars, Established
    <2>7. Endings'
        BY <1>19, <1>a DEF vars, Endings
    <2>8. Goodbye'
        BY <1>19, <1>a, <2>1 DEF vars, Goodbye
    <2>9. QED
        BY <2>2, <2>3, <2>4, <2>5, <2>6, <2>7, <2>8, Together
<1>20. QED
    BY <1>1, <1>2, <1>3, <1>4, <1>5, <1>6, <1>7, <1>8, <1>9, <1>9a, <1>10, <1>11, <1>12, <1>13,
       <1>14, <1>15, <1>16, <1>17, <1>18, <1>19 DEF Next, Rounds, Callbacks

-----------------------------------------------------------------------------
\* The inductive invariant holds in every reachable state.
THEOREM Invariance == Spec => []IInv
BY InitIInv, StepIInv, PTL DEF Spec

\* Every variable of a WebSocket connection keeps its type, for any number of
\* frames; in particular no more messages are processed than were sent.
THEOREM TypeCorrect == Spec => []TypeOK
<1>1. IInv => TypeOK
    BY DEF IInv
<1>2. QED
    BY <1>1, Invariance, PTL

\* No message reaches SIP before the TLS callback and on_connection have let the
\* client in, whatever arrives while they are suspended.
THEOREM ApprovedFirst == Spec => []NotBeforeApproval
<1>1. IInv => NotBeforeApproval
    <2>1. IInv => OtherTypes
        BY SplitTypes DEF IInv
    <2>2. QED
        BY <2>1 DEF IInv, OtherTypes, Phases, Established, NotBeforeApproval
<1>2. QED
    BY <1>1, Invariance, PTL

\* on_disconnection is called for exactly the upgraded connections, and is told
\* who ended them, whoever closes, vanishes or raises at whatever moment.
THEOREM TrueGoodbye == Spec => []Goodbye
<1>1. IInv => Goodbye
    BY DEF IInv
<1>2. QED
    BY <1>1, Invariance, PTL
=============================================================================
