----------------------------- MODULE WsFraming -----------------------------
(***************************************************************************)
(* An established WebSocket connection: the framing layer                  *)
(* lib/oversip/websocket/ws_framing.rb over its SIP application            *)
(* ws_sip_app.rb and Connection#close of listeners/connection.rb.          *)
(*                                                                         *)
(* A frame arrives in up to four parts, each of which the code waits for   *)
(* as a whole: the first two bytes, a long payload length, the masking key *)
(* and the payload; the network may deliver any number of parts at a time. *)
(* The rounds of the loop in receive_data are the actions, and running is  *)
(* TRUE while it runs.  Of a payload only its size matters and, for UTF-8, *)
(* whether it consists of whole characters, ends in the middle of one,     *)
(* begins with the rest of one, or is invalid.                             *)
(***************************************************************************)
EXTENDS Integers, Sequences, FiniteSets, FiniteSetsExt, Totals

CONSTANTS
    max_frame_size,     \* max_ws_frame_size of the configuration
    max_message_size,   \* max_ws_message_size of the configuration
    MaxControl,         \* largest payload of a control frame (125)
    Traffic             \* sequences of frames that clients may send

Control == {"close", "ping", "pong"}
Opening == {"text", "binary"}

Frame == [op: Control \cup Opening \cup {"continuation"},
          fin: BOOLEAN,
          len: Nat,
          long: BOOLEAN,
          utf8: {"whole", "cut", "rest", "bad"},
          defect: {"none", "rsv", "opcode", "mask", "huge"}]

ASSUME FramingConstants ==
    /\ max_frame_size \in Nat /\ max_message_size \in Nat /\ MaxControl \in Nat
    /\ Traffic \subseteq Seq(Frame)

\* The parts a frame comes in, and those of frame p and the ones behind it.
Parts(f) == 2 + (IF f.long THEN 1 ELSE 0) + (IF f.len > 0 THEN 1 ELSE 0)

PartsFrom(fs, p) == Total([i \in 1..Len(fs) |-> Parts(fs[i])], p..Len(fs))

\* The octets in the payloads of the frames in S.
Volume(fs, S) == Total([i \in 1..Len(fs) |-> fs[i].len], S)

VARIABLES
    frames,     \* what the client sends
    unsent,     \* parts that have not arrived
    buffer,     \* parts in @buffer
    pos,        \* index of the frame the loop is at
    state,      \* @state
    running,    \* receive_data is running
    opcode,     \* @msg_sym_opcode, "nil" when no message is open
    validator,  \* @utf8_validator: "accept", "partial"
    message,    \* @ws_message: the frames whose payload it holds
    size,       \* @ws_message.size
    open,       \* the connection's @state is :websocket
    status,     \* the close frame sent: "none", "nil" or a status code
    delivered,  \* history: messages given to SIP
    pongs,      \* history: pings answered
    raised      \* history: the processing of a message raised

vars == <<frames, unsent, buffer, pos, state, running, opcode, validator,
          message, size, open, status, delivered, pongs, raised>>

wire == <<frames, unsent>>
content == <<opcode, validator, message, size>>
ending == <<open, status>>
history == <<delivered, pongs, raised>>

Statuses == {"none", "nil", "1002", "1007", "1008", "1009", "app"}

TypeOK ==
    /\ frames \in Traffic
    /\ unsent \in Nat /\ buffer \in Nat
    /\ pos \in 1..(Len(frames) + 1)
    /\ state \in {"init", "payload_length", "masking_key", "check_frame",
                  "payload_data", "process_frame"}
    /\ running \in BOOLEAN /\ open \in BOOLEAN /\ raised \in BOOLEAN
    /\ opcode \in Opening \cup {"nil"}
    /\ validator \in {"accept", "partial"}
    /\ message \in Seq(1..Len(frames))
    /\ size \in Nat
    /\ status \in Statuses
    /\ delivered \in Seq([op: Opening, parts: Seq(1..Len(frames)), last: 1..Len(frames)])
    /\ pongs \in Seq(1..Len(frames))

Init ==
    /\ frames \in Traffic
    /\ unsent = PartsFrom(frames, 1)
    /\ buffer = 0 /\ pos = 1
    /\ state = "init" /\ running = FALSE
    /\ opcode = "nil" /\ validator = "accept" /\ message = <<>> /\ size = 0
    /\ open = TRUE /\ status = "none"
    /\ delivered = <<>> /\ pongs = <<>> /\ raised = FALSE

cur == frames[pos]

\* @connection.close: a close frame if the connection is in the WebSocket
\* phase, and no data are read after it.
CloseConnection(s) ==
    /\ status' = IF open THEN s ELSE status
    /\ open' = FALSE
    /\ buffer' = 0
    /\ running' = FALSE

\* The frame is a protocol violation: close and leave the loop.
Fail(s) ==
    /\ CloseConnection(s)
    /\ UNCHANGED <<wire, pos, state, content, history>>

-----------------------------------------------------------------------------
\* receive_data of WsServer: n more parts.
ReceiveData(n) ==
    /\ open /\ ~running /\ n <= unsent
    /\ unsent' = unsent - n
    /\ buffer' = buffer + n
    /\ running' = TRUE
    /\ UNCHANGED <<frames, pos, state, content, ending, history>>

\* The loop ends: the part it needs is not there.
Await ==
    /\ running
    /\ buffer = 0
    /\ \/ state \in {"init", "payload_length", "masking_key"}
       \/ state = "payload_data" /\ cur.len > 0
    /\ running' = FALSE
    /\ UNCHANGED <<wire, buffer, pos, state, content, ending, history>>

\* state init: the first two bytes.
ReadHeader ==
    /\ running /\ state = "init" /\ buffer > 0
    /\ IF cur.defect \in {"rsv", "opcode", "mask"}
       THEN Fail("1002")
       ELSE /\ buffer' = buffer - 1
            /\ state' = IF cur.long THEN "payload_length" ELSE "masking_key"
            /\ UNCHANGED <<wire, pos, running, content, ending, history>>

\* states payload_length_2_bytes and payload_length_8_bytes.
ReadLength ==
    /\ running /\ state = "payload_length" /\ buffer > 0
    /\ IF cur.defect = "huge"
       THEN Fail("1008")
       ELSE /\ buffer' = buffer - 1
            /\ state' = "masking_key"
            /\ UNCHANGED <<wire, pos, running, content, ending, history>>

\* state masking_key.
ReadKey ==
    /\ running /\ state = "masking_key" /\ buffer > 0
    /\ buffer' = buffer - 1
    /\ state' = "check_frame"
    /\ UNCHANGED <<wire, pos, running, content, ending, history>>

\* Faulty variant: any frame has to respect the state of the message, also a
\* control frame between two fragments.
CheckFrameNoInterleaving ==
    /\ running /\ state = "check_frame"
    /\ IF \/ cur.op \in Control /\ (cur.len > MaxControl \/ ~cur.fin)
          \/ cur.op = "continuation" /\ opcode = "nil"
          \/ cur.op # "continuation" /\ opcode # "nil"
       THEN Fail("1002")
       ELSE IF cur.len > max_frame_size
       THEN Fail("1009")
       ELSE /\ state' = "payload_data"
            /\ UNCHANGED <<wire, buffer, pos, running, content, ending, history>>

\* Faulty variant: a new message may begin before the last one is finished.
CheckFrameNested ==
    /\ running /\ state = "check_frame"
    /\ IF \/ cur.op \in Control /\ (cur.len > MaxControl \/ ~cur.fin)
          \/ cur.op = "continuation" /\ opcode = "nil"
       THEN Fail("1002")
       ELSE IF cur.len > max_frame_size
       THEN Fail("1009")
       ELSE /\ state' = "payload_data"
            /\ UNCHANGED <<wire, buffer, pos, running, content, ending, history>>

\* state check_frame.
CheckFrame ==
    /\ running /\ state = "check_frame"
    /\ IF \/ cur.op \in Control /\ (cur.len > MaxControl \/ ~cur.fin)
          \/ cur.op = "continuation" /\ opcode = "nil"
          \/ cur.op \in Opening /\ opcode # "nil"
       THEN Fail("1002")
       ELSE IF cur.len > max_frame_size
       THEN Fail("1009")
       ELSE /\ state' = "payload_data"
            /\ UNCHANGED <<wire, buffer, pos, running, content, ending, history>>

\* state payload_data.
ReadPayload ==
    /\ running /\ state = "payload_data"
    /\ cur.len > 0 => buffer > 0
    /\ buffer' = IF cur.len > 0 THEN buffer - 1 ELSE buffer
    /\ state' = "process_frame"
    /\ UNCHANGED <<wire, pos, running, content, ending, history>>

-----------------------------------------------------------------------------
(* state process_frame, for each opcode.                                   *)

\* Utf8Validator#validate: the result and the state it leaves.
Validate(v, u) ==
    CASE v = "accept" /\ u = "whole" -> "accept"
      [] v = "accept" /\ u = "cut" -> "partial"
      [] v = "partial" /\ u = "rest" -> "accept"
      [] OTHER -> "reject"

\* The message with the payload of this frame.
Extended == IF cur.len > 0 THEN Append(message, pos) ELSE message

\* The payload is added to the message; size checked by receive_payload_data.
Store ==
    /\ message' = Extended
    /\ size' = size + cur.len

\* The message the application gets when this frame is stored.
Done(op) == [op |-> op, parts |-> Extended, last |-> pos]

\* message_done: SIP processes the message, which may make it (or the script)
\* close the connection, or raise.
MessageDone(op) ==
    /\ delivered' = Append(delivered, Done(op))
    /\ \/ /\ message' = <<>> /\ size' = 0 /\ opcode' = "nil"
          /\ \/ UNCHANGED <<buffer, running, ending, raised>>
             \/ CloseConnection("app") /\ UNCHANGED raised
       \/ /\ raised' = TRUE
          /\ Store
          /\ opcode' = op
          /\ running' = FALSE
          /\ UNCHANGED <<buffer, ending>>

\* The message goes on in a continuation frame.
MessageOpen(op) ==
    /\ Store
    /\ opcode' = op
    /\ UNCHANGED <<buffer, running, ending, delivered, raised>>

\* A text frame, or the continuation of a text message, with a bad payload.
BadText(v) == cur.len > 0 /\ \/ Validate(v, cur.utf8) = "reject"
                             \/ cur.fin /\ Validate(v, cur.utf8) = "partial"

\* A text frame.
ProcessText ==
    /\ running /\ state = "process_frame" /\ cur.op = "text"
    /\ state' = "init" /\ pos' = pos + 1
    /\ UNCHANGED <<wire, pongs>>
    /\ LET v == IF cur.len > 0 THEN Validate("accept", cur.utf8) ELSE "accept"
       IN IF BadText("accept")
          THEN /\ CloseConnection("1007")
               /\ opcode' = "text"
               /\ UNCHANGED <<validator, message, size, delivered, raised>>
          ELSE /\ validator' = v
               /\ IF size + cur.len > max_message_size
                  THEN /\ Store /\ opcode' = "text"
                       /\ CloseConnection("1009")
                       /\ UNCHANGED <<delivered, raised>>
                  ELSE IF cur.fin THEN MessageDone("text") ELSE MessageOpen("text")

\* A binary frame.
ProcessBinary ==
    /\ running /\ state = "process_frame" /\ cur.op = "binary"
    /\ state' = "init" /\ pos' = pos + 1
    /\ UNCHANGED <<wire, pongs, validator>>
    /\ IF size + cur.len > max_message_size
       THEN /\ Store /\ opcode' = "binary"
            /\ CloseConnection("1009")
            /\ UNCHANGED <<delivered, raised>>
       ELSE IF cur.fin THEN MessageDone("binary") ELSE MessageOpen("binary")

\* A continuation frame.  When the message gets too big the loop ends, and the
\* connection stays open.
ProcessContinuation ==
    /\ running /\ state = "process_frame" /\ cur.op = "continuation"
    /\ state' = "init" /\ pos' = pos + 1
    /\ UNCHANGED <<wire, pongs>>
    /\ LET v == IF cur.len > 0 /\ opcode = "text"
                THEN Validate(validator, cur.utf8) ELSE validator
       IN IF opcode = "text" /\ BadText(validator)
          THEN CloseConnection("1007") /\ UNCHANGED <<content, delivered, raised>>
          ELSE /\ validator' = v
               /\ IF cur.len > 0 /\ size + cur.len > max_message_size
                  THEN /\ Store
                       /\ running' = FALSE
                       /\ UNCHANGED <<opcode, buffer, ending, delivered, raised>>
                  ELSE IF cur.fin THEN MessageDone(opcode)
                  ELSE MessageOpen(opcode)

\* A close frame: it is answered, with 1007 when its reason is no valid UTF-8.
ProcessClose ==
    /\ running /\ state = "process_frame" /\ cur.op = "close"
    /\ state' = "init" /\ pos' = pos + 1
    /\ CloseConnection(IF cur.len > 0 /\ cur.utf8 # "whole" THEN "1007" ELSE "nil")
    /\ UNCHANGED <<wire, content, history>>

\* A ping, which is answered, or a pong.
ProcessPing ==
    /\ running /\ state = "process_frame" /\ cur.op \in {"ping", "pong"}
    /\ state' = "init" /\ pos' = pos + 1
    /\ pongs' = IF cur.op = "ping" THEN Append(pongs, pos) ELSE pongs
    /\ UNCHANGED <<wire, buffer, running, content, ending, delivered, raised>>

\* The script closes the connection while no data are being read.
ScriptCloses ==
    /\ open /\ ~running
    /\ CloseConnection("app")
    /\ UNCHANGED <<wire, pos, state, content, history>>

-----------------------------------------------------------------------------
Rounds ==
    \/ Await \/ ReadHeader \/ ReadLength \/ ReadKey \/ CheckFrame \/ ReadPayload
    \/ ProcessText \/ ProcessBinary \/ ProcessContinuation \/ ProcessClose \/ ProcessPing

Next == Rounds \/ ScriptCloses \/ \E n \in 1..unsent : ReceiveData(n)

\* The loop runs and the network delivers.
Fairness == WF_vars(Rounds) /\ WF_vars(\E n \in 1..unsent : ReceiveData(n))

Spec == Init /\ [][Next]_vars /\ Fairness

-----------------------------------------------------------------------------
(* What RFC 6455 allows a client to send, as a reference: about frame i of *)
(* the frames fs.                                                          *)

Data(fs, i) == fs[i].op \notin Control

\* The frame that opens the message frame i belongs to, and its payloads.
Opener(fs, i) == Max({j \in 1..i : fs[j].op \in Opening})

HasOpener(fs, i) == \E j \in 1..i : fs[j].op \in Opening

Payloads(fs, i) == {j \in Opener(fs, i)..i : Data(fs, j) /\ fs[j].len > 0}

\* Frame i comes while a message is unfinished.
Unfinished(fs, i) ==
    \E j \in 1..(i - 1) : /\ Data(fs, j) /\ ~fs[j].fin
                          /\ \A k \in (j + 1)..(i - 1) : ~Data(fs, k)

LegalUtf8(fs, i) ==
    LET before == Payloads(fs, i) \ {i}
        v == IF before = {} \/ fs[Max(before)].utf8 \in {"whole", "rest"}
             THEN "accept" ELSE "partial"
        w == IF fs[i].len > 0 THEN Validate(v, fs[i].utf8) ELSE v
    IN fs[Opener(fs, i)].op = "text" =>
         w # "reject" /\ (fs[i].fin => w = "accept")

Legal(fs, i) ==
    /\ fs[i].defect = "none" /\ fs[i].len <= max_frame_size
    /\ IF Data(fs, i)
       THEN /\ fs[i].op = "continuation" <=> Unfinished(fs, i)
            /\ LegalUtf8(fs, i)
            /\ Volume(fs, Payloads(fs, i)) <= max_message_size
       ELSE /\ fs[i].fin /\ fs[i].len <= MaxControl
            /\ fs[i].op = "close" => fs[i].len = 0 \/ fs[i].utf8 = "whole"

AllLegal(fs) == \A i \in 1..Len(fs) : Legal(fs, i)

-----------------------------------------------------------------------------
(* Properties.                                                             *)

\* The frames a message has the payloads of, and that they are in order.
Stored(m) == {m[i] : i \in 1..Len(m)}
Ordered(m) == \A i, j \in 1..Len(m) : i < j => m[i] < m[j]

Intact(fs, d) ==
    /\ fs[d.last].fin /\ Data(fs, d.last) /\ HasOpener(fs, d.last)
    /\ d.op = fs[Opener(fs, d.last)].op
    /\ Stored(d.parts) = Payloads(fs, d.last) /\ Ordered(d.parts)
    /\ \A i \in 1..d.last : fs[i].op # "close"

\* What SIP gets is a message of the client: the payloads of its frames, all
\* of them, once and in order, whatever control frames came in between and
\* however the stream was cut; and nothing comes from behind a close frame, even
\* if it arrived with that in one segment.
DeliveredIntact == ~raised => \A n \in 1..Len(delivered) : Intact(frames, delivered[n])

\* A client that keeps to the protocol and the limits is never disconnected by
\* the framing layer.
LegalNotRefused ==
    (~raised /\ AllLegal(frames)) => status \in {"none", "nil", "app"}

-----------------------------------------------------------------------------
(* The inductive invariant.                                                *)

\* The parts of the frame that have been read in each state.
PartsRead ==
    CASE state = "init" -> 0
      [] state = "payload_length" -> 1
      [] state = "masking_key" -> IF cur.long THEN 2 ELSE 1
      [] state \in {"check_frame", "payload_data"} -> IF cur.long THEN 3 ELSE 2
      [] OTHER -> Parts(cur)

\* No part is lost or read twice: the loop is where the stream says it is.
InStep ==
    /\ running => open
    /\ state # "init" => pos <= Len(frames)
    /\ state = "payload_length" => cur.long
    /\ open => unsent + buffer + PartsRead = PartsFrom(frames, pos)

\* A frame that has been checked fits the state of the message.
FrameFits ==
    state \in {"payload_data", "process_frame"} =>
        /\ cur.op = "continuation" => opcode # "nil"
        /\ cur.op \in Opening => opcode = "nil"

\* The open message has the payloads from its first frame on.
Collected ==
    /\ \A i \in 1..(pos - 1) : frames[i].op # "close"
    /\ Ordered(message)
    /\ size = Volume(frames, Stored(message))
    /\ opcode = "nil" => message = <<>>
    /\ opcode # "nil" =>
         \E o \in 1..(pos - 1) :
            /\ frames[o].op = opcode
            /\ \A j \in (o + 1)..(pos - 1) : frames[j].op \notin Opening
            /\ Stored(message) = {j \in o..(pos - 1) : Data(frames, j) /\ frames[j].len > 0}

\* The validator is in the middle of a character if the last payload is.
Validated ==
    opcode = "text" =>
        validator = IF message = <<>> \/ frames[message[Len(message)]].utf8 \in {"whole", "rest"}
                    THEN "accept" ELSE "partial"

\* With a client that keeps to the protocol, a message is open exactly when the
\* client has not finished it.
OpenAsSent == AllLegal(frames) => (opcode # "nil" <=> Unfinished(frames, pos))

IInv ==
    /\ TypeOK
    /\ InStep
    /\ FrameFits
    /\ (open /\ ~raised) => Collected /\ Validated /\ OpenAsSent
    /\ DeliveredIntact
    /\ LegalNotRefused
=============================================================================
