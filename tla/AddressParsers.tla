--------------------------- MODULE AddressParsers ---------------------------
(***************************************************************************)
(* The functions that run the address machines over a text:                *)
(* utils_ip_parser_execute, outbound_udp_flow_token_parser_execute and      *)
(* struct_haproxy_protocol_parser_execute, with the results their Ruby      *)
(* wrappers return (utils_ruby.c); and the SIP message, URI and HTTP        *)
(* parsers while they read an IPv6 reference.                               *)
(*                                                                          *)
(* The text is offered one character at a time, any character at any time,  *)
(* so that every state stands for all the texts that lead to it, and what   *)
(* the function would return if the text ended there is a state function.   *)
(* Beside the machine runs a reader that knows nothing of its states: it    *)
(* counts groups, octets and digits (RFC 3986 and RFC 3261, section 25).    *)
(***************************************************************************)
EXTENDS IpUtils, OutboundUtils, HaproxyProtocol, HostReferences

VARIABLES
    machine,  \* which function runs, or which reference is read, or "none"
    allow_name_addr,  \* the argument of sip_uri_parser_execute
    cs,       \* its current state; 0 once it has left at a character
    parsed,   \* its local variables and the struct it fills
    reader    \* what a reader of the same text knows

addressVars == <<machine, allow_name_addr, cs, parsed, reader>>

AddressFunctions == {"ip", "outbound", "haproxy"}
Bare == {"uri_absolute", "uri_authority", "uri_sip"}

InUri == DOMAIN UriPlaces

\* The rows of each machine, and where it begins and ends.
Table == [ip |-> IpTable, outbound |-> ObTable, haproxy |-> HaTable] @@ MessageReferences
Rows == 0 :> (Table @@ UriReferences(0)) @@ 1 :> (Table @@ UriReferences(1))

Places == [ip |-> [first |-> 1, final |-> IpFinal],
           outbound |-> [first |-> 1, final |-> ObFinal],
           haproxy |-> [first |-> 1, final |-> HaFinal]]
          @@ MessagePlaces @@ UriPlaces

FinalStates == Places[machine].final

----------------------------------------------------------------------------
(* The functions. The struct's pointers ip_s and port_s are kept as the     *)
(* distance of fpc from them; the first is not followed past end_ip.        *)

Blank == [ip_type |-> "error", ip_s |-> 0, ip_len |-> 0, port_s |-> 0, port_len |-> 0,
          finished |-> FALSE]

\* The actions of one transition, then ++p. Those that open a field are
\* executed before those that close it.
Execute(old, acts) ==
    LET type == CASE "is_ipv4" \in acts -> "ipv4"
                  [] "is_ipv6" \in acts -> "ipv6"
                  [] "is_ipv6_reference" \in acts -> "ipv6_reference"
                  [] OTHER -> old.ip_type
        portAt == IF "start_port" \in acts THEN 0 ELSE old.port_s
    IN [ip_type |-> type,
        ip_s |-> IF "start_ip" \in acts THEN 1
                 ELSE IF "end_ip" \in acts \/ old.ip_s = 0 THEN 0 ELSE old.ip_s + 1,
        ip_len |-> IF "end_ip" \in acts THEN old.ip_s ELSE old.ip_len,
        port_s |-> IF portAt = 0 /\ "start_port" \notin acts THEN 0 ELSE portAt + 1,
        port_len |-> IF "end_port" \in acts THEN portAt + 1 ELSE old.port_len,
        finished |-> \/ old.finished
                     \/ "done" \in acts
                     \/ "end_port" \in acts /\ machine = "outbound"]

\* One round of the generated loop: a character without a transition leaves
\* the function with p before the end of the text.
Run(c) ==
    \E rows \in {Rows[allow_name_addr][machine]} :
      IF cs \in DOMAIN rows /\ c \in DOMAIN rows[cs]
      THEN LET t == rows[cs][c]
           IN cs' = t.to /\ parsed' = Execute(parsed, t.do)
      ELSE cs' = 0 /\ UNCHANGED parsed

\* Faulty variant: nobody asks whether the whole text was read.
OutboundValidSoFar == parsed.finished

\* What the Ruby wrapper answers if the text ends here: ip_type, or
\* parse_outbound_udp_flow_token, or parse_haproxy_protocol.
Utils_ip_type == IF cs = 0 THEN "error" ELSE parsed.ip_type
OutboundValid == parsed.finished /\ cs # 0
HaproxyValid == parsed.finished
Answers == CASE machine = "ip" -> Utils_ip_type # "error"
             [] machine = "outbound" -> OutboundValid
             [] machine = "haproxy" -> HaproxyValid
             [] OTHER -> cs \in FinalStates

----------------------------------------------------------------------------
(* The reader: what it has counted of the address and of the port it is in. *)

NoRun == [digits |-> 0, decimal |-> TRUE, zero |-> FALSE, naught |-> TRUE, order |-> "equal"]
NoAddress == [groups |-> 0, gap |-> FALSE, colons |-> 0, dots |-> 0,
              run |-> NoRun]
StartReader == [part |-> "start", at |-> 0, address |-> NoAddress, port |-> NoRun,
                type |-> "error", ip_len |-> 0, port_len |-> 0]

\* A run of digits with one more. `order` compares it with the digits of the
\* limit that it may not exceed: below, equal or above so far.
Longer(run, c, limit) ==
    LET n == run.digits + 1
    IN IF c \notin Digit \/ ~run.decimal
       THEN [NoRun EXCEPT !.digits = n, !.decimal = FALSE]
       ELSE
       [digits |-> n,
        decimal |-> TRUE,
        zero |-> IF n = 1 THEN c = "0" ELSE run.zero,
        naught |-> run.naught /\ c = "0",
        order |-> IF run.order # "equal" \/ n > Len(limit) THEN run.order
                  ELSE IF DigitValue[c] < limit[n] THEN "below"
                  ELSE IF DigitValue[c] > limit[n] THEN "above" ELSE "equal"]

\* 0 to 255 without leading zeros.
IsOctet(run) == /\ run.decimal
                /\ run.digits \in 1..3
                /\ run.zero => run.digits = 1
                /\ run.digits = 3 => run.order # "above"

\* The number of 16-bit groups an address would have if it ended here.
Groups(a) == a.groups + (IF a.dots = 3 THEN 2 ELSE IF a.run.digits > 0 THEN 1 ELSE 0)

AddressType(a) ==
    LET whole == a.dots = 0 \/ (a.dots = 3 /\ IsOctet(a.run))
    IN CASE a.dots = 3 /\ IsOctet(a.run) /\ a.groups = 0 /\ ~a.gap -> "ipv4"
         [] /\ whole
            /\ a.run.digits > 0 \/ a.colons = 2
            /\ IF a.gap THEN Groups(a) <= 7 ELSE Groups(a) = 8 -> "ipv6"
         [] OTHER -> "error"

\* The address with one more character, or none if no address has that prefix
\* (a few prefixes without a completion are given up only later).
Extend(a, c) ==
    IF c \in Hex /\ a.run.digits < 4 /\ (a.dots > 0 => c \in Digit)
                 /\ ~(a.colons = 1 /\ a.groups = 0)
    THEN {[a EXCEPT !.colons = 0,
                    !.run = Longer(@, c, <<2, 5, 5>>)]}
    ELSE IF c = ":" /\ a.dots = 0 /\ a.groups < 8 /\ a.run.digits > 0
    THEN {[a EXCEPT !.groups = @ + 1, !.colons = 1, !.run = NoRun]}
    ELSE IF c = ":" /\ a.dots = 0 /\ ~a.gap /\ (a.colons = 1 \/ a = NoAddress)
    THEN {[a EXCEPT !.gap = a.colons = 1, !.colons = @ + 1]}
    ELSE IF c = "." /\ a.dots < 3 /\ IsOctet(a.run)
    THEN {[a EXCEPT !.dots = @ + 1, !.run = NoRun]}
    ELSE {}

\* 1 to 65535: up to four digits that are not all zero, or five without a
\* leading zero.
IsPort(run) == /\ run.digits \in 1..5
               /\ ~run.naught
               /\ run.digits = 5 => ~run.zero /\ run.order # "above"

Word == <<"P", "R", "O", "X", "Y", " ", "T", "C", "P">>

\* The reader after one more character, or none if the text is no longer the
\* beginning of what the function is for.
Enter(part) == [reader EXCEPT !.part = part, !.at = 0, !.address = NoAddress, !.port = NoRun]

\* (the length of the destination is nobody's concern).
ReadAddress(c) == {[reader EXCEPT !.address = a,
                                  !.at = IF reader.part \in {"destination", "reference"} \/ machine = "ip"
                                         THEN 0 ELSE @ + 1] :
                     a \in Extend(reader.address, c)}

ReadPort(c) == IF c \in Digit /\ reader.port.digits < 5
               THEN {[reader EXCEPT !.port = Longer(@, c, <<6, 5, 5, 3, 5>>)]}
               ELSE {}

\* Leave the first address at the separator, keeping its type and length.
KeepAddress(part) == [Enter(part) EXCEPT !.type = AddressType(reader.address),
                                         !.ip_len = reader.at]

Reads(c) ==
    LET type == AddressType(reader.address)
    IN CASE machine = "ip" /\ reader.part = "start" ->
              IF c = "[" /\ reader.address = NoAddress THEN {Enter("reference")} ELSE ReadAddress(c)
         [] reader.part = "reference" ->
              IF c = "]" THEN IF type = "ipv6"
                              THEN {[Enter("end") EXCEPT !.type = "ipv6_reference"]} ELSE {}
              ELSE ReadAddress(c)
         [] machine = "outbound" /\ reader.part = "start" ->
              IF c = "_" /\ type # "error" THEN {KeepAddress("port")} ELSE ReadAddress(c)
         [] machine = "haproxy" /\ reader.part = "start" ->
              CASE reader.at < 9 /\ c = Word[reader.at + 1] -> {[reader EXCEPT !.at = @ + 1]}
                [] reader.at = 9 /\ c \in {"4", "6"} -> {[reader EXCEPT !.at = @ + 1]}
                [] reader.at = 10 /\ c = " " -> {Enter("source")}
                [] OTHER -> {}
         [] reader.part = "source" ->
              IF c = " " THEN IF type # "error" THEN {KeepAddress("destination")} ELSE {}
              ELSE ReadAddress(c)
         [] reader.part = "destination" ->
              IF c = " " THEN IF type # "error" THEN {Enter("port")} ELSE {}
              ELSE ReadAddress(c)
         [] reader.part = "port" ->
              IF c = " " /\ machine = "haproxy" /\ IsPort(reader.port)
              THEN {[Enter("dport") EXCEPT !.port_len = reader.port.digits]}
              ELSE ReadPort(c)
         [] reader.part = "dport" ->
              IF c = "\r" /\ IsPort(reader.port) THEN {Enter("cr")} ELSE ReadPort(c)
         [] reader.part = "cr" -> IF c = "\n" THEN {Enter("line")} ELSE {}
         [] reader.part = "line" -> {reader}
         [] OTHER -> {}

\* What the reader makes of the text if it ends here.
ReaderType == IF machine = "ip" /\ reader.part = "start" THEN AddressType(reader.address)
              ELSE reader.type
ReaderAccepts == CASE machine = "ip" -> ReaderType # "error" /\ reader.part \in {"start", "end"}
                   [] machine = "outbound" -> reader.part = "port" /\ IsPort(reader.port)
                   [] machine = "haproxy" -> reader.part = "line"
                   \* "uri..." is for a bare URI, "addr..." for an address.
                   [] OTHER -> /\ reader.part = "end"
                               /\ machine \in InUri
                                    => allow_name_addr = IF machine \in Bare THEN 0 ELSE 1

Lost == [StartReader EXCEPT !.part = "lost"]

----------------------------------------------------------------------------
AddressInit == /\ machine \in DOMAIN Places
               /\ allow_name_addr \in (IF machine \in InUri THEN {0, 1} ELSE {0})
               /\ cs = Places[machine].first
               /\ parsed = Blank
               /\ reader = IF machine \in AddressFunctions THEN StartReader
                           ELSE [StartReader EXCEPT !.part = "reference"]

\* No function runs.
AddressIdle == /\ machine = "none" /\ allow_name_addr = 0 /\ cs = 0
               /\ parsed = Blank /\ reader = Lost

\* The text goes on with c. Nothing is left to learn once both have left it.
ReadCharacter(c) ==
    /\ ~(cs = 0 /\ reader.part \in {"lost", "line"})
    /\ Run(c)
    /\ \E next \in {Reads(c)} : reader' \in IF next = {} THEN {Lost} ELSE next
    /\ UNCHANGED <<machine, allow_name_addr>>

\* Only the HAProxy line has words; to the others "C" is like "a", and the other
\* letters are like "?".
Alphabet == IF machine = "haproxy" THEN Chars
            ELSE Chars \ {"C", "P", "R", "O", "X", "Y", "T"}

AddressNext == \E c \in Alphabet : ReadCharacter(c)

----------------------------------------------------------------------------
\* Each generated machine is in a final state exactly after the texts the
\* grammar means, whatever the text: an IPv6 address has eight groups, or at
\* most seven and one "::", the last two of which may be an IPv4 address;
\* octets end at 255, ports at 65535. The Outbound and HAProxy functions answer
\* exactly these texts, and a host in brackets means the same in each of the
\* 38 places of the SIP and HTTP grammars where one may stand.
Recognises ==
    /\ machine # "haproxy" => (cs \in FinalStates <=> ReaderAccepts)
    /\ machine # "ip" => (Answers <=> ReaderAccepts)

\* An accepted text yields the type, the address and the port that it spells:
\* the pointers and lengths of the struct delimit the fields, although they
\* are set by actions scattered over the transitions. utils_ip_parser_execute
\* answers beyond the accepted texts (it does not ask whether the machine
\* stopped in a final state), but only "ipv6", and only for an IPv6 address
\* that is cut after a colon or within its IPv4 part.
FieldsExact ==
    machine \in AddressFunctions =>
    IF ReaderAccepts
    THEN /\ parsed.ip_type = ReaderType
         /\ machine # "ip" => parsed.ip_len = reader.ip_len
         /\ machine = "outbound" => parsed.port_len = reader.port.digits
         /\ machine = "haproxy" => parsed.port_len = reader.port_len
    ELSE Answers => /\ Utils_ip_type = "ipv6"
                    /\ reader.address.gap
                    /\ reader.address.colons = 1 \/ reader.address.dots > 0

\* The address machines mean what the grammar means, in what they accept and in
\* what they take from it.
AddressesExact == machine # "none" => Recognises /\ FieldsExact
=============================================================================
