----------------------------- MODULE MCParsers -----------------------------
(***************************************************************************)
(* An instance of the parsers and of the UDP socket: texts that between     *)
(* them take every path of the grammar, and for the address machines every  *)
(* text there is.                                                           *)
(***************************************************************************)
EXTENDS SipMeaning, AddressParsers

Tok(word) == [text |-> word, marks |-> {}]
Mark(word, marks) == [text |-> word, marks |-> marks]
Num(digits) == [digits |-> digits]
P(key, value) == [key |-> key, value |-> value]
Flag(key) == P(Tok(key), Nil)

----------------------------------------------------------------------------
(* URIs and addresses.                                                      *)

Uri(scheme, user, host, type, port, params, headers) ==
    [scheme |-> scheme, user |-> user, host |-> host, type |-> type, port |-> port,
     params |-> params, headers |-> headers]

Rich == Uri(Tok("sip"), Mark("alice", {"escaped", "upper"}), Mark("host", {"upper", "dot"}),
            "domain", Num(<<5, 0, 6, 1>>),
            <<P(Mark("transport", {"upper"}), Mark("tcp", {"upper"})), Flag("lr"),
              P(Tok("ovid"), Tok("1234")), Flag("ob"), P(Tok("x"), Tok("y")), Flag("z")>>,
            Tok("a=b"))
Secure == Uri(Mark("sips", {"upper"}), Nil, Mark("2001:db8::1", {"longhand", "upper"}), "ipv6", Nil,
              <<P(Tok("transport"), Mark("foo", {"upper"})), Flag("lr")>>, Nil)
Plainly == Uri(Tok("sip"), Tok("bob"), Tok("192.0.2.9"), "ipv4", Nil, <<>>, Nil)
Phone == Uri(Tok("tel"), Mark("+34600", {"separators"}), Nil, Nil, Nil,
             <<P(Tok("phone-context"), Mark("example.org", {"upper", "dot"}))>>, Nil)
Web == Uri(Mark("http", {"upper"}), Nil, Nil, Nil, Nil, <<>>, Nil)

NA(display, uri, params) == [display |-> display, brackets |-> TRUE, uri |-> uri, params |-> params]
BareAddress(uri, params) == [display |-> Nil, brackets |-> FALSE, uri |-> uri, params |-> params]

Quoted == Mark("Alice Doe", {"quoted"})
Unquoted_ == Tok("Alice")
Tag == P(Tok("tag"), Tok("t1"))
RegId == P(Tok("reg-id"), Tok("1"))

----------------------------------------------------------------------------
(* Lines.                                                                   *)

L(name, values) == [name |-> Tok(name), values |-> values, cut |-> Nil]
Cut(name, values, where) == [name |-> Tok(name), values |-> values, cut |-> where]

Here == "192.0.2.1"
Branch == P(Tok("branch"), Mark("z9hG4bKx", {"z9hG4bK"}))
OldBranch == P(Tok("branch"), Tok("x"))
ViaOf(host, port, params) == [host |-> Tok(host), port |-> port, params |-> params]

NearVia == ViaOf(Here, Nil, <<Branch>>)
FarVia == ViaOf("far", Num(<<5, 0, 6, 2>>),
                <<P(Mark("x", {"upper"}), Tok("y")), Branch, Flag("rport"), Flag("alias"), Flag("z"),
                  P(Tok("received"), Tok("10.0.0.1"))>>)
OldVia == ViaOf(Here, Nil, <<OldBranch>>)
BareVia == ViaOf("far", Nil, <<>>)

Invite == [kind |-> "request", method |-> Tok("INVITE"), uri |-> Rich, version |-> Tok("SIP/2.0")]
Request(method, uri) == [Invite EXCEPT !.method = Tok(method), !.uri = uri]
Ringing == [kind |-> "response", version |-> Tok("SIP/2.0"), status |-> Num(<<1, 8, 0>>),
            reason |-> Tok("Ringing")]

MCStartLines == {Invite, Request("CANCEL", Plainly), Request("ACK", Phone), Request("FOO", Web),
                 Request("OPTIONS", Secure), Ringing}

CoreWith(via, from, to) ==
    <<via, from, to, L("Call-ID", <<Tok("c1")>>), L("CSeq", <<Num(<<7>>), Tok("INVITE")>>)>>

From1 == L("From", <<NA(Quoted, Rich, <<Tag>>)>>)
From2 == L("F", <<BareAddress(Plainly, <<Flag("x"), Tag>>)>>)
To1 == L("T", <<NA(Unquoted_, Phone, <<>>)>>)
To2 == L("To", <<NA(Nil, Web, <<Tag>>)>>)

Cores == {CoreWith(L("Via", <<NearVia>>), From1, To1), CoreWith(L("V", <<FarVia, OldVia>>), From2, To2)}

Others == {
    L("V", <<OldVia, NearVia>>), L("Via", <<BareVia>>),
    From1, To2, L("I", <<Tok("c2")>>),
    L("CSeq", <<Num(<<0, 8>>), Tok("FOO")>>),
    L("Max-Forwards", <<Num(<<7, 0>>)>>),
    L("Content-Length", <<Num(<<1>>)>>), L("L", <<Num(<<0, 1>>)>>),
    L("Route", <<NA(Unquoted_, Rich, <<>>), NA(Nil, Secure, <<>>)>>),
    L("Route", <<NA(Quoted, Plainly, <<>>)>>),
    L("Contact", <<NA(Quoted, Rich, <<RegId>>)>>),
    L("M", <<NA(Unquoted_, Plainly, <<>>), BareAddress(Secure, <<>>)>>),
    Cut("Contact", <<NA(Quoted, Plainly, <<>>)>>, "name"),
    Cut("Contact", <<NA(Quoted, Plainly, <<>>)>>, "uri"),
    Cut("M", <<NA(Unquoted_, Plainly, <<RegId>>)>>, "rest"),
    Cut("Contact", <<NA(Unquoted_, Plainly, <<>>)>>, "start"),
    L("S", <<Tok("subject")>>)}

Pairs == {
    <<L("Require", <<Tok("a"), Mark("b", {"upper"})>>), L("Proxy-Require", <<Tok("sec-agree")>>)>>,
    <<L("K", <<Tok("path")>>), L("Supported", <<>>)>>,
    <<L("S", <<Tok("subject")>>), L("Subject", <<Tok("subject")>>)>>}

MCBlocks == Cores \cup Pairs \cup {<<l>> : l \in Others}

----------------------------------------------------------------------------
(* STUN.                                                                    *)

Transaction == <<1, 2, 3, 4, 5, 6, 7, 8, 9, 10, 11, 255>>
MCStunRequests == [first : {0}, second : {1, 17}, length : {8, 20}, cookie : {MagicCookie, <<33, 18, 164, 67>>},
                   transaction : {Transaction}]
MCSources == {[ip |-> <<192, 0, 2, 1>>, port |-> 5060],
              [ip |-> <<32, 1, 13, 184, 0, 0, 0, 0, 0, 0, 0, 0, 0, 0, 0, 1>>, port |-> 65535]}

\* Either datagrams come to the socket, or one address machine reads a text.
MCInit == \/ UdpInit /\ AddressIdle
          \/ UdpInit /\ AddressInit

MCNext == \/ machine = "none" /\ UdpNext /\ UNCHANGED addressVars
          \/ machine # "none" /\ AddressNext /\ UNCHANGED udpVars

MCSpec == MCInit /\ [][MCNext]_<<udpVars, addressVars>>
=============================================================================
