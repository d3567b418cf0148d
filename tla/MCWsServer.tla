----------------------------- MODULE MCWsServer -----------------------------
(***************************************************************************)
(* An instance of WsServer: a request with all its headers, requests that   *)
(* lack one of them, and these with another header before or behind them.   *)
(***************************************************************************)
EXTENDS WsServer

Capital(text) == [text |-> text, marks |-> {"upper"}]
Number(digits) == [digits |-> digits]
L(name, values) == [name |-> Word(name), values |-> values]

Lines == <<
    L("Host", <<[text |-> "example.org", marks |-> {"upper", "dot"}], Number(<<8, 0>>)>>),
    L("Upgrade", <<Capital("websocket")>>),
    [name |-> Capital("Connection"), values |-> <<Word("keep-alive"), Capital("upgrade")>>],
    L("Sec-Websocket-Key", <<Word("key")>>),
    L("Origin", <<Capital("http://example.org")>>),
    L("Sec-Websocket-Version", <<Number(<<1, 3>>)>>),
    L("Sec-Websocket-Protocol", <<Word("msrp"), Word("sip")>>)>>

Others == {
    L("Host", <<Word("192.0.2.1"), Nil>>), L("Upgrade", <<Word("h2c")>>),
    L("Connection", <<Word("close")>>), L("Sec-Websocket-Version", <<Number(<<0, 8>>)>>),
    L("Sec-Websocket-Version", <<Number(<<1, 2>>)>>),
    L("Sec-Websocket-Protocol", <<Capital("sip")>>), L("Sec-Websocket-Key", <<Word("other")>>),
    L("Content-Length", <<Number(<<0, 1, 0>>)>>), L("Sec-Websocket-Origin", <<Word("null")>>),
    L("X", <<Nil>>)}

LineLists ==
    LET base == {Lines} \cup {RemoveAt(Lines, i) : i \in DOMAIN Lines}
    IN base \cup {Append(b, l) : b \in base, l \in Others} \cup {<<l>> \o Lines : l \in Others}

RichUri == [path |-> "/a", query |-> "q", fragment |-> "f"]

Text(method, uri, lines) ==
    [method |-> Word(method), uri |-> uri, version |-> Word("HTTP/1.1"), lines |-> lines]

Old(text) == [text EXCEPT !.version = Word("HTTP/1.0")]

Get(lines) == Text("GET", RichUri, lines)

MCRequests ==
    {[text |-> Get(lines), fault |-> "none"] : lines \in LineLists}
    \cup {[text |-> Text(m, [RichUri EXCEPT !.query = Nil, !.fragment = Nil], Lines), fault |-> "none"] :
            m \in {"POST", "OPTIONS", "CHICKEN"}}
    \cup {[text |-> Old(Get(Lines)), fault |-> "none"]}
    \cup {[text |-> Get(Lines), fault |-> f] : f \in {"broken", "long"}}
=============================================================================
