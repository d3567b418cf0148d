-------------------------- MODULE MCTcpConnection --------------------------
(***************************************************************************)
(* Streams of up to three messages for TcpConnection: every kind of        *)
(* message, with headers of one or two units that are within the limit,    *)
(* headers of three units that exceed it, and bodies of up to two units.   *)
(***************************************************************************)
EXTENDS TcpConnection

Message1(k, h, b) == [kind |-> k, hdr |-> h, body |-> b]

\* A representative of each case of parse_headers.
Shapes ==
    {Message1("request", 2, 0), Message1("request", 1, 2),
     Message1("cancel", 1, 0), Message1("response", 1, 1),
     Message1("keepalive", 1, 0), Message1("refused", 1, 0),
     Message1("branchless", 2, 1), Message1("broken", 2, 0), Message1("request", 3, 0)}

MCStreams == UNION {[1..n -> Shapes] : n \in 1..3}

\* Streams of the TLS tunnel: the HAProxy line comes first.
TunnelStreams ==
    {<<Message1("haproxy", 2, 0)>> \o s : s \in UNION {[1..n -> Shapes] : n \in 0..1}}

AllStreams == MCStreams \cup TunnelStreams
=============================================================================
