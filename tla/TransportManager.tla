-------------------------- MODULE TransportManager --------------------------
(***************************************************************************)
(* OverSIP::SIP::TransportManager with the connections it hands out        *)
(* (lib/oversip/sip/transport_manager.rb and listeners/tcp_client.rb,      *)
(* tls_client.rb, tcp_server.rb, tls_tunnel_connection.rb and              *)
(* tls_tunnel_server.rb), as client transactions use them to reach one     *)
(* remote address over TCP or TLS.                                         *)
(*                                                                         *)
(* table is the entry of that address in klass.connections.  A connection  *)
(* that OverSIP opens is there from its creation on; one the peer opens    *)
(* from the same address takes the entry over.  close_connection only asks *)
(* the reactor to close: unbind comes later, as it does when the peer      *)
(* closes or the connection attempt fails.  The script's callback          *)
(* on_server_tls_handshake runs in a fiber and may suspend it, so anything *)
(* can happen between its start and its end.                               *)
(*                                                                         *)
(* Each client transaction sends one request; its timers are those of the  *)
(* transaction modules and left out here.                                  *)
(***************************************************************************)
EXTENDS Integers, Sequences, FiniteSets

CONSTANTS
    Tx,         \* client transactions
    MaxConns    \* bound on the connections created

ASSUME ManagerConstants == IsFiniteSet(Tx) /\ MaxConns \in Nat

VARIABLES
    transport,  \* klass.transport, "tcp" or "tls"
    asks,       \* callback_on_server_tls_handshake of each transaction's conf
    table,      \* klass.connections["ip_port"], 0 for nil
    conn,       \* the connections
    pending,    \* @pending_client_transactions of each connection
    messages,   \* @pending_messages of each connection
    via,        \* the connection of each transaction, 0 before it has one
    wire,       \* transactions whose request was given to the socket
    told        \* history: how often each transaction was told of a failure

vars == <<transport, asks, table, conn, pending, messages, via, wire, told>>

Conns == 1..MaxConns

Clients == {"tcp", "tls"}

NoConn == [kind |-> "none", link |-> "none", connected |-> FALSE,
           callback |-> FALSE, fiber |-> "none", local_closed |-> FALSE]

Connection ==
    [kind: {"none", "tcp", "tls", "server", "tunnel"},
     link: {"none", "connecting", "up", "closing", "dead"},
     connected: BOOLEAN, callback: BOOLEAN,
     fiber: {"none", "running", "done"}, local_closed: BOOLEAN]

TypeOK ==
    /\ transport \in Clients /\ asks \in [Tx -> BOOLEAN]
    /\ table \in {0} \cup Conns
    /\ conn \in [Conns -> Connection]
    /\ pending \in [Conns -> SUBSET Tx]
    /\ messages \in [Conns -> Seq(Tx)]
    /\ via \in [Tx -> {0} \cup Conns]
    /\ wire \subseteq Tx
    /\ told \in [Tx -> 0..1]

Init ==
    /\ transport \in Clients
    /\ asks \in IF transport = "tls" THEN [Tx -> BOOLEAN] ELSE {[t \in Tx |-> FALSE]}
    /\ table = 0
    /\ conn = [c \in Conns |-> NoConn]
    /\ pending = [c \in Conns |-> {}]
    /\ messages = [c \in Conns |-> <<>>]
    /\ via = [t \in Tx |-> 0]
    /\ wire = {}
    /\ told = [t \in Tx |-> 0]

\* The next connection object, if the bound allows one.
Fresh(c) == conn[c].kind = "none" /\ \A d \in Conns : d < c => conn[d].kind # "none"

Tell(ts) == told' = [t \in Tx |-> told[t] + (IF t \in ts THEN 1 ELSE 0)]

InQueue(c) == {messages[c][i] : i \in 1..Len(messages[c])}

-----------------------------------------------------------------------------
(* Requests of client transactions.                                        *)

\* send_sip_msg of transaction t on connection c, in state k: held back until
\* a TLS connection is ready, dropped (the result is not looked at) on one
\* that is gone.
SendSipMsg(t, c, k) ==
    LET held == k.kind = "tls" /\ ~k.connected
    IN /\ messages' = IF k.link # "dead" /\ held
                      THEN [messages EXCEPT ![c] = Append(@, t)] ELSE messages
       /\ wire' = IF k.link # "dead" /\ ~held THEN wire \cup {t} ELSE wire

\* Faulty variant: a transaction that shares an attempt is not remembered.
AttachFirstOnly(t, c, k) ==
    /\ via' = [via EXCEPT ![t] = c]
    /\ IF k.kind \in Clients /\ ~k.connected
       THEN /\ conn' = [conn EXCEPT ![c] = [k EXCEPT !.callback = asks[t]]]
            /\ pending' = [pending EXCEPT ![c] = IF @ = {} THEN {t} ELSE @]
       ELSE conn' = [conn EXCEPT ![c] = k] /\ UNCHANGED pending
    /\ SendSipMsg(t, c, k)

\* While the connection is being opened it remembers the transaction, and
\* takes over the transaction's wish to have the server's certificate
\* validated.
Attach(t, c, k) ==
    /\ via' = [via EXCEPT ![t] = c]
    /\ IF k.kind \in Clients /\ ~k.connected
       THEN /\ conn' = [conn EXCEPT ![c] = [k EXCEPT !.callback = asks[t]]]
            /\ pending' = [pending EXCEPT ![c] = @ \cup {t}]
       ELSE conn' = [conn EXCEPT ![c] = k] /\ UNCHANGED pending
    /\ SendSipMsg(t, c, k)

\* get_connection finds a connection.
SendOnExisting(t) ==
    /\ via[t] = 0
    /\ table # 0
    /\ Attach(t, table, conn[table])
    /\ UNCHANGED <<transport, asks, table, told>>

\* Faulty variant: a connection is registered only once it is ready.
SendOnNewUnregistered(t, c) ==
    /\ via[t] = 0
    /\ table = 0
    /\ Fresh(c)
    /\ Attach(t, c, [NoConn EXCEPT !.kind = transport, !.link = "connecting"])
    /\ UNCHANGED <<transport, asks, table, told>>

\* get_connection opens one: TcpClient#initialize registers it.
SendOnNew(t, c) ==
    /\ via[t] = 0
    /\ table = 0
    /\ Fresh(c)
    /\ Attach(t, c, [NoConn EXCEPT !.kind = transport, !.link = "connecting"])
    /\ table' = c
    /\ UNCHANGED <<transport, asks, told>>

-----------------------------------------------------------------------------
(* The life of a connection.                                               *)

\* What was held back until the TLS connection was ready leaves.
Flush(c) ==
    /\ pending' = [pending EXCEPT ![c] = {}]
    /\ messages' = [messages EXCEPT ![c] = <<>>]
    /\ wire' = wire \cup InQueue(c)

\* connection_completed: for TCP the connection is ready, for TLS the
\* handshake starts.
ConnectionCompleted(c) ==
    /\ conn[c].kind \in Clients
    /\ conn[c].link = "connecting"
    /\ conn' = [conn EXCEPT ![c].link = "up", ![c].connected = (conn[c].kind = "tcp")]
    /\ pending' = IF conn[c].kind = "tcp" THEN [pending EXCEPT ![c] = {}] ELSE pending
    /\ UNCHANGED <<transport, asks, table, messages, via, wire, told>>

\* timer_tls_handshake.
HandshakeTimeout(c) ==
    /\ conn[c].kind = "tls" /\ conn[c].link = "up" /\ ~conn[c].connected
    /\ conn' = [conn EXCEPT ![c].link = "closing", ![c].local_closed = TRUE]
    /\ UNCHANGED <<transport, asks, table, pending, messages, via, wire, told>>

\* ssl_handshake_completed, up to the script's callback.
HandshakeCompleted(c) ==
    /\ conn[c].kind = "tls" /\ conn[c].link = "up" /\ ~conn[c].connected
    /\ IF conn[c].callback
       THEN /\ conn' = [conn EXCEPT ![c].connected = TRUE, ![c].fiber = "running"]
            /\ UNCHANGED <<pending, messages, wire>>
       ELSE /\ conn' = [conn EXCEPT ![c].connected = TRUE]
            /\ Flush(c)
    /\ UNCHANGED <<transport, asks, table, via, told>>

\* The connection is closed by OverSIP: by the script, after an exception in
\* its callback or after a message that cannot be parsed.
CloseConnection(c) ==
    /\ conn[c].link = "up"
    /\ conn[c].connected
    /\ conn' = [conn EXCEPT ![c].link = "closing", ![c].local_closed = TRUE]
    /\ UNCHANGED <<transport, asks, table, pending, messages, via, wire, told>>

\* Faulty variant: the held messages are not dropped when the transactions
\* are told, so the loop that follows sends them.
CallbackEndsSendsAll(c) ==
    /\ conn[c].fiber = "running"
    /\ conn' = [conn EXCEPT ![c].fiber = "done"]
    /\ IF conn[c].local_closed \/ conn[c].link = "dead"
       THEN Tell(pending[c]) ELSE UNCHANGED told
    /\ Flush(c)
    /\ UNCHANGED <<transport, asks, table, via>>

\* on_server_tls_handshake returns: if the connection was closed meanwhile the
\* pending transactions are told, otherwise their messages leave.
CallbackEnds(c) ==
    /\ conn[c].fiber = "running"
    /\ conn' = [conn EXCEPT ![c].fiber = "done"]
    /\ IF conn[c].local_closed \/ conn[c].link = "dead"
       THEN /\ Tell(pending[c])
            /\ pending' = [pending EXCEPT ![c] = {}]
            /\ messages' = [messages EXCEPT ![c] = <<>>]
            /\ UNCHANGED wire
       ELSE Flush(c) /\ UNCHANGED told
    /\ UNCHANGED <<transport, asks, table, via>>

\* Faulty variant: only connections that were ready are removed.
UnbindKeepEntry(c) ==
    /\ conn[c].link \in {"connecting", "up", "closing"}
    /\ conn' = [conn EXCEPT ![c].link = "dead", ![c].connected = FALSE]
    /\ table' = IF conn[c].connected THEN 0 ELSE table
    /\ IF conn[c].kind \in Clients /\ ~conn[c].connected
       THEN Tell(pending[c]) /\ pending' = [pending EXCEPT ![c] = {}]
       ELSE UNCHANGED <<told, pending>>
    /\ messages' = [messages EXCEPT ![c] = <<>>]
    /\ UNCHANGED <<transport, asks, via, wire>>

\* unbind, of any connection.  The entry is deleted whoever has it, except
\* that a tunnel connection looks in the table of its own class, where it is
\* not.
Unbind(c) ==
    /\ conn[c].link \in {"connecting", "up", "closing"}
    /\ conn' = [conn EXCEPT ![c].link = "dead", ![c].connected = FALSE]
    /\ table' = IF conn[c].kind = "tunnel" THEN table ELSE 0
    /\ IF conn[c].kind \in Clients /\ ~conn[c].connected
       THEN Tell(pending[c]) /\ pending' = [pending EXCEPT ![c] = {}]
       ELSE UNCHANGED <<told, pending>>
    /\ messages' = [messages EXCEPT ![c] = <<>>]
    /\ UNCHANGED <<transport, asks, via, wire>>

Accepted == {"server", "tunnel"}

\* The peer opens a connection from the very address requests are sent to:
\* post_connection, or parse_haproxy_protocol for one that comes through the
\* TLS tunnel.
Accept(c, kind) ==
    /\ Fresh(c)
    /\ kind = "tunnel" => transport = "tls"
    /\ conn' = [conn EXCEPT ![c] =
         [NoConn EXCEPT !.kind = kind, !.link = "up", !.connected = TRUE]]
    /\ table' = c
    /\ UNCHANGED <<transport, asks, pending, messages, via, wire, told>>

-----------------------------------------------------------------------------
Progress(c) ==
    \/ ConnectionCompleted(c)
    \/ HandshakeCompleted(c)
    \/ HandshakeTimeout(c)
    \/ CallbackEnds(c)

Next ==
    \/ \E t \in Tx : SendOnExisting(t) \/ \E c \in Conns : SendOnNew(t, c)
    \/ \E c \in Conns : Progress(c) \/ CloseConnection(c) \/ Unbind(c)
    \/ \E c \in Conns, kind \in Accepted : Accept(c, kind)

\* A connection attempt succeeds or fails (set_pending_connect_timeout), the
\* handshake timer runs, the reactor unbinds what is to be closed, and the
\* script's callback returns.  Nobody has to close a connection that is up.
Fairness ==
    \A c \in Conns :
        /\ WF_vars(Progress(c))
        /\ WF_vars(conn[c].link = "closing" /\ Unbind(c))

Spec == Init /\ [][Next]_vars /\ Fairness

-----------------------------------------------------------------------------
(* Properties.                                                             *)

Live(c) == conn[c].link \in {"connecting", "up"}

\* get_connection never hands out a connection that is gone: whichever way it
\* came to its end, the entry went with it.  A tunnel connection's entry is
\* known to stay: see Unbind.
NoDeadConnection ==
    (table # 0 /\ conn[table].kind # "tunnel") => conn[table].link # "dead"

\* "First check if there is an existing connection to the given destination.
\* If not create a new one": a request opens a connection only if there is
\* none that could carry it.  With a connection of the peer's making from the
\* same address the entry is known to be lost when either of the two ends.
NoDuplicateConnection ==
    [][((\E t \in Tx, c \in Conns : SendOnNew(t, c))
        /\ \A c \in Conns : conn[c].kind \notin Accepted)
       => ~\E c \in Conns : Live(c)]_vars

\* A transaction that is told of a TLS failure, and so makes the core try
\* another target, has not sent its request after all: unbind, the handshake
\* and the end of the callback go through the same two lists.
NoFalseFailure ==
    \A t \in Tx :
        (told[t] > 0 /\ conn[via[t]].kind = "tls") => t \notin wire

\* Every request leaves or its transaction is told, whatever becomes of the
\* connection attempt, the handshake and the callback.
Resolved ==
    \A t \in Tx : (via[t] # 0 /\ conn[via[t]].kind # "tunnel")
                     ~> (t \in wire \/ told[t] > 0)

-----------------------------------------------------------------------------
(* The inductive invariant.                                                *)

\* The table and the transactions refer to connections that were created.
References ==
    /\ \A c \in Conns : conn[c].kind = "none" <=> conn[c].link = "none"
    /\ table # 0 => conn[table].kind # "none"
    /\ \A t \in Tx : via[t] # 0 => conn[via[t]].kind # "none"

\* The lists of a connection hold its own transactions, and only ones that
\* were told nothing yet.
ListsMatchTransactions ==
    /\ \A t \in Tx : via[t] = 0 => t \notin wire /\ told[t] = 0
    /\ \A c \in Conns : \A t \in pending[c] :
           via[t] = c /\ told[t] = 0 /\ (conn[c].kind = "tls" => t \notin wire)
    /\ \A c \in Conns : \A t \in InQueue(c) : via[t] = c /\ told[t] = 0

\* As long as the peer opens none, there is one connection that has not ended,
\* and it is the one in the table.
OnlyInTable ==
    (\A c \in Conns : conn[c].kind \notin Accepted) =>
        \A c \in Conns : conn[c].link \in {"connecting", "up", "closing"} => table = c

IInv ==
    /\ TypeOK
    /\ References
    /\ ListsMatchTransactions
    /\ NoDeadConnection
    /\ NoFalseFailure
    /\ OnlyInTable
=============================================================================
