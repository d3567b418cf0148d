--------------------------- MODULE OutgoingProofs ---------------------------
(***************************************************************************)
(* Proofs about what an outgoing request has to wait for: the fiber of its *)
(* DNS query (FiberPool) and its connection (TransportManager).  For any   *)
(* number of fibers and blocks, any transactions and any bound on the      *)
(* connections.                                                            *)
(***************************************************************************)
EXTENDS TransportManager, FiberPool, TLAPS

-----------------------------------------------------------------------------
(* The transport manager.                                                  *)

\* What a list of held messages holds after one more is appended.
LEMMA QueueAppend ==
    ASSUME NEW q \in Seq(Tx), NEW t \in Tx
    PROVE  {Append(q, t)[i] : i \in 1..Len(Append(q, t))}
               = {q[i] : i \in 1..Len(q)} \cup {t}
<1> DEFINE r == Append(q, t)
<1>1. Len(r) = Len(q) + 1 /\ Len(q) \in Nat
    OBVIOUS
<1>2. \A i \in 1..Len(q) : r[i] = q[i]
    OBVIOUS
<1>3. r[Len(q) + 1] = t
    OBVIOUS
<1> HIDE DEF r
<1>4. 1..Len(r) = 1..Len(q) \cup {Len(q) + 1}
    BY <1>1
<1>5. QED
    BY <1>1, <1>2, <1>3, <1>4 DEF r

\* A transaction that is given a connection changes nothing but its own place
\* in the lists of that connection, and is not both remembered by a TLS
\* connection and on the wire.
LEMMA AttachFacts ==
    ASSUME TypeOK, NEW t \in Tx, NEW c \in Conns, NEW k \in Connection,
           Attach(t, c, k)
    PROVE  /\ via' = [via EXCEPT ![t] = c]
           /\ conn' \in [Conns -> Connection]
           /\ \A d \in Conns : d # c => conn'[d] = conn[d]
           /\ conn'[c].kind = k.kind /\ conn'[c].link = k.link
           /\ pending' \in [Conns -> SUBSET Tx]
           /\ \A d \in Conns : d # c => pending'[d] = pending[d]
           /\ pending'[c] \subseteq pending[c] \cup {t}
           /\ messages' \in [Conns -> Seq(Tx)]
           /\ \A d \in Conns : d # c => messages'[d] = messages[d]
           /\ messages'[c] \in {messages[c], Append(messages[c], t)}
           /\ wire \subseteq wire' /\ wire' \subseteq wire \cup {t}
           /\ k.kind = "tls" /\ t \in pending'[c] => t \in pending[c] \/ wire' = wire
<1>1. k.callback \in BOOLEAN /\ asks[t] \in BOOLEAN
    BY DEF TypeOK, Connection
<1>2. CASE k.kind \in Clients /\ ~k.connected
    <2>1. conn' = [conn EXCEPT ![c] = [k EXCEPT !.callback = asks[t]]]
          /\ pending' = [pending EXCEPT ![c] = @ \cup {t}]
        BY <1>2 DEF Attach
    <2>2. [k EXCEPT !.callback = asks[t]] \in Connection
          /\ [k EXCEPT !.callback = asks[t]].kind = k.kind
          /\ [k EXCEPT !.callback = asks[t]].link = k.link
        BY <1>1 DEF Connection
    <2>3. k.kind = "tls" => wire' = wire
        BY <1>2 DEF Attach, SendSipMsg
    <2>4. QED
        BY <2>1, <2>2, <2>3 DEF Attach, SendSipMsg, TypeOK
<1>3. CASE ~(k.kind \in Clients /\ ~k.connected)
    <2>1. conn' = [conn EXCEPT ![c] = k] /\ pending' = pending
        BY <1>3 DEF Attach
    <2>2. QED
        BY <2>1 DEF Attach, SendSipMsg, TypeOK
<1>4. QED
    BY <1>2, <1>3

\* Taking a connection preserves what is said of the transactions, whether the
\* connection was there or is new.
LEMMA AttachLists ==
    ASSUME IInv, NEW t \in Tx, NEW c \in Conns, NEW k \in Connection,
           Attach(t, c, k), via[t] = 0, told' = told, k.kind # "none",
           conn[c].kind = k.kind \/ conn[c].kind = "none"
    PROVE  /\ \A u \in Tx : via'[u] # 0 => conn'[via'[u]].kind # "none"
           /\ ListsMatchTransactions'
           /\ NoFalseFailure'
<1> USE DEF IInv, TypeOK
<1>1. TypeOK
    OBVIOUS
<1>2. /\ via' = [via EXCEPT ![t] = c]
      /\ \A d \in Conns : d # c => conn'[d] = conn[d]
      /\ conn'[c].kind = k.kind
      /\ \A d \in Conns : d # c => pending'[d] = pending[d]
      /\ pending'[c] \subseteq pending[c] \cup {t}
      /\ \A d \in Conns : d # c => messages'[d] = messages[d]
      /\ messages'[c] \in {messages[c], Append(messages[c], t)}
      /\ wire \subseteq wire' /\ wire' \subseteq wire \cup {t}
      /\ k.kind = "tls" /\ t \in pending'[c] => t \in pending[c] \/ wire' = wire
    BY <1>1, AttachFacts
<1>3. /\ t \notin wire /\ told[t] = 0
      /\ \A d \in Conns : t \notin pending[d] /\ t \notin InQueue(d)
    BY DEF ListsMatchTransactions, Conns
<1>4. \A d \in Conns : InQueue(d)' \subseteq InQueue(d) \cup (IF d = c THEN {t} ELSE {})
    <2> SUFFICES ASSUME NEW d \in Conns
                 PROVE  InQueue(d)' \subseteq InQueue(d) \cup (IF d = c THEN {t} ELSE {})
        OBVIOUS
    <2>1. CASE messages'[d] = messages[d]
        BY <2>1 DEF InQueue
    <2>2. CASE d = c /\ messages'[c] = Append(messages[c], t)
        <3>1. messages[c] \in Seq(Tx)
            OBVIOUS
        <3>2. QED
            BY <2>2, <3>1, QueueAppend DEF InQueue
    <2>3. QED
        BY <1>2, <2>1, <2>2
<1>5. \A u \in Tx : via'[u] # 0 => conn'[via'[u]].kind # "none"
    BY <1>2 DEF References
<1>6. ListsMatchTransactions'
    <2>1. \A u \in Tx : via'[u] = 0 => u \notin wire' /\ told'[u] = 0
        BY <1>2 DEF ListsMatchTransactions, Conns
    <2>2. \A d \in Conns : \A u \in pending'[d] :
              via'[u] = d /\ told'[u] = 0 /\ (conn'[d].kind = "tls" => u \notin wire')
        <3> SUFFICES ASSUME NEW d \in Conns, NEW u \in pending'[d]
                     PROVE  /\ via'[u] = d /\ told'[u] = 0
                            /\ conn'[d].kind = "tls" => u \notin wire'
            OBVIOUS
        <3>1. CASE u = t
            <4>1. d = c
                BY <1>2, <1>3, <3>1
            <4>2. via'[t] = c /\ told'[t] = 0
                BY <1>2, <1>3
            <4>3. k.kind = "tls" => t \notin wire'
                BY <1>2, <1>3, <3>1, <4>1
            <4>4. QED
                BY <1>2, <3>1, <4>1, <4>2, <4>3
        <3>2. CASE u # t
            <4>1. u \in pending[d]
                BY <1>2, <3>2
            <4>a. u \in Tx
                BY <4>1
            <4>2. via[u] = d /\ told[u] = 0 /\ (conn[d].kind = "tls" => u \notin wire)
                BY <4>1 DEF ListsMatchTransactions
            <4>3. conn[d].kind # "none"
                BY <4>a, <4>2 DEF References, Conns
            <4>4. QED
                BY <1>2, <3>2, <4>a, <4>2, <4>3
        <3>3. QED
            BY <3>1, <3>2
    <2>3. \A d \in Conns : \A u \in InQueue(d)' : via'[u] = d /\ told'[u] = 0
        BY <1>2, <1>3, <1>4 DEF ListsMatchTransactions
    <2>4. QED
        BY <2>1, <2>2, <2>3 DEF ListsMatchTransactions
<1>7. NoFalseFailure'
    <2> SUFFICES ASSUME NEW u \in Tx, told'[u] > 0, conn'[via'[u]].kind = "tls"
                 PROVE  u \notin wire'
        BY DEF NoFalseFailure
    <2>1. u # t /\ told[u] > 0 /\ via'[u] = via[u]
        BY <1>2, <1>3
    <2>2. via[u] # 0
        BY <2>1 DEF ListsMatchTransactions
    <2>3. conn[via[u]].kind = "tls"
        BY <1>2, <2>1, <2>2 DEF References
    <2>4. QED
        BY <1>2, <2>1, <2>3 DEF NoFalseFailure
<1>8. QED
    BY <1>5, <1>6, <1>7

-----------------------------------------------------------------------------
\* Before any request the inductive invariant holds.
LEMMA InitIInv == Init => IInv
<1> SUFFICES ASSUME Init PROVE IInv
    OBVIOUS
<1>1. NoConn \in Connection /\ NoConn.kind = "none" /\ NoConn.link = "none"
    BY DEF NoConn, Connection
<1>2. TypeOK
    <2>1. asks \in [Tx -> BOOLEAN]
        BY DEF Init
    <2>2. QED
        BY <1>1, <2>1 DEF Init, TypeOK
<1>3. References /\ NoDeadConnection /\ OnlyInTable
    BY <1>1 DEF Init, References, NoDeadConnection, OnlyInTable
<1>4. ListsMatchTransactions /\ NoFalseFailure
    BY DEF Init, ListsMatchTransactions, NoFalseFailure, InQueue
<1>5. QED
    BY <1>2, <1>3, <1>4 DEF IInv

\* A step that changes one connection, keeping its kind and not bringing it to
\* an end, and leaves the table and the transactions alone.
LEMMA ConnectionStep ==
    ASSUME IInv, NEW c \in Conns, NEW k \in Connection,
           conn' = [conn EXCEPT ![c] = k],
           k.kind = conn[c].kind, k.link \notin {"none", "dead"} \/ k.link = conn[c].link,
           conn[c].link \in {"connecting", "up", "closing"} \/ k.link = conn[c].link,
           UNCHANGED <<transport, asks, table, via>>
    PROVE  /\ conn' \in [Conns -> Connection]
           /\ \A d \in Conns : conn'[d].kind = conn[d].kind
           /\ References' /\ NoDeadConnection' /\ OnlyInTable'
<1>1. conn' \in [Conns -> Connection] /\ \A d \in Conns : conn'[d].kind = conn[d].kind
    BY DEF IInv, TypeOK
<1>2. \A d \in Conns : conn'[d].link = conn[d].link
                       \/ (/\ conn[d].link \in {"connecting", "up", "closing"}
                           /\ conn'[d].link \notin {"none", "dead"})
    BY DEF IInv, TypeOK
<1>3. References'
    BY <1>1, <1>2 DEF References, IInv, TypeOK
<1>4. NoDeadConnection'
    BY <1>1, <1>2 DEF NoDeadConnection, IInv, TypeOK
<1>5. OnlyInTable'
    BY <1>1, <1>2 DEF OnlyInTable, IInv, TypeOK, Accepted
<1>6. QED
    BY <1>1, <1>3, <1>4, <1>5

\* The held messages of a connection leave: none of them belongs to a
\* transaction that was told of a failure or that another connection remembers.
LEMMA FlushStep ==
    ASSUME IInv, NEW c \in Conns, Flush(c), UNCHANGED <<via, told>>,
           \A d \in Conns : conn'[d].kind = conn[d].kind
    PROVE  /\ pending' \in [Conns -> SUBSET Tx] /\ messages' \in [Conns -> Seq(Tx)]
           /\ wire' \subseteq Tx
           /\ ListsMatchTransactions' /\ NoFalseFailure'
<1> USE DEF IInv, TypeOK
<1>1. /\ pending' = [pending EXCEPT ![c] = {}]
      /\ messages' = [messages EXCEPT ![c] = <<>>]
      /\ wire' = wire \cup InQueue(c)
    BY DEF Flush
<1>2. InQueue(c) \subseteq Tx
    BY DEF InQueue
<1>3. pending' \in [Conns -> SUBSET Tx] /\ messages' \in [Conns -> Seq(Tx)] /\ wire' \subseteq Tx
    BY <1>1, <1>2
<1>4. \A d \in Conns : InQueue(d)' \subseteq InQueue(d)
    BY <1>1 DEF InQueue
<1>5. \A t \in Tx : via'[t] = 0 => t \notin wire' /\ told'[t] = 0
    BY <1>1, <1>2 DEF ListsMatchTransactions, Conns
<1>6. ASSUME NEW d \in Conns, NEW t \in pending'[d]
      PROVE  via'[t] = d /\ told'[t] = 0 /\ (conn'[d].kind = "tls" => t \notin wire')
    <2>1. d # c /\ t \in pending[d]
        BY <1>1, <1>6
    <2>2. via[t] = d /\ told[t] = 0 /\ (conn[d].kind = "tls" => t \notin wire)
        BY <2>1 DEF ListsMatchTransactions
    <2>3. t \notin InQueue(c)
        BY <2>1, <2>2 DEF ListsMatchTransactions
    <2>4. QED
        BY <1>1, <2>2, <2>3
<1>7. \A d \in Conns : \A t \in InQueue(d)' : via'[t] = d /\ told'[t] = 0
    BY <1>4 DEF ListsMatchTransactions
<1>8. ListsMatchTransactions'
    BY <1>5, <1>6, <1>7 DEF ListsMatchTransactions
<1>9. NoFalseFailure'
    <2> SUFFICES ASSUME NEW t \in Tx, told[t] > 0, conn'[via[t]].kind = "tls"
                 PROVE  t \notin wire'
        BY DEF NoFalseFailure
    <2>1. via[t] \in Conns
        BY DEF ListsMatchTransactions
    <2>2. t \notin wire
        BY <2>1 DEF NoFalseFailure
    <2>3. t \notin InQueue(c)
        <3>1. \A u \in InQueue(c) : told[u] = 0
            BY DEF ListsMatchTransactions
        <3>2. QED
            BY <3>1
    <2>4. QED
        BY <1>1, <2>2, <2>3
<1>10. QED
    BY <1>3, <1>8, <1>9

\* The transactions a connection remembers are told, once, and its lists are
\* emptied: over TLS none of their requests has left.
LEMMA TellStep ==
    ASSUME IInv, NEW c \in Conns, Tell(pending[c]),
           pending' = [pending EXCEPT ![c] = {}],
           messages' = [messages EXCEPT ![c] = <<>>],
           UNCHANGED <<via, wire>>,
           \A d \in Conns : conn'[d].kind = conn[d].kind
    PROVE  /\ pending' \in [Conns -> SUBSET Tx] /\ messages' \in [Conns -> Seq(Tx)]
           /\ told' \in [Tx -> 0..1]
           /\ ListsMatchTransactions' /\ NoFalseFailure'
<1> USE DEF IInv, TypeOK
<1>1. pending' \in [Conns -> SUBSET Tx] /\ messages' \in [Conns -> Seq(Tx)]
    OBVIOUS
<1>2. /\ told' \in [Tx -> 0..1]
      /\ \A t \in Tx : told'[t] = IF t \in pending[c] THEN 1 ELSE told[t]
    <2>1. \A t \in Tx : told[t] \in 0..1 /\ (t \in pending[c] => told[t] = 0)
        BY DEF ListsMatchTransactions
    <2>2. told' = [t \in Tx |-> told[t] + (IF t \in pending[c] THEN 1 ELSE 0)]
        BY DEF Tell
    <2>3. \A t \in Tx : told'[t] = IF t \in pending[c] THEN 1 ELSE told[t]
        BY ONLY <2>1, <2>2
    <2>4. told' \in [Tx -> 0..1]
        BY ONLY <2>1, <2>2
    <2>5. QED
        BY <2>3, <2>4
<1>3. \A d \in Conns : InQueue(d)' \subseteq IF d = c THEN {} ELSE InQueue(d)
    BY DEF InQueue
<1>4. \A t \in Tx : t \in pending[c] => via[t] = c
    BY DEF ListsMatchTransactions
<1>a. \A d \in Conns : InQueue(d) \subseteq Tx
    BY DEF InQueue
<1>5. ListsMatchTransactions'
    <2>1. \A t \in Tx : via'[t] = 0 => t \notin wire' /\ told'[t] = 0
        BY <1>2, <1>4 DEF ListsMatchTransactions, Conns
    <2>2. ASSUME NEW d \in Conns, NEW t \in pending'[d]
          PROVE  via'[t] = d /\ told'[t] = 0 /\ (conn'[d].kind = "tls" => t \notin wire')
        <3>1. d # c /\ t \in pending[d] /\ t \in Tx
            BY <2>2, <1>1
        <3>2. via[t] = d /\ told[t] = 0 /\ (conn[d].kind = "tls" => t \notin wire)
            BY <3>1 DEF ListsMatchTransactions
        <3>3. QED
            BY <1>2, <1>4, <3>1, <3>2
    <2>3. ASSUME NEW d \in Conns, NEW t \in InQueue(d)'
          PROVE  via'[t] = d /\ told'[t] = 0
        <3>1. d # c /\ t \in InQueue(d) /\ t \in Tx
            BY <1>3, <1>a, <2>3
        <3>2. via[t] = d /\ told[t] = 0
            BY <3>1 DEF ListsMatchTransactions
        <3>3. QED
            BY <1>2, <1>4, <3>1, <3>2
    <2>4. QED
        BY <2>1, <2>2, <2>3 DEF ListsMatchTransactions
<1>6. NoFalseFailure'
    <2> SUFFICES ASSUME NEW t \in Tx, told'[t] > 0, conn'[via[t]].kind = "tls"
                 PROVE  t \notin wire
        BY DEF NoFalseFailure
    <2>1. CASE t \in pending[c]
        BY <2>1 DEF ListsMatchTransactions
    <2>2. CASE t \notin pending[c]
        <3>1. told[t] > 0
            BY <1>2, <2>2
        <3>2. via[t] \in Conns
            BY <3>1 DEF ListsMatchTransactions
        <3>3. QED
            BY <3>1, <3>2 DEF NoFalseFailure
    <2>3. QED
        BY <2>1, <2>2
<1>7. QED
    BY <1>1, <1>2, <1>5, <1>6

\* A step that takes nothing but entries off the lists.
LEMMA DropStep ==
    ASSUME IInv, UNCHANGED <<via, wire, told>>,
           pending' \in [Conns -> SUBSET Tx], messages' \in [Conns -> Seq(Tx)],
           \A d \in Conns : /\ pending'[d] \subseteq pending[d]
                            /\ messages'[d] \in {messages[d], <<>>}
                            /\ conn'[d].kind = conn[d].kind
    PROVE  ListsMatchTransactions' /\ NoFalseFailure'
<1>1. ASSUME NEW d \in Conns PROVE InQueue(d)' \subseteq InQueue(d)
    <2>1. CASE messages'[d] = messages[d]
        BY <2>1 DEF InQueue
    <2>2. CASE messages'[d] = <<>>
        BY <2>2 DEF InQueue
    <2>3. QED
        BY <2>1, <2>2
<1>2. ListsMatchTransactions'
    <2>1. ListsMatchTransactions
        BY DEF IInv
    <2>2. \A t \in Tx : via'[t] = 0 => t \notin wire' /\ told'[t] = 0
        BY <2>1 DEF ListsMatchTransactions
    <2>3. \A c \in Conns : \A t \in pending'[c] :
              via'[t] = c /\ told'[t] = 0 /\ (conn'[c].kind = "tls" => t \notin wire')
        BY <2>1 DEF ListsMatchTransactions
    <2>4. \A c \in Conns : \A t \in InQueue(c)' : via'[t] = c /\ told'[t] = 0
        BY <1>1, <2>1 DEF ListsMatchTransactions
    <2>5. QED
        BY <2>2, <2>3, <2>4 DEF ListsMatchTransactions
<1>3. NoFalseFailure'
    <2> SUFFICES ASSUME NEW t \in Tx, told[t] > 0, conn'[via[t]].kind = "tls"
                 PROVE  t \notin wire
        BY DEF NoFalseFailure
    <2>1. via[t] \in Conns
        BY DEF ListsMatchTransactions, IInv, TypeOK
    <2>2. QED
        BY <2>1 DEF NoFalseFailure, IInv
<1>4. QED
    BY <1>2, <1>3

-----------------------------------------------------------------------------
\* Every request, connection event and callback preserves the inductive
\* invariant.
LEMMA StepIInv == IInv /\ [Next]_vars => IInv'
<1> SUFFICES ASSUME IInv, [Next]_vars PROVE IInv'
    OBVIOUS
<1>0. TypeOK /\ References /\ NoDeadConnection /\ OnlyInTable
    BY DEF IInv
<1>1. ASSUME NEW t \in Tx, SendOnExisting(t) PROVE IInv'
    <2>1. /\ via[t] = 0 /\ table \in Conns /\ conn[table] \in Connection
          /\ Attach(t, table, conn[table])
          /\ UNCHANGED <<transport, asks, table, told>>
        BY <1>0, <1>1 DEF SendOnExisting, TypeOK
    <2>2. conn[table].kind # "none"
        BY <1>0, <2>1 DEF References, Conns
    <2>3. /\ \A u \in Tx : via'[u] # 0 => conn'[via'[u]].kind # "none"
          /\ ListsMatchTransactions' /\ NoFalseFailure'
        BY <2>1, <2>2, AttachLists
    <2>4. /\ via' = [via EXCEPT ![t] = table]
          /\ conn' \in [Conns -> Connection]
          /\ \A d \in Conns : conn'[d].kind = conn[d].kind /\ conn'[d].link = conn[d].link
          /\ pending' \in [Conns -> SUBSET Tx] /\ messages' \in [Conns -> Seq(Tx)]
          /\ wire' \subseteq Tx
        BY <1>0, <2>1, AttachFacts DEF TypeOK
    <2>5. TypeOK'
        BY <1>0, <2>1, <2>4 DEF TypeOK
    <2>6. References' /\ NoDeadConnection' /\ OnlyInTable'
        <3>1. References'
            BY <1>0, <2>1, <2>3, <2>4 DEF References
        <3>2. NoDeadConnection'
            BY <1>0, <2>1, <2>4 DEF NoDeadConnection
        <3>3. OnlyInTable'
            BY <1>0, <2>1, <2>4 DEF OnlyInTable
        <3>4. QED
            BY <3>1, <3>2, <3>3
    <2>7. QED
        BY <2>3, <2>5, <2>6 DEF IInv
<1>2. ASSUME NEW t \in Tx, NEW c \in Conns, SendOnNew(t, c) PROVE IInv'
    <2> DEFINE k == [NoConn EXCEPT !.kind = transport, !.link = "connecting"]
    <2>1. k \in Connection /\ k.kind \in Clients /\ k.kind # "none" /\ k.link = "connecting"
        BY <1>0 DEF TypeOK, Connection, NoConn, Clients
    <2> HIDE DEF k
    <2>2. /\ via[t] = 0 /\ table = 0 /\ conn[c].kind = "none" /\ Attach(t, c, k)
          /\ table' = c /\ UNCHANGED <<transport, asks, told>>
        BY <1>2 DEF SendOnNew, Fresh, k
    <2>3. /\ \A u \in Tx : via'[u] # 0 => conn'[via'[u]].kind # "none"
          /\ ListsMatchTransactions' /\ NoFalseFailure'
        BY <2>1, <2>2, AttachLists
    <2>4. /\ via' = [via EXCEPT ![t] = c]
          /\ conn' \in [Conns -> Connection]
          /\ \A d \in Conns : d # c => conn'[d] = conn[d]
          /\ conn'[c].kind \in Clients /\ conn'[c].link = "connecting"
          /\ pending' \in [Conns -> SUBSET Tx] /\ messages' \in [Conns -> Seq(Tx)]
          /\ wire' \subseteq Tx
        BY <1>0, <2>1, <2>2, AttachFacts DEF TypeOK
    <2>5. TypeOK'
        BY <1>0, <2>2, <2>4 DEF TypeOK
    <2>6. References' /\ NoDeadConnection'
        BY <1>0, <2>2, <2>3, <2>4 DEF References, NoDeadConnection, Clients
    <2>7. OnlyInTable'
        <3> SUFFICES ASSUME \A d \in Conns : conn'[d].kind \notin Accepted,
                            NEW d \in Conns, d # c
                     PROVE  conn[d].link \notin {"connecting", "up", "closing"}
            BY <2>2, <2>4 DEF OnlyInTable
        <3>1. \A e \in Conns : conn[e].kind \notin Accepted
            BY <2>2, <2>4 DEF Accepted
        <3>2. QED
            BY <1>0, <2>2, <3>1 DEF OnlyInTable, Conns
    <2>8. QED
        BY <2>3, <2>5, <2>6, <2>7 DEF IInv
<1>3. ASSUME NEW c \in Conns, ConnectionCompleted(c) PROVE IInv'
    <2> DEFINE k == [conn[c] EXCEPT !.link = "up", !.connected = (conn[c].kind = "tcp")]
    <2>1. /\ conn' = [conn EXCEPT ![c] = k]
          /\ conn[c].link = "connecting"
          /\ UNCHANGED <<transport, asks, table, messages, via, wire, told>>
          /\ pending' \in [Conns -> SUBSET Tx]
          /\ \A d \in Conns : pending'[d] \subseteq pending[d]
        BY <1>0, <1>3 DEF ConnectionCompleted, TypeOK
    <2>2. k \in Connection /\ k.kind = conn[c].kind /\ k.link = "up"
        <3>1. conn[c] \in Connection
            BY <1>0 DEF TypeOK
        <3>2. QED
            BY ONLY <3>1 DEF Connection
    <2> HIDE DEF k
    <2>3. /\ conn' \in [Conns -> Connection]
          /\ \A d \in Conns : conn'[d].kind = conn[d].kind
          /\ References' /\ NoDeadConnection' /\ OnlyInTable'
        BY <2>1, <2>2, ConnectionStep
    <2>4. messages' \in [Conns -> Seq(Tx)]
        BY <1>0, <2>1 DEF TypeOK
    <2>5. ListsMatchTransactions' /\ NoFalseFailure'
        BY <2>1, <2>3, <2>4, DropStep
    <2>6. QED
        BY <1>0, <2>1, <2>3, <2>4, <2>5 DEF IInv, TypeOK
<1>4. ASSUME NEW c \in Conns, HandshakeTimeout(c) \/ CloseConnection(c) PROVE IInv'
    <2> DEFINE k == [conn[c] EXCEPT !.link = "closing", !.local_closed = TRUE]
    <2>1. /\ conn' = [conn EXCEPT ![c] = k]
          /\ conn[c].link = "up"
          /\ UNCHANGED <<transport, asks, table, pending, messages, via, wire, told>>
        BY <1>0, <1>4 DEF HandshakeTimeout, CloseConnection, TypeOK
    <2>2. k \in Connection /\ k.kind = conn[c].kind /\ k.link = "closing"
        <3>1. conn[c] \in Connection
            BY <1>0 DEF TypeOK
        <3>2. QED
            BY ONLY <3>1 DEF Connection
    <2> HIDE DEF k
    <2>3. /\ conn' \in [Conns -> Connection]
          /\ \A d \in Conns : conn'[d].kind = conn[d].kind
          /\ References' /\ NoDeadConnection' /\ OnlyInTable'
        BY <2>1, <2>2, ConnectionStep
    <2>4. messages' \in [Conns -> Seq(Tx)] /\ pending' \in [Conns -> SUBSET Tx]
        BY <1>0, <2>1 DEF TypeOK
    <2>5. ListsMatchTransactions' /\ NoFalseFailure'
        BY <2>1, <2>3, <2>4, DropStep
    <2>6. QED
        BY <1>0, <2>1, <2>3, <2>4, <2>5 DEF IInv, TypeOK
<1>5. ASSUME NEW c \in Conns, HandshakeCompleted(c) PROVE IInv'
    <2> DEFINE k == IF conn[c].callback
                    THEN [conn[c] EXCEPT !.connected = TRUE, !.fiber = "running"]
                    ELSE [conn[c] EXCEPT !.connected = TRUE]
    <2>1. /\ conn' = [conn EXCEPT ![c] = k]
          /\ UNCHANGED <<transport, asks, table, via, told>>
        BY <1>0, <1>5 DEF HandshakeCompleted, TypeOK
    <2>2. k \in Connection /\ k.kind = conn[c].kind /\ k.link = conn[c].link
        <3>1. conn[c] \in Connection
            BY <1>0 DEF TypeOK
        <3>2. QED
            BY ONLY <3>1 DEF Connection
    <2> HIDE DEF k
    <2>3. /\ conn' \in [Conns -> Connection]
          /\ \A d \in Conns : conn'[d].kind = conn[d].kind
          /\ References' /\ NoDeadConnection' /\ OnlyInTable'
        BY <2>1, <2>2, ConnectionStep
    <2>4. /\ pending' \in [Conns -> SUBSET Tx] /\ messages' \in [Conns -> Seq(Tx)]
          /\ wire' \subseteq Tx
          /\ ListsMatchTransactions' /\ NoFalseFailure'
        <3>1. CASE conn[c].callback
            <4>1. UNCHANGED <<pending, messages, wire>>
                BY <1>5, <3>1 DEF HandshakeCompleted
            <4>2. messages' \in [Conns -> Seq(Tx)] /\ pending' \in [Conns -> SUBSET Tx]
                BY <1>0, <4>1 DEF TypeOK
            <4>3. QED
                BY <1>0, <2>1, <2>3, <4>1, <4>2, DropStep DEF TypeOK
        <3>2. CASE ~conn[c].callback
            <4>1. Flush(c)
                BY <1>5, <3>2 DEF HandshakeCompleted
            <4>2. QED
                BY <2>1, <2>3, <4>1, FlushStep
        <3>3. QED
            BY <3>1, <3>2
    <2>5. QED
        BY <1>0, <2>1, <2>3, <2>4 DEF IInv, TypeOK
<1>6. ASSUME NEW c \in Conns, CallbackEnds(c) PROVE IInv'
    <2> DEFINE k == [conn[c] EXCEPT !.fiber = "done"]
    <2>1. /\ conn' = [conn EXCEPT ![c] = k]
          /\ UNCHANGED <<transport, asks, table, via>>
        BY <1>0, <1>6 DEF CallbackEnds, TypeOK
    <2>2. k \in Connection /\ k.kind = conn[c].kind /\ k.link = conn[c].link
        <3>1. conn[c] \in Connection
            BY <1>0 DEF TypeOK
        <3>2. QED
            BY ONLY <3>1 DEF Connection
    <2> HIDE DEF k
    <2>3. /\ conn' \in [Conns -> Connection]
          /\ \A d \in Conns : conn'[d].kind = conn[d].kind
          /\ References' /\ NoDeadConnection' /\ OnlyInTable'
        BY <2>1, <2>2, ConnectionStep
    <2>4. /\ pending' \in [Conns -> SUBSET Tx] /\ messages' \in [Conns -> Seq(Tx)]
          /\ wire' \subseteq Tx /\ told' \in [Tx -> 0..1]
          /\ ListsMatchTransactions' /\ NoFalseFailure'
        <3>1. CASE conn[c].local_closed \/ conn[c].link = "dead"
            <4>1. /\ Tell(pending[c])
                  /\ pending' = [pending EXCEPT ![c] = {}]
                  /\ messages' = [messages EXCEPT ![c] = <<>>]
                  /\ UNCHANGED wire
                BY <1>6, <3>1 DEF CallbackEnds
            <4>2. QED
                BY <1>0, <2>1, <2>3, <4>1, TellStep DEF TypeOK
        <3>2. CASE ~(conn[c].local_closed \/ conn[c].link = "dead")
            <4>1. Flush(c) /\ UNCHANGED told
                BY <1>6, <3>2 DEF CallbackEnds
            <4>2. QED
                BY <1>0, <2>1, <2>3, <4>1, FlushStep DEF TypeOK
        <3>3. QED
            BY <3>1, <3>2
    <2>5. QED
        BY <1>0, <2>1, <2>3, <2>4 DEF IInv, TypeOK
<1>7. ASSUME NEW c \in Conns, Unbind(c) PROVE IInv'
    <2> DEFINE k == [conn[c] EXCEPT !.link = "dead", !.connected = FALSE]
    <2>1. /\ conn' = [conn EXCEPT ![c] = k]
          /\ conn[c].link \in {"connecting", "up", "closing"}
          /\ table' = IF conn[c].kind = "tunnel" THEN table ELSE 0
          /\ messages' = [messages EXCEPT ![c] = <<>>]
          /\ UNCHANGED <<transport, asks, via, wire>>
        BY <1>0, <1>7 DEF Unbind, TypeOK
    <2>2. k \in Connection /\ k.kind = conn[c].kind /\ k.link = "dead"
        <3>1. conn[c] \in Connection
            BY <1>0 DEF TypeOK
        <3>2. QED
            BY ONLY <3>1 DEF Connection
    <2> HIDE DEF k
    <2>3. /\ conn' \in [Conns -> Connection]
          /\ \A d \in Conns : conn'[d].kind = conn[d].kind
          /\ \A d \in Conns : d # c => conn'[d].link = conn[d].link
          /\ conn'[c].link = "dead"
        BY <1>0, <2>1, <2>2 DEF TypeOK
    <2>4. References'
        BY <1>0, <2>1, <2>3 DEF References, TypeOK
    <2>5. NoDeadConnection'
        BY <1>0, <2>1, <2>3 DEF NoDeadConnection, TypeOK
    <2>6. OnlyInTable'
        <3> SUFFICES ASSUME \A d \in Conns : conn[d].kind \notin Accepted,
                            NEW d \in Conns,
                            conn'[d].link \in {"connecting", "up", "closing"}
                     PROVE  FALSE
            BY <2>3 DEF OnlyInTable
        <3>1. d # c /\ conn[d].link \in {"connecting", "up", "closing"}
            BY <2>3
        <3>2. table = d /\ table = c
            BY <1>0, <2>1, <3>1 DEF OnlyInTable
        <3>3. QED
            BY <3>1, <3>2
    <2>7. /\ pending' \in [Conns -> SUBSET Tx] /\ messages' \in [Conns -> Seq(Tx)]
          /\ told' \in [Tx -> 0..1]
          /\ ListsMatchTransactions' /\ NoFalseFailure'
        <3>1. CASE conn[c].kind \in Clients /\ ~conn[c].connected
            <4>1. Tell(pending[c]) /\ pending' = [pending EXCEPT ![c] = {}]
                BY <1>7, <3>1 DEF Unbind
            <4>2. QED
                BY <2>1, <2>3, <4>1, TellStep
        <3>2. CASE ~(conn[c].kind \in Clients /\ ~conn[c].connected)
            <4>1. UNCHANGED <<told, pending>>
                BY <1>7, <3>2 DEF Unbind
            <4>2. /\ pending' \in [Conns -> SUBSET Tx] /\ messages' \in [Conns -> Seq(Tx)]
                  /\ \A d \in Conns : /\ pending'[d] \subseteq pending[d]
                                      /\ messages'[d] \in {messages[d], <<>>}
                BY <1>0, <2>1, <4>1 DEF TypeOK
            <4>3. QED
                BY <1>0, <2>1, <2>3, <4>1, <4>2, DropStep DEF TypeOK
        <3>3. QED
            BY <3>1, <3>2
    <2>8. QED
        BY <1>0, <2>1, <2>3, <2>4, <2>5, <2>6, <2>7 DEF IInv, TypeOK
<1>8. ASSUME NEW c \in Conns, NEW kind \in Accepted, Accept(c, kind) PROVE IInv'
    <2> DEFINE k == [NoConn EXCEPT !.kind = kind, !.link = "up", !.connected = TRUE]
    <2>1. k \in Connection /\ k.kind = kind /\ kind \in Accepted /\ k.link = "up"
        BY <1>8 DEF Connection, NoConn, Accepted
    <2> HIDE DEF k
    <2>2. /\ conn' = [conn EXCEPT ![c] = k] /\ conn[c].kind = "none" /\ table' = c
          /\ UNCHANGED <<transport, asks, pending, messages, via, wire, told>>
        BY <1>8 DEF Accept, Fresh, k
    <2>3. /\ conn' \in [Conns -> Connection]
          /\ \A d \in Conns : d # c => conn'[d] = conn[d]
          /\ conn'[c].kind \in {"server", "tunnel"} /\ conn'[c].link = "up"
        BY <1>0, <2>1, <2>2 DEF TypeOK, Accepted
    <2>4. References' /\ NoDeadConnection' /\ OnlyInTable'
        BY <1>0, <2>2, <2>3 DEF References, NoDeadConnection, OnlyInTable, Accepted, TypeOK
    <2>5. InQueue(c)' = InQueue(c) /\ \A d \in Conns : InQueue(d)' = InQueue(d)
        BY <2>2 DEF InQueue
    <2>6. ListsMatchTransactions' /\ NoFalseFailure'
        BY <2>2, <2>3, <2>5 DEF IInv, ListsMatchTransactions, NoFalseFailure, References, TypeOK
    <2>7. QED
        BY <1>0, <2>2, <2>3, <2>4, <2>6 DEF IInv, TypeOK
<1>9. CASE UNCHANGED vars
    <2>1. TypeOK' /\ References' /\ NoDeadConnection' /\ OnlyInTable'
        BY <1>0, <1>9 DEF vars, TypeOK, References, NoDeadConnection, OnlyInTable
    <2>2. \A c \in Conns : InQueue(c)' = InQueue(c)
        BY <1>9 DEF vars, InQueue
    <2>3. ListsMatchTransactions' /\ NoFalseFailure'
        BY <1>9, <2>2 DEF vars, IInv, ListsMatchTransactions, NoFalseFailure
    <2>4. QED
        BY <2>1, <2>3 DEF IInv
<1>10. QED
    BY <1>1, <1>2, <1>3, <1>4, <1>5, <1>6, <1>7, <1>8, <1>9 DEF Next, Progress

-----------------------------------------------------------------------------
\* The inductive invariant holds in every reachable state.
THEOREM Invariance == Spec => []IInv
<1>1. Init => IInv
    BY InitIInv
<1>2. IInv /\ [Next]_vars => IInv'
    BY StepIInv
<1>3. QED
    BY <1>1, <1>2, PTL DEF Spec

\* get_connection never finds a dead connection, except one of a tunnel.
THEOREM NeverDead == Spec => []NoDeadConnection
<1>1. IInv => NoDeadConnection
    BY DEF IInv
<1>2. QED
    BY <1>1, Invariance, PTL

\* A transaction is told of a failure at most once, and over TLS only if its
\* request has not left.
THEOREM FailuresAreTrue == Spec => [](TypeOK /\ NoFalseFailure)
<1>1. IInv => TypeOK /\ NoFalseFailure
    BY DEF IInv
<1>2. QED
    BY <1>1, Invariance, PTL

\* get_connection opens a second connection to an address only if the peer has
\* opened one from there.
THEOREM OneConnection == Spec => NoDuplicateConnection
<1> DEFINE A == ((\E t \in Tx, c \in Conns : SendOnNew(t, c))
                 /\ \A c \in Conns : conn[c].kind \notin Accepted)
                => ~\E c \in Conns : Live(c)
<1>1. IInv => A
    BY DEF IInv, OnlyInTable, Live, SendOnNew, Conns
<1>2. IInv /\ [Next]_vars => [A]_vars
    BY <1>1
<1>3. QED
    BY <1>2, Invariance, PTL DEF Spec, NoDuplicateConnection

-----------------------------------------------------------------------------
(* The fiber pool.  PoolTypeOK, NothingLost and OnceOnly are inductive     *)
(* together: that a block which leaves a fiber or the queue is nowhere     *)
(* else needs OnceOnly.                                                    *)

PoolInv == PoolTypeOK /\ NothingLost /\ OnceOnly

\* The blocks in the queue after a shift: all but the first.
LEMMA BlocksTail ==
    ASSUME PoolTypeOK, OnceOnly, queue # <<>>, queue' = Tail(queue)
    PROVE  /\ queue' \in Seq(Blocks)
           /\ Head(queue) \in Queued
           /\ Queued' = Queued \ {Head(queue)}
           /\ \A i, j \in 1..Len(queue') : queue'[i] = queue'[j] => i = j
<1> USE DEF PoolTypeOK
<1>1. /\ queue' \in Seq(Blocks)
      /\ Len(queue) \in Nat \ {0} /\ Len(queue') = Len(queue) - 1
      /\ \A i \in 1..Len(queue') : queue'[i] = queue[i + 1]
      /\ Head(queue) = queue[1]
  OBVIOUS
<1>2. Head(queue) \in Queued
  BY <1>1 DEF Queued
<1>3. ASSUME NEW b \in Queued'  PROVE b \in Queued \ {Head(queue)}
  <2>1. PICK i \in 1..Len(queue') : b = queue[i + 1]
    BY <1>1, <1>3 DEF Queued
  <2>2. i + 1 \in 1..Len(queue) /\ 1 \in 1..Len(queue) /\ i + 1 # 1
    BY <1>1, <2>1
  <2> QED
    BY <1>1, <2>1, <2>2 DEF Queued, OnceOnly
<1>4. ASSUME NEW b \in Queued \ {Head(queue)}  PROVE b \in Queued'
  <2>1. PICK i \in 1..Len(queue) : b = queue[i]
    BY <1>4 DEF Queued
  <2>2. i - 1 \in 1..Len(queue') /\ (i - 1) + 1 = i
    BY <1>1, <1>4, <2>1
  <2>3. b = queue'[i - 1]
    BY <1>1, <2>1, <2>2
  <2> QED
    BY <2>2, <2>3 DEF Queued
<1>5. \A i, j \in 1..Len(queue') : queue'[i] = queue'[j] => i = j
  <2> SUFFICES ASSUME NEW i \in 1..Len(queue'), NEW j \in 1..Len(queue'), queue'[i] = queue'[j]
               PROVE  i = j
    OBVIOUS
  <2>1. i + 1 \in 1..Len(queue) /\ j + 1 \in 1..Len(queue) /\ queue[i + 1] = queue[j + 1]
    BY <1>1
  <2>2. i + 1 = j + 1
    BY <2>1 DEF OnceOnly
  <2> QED
    BY <2>2
<1> QED
  BY <1>1, <1>2, <1>3, <1>4, <1>5

\* The blocks in the queue after one has been added that was not there.
LEMMA BlocksAppend ==
    ASSUME PoolTypeOK, OnceOnly, NEW b \in Blocks, b \notin Queued, queue' = Append(queue, b)
    PROVE  /\ queue' \in Seq(Blocks)
           /\ Queued' = Queued \cup {b}
           /\ \A i, j \in 1..Len(queue') : queue'[i] = queue'[j] => i = j
<1> USE DEF PoolTypeOK
<1>1. /\ queue' \in Seq(Blocks)
      /\ Len(queue) \in Nat /\ Len(queue') = Len(queue) + 1
      /\ \A i \in 1..Len(queue) : queue'[i] = queue[i]
      /\ queue'[Len(queue) + 1] = b
  OBVIOUS
<1>2. Queued' = Queued \cup {b}
  BY <1>1 DEF Queued
<1>3. \A i \in 1..Len(queue) : queue[i] # b
  BY DEF Queued
<1>4. \A i, j \in 1..Len(queue') : queue'[i] = queue'[j] => i = j
  BY <1>1, <1>3 DEF OnceOnly
<1> QED
  BY <1>1, <1>2, <1>4

LEMMA PoolStart == PoolInit => PoolInv
<1> SUFFICES ASSUME PoolInit PROVE PoolInv
  OBVIOUS
<1> USE DEF PoolInit
<1>1. Queued = {} /\ Running = {}
  BY DEF Queued, Running
<1> QED
  BY <1>1 DEF PoolInv, PoolTypeOK, NothingLost, OnceOnly

\* spawn keeps the invariant.
LEMMA SpawnStep == ASSUME PoolInv, NEW b \in Blocks, Spawn(b) PROVE PoolInv'
<1> DEFINE pool == [f \in Fibers |-> IF f \in dead THEN Idle ELSE fiber[f]]
<1> USE FiberPoolConstants DEF PoolInv
<1>1. /\ pool \in [Fibers -> Blocks \cup {Idle}]
      /\ Running = {pool[f] : f \in Fibers} \ {Idle}
      /\ \A f, g \in Fibers : (pool[f] = pool[g] /\ pool[f] # Idle) => f = g
  BY DEF PoolTypeOK, Running, OnceOnly
<1>2. /\ b \in Blocks \ spawned /\ spawned' = spawned \cup {b}
      /\ dead' = {} /\ ended' = ended
      /\ b \notin Queued /\ b \notin Running /\ b \notin ended
  BY DEF Spawn, NothingLost
<1>3. CASE \E f \in Fibers : pool[f] = Idle
  <2>1. PICK f \in Fibers : pool[f] = Idle /\ fiber' = [pool EXCEPT ![f] = b]
    BY <1>3 DEF Spawn
  <2>2. queue' = queue /\ Queued' = Queued
    BY <1>3 DEF Spawn, Queued
  <2> HIDE DEF pool
  <2>3. fiber' \in [Fibers -> Blocks \cup {Idle}]
    BY <1>1, <2>1
  <2>4. Running' = Running \cup {b}
    BY <1>1, <1>2, <2>1 DEF Running
  <2>5. \A g, h \in Fibers : (fiber'[g] = fiber'[h] /\ fiber'[g] # Idle) => g = h
    BY <1>1, <1>2, <2>1
  <2>6. PoolTypeOK'
    BY <1>2, <2>2, <2>3 DEF PoolTypeOK
  <2>7. NothingLost'
    BY <1>2, <2>2, <2>4 DEF NothingLost
  <2>8. OnceOnly'
    BY <1>2, <2>2, <2>5 DEF OnceOnly
  <2> QED
    BY <2>6, <2>7, <2>8
<1>4. CASE ~ \E f \in Fibers : pool[f] = Idle
  <2>1. queue' = Append(queue, b) /\ fiber' = pool
    BY <1>4 DEF Spawn
  <2> HIDE DEF pool
  <2>2. /\ queue' \in Seq(Blocks)
        /\ Queued' = Queued \cup {b}
        /\ \A i, j \in 1..Len(queue') : queue'[i] = queue'[j] => i = j
    BY <1>2, <2>1, BlocksAppend
  <2>3. Running' = Running
    BY <1>1, <1>2, <2>1 DEF Running
  <2>4. PoolTypeOK'
    BY <1>1, <1>2, <2>1, <2>2 DEF PoolTypeOK
  <2>5. NothingLost'
    BY <1>2, <2>2, <2>3 DEF NothingLost
  <2>6. OnceOnly'
    BY <1>1, <1>2, <2>1, <2>2 DEF OnceOnly
  <2> QED
    BY <2>4, <2>5, <2>6
<1> QED
  BY <1>3, <1>4

\* The end of a block keeps the invariant.
LEMMA FinishStep == ASSUME PoolInv, NEW f \in Fibers, Finish(f) PROVE PoolInv'
<1> USE FiberPoolConstants DEF PoolInv
<1>1. /\ f \notin dead /\ fiber[f] \in Running
      /\ ended' = ended \cup {fiber[f]} /\ dead' = dead /\ spawned' = spawned
  BY DEF Finish, Running
<1>2. fiber[f] \in Blocks /\ \A g \in Fibers \ dead : fiber[g] = fiber[f] => g = f
  BY <1>1 DEF PoolTypeOK, OnceOnly, Running
<1>3. CASE queue = <<>>
  <2>1. fiber' = [fiber EXCEPT ![f] = Idle] /\ queue' = queue /\ Queued' = Queued
    BY <1>3 DEF Finish, Queued
  <2>2. Running' = Running \ {fiber[f]}
    BY <1>1, <1>2, <2>1 DEF Running, PoolTypeOK
  <2>3. PoolTypeOK'
    BY <1>1, <1>2, <2>1 DEF PoolTypeOK
  <2>4. NothingLost'
    BY <1>1, <2>1, <2>2 DEF NothingLost
  <2>5. OnceOnly'
    BY <1>1, <2>1 DEF OnceOnly, PoolTypeOK
  <2> QED
    BY <2>3, <2>4, <2>5
<1>4. CASE queue # <<>>
  <2> DEFINE next == Head(queue)
  <2>1. fiber' = [fiber EXCEPT ![f] = next] /\ queue' = Tail(queue)
    BY <1>4 DEF Finish
  <2>2. /\ queue' \in Seq(Blocks)
        /\ next \in Queued /\ Queued' = Queued \ {next}
        /\ \A i, j \in 1..Len(queue') : queue'[i] = queue'[j] => i = j
    BY <1>4, <2>1, BlocksTail
  <2>3. next \in Blocks /\ next \notin Running /\ next \notin ended
    BY <2>2 DEF NothingLost, Queued, PoolTypeOK
  <2> HIDE DEF next
  <2>4. Running' = (Running \ {fiber[f]}) \cup {next}
    BY <1>1, <1>2, <2>1, <2>3 DEF Running, PoolTypeOK
  <2>5. PoolTypeOK'
    BY <1>1, <1>2, <2>1, <2>2, <2>3 DEF PoolTypeOK
  <2>6. NothingLost'
    BY <1>1, <2>2, <2>3, <2>4 DEF NothingLost
  <2>7. \A g \in Fibers \ dead : fiber[g] # next
    BY <2>3 DEF Running
  <2>8. OnceOnly'
    BY <1>1, <2>1, <2>2, <2>7 DEF OnceOnly, PoolTypeOK
  <2> QED
    BY <2>5, <2>6, <2>8
<1> QED
  BY <1>3, <1>4

\* An exception keeps the invariant.
LEMMA RaiseStep == ASSUME PoolInv, NEW f \in Fibers, Raise(f) PROVE PoolInv'
<1> USE FiberPoolConstants DEF PoolInv
<1>1. /\ f \notin dead /\ fiber[f] \in Running
      /\ ended' = ended \cup {fiber[f]} /\ dead' = dead \cup {f}
      /\ UNCHANGED <<fiber, queue, spawned>> /\ Queued' = Queued
  BY DEF Raise, Running, Queued
<1>2. fiber[f] \in Blocks /\ \A g \in Fibers \ dead : fiber[g] = fiber[f] => g = f
  BY <1>1 DEF PoolTypeOK, OnceOnly, Running
<1>3. Running' = Running \ {fiber[f]}
  BY <1>1, <1>2 DEF Running
<1>4. PoolTypeOK'
  BY <1>1, <1>2 DEF PoolTypeOK
<1>5. NothingLost'
  BY <1>1, <1>3 DEF NothingLost
<1>6. OnceOnly'
  BY <1>1 DEF OnceOnly
<1> QED
  BY <1>4, <1>5, <1>6

\* In every reachable state of the pool the types are right, and each block is
\* waiting, running or over, in one place only.
THEOREM PoolInvariance == PoolSpec => []PoolInv
<1>1. PoolInv /\ [PoolNext]_poolVars => PoolInv'
  <2> SUFFICES ASSUME PoolInv, [PoolNext]_poolVars PROVE PoolInv'
    OBVIOUS
  <2>1. CASE \E b \in Blocks : Spawn(b)
    BY <2>1, SpawnStep
  <2>2. CASE \E f \in Fibers : Finish(f)
    BY <2>2, FinishStep
  <2>3. CASE \E f \in Fibers : Raise(f)
    BY <2>3, RaiseStep
  <2>4. CASE UNCHANGED poolVars
    BY <2>4 DEF poolVars, PoolInv, PoolTypeOK, NothingLost, OnceOnly, Queued, Running
  <2> QED
    BY <2>1, <2>2, <2>3, <2>4 DEF PoolNext
<1> QED
  BY <1>1, PoolStart, PTL DEF PoolSpec

\* A fiber that is reused, dies or is replaced loses no block, and no block is
\* run twice.
THEOREM NoBlockLost == PoolSpec => [](NothingLost /\ OnceOnly)
<1>1. PoolInv => NothingLost /\ OnceOnly
  BY DEF PoolInv
<1> QED
  BY <1>1, PoolInvariance, PTL

\* A block waits only if all the fibers of the pool are alive and busy.
THEOREM FullBeforeWaiting == PoolSpec => WaitsOnlyIfFull
<1> DEFINE Goal == Len(queue') > Len(queue) => (dead' = {} /\ \A f \in Fibers : fiber'[f] # Idle)
<1>1. PoolInv /\ [PoolNext]_poolVars => [Goal]_poolVars
  <2> SUFFICES ASSUME PoolInv, PoolNext, Len(queue') > Len(queue)
               PROVE  dead' = {} /\ \A f \in Fibers : fiber'[f] # Idle
    BY DEF PoolInv
  <2>1. queue \in Seq(Blocks)
    BY DEF PoolInv, PoolTypeOK
  <2>2. CASE \E b \in Blocks : Spawn(b)
    <3>1. PICK b \in Blocks : Spawn(b)
      BY <2>2
    <3> DEFINE pool == [f \in Fibers |-> IF f \in dead THEN Idle ELSE fiber[f]]
    <3>2. CASE \E f \in Fibers : pool[f] = Idle
      <4>1. queue' = queue
        BY <3>1, <3>2 DEF Spawn
      <4> QED
        BY <2>1, <4>1
    <3>3. CASE ~ \E f \in Fibers : pool[f] = Idle
      BY <3>1, <3>3 DEF Spawn
    <3> QED
      BY <3>2, <3>3
  <2>3. CASE \E f \in Fibers : Finish(f) \/ Raise(f)
    <3>1. queue' = queue \/ (queue # <<>> /\ queue' = Tail(queue))
      BY <2>3 DEF Finish, Raise
    <3> QED
      BY <2>1, <3>1
  <2> QED
    BY <2>2, <2>3 DEF PoolNext
<1>2. PoolSpec => []PoolInv
  BY PoolInvariance
<1> QED
  BY <1>1, <1>2, PTL DEF PoolSpec, WaitsOnlyIfFull
=============================================================================
