------------------------ MODULE NonInviteProxyProofs ------------------------
(* Proofs about NonInviteProxy, for all durations and numbers of targets.  *)
EXTENDS NonInviteProxy, TLAPS

\* The named assumptions on the durations, one constant at a time.
LEMMA DurationFacts ==
    /\ INT1 \in Nat \ {0} /\ INT2 \in Nat \ {0} /\ TIMER_J \in Nat \ {0}
    /\ TIMER_E \in Nat \ {0} /\ TIMER_F \in Nat \ {0} /\ TIMER_K \in Nat \ {0}
    /\ T2 \in Nat \ {0} /\ LINK \in Nat \ {0} /\ TIMER_E <= T2
    /\ MaxTargets \in Nat \ {0}
BY Durations, ClientDurations, TargetBound DEF IsDuration

\* What cancelling timers and a tick of the clock do to a timer function.
LEMMA TimerFacts ==
    ASSUME NEW T, NEW f \in [T -> Nat \cup {Off}], NEW S
    PROVE  /\ Cancel(f, S) \in [T -> Nat \cup {Off}]
           /\ \A t \in T : Cancel(f, S)[t] = IF t \in S THEN Off ELSE f[t]
           /\ Elapse(f) \in [T -> Nat \cup {Off}]
           /\ \A t \in T : Elapse(f)[t] = IF f[t] > 0 THEN f[t] - 1 ELSE f[t]
BY DEF Cancel, Elapse, Off

\* The same for the client transaction's own copy of the operators.
LEMMA ClientTimerFacts ==
    ASSUME NEW T, NEW f \in [T -> Nat \cup {Off}], NEW S
    PROVE  /\ Client!Cancel(f, S) \in [T -> Nat \cup {Off}]
           /\ \A t \in T : Client!Cancel(f, S)[t] = IF t \in S THEN Off ELSE f[t]
           /\ Client!Elapse(f) \in [T -> Nat \cup {Off}]
           /\ \A t \in T : Client!Elapse(f)[t] = IF f[t] > 0 THEN f[t] - 1 ELSE f[t]
BY DEF Client!Cancel, Client!Elapse, Client!Off, Off

-----------------------------------------------------------------------------
(* The two transactions on their own.                                      *)

\* The part of the inductive invariant about the server transaction, and the
\* part about the client transaction.
ServerOK == TypeOK /\ ServerTimers /\ (state \in Live => finals = {})
ClientOK == ClientTypeOK /\ ClientTimers

\* Nothing revives a server transaction that no longer waits for its answer.
ServerMoves == ServerOK' /\ (state' \in Live => state \in Live)

\* A final answer ends the wait of the requester.
LEMMA ReplyFinalMoves ==
    ASSUME ServerOK, NEW r \in Finals, ReplyFinal(r)
    PROVE  ServerMoves /\ state' \notin Live
<1> USE DurationFacts
<1> USE DEF ServerOK, ServerMoves, TypeOK, ServerTimers, Scheduled, Off, Timers, Live,
    Deadline
<1> DEFINE rest == Cancel(tm, {"INT1", "INT2"})
<1>1. /\ rest \in [Timers -> Nat \cup {Off}]
      /\ \A t \in Timers : rest[t] = IF t \in {"INT1", "INT2"} THEN Off ELSE tm[t]
    <2>1. tm \in [Timers -> Nat \cup {Off}]
        BY DEF ServerOK, TypeOK
    <2>2. QED
        BY <2>1, TimerFacts
<1>2. CASE transport = "udp"
    <2>1. state' = "completed" /\ tm' = [rest EXCEPT !["J"] = TIMER_J]
        BY <1>2 DEF ReplyFinal
    <2> HIDE DEF rest
    <2>2. QED
        BY <1>1, <2>1 DEF ReplyFinal
<1>3. CASE transport # "udp"
    <2>1. state' = "terminated" /\ tm' = rest
        BY <1>3 DEF ReplyFinal
    <2> HIDE DEF rest
    <2>2. QED
        BY <1>1, <2>1 DEF ReplyFinal
<1>4. QED
    BY <1>2, <1>3

\* The core's reply: accepted or refused, the requester no longer waits.
LEMMA ReplyMoves ==
    ASSUME ServerOK, Reply
    PROVE  ServerMoves /\ state' \notin Live
<1>1. CASE state \in Live
    BY <1>1, ReplyFinalMoves DEF Reply
<1>2. CASE state \notin Live
    <2>1. UNCHANGED vars
        BY <1>2 DEF Reply
    <2>2. QED
        BY <1>2, <2>1 DEF vars, ServerOK, ServerMoves, TypeOK, ServerTimers, Scheduled,
           Timers
<1>3. QED
    BY <1>1, <1>2

\* A step that leaves the server transaction alone.
LEMMA IdleMoves ==
    ASSUME ServerOK, UNCHANGED vars
    PROVE  ServerMoves
BY DEF vars, ServerOK, ServerMoves, TypeOK, ServerTimers, Scheduled, Timers

\* The answer that the core intends is sent, unless the script drops it.
LEMMA ReplyUnlessDroppedMoves ==
    ASSUME ServerOK, ReplyUnlessDropped
    PROVE  /\ ServerMoves /\ raised' = raised
           /\ \/ state' \notin Live /\ dropped' = dropped
              \/ dropped' = TRUE
<1>0. raised' = raised
    BY DEF ReplyUnlessDropped
<1>1. CASE Reply /\ UNCHANGED dropped
    BY <1>0, <1>1, ReplyMoves
<1>2. CASE dropped' = TRUE /\ UNCHANGED vars
    BY <1>0, <1>2, IdleMoves
<1>3. QED
    BY <1>1, <1>2 DEF ReplyUnlessDropped

\* A provisional response, a retransmission, a timer and the clock.
LEMMA OtherServerMoves ==
    ASSUME ServerOK,
           \/ \E r \in Provisionals : ReplyProvisional(r)
           \/ \E c \in Connections : ReceiveRetransmission(c)
           \/ Fire
           \/ Tick
    PROVE  ServerMoves
<1> USE DurationFacts
<1> USE DEF ServerOK, ServerMoves, TypeOK, ServerTimers, Scheduled, Off, Timers, Live,
    Deadline
<1>1. ASSUME NEW r \in Provisionals, ReplyProvisional(r)
      PROVE  ServerMoves
    BY <1>1 DEF ReplyProvisional
<1>2. ASSUME NEW c \in Connections, ReceiveRetransmission(c)
      PROVE  ServerMoves
    BY <1>2 DEF ReceiveRetransmission
<1>3. CASE FireINT1
    <2>1. state \in Live /\ tm["INT1"] = 0 /\ age <= INT1
        BY <1>3 DEF FireINT1, Due
    <2>2. state' \in Live /\ finals' = finals
          /\ last_response' \in Provisionals \cup Finals \cup {NoResponse}
        BY <1>3, <2>1, Responses DEF FireINT1
    <2>3. tm' = [tm EXCEPT !["INT1"] = Off, !["INT2"] = INT2]
          /\ UNCHANGED <<transport, connection, finals, age>>
        BY <1>3 DEF FireINT1
    <2>4. QED
        BY <2>1, <2>2, <2>3
<1>4. ASSUME NEW t \in {"INT2", "J"}, FireEnd(t)
      PROVE  ServerMoves
    <2> DEFINE rest == Cancel(tm, {t})
    <2>1. /\ rest \in [Timers -> Nat \cup {Off}]
          /\ \A u \in Timers : rest[u] = IF u \in {t} THEN Off ELSE tm[u]
        <3>1. tm \in [Timers -> Nat \cup {Off}]
            BY DEF ServerOK, TypeOK
        <3>2. QED
            BY <3>1, TimerFacts
    <2>2. tm' = rest /\ state' = "terminated"
        BY <1>4 DEF FireEnd
    <2> HIDE DEF rest
    <2>3. QED
        BY <1>4, <2>1, <2>2 DEF FireEnd, Due
<1>5. CASE Tick
    <2>1. /\ Elapse(tm) \in [Timers -> Nat \cup {Off}]
          /\ \A u \in Timers : Elapse(tm)[u] = IF tm[u] > 0 THEN tm[u] - 1 ELSE tm[u]
        BY TimerFacts
    <2>2. tm' = Elapse(tm) /\ \A u \in Timers : tm[u] # 0
        BY <1>5 DEF Tick, NoneDue
    <2>3. QED
        BY <1>5, <2>1, <2>2 DEF Tick
<1>6. QED
    BY <1>1, <1>2, <1>3, <1>4, <1>5 DEF Fire

-----------------------------------------------------------------------------
\* A new client transaction waits, whatever became of the one before it.
LEMMA SendRequestMoves ==
    ASSUME Client!SendRequest
    PROVE  ClientOK' /\ cstate' \in Live
<1> USE DurationFacts DEF ClientOK, ClientTypeOK, ClientTimers, Live, Scheduled, Off,
    Client!Timers
<1>1. /\ ctransport' \in {"udp", "tcp"} /\ link' \in {"up", "pending"}
      /\ cstate' = "trying" /\ intE' = TIMER_E
    BY DEF Client!SendRequest
<1>2. /\ ctm' \in [Client!Timers -> Nat \cup {Off}]
      /\ ctm'["F"] = TIMER_F /\ ctm'["K"] = Off
    BY DEF Client!SendRequest, Client!Stopped, Client!Off
<1>3. QED
    BY <1>1, <1>2

\* Whatever ends or moves a client transaction keeps its timers in step with
\* its state, and none but a final response, timer F and a failed connection
\* ends its wait.
LEMMA ClientMoves ==
    ASSUME ClientOK
    PROVE  /\ Client!ReceiveProvisional => ClientOK' /\ cstate' \in Live
           /\ Client!ReceiveFinal \/ Client!FireF \/ Client!LinkFailed => ClientOK'
           /\ Client!LinkUp \/ Client!FireE \/ Client!FireK \/ Client!Tick
                  \/ UNCHANGED client
              => ClientOK' /\ (cstate \in Live => cstate' \in Live)
<1>a. ASSUME NEW S
      PROVE  /\ Client!Cancel(ctm, S) \in [Client!Timers -> Nat \cup {Off}]
             /\ \A u \in Client!Timers :
                    Client!Cancel(ctm, S)[u] = IF u \in S THEN Off ELSE ctm[u]
    <2>1. ctm \in [Client!Timers -> Nat \cup {Off}]
        BY DEF ClientOK, ClientTypeOK
    <2>2. QED
        BY <2>1, ClientTimerFacts
<1> USE DurationFacts
<1> USE DEF ClientOK, ClientTypeOK, ClientTimers, Live, Scheduled, Off, Client!Timers,
    Client!Live, Client!Due
<1>1. ASSUME Client!ReceiveProvisional PROVE ClientOK' /\ cstate' \in Live
    BY <1>1 DEF Client!ReceiveProvisional
<1>2. ASSUME Client!ReceiveFinal PROVE ClientOK'
    <2> DEFINE rest == Client!Cancel(ctm, {"E", "F"})
    <2>1. /\ rest \in [Client!Timers -> Nat \cup {Off}]
          /\ \A u \in Client!Timers : rest[u] = IF u \in {"E", "F"} THEN Off ELSE ctm[u]
        BY <1>a
    <2>2. CASE ctransport = "udp"
        <3>1. cstate' = "completed" /\ ctm' = [rest EXCEPT !["K"] = TIMER_K]
            BY <1>2, <2>2 DEF Client!ReceiveFinal
        <3> HIDE DEF rest
        <3>2. QED
            BY <1>2, <2>1, <3>1 DEF Client!ReceiveFinal
    <2>3. CASE ctransport # "udp"
        <3>1. cstate' = "terminated" /\ ctm' = rest
            BY <1>2, <2>3 DEF Client!ReceiveFinal
        <3> HIDE DEF rest
        <3>2. QED
            BY <1>2, <2>1, <3>1 DEF Client!ReceiveFinal
    <2>4. QED
        BY <2>2, <2>3
<1>3. ASSUME Client!FireF PROVE ClientOK'
    <2> DEFINE rest == Client!Cancel(ctm, {"E", "F"})
    <2>1. /\ rest \in [Client!Timers -> Nat \cup {Off}]
          /\ \A u \in Client!Timers : rest[u] = IF u \in {"E", "F"} THEN Off ELSE ctm[u]
        BY <1>a
    <2>2. ctm' = rest
        BY <1>3 DEF Client!FireF
    <2> HIDE DEF rest
    <2>3. QED
        BY <1>3, <2>1, <2>2 DEF Client!FireF
<1>4. ASSUME Client!LinkFailed PROVE ClientOK'
    <2> DEFINE rest == Client!Cancel(ctm, {"LINK", "E", "F"})
    <2>1. /\ rest \in [Client!Timers -> Nat \cup {Off}]
          /\ \A u \in Client!Timers :
                 rest[u] = IF u \in {"LINK", "E", "F"} THEN Off ELSE ctm[u]
        BY <1>a
    <2>2. ctm' = rest
        BY <1>4 DEF Client!LinkFailed
    <2> HIDE DEF rest
    <2>3. QED
        BY <1>4, <2>1, <2>2 DEF Client!LinkFailed
<1>5. ASSUME Client!LinkUp PROVE ClientOK' /\ cstate' = cstate
    <2> DEFINE rest == Client!Cancel(ctm, {"LINK"})
    <2>1. /\ rest \in [Client!Timers -> Nat \cup {Off}]
          /\ \A u \in Client!Timers : rest[u] = IF u \in {"LINK"} THEN Off ELSE ctm[u]
        BY <1>a
    <2>2. ctm' = rest
        BY <1>5 DEF Client!LinkUp
    <2> HIDE DEF rest
    <2>3. QED
        BY <1>5, <2>1, <2>2 DEF Client!LinkUp
<1>6. ASSUME Client!FireE PROVE ClientOK' /\ cstate' = cstate
    <2> DEFINE next == IF cstate = "trying" THEN Client!Backoff(intE, T2) ELSE T2
    <2>1. next \in 1..T2
        BY DEF Client!Backoff
    <2>2. intE' = next /\ ctm' = [ctm EXCEPT !["E"] = next]
        BY <1>6 DEF Client!FireE
    <2> HIDE DEF next
    <2>3. QED
        BY <1>6, <2>1, <2>2 DEF Client!FireE
<1>7. ASSUME Client!FireK PROVE ClientOK' /\ (cstate \in Live => cstate' \in Live)
    <2> DEFINE rest == Client!Cancel(ctm, {"K"})
    <2>1. /\ rest \in [Client!Timers -> Nat \cup {Off}]
          /\ \A u \in Client!Timers : rest[u] = IF u \in {"K"} THEN Off ELSE ctm[u]
        BY <1>a
    <2>2. ctm' = rest
        BY <1>7 DEF Client!FireK
    <2> HIDE DEF rest
    <2>3. QED
        BY <1>7, <2>1, <2>2 DEF Client!FireK
<1>8. ASSUME Client!Tick PROVE ClientOK' /\ cstate' = cstate
    <2>1. /\ Client!Elapse(ctm) \in [Client!Timers -> Nat \cup {Off}]
          /\ \A u \in Client!Timers :
                 Client!Elapse(ctm)[u] = IF ctm[u] > 0 THEN ctm[u] - 1 ELSE ctm[u]
        BY ClientTimerFacts
    <2>2. ctm' = Client!Elapse(ctm)
        BY <1>8 DEF Client!Tick
    <2>3. QED
        BY <1>8, <2>1, <2>2 DEF Client!Tick
<1>9. ASSUME UNCHANGED client PROVE ClientOK' /\ cstate' = cstate
    BY <1>9 DEF client
<1>10. QED
    BY <1>1, <1>2, <1>3, <1>4, <1>5, <1>6, <1>7, <1>8, <1>9

-----------------------------------------------------------------------------
(* The two transactions and the core together.                             *)

\* proxy.route leaves the system in a state that satisfies the invariant.
LEMMA InitIInv == ProxyInit => IInv
<1> SUFFICES ASSUME ProxyInit PROVE IInv
    OBVIOUS
<1> USE DurationFacts
<1>1. TypeOK /\ ServerTimers /\ (state \in Live => finals = {})
    <2>1. tm \in [Timers -> Nat \cup {Off}]
          /\ tm["INT1"] = INT1 /\ tm["INT2"] = Off /\ tm["J"] = Off
        BY DEF ProxyInit, Init, Stopped, Timers, Off
    <2>2. QED
        BY <2>1 DEF ProxyInit, Init, TypeOK, ServerTimers, Scheduled, Live, Off
<1>2. ClientTypeOK /\ ClientTimers
    <2>1. ctm = [t \in Client!Timers |-> Off]
        BY DEF ProxyInit, Client!Init, Client!Stopped, Client!Off, Off
    <2>2. QED
        BY <2>1 DEF ProxyInit, Client!Init, ClientTypeOK, ClientTimers, Scheduled, Live,
           Off, Client!Timers
<1>3. CoreTypeOK
    <2>1. failover \in BOOLEAN /\ dropped \in BOOLEAN /\ raised \in BOOLEAN
        BY DEF ProxyInit
    <2>2. dns \in {"pending", "again", "done"} /\ left \in 0..MaxTargets
        BY DEF ProxyInit
    <2>3. QED
        BY <2>1, <2>2 DEF CoreTypeOK
<1>4. QED
    BY <1>1, <1>2, <1>3 DEF IInv, RequesterNotForgotten, ProxyInit

\* The core's search for a target: either another transaction waits for an
\* answer, or the requester has one, or the script has dropped it, or there was
\* no usable target and the search raised.
LEMMA TryNextTargetMoves ==
    ASSUME ServerOK, ClientOK, CoreTypeOK, NEW n \in 0..MaxTargets,
           \/ TryNextTarget(n, UNCHANGED client)
           \/ TryNextTarget(n, Client!ReceiveFinal)
           \/ TryNextTarget(n, Client!FireF)
           \/ TryNextTarget(n, Client!LinkFailed)
    PROVE  /\ ServerMoves /\ ClientOK'
           /\ left' \in 0..MaxTargets /\ dropped' \in BOOLEAN /\ raised' \in BOOLEAN
           /\ cstate' \in Live \/ state' \notin Live \/ dropped' \/ raised'
<1>1. CASE /\ n > 0
           /\ left' \in 0..(n - 1)
           /\ Client!SendRequest
           /\ UNCHANGED <<vars, dropped, raised>>
    <2>1. ServerMoves
        BY <1>1, IdleMoves
    <2>2. ClientOK' /\ cstate' \in Live
        BY <1>1, SendRequestMoves
    <2>3. left' \in 0..MaxTargets
        BY <1>1, DurationFacts
    <2>4. dropped' \in BOOLEAN /\ raised' \in BOOLEAN
        BY <1>1 DEF CoreTypeOK
    <2>5. QED
        BY <2>1, <2>2, <2>3, <2>4
<1>2. CASE /\ left' = 0
           /\ \/ UNCHANGED client
              \/ Client!ReceiveFinal \/ Client!FireF \/ Client!LinkFailed
           /\ ReplyUnlessDropped
    <2>1. /\ ServerMoves /\ raised' = raised
          /\ \/ state' \notin Live /\ dropped' = dropped
             \/ dropped' = TRUE
        BY <1>2, ReplyUnlessDroppedMoves
    <2>2. ClientOK'
        BY <1>2, ClientMoves
    <2>3. left' \in 0..MaxTargets
        BY <1>2, DurationFacts
    <2>4. dropped' \in BOOLEAN /\ raised' \in BOOLEAN
        BY <2>1 DEF CoreTypeOK
    <2>5. QED
        BY <2>1, <2>2, <2>3, <2>4
<1>3. CASE /\ n > 0
           /\ left' \in 0..(n - 1)
           /\ \/ UNCHANGED client
              \/ Client!ReceiveFinal \/ Client!FireF \/ Client!LinkFailed
           /\ Raise
    <2>1. ServerMoves
        BY <1>3, IdleMoves DEF Raise
    <2>2. ClientOK'
        BY <1>3, ClientMoves
    <2>3. left' \in 0..MaxTargets
        BY <1>3, DurationFacts
    <2>4. dropped' \in BOOLEAN /\ raised' = TRUE
        BY <1>3 DEF CoreTypeOK, Raise
    <2>5. QED
        BY <2>1, <2>2, <2>3, <2>4
<1>4. QED
    BY <1>1, <1>2, <1>3 DEF TryNextTarget

\* A step of the two transactions after which the target still waits if it did
\* before, and which the core does not notice.
LEMMA QuietStep ==
    ASSUME IInv, ServerMoves, ClientOK', UNCHANGED core,
           cstate \in Live => cstate' \in Live
    PROVE  IInv'
<1>1. CoreTypeOK'
    BY DEF IInv, CoreTypeOK, core
<1>2. RequesterNotForgotten'
    BY DEF IInv, RequesterNotForgotten, core, ServerMoves
<1>3. QED
    BY <1>1, <1>2 DEF IInv, ServerMoves, ServerOK, ClientOK

\* A step in which the core reacts, as TryNextTargetMoves describes it.
LEMMA CoreStep ==
    ASSUME IInv, ServerMoves, ClientOK', failover' = failover,
           dns' \in {"pending", "again", "done"},
           left' \in 0..MaxTargets, dropped' \in BOOLEAN, raised' \in BOOLEAN,
           cstate' \in Live \/ state' \notin Live \/ dropped' \/ raised'
    PROVE  IInv'
<1>1. CoreTypeOK'
    BY DEF IInv, CoreTypeOK
<1>2. RequesterNotForgotten'
    BY DEF RequesterNotForgotten
<1>3. QED
    BY <1>1, <1>2 DEF IInv, ServerMoves, ServerOK, ClientOK

\* Every event that reaches the core or one of its transactions preserves the
\* inductive invariant.
LEMMA StepIInv == IInv /\ [ProxyNext]_allvars => IInv'
<1> SUFFICES ASSUME IInv, [ProxyNext]_allvars PROVE IInv'
    OBVIOUS
<1>a. ServerOK /\ ClientOK /\ CoreTypeOK
    BY DEF IInv, ServerOK, ClientOK
<1>b. dns' = dns => dns' \in {"pending", "again", "done"}
    BY <1>a DEF CoreTypeOK
<1>c. left \in 0..MaxTargets
    BY <1>a DEF CoreTypeOK
<1>1. CASE DnsFailed
    <2>1. /\ ServerMoves /\ raised' = raised
          /\ \/ state' \notin Live /\ dropped' = dropped
             \/ dropped' = TRUE
        BY <1>1, <1>a, ReplyUnlessDroppedMoves DEF DnsFailed
    <2>2. ClientOK'
        BY <1>1, <1>a, ClientMoves DEF DnsFailed
    <2>3. dropped' \in BOOLEAN /\ raised' \in BOOLEAN
        BY <1>a, <2>1 DEF CoreTypeOK
    <2>4. failover' = failover /\ left' \in 0..MaxTargets /\ dns' \in {"again", "done"}
        BY <1>1, <1>c DEF DnsFailed
    <2>5. QED
        BY <2>1, <2>2, <2>3, <2>4, CoreStep
<1>2. ASSUME NEW n \in 1..MaxTargets, DnsSucceeded(n)
      PROVE  IInv'
    <2>1. TryNextTarget(n, UNCHANGED client) /\ failover' = failover /\ dns' = "done"
        BY <1>2 DEF DnsSucceeded
    <2>2. n \in 0..MaxTargets
        BY DurationFacts
    <2>3. QED
        BY <1>a, <2>1, <2>2, TryNextTargetMoves, CoreStep
<1>d. CASE DnsWithoutTargets
    <2>1. ServerMoves
        BY <1>a, <1>d, IdleMoves DEF DnsWithoutTargets, Raise
    <2>2. ClientOK'
        BY <1>a, <1>d, ClientMoves DEF DnsWithoutTargets
    <2>3. dropped' \in BOOLEAN /\ raised' \in BOOLEAN /\ (dropped' \/ raised')
        BY <1>a, <1>d DEF DnsWithoutTargets, Raise, CoreTypeOK
    <2>4. failover' = failover /\ left' \in 0..MaxTargets /\ dns' = "done"
        BY <1>c, <1>d DEF DnsWithoutTargets
    <2>5. QED
        BY <2>1, <2>2, <2>3, <2>4, CoreStep
<1>e. ASSUME NEW n \in 1..MaxTargets, DnsSucceededAgain(n)
      PROVE  IInv'
    <2>1. ClientOK' /\ failover' = failover /\ dns' = "done"
        BY <1>a, <1>e, ClientMoves DEF DnsSucceededAgain
    <2>2. CASE Raise /\ left' = n - 1
        <3>1. ServerMoves /\ dropped' \in BOOLEAN /\ raised' = TRUE
            BY <1>a, <2>2, IdleMoves DEF Raise, CoreTypeOK
        <3>2. left' \in 0..MaxTargets
            BY <2>2, DurationFacts
        <3>3. QED
            BY <2>1, <3>1, <3>2, CoreStep
    <2>3. CASE ReplyUnlessDropped /\ left' = 0
        <3>1. /\ ServerMoves /\ raised' = raised
              /\ \/ state' \notin Live /\ dropped' = dropped
                 \/ dropped' = TRUE
            BY <2>3, <1>a, ReplyUnlessDroppedMoves
        <3>2. dropped' \in BOOLEAN /\ raised' \in BOOLEAN
            BY <1>a, <3>1 DEF CoreTypeOK
        <3>3. left' \in 0..MaxTargets
            BY <2>3, DurationFacts
        <3>4. QED
            BY <2>1, <3>1, <3>2, <3>3, CoreStep
    <2>4. QED
        BY <1>e, <2>2, <2>3 DEF DnsSucceededAgain
<1>3. CASE Provisional
    <2>1. ClientOK' /\ cstate' \in Live
        BY <1>3, <1>a, ClientMoves DEF Provisional
    <2>2. ServerMoves
        BY <1>3, <1>a, OtherServerMoves, IdleMoves DEF Provisional
    <2>3. QED
        BY <1>3, <2>1, <2>2, QuietStep DEF Provisional
<1>4. ASSUME NEW is503 \in BOOLEAN, Final(is503)
      PROVE  IInv'
    <2>1. failover' = failover /\ dns' = dns
        BY <1>4 DEF Final
    <2>2. CASE TryNextTarget(left, Client!ReceiveFinal)
        BY <1>a, <1>b, <1>c, <2>1, <2>2, TryNextTargetMoves, CoreStep
    <2>3. CASE Client!ReceiveFinal /\ ReplyUnlessDropped /\ UNCHANGED left
        <3>1. /\ ServerMoves /\ raised' = raised
              /\ \/ state' \notin Live /\ dropped' = dropped
                 \/ dropped' = TRUE
            BY <2>3, <1>a, ReplyUnlessDroppedMoves
        <3>2. ClientOK'
            BY <2>3, <1>a, ClientMoves
        <3>3. dropped' \in BOOLEAN /\ raised' \in BOOLEAN
            BY <1>a, <3>1 DEF CoreTypeOK
        <3>4. left' \in 0..MaxTargets
            BY <1>c, <2>3
        <3>5. QED
            BY <1>b, <2>1, <3>1, <3>2, <3>3, <3>4, CoreStep
    <2>4. QED
        BY <1>4, <2>2, <2>3 DEF Final
<1>5. CASE Client!LinkUp /\ UNCHANGED <<core, vars>>
    BY <1>5, <1>a, ClientMoves, IdleMoves, QuietStep
<1>6. CASE ConnectionFailed
    <2>1. TryNextTarget(left, Client!LinkFailed) /\ failover' = failover /\ dns' = dns
        BY <1>6 DEF ConnectionFailed
    <2>2. QED
        BY <1>a, <1>b, <1>c, <2>1, TryNextTargetMoves, CoreStep
<1>7. ASSUME NEW c \in Connections,
             ReceiveRetransmission(c) /\ UNCHANGED <<core, client>>
      PROVE  IInv'
    BY <1>7, <1>a, OtherServerMoves, ClientMoves, QuietStep
<1>8. CASE Fire /\ UNCHANGED <<core, client>>
    BY <1>8, <1>a, OtherServerMoves, ClientMoves, QuietStep
<1>9. CASE (Client!FireE \/ Client!FireK) /\ UNCHANGED <<core, vars>>
    BY <1>9, <1>a, ClientMoves, IdleMoves, QuietStep
<1>10. CASE ClientTimeout
    <2>1. TryNextTarget(left, Client!FireF) /\ failover' = failover /\ dns' = dns
        BY <1>10 DEF ClientTimeout
    <2>2. QED
        BY <1>a, <1>b, <1>c, <2>1, TryNextTargetMoves, CoreStep
<1>11. CASE ProxyTick
    BY <1>11, <1>a, OtherServerMoves, ClientMoves, QuietStep DEF ProxyTick
<1>12. CASE UNCHANGED allvars
    <2>1. UNCHANGED vars /\ UNCHANGED core /\ UNCHANGED client
        BY <1>12 DEF allvars
    <2>2. QED
        BY <2>1, <1>a, ClientMoves, IdleMoves, QuietStep
<1>13. QED
    BY <1>1, <1>2, <1>d, <1>e, <1>3, <1>4, <1>5, <1>6, <1>7, <1>8, <1>9, <1>10, <1>11,
       <1>12 DEF ProxyNext, Dns, Timed

-----------------------------------------------------------------------------
\* The inductive invariant holds in every reachable state.
THEOREM Invariance == ProxySpec => []IInv
BY InitIInv, StepIInv, PTL DEF ProxySpec

\* Every variable of the two transactions and of the core keeps its type.
THEOREM TypeCorrect == ProxySpec => [](TypeOK /\ ClientTypeOK /\ CoreTypeOK)
<1>1. IInv => TypeOK /\ ClientTypeOK /\ CoreTypeOK
    BY DEF IInv
<1>2. QED
    BY <1>1, Invariance, PTL

\* However the DNS, the targets, their connections and the timers of the two
\* sides race, a request that nobody works on any more was answered or met the
\* deadline, unless the script dropped the answer or the DNS result held no
\* usable target.
THEOREM NotForgotten == ProxySpec => []RequesterNotForgotten
<1>1. IInv => RequesterNotForgotten
    BY DEF IInv
<1>2. QED
    BY <1>1, Invariance, PTL

\* No transaction waits without a timer that ends it: the server transaction
\* has INT1, INT2 or J until it is terminated, the client transaction F or K.
THEOREM NoLeak ==
    ProxySpec =>
        []( /\ state # "terminated" =>
                   \E t \in Timers : Scheduled(tm, t)
            /\ cstate \notin {"none", "terminated"} =>
                   \E t \in {"F", "K"} : Scheduled(ctm, t))
<1>1. IInv => /\ state # "terminated" => \E t \in Timers : Scheduled(tm, t)
              /\ cstate \notin {"none", "terminated"} =>
                     \E t \in {"F", "K"} : Scheduled(ctm, t)
    BY DEF IInv, TypeOK, ClientTypeOK, ServerTimers, ClientTimers, Timers, Live
<1>2. QED
    BY <1>1, Invariance, PTL

\* The server transaction changes only as one of its own operations does.
LEMMA ServerSteps ==
    ASSUME [ProxyNext]_allvars
    PROVE  \/ state \in Live /\ \E r \in Finals : ReplyFinal(r)
           \/ \E r \in Provisionals : ReplyProvisional(r)
           \/ \E c \in Connections : ReceiveRetransmission(c)
           \/ Fire
           \/ Tick
           \/ UNCHANGED vars
<1>1. ASSUME ReplyUnlessDropped
      PROVE  UNCHANGED vars \/ (state \in Live /\ \E r \in Finals : ReplyFinal(r))
    BY <1>1 DEF ReplyUnlessDropped, Reply
<1>2. CASE Dns
    BY <1>1, <1>2 DEF Dns, DnsFailed, DnsSucceeded, DnsWithoutTargets, DnsSucceededAgain,
       TryNextTarget, Raise
<1>3. CASE Provisional
    BY <1>3 DEF Provisional
<1>4. ASSUME NEW is503 \in BOOLEAN, Final(is503)
      PROVE  UNCHANGED vars \/ (state \in Live /\ \E r \in Finals : ReplyFinal(r))
    BY <1>1, <1>4 DEF Final, TryNextTarget, Raise
<1>5. CASE ConnectionFailed \/ ClientTimeout
    BY <1>1, <1>5 DEF ConnectionFailed, ClientTimeout, TryNextTarget, Raise
<1>6. QED
    BY <1>2, <1>3, <1>4, <1>5 DEF ProxyNext, Timed, ProxyTick, allvars

\* RFC 4320: no final response is sent later than INT1 + INT2 after the request
\* arrived, whatever the targets answer and when.
THEOREM NeverLate == ProxySpec => NoLateFinal
<1>1. ASSUME IInv, [ProxyNext]_allvars
      PROVE  [finals' # finals => age <= Deadline]_vars
    <2>1. SUFFICES ASSUME finals' # finals PROVE age <= Deadline
        BY DEF vars
    <2>2. state \in Live
        BY <1>1, <2>1, ServerSteps DEF ReplyProvisional, ReceiveRetransmission, Fire,
           FireINT1, FireEnd, Tick, vars
    <2>3. QED
        BY <1>1, <2>2, DurationFacts DEF IInv, TypeOK, ServerTimers, Scheduled, Timers,
           Deadline, Off
<1>2. QED
    BY <1>1, Invariance, PTL DEF ProxySpec, NoLateFinal

\* The server transaction that the core replies through implements the contract
\* of server transactions: one final answer, and none once it is gone.
THEOREM Refinement ==
    ProxySpec => Contract!CInit /\ [][Contract!CNext]_(Contract!cvars)
<1>1. ProxyInit => Contract!CInit
    BY DEF ProxyInit, Init, Contract!CInit
<1>2. ASSUME IInv, [ProxyNext]_allvars
      PROVE  [Contract!CNext]_(Contract!cvars)
    <2> USE DEF IInv, Live, Contract!CNext, Contract!Answer, Contract!Close,
        Contract!Compatible, Contract!cvars
    <2>1. ASSUME state \in Live, NEW r \in Finals, ReplyFinal(r)
          PROVE  Contract!CNext
        BY <1>2, <2>1 DEF ReplyFinal
    <2>2. ASSUME NEW r \in Provisionals, ReplyProvisional(r)
          PROVE  UNCHANGED Contract!cvars
        BY <2>2 DEF ReplyProvisional
    <2>3. ASSUME NEW c \in Connections, ReceiveRetransmission(c)
          PROVE  UNCHANGED Contract!cvars
        BY <2>3 DEF ReceiveRetransmission
    <2>4. CASE FireINT1
        <3>1. state \in Live /\ state' \in Live /\ finals' = finals
            BY <1>2, <2>4 DEF FireINT1, Due, ServerTimers, Scheduled, Off
        <3>2. QED
            BY <3>1
    <2>5. ASSUME NEW t \in {"INT2", "J"}, FireEnd(t)
          PROVE  [Contract!CNext]_(Contract!cvars)
        BY <2>5 DEF FireEnd
    <2>6. CASE Tick
        BY <2>6 DEF Tick
    <2>7. CASE UNCHANGED vars
        BY <2>7 DEF vars
    <2>8. QED
        BY <1>2, <2>1, <2>2, <2>3, <2>4, <2>5, <2>6, <2>7, ServerSteps DEF Fire
<1>3. QED
    BY <1>1, <1>2, Invariance, PTL DEF ProxySpec
=============================================================================
