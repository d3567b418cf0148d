------------------- MODULE InviteServerTransactionProofs -------------------
(* Proofs about InviteServerTransaction, for all durations and responses.  *)
EXTENDS InviteServerTransaction, TLAPS

\* What cancelling timers and a tick of the clock do to a timer function.
LEMMA TimerFacts ==
    ASSUME NEW T, NEW f \in [T -> Nat \cup {Off}], NEW S
    PROVE  /\ Cancel(f, S) \in [T -> Nat \cup {Off}]
           /\ \A t \in T : Cancel(f, S)[t] = IF t \in S THEN Off ELSE f[t]
           /\ Elapse(f) \in [T -> Nat \cup {Off}]
           /\ \A t \in T : Elapse(f)[t] = IF f[t] > 0 THEN f[t] - 1 ELSE f[t]
BY DEF Cancel, Elapse, Off

\* The named assumption on the durations, one constant at a time.
LEMMA DurationFacts ==
    /\ TIMER_C2 \in Nat \ {0} /\ TIMER_G \in Nat \ {0} /\ T2 \in Nat \ {0}
    /\ TIMER_H \in Nat \ {0} /\ TIMER_I \in Nat \ {0} /\ TIMER_L \in Nat \ {0}
    /\ TIMER_G <= T2
BY Durations DEF IsDuration

\* A new transaction satisfies the inductive invariant.
LEMMA InitIInv == Init => IInv
BY DurationFacts, Responses DEF Init, IInv, TypeOK, TimersMatchState, AnswersMatchState,
   AgeMatchesTimers, NoMixedFinals, FinalIsRepeated, EndingTimer, RetransmissionStops,
   Scheduled, Stopped, Off, Timers, States, Final

\* Every reply, request and timer preserves the inductive invariant.
LEMMA StepIInv == IInv /\ [Next]_vars => IInv'
<1> SUFFICES ASSUME IInv, [Next]_vars PROVE IInv'
    OBVIOUS
<1>a. /\ Cancel(tm, {"G", "H"}) \in [Timers -> Nat \cup {Off}]
      /\ \A u \in Timers : Cancel(tm, {"G", "H"})[u]
                            = IF u \in {"G", "H"} THEN Off ELSE tm[u]
    BY TimerFacts DEF IInv, TypeOK
<1>b. ASSUME NEW t
      PROVE  /\ Cancel(tm, {t}) \in [Timers -> Nat \cup {Off}]
             /\ \A u \in Timers : Cancel(tm, {t})[u] = IF u = t THEN Off ELSE tm[u]
    BY TimerFacts DEF IInv, TypeOK
<1>c. /\ Elapse(tm) \in [Timers -> Nat \cup {Off}]
      /\ \A u \in Timers : Elapse(tm)[u] = IF tm[u] > 0 THEN tm[u] - 1 ELSE tm[u]
    BY TimerFacts DEF IInv, TypeOK
<1> USE DurationFacts, Responses
<1> USE DEF IInv, TypeOK, TimersMatchState, AnswersMatchState, AgeMatchesTimers,
    NoMixedFinals, FinalIsRepeated, EndingTimer, RetransmissionStops, Scheduled,
    Off, Timers, States, Final
<1>1. ASSUME NEW r \in Provisionals, ReplyProvisional(r) PROVE IInv'
    BY <1>1 DEF ReplyProvisional
<1>2. ASSUME NEW r \in Successes, ReplySuccess(r) PROVE IInv'
    BY <1>2 DEF ReplySuccess
<1>3. ASSUME NEW r \in Failures, ReplyFailure(r) PROVE IInv'
    BY <1>3 DEF ReplyFailure
<1>4. ASSUME NEW c \in Connections, ReceiveInvite(c) PROVE IInv'
    BY <1>4 DEF ReceiveInvite
<1>5. CASE ReceiveAck
    <2> DEFINE rest == Cancel(tm, {"G", "H"})
    <2>1. /\ rest \in [Timers -> Nat \cup {Off}]
          /\ \A t \in Timers : rest[t] = IF t \in {"G", "H"} THEN Off ELSE tm[t]
        BY <1>a
    <2> HIDE DEF rest
    <2>2. CASE transport = "udp"
        <3>1. state' = "confirmed" /\ tm' = [rest EXCEPT !["I"] = TIMER_I]
            BY <1>5, <2>2 DEF ReceiveAck, rest
        <3>2. QED
            BY <1>5, <2>1, <3>1 DEF ReceiveAck
    <2>3. CASE transport # "udp"
        <3>1. state' = "terminated" /\ tm' = rest
            BY <1>5, <2>3 DEF ReceiveAck, rest
        <3>2. QED
            BY <1>5, <2>1, <3>1 DEF ReceiveAck
    <2>4. QED
        BY <2>2, <2>3
<1>6. CASE FireG
    BY <1>6 DEF FireG, Due, Backoff
<1>7. CASE FireH
    BY <1>7, <1>a DEF FireH, Due
<1>8. ASSUME NEW t \in {"I", "L", "C2"}, FireEnd(t) PROVE IInv'
    <2>1. /\ tm' \in [Timers -> Nat \cup {Off}]
          /\ \A u \in Timers : tm'[u] = IF u = t THEN Off ELSE tm[u]
        <3>1. tm' = Cancel(tm, {t})
            BY <1>8 DEF FireEnd
        <3>2. QED
            BY <1>b, <3>1
    <2>2. state' = "terminated" /\ tm[t] = 0
        BY <1>8 DEF FireEnd, Due
    <2>3. QED
        BY <1>8, <2>1, <2>2 DEF FireEnd
<1>9. CASE Tick
    BY <1>9, <1>c DEF Tick, NoneDue
<1>10. CASE UNCHANGED vars
    BY <1>10 DEF vars
<1>11. QED
    BY <1>1, <1>2, <1>3, <1>4, <1>5, <1>6, <1>7, <1>8, <1>9, <1>10 DEF Next, Fire

-----------------------------------------------------------------------------
\* The inductive invariant holds in every reachable state.
THEOREM Invariance == Spec => []IInv
<1>1. Init => IInv
    BY InitIInv
<1>2. IInv /\ [Next]_vars => IInv'
    BY StepIInv
<1>3. QED
    BY <1>1, <1>2, PTL DEF Spec

\* Type correctness of the transaction's state, timers and history.
THEOREM TypeCorrect == Spec => []TypeOK
<1>1. IInv => TypeOK
    BY DEF IInv
<1>2. QED
    BY <1>1, Invariance, PTL

\* receive_response never lets a [3456]xx and another final response both
\* reach the caller.
THEOREM NeverMixed == Spec => []NoMixedFinals
<1>1. IInv => NoMixedFinals
    BY DEF IInv
<1>2. QED
    BY <1>1, Invariance, PTL

\* retransmit_last_response repeats a final response once there is one.
THEOREM RepeatsFinal == Spec => []FinalIsRepeated
<1>1. IInv => FinalIsRepeated
    BY DEF IInv
<1>2. QED
    BY <1>1, Invariance, PTL

\* Every state in the table has its ending timer scheduled, and timer G runs
\* only while the ACK is missing.
THEOREM NoLeak == Spec => [](EndingTimer /\ RetransmissionStops)
<1>1. IInv => EndingTimer /\ RetransmissionStops
    BY DEF IInv, TimersMatchState
<1>2. QED
    BY <1>1, Invariance, PTL

\* The transaction is in the table for at most C2 + max(H + I, L).
THEOREM BoundedLifetime == Spec => []LifetimeBound
<1>1. IInv => LifetimeBound
    BY DurationFacts DEF IInv, TypeOK, TimersMatchState, EndingTimer, AgeMatchesTimers,
       LifetimeBound, LifeTime, Scheduled, Off, Timers, States
<1>2. QED
    BY <1>1, Invariance, PTL

-----------------------------------------------------------------------------
\* The safety part of the contract is implemented: the first state is one of
\* the contract, and every step is a step of the contract or invisible to it.
THEOREM Refinement ==
    Spec => Contract!CInit /\ [][Contract!CNext]_(Contract!cvars)
<1>1. Init => Contract!CInit
    BY DEF Init, Contract!CInit
<1>2. ASSUME IInv, [Next]_vars
      PROVE  [Contract!CNext]_(Contract!cvars)
    <2> USE DEF IInv, AnswersMatchState, Final, Contract!CNext, Contract!Answer,
        Contract!Close, Contract!Compatible, Contract!cvars
    <2>1. ASSUME NEW r \in Provisionals, ReplyProvisional(r)
          PROVE  UNCHANGED Contract!cvars
        BY <2>1 DEF ReplyProvisional
    <2>2. ASSUME NEW r \in Successes, ReplySuccess(r)
          PROVE  Contract!CNext
        BY <1>2, <2>2 DEF ReplySuccess
    <2>3. ASSUME NEW r \in Failures, ReplyFailure(r)
          PROVE  Contract!CNext
        BY <1>2, <2>3 DEF ReplyFailure
    <2>4. ASSUME NEW c \in Connections, ReceiveInvite(c)
          PROVE  UNCHANGED Contract!cvars
        BY <2>4 DEF ReceiveInvite
    <2>5. CASE ReceiveAck
        BY <2>5 DEF ReceiveAck
    <2>6. CASE FireG
        BY <2>6 DEF FireG
    <2>7. CASE FireH
        BY <2>7 DEF FireH
    <2>8. ASSUME NEW t \in {"I", "L", "C2"}, FireEnd(t)
          PROVE  [Contract!CNext]_(Contract!cvars)
        BY <2>8 DEF FireEnd
    <2>9. CASE Tick
        BY <2>9 DEF Tick
    <2>10. CASE UNCHANGED vars
        BY <2>10 DEF vars
    <2>11. QED
        BY <1>2, <2>1, <2>2, <2>3, <2>4, <2>5, <2>6, <2>7, <2>8, <2>9, <2>10
           DEF Next, Fire
<1>3. QED
    BY <1>1, <1>2, Invariance, PTL DEF Spec
=============================================================================
