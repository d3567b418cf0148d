------------------- MODULE InviteClientTransactionProofs -------------------
(* Proofs about InviteClientTransaction, for all durations.                *)
EXTENDS InviteClientTransaction, TLAPS

\* What cancelling timers and a tick of the clock do to a timer function.
LEMMA TimerFacts ==
    ASSUME NEW T, NEW f \in [T -> Nat \cup {Off}], NEW S
    PROVE  /\ Cancel(f, S) \in [T -> Nat \cup {Off}]
           /\ \A t \in T : Cancel(f, S)[t] = IF t \in S THEN Off ELSE f[t]
           /\ Elapse(f) \in [T -> Nat \cup {Off}]
           /\ \A t \in T : Elapse(f)[t] = IF f[t] > 0 THEN f[t] - 1 ELSE f[t]
BY DEF Cancel, Elapse, Off

\* The named assumptions on the durations, one constant at a time.
LEMMA DurationFacts ==
    /\ TIMER_A \in Nat \ {0} /\ TIMER_B \in Nat \ {0} /\ TIMER_C \in Nat \ {0}
    /\ TIMER_D \in Nat \ {0} /\ TIMER_M \in Nat \ {0} /\ TIMER_E \in Nat \ {0}
    /\ TIMER_F \in Nat \ {0} /\ T2 \in Nat \ {0} /\ GRACE \in Nat \ {0}
    /\ LINK \in Nat \ {0}
    /\ TIMER_E <= T2
BY Durations DEF IsDuration

\* The timers after cancelling the set S, and then sending the CANCEL.
LEMMA CancelTimersFacts ==
    ASSUME NEW f \in [Timers -> Nat \cup {Off}]
    PROVE  /\ CancelTimers(f) \in [Timers -> Nat \cup {Off}]
           /\ \A t \in Timers : CancelTimers(f)[t] =
                  IF t = "E" /\ transport = "udp" THEN TIMER_E
                  ELSE IF t = "F" THEN TIMER_F ELSE f[t]
BY DurationFacts DEF CancelTimers, Off, Timers

\* A new transaction satisfies the inductive invariant.
LEMMA InitIInv == Init => IInv
<1> SUFFICES ASSUME Init PROVE IInv
    OBVIOUS
<1>1. TypeOK
    <2>1. Stopped(Timers) \in [Timers -> Nat \cup {Off}]
        BY DEF Stopped
    <2>2. tm \in [Timers -> Nat \cup {Off}]
        BY <2>1, DurationFacts DEF Init
    <2>3. QED
        <3>1. transport \in {"udp", "tcp"} /\ link \in {"up", "pending", "down"}
            BY DEF Init
        <3>2. state = "calling" /\ cancel = FALSE /\ cancels = 0
              /\ intA = TIMER_A /\ intE = TIMER_E /\ told = [o \in Outcomes |-> 0]
            BY DEF Init
        <3>3. QED
            <4>1. cancel \in BOOLEAN
                BY <3>2
            <4>2. told \in [Outcomes -> Nat]
                BY <3>2
            <4>3. intE \in 1..T2 /\ intA \in Nat \ {0} /\ cancels \in Nat
                BY <3>2, DurationFacts
            <4>4. QED
                BY <2>2, <3>1, <3>2, <4>1, <4>2, <4>3 DEF TypeOK
<1>2. CancelMatchesState /\ TimersMatchState /\ CancelStopsInTime
    BY DurationFacts DEF Init, CancelMatchesState, CancelExactlyOnce,
       TimersMatchState, CancelStopsInTime, Scheduled, Stopped, Off, Timers
<1>3. OrderedTimers => OrderedWhileCalling /\ ToldMatchesState
    BY DurationFacts DEF Init, OrderedTimers, OrderedWhileCalling,
       ToldMatchesState, EndToldOnce, Outcomes, Scheduled, Stopped, Off, Timers
<1>4. QED
    BY <1>1, <1>2, <1>3 DEF IInv

\* Every response, connection event, cancellation and timer preserves the
\* inductive invariant.
LEMMA StepIInv == IInv /\ [Next]_vars => IInv'
<1> SUFFICES ASSUME IInv, [Next]_vars PROVE IInv'
    OBVIOUS
<1>a. ASSUME NEW S
      PROVE  /\ Cancel(tm, S) \in [Timers -> Nat \cup {Off}]
             /\ \A u \in Timers : Cancel(tm, S)[u] = IF u \in S THEN Off ELSE tm[u]
    <2>1. tm \in [Timers -> Nat \cup {Off}]
        BY DEF IInv, TypeOK
    <2>2. QED
        BY <2>1, TimerFacts
<1>b. /\ Elapse(tm) \in [Timers -> Nat \cup {Off}]
      /\ \A u \in Timers : Elapse(tm)[u] = IF tm[u] > 0 THEN tm[u] - 1 ELSE tm[u]
    BY TimerFacts DEF IInv, TypeOK
<1> USE DurationFacts
<1> USE DEF IInv, TypeOK, CancelMatchesState, CancelExactlyOnce, TimersMatchState,
    CancelStopsInTime, ShortCancel, OrderedTimers, OrderedWhileCalling, ToldMatchesState, EndToldOnce, Outcomes,
    Scheduled, Off, Timers
<1>1. CASE ReceiveProvisional
    <2> DEFINE rest == Cancel(tm, {"A", "B"})
    <2>1. /\ rest \in [Timers -> Nat \cup {Off}]
          /\ \A u \in Timers : rest[u] = IF u \in {"A", "B"} THEN Off ELSE tm[u]
        BY <1>a
    <2>2. CASE cancel
        <3>1. tm' = CancelTimers(rest) /\ intE' = TIMER_E /\ cancels' = cancels + 1
            BY <1>1, <2>2 DEF ReceiveProvisional
        <3> HIDE DEF rest
        <3>2. /\ tm' \in [Timers -> Nat \cup {Off}]
              /\ \A u \in Timers : tm'[u] =
                     IF u \in {"A", "B"} THEN Off
                     ELSE IF u = "E" /\ transport = "udp" THEN TIMER_E
                     ELSE IF u = "F" THEN TIMER_F ELSE tm[u]
            <4>1. /\ CancelTimers(rest) \in [Timers -> Nat \cup {Off}]
                  /\ \A u \in Timers : CancelTimers(rest)[u] =
                         IF u = "E" /\ transport = "udp" THEN TIMER_E
                         ELSE IF u = "F" THEN TIMER_F ELSE rest[u]
                BY <2>1, CancelTimersFacts
            <4>2. QED
                BY <2>1, <3>1, <4>1
        <3>3. QED
            BY <1>1, <2>2, <3>1, <3>2 DEF ReceiveProvisional
    <2>3. CASE ~cancel
        <3>1. tm' = rest /\ UNCHANGED <<intE, cancels>>
            BY <1>1, <2>3 DEF ReceiveProvisional
        <3> HIDE DEF rest
        <3>2. QED
            BY <1>1, <2>1, <2>3, <3>1 DEF ReceiveProvisional
    <2>4. QED
        BY <2>2, <2>3
<1>2. CASE ReceiveFailure
    <2> DEFINE rest == Cancel(tm, {"A", "B", "C"})
    <2>1. /\ rest \in [Timers -> Nat \cup {Off}]
          /\ \A u \in Timers : rest[u] = IF u \in {"A", "B", "C"} THEN Off ELSE tm[u]
        BY <1>a
    <2>2. CASE transport = "udp"
        <3>1. state' = "completed" /\ tm' = [rest EXCEPT !["D"] = TIMER_D]
            BY <1>2, <2>2 DEF ReceiveFailure
        <3> HIDE DEF rest
        <3>2. QED
            <4>1. /\ tm' \in [Timers -> Nat \cup {Off}]
                  /\ \A u \in Timers : tm'[u] = IF u \in {"A", "B", "C"} THEN Off
                                                 ELSE IF u = "D" THEN TIMER_D ELSE tm[u]
                BY <2>1, <3>1
            <4>2. UNCHANGED <<transport, link, intA, intE, cancel, cancels>>
                  /\ state \in {"calling", "proceeding"}
                BY <1>2 DEF ReceiveFailure
            <4>3. TypeOK' /\ CancelMatchesState'
                BY <1>2, <3>1, <4>1, <4>2 DEF ReceiveFailure, Tell
            <4>4. TimersMatchState' /\ (ShortCancel => CancelStopsInTime')
                BY <3>1, <4>1, <4>2
            <4>5. OrderedTimers => OrderedWhileCalling' /\ ToldMatchesState'
                BY <1>2, <3>1, <4>1, <4>2 DEF ReceiveFailure, Tell
            <4>6. QED
                BY <4>3, <4>4, <4>5
    <2>3. CASE transport # "udp"
        <3>1. state' = "terminated" /\ tm' = rest
            BY <1>2, <2>3 DEF ReceiveFailure
        <3> HIDE DEF rest
        <3>2. QED
            BY <1>2, <2>1, <2>3, <3>1 DEF ReceiveFailure, Tell
    <2>4. QED
        BY <2>2, <2>3
<1>3. CASE ReceiveSuccess
    <2> DEFINE rest == Cancel(tm, {"A", "B", "C"})
    <2>1. /\ rest \in [Timers -> Nat \cup {Off}]
          /\ \A u \in Timers : rest[u] = IF u \in {"A", "B", "C"} THEN Off ELSE tm[u]
        BY <1>a
    <2>2. CASE state \in {"calling", "proceeding"}
        <3>1. state' = "accepted" /\ tm' = [rest EXCEPT !["M"] = TIMER_M]
              /\ Tell("success")
            BY <1>3, <2>2 DEF ReceiveSuccess
        <3> HIDE DEF rest
        <3>2. /\ tm' \in [Timers -> Nat \cup {Off}]
              /\ \A u \in Timers : tm'[u] = IF u \in {"A", "B", "C"} THEN Off
                                             ELSE IF u = "M" THEN TIMER_M ELSE tm[u]
            BY <2>1, <3>1
        <3>3. QED
            <4>1. UNCHANGED <<transport, link, intA, intE, cancel, cancels>>
                BY <1>3 DEF ReceiveSuccess
            <4>2. TypeOK' /\ CancelMatchesState'
                BY <2>2, <3>1, <3>2, <4>1 DEF Tell
            <4>3. TimersMatchState' /\ (ShortCancel => CancelStopsInTime')
                BY <2>2, <3>1, <3>2, <4>1
            <4>4. OrderedTimers => OrderedWhileCalling' /\ ToldMatchesState'
                BY <1>3, <2>2, <3>1, <3>2, <4>1 DEF ReceiveSuccess, Tell
            <4>5. QED
                BY <4>2, <4>3, <4>4
    <2>3. CASE state = "accepted" /\ UNCHANGED <<state, tm, told>>
        BY <1>3, <2>3 DEF ReceiveSuccess
    <2>4. QED
        BY <1>3, <2>2, <2>3 DEF ReceiveSuccess
<1>4. CASE ReceiveResponseToCancel
    BY <1>4, <1>a DEF ReceiveResponseToCancel
<1>5. CASE LinkUp
    BY <1>5, <1>a DEF LinkUp
<1>6. CASE LinkFailed
    <2>1. UNCHANGED <<transport, intA, intE, cancel, cancels>> /\ link' = "down"
        BY <1>6 DEF LinkFailed
    <2>2. CASE state = "calling" \/ ~cancel
        <3> DEFINE rest == Cancel(tm, {"LINK", "A", "B", "C"})
        <3>1. /\ rest \in [Timers -> Nat \cup {Off}]
              /\ \A u \in Timers :
                     rest[u] = IF u \in {"LINK", "A", "B", "C"} THEN Off ELSE tm[u]
            BY <1>a
        <3>2. state' = "terminated" /\ tm' = rest /\ Tell("connection_failed")
            BY <1>6, <2>2 DEF LinkFailed
        <3> HIDE DEF rest
        <3>3. cancels = 0 /\ \A t \in {"E", "F", "GRACE"} : ~Scheduled(tm, t)
            BY <2>2
        <3>4. cancel' \in BOOLEAN
            BY <2>1
        <3>5. TypeOK' /\ CancelMatchesState'
            <4>1. told' \in [Outcomes -> Nat]
                <5>1. told \in [Outcomes -> Nat] /\ "connection_failed" \in Outcomes
                    OBVIOUS
                <5>2. told' = [told EXCEPT !["connection_failed"] = @ + 1]
                    BY <3>2 DEF Tell
                <5>3. QED
                    BY ONLY <5>1, <5>2
            <4>2. TypeOK'
                BY <2>1, <3>1, <3>2, <3>4, <4>1
            <4>3. CancelMatchesState'
                BY <2>1, <3>1, <3>2, <3>3
            <4>4. QED
                BY <4>2, <4>3
        <3>6. TimersMatchState' /\ (ShortCancel => CancelStopsInTime')
            BY <2>1, <3>1, <3>2, <3>3
        <3>7. OrderedTimers => OrderedWhileCalling' /\ ToldMatchesState'
            BY <1>6, <2>1, <2>2, <3>1, <3>2 DEF LinkFailed, Tell
        <3>8. QED
            BY <3>5, <3>6, <3>7
    <2>3. CASE ~(state = "calling" \/ ~cancel)
        <3> DEFINE rest == Cancel(tm, {"LINK"})
        <3>1. /\ rest \in [Timers -> Nat \cup {Off}]
              /\ \A u \in Timers : rest[u] = IF u \in {"LINK"} THEN Off ELSE tm[u]
            BY <1>a
        <3>2. tm' = rest /\ UNCHANGED <<state, told>>
            BY <1>6, <2>3 DEF LinkFailed
        <3> HIDE DEF rest
        <3>3. QED
            BY <2>1, <2>3, <3>1, <3>2
    <2>4. QED
        BY <2>2, <2>3
<1>7. CASE DoCancel
    <2>1. CASE state = "proceeding"
        <3>1. tm' = CancelTimers(tm) /\ intE' = TIMER_E /\ cancels' = cancels + 1
              /\ cancel' = TRUE
            BY <1>7, <2>1 DEF DoCancel, Abandon
        <3>2. QED
            BY <1>7, <2>1, <3>1, CancelTimersFacts DEF DoCancel
    <2>2. CASE state # "proceeding"
        BY <1>7, <2>2 DEF DoCancel, Abandon
    <2>3. QED
        BY <2>1, <2>2
<1>8. CASE FireA
    BY <1>8 DEF FireA, Due
<1>9. CASE FireB
    BY <1>9, <1>a DEF FireB, Due, Tell
<1>10. CASE FireC
    <2> DEFINE rest == Cancel(tm, {"A", "B", "C"})
    <2>1. /\ rest \in [Timers -> Nat \cup {Off}]
          /\ \A u \in Timers : rest[u] = IF u \in {"A", "B", "C"} THEN Off ELSE tm[u]
        BY <1>a
    <2>2. tm["C"] = 0 /\ told' = [told EXCEPT !["invite_timeout"] = @ + 1]
        BY <1>10 DEF FireC, Due, Tell
    <2>3. CASE ~cancel /\ state = "proceeding"
        <3>1. tm' = CancelTimers(rest) /\ intE' = TIMER_E /\ cancels' = cancels + 1
              /\ cancel' = TRUE
            BY <1>10, <2>3 DEF FireC, Abandon
        <3> HIDE DEF rest
        <3>2. /\ tm' \in [Timers -> Nat \cup {Off}]
              /\ \A u \in Timers : tm'[u] =
                     IF u \in {"A", "B", "C"} THEN Off
                     ELSE IF u = "E" /\ transport = "udp" THEN TIMER_E
                     ELSE IF u = "F" THEN TIMER_F ELSE tm[u]
            <4>1. /\ CancelTimers(rest) \in [Timers -> Nat \cup {Off}]
                  /\ \A u \in Timers : CancelTimers(rest)[u] =
                         IF u = "E" /\ transport = "udp" THEN TIMER_E
                         ELSE IF u = "F" THEN TIMER_F ELSE rest[u]
                BY <2>1, CancelTimersFacts
            <4>2. QED
                BY <2>1, <3>1, <4>1
        <3>3. QED
            BY <1>10, <2>2, <2>3, <3>1, <3>2 DEF FireC
    <2>4. CASE cancel \/ state # "proceeding"
        <3>1. tm' = rest /\ cancel' = TRUE /\ UNCHANGED <<intE, cancels>>
            BY <1>10, <2>4 DEF FireC, Abandon
        <3> HIDE DEF rest
        <3>2. QED
            BY <1>10, <2>1, <2>2, <2>4, <3>1 DEF FireC
    <2>5. QED
        BY <2>3, <2>4
<1>11. CASE FireE
    BY <1>11 DEF FireE, Due, Backoff
<1>12. CASE FireF
    BY <1>12, <1>a DEF FireF, Due
<1>13. ASSUME NEW t \in {"D", "M", "GRACE"}, FireEnd(t) PROVE IInv'
    BY <1>13, <1>a DEF FireEnd, FBefore, Due
<1>14. CASE Tick
    <2>1. /\ tm' \in [Timers -> Nat \cup {Off}]
          /\ \A u \in Timers : tm[u] # 0 /\ tm'[u] = IF tm[u] > 0 THEN tm[u] - 1 ELSE tm[u]
        BY <1>14, <1>b DEF Tick, NoneDue
    <2>2. UNCHANGED <<transport, link, state, intA, intE, cancel, cancels, told>>
        BY <1>14 DEF Tick
    <2>3. TypeOK' /\ CancelMatchesState'
        BY <2>1, <2>2
    <2>4. TimersMatchState'
        <3>1. tm'["F"] <= TIMER_F
            BY <2>1
        <3>2. \A u \in Timers : Scheduled(tm, u) <=> Scheduled(tm', u)
            BY <2>1
        <3> HIDE DEF Scheduled, Off
        <3>3. QED
            BY <2>2, <3>1, <3>2
    <2>c. ShortCancel => CancelStopsInTime'
        <3>1. /\ tm["F"] \in Nat \cup {-1} /\ tm["D"] \in Nat \cup {-1}
              /\ tm["M"] \in Nat \cup {-1} /\ tm["E"] \in Nat \cup {-1}
              /\ \A u \in {"F", "D", "M", "E"} :
                     tm[u] # 0 /\ tm'[u] = IF tm[u] > 0 THEN tm[u] - 1 ELSE tm[u]
            BY <2>1
        <3>2. ASSUME CancelStopsInTime PROVE CancelStopsInTime'
            BY ONLY <2>2, <3>1, <3>2 DEF CancelStopsInTime, Scheduled, Off
        <3>3. QED
            BY <3>2
    <2>5. OrderedTimers => OrderedWhileCalling'
        <3>1. /\ tm["LINK"] \in Nat \cup {-1} /\ tm["B"] \in Nat \cup {-1}
              /\ tm["C"] \in Nat \cup {-1}
              /\ tm["LINK"] # 0 /\ tm["B"] # 0 /\ tm["C"] # 0
              /\ tm'["LINK"] = IF tm["LINK"] > 0 THEN tm["LINK"] - 1 ELSE tm["LINK"]
              /\ tm'["B"] = IF tm["B"] > 0 THEN tm["B"] - 1 ELSE tm["B"]
              /\ tm'["C"] = IF tm["C"] > 0 THEN tm["C"] - 1 ELSE tm["C"]
            BY <2>1
        <3>2. ASSUME OrderedWhileCalling PROVE OrderedWhileCalling'
            BY ONLY <2>2, <3>1, <3>2 DEF OrderedWhileCalling, Scheduled, Off
        <3>3. QED
            BY <3>2
    <2>6. OrderedTimers => ToldMatchesState'
        BY <2>2
    <2>7. QED
        BY <2>3, <2>4, <2>c, <2>5, <2>6
<1>15. CASE UNCHANGED vars
    BY <1>15 DEF vars
<1>16. QED
    BY <1>1, <1>2, <1>3, <1>4, <1>5, <1>6, <1>7, <1>8, <1>9, <1>10, <1>11, <1>12,
       <1>13, <1>14, <1>15 DEF Next, Fire

-----------------------------------------------------------------------------
\* The inductive invariant holds in every reachable state.
THEOREM Invariance == Spec => []IInv
<1>1. Init => IInv
    BY InitIInv
<1>2. IInv /\ [Next]_vars => IInv'
    BY StepIInv
<1>3. QED
    BY <1>1, <1>2, PTL DEF Spec

\* Type correctness of the transaction's state, timers and history.
THEOREM TypeCorrect == Spec => []TypeOK
<1>1. IInv => TypeOK
    BY DEF IInv
<1>2. QED
    BY <1>1, Invariance, PTL

\* do_cancel, timer C and the first 1xx send one CANCEL between them, as soon
\* as a 1xx allows it, whatever the durations are.
THEOREM OneCancel == Spec => []CancelExactlyOnce
<1>1. IInv => CancelExactlyOnce
    BY DEF IInv, CancelMatchesState
<1>2. QED
    BY <1>1, Invariance, PTL

\* In the default order of the timers, with a timer F not longer than D and M,
\* no state is left without the timer that ends it, and no periodic timer
\* without the one that stops it.
THEOREM NoLeak ==
    ASSUME OrderedTimers, ShortCancel PROVE Spec => []EndingTimer
<1>1. IInv => EndingTimer
    BY OrderedTimers, ShortCancel DEF IInv, TimersMatchState, CancelStopsInTime,
       OrderedWhileCalling, EndingTimer
<1>2. QED
    BY <1>1, Invariance, PTL

\* In the default order of the timers the core is told of one end only: the
\* connection's failure and the transaction's timeout exclude each other.
THEOREM OneEnd ==
    ASSUME OrderedTimers PROVE Spec => []EndToldOnce
<1>1. IInv => EndToldOnce
    BY OrderedTimers DEF IInv, ToldMatchesState
<1>2. QED
    BY <1>1, Invariance, PTL

-----------------------------------------------------------------------------
\* The transaction implements the branch its core reckons with, both when the
\* timers are ordered (fewer steps are possible then) and when they are not.
THEOREM Refinement ==
    Spec => Branch!BInit /\ [][Branch!BNext]_(Branch!bvars)
<1>1. Init => Branch!BInit
    BY DurationFacts DEF Init, Branch!BInit, Scheduled, Stopped, Timers, Off
<1>2. ASSUME IInv, [Next]_vars
      PROVE  [Branch!BNext]_(Branch!bvars)
    <2>a. tm \in [Timers -> Nat \cup {Off}]
        BY <1>2 DEF IInv, TypeOK
    <2>b. ASSUME NEW f \in [Timers -> Nat \cup {Off}]
          PROVE  CancelTimers(f)["C"] = f["C"]
        BY <2>b, CancelTimersFacts DEF Timers
    <2> USE DEF Branch!BNext, Branch!bvars
    <2>1. CASE ReceiveProvisional
        <3>1. tm'["C"] = tm["C"]
            BY <1>2, <2>1, <2>a, <2>b, TimerFacts DEF ReceiveProvisional, Timers
        <3>2. Branch!Provisional
            BY <2>1, <3>1 DEF ReceiveProvisional, Branch!Provisional, Scheduled
        <3>3. QED
            BY <3>2
    <2>2. CASE ReceiveFailure
        <3>1. tm'["C"] = Off
            BY <2>2, <2>a, TimerFacts DEF ReceiveFailure, Timers
        <3>2. Branch!Failure
            BY <2>2, <3>1 DEF ReceiveFailure, Branch!Failure, Branch!Waiting, Scheduled
        <3>3. QED
            BY <3>2
    <2>3. CASE ReceiveSuccess
        <3>1. CASE state = "accepted"
            BY <2>3, <3>1 DEF ReceiveSuccess
        <3>2. CASE state # "accepted"
            <4>1. tm'["C"] = Off
                BY <2>3, <2>a, <3>2, TimerFacts DEF ReceiveSuccess, Timers
            <4>2. Branch!Success
                BY <2>3, <3>2, <4>1
                   DEF ReceiveSuccess, Branch!Success, Branch!Waiting, Scheduled
            <4>3. QED
                BY <4>2
        <3>3. QED
            BY <3>1, <3>2
    <2>4. CASE ReceiveResponseToCancel
        <3>1. tm'["C"] = tm["C"]
            BY <2>4, <2>a, TimerFacts DEF ReceiveResponseToCancel, Timers
        <3>2. QED
            BY <2>4, <3>1 DEF ReceiveResponseToCancel, Scheduled
    <2>5. CASE LinkUp
        <3>1. tm'["C"] = tm["C"]
            BY <2>5, <2>a, TimerFacts DEF LinkUp, Timers
        <3>2. Branch!LinkUp
            BY <2>5, <3>1 DEF LinkUp, Branch!LinkUp, Scheduled
        <3>3. QED
            BY <3>2
    <2>6. CASE LinkFailed
        <3>1. tm'["C"] = IF state = "calling" \/ ~cancel THEN Off ELSE tm["C"]
            BY <2>6, <2>a, TimerFacts DEF LinkFailed, Timers
        <3>2. OrderedTimers => state = "calling"
            BY <1>2, <2>6 DEF LinkFailed, IInv, OrderedWhileCalling
        <3>3. Branch!LinkFailed
            BY <2>6, <3>1, <3>2 DEF LinkFailed, Branch!LinkFailed, Scheduled
        <3>4. QED
            BY <3>3
    <2>7. CASE DoCancel
        <3>1. tm'["C"] = tm["C"] /\ cancel' = TRUE
            BY <2>7, <2>a, <2>b DEF DoCancel, Abandon
        <3>2. Branch!DoCancel
            BY <1>2, <2>7, <3>1 DEF DoCancel, Branch!DoCancel, Scheduled, IInv, TypeOK
        <3>3. QED
            BY <3>2
    <2>8. CASE FireA
        BY <2>8, <2>a DEF FireA, Scheduled, Timers
    <2>9. CASE FireB
        <3>1. tm'["C"] = Off
            BY <2>9, <2>a, TimerFacts DEF FireB, Timers
        <3>2. state = "calling" /\ (OrderedTimers => link # "pending")
            BY <1>2, <2>9 DEF FireB, Due, IInv, TypeOK, TimersMatchState,
               OrderedWhileCalling, Scheduled, Timers, Off
        <3>3. Branch!TimerB
            BY <2>9, <3>1, <3>2 DEF FireB, Branch!TimerB, Scheduled
        <3>4. QED
            BY <3>3
    <2>10. CASE FireC
        <3>1. tm'["C"] = Off /\ cancel' = TRUE
            <4> DEFINE rest == Cancel(tm, {"A", "B", "C"})
            <4>1. rest \in [Timers -> Nat \cup {Off}] /\ rest["C"] = Off
                BY <2>a, TimerFacts DEF Timers
            <4>2. Abandon(rest)
                BY <2>10 DEF FireC
            <4> HIDE DEF rest
            <4>3. CASE cancel
                BY <1>2, <4>1, <4>2, <4>3 DEF Abandon, IInv, TypeOK
            <4>4. CASE ~cancel
                BY <4>1, <4>2, <4>4, <2>b DEF Abandon
            <4>5. QED
                BY <4>3, <4>4
        <3>2. Scheduled(tm, "C") /\ (OrderedTimers => state # "calling")
            BY <1>2, <2>10 DEF FireC, Due, IInv, TypeOK, OrderedWhileCalling,
               Scheduled, Timers, Off
        <3>3. Branch!TimerC
            BY <2>10, <3>1, <3>2 DEF FireC, Branch!TimerC, Scheduled
        <3>4. QED
            BY <3>3
    <2>11. CASE FireE
        BY <2>11, <2>a DEF FireE, Scheduled, Timers
    <2>12. CASE FireF
        <3>1. tm'["C"] = tm["C"]
            BY <2>12, <2>a, TimerFacts DEF FireF, Timers
        <3>2. state # "calling" /\ (state = "proceeding" => cancel)
            BY <1>2, <2>12 DEF FireF, Due, IInv, TypeOK, CancelMatchesState,
               CancelExactlyOnce, Scheduled, Off
        <3>3. CASE state = "terminated"
            BY <2>12, <3>1, <3>3 DEF FireF, Scheduled
        <3>4. CASE state # "terminated"
            BY <1>2, <2>12, <3>1, <3>2, <3>4
               DEF FireF, Branch!End, Scheduled, IInv, TypeOK
        <3>5. QED
            BY <3>3, <3>4
    <2>13. ASSUME NEW t \in {"D", "M", "GRACE"}, FireEnd(t)
           PROVE  [Branch!BNext]_(Branch!bvars)
        <3>1. tm'["C"] = tm["C"]
            BY <2>13, <2>a, TimerFacts DEF FireEnd, Timers
        <3>2. state # "calling" /\ (state = "proceeding" => cancel)
            BY <1>2, <2>13 DEF FireEnd, Due, IInv, TypeOK, CancelMatchesState,
               CancelExactlyOnce, TimersMatchState, Scheduled, Off
        <3>3. CASE state = "terminated"
            BY <2>13, <3>1, <3>3 DEF FireEnd, Scheduled
        <3>4. CASE state # "terminated"
            BY <1>2, <2>13, <3>1, <3>2, <3>4
               DEF FireEnd, Branch!End, Scheduled, IInv, TypeOK
        <3>5. QED
            BY <3>3, <3>4
    <2>14. CASE Tick
        <3>1. tm'["C"] = Off <=> tm["C"] = Off
            BY <2>14, <2>a, TimerFacts DEF Tick, NoneDue, Timers, Off
        <3>2. QED
            BY <2>14, <3>1 DEF Tick, Scheduled
    <2>15. CASE UNCHANGED vars
        BY <2>15 DEF vars, Scheduled
    <2>16. QED
        BY <1>2, <2>1, <2>2, <2>3, <2>4, <2>5, <2>6, <2>7, <2>8, <2>9, <2>10, <2>11,
           <2>12, <2>13, <2>14, <2>15 DEF Next, Fire
<1>3. QED
    BY <1>1, <1>2, Invariance, PTL DEF Spec
=============================================================================
