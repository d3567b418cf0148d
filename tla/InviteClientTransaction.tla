---------------------- MODULE InviteClientTransaction ----------------------
(***************************************************************************)
(* OverSIP::SIP::InviteClientTransaction (lib/oversip/sip/                 *)
(* client_transaction.rb): one INVITE sent to one target, from             *)
(* send_request on.                                                        *)
(*                                                                         *)
(* The environment is the target, which may answer or stay silent, the     *)
(* core (Proxy or Uac), which may cancel at any time, and the connection.  *)
(* Over UDP the connection is always there.  Over TCP/TLS it may still be  *)
(* "pending": TransportManager.get_connection has then put the transaction *)
(* in the connection's pending_client_transactions, nothing reaches the    *)
(* target yet, and within LINK ticks (the pending connect timeout and the  *)
(* TLS handshake timer) the connection is either established or fails,     *)
(* which is reported to the pending transactions.                          *)
(*                                                                         *)
(* The transaction is in invite_client_transactions exactly while its      *)
(* state is not "terminated"; responses are matched through that table.    *)
(* Responses that change nothing (a repeated [3456]xx that only repeats    *)
(* the ACK, one that arrives in the wrong state) are stuttering steps.     *)
(* The target answers only a CANCEL that was sent to it.                   *)
(***************************************************************************)
EXTENDS EMTimers

CONSTANTS
    TIMER_A, TIMER_B, TIMER_C, TIMER_D, TIMER_M,  \* timers.rb and the proxy
    TIMER_E, TIMER_F, T2,                         \* configuration, in ticks
    GRACE,  \* time a cancelled transaction waits after the CANCEL's response
    LINK    \* longest time a connection is pending

ASSUME Durations ==
    /\ \A d \in {TIMER_A, TIMER_B, TIMER_C, TIMER_D, TIMER_M,
                 TIMER_E, TIMER_F, T2, GRACE, LINK} : IsDuration(d)
    /\ TIMER_E <= T2

VARIABLES
    transport,  \* "udp", or "tcp" for TCP, TLS, WS and WSS
    link,       \* the connection: "up", "pending" or "down"
    state,      \* @state
    tm,         \* the timers; E and F are timer_E_cancel and timer_F_cancel
    intA,       \* @timer_A_interval
    intE,       \* @timer_E_cancel_interval
    cancel,     \* @cancel is set
    cancels,    \* history: how often send_cancel ran
    told        \* history: what the core was told, and how often

vars == <<transport, link, state, tm, intA, intE, cancel, cancels, told>>

Timers == {"A", "B", "C", "D", "M", "E", "F", "GRACE", "LINK"}

\* The calls of the core.  A forwarded 2xx may be repeated and counts once.
Outcomes == {"client_timeout", "connection_failed", "failure", "success",
             "invite_timeout"}

TypeOK ==
    /\ transport \in {"udp", "tcp"}
    /\ link \in {"up", "pending", "down"}
    /\ state \in {"calling", "proceeding", "completed", "accepted", "terminated"}
    /\ tm \in [Timers -> Nat \cup {Off}]
    /\ intA \in Nat \ {0}
    /\ intE \in 1..T2
    /\ cancel \in BOOLEAN
    /\ cancels \in Nat
    /\ told \in [Outcomes -> Nat]

Tell(o) == told' = [told EXCEPT ![o] = @ + 1]

\* initialize and send_request.
Init ==
    /\ \/ transport = "udp" /\ link = "up"
       \/ transport = "tcp" /\ link \in {"up", "pending"}
    /\ state = "calling"
    /\ tm = [Stopped(Timers) EXCEPT
               !["A"] = IF transport = "udp" THEN TIMER_A ELSE Off,
               !["B"] = TIMER_B,
               !["C"] = TIMER_C,
               !["LINK"] = IF link = "pending" THEN LINK ELSE Off]
    /\ intA = TIMER_A
    /\ intE = TIMER_E
    /\ cancel = FALSE
    /\ cancels = 0
    /\ told = [o \in Outcomes |-> 0]

\* The timers after send_cancel.
CancelTimers(timers) ==
    [timers EXCEPT !["E"] = IF transport = "udp" THEN TIMER_E ELSE @,
                   !["F"] = TIMER_F]

-----------------------------------------------------------------------------
(* Responses of the target.                                                *)

\* A 1xx.  A CANCEL that was held back until now is sent.
ReceiveProvisional ==
    /\ link = "up"
    /\ state = "calling"
    /\ state' = "proceeding"
    /\ LET rest == Cancel(tm, {"A", "B"})
       IN IF cancel
          THEN /\ tm' = CancelTimers(rest)
               /\ intE' = TIMER_E
               /\ cancels' = cancels + 1
          ELSE tm' = rest /\ UNCHANGED <<intE, cancels>>
    /\ UNCHANGED <<transport, link, intA, cancel, told>>

\* Faulty variant: timer C is not cancelled by the final response.
ReceiveFailureKeepC ==
    /\ link = "up"
    /\ state \in {"calling", "proceeding"}
    /\ state' = IF transport = "udp" THEN "completed" ELSE "terminated"
    /\ tm' = [Cancel(tm, {"A", "B"}) EXCEPT
                !["D"] = IF transport = "udp" THEN TIMER_D ELSE @]
    /\ Tell("failure")
    /\ UNCHANGED <<transport, link, intA, intE, cancel, cancels>>

\* A [3456]xx.  The ACK is sent and the core is told.
ReceiveFailure ==
    /\ link = "up"
    /\ state \in {"calling", "proceeding"}
    /\ IF transport = "udp"
       THEN /\ state' = "completed"
            /\ tm' = [Cancel(tm, {"A", "B", "C"}) EXCEPT !["D"] = TIMER_D]
       ELSE /\ state' = "terminated"
            /\ tm' = Cancel(tm, {"A", "B", "C"})
    /\ Tell("failure")
    /\ UNCHANGED <<transport, link, intA, intE, cancel, cancels>>

\* Faulty variant: timer B is not cancelled by the 2xx.
ReceiveSuccessKeepB ==
    /\ link = "up"
    /\ state \in {"calling", "proceeding"}
    /\ state' = "accepted"
    /\ tm' = [Cancel(tm, {"A", "C"}) EXCEPT !["M"] = TIMER_M]
    /\ Tell("success")
    /\ UNCHANGED <<transport, link, intA, intE, cancel, cancels>>

\* A 2xx; the later ones of a forked INVITE are forwarded too.
ReceiveSuccess ==
    /\ link = "up"
    /\ \/ /\ state \in {"calling", "proceeding"}
          /\ state' = "accepted"
          /\ tm' = [Cancel(tm, {"A", "B", "C"}) EXCEPT !["M"] = TIMER_M]
          /\ Tell("success")
       \/ /\ state = "accepted"
          /\ UNCHANGED <<state, tm, told>>
    /\ UNCHANGED <<transport, link, intA, intE, cancel, cancels>>

\* Faulty variant: the CANCEL's timers are stopped and nothing replaces them.
ReceiveResponseToCancelNoGrace ==
    /\ cancels > 0
    /\ state # "terminated"
    /\ tm' = Cancel(tm, {"E", "F"})
    /\ UNCHANGED <<transport, link, state, intA, intE, cancel, cancels, told>>

\* Any response to the CANCEL: it is not retransmitted any more and the
\* transaction ends after a while.  Every such response schedules another
\* termination, of which the first one counts.
ReceiveResponseToCancel ==
    /\ cancels > 0
    /\ state # "terminated"
    /\ tm' = [Cancel(tm, {"E", "F"}) EXCEPT
                !["GRACE"] = IF @ = Off THEN GRACE ELSE @]
    /\ UNCHANGED <<transport, link, state, intA, intE, cancel, cancels, told>>

-----------------------------------------------------------------------------
(* The connection.                                                         *)

\* The pending connection is established: the INVITE leaves.
LinkUp ==
    /\ link = "pending"
    /\ link' = "up"
    /\ tm' = Cancel(tm, {"LINK"})
    /\ UNCHANGED <<transport, state, intA, intE, cancel, cancels, told>>

\* The pending connection fails: connection_failed or tls_validation_failed.
LinkFailed ==
    /\ link = "pending"
    /\ link' = "down"
    /\ IF state = "calling" \/ ~cancel
       THEN /\ state' = "terminated"
            /\ tm' = Cancel(tm, {"LINK", "A", "B", "C"})
            /\ Tell("connection_failed")
       ELSE /\ tm' = Cancel(tm, {"LINK"})
            /\ UNCHANGED <<state, told>>
    /\ UNCHANGED <<transport, intA, intE, cancel, cancels>>

-----------------------------------------------------------------------------
(* Cancellation.                                                           *)

\* Faulty variant: do_cancel does not notice that it already ran.
AbandonAgain(timers) ==
    /\ cancel' = TRUE
    /\ IF state = "proceeding"
       THEN /\ tm' = CancelTimers(timers)
            /\ intE' = TIMER_E
            /\ cancels' = cancels + 1
       ELSE tm' = timers /\ UNCHANGED <<intE, cancels>>

\* do_cancel: the CANCEL is sent now or, before any 1xx, held back.  It
\* leaves the timers as timers and is the body of timer C too.
Abandon(timers) ==
    IF cancel
    THEN tm' = timers /\ UNCHANGED <<intE, cancel, cancels>>
    ELSE /\ cancel' = TRUE
         /\ IF state = "proceeding"
            THEN /\ tm' = CancelTimers(timers)
                 /\ intE' = TIMER_E
                 /\ cancels' = cancels + 1
            ELSE tm' = timers /\ UNCHANGED <<intE, cancels>>

\* The caller has cancelled (Proxy#receive_cancel).
DoCancel ==
    /\ ~cancel
    /\ Abandon(tm)
    /\ UNCHANGED <<transport, link, state, intA, told>>

-----------------------------------------------------------------------------
(* Timers.                                                                 *)

FireA ==
    /\ Due(tm, "A")
    /\ intA' = 2 * intA
    /\ tm' = [tm EXCEPT !["A"] = 2 * intA]
    /\ UNCHANGED <<transport, link, state, intE, cancel, cancels, told>>

FireB ==
    /\ Due(tm, "B")
    /\ state' = "terminated"
    /\ tm' = Cancel(tm, {"A", "B", "C"})
    /\ Tell("client_timeout")
    /\ UNCHANGED <<transport, link, intA, intE, cancel, cancels>>

\* Faulty variant: timer C cancels the branch and does not tell the core.
FireCSilent ==
    /\ Due(tm, "C")
    /\ Abandon(Cancel(tm, {"A", "B", "C"}))
    /\ UNCHANGED <<transport, link, state, intA, told>>

FireC ==
    /\ Due(tm, "C")
    /\ Abandon(Cancel(tm, {"A", "B", "C"}))
    /\ Tell("invite_timeout")
    /\ UNCHANGED <<transport, link, state, intA>>

FireE ==
    /\ Due(tm, "E")
    /\ intE' = Backoff(intE, T2)
    /\ tm' = [tm EXCEPT !["E"] = Backoff(intE, T2)]
    /\ UNCHANGED <<transport, link, state, intA, cancel, cancels, told>>

FireF ==
    /\ Due(tm, "F")
    /\ IF state # "terminated"
       THEN state' = "terminated" /\ tm' = Cancel(tm, {"E", "F"})
       ELSE tm' = Cancel(tm, {"F"}) /\ UNCHANGED state
    /\ UNCHANGED <<transport, link, intA, intE, cancel, cancels, told>>

\* Timer F of a CANCEL is always started before timer D or M.  When it is not
\* the longer one it is first in the reactor's order too, even within a tick.
FBefore(t) ==
    \/ t = "D" /\ TIMER_F <= TIMER_D
    \/ t = "M" /\ TIMER_F <= TIMER_M

\* Timers D and M and the grace time only end the transaction: the timers of
\* a CANCEL go on.
FireEnd(t) ==
    /\ Due(tm, t)
    /\ FBefore(t) => ~Due(tm, "F")
    /\ state' = "terminated"
    /\ tm' = Cancel(tm, {t})
    /\ UNCHANGED <<transport, link, intA, intE, cancel, cancels, told>>

Fire ==
    \/ FireA \/ FireB \/ FireC \/ FireE \/ FireF
    \/ \E t \in {"D", "M", "GRACE"} : FireEnd(t)
    \/ Due(tm, "LINK") /\ LinkFailed

Tick ==
    /\ NoneDue(tm)
    /\ tm' = Elapse(tm)
    /\ UNCHANGED <<transport, link, state, intA, intE, cancel, cancels, told>>

-----------------------------------------------------------------------------
Next ==
    \/ ReceiveProvisional \/ ReceiveFailure \/ ReceiveSuccess
    \/ ReceiveResponseToCancel
    \/ LinkUp \/ LinkFailed
    \/ DoCancel
    \/ Fire
    \/ Tick

\* Time passes and the reactor runs the timers that are due.  Nothing is
\* assumed of the target, the connection or the core.
Fairness == WF_vars(Tick) /\ WF_vars(Fire)

Spec == Init /\ [][Next]_vars /\ Fairness

-----------------------------------------------------------------------------
(* Properties.                                                             *)

\* A transaction in the table has a timer scheduled that leads to its end.  In
\* "proceeding" that is timer C, whose CANCEL is then ended by timer F or by
\* the grace time: none of these may be cancelled before the next one runs.
\* And no message is retransmitted for ever: while a periodic timer runs, so
\* does the timer that stops it (B for the INVITE, F for the CANCEL).  The
\* last part needs ShortCancel: otherwise D or M may end the transaction with
\* E and F running, and timer F cancels E "unless @state == :terminated".
EndingTimer ==
    /\ state = "calling" => Scheduled(tm, "B")
    /\ state = "proceeding" => \E t \in {"C", "F", "GRACE"} : Scheduled(tm, t)
    /\ state = "completed" => Scheduled(tm, "D")
    /\ state = "accepted" => Scheduled(tm, "M")
    /\ Scheduled(tm, "A") => Scheduled(tm, "B")
    /\ Scheduled(tm, "E") => Scheduled(tm, "F")

\* Whoever cancels first, the caller or timer C, and whenever the first 1xx
\* comes, a transaction that has seen a 1xx and is to be cancelled has sent
\* its CANCEL, once; and a CANCEL is never sent without reason.
CancelExactlyOnce ==
    /\ cancels <= (IF cancel THEN 1 ELSE 0)
    /\ state = "proceeding" /\ cancel => cancels = 1

\* The core hears of the end of the transaction once.  "This avoid[s] the case
\* in which the TCP connection timeout raises after the transaction timeout":
\* a second call of the core would start a second target.
EndToldOnce ==
    told["client_timeout"] + told["connection_failed"]
        + told["failure"] + told["success"] <= 1

\* Every INVITE client transaction leaves the table, and the core is told what
\* became of it.
EndsAndTells ==
    <>[](state = "terminated" /\ \E o \in Outcomes : told[o] > 0)

\* The durations keep the order of the default configuration.
OrderedTimers == LINK < TIMER_B /\ TIMER_B < TIMER_C

\* Timer F is not longer than D and M.  These two are constants of 32 seconds,
\* and so is the default of timer F, which the proxies' configuration may set
\* to anything from 2 to 64 seconds (proxies_config.rb).
ShortCancel == TIMER_F <= TIMER_D /\ TIMER_F <= TIMER_M

Branch == INSTANCE InviteBranch
    WITH Ordered <- OrderedTimers, expiry <- Scheduled(tm, "C")

\* Seen from its core, the transaction is a branch: every order of responses,
\* timers, cancellation and connection events is one the core's own model
\* (InviteProxy) reckons with.
ImplementsBranch == Branch!BSpec

-----------------------------------------------------------------------------
(* The inductive invariant.                                                *)

\* do_cancel and the first 1xx share the sending of the CANCEL.
CancelMatchesState ==
    /\ CancelExactlyOnce
    /\ state = "calling" => cancels = 0
    /\ cancels = 0 => \A t \in {"E", "F", "GRACE"} : ~Scheduled(tm, t)

\* Timers run in the states that need them.
TimersMatchState ==
    /\ Scheduled(tm, "A") => Scheduled(tm, "B")
    /\ Scheduled(tm, "B") => state = "calling"
    /\ state \in {"calling", "proceeding"} /\ ~cancel => Scheduled(tm, "C")
    /\ state = "proceeding" /\ cancel => Scheduled(tm, "F") \/ Scheduled(tm, "GRACE")
    /\ state = "completed" => Scheduled(tm, "D")
    /\ state = "accepted" => Scheduled(tm, "M")
    /\ Scheduled(tm, "D") => state \in {"completed", "terminated"}
    /\ Scheduled(tm, "M") => state \in {"accepted", "terminated"}
    /\ tm["F"] <= TIMER_F
    /\ Scheduled(tm, "E") => transport = "udp" /\ ~Scheduled(tm, "GRACE")

\* A timer F that is short enough never outlives D or M, so the CANCEL is not
\* retransmitted once the transaction has terminated.
CancelStopsInTime ==
    /\ state = "completed" => tm["F"] <= tm["D"]
    /\ state = "accepted" => tm["F"] <= tm["M"]
    /\ Scheduled(tm, "E") => Scheduled(tm, "F") /\ state # "terminated"

\* With the timers in their order, a connection is pending in "calling" only
\* and is decided before timer B, which runs before timer C.
OrderedWhileCalling ==
    /\ link = "pending" =>
           state = "calling" /\ Scheduled(tm, "LINK") /\ tm["LINK"] < tm["B"]
    /\ state = "calling" => Scheduled(tm, "B") /\ tm["B"] < tm["C"]

\* The core has not heard of an end before there is one.
ToldMatchesState ==
    /\ EndToldOnce
    /\ state \in {"calling", "proceeding"} =>
           \A o \in Outcomes \ {"invite_timeout"} : told[o] = 0

IInv ==
    /\ TypeOK
    /\ CancelMatchesState
    /\ TimersMatchState
    /\ ShortCancel => CancelStopsInTime
    /\ OrderedTimers => OrderedWhileCalling /\ ToldMatchesState
=============================================================================
