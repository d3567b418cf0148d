--------------------- MODULE NonInviteClientTransaction ---------------------
(***************************************************************************)
(* OverSIP::SIP::NonInviteClientTransaction (lib/oversip/sip/              *)
(* client_transaction.rb): one request other than INVITE and ACK sent to   *)
(* one target.  The environment and the conventions are those of           *)
(* InviteClientTransaction.  NonInviteProxy instantiates this module for   *)
(* the target it is trying, and says there what the core makes of an       *)
(* outcome that it is told.                                                *)
(***************************************************************************)
EXTENDS EMTimers

CONSTANTS
    TIMER_E, TIMER_F, TIMER_K, T2,  \* in ticks
    LINK                            \* longest time a connection is pending

VARIABLES
    transport,  \* "udp", or "tcp" for TCP, TLS, WS and WSS
    link,       \* the connection: "up", "pending" or "down"
    state,      \* @state, "none" before there is a transaction
    tm,         \* the timers
    intE        \* @timer_E_interval

Timers == {"E", "F", "K", "LINK"}

Live == {"trying", "proceeding"}

Init ==
    /\ transport = "udp" /\ link = "down"
    /\ state = "none"
    /\ tm = Stopped(Timers)
    /\ intE = TIMER_E

\* initialize and send_request of a new transaction, which takes the place of the
\* one before.  A connection that is still pending then (timer F shorter than
\* LINK) is forgotten; the code would tell the core of its end.
SendRequest ==
    /\ \/ transport' = "udp" /\ link' = "up"
       \/ transport' = "tcp" /\ link' \in {"up", "pending"}
    /\ state' = "trying"
    /\ tm' = [Stopped(Timers) EXCEPT
               !["E"] = IF transport' = "udp" THEN TIMER_E ELSE Off,
               !["F"] = TIMER_F,
               !["LINK"] = IF link' = "pending" THEN LINK ELSE Off]
    /\ intE' = TIMER_E

-----------------------------------------------------------------------------
(* Responses.                                                              *)

\* A 1xx: the retransmissions go on, at the slow pace.
ReceiveProvisional ==
    /\ link = "up"
    /\ state \in Live
    /\ state' = "proceeding"
    /\ UNCHANGED <<transport, link, tm, intE>>

ReceiveFinal ==
    /\ link = "up"
    /\ state \in Live
    /\ IF transport = "udp"
       THEN /\ state' = "completed"
            /\ tm' = [Cancel(tm, {"E", "F"}) EXCEPT !["K"] = TIMER_K]
       ELSE /\ state' = "terminated"
            /\ tm' = Cancel(tm, {"E", "F"})
    /\ UNCHANGED <<transport, link, intE>>

-----------------------------------------------------------------------------
(* The connection.                                                         *)

LinkUp ==
    /\ link = "pending"
    /\ link' = "up"
    /\ tm' = Cancel(tm, {"LINK"})
    /\ UNCHANGED <<transport, state, intE>>

\* connection_failed or tls_validation_failed: they do not look at the state.
LinkFailed ==
    /\ link = "pending"
    /\ link' = "down"
    /\ state' = "terminated"
    /\ tm' = Cancel(tm, {"LINK", "E", "F"})
    /\ UNCHANGED <<transport, intE>>

-----------------------------------------------------------------------------
(* Timers.                                                                 *)

FireE ==
    /\ Due(tm, "E")
    /\ LET next == IF state = "trying" THEN Backoff(intE, T2) ELSE T2
       IN intE' = next /\ tm' = [tm EXCEPT !["E"] = next]
    /\ UNCHANGED <<transport, link, state>>

FireF ==
    /\ Due(tm, "F")
    /\ state' = "terminated"
    /\ tm' = Cancel(tm, {"E", "F"})
    /\ UNCHANGED <<transport, link, intE>>

FireK ==
    /\ Due(tm, "K")
    /\ state' = "terminated"
    /\ tm' = Cancel(tm, {"K"})
    /\ UNCHANGED <<transport, link, intE>>

Tick ==
    /\ NoneDue(tm)
    /\ tm' = Elapse(tm)
    /\ UNCHANGED <<transport, link, state, intE>>
=============================================================================
