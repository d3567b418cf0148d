---------------------- MODULE InviteServerTransaction ----------------------
(***************************************************************************)
(* OverSIP::SIP::InviteServerTransaction (lib/oversip/sip/                 *)
(* server_transaction.rb), with the parts of Request#reply,                *)
(* Request#reply_full and MessageProcessor#check_transaction that drive    *)
(* it.                                                                     *)
(*                                                                         *)
(* One INVITE is followed from the creation of its transaction.  The       *)
(* transaction is in invite_server_transactions exactly while its state is *)
(* not "terminated": initialize inserts it and terminate_transaction is    *)
(* the only place that sets the state to :terminated, together with the    *)
(* deletion.  A call of reply that the transaction refuses changes         *)
(* nothing, so it is a stuttering step.  The TU (the proxy or the user's   *)
(* script) may call reply at any time, also after the end of the           *)
(* transaction, and the peer may retransmit or acknowledge at any time.    *)
(***************************************************************************)
EXTENDS EMTimers

CONSTANTS
    Provisionals, Successes, Failures, \* 1xx, 2xx and [3456]xx responses
    Trying,                            \* the 100 response
    Connections,                       \* connections the peer may use
    TIMER_C2, TIMER_G, T2, TIMER_H, TIMER_I, TIMER_L   \* in ticks

ASSUME Durations ==
    /\ \A d \in {TIMER_C2, TIMER_G, T2, TIMER_H, TIMER_I, TIMER_L} : IsDuration(d)
    /\ TIMER_G <= T2

ASSUME Responses ==
    /\ Trying \in Provisionals
    /\ Provisionals \cap (Successes \cup Failures) = {}
    /\ Successes \cap Failures = {}

VARIABLES
    transport,      \* "udp", or "tcp" for every connection-oriented transport
    state,          \* @state
    tm,             \* the timers
    intG,           \* @timer_G_interval
    last_response,  \* @last_response
    connection,     \* request.connection, where responses go
    finals,         \* history: the distinct final responses sent so far
    age             \* history: ticks since the INVITE arrived, up to LifeTime + 1

vars == <<transport, state, tm, intG, last_response, connection, finals, age>>

Timers == {"C2", "G", "H", "I", "L"}

States == {"proceeding", "completed", "confirmed", "accepted", "terminated"}

Final == Successes \cup Failures

\* The longest time a transaction may take: timer C2, then H and I or L.
LifeTime == TIMER_C2 + (IF TIMER_H + TIMER_I > TIMER_L THEN TIMER_H + TIMER_I ELSE TIMER_L)

TypeOK ==
    /\ transport \in {"udp", "tcp"}
    /\ state \in States
    /\ tm \in [Timers -> Nat \cup {Off}]
    /\ intG \in 1..T2
    /\ last_response \in Provisionals \cup Final
    /\ connection \in Connections
    /\ finals \subseteq Final
    /\ age \in Nat

\* initialize: timer C2 is started and 100 is replied.
Init ==
    /\ transport \in {"udp", "tcp"}
    /\ state = "proceeding"
    /\ tm = [Stopped(Timers) EXCEPT !["C2"] = TIMER_C2]
    /\ intG = TIMER_G
    /\ last_response = Trying
    /\ connection \in Connections
    /\ finals = {}
    /\ age = 0

-----------------------------------------------------------------------------
(* Responses of the TU: receive_response, then last_response is stored and *)
(* the response is sent.                                                   *)

ReplyProvisional(r) ==
    /\ state = "proceeding"
    /\ last_response' = r
    /\ UNCHANGED <<transport, state, tm, intG, connection, finals, age>>

\* Faulty variant: every 2xx restarts timer L.
ReplySuccessRestartL(r) ==
    /\ state \in {"proceeding", "accepted"}
    /\ state' = "accepted"
    /\ tm' = [tm EXCEPT !["C2"] = Off, !["L"] = TIMER_L]
    /\ last_response' = r
    /\ finals' = finals \cup {r}
    /\ UNCHANGED <<transport, intG, connection, age>>

\* Faulty variant: a 2xx revives a transaction that is already gone.
ReplySuccessAfterEnd(r) ==
    /\ state \in {"proceeding", "accepted", "terminated"}
    /\ state' = "accepted"
    /\ tm' = [tm EXCEPT !["C2"] = Off,
                        !["L"] = IF state = "accepted" THEN @ ELSE TIMER_L]
    /\ last_response' = r
    /\ finals' = finals \cup {r}
    /\ UNCHANGED <<transport, intG, connection, age>>

ReplySuccess(r) ==
    /\ state \in {"proceeding", "accepted"}
    /\ state' = "accepted"
    /\ tm' = IF state = "proceeding"
             THEN [tm EXCEPT !["C2"] = Off, !["L"] = TIMER_L]
             ELSE tm
    /\ last_response' = r
    /\ finals' = finals \cup {r}
    /\ UNCHANGED <<transport, intG, connection, age>>

\* Faulty variant: a [3456]xx is accepted after a 2xx.
ReplyFailureAfterSuccess(r) ==
    /\ state \in {"proceeding", "accepted"}
    /\ state' = "completed"
    /\ tm' = [tm EXCEPT !["C2"] = Off, !["H"] = TIMER_H]
    /\ last_response' = r
    /\ finals' = finals \cup {r}
    /\ UNCHANGED <<transport, intG, connection, age>>

ReplyFailure(r) ==
    /\ state = "proceeding"
    /\ state' = "completed"
    /\ tm' = [tm EXCEPT !["C2"] = Off,
                        !["G"] = IF transport = "udp" THEN TIMER_G ELSE @,
                        !["H"] = TIMER_H]
    /\ intG' = TIMER_G
    /\ last_response' = r
    /\ finals' = finals \cup {r}
    /\ UNCHANGED <<transport, connection, age>>

-----------------------------------------------------------------------------
(* Requests that match the transaction (MessageProcessor#check_transaction).*)

\* A retransmitted INVITE: the connection it came by replaces the old one
\* and the last response is sent again.
ReceiveInvite(c) ==
    /\ state # "terminated"
    /\ connection' = c
    /\ UNCHANGED <<transport, state, tm, intG, last_response, finals, age>>

\* Faulty variant: timer I is not started.
ReceiveAckNoI ==
    /\ state = "completed"
    /\ state' = IF transport = "udp" THEN "confirmed" ELSE "terminated"
    /\ tm' = Cancel(tm, {"G", "H"})
    /\ UNCHANGED <<transport, intG, last_response, connection, finals, age>>

ReceiveAck ==
    /\ state = "completed"
    /\ IF transport = "udp"
       THEN /\ state' = "confirmed"
            /\ tm' = [Cancel(tm, {"G", "H"}) EXCEPT !["I"] = TIMER_I]
       ELSE /\ state' = "terminated"
            /\ tm' = Cancel(tm, {"G", "H"})
    /\ UNCHANGED <<transport, intG, last_response, connection, finals, age>>

-----------------------------------------------------------------------------
(* Timers.                                                                 *)

\* Faulty variant: the interval doubles without limit.
FireGUnbounded ==
    /\ Due(tm, "G")
    /\ intG' = 2 * intG
    /\ tm' = [tm EXCEPT !["G"] = 2 * intG]
    /\ UNCHANGED <<transport, state, last_response, connection, finals, age>>

FireG ==
    /\ Due(tm, "G")
    /\ intG' = Backoff(intG, T2)
    /\ tm' = [tm EXCEPT !["G"] = Backoff(intG, T2)]
    /\ UNCHANGED <<transport, state, last_response, connection, finals, age>>

FireH ==
    /\ Due(tm, "H")
    /\ state' = "terminated"
    /\ tm' = Cancel(tm, {"G", "H"})
    /\ UNCHANGED <<transport, intG, last_response, connection, finals, age>>

\* Timers I, L and C2 only end the transaction.
FireEnd(t) ==
    /\ Due(tm, t)
    /\ state' = "terminated"
    /\ tm' = Cancel(tm, {t})
    /\ UNCHANGED <<transport, intG, last_response, connection, finals, age>>

Fire == FireG \/ FireH \/ \E t \in {"I", "L", "C2"} : FireEnd(t)

Tick ==
    /\ NoneDue(tm)
    /\ tm' = Elapse(tm)
    /\ age' = IF state = "terminated" \/ age > LifeTime THEN age ELSE age + 1
    /\ UNCHANGED <<transport, state, intG, last_response, connection, finals>>

-----------------------------------------------------------------------------
Next ==
    \/ \E r \in Provisionals : ReplyProvisional(r)
    \/ \E r \in Successes : ReplySuccess(r)
    \/ \E r \in Failures : ReplyFailure(r)
    \/ \E c \in Connections : ReceiveInvite(c)
    \/ ReceiveAck
    \/ Fire
    \/ Tick

\* Time passes and the reactor runs the timers that are due.  Neither the TU
\* nor the peer is assumed to do anything.
Fairness == WF_vars(Tick) /\ WF_vars(Fire)

Spec == Init /\ [][Next]_vars /\ Fairness

-----------------------------------------------------------------------------
(* Properties.                                                             *)

\* The caller is never told two contradictory things: once a [3456]xx has
\* been sent no other final response is, and after a 2xx only other 2xx
\* responses (of a forked INVITE, RFC 6026) are.  receive_response is the
\* only filter between late responses, timer C, failover and the caller.
NoMixedFinals ==
    \/ finals \subseteq Successes
    \/ \E f \in Failures : finals = {f}

\* After the first final response @last_response is a final response that was
\* sent: retransmit_last_response, on timer G or on a retransmitted INVITE,
\* never repeats a 1xx to a caller that was already answered.
FinalIsRepeated ==
    finals # {} => last_response \in finals

\* A transaction in the table has the timer scheduled that ends its present
\* state, so no order of replies, ACKs and timers leaves it there for ever.
EndingTimer ==
    /\ state = "proceeding" => Scheduled(tm, "C2")
    /\ state = "completed" => Scheduled(tm, "H")
    /\ state = "confirmed" => Scheduled(tm, "I")
    /\ state = "accepted" => Scheduled(tm, "L")

\* Final responses are retransmitted by timer G only while the ACK is missing:
\* neither the ACK nor timer H leaves the periodic timer running, and over a
\* reliable transport it never runs.
RetransmissionStops ==
    Scheduled(tm, "G") => state = "completed" /\ transport = "udp"

\* A transaction is in the table for a bounded time, however often the TU
\* replies, the peer retransmits and 2xx responses are forwarded.
LifetimeBound == state # "terminated" => age <= LifeTime

\* The transaction implements the contract of server transactions, where only
\* the 2xx responses may follow one another.
Contract == INSTANCE ServerTransactionContract
    WITH Finals <- Final, Repeatable <- Successes,
         answers <- finals, open <- state # "terminated"

\* Seen from the peer, every step of the transaction is a step of the
\* contract: at most one kind of final answer, none after the end, and an end.
ImplementsContract == Contract!CSpec

-----------------------------------------------------------------------------
(* The inductive invariant.                                                *)

\* Each timer runs in its own state only.
TimersMatchState ==
    /\ EndingTimer
    /\ RetransmissionStops
    /\ Scheduled(tm, "C2") => state = "proceeding"
    /\ Scheduled(tm, "H") => state = "completed"
    /\ Scheduled(tm, "I") => state = "confirmed"
    /\ Scheduled(tm, "L") => state = "accepted"

\* What was sent follows from the state.
AnswersMatchState ==
    /\ state = "proceeding" => finals = {}
    /\ state \in {"completed", "confirmed"} =>
           finals = {last_response} /\ last_response \in Failures
    /\ state = "accepted" => finals \subseteq Successes /\ last_response \in finals

\* The time left in a state is part of the time the transaction may live.
AgeMatchesTimers ==
    /\ state = "proceeding" => age + tm["C2"] <= TIMER_C2
    /\ state = "completed" => age + tm["H"] <= TIMER_C2 + TIMER_H
    /\ state = "confirmed" => age + tm["I"] <= TIMER_C2 + TIMER_H + TIMER_I
    /\ state = "accepted" => age + tm["L"] <= TIMER_C2 + TIMER_L

IInv ==
    /\ TypeOK
    /\ TimersMatchState
    /\ AnswersMatchState
    /\ AgeMatchesTimers
    /\ NoMixedFinals
    /\ FinalIsRepeated
=============================================================================
