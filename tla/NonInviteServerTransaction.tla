--------------------- MODULE NonInviteServerTransaction ---------------------
(***************************************************************************)
(* OverSIP::SIP::NonInviteServerTransaction (lib/oversip/sip/              *)
(* server_transaction.rb), with the parts of Request#reply,                *)
(* Request#reply_full and MessageProcessor#check_transaction that drive    *)
(* it.  As for INVITE, the transaction is in its table exactly while its   *)
(* state is not "terminated", and a refused reply is a stuttering step.    *)
(*                                                                         *)
(* Timers INT1 and INT2 implement RFC 4320: a request that is still        *)
(* unanswered after INT1 gets a 100, and one that is unanswered after      *)
(* INT1 + INT2 is forgotten, so that no late 408 is ever sent.             *)
(*                                                                         *)
(* NonInviteProxy extends this module by the core that replies.            *)
(***************************************************************************)
EXTENDS EMTimers

CONSTANTS
    Provisionals, Finals,   \* 1xx and [23456]xx responses
    Alive,                  \* the "100 I'm alive" sent by timer INT1
    NoResponse,             \* @last_response is nil
    Connections,            \* connections the peer may use
    INT1, INT2, TIMER_J     \* in ticks

ASSUME Durations == \A d \in {INT1, INT2, TIMER_J} : IsDuration(d)

ASSUME Responses ==
    /\ Alive \in Provisionals
    /\ Provisionals \cap Finals = {}
    /\ NoResponse \notin Provisionals \cup Finals

VARIABLES
    transport,      \* "udp", or "tcp" for every connection-oriented transport
    state,          \* @state
    tm,             \* the timers
    last_response,  \* @last_response
    connection,     \* request.connection, where responses go
    finals,         \* history: the distinct final responses sent so far
    age             \* history: ticks since the request arrived, up to Deadline + 1

vars == <<transport, state, tm, last_response, connection, finals, age>>

Timers == {"INT1", "INT2", "J"}

Live == {"trying", "proceeding"}

\* RFC 4320: the last moment for a final response.
Deadline == INT1 + INT2

TypeOK ==
    /\ transport \in {"udp", "tcp"}
    /\ state \in Live \cup {"completed", "terminated"}
    /\ tm \in [Timers -> Nat \cup {Off}]
    /\ last_response \in Provisionals \cup Finals \cup {NoResponse}
    /\ connection \in Connections
    /\ finals \subseteq Finals
    /\ age \in Nat

Init ==
    /\ transport \in {"udp", "tcp"}
    /\ state = "trying"
    /\ tm = [Stopped(Timers) EXCEPT !["INT1"] = INT1]
    /\ last_response = NoResponse
    /\ connection \in Connections
    /\ finals = {}
    /\ age = 0

-----------------------------------------------------------------------------
(* Responses of the TU.                                                    *)

\* Faulty variant: each provisional response gives the TU another INT2.
ReplyProvisionalExtends(r) ==
    /\ state \in Live
    /\ state' = "proceeding"
    /\ tm' = [tm EXCEPT !["INT2"] = IF @ = Off THEN Off ELSE INT2]
    /\ last_response' = r
    /\ UNCHANGED <<transport, connection, finals, age>>

ReplyProvisional(r) ==
    /\ state \in Live
    /\ state' = "proceeding"
    /\ last_response' = r
    /\ UNCHANGED <<transport, tm, connection, finals, age>>

ReplyFinal(r) ==
    /\ state \in Live
    /\ IF transport = "udp"
       THEN /\ state' = "completed"
            /\ tm' = [Cancel(tm, {"INT1", "INT2"}) EXCEPT !["J"] = TIMER_J]
       ELSE /\ state' = "terminated"
            /\ tm' = Cancel(tm, {"INT1", "INT2"})
    /\ last_response' = r
    /\ finals' = finals \cup {r}
    /\ UNCHANGED <<transport, connection, age>>

-----------------------------------------------------------------------------
\* A retransmitted request: the connection it came by replaces the old one
\* and the last response, if there is one, is sent again.
ReceiveRetransmission(c) ==
    /\ state # "terminated"
    /\ connection' = c
    /\ UNCHANGED <<transport, state, tm, last_response, finals, age>>

-----------------------------------------------------------------------------
(* Timers.                                                                 *)

\* reply 100 goes through receive_response like any other reply.
FireINT1 ==
    /\ Due(tm, "INT1")
    /\ tm' = [tm EXCEPT !["INT1"] = Off, !["INT2"] = INT2]
    /\ IF last_response = NoResponse
       THEN state' = "proceeding" /\ last_response' = Alive
       ELSE UNCHANGED <<state, last_response>>
    /\ UNCHANGED <<transport, connection, finals, age>>

\* Faulty variant: the timer fires and the transaction stays in the table.
FireEndKeepState(t) ==
    /\ Due(tm, t)
    /\ tm' = Cancel(tm, {t})
    /\ UNCHANGED <<transport, state, last_response, connection, finals, age>>

\* Timers INT2 and J only end the transaction.
FireEnd(t) ==
    /\ Due(tm, t)
    /\ state' = "terminated"
    /\ tm' = Cancel(tm, {t})
    /\ UNCHANGED <<transport, last_response, connection, finals, age>>

Fire == FireINT1 \/ \E t \in {"INT2", "J"} : FireEnd(t)

Tick ==
    /\ NoneDue(tm)
    /\ tm' = Elapse(tm)
    /\ age' = IF state = "terminated" \/ age > Deadline THEN age ELSE age + 1
    /\ UNCHANGED <<transport, state, last_response, connection, finals>>

-----------------------------------------------------------------------------
(* Properties.                                                             *)

\* RFC 4320, section 4.2 (start_timer_INT2): no final response leaves later
\* than INT1 + INT2 after the request, whatever the core replies and when.
NoLateFinal ==
    [][finals' # finals => age <= Deadline]_vars
=============================================================================
