--------------------------- MODULE NonInviteProxy ---------------------------
(***************************************************************************)
(* OverSIP::SIP::Proxy routing one request other than INVITE and ACK       *)
(* (lib/oversip/sip/proxy.rb and client.rb), with all the timers of its    *)
(* server transaction and of the client transaction for the target that    *)
(* is being tried.                                                         *)
(*                                                                         *)
(* The variables of the server transaction keep their names; Client is the *)
(* client transaction.  That of an earlier target has ended, except for    *)
(* timer K after a 503, and is forgotten when the next one is created.     *)
(* That says nothing about durations with TIMER_F < LINK, where a          *)
(* connection given up by timer F can still fail and be reported: the      *)
(* default timer_F of 32 s is far above the 6 s a connection can take.     *)
(*                                                                         *)
(* Which of the targets are blacklisted is left open, as it depends on     *)
(* other requests.  The script's callbacks run inside the handlers, where  *)
(* they may drop the response that is about to be sent, or abort.  What a  *)
(* DNS result can hold is as in InviteProxy: targets, something that is    *)
(* not a usable target, or nothing; in the last two cases a handler        *)
(* raises, and raised records it.                                          *)
(***************************************************************************)
EXTENDS NonInviteServerTransaction

CONSTANTS
    TIMER_E, TIMER_F, TIMER_K, T2,  \* of the client transaction, in ticks
    LINK,                           \* longest time a connection is pending
    MaxTargets                      \* bound on the targets of a DNS result

ASSUME ClientDurations ==
    /\ \A d \in {TIMER_E, TIMER_F, TIMER_K, T2, LINK} : IsDuration(d)
    /\ TIMER_E <= T2

ASSUME TargetBound == MaxTargets \in Nat \ {0}

VARIABLES
    failover,   \* dns_failover_on_503 of the proxy
    dns,        \* the DNS query: "pending", failed and going on ("again"), or "done"
    left,       \* number of targets that were not tried yet
    ctransport, link, cstate, ctm, intE,    \* the client transaction
    dropped,    \* history: the script dropped a response
    raised      \* history: a DNS result without a usable target raised

Client == INSTANCE NonInviteClientTransaction
    WITH transport <- ctransport, state <- cstate, tm <- ctm

core == <<failover, dns, left, dropped, raised>>
client == <<ctransport, link, cstate, ctm, intE>>
allvars == <<vars, core, client>>

\* proxy.route has created the server transaction and asked the DNS.
ProxyInit ==
    /\ Init
    /\ Client!Init
    /\ failover \in BOOLEAN
    /\ dns = "pending"
    /\ left = 0
    /\ dropped = FALSE /\ raised = FALSE

-----------------------------------------------------------------------------
(* What the core does.                                                     *)

\* Request#reply or reply_full, which the server transaction may refuse.
Reply ==
    IF state \in Live THEN \E r \in Finals : ReplyFinal(r) ELSE UNCHANGED vars

\* The callbacks run, and the reply is sent unless one of them drops it.
ReplyUnlessDropped ==
    /\ \/ Reply /\ UNCHANGED dropped
       \/ dropped' = TRUE /\ UNCHANGED vars
    /\ UNCHANGED raised

\* A handler raises before it has replied or created a client transaction.
Raise == raised' = TRUE /\ UNCHANGED <<vars, dropped>>

\* Faulty variant: an aborted or exhausted search ends in silence.
TryNextTargetSilent(n, End) ==
    \/ /\ n > 0
       /\ left' \in 0..(n - 1)
       /\ Client!SendRequest
       /\ UNCHANGED <<vars, dropped, raised>>
    \/ /\ left' = 0
       /\ End
       /\ UNCHANGED <<vars, dropped, raised>>

\* try_next_target with n targets left: one that is not blacklisted is used, or
\* there is none, or on_target aborts the routing, or the next one is the list
\* of a weightless SRV record, for which use_target raises.  End is what becomes
\* of the client transaction if no other takes its place.
TryNextTarget(n, End) ==
    \/ /\ n > 0
       /\ left' \in 0..(n - 1)
       /\ Client!SendRequest
       /\ UNCHANGED <<vars, dropped, raised>>
    \/ /\ n > 0
       /\ left' \in 0..(n - 1)
       /\ End
       /\ Raise
    \/ /\ left' = 0
       /\ End
       /\ ReplyUnlessDropped

-----------------------------------------------------------------------------
(* The events that reach the core.                                         *)

\* rfc3263_succeeded.
DnsSucceeded(n) ==
    /\ dns = "pending"
    /\ dns' = "done"
    /\ TryNextTarget(n, UNCHANGED client)
    /\ UNCHANGED failover

\* rfc3263_succeeded with an empty result, or an Array it does not recognise:
\* no_more_targets replies nil, which raises, unless the script drops it.
DnsWithoutTargets ==
    /\ dns = "pending"
    /\ dns' = "done"
    /\ \/ dropped' = TRUE /\ UNCHANGED <<vars, raised>>
       \/ Raise
    /\ UNCHANGED <<failover, left, client>>

\* rfc3263_failed.  A query for a transport that OverSIP has no server for
\* fails and then goes on without a transport.
DnsFailed ==
    /\ dns \in {"pending", "again"}
    /\ dns' \in IF dns = "pending" THEN {"again", "done"} ELSE {"done"}
    /\ ReplyUnlessDropped
    /\ UNCHANGED <<failover, left, client>>

\* rfc3263_succeeded of such a query: no client transaction can be created for
\* the first of its n targets, unless on_target aborts before.
DnsSucceededAgain(n) ==
    /\ dns = "again"
    /\ dns' = "done"
    /\ \/ Raise /\ left' = n - 1
       \/ ReplyUnlessDropped /\ left' = 0
    /\ UNCHANGED <<failover, client>>

\* receive_response with a 1xx: a 100 is not forwarded, and another only if
\* the script does not drop it and the server transaction takes it.
Provisional ==
    /\ Client!ReceiveProvisional
    /\ \/ state \in Live /\ \E r \in Provisionals \ {Alive} : ReplyProvisional(r)
       \/ UNCHANGED vars
    /\ UNCHANGED core

\* receive_response with a final response: after a 503 the next target is
\* tried, if the proxy is told to and the server transaction is waiting.
Final(is503) ==
    /\ link = "up" /\ cstate \in Live
    /\ IF is503 /\ failover /\ state \in Live
       THEN TryNextTarget(left, Client!ReceiveFinal)
       ELSE /\ Client!ReceiveFinal
            /\ ReplyUnlessDropped
            /\ UNCHANGED left
    /\ UNCHANGED <<failover, dns>>

\* client_timeout, called by timer F.
ClientTimeout ==
    /\ Due(ctm, "F")
    /\ TryNextTarget(left, Client!FireF)
    /\ UNCHANGED <<failover, dns>>

\* connection_failed and tls_validation_failed.
ConnectionFailed ==
    /\ link = "pending"
    /\ TryNextTarget(left, Client!LinkFailed)
    /\ UNCHANGED <<failover, dns>>

-----------------------------------------------------------------------------
Dns ==
    \/ DnsFailed
    \/ DnsWithoutTargets
    \/ \E n \in 1..MaxTargets : DnsSucceeded(n) \/ DnsSucceededAgain(n)

\* Timers that the reactor has to run.
Timed ==
    \/ Fire /\ UNCHANGED <<core, client>>
    \/ (Client!FireE \/ Client!FireK) /\ UNCHANGED <<core, vars>>
    \/ ClientTimeout
    \/ Due(ctm, "LINK") /\ ConnectionFailed

ProxyTick == Tick /\ Client!Tick /\ UNCHANGED core

ProxyNext ==
    \/ Dns
    \/ Provisional
    \/ \E is503 \in BOOLEAN : Final(is503)
    \/ Client!LinkUp /\ UNCHANGED <<core, vars>>
    \/ ConnectionFailed
    \/ \E c \in Connections : ReceiveRetransmission(c) /\ UNCHANGED <<core, client>>
    \/ Timed
    \/ ProxyTick

\* The resolver answers or gives up, time passes and the reactor runs the
\* timers that are due.  Nothing is assumed of the requester, the targets and
\* their connections.
ProxySpec ==
    /\ ProxyInit /\ [][ProxyNext]_allvars
    /\ WF_allvars(Dns) /\ WF_allvars(Timed) /\ WF_allvars(ProxyTick)

-----------------------------------------------------------------------------
(* Properties.                                                             *)

\* The requester is not forgotten: when the DNS query is over and no target is
\* being tried, its request has been answered or has met the deadline of
\* RFC 4320, unless the script dropped the answer or the DNS result held no
\* usable target, in which case the handler that should have answered raised.
RequesterNotForgotten ==
    (dns = "done" /\ cstate \notin Live) => (state \notin Live \/ dropped \/ raised)

\* Both sides come to their end, however the timers of the one relate to those
\* of the other.
ProxyEnds ==
    <>[](state = "terminated" /\ cstate \in {"none", "terminated"})

\* The server transaction keeps the contract of server transactions: one final
\* response, and none after the end.
Contract == INSTANCE ServerTransactionContract
    WITH Repeatable <- {}, answers <- finals, open <- state # "terminated"

-----------------------------------------------------------------------------
(* The inductive invariant.                                                *)

ClientTypeOK ==
    /\ ctransport \in {"udp", "tcp"}
    /\ link \in {"up", "pending", "down"}
    /\ cstate \in Live \cup {"none", "completed", "terminated"}
    /\ ctm \in [Client!Timers -> Nat \cup {Off}]
    /\ intE \in 1..T2

CoreTypeOK ==
    /\ failover \in BOOLEAN /\ dropped \in BOOLEAN /\ raised \in BOOLEAN
    /\ dns \in {"pending", "again", "done"}
    /\ left \in 0..MaxTargets

\* INT2 follows INT1, and together they end at the deadline; each timer of the
\* server transaction runs in its own states.
ServerTimers ==
    /\ state \in Live =>
           \/ Scheduled(tm, "INT1") /\ age + tm["INT1"] <= INT1
           \/ Scheduled(tm, "INT2") /\ age + tm["INT2"] <= Deadline
    /\ \A t \in {"INT1", "INT2"} : Scheduled(tm, t) => state \in Live
    /\ ~(Scheduled(tm, "INT1") /\ Scheduled(tm, "INT2"))
    /\ state = "completed" <=> Scheduled(tm, "J")

\* The client transaction waits as long as timer F runs, which is as long as it
\* retransmits, and lingers as long as timer K runs.
ClientTimers ==
    /\ cstate \in Live <=> Scheduled(ctm, "F")
    /\ cstate = "completed" => Scheduled(ctm, "K")
    /\ Scheduled(ctm, "K") => cstate \notin Live
    /\ Scheduled(ctm, "E") => Scheduled(ctm, "F")

IInv ==
    /\ TypeOK /\ ClientTypeOK /\ CoreTypeOK
    /\ ServerTimers
    /\ ClientTimers
    /\ state \in Live => finals = {}
    /\ RequesterNotForgotten
=============================================================================
