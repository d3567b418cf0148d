----------------------------- MODULE InviteProxy -----------------------------
(***************************************************************************)
(* OverSIP::SIP::Proxy routing one INVITE (lib/oversip/sip/proxy.rb and    *)
(* client.rb), with the INVITE server transaction on one side and one      *)
(* INVITE client transaction per target on the other.                      *)
(*                                                                         *)
(* Durations are left out.  The server transaction is reduced to the       *)
(* states that decide which replies it accepts ("completed" stands for     *)
(* :completed and :confirmed), and a client transaction to InviteBranch,   *)
(* the specification that InviteClientTransaction implements.              *)
(*                                                                         *)
(* The targets found by DNS are numbered in the order in which they are    *)
(* tried, so branch[m] is the client transaction for target m and          *)
(* @current_target is target num.  The callbacks of the user's script run  *)
(* inside the handlers; what they can change is the drop_response and the  *)
(* abort_routing flag, so each handler that runs one chooses that freely.  *)
(* The single destination of an Outbound flow behaves like a DNS result    *)
(* with one target.                                                        *)
(*                                                                         *)
(* Module Rfc3263 says what a DNS result can hold.  Here it is n targets,  *)
(* each of which may turn out to be one that no client transaction can be  *)
(* created for (the list of a weightless SRV record, or a target without   *)
(* transport), or nothing the client recognises as a target.  In both      *)
(* cases a handler raises, which the history variable raised records.      *)
(***************************************************************************)
EXTENDS Integers, FiniteSets, FiniteSetsExt

CONSTANTS
    MaxTargets, \* bound on the number of targets of a DNS result
    Ordered     \* the timers keep their default order, see InviteBranch

ASSUME ProxyConstants == MaxTargets \in Nat \ {0} /\ Ordered \in BOOLEAN

VARIABLES
    conf,       \* the proxy's use_blacklist and dns_failover_on_503
    dns,        \* the DNS query: "pending", failed and going on ("again"), or "done"
    size,       \* number of targets
    num,        \* @num_target, the number of the @current_target
    ct,         \* @client_transaction, 0 for nil
    branch,     \* the client transactions
    ist,        \* state of the server transaction
    canceled,   \* @canceled
    drop,       \* @drop_response
    blacklist,  \* blacklisted targets
    dropped,    \* history: the script asked to drop a response
    raised      \* history: a DNS result without a usable target raised

vars == <<conf, dns, size, num, ct, branch, ist, canceled, drop, blacklist,
          dropped, raised>>

Target == 1..MaxTargets

NoBranch == [state |-> "none", link |-> "up", cancel |-> FALSE, expiry |-> FALSE]

Waiting == {m \in Target : branch[m].state \in {"calling", "proceeding"}}

ClientTransaction ==
    [state: {"none", "calling", "proceeding", "completed", "accepted", "terminated"},
     link: {"up", "pending", "down"}, cancel: BOOLEAN, expiry: BOOLEAN]

TypeOK ==
    /\ conf \in [use_blacklist: BOOLEAN, dns_failover_on_503: BOOLEAN]
    /\ dns \in {"pending", "again", "done"}
    /\ size \in 0..MaxTargets /\ num \in 0..size /\ ct \in 0..num
    /\ branch \in [Target -> ClientTransaction]
    /\ ist \in {"proceeding", "completed", "accepted", "terminated"}
    /\ canceled \in BOOLEAN /\ drop \in BOOLEAN
    /\ dropped \in BOOLEAN /\ raised \in BOOLEAN
    /\ blacklist \subseteq Target

\* The INVITE has a server transaction and the DNS query has been sent.
Init ==
    /\ conf \in [use_blacklist: BOOLEAN, dns_failover_on_503: BOOLEAN]
    /\ dns = "pending"
    /\ size = 0 /\ num = 0 /\ ct = 0
    /\ branch = [m \in Target |-> NoBranch]
    /\ ist = "proceeding"
    /\ canceled = FALSE /\ drop = FALSE /\ dropped = FALSE /\ raised = FALSE
    /\ blacklist \in SUBSET Target

-----------------------------------------------------------------------------
(* Replying to the caller.                                                 *)

\* Request#reply or reply_full with a [3456]xx.
ReplyFailure == ist' = IF ist = "proceeding" THEN "completed" ELSE ist

\* reply_full with a 2xx.
ReplySuccess == ist' = IF ist = "proceeding" THEN "accepted" ELSE ist

\* After the script's callbacks, a reply is sent unless it is to be dropped;
\* the flag serves once.
UnlessDropped(script, Reply) ==
    /\ IF drop \/ script THEN UNCHANGED ist ELSE Reply
    /\ drop' = FALSE
    /\ dropped' = (dropped \/ script)

-----------------------------------------------------------------------------
(* Trying targets.                                                         *)

\* Faulty variant: timer C is not started.
UseTargetWithoutC(m, branches) ==
    /\ \E link \in {"up", "pending"} :
         branch' = [branches EXCEPT ![m] = [NoBranch EXCEPT !.state = "calling", !.link = link]]
    /\ num' = m
    /\ ct' = m
    /\ UNCHANGED <<ist, drop, dropped, raised>>

\* use_target, unless on_target aborts: a client transaction is created and
\* its request sent.
UseTarget(m, branches) ==
    /\ \E link \in {"up", "pending"} :
         branch' = [branches EXCEPT
           ![m] = [NoBranch EXCEPT !.state = "calling", !.link = link, !.expiry = TRUE]]
    /\ num' = m
    /\ ct' = m
    /\ UNCHANGED <<ist, drop, dropped, raised>>

\* no_more_targets, and the end of an aborted routing: the last target was m.
NoMoreTargets(m, branches) ==
    /\ branch' = branches
    /\ num' = m
    /\ \E script \in BOOLEAN : UnlessDropped(script, ReplyFailure)
    /\ UNCHANGED <<ct, raised>>

\* use_target for what is not a target: target.transport, or the client
\* transaction for a nil transport, raises.  The handler ends there.
UnusableTarget(m, branches) ==
    /\ branch' = branches
    /\ num' = m
    /\ raised' = TRUE
    /\ UNCHANGED <<ct, ist, drop, dropped>>

\* try_next_target with n targets, of which num have been tried: blacklisted
\* ones are skipped, and abort_routing in on_target forgets the others.
TryNextTarget(n, branches, listed) ==
    LET usable == ((num + 1)..n) \ listed
        next == Min(usable)
    IN IF usable # {}
       THEN \/ UseTarget(next, branches) /\ size' = n
            \/ UnusableTarget(next, branches) /\ size' = n
            \/ NoMoreTargets(next, branches) /\ size' = next
       ELSE NoMoreTargets(n, branches) /\ size' = n

-----------------------------------------------------------------------------
(* DNS.                                                                    *)

\* rfc3263_succeeded, at once or when the query ends.
DnsSucceeded(n) ==
    /\ dns = "pending"
    /\ dns' = "done"
    /\ TryNextTarget(n, branch, blacklist)
    /\ UNCHANGED <<conf, canceled, blacklist>>

\* rfc3263_succeeded with an empty result, or an Array it does not recognise:
\* no_more_targets has no status to reply with, and replying nil raises.
DnsWithoutTargets ==
    /\ dns = "pending"
    /\ dns' = "done"
    /\ \E script \in BOOLEAN :
         IF drop \/ script
         THEN drop' = FALSE /\ dropped' = (dropped \/ script) /\ UNCHANGED raised
         ELSE raised' = TRUE /\ UNCHANGED <<drop, dropped>>
    /\ UNCHANGED <<conf, size, num, ct, branch, ist, canceled, blacklist>>

\* rfc3263_failed and do_dns_fail.  A query for a transport that OverSIP has no
\* server for fails and then goes on without a transport.
DnsFailed ==
    /\ dns \in {"pending", "again"}
    /\ dns' \in IF dns = "pending" THEN {"again", "done"} ELSE {"done"}
    /\ \E script \in BOOLEAN : UnlessDropped(script, ReplyFailure)
    /\ UNCHANGED <<conf, size, num, ct, branch, canceled, blacklist, raised>>

\* rfc3263_succeeded of such a query: the n targets have no transport.
DnsSucceededAgain(n) ==
    /\ dns = "again"
    /\ dns' = "done"
    /\ \/ UnusableTarget(1, branch) /\ size' = n
       \/ NoMoreTargets(1, branch) /\ size' = 1
    /\ UNCHANGED <<conf, canceled, blacklist>>

-----------------------------------------------------------------------------
(* Events of the client transaction for target m, together with what the   *)
(* core does about them.                                                   *)

Set(m, changed) == [branch EXCEPT ![m] = changed]

\* A 1xx in "calling"; a later one, or a 100, leaves the branch as it is.  The
\* core forwards it, if it is not a 100, unless a response is to be dropped.
BranchProvisional(m) ==
    /\ branch[m].link = "up"
    /\ branch[m].state \in {"calling", "proceeding"}
    /\ branch' = Set(m, [branch[m] EXCEPT !.state = "proceeding"])
    /\ drop' \in {drop, FALSE}
    /\ UNCHANGED <<conf, dns, size, num, ct, ist, canceled, blacklist, dropped, raised>>

\* Faulty variant: failover on 503 does not ask valid_response? first.
BranchFailureUnchecked(m, code) ==
    /\ branch[m].link = "up"
    /\ branch[m].state \in {"calling", "proceeding"}
    /\ LET branches == Set(m, [branch[m] EXCEPT !.state = "completed", !.expiry = FALSE])
       IN IF ~canceled /\ code = "503" /\ conf.dns_failover_on_503
          THEN TryNextTarget(size, branches, blacklist)
          ELSE /\ branch' = branches
               /\ UnlessDropped(FALSE, ReplyFailure)
               /\ UNCHANGED <<size, num, ct, raised>>
    /\ UNCHANGED <<conf, dns, canceled, blacklist>>

\* A [3456]xx.  code is "503" or "other"; a 503 may lead to the next target.
BranchFailure(m, code) ==
    /\ branch[m].link = "up"
    /\ branch[m].state \in {"calling", "proceeding"}
    /\ \E ended \in {"completed", "terminated"} :
         LET branches == Set(m, [branch[m] EXCEPT !.state = ended, !.expiry = FALSE])
             runs == ist = "proceeding" /\ ~canceled   \* callbacks are run
         IN IF runs /\ code = "503" /\ conf.dns_failover_on_503
            THEN TryNextTarget(size, branches, blacklist)
            ELSE /\ branch' = branches
                 /\ \E script \in {FALSE, runs} : UnlessDropped(script, ReplyFailure)
                 /\ UNCHANGED <<size, num, ct, raised>>
    /\ UNCHANGED <<conf, dns, canceled, blacklist>>

\* A 2xx, the first or a further one.
BranchSuccess(m) ==
    /\ branch[m].link = "up"
    /\ branch[m].state \in {"calling", "proceeding", "accepted"}
    /\ branch' = Set(m, [branch[m] EXCEPT !.state = "accepted", !.expiry = FALSE])
    /\ \E script \in BOOLEAN :
         /\ script => ist \in {"proceeding", "accepted"}
         /\ UnlessDropped(script, ReplySuccess)
    /\ UNCHANGED <<conf, dns, size, num, ct, canceled, blacklist, raised>>

BranchLinkUp(m) ==
    /\ branch[m].link = "pending"
    /\ branch' = Set(m, [branch[m] EXCEPT !.link = "up"])
    /\ UNCHANGED <<conf, dns, size, num, ct, ist, canceled, drop, blacklist, dropped, raised>>

\* client_timeout, connection_failed and tls_validation_failed of the core:
\* the @current_target is blacklisted and the next one tried.
TargetFailed(branches) ==
    LET listed == IF conf.use_blacklist THEN blacklist \cup {num} ELSE blacklist
    IN /\ blacklist' = listed
       /\ TryNextTarget(size, branches, listed)

\* Timer B.
BranchTimerB(m) ==
    /\ branch[m].state = "calling"
    /\ Ordered => branch[m].link # "pending"
    /\ TargetFailed(Set(m, [branch[m] EXCEPT !.state = "terminated", !.expiry = FALSE]))
    /\ UNCHANGED <<conf, dns, canceled>>

\* The pending connection fails: connection_failed, tls_validation_failed.
BranchLinkFailed(m) ==
    /\ branch[m].link = "pending"
    /\ Ordered => branch[m].state = "calling"
    /\ IF branch[m].state = "calling" \/ ~branch[m].cancel
       THEN TargetFailed(Set(m, [branch[m] EXCEPT !.state = "terminated",
                                    !.link = "down", !.expiry = FALSE]))
       ELSE /\ branch' = Set(m, [branch[m] EXCEPT !.link = "down"])
            /\ UNCHANGED <<size, num, ct, ist, drop, blacklist, dropped, raised>>
    /\ UNCHANGED <<conf, dns, canceled>>

\* Faulty variant: a timed out INVITE is cancelled and the caller not told.
BranchTimerCSilent(m) ==
    /\ branch[m].expiry
    /\ Ordered => branch[m].state # "calling"
    /\ branch' = Set(m, [branch[m] EXCEPT !.cancel = TRUE, !.expiry = FALSE])
    /\ drop' = TRUE
    /\ UNCHANGED <<conf, dns, size, num, ct, ist, canceled, blacklist, dropped, raised>>

\* Faulty variant: timer C is treated like timer B and the next target tried.
BranchTimerCFailover(m) ==
    /\ branch[m].expiry
    /\ Ordered => branch[m].state # "calling"
    /\ TargetFailed(Set(m, [branch[m] EXCEPT !.cancel = TRUE, !.expiry = FALSE]))
    /\ UNCHANGED <<conf, dns, canceled>>

\* Timer C: the branch is cancelled, the caller told, and the 487 of the target
\* is to be dropped.
BranchTimerC(m) ==
    /\ branch[m].expiry
    /\ Ordered => branch[m].state # "calling"
    /\ branch' = Set(m, [branch[m] EXCEPT !.cancel = TRUE, !.expiry = FALSE])
    /\ \E script \in BOOLEAN :
         /\ IF drop \/ script THEN UNCHANGED ist ELSE ReplyFailure
         /\ dropped' = (dropped \/ script)
    /\ drop' = TRUE
    /\ UNCHANGED <<conf, dns, size, num, ct, canceled, blacklist, raised>>

\* Faulty variant: an accepted branch stays in the table.
BranchEndNotAccepted(m) ==
    /\ \/ branch[m].state = "completed"
       \/ branch[m].state = "proceeding" /\ branch[m].cancel
    /\ branch' = Set(m, [branch[m] EXCEPT !.state = "terminated"])
    /\ UNCHANGED <<conf, dns, size, num, ct, ist, canceled, drop, blacklist, dropped, raised>>

\* The client transaction ends: timer D or M, or timer F or the grace time of
\* its CANCEL.
BranchEnd(m) ==
    /\ \/ branch[m].state \in {"completed", "accepted"}
       \/ branch[m].state = "proceeding" /\ branch[m].cancel
    /\ branch' = Set(m, [branch[m] EXCEPT !.state = "terminated"])
    /\ UNCHANGED <<conf, dns, size, num, ct, ist, canceled, drop, blacklist, dropped, raised>>

-----------------------------------------------------------------------------
(* The caller, the server transaction and the blacklist.                   *)

\* A CANCEL that finds the server transaction in :proceeding is answered with
\* 200 and given to the core.  Before the first client transaction exists,
\* do_cancel is called on nil: the exception ends the handler there.
ReceiveCancel ==
    /\ ist = "proceeding"
    /\ canceled' = TRUE
    /\ branch' = IF ct = 0 THEN branch ELSE Set(ct, [branch[ct] EXCEPT !.cancel = TRUE])
    /\ UNCHANGED <<conf, dns, size, num, ct, ist, drop, blacklist, dropped, raised>>

\* Timer C2 ends an unanswered server transaction, timers H, I and L and the
\* ACK an answered one.
ServerTransactionEnds ==
    /\ ist # "terminated"
    /\ ist' = "terminated"
    /\ UNCHANGED <<conf, dns, size, num, ct, branch, canceled, drop, blacklist, dropped, raised>>

\* The timer of a blacklist entry.
BlacklistExpires(t) ==
    /\ t \in blacklist
    /\ blacklist' = blacklist \ {t}
    /\ UNCHANGED <<conf, dns, size, num, ct, branch, ist, canceled, drop, dropped, raised>>

-----------------------------------------------------------------------------
Dns ==
    \/ DnsFailed
    \/ DnsWithoutTargets
    \/ \E n \in Target : DnsSucceeded(n) \/ DnsSucceededAgain(n)

BranchTimers(m) == BranchTimerB(m) \/ BranchTimerC(m) \/ BranchEnd(m) \/ BranchLinkFailed(m)

Next ==
    \/ Dns
    \/ \E m \in Target :
         \/ BranchProvisional(m)
         \/ \E code \in {"503", "other"} : BranchFailure(m, code)
         \/ BranchSuccess(m)
         \/ BranchLinkUp(m)
         \/ BranchTimers(m)
    \/ ReceiveCancel
    \/ ServerTransactionEnds
    \/ \E t \in Target : BlacklistExpires(t)

\* The resolver answers or gives up, and the reactor runs the timers.
Fairness ==
    /\ WF_vars(Dns)
    /\ \A m \in Target : WF_vars(BranchTimers(m))
    /\ WF_vars(ServerTransactionEnds)

Spec == Init /\ [][Next]_vars /\ Fairness

-----------------------------------------------------------------------------
(* Properties.                                                             *)

\* "We don't implement parallel forking": at most one target is being tried,
\* whatever order failover, timeouts and failed connections come in.
OneWaitingBranch == Cardinality(Waiting) <= 1

\* The caller is not forgotten: when nothing is outstanding any more (no DNS
\* query, no waiting branch, no timer C), the server transaction has got a
\* final reply or is gone, unless the script asked to drop a response or the
\* DNS result held no usable target, in which case the handler that should have
\* answered raised.  A flag left over from timer C, a skipped blacklisted target
\* or a failover must not swallow the last reply.
CallerNotForgotten ==
    (/\ dns = "done"
     /\ Waiting = {}
     /\ \A m \in Target : ~branch[m].expiry)
    => ist # "proceeding" \/ dropped \/ raised

\* No target is tried once the caller has been answered: failover on 503,
\* timeout or connection failure happens only for a caller that still waits.
NoTargetAfterAnswer ==
    [][ct' # ct => ist \notin {"completed", "accepted"}]_vars

\* A CANCEL of the caller reaches the branch that is being tried: "server
\* transaction canceled, cancelling pending client transaction".
CancelReachesBranch ==
    canceled => \A m \in Waiting : branch[m].cancel

\* Every call comes to an end on both sides.
CallEnds ==
    <>[](ist = "terminated" /\
         \A m \in Target : branch[m].state \in {"none", "terminated"} /\ ~branch[m].expiry)

Branch(m) == INSTANCE InviteBranch
    WITH state <- branch[m].state, link <- branch[m].link,
         cancel <- branch[m].cancel, expiry <- branch[m].expiry

ConformingStep == \A m \in Target : [Branch(m)!BNext]_(branch[m])

\* The core makes of each branch only what an INVITE client transaction can do:
\* the composition uses the specification the detailed transaction implements.
BranchesConform == [][ConformingStep]_vars

-----------------------------------------------------------------------------
(* The inductive invariant.                                                *)

\* Targets are numbered as they are tried: those after num have no branch yet,
\* and @client_transaction is one that was created.
BranchesMatchTargets ==
    /\ \A m \in Target : m > num => branch[m] = NoBranch
    /\ \A m \in Target : branch[m].state = "none" => branch[m] = NoBranch
    /\ \A m \in Target : branch[m].state = "accepted" => ~branch[m].expiry
    /\ ct # 0 => branch[ct].state # "none"
    /\ dns # "done" => size = 0 /\ num = 0
    /\ dns = "pending" => ist \in {"proceeding", "terminated"}

\* While the caller waits and nothing raised, timer C of some branch will see to it; and only a
\* timer C that answered the caller leaves the drop flag set.
CallerLookedAfter ==
    /\ dns = "done" /\ ist = "proceeding" /\ ~dropped /\ ~raised =>
           \E m \in Target : branch[m].expiry
    /\ drop => ist # "proceeding" \/ dropped

\* With the timers in their order, only the branch of the @current_target is
\* waiting, accepted or has timer C running; a connection is pending and a
\* branch "calling" only as long as the caller was not answered.
OnlyCurrentBranch ==
    /\ \A m \in Target : m # num =>
           branch[m].state \in {"none", "completed", "terminated"} /\ ~branch[m].expiry
    /\ \A m \in Target : branch[m].link = "pending" => branch[m].state = "calling"
    /\ \A m \in Target : branch[m].state = "calling" => ist \notin {"completed", "accepted"}

IInv ==
    /\ TypeOK
    /\ BranchesMatchTargets
    /\ CallerLookedAfter
    /\ Ordered => OnlyCurrentBranch
=============================================================================
