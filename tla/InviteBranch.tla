---------------------------- MODULE InviteBranch ----------------------------
(***************************************************************************)
(* What an INVITE client transaction looks like to its core, with the      *)
(* durations left out: the abstract specification that                     *)
(* InviteClientTransaction implements and of which every branch of         *)
(* InviteProxy is a copy.                                                  *)
(*                                                                         *)
(* Ordered says that the configured timers keep the order of the default   *)
(* ones: a pending connection is decided before timer B, and timer B is    *)
(* shorter than timer C.                                                   *)
(***************************************************************************)
CONSTANT Ordered

VARIABLES
    state,    \* "none" before send_request, then the transaction's @state
    link,     \* the connection: "up", "pending" or "down"
    cancel,   \* do_cancel has run
    expiry    \* timer C is scheduled

bvars == <<state, link, cancel, expiry>>

Waiting == {"calling", "proceeding"}

BInit ==
    /\ state \in {"none", "calling"}
    /\ link \in {"up", "pending"}
    /\ cancel = FALSE
    /\ expiry = (state = "calling")

Start ==
    /\ state = "none"
    /\ state' = "calling"
    /\ link' \in {"up", "pending"}
    /\ expiry' = TRUE
    /\ UNCHANGED cancel

Provisional ==
    /\ link = "up" /\ state = "calling"
    /\ state' = "proceeding"
    /\ UNCHANGED <<link, cancel, expiry>>

Failure ==
    /\ link = "up" /\ state \in Waiting
    /\ state' \in {"completed", "terminated"}
    /\ expiry' = FALSE
    /\ UNCHANGED <<link, cancel>>

Success ==
    /\ link = "up" /\ state \in Waiting
    /\ state' = "accepted"
    /\ expiry' = FALSE
    /\ UNCHANGED <<link, cancel>>

LinkUp ==
    /\ link = "pending"
    /\ link' = "up"
    /\ UNCHANGED <<state, cancel, expiry>>

\* Reported to the core, unless the branch was cancelled and is over.
LinkFailed ==
    /\ link = "pending"
    /\ Ordered => state = "calling"
    /\ link' = "down"
    /\ IF state = "calling" \/ ~cancel
       THEN state' = "terminated" /\ expiry' = FALSE
       ELSE UNCHANGED <<state, expiry>>
    /\ UNCHANGED cancel

DoCancel ==
    /\ state # "none"
    /\ cancel' = TRUE
    /\ UNCHANGED <<state, link, expiry>>

TimerB ==
    /\ state = "calling"
    /\ Ordered => link # "pending"
    /\ state' = "terminated"
    /\ expiry' = FALSE
    /\ UNCHANGED <<link, cancel>>

TimerC ==
    /\ expiry
    /\ Ordered => state # "calling"
    /\ expiry' = FALSE
    /\ cancel' = TRUE
    /\ UNCHANGED <<state, link>>

\* Timer D or M of an answered branch; timer F or the grace time of one that
\* has sent a CANCEL, which leaves timer C as it is.
End ==
    /\ \/ state \in {"completed", "accepted"}
       \/ state = "proceeding" /\ cancel
    /\ state' = "terminated"
    /\ UNCHANGED <<link, cancel, expiry>>

BNext ==
    \/ Start \/ Provisional \/ Failure \/ Success
    \/ LinkUp \/ LinkFailed \/ DoCancel \/ TimerB \/ TimerC \/ End

BSpec == BInit /\ [][BNext]_bvars
=============================================================================
