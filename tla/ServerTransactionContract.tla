--------------------- MODULE ServerTransactionContract ---------------------
(***************************************************************************)
(* What a server transaction promises to the peer that sent the request,   *)
(* whatever its timers do: the request gets at most one final answer,      *)
(* except that an accepted INVITE may be answered by several 2xx           *)
(* (RFC 6026); nothing is answered once the transaction is gone; and the   *)
(* transaction does go, answered or not.                                   *)
(*                                                                         *)
(* InviteServerTransaction implements this specification.                  *)
(***************************************************************************)
CONSTANTS Finals,      \* the final responses
          Repeatable   \* those that may follow one another (2xx to INVITE)

VARIABLES answers,     \* the distinct final responses sent to the peer
          open         \* the transaction is in the table of its transport

cvars == <<answers, open>>

Compatible(f) == answers = {} \/ (f \in Repeatable /\ answers \subseteq Repeatable)

CInit == answers = {} /\ open = TRUE

\* A final response; over a reliable transport it may end the transaction.
Answer(f) ==
    /\ open
    /\ Compatible(f)
    /\ answers' = answers \cup {f}
    /\ open' \in BOOLEAN

Close ==
    /\ open
    /\ open' = FALSE
    /\ UNCHANGED answers

CNext == Close \/ \E f \in Finals : Answer(f)

CSpec == CInit /\ [][CNext]_cvars /\ WF_cvars(Close)
=============================================================================
