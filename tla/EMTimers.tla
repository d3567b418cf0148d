------------------------------ MODULE EMTimers ------------------------------
(***************************************************************************)
(* The timers of the EventMachine reactor (an external library), as the    *)
(* transactions of lib/oversip/sip use them.                               *)
(*                                                                         *)
(* A component keeps its timers in one function tm from timer names to the *)
(* number of clock ticks left, or Off when the timer is not scheduled      *)
(* (never started, cancelled or already fired).  The reactor fires timers  *)
(* in the order of their deadlines, so the clock of a component may only   *)
(* advance when no timer of it is due; packets and calls from the TU may   *)
(* still be handled before a due timer, as in one turn of the reactor.     *)
(***************************************************************************)
EXTENDS Integers

Off == -1

\* No timer of the set T is scheduled.
Stopped(T) == [t \in T |-> Off]

\* EM::Timer#cancel / EM::PeriodicTimer#cancel on every timer of S.
Cancel(tm, S) == [t \in DOMAIN tm |-> IF t \in S THEN Off ELSE tm[t]]

Scheduled(tm, t) == tm[t] # Off

Due(tm, t) == tm[t] = 0

NoneDue(tm) == \A t \in DOMAIN tm : tm[t] # 0

\* One tick of the clock.
Elapse(tm) == [t \in DOMAIN tm |-> IF tm[t] > 0 THEN tm[t] - 1 ELSE tm[t]]

\* The next interval of a retransmission timer that doubles up to max.
Backoff(interval, max) == IF 2 * interval < max THEN 2 * interval ELSE max

\* A duration given in ticks.
IsDuration(d) == d \in Nat \ {0}
=============================================================================
