------------------------------- MODULE Totals -------------------------------
(***************************************************************************)
(* Sums, defined by counting, so that what is known of the cardinality of  *)
(* finite sets can be used to reason about them.                           *)
(***************************************************************************)
EXTENDS Integers, FiniteSets

\* The sum of w[i] over the i in S: the number of pairs <<i, k>> with k up to
\* w[i].
Total(w, S) == Cardinality(UNION {{i} \X (1..w[i]) : i \in S})
=============================================================================
