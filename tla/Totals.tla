------------------------------- MODULE Totals -------------------------------
(***************************************************************************)
(* What SUM and COUNT compute: the total of a column over a set of rows.   *)
(***************************************************************************)
EXTENDS FiniteSetsExt

Total(f, S) == MapThenSumSet(LAMBDA x : f[x], S)
=============================================================================
