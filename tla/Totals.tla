------------------------------- MODULE Totals -------------------------------
(* The total of a quantity (bytes, cost, views) over a finite set of items. *)
EXTENDS Naturals, FiniteSetsExt

Total(amount, S) == MapThenSumSet(LAMBDA x : amount[x], S)
=============================================================================
