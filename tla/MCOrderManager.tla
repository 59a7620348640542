--------------------------- MODULE MCOrderManager ---------------------------
(***************************************************************************)
(* A small order manager for TLC: two signals, orders of one or two lots,  *)
(* so that an order can be partly filled when it is cancelled, polled or   *)
(* replaced, and room for one order more than there are signals.           *)
(***************************************************************************)
EXTENDS OrderManager, TLC

\* The signals are interchangeable.
Symmetry == Permutations(Signals)
=============================================================================
