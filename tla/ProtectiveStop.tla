--------------------------- MODULE ProtectiveStop ---------------------------
(***************************************************************************)
(* What stop management promises (execution/sl_tp.py:3-4): once a trade    *)
(* has a stop, the stop only ever moves in the favourable direction.       *)
(*                                                                         *)
(* The level of a trade is its stop as seen from its side: the price for a *)
(* long trade, the negated price for a short one, so that a higher level   *)
(* always risks less.                                                      *)
(***************************************************************************)
EXTENDS Integers

CONSTANTS Trades, NoStop

VARIABLE level

Init == level = [t \in Trades |-> NoStop]

Others(t) == \A u \in Trades \ {t} : level'[u] = level[u]

\* A trade without a stop gets its first one.
Protect(t) ==
  /\ level[t] = NoStop
  /\ level'[t] \in Int
  /\ Others(t)

Tighten(t) ==
  /\ level[t] # NoStop
  /\ level'[t] \in Int
  /\ level'[t] >= level[t]
  /\ Others(t)

Next == \E t \in Trades : Protect(t) \/ Tighten(t)

Spec == Init /\ [][Next]_level
=============================================================================
