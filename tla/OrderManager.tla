---------------------------- MODULE OrderManager ----------------------------
(***************************************************************************)
(* The order manager (execution/order_manager.py) over the live executor   *)
(* (execution/executor.py, LiveExecutor), and the exchange as they use it. *)
(*                                                                         *)
(* The live executor calls the exchange synchronously, so a coroutine of   *)
(* the manager never gives way and each one is a single action.  What can  *)
(* come between two of them is the exchange, which fills, cancels and      *)
(* expires orders on its own; and an answer can be lost after the exchange *)
(* has acted on the request.  Quantities are lots; prices, fees and reject *)
(* reasons are left out.  A call that the exchange refuses changes at most *)
(* a reject reason, except in create_order.                                *)
(***************************************************************************)
EXTENDS Integers, Sequences

CONSTANTS
  Signals,        \* signal ids
  Lots,           \* quantities of an order
  NoSignal,       \* model value: signal_id of an order that has none
  NoId,           \* model value: exchange_order_id not set
  MaxAttempts,    \* bound: orders the manager makes between two restarts
  MaxOrders       \* bound: orders the exchange has seen

ASSUME SignalsAssumption ==
  /\ NoSignal \notin Signals
  /\ Lots \subseteq Nat \ {0}
  /\ NoId \notin Nat
  /\ MaxAttempts \in Nat /\ MaxOrders \in Nat

VARIABLES
  orders,      \* _seen_client_ids, in the order of insertion; _all_orders lists the same
  openOrders,  \* _open_orders, as indices into orders
  exchange,    \* every order the exchange has accepted; its index is its id
  uncertain    \* history: signals of which the manager has missed something

vars == <<orders, openOrders, exchange, uncertain>>

OrderStatus == {"PENDING", "SUBMITTED", "PARTIAL", "FILLED", "CANCELLED", "REJECTED", "EXPIRED"}
ExchangeStatus == {"open", "closed", "canceled", "rejected", "expired"}

LocalOrder ==
  [signal : Signals, status : OrderStatus, id : Nat \cup {NoId}, lots : Lots, filled : Nat]
ExchangeOrder ==
  [signal : Signals \cup {NoSignal}, status : ExchangeStatus, lots : Lots, filled : Nat]

\* get_order_status: the statuses it knows, PENDING for all others.
Mapping(status) ==
  CASE status = "open" -> "SUBMITTED"
    [] status = "closed" -> "FILLED"
    [] status = "canceled" -> "CANCELLED"
    [] status = "rejected" -> "REJECTED"
    [] status = "expired" -> "EXPIRED"
    [] OTHER -> "PENDING"

NewOrder(s, lots, status, id) ==
  [signal |-> s, status |-> status, id |-> id, lots |-> lots, filled |-> 0]

Placed(s, lots) == [signal |-> s, status |-> "open", lots |-> lots, filled |-> 0]

\* An order of this index can be named to the exchange, which knows it as open.
OpenAtExchange(o) == orders[o].id # NoId /\ exchange[orders[o].id].status = "open"

-----------------------------------------------------------------------------
Init ==
  /\ orders = <<>>
  /\ openOrders = {}
  /\ exchange = <<>>
  /\ uncertain = {}

\* A bug: an order blocks its signal only once it has fills.
BugBlocks(o, s) == orders[o].signal = s /\ orders[o].status \in {"FILLED", "PARTIAL"}

\* The idempotency check of submit.
Blocks(o, s) == orders[o].signal = s /\ orders[o].status \in {"SUBMITTED", "FILLED", "PARTIAL"}

Submittable(s) ==
  /\ Len(orders) < MaxAttempts /\ Len(exchange) < MaxOrders
  /\ \A o \in DOMAIN orders : ~Blocks(o, s)

\* submit: the exchange takes the order.
Submit(s, lots) ==
  /\ Submittable(s)
  /\ orders' = Append(orders, NewOrder(s, lots, "SUBMITTED", Len(exchange) + 1))
  /\ openOrders' = openOrders \cup {Len(orders) + 1}
  /\ exchange' = Append(exchange, Placed(s, lots))
  /\ UNCHANGED uncertain

\* submit: the exchange refuses, and the caller gets OrderRejected.
SubmitRefused(s, lots) ==
  /\ Submittable(s)
  /\ orders' = Append(orders, NewOrder(s, lots, "REJECTED", NoId))
  /\ UNCHANGED <<openOrders, exchange, uncertain>>

\* submit: the exchange takes the order and the call still raises, a timeout
\* say.  To the manager it is a refusal.
SubmitLost(s, lots) ==
  /\ Submittable(s)
  /\ orders' = Append(orders, NewOrder(s, lots, "REJECTED", NoId))
  /\ exchange' = Append(exchange, Placed(s, lots))
  /\ uncertain' = uncertain \cup {s}
  /\ UNCHANGED openOrders

\* A bug: the status is set before the call that may raise.
BugCancel(o) ==
  /\ orders[o].id # NoId
  /\ orders' = [orders EXCEPT ![o].status = "CANCELLED"]
  /\ exchange' = IF OpenAtExchange(o)
                 THEN [exchange EXCEPT ![orders[o].id].status = "canceled"] ELSE exchange
  /\ UNCHANGED <<openOrders, uncertain>>

\* cancel: whatever the local status says, the exchange decides.  The order
\* stays in _open_orders.
Cancel(o) ==
  /\ OpenAtExchange(o)
  /\ orders' = [orders EXCEPT ![o].status = "CANCELLED"]
  /\ exchange' = [exchange EXCEPT ![orders[o].id].status = "canceled"]
  /\ UNCHANGED <<openOrders, uncertain>>

\* modify: the exchange takes the new quantity; some exchanges do so by
\* cancelling the order and placing another, whose id is not kept.  If the
\* answer is lost the local quantity stays.
Modify(o, lots) ==
  /\ OpenAtExchange(o) /\ lots > exchange[orders[o].id].filled
  /\ orders' \in {orders, [orders EXCEPT ![o].lots = lots]}
  /\ \/ /\ exchange' = [exchange EXCEPT ![orders[o].id].lots = lots]
        /\ UNCHANGED uncertain
     \/ /\ Len(exchange) < MaxOrders
        /\ exchange' = Append([exchange EXCEPT ![orders[o].id].status = "canceled"],
                              Placed(orders[o].signal, lots))
        /\ uncertain' = uncertain \cup {orders[o].signal}
  /\ UNCHANGED openOrders

\* A bug: an order with fills is taken for a filled one.
BugPoll(o) ==
  LET e == exchange[orders[o].id]
  IN  /\ orders[o].id # NoId
      /\ orders' = [orders EXCEPT ![o].status = Mapping(e.status), ![o].filled = e.filled]
      /\ openOrders' = IF e.filled > 0 THEN openOrders \ {o} ELSE openOrders
      /\ UNCHANGED <<exchange, uncertain>>

\* get_order_status: fills that are zero are not copied, and they never shrink.
\* The exchange may leave the status out.
Poll(o) ==
  LET e == exchange[orders[o].id]
  IN  /\ orders[o].id # NoId
      /\ \/ /\ orders' = [orders EXCEPT ![o].status = Mapping(e.status), ![o].filled = e.filled]
            /\ UNCHANGED uncertain
         \/ /\ orders' = [orders EXCEPT ![o].status = "PENDING", ![o].filled = e.filled]
            /\ uncertain' = uncertain \cup {orders[o].signal}
      /\ UNCHANGED <<openOrders, exchange>>

\* close_all for one position: a market order nobody registers.  Whether the
\* exchange takes it or not, it is counted as closed.
ClosePosition(lots) ==
  /\ Len(exchange) < MaxOrders
  /\ exchange' = Append(exchange, Placed(NoSignal, lots))
  /\ UNCHANGED <<orders, openOrders, uncertain>>

\* A bug: _open_orders is shared by all managers and outlives the restart.
BugRestart ==
  /\ orders' = <<>>
  /\ uncertain' = uncertain \cup {s \in Signals : \E e \in DOMAIN exchange : exchange[e].signal = s}
  /\ UNCHANGED <<openOrders, exchange>>

\* The process restarts: the registry is memory only.
Restart ==
  /\ orders' = <<>>
  /\ openOrders' = {}
  /\ uncertain' = uncertain \cup {s \in Signals : \E e \in DOMAIN exchange : exchange[e].signal = s}
  /\ UNCHANGED exchange

-----------------------------------------------------------------------------
(* The exchange. *)

ExchangeFill(e) ==
  /\ exchange[e].status = "open"
  /\ exchange' = [exchange EXCEPT
       ![e].filled = @ + 1,
       ![e].status = IF exchange[e].filled + 1 >= exchange[e].lots THEN "closed" ELSE "open"]
  /\ UNCHANGED <<orders, openOrders, uncertain>>

\* The exchange ends an order by itself, or a cancel went through of which the
\* manager has no answer.
ExchangeEnd(e, status) ==
  /\ exchange[e].status = "open"
  /\ exchange' = [exchange EXCEPT ![e].status = status]
  /\ UNCHANGED <<orders, openOrders, uncertain>>

Next ==
  \/ \E s \in Signals, lots \in Lots :
       Submit(s, lots) \/ SubmitRefused(s, lots) \/ SubmitLost(s, lots)
  \/ \E o \in DOMAIN orders :
       Cancel(o) \/ Poll(o) \/ \E lots \in Lots : Modify(o, lots)
  \/ \E lots \in Lots : ClosePosition(lots)
  \/ \E e \in DOMAIN exchange :
       ExchangeFill(e) \/ \E status \in {"canceled", "rejected", "expired"} : ExchangeEnd(e, status)
  \/ Restart

Spec == Init /\ [][Next]_vars

-----------------------------------------------------------------------------
(* Properties.                                                             *)

TypeOK ==
  /\ orders \in Seq(LocalOrder)
  /\ openOrders \subseteq DOMAIN orders
  /\ exchange \in Seq(ExchangeOrder)
  /\ \A o \in DOMAIN orders : orders[o].id # NoId => orders[o].id \in DOMAIN exchange
  /\ uncertain \subseteq Signals

Live(e) == exchange[e].status \in {"open", "closed"}

SameSignal(e, f) == exchange[e].signal = exchange[f].signal /\ exchange[e].signal # NoSignal

\* As long as the manager has missed nothing of a signal, the exchange never
\* has two orders for it that are open or filled, through any order of fills,
\* cancels, rejections, polls and new attempts.
OneLiveOrderPerSignal ==
  \A e, f \in DOMAIN exchange :
    SameSignal(e, f) /\ exchange[e].signal \notin uncertain /\ Live(e) /\ Live(f) => e = f

\* What the registry holds for final is final on the exchange, and it never
\* counts fills the exchange has not made: a cancel that races a fill cannot
\* leave a cancelled order that is filled.
RegistryTellsTheTruth ==
  \A o \in DOMAIN orders :
    orders[o].id # NoId =>
      LET e == exchange[orders[o].id]
      IN  /\ orders[o].status \in {"FILLED", "CANCELLED", "EXPIRED", "REJECTED"} =>
               orders[o].status = Mapping(e.status)
          /\ orders[o].filled <= e.filled

\* open_orders() covers every order the exchange holds open for a signal of
\* which the manager has missed nothing: whoever cancels them all reaches it.
OpenOrdersAreCovered ==
  \A e \in DOMAIN exchange :
    /\ exchange[e].status = "open"
    /\ exchange[e].signal \in Signals \ uncertain
    => \E o \in openOrders : orders[o].id = e /\ orders[o].signal = exchange[e].signal

(* A claim that does not hold. *)

\* "We maintain a registry of seen client_order_ids to prevent duplicate
\* submission of the same signal" (order_manager.py:4-5).
NoDuplicateSubmission ==
  \A e, f \in DOMAIN exchange : SameSignal(e, f) /\ Live(e) /\ Live(f) => e = f
=============================================================================
