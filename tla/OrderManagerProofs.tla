------------------------- MODULE OrderManagerProofs -------------------------
(***************************************************************************)
(* What the order manager guarantees for every set of signals, every order *)
(* quantity and any number of orders.                                      *)
(*                                                                         *)
(* The argument: an order that is live on the exchange, for a signal of    *)
(* which the manager has missed nothing, has a registry entry that blocks  *)
(* its signal (LiveIsKnown).  So a new attempt finds none live.            *)
(***************************************************************************)
EXTENDS OrderManager, TLAPS

-----------------------------------------------------------------------------
(* Lemmas about sequences.                                                 *)

\* Appending keeps what is there and puts the new element behind it.
LEMMA AppendFacts ==
  ASSUME NEW S, NEW q \in Seq(S), NEW x \in S
  PROVE  /\ Append(q, x) \in Seq(S)
         /\ Len(q) \in Nat
         /\ Len(q) + 1 \notin DOMAIN q
         /\ DOMAIN Append(q, x) = DOMAIN q \cup {Len(q) + 1}
         /\ \A i \in DOMAIN q : Append(q, x)[i] = q[i]
         /\ Append(q, x)[Len(q) + 1] = x
OBVIOUS

\* Replacing an element keeps the others and the domain.
LEMMA ReplaceFacts ==
  ASSUME NEW S, NEW q \in Seq(S), NEW i \in DOMAIN q, NEW x \in S
  PROVE  /\ [q EXCEPT ![i] = x] \in Seq(S)
         /\ DOMAIN [q EXCEPT ![i] = x] = DOMAIN q
         /\ \A j \in DOMAIN q : [q EXCEPT ![i] = x][j] = IF j = i THEN x ELSE q[j]
OBVIOUS

\* An element of a sequence over S is in S.
LEMMA ElementType ==
  ASSUME NEW S, NEW q \in Seq(S), NEW i \in DOMAIN q
  PROVE  q[i] \in S
OBVIOUS

-----------------------------------------------------------------------------
(* Type correctness.                                                       *)

\* What the operators build is an order of the exchange or of the registry.
LEMMA OrderTypes ==
  ASSUME NEW s \in Signals \cup {NoSignal}, NEW lots \in Lots
  PROVE  /\ Placed(s, lots) \in ExchangeOrder
         /\ \A status \in OrderStatus, id \in Nat \cup {NoId} :
              s \in Signals => NewOrder(s, lots, status, id) \in LocalOrder
BY DEF Placed, NewOrder, ExchangeOrder, LocalOrder, ExchangeStatus

\* What the exchange writes into a record keeps it an order.
LEMMA RewriteTypes ==
  ASSUME NEW r \in ExchangeOrder, NEW status \in ExchangeStatus
  PROVE  /\ [r EXCEPT !.status = status] \in ExchangeOrder
         /\ \A lots \in Lots : [r EXCEPT !.lots = lots] \in ExchangeOrder
         /\ [r EXCEPT !.filled = @ + 1, !.status = status] \in ExchangeOrder
<1>1. r.filled \in Nat /\ r.filled + 1 \in Nat
  BY DEF ExchangeOrder
<1>2. /\ [r EXCEPT !.status = status] \in ExchangeOrder
      /\ \A lots \in Lots : [r EXCEPT !.lots = lots] \in ExchangeOrder
  BY DEF ExchangeOrder
<1>3. [r EXCEPT !.filled = @ + 1] \in ExchangeOrder
  BY <1>1 DEF ExchangeOrder
<1>4. \A n \in Nat : [r EXCEPT !.filled = n, !.status = status] \in ExchangeOrder
  BY DEF ExchangeOrder
<1>. QED  BY <1>1, <1>2, <1>4

\* The status map yields a status.
LEMMA MappingType == \A status \in ExchangeStatus : Mapping(status) \in OrderStatus
BY DEF Mapping, ExchangeStatus, OrderStatus

\* What every step does to the exchange's orders: it keeps them, their signal
\* and their fills, and the status of those that are no longer open.
ExchangeMoves(old, new) ==
  /\ new \in Seq(ExchangeOrder)
  /\ DOMAIN old \subseteq DOMAIN new
  /\ \A e \in DOMAIN old :
       /\ new[e].signal = old[e].signal
       /\ new[e].filled >= old[e].filled
       /\ old[e].status # "open" => new[e].status = old[e].status

LEMMA FilledIsNat ==
  ASSUME NEW q \in Seq(ExchangeOrder), NEW e \in DOMAIN q
  PROVE  q[e].filled \in Nat
<1>1. q[e] \in ExchangeOrder
  BY ElementType
<1>. QED  BY <1>1 DEF ExchangeOrder

LEMMA AppendMoves ==
  ASSUME NEW q \in Seq(ExchangeOrder), NEW r \in ExchangeOrder
  PROVE  ExchangeMoves(q, Append(q, r))
<1>1. \A e \in DOMAIN q : q[e].filled \in Nat
  BY FilledIsNat
<1>2. \A n \in Nat : n >= n
  OBVIOUS
<1> DEFINE a == Append(q, r)
<1>3. a \in Seq(ExchangeOrder) /\ DOMAIN q \subseteq DOMAIN a /\ \A e \in DOMAIN q : a[e] = q[e]
  BY AppendFacts
<1>. HIDE DEF a
<1>4. ExchangeMoves(q, a)
  BY <1>1, <1>2, <1>3 DEF ExchangeMoves
<1>. QED  BY <1>4 DEF a

LEMMA ReplaceMoves ==
  ASSUME NEW q \in Seq(ExchangeOrder), NEW e \in DOMAIN q, NEW y \in ExchangeOrder,
         y.signal = q[e].signal, y.filled >= q[e].filled,
         q[e].status = "open" \/ y.status = q[e].status
  PROVE  ExchangeMoves(q, [q EXCEPT ![e] = y])
<1>1. \A f \in DOMAIN q : q[f].filled \in Nat
  BY FilledIsNat
<1>2. \A n \in Nat : n >= n
  OBVIOUS
<1> DEFINE a == [q EXCEPT ![e] = y]
<1>3. /\ a \in Seq(ExchangeOrder) /\ DOMAIN a = DOMAIN q
      /\ \A f \in DOMAIN q : a[f] = IF f = e THEN y ELSE q[f]
  BY ReplaceFacts
<1>. HIDE DEF a
<1>4. ExchangeMoves(q, a)
  BY <1>1, <1>2, <1>3 DEF ExchangeMoves
<1>. QED  BY <1>4 DEF a

\* The three ways a step rewrites a record.
LEMMA RewriteMoves ==
  ASSUME NEW q \in Seq(ExchangeOrder), NEW e \in DOMAIN q, q[e].status = "open",
         NEW status \in ExchangeStatus
  PROVE  /\ ExchangeMoves(q, [q EXCEPT ![e].status = status])
         /\ \A lots \in Lots : ExchangeMoves(q, [q EXCEPT ![e].lots = lots])
         /\ ExchangeMoves(q, [q EXCEPT ![e].filled = @ + 1, ![e].status = status])
<1> DEFINE r == q[e]
<1>1. r \in ExchangeOrder
  BY ElementType
<1>2. r.filled \in Nat /\ r.filled + 1 >= r.filled /\ r.filled >= r.filled
  BY <1>1 DEF ExchangeOrder
<1>3. ExchangeMoves(q, [q EXCEPT ![e] = [r EXCEPT !.status = status]])
  <2>1. [r EXCEPT !.status = status] \in ExchangeOrder
    BY <1>1, RewriteTypes
  <2>2. /\ [r EXCEPT !.status = status].signal = r.signal
        /\ [r EXCEPT !.status = status].filled = r.filled
    BY <1>1 DEF ExchangeOrder
  <2>. QED  BY <1>2, <2>1, <2>2, ReplaceMoves
<1>4. ASSUME NEW lots \in Lots
      PROVE  ExchangeMoves(q, [q EXCEPT ![e] = [r EXCEPT !.lots = lots]])
  <2>1. [r EXCEPT !.lots = lots] \in ExchangeOrder
    BY <1>1, RewriteTypes
  <2>2. /\ [r EXCEPT !.lots = lots].signal = r.signal
        /\ [r EXCEPT !.lots = lots].filled = r.filled
    BY <1>1 DEF ExchangeOrder
  <2>. QED  BY <1>2, <2>1, <2>2, ReplaceMoves
<1>5. ExchangeMoves(q, [q EXCEPT ![e] = [r EXCEPT !.filled = @ + 1, !.status = status]])
  <2>1. [r EXCEPT !.filled = @ + 1, !.status = status] \in ExchangeOrder
    BY <1>1, RewriteTypes
  <2>2. /\ [r EXCEPT !.filled = @ + 1, !.status = status].signal = r.signal
        /\ [r EXCEPT !.filled = @ + 1, !.status = status].filled = r.filled + 1
    BY <1>1 DEF ExchangeOrder
  <2>. QED  BY <1>2, <2>1, <2>2, ReplaceMoves
<1>. QED  BY <1>3, <1>4, <1>5

-----------------------------------------------------------------------------
(* What each action does to the exchange, and its type.                    *)

LEMMA SubmitMoves ==
  ASSUME TypeOK, NEW s \in Signals, NEW lots \in Lots, Submit(s, lots) \/ SubmitLost(s, lots)
  PROVE  ExchangeMoves(exchange, exchange')
<1>1. exchange' = Append(exchange, Placed(s, lots)) /\ exchange \in Seq(ExchangeOrder)
  BY DEF Submit, SubmitLost, TypeOK
<1>2. Placed(s, lots) \in ExchangeOrder
  BY OrderTypes
<1>. QED  BY <1>1, <1>2, AppendMoves

LEMMA CancelMoves ==
  ASSUME TypeOK, NEW o \in DOMAIN orders, Cancel(o)
  PROVE  ExchangeMoves(exchange, exchange')
<1>1. /\ exchange \in Seq(ExchangeOrder) /\ orders[o].id \in DOMAIN exchange
      /\ exchange[orders[o].id].status = "open"
      /\ exchange' = [exchange EXCEPT ![orders[o].id].status = "canceled"]
  BY DEF Cancel, OpenAtExchange, TypeOK
<1>2. "canceled" \in ExchangeStatus
  BY DEF ExchangeStatus
<1>. QED  BY <1>1, <1>2, RewriteMoves

LEMMA ModifyMoves ==
  ASSUME TypeOK, NEW o \in DOMAIN orders, NEW lots \in Lots, Modify(o, lots)
  PROVE  /\ ExchangeMoves(exchange, exchange')
         /\ \/ DOMAIN exchange' = DOMAIN exchange
            \/ /\ orders[o].signal \in uncertain'
               /\ \A e \in DOMAIN exchange' \ DOMAIN exchange :
                    exchange'[e].signal = orders[o].signal
<1> DEFINE id == orders[o].id
           canceled == [exchange EXCEPT ![id].status = "canceled"]
           new == Placed(orders[o].signal, lots)
<1>1. /\ exchange \in Seq(ExchangeOrder) /\ id \in DOMAIN exchange
      /\ exchange[id].status = "open"
  BY DEF Modify, OpenAtExchange, TypeOK
<1>2. CASE exchange' = [exchange EXCEPT ![id].lots = lots]
  <2>1. ExchangeMoves(exchange, exchange')
    BY <1>1, <1>2, RewriteMoves DEF ExchangeStatus
  <2>. QED  BY <1>2, <2>1
<1>3. CASE /\ exchange' = Append(canceled, new)
           /\ uncertain' = uncertain \cup {orders[o].signal}
  <2>1. ExchangeMoves(exchange, canceled) /\ DOMAIN canceled = DOMAIN exchange
    BY <1>1, RewriteMoves DEF ExchangeStatus
  <2>2. new \in ExchangeOrder /\ new.signal = orders[o].signal
    <3>1. orders[o] \in LocalOrder
      BY ElementType DEF TypeOK
    <3>. QED  BY <3>1, OrderTypes DEF LocalOrder, Placed
  <2>. HIDE DEF canceled, new
  <2>3. canceled \in Seq(ExchangeOrder)
    BY <2>1 DEF ExchangeMoves
  <2>4. /\ exchange' \in Seq(ExchangeOrder)
        /\ DOMAIN exchange' = DOMAIN exchange \cup {Len(canceled) + 1}
        /\ \A e \in DOMAIN exchange : exchange'[e] = canceled[e]
        /\ exchange'[Len(canceled) + 1] = new
    BY <1>3, <2>1, <2>2, <2>3, AppendFacts
  <2>5. ExchangeMoves(exchange, exchange')
    BY <2>1, <2>4 DEF ExchangeMoves
  <2>. QED  BY <1>3, <2>2, <2>4, <2>5
<1>. QED  BY <1>2, <1>3 DEF Modify

LEMMA CloseMoves ==
  ASSUME TypeOK, NEW lots \in Lots, ClosePosition(lots)
  PROVE  /\ ExchangeMoves(exchange, exchange')
         /\ \A e \in DOMAIN exchange' \ DOMAIN exchange : exchange'[e].signal = NoSignal
<1>1. exchange' = Append(exchange, Placed(NoSignal, lots)) /\ exchange \in Seq(ExchangeOrder)
  BY DEF ClosePosition, TypeOK
<1>2. Placed(NoSignal, lots) \in ExchangeOrder /\ Placed(NoSignal, lots).signal = NoSignal
  BY OrderTypes DEF Placed
<1>3. ExchangeMoves(exchange, exchange')
  BY <1>1, <1>2, AppendMoves
<1>. QED  BY <1>1, <1>2, <1>3, AppendFacts

LEMMA ExchangeActionMoves ==
  ASSUME TypeOK, NEW e \in DOMAIN exchange,
         ExchangeFill(e) \/ \E status \in {"canceled", "rejected", "expired"} : ExchangeEnd(e, status)
  PROVE  ExchangeMoves(exchange, exchange') /\ DOMAIN exchange' = DOMAIN exchange
<1>1. exchange \in Seq(ExchangeOrder)
  BY DEF TypeOK
<1>2. CASE ExchangeFill(e)
  <2> DEFINE status == IF exchange[e].filled + 1 >= exchange[e].lots THEN "closed" ELSE "open"
  <2>1. status \in ExchangeStatus
    BY DEF ExchangeStatus
  <2>2. exchange' = [exchange EXCEPT ![e].filled = @ + 1, ![e].status = status]
    BY <1>2 DEF ExchangeFill
  <2>3. exchange[e].status = "open"
    BY <1>2 DEF ExchangeFill
  <2>. HIDE DEF status
  <2>. QED  BY <1>1, <2>1, <2>2, <2>3, RewriteMoves
<1>3. ASSUME NEW status \in {"canceled", "rejected", "expired"}, ExchangeEnd(e, status)
      PROVE  ExchangeMoves(exchange, exchange') /\ DOMAIN exchange' = DOMAIN exchange
  <2>1. /\ exchange[e].status = "open" /\ status \in ExchangeStatus
        /\ exchange' = [exchange EXCEPT ![e].status = status]
    BY <1>3 DEF ExchangeEnd, ExchangeStatus
  <2>. QED  BY <1>1, <2>1, RewriteMoves
<1>. QED  BY <1>2, <1>3

-----------------------------------------------------------------------------
(* Type correctness.                                                       *)

\* One rewritten record of the registry.
LEMMA LocalRewrite ==
  ASSUME TypeOK, NEW o \in DOMAIN orders, NEW status \in OrderStatus, NEW lots \in Lots,
         NEW filled \in Nat
  PROVE  /\ [orders[o] EXCEPT !.status = status] \in LocalOrder
         /\ [orders[o] EXCEPT !.lots = lots] \in LocalOrder
         /\ [orders[o] EXCEPT !.status = status, !.filled = filled] \in LocalOrder
<1>1. orders[o] \in LocalOrder
  BY ElementType DEF TypeOK
<1>. QED  BY <1>1 DEF LocalOrder

\* The registry keeps, for every order it had, its signal and its exchange id.
RegistryMoves(old, new) ==
  /\ new \in Seq(LocalOrder)
  /\ DOMAIN new = DOMAIN old
  /\ \A o \in DOMAIN old : new[o].signal = old[o].signal /\ new[o].id = old[o].id

LEMMA CancelRegistry ==
  ASSUME TypeOK, NEW o \in DOMAIN orders, Cancel(o)
  PROVE  /\ RegistryMoves(orders, orders')
         /\ orders'[o].status = "CANCELLED"
         /\ \A p \in DOMAIN orders : p # o => orders'[p] = orders[p]
         /\ orders'[o].filled = orders[o].filled
<1> DEFINE y == [orders[o] EXCEPT !.status = "CANCELLED"]
<1>1. orders \in Seq(LocalOrder) /\ orders[o] \in LocalOrder
  BY ElementType DEF TypeOK
<1>2. /\ y \in LocalOrder /\ y.status = "CANCELLED" /\ y.filled = orders[o].filled
      /\ y.signal = orders[o].signal /\ y.id = orders[o].id
  BY <1>1 DEF LocalOrder, OrderStatus
<1>3. orders' = [orders EXCEPT ![o] = y]
  BY DEF Cancel
<1>. HIDE DEF y
<1>. QED  BY <1>1, <1>2, <1>3, ReplaceFacts DEF RegistryMoves

LEMMA ModifyRegistry ==
  ASSUME TypeOK, NEW o \in DOMAIN orders, NEW lots \in Lots, Modify(o, lots)
  PROVE  /\ RegistryMoves(orders, orders')
         /\ \A p \in DOMAIN orders :
              orders'[p].status = orders[p].status /\ orders'[p].filled = orders[p].filled
<1> DEFINE y == [orders[o] EXCEPT !.lots = lots]
<1>1. orders \in Seq(LocalOrder) /\ orders[o] \in LocalOrder
  BY ElementType DEF TypeOK
<1>2. /\ y \in LocalOrder /\ y.status = orders[o].status /\ y.filled = orders[o].filled
      /\ y.signal = orders[o].signal /\ y.id = orders[o].id
  BY <1>1 DEF LocalOrder
<1>3. orders' = orders \/ orders' = [orders EXCEPT ![o] = y]
  BY DEF Modify
<1>. HIDE DEF y
<1>. QED  BY <1>1, <1>2, <1>3, ReplaceFacts DEF RegistryMoves

LEMMA PollRegistry ==
  ASSUME TypeOK, NEW o \in DOMAIN orders, Poll(o)
  PROVE  /\ orders[o].id \in DOMAIN exchange
         /\ RegistryMoves(orders, orders')
         /\ \A p \in DOMAIN orders : p # o => orders'[p] = orders[p]
         /\ orders'[o].filled = exchange[orders[o].id].filled
         /\ \/ /\ orders'[o].status = Mapping(exchange[orders[o].id].status)
               /\ uncertain' = uncertain
            \/ /\ orders'[o].status = "PENDING"
               /\ uncertain' = uncertain \cup {orders[o].signal}
<1> DEFINE e == exchange[orders[o].id]
           polled(status) == [orders[o] EXCEPT !.status = status, !.filled = e.filled]
<1>1. orders \in Seq(LocalOrder) /\ orders[o] \in LocalOrder
  BY ElementType DEF TypeOK
<1>2. orders[o].id \in DOMAIN exchange /\ exchange \in Seq(ExchangeOrder)
  BY DEF Poll, TypeOK
<1>3. e \in ExchangeOrder
  BY <1>2, ElementType
<1>4. e.filled \in Nat /\ e.status \in ExchangeStatus
  BY <1>3 DEF ExchangeOrder
<1>. HIDE DEF e
<1>5. Mapping(e.status) \in OrderStatus /\ "PENDING" \in OrderStatus
  BY <1>4, MappingType DEF OrderStatus
<1>6. \A status \in OrderStatus :
        /\ polled(status) \in LocalOrder
        /\ polled(status).status = status /\ polled(status).filled = e.filled
        /\ polled(status).signal = orders[o].signal /\ polled(status).id = orders[o].id
  BY <1>1, <1>4 DEF LocalOrder
<1>7. \/ orders' = [orders EXCEPT ![o] = polled(Mapping(e.status))] /\ uncertain' = uncertain
      \/ /\ orders' = [orders EXCEPT ![o] = polled("PENDING")]
         /\ uncertain' = uncertain \cup {orders[o].signal}
  BY DEF Poll, e
<1>. HIDE DEF polled
<1>8. CASE orders' = [orders EXCEPT ![o] = polled(Mapping(e.status))] /\ uncertain' = uncertain
  <2>1. /\ RegistryMoves(orders, orders')
        /\ \A p \in DOMAIN orders : p # o => orders'[p] = orders[p]
        /\ orders'[o] = polled(Mapping(e.status))
    BY <1>1, <1>5, <1>6, <1>8, ReplaceFacts DEF RegistryMoves
  <2>. QED  BY <1>2, <1>5, <1>6, <1>8, <2>1 DEF e
<1>9. CASE /\ orders' = [orders EXCEPT ![o] = polled("PENDING")]
           /\ uncertain' = uncertain \cup {orders[o].signal}
  <2>1. /\ RegistryMoves(orders, orders')
        /\ \A p \in DOMAIN orders : p # o => orders'[p] = orders[p]
        /\ orders'[o] = polled("PENDING")
    BY <1>1, <1>5, <1>6, <1>9, ReplaceFacts DEF RegistryMoves
  <2>. QED  BY <1>2, <1>5, <1>6, <1>9, <2>1 DEF e
<1>. QED  BY <1>7, <1>8, <1>9

\* The registry's typing survives when the exchange moves and the registry
\* keeps its ids.
LEMMA RegistryType ==
  ASSUME TypeOK, RegistryMoves(orders, orders'), ExchangeMoves(exchange, exchange'),
         openOrders' = openOrders, uncertain' \subseteq Signals
  PROVE  TypeOK'
BY DEF TypeOK, RegistryMoves, ExchangeMoves

LEMMA Unmoved ==
  ASSUME TypeOK
  PROVE  ExchangeMoves(exchange, exchange) /\ RegistryMoves(orders, orders)
<1>1. \A e \in DOMAIN exchange : exchange[e].filled \in Nat
  BY FilledIsNat DEF TypeOK
<1>2. \A n \in Nat : n >= n
  OBVIOUS
<1>. QED  BY <1>1, <1>2 DEF ExchangeMoves, RegistryMoves, TypeOK

\* A new entry goes behind the others, under an id that the exchange knows.
LEMMA NewEntry ==
  ASSUME TypeOK, NEW r \in LocalOrder, orders' = Append(orders, r),
         ExchangeMoves(exchange, exchange'), r.id # NoId => r.id \in DOMAIN exchange',
         openOrders' \subseteq openOrders \cup {Len(orders) + 1}, uncertain' \subseteq Signals
  PROVE  TypeOK'
<1>1. /\ orders' \in Seq(LocalOrder)
      /\ DOMAIN orders' = DOMAIN orders \cup {Len(orders) + 1}
      /\ \A o \in DOMAIN orders : orders'[o] = orders[o]
      /\ orders'[Len(orders) + 1] = r
  BY AppendFacts DEF TypeOK
<1>. QED  BY <1>1 DEF TypeOK, ExchangeMoves

LEMMA TypeStep == TypeOK /\ [Next]_vars => TypeOK'
<1> SUFFICES ASSUME TypeOK, [Next]_vars PROVE TypeOK'
  OBVIOUS
<1>1. ASSUME NEW s \in Signals, NEW lots \in Lots, Submit(s, lots)
      PROVE  TypeOK'
  <2> DEFINE r == NewOrder(s, lots, "SUBMITTED", Len(exchange) + 1)
  <2>1. /\ orders' = Append(orders, r) /\ exchange' = Append(exchange, Placed(s, lots))
        /\ openOrders' = openOrders \cup {Len(orders) + 1} /\ uncertain' = uncertain
    BY <1>1 DEF Submit
  <2>2. Placed(s, lots) \in ExchangeOrder
    BY OrderTypes
  <2>3. exchange \in Seq(ExchangeOrder) /\ uncertain \subseteq Signals
    BY DEF TypeOK
  <2>4. Len(exchange) + 1 \in Nat /\ Len(exchange) + 1 \in DOMAIN exchange'
    BY <2>1, <2>2, <2>3, AppendFacts
  <2>5. r \in LocalOrder
    BY <2>4, OrderTypes DEF OrderStatus
  <2>6. r.id = Len(exchange) + 1
    BY DEF NewOrder
  <2>7. ExchangeMoves(exchange, exchange')
    BY <1>1, SubmitMoves
  <2>. HIDE DEF r
  <2>. QED  BY <2>1, <2>3, <2>4, <2>5, <2>6, <2>7, NewEntry
<1>2. ASSUME NEW s \in Signals, NEW lots \in Lots, SubmitRefused(s, lots) \/ SubmitLost(s, lots)
      PROVE  TypeOK'
  <2> DEFINE r == NewOrder(s, lots, "REJECTED", NoId)
  <2>1. orders' = Append(orders, r) /\ openOrders' = openOrders /\ uncertain' \subseteq Signals
    BY <1>2 DEF SubmitRefused, SubmitLost, TypeOK
  <2>2. r \in LocalOrder
    BY OrderTypes DEF OrderStatus
  <2>3. r.id = NoId
    BY DEF NewOrder
  <2>4. ExchangeMoves(exchange, exchange')
    BY <1>2, SubmitMoves, Unmoved DEF SubmitRefused
  <2>. HIDE DEF r
  <2>. QED  BY <2>1, <2>2, <2>3, <2>4, NewEntry
<1>3. ASSUME NEW o \in DOMAIN orders, Cancel(o)
      PROVE  TypeOK'
  BY <1>3, CancelMoves, CancelRegistry, RegistryType DEF Cancel, TypeOK
<1>4. ASSUME NEW o \in DOMAIN orders, Poll(o)
      PROVE  TypeOK'
  <2>1. orders[o].signal \in Signals
    <3>1. orders[o] \in LocalOrder
      BY ElementType DEF TypeOK
    <3>. QED  BY <3>1 DEF LocalOrder
  <2>2. openOrders' = openOrders /\ exchange' = exchange
    BY <1>4 DEF Poll
  <2>3. uncertain' \subseteq Signals
    BY <1>4, <2>1, PollRegistry DEF TypeOK
  <2>. QED  BY <1>4, <2>2, <2>3, PollRegistry, Unmoved, RegistryType
<1>5. ASSUME NEW o \in DOMAIN orders, NEW lots \in Lots, Modify(o, lots)
      PROVE  TypeOK'
  <2>1. orders[o].signal \in Signals
    <3>1. orders[o] \in LocalOrder
      BY ElementType DEF TypeOK
    <3>. QED  BY <3>1 DEF LocalOrder
  <2>2. openOrders' = openOrders /\ uncertain' \subseteq Signals
    BY <1>5, <2>1 DEF Modify, TypeOK
  <2>. QED  BY <1>5, <2>2, ModifyMoves, ModifyRegistry, RegistryType
<1>6. ASSUME NEW lots \in Lots, ClosePosition(lots)
      PROVE  TypeOK'
  <2>1. UNCHANGED <<orders, openOrders, uncertain>> /\ uncertain \subseteq Signals
    BY <1>6 DEF ClosePosition, TypeOK
  <2>. QED  BY <1>6, <2>1, CloseMoves, Unmoved, RegistryType
<1>7. ASSUME NEW e \in DOMAIN exchange,
             ExchangeFill(e) \/ \E status \in {"canceled", "rejected", "expired"} : ExchangeEnd(e, status)
      PROVE  TypeOK'
  <2>1. UNCHANGED <<orders, openOrders, uncertain>> /\ uncertain \subseteq Signals
    BY <1>7 DEF ExchangeFill, ExchangeEnd, TypeOK
  <2>. QED  BY <1>7, <2>1, ExchangeActionMoves, Unmoved, RegistryType
<1>8. CASE Restart
  BY <1>8 DEF Restart, TypeOK
<1>9. CASE UNCHANGED vars
  BY <1>9 DEF vars, TypeOK
<1>. QED  BY <1>1, <1>2, <1>3, <1>4, <1>5, <1>6, <1>7, <1>8, <1>9 DEF Next

LEMMA TypeInit == Init => TypeOK
BY DEF Init, TypeOK

\* The registry and the exchange's book are well formed, and every exchange id
\* in the registry names an order of the exchange.
THEOREM TypeCorrect == Spec => []TypeOK
BY TypeInit, TypeStep, PTL DEF Spec

-----------------------------------------------------------------------------
(* The inductive invariant.                                                *)

\* An entry and the exchange's order it names are of one signal.
SignalsAgree ==
  \A o \in DOMAIN orders : orders[o].id # NoId => orders[o].signal = exchange[orders[o].id].signal

Known(e, o) ==
  /\ orders[o].id = e
  /\ orders[o].status \in {"SUBMITTED", "FILLED"}
  /\ exchange[e].status = "open" => o \in openOrders

\* A live order of a signal of which nothing was missed has an entry that
\* blocks the signal, and that is among the open orders while it is open.
LiveIsKnown ==
  \A e \in DOMAIN exchange :
    exchange[e].signal \in Signals \ uncertain /\ Live(e) => \E o \in DOMAIN orders : Known(e, o)

IInv == TypeOK /\ SignalsAgree /\ RegistryTellsTheTruth /\ LiveIsKnown /\ OneLiveOrderPerSignal

LEMMA OpenIsNotFinal == Mapping("open") = "SUBMITTED"
BY DEF Mapping

\* Steps that leave statuses and fills in the registry alone.
LEMMA QuietRegistry ==
  ASSUME TypeOK, SignalsAgree, RegistryTellsTheTruth,
         RegistryMoves(orders, orders'), ExchangeMoves(exchange, exchange'),
         \A p \in DOMAIN orders :
           orders'[p].status = orders[p].status /\ orders'[p].filled = orders[p].filled
  PROVE  SignalsAgree' /\ RegistryTellsTheTruth'
<1> SUFFICES ASSUME NEW o \in DOMAIN orders', orders'[o].id # NoId
             PROVE  /\ orders'[o].signal = exchange'[orders'[o].id].signal
                    /\ orders'[o].status \in {"FILLED", "CANCELLED", "EXPIRED", "REJECTED"} =>
                         orders'[o].status = Mapping(exchange'[orders'[o].id].status)
                    /\ orders'[o].filled <= exchange'[orders'[o].id].filled
  BY DEF SignalsAgree, RegistryTellsTheTruth
<1> DEFINE id == orders[o].id
<1>1. /\ o \in DOMAIN orders /\ orders'[o].id = id /\ orders'[o].signal = orders[o].signal
      /\ orders'[o].status = orders[o].status /\ orders'[o].filled = orders[o].filled
  BY DEF RegistryMoves
<1>2. id \in DOMAIN exchange
  BY <1>1 DEF TypeOK
<1>3. /\ exchange'[id].signal = exchange[id].signal
      /\ exchange'[id].filled >= exchange[id].filled
      /\ exchange[id].status # "open" => exchange'[id].status = exchange[id].status
  BY <1>2 DEF ExchangeMoves
<1>4. /\ orders[o].signal = exchange[id].signal
      /\ orders[o].status \in {"FILLED", "CANCELLED", "EXPIRED", "REJECTED"} =>
           orders[o].status = Mapping(exchange[id].status)
      /\ orders[o].filled <= exchange[id].filled
  BY <1>1 DEF SignalsAgree, RegistryTellsTheTruth
<1>5. orders[o].filled \in Nat /\ exchange[id].filled \in Nat /\ exchange'[id].filled \in Nat
  <2>1. orders[o] \in LocalOrder
    BY <1>1, ElementType DEF TypeOK
  <2>2. exchange' \in Seq(ExchangeOrder) /\ id \in DOMAIN exchange'
    BY <1>2 DEF ExchangeMoves
  <2>. QED  BY <1>2, <2>1, <2>2, FilledIsNat DEF LocalOrder, TypeOK
<1>6. orders[o].status \in {"FILLED", "CANCELLED", "EXPIRED", "REJECTED"} =>
        exchange[id].status # "open"
  BY <1>4, OpenIsNotFinal
<1>7. orders[o].filled <= exchange'[id].filled
  BY <1>3, <1>4, <1>5
<1>. HIDE DEF id
<1>. QED  BY <1>1, <1>3, <1>4, <1>6, <1>7

\* Steps that bring no order the manager believes to be new.
Unsubmitted ==
  /\ ExchangeMoves(exchange, exchange')
  /\ uncertain \subseteq uncertain'
  /\ \A e \in DOMAIN exchange' \ DOMAIN exchange : exchange'[e].signal \in uncertain' \cup {NoSignal}

\* An order that is live after a step was live before it, or is new.
LEMMA StillLive ==
  ASSUME ExchangeMoves(exchange, exchange'), NEW e \in DOMAIN exchange, Live(e)'
  PROVE  /\ Live(e)
         /\ exchange'[e].signal = exchange[e].signal
         /\ exchange'[e].status = "open" => exchange[e].status = "open"
BY DEF ExchangeMoves, Live

LEMMA QuietUniqueness ==
  ASSUME OneLiveOrderPerSignal, Unsubmitted
  PROVE  OneLiveOrderPerSignal'
<1> SUFFICES ASSUME NEW e \in DOMAIN exchange', NEW f \in DOMAIN exchange',
                    SameSignal(e, f)', exchange'[e].signal \notin uncertain', Live(e)', Live(f)'
             PROVE  e = f
  BY DEF OneLiveOrderPerSignal
<1>1. e \in DOMAIN exchange /\ f \in DOMAIN exchange
  BY DEF Unsubmitted, SameSignal
<1>2. /\ Live(e) /\ Live(f)
      /\ exchange'[e].signal = exchange[e].signal /\ exchange'[f].signal = exchange[f].signal
  BY <1>1, StillLive DEF Unsubmitted
<1>. QED  BY <1>1, <1>2 DEF OneLiveOrderPerSignal, SameSignal, Unsubmitted

LEMMA QuietKnowledge ==
  ASSUME LiveIsKnown, Unsubmitted, RegistryMoves(orders, orders'), openOrders' = openOrders,
         \A p \in DOMAIN orders : orders'[p].status = orders[p].status
  PROVE  LiveIsKnown'
<1> SUFFICES ASSUME NEW e \in DOMAIN exchange', exchange'[e].signal \in Signals \ uncertain', Live(e)'
             PROVE  \E o \in DOMAIN orders' : Known(e, o)'
  BY DEF LiveIsKnown
<1>1. e \in DOMAIN exchange
  BY SignalsAssumption DEF Unsubmitted
<1>2. /\ Live(e) /\ exchange'[e].signal = exchange[e].signal
      /\ exchange'[e].status = "open" => exchange[e].status = "open"
  BY <1>1, StillLive DEF Unsubmitted
<1>3. PICK o \in DOMAIN orders : Known(e, o)
  BY <1>1, <1>2 DEF LiveIsKnown, Unsubmitted
<1>. QED  BY <1>2, <1>3 DEF Known, RegistryMoves

-----------------------------------------------------------------------------
(* Every step preserves it.                                                *)

\* A new entry that is submitted, or has no exchange id.
LEMMA NewEntryTells ==
  ASSUME TypeOK, SignalsAgree, RegistryTellsTheTruth, NEW r \in LocalOrder,
         orders' = Append(orders, r), ExchangeMoves(exchange, exchange'),
         r.id # NoId =>
           /\ r.status = "SUBMITTED" /\ r.filled = 0 /\ r.id \in DOMAIN exchange'
           /\ r.signal = exchange'[r.id].signal
  PROVE  SignalsAgree' /\ RegistryTellsTheTruth'
<1> DEFINE n == Len(orders) + 1
<1>1. /\ DOMAIN orders' = DOMAIN orders \cup {n}
      /\ \A o \in DOMAIN orders : orders'[o] = orders[o]
      /\ orders'[n] = r
  BY AppendFacts DEF TypeOK
<1>. HIDE DEF n
<1> SUFFICES ASSUME NEW o \in DOMAIN orders', orders'[o].id # NoId
             PROVE  /\ orders'[o].signal = exchange'[orders'[o].id].signal
                    /\ orders'[o].status \in {"FILLED", "CANCELLED", "EXPIRED", "REJECTED"} =>
                         orders'[o].status = Mapping(exchange'[orders'[o].id].status)
                    /\ orders'[o].filled <= exchange'[orders'[o].id].filled
  BY DEF SignalsAgree, RegistryTellsTheTruth
<1>2. CASE o \in DOMAIN orders
  <2> DEFINE id == orders[o].id
  <2>1. orders'[o] = orders[o] /\ id \in DOMAIN exchange
    BY <1>1, <1>2 DEF TypeOK
  <2>2. /\ exchange'[id].signal = exchange[id].signal
        /\ exchange'[id].filled >= exchange[id].filled
        /\ exchange[id].status # "open" => exchange'[id].status = exchange[id].status
    BY <2>1 DEF ExchangeMoves
  <2>3. /\ orders[o].signal = exchange[id].signal
        /\ orders[o].status \in {"FILLED", "CANCELLED", "EXPIRED", "REJECTED"} =>
             orders[o].status = Mapping(exchange[id].status)
        /\ orders[o].filled <= exchange[id].filled
    BY <1>2, <2>1 DEF SignalsAgree, RegistryTellsTheTruth
  <2>4. orders[o].filled \in Nat /\ exchange[id].filled \in Nat /\ exchange'[id].filled \in Nat
    <3>1. orders[o] \in LocalOrder
      BY <1>2, ElementType DEF TypeOK
    <3>2. exchange' \in Seq(ExchangeOrder) /\ id \in DOMAIN exchange'
      BY <2>1 DEF ExchangeMoves
    <3>. QED  BY <2>1, <3>1, <3>2, FilledIsNat DEF LocalOrder, TypeOK
  <2>5. orders[o].filled <= exchange'[id].filled
    BY <2>2, <2>3, <2>4
  <2>. HIDE DEF id
  <2>6. orders[o].status \in {"FILLED", "CANCELLED", "EXPIRED", "REJECTED"} =>
          exchange[id].status # "open"
    BY <2>3, OpenIsNotFinal
  <2>. QED  BY <2>1, <2>2, <2>3, <2>5, <2>6 DEF id
<1>3. CASE o = n
  <2>1. /\ r.status = "SUBMITTED" /\ r.filled = 0 /\ r.id \in DOMAIN exchange'
        /\ r.signal = exchange'[r.id].signal /\ orders'[o] = r
    BY <1>1, <1>3
  <2>2. exchange'[r.id].filled \in Nat
    BY <2>1, FilledIsNat DEF ExchangeMoves
  <2>. QED  BY <2>1, <2>2
<1>. QED  BY <1>1, <1>2, <1>3

LEMMA SubmitStep ==
  ASSUME IInv, TypeOK', NEW s \in Signals, NEW lots \in Lots, Submit(s, lots)
  PROVE  IInv'
<1> USE DEF IInv
<1> DEFINE r == NewOrder(s, lots, "SUBMITTED", Len(exchange) + 1)
           new == Len(exchange) + 1
           n == Len(orders) + 1
<1>1. /\ orders' = Append(orders, r) /\ exchange' = Append(exchange, Placed(s, lots))
      /\ openOrders' = openOrders \cup {n} /\ uncertain' = uncertain
      /\ \A o \in DOMAIN orders : ~Blocks(o, s)
  BY DEF Submit, Submittable
<1>2. Placed(s, lots) \in ExchangeOrder /\ exchange \in Seq(ExchangeOrder) /\ orders \in Seq(LocalOrder)
  BY OrderTypes DEF TypeOK
<1>3. /\ DOMAIN exchange' = DOMAIN exchange \cup {new} /\ new \notin DOMAIN exchange
      /\ \A e \in DOMAIN exchange : exchange'[e] = exchange[e]
      /\ exchange'[new] = Placed(s, lots) /\ new \in Nat
  BY <1>1, <1>2, AppendFacts
<1>4. r \in LocalOrder
  BY <1>3, OrderTypes DEF OrderStatus
<1>5. /\ DOMAIN orders' = DOMAIN orders \cup {n} /\ n \notin DOMAIN orders
      /\ \A o \in DOMAIN orders : orders'[o] = orders[o]
      /\ orders'[n] = r
  BY <1>1, <1>2, <1>4, AppendFacts
<1>6. /\ r.signal = s /\ r.status = "SUBMITTED" /\ r.id = new /\ r.filled = 0
      /\ Placed(s, lots).signal = s /\ Placed(s, lots).status = "open"
  BY DEF NewOrder, Placed
<1>7. ExchangeMoves(exchange, exchange')
  BY SubmitMoves
<1>. HIDE DEF r, new, n
<1>8. SignalsAgree' /\ RegistryTellsTheTruth'
  BY <1>1, <1>3, <1>4, <1>6, <1>7, NewEntryTells
<1>9. LiveIsKnown'
  <2> SUFFICES ASSUME NEW e \in DOMAIN exchange', exchange'[e].signal \in Signals \ uncertain', Live(e)'
               PROVE  \E o \in DOMAIN orders' : Known(e, o)'
    BY DEF LiveIsKnown
  <2>1. CASE e = new
    BY <1>1, <1>5, <1>6, <2>1 DEF Known
  <2>2. CASE e \in DOMAIN exchange
    <3>1. PICK o \in DOMAIN orders : Known(e, o)
      BY <1>1, <1>3, <2>2 DEF LiveIsKnown, Live
    <3>. QED  BY <1>1, <1>3, <1>5, <2>2, <3>1 DEF Known
  <2>. QED  BY <1>3, <2>1, <2>2
<1>10. \A e \in DOMAIN exchange : exchange[e].signal = s /\ s \notin uncertain => ~Live(e)
  <2> SUFFICES ASSUME NEW e \in DOMAIN exchange, exchange[e].signal = s, s \notin uncertain, Live(e)
               PROVE  FALSE
    OBVIOUS
  <2>1. PICK o \in DOMAIN orders : Known(e, o)
    BY DEF LiveIsKnown
  <2>2. e # NoId
    BY <1>2, SignalsAssumption
  <2>3. orders[o].signal = s
    BY <2>1, <2>2 DEF Known, SignalsAgree
  <2>. QED  BY <1>1, <2>1, <2>3 DEF Known, Blocks
<1>11. OneLiveOrderPerSignal'
  <2> SUFFICES ASSUME NEW e \in DOMAIN exchange', NEW f \in DOMAIN exchange',
                      SameSignal(e, f)', exchange'[e].signal \notin uncertain', Live(e)', Live(f)'
               PROVE  e = f
    BY DEF OneLiveOrderPerSignal
  <2>1. CASE e \in DOMAIN exchange /\ f \in DOMAIN exchange
    BY <1>1, <1>3, <2>1 DEF OneLiveOrderPerSignal, SameSignal, Live
  <2>2. CASE e = new /\ f \in DOMAIN exchange
    BY <1>1, <1>3, <1>6, <1>10, <2>2 DEF SameSignal, Live
  <2>3. CASE f = new /\ e \in DOMAIN exchange
    BY <1>1, <1>3, <1>6, <1>10, <2>3 DEF SameSignal, Live
  <2>. QED  BY <1>3, <2>1, <2>2, <2>3
<1>. QED  BY <1>8, <1>9, <1>11

LEMMA RefusalStep ==
  ASSUME IInv, TypeOK', NEW s \in Signals, NEW lots \in Lots,
         SubmitRefused(s, lots) \/ SubmitLost(s, lots)
  PROVE  IInv'
<1> USE DEF IInv
<1> DEFINE r == NewOrder(s, lots, "REJECTED", NoId)
<1>1. orders' = Append(orders, r) /\ openOrders' = openOrders
  BY DEF SubmitRefused, SubmitLost
<1>2. r \in LocalOrder /\ r.id = NoId
  BY OrderTypes DEF OrderStatus, NewOrder
<1>3. ExchangeMoves(exchange, exchange')
  BY SubmitMoves, Unmoved DEF SubmitRefused
<1>. HIDE DEF r
<1>4. Unsubmitted
  <2>1. CASE SubmitRefused(s, lots)
    BY <1>3, <2>1 DEF Unsubmitted, SubmitRefused
  <2>2. CASE SubmitLost(s, lots)
    <3>1. exchange' = Append(exchange, Placed(s, lots)) /\ uncertain' = uncertain \cup {s}
      BY <2>2 DEF SubmitLost
    <3>2. Placed(s, lots) \in ExchangeOrder /\ Placed(s, lots).signal = s
      BY OrderTypes DEF Placed
    <3>3. \A e \in DOMAIN exchange' \ DOMAIN exchange : exchange'[e].signal = s
      BY <3>1, <3>2, AppendFacts DEF TypeOK
    <3>. QED  BY <1>3, <3>1, <3>3 DEF Unsubmitted
  <2>. QED  BY <2>1, <2>2
<1>5. SignalsAgree' /\ RegistryTellsTheTruth'
  BY <1>1, <1>2, <1>3, NewEntryTells
<1>6. OneLiveOrderPerSignal'
  BY <1>4, QuietUniqueness
<1>7. LiveIsKnown'
  <2> SUFFICES ASSUME NEW e \in DOMAIN exchange', exchange'[e].signal \in Signals \ uncertain', Live(e)'
               PROVE  \E o \in DOMAIN orders' : Known(e, o)'
    BY DEF LiveIsKnown
  <2>1. e \in DOMAIN exchange
    BY <1>4, SignalsAssumption DEF Unsubmitted
  <2>2. /\ Live(e) /\ exchange'[e].signal = exchange[e].signal
        /\ exchange'[e].status = "open" => exchange[e].status = "open"
    BY <1>3, <2>1, StillLive
  <2>3. PICK o \in DOMAIN orders : Known(e, o)
    BY <1>4, <2>1, <2>2 DEF LiveIsKnown, Unsubmitted
  <2>4. o \in DOMAIN orders' /\ orders'[o] = orders[o]
    BY <1>1, <1>2, <2>3, AppendFacts DEF TypeOK
  <2>. QED  BY <1>1, <2>2, <2>3, <2>4 DEF Known
<1>. QED  BY <1>5, <1>6, <1>7

\* Modify, ClosePosition and the exchange leave what the registry says alone.
LEMMA QuietStep ==
  ASSUME IInv, TypeOK', RegistryMoves(orders, orders'), Unsubmitted, openOrders' = openOrders,
         \A p \in DOMAIN orders :
           orders'[p].status = orders[p].status /\ orders'[p].filled = orders[p].filled
  PROVE  IInv'
<1>1. SignalsAgree' /\ RegistryTellsTheTruth'
  BY QuietRegistry DEF IInv, Unsubmitted
<1>2. OneLiveOrderPerSignal'
  BY QuietUniqueness DEF IInv
<1>3. LiveIsKnown'
  BY QuietKnowledge DEF IInv
<1>. QED  BY <1>1, <1>2, <1>3 DEF IInv

LEMMA CancelStep ==
  ASSUME IInv, TypeOK', NEW o \in DOMAIN orders, Cancel(o)
  PROVE  IInv'
<1> USE DEF IInv
<1> DEFINE id == orders[o].id
<1>1. /\ id \in DOMAIN exchange /\ id # NoId /\ exchange[id].status = "open"
      /\ exchange \in Seq(ExchangeOrder)
      /\ exchange' = [exchange EXCEPT ![id].status = "canceled"]
      /\ openOrders' = openOrders /\ uncertain' = uncertain
  BY DEF Cancel, OpenAtExchange, TypeOK
<1>2. ExchangeMoves(exchange, exchange') /\ RegistryMoves(orders, orders')
  BY CancelMoves, CancelRegistry
<1>3. /\ orders'[o].status = "CANCELLED" /\ orders'[o].filled = orders[o].filled
      /\ \A p \in DOMAIN orders : p # o => orders'[p] = orders[p]
  BY CancelRegistry
<1>4. /\ DOMAIN exchange' = DOMAIN exchange
      /\ exchange'[id].status = "canceled"
      /\ \A e \in DOMAIN exchange : e # id => exchange'[e] = exchange[e]
      /\ exchange'[id].filled = exchange[id].filled
      /\ exchange'[id].signal = exchange[id].signal
  <2>1. exchange[id] \in ExchangeOrder
    BY <1>1, ElementType
  <2>. QED  BY <1>1, <2>1 DEF ExchangeOrder
<1>5. Unsubmitted
  BY <1>1, <1>2, <1>4 DEF Unsubmitted
<1>6. OneLiveOrderPerSignal'
  BY <1>5, QuietUniqueness
<1>7. SignalsAgree'
  BY <1>2 DEF SignalsAgree, RegistryMoves, ExchangeMoves, TypeOK
<1>8. RegistryTellsTheTruth'
  <2> SUFFICES ASSUME NEW p \in DOMAIN orders', orders'[p].id # NoId
               PROVE  /\ orders'[p].status \in {"FILLED", "CANCELLED", "EXPIRED", "REJECTED"} =>
                           orders'[p].status = Mapping(exchange'[orders'[p].id].status)
                      /\ orders'[p].filled <= exchange'[orders'[p].id].filled
    BY DEF RegistryTellsTheTruth
  <2>1. /\ p \in DOMAIN orders /\ orders'[p].id = orders[p].id
        /\ orders'[p].filled = orders[p].filled
    BY <1>2, <1>3 DEF RegistryMoves
  <2>2. orders[p].id \in DOMAIN exchange
    BY <2>1 DEF TypeOK
  <2>3. /\ orders[p].status \in {"FILLED", "CANCELLED", "EXPIRED", "REJECTED"} =>
             orders[p].status = Mapping(exchange[orders[p].id].status)
        /\ orders[p].filled <= exchange[orders[p].id].filled
    BY <2>1 DEF RegistryTellsTheTruth
  <2>4. exchange'[orders[p].id].filled = exchange[orders[p].id].filled
    BY <1>4, <2>2
  <2>5. CASE p = o
    BY <1>3, <1>4, <2>1, <2>3, <2>4, <2>5 DEF Mapping
  <2>6. CASE p # o /\ orders[p].id # id
    BY <1>3, <1>4, <2>1, <2>2, <2>3, <2>6
  <2>7. CASE p # o /\ orders[p].id = id
    <3>1. orders'[p].status \notin {"FILLED", "CANCELLED", "EXPIRED", "REJECTED"}
      BY <1>1, <1>3, <2>1, <2>3, <2>7, OpenIsNotFinal
    <3>. QED  BY <2>1, <2>3, <2>4, <3>1
  <2>. QED  BY <2>5, <2>6, <2>7
<1>9. LiveIsKnown'
  <2> SUFFICES ASSUME NEW e \in DOMAIN exchange', exchange'[e].signal \in Signals \ uncertain', Live(e)'
               PROVE  \E p \in DOMAIN orders' : Known(e, p)'
    BY DEF LiveIsKnown
  <2>1. e \in DOMAIN exchange /\ e # id /\ exchange'[e] = exchange[e]
    BY <1>4 DEF Live
  <2>2. PICK p \in DOMAIN orders : Known(e, p)
    BY <1>1, <2>1 DEF LiveIsKnown, Live
  <2>3. p # o /\ orders'[p] = orders[p] /\ p \in DOMAIN orders'
    BY <1>2, <1>3, <2>1, <2>2 DEF Known, RegistryMoves
  <2>. QED  BY <1>1, <2>1, <2>2, <2>3 DEF Known
<1>. QED  BY <1>6, <1>7, <1>8, <1>9

LEMMA PollStep ==
  ASSUME IInv, TypeOK', NEW o \in DOMAIN orders, Poll(o)
  PROVE  IInv'
<1> USE DEF IInv
<1> DEFINE id == orders[o].id
<1>1. exchange' = exchange /\ openOrders' = openOrders /\ id # NoId /\ id \in DOMAIN exchange
  BY DEF Poll, TypeOK
<1>2. RegistryMoves(orders, orders')
  BY PollRegistry
<1>3. /\ \A p \in DOMAIN orders : p # o => orders'[p] = orders[p]
      /\ orders'[o].filled = exchange[id].filled
      /\ \/ orders'[o].status = Mapping(exchange[id].status) /\ uncertain' = uncertain
         \/ orders'[o].status = "PENDING" /\ uncertain' = uncertain \cup {orders[o].signal}
  BY PollRegistry
<1>4. orders[o].signal = exchange[id].signal
  BY <1>1 DEF SignalsAgree
<1>5. exchange[id].filled \in Nat
  BY <1>1, FilledIsNat DEF TypeOK
<1>6. Unsubmitted
  BY <1>1, <1>3, Unmoved DEF Unsubmitted
<1>. HIDE DEF id
<1>7. OneLiveOrderPerSignal'
  BY <1>6, QuietUniqueness
<1>8. SignalsAgree'
  BY <1>1, <1>2 DEF SignalsAgree, RegistryMoves
<1>9. RegistryTellsTheTruth'
  <2> SUFFICES ASSUME NEW p \in DOMAIN orders', orders'[p].id # NoId
               PROVE  /\ orders'[p].status \in {"FILLED", "CANCELLED", "EXPIRED", "REJECTED"} =>
                           orders'[p].status = Mapping(exchange'[orders'[p].id].status)
                      /\ orders'[p].filled <= exchange'[orders'[p].id].filled
    BY DEF RegistryTellsTheTruth
  <2>1. p \in DOMAIN orders /\ orders'[p].id = orders[p].id
    BY <1>2 DEF RegistryMoves
  <2>2. CASE p = o
    BY <1>1, <1>3, <1>5, <2>1, <2>2 DEF id
  <2>3. CASE p # o
    BY <1>1, <1>3, <2>1, <2>3 DEF RegistryTellsTheTruth
  <2>. QED  BY <2>2, <2>3
<1>10. LiveIsKnown'
  <2> SUFFICES ASSUME NEW e \in DOMAIN exchange, exchange[e].signal \in Signals \ uncertain', Live(e)
               PROVE  \E p \in DOMAIN orders' : Known(e, p)'
    BY <1>1 DEF LiveIsKnown, Live
  <2>1. exchange[e].signal \in Signals \ uncertain
    BY <1>6 DEF Unsubmitted
  <2>2. PICK p \in DOMAIN orders : Known(e, p)
    BY <2>1 DEF LiveIsKnown
  <2>3. p \in DOMAIN orders' /\ orders'[p].id = orders[p].id
    BY <1>2 DEF RegistryMoves
  <2>4. CASE p # o
    BY <1>1, <1>3, <2>2, <2>3, <2>4 DEF Known
  <2>5. CASE p = o
    <3>1. id = e
      BY <2>2, <2>5 DEF Known, id
    <3>2. orders'[o].status = Mapping(exchange[e].status)
      BY <1>3, <1>4, <3>1
    <3>3. orders'[o].status \in {"SUBMITTED", "FILLED"}
      BY <3>2 DEF Live, Mapping
    <3>. QED  BY <1>1, <2>2, <2>3, <2>5, <3>3 DEF Known
  <2>. QED  BY <2>4, <2>5
<1>. QED  BY <1>7, <1>8, <1>9, <1>10

LEMMA RestartStep ==
  ASSUME IInv, TypeOK', Restart
  PROVE  IInv'
<1> USE DEF IInv
<1>1. /\ orders' = <<>> /\ exchange' = exchange
      /\ uncertain' = uncertain \cup {s \in Signals : \E e \in DOMAIN exchange : exchange[e].signal = s}
  BY DEF Restart
<1>2. SignalsAgree' /\ RegistryTellsTheTruth'
  BY <1>1 DEF SignalsAgree, RegistryTellsTheTruth
<1>3. LiveIsKnown'
  BY <1>1 DEF LiveIsKnown
<1>4. OneLiveOrderPerSignal'
  BY <1>1, Unmoved, QuietUniqueness DEF Unsubmitted
<1>. QED  BY <1>2, <1>3, <1>4

LEMMA InvInit == Init => IInv
BY TypeInit DEF Init, IInv, SignalsAgree, RegistryTellsTheTruth, LiveIsKnown, OneLiveOrderPerSignal

LEMMA InvStep == IInv /\ [Next]_vars => IInv'
<1> SUFFICES ASSUME IInv, [Next]_vars PROVE IInv'
  OBVIOUS
<1>1. TypeOK /\ TypeOK'
  BY TypeStep DEF IInv
<1>2. ASSUME NEW s \in Signals, NEW lots \in Lots,
             Submit(s, lots) \/ SubmitRefused(s, lots) \/ SubmitLost(s, lots)
      PROVE  IInv'
  BY <1>1, <1>2, SubmitStep, RefusalStep
<1>3. ASSUME NEW o \in DOMAIN orders, Cancel(o) \/ Poll(o)
      PROVE  IInv'
  BY <1>1, <1>3, CancelStep, PollStep
<1>4. ASSUME NEW o \in DOMAIN orders, NEW lots \in Lots, Modify(o, lots)
      PROVE  IInv'
  <2>1. /\ openOrders' = openOrders /\ uncertain \subseteq uncertain'
    BY <1>4 DEF Modify
  <2>2. Unsubmitted
    BY <1>1, <1>4, <2>1, ModifyMoves DEF Unsubmitted
  <2>. QED  BY <1>1, <1>4, <2>1, <2>2, ModifyRegistry, QuietStep
<1>5. ASSUME NEW lots \in Lots, ClosePosition(lots)
      PROVE  IInv'
  <2>1. UNCHANGED <<orders, openOrders, uncertain>>
    BY <1>5 DEF ClosePosition
  <2>2. Unsubmitted
    BY <1>1, <1>5, <2>1, CloseMoves DEF Unsubmitted
  <2>. QED  BY <1>1, <2>1, <2>2, Unmoved, QuietStep
<1>6. ASSUME NEW e \in DOMAIN exchange,
             ExchangeFill(e) \/ \E status \in {"canceled", "rejected", "expired"} : ExchangeEnd(e, status)
      PROVE  IInv'
  <2>1. UNCHANGED <<orders, openOrders, uncertain>>
    BY <1>6 DEF ExchangeFill, ExchangeEnd
  <2>2. Unsubmitted
    BY <1>1, <1>6, <2>1, ExchangeActionMoves DEF Unsubmitted
  <2>. QED  BY <1>1, <2>1, <2>2, Unmoved, QuietStep
<1>7. CASE Restart
  BY <1>1, <1>7, RestartStep
<1>8. CASE UNCHANGED vars
  <2>1. UNCHANGED <<orders, openOrders, exchange, uncertain>>
    BY <1>8 DEF vars
  <2>2. Unsubmitted
    BY <1>1, <2>1, Unmoved DEF Unsubmitted
  <2>. QED  BY <1>1, <2>1, <2>2, Unmoved, QuietStep
<1>. QED  BY <1>2, <1>3, <1>4, <1>5, <1>6, <1>7, <1>8 DEF Next

LEMMA Invariance == Spec => []IInv
BY InvInit, InvStep, PTL DEF Spec

\* Idempotency where the manager has missed nothing: never two live orders of
\* one signal, for any number of attempts, cancels, fills and restarts.
THEOREM AtMostOneLive == Spec => []OneLiveOrderPerSignal
<1>1. IInv => OneLiveOrderPerSignal
  BY DEF IInv
<1>. QED  BY <1>1, Invariance, PTL

\* A final status in the registry is final on the exchange, and local fills
\* never exceed those of the exchange.
THEOREM RegistryIsTruthful == Spec => []RegistryTellsTheTruth
<1>1. IInv => RegistryTellsTheTruth
  BY DEF IInv
<1>. QED  BY <1>1, Invariance, PTL

\* Every open order of a signal of which nothing was missed is among
\* open_orders().
THEOREM OpenOrdersReached == Spec => []OpenOrdersAreCovered
<1>1. IInv => OpenOrdersAreCovered
  <2> SUFFICES ASSUME IInv, NEW e \in DOMAIN exchange, exchange[e].status = "open",
                      exchange[e].signal \in Signals \ uncertain
               PROVE  \E o \in openOrders : orders[o].id = e /\ orders[o].signal = exchange[e].signal
    BY DEF OpenOrdersAreCovered
  <2>1. PICK o \in DOMAIN orders : Known(e, o)
    BY DEF IInv, LiveIsKnown, Live
  <2>2. e # NoId
    BY SignalsAssumption DEF IInv, TypeOK
  <2>3. orders[o].signal = exchange[e].signal
    BY <2>1, <2>2 DEF IInv, SignalsAgree, Known
  <2>. QED  BY <2>1, <2>3 DEF Known
<1>. QED  BY <1>1, Invariance, PTL
=============================================================================
