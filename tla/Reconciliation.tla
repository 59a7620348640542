--------------------------- MODULE Reconciliation ---------------------------
(***************************************************************************)
(* What the local books and the exchange are compared by                   *)
(* (execution/reconciliation.py).  Both sides are lists; a list becomes a  *)
(* dictionary by symbol, in which the last of a symbol stays.  Sides are   *)
(* not looked at, and sizes are whole lots, so that there is no tolerance. *)
(***************************************************************************)
EXTENDS Integers, Sequences

Listed(list) == {list[i].symbol : i \in DOMAIN list}

BySymbol(list) ==
  [s \in Listed(list) |->
     list[CHOOSE i \in DOMAIN list :
            /\ list[i].symbol = s
            /\ \A j \in DOMAIN list : list[j].symbol = s => j <= i]]

\* A bug: only what the books know is looked up at the exchange.
BugUnknownPositions(local, exchange) == {}

UnknownPositions(local, exchange) == Listed(exchange) \ Listed(local)

MissingPositions(local, exchange) == Listed(local) \ Listed(exchange)

IncorrectSize(local, exchange) ==
  {s \in Listed(local) \cap Listed(exchange) :
     BySymbol(local)[s].size # BySymbol(exchange)[s].size}

MissingSl(local) == {s \in Listed(local) : BySymbol(local)[s].stop <= 0}
MissingTp(local) == {s \in Listed(local) : BySymbol(local)[s].target <= 0}

DuplicateOrders(orders) ==
  {o.id : o \in {orders[i] : i \in {k \in DOMAIN orders : \E j \in 1 .. k - 1 : orders[j].id = orders[k].id}}}

StaleOrders(orders, exchangeIds) ==
  {orders[i].id : i \in {k \in DOMAIN orders : orders[k].status = "SUBMITTED"}} \ exchangeIds

\* has_issues of what reconcile reports; orders the books lack are no issue.
HasIssues(local, exchange, orders, exchangeIds) ==
  {} # UNION {UnknownPositions(local, exchange), MissingPositions(local, exchange),
              IncorrectSize(local, exchange), MissingSl(local), MissingTp(local),
              DuplicateOrders(orders), StaleOrders(orders, exchangeIds)}
=============================================================================
