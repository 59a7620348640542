---------------------------- MODULE TradingDesk ----------------------------
(***************************************************************************)
(* The loop a deployment runs, in the order main.py:91-92 gives: data,     *)
(* features, signals and risk, execution, reconciliation, monitoring.      *)
(* main.py leaves the loop itself out, so its steps stand for the calls it *)
(* makes: the guard or is_trading_active before an order, reconcile with a *)
(* lock on a mismatch (test_recovery.py:33-34), evaluate with a lock when  *)
(* severe (degradation.py:3), ERROR when the health checks fail.  The      *)
(* operator and the exchange act between any two steps.                    *)
(*                                                                         *)
(* In PAPER mode the orders go to the paper executor; in LIVE mode to an   *)
(* exchange that nets the lots of a symbol and answers, or not, as in      *)
(* OrderManager; a live close goes through at once or is refused.          *)
(***************************************************************************)
EXTENDS Lifecycle, PaperExecutor, Reconciliation, Monitoring

CONSTANTS
  NoSymbol,    \* model value: the symbol of a dictionary that has none
  Prices,      \* market prices
  LotSizes,    \* signed lots of a signal
  LiveResults, \* results of live closes
  MaxEntries   \* bound: orders sent

ASSUME DeskAssumption ==
  /\ IsFiniteSet(Symbols) /\ NoSymbol \notin Symbols
  /\ LotSizes \subseteq Int \ {0} /\ Prices \subseteq Nat /\ MaxEntries \in Nat

VARIABLES
  step,        \* what the loop does next
  book,        \* the local open positions
  order,       \* per symbol: a local order in status SUBMITTED, or not
  atExchange,  \* per symbol: the last order the exchange took, while it is open or can be polled
  net,         \* per symbol: lots the exchange holds
  pnls,        \* of RollingPerformance
  checks,      \* of HealthMonitor
  sent,        \* how many orders were sent
  blind        \* history: orders sent while books and exchange differ, since they were last found
               \* to agree or the trading was started, by the operator or a new process

loopVars == <<step, blind>>
bookVars == <<book, order, pnls>>
exchangeVars == <<atExchange, net>>
vars == <<lifecycleVars, paperVars, loopVars, bookVars, exchangeVars, checks, sent>>

IsPaper == config.mode = "PAPER"

\* A position of the book, with its target and with a stop or none; live
\* prices are left out.
Position(s, lots, entry, fees, stop) ==
  [symbol |-> s, lots |-> lots, size |-> Size(lots), entry |-> entry, fees |-> fees,
   stop |-> stop, target |-> 1]

Unprotected(p) == Position(p.symbol, p.lots, p.entry, p.fees, 0)

None == [lots |-> 0, status |-> "none"]

\* get_positions: the paper executor's dictionaries have no symbol.
ExchangePositions ==
  LET held == SetToSeq({s \in Symbols : IF IsPaper THEN positions[s] # 0 ELSE net[s] # 0})
  IN  [i \in DOMAIN held |->
         IF IsPaper THEN [symbol |-> NoSymbol, size |-> positions[held[i]]]
         ELSE [symbol |-> held[i], size |-> Size(net[held[i]])]]

LocalOrders ==
  LET known == SetToSeq({s \in Symbols : order[s]})
  IN  [i \in DOMAIN known |-> [id |-> known[i], status |-> "SUBMITTED"]]

Mismatch ==
  HasIssues(book, ExchangePositions, LocalOrders, {s \in Symbols : atExchange[s].status = "open"})

\* Books and exchange differ in what symbols have a position.
Differ ==
  {s \in Symbols : IF IsPaper THEN positions[s] # 0 ELSE net[s] # 0} # Listed(book)

\* One position is closed, or all are: what is left of the book, and the results.
The(closed) == CHOOSE i \in closed : TRUE
Remaining(closed) == IF closed = DOMAIN book THEN <<>> ELSE RemoveAt(book, The(closed))
Results(closed) ==
  IF closed = DOMAIN book THEN [i \in DOMAIN book |-> Pnl(book[i])] ELSE <<Pnl(book[The(closed)])>>
LotsOf(s, some) ==
  SumFunctionOnSet([i \in some |-> book[i].lots], {i \in some : book[i].symbol = s})

-----------------------------------------------------------------------------
Init ==
  /\ LifecycleInit /\ PaperInit
  /\ step = "data" /\ blind = 0 /\ sent = 0
  /\ book = <<>> /\ pnls = <<>>
  /\ order = [s \in Symbols |-> FALSE]
  /\ atExchange = [s \in Symbols |-> None] /\ net = [s \in Symbols |-> 0]
  /\ checks = <<>>

Start ==
  /\ Boot
  /\ blind' = IF word' = "run" THEN 0 ELSE blind
  /\ UNCHANGED <<paperVars, step, bookVars, exchangeVars, checks, sent>>

Stop == EndLoop /\ UNCHANGED <<paperVars, loopVars, bookVars, exchangeVars, checks, sent>>

\* The process ends or crashes, and another one starts.  The paper account is
\* gone with it, and the exchange is not.
Restart ==
  /\ NewProcess
  /\ NewAccount /\ step' = "data" /\ blind' = 0
  \* the positions are found again, or not, or without their stops
  /\ book' \in IF IsPaper THEN {<<>>}
               ELSE {book, <<>>, [i \in DOMAIN book |-> Unprotected(book[i])]}
  /\ order' = [s \in Symbols |-> FALSE] /\ pnls' = <<>> /\ checks' = <<>>
  /\ atExchange' = [s \in Symbols |-> IF atExchange[s].status = "open" THEN atExchange[s] ELSE None]
  /\ UNCHANGED <<net, sent>>

\* Prices are fetched, or are not, and the health checks updated.
FetchData(prices, connected) ==
  /\ up /\ step = "data"
  /\ IF connected /\ IsPaper THEN SetMarketPrices(prices) ELSE UNCHANGED paperVars
  /\ checks' = [n \in {"exchange"} |-> connected]
  /\ step' = "execute"
  /\ UNCHANGED <<lifecycleVars, blind, bookVars, exchangeVars, sent>>

Sent ==
  /\ sent < MaxEntries
  /\ sent' = sent + 1
  /\ blind' = IF Differ THEN blind + 1 ELSE blind
  /\ step' = "reconcile"

\* A paper order fills at once; what should record the position may fail.
PaperEntry(s, lots, recorded) ==
  LET fill == Fill(lots, price[s])
  IN  /\ up /\ step = "execute" /\ IsPaper /\ IsTradingActive
      /\ CreateOrder(s, lots)
      /\ book' = IF recorded THEN Append(book, Position(s, lots, fill, Fee(lots, fill), 1)) ELSE book
      /\ Sent
      /\ UNCHANGED <<lifecycleVars, order, pnls, exchangeVars, checks>>

\* A live order is taken, and the answer comes or is lost.  A bound: no order of
\* the symbol is at the exchange or waits to be polled.
LiveEntry(s, lots, answered, evidence) ==
  /\ up /\ step = "execute" /\ CanTradeLive(evidence)
  /\ ~order[s] /\ atExchange[s].status # "open"
  /\ atExchange' = [atExchange EXCEPT ![s] = [lots |-> lots, status |-> "open"]]
  /\ order' = [order EXCEPT ![s] = answered]
  /\ Sent
  /\ UNCHANGED <<lifecycleVars, paperVars, book, pnls, net, checks>>

\* No signal, no approval, an order that is rejected, or a guard that refuses.
NoEntry ==
  /\ up /\ step = "execute"
  /\ step' = "reconcile"
  /\ UNCHANGED <<lifecycleVars, paperVars, blind, bookVars, exchangeVars, checks, sent>>

\* get_order_status of a known order: a fill becomes a position.
Poll(s) ==
  /\ up /\ order[s] /\ atExchange[s].status # "open"
  /\ order' = [order EXCEPT ![s] = FALSE]
  /\ book' = IF atExchange[s].status = "closed"
             THEN Append(book, Position(s, atExchange[s].lots, 0, 0, 1)) ELSE book
  /\ atExchange' = [atExchange EXCEPT ![s] = None]
  /\ UNCHANGED <<lifecycleVars, paperVars, loopVars, pnls, net, checks, sent>>

\* reconcile, with a lock on a mismatch.
Reconcile ==
  /\ up /\ step = "reconcile"
  /\ step' = "monitor"
  /\ \/ Mismatch /\ Lock("RISK_LOCK") /\ UNCHANGED blind
     \/ ~Mismatch /\ blind' = (IF Differ THEN blind ELSE 0) /\ UNCHANGED lifecycleVars
  /\ UNCHANGED <<paperVars, bookVars, exchangeVars, checks, sent>>

\* all_healthy and evaluate.
Monitor ==
  /\ up /\ step = "monitor"
  /\ step' = "data"
  /\ CASE ~AllHealthy(checks) -> Lock("ERROR")
       [] AllHealthy(checks) /\ Severe(pnls) -> Lock("RISK_LOCK")
       [] OTHER -> UNCHANGED lifecycleVars
  /\ UNCHANGED <<paperVars, blind, bookVars, exchangeVars, checks, sent>>

\* Positions are closed, one by an exit or all by the operator, and leave the
\* book; their results are added to the window.  A live close may be refused,
\* which the executor swallows.
Close(closed) ==
  /\ up /\ closed # {}
  /\ book' = Remaining(closed)
  /\ \/ /\ IsPaper /\ ClosePositions(book, closed)
        /\ pnls' = AddTrades(pnls, Results(closed))
        /\ UNCHANGED net
     \/ /\ ~IsPaper /\ UNCHANGED paperVars
        /\ \E taken \in SUBSET closed, results \in [1 .. Cardinality(closed) -> LiveResults] :
             /\ net' = [s \in Symbols |-> net[s] - LotsOf(s, taken)]
             /\ pnls' = AddTrades(pnls, results)
  /\ UNCHANGED <<lifecycleVars, loopVars, order, checks, sent, atExchange>>

\* A command of the operator.
Operator(command, chat) ==
  /\ Dispatch(command, chat)
  /\ blind' = IF word' = "run" THEN 0 ELSE blind
  /\ UNCHANGED <<paperVars, step, bookVars, exchangeVars, checks, sent>>

Recovered == Recover /\ UNCHANGED <<paperVars, loopVars, bookVars, exchangeVars, checks, sent>>

-----------------------------------------------------------------------------
(* The exchange. *)

End(s, status) == [atExchange EXCEPT ![s] = IF order[s] THEN [@ EXCEPT !.status = status] ELSE None]

ExchangeFill(s) ==
  /\ atExchange[s].status = "open"
  /\ atExchange' = End(s, "closed")
  /\ net' = [net EXCEPT ![s] = @ + atExchange[s].lots]

ExchangeCancel(s) ==
  /\ atExchange[s].status = "open"
  /\ atExchange' = End(s, "canceled")
  /\ UNCHANGED net

\* A stop or a liquidation that the exchange holds itself.
ExchangeClose(s) ==
  /\ net[s] # 0
  /\ net' = [net EXCEPT ![s] = 0]
  /\ UNCHANGED atExchange

Exchange(s) ==
  /\ ExchangeFill(s) \/ ExchangeCancel(s) \/ ExchangeClose(s)
  /\ UNCHANGED <<lifecycleVars, paperVars, loopVars, bookVars, checks, sent>>

Next ==
  \/ Start \/ Stop \/ Restart \/ Recovered
  \/ \E command \in Commands : \E chat \in config.whitelist : Operator(command, chat)
  \/ \E prices \in [Symbols -> Prices], connected \in BOOLEAN : FetchData(prices, connected)
  \/ \E s \in Symbols, lots \in LotSizes :
       \/ \E recorded \in BOOLEAN : PaperEntry(s, lots, recorded)
       \/ \E answered \in BOOLEAN, evidence \in {NoEvidence, Gates} : LiveEntry(s, lots, answered, evidence)
  \/ NoEntry \/ Reconcile \/ Monitor
  \/ \E s \in Symbols : Poll(s) \/ Exchange(s)
  \/ \E closed \in {{i} : i \in DOMAIN book} \cup {DOMAIN book} : Close(closed)

Spec == Init /\ [][Next]_vars

-----------------------------------------------------------------------------
(* Properties.                                                             *)

\* An order is sent only if since the last pause, stop or lock, of this process
\* or one before it, the operator has started the trading or a new process has
\* passed the checks of its start, and if the configuration in force passes them:
\* a way through RISK_LOCK, ERROR and READY and back does not end in trading by
\* itself, and a start with a configuration that was spoilt meanwhile does not
\* either.  A pause does not outlive its process: the machine's state is kept
\* nowhere, and a restart that passes its checks trades again (main.py:84-91).
OrdersNeedAStart == [][sent' # sent => word = "run" /\ AllCriticalPassed(config)]_vars

\* The conditions of live trading are written down three times, in the
\* configuration, in the checks of the start and in the guard.  They agree: a
\* bot that runs in LIVE mode passes the guard but for the evidence, and the
\* guard passes no other.
GuardAgreesWithStartup ==
  /\ up /\ IsTradingActive /\ config.mode = "LIVE" => CanTradeLive(Gates)
  /\ \A evidence \in {NoEvidence, Gates} :
       CanTradeLive(evidence) => up /\ LiveTradingAllowed(config) /\ CheckCredentials(config)

\* Orders are sent before the books are reconciled, but a difference in what is
\* held costs one order at most: the report finds it and the lock holds until
\* the operator lifts it.
AtMostOneBlindOrder == blind <= 1
=============================================================================
