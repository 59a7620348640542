------------------------- MODULE TradingDeskProofs -------------------------
(***************************************************************************)
(* What the desk guarantees for every configuration, every finite set of   *)
(* symbols and any number of orders.                                       *)
(*                                                                         *)
(* The argument has three layers.  A process that is up has passed the     *)
(* checks of its start, and only such a process is RUNNING (StartedInv).   *)
(* A machine is RUNNING only on the operator's or the start's word         *)
(* (WordInv).  And an order sent blind is either still to be reconciled or *)
(* has been answered by a lock (BlindInv), because books and exchange that *)
(* differ in what they hold always make a mismatch.                        *)
(***************************************************************************)
EXTENDS TradingDesk, FiniteSetTheorems, TLAPS

-----------------------------------------------------------------------------
(* The inductive invariants.                                               *)

StartedInv ==
  /\ config \in Configs /\ state \in DOMAIN ALLOWED /\ up \in BOOLEAN
  /\ up => state # "STARTING" /\ AllCriticalPassed(config)
  /\ IsTradingActive => up

WordInv ==
  /\ word \in {"run", "stop"}
  /\ IsTradingActive => word = "run"

BlindInv ==
  /\ blind \in {0, 1}
  /\ step # "reconcile" /\ blind = 1 => word = "stop"

-----------------------------------------------------------------------------
(* The start's checks and the guard.                                       *)

\* A configuration whose critical checks pass, in LIVE mode, allows live
\* trading, and has its credentials.
LEMMA CriticalChecks ==
  ASSUME NEW c, AllCriticalPassed(c)
  PROVE  c.mode = "LIVE" => LiveTradingAllowed(c) /\ CheckCredentials(c)
<1>1. CheckConfig(c)
  <2> DEFINE r == [critical |-> TRUE, passed |-> CheckConfig(c)]
  <2>1. r \in SelfChecks(c) /\ r.critical
    BY DEF SelfChecks
  <2>2. r.passed
    BY <2>1 DEF AllCriticalPassed
  <2> QED
    BY <2>2
<1> QED
  BY <1>1 DEF CheckConfig, LiveTradingAllowed, CheckCredentials

\* Initially nothing runs.
LEMMA StartedInit == Init => StartedInv
BY DEF Init, LifecycleInit, StartedInv, ALLOWED, IsTradingActive

\* No step starts the trading of a process that has not passed the checks.
LEMMA StartedStep == StartedInv /\ [Next]_vars => StartedInv'
<1> SUFFICES ASSUME StartedInv, [Next]_vars PROVE StartedInv'
  OBVIOUS
<1> USE DEF StartedInv, IsTradingActive
<1>0. ASSUME UNCHANGED lifecycleVars PROVE StartedInv'
  <2>1. config' = config /\ state' = state /\ up' = up
    BY <1>0 DEF lifecycleVars
  <2> QED
    BY <2>1 DEF AllCriticalPassed, SelfChecks, CheckConfig, CheckCredentials, CheckTelegram, CheckStrategyRegistry,
                LiveTradingAllowed
<1>k. ASSUME config' = config, up' = up, state' \in DOMAIN ALLOWED,
             up, state' # "STARTING"
      PROVE  StartedInv'
  BY <1>k DEF AllCriticalPassed, SelfChecks, CheckConfig, CheckCredentials, CheckTelegram, CheckStrategyRegistry,
              LiveTradingAllowed
<1>t. ASSUME NEW target \in DOMAIN ALLOWED, target # "STARTING", up, Transition(target)
      PROVE  state' \in DOMAIN ALLOWED /\ state' # "STARTING"
  BY <1>t DEF Transition
<1>l. ASSUME NEW target \in {"RISK_LOCK", "ERROR"}, up, Lock(target) PROVE StartedInv'
  <2>1. target \in DOMAIN ALLOWED /\ target # "STARTING"
    BY DEF ALLOWED
  <2> QED
    BY <1>l, <1>t, <1>k, <2>1 DEF Lock
<1>1. CASE Start
  <2>1. /\ config' = config /\ up' = AllCriticalPassed(config)
        /\ state' = IF AllCriticalPassed(config) THEN "RUNNING" ELSE "READY"
    BY <1>1 DEF Start, Boot
  <2>2. AllCriticalPassed(config') = AllCriticalPassed(config)
    BY <2>1
  <2>3. AllCriticalPassed(config) \in BOOLEAN
    BY DEF AllCriticalPassed
  <2> QED
    BY <2>1, <2>2, <2>3 DEF ALLOWED
<1>2. CASE Stop
  <2>1. up /\ Transition("SHUTDOWN") /\ ~up' /\ up' \in BOOLEAN /\ config' = config
    BY <1>2 DEF Stop, EndLoop
  <2>2. state' = "SHUTDOWN"
    BY <2>1 DEF Transition, Can, ALLOWED
  <2> QED
    BY <2>1, <2>2 DEF ALLOWED
<1>3. CASE Restart
  BY <1>3 DEF Restart, NewProcess, ALLOWED
<1>4. CASE Recovered
  <2>1. "READY" \in DOMAIN ALLOWED
    BY DEF ALLOWED
  <2> QED
    BY <1>4, <1>t, <1>k, <2>1 DEF Recovered, Recover
<1>5. ASSUME NEW command \in Commands, NEW chat \in config.whitelist, Operator(command, chat)
      PROVE  StartedInv'
  <2>1. Target(command) \in DOMAIN ALLOWED /\ Target(command) # "STARTING"
    BY DEF Target, Commands, ALLOWED
  <2> QED
    BY <1>5, <1>k, <2>1 DEF Operator, Dispatch
<1>6. ASSUME NEW prices, NEW connected, FetchData(prices, connected) PROVE StartedInv'
  BY <1>6, <1>0 DEF FetchData
<1>7. ASSUME NEW s, NEW lots, NEW recorded, PaperEntry(s, lots, recorded) PROVE StartedInv'
  BY <1>7, <1>0 DEF PaperEntry
<1>8. ASSUME NEW s, NEW lots, NEW answered, NEW evidence, LiveEntry(s, lots, answered, evidence)
      PROVE  StartedInv'
  BY <1>8, <1>0 DEF LiveEntry
<1>9. CASE NoEntry
  BY <1>9, <1>0 DEF NoEntry
<1>10. CASE Reconcile
  BY <1>10, <1>0, <1>l DEF Reconcile
<1>11. CASE Monitor
  BY <1>11, <1>0, <1>l DEF Monitor
<1>12. ASSUME NEW s, Poll(s) \/ Exchange(s) PROVE StartedInv'
  BY <1>12, <1>0 DEF Poll, Exchange
<1>13. ASSUME NEW closed, Close(closed) PROVE StartedInv'
  BY <1>13, <1>0 DEF Close
<1>14. CASE UNCHANGED vars
  BY <1>14, <1>0 DEF vars
<1> QED
  BY <1>1, <1>2, <1>3, <1>4, <1>5, <1>6, <1>7, <1>8, <1>9, <1>10, <1>11, <1>12, <1>13, <1>14
     DEF Next

\* In every state a bot that is RUNNING has passed the checks of its start.
THEOREM OnlyCheckedBotsRun == Spec => []StartedInv
BY StartedInit, StartedStep, PTL DEF Spec

\* The configuration, the checks of the start and the guard agree on what live
\* trading needs, for every configuration.
THEOREM GuardAgrees == Spec => []GuardAgreesWithStartup
<1>1. StartedInv => GuardAgreesWithStartup
  BY CriticalChecks
     DEF StartedInv, GuardAgreesWithStartup, CanTradeLive, GuardPasses, LiveTradingAllowed,
         CheckCredentials, IsTradingActive
<1> QED
  BY <1>1, OnlyCheckedBotsRun, PTL

-----------------------------------------------------------------------------
(* The word of the operator.                                               *)

\* A lock or a pause stops the trading whatever state it finds.
LEMMA LocksStop ==
  ASSUME NEW target \in {"RISK_LOCK", "ERROR"}, StartedInv, Lock(target)
  PROVE  ~IsTradingActive' /\ word' = "stop" /\ (state' = "STARTING" => state = "STARTING")
<1>1. state' = (IF Can(target) THEN target ELSE state) /\ word' = "stop"
  BY DEF Lock, Transition
<1>2. state = "RUNNING" => Can(target)
  BY DEF Can, ALLOWED
<1> QED
  BY <1>1, <1>2 DEF IsTradingActive

\* Initially the word is to run.
LEMMA WordInit == Init => WordInv
BY DEF Init, LifecycleInit, WordInv, IsTradingActive

\* No step makes the machine RUNNING against the word.
LEMMA WordStep == StartedInv /\ WordInv /\ [Next]_vars => WordInv'
<1> SUFFICES ASSUME StartedInv, WordInv, [Next]_vars PROVE WordInv'
  OBVIOUS
<1>0. ASSUME UNCHANGED lifecycleVars PROVE WordInv'
  BY <1>0 DEF lifecycleVars, WordInv, IsTradingActive
<1>l. ASSUME NEW target \in {"RISK_LOCK", "ERROR"}, up, Lock(target) PROVE WordInv'
  <2>1. state # "STARTING"
    BY <1>l DEF StartedInv
  <2> QED
    BY <1>l, <2>1, LocksStop DEF WordInv
<1>1. CASE Start
  BY <1>1 DEF Start, Boot, WordInv, IsTradingActive
<1>2. CASE Stop
  <2>1. word' = word /\ up /\ Transition("SHUTDOWN")
    BY <1>2 DEF Stop, EndLoop
  <2>2. state' = "SHUTDOWN"
    BY <2>1 DEF Transition, Can, ALLOWED, StartedInv
  <2> QED
    BY <2>1, <2>2 DEF WordInv, IsTradingActive
<1>3. CASE Restart
  BY <1>3 DEF Restart, NewProcess, WordInv, IsTradingActive
<1>4. CASE Recovered
  BY <1>4 DEF Recovered, Recover, Transition, WordInv, IsTradingActive
<1>5. ASSUME NEW command \in Commands, NEW chat \in config.whitelist, Operator(command, chat)
      PROVE  WordInv'
  <2>1. /\ state' = Target(command)
        /\ word' = IF Target(command) = "RUNNING" THEN "run" ELSE "stop"
    BY <1>5 DEF Operator, Dispatch
  <2>2. Target(command) # "STARTING"
    BY DEF Target, Commands
  <2> QED
    BY <2>1, <2>2 DEF WordInv, IsTradingActive
<1>6. ASSUME NEW prices, NEW connected, FetchData(prices, connected) PROVE WordInv'
  BY <1>6, <1>0 DEF FetchData
<1>7. ASSUME NEW s, NEW lots, NEW recorded, PaperEntry(s, lots, recorded) PROVE WordInv'
  BY <1>7, <1>0 DEF PaperEntry
<1>8. ASSUME NEW s, NEW lots, NEW answered, NEW evidence, LiveEntry(s, lots, answered, evidence)
      PROVE  WordInv'
  BY <1>8, <1>0 DEF LiveEntry
<1>9. CASE NoEntry
  BY <1>9, <1>0 DEF NoEntry
<1>10. CASE Reconcile
  BY <1>10, <1>0, <1>l DEF Reconcile
<1>11. CASE Monitor
  BY <1>11, <1>0, <1>l DEF Monitor
<1>12. ASSUME NEW s, Poll(s) \/ Exchange(s) PROVE WordInv'
  BY <1>12, <1>0 DEF Poll, Exchange
<1>13. ASSUME NEW closed, Close(closed) PROVE WordInv'
  BY <1>13, <1>0 DEF Close
<1>14. CASE UNCHANGED vars
  BY <1>14, <1>0 DEF vars
<1> QED
  BY <1>1, <1>2, <1>3, <1>4, <1>5, <1>6, <1>7, <1>8, <1>9, <1>10, <1>11, <1>12, <1>13, <1>14
     DEF Next

\* Orders are sent by a RUNNING machine only.
LEMMA OrdersNeedRunning ==
  [Next]_vars /\ sent' # sent => IsTradingActive
<1> SUFFICES ASSUME [Next]_vars, sent' # sent PROVE IsTradingActive
  OBVIOUS
<1>1. CASE Start \/ Stop \/ Restart \/ Recovered
  BY <1>1 DEF Start, Stop, Restart, Recovered
<1>2. ASSUME NEW command, NEW chat, Operator(command, chat) PROVE FALSE
  BY <1>2 DEF Operator
<1>3. ASSUME NEW prices, NEW connected, FetchData(prices, connected) PROVE FALSE
  BY <1>3 DEF FetchData
<1>4. ASSUME NEW s, NEW lots, NEW recorded, PaperEntry(s, lots, recorded) PROVE IsTradingActive
  BY <1>4 DEF PaperEntry
<1>5. ASSUME NEW s, NEW lots, NEW answered, NEW evidence, LiveEntry(s, lots, answered, evidence)
      PROVE  IsTradingActive
  BY <1>5 DEF LiveEntry, CanTradeLive, GuardPasses
<1>6. CASE NoEntry \/ Reconcile \/ Monitor
  BY <1>6 DEF NoEntry, Reconcile, Monitor
<1>7. ASSUME NEW s, Poll(s) \/ Exchange(s) PROVE FALSE
  BY <1>7 DEF Poll, Exchange
<1>8. ASSUME NEW closed, Close(closed) PROVE FALSE
  BY <1>8 DEF Close
<1>9. CASE UNCHANGED vars
  BY <1>9 DEF vars
<1> QED
  BY <1>1, <1>2, <1>3, <1>4, <1>5, <1>6, <1>7, <1>8, <1>9 DEF Next

\* A machine is RUNNING only on the start's or the operator's word.
THEOREM WordIsKept == Spec => []WordInv
BY OnlyCheckedBotsRun, WordInit, WordStep, PTL DEF Spec

\* Whatever stopped the trading, in this process or one before, no order is sent
\* until the operator or a start that passes its checks begins it again, for any
\* sequence of commands, locks, recoveries and restarts, and no order under a
\* configuration that fails the checks.
THEOREM StartsAreNeeded == Spec => OrdersNeedAStart
<1>1. StartedInv /\ WordInv /\ [Next]_vars =>
        [sent' # sent => word = "run" /\ AllCriticalPassed(config)]_vars
  BY OrdersNeedRunning DEF StartedInv, WordInv
<1> QED
  BY <1>1, OnlyCheckedBotsRun, WordIsKept, PTL DEF Spec, OrdersNeedAStart

-----------------------------------------------------------------------------
(* Blind orders.                                                           *)

\* The sequence of a finite set lists all of it, and nothing else.
LEMMA SetToSeqLists ==
  ASSUME NEW S, IsFiniteSet(S)
  PROVE  {SetToSeq(S)[i] : i \in DOMAIN SetToSeq(S)} = S
<1> DEFINE n == Cardinality(S)
           q == SetToSeq(S)
<1>1. n \in Nat /\ ExistsBijection(1 .. n, S)
  BY FS_CardinalityType
<1>2. PICK f \in Bijection(1 .. n, S) : TRUE
  BY <1>1 DEF ExistsBijection
<1>3. f \in [1 .. n -> S] /\ IsInjective(f)
  BY <1>2 DEF Bijection, Injection, Surjection, IsInjective
<1>4. q \in [1 .. n -> S] /\ IsInjective(q)
  BY <1>3 DEF SetToSeq
<1>5. q \in Injection(1 .. n, S)
  BY <1>4 DEF Injection, IsInjective
<1>6. IsFiniteSet(1 .. n) /\ Cardinality(1 .. n) = n
  BY <1>1, FS_Interval
<1>7. q \in Surjection(1 .. n, S)
  BY <1>5, <1>6, FS_Injection
<1> QED
  BY <1>4, <1>7 DEF Surjection

\* The book is a sequence of positions in the desk's symbols.
BookInv == (\E S : book \in Seq(S)) /\ Listed(book) \subseteq Symbols

\* Appending keeps what is there and puts the new element behind it.
LEMMA AppendedElements ==
  ASSUME NEW S, NEW q \in Seq(S), NEW p \in S
  PROVE  /\ Append(q, p) \in Seq(S)
         /\ DOMAIN Append(q, p) = DOMAIN q \cup {Len(q) + 1}
         /\ \A i \in DOMAIN q : Append(q, p)[i] = q[i]
         /\ Append(q, p)[Len(q) + 1] = p
OBVIOUS

\* What a concatenation consists of.
LEMMA Concatenated ==
  ASSUME NEW S, NEW a \in Seq(S), NEW z \in Seq(S)
  PROVE  /\ a \o z \in Seq(S)
         /\ Len(a \o z) = Len(a) + Len(z)
         /\ \A i \in 1 .. Len(a) + Len(z) :
              (a \o z)[i] = IF i <= Len(a) THEN a[i] ELSE z[i - Len(a)]
OBVIOUS

\* Removing an element keeps the others.
LEMMA RemovedElements ==
  ASSUME NEW S, NEW q \in Seq(S), NEW k \in DOMAIN q
  PROVE  /\ RemoveAt(q, k) \in Seq(S)
         /\ \A i \in DOMAIN RemoveAt(q, k) : \E j \in DOMAIN q : RemoveAt(q, k)[i] = q[j]
<1> DEFINE a == SubSeq(q, 1, k - 1)
           z == SubSeq(q, k + 1, Len(q))
<1>1. k \in 1 .. Len(q) /\ Len(q) \in Nat /\ DOMAIN q = 1 .. Len(q)
  OBVIOUS
<1>2. /\ a \in Seq(S) /\ Len(a) = k - 1
      /\ \A i \in 1 .. k - 1 : a[i] = q[i]
  BY <1>1
<1>3. /\ z \in Seq(S) /\ Len(z) = Len(q) - k
      /\ \A i \in 1 .. Len(q) - k : z[i] = q[i + k]
  BY <1>1
<1> HIDE DEF a, z
<1>4. a \o z \in Seq(S) /\ Len(a \o z) = Len(q) - 1 /\ DOMAIN (a \o z) = 1 .. Len(q) - 1
  <2>1. a \o z \in Seq(S) /\ Len(a \o z) = Len(a) + Len(z)
    BY <1>2, <1>3, Concatenated
  <2>2. Len(a) + Len(z) = Len(q) - 1
    BY <1>1, <1>2, <1>3
  <2> QED
    BY <2>1, <2>2
<1>5. \A i \in 1 .. Len(q) - 1 : (a \o z)[i] = IF i < k THEN a[i] ELSE z[i - (k - 1)]
  <2>1. \A i \in 1 .. Len(a) + Len(z) : (a \o z)[i] = IF i <= Len(a) THEN a[i] ELSE z[i - Len(a)]
    BY <1>2, <1>3, Concatenated
  <2> QED
    BY <1>1, <1>2, <1>3, <2>1
<1>6. \A i \in 1 .. Len(q) - 1 : (a \o z)[i] = IF i < k THEN q[i] ELSE q[i + 1]
  <2> TAKE i \in 1 .. Len(q) - 1
  <2>1. CASE i < k
    <3>1. i \in 1 .. k - 1
      BY <1>1, <2>1
    <3> QED
      BY <1>2, <1>5, <2>1, <3>1
  <2>2. CASE ~(i < k)
    <3>1. i - (k - 1) \in 1 .. Len(q) - k /\ i - (k - 1) + k = i + 1
      BY <1>1, <2>2
    <3>2. z[i - (k - 1)] = q[i + 1]
      BY <1>3, <3>1
    <3> QED
      BY <1>5, <2>2, <3>2
  <2> QED
    BY <2>1, <2>2
<1>7. \A i \in 1 .. Len(q) - 1 : \E j \in DOMAIN q : (a \o z)[i] = q[j]
  <2> TAKE i \in 1 .. Len(q) - 1
  <2>1. i \in DOMAIN q /\ i + 1 \in DOMAIN q
    BY <1>1
  <2> QED
    BY <2>1, <1>6
<1> QED
  BY <1>4, <1>7 DEF RemoveAt, a, z

\* A position of the symbols, behind the others, leaves a list in the symbols.
LEMMA Appended ==
  ASSUME NEW q, NEW S, q \in Seq(S), Listed(q) \subseteq Symbols, NEW p, p.symbol \in Symbols
  PROVE  (\E T : Append(q, p) \in Seq(T)) /\ Listed(Append(q, p)) \subseteq Symbols
<1>1. q \in Seq(S \cup {p})
  OBVIOUS
<1>2. \A i \in DOMAIN Append(q, p) :
        Append(q, p)[i] = p \/ (i \in DOMAIN q /\ Append(q, p)[i] = q[i])
  BY <1>1, AppendedElements
<1>3. Append(q, p) \in Seq(S \cup {p})
  BY <1>1, AppendedElements
<1> QED
  BY <1>2, <1>3 DEF Listed

\* What is left of a list in the symbols is one.
LEMMA Removed ==
  ASSUME NEW q, NEW S, q \in Seq(S), Listed(q) \subseteq Symbols, NEW k \in DOMAIN q
  PROVE  RemoveAt(q, k) \in Seq(S) /\ Listed(RemoveAt(q, k)) \subseteq Symbols
BY RemovedElements DEF Listed

\* Initially the book is empty.
LEMMA BookInit == Init => BookInv
<1> SUFFICES ASSUME Init PROVE BookInv
  OBVIOUS
<1>1. book = <<>> /\ book \in Seq({})
  BY DEF Init
<1> QED
  BY <1>1 DEF BookInv, Listed

\* Every step keeps the book a sequence of positions in the symbols.
LEMMA BookStep == BookInv /\ [Next]_vars => BookInv'
<1> SUFFICES ASSUME BookInv, [Next]_vars PROVE BookInv'
  OBVIOUS
<1>s. PICK S : book \in Seq(S)
  BY DEF BookInv
<1>b. Listed(book) \subseteq Symbols
  BY DEF BookInv
<1>0. ASSUME book' = book PROVE BookInv'
  BY <1>0, <1>s, <1>b DEF BookInv
<1>e. ASSUME book' = <<>> PROVE BookInv'
  <2>1. book' \in Seq({})
    BY <1>e
  <2> QED
    BY <1>e, <2>1 DEF BookInv, Listed
<1>1. CASE Start \/ Stop \/ Recovered
  BY <1>1, <1>0 DEF Start, Stop, Recovered, bookVars
<1>2. CASE Restart
  <2> DEFINE r == [i \in DOMAIN book |-> Unprotected(book[i])]
  <2>1. book' = book \/ book' = <<>> \/ book' = r
    BY <1>2 DEF Restart
  <2>2. ASSUME book' = r PROVE BookInv'
    <3> DEFINE T == {Unprotected(p) : p \in S}
    <3>1. r \in Seq(T)
      BY <1>s
    <3>2. \A i \in DOMAIN book : r[i].symbol = book[i].symbol
      BY DEF Unprotected, Position
    <3>3. Listed(r) = Listed(book)
      BY <3>2 DEF Listed
    <3> QED
      BY <2>2, <3>1, <3>3, <1>b DEF BookInv
  <2> QED
    BY <2>1, <2>2, <1>0, <1>e
<1>3. ASSUME NEW command, NEW chat, Operator(command, chat) PROVE BookInv'
  BY <1>3, <1>0 DEF Operator, bookVars
<1>4. ASSUME NEW prices, NEW connected, FetchData(prices, connected) PROVE BookInv'
  BY <1>4, <1>0 DEF FetchData, bookVars
<1>5. ASSUME NEW s \in Symbols, NEW lots, NEW recorded, PaperEntry(s, lots, recorded) PROVE BookInv'
  <2> DEFINE p == Position(s, lots, Fill(lots, price[s]), Fee(lots, Fill(lots, price[s])), 1)
  <2>1. book' = book \/ book' = Append(book, p)
    BY <1>5 DEF PaperEntry
  <2>2. p.symbol \in Symbols
    BY DEF Position
  <2> QED
    BY <2>1, <2>2, <1>0, <1>s, <1>b, Appended DEF BookInv
<1>6. ASSUME NEW s, NEW lots, NEW answered, NEW evidence, LiveEntry(s, lots, answered, evidence)
      PROVE  BookInv'
  BY <1>6, <1>0 DEF LiveEntry
<1>7. CASE NoEntry \/ Reconcile \/ Monitor
  BY <1>7, <1>0 DEF NoEntry, Reconcile, Monitor, bookVars
<1>8. ASSUME NEW s \in Symbols, Poll(s) PROVE BookInv'
  <2> DEFINE p == Position(s, atExchange[s].lots, 0, 0, 1)
  <2>1. book' = book \/ book' = Append(book, p)
    BY <1>8 DEF Poll
  <2>2. p.symbol \in Symbols
    BY DEF Position
  <2> QED
    BY <2>1, <2>2, <1>0, <1>s, <1>b, Appended DEF BookInv
<1>9. ASSUME NEW s, Exchange(s) PROVE BookInv'
  BY <1>9, <1>0 DEF Exchange, bookVars
<1>10. ASSUME NEW closed \in {{i} : i \in DOMAIN book} \cup {DOMAIN book}, Close(closed) PROVE BookInv'
  <2>1. book' = Remaining(closed)
    BY <1>10 DEF Close
  <2>2. CASE closed = DOMAIN book
    BY <2>1, <2>2, <1>e DEF Remaining
  <2>3. CASE closed # DOMAIN book
    <3>1. The(closed) \in DOMAIN book
      BY <2>3 DEF The
    <3> QED
      BY <2>1, <2>3, <3>1, <1>s, <1>b, Removed DEF Remaining, BookInv
  <2> QED
    BY <2>2, <2>3
<1>11. CASE UNCHANGED vars
  BY <1>11, <1>0 DEF vars, bookVars
<1> QED
  BY <1>1, <1>2, <1>3, <1>4, <1>5, <1>6, <1>7, <1>8, <1>9, <1>10, <1>11 DEF Next

\* Books and exchange that differ in what they hold do not reconcile, in
\* either mode.
LEMMA DifferencesAreFound == BookInv /\ Differ => Mismatch
<1> SUFFICES ASSUME BookInv, Differ PROVE Mismatch
  OBVIOUS
<1> DEFINE held == {s \in Symbols : IF IsPaper THEN positions[s] # 0 ELSE net[s] # 0}
           q == SetToSeq(held)
           x == ExchangePositions
<1>1. IsFiniteSet(held)
  BY DeskAssumption, FS_Subset
<1>2. {q[i] : i \in DOMAIN q} = held
  BY <1>1, SetToSeqLists
<1>3. held # Listed(book)
  BY DEF Differ
<1>4. Listed(x) # Listed(book)
  <2>1. CASE IsPaper
    <3>1. /\ DOMAIN x = DOMAIN q
          /\ \A i \in DOMAIN q : x[i].symbol = NoSymbol
      BY <2>1 DEF ExchangePositions
    <3>2. CASE held = {}
      <4>1. DOMAIN q = {}
        BY <1>2, <3>2
      <4> QED
        BY <1>3, <3>1, <3>2, <4>1 DEF Listed
    <3>3. CASE held # {}
      <4>1. NoSymbol \in Listed(x)
        BY <1>2, <3>1, <3>3 DEF Listed
      <4> QED
        BY <4>1, DeskAssumption DEF BookInv
    <3> QED
      BY <3>2, <3>3
  <2>2. CASE ~IsPaper
    <3>1. /\ DOMAIN x = DOMAIN q
          /\ \A i \in DOMAIN q : x[i].symbol = q[i]
      BY <2>2 DEF ExchangePositions
    <3>2. Listed(x) = held
      BY <1>2, <3>1 DEF Listed
    <3> QED
      BY <1>3, <3>2
  <2> QED
    BY <2>1, <2>2
<1>5. UnknownPositions(book, x) # {} \/ MissingPositions(book, x) # {}
  BY <1>4 DEF UnknownPositions, MissingPositions
<1> QED
  BY <1>5 DEF Mismatch, HasIssues

\* Initially no order is blind.
LEMMA BlindInit == Init => BlindInv
BY DEF Init, BlindInv

\* What an order makes of the count, when the machine may send it.
LEMMA SentOnce ==
  ASSUME WordInv, BlindInv, IsTradingActive, step # "reconcile", Sent
  PROVE  BlindInv'
<1>1. blind = 0
  BY DEF BlindInv, WordInv
<1>2. blind' \in {0, 1} /\ step' = "reconcile"
  BY <1>1 DEF Sent
<1> QED
  BY <1>2 DEF BlindInv

\* Every step keeps the count within one, and answers it with a lock when the
\* books are reconciled.
LEMMA BlindStep == WordInv /\ BookInv /\ BlindInv /\ [Next]_vars => BlindInv'
<1> SUFFICES ASSUME WordInv, BookInv, BlindInv, [Next]_vars PROVE BlindInv'
  OBVIOUS
<1>0. ASSUME blind' = blind, word' = word, step' = step PROVE BlindInv'
  BY <1>0 DEF BlindInv
<1>1. CASE Stop \/ Recovered
  BY <1>1, <1>0 DEF Stop, Recovered, EndLoop, Recover, loopVars
<1>s. CASE Start
  <2>1. word' \in {"run", "stop"} /\ step' = step /\ blind' = IF word' = "run" THEN 0 ELSE blind
    BY <1>s DEF Start, Boot, WordInv
  <2>2. word' # "run" => word' = word
    BY <1>s DEF Start, Boot
  <2> QED
    BY <2>1, <2>2 DEF BlindInv
<1>2. CASE Restart
  BY <1>2 DEF Restart, BlindInv
<1>3. ASSUME NEW command, NEW chat, Operator(command, chat) PROVE BlindInv'
  <2>1. word' \in {"run", "stop"} /\ step' = step /\ blind' = IF word' = "run" THEN 0 ELSE blind
    BY <1>3 DEF Operator, Dispatch
  <2> QED
    BY <2>1 DEF BlindInv
<1>4. ASSUME NEW prices, NEW connected, FetchData(prices, connected) PROVE BlindInv'
  BY <1>4 DEF FetchData, lifecycleVars, BlindInv
<1>5. ASSUME NEW s, NEW lots, NEW recorded, PaperEntry(s, lots, recorded) PROVE BlindInv'
  BY <1>5, SentOnce DEF PaperEntry
<1>6. ASSUME NEW s, NEW lots, NEW answered, NEW evidence, LiveEntry(s, lots, answered, evidence)
      PROVE  BlindInv'
  BY <1>6, SentOnce DEF LiveEntry, CanTradeLive, GuardPasses
<1>7. CASE NoEntry
  BY <1>7 DEF NoEntry, lifecycleVars, BlindInv
<1>8. CASE Reconcile
  <2>1. CASE Mismatch
    BY <1>8, <2>1 DEF Reconcile, Lock, BlindInv
  <2>2. CASE ~Mismatch
    BY <1>8, <2>2, DifferencesAreFound DEF Reconcile, BlindInv
  <2> QED
    BY <2>1, <2>2
<1>9. CASE Monitor
  BY <1>9 DEF Monitor, Lock, lifecycleVars, BlindInv
<1>10. ASSUME NEW s, Poll(s) \/ Exchange(s) PROVE BlindInv'
  BY <1>10, <1>0 DEF Poll, Exchange, lifecycleVars, loopVars
<1>11. ASSUME NEW closed, Close(closed) PROVE BlindInv'
  BY <1>11, <1>0 DEF Close, lifecycleVars, loopVars
<1>12. CASE UNCHANGED vars
  BY <1>12, <1>0 DEF vars, lifecycleVars, loopVars
<1> QED
  BY <1>1, <1>s, <1>2, <1>3, <1>4, <1>5, <1>6, <1>7, <1>8, <1>9, <1>10, <1>11, <1>12 DEF Next

\* Between two reports that agree, and without the operator's doing, at most
\* one order is sent while books and exchange hold different symbols.
THEOREM DifferencesCostOneOrder == Spec => []AtMostOneBlindOrder
<1>1. BlindInv => AtMostOneBlindOrder
  BY DEF BlindInv, AtMostOneBlindOrder
<1> QED
  BY <1>1, WordIsKept, BookInit, BookStep, BlindInit, BlindStep, PTL DEF Spec
=============================================================================
