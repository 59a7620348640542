---------------------- MODULE HistoricalIngestorProofs ----------------------
(***************************************************************************)
(* Proofs about the download of candles: its types, and that for pages of  *)
(* any size, any number of retries and ingests, nothing is lost but the    *)
(* pages that are recorded as errors.                                      *)
(***************************************************************************)
EXTENDS HistoricalIngestor, TLAPS

\* A set with a greatest element, as FiniteSetsExt's Max needs it.
HasMax(S) == \E m \in S : \A x \in S : m >= x

\* Max is the greatest element, if there is one.
LEMMA MaxIsGreatest ==
  ASSUME NEW S, S \subseteq Int, HasMax(S)
  PROVE  Max(S) \in S /\ \A x \in S : Max(S) >= x
BY DEF Max, HasMax

\* The greatest element of a page of candles.
LEMMA MaxOfPage ==
  ASSUME NEW a \in Int, NEW b \in Int, a <= b
  PROVE  Max(a .. b) = b /\ HasMax(a .. b)
<1>1. HasMax(a .. b)
  <2>1. b \in a .. b /\ \A x \in a .. b : b >= x
    OBVIOUS
  <2>. QED  BY <2>1 DEF HasMax
<1>2. Max(a .. b) \in a .. b /\ \A x \in a .. b : Max(a .. b) >= x
  BY <1>1, MaxIsGreatest
<1>. QED  BY <1>1, <1>2

-----------------------------------------------------------------------------
(* Types.                                                                  *)

\* What keeps the maximum of the cache defined: rows are added page by page.
MaxInv == (cache = {} \/ HasMax(cache)) /\ (rows = {} \/ HasMax(rows))

TypeInv == TypeOK /\ MaxInv

\* Where a resumed ingest starts.
LEMMA ResumePoint ==
  ASSUME TypeInv, Resumes
  PROVE  Max(cache) \in cache /\ Max(cache) \in Nat /\ \A x \in cache : x <= Max(cache)
<1>1. HasMax(cache) /\ cache \subseteq 0 .. tip - 1 /\ tip \in Nat
  <2>1. cache # {} /\ (cache = {} \/ HasMax(cache))
    BY DEF TypeInv, MaxInv, Resumes
  <2>2. cache \subseteq 0 .. tip - 1 /\ tip \in Nat
    BY DEF TypeInv, TypeOK
  <2>. QED  BY <2>1, <2>2
<1>2. cache \subseteq Nat /\ cache \subseteq Int
  BY <1>1
<1>3. Max(cache) \in cache /\ \A x \in cache : Max(cache) >= x
  BY <1>1, <1>2, MaxIsGreatest
<1>. QED  BY <1>2, <1>3

\* What a step that takes a page does, for both kinds of answers.
LEMMA PageTaken ==
  ASSUME TypeInv, NEW a \in Nat, NEW b \in Nat, a <= b, b < tip, cursor # NoTime, InLoop,
         Take(a .. b)
  PROVE  /\ cursor' = b + 1
         /\ rows' = rows \cup a .. b
         /\ report'.errors = report.errors /\ report'.resumed = report.resumed
         /\ TypeInv'
<1>1. cursor' = b + 1 /\ HasMax(a .. b)
  BY MaxOfPage DEF Take, After
<1>2. rows' = rows \cup a .. b
  BY DEF Take
<1>3. /\ report' \in [errors : Nat, failures : Nat, resumed : BOOLEAN]
      /\ report'.errors = report.errors /\ report'.resumed = report.resumed
  BY DEF Take, TypeInv, TypeOK
<1>4. tip' = tip /\ tip \in Nat /\ rows \subseteq 0 .. tip - 1
  BY DEF Take, TypeInv, TypeOK
<1>5. rows' \subseteq 0 .. tip' - 1
  BY <1>2, <1>4
<1>6. TypeOK'
  BY <1>1, <1>3, <1>5, LimitsAssumption DEF Take, TypeInv, TypeOK, InLoop, Time
<1>7. HasMax(rows')
  <2>1. CASE rows = {}
    BY <2>1, <1>1, <1>2
  <2>2. CASE HasMax(rows)
    <3>1. PICK m \in rows : \A x \in rows : m >= x
      BY <2>2 DEF HasMax
    <3>2. m \in Int /\ \A x \in rows : x \in Int
      BY <3>1, <1>4
    <3>3. CASE m >= b
      BY <3>1, <3>2, <3>3, <1>2 DEF HasMax
    <3>4. CASE ~(m >= b)
      <4>1. b \in rows' /\ \A x \in rows' : b >= x
        BY <3>1, <3>2, <3>4, <1>2
      <4>. QED  BY <4>1 DEF HasMax
    <3>. QED  BY <3>3, <3>4
  <2>. QED  BY <2>1, <2>2 DEF TypeInv, MaxInv
<1>8. MaxInv'
  BY <1>7 DEF Take, TypeInv, MaxInv
<1>. QED  BY <1>1, <1>2, <1>3, <1>6, <1>8 DEF TypeInv
\* TypeInv is an invariant.
LEMMA TypeInvHolds == Spec => []TypeInv
<1>1. Init => TypeInv
  <2> SUFFICES ASSUME Init  PROVE TypeInv
    OBVIOUS
  <2>1. tip \in 0 .. MaxTip /\ page \in 0 .. MaxPages /\ attempt \in 0 .. MaxRetries - 1
        /\ ingests \in 0 .. MaxIngests
    BY LimitsAssumption DEF Init
  <2>2. report \in [errors : Nat, failures : Nat, resumed : BOOLEAN]
    BY DEF Init
  <2>. QED  BY <2>1, <2>2 DEF Init, TypeInv, TypeOK, MaxInv, Time
<1>2. TypeInv /\ [Next]_vars => TypeInv'
  <2> SUFFICES ASSUME TypeInv, [Next]_vars
               PROVE  TypeInv'
    OBVIOUS
  <2> USE LimitsAssumption
  <2>1. ASSUME NEW s \in Sinces, NEW u \in Untils, Ingest(s, u)
        PROVE  TypeInv'
    <3>1. s \in Time /\ u \in Time
      BY TimesAssumption DEF Time
    <3>2. cursor' \in Time
      BY <2>1, <3>1, ResumePoint DEF Ingest, Time
    <3>3. rows' = cache \/ rows' = {}
      BY <2>1 DEF Ingest, CachedRows
    <3>4. report' \in [errors : Nat, failures : Nat, resumed : BOOLEAN]
      BY <2>1 DEF Ingest, Resumes, TypeInv, TypeOK
    <3>5. MaxInv'
      BY <2>1, <3>3 DEF Ingest, TypeInv, MaxInv
    <3>6. page' \in 0 .. MaxPages /\ attempt' \in 0 .. MaxRetries - 1
          /\ ingests' \in 0 .. MaxIngests
      BY <2>1 DEF Ingest, TypeInv, TypeOK
    <3>7. rows' \subseteq 0 .. tip' - 1
      BY <2>1, <3>3 DEF Ingest, TypeInv, TypeOK
    <3>. QED  BY <2>1, <3>1, <3>2, <3>4, <3>5, <3>6, <3>7 DEF Ingest, TypeInv, TypeOK
  <2>2. CASE LeaveLoop
    BY <2>2 DEF LeaveLoop, TypeInv, TypeOK, MaxInv
  <2>3. CASE FetchFails
    BY <2>3 DEF FetchFails, TypeInv, TypeOK, MaxInv
  <2>4. CASE GiveUp
    <3>1. report' \in [errors : Nat, failures : Nat, resumed : BOOLEAN]
      BY <2>4 DEF GiveUp, WithError, TypeInv, TypeOK
    <3>2. cursor' \in Time /\ lost' \subseteq Nat
      <4>1. CASE cursor = NoTime
        BY <2>4, <4>1 DEF GiveUp, TypeInv, TypeOK
      <4>2. CASE cursor # NoTime
        <5>1. cursor \in Nat /\ lost \subseteq Nat
          BY <4>2 DEF TypeInv, TypeOK, Time
        <5>2. cursor' = cursor + Limit /\ lost' = lost \cup cursor .. cursor + Limit - 1
          BY <2>4, <4>2 DEF GiveUp
        <5>3. cursor .. cursor + Limit - 1 \subseteq Nat
          BY <5>1
        <5>. QED  BY <5>1, <5>2, <5>3 DEF Time
      <4>. QED  BY <4>1, <4>2
    <3>3. page' \in 0 .. MaxPages
      BY <2>4 DEF GiveUp, InLoop, TypeInv, TypeOK
    <3>. QED  BY <2>4, <3>1, <3>2, <3>3 DEF GiveUp, TypeInv, TypeOK, MaxInv
  <2>5. CASE FetchEmpty
    BY <2>5 DEF FetchEmpty, TypeInv, TypeOK, MaxInv
  <2>6. ASSUME NEW n \in 1 .. Limit, FetchPage(n)
        PROVE  TypeInv'
    <3>1. cursor \in Nat /\ tip \in Nat /\ n \in Nat
      BY <2>6 DEF FetchPage, TypeInv, TypeOK, Time
    <3>2. cursor <= cursor + n - 1 /\ cursor + n - 1 < tip /\ cursor + n - 1 \in Nat
      BY <2>6, <3>1 DEF FetchPage
    <3>. QED  BY <2>6, <3>1, <3>2, PageTaken DEF FetchPage
  <2>7. CASE FetchStale
    <3>1. tip - 1 \in Nat /\ tip - 1 < tip /\ tip - 1 <= tip - 1
      BY <2>7 DEF FetchStale, TypeInv, TypeOK
    <3>. QED  BY <2>7, <3>1, PageTaken DEF FetchStale
  <2>8. CASE FetchRaises
    BY <2>8 DEF FetchRaises, TypeInv, TypeOK, MaxInv
  <2>9. CASE Save
    BY <2>9 DEF Save, TypeInv, TypeOK, MaxInv
  <2>10. CASE Crash
    <3>1. \/ cache' = cache /\ corrupt' = corrupt
          \/ cache' = {} /\ corrupt' = TRUE
      BY <2>10, Zenon DEF Crash
    <3>2. MaxInv'
      BY <2>10, <3>1 DEF Crash, TypeInv, MaxInv
    <3>3. /\ cache' \subseteq 0 .. tip' - 1 /\ corrupt' \in BOOLEAN
          /\ corrupt' => cache' = {}
      <4>1. tip' = tip /\ TypeOK
        BY <2>10 DEF Crash, TypeInv
      <4>2. CASE cache' = cache /\ corrupt' = corrupt
        BY <4>1, <4>2, Zenon DEF TypeOK
      <4>3. CASE cache' = {} /\ corrupt' = TRUE
        BY <4>3
      <4>. QED  BY <3>1, <4>2, <4>3
    <3>4. /\ phase' = "idle"
          /\ UNCHANGED <<tip, since, until, cursor, rows, page, attempt, report, ingests, lost>>
      BY <2>10 DEF Crash
    <3>. QED  BY <3>2, <3>3, <3>4 DEF TypeInv, TypeOK
  <2>11. CASE Trade
    BY <2>11 DEF Trade, call, TypeInv, TypeOK, MaxInv
  <2>12. CASE UNCHANGED vars
    BY <2>12 DEF vars, call, TypeInv, TypeOK, MaxInv
  <2>. QED  BY <2>1, <2>2, <2>3, <2>4, <2>5, <2>6, <2>7, <2>8, <2>9, <2>10, <2>11, <2>12
            DEF Next, Running
<1>. QED  BY <1>1, <1>2, PTL DEF Spec

\* Every variable keeps its type: in particular the download holds nothing the
\* exchange has not got, and no counter passes its configured limit.
THEOREM TypeCorrect == Spec => []TypeOK
<1>1. TypeInv => TypeOK
  BY DEF TypeInv
<1>. QED  BY <1>1, TypeInvHolds, PTL

-----------------------------------------------------------------------------
(* Holes.                                                                  *)

\* Everything between a downloaded candle and the cursor is there or was given
\* up, and nothing is beyond the cursor.  Without a cursor nothing is there.
PagingInv ==
  /\ cursor = NoTime => rows = {}
  /\ cursor # NoTime =>
       \A b \in rows : b < cursor /\ \A c \in b .. cursor - 1 : c \in rows \cup lost

\* PagingInv makes a download without holes of its own making.
LEMMA PagingLeavesNoHole ==
  ASSUME TypeInv, PagingInv
  PROVE  NoHole(rows)
<1> SUFFICES ASSUME NEW a \in rows, NEW b \in rows, NEW c \in a .. b
             PROVE  c \in rows \cup lost
  BY DEF NoHole
<1>1. cursor # NoTime /\ cursor \in Int /\ a \in Int /\ b \in Int /\ c \in Int
  BY DEF PagingInv, TypeInv, TypeOK, Time
<1>2. b < cursor /\ c \in a .. cursor - 1
  BY <1>1 DEF PagingInv
<1>. QED  BY <1>1, <1>2 DEF PagingInv

HolesInv == PagingInv /\ NoHole(cache)

\* A page that starts no later than the cursor and ends no earlier than what is
\* downloaded keeps PagingInv: it reaches from its first candle to the new cursor.
LEMMA PageKeepsPagingInv ==
  ASSUME TypeInv, PagingInv, NEW a \in Nat, NEW b \in Nat, a <= b,
         cursor # NoTime, a <= cursor, \A x \in rows : x <= b,
         cursor' = b + 1, rows' = rows \cup a .. b, lost' = lost
  PROVE  PagingInv'
<1>1. cursor \in Int /\ \A x \in rows : x \in Int /\ x < cursor
  BY DEF PagingInv, TypeInv, TypeOK, Time
<1>2. cursor' # NoTime
  BY NoTimeAssumption
<1>3. ASSUME NEW x \in rows'
      PROVE  x < cursor' /\ \A c \in x .. cursor' - 1 : c \in rows' \cup lost'
  <2>1. x \in Int /\ x <= b
    BY <1>1
  <2>2. ASSUME NEW c \in x .. cursor' - 1
        PROVE  c \in rows' \cup lost'
    <3>1. c \in Int /\ c <= b
      BY <2>1
    <3>2. CASE c >= a
      BY <3>1, <3>2
    <3>3. CASE c < a
      <4>1. x \in rows /\ c \in x .. cursor - 1
        BY <1>1, <2>1, <3>1, <3>3
      <4>. QED  BY <4>1 DEF PagingInv
    <3>. QED  BY <3>1, <3>2, <3>3
  <2>. QED  BY <2>1, <2>2
<1>. QED  BY <1>2, <1>3 DEF PagingInv

\* HolesInv is an invariant.
LEMMA HolesInvHolds == Spec => []HolesInv
<1>1. Init => HolesInv
  BY DEF Init, HolesInv, PagingInv, NoHole
<1>2. TypeInv /\ HolesInv /\ [Next]_vars => HolesInv'
  <2> SUFFICES ASSUME TypeInv, HolesInv, [Next]_vars
               PROVE  HolesInv'
    OBVIOUS
  <2>0. PagingInv /\ NoHole(cache)
    BY DEF HolesInv
  <2>1. ASSUME NEW s \in Sinces, NEW u \in Untils, Ingest(s, u)
        PROVE  HolesInv'
    <3>1. NoHole(cache)'
      BY <2>0, <2>1 DEF Ingest, NoHole
    <3>2. CASE Resumes
      <4>1. rows' = cache /\ cursor' = Max(cache) + 1 /\ lost' = lost
        BY <2>1, <3>2 DEF Ingest, CachedRows
      <4>2. Max(cache) \in cache /\ Max(cache) \in Nat /\ \A x \in cache : x <= Max(cache)
        BY <3>2, ResumePoint
      <4>3. cursor' # NoTime /\ cache \subseteq Int
        BY <4>1, <4>2, NoTimeAssumption DEF TypeInv, TypeOK
      <4>4. ASSUME NEW b \in rows'
            PROVE  b < cursor' /\ \A c \in b .. cursor' - 1 : c \in rows' \cup lost'
        BY <2>0, <4>1, <4>2, <4>3 DEF NoHole
      <4>. QED  BY <3>1, <4>3, <4>4 DEF HolesInv, PagingInv
    <3>3. CASE ~Resumes
      <4>1. rows' = {}
        BY <2>1, <3>3 DEF Ingest, CachedRows
      <4>. QED  BY <3>1, <4>1 DEF HolesInv, PagingInv
    <3>. QED  BY <3>2, <3>3
  <2>2. CASE UNCHANGED <<cache, rows, cursor, lost>>
    BY <2>0, <2>2 DEF HolesInv, PagingInv, NoHole
  <2>3. CASE GiveUp
    <3>1. rows' = rows /\ cache' = cache /\ lost \subseteq lost'
      BY <2>3 DEF GiveUp
    <3>2. NoHole(cache)'
      BY <2>0, <3>1 DEF NoHole
    <3>3. CASE cursor = NoTime
      BY <2>3, <2>0, <3>2, <3>3 DEF GiveUp, HolesInv, PagingInv
    <3>4. CASE cursor # NoTime
      <4>1. cursor' = cursor + Limit /\ lost' = lost \cup cursor .. cursor + Limit - 1
        BY <2>3, <3>4 DEF GiveUp
      <4>2. cursor \in Nat /\ Limit \in Nat /\ rows \subseteq Int
        BY <3>4, LimitsAssumption DEF TypeInv, TypeOK, Time
      <4>3. cursor' # NoTime
        BY <4>1, <4>2, NoTimeAssumption
      <4>4. ASSUME NEW b \in rows', NEW c \in b .. cursor' - 1
            PROVE  b < cursor' /\ c \in rows' \cup lost'
        <5>1. b \in rows /\ b < cursor /\ b \in Int /\ c \in Int
          BY <2>0, <3>1, <3>4, <4>2 DEF PagingInv
        <5>2. CASE c < cursor
          <6>1. c \in b .. cursor - 1
            BY <4>2, <5>1, <5>2
          <6>. QED  BY <2>0, <3>1, <3>4, <4>1, <4>2, <5>1, <6>1 DEF PagingInv
        <5>3. CASE ~(c < cursor)
          BY <4>1, <4>2, <5>1, <5>3
        <5>. QED  BY <5>1, <5>2, <5>3, <4>1, <4>2
      <4>5. \A b \in rows' : b < cursor'
        BY <2>0, <3>1, <3>4, <4>1, <4>2 DEF PagingInv
      <4>. QED  BY <3>2, <4>3, <4>4, <4>5 DEF HolesInv, PagingInv
    <3>. QED  BY <3>3, <3>4
  <2>4. ASSUME NEW n \in 1 .. Limit, FetchPage(n)
        PROVE  HolesInv'
    <3>1. cursor \in Nat /\ tip \in Nat /\ n \in Nat /\ cursor # NoTime /\ n >= 1
      BY <2>4 DEF FetchPage, TypeInv, TypeOK, Time
    <3>2. cursor <= cursor + n - 1 /\ cursor + n - 1 < tip /\ cursor + n - 1 \in Nat
      BY <2>4, <3>1 DEF FetchPage
    <3>3. cursor' = cursor + n - 1 + 1 /\ rows' = rows \cup cursor .. cursor + n - 1
      BY <2>4, <3>1, <3>2, PageTaken DEF FetchPage
    <3>4. \A x \in rows : x <= cursor + n - 1
      BY <2>0, <3>1 DEF PagingInv, TypeInv, TypeOK
    <3>5. cache' = cache /\ lost' = lost
      BY <2>4 DEF FetchPage, Take
    <3>6. PagingInv'
      BY <2>0, <3>1, <3>2, <3>3, <3>4, <3>5, PageKeepsPagingInv
    <3>. QED  BY <2>0, <3>5, <3>6 DEF HolesInv, NoHole
  <2>5. CASE FetchStale
    <3>1. /\ tip - 1 \in Nat /\ tip - 1 < tip /\ tip - 1 <= tip - 1
          /\ cursor # NoTime /\ cursor \in Nat /\ tip - 1 <= cursor
      BY <2>5 DEF FetchStale, TypeInv, TypeOK, Time
    <3>2. cursor' = tip - 1 + 1 /\ rows' = rows \cup tip - 1 .. tip - 1
      BY <2>5, <3>1, PageTaken DEF FetchStale
    <3>3. \A x \in rows : x <= tip - 1
      BY DEF TypeInv, TypeOK
    <3>4. cache' = cache /\ lost' = lost
      BY <2>5 DEF FetchStale, Take
    <3>5. PagingInv'
      BY <2>0, <3>1, <3>2, <3>3, <3>4, PageKeepsPagingInv
    <3>. QED  BY <2>0, <3>4, <3>5 DEF HolesInv, NoHole
  <2>6. CASE Save
    <3>1. UNCHANGED <<rows, cursor, lost>> /\ cache' \in {rows, cache}
      BY <2>6 DEF Save
    <3>2. NoHole(rows)
      BY <2>0, PagingLeavesNoHole
    <3>. QED  BY <2>0, <3>1, <3>2 DEF HolesInv, PagingInv, NoHole
  <2>7. CASE Crash
    <3>1. UNCHANGED <<rows, cursor, lost>> /\ cache' \in {{}, cache}
      BY <2>7 DEF Crash
    <3>. QED  BY <2>0, <3>1 DEF HolesInv, PagingInv, NoHole
  <2>. QED  BY <2>1, <2>2, <2>3, <2>4, <2>5, <2>6, <2>7
            DEF Next, Running, LeaveLoop, FetchFails, FetchEmpty, FetchRaises, Trade, call, vars
<1>. QED  BY <1>1, <1>2, TypeInvHolds, PTL DEF Spec

\* Pages of any size, resumes, crashes and late answers leave no hole in the
\* download or in the cache but the pages that were given up.
THEOREM OnlyFailuresLoseCandles == Spec => []OnlyFailuresLeaveHoles
<1>1. TypeInv /\ HolesInv => OnlyFailuresLeaveHoles
  BY PagingLeavesNoHole DEF HolesInv, OnlyFailuresLeaveHoles
<1>. QED  BY <1>1, TypeInvHolds, HolesInvHolds, PTL

-----------------------------------------------------------------------------
(* The cache.                                                              *)

\* An ingest has taken over what the cache holds.
KeepInv == phase # "idle" => cache \subseteq rows

\* KeepInv is an invariant.
LEMMA KeepInvHolds == Spec => []KeepInv
<1>1. Init => KeepInv
  BY DEF Init, KeepInv
<1>2. TypeInv /\ KeepInv /\ [Next]_vars => KeepInv'
  <2> SUFFICES ASSUME TypeInv, KeepInv, [Next]_vars
               PROVE  KeepInv'
    OBVIOUS
  <2>1. ASSUME NEW s \in Sinces, NEW u \in Untils, Ingest(s, u)
        PROVE  KeepInv'
    <3>1. corrupt => cache = {}
      BY DEF TypeInv, TypeOK
    <3>2. cache \subseteq CachedRows
      BY <3>1 DEF CachedRows, Resumes
    <3>. QED  BY <2>1, <3>2 DEF Ingest, KeepInv
  <2>2. ASSUME NEW batch, phase # "idle", Take(batch)
        PROVE  KeepInv'
    BY <2>2 DEF Take, KeepInv
  <2>3. ASSUME NEW n \in 1 .. Limit, FetchPage(n)
        PROVE  KeepInv'
    BY <2>2, <2>3 DEF FetchPage, InLoop
  <2>4. CASE FetchStale
    BY <2>2, <2>4 DEF FetchStale, InLoop
  <2>5. CASE GiveUp
    BY <2>5 DEF GiveUp, InLoop, KeepInv
  <2>. QED  BY <2>1, <2>3, <2>4, <2>5
            DEF Next, Running, LeaveLoop, FetchFails, FetchEmpty, FetchRaises, Save, Crash,
                Trade, InLoop, call, vars, KeepInv
<1>. QED  BY <1>1, <1>2, TypeInvHolds, PTL DEF Spec

\* What is saved stays saved, unless the process dies while it writes.
THEOREM NothingSavedIsLost == Spec => CacheNeverShrinks
<1>1. KeepInv /\ [Next]_vars => [cache \subseteq cache' \/ corrupt']_cache
  <2> SUFFICES ASSUME KeepInv, Next
               PROVE  cache \subseteq cache' \/ corrupt' \/ cache' = cache
    BY DEF vars
  <2>1. CASE Save
    BY <2>1 DEF Save, KeepInv
  <2>2. CASE Crash
    BY <2>2 DEF Crash
  <2>. QED  BY <2>1, <2>2
            DEF Next, Running, Ingest, LeaveLoop, FetchFails, GiveUp, FetchEmpty, FetchPage,
                FetchStale, Take, FetchRaises, Trade
<1>. QED  BY <1>1, KeepInvHolds, PTL DEF Spec, CacheNeverShrinks

-----------------------------------------------------------------------------
(* Reports.                                                                *)

Clean == phase # "idle" /\ report.errors = 0 /\ ~report.resumed /\ since # NoTime

\* Without an error, an ingest that did not resume has every candle from its
\* start up to the cursor.
CleanInv ==
  Clean => cursor # NoTime /\ \A c \in since .. cursor - 1 : c \in rows

\* CleanInv is an invariant.
LEMMA CleanInvHolds == Spec => []CleanInv
<1>1. Init => CleanInv
  BY DEF Init, CleanInv, Clean
<1>2. TypeInv /\ CleanInv /\ [Next]_vars => CleanInv'
  <2> SUFFICES ASSUME TypeInv, CleanInv, [Next]_vars, Clean'
               PROVE  (cursor # NoTime /\ \A c \in since .. cursor - 1 : c \in rows)'
    BY DEF CleanInv
  <2>1. ASSUME NEW s \in Sinces, NEW u \in Untils, Ingest(s, u)
        PROVE  (cursor # NoTime /\ \A c \in since .. cursor - 1 : c \in rows)'
    <3>1. ~Resumes /\ since' = s /\ s # NoTime
      BY <2>1 DEF Ingest, Clean
    <3>2. cursor' = s /\ s \in Nat
      BY <2>1, <3>1, TimesAssumption DEF Ingest
    <3>. QED  BY <3>1, <3>2
  <2>2. ASSUME NEW a \in Nat, NEW b \in Nat, a <= b, b < tip, a <= cursor,
               cursor # NoTime, InLoop, Take(a .. b)
        PROVE  (cursor # NoTime /\ \A c \in since .. cursor - 1 : c \in rows)'
    <3>1. cursor' = b + 1 /\ rows' = rows \cup a .. b
          /\ report'.errors = report.errors /\ report'.resumed = report.resumed
      BY <2>2, PageTaken
    <3>2. since' = since /\ Clean /\ cursor \in Nat /\ since \in Nat
      BY <2>2, <3>1 DEF Take, InLoop, Clean, TypeInv, TypeOK, Time
    <3>3. ASSUME NEW c \in since .. b
          PROVE  c \in rows'
      <4>1. CASE c >= a
        BY <3>1, <3>2, <4>1
      <4>2. CASE c < a
        <5>1. c \in since .. cursor - 1
          BY <2>2, <3>2, <4>2
        <5>. QED  BY <3>1, <3>2, <5>1 DEF CleanInv
      <4>. QED  BY <3>2, <4>1, <4>2
    <3>4. cursor' # NoTime /\ since' .. cursor' - 1 = since .. b
      BY <3>1, <3>2, NoTimeAssumption
    <3>. QED  BY <3>3, <3>4
  <2>3. ASSUME NEW n \in 1 .. Limit, FetchPage(n)
        PROVE  (cursor # NoTime /\ \A c \in since .. cursor - 1 : c \in rows)'
    <3>1. cursor \in Nat /\ tip \in Nat /\ n \in Nat /\ cursor # NoTime
      BY <2>3 DEF FetchPage, TypeInv, TypeOK, Time
    <3>2. cursor <= cursor + n - 1 /\ cursor + n - 1 < tip /\ cursor + n - 1 \in Nat
          /\ cursor <= cursor
      BY <2>3, <3>1 DEF FetchPage
    <3>. QED  BY <2>3, <3>1, <3>2, <2>2 DEF FetchPage
  <2>4. CASE FetchStale
    <3>1. tip - 1 \in Nat /\ tip - 1 < tip /\ tip - 1 <= tip - 1 /\ tip - 1 <= cursor
          /\ cursor # NoTime
      BY <2>4 DEF FetchStale, TypeInv, TypeOK, Time
    <3>. QED  BY <2>4, <3>1, <2>2 DEF FetchStale
  <2>5. CASE GiveUp
    <3>1. report'.errors = report.errors + 1 /\ report.errors \in Nat
      BY <2>5 DEF GiveUp, WithError, TypeInv, TypeOK
    <3>. QED  BY <3>1 DEF Clean
  <2>. QED  BY <2>1, <2>3, <2>4, <2>5
            DEF Next, Running, LeaveLoop, FetchFails, FetchEmpty, FetchRaises, Save, Crash,
                Trade, InLoop, call, vars, Clean, CleanInv
<1>. QED  BY <1>1, <1>2, TypeInvHolds, PTL DEF Spec

\* A report without errors, of an ingest that did not resume, is of a download
\* without a missing candle between its start and its end.
THEOREM CleanReportsAreComplete == Spec => []CleanReportIsComplete
<1>1. TypeInv /\ PagingInv /\ CleanInv => CleanReportIsComplete
  <2> SUFFICES ASSUME TypeInv, PagingInv, CleanInv,
                      phase = "save", report.errors = 0, ~report.resumed, since # NoTime,
                      NEW b \in rows, NEW c \in since .. b
               PROVE  c \in rows
    BY DEF CleanReportIsComplete
  <2>1. cursor # NoTime /\ \A x \in since .. cursor - 1 : x \in rows
    BY DEF CleanInv, Clean
  <2>2. b < cursor /\ cursor \in Int /\ b \in Int /\ since \in Int
    BY <2>1 DEF PagingInv, TypeInv, TypeOK, Time
  <2>. QED  BY <2>1, <2>2
<1>. QED  BY <1>1, TypeInvHolds, HolesInvHolds, CleanInvHolds, PTL DEF HolesInv
=============================================================================
