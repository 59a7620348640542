------------------------- MODULE HistoricalIngestor -------------------------
(***************************************************************************)
(* The paginated download of candles (data/historical_ingestor.py) with    *)
(* its retries, its skipping of pages that fail for good, and its cache    *)
(* file, from which the next ingest resumes.                               *)
(*                                                                         *)
(* Time is counted in candles: candle c opens at c timeframes, and a       *)
(* cursor in milliseconds is the first candle at or after it, so that the  *)
(* code's last_ts + 1 is last + 1.  The exchange is external: it has a     *)
(* candle for every timeframe up to now, may answer with fewer than asked  *)
(* for, fail, or answer a request beyond its newest candle with that one.  *)
(* What a candle holds is left out.                                        *)
(***************************************************************************)
EXTENDS Integers, FiniteSets, FiniteSetsExt

CONSTANTS
  Sinces, Untils,  \* since_ms and until_ms that ingestors are configured with
  Limit,           \* limit_per_page
  MaxPages,        \* max_pages
  MaxRetries,      \* max_retries
  MaxTip,          \* bound: candles of the exchange
  MaxIngests,      \* bound: calls of ingest
  NoTime           \* model value: None

ASSUME TimesAssumption ==
  Sinces \subseteq Nat \cup {NoTime} /\ Untils \subseteq (Nat \ {0}) \cup {NoTime}
ASSUME NoTimeAssumption == NoTime \notin Nat
ASSUME LimitsAssumption ==
  /\ Limit \in Nat \ {0} /\ MaxPages \in Nat /\ MaxRetries \in Nat \ {0}
  /\ MaxTip \in Nat /\ MaxIngests \in Nat

VARIABLES
  tip,       \* external: the exchange has the candles before tip
  cache,     \* the candles in the cache file, {} if there is no file
  corrupt,   \* the cache file cannot be read
  phase,     \* "idle", "fetch" in the loop of ingest, "save" behind it
  since, until, cursor, rows, page,
  attempt,   \* attempt of _fetch_page
  report,    \* fetch_errors and pagination_failures, as numbers, and resumed
  ingests,   \* calls of ingest so far
  lost       \* history: candles of the pages given up, in all ingests

call == <<phase, since, until, cursor, rows, page, attempt, report>>
vars == <<tip, cache, corrupt, call, ingests, lost>>

-----------------------------------------------------------------------------
Init ==
  /\ tip = 0
  /\ cache = {} /\ corrupt = FALSE
  /\ phase = "idle"
  /\ since = NoTime /\ until = NoTime /\ cursor = NoTime
  /\ rows = {} /\ page = 0 /\ attempt = 0
  /\ report = [errors |-> 0, failures |-> 0, resumed |-> FALSE]
  /\ ingests = 0 /\ lost = {}

Resumes == ~corrupt /\ cache # {}

\* A bug: the rows of the cache are not taken over.
BugCachedRows == {}

CachedRows == IF Resumes THEN cache ELSE {}

\* ingest, up to its loop.  The cache is found by exchange, symbol and
\* timeframe alone, whatever since was when it was made.
Ingest(s, u) ==
  /\ phase = "idle" /\ ingests < MaxIngests
  /\ phase' = "fetch"
  /\ since' = s /\ until' = u
  /\ rows' = CachedRows
  /\ cursor' = IF Resumes THEN Max(cache) + 1 ELSE s
  /\ page' = 0 /\ attempt' = 0
  /\ report' = [errors |-> IF corrupt THEN 1 ELSE 0, failures |-> 0, resumed |-> Resumes]
  /\ ingests' = ingests + 1
  /\ UNCHANGED <<tip, cache, corrupt, lost>>

\* A bug: one page more.
BugInLoop ==
  /\ phase = "fetch" /\ page <= MaxPages
  /\ ~(until # NoTime /\ cursor # NoTime /\ cursor >= until)

\* The loop's condition and the break at its head.
InLoop ==
  /\ phase = "fetch" /\ page < MaxPages
  /\ ~(until # NoTime /\ cursor # NoTime /\ cursor >= until)

LeaveLoop ==
  /\ phase = "fetch" /\ ~InLoop
  /\ phase' = "save"
  /\ UNCHANGED <<tip, cache, corrupt, since, until, cursor, rows, page, attempt,
                 report, ingests, lost>>

\* fetch_ohlcv raises, and _fetch_page tries again.
FetchFails ==
  /\ InLoop /\ attempt + 1 < MaxRetries
  /\ attempt' = attempt + 1
  /\ UNCHANGED <<tip, cache, corrupt, phase, since, until, cursor, rows, page,
                 report, ingests, lost>>

\* A bug: the error is lost with the page.
BugWithError == report

WithError == [report EXCEPT !.errors = @ + 1]

\* A bug: the page is not skipped but fetched again.
BugGiveUp ==
  /\ InLoop /\ attempt + 1 >= MaxRetries
  /\ attempt' = 0
  /\ UNCHANGED <<tip, cache, corrupt, phase, since, until, cursor, rows, page,
                 report, ingests, lost>>

\* The last attempt raises: the page is recorded as an error and skipped.
GiveUp ==
  /\ InLoop /\ attempt + 1 >= MaxRetries
  /\ report' = WithError
  /\ attempt' = 0
  /\ \/ /\ cursor = NoTime
        /\ phase' = "save"
        /\ UNCHANGED <<cursor, page, lost>>
     \/ /\ cursor # NoTime
        /\ cursor' = cursor + Limit
        /\ page' = page + 1
        /\ lost' = lost \cup cursor .. cursor + Limit - 1
        /\ UNCHANGED phase
  /\ UNCHANGED <<tip, cache, corrupt, since, until, rows, ingests>>

\* Nothing at or after the cursor, or nothing at all.
FetchEmpty ==
  /\ InLoop
  /\ IF cursor = NoTime THEN tip = 0 ELSE cursor >= tip
  /\ phase' = "save"
  /\ UNCHANGED <<tip, cache, corrupt, since, until, cursor, rows, page, attempt,
                 report, ingests, lost>>

\* A bug: the next page starts one timeframe after the last candle, and a bit.
BugAfter(last) == last + 2

\* The cursor after a page that ends with candle last.
After(last) == last + 1

\* The loop body for a page of these candles.
Take(batch) ==
  /\ rows' = rows \cup batch
  /\ cursor' = After(Max(batch))
  /\ report' = IF cursor' > cursor THEN report ELSE [report EXCEPT !.failures = @ + 1]
  /\ page' = page + 1
  /\ attempt' = 0
  /\ UNCHANGED <<tip, cache, corrupt, phase, since, until, ingests, lost>>

\* A page of n candles, which is what was asked for or what the exchange allows.
FetchPage(n) ==
  /\ InLoop /\ cursor # NoTime /\ cursor + n <= tip
  /\ Take(cursor .. cursor + n - 1)

\* Nothing is newer, and the exchange answers with its newest candle.
FetchStale ==
  /\ InLoop /\ cursor # NoTime /\ cursor >= tip /\ tip > 0
  /\ Take(tip - 1 .. tip - 1)

\* Without a start the cursor cannot be compared: ingest raises a TypeError
\* behind its first page.
FetchRaises ==
  /\ InLoop /\ cursor = NoTime /\ tip > 0
  /\ phase' = "idle"
  /\ UNCHANGED <<tip, cache, corrupt, since, until, cursor, rows, page, attempt,
                 report, ingests, lost>>

\* The rows are written unless there are none; ingest returns.
Save ==
  /\ phase = "save"
  /\ phase' = "idle"
  /\ IF rows = {} THEN UNCHANGED <<cache, corrupt>> ELSE cache' = rows /\ corrupt' = FALSE
  /\ UNCHANGED <<tip, since, until, cursor, rows, page, attempt, report, ingests, lost>>

\* The process dies; if it was writing, the file may be left half written.
Crash ==
  /\ phase # "idle"
  /\ phase' = "idle"
  /\ \/ UNCHANGED <<cache, corrupt>>
     \/ phase = "save" /\ rows # {} /\ cache' = {} /\ corrupt' = TRUE
  /\ UNCHANGED <<tip, since, until, cursor, rows, page, attempt, report, ingests, lost>>

Trade ==
  /\ tip < MaxTip
  /\ tip' = tip + 1
  /\ UNCHANGED <<cache, corrupt, call, ingests, lost>>

\* The steps of a call of ingest.
Running ==
  \/ LeaveLoop \/ FetchFails \/ GiveUp \/ FetchEmpty
  \/ \E n \in 1 .. Limit : FetchPage(n)
  \/ FetchStale \/ FetchRaises \/ Save

Next ==
  \/ \E s \in Sinces, u \in Untils : Ingest(s, u)
  \/ Running
  \/ Crash \/ Trade

\* A call of ingest keeps running, as fetch_ohlcv returns or raises.
Spec == Init /\ [][Next]_vars /\ WF_vars(Running)

-----------------------------------------------------------------------------
(* Properties.                                                             *)

Time == Nat \cup {NoTime}

TypeOK ==
  /\ tip \in 0 .. MaxTip
  /\ cache \subseteq 0 .. tip - 1 /\ corrupt \in BOOLEAN
  /\ corrupt => cache = {}
  /\ phase \in {"idle", "fetch", "save"}
  /\ since \in Time /\ until \in Time /\ cursor \in Time
  /\ rows \subseteq 0 .. tip - 1
  /\ page \in 0 .. MaxPages /\ attempt \in 0 .. MaxRetries - 1
  /\ report \in [errors : Nat, failures : Nat, resumed : BOOLEAN]
  /\ ingests \in 0 .. MaxIngests
  /\ lost \subseteq Nat

NoHole(candles) ==
  \A a, b \in candles : \A c \in a .. b : c \in candles \cup lost

\* "Never silently discards failed pages" (historical_ingestor.py:4): between
\* the first and the last candle of what is downloaded or cached, pages, caps,
\* resumes and late answers lose nothing but the pages recorded as errors.
OnlyFailuresLeaveHoles == NoHole(cache) /\ NoHole(rows)

\* A report without errors, of an ingest that did not resume, is of a download
\* that has every candle from its start to its last one.
CleanReportIsComplete ==
  phase = "save" /\ report.errors = 0 /\ ~report.resumed /\ since # NoTime =>
    \A b \in rows : since .. b \subseteq rows

\* An ingest never loses what an earlier one has saved, unless the process dies
\* while it writes the file.
CacheNeverShrinks == [][cache \subseteq cache' \/ corrupt']_cache

\* A call of ingest leaves its loop, whatever the exchange answers.
IngestReturns == phase = "fetch" ~> phase # "fetch"
=============================================================================
