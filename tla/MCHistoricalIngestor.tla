------------------------ MODULE MCHistoricalIngestor ------------------------
(***************************************************************************)
(* A small ingestor for TLC: pages of two candles, three pages, two        *)
(* attempts, six candles, three ingests that resume one another.           *)
(***************************************************************************)
EXTENDS HistoricalIngestor

MCSinces == {0, 1, NoTime}
MCUntils == {3, NoTime}
=============================================================================
