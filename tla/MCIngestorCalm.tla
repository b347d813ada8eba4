--------------------------- MODULE MCIngestorCalm ---------------------------
(***************************************************************************)
(* The instances of MCIngestor, with the schedule watched.                 *)
(***************************************************************************)
EXTENDS IngestorCalm, MCIngestor
=============================================================================
