--------------------------- MODULE MCIngestIndex ---------------------------
(* The constants of MCIngest for ingestion with the view of a reader.        *)
EXTENDS IngestIndex, MCIngest

=============================================================================
