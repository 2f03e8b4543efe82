--------------------------- MODULE MCExportStore ---------------------------
(* Three exports with two contents; the clock may pass the deadlines and come *)
(* back.  A refused request is one of 2 records, or of an unknown format.     *)
EXTENDS ExportStore, TLC
=============================================================================
