----------------------------- MODULE MCExportJobs -----------------------------
(* Small instances of ExportJobs for TLC. *)
EXTENDS ExportJobs, TLC

CONSTANTS j1, j2

MCJobs == {j1, j2}
MCWindow == (j1 :> {1, 2}) @@ (j2 :> {2})
MCCopyJobs == {j1}
===============================================================================
