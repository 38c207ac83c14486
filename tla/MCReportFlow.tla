---------------------------- MODULE MCReportFlow ----------------------------
(***************************************************************************)
(* ReportFlow for TLC.                                                     *)
(***************************************************************************)
EXTENDS ReportFlow
=============================================================================
