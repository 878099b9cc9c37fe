--------------------------- MODULE MCAnalysisPage ---------------------------
(* AnalysisPage for TLC.                                                   *)
EXTENDS AnalysisPage
=============================================================================
