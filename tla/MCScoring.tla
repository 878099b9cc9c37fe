------------------------------ MODULE MCScoring ------------------------------
(* Scoring for TLC. *)
EXTENDS Scoring

MCTimestamp == {-1, 1, 2, 3}
==============================================================================
