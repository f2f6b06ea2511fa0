----------------------------- MODULE MC_Q1Desk -----------------------------
(***************************************************************************)
(* The desk with one share of settled cash and two held shares at the      *)
(* start.                                                                  *)
(***************************************************************************)
EXTENDS Q1Desk, TLC

WorkerSymmetry == Permutations(Workers)
=============================================================================
