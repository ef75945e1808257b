----------------------------- MODULE MCRetention -----------------------------
(* Instances of Retention for TLC.                                          *)
EXTENDS Retention, TLC

CONSTANTS x, u, w, p

\* Values are told apart only by whether they are the same.
Alike == Permutations(Values)
=============================================================================
