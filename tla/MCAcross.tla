------------------------------ MODULE MCAcross ------------------------------
(* Instances of Across for TLC: a transaction over two ranges.              *)
EXTENDS Across

CONSTANTS a, b
=============================================================================
