--------------------------- MODULE MCAcrossReads ---------------------------
(* Instances of AcrossReads for TLC: two ranges, one reading transaction.   *)
EXTENDS AcrossReads

CONSTANTS a, b

\* No state past a settle that overtook T's begin: what readers are promised ends there.
NotOvertaken == ~overtaken
=============================================================================
