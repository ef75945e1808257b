---------------------------- MODULE MCLeadership ----------------------------
(* Instances of Leadership for TLC: clusters of three.                      *)
EXTENDS Leadership

CONSTANTS a, b, c

\* Three members that reach each other.
Everyone == [n \in {a, b, c} |-> {a, b, c}]

\* Three members, where b's ballots reach c alone.
OneWay == [n \in {a, b, c} |-> IF n = a THEN {b, c} ELSE {c}]
=============================================================================
