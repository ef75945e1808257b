---------------------------- MODULE MCWriteGate ----------------------------
(* Instances of WriteGate for TLC.                                          *)
EXTENDS WriteGate, TLC

CONSTANTS t1, t2, t3, r1, k1, k2, h1, h2

\* t1 and t2 write one record; everything else writes another.
SharedRecord == [t \in Tasks |-> IF t \in {t1, t2} THEN {k1} ELSE {k2}]

\* t1 and t2 are alike in every instance's constants.
Alike == Permutations({t1, t2})

\* Every writer files in one log, and the apply carries its first record.
OneLog == [t \in Tasks |-> h1]
\* Each record is filed in a log of its own.
TwoLogs == [t \in Tasks |-> IF t \in {t1, t2} THEN h1 ELSE h2]
FirstRecord == [t \in Appliers |-> 1]
=============================================================================
