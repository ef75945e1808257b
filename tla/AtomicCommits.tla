---------------------------- MODULE AtomicCommits ----------------------------
(***************************************************************************)
(* What the commit path promises its callers, without turns, groups or     *)
(* tickets: commits take effect one after another in one history, a        *)
(* transaction begins at a point of it that holds everything acknowledged  *)
(* before, first committer wins, and an answer says what happened.         *)
(***************************************************************************)
EXTENDS Integers, Sequences

CONSTANTS Txns, Appliers, Writes, None

VARIABLES
    history,   \* the writers that took effect, in order
    snapshot,  \* [Txns -> how much of the history each began at, or None]
    reply      \* [Txns \cup Appliers -> "ok", "refused", "unknown", or None]

vars == <<history, snapshot, reply>>

Writers == Txns \cup Appliers

Init ==
    /\ history = <<>>
    /\ snapshot = [t \in Txns |-> None]
    /\ reply = [t \in Writers |-> None]

TookEffect(t) == \E i \in 1..Len(history) : history[i] = t

\* A transaction begins at or after everything acknowledged.
Begin(t) ==
    /\ snapshot[t] = None
    /\ \E n \in 0..Len(history) :
         /\ \A i \in 1..Len(history) : reply[history[i]] = "ok" => i <= n
         /\ snapshot' = [snapshot EXCEPT ![t] = n]
    /\ UNCHANGED <<history, reply>>

\* Some writers take effect, each once and over nothing it did not see.
Extend ==
    /\ Len(history) <= Len(history')
    /\ history = SubSeq(history', 1, Len(history))
    /\ \A j \in Len(history) + 1 .. Len(history') :
         /\ ~TookEffect(history'[j])
         /\ reply[history'[j]] = None \/ reply[history'[j]] = "unknown"
         /\ history'[j] \in Txns =>
              /\ snapshot[history'[j]] # None
              /\ \A i \in snapshot[history'[j]] + 1 .. j - 1 :
                   Writes[history'[i]] \cap Writes[history'[j]] = {}

\* Some writers are answered, once each: "ok" only of what took effect,
\* "refused" only of what did not and never will.
Answer ==
    \A t \in Writers :
        \/ reply'[t] = reply[t]
        \/ /\ reply[t] = None
           /\ reply'[t] \in {"ok", "refused", "unknown"}
           /\ reply'[t] = "ok" => TookEffect(t)
           /\ reply'[t] = "refused" => ~TookEffect(t)'

Next ==
    \/ \E t \in Txns : Begin(t)
    \/ Extend /\ Answer /\ UNCHANGED snapshot

Spec == Init /\ [][Next]_vars
=============================================================================
