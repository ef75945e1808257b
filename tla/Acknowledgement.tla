--------------------------- MODULE Acknowledgement ---------------------------
(***************************************************************************)
(* A write that waits until a majority of the voters holds it (tessari-    *)
(* session: session/acknowledging.rs; tessari-storage: holds.rs; tessari-  *)
(* wire: collection/serving.rs), over the elections, writes and copies of  *)
(* Leadership.                                                             *)
(*                                                                         *)
(* A node remembers how far it sent its log to each follower, and how far  *)
(* the follower's latest report says it holds it, which counts no further  *)
(* than it was sent.  A write that has landed waits for enough reports,    *)
(* for one round time of the failover policy, from the landing and not     *)
(* from the lease.  A report may come at any time, so it has no state.     *)
(***************************************************************************)
EXTENDS Leadership

VARIABLES
    sent,       \* how far each candidate's log was sent to each node, in memory
    waits,      \* the writes that wait for their copies
    acked       \* history: the writes whose callers were told a majority holds them

ackVars == <<sent, waits, acked>>

Nothing == [f \in Nodes |-> 0]

\* The copies a write needs beside its leader's: a majority of the voters, less one.
Needed == Cardinality(Nodes) \div 2

\* A record lands, and its caller begins to wait.
LandAndWait(n) ==
    /\ Land(n)
    /\ waits' = IF log' = log THEN waits
                ELSE waits \cup {[by |-> n, at |-> Len(log'[n]), under |-> lease[n].epoch, since |-> now]}
    /\ UNCHANGED <<sent, acked>>

\* What a report of f counts for at n: the first position f does not hold is stated,
\* and only what n sent counts (Holds::asked).
Counted(n, f) == Smaller(Len(log[f]), sent[n][f])

\* A node is asked for the next record and sends it (Serving::collecting).  The
\* follower takes it, or the answer is lost, or it is refused as deposed or parted.
Send(f, n) ==
    /\ f # n /\ Len(log[f]) < Len(log[n])
    /\ sent' = [sent EXCEPT ![n][f] = Larger(@, Len(log[f]) + 1)]
    /\ Collect(f, n) \/ (sent' # sent /\ UNCHANGED vars)
    /\ UNCHANGED <<waits, acked>>

\* The nodes whose reports may have come by now: what a report counts for never shrinks,
\* so the latest one the writer can have counts for Counted.
Holders(w) == {f \in Nodes \ {w.by} : Counted(w.by, f) >= w.at}

\* Enough copies are reported to hold the write: its caller is told so.  The count is read before the
\* clock, so a wait found late is answered all the same (Holds::await_held).
Acknowledge(w) ==
    /\ Cardinality(Holders(w)) >= Needed
    /\ acked' = acked \cup {[at |-> w.at, rec |-> log[w.by][w.at], under |-> w.under]}
    /\ waits' = waits \ {w}
    /\ UNCHANGED <<vars, sent>>

\* The wait runs out: the write stands, and its caller is told it is not acknowledged.
RunOut(w) ==
    /\ MayBeOver(now, w.since, RoundTime)
    /\ waits' = waits \ {w}
    /\ UNCHANGED <<vars, sent, acked>>

\* A node starts again: it knows nothing of its followers, and nobody waits.
RestartUnheld(n) ==
    /\ Restart(n)
    /\ sent' = IF n \in Candidates THEN [sent EXCEPT ![n] = Nothing] ELSE sent
    /\ waits' = {w \in waits : w.by # n}
    /\ UNCHANGED acked

\* Time passes; no waiting write is left standing beyond its wait.
TickInTime == Tick /\ (\A w \in waits : now - w.since < RoundTime) /\ UNCHANGED ackVars

\* What the rest of a node's life leaves alone here.
Elect(n) == Pass(n) \/ Open(n) \/ Close(n) \/ Name(n) \/ Admit(n) \/ RefuseFenced(n)

AckInit ==
    /\ Init
    /\ sent = [n \in Candidates |-> Nothing]
    /\ waits = {} /\ acked = {}

AckNext ==
    \/ TickInTime
    \/ (\E b \in ballots : Answer(b)) /\ UNCHANGED ackVars
    \/ \E n \in Nodes :
         \/ Elect(n) /\ UNCHANGED ackVars
         \/ LandAndWait(n) \/ RestartUnheld(n)
         \/ \E m \in Candidates : Send(n, m)
         \/ \E m \in Nodes \ Candidates : Collect(n, m) /\ UNCHANGED ackVars
    \/ \E w \in waits : Acknowledge(w) \/ RunOut(w)

AckSpec == AckInit /\ [][AckNext]_<<vars, ackVars>>

-----------------------------------------------------------------------------
(* Properties.                                                             *)

\* A write acknowledged by a majority is in the log of every node that leads after the
\* leadership it was written under (acknowledging.rs: "a write a majority of them holds
\* is held by every majority that can elect one").
AckedIsKept ==
    \A a \in acked : \A p \in led : p[1] > a.under =>
        Len(log[p[2]]) >= a.at /\ log[p[2]][a.at] = a.rec
=============================================================================
