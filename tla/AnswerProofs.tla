---------------------------- MODULE AnswerProofs ----------------------------
(***************************************************************************)
(* What the commit path's answers are worth, for any number of writers and *)
(* any faults: positions without a gap, refusals that stay refusals,       *)
(* acknowledgements that are readable and survive, tickets that leave      *)
(* nothing behind, and batches that land on what they were derived from.   *)
(***************************************************************************)
EXTENDS WriteGateProofs

-----------------------------------------------------------------------------
(* What a step does to the engine.                                         *)

\* The engine takes a front of what the landing, or the turn's holder, offers it.
TakesGroup ==
    /\ \E t \in Tasks : pc[t] = "flushing"
    /\ \E n \in Judged(SubSeq(queue, 1, cut)) : Takes(SubSeq(queue, 1, cut), n)
TakesOwn(t) ==
    /\ pc[t] = "applying"
    /\ \E n \in Judged(<<batch[t]>>) : Takes(<<batch[t]>>, n)

LEMMA AppliesSplit ==
    ASSUME NEW g, NEW answer, Applies(g, answer)
    PROVE  \/ answer.n \in Judged(g) /\ Takes(g, answer.n)
           \/ UNCHANGED <<log, version, tail>>
BY DEF Applies, Accepted, Fails

LEMMA EngineSteps ==
    ASSUME Inv, [Next]_vars
    PROVE  \/ UNCHANGED <<log, version, tail>>
           \/ TakesGroup
           \/ \E t \in Tasks : TakesOwn(t)
           \/ Reopen
<1>1. ASSUME NEW t \in Tasks, Step(t)
      PROVE  UNCHANGED <<log, version, tail>> \/ TakesGroup \/ TakesOwn(t)
  <2>1. CASE Flush(t)
    <3>1. pc[t] = "flushing" /\ \E answer : Applies(SubSeq(queue, 1, cut), answer)
      BY <2>1 DEF Flush
    <3>. QED
      BY <3>1, AppliesSplit DEF TakesGroup
  <2>2. CASE Apply(t)
    <3>1. CASE stopped # None
      BY <2>2, <3>1 DEF Apply, engine
    <3>2. CASE stopped = None
      <4>1. pc[t] = "applying" /\ \E answer : Applies(<<batch[t]>>, answer)
        BY <2>2, <3>2 DEF Apply
      <4>. QED
        BY <4>1, AppliesSplit DEF TakesOwn
    <3>. QED
      BY <3>1, <3>2
  <2>3. CASE \/ Begin(t) \/ GiveUp(t) \/ Hold(t) \/ Derive(t) \/ Conflicted(t) \/ Stage(t)
             \/ EnterLand(t) \/ Collect(t) \/ TakeGroup(t) \/ Park(t) \/ Record(t)
             \/ Settle(t) \/ Drained(t) \/ Place(t)
    BY <2>3 DEF Begin, GiveUp, Hold, Derive, Conflicted, Stage, EnterLand, Collect, TakeGroup,
                Park, Record, Settle, Drained, Place, engine
  <2>. QED
    BY <1>1, <2>1, <2>2, <2>3 DEF Step
<1>2. ASSUME NEW t \in Tasks, Cancel(t) PROVE UNCHANGED <<log, version, tail>>
  BY <1>2 DEF Cancel, engine
<1>3. ASSUME NEW t \in Tasks, CancelApply(t)
      PROVE  UNCHANGED <<log, version, tail>> \/ TakesOwn(t)
  BY <1>3 DEF CancelApply, AppliesUnheard, engine, TakesOwn
<1>4. ASSUME NEW t \in Tasks, Abandon(t)
      PROVE  UNCHANGED <<log, version, tail>> \/ TakesGroup
  BY <1>4 DEF Abandon, AppliesUnheard, engine, TakesGroup
<1>5. CASE UNCHANGED vars
  BY <1>5 DEF vars
<1>. QED
  BY <1>1, <1>2, <1>3, <1>4, <1>5 DEF Next, Finished

-----------------------------------------------------------------------------
(* Positions.                                                              *)

\* The records of log h among the first n batches of s.
FiledIn(s, h, n) == {i \in 1..n : s[i].home = h}

\* Each log's tail counts its records.
TailCounts == \A h \in Homes : tail[h] = Cardinality(FiledIn(log, h, Len(log)))

Positions == TailCounts /\ DensePositions

\* Records filed in the first m batches and in the k after them are counted apart.
LEMMA FiledTogether ==
    ASSUME NEW g, NEW h, NEW m \in Nat, NEW k \in Nat,
           \A i \in 1..m : log'[i] = log[i], \A i \in 1..k : log'[m + i] = g[i]
    PROVE  Cardinality(FiledIn(log', h, m + k)) = Cardinality(FiledIn(log, h, m)) + Cardinality(FiledIn(g, h, k))
<1>. DEFINE A == FiledIn(log, h, m)
            C == FiledIn(g, h, k)
            B == {i \in m + 1 .. m + k : log'[i].home = h}
<1>1. FiledIn(log', h, m + k) = A \cup B /\ A \cap B = {}
  BY DEF FiledIn
<1>2. IsFiniteSet(A) /\ IsFiniteSet(C)
  <2>1. IsFiniteSet(1..m) /\ IsFiniteSet(1..k) /\ A \in SUBSET (1..m) /\ C \in SUBSET (1..k)
    BY FS_Interval DEF FiledIn
  <2>. QED
    BY <2>1, FS_Subset
<1>3. ExistsBijection(C, B)
  <2>. DEFINE f == [i \in C |-> m + i]
  <2>1. \A i \in C : i \in 1..k /\ m + i \in B
    BY DEF FiledIn
  <2>2. f \in [C -> B]
    BY <2>1
  <2>3. \A i, j \in C : f[i] = f[j] => i = j
    BY <2>1
  <2>4. \A j \in B : \E i \in C : f[i] = j
    <3>1. SUFFICES ASSUME NEW j \in B PROVE (j - m) \in C /\ m + (j - m) = j
      BY <2>1
    <3>. QED
      BY DEF FiledIn
  <2>. QED
    BY <2>2, <2>3, <2>4 DEF ExistsBijection, Bijection, Injection, IsInjective, Surjection
<1>4. IsFiniteSet(B) /\ Cardinality(B) = Cardinality(C)
  BY <1>2, <1>3, FS_Bijection
<1>5. Cardinality(A \cup B) = Cardinality(A) + Cardinality(B) - Cardinality({})
  BY <1>1, <1>2, <1>4, FS_Union
<1>6. Cardinality({}) = 0 /\ Cardinality(A) \in Nat /\ Cardinality(B) \in Nat
  BY <1>2, <1>4, FS_EmptySet, FS_CardinalityType
<1>. HIDE DEF A, B, C
<1>7. Cardinality(A \cup B) = Cardinality(A) + Cardinality(C)
  BY <1>4, <1>5, <1>6
<1>. QED
  BY <1>1, <1>7 DEF A, C

\* Batches that hold are filed at the positions their logs have next.
LEMMA TakesPositions ==
    ASSUME TypeOK, DenseVersions, Positions, NEW g \in Seq(Member), NEW n \in Judged(g), Takes(g, n)
    PROVE  Positions'
<1>1. n \in 0..Len(g) /\ \A i \in 1..n : Holds(g, i)
  BY DEF Judged
<1>2. /\ Len(log') = Len(log) + n /\ \A i \in 1..Len(log) : log'[i] = log[i]
      /\ \A i \in 1..n : log'[Len(log) + i] = g[i]
  BY <1>1, TakesAppends
<1>3. Len(log) \in Nat /\ n \in Nat /\ log \in Seq(Member) /\ \A i \in 1..n : g[i] \in Member
  BY <1>1, LenProperties, ElementOfSeq DEF TypeOK
<1>4. \A h \in Homes : tail'[h] = tail[h] + Cardinality(FiledIn(g, h, n))
  BY DEF Takes, FiledIn
<1>5. TailCounts'
  <2>1. ASSUME NEW h \in Homes PROVE tail'[h] = Cardinality(FiledIn(log', h, Len(log')))
    <3>. DEFINE m == Len(log)
    <3>1. m \in Nat /\ (\A l \in 1..m : log'[l] = log[l]) /\ \A l \in 1..n : log'[m + l] = g[l]
      BY <1>2, <1>3
    <3>. HIDE DEF m
    <3>2. Cardinality(FiledIn(log', h, m + n)) = Cardinality(FiledIn(log, h, m)) + Cardinality(FiledIn(g, h, n))
      BY <1>3, <3>1, FiledTogether
    <3>. QED
      BY <1>2, <1>4, <3>2 DEF Positions, TailCounts, m
  <2>. QED
    BY <2>1 DEF TailCounts
<1>6. ASSUME NEW i \in 1..Len(log')
      PROVE  log'[i].pos = Cardinality(FiledIn(log', log'[i].home, i))
  <2>1. CASE i \in 1..Len(log)
    <3>1. FiledIn(log', log'[i].home, i) = FiledIn(log, log[i].home, i)
      BY <1>2, <1>3, <2>1 DEF FiledIn
    <3>. QED
      BY <1>2, <2>1, <3>1 DEF Positions, DensePositions, FiledIn
  <2>2. CASE i \notin 1..Len(log)
    <3>. DEFINE j == i - Len(log)
    <3>1. j \in 1..n /\ j \in Nat /\ i = Len(log) + j
      BY <1>2, <1>3, <2>2
    <3>. HIDE DEF j
    <3>2. log'[i] = g[j] /\ g[j].home \in Homes
      BY <1>2, <1>3, <3>1, MemberFields
    <3>3. g[j].pos = tail[g[j].home] + Cardinality(FiledIn(g, g[j].home, j))
      BY <1>1, <3>1 DEF Holds, FiledIn
    <3>. DEFINE m == Len(log)
    <3>4. m \in Nat /\ (\A l \in 1..m : log'[l] = log[l]) /\ \A l \in 1..j : log'[m + l] = g[l]
      BY <1>2, <1>3, <3>1
    <3>. HIDE DEF m
    <3>5. Cardinality(FiledIn(log', g[j].home, m + j))
             = Cardinality(FiledIn(log, g[j].home, m)) + Cardinality(FiledIn(g, g[j].home, j))
      BY <3>1, <3>4, FiledTogether
    <3>. QED
      BY <3>1, <3>2, <3>3, <3>5 DEF Positions, TailCounts, m
  <2>. QED
    BY <2>1, <2>2
<1>7. DensePositions'
  BY <1>6 DEF DensePositions, FiledIn
<1>. QED
  BY <1>5, <1>7 DEF Positions

LEMMA ReopenPositions ==
    ASSUME Inv, Positions, Reopen
    PROVE  Positions'
<1>. DEFINE n == IF hole = None THEN Len(log) ELSE hole
<1>1. Len(log) \in Nat /\ n \in Nat /\ n <= Len(log) /\ log \in Seq(Member)
  BY LenProperties DEF Inv, TypeOK, Reads
<1>2. log' = SubSeq(log, 1, n) /\ tail' = [h \in Homes |-> Cardinality({i \in 1..n : log[i].home = h})]
  BY DEF Reopen
<1>. HIDE DEF n
<1>3. Len(log') = n /\ \A i \in 1..n : i \in 1..Len(log) /\ log'[i] = log[i]
  BY <1>1, <1>2
<1>4. \A h : \A i \in 0..n : FiledIn(log', h, i) = FiledIn(log, h, i)
  BY <1>1, <1>3 DEF FiledIn
<1>5. TailCounts'
  <2>1. \A h \in Homes : tail'[h] = Cardinality(FiledIn(log, h, n))
    BY <1>2 DEF FiledIn
  <2>. QED
    BY <1>1, <1>3, <1>4, <2>1 DEF TailCounts
<1>6. \A i \in 1..Len(log') : log'[i].pos = Cardinality(FiledIn(log', log'[i].home, i))
  BY <1>1, <1>3, <1>4 DEF Positions, DensePositions, FiledIn
<1>7. DensePositions'
  BY <1>6 DEF DensePositions, FiledIn
<1>. QED
  BY <1>5, <1>7 DEF Positions

LEMMA NextPositions == Inv /\ Positions /\ [Next]_vars => Positions'
<1>. SUFFICES ASSUME Inv, Positions, [Next]_vars PROVE Positions'
  OBVIOUS
<1>1. CASE UNCHANGED <<log, version, tail>>
  BY <1>1 DEF Positions, TailCounts, DensePositions, FiledIn
<1>2. CASE TakesGroup
  BY <1>2, GroupInFlight, TakesPositions DEF TakesGroup, Inv, Chain
<1>3. ASSUME NEW t \in Tasks, TakesOwn(t) PROVE Positions'
  BY <1>3, BatchChecked, TakesPositions DEF TakesOwn, Inv, Chain
<1>4. CASE Reopen
  BY <1>4, ReopenPositions
<1>. QED
  BY <1>1, <1>2, <1>3, <1>4, EngineSteps

\* The positions of every log are dense in the order their batches landed, although
\* a tail is read from what is pending and may fail before the batch derived on it
\* lands (committed_tail under the turn, the batch's precondition).
THEOREM LogsAreDense == Spec => []DensePositions
<1>. DEFINE I == Inv /\ Positions
<1>1. Init => I
  <2>1. Init => Positions
    BY FS_EmptySet DEF Init, Positions, TailCounts, DensePositions, FiledIn
  <2>. QED
    BY <2>1, InitInv
<1>2. I /\ [Next]_vars => I'
  BY NextInv, NextPositions
<1>3. I => DensePositions
  BY DEF Positions
<1>. QED
  BY <1>1, <1>2, <1>3, PTL DEF Spec

-----------------------------------------------------------------------------
(* Answers.                                                                *)

Landed(t) == \E i \in 1..Len(log) : log[i].txn = t
Queued(t) == \E i \in 1..Len(queue) : queue[i].txn = t

\* A ticket dropped before its answer is still queued, and so is one awaited.
TicketOf(t) ==
    /\ t \in gone => Queued(t) /\ told[t] \in {"gone", "stopped"}
    /\ told[t] # None => pc[t] = "done"
    /\ t \in Txns /\ pc[t] \in Waiting /\ answers[t] = None => Queued(t)
    /\ ~Grouped /\ t \in Txns => pc[t] \notin Waiting

\* Where a task has nothing in the engine: before it has staged or applied, and
\* whenever it is about to be, or was, refused.
Before == {"idle", "queued", "holding", "derived", "applying", "draining", "drained"}
UnlandedOf(t) ==
    /\ pc[t] \in Before => ~Landed(t)
    /\ t \in Appliers /\ pc[t] \notin {"collected", "done"} => ~Landed(t)
    /\ answers[t] \in {"conflict", "busy"} => ~Landed(t)
    /\ pc[t] = "collected" /\ result[t] \in {"conflict", "busy"} => ~Landed(t)
    /\ told[t] \in Refusals \cup {"noop"} => ~Landed(t)
    /\ ~Grouped /\ told[t] = "stopped" => ~Landed(t)

\* Whether nothing acknowledged can be lost: no sync fails, the store is never
\* opened again, or no two batches share a sync.
Lossless == "io" \notin Faults \/ "reopen" \notin Faults \/ ~Grouped

\* An "ok" is of a batch that landed where its version says, and is published
\* before it is kept or told.
LandedAs(t) == batch[t].version \in 1..Len(log) /\ log[batch[t].version].txn = t
AckedOf(t) ==
    /\ answers[t] = "ok" => LandedAs(t) /\ batch[t].version <= landed
    /\ pc[t] = "collected" /\ result[t] = "ok" => LandedAs(t)
    /\ Lossless /\ told[t] = "ok" => \E i \in 1..Len(log) : log[i].txn = t /\ i <= landed

\* No task is in the engine twice; what a landing has taken and not recorded is
\* there, and what is still to land is not.
Once ==
    /\ \A i, j \in 1..Len(log) : log[i].txn = log[j].txn => i = j
    /\ \A j \in outcome.n + 1 .. Len(queue) : ~Landed(queue[j].txn)
    /\ \A i \in 1..outcome.n : queue[i].version \in 1..Len(log) /\ log[queue[i].version] = queue[i]

\* Where syncs do not fail there is no hole; where they are not shared nothing is
\* written behind one.
Durable ==
    /\ "io" \notin Faults => hole = None
    /\ ~Grouped /\ hole # None => hole = Len(log) /\ stopped # None

TaskTold(t) == TicketOf(t) /\ UnlandedOf(t) /\ AckedOf(t)
Told == Once /\ Durable /\ \A t \in Tasks : TaskTold(t)

\* A step of one task that leaves the engine and the queue alone.
LEMMA QuietTold ==
    ASSUME Inv, Told, NEW t \in Tasks, UNCHANGED <<log, queue, outcome, hole>>,
           landed <= landed', landed' \in Nat, stopped # None => stopped' # None,
           \A u \in Tasks \ {t} : /\ pc'[u] = pc[u] /\ answers'[u] = answers[u] /\ told'[u] = told[u]
                                  /\ result'[u] = result[u] /\ batch'[u] = batch[u]
                                  /\ (u \in gone' => u \in gone),
           TaskTold(t)'
    PROVE  Told'
<1>1. (\A u : Landed(u)' <=> Landed(u)) /\ (\A u : Queued(u)' <=> Queued(u))
  BY DEF Landed, Queued
<1>2. Once'
  BY <1>1 DEF Told, Once
<1>3. Durable'
  BY DEF Told, Durable
<1>4. ASSUME NEW u \in Tasks \ {t} PROVE TaskTold(u)'
  <2>1. TicketOf(u)'
    BY <1>1 DEF Told, TaskTold, TicketOf
  <2>2. UnlandedOf(u)'
    BY <1>1 DEF Told, TaskTold, UnlandedOf
  <2>3. AckedOf(u)'
    <3>1. landed \in Nat /\ Len(log) \in Nat
      BY LenProperties DEF Inv, TypeOK
    <3>2. LandedAs(u) => batch[u].version \in Nat
      BY <3>1 DEF LandedAs
    <3>3. LandedAs(u)' <=> LandedAs(u)
      BY DEF LandedAs
    <3>4. /\ answers[u] = "ok" => LandedAs(u) /\ batch[u].version <= landed
          /\ pc[u] = "collected" /\ result[u] = "ok" => LandedAs(u)
          /\ Lossless /\ told[u] = "ok" => \E i \in 1..Len(log) : log[i].txn = u /\ i <= landed
      BY DEF Told, TaskTold, AckedOf
    <3>5. answers'[u] = "ok" => LandedAs(u)' /\ batch'[u].version <= landed'
      BY <3>1, <3>2, <3>3, <3>4
    <3>6. Lossless /\ told'[u] = "ok" => \E i \in 1..Len(log') : log'[i].txn = u /\ i <= landed'
      BY <3>1, <3>4
    <3>. QED
      BY <3>3, <3>4, <3>5, <3>6 DEF AckedOf
  <2>. QED
    BY <2>1, <2>2, <2>3 DEF TaskTold
<1>. QED
  BY <1>2, <1>3, <1>4 DEF Told

\* What is known of a task that holds no ticket.
LEMMA Ticketless ==
    ASSUME Inv, Told, NEW t \in Tasks, pc[t] \notin Waiting, pc[t] # "done"
    PROVE  answers[t] = None /\ told[t] = None /\ t \notin gone
<1>1. answers[t] = None
  BY DEF Inv, Owned, AnswersTrue
<1>2. told[t] = None
  BY DEF Told, TaskTold, TicketOf
<1>. QED
  BY <1>1, <1>2, GateAssumption DEF Told, TaskTold, TicketOf, Replies

\* Steps of a task before it has staged or applied anything.
LEMMA EarlyTold ==
    ASSUME Inv, Told, NEW t \in Tasks,
           \/ Begin(t) \/ GiveUp(t) \/ Hold(t) \/ Derive(t) \/ Conflicted(t)
           \/ Drained(t) \/ Place(t)
    PROVE  Told'
<1>1. /\ UNCHANGED <<log, queue, outcome, hole, answers, gone, landed, stopped, result>>
      /\ pc[t] \in Before
      /\ \A u \in Tasks \ {t} : pc'[u] = pc[u] /\ told'[u] = told[u] /\ batch'[u] = batch[u]
  BY DEF Inv, TypeOK, Begin, GiveUp, Hold, Derive, Conflicted, Drained, Place, engine, pending, gate, Before
<1>2. \/ pc'[t] \in Before /\ told'[t] = told[t]
      \/ pc'[t] = "done" /\ told'[t] \in Refusals \cup {"noop"}
  BY DEF Inv, TypeOK, Begin, GiveUp, Hold, Derive, Conflicted, Drained, Place, Before, Refusals
<1>3. answers[t] = None /\ told[t] = None /\ t \notin gone
  BY <1>1, Ticketless DEF Before, Waiting
<1>4. ~Landed(t) /\ ~Landed(t)'
  BY <1>1 DEF Told, TaskTold, UnlandedOf, Landed
<1>5. TaskTold(t)'
  <2>1. TicketOf(t)'
    BY <1>1, <1>2, <1>3, GateAssumption DEF TicketOf, Before, Waiting, Refusals
  <2>2. UnlandedOf(t)'
    BY <1>4 DEF UnlandedOf
  <2>3. AckedOf(t)'
    BY <1>1, <1>2, <1>3, GateAssumption DEF AckedOf, Before, Refusals, Replies, Results
  <2>. QED
    BY <2>1, <2>2, <2>3 DEF TaskTold
<1>6. landed \in Nat
  BY DEF Inv, TypeOK
<1>. QED
  BY <1>1, <1>5, <1>6, QuietTold

\* Steps of a task that has a ticket, short of its landing.
LEMMA WaiterTold ==
    ASSUME Inv, Told, NEW t \in Tasks, EnterLand(t) \/ TakeGroup(t) \/ Park(t)
    PROVE  Told'
<1>1. /\ UNCHANGED <<log, queue, outcome, hole, landed, stopped, result, batch>>
      /\ \A u \in Tasks \ {t} : /\ pc'[u] = pc[u] /\ told'[u] = told[u] /\ answers'[u] = answers[u]
                                /\ (u \in gone' => u \in gone)
  BY DEF Inv, TypeOK, EnterLand, TakeGroup, Park, DropTicket, engine, pending, gate
<1>2. \/ /\ answers'[t] = answers[t] /\ gone' = gone /\ told'[t] = told[t]
         /\ pc[t] \in Waiting \/ (pc[t] = "draining" /\ t \in Appliers)
         /\ pc[t] \notin {"flushing", "flushed"} /\ pc'[t] \in Waiting
      \/ /\ answers'[t] = None /\ told'[t] = "stopped" /\ pc'[t] = "done"
         /\ t \in gone' => t \in gone \/ answers[t] = None
         /\ pc[t] \in Waiting /\ t \in Txns
  BY DEF Inv, TypeOK, TurnHeld, EnterLand, TakeGroup, Park, Waits, DropTicket, engine, pending, gate, Waiting
<1>3. (Landed(t)' <=> Landed(t)) /\ (Queued(t)' <=> Queued(t)) /\ (LandedAs(t)' <=> LandedAs(t))
  BY <1>1 DEF Landed, Queued, LandedAs
<1>4. TaskTold(t) /\ t \notin Txns \cap Appliers
  BY GateAssumption DEF Told
<1>5. TicketOf(t)'
  BY <1>2, <1>3, <1>4 DEF TaskTold, TicketOf, Waiting
<1>6. UnlandedOf(t)'
  BY <1>2, <1>3, <1>4, GateAssumption DEF TaskTold, UnlandedOf, TicketOf, Waiting, Before, Refusals
<1>7. AckedOf(t)'
  BY <1>1, <1>2, <1>3, <1>4, GateAssumption DEF TaskTold, AckedOf, Waiting, Replies, Results
<1>8. landed \in Nat
  BY DEF Inv, TypeOK
<1>. QED
  BY <1>1, <1>5, <1>6, <1>7, <1>8, QuietTold DEF TaskTold

\* A waiter takes the answer kept for it.
LEMMA CollectTold ==
    ASSUME Inv, Told, NEW t \in Tasks, Collect(t)
    PROVE  Told'
<1>1. /\ UNCHANGED <<log, queue, outcome, hole, landed, stopped, batch, told, gone>>
      /\ \A u \in Tasks \ {t} : pc'[u] = pc[u] /\ answers'[u] = answers[u] /\ result'[u] = result[u]
      /\ pc[t] \in {"look", "woken"} /\ pc'[t] = "collected" /\ answers[t] # None
      /\ result'[t] = answers[t] /\ answers'[t] = None
  BY DEF Inv, TypeOK, Collect, engine, gate
<1>2. (Landed(t)' <=> Landed(t)) /\ (Queued(t)' <=> Queued(t)) /\ (LandedAs(t)' <=> LandedAs(t))
  BY <1>1 DEF Landed, Queued, LandedAs
<1>3. TaskTold(t) /\ told[t] = None /\ t \notin Appliers
  BY <1>1, GateAssumption DEF Told, TaskTold, TicketOf, Inv, TurnHeld
<1>4. TicketOf(t)'
  BY <1>1, <1>2, <1>3 DEF TaskTold, TicketOf, Waiting
<1>5. UnlandedOf(t)'
  BY <1>1, <1>2, <1>3, GateAssumption DEF TaskTold, UnlandedOf, Before, Refusals, Replies, Results, Failures
<1>6. AckedOf(t)'
  BY <1>1, <1>2, <1>3, GateAssumption DEF TaskTold, AckedOf, Replies, Results
<1>7. landed \in Nat
  BY DEF Inv, TypeOK
<1>. QED
  BY <1>1, <1>4, <1>5, <1>6, <1>7, QuietTold DEF TaskTold

\* What a collected answer does.
LEMMA SettleTold ==
    ASSUME Inv, Told, NEW t \in Tasks, Settle(t)
    PROVE  Told'
<1>1. /\ UNCHANGED <<log, queue, outcome, hole, batch, gone, answers>>
      /\ \A u \in Tasks \ {t} : pc'[u] = pc[u] /\ told'[u] = told[u] /\ result'[u] = result[u]
      /\ pc[t] = "collected" /\ result'[t] = None
      /\ landed' = IF result[t] = "ok" THEN Larger(landed, batch[t].version) ELSE landed
      /\ stopped' = StopOn(result[t])
  BY DEF Inv, TypeOK, Settle, engine, pending
<1>2. \/ pc'[t] = "queued" /\ told'[t] = told[t] /\ result[t] = "conflict" /\ t \in Txns
      \/ pc'[t] = "done" /\ told'[t] = result[t]
  BY DEF Inv, TypeOK, Settle
<1>3. (Landed(t)' <=> Landed(t)) /\ (Queued(t)' <=> Queued(t))
  BY <1>1 DEF Landed, Queued
<1>4. /\ answers[t] = None /\ told[t] = None /\ t \notin gone
      /\ TaskTold(t) /\ result[t] \in Results \cup {None}
      /\ landed \in Nat /\ Len(log) \in Nat
  BY <1>1, Ticketless, LenProperties DEF Told, Waiting, Inv, TypeOK
<1>5. TicketOf(t)'
  BY <1>1, <1>2, <1>4 DEF TicketOf, Waiting
<1>6. UnlandedOf(t)'
  BY <1>1, <1>2, <1>3, <1>4, GateAssumption
     DEF TaskTold, UnlandedOf, Before, Refusals, Replies, Results, Failures
<1>7. result[t] = "ok" => /\ batch[t].version \in 1..Len(log) /\ log[batch[t].version].txn = t
                          /\ batch[t].version <= landed' /\ landed' \in Nat
  BY <1>1, <1>4 DEF TaskTold, AckedOf, LandedAs, Larger
<1>8. AckedOf(t)'
  BY <1>1, <1>2, <1>4, <1>7, GateAssumption DEF AckedOf, Replies, Results
<1>9. landed' \in Nat /\ landed <= landed' /\ (stopped # None => stopped' # None)
  BY <1>1, <1>4, <1>7 DEF Larger, StopOn
<1>. QED
  BY <1>1, <1>5, <1>6, <1>8, <1>9, QuietTold DEF TaskTold

\* A task dropped at an await: its ticket is remembered only while it is queued.
LEMMA CancelTold ==
    ASSUME Inv, Told, NEW t \in Tasks, Cancel(t)
    PROVE  Told'
<1>1. /\ UNCHANGED <<log, queue, outcome, hole, batch, landed, stopped, result>>
      /\ \A u \in Tasks \ {t} : /\ pc'[u] = pc[u] /\ told'[u] = told[u] /\ answers'[u] = answers[u]
                                /\ (u \in gone' => u \in gone)
      /\ pc'[t] = "done" /\ told'[t] = "gone"
  BY DEF Inv, TypeOK, Cancel, Dropped, DropTicket, engine
<1>2. \/ t \in Txns /\ pc[t] \in Waiting /\ answers'[t] = None /\ (t \in gone' => t \in gone \/ answers[t] = None)
      \/ answers'[t] = answers[t] /\ (t \in gone' => t \in gone)
         /\ ~(t \in Txns /\ pc[t] \in {"woken", "parked"}) /\ pc[t] \notin {"look", "staged", "flushing", "flushed"}
  BY DEF Inv, TypeOK, Cancel, DropTicket, Waiting
<1>3. (Landed(t)' <=> Landed(t)) /\ (Queued(t)' <=> Queued(t))
  BY <1>1 DEF Landed, Queued
<1>4. answers'[t] = None
  <2>1. answers[t] # None => pc[t] \in Waiting /\ t \in Txns
    BY DEF Inv, Owned, AnswersTrue
  <2>. QED
    BY <1>2, <2>1 DEF Waiting
<1>5. TaskTold(t)
  BY DEF Told
<1>6. TicketOf(t)'
  BY <1>1, <1>2, <1>3, <1>5 DEF TaskTold, TicketOf, Waiting
<1>7. UnlandedOf(t)'
  BY <1>1, <1>3, <1>4, GateAssumption DEF UnlandedOf, Before, Refusals, Replies, Results, Failures
<1>8. AckedOf(t)'
  BY <1>1, <1>4, GateAssumption DEF AckedOf, Replies, Results
<1>9. landed \in Nat
  BY DEF Inv, TypeOK
<1>. QED
  BY <1>1, <1>6, <1>7, <1>8, <1>9, QuietTold DEF TaskTold

\* A batch is staged behind the queue, and its ticket with it.
LEMMA StageTold ==
    ASSUME Inv, Told, NEW t \in Tasks, Stage(t)
    PROVE  Told'
<1>1. /\ UNCHANGED <<log, outcome, hole, answers, gone, landed, stopped, result, told>>
      /\ \A u \in Tasks \ {t} : pc'[u] = pc[u] /\ batch'[u] = batch[u]
      /\ pc[t] = "derived" /\ t \in Txns
  BY DEF Inv, TypeOK, TurnHeld, Stage, engine
<1>2. \A u : Landed(u)' <=> Landed(u)
  BY <1>1 DEF Landed
<1>3. answers[t] = None /\ told[t] = None /\ t \notin gone /\ ~Landed(t) /\ TaskTold(t)
  BY <1>1, Ticketless DEF Told, TaskTold, UnlandedOf, Before, Waiting
<1>4. /\ Len(queue) \in Nat /\ outcome.n \in Nat /\ outcome.n <= Len(queue)
      /\ queue \in Seq(Member) /\ batch[t] \in Member /\ batch[t].txn = t
  BY <1>1, LenProperties DEF Inv, TypeOK, Outcome, Shape, Owned, BatchHeld
<1>5. \/ Grouped /\ pc'[t] = "staged" /\ queue' = Append(queue, Versioned(t))
      \/ ~Grouped /\ pc'[t] = "applying" /\ queue' = queue
  BY DEF Inv, TypeOK, Stage
<1>6. Versioned(t).txn = t
  BY <1>4 DEF Versioned, Member
<1>7. /\ \A i \in 1..Len(queue) : i \in 1..Len(queue') /\ queue'[i] = queue[i]
      /\ Len(queue') >= Len(queue)
      /\ \A i \in 1..Len(queue') : i \in 1..Len(queue) \/ queue'[i].txn = t
      /\ Grouped => \E i \in 1..Len(queue') : queue'[i].txn = t
  <2>. DEFINE m == Versioned(t)
  <2>. HIDE DEF m
  <2>1. CASE ~Grouped
    BY <1>4, <1>5, <2>1
  <2>2. CASE Grouped
    <3>1. /\ Len(queue') = Len(queue) + 1 /\ queue'[Len(queue) + 1] = m
          /\ \A i \in 1..Len(queue) : queue'[i] = queue[i]
      BY <1>4, <1>5, <2>2, AppendProperties DEF m
    <3>. QED
      BY <1>4, <1>6, <3>1 DEF m
  <2>. QED
    BY <2>1, <2>2
<1>8. \A u : Queued(u) => Queued(u)'
  BY <1>7 DEF Queued
<1>9. Once'
  <2>1. (\A j \in outcome.n + 1 .. Len(queue) : ~Landed(queue[j].txn))'
    <3>1. SUFFICES ASSUME NEW j \in outcome.n + 1 .. Len(queue') PROVE ~Landed(queue'[j].txn)
      BY <1>1 DEF Landed
    <3>2. j \in 1..Len(queue')
      BY <1>4, <1>7
    <3>3. CASE j \in 1..Len(queue)
      BY <1>4, <1>7, <3>3 DEF Told, Once
    <3>. QED
      BY <1>3, <1>7, <3>2, <3>3
  <2>2. \A i \in 1..outcome.n : queue'[i] = queue[i]
    BY <1>4, <1>7
  <2>. QED
    BY <1>1, <2>1, <2>2 DEF Told, Once
<1>10. Durable'
  BY <1>1 DEF Told, Durable
<1>11. ASSUME NEW u \in Tasks \ {t} PROVE TaskTold(u)'
  <2>1. TaskTold(u)
    BY DEF Told
  <2>2. TicketOf(u)'
    BY <1>1, <1>8, <2>1 DEF TaskTold, TicketOf
  <2>3. UnlandedOf(u)'
    BY <1>1, <1>2, <2>1 DEF TaskTold, UnlandedOf
  <2>4. AckedOf(u)'
    BY <1>1, <2>1 DEF TaskTold, AckedOf, LandedAs
  <2>. QED
    BY <2>2, <2>3, <2>4 DEF TaskTold
<1>12. TaskTold(t)'
  <2>1. TicketOf(t)'
    BY <1>1, <1>3, <1>5, <1>7 DEF TicketOf, Queued, Waiting
  <2>2. UnlandedOf(t)'
    BY <1>2, <1>3 DEF UnlandedOf
  <2>3. AckedOf(t)'
    BY <1>1, <1>3, <1>5, GateAssumption DEF AckedOf, Replies, Results
  <2>. QED
    BY <2>1, <2>2, <2>3 DEF TaskTold
<1>. QED
  BY <1>9, <1>10, <1>11, <1>12 DEF Told

\* A queued batch has been told nothing, or its ticket was dropped.
LEMMA QueuedUntold ==
    ASSUME Inv, Told, NEW i \in 1..Len(queue)
    PROVE  LET u == queue[i].txn IN
           /\ u \in Txns /\ u \in Tasks /\ answers[u] = None /\ pc[u] \in Waiting \cup {"done"}
           /\ told[u] \in {None, "gone", "stopped"} /\ Grouped
<1>. DEFINE u == queue[i].txn
<1>1. /\ u \in Txns /\ u \in Tasks /\ answers[u] = None /\ pc[u] \in Waiting \cup {"done"}
      /\ pc[u] = "done" => u \in gone
  BY DEF Inv, Owned, QueueOwned, Tasks
<1>2. TicketOf(u)
  BY <1>1 DEF Told, TaskTold
<1>3. told[u] \in {None, "gone", "stopped"}
  BY <1>1, <1>2 DEF TicketOf
<1>4. Grouped
  BY DEF Inv, TurnHeld
<1>. QED
  BY <1>1, <1>3, <1>4

\* The engine takes a front of the group in flight: what it holds is still once
\* each, and only what it took has landed anew.
LEMMA GroupLands ==
    ASSUME Inv, Told, outcome.n = 0, UNCHANGED snap,
           NEW n \in Judged(SubSeq(queue, 1, cut)), Takes(SubSeq(queue, 1, cut), n)
    PROVE  /\ n \in 0..cut /\ n \in 0..Len(queue) /\ hole' = hole
           /\ Len(log) \in Nat /\ Len(log') = Len(log) + n
           /\ \A i \in 1..Len(log) : log'[i] = log[i]
           /\ \A i \in 1..n : queue[i].version = Len(log) + i /\ log'[Len(log) + i] = queue[i]
           /\ \A i, j \in 1..Len(log') : log'[i].txn = log'[j].txn => i = j
           /\ \A u : Landed(u)' <=> Landed(u) \/ \E i \in 1..n : queue[i].txn = u
<1>. DEFINE g == SubSeq(queue, 1, cut)
<1>1. g \in Seq(Member) /\ Len(g) = cut /\ \A i \in 1..cut : i \in 1..Len(queue) /\ g[i] = queue[i]
  BY GroupInFlight
<1>2. n \in Judged(g) /\ Takes(g, n) /\ cut \in Nat /\ cut <= Len(queue) /\ Len(queue) \in Nat
  BY LenProperties DEF Inv, TypeOK, Shape
<1>. HIDE DEF g
<1>3. n \in 0..Len(g) /\ \A i \in 1..n : Holds(g, i)
  BY <1>2 DEF Judged
<1>4. /\ Len(log') = Len(log) + n /\ \A i \in 1..Len(log) : log'[i] = log[i]
      /\ \A i \in 1..n : log'[Len(log) + i] = g[i]
      /\ hole' = hole /\ DenseVersions'
  BY <1>1, <1>2, <1>3, TakesAppends DEF Inv, Chain
<1>5. Len(log) \in Nat /\ version = Len(log) /\ n \in 0..cut /\ n \in 0..Len(queue)
  BY <1>1, <1>2, <1>3, LenProperties DEF Inv, TypeOK, Chain, DenseVersions
<1>6. \A i \in 1..n : i \in 1..Len(queue) /\ queue[i].version = Len(log) + i /\ log'[Len(log) + i] = queue[i]
  <2>1. ASSUME NEW i \in 1..n
        PROVE  i \in 1..Len(queue) /\ queue[i].version = Len(log) + i /\ log'[Len(log) + i] = queue[i]
    <3>1. i \in 1..cut /\ g[i] = queue[i] /\ i \in 1..Len(queue)
      BY <1>1, <1>5
    <3>2. g[i].version = version + i
      BY <1>3 DEF Holds
    <3>. QED
      BY <1>4, <1>5, <3>1, <3>2
  <2>. QED
    BY <2>1
<1>7. \A i \in 1..Len(log') :
         \/ i \in 1..Len(log) /\ log'[i] = log[i]
         \/ \E k \in 1..n : i = Len(log) + k /\ log'[i] = queue[k]
  <2>1. ASSUME NEW i \in 1..Len(log'), i \notin 1..Len(log)
        PROVE  (i - Len(log)) \in 1..n /\ i = Len(log) + (i - Len(log))
    BY <1>4, <1>5, <2>1
  <2>. QED
    BY <1>4, <1>6, <2>1
<1>8. \A i, j \in 1..Len(log') : log'[i].txn = log'[j].txn => i = j
  <2>1. \A k \in 1..n : ~Landed(queue[k].txn)
    BY <1>5 DEF Told, Once
  <2>2. \A i, j \in 1..Len(log) : log[i].txn = log[j].txn => i = j
    BY DEF Told, Once
  <2>3. \A k, l \in 1..n : queue[k].txn = queue[l].txn => k = l
    BY <1>6, OneTicketEach
  <2>4. ASSUME NEW i \in 1..Len(log'), NEW j \in 1..Len(log'), log'[i].txn = log'[j].txn
        PROVE  i = j
    <3>1. \/ i \in 1..Len(log) /\ log'[i] = log[i]
          \/ \E k \in 1..n : i = Len(log) + k /\ log'[i] = queue[k]
      BY <1>7
    <3>2. \/ j \in 1..Len(log) /\ log'[j] = log[j]
          \/ \E k \in 1..n : j = Len(log) + k /\ log'[j] = queue[k]
      BY <1>7
    <3>. QED
      BY <2>1, <2>2, <2>3, <2>4, <3>1, <3>2 DEF Landed
  <2>. QED
    BY <2>4
<1>9. \A u : Landed(u)' <=> Landed(u) \/ \E i \in 1..n : queue[i].txn = u
  <2>1. \A i \in 1..n : Len(log) + i \in 1..Len(log')
    BY <1>4, <1>5
  <2>2. \A i \in 1..Len(log) : i \in 1..Len(log')
    BY <1>4, <1>5
  <2>3. ASSUME NEW u, Landed(u)' PROVE Landed(u) \/ \E i \in 1..n : queue[i].txn = u
    BY <1>7, <2>3 DEF Landed
  <2>4. ASSUME NEW u, Landed(u) PROVE Landed(u)'
    BY <1>4, <2>2, <2>4 DEF Landed
  <2>5. ASSUME NEW u, NEW i \in 1..n, queue[i].txn = u PROVE Landed(u)'
    BY <1>6, <2>1, <2>5 DEF Landed
  <2>. QED
    BY <2>3, <2>4, <2>5
<1>. QED
  BY <1>4, <1>5, <1>6, <1>8, <1>9

\* What is known of "ok" answers survives a history that only grows.
LEMMA GrownLandedAs ==
    ASSUME NEW u, LandedAs(u), batch'[u] = batch[u], Len(log) \in Nat, Len(log') \in Nat,
           Len(log) <= Len(log'), \A i \in 1..Len(log) : log'[i] = log[i]
    PROVE  LandedAs(u)'
BY DEF LandedAs

\* The engine answers the group in flight.
LEMMA FlushTold ==
    ASSUME Inv, Told, NEW t \in Tasks, Flush(t)
    PROVE  Told'
<1>1. /\ pc[t] = "flushing" /\ pc'[t] = "flushed" /\ \A u \in Tasks \ {t} : pc'[u] = pc[u]
      /\ UNCHANGED <<queue, answers, gone, landed, stopped, batch, result, told, snap>>
  BY DEF Inv, TypeOK, Flush, gate
<1>2. outcome.n = 0 /\ cut > 0 /\ cut \in Nat /\ cut <= Len(queue) /\ Len(queue) \in Nat /\ Len(log) \in Nat
  BY <1>1, LenProperties DEF Inv, Shape, TypeOK
<1>3. PICK a \in [n : 0..cut, why : Results] : Applies(SubSeq(queue, 1, cut), a) /\ outcome' = a
  BY DEF Flush
<1>4. Grouped /\ (t \in Txns \/ t \in Appliers)
  BY <1>2, QueuedUntold DEF Tasks
<1>5. /\ a.n \in 0..Len(queue) /\ Len(log') = Len(log) + a.n
      /\ "io" \notin Faults => hole' = hole
      /\ \A i \in 1..Len(log) : log'[i] = log[i]
      /\ \A i \in 1..a.n : queue[i].version = Len(log) + i /\ log'[Len(log) + i] = queue[i]
      /\ \A i, j \in 1..Len(log') : log'[i].txn = log'[j].txn => i = j
      /\ \A u : Landed(u)' <=> Landed(u) \/ \E i \in 1..a.n : queue[i].txn = u
  <2>1. CASE a.n \in Judged(SubSeq(queue, 1, cut)) /\ Takes(SubSeq(queue, 1, cut), a.n)
    BY <1>1, <1>2, <2>1, GroupLands
  <2>2. CASE a.n = 0 /\ Fails(a.why)
    BY <1>2, <2>2 DEF Fails, Told, Once, Landed
  <2>. QED
    BY <1>3, <2>1, <2>2 DEF Applies, Accepted
<1>6. Once'
  <2>1. \A j \in a.n + 1 .. Len(queue) : \A k \in 1..Len(log') : log'[k].txn # queue[j].txn
    <3>1. \A j \in a.n + 1 .. Len(queue) : j \in 1..Len(queue) /\ ~Landed(queue[j].txn)
      BY <1>2, <1>5 DEF Told, Once
    <3>2. \A j \in a.n + 1 .. Len(queue) : \A i \in 1..a.n : queue[i].txn # queue[j].txn
      BY <1>2, <1>5, <3>1, OneTicketEach
    <3>3. \A k \in 1..Len(log') : Landed(log'[k].txn) \/ \E i \in 1..a.n : queue[i].txn = log'[k].txn
      <4>1. \A u : (\E k \in 1..Len(log') : log'[k].txn = u) => Landed(u) \/ \E i \in 1..a.n : queue[i].txn = u
        BY <1>5 DEF Landed
      <4>. QED
        BY <4>1
    <3>. QED
      BY <3>1, <3>2, <3>3
  <2>2. \A i \in 1..a.n : queue[i].version \in 1..Len(log') /\ log'[queue[i].version] = queue[i]
    BY <1>2, <1>5
  <2>. QED
    BY <1>1, <1>3, <1>5, <2>1, <2>2 DEF Once, Landed
<1>7. Durable'
  BY <1>4, <1>5 DEF Told, Durable
<1>8. ASSUME NEW u \in Tasks PROVE TaskTold(u)'
  <2>1. TaskTold(u)
    BY DEF Told
  <2>2. TicketOf(u)'
    BY <1>1, <2>1 DEF TaskTold, TicketOf, Queued, Waiting
  <2>3. UnlandedOf(u)'
    <3>1. CASE Landed(u)' <=> Landed(u)
      BY <1>1, <2>1, <3>1 DEF TaskTold, UnlandedOf, Before
    <3>2. ASSUME NEW i \in 1..a.n, queue[i].txn = u PROVE UnlandedOf(u)'
      <4>1. /\ u \in Txns /\ answers[u] = None /\ pc[u] \in Waiting \cup {"done"}
            /\ told[u] \in {None, "gone", "stopped"} /\ Grouped
        BY <1>2, <1>5, <3>2, QueuedUntold
      <4>. QED
        BY <1>1, <4>1, GateAssumption DEF UnlandedOf, Waiting, Before, Refusals, Replies, Results, Failures
    <3>. QED
      BY <1>5, <3>1, <3>2
  <2>4. AckedOf(u)'
    <3>1. LandedAs(u) => LandedAs(u)'
      BY <1>1, <1>2, <1>5, GrownLandedAs
    <3>2. \A i \in 1..Len(log) : i \in 1..Len(log')
      BY <1>2, <1>5
    <3>. QED
      BY <1>1, <1>5, <2>1, <3>1, <3>2 DEF TaskTold, AckedOf
  <2>. QED
    BY <2>2, <2>3, <2>4 DEF TaskTold
<1>. QED
  BY <1>6, <1>7, <1>8 DEF Told

\* A landing is recorded: what it took is published before it is answered, what it
\* did not take is refused, and nobody else's answer changes.
LEMMA RecordTold ==
    ASSUME Inv, Told, NEW t \in Tasks, Record(t)
    PROVE  Told'
<1>1. /\ pc[t] = "flushed" /\ landed' = Published
      /\ \A u \in Tasks : answers'[u] = IF u \in TicketsSettled \ gone
            THEN Answer(CHOOSE i \in 1..Settled : queue[i].txn = u) ELSE answers[u]
      /\ gone' = gone \ TicketsSettled
      /\ queue' = SubSeq(queue, Settled + 1, Len(queue)) /\ outcome' = NoOutcome
      /\ \A u \in Tasks : pc'[u] = IF u = t \/ pc[u] = "parked" THEN Awake(u) ELSE pc[u]
      /\ UNCHANGED <<log, version, hole, stopped, batch, result, told>>
  BY DEF Record, Roused, engine
<1>2. /\ cut \in Nat /\ cut > 0 /\ cut <= Len(queue) /\ outcome.n \in Nat /\ outcome.n <= cut
      /\ Len(queue) \in Nat /\ queue \in Seq(Member) /\ version \in Nat /\ Len(log) \in Nat
      /\ version = Len(log) /\ landed \in Nat
      /\ (outcome.n < cut => outcome.why # "ok")
  BY <1>1, LenProperties DEF Inv, Shape, TypeOK, Outcome, Chain, DenseVersions
<1>3. Settled \in outcome.n..Len(queue)
  BY <1>2 DEF Settled
<1>4. /\ Len(queue') = Len(queue) - Settled
      /\ \A i \in 1..Len(queue') : Settled + i \in 1..Len(queue) /\ queue'[i] = queue[Settled + i]
  BY <1>1, <1>2, <1>3
<1>5. \A u : Landed(u)' <=> Landed(u)
  BY <1>1 DEF Landed
<1>6. Grouped
  BY <1>2, QueuedUntold
<1>7. ASSUME NEW u \in TicketsSettled
      PROVE  \E i \in 1..Settled :
               i = (CHOOSE k \in 1..Settled : queue[k].txn = u) /\ queue[i].txn = u
  BY DEF TicketsSettled
<1>8. ASSUME NEW u, Queued(u), u \notin TicketsSettled PROVE Queued(u)'
  <2>1. PICK i \in 1..Len(queue) : queue[i].txn = u
    BY <1>8 DEF Queued
  <2>2. i \notin 1..Settled
    BY <1>8, <2>1 DEF TicketsSettled
  <2>3. (i - Settled) \in 1..Len(queue') /\ Settled + (i - Settled) = i
    BY <1>2, <1>3, <1>4, <2>2
  <2>4. queue'[i - Settled] = queue[i]
    BY <1>4, <2>3
  <2>. QED
    BY <2>1, <2>3, <2>4 DEF Queued
<1>9. Once'
  <2>1. \A j \in 1..Len(queue') : \A k \in 1..Len(log) : log[k].txn # queue'[j].txn
    <3>1. \A j \in 1..Len(queue') : Settled + j \in outcome.n + 1 .. Len(queue)
      BY <1>2, <1>3, <1>4
    <3>. QED
      BY <1>4, <3>1 DEF Told, Once, Landed
  <2>2. outcome'.n = 0
    BY <1>1 DEF NoOutcome
  <2>3. (\A j \in outcome.n + 1 .. Len(queue) : ~Landed(queue[j].txn))'
    <3>1. \A j \in outcome'.n + 1 .. Len(queue') : j \in 1..Len(queue')
      BY <2>2
    <3>. QED
      BY <1>1, <2>1, <3>1 DEF Landed
  <2>4. (\A i \in 1..outcome.n : queue[i].version \in 1..Len(log) /\ log[queue[i].version] = queue[i])'
    BY <2>2
  <2>5. (\A i, j \in 1..Len(log) : log[i].txn = log[j].txn => i = j)'
    BY <1>1 DEF Told, Once
  <2>. QED
    BY <2>3, <2>4, <2>5 DEF Once
<1>10. Durable'
  BY <1>1, <1>6 DEF Told, Durable
<1>11. landed' \in Nat /\ landed <= landed' /\ (outcome.n > 0 => version <= landed')
  <2>1. outcome.n > 0 => /\ queue[outcome.n].version \in Nat
                         /\ queue[outcome.n].version + outcome.n = version + outcome.n
    BY <1>2, ElementOfSeq, MemberFields DEF Inv, Chain
  <2>2. outcome.n > 0 => queue[outcome.n].version = version
    BY <1>2, <2>1
  <2>. QED
    BY <1>1, <1>2, <2>2 DEF Published, Larger
\* What a settled ticket is answered.
<1>12. ASSUME NEW u \in Tasks, u \in TicketsSettled \ gone
       PROVE  /\ answers'[u] \in Results
              /\ answers'[u] = "ok" => LandedAs(u) /\ batch[u].version <= landed'
              /\ answers'[u] # "ok" => ~Landed(u)
  <2>1. PICK i \in 1..Settled :
               i = (CHOOSE k \in 1..Settled : queue[k].txn = u) /\ queue[i].txn = u
    BY <1>7, <1>12
  <2>2. answers'[u] = Answer(i) /\ i \in 1..Len(queue)
    BY <1>1, <1>2, <1>3, <1>12, <2>1
  <2>3. Answer(i) \in Results
    BY DEF Inv, TypeOK, Outcome, Answer, Results, Failures
  <2>4. Answer(i) = "ok" <=> i <= outcome.n
    BY <1>2, <2>1, <1>3 DEF Answer
  <2>5. i > outcome.n => ~Landed(u)
    BY <1>2, <2>1, <2>2 DEF Told, Once
  <2>6. batch[u] = queue[i] /\ queue[i] \in Member
    BY <1>2, <2>1, <2>2, ElementOfSeq DEF Inv, Owned, QueueOwned
  <2>7. i <= outcome.n => /\ queue[i].version \in 1..Len(log) /\ log[queue[i].version] = queue[i]
                          /\ queue[i].version <= landed'
    <3>1. i <= outcome.n => queue[i].version \in 1..Len(log) /\ log[queue[i].version] = queue[i]
      BY <1>2, <2>2 DEF Told, Once
    <3>. QED
      BY <1>2, <1>11, <2>2, <3>1
  <2>. QED
    BY <1>2, <1>3, <2>1, <2>2, <2>3, <2>4, <2>5, <2>6, <2>7 DEF LandedAs
<1>13. ASSUME NEW u \in Tasks PROVE TaskTold(u)'
  <2>1. TaskTold(u)
    BY DEF Told
  <2>2. pc[t] = "flushed" /\ told[t] = None
    BY <1>1 DEF Told, TaskTold, TicketOf
  <2>3. u \notin TicketsSettled \ gone => answers'[u] = answers[u]
    BY <1>1
  <2>4. /\ pc[u] = "done" => pc'[u] = "done"
        /\ u \in Txns /\ pc'[u] \in Waiting => pc[u] \in Waiting
        /\ pc'[u] \in Before => pc[u] \in Before \/ (u \in Appliers /\ pc[u] \notin {"collected", "done"})
        /\ pc'[u] \in {"collected", "done"} <=> pc[u] \in {"collected", "done"}
        /\ pc'[u] = "collected" <=> pc[u] = "collected"
    BY <1>1 DEF Awake, Waiting, Before, Tasks
  <2>5. TicketOf(u)'
    <3>1. u \in gone' => Queued(u)' /\ told'[u] \in {"gone", "stopped"}
      BY <1>1, <1>8, <2>1 DEF TaskTold, TicketOf
    <3>2. told'[u] # None => pc'[u] = "done"
      BY <1>1, <2>1, <2>4 DEF TaskTold, TicketOf
    <3>3. ASSUME u \in Txns, pc'[u] \in Waiting, answers'[u] = None PROVE Queued(u)'
      <4>1. u \notin TicketsSettled \ gone
        BY <1>12, <3>3, GateAssumption DEF Replies
      <4>2. Queued(u)
        BY <2>1, <2>3, <2>4, <3>3, <4>1 DEF TaskTold, TicketOf
      <4>3. u \notin gone
        BY <2>1, <2>4, <3>3, GateAssumption DEF TaskTold, TicketOf, Waiting, Replies
      <4>. QED
        BY <1>8, <4>1, <4>2, <4>3
    <3>. QED
      BY <1>6, <3>1, <3>2, <3>3 DEF TicketOf
  <2>6. UnlandedOf(u)'
    <3>1. answers'[u] \in {"conflict", "busy"} => ~Landed(u)
      BY <1>12, <2>1, <2>3 DEF TaskTold, UnlandedOf
    <3>. QED
      BY <1>1, <1>5, <1>6, <2>1, <2>4, <3>1 DEF TaskTold, UnlandedOf
  <2>7. AckedOf(u)'
    <3>1. answers'[u] = "ok" => LandedAs(u) /\ batch[u].version <= landed'
      <4>1. CASE u \in TicketsSettled \ gone
        BY <1>12, <4>1
      <4>2. CASE u \notin TicketsSettled \ gone
        BY <1>2, <1>11, <2>1, <2>3, <4>2 DEF TaskTold, AckedOf, LandedAs
      <4>. QED
        BY <4>1, <4>2
    <3>2. Lossless /\ told[u] = "ok" => \E i \in 1..Len(log) : log[i].txn = u /\ i <= landed'
      BY <1>2, <1>11, <2>1 DEF TaskTold, AckedOf
    <3>3. LandedAs(u)' <=> LandedAs(u)
      BY <1>1 DEF LandedAs
    <3>4. pc[u] = "collected" /\ result[u] = "ok" => LandedAs(u)
      BY <2>1 DEF TaskTold, AckedOf
    <3>. QED
      BY <1>1, <2>4, <3>1, <3>2, <3>3, <3>4 DEF AckedOf
  <2>. QED
    BY <2>5, <2>6, <2>7 DEF TaskTold
<1>. QED
  BY <1>9, <1>10, <1>13 DEF Told

\* The turn's holder writes its own batch: it lands, or the engine is left as it was
\* but for the hole a failed sync may leave.
LEMMA OwnLands ==
    ASSUME Inv, Told, NEW t \in Tasks, pc[t] = "applying", NEW n \in Judged(<<batch[t]>>),
           Takes(<<batch[t]>>, n)
    PROVE  /\ n \in {0, 1} /\ hole' = hole /\ Len(log) \in Nat /\ Len(log') = Len(log) + n
           /\ \A i \in 1..Len(log) : log'[i] = log[i]
           /\ \A u : Landed(u)' <=> Landed(u) \/ (n = 1 /\ u = t)
           /\ \A i, j \in 1..Len(log') : log'[i].txn = log'[j].txn => i = j
           /\ n = 1 => batch[t].version = Len(log) + 1 /\ log'[Len(log) + 1] = batch[t]
<1>. DEFINE g == <<batch[t]>>
<1>1. g \in Seq(Member) /\ Len(g) = 1 /\ g[1] = batch[t] /\ batch[t].txn = t
  BY BatchChecked
<1>2. n \in Judged(g) /\ Takes(g, n)
  OBVIOUS
<1>. HIDE DEF g
<1>3. n \in 0..Len(g) /\ \A i \in 1..n : Holds(g, i)
  BY <1>2 DEF Judged
<1>4. /\ Len(log') = Len(log) + n /\ \A i \in 1..Len(log) : log'[i] = log[i]
      /\ \A i \in 1..n : log'[Len(log) + i] = g[i]
      /\ hole' = hole
  BY <1>1, <1>2, <1>3, TakesAppends DEF Inv, Chain
<1>5. Len(log) \in Nat /\ version = Len(log) /\ n \in {0, 1}
  BY <1>1, <1>3, LenProperties DEF Inv, TypeOK, Chain, DenseVersions
<1>6. n = 1 => batch[t].version = Len(log) + 1 /\ log'[Len(log) + 1] = batch[t]
  <2>1. SUFFICES ASSUME n = 1 PROVE batch[t].version = Len(log) + 1 /\ log'[Len(log) + 1] = batch[t]
    OBVIOUS
  <2>2. 1 \in 1..n
    BY <2>1
  <2>3. Holds(g, 1) /\ log'[Len(log) + 1] = g[1]
    BY <1>3, <1>4, <2>2
  <2>. QED
    BY <1>1, <1>5, <2>3 DEF Holds
<1>7. \A i \in 1..Len(log') : \/ i \in 1..Len(log) /\ log'[i] = log[i]
                              \/ n = 1 /\ i = Len(log) + 1 /\ log'[i].txn = t
  BY <1>1, <1>4, <1>5, <1>6
<1>8. ~Landed(t)
  BY DEF Told, TaskTold, UnlandedOf, Before
<1>9. \A i, j \in 1..Len(log') : log'[i].txn = log'[j].txn => i = j
  <2>1. ASSUME NEW i \in 1..Len(log'), NEW j \in 1..Len(log'), log'[i].txn = log'[j].txn
        PROVE  i = j
    <3>1. \/ i \in 1..Len(log) /\ log'[i] = log[i]
          \/ n = 1 /\ i = Len(log) + 1 /\ log'[i].txn = t
      BY <1>7
    <3>2. \/ j \in 1..Len(log) /\ log'[j] = log[j]
          \/ n = 1 /\ j = Len(log) + 1 /\ log'[j].txn = t
      BY <1>7
    <3>. QED
      BY <1>8, <2>1, <3>1, <3>2 DEF Landed, Told, Once
  <2>. QED
    BY <2>1
<1>10. \A u : Landed(u)' <=> Landed(u) \/ (n = 1 /\ u = t)
  <2>1. ASSUME NEW u, Landed(u)' PROVE Landed(u) \/ (n = 1 /\ u = t)
    BY <1>7, <2>1 DEF Landed
  <2>2. ASSUME NEW u, Landed(u) PROVE Landed(u)'
    <3>1. \A i \in 1..Len(log) : i \in 1..Len(log')
      BY <1>4, <1>5
    <3>. QED
      BY <1>4, <2>2, <3>1 DEF Landed
  <2>3. ASSUME n = 1 PROVE Landed(t)'
    <3>1. Len(log) + 1 \in 1..Len(log')
      BY <1>4, <1>5, <2>3
    <3>. QED
      BY <1>1, <1>6, <2>3, <3>1 DEF Landed
  <2>. QED
    BY <2>1, <2>2, <2>3
<1>. QED
  BY <1>4, <1>5, <1>6, <1>9, <1>10

\* A write under the turn, whatever the engine did and however it is heard of.
LEMMA AppliedTold ==
    ASSUME Inv, Told, NEW t \in Tasks, pc[t] = "applying", NEW n \in {0, 1},
           \A u \in Tasks \ {t} : pc'[u] = pc[u] /\ told'[u] = told[u] /\ result'[u] = result[u],
           UNCHANGED <<queue, outcome, answers, gone, landed, batch>>,
           Len(log) \in Nat, Len(log') = Len(log) + n,
           \A i \in 1..Len(log) : log'[i] = log[i],
           \A u : Landed(u)' <=> Landed(u) \/ (n = 1 /\ u = t),
           \A i, j \in 1..Len(log') : log'[i].txn = log'[j].txn => i = j,
           n = 1 => batch[t].version = Len(log) + 1 /\ log'[Len(log) + 1] = batch[t],
           Durable',
           \/ pc'[t] = "collected" /\ told'[t] = told[t] /\ (result'[t] = "ok" => n = 1)
              /\ (result'[t] \in {"conflict", "busy"} => n = 0)
           \/ pc'[t] = "done" /\ told'[t] = "gone"
           \/ pc'[t] = "done" /\ told'[t] = "stopped" /\ n = 0
    PROVE  Told'
<1>1. queue = <<>> /\ queue' = <<>> /\ outcome.n = 0 /\ outcome'.n = 0
  BY DEF Inv, TurnHeld, Shape, TypeOK, Outcome
<1>2. Once'
  BY <1>1 DEF Once
<1>3. answers[t] = None /\ told[t] = None /\ t \notin gone /\ ~Landed(t)
  BY Ticketless DEF Told, TaskTold, UnlandedOf, Before, Waiting
<1>4. Len(log') \in Nat /\ Len(log) <= Len(log')
  OBVIOUS
<1>5. ASSUME NEW u \in Tasks \ {t} PROVE TaskTold(u)'
  <2>1. TaskTold(u) /\ (Landed(u)' <=> Landed(u))
    BY DEF Told
  <2>2. TicketOf(u)'
    BY <2>1 DEF TaskTold, TicketOf, Queued
  <2>3. UnlandedOf(u)'
    BY <2>1 DEF TaskTold, UnlandedOf
  <2>4. AckedOf(u)'
    <3>1. LandedAs(u) => LandedAs(u)'
      BY <1>4, GrownLandedAs
    <3>2. \A i \in 1..Len(log) : i \in 1..Len(log')
      BY <1>4
    <3>. QED
      BY <2>1, <3>1, <3>2 DEF TaskTold, AckedOf
  <2>. QED
    BY <2>2, <2>3, <2>4 DEF TaskTold
<1>6. TaskTold(t)'
  <2>1. TicketOf(t)'
    BY <1>3 DEF TicketOf, Waiting
  <2>2. Landed(t)' <=> n = 1
    BY <1>3
  <2>3. UnlandedOf(t)'
    BY <1>3, <2>2, GateAssumption DEF UnlandedOf, Before, Refusals, Replies, Results, Failures
  <2>4. n = 1 => LandedAs(t)'
    <3>1. n = 1 => Len(log) + 1 \in 1..Len(log')
      OBVIOUS
    <3>2. batch[t].txn = t
      BY DEF Inv, Owned, BatchHeld
    <3>. QED
      BY <3>1, <3>2 DEF LandedAs
  <2>5. AckedOf(t)'
    BY <1>3, <2>4, GateAssumption DEF AckedOf, Replies, Results
  <2>. QED
    BY <2>1, <2>3, <2>5 DEF TaskTold
<1>. QED
  BY <1>2, <1>5, <1>6 DEF Told

LEMMA ApplyTold ==
    ASSUME Inv, Told, NEW t \in Tasks, Apply(t)
    PROVE  Told'
<1>1. /\ pc[t] = "applying"
      /\ UNCHANGED <<queue, outcome, answers, gone, landed, batch>>
      /\ Len(log) \in Nat
  BY LenProperties DEF Apply, pending, Inv, TypeOK
<1>2. CASE stopped # None
  <2>1. /\ pc'[t] = "done" /\ told'[t] = "stopped" /\ UNCHANGED <<log, hole, stopped, result>>
        /\ \A u \in Tasks \ {t} : pc'[u] = pc[u] /\ told'[u] = told[u]
    BY <1>2 DEF Apply, engine, Inv, TypeOK
  <2>2. Durable'
    BY <2>1 DEF Told, Durable
  <2>3. PICK n \in {0, 1} : n = 0
    OBVIOUS
  <2>4. /\ \A u : Landed(u)' <=> Landed(u) \/ (n = 1 /\ u = t)
        /\ \A i, j \in 1..Len(log') : log'[i].txn = log'[j].txn => i = j
        /\ Len(log') = Len(log) + n /\ n # 1
    BY <1>1, <2>1, <2>3 DEF Landed, Told, Once
  <2>. QED
    BY <1>1, <2>1, <2>2, <2>3, <2>4, AppliedTold
<1>3. CASE stopped = None
  <2>1. /\ pc'[t] = "collected" /\ told' = told
        /\ \A u \in Tasks \ {t} : pc'[u] = pc[u]
    BY <1>3 DEF Apply, Inv, TypeOK
  <2>2. PICK a \in [n : 0..1, why : Results] :
           /\ Applies(<<batch[t]>>, a)
           /\ result' = [result EXCEPT ![t] = a.why]
           /\ stopped' = StopOn(a.why)
    BY <1>3 DEF Apply
  <2>3. result'[t] = a.why /\ \A u \in Tasks \ {t} : result'[u] = result[u]
    BY <2>2 DEF Inv, TypeOK
  <2>4. ~Grouped => hole = None
    BY <1>3 DEF Told, Durable
  <2>5. CASE /\ a.n \in Judged(<<batch[t]>>) /\ Takes(<<batch[t]>>, a.n)
             /\ \/ a.why = IF a.n = 1 THEN "ok" ELSE "conflict"
                \/ a.n # 1 /\ a.why \in {"busy", "io"}
    <3>1. /\ a.n \in {0, 1} /\ hole' = hole /\ Len(log) \in Nat /\ Len(log') = Len(log) + a.n
          /\ \A i \in 1..Len(log) : log'[i] = log[i]
          /\ \A u : Landed(u)' <=> Landed(u) \/ (a.n = 1 /\ u = t)
          /\ \A i, j \in 1..Len(log') : log'[i].txn = log'[j].txn => i = j
          /\ a.n = 1 => batch[t].version = Len(log) + 1 /\ log'[Len(log) + 1] = batch[t]
      BY <1>1, <2>5, OwnLands
    <3>2. Durable'
      BY <2>4, <3>1 DEF Told, Durable
    <3>3. a.why = "ok" <=> a.n = 1
      BY <2>5
    <3>. QED
      BY <1>1, <2>1, <2>3, <2>5, <3>1, <3>2, <3>3, AppliedTold
  <2>6. CASE a.n = 0 /\ Fails(a.why)
    <3>1. /\ a.why \in Faults \cap {"busy", "io"} /\ UNCHANGED log
          /\ hole' = IF a.why = "io" /\ hole = None THEN Len(log) ELSE hole
      BY <2>6 DEF Fails
    <3>2. Durable'
      <4>1. a.why = "io" => stopped' # None
        BY <1>3, <2>2, GateAssumption DEF StopOn, Stopping, Replies, Results, Failures
      <4>. QED
        BY <2>4, <3>1, <4>1 DEF Told, Durable
    <3>3. PICK n \in {0, 1} : n = 0
      OBVIOUS
    <3>4. /\ \A u : Landed(u)' <=> Landed(u) \/ (n = 1 /\ u = t)
          /\ \A i, j \in 1..Len(log') : log'[i].txn = log'[j].txn => i = j
          /\ Len(log') = Len(log) + n /\ n # 1 /\ a.why # "ok"
      BY <1>1, <3>1, <3>3 DEF Landed, Told, Once
    <3>. QED
      BY <1>1, <2>1, <2>3, <3>1, <3>2, <3>3, <3>4, AppliedTold
  <2>7. Len(<<batch[t]>>) = 1
    OBVIOUS
  <2>8. a.n # 1 <=> a.n # Len(<<batch[t]>>)
    BY <2>7
  <2>. QED
    BY <2>2, <2>5, <2>6, <2>7, <2>8 DEF Applies, Accepted
<1>. QED
  BY <1>2, <1>3

LEMMA CancelApplyTold ==
    ASSUME Inv, Told, NEW t \in Tasks, CancelApply(t)
    PROVE  Told'
<1>1. /\ pc[t] = "applying" /\ pc'[t] = "done" /\ told'[t] = "gone" /\ stopped = None
      /\ UNCHANGED <<queue, outcome, answers, gone, landed, batch, result, stopped>>
      /\ \A u \in Tasks \ {t} : pc'[u] = pc[u] /\ told'[u] = told[u]
      /\ Len(log) \in Nat
  BY LenProperties DEF CancelApply, Dropped, pending, Inv, TypeOK
<1>2. CASE \E n \in Judged(<<batch[t]>>) : Takes(<<batch[t]>>, n)
  <2>1. PICK n \in Judged(<<batch[t]>>) : Takes(<<batch[t]>>, n)
    BY <1>2
  <2>2. /\ n \in {0, 1} /\ hole' = hole /\ Len(log) \in Nat /\ Len(log') = Len(log) + n
        /\ \A i \in 1..Len(log) : log'[i] = log[i]
        /\ \A u : Landed(u)' <=> Landed(u) \/ (n = 1 /\ u = t)
        /\ \A i, j \in 1..Len(log') : log'[i].txn = log'[j].txn => i = j
        /\ n = 1 => batch[t].version = Len(log) + 1 /\ log'[Len(log) + 1] = batch[t]
    BY <1>1, <2>1, OwnLands
  <2>3. Durable'
    BY <1>1, <2>2 DEF Told, Durable
  <2>. QED
    BY <1>1, <2>2, <2>3, AppliedTold
<1>3. CASE UNCHANGED engine
  <2>1. UNCHANGED <<log, hole>>
    BY <1>3 DEF engine
  <2>2. Durable'
    BY <1>1, <2>1 DEF Told, Durable
  <2>3. PICK n \in {0, 1} : n = 0
    OBVIOUS
  <2>4. /\ \A u : Landed(u)' <=> Landed(u) \/ (n = 1 /\ u = t)
        /\ \A i, j \in 1..Len(log') : log'[i].txn = log'[j].txn => i = j
        /\ Len(log') = Len(log) + n /\ n # 1
    BY <1>1, <2>1, <2>3 DEF Landed, Told, Once
  <2>. QED
    BY <1>1, <2>1, <2>2, <2>3, <2>4, AppliedTold
<1>. QED
  BY <1>2, <1>3 DEF CancelApply, AppliesUnheard

\* A landing is dropped part way: its members are told nobody knows, and only what
\* was staged behind them is refused.
LEMMA AbandonTold ==
    ASSUME Inv, Told, NEW t \in Tasks, Abandon(t)
    PROVE  Told'
<1>. DEFINE tickets == {queue[i].txn : i \in 1..Len(queue)}
<1>1. /\ pc[t] \in {"flushing", "flushed"}
      /\ \A u \in Tasks : answers'[u] = IF u = t THEN None
                                         ELSE IF u \in tickets \ gone THEN Abandoned(u) ELSE answers[u]
      /\ gone' = gone \ tickets /\ queue' = <<>> /\ outcome' = NoOutcome
      /\ \A u \in Tasks : pc'[u] = IF u = t THEN "done"
                                    ELSE IF pc[u] = "parked" THEN Awake(u) ELSE pc[u]
      /\ told'[t] = "gone" /\ \A u \in Tasks \ {t} : told'[u] = told[u]
      /\ UNCHANGED <<landed, stopped, snap, batch, result>>
  BY DEF Abandon, Dropped, Inv, TypeOK
<1>2. /\ cut \in Nat /\ cut > 0 /\ cut <= Len(queue) /\ Len(queue) \in Nat /\ Len(log) \in Nat
      /\ outcome.n \in Nat /\ outcome.n <= cut
  BY <1>1, LenProperties DEF Inv, Shape, TypeOK, Outcome
<1>3. Grouped
  BY <1>2, QueuedUntold
<1>4. \A u : u \in tickets <=> Queued(u)
  BY DEF Queued
<1>. HIDE DEF tickets
<1>5. PICK n \in 0..cut :
      /\ Len(log') = Len(log) + n /\ hole' = hole
      /\ \A i \in 1..Len(log) : log'[i] = log[i]
      /\ \A i, j \in 1..Len(log') : log'[i].txn = log'[j].txn => i = j
      /\ \A u : Landed(u)' <=> Landed(u) \/ \E i \in 1..n : queue[i].txn = u
  <2>1. CASE UNCHANGED engine
    <3>1. /\ Len(log') = Len(log) + 0 /\ hole' = hole /\ log' = log
          /\ \A i, j \in 1..Len(log') : log'[i].txn = log'[j].txn => i = j
          /\ \A u : Landed(u)' <=> Landed(u)
      BY <1>2, <2>1 DEF engine, Told, Once, Landed
    <3>2. 0 \in 0..cut /\ 1..0 = {}
      BY <1>2
    <3>. QED
      BY <3>1, <3>2
  <2>2. CASE pc[t] = "flushing" /\ \E n \in Judged(SubSeq(queue, 1, cut)) : Takes(SubSeq(queue, 1, cut), n)
    <3>1. outcome.n = 0
      BY <2>2 DEF Inv, Shape
    <3>. QED
      BY <1>1, <2>2, <3>1, GroupLands, ZenonT(60)
  <2>. QED
    BY <2>1, <2>2 DEF Abandon, AppliesUnheard
<1>6. Once'
  BY <1>1, <1>5 DEF Once, NoOutcome
<1>7. Durable'
  BY <1>1, <1>3, <1>5 DEF Told, Durable
<1>8. \A u \in Tasks : u \notin gone'
  BY <1>1, <1>4 DEF Told, TaskTold, TicketOf
<1>9. \A u \in Tasks : LandedAs(u) => LandedAs(u)'
  <2>1. Len(log') \in Nat /\ Len(log) <= Len(log')
    BY <1>2, <1>5
  <2>. QED
    BY <1>1, <1>2, <1>5, <2>1, GrownLandedAs
<1>10. ASSUME NEW u \in Tasks \ {t} PROVE TaskTold(u)'
  <2>1. TaskTold(u)
    BY DEF Told
  <2>2. /\ pc[u] = "done" => pc'[u] = "done"
        /\ u \in Txns /\ pc'[u] \in Waiting => pc[u] \in Waiting
        /\ pc'[u] \in Before => pc[u] \in Before \/ (u \in Appliers /\ pc[u] \notin {"collected", "done"})
        /\ pc'[u] \in {"collected", "done"} <=> pc[u] \in {"collected", "done"}
        /\ pc'[u] = "collected" <=> pc[u] = "collected"
    BY <1>1 DEF Awake, Waiting, Before, Tasks
  <2>3. \/ u \in tickets \ gone /\ answers'[u] \in {"unknown", "conflict"} /\ answers'[u] = Abandoned(u)
        \/ u \notin tickets \ gone /\ answers'[u] = answers[u]
    BY <1>1 DEF Abandoned
  <2>4. TicketOf(u)'
    <3>1. ASSUME u \in Txns, pc'[u] \in Waiting, answers'[u] = None PROVE FALSE
      <4>1. u \notin tickets \ gone /\ answers[u] = None
        BY <2>3, <3>1, GateAssumption DEF Replies, Results, Failures
      <4>2. Queued(u) /\ pc[u] \in Waiting
        BY <2>1, <2>2, <3>1, <4>1 DEF TaskTold, TicketOf
      <4>3. u \in gone
        BY <1>4, <4>1, <4>2
      <4>. QED
        BY <2>1, <4>2, <4>3, GateAssumption DEF TaskTold, TicketOf, Waiting, Replies
    <3>. QED
      BY <1>1, <1>3, <1>8, <2>1, <2>2, <3>1 DEF TaskTold, TicketOf
  <2>5. UnlandedOf(u)'
    <3>1. ASSUME answers'[u] \in {"conflict", "busy"} PROVE ~Landed(u)'
      <4>1. CASE u \in tickets \ gone
        <5>1. PICK i \in 1..Len(queue) : queue[i].txn = u
          BY <1>4, <4>1 DEF Queued
        <5>2. i \notin 1..cut
          BY <2>3, <3>1, <4>1, <5>1 DEF Abandoned
        <5>3. ~Landed(u)
          BY <1>2, <5>1, <5>2 DEF Told, Once
        <5>4. \A k \in 1..n : queue[k].txn # u
          BY <1>2, <1>5, <5>1, <5>2, OneTicketEach
        <5>. QED
          BY <1>5, <5>3, <5>4
      <4>2. CASE u \notin tickets \ gone
        <5>1. answers[u] \in {"conflict", "busy"}
          BY <2>3, <3>1, <4>2
        <5>2. \A k \in 1..n : queue[k].txn # u
          BY <1>2, <1>5, <5>1, QueuedUntold, GateAssumption DEF Replies, Results, Failures
        <5>. QED
          BY <1>5, <2>1, <5>1, <5>2 DEF TaskTold, UnlandedOf
      <4>. QED
        BY <4>1, <4>2
    <3>2. CASE Landed(u)' <=> Landed(u)
      BY <1>1, <2>1, <2>2, <3>1, <3>2 DEF TaskTold, UnlandedOf
    <3>3. ASSUME NEW i \in 1..n, queue[i].txn = u PROVE UnlandedOf(u)'
      <4>1. /\ u \in Txns /\ pc[u] \in Waiting \cup {"done"} /\ u \notin Appliers
            /\ told[u] \in {None, "gone", "stopped"}
        BY <1>2, <1>5, <3>3, QueuedUntold, GateAssumption
      <4>2. pc'[u] \notin Before /\ pc'[u] # "collected"
        BY <2>2, <4>1 DEF Waiting, Before
      <4>. QED
        BY <1>1, <1>3, <3>1, <4>1, <4>2, GateAssumption DEF UnlandedOf, Refusals, Replies, Results, Failures
    <3>. QED
      BY <1>5, <3>2, <3>3
  <2>6. AckedOf(u)'
    <3>1. answers'[u] = "ok" => answers[u] = "ok"
      BY <2>3
    <3>2. \A i \in 1..Len(log) : i \in 1..Len(log')
      BY <1>2, <1>5
    <3>. QED
      BY <1>1, <1>5, <1>9, <2>1, <2>2, <3>1, <3>2 DEF TaskTold, AckedOf
  <2>. QED
    BY <2>4, <2>5, <2>6 DEF TaskTold
<1>11. TaskTold(t)'
  <2>1. pc'[t] = "done" /\ told'[t] = "gone" /\ answers'[t] = None /\ t \notin gone'
    BY <1>1, <1>8
  <2>2. TicketOf(t)'
    BY <2>1 DEF TicketOf, Waiting
  <2>3. UnlandedOf(t)'
    BY <2>1, GateAssumption DEF UnlandedOf, Before, Refusals, Replies, Results, Failures
  <2>4. AckedOf(t)'
    BY <2>1, GateAssumption DEF AckedOf, Replies, Results
  <2>. QED
    BY <2>2, <2>3, <2>4 DEF TaskTold
<1>. QED
  BY <1>6, <1>7, <1>10, <1>11 DEF Told

\* The store is opened again: what was acknowledged is in the prefix it recovers.
LEMMA ReopenTold ==
    ASSUME Inv, Told, Reopen
    PROVE  Told'
<1>. DEFINE n == IF hole = None THEN Len(log) ELSE hole
<1>1. Len(log) \in Nat /\ n \in Nat /\ n <= Len(log) /\ log \in Seq(Member)
  BY LenProperties DEF Inv, TypeOK, Reads
<1>2. Lossless => n = Len(log)
  BY DEF Told, Durable, Lossless, Reopen
<1>3. /\ log' = SubSeq(log, 1, n) /\ landed' = n /\ hole' = None
      /\ queue' = <<>> /\ outcome' = NoOutcome /\ gone' = {}
      /\ \A t \in Tasks :
           /\ answers'[t] = None
           /\ pc'[t] = IF pc[t] = "idle" THEN "idle" ELSE "done"
           /\ told'[t] = IF pc[t] \in {"idle", "done"} THEN told[t] ELSE "gone"
  <2>1. /\ log' = SubSeq(log, 1, n) /\ landed' = n /\ hole' = None
        /\ queue' = <<>> /\ outcome' = NoOutcome /\ gone' = {}
        /\ answers' = [t \in Tasks |-> None]
        /\ pc' = [t \in Tasks |-> IF pc[t] = "idle" THEN "idle" ELSE "done"]
        /\ told' = [t \in Tasks |-> IF pc[t] \in {"idle", "done"} THEN told[t] ELSE "gone"]
    BY DEF Reopen
  <2>. HIDE DEF n
  <2>. QED
    BY <2>1
<1>. HIDE DEF n
<1>4. Len(log') = n /\ \A i \in 1..n : i \in 1..Len(log) /\ log'[i] = log[i]
  BY <1>1, <1>3
<1>5. \A u : Landed(u)' => Landed(u)
  BY <1>4 DEF Landed
<1>6. Once'
  <2>1. (\A i, j \in 1..Len(log) : log[i].txn = log[j].txn => i = j)'
    BY <1>4 DEF Told, Once
  <2>2. outcome'.n = 0 /\ Len(queue') = 0
    BY <1>3 DEF NoOutcome
  <2>3. (\A j \in outcome.n + 1 .. Len(queue) : ~Landed(queue[j].txn))'
    BY <2>2
  <2>4. (\A i \in 1..outcome.n : queue[i].version \in 1..Len(log) /\ log[queue[i].version] = queue[i])'
    BY <2>2
  <2>. QED
    BY <2>1, <2>3, <2>4 DEF Once
<1>7. Durable'
  BY <1>3 DEF Durable
<1>8. ASSUME NEW u \in Tasks PROVE TaskTold(u)'
  <2>1. TaskTold(u)
    BY DEF Told
  <2>2. TicketOf(u)'
    BY <1>3, <2>1 DEF TaskTold, TicketOf, Waiting
  <2>3. UnlandedOf(u)'
    BY <1>3, <1>5, <2>1, GateAssumption DEF TaskTold, UnlandedOf, Before, Refusals, Replies, Results, Failures
  <2>4. AckedOf(u)'
    <3>1. ASSUME Lossless, told'[u] = "ok"
          PROVE  \E i \in 1..Len(log') : log'[i].txn = u /\ i <= landed'
      <4>1. told[u] = "ok"
        BY <1>3, <3>1
      <4>2. PICK i \in 1..Len(log) : log[i].txn = u /\ i <= landed
        BY <2>1, <3>1, <4>1 DEF TaskTold, AckedOf
      <4>. QED
        BY <1>1, <1>2, <1>3, <1>4, <3>1, <4>2
    <3>. QED
      BY <1>3, <3>1, GateAssumption DEF AckedOf, Replies, Results
  <2>. QED
    BY <2>2, <2>3, <2>4 DEF TaskTold
<1>. QED
  BY <1>6, <1>7, <1>8 DEF Told

LEMMA InitTold == Init => Told
<1>. SUFFICES ASSUME Init PROVE Told
  OBVIOUS
<1>1. \A u : ~Landed(u)
  BY DEF Init, Landed
<1>2. Once
  BY <1>1 DEF Init, Once, NoOutcome
<1>3. Durable
  BY DEF Init, Durable
<1>4. ASSUME NEW u \in Tasks PROVE TaskTold(u)
  <2>1. /\ pc[u] \in {"idle", "queued"} /\ told[u] = None /\ answers[u] = None /\ gone = {}
    BY DEF Init
  <2>. QED
    BY <1>1, <2>1, GateAssumption
       DEF TaskTold, TicketOf, UnlandedOf, AckedOf, Waiting, Refusals, Replies, Results, Failures
<1>. QED
  BY <1>2, <1>3, <1>4 DEF Told

LEMMA NextTold == Inv /\ Told /\ [Next]_vars => Told'
<1>. SUFFICES ASSUME Inv, Told, [Next]_vars PROVE Told'
  OBVIOUS
<1>1. ASSUME NEW t \in Tasks, Step(t) PROVE Told'
  BY <1>1, EarlyTold, WaiterTold, CollectTold, SettleTold, StageTold, FlushTold, RecordTold, ApplyTold DEF Step
<1>2. ASSUME NEW t \in Tasks, Cancel(t) \/ CancelApply(t) \/ Abandon(t) PROVE Told'
  BY <1>2, CancelTold, CancelApplyTold, AbandonTold
<1>3. CASE UNCHANGED vars
  BY <1>3 DEF vars, Told, Once, Durable, TaskTold, TicketOf, UnlandedOf, AckedOf, Landed, Queued, LandedAs
<1>. QED
  BY <1>1, <1>2, <1>3, ReopenTold DEF Next, Finished

\* What each task was told agrees with where its batch is, whatever is dropped, fails
\* or is landed by another task (Pending::record, Ticket's drop, settle).
THEOREM ToldInvariance == Spec => [](Inv /\ Told)
<1>1. Init => Inv /\ Told
  BY InitInv, InitTold
<1>2. (Inv /\ Told) /\ [Next]_vars => (Inv /\ Told)'
  BY NextInv, NextTold
<1>. QED
  BY <1>1, <1>2, PTL DEF Spec

\* A refused commit never lands, under any combination of faults: what the caller may
\* retry is neither in the engine nor queued behind it (Pending::record's refuse_staged).
THEOREM RefusalsHold == Spec => []RefusalIsFinal
<1>1. Inv /\ Told => RefusalIsFinal
  <2>. SUFFICES ASSUME Inv, Told, NEW t \in Tasks, told[t] \in Refusals
                PROVE  /\ \A i \in 1..Len(log) : log[i].txn # t
                       /\ \A i \in 1..Len(queue) : queue[i].txn # t
    BY DEF RefusalIsFinal
  <2>1. ~Landed(t)
    BY DEF Told, TaskTold, UnlandedOf
  <2>2. \A i \in 1..Len(queue) : queue[i].txn # t
    BY QueuedUntold, GateAssumption DEF Refusals, Replies, Results, Failures
  <2>. QED
    BY <2>1, <2>2 DEF Landed
<1>. QED
  BY <1>1, ToldInvariance, PTL

\* Dropped tickets leave nothing behind, in whatever order a task is dropped and its
\* landing recorded (Ticket's drop, Pending::record).
THEOREM TicketsAccounted == Spec => []NoTicketLeaks
<1>1. Inv /\ Told => NoTicketLeaks
  <2>. SUFFICES ASSUME Inv, Told PROVE NoTicketLeaks
    OBVIOUS
  <2>1. \A t \in gone : t \in Tasks /\ Queued(t)
    BY DEF Inv, TypeOK, Told, TaskTold, TicketOf
  <2>. QED
    BY <2>1 DEF NoTicketLeaks, Queued, Inv, Owned, AnswersTrue, Waiting
<1>. QED
  BY <1>1, ToldInvariance, PTL

\* A commit told it landed is in the engine and readable by whoever begins next, if no
\* sync fails, the store is not opened again, or no sync is shared.
THEOREM AcknowledgedIsReadable == Lossless => (Spec => []AckedIsReadable)
<1>. SUFFICES ASSUME Lossless PROVE Spec => []AckedIsReadable
  OBVIOUS
<1>1. Inv /\ Told => AckedIsReadable
  BY DEF Told, TaskTold, AckedOf, AckedIsReadable
<1>. QED
  BY <1>1, ToldInvariance, PTL

\* Nothing acknowledged is lost when the store is opened again, if no sync fails or none
\* is shared: where both happen the shared sync leaves acknowledged batches behind a hole.
THEOREM AcknowledgedSurvives == Lossless => (Spec => []AckedSurvivesReopen)
<1>. SUFFICES ASSUME Lossless PROVE Spec => []AckedSurvivesReopen
  OBVIOUS
<1>1. AckedIsReadable => AckedSurvivesReopen
  BY DEF AckedIsReadable, AckedSurvivesReopen
<1>2. Spec => []AckedIsReadable
  BY AcknowledgedIsReadable
<1>. QED
  BY <1>1, <1>2, PTL

\* On a backend that shares no sync, a write refused because the store stopped did not
\* land: the stop is looked at under the turn, before the write (WriteGate::apply).
THEOREM StoppedIsUnwritten == ~Grouped => (Spec => []StoppedDidNotLand)
<1>. SUFFICES ASSUME ~Grouped PROVE Spec => []StoppedDidNotLand
  OBVIOUS
<1>1. Inv /\ Told => StoppedDidNotLand
  BY DEF Told, TaskTold, UnlandedOf, StoppedDidNotLand, Landed
<1>. QED
  BY <1>1, ToldInvariance, PTL

-----------------------------------------------------------------------------
(* What a batch was derived on.                                            *)

\* Whether a tail is a version: one log, or one batch to a sync.
TailIsVersion == ~Grouped \/ \A t, u \in Tasks : Home[t] = Home[u]

\* The engine's history and what is pending behind it, as one numbered history.
WholeLen == Len(log) + (Len(queue) - outcome.n)
WholeAt(k) == IF k <= Len(log) THEN log[k].txn ELSE queue[(k - Len(log)) + outcome.n].txn
Agrees(on, n) == \A k \in 1..n : on[k] = WholeAt(k)

Homed ==
    /\ \A i \in 1..Len(log) : log[i].home = Home[log[i].txn]
    /\ \A i \in 1..Len(queue) : queue[i].home = Home[queue[i].txn]
    /\ \A t \in Tasks : pc[t] \in {"derived", "applying"} => batch[t].home = Home[t]

\* A landed batch was derived on what landed before it.
LandedOn ==
    \A i \in 1..Len(log) : Len(log[i].on) = i - 1 /\ \A k \in 1..(i - 1) : log[i].on[k] = log[k].txn

\* A queued one asserts a tail no lower than its version, and equal only if what it was
\* derived on is still what it would land on.
QueuedOn ==
    \A j \in 1..Len(queue) :
        /\ queue[j].pos >= queue[j].version
        /\ queue[j].pos = queue[j].version =>
             Len(queue[j].on) = queue[j].version - 1 /\ Agrees(queue[j].on, queue[j].version - 1)

\* What the turn's holder derived on may since have been cut short, never overtaken.
HeldOn ==
    \A t \in Tasks :
        /\ pc[t] = "derived" =>
             /\ WholeLen <= Len(batch[t].on) /\ Agrees(batch[t].on, WholeLen)
             /\ Grouped => batch[t].pos > Len(batch[t].on)
             /\ ~Grouped => Len(batch[t].on) = Len(log)
        /\ pc[t] = "applying" => Len(batch[t].on) = Len(log) /\ Agrees(batch[t].on, Len(log))

Derivation == Homed /\ LandedOn /\ QueuedOn /\ HeldOn

LEMMA Numbered ==
    ASSUME Inv
    PROVE  /\ Len(log) \in Nat /\ version = Len(log) /\ Len(queue) \in Nat
           /\ outcome.n \in Nat /\ outcome.n <= Len(queue)
           /\ WholeLen \in Nat /\ Len(log) <= WholeLen
           /\ \A i \in 1..Len(queue) : /\ queue[i] \in Member
                                        /\ queue[i].version = Len(log) + (i - outcome.n)
<1>1. /\ Len(log) \in Nat /\ version = Len(log) /\ Len(queue) \in Nat
      /\ outcome.n \in Nat /\ outcome.n <= Len(queue)
  BY LenProperties DEF Inv, TypeOK, Outcome, Shape, Chain, DenseVersions
<1>2. \A i \in 1..Len(queue) : /\ queue[i] \in Member /\ queue[i].version \in Nat
                                /\ queue[i].version + outcome.n = version + i
  BY ElementOfSeq, MemberFields DEF Inv, TypeOK, Chain
<1>3. ASSUME NEW i \in 1..Len(queue) PROVE queue[i].version = Len(log) + (i - outcome.n)
  <2>. DEFINE v == queue[i].version
              m == outcome.n
              l == Len(log)
  <2>1. v \in Nat /\ v + m = l + i /\ m \in Nat /\ l \in Nat /\ i \in Nat
    BY <1>1, <1>2
  <2>. HIDE DEF v, m, l
  <2>2. v = l + (i - m)
    BY <2>1
  <2>. QED
    BY <2>2 DEF v, m, l
<1>. QED
  BY <1>1, <1>2, <1>3, SMTT(30) DEF WholeLen

\* What the holder's reads are made against is the whole history.
LEMMA SeenWhole ==
    ASSUME Inv
    PROVE  OnSeen \in Seq(Tasks) /\ Len(OnSeen) = WholeLen /\ \A k \in 1..WholeLen : OnSeen[k] = WholeAt(k)
<1>. DEFINE q == SubSeq(queue, outcome.n + 1, Len(queue))
<1>1. /\ Len(log) \in Nat /\ Len(queue) \in Nat /\ outcome.n \in Nat /\ outcome.n <= Len(queue)
      /\ queue \in Seq(Member) /\ log \in Seq(Member)
  BY Numbered DEF Inv, TypeOK
<1>2. /\ q \in Seq(Member) /\ Len(q) = Len(queue) - outcome.n
      /\ \A i \in 1..(Len(queue) - outcome.n) : q[i] = queue[i + outcome.n]
  BY <1>1, SMTT(30)
<1>3. OnSeen = WritersOf(log) \o WritersOf(q)
  BY DEF OnSeen
<1>. HIDE DEF q
<1>4. ASSUME NEW s \in Seq(Member)
      PROVE  /\ WritersOf(s) \in Seq(Tasks) /\ Len(WritersOf(s)) = Len(s)
             /\ \A i \in 1..Len(s) : WritersOf(s)[i] = s[i].txn
  <2>1. Len(s) \in Nat /\ \A i \in 1..Len(s) : s[i].txn \in Tasks
    BY ElementOfSeq, LenProperties, MemberFields
  <2>2. WritersOf(s) \in [1..Len(s) -> Tasks]
    BY <2>1 DEF WritersOf
  <2>3. WritersOf(s) \in Seq(Tasks)
    BY <2>1, <2>2, SeqDef
  <2>. QED
    BY <2>1, <2>2, <2>3, LenProperties DEF WritersOf
<1>5. /\ WritersOf(log) \in Seq(Tasks) /\ Len(WritersOf(log)) = Len(log)
      /\ \A i \in 1..Len(log) : WritersOf(log)[i] = log[i].txn
      /\ WritersOf(q) \in Seq(Tasks) /\ Len(WritersOf(q)) = Len(q)
      /\ \A i \in 1..Len(q) : WritersOf(q)[i] = q[i].txn
  BY <1>1, <1>2, <1>4
<1>. DEFINE a == WritersOf(log)
            b == WritersOf(q)
<1>6. /\ a \in Seq(Tasks) /\ Len(a) = Len(log) /\ \A i \in 1..Len(log) : a[i] = log[i].txn
      /\ b \in Seq(Tasks) /\ Len(b) = Len(queue) - outcome.n
      /\ \A i \in 1..(Len(queue) - outcome.n) : b[i] = queue[i + outcome.n].txn
      /\ OnSeen = a \o b
  BY <1>2, <1>3, <1>5
<1>. HIDE DEF a, b
<1>7. OnSeen \in Seq(Tasks) /\ Len(OnSeen) = WholeLen
  BY <1>1, <1>6, ConcatProperties DEF WholeLen
<1>8. ASSUME NEW k \in 1..WholeLen PROVE OnSeen[k] = WholeAt(k)
  <2>1. OnSeen[k] = IF k <= Len(a) THEN a[k] ELSE b[k - Len(a)]
    BY <1>1, <1>6, <1>7, ConcatProperties
  <2>2. CASE k <= Len(log)
    BY <1>1, <1>6, <2>1, <2>2 DEF WholeAt, WholeLen
  <2>3. CASE ~(k <= Len(log))
    <3>1. (k - Len(log)) \in 1..(Len(queue) - outcome.n)
      BY <1>1, <2>3 DEF WholeLen
    <3>. QED
      BY <1>1, <1>6, <2>1, <2>3, <3>1 DEF WholeAt
  <2>. QED
    BY <2>2, <2>3
<1>. QED
  BY <1>7, <1>8

\* With one log a position is a version.
LEMMA OneTail ==
    ASSUME Inv, Positions, Homed, Grouped, TailIsVersion
    PROVE  /\ \A t \in Tasks : tail[Home[t]] = Len(log)
           /\ \A i \in 1..Len(log) : log[i].pos = i
<1>1. \A i \in 1..Len(log) : log[i].txn \in Tasks
  BY ElementOfSeq, MemberFields DEF Inv, TypeOK
<1>2. \A t \in Tasks : \A i \in 1..Len(log) : log[i].home = Home[t]
  BY <1>1 DEF Homed, TailIsVersion
<1>3. Len(log) \in Nat
  BY Numbered
<1>4. ASSUME NEW t \in Tasks PROVE tail[Home[t]] = Len(log)
  <2>1. FiledIn(log, Home[t], Len(log)) = 1..Len(log)
    BY <1>2, <1>3 DEF FiledIn
  <2>2. Home[t] \in Homes
    BY GateAssumption
  <2>3. \A m \in Nat : Cardinality(1..m) = m
    BY FS_Interval
  <2>. QED
    BY <1>3, <2>1, <2>2, <2>3 DEF Positions, TailCounts
<1>5. ASSUME NEW i \in 1..Len(log) PROVE log[i].pos = i
  <2>1. {j \in 1..i : log[j].home = log[i].home} = 1..i
    BY <1>1, <1>2, <1>3
  <2>2. Cardinality(1..i) = i
    BY <1>3, FS_Interval
  <2>. QED
    BY <2>1, <2>2 DEF Positions, DensePositions
<1>. QED
  BY <1>4, <1>5

\* A step that derives nothing and leaves the history and the queue alone.
LEMMA DerivationFrame ==
    ASSUME Inv, Derivation, UNCHANGED <<log, queue>>, outcome'.n = outcome.n,
           \A t \in Tasks : pc'[t] \in {"derived", "applying"} => pc'[t] = pc[t] /\ batch'[t] = batch[t]
    PROVE  Derivation'
<1>1. WholeLen' = WholeLen /\ \A k : WholeAt(k)' = WholeAt(k)
  BY DEF WholeLen, WholeAt
<1>2. Homed' /\ LandedOn'
  BY DEF Derivation, Homed, LandedOn
<1>3. QueuedOn'
  BY <1>1 DEF Derivation, QueuedOn, Agrees
<1>4. HeldOn'
  BY <1>1 DEF Derivation, HeldOn, Agrees
<1>. QED
  BY <1>2, <1>3, <1>4 DEF Derivation

\* What the engine takes of the group in flight continues the history it was derived on.
LEMMA GroupOn ==
    ASSUME Inv, Positions, Derivation, TailIsVersion, outcome.n = 0,
           NEW n \in Judged(SubSeq(queue, 1, cut)), Takes(SubSeq(queue, 1, cut), n)
    PROVE  /\ n \in 0..cut /\ n \in 0..Len(queue) /\ Len(log') = Len(log) + n
           /\ \A k \in 1..Len(log') : log'[k].txn = WholeAt(k)
           /\ \A k \in 1..Len(log') : log'[k].home = Home[log'[k].txn]
           /\ LandedOn'
<1>. DEFINE g == SubSeq(queue, 1, cut)
<1>1. g \in Seq(Member) /\ Len(g) = cut /\ \A i \in 1..cut : i \in 1..Len(queue) /\ g[i] = queue[i]
  BY GroupInFlight
<1>2. n \in Judged(g) /\ Takes(g, n) /\ cut \in Nat /\ cut <= Len(queue)
  BY DEF Inv, TypeOK, Shape
<1>. HIDE DEF g
<1>3. n \in 0..Len(g) /\ \A i \in 1..n : Holds(g, i)
  BY <1>2 DEF Judged
<1>4. /\ Len(log') = Len(log) + n /\ \A i \in 1..Len(log) : log'[i] = log[i]
      /\ \A i \in 1..n : log'[Len(log) + i] = g[i]
  BY <1>1, <1>2, <1>3, TakesAppends DEF Inv, Chain
<1>5. /\ Len(log) \in Nat /\ version = Len(log) /\ Len(queue) \in Nat
      /\ n \in 0..cut /\ n \in 0..Len(queue) /\ n \in Nat
      /\ \A i \in 1..n : i \in 1..Len(queue) /\ i \in 1..cut
  BY <1>1, <1>2, <1>3, Numbered
<1>6. ASSUME NEW j \in 1..n
      PROVE  /\ log'[Len(log) + j] = queue[j] /\ queue[j].version = Len(log) + j
             /\ queue[j].pos = queue[j].version
  <2>1. g[j] = queue[j] /\ j \in 1..Len(queue) /\ Grouped
    BY <1>1, <1>5 DEF Inv, TurnHeld
  <2>2. g[j].version = version + j /\
        g[j].pos = tail[g[j].home] + Cardinality({l \in 1..j : g[l].home = g[j].home})
    BY <1>3 DEF Holds
  <2>3. \A l \in 1..j : l \in 1..n /\ g[l] = queue[l]
    BY <1>1, <1>5
  <2>4. \A l \in 1..Len(queue) : queue[l].txn \in Tasks /\ queue[l].home = Home[queue[l].txn]
    BY Numbered, MemberFields DEF Derivation, Homed
  <2>5. {l \in 1..j : g[l].home = g[j].home} = 1..j
    BY <1>5, <2>1, <2>3, <2>4 DEF TailIsVersion
  <2>6. tail[g[j].home] = Len(log)
    BY <2>1, <2>4, OneTail DEF Derivation
  <2>7. j \in Nat /\ \A m \in Nat : Cardinality(1..m) = m
    BY FS_Interval
  <2>8. queue[j].pos = Len(log) + j
    BY <2>1, <2>2, <2>5, <2>6, <2>7
  <2>. QED
    BY <1>4, <1>5, <2>1, <2>2, <2>8
<1>7. \A i \in 1..Len(log') :
         \/ i \in 1..Len(log) /\ log'[i] = log[i]
         \/ \E j \in 1..n : i = Len(log) + j /\ j \in 1..Len(queue) /\ log'[i] = queue[j]
  <2>1. ASSUME NEW i \in 1..Len(log'), i \notin 1..Len(log)
        PROVE  (i - Len(log)) \in 1..n /\ i = Len(log) + (i - Len(log))
    BY <1>4, <1>5, <2>1
  <2>. QED
    BY <1>4, <1>5, <1>6, <2>1, ZenonT(60)
<1>8. \A k \in 1..Len(log') : log'[k].txn = WholeAt(k)
  <2>1. ASSUME NEW k \in 1..Len(log') PROVE log'[k].txn = WholeAt(k)
    <3>1. CASE k \in 1..Len(log) /\ log'[k] = log[k]
      BY <1>5, <3>1 DEF WholeAt
    <3>2. ASSUME NEW j \in 1..n, k = Len(log) + j, log'[k] = queue[j] PROVE log'[k].txn = WholeAt(k)
      <4>1. ~(k <= Len(log)) /\ (k - Len(log)) + outcome.n = j
        BY <1>5, <3>2
      <4>. QED
        BY <3>2, <4>1 DEF WholeAt
    <3>. QED
      BY <1>7, <3>1, <3>2
  <2>. QED
    BY <2>1
<1>9. ASSUME NEW k \in 1..Len(log') PROVE log'[k].home = Home[log'[k].txn]
  <2>1. CASE k \in 1..Len(log) /\ log'[k] = log[k]
    BY <2>1 DEF Derivation, Homed
  <2>2. ASSUME NEW j \in 1..Len(queue), log'[k] = queue[j] PROVE log'[k].home = Home[log'[k].txn]
    BY <2>2 DEF Derivation, Homed
  <2>. QED
    BY <1>7, <2>1, <2>2
<1>10. ASSUME NEW i \in 1..Len(log')
       PROVE  Len(log'[i].on) = i - 1 /\ \A k \in 1..(i - 1) : log'[i].on[k] = log'[k].txn
  <2>1. CASE i \in 1..Len(log) /\ log'[i] = log[i]
    <3>1. \A k \in 1..(i - 1) : log'[k] = log[k]
      BY <1>4, <1>5, <2>1
    <3>. QED
      BY <2>1, <3>1 DEF Derivation, LandedOn
  <2>2. ASSUME NEW j \in 1..n, i = Len(log) + j, j \in 1..Len(queue), log'[i] = queue[j]
        PROVE  Len(log'[i].on) = i - 1 /\ \A k \in 1..(i - 1) : log'[i].on[k] = log'[k].txn
    <3>1. queue[j].pos = queue[j].version /\ queue[j].version = i
      BY <1>6, <2>2
    <3>2. Len(queue[j].on) = i - 1 /\ Agrees(queue[j].on, i - 1)
      BY <2>2, <3>1 DEF Derivation, QueuedOn
    <3>3. \A k \in 1..(i - 1) : k \in 1..Len(log')
      BY <1>4, <1>5
    <3>. QED
      BY <1>8, <2>2, <3>2, <3>3 DEF Agrees
  <2>. QED
    BY <1>7, <2>1, <2>2
<1>. QED
  BY <1>4, <1>5, <1>8, <1>9, <1>10 DEF LandedOn

LEMMA FlushDerivation ==
    ASSUME Inv, Positions, Derivation, TailIsVersion, NEW t \in Tasks, Flush(t)
    PROVE  Derivation'
<1>1. /\ pc[t] = "flushing" /\ \A u \in Tasks : pc'[u] \in {"derived", "applying"} => pc'[u] = pc[u]
      /\ UNCHANGED <<queue, batch>>
  BY DEF Inv, TypeOK, Flush
<1>2. outcome.n = 0 /\ cut > 0 /\ cut \in Nat /\ cut <= Len(queue) /\ Grouped /\ Len(queue) \in Nat
  BY <1>1, LenProperties DEF Inv, Shape, TypeOK, TurnHeld
<1>3. PICK a \in [n : 0..cut, why : Results] : Applies(SubSeq(queue, 1, cut), a) /\ outcome' = a
  BY DEF Flush
<1>4. CASE UNCHANGED log /\ a.n = 0
  BY <1>1, <1>2, <1>3, <1>4, DerivationFrame
<1>5. CASE a.n \in Judged(SubSeq(queue, 1, cut)) /\ Takes(SubSeq(queue, 1, cut), a.n)
  <2>1. /\ a.n \in 0..Len(queue) /\ Len(log') = Len(log) + a.n
        /\ \A k \in 1..Len(log') : log'[k].txn = WholeAt(k)
        /\ \A k \in 1..Len(log') : log'[k].home = Home[log'[k].txn]
        /\ LandedOn'
    BY <1>2, <1>5, GroupOn
  <2>2. Len(log) \in Nat /\ WholeLen' = WholeLen /\ WholeLen \in Nat
    BY <1>1, <1>2, <1>3, <2>1, Numbered DEF WholeLen
  <2>3. \A k \in 1..WholeLen : WholeAt(k)' = WholeAt(k)
    <3>1. ASSUME NEW k \in 1..WholeLen PROVE WholeAt(k)' = WholeAt(k)
      <4>1. CASE k \in 1..Len(log')
        BY <2>1, <2>2, <4>1 DEF WholeAt
      <4>2. CASE k \notin 1..Len(log')
        <5>1. /\ ~(k <= Len(log')) /\ ~(k <= Len(log))
              /\ (k - Len(log')) + outcome'.n = (k - Len(log)) + outcome.n
          BY <1>2, <1>3, <2>1, <2>2, <4>2
        <5>. QED
          BY <1>1, <5>1 DEF WholeAt
      <4>. QED
        BY <4>1, <4>2
    <3>. QED
      BY <3>1
  <2>4. Homed'
    BY <1>1, <2>1 DEF Derivation, Homed
  <2>5. QueuedOn'
    <3>1. \A j \in 1..Len(queue) : \A k \in 1..(queue[j].version - 1) : k \in 1..WholeLen
      <4>1. ASSUME NEW j \in 1..Len(queue) PROVE queue[j].version \in Nat /\ queue[j].version <= WholeLen
        BY <1>2, Numbered, MemberFields DEF WholeLen
      <4>. QED
        BY <2>2, <4>1
    <3>. QED
      BY <1>1, <2>3, <3>1 DEF Derivation, QueuedOn, Agrees
  <2>6. HeldOn'
    <3>1. \A u \in Tasks : pc[u] # "applying"
      BY <1>2 DEF Inv, TurnHeld
    <3>. QED
      BY <1>1, <1>2, <2>2, <2>3, <3>1 DEF Derivation, HeldOn, Agrees
  <2>. QED
    BY <2>1, <2>4, <2>5, <2>6 DEF Derivation
<1>. QED
  BY <1>3, <1>4, <1>5 DEF Applies, Accepted, Fails

LEMMA RecordDerivation ==
    ASSUME Inv, Derivation, NEW t \in Tasks, Record(t)
    PROVE  Derivation'
<1>1. /\ pc[t] = "flushed" /\ queue' = SubSeq(queue, Settled + 1, Len(queue)) /\ outcome'.n = 0
      /\ \A u \in Tasks : pc'[u] \in {"derived", "applying"} => pc'[u] = pc[u]
      /\ UNCHANGED <<log, batch>>
  BY DEF Record, Roused, Awake, engine, NoOutcome
<1>2. /\ cut \in Nat /\ cut > 0 /\ cut <= Len(queue) /\ outcome.n \in Nat /\ outcome.n <= cut
      /\ Len(queue) \in Nat /\ queue \in Seq(Member) /\ Len(log) \in Nat /\ WholeLen \in Nat
  BY <1>1, LenProperties, Numbered DEF Inv, Shape, TypeOK, Outcome
<1>3. /\ Settled \in outcome.n..Len(queue)
      /\ (outcome.n = cut => Settled = outcome.n) /\ (outcome.n # cut => Settled = Len(queue))
  BY <1>2 DEF Settled
<1>4. /\ Len(queue') = Len(queue) - Settled
      /\ \A i \in 1..Len(queue') : Settled + i \in 1..Len(queue) /\ queue'[i] = queue[Settled + i]
  BY <1>1, <1>2, <1>3
<1>5. WholeLen' <= WholeLen /\ WholeLen' \in Nat /\ Len(log) <= WholeLen /\ Len(queue') \in Nat
  BY <1>1, <1>2, <1>3, <1>4, SMTT(30) DEF WholeLen
<1>11. WholeLen' = Len(log) + Len(queue')
  <2>1. WholeLen' = Len(log) + (Len(queue') - 0)
    BY <1>1 DEF WholeLen
  <2>2. \A x, y \in Nat : x + (y - 0) = x + y
    OBVIOUS
  <2>. QED
    BY <1>2, <1>5, <2>1, <2>2
<1>6. ASSUME NEW k \in 1..WholeLen' PROVE WholeAt(k)' = WholeAt(k)
  <2>1. CASE k <= Len(log)
    BY <1>1, <2>1 DEF WholeAt
  <2>2. CASE ~(k <= Len(log))
    <3>1. (k - Len(log)) \in 1..Len(queue') /\ outcome.n = cut
      <4>1. (k - Len(log)) \in 1..Len(queue')
        BY <1>2, <1>5, <1>11, <2>2
      <4>. QED
        BY <1>2, <1>3, <1>4, <4>1
    <3>2. queue'[k - Len(log)] = queue[(k - Len(log)) + outcome.n] /\ (k - Len(log)) + 0 = k - Len(log)
      BY <1>2, <1>3, <1>4, <3>1
    <3>. QED
      BY <1>1, <2>2, <3>2 DEF WholeAt
  <2>. QED
    BY <2>1, <2>2
<1>7. Homed'
  BY <1>1, <1>4, ZenonT(60) DEF Derivation, Homed
<1>8. LandedOn'
  BY <1>1 DEF Derivation, LandedOn
<1>9. QueuedOn'
  <2>1. ASSUME NEW j \in 1..Len(queue')
        PROVE  /\ queue'[j].pos >= queue'[j].version
               /\ queue'[j].pos = queue'[j].version =>
                    Len(queue'[j].on) = queue'[j].version - 1 /\ Agrees(queue[j].on, queue[j].version - 1)'
    <3>. DEFINE i == Settled + j
    <3>1. i \in 1..Len(queue) /\ queue'[j] = queue[i]
      BY <1>4
    <3>2. Settled = outcome.n
      BY <1>2, <1>3, <1>4
    <3>3. queue[i].version = Len(log) + (i - outcome.n)
      BY <3>1, Numbered
    <3>4. queue[i].version \in Nat /\ queue[i].version <= WholeLen'
      <4>1. i - outcome.n = j /\ j \in Nat
        BY <1>2, <1>5, <3>2
      <4>2. queue[i].version = Len(log) + j
        BY <3>3, <4>1
      <4>. QED
        BY <1>2, <1>5, <1>11, <4>1, <4>2
    <3>. HIDE DEF i
    <3>5. \A k \in 1..(queue[i].version - 1) : k \in 1..WholeLen'
      BY <1>5, <3>4
    <3>. QED
      BY <1>6, <3>1, <3>5 DEF Derivation, QueuedOn, Agrees
  <2>. QED
    BY <2>1 DEF QueuedOn
<1>10. HeldOn'
  <2>1. \A u \in Tasks : pc[u] # "applying" /\ Grouped
    BY <1>2 DEF Inv, TurnHeld
  <2>2. ASSUME NEW u \in Tasks, pc'[u] = "derived"
        PROVE  WholeLen' <= Len(batch[u].on) /\ Agrees(batch[u].on, WholeLen)' /\ batch[u].pos > Len(batch[u].on)
    <3>1. /\ WholeLen <= Len(batch[u].on) /\ Agrees(batch[u].on, WholeLen)
          /\ batch[u].pos > Len(batch[u].on)
      BY <1>1, <2>1, <2>2 DEF Derivation, HeldOn
    <3>2. Len(batch[u].on) \in Nat
      BY <1>1, <2>2, MemberFields, LenProperties DEF Inv, Owned, BatchHeld
    <3>3. \A k \in 1..WholeLen' : k \in 1..WholeLen
      BY <1>2, <1>5
    <3>4. Agrees(batch[u].on, WholeLen)'
      BY <1>1, <1>6, <3>1, <3>3 DEF Agrees
    <3>. QED
      BY <1>2, <1>5, <3>1, <3>2, <3>4
  <2>. QED
    BY <1>1, <2>1, <2>2 DEF HeldOn
<1>. QED
  BY <1>7, <1>8, <1>9, <1>10 DEF Derivation

LEMMA DeriveDerivation ==
    ASSUME Inv, Told, Positions, Derivation, TailIsVersion, NEW t \in Tasks, Derive(t)
    PROVE  Derivation'
<1>1. /\ UNCHANGED <<log, queue, outcome>> /\ pc'[t] = "derived" /\ pc[t] = "holding"
      /\ \A u \in Tasks \ {t} : pc'[u] = pc[u] /\ batch'[u] = batch[u]
  BY DEF Derive, engine, pending, Inv, TypeOK
<1>2. PICK p \in TailSeen(Home[t]) :
        batch'[t] = [txn |-> t, home |-> Home[t], pos |-> p + 1, version |-> 0, on |-> OnSeen]
  BY DEF Derive, Inv, TypeOK
<1>3. batch'[t].home = Home[t] /\ batch'[t].pos = p + 1 /\ batch'[t].on = OnSeen
  BY <1>2
<1>4. OnSeen \in Seq(Tasks) /\ Len(OnSeen) = WholeLen /\ \A k \in 1..WholeLen : OnSeen[k] = WholeAt(k)
  BY SeenWhole
<1>5. WholeLen' = WholeLen /\ (\A k : WholeAt(k)' = WholeAt(k)) /\ WholeLen \in Nat
  BY <1>1, Numbered DEF WholeLen, WholeAt
<1>6. ~Grouped => WholeLen = Len(log)
  BY Numbered DEF Inv, TurnHeld, WholeLen
<1>7. ASSUME Grouped PROVE p + 1 > WholeLen
  <2>1. /\ Len(log) \in Nat /\ Len(queue) \in Nat /\ outcome.n \in Nat /\ outcome.n <= Len(queue)
        /\ \A i \in 1..Len(queue) : queue[i] \in Member /\ queue[i].version = Len(log) + (i - outcome.n)
    BY Numbered
  <2>2. PendingIn(Home[t]) = 1..Len(queue)
    <3>1. \A i \in 1..Len(queue) : queue[i].home = Home[t]
      BY <1>7, <2>1, MemberFields DEF Derivation, Homed, TailIsVersion
    <3>. QED
      BY <3>1 DEF PendingIn
  <2>3. CASE Len(queue) = 0
    <3>1. p = Len(log)
      BY <1>7, <2>2, <2>3, OneTail DEF TailSeen, Derivation
    <3>. QED
      BY <2>1, <2>3, <3>1 DEF WholeLen
  <2>4. CASE Len(queue) # 0
    <3>1. PICK j \in 1..Len(queue) : p = queue[j].pos /\ \A k \in 1..Len(queue) : k <= j
      <4>1. 1 \in PendingIn(Home[t])
        BY <2>1, <2>2, <2>4
      <4>2. TailSeen(Home[t]) = {queue[i].pos : i \in {j \in 1..Len(queue) : \A k \in 1..Len(queue) : k <= j}}
        BY <2>2, <4>1 DEF TailSeen
      <4>. QED
        BY <4>2
    <3>2. j = Len(queue)
      BY <2>1, <2>4, <3>1
    <3>3. queue[j].version = WholeLen /\ queue[j].pos \in Nat /\ queue[j].pos >= queue[j].version
      BY <2>1, <3>2, MemberFields DEF WholeLen, Derivation, QueuedOn
    <3>. QED
      BY <1>5, <3>1, <3>3
  <2>. QED
    BY <2>3, <2>4
<1>8. Homed'
  BY <1>1, <1>3 DEF Derivation, Homed
<1>9. LandedOn'
  BY <1>1 DEF Derivation, LandedOn
<1>10. QueuedOn'
  BY <1>1, <1>5 DEF Derivation, QueuedOn, Agrees
<1>11. HeldOn'
  <2>1. ASSUME NEW u \in Tasks \ {t}
        PROVE  pc'[u] \notin {"derived", "applying"}
    BY <1>1 DEF Inv, TurnHeld
  <2>2. WholeLen' <= Len(batch'[t].on) /\ Agrees(batch[t].on, WholeLen)'
    BY <1>3, <1>4, <1>5 DEF Agrees
  <2>3. Grouped => batch'[t].pos > Len(batch'[t].on)
    BY <1>3, <1>4, <1>7
  <2>4. ~Grouped => Len(batch'[t].on) = Len(log')
    BY <1>1, <1>3, <1>4, <1>6
  <2>. QED
    BY <1>1, <2>1, <2>2, <2>3, <2>4 DEF HeldOn
<1>. QED
  BY <1>8, <1>9, <1>10, <1>11 DEF Derivation

\* A batch is staged at the end of the history it was derived on, or past what is left of it.
LEMMA StageDerivation ==
    ASSUME Inv, Derivation, NEW t \in Tasks, Stage(t)
    PROVE  Derivation'
<1>1. /\ UNCHANGED <<log, outcome>> /\ pc[t] = "derived"
      /\ \A u \in Tasks \ {t} : pc'[u] = pc[u] /\ batch'[u] = batch[u]
      /\ batch'[t] = Versioned(t)
  BY DEF Stage, engine, Inv, TypeOK
<1>2. \/ Grouped /\ pc'[t] = "staged" /\ queue' = Append(queue, Versioned(t))
      \/ ~Grouped /\ pc'[t] = "applying" /\ queue' = queue
  BY DEF Inv, TypeOK, Stage
<1>3. batch[t] \in Member /\ batch[t].txn = t /\ batch[t].home = Home[t] /\ queue \in Seq(Member)
  BY <1>1 DEF Inv, TypeOK, Owned, BatchHeld, Derivation, Homed
<1>. DEFINE m == Versioned(t)
<1>4. /\ m.txn = t /\ m.home = Home[t] /\ m.on = batch[t].on /\ m.pos = batch[t].pos
      /\ m.version = VersionSeen + 1 /\ batch'[t] = m
  BY <1>1, <1>3 DEF Versioned, Member
<1>. HIDE DEF m
<1>5. /\ Len(log) \in Nat /\ version = Len(log) /\ Len(queue) \in Nat /\ outcome.n \in Nat
      /\ outcome.n <= Len(queue) /\ WholeLen \in Nat /\ Len(log) <= WholeLen
      /\ \A i \in 1..Len(queue) : queue[i] \in Member /\ queue[i].version = Len(log) + (i - outcome.n)
  BY Numbered
<1>6. VersionSeen = WholeLen
  <2>1. CASE queue = <<>>
    BY <1>5, <2>1 DEF VersionSeen, WholeLen
  <2>2. CASE queue # <<>>
    <3>1. Len(queue) \in 1..Len(queue)
      BY <1>3, <1>5, <2>2, EmptySeq
    <3>. QED
      BY <1>5, <2>2, <3>1 DEF VersionSeen, WholeLen, Last
  <2>. QED
    BY <2>1, <2>2
<1>7. /\ WholeLen <= Len(batch[t].on) /\ Agrees(batch[t].on, WholeLen)
      /\ Grouped => batch[t].pos > Len(batch[t].on)
      /\ ~Grouped => Len(batch[t].on) = Len(log)
  BY <1>1 DEF Derivation, HeldOn
<1>8. \A u \in Tasks \ {t} : pc'[u] \notin {"derived", "applying"}
  BY <1>1 DEF Inv, TurnHeld
<1>9. LandedOn'
  BY <1>1 DEF Derivation, LandedOn
<1>10. CASE ~Grouped
  <2>1. queue' = queue /\ queue = <<>> /\ pc'[t] = "applying"
    BY <1>2, <1>10 DEF Inv, TurnHeld
  <2>2. Homed'
    BY <1>1, <1>4, <1>8, <2>1 DEF Derivation, Homed
  <2>3. QueuedOn'
    BY <2>1 DEF QueuedOn
  <2>4. \A k \in 1..Len(log) : k \in 1..WholeLen /\ WholeAt(k)' = WholeAt(k)
    BY <1>1, <1>5, <2>1 DEF WholeAt
  <2>5. HeldOn'
    BY <1>1, <1>4, <1>7, <1>8, <1>10, <2>1, <2>4 DEF HeldOn, Agrees
  <2>. QED
    BY <1>9, <2>2, <2>3, <2>5 DEF Derivation
<1>11. CASE Grouped
  <2>1. /\ pc'[t] = "staged" /\ Len(queue') = Len(queue) + 1 /\ queue'[Len(queue) + 1] = m
        /\ \A i \in 1..Len(queue) : queue'[i] = queue[i]
    BY <1>2, <1>3, <1>11, AppendProperties DEF m
  <2>2. \A i \in 1..Len(queue') : i \in 1..Len(queue) \/ i = Len(queue) + 1
    BY <1>5, <2>1
  <2>3. ASSUME NEW k \in 1..WholeLen PROVE WholeAt(k)' = WholeAt(k)
    <3>1. CASE k <= Len(log)
      BY <1>1, <3>1 DEF WholeAt
    <3>2. CASE ~(k <= Len(log))
      <4>1. (k - Len(log)) + outcome.n \in 1..Len(queue)
        BY <1>5, <3>2 DEF WholeLen
      <4>. QED
        BY <1>1, <2>1, <3>2, <4>1 DEF WholeAt
    <3>. QED
      BY <3>1, <3>2
  <2>4. Homed'
    BY <1>1, <1>4, <1>8, <2>1, <2>2 DEF Derivation, Homed
  <2>5. ASSUME NEW j \in 1..Len(queue')
        PROVE  /\ queue'[j].pos >= queue'[j].version
               /\ queue'[j].pos = queue'[j].version =>
                    Len(queue'[j].on) = queue'[j].version - 1 /\ Agrees(queue[j].on, queue[j].version - 1)'
    <3>1. CASE j \in 1..Len(queue)
      <4>1. queue[j].version = Len(log) + (j - outcome.n) /\ queue[j].version \in Nat
        BY <1>5, <3>1, MemberFields
      <4>2. \A k \in 1..(queue[j].version - 1) : k \in 1..WholeLen
        BY <1>5, <3>1, <4>1, SMTT(30) DEF WholeLen
      <4>. QED
        BY <2>1, <2>3, <3>1, <4>2 DEF Derivation, QueuedOn, Agrees
    <3>2. CASE j = Len(queue) + 1
      <4>1. batch[t].pos \in Nat /\ Len(batch[t].on) \in Nat
        BY <1>3, MemberFields, LenProperties
      <4>2. queue'[j] = m /\ m.version = WholeLen + 1 /\ m.on = batch[t].on /\ m.pos = batch[t].pos
        BY <1>4, <1>6, <2>1, <3>2
      <4>3. m.pos >= m.version
        BY <1>5, <1>7, <1>11, <4>1, <4>2
      <4>4. m.pos = m.version => Len(m.on) = WholeLen
        BY <1>5, <1>7, <1>11, <4>1, <4>2
      <4>5. m.version - 1 = WholeLen
        BY <1>5, <4>2
      <4>6. Agrees(queue[j].on, queue[j].version - 1)'
        BY <1>7, <2>3, <4>2, <4>5 DEF Agrees
      <4>. QED
        BY <4>2, <4>3, <4>4, <4>5, <4>6
    <3>. QED
      BY <2>2, <3>1, <3>2
  <2>6. HeldOn'
    BY <1>8, <2>1 DEF HeldOn
  <2>. QED
    BY <1>9, <2>4, <2>5, <2>6 DEF Derivation, QueuedOn
<1>. QED
  BY <1>10, <1>11

\* A replica's apply derives on an empty queue.
LEMMA PlaceDerivation ==
    ASSUME Inv, Derivation, NEW t \in Tasks, Place(t)
    PROVE  Derivation'
<1>1. /\ UNCHANGED <<log, queue, outcome>> /\ pc[t] = "drained"
      /\ \A u \in Tasks \ {t} : pc'[u] = pc[u] /\ batch'[u] = batch[u]
  BY DEF Place, engine, pending, Inv, TypeOK
<1>2. \/ pc'[t] = "done"
      \/ pc'[t] = "applying" /\ batch'[t].home = Home[t] /\ batch'[t].on = OnSeen
  BY DEF Place, Inv, TypeOK
<1>3. CASE pc'[t] = "done"
  BY <1>1, <1>3, DerivationFrame
<1>4. CASE pc'[t] = "applying" /\ batch'[t].home = Home[t] /\ batch'[t].on = OnSeen
  <2>1. queue = <<>> /\ \A u \in Tasks \ {t} : pc'[u] \notin {"derived", "applying"}
    BY <1>1 DEF Inv, TurnHeld
  <2>2. WholeLen = Len(log)
    BY <2>1, Numbered DEF WholeLen
  <2>3. Len(OnSeen) = Len(log) /\ \A k \in 1..Len(log) : OnSeen[k] = WholeAt(k)
    BY <2>2, SeenWhole
  <2>4. \A k : WholeAt(k)' = WholeAt(k)
    BY <1>1 DEF WholeAt
  <2>5. Homed'
    BY <1>1, <1>4, <2>1 DEF Derivation, Homed
  <2>6. LandedOn'
    BY <1>1 DEF Derivation, LandedOn
  <2>7. QueuedOn'
    BY <1>1, <2>1 DEF QueuedOn
  <2>8. HeldOn'
    BY <1>1, <1>4, <2>1, <2>3, <2>4 DEF HeldOn, Agrees
  <2>. QED
    BY <2>5, <2>6, <2>7, <2>8 DEF Derivation
<1>. QED
  BY <1>2, <1>3, <1>4

\* A write under the turn lands on what its holder derived it on.
LEMMA OwnDerivation ==
    ASSUME Inv, Derivation, NEW t \in Tasks, pc[t] = "applying",
           \/ \E n \in Judged(<<batch[t]>>) : Takes(<<batch[t]>>, n)
           \/ UNCHANGED log,
           queue' = queue, pc'[t] \in {"done", "collected"}, \A u \in Tasks \ {t} : pc'[u] = pc[u]
    PROVE  Derivation'
<1>1. queue' = <<>> /\ \A u \in Tasks : pc'[u] \notin {"derived", "applying"}
  BY DEF Inv, TurnHeld
<1>2. QueuedOn' /\ HeldOn'
  BY <1>1 DEF QueuedOn, HeldOn
<1>3. CASE UNCHANGED log
  BY <1>1, <1>2, <1>3 DEF Derivation, Homed, LandedOn
<1>4. CASE \E n \in Judged(<<batch[t]>>) : Takes(<<batch[t]>>, n)
  <2>1. PICK n \in Judged(<<batch[t]>>) : Takes(<<batch[t]>>, n)
    BY <1>4
  <2>. DEFINE g == <<batch[t]>>
  <2>2. g \in Seq(Member) /\ Len(g) = 1 /\ g[1] = batch[t] /\ n \in Judged(g) /\ Takes(g, n)
    BY <2>1, BatchChecked
  <2>. HIDE DEF g
  <2>3. n \in 0..Len(g) /\ \A i \in 1..n : Holds(g, i)
    BY <2>2 DEF Judged
  <2>4. /\ Len(log') = Len(log) + n /\ \A i \in 1..Len(log) : log'[i] = log[i]
        /\ \A i \in 1..n : log'[Len(log) + i] = g[i]
    BY <2>2, <2>3, TakesAppends DEF Inv, Chain
  <2>5. Len(log) \in Nat /\ n \in {0, 1}
    BY <2>2, <2>3, Numbered
  <2>6. \A i \in 1..Len(log') : \/ i \in 1..Len(log) /\ log'[i] = log[i]
                                \/ i = Len(log) + 1 /\ log'[i] = batch[t]
    BY <2>2, <2>4, <2>5
  <2>7. /\ batch[t].home = Home[t] /\ batch[t].txn = t
        /\ Len(batch[t].on) = Len(log) /\ Agrees(batch[t].on, Len(log))
    BY BatchChecked DEF Derivation, Homed, HeldOn
  <2>8. \A k \in 1..Len(log) : batch[t].on[k] = log[k].txn
    BY <2>5, <2>7 DEF Agrees, WholeAt
  <2>9. Homed'
    BY <1>1, <2>6, <2>7 DEF Derivation, Homed
  <2>10. ASSUME NEW i \in 1..Len(log')
         PROVE  Len(log'[i].on) = i - 1 /\ \A k \in 1..(i - 1) : log'[i].on[k] = log'[k].txn
    <3>1. CASE i \in 1..Len(log) /\ log'[i] = log[i]
      <4>1. \A k \in 1..(i - 1) : log'[k] = log[k]
        BY <2>4, <2>5, <3>1
      <4>. QED
        BY <3>1, <4>1 DEF Derivation, LandedOn
    <3>2. CASE i = Len(log) + 1 /\ log'[i] = batch[t]
      <4>1. i - 1 = Len(log)
        BY <2>5, <3>2
      <4>. QED
        BY <2>4, <2>7, <2>8, <3>2, <4>1
    <3>. QED
      BY <2>6, <3>1, <3>2
  <2>. QED
    BY <1>2, <2>9, <2>10 DEF Derivation, LandedOn
<1>. QED
  BY <1>3, <1>4

\* A landing dropped part way leaves a front of the history its holder derived on.
LEMMA AbandonDerivation ==
    ASSUME Inv, Positions, Derivation, TailIsVersion, NEW t \in Tasks, Abandon(t)
    PROVE  Derivation'
<1>1. /\ pc[t] \in {"flushing", "flushed"} /\ queue' = <<>> /\ outcome'.n = 0 /\ UNCHANGED batch
      /\ \A u \in Tasks : pc'[u] \in {"derived", "applying"} => pc'[u] = pc[u]
  BY DEF Abandon, NoOutcome, Awake
<1>2. /\ cut > 0 /\ cut \in Nat /\ Grouped /\ Len(queue) \in Nat /\ cut <= Len(queue)
      /\ Len(log) \in Nat /\ Len(log) <= WholeLen /\ WholeLen \in Nat
      /\ \A u \in Tasks : pc[u] # "applying"
  BY <1>1, LenProperties, Numbered DEF Inv, Shape, TypeOK, TurnHeld
<1>3. /\ Len(log') \in 0..WholeLen
      /\ \A k \in 1..Len(log') : log'[k].txn = WholeAt(k)
      /\ \A k \in 1..Len(log') : log'[k].home = Home[log'[k].txn]
      /\ LandedOn'
  <2>1. CASE UNCHANGED engine
    <3>1. UNCHANGED log
      BY <2>1 DEF engine
    <3>2. LandedOn'
      BY <3>1 DEF Derivation, LandedOn
    <3>3. \A k \in 1..Len(log) : log[k].txn = WholeAt(k) /\ log[k].home = Home[log[k].txn]
      BY <1>2 DEF WholeAt, Derivation, Homed
    <3>. QED
      BY <1>2, <3>1, <3>2, <3>3
  <2>2. CASE pc[t] = "flushing" /\ \E n \in Judged(SubSeq(queue, 1, cut)) : Takes(SubSeq(queue, 1, cut), n)
    <3>1. outcome.n = 0
      BY <2>2 DEF Inv, Shape
    <3>2. PICK n \in Judged(SubSeq(queue, 1, cut)) : Takes(SubSeq(queue, 1, cut), n)
      BY <2>2
    <3>3. /\ n \in 0..Len(queue) /\ Len(log') = Len(log) + n
          /\ \A k \in 1..Len(log') : log'[k].txn = WholeAt(k)
          /\ \A k \in 1..Len(log') : log'[k].home = Home[log'[k].txn]
          /\ LandedOn'
      BY <3>1, <3>2, GroupOn
    <3>4. Len(log') \in 0..WholeLen
      BY <1>2, <3>1, <3>3 DEF WholeLen
    <3>. QED
      BY <3>3, <3>4
  <2>. QED
    BY <2>1, <2>2 DEF Abandon, AppliesUnheard
<1>4. WholeLen' = Len(log') /\ \A k \in 1..Len(log') : WholeAt(k)' = WholeAt(k)
  <2>1. WholeLen' = Len(log') + (0 - 0)
    BY <1>1 DEF WholeLen
  <2>2. \A k \in 1..Len(log') : WholeAt(k)' = log'[k].txn
    BY <1>2, <1>3 DEF WholeAt
  <2>. QED
    BY <1>2, <1>3, <2>1, <2>2
<1>5. Homed'
  BY <1>1, <1>3 DEF Derivation, Homed
<1>6. QueuedOn'
  BY <1>1 DEF QueuedOn
<1>7. HeldOn'
  <2>1. ASSUME NEW u \in Tasks, pc'[u] = "derived"
        PROVE  WholeLen' <= Len(batch[u].on) /\ Agrees(batch[u].on, WholeLen)' /\ batch[u].pos > Len(batch[u].on)
    <3>1. /\ WholeLen <= Len(batch[u].on) /\ Agrees(batch[u].on, WholeLen)
          /\ batch[u].pos > Len(batch[u].on)
      BY <1>1, <1>2, <2>1 DEF Derivation, HeldOn
    <3>2. Len(batch[u].on) \in Nat
      BY <1>1, <2>1, MemberFields, LenProperties DEF Inv, Owned, BatchHeld
    <3>3. \A k \in 1..Len(log') : k \in 1..WholeLen
      BY <1>2, <1>3
    <3>4. Agrees(batch[u].on, WholeLen)'
      BY <1>1, <1>4, <3>1, <3>3 DEF Agrees
    <3>. QED
      BY <1>2, <1>3, <1>4, <3>1, <3>2, <3>4
  <2>. QED
    BY <1>1, <1>2, <2>1 DEF HeldOn
<1>. QED
  BY <1>3, <1>5, <1>6, <1>7 DEF Derivation

LEMMA ReopenDerivation ==
    ASSUME Inv, Derivation, Reopen
    PROVE  Derivation'
<1>. DEFINE n == IF hole = None THEN Len(log) ELSE hole
<1>1. Len(log) \in Nat /\ n \in Nat /\ n <= Len(log) /\ log \in Seq(Member)
  BY LenProperties DEF Inv, TypeOK, Reads
<1>2. log' = SubSeq(log, 1, n) /\ queue' = <<>> /\ \A t \in Tasks : pc'[t] \notin {"derived", "applying"}
  BY DEF Reopen
<1>. HIDE DEF n
<1>3. Len(log') = n /\ \A i \in 1..n : i \in 1..Len(log) /\ log'[i] = log[i]
  BY <1>1, <1>2
<1>4. Homed' /\ QueuedOn' /\ HeldOn'
  <2>1. Homed'
    <3>1. \A i \in 1..Len(log') : log'[i].home = Home[log'[i].txn]
      BY <1>3 DEF Derivation, Homed
    <3>2. \A i \in 1..Len(queue') : queue'[i].home = Home[queue'[i].txn]
      BY <1>2
    <3>3. \A t \in Tasks : pc'[t] \in {"derived", "applying"} => batch'[t].home = Home[t]
      BY <1>2
    <3>. QED
      BY <3>1, <3>2, <3>3 DEF Homed
  <2>2. QueuedOn'
    BY <1>2 DEF QueuedOn
  <2>3. HeldOn'
    BY <1>2 DEF HeldOn
  <2>. QED
    BY <2>1, <2>2, <2>3
<1>5. LandedOn'
  <2>1. \A i \in 1..n : \A k \in 1..(i - 1) : k \in 1..n
    BY <1>1
  <2>. QED
    BY <1>3, <2>1 DEF Derivation, LandedOn
<1>. QED
  BY <1>4, <1>5 DEF Derivation

LEMMA NextDerivation ==
    ASSUME TailIsVersion, Inv, Told, Positions, Derivation, [Next]_vars
    PROVE  Derivation'
<1>1. ASSUME NEW t \in Tasks,
             \/ Begin(t) \/ GiveUp(t) \/ Hold(t) \/ Conflicted(t) \/ EnterLand(t) \/ Collect(t)
             \/ TakeGroup(t) \/ Park(t) \/ Settle(t) \/ Drained(t) \/ Cancel(t)
      PROVE  Derivation'
  <2>1. UNCHANGED <<log, queue, outcome, batch>> /\ \A u \in Tasks \ {t} : pc'[u] = pc[u]
    BY <1>1 DEF Begin, GiveUp, Hold, Conflicted, EnterLand, Collect, TakeGroup, Park, Settle, Drained,
                Cancel, engine, pending, Inv, TypeOK
  <2>2. pc'[t] \notin {"derived", "applying"}
    BY <1>1 DEF Begin, GiveUp, Hold, Conflicted, EnterLand, Collect, TakeGroup, Park, Settle, Drained,
                Cancel, Inv, TypeOK
  <2>. QED
    BY <2>1, <2>2, DerivationFrame
<1>2. ASSUME NEW t \in Tasks, Apply(t) PROVE Derivation'
  <2>1. /\ pc[t] = "applying" /\ queue' = queue /\ pc'[t] \in {"done", "collected"}
        /\ \A u \in Tasks \ {t} : pc'[u] = pc[u]
    BY <1>2 DEF Apply, pending, Inv, TypeOK
  <2>2. (\E n \in Judged(<<batch[t]>>) : Takes(<<batch[t]>>, n)) \/ UNCHANGED log
    <3>1. CASE stopped # None
      BY <1>2, <3>1 DEF Apply, engine
    <3>2. CASE stopped = None
      <4>1. PICK a : Applies(<<batch[t]>>, a)
        BY <1>2, <3>2 DEF Apply
      <4>. QED
        BY <4>1, AppliesSplit
    <3>. QED
      BY <3>1, <3>2
  <2>. QED
    BY <2>1, <2>2, OwnDerivation
<1>3. ASSUME NEW t \in Tasks, CancelApply(t) PROVE Derivation'
  <2>1. /\ pc[t] = "applying" /\ queue' = queue /\ pc'[t] \in {"done", "collected"}
        /\ \A u \in Tasks \ {t} : pc'[u] = pc[u]
    BY <1>3 DEF CancelApply, pending, Inv, TypeOK
  <2>2. (\E n \in Judged(<<batch[t]>>) : Takes(<<batch[t]>>, n)) \/ UNCHANGED log
    BY <1>3 DEF CancelApply, AppliesUnheard, engine
  <2>. QED
    BY <2>1, <2>2, OwnDerivation
<1>4. ASSUME NEW t \in Tasks, Step(t) PROVE Derivation'
  BY <1>1, <1>2, <1>4, DeriveDerivation, StageDerivation, FlushDerivation, RecordDerivation, PlaceDerivation DEF Step
<1>5. CASE UNCHANGED vars
  BY <1>5, DerivationFrame DEF vars
<1>. QED
  BY <1>1, <1>3, <1>4, <1>5, AbandonDerivation, ReopenDerivation DEF Next, Finished

\* A batch lands on exactly the history its derivation read, through landings that fail,
\* are cut short or are abandoned between the two, where a tail counts what a version
\* counts: one log, or a backend that shares no sync.
THEOREM LandsOnItsReads == TailIsVersion => (Spec => []LandsOnWhatItRead)
<1>. SUFFICES ASSUME TailIsVersion PROVE Spec => []LandsOnWhatItRead
  OBVIOUS
<1>. DEFINE I == Inv /\ Told /\ Positions /\ Derivation
<1>1. Init => I
  <2>1. Init => Positions
    BY FS_EmptySet DEF Init, Positions, TailCounts, DensePositions, FiledIn
  <2>2. Init => Derivation
    BY DEF Init, Derivation, Homed, LandedOn, QueuedOn, HeldOn
  <2>. QED
    BY <2>1, <2>2, InitInv, InitTold
<1>2. I /\ [Next]_vars => I'
  BY NextInv, NextTold, NextPositions, NextDerivation
<1>3. I => LandsOnWhatItRead
  <2>. SUFFICES ASSUME I, NEW i \in 1..Len(log) PROVE log[i].on = WritersOf(SubSeq(log, 1, i - 1))
    BY DEF LandsOnWhatItRead
  <2>. DEFINE p == SubSeq(log, 1, i - 1)
  <2>1. Len(log) \in Nat /\ log \in Seq(Member) /\ log[i].on \in Seq(Tasks)
    BY Numbered, ElementOfSeq, MemberFields DEF Inv, TypeOK
  <2>2. Len(p) = i - 1 /\ \A k \in 1..(i - 1) : p[k] = log[k]
    BY <2>1
  <2>3. Len(log[i].on) = i - 1 /\ \A k \in 1..(i - 1) : log[i].on[k] = log[k].txn
    BY DEF Derivation, LandedOn
  <2>. HIDE DEF p
  <2>4. WritersOf(p) = [k \in 1..(i - 1) |-> p[k].txn]
    BY <2>2 DEF WritersOf
  <2>5. log[i].on = [k \in 1..(i - 1) |-> log[i].on[k]]
    BY <2>1, <2>3, LenProperties
  <2>. QED
    BY <2>2, <2>3, <2>4, <2>5 DEF p
<1>. QED
  BY <1>1, <1>2, <1>3, PTL DEF Spec

-----------------------------------------------------------------------------
(* The commit path implements AtomicCommits.                               *)

LEMMA LearnsIs ==
    /\ Learns(None) = None /\ Learns("ok") = "ok"
    /\ \A a \in Refusals \cup {"noop"} : Learns(a) = "refused"
    /\ \A a \in {"gone", "stopped", "io", "unknown"} : Learns(a) = "unknown"
BY GateAssumption DEF Learns, Refusals, Replies, Results, Failures

\* An answer is given once, and an "ok" only of what has landed.
LEMMA AnsweredOnce ==
    ASSUME Inv, Told, [Next]_vars, ~Reopen, NEW u \in Tasks
    PROVE  \/ told'[u] = told[u]
           \/ told[u] = None /\ (told'[u] = "ok" => Landed(u))
<1>1. ASSUME NEW t \in Tasks, Settle(t) PROVE told'[u] = told[u] \/ (told[u] = None /\ (told'[u] = "ok" => Landed(u)))
  <2>1. told' = [told EXCEPT ![t] = told'[t]] /\ told'[t] \in {told[t], result[t]} /\ pc[t] = "collected"
    BY <1>1 DEF Settle, Inv, TypeOK
  <2>2. told[t] = None /\ (result[t] = "ok" => Landed(t))
    BY <2>1 DEF Told, TaskTold, TicketOf, AckedOf, LandedAs, Landed
  <2>3. u # t => told'[u] = told[u]
    BY <1>1 DEF Settle, Inv, TypeOK
  <2>. QED
    BY <2>1, <2>2, <2>3, GateAssumption DEF Replies, Results
<1>2. ASSUME NEW t \in Tasks,
             \/ GiveUp(t) \/ Conflicted(t) \/ EnterLand(t) \/ Place(t) \/ Apply(t)
             \/ Cancel(t) \/ CancelApply(t) \/ Abandon(t)
      PROVE  told'[u] = told[u] \/ (told[u] = None /\ told'[u] # "ok")
  <2>1. /\ pc[t] # "done" /\ (u # t => told'[u] = told[u])
        /\ told'[t] \in {told[t], "contention", "conflict", "stopped", "noop", "gap", "gone"}
    BY <1>2 DEF GiveUp, Conflicted, EnterLand, Place, Apply, Cancel, CancelApply, Abandon, Dropped, Inv, TypeOK
  <2>2. told[t] = None
    BY <2>1 DEF Told, TaskTold, TicketOf
  <2>. QED
    BY <2>1, <2>2, GateAssumption DEF Replies, Results
<1>3. ASSUME NEW t \in Tasks,
             \/ Begin(t) \/ Hold(t) \/ Derive(t) \/ Stage(t) \/ Collect(t) \/ TakeGroup(t)
             \/ Park(t) \/ Flush(t) \/ Record(t) \/ Drained(t)
      PROVE  told' = told
  BY <1>3 DEF Begin, Hold, Derive, Stage, Collect, TakeGroup, Park, Flush, Record, Drained
<1>4. CASE UNCHANGED vars
  BY <1>4 DEF vars
<1>. QED
  BY <1>1, <1>2, <1>3, <1>4 DEF Next, Step, Finished

\* A snapshot is taken once, when a transaction begins.
LEMMA BegunOnce ==
    ASSUME Inv, [Next]_vars, ~Reopen, \A t \in Tasks : ~Begin(t)
    PROVE  snap' = snap /\ \A u \in Tasks : pc'[u] = "idle" <=> pc[u] = "idle"
<1>1. ASSUME NEW t \in Tasks, Step(t) PROVE snap' = snap
  BY <1>1 DEF Step, GiveUp, Hold, Derive, Conflicted, Stage, EnterLand, Collect, TakeGroup, Park, Flush,
              Record, Settle, Drained, Place, Apply
<1>2. ASSUME NEW t \in Tasks, Step(t), NEW u \in Tasks PROVE pc'[u] = "idle" <=> pc[u] = "idle"
  <2>1. CASE Record(t)
    BY <2>1 DEF Record, Roused, Awake
  <2>2. CASE ~Record(t)
    <3>1. (u # t => pc'[u] = pc[u]) /\ pc[t] # "idle" /\ pc'[t] # "idle"
      BY <1>2, <2>2 DEF Step, GiveUp, Hold, Derive, Conflicted, Stage, EnterLand, Collect, TakeGroup, Park,
              Waits, Flush, Settle, Drained, Place, Apply, Inv, TypeOK
    <3>. QED
      BY <3>1
  <2>. QED
    BY <2>1, <2>2
<1>3. ASSUME NEW t \in Tasks, Cancel(t) \/ CancelApply(t) \/ Abandon(t), NEW u \in Tasks
      PROVE  snap' = snap /\ (pc'[u] = "idle" <=> pc[u] = "idle")
  BY <1>3 DEF Cancel, CancelApply, Abandon, Awake, Inv, TypeOK
<1>4. CASE UNCHANGED vars
  BY <1>4 DEF vars
<1>5. CASE \E t \in Tasks : Cancel(t) \/ CancelApply(t) \/ Abandon(t)
  BY <1>3, <1>5
<1>6. CASE \E t \in Tasks : Step(t)
  BY <1>1, <1>2, <1>6
<1>. QED
  BY <1>4, <1>5, <1>6 DEF Next, Finished

\* What lands anew was neither there nor answered.
LEMMA GrowsByUnanswered ==
    ASSUME Inv, Told, [Next]_vars, ~Reopen, snap' = snap
    PROVE  /\ Len(log) \in Nat /\ Len(log') \in Nat /\ Len(log) <= Len(log')
           /\ \A i \in 1..Len(log) : log'[i] = log[i]
           /\ \A j \in Len(log) + 1 .. Len(log') :
                 ~Landed(log'[j].txn) /\ told[log'[j].txn] \in {None, "gone", "stopped"}
<1>1. Len(log) \in Nat
  BY Numbered
<1>2. CASE UNCHANGED <<log, version, tail>>
  BY <1>1, <1>2
<1>3. CASE TakesGroup
  <2>1. outcome.n = 0
    BY <1>3 DEF TakesGroup, Inv, Shape
  <2>2. PICK n \in Judged(SubSeq(queue, 1, cut)) : Takes(SubSeq(queue, 1, cut), n)
    BY <1>3 DEF TakesGroup
  <2>3. /\ n \in 0..Len(queue) /\ Len(log') = Len(log) + n
        /\ \A i \in 1..Len(log) : log'[i] = log[i]
        /\ \A i \in 1..n : log'[Len(log) + i] = queue[i]
    BY <2>1, <2>2, GroupLands
  <2>4. Len(queue) \in Nat
    BY Numbered
  <2>5. ASSUME NEW j \in Len(log) + 1 .. Len(log')
        PROVE  ~Landed(log'[j].txn) /\ told[log'[j].txn] \in {None, "gone", "stopped"}
    <3>. DEFINE i == j - Len(log)
    <3>1. i \in 1..n /\ i \in 1..Len(queue) /\ j = Len(log) + i /\ i \in outcome.n + 1 .. Len(queue)
      BY <1>1, <2>1, <2>3, <2>4
    <3>. HIDE DEF i
    <3>2. log'[j] = queue[i]
      BY <2>3, <3>1
    <3>3. ~Landed(queue[i].txn)
      BY <3>1 DEF Told, Once
    <3>4. told[queue[i].txn] \in {None, "gone", "stopped"}
      BY <3>1, QueuedUntold
    <3>. QED
      BY <3>2, <3>3, <3>4
  <2>. QED
    BY <1>1, <2>3, <2>4, <2>5
<1>4. ASSUME NEW t \in Tasks, TakesOwn(t)
      PROVE  /\ Len(log') \in Nat /\ Len(log) <= Len(log')
             /\ \A i \in 1..Len(log) : log'[i] = log[i]
             /\ \A j \in Len(log) + 1 .. Len(log') :
                   ~Landed(log'[j].txn) /\ told[log'[j].txn] \in {None, "gone", "stopped"}
  <2>1. pc[t] = "applying"
    BY <1>4 DEF TakesOwn
  <2>2. PICK n \in Judged(<<batch[t]>>) : Takes(<<batch[t]>>, n)
    BY <1>4 DEF TakesOwn
  <2>3. /\ n \in {0, 1} /\ Len(log') = Len(log) + n
        /\ \A i \in 1..Len(log) : log'[i] = log[i]
        /\ n = 1 => log'[Len(log) + 1] = batch[t]
    BY <2>1, <2>2, OwnLands
  <2>4. ~Landed(t) /\ told[t] = None /\ batch[t].txn = t
    BY <2>1, Ticketless, BatchChecked DEF Told, TaskTold, UnlandedOf, Before, Waiting
  <2>5. \A j \in Len(log) + 1 .. Len(log') : j = Len(log) + 1 /\ n = 1
    BY <1>1, <2>3
  <2>. QED
    BY <1>1, <2>3, <2>4, <2>5
<1>. QED
  BY <1>1, <1>2, <1>3, <1>4, EngineSteps

LEMMA WritersAre ==
    ASSUME NEW s \in Seq(Member)
    PROVE  /\ WritersOf(s) \in Seq(Tasks) /\ Len(WritersOf(s)) = Len(s) /\ Len(s) \in Nat
           /\ \A i \in 1..Len(s) : WritersOf(s)[i] = s[i].txn /\ s[i].txn \in Tasks
<1>1. Len(s) \in Nat /\ \A i \in 1..Len(s) : s[i].txn \in Tasks
  BY ElementOfSeq, LenProperties, MemberFields
<1>2. WritersOf(s) \in [1..Len(s) -> Tasks]
  BY <1>1 DEF WritersOf
<1>3. WritersOf(s) \in Seq(Tasks)
  BY <1>1, <1>2, SeqDef
<1>. QED
  BY <1>1, <1>2, <1>3, LenProperties DEF WritersOf

\* The callers' view of the state.
Began == [t \in Txns |-> IF pc[t] = "idle" THEN None ELSE snap[t]]
Replied == [t \in Tasks |-> Learns(told[t])]

LEMMA BeginRefines ==
    ASSUME Inv, Told, NEW t \in Tasks, Begin(t), "reopen" \notin Faults
    PROVE  Promise!Begin(t) /\ t \in Txns
<1>1. /\ pc[t] = "idle" /\ t \in Txns /\ pc'[t] = "queued" /\ snap'[t] = landed
      /\ \A u \in Tasks \ {t} : pc'[u] = pc[u] /\ snap'[u] = snap[u]
      /\ UNCHANGED <<log, told>>
  BY DEF Begin, engine, Inv, TypeOK, TurnHeld
<1>2. /\ Len(WritersOf(log)) = Len(log) /\ Len(log) \in Nat
      /\ \A i \in 1..Len(log) : WritersOf(log)[i] = log[i].txn /\ log[i].txn \in Tasks
  BY WritersAre DEF Inv, TypeOK
<1>3. landed \in 0..Len(log)
  BY <1>2 DEF Inv, TypeOK, Reads, ReadableIsLanded, Chain, DenseVersions
<1>4. ASSUME NEW i \in 1..Len(log), Learns(told[log[i].txn]) = "ok" PROVE i <= landed
  <2>. DEFINE u == log[i].txn
  <2>1. u \in Tasks /\ told[u] \in Replies \cup {None}
    BY <1>2 DEF Inv, TypeOK
  <2>2. told[u] = "ok"
    BY <1>4, <2>1, LearnsIs, GateAssumption DEF Replies, Results, Failures, Refusals
  <2>3. PICK k \in 1..Len(log) : log[k].txn = u /\ k <= landed
    BY <2>1, <2>2 DEF Told, TaskTold, AckedOf, Lossless
  <2>. QED
    BY <2>3 DEF Told, Once
<1>5. Began[t] = None /\ Began' = [Began EXCEPT ![t] = landed]
  BY <1>1, <1>3 DEF Began, Tasks
<1>6. \A i \in 1..Len(WritersOf(log)) : Replied[WritersOf(log)[i]] = "ok" => i <= landed
  BY <1>2, <1>4 DEF Replied
<1>7. WritersOf(log)' = WritersOf(log) /\ Replied' = Replied
  BY <1>1 DEF WritersOf, Replied
<1>. QED
  BY <1>1, <1>2, <1>3, <1>5, <1>6, <1>7 DEF Promise!Begin, Began, Replied

LEMMA ExtendRefines ==
    ASSUME Inv, Told, Inv', Told', [Next]_vars, ~Reopen, \A t \in Tasks : ~Begin(t)
    PROVE  Promise!Extend /\ Promise!Answer /\ Began' = Began
<1>1. snap' = snap /\ \A u \in Tasks : pc'[u] = "idle" <=> pc[u] = "idle"
  BY BegunOnce
<1>2. /\ Len(log) \in Nat /\ Len(log') \in Nat /\ Len(log) <= Len(log')
      /\ \A i \in 1..Len(log) : log'[i] = log[i]
      /\ \A j \in Len(log) + 1 .. Len(log') :
            ~Landed(log'[j].txn) /\ told[log'[j].txn] \in {None, "gone", "stopped"}
  BY <1>1, GrowsByUnanswered
<1>. DEFINE h == WritersOf(log)
            g == WritersOf(log')
<1>3. /\ h \in Seq(Tasks) /\ Len(h) = Len(log)
      /\ \A i \in 1..Len(log) : h[i] = log[i].txn /\ log[i].txn \in Tasks
  BY WritersAre DEF Inv, TypeOK
<1>4. /\ g \in Seq(Tasks) /\ Len(g) = Len(log')
      /\ \A i \in 1..Len(log') : g[i] = log'[i].txn /\ log'[i].txn \in Tasks
  BY WritersAre DEF Inv, TypeOK
<1>5. Began' = Began
  BY <1>1 DEF Began, Tasks
<1>6. \A u : Landed(u) <=> \E i \in 1..Len(h) : h[i] = u
  BY <1>3 DEF Landed
<1>7. \A u : Landed(u)' <=> \E i \in 1..Len(g) : g[i] = u
  BY <1>4 DEF Landed
<1>. HIDE DEF h, g
<1>8. h = SubSeq(g, 1, Len(h))
  <2>1. \A i \in 1..Len(h) : i \in 1..Len(log') /\ h[i] = g[i]
    BY <1>2, <1>3, <1>4
  <2>2. Len(SubSeq(g, 1, Len(h))) = Len(h) /\ \A i \in 1..Len(h) : SubSeq(g, 1, Len(h))[i] = g[i]
    BY <1>2, <1>3, <1>4
  <2>3. SubSeq(g, 1, Len(h)) \in Seq(Tasks)
    BY <1>2, <1>3, <1>4
  <2>. QED
    BY <1>3, <2>1, <2>2, <2>3, SeqEqual
<1>9. ASSUME NEW j \in Len(h) + 1 .. Len(g)
      PROVE  /\ ~\E i \in 1..Len(h) : h[i] = g[j]
             /\ Replied[g[j]] = None \/ Replied[g[j]] = "unknown"
             /\ g[j] \in Txns => /\ Began[g[j]] # None
                                 /\ \A i \in Began[g[j]] + 1 .. j - 1 : Writes[g[i]] \cap Writes[g[j]] = {}
  <2>1. j \in Len(log) + 1 .. Len(log') /\ j \in 1..Len(log') /\ g[j] = log'[j].txn /\ g[j] \in Tasks
    BY <1>2, <1>3, <1>4
  <2>2. ~Landed(g[j]) /\ told[g[j]] \in {None, "gone", "stopped"}
    BY <1>2, <2>1
  <2>3. Replied[g[j]] = None \/ Replied[g[j]] = "unknown"
    BY <2>1, <2>2, LearnsIs DEF Replied
  <2>4. ASSUME g[j] \in Txns
        PROVE  Began[g[j]] # None /\ \A i \in Began[g[j]] + 1 .. j - 1 : Writes[g[i]] \cap Writes[g[j]] = {}
    <3>1. pc[g[j]] # "idle" /\ snap[g[j]] \in Nat
      BY <1>1, <2>1, <2>4 DEF Inv, Covered, TypeOK
    <3>2. Began[g[j]] = snap[g[j]] /\ Began[g[j]] # None
      BY <2>4, <3>1, GateAssumption DEF Began
    <3>3. ASSUME NEW i \in snap[g[j]] + 1 .. j - 1 PROVE Writes[g[i]] \cap Writes[g[j]] = {}
      <4>1. i \in 1..Len(log') /\ i < j /\ ~(i <= snap[g[j]])
        BY <1>2, <2>1, <3>1
      <4>2. ~Overlap(log[i], log[j].txn)'
        BY <1>1, <2>1, <2>4, <4>1 DEF Inv, Covered, FirstCommitterWins
      <4>. QED
        BY <1>4, <2>1, <4>1, <4>2 DEF Overlap
    <3>. QED
      BY <3>2, <3>3
  <2>. QED
    BY <1>6, <2>2, <2>3, <2>4
<1>10. ASSUME NEW u \in Tasks
       PROVE  \/ Replied'[u] = Replied[u]
              \/ /\ Replied[u] = None
                 /\ Replied'[u] \in {"ok", "refused", "unknown"}
                 /\ Replied'[u] = "ok" => \E i \in 1..Len(h) : h[i] = u
                 /\ Replied'[u] = "refused" => ~\E i \in 1..Len(g) : g[i] = u
  <2>1. CASE told'[u] = told[u]
    BY <2>1 DEF Replied
  <2>2. CASE told'[u] # told[u]
    <3>1. told[u] = None /\ (told'[u] = "ok" => Landed(u)) /\ told'[u] \in Replies
      BY <2>2, AnsweredOnce DEF Inv, TypeOK
    <3>2. told'[u] \in Refusals \cup {"noop"} => ~Landed(u)'
      BY DEF Told, TaskTold, UnlandedOf
    <3>3. \/ told'[u] = "ok" /\ Replied'[u] = "ok"
          \/ told'[u] \in Refusals \cup {"noop"} /\ Replied'[u] = "refused"
          \/ Replied'[u] = "unknown"
      BY <3>1, LearnsIs DEF Replied, Replies, Results, Failures, Refusals
    <3>4. Replied[u] = None
      BY <3>1, LearnsIs DEF Replied
    <3>. QED
      BY <1>6, <1>7, <3>1, <3>2, <3>3, <3>4
  <2>. QED
    BY <2>1, <2>2
<1>11. Promise!Extend
  <2>1. Len(h) <= Len(g)
    BY <1>2, <1>3, <1>4
  <2>. QED
    BY <1>8, <1>9, <2>1 DEF Promise!Extend, Promise!TookEffect, Began, Replied, h, g
<1>12. Promise!Answer
  BY <1>10 DEF Promise!Answer, Promise!TookEffect, Promise!Writers, Tasks, Replied, h, g
<1>. QED
  BY <1>5, <1>11, <1>12

\* The commit path implements one atomic commit after another, for any number of
\* writers, with engine failures, cancellations and abandoned landings; a store that is
\* opened again is out of the promise's vocabulary.
THEOREM CommitsAreAtomic == "reopen" \notin Faults => (Spec => ImplementsAtomicCommits)
<1>. SUFFICES ASSUME "reopen" \notin Faults PROVE Spec => ImplementsAtomicCommits
  OBVIOUS
<1>1. Init => Promise!Init
  BY LearnsIs DEF Init, Promise!Init, Promise!Writers, Tasks, WritersOf
<1>2. (Inv /\ Told) /\ (Inv /\ Told)' /\ [Next]_vars => [Promise!Next]_(Promise!vars)
  <2>. SUFFICES ASSUME Inv, Told, Inv', Told', [Next]_vars PROVE [Promise!Next]_(Promise!vars)
    OBVIOUS
  <2>1. ~Reopen
    BY DEF Reopen
  <2>2. CASE \E t \in Tasks : Begin(t)
    BY <2>2, BeginRefines DEF Promise!Next
  <2>3. CASE \A t \in Tasks : ~Begin(t)
    <3>1. Promise!Extend /\ Promise!Answer /\ Began' = Began
      BY <2>1, <2>3, ExtendRefines
    <3>. QED
      BY <3>1 DEF Promise!Next, Began
  <2>. QED
    BY <2>2, <2>3
<1>. QED
  BY <1>1, <1>2, ToldInvariance, PTL DEF Spec, ImplementsAtomicCommits, Promise!Spec
=============================================================================
