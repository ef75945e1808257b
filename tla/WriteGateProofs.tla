--------------------------- MODULE WriteGateProofs ---------------------------
(***************************************************************************)
(* Proofs about the commit path, for any number of writers, records, logs, *)
(* attempts and group sizes, and any combination of faults.                *)
(***************************************************************************)
EXTENDS WriteGate, TLAPS, FiniteSetTheorems, SequenceTheorems

\* The steps at which a task's batch may be queued and its answer kept.
Waiting == {"staged", "look", "woken", "parked", "flushing", "flushed"}

\* One landing at a time, of a front of the queue, by the task it names.
Shape ==
    /\ outcome.n <= cut /\ cut <= Len(queue)
    /\ \A t \in Tasks : pc[t] \in {"flushing", "flushed"} => lander = t /\ cut > 0
    /\ \A t \in Tasks : pc[t] = "flushing" => outcome.n = 0
    /\ outcome.n < cut /\ outcome.why = "ok" => \A t \in Tasks : pc[t] # "flushed"

\* Who holds the turn, and that nothing is queued once an apply has drained.
TurnHeld ==
    /\ \A t \in Tasks : pc[t] \in {"holding", "derived", "applying", "draining", "drained"} => turn = t
    /\ \A t \in Appliers : pc[t] \in {"parked", "flushing", "flushed"} => turn = t
    /\ \A t \in Tasks : pc[t] \in {"idle", "holding", "derived", "staged", "look", "woken"} => t \in Txns
    /\ \A t \in Tasks : pc[t] \in {"draining", "drained"} => t \in Appliers
    /\ \A t \in Tasks : pc[t] \in {"drained", "applying"} => queue = <<>>
    /\ ~Grouped => queue = <<>>

\* The queue continues the engine's history without a gap.
Chain ==
    /\ DenseVersions
    /\ \A i \in 1..Len(queue) : queue[i].version + outcome.n = version + i

\* A queued batch is its task's own, and unanswered.
QueueOwned ==
    \A i \in 1..Len(queue) :
        LET t == queue[i].txn IN
        /\ t \in Txns /\ batch[t] = queue[i] /\ answers[t] = None
        /\ pc[t] \in Waiting \cup {"done"}
        /\ pc[t] = "done" => t \in gone

BatchHeld ==
    \A t \in Tasks : pc[t] \in {"derived", "applying"} => batch[t] \in Member /\ batch[t].txn = t

\* An "ok" is of a batch landed, whether it is still kept or already collected.
AnswersTrue ==
    \A t \in Tasks :
        /\ answers[t] # None => pc[t] \in Waiting /\ t \in Txns
        /\ answers[t] = "ok" => batch[t] \in Member /\ batch[t].version <= version
        /\ pc[t] = "collected" /\ result[t] = "ok" =>
             batch[t] \in Member /\ batch[t].version <= version

Owned == QueueOwned /\ BatchHeld /\ AnswersTrue

\* Every write a batch may land over was under its snapshot when it was checked.
Covered ==
    /\ \A j \in outcome.n + 1 .. Len(queue) :
         /\ \A i \in 1..Len(log) : Overlap(log[i], queue[j].txn) =>
                                      log[i].version <= snap[queue[j].txn]
         /\ \A i \in 1..(j - 1) : Overlap(queue[i], queue[j].txn) =>
                                    queue[i].version <= snap[queue[j].txn]
    /\ \A t \in Txns : pc[t] \in {"derived", "applying"} => NoConflict(t)
    /\ \A i \in 1..Len(log) : log[i].txn \in Txns => pc[log[i].txn] # "idle"
    /\ FirstCommitterWins

Reads == ReadableIsLanded /\ (hole # None => hole <= Len(log))

Inv == TypeOK /\ Shape /\ TurnHeld /\ Chain /\ Owned /\ Covered /\ Reads

-----------------------------------------------------------------------------
(* What the operators the engine is built from return.                     *)

\* A member's fields have their types.
LEMMA MemberFields ==
    \A m \in Member : /\ m.txn \in Tasks /\ m.home \in Homes /\ m.pos \in Nat
                      /\ m.version \in Nat /\ m.on \in Seq(Tasks)
BY DEF Member

\* A batch made of well-typed parts is a member.
LEMMA MemberMade ==
    ASSUME NEW t \in Tasks, NEW h \in Homes, NEW p \in Nat, NEW v \in Nat, NEW o \in Seq(Tasks)
    PROVE  [txn |-> t, home |-> h, pos |-> p, version |-> v, on |-> o] \in Member
BY DEF Member

\* Counting some of the first n members is a natural number.
LEMMA CountType ==
    ASSUME NEW n \in Nat, NEW S, S \subseteq 1..n
    PROVE  Cardinality(S) \in Nat
<1>1. IsFiniteSet(1..n)
  BY FS_Interval
<1>2. IsFiniteSet(S)
  BY <1>1, FS_Subset
<1>. QED
  BY <1>2, FS_CardinalityType

\* A prefix of the batches appended to the engine's history.
LEMMA TakesAppends ==
    ASSUME TypeOK, DenseVersions, NEW g \in Seq(Member), NEW n \in 0..Len(g), Takes(g, n),
           \A i \in 1..n : Holds(g, i)
    PROVE  /\ log' \in Seq(Member) /\ Len(log') = Len(log) + n
           /\ \A i \in 1..Len(log) : log'[i] = log[i]
           /\ \A i \in 1..n : log'[Len(log) + i] = g[i]
           /\ version' = version + n /\ version' \in Nat
           /\ tail' \in [Homes -> Nat] /\ hole' = hole
           /\ DenseVersions'
<1>. DEFINE p == SubSeq(g, 1, n)
<1>1. p \in Seq(Member) /\ Len(p) = n /\ \A i \in 1..n : p[i] = g[i]
  OBVIOUS
<1>2. log \in Seq(Member) /\ version \in Nat /\ version = Len(log)
  BY DEF TypeOK, DenseVersions
<1>3. log' = log \o p /\ version' = version + n /\ hole' = hole
  BY DEF Takes
<1>. HIDE DEF p
<1>4. /\ log' \in Seq(Member) /\ Len(log') = Len(log) + n
      /\ \A i \in 1..Len(log) : log'[i] = log[i]
      /\ \A i \in 1..n : log'[Len(log) + i] = g[i]
  BY <1>1, <1>2, <1>3, SMTT(30)
<1>5. tail' \in [Homes -> Nat]
  <2>1. \A h \in Homes : Cardinality({j \in 1..n : g[j].home = h}) \in Nat
    BY CountType
  <2>2. tail \in [Homes -> Nat]
    BY DEF TypeOK
  <2>3. tail' = [h \in Homes |-> tail[h] + Cardinality({j \in 1..n : g[j].home = h})]
    BY DEF Takes
  <2>. QED
    BY <2>1, <2>2, <2>3
<1>6. DenseVersions'
  <2>1. \A i \in 1..n : g[i].version = Len(log) + i
    BY <1>2 DEF Holds
  <2>2. ASSUME NEW i \in 1..Len(log') PROVE log'[i].version = i
    <3>1. CASE i <= Len(log)
      BY <1>2, <1>4, <3>1 DEF DenseVersions
    <3>2. CASE i > Len(log)
      <4>1. (i - Len(log)) \in 1..n /\ i = Len(log) + (i - Len(log))
        BY <1>2, <1>4, <3>2
      <4>. QED
        BY <1>4, <2>1, <4>1
    <3>. QED
      BY <1>2, <1>4, <3>1, <3>2
  <2>. QED
    BY <1>2, <1>3, <1>4, <2>2 DEF DenseVersions
<1>. QED
  BY <1>2, <1>3, <1>4, <1>5, <1>6

\* What a write by the turn's holder was derived on is a sequence of writers.
LEMMA SeenType ==
    ASSUME TypeOK, outcome.n <= Len(queue)
    PROVE  OnSeen \in Seq(Tasks)
<1>1. ASSUME NEW s \in Seq(Member) PROVE WritersOf(s) \in Seq(Tasks)
  <2>1. Len(s) \in Nat /\ \A i \in 1..Len(s) : s[i].txn \in Tasks
    BY ElementOfSeq, LenProperties, MemberFields
  <2>2. WritersOf(s) \in [1..Len(s) -> Tasks]
    BY <2>1 DEF WritersOf
  <2>. QED
    BY <2>1, <2>2, SeqDef
<1>2. SubSeq(queue, outcome.n + 1, Len(queue)) \in Seq(Member)
  BY DEF TypeOK, Outcome
<1>3. WritersOf(log) \in Seq(Tasks)
  BY <1>1 DEF TypeOK
<1>. QED
  BY <1>1, <1>2, <1>3, ConcatProperties DEF OnSeen

-----------------------------------------------------------------------------
(* Steps that touch neither the engine nor the queue.                      *)

\* Coverage depends on the history, the queue and the snapshots only, and on
\* which tasks have made their check.
LEMMA CoveredFrame ==
    ASSUME Inv, UNCHANGED <<log, queue, snap>>, outcome'.n = outcome.n,
           \A u \in Txns : pc'[u] \in {"derived", "applying"} =>
               pc[u] \in {"derived", "applying"} \/ NoConflict(u),
           \A u \in Tasks : pc'[u] = "idle" => pc[u] = "idle"
    PROVE  Covered'
<1>1. \A u \in Txns : NoConflict(u) => NoConflict(u)'
  BY DEF NoConflict, Overlap
<1>2. \A u \in Txns : pc'[u] \in {"derived", "applying"} => NoConflict(u)'
  BY <1>1 DEF Inv, Covered
<1>3. \A i \in 1..Len(log) : log[i].txn \in Txns => pc'[log[i].txn] # "idle"
  BY DEF Inv, Covered, Tasks
<1>4. FirstCommitterWins'
  BY DEF Inv, Covered, FirstCommitterWins, Overlap
<1>. QED
  BY <1>2, <1>3, <1>4 DEF Inv, Covered, Overlap

\* The batch a conflict check leaves with its task.
LEMMA DerivedBatch ==
    ASSUME Inv, NEW t \in Tasks, Derive(t)
    PROVE  /\ batch' \in [Tasks -> Member \cup {None}]
           /\ batch'[t] \in Member /\ batch'[t].txn = t
           /\ \A u \in Tasks \ {t} : batch'[u] = batch[u]
<1>1. OnSeen \in Seq(Tasks)
  BY SeenType DEF Inv, Shape, TypeOK, Outcome
<1>2. PICK p \in TailSeen(Home[t]) : batch' = [batch EXCEPT ![t] =
        [txn |-> t, home |-> Home[t], pos |-> p + 1, version |-> 0, on |-> OnSeen]]
  BY DEF Derive
<1>3. p \in Nat
  <2>1. \A i \in 1..Len(queue) : queue[i].pos \in Nat
    BY ElementOfSeq, MemberFields DEF Inv, TypeOK
  <2>2. tail[Home[t]] \in Nat
    BY GateAssumption DEF Inv, TypeOK
  <2>. QED
    BY <2>1, <2>2 DEF TailSeen, PendingIn
<1>4. [txn |-> t, home |-> Home[t], pos |-> p + 1, version |-> 0, on |-> OnSeen] \in Member
  <2>1. Home[t] \in Homes /\ p + 1 \in Nat /\ 0 \in Nat
    BY <1>3, GateAssumption
  <2>. QED
    BY <1>1, <2>1, MemberMade
<1>. QED
  BY <1>2, <1>4 DEF Inv, TypeOK

\* A Stop only ever holds a stopping failure.
LEMMA StopOnType ==
    ASSUME stopped \in Stopping \cup {None}, NEW answer
    PROVE  StopOn(answer) \in Stopping \cup {None}
BY DEF StopOn

\* Store::begin keeps the invariant.
LEMMA BeginInv ==
    ASSUME Inv, NEW t \in Tasks, Begin(t)
    PROVE  Inv'
<1>1. TypeOK'
  BY GateAssumption DEF Inv, TypeOK, Steps, Replies, Results, TurnHeld, Begin, engine, pending, gate
<1>2. Shape'
  BY DEF Inv, TypeOK, Steps, Shape, Outcome, Begin, engine, pending, gate
<1>3. TurnHeld'
  BY GateAssumption DEF Inv, TypeOK, Steps, TurnHeld, Tasks, Begin, engine, pending, gate
<1>4. Chain'
  BY DEF Inv, Chain, DenseVersions, Begin, engine, pending, gate
<1>5. Owned'
  BY GateAssumption DEF Inv, TypeOK, Steps, Owned, QueueOwned, BatchHeld, AnswersTrue, Waiting, Tasks, Replies, Results, TurnHeld, Begin, engine, pending, gate
<1>6. Covered'
  <2>1. \A u \in Txns : pc[u] # "idle" => snap'[u] = snap[u]
    BY DEF Inv, TypeOK, Begin
  <2>2. \A i \in 1..Len(queue) : queue[i].txn \in Txns /\ snap'[queue[i].txn] = snap[queue[i].txn]
    BY <2>1 DEF Inv, Owned, QueueOwned, Waiting
  <2>3. \A i \in 1..Len(log) : log[i].txn \in Txns =>
            /\ snap'[log[i].txn] = snap[log[i].txn]
            /\ pc'[log[i].txn] # "idle"
    BY <2>1 DEF Inv, Covered, Begin, TypeOK, Tasks
  <2>4. \A u \in Txns : pc'[u] \in {"derived", "applying"} => NoConflict(u)'
    BY <2>1 DEF Inv, Covered, Begin, TypeOK, Tasks, NoConflict, Overlap, engine, pending
  <2>5. FirstCommitterWins'
    BY <2>3 DEF Inv, Covered, FirstCommitterWins, Overlap, Begin, engine
  <2>6. outcome.n \in Nat /\ UNCHANGED <<log, queue, outcome>>
    BY DEF Inv, TypeOK, Outcome, Begin, engine, pending
  <2>7. ASSUME NEW j \in outcome.n + 1 .. Len(queue)
        PROVE  /\ \A i \in 1..Len(log) : Overlap(log[i], queue[j].txn) =>
                                            log[i].version <= snap'[queue[j].txn]
               /\ \A i \in 1..(j - 1) : Overlap(queue[i], queue[j].txn) =>
                                          queue[i].version <= snap'[queue[j].txn]
    <3>1. j \in 1..Len(queue)
      BY <2>6
    <3>. QED
      BY <2>2, <3>1 DEF Inv, Covered
  <2>8. \A i \in 1..Len(log) : log[i].txn \in Txns => pc'[log[i].txn] # "idle"
    BY <2>3
  <2>. QED
    BY <2>4, <2>5, <2>6, <2>7, <2>8 DEF Covered, Overlap
<1>7. Reads'
  BY DEF Inv, TypeOK, Steps, Reads, ReadableIsLanded, Chain, DenseVersions, Begin, engine, pending, gate
<1>. QED
  BY <1>1, <1>2, <1>3, <1>4, <1>5, <1>6, <1>7 DEF Inv

\* A commit that gives up keeps the invariant.
LEMMA GiveUpInv ==
    ASSUME Inv, NEW t \in Tasks, GiveUp(t)
    PROVE  Inv'
<1>1. TypeOK'
  BY GateAssumption DEF Inv, TypeOK, Steps, Replies, Results, TurnHeld, GiveUp, engine, pending, gate
<1>2. Shape'
  BY DEF Inv, TypeOK, Steps, Shape, Outcome, GiveUp, engine, pending, gate
<1>3. TurnHeld'
  BY GateAssumption DEF Inv, TypeOK, Steps, TurnHeld, Tasks, GiveUp, engine, pending, gate
<1>4. Chain'
  BY DEF Inv, Chain, DenseVersions, GiveUp, engine, pending, gate
<1>5. Owned'
  BY GateAssumption, SMTT(30) DEF Inv, TypeOK, Steps, Owned, QueueOwned, BatchHeld, AnswersTrue, Waiting, Tasks, Replies, Results, TurnHeld, GiveUp, engine, pending, gate
<1>6. Covered'
  BY CoveredFrame DEF Inv, TypeOK, Tasks, GiveUp, engine, pending, gate
<1>7. Reads'
  BY DEF Inv, TypeOK, Steps, Reads, ReadableIsLanded, Chain, DenseVersions, GiveUp, engine, pending, gate
<1>. QED
  BY <1>1, <1>2, <1>3, <1>4, <1>5, <1>6, <1>7 DEF Inv

\* Taking the turn keeps the invariant.
LEMMA HoldInv ==
    ASSUME Inv, NEW t \in Tasks, Hold(t)
    PROVE  Inv'
<1>1. TypeOK'
  BY GateAssumption, SMTT(30) DEF Inv, TypeOK, Steps, Replies, Results, TurnHeld, Hold, engine, pending, gate
<1>2. Shape'
  BY DEF Inv, TypeOK, Steps, Shape, Outcome, Hold, engine, pending, gate
<1>3. TurnHeld'
  BY GateAssumption DEF Inv, TypeOK, Steps, TurnHeld, Tasks, Hold, engine, pending, gate
<1>4. Chain'
  BY DEF Inv, Chain, DenseVersions, Hold, engine, pending, gate
<1>5. Owned'
  BY GateAssumption DEF Inv, TypeOK, Steps, Owned, QueueOwned, BatchHeld, AnswersTrue, Waiting, Tasks, Replies, Results, TurnHeld, Hold, engine, pending, gate
<1>6. Covered'
  BY CoveredFrame DEF Inv, TypeOK, Tasks, Hold, engine, pending, gate
<1>7. Reads'
  BY DEF Inv, TypeOK, Steps, Reads, ReadableIsLanded, Chain, DenseVersions, Hold, engine, pending, gate
<1>. QED
  BY <1>1, <1>2, <1>3, <1>4, <1>5, <1>6, <1>7 DEF Inv

\* Reading the tail and checking for conflicts keeps the invariant.
LEMMA DeriveInv ==
    ASSUME Inv, NEW t \in Tasks, Derive(t)
    PROVE  Inv'
<1>1. TypeOK'
  <2>1. OnSeen \in Seq(Tasks)
    BY SeenType DEF Inv, Shape, TypeOK, Outcome
  <2>2. batch' \in [Tasks -> Member \cup {None}]
    BY DerivedBatch DEF Inv, TypeOK
  <2>. QED
    BY <2>2 DEF Inv, TypeOK, Steps, Derive, engine, pending, gate
<1>2. Shape'
  BY DEF Inv, TypeOK, Steps, Shape, Outcome, Derive, engine, pending, gate
<1>3. TurnHeld'
  BY GateAssumption DEF Inv, TypeOK, Steps, TurnHeld, Tasks, Derive, engine, pending, gate
<1>4. Chain'
  BY DEF Inv, Chain, DenseVersions, Derive, engine, pending, gate
<1>5. Owned'
  <2>1. batch'[t] \in Member /\ batch'[t].txn = t /\ \A u \in Tasks \ {t} : batch'[u] = batch[u]
    BY DerivedBatch
  <2>2. \A i \in 1..Len(queue) : queue[i].txn \in Tasks \ {t}
    BY DEF Inv, Owned, QueueOwned, Waiting, Derive, Tasks
  <2>3. answers[t] = None
    BY DEF Inv, Owned, AnswersTrue, Waiting, Derive
  <2>4. pc'[t] = "derived" /\ \A u \in Tasks \ {t} : pc'[u] = pc[u]
    BY DEF Inv, TypeOK, Derive
  <2>5. UNCHANGED <<queue, answers, gone, result, version>>
    BY DEF Derive, engine, pending
  <2>6. QueueOwned'
    BY <2>1, <2>2, <2>4, <2>5 DEF Inv, Owned, QueueOwned
  <2>7. BatchHeld'
    BY <2>1, <2>4 DEF Inv, Owned, BatchHeld
  <2>8. AnswersTrue'
    BY <2>1, <2>3, <2>4, <2>5, GateAssumption DEF Inv, Owned, AnswersTrue, Replies, Results
  <2>. QED
    BY <2>6, <2>7, <2>8 DEF Owned
<1>6. Covered'
  BY CoveredFrame DEF Inv, TypeOK, Derive, engine, pending, gate, Tasks
<1>7. Reads'
  BY DEF Inv, TypeOK, Steps, Reads, ReadableIsLanded, Chain, DenseVersions, Derive, engine, pending, gate
<1>. QED
  BY <1>1, <1>2, <1>3, <1>4, <1>5, <1>6, <1>7 DEF Inv

\* A conflict found under the turn keeps the invariant.
LEMMA ConflictedInv ==
    ASSUME Inv, NEW t \in Tasks, Conflicted(t)
    PROVE  Inv'
<1>1. TypeOK'
  <2>1. told' \in [Tasks -> Replies \cup {None}] /\ pc' \in [Tasks -> Steps]
    BY DEF Inv, TypeOK, Steps, Replies, Results, Failures, Conflicted
  <2>. QED
    BY <2>1 DEF Inv, TypeOK, Conflicted, engine, pending
<1>2. Shape'
  BY DEF Inv, TypeOK, Steps, Shape, Outcome, Conflicted, engine, pending, gate
<1>3. TurnHeld'
  BY GateAssumption DEF Inv, TypeOK, Steps, TurnHeld, Tasks, Conflicted, engine, pending, gate
<1>4. Chain'
  BY DEF Inv, Chain, DenseVersions, Conflicted, engine, pending, gate
<1>5. Owned'
  BY GateAssumption DEF Inv, TypeOK, Steps, Owned, QueueOwned, BatchHeld, AnswersTrue, Waiting, Tasks, Replies, Results, TurnHeld, Conflicted, engine, pending, gate
<1>6. Covered'
  BY CoveredFrame DEF Inv, TypeOK, Tasks, Conflicted, engine, pending, gate
<1>7. Reads'
  BY DEF Inv, TypeOK, Steps, Reads, ReadableIsLanded, Chain, DenseVersions, Conflicted, engine, pending, gate
<1>. QED
  BY <1>1, <1>2, <1>3, <1>4, <1>5, <1>6, <1>7 DEF Inv

\* Entering WriteGate::land keeps the invariant.
LEMMA EnterLandInv ==
    ASSUME Inv, NEW t \in Tasks, EnterLand(t)
    PROVE  Inv'
<1>1. TypeOK'
  <2>1. told' \in [Tasks -> Replies \cup {None}] /\ pc' \in [Tasks -> Steps]
    BY DEF Inv, TypeOK, Steps, Replies, EnterLand
  <2>2. answers' \in [Tasks -> Results \cup {None}] /\ gone' \subseteq Tasks
    BY DEF Inv, TypeOK, EnterLand, DropTicket
  <2>. QED
    BY <2>1, <2>2 DEF Inv, TypeOK, EnterLand, engine, gate
<1>2. Shape'
  BY DEF Inv, TypeOK, Steps, Shape, Outcome, EnterLand, engine, pending, gate, DropTicket
<1>3. TurnHeld'
  <2>1. pc' \in [Tasks -> Steps] /\ pc'[t] \in {"done", "look"} /\ t \in Txns
    BY DEF Inv, TypeOK, Steps, EnterLand, TurnHeld
  <2>2. \A u \in Tasks \ {t} : pc'[u] = pc[u]
    BY DEF Inv, TypeOK, EnterLand
  <2>. QED
    BY <2>1, <2>2, GateAssumption DEF Inv, TurnHeld, Tasks, EnterLand, gate
<1>4. Chain'
  BY DEF Inv, Chain, DenseVersions, EnterLand, engine, pending, gate, DropTicket
<1>5. Owned'
  <2>1. \A u \in Tasks \ {t} : pc'[u] = pc[u] /\ answers'[u] = answers[u] /\ (u \in gone => u \in gone')
    BY DEF Inv, TypeOK, EnterLand, DropTicket
  <2>2. \/ pc'[t] = "look" /\ answers'[t] = answers[t]
        \/ pc'[t] = "done" /\ answers'[t] = None /\ (answers[t] = None => t \in gone')
    BY DEF Inv, TypeOK, EnterLand, DropTicket
  <2>3. UNCHANGED <<queue, batch, result, version>> /\ pc[t] = "staged"
    BY DEF EnterLand, engine
  <2>4. QueueOwned'
    BY <2>1, <2>2, <2>3 DEF Inv, Owned, QueueOwned, Waiting, Tasks
  <2>5. BatchHeld'
    BY <2>1, <2>2, <2>3 DEF Inv, Owned, BatchHeld
  <2>6. AnswersTrue'
    BY <2>1, <2>2, <2>3, GateAssumption DEF Inv, Owned, AnswersTrue, Waiting, Replies, Results, TurnHeld
  <2>. QED
    BY <2>4, <2>5, <2>6 DEF Owned
<1>6. Covered'
  BY CoveredFrame DEF Inv, TypeOK, EnterLand, engine, pending, gate, Tasks
<1>7. Reads'
  BY DEF Inv, TypeOK, Steps, Reads, ReadableIsLanded, Chain, DenseVersions, EnterLand, engine, pending, gate, DropTicket
<1>. QED
  BY <1>1, <1>2, <1>3, <1>4, <1>5, <1>6, <1>7 DEF Inv

\* Collecting an answer keeps the invariant.
LEMMA CollectInv ==
    ASSUME Inv, NEW t \in Tasks, Collect(t)
    PROVE  Inv'
<1>1. TypeOK'
  BY GateAssumption DEF Inv, TypeOK, Steps, Replies, Results, TurnHeld, Collect, engine, pending, gate
<1>2. Shape'
  BY DEF Inv, TypeOK, Steps, Shape, Outcome, Collect, engine, pending, gate
<1>3. TurnHeld'
  BY GateAssumption DEF Inv, TypeOK, Steps, TurnHeld, Tasks, Collect, engine, pending, gate
<1>4. Chain'
  BY DEF Inv, Chain, DenseVersions, Collect, engine, pending, gate
<1>5. Owned'
  BY GateAssumption, SMTT(30) DEF Inv, TypeOK, Steps, Owned, QueueOwned, BatchHeld, AnswersTrue, Waiting, Tasks, Replies, Results, TurnHeld, Collect, engine, pending, gate
<1>6. Covered'
  BY CoveredFrame DEF Inv, TypeOK, Tasks, Collect, engine, pending, gate
<1>7. Reads'
  BY DEF Inv, TypeOK, Steps, Reads, ReadableIsLanded, Chain, DenseVersions, Collect, engine, pending, gate
<1>. QED
  BY <1>1, <1>2, <1>3, <1>4, <1>5, <1>6, <1>7 DEF Inv

\* Taking a group keeps the invariant.
LEMMA TakeGroupInv ==
    ASSUME Inv, NEW t \in Tasks, TakeGroup(t)
    PROVE  Inv'
<1>1. TypeOK'
  BY GateAssumption DEF Inv, TypeOK, Steps, Replies, Results, TurnHeld, TakeGroup, engine, pending, gate, Waits, Smaller
<1>2. Shape'
  <2>1. cut' \in Nat /\ cut' > 0 /\ cut' <= Len(queue)
    BY GateAssumption, EmptySeq, LenProperties DEF Inv, TypeOK, TakeGroup, Smaller
  <2>2. outcome.n \in Nat /\ outcome.n = 0
    BY DEF Inv, TypeOK, Shape, Outcome, TakeGroup
  <2>3. \A u \in Tasks \ {t} : pc[u] \notin {"flushing", "flushed"}
    BY DEF Inv, Shape, TakeGroup
  <2>. QED
    BY <2>1, <2>2, <2>3 DEF Inv, TypeOK, Shape, TakeGroup
<1>3. TurnHeld'
  BY GateAssumption DEF Inv, TypeOK, Steps, TurnHeld, Tasks, TakeGroup, engine, pending, gate, Waits, Smaller
<1>4. Chain'
  BY DEF Inv, Chain, DenseVersions, TakeGroup, engine, pending, gate
<1>5. Owned'
  BY GateAssumption DEF Inv, TypeOK, Steps, Owned, QueueOwned, BatchHeld, AnswersTrue, Waiting, Tasks, Replies, Results, TurnHeld, TakeGroup, engine, pending, gate
<1>6. Covered'
  BY CoveredFrame DEF Inv, TypeOK, Tasks, TakeGroup, engine, pending, gate
<1>7. Reads'
  BY DEF Inv, TypeOK, Steps, Reads, ReadableIsLanded, Chain, DenseVersions, TakeGroup, engine, pending, gate, Waits, Smaller
<1>. QED
  BY <1>1, <1>2, <1>3, <1>4, <1>5, <1>6, <1>7 DEF Inv

\* Parking keeps the invariant.
LEMMA ParkInv ==
    ASSUME Inv, NEW t \in Tasks, Park(t)
    PROVE  Inv'
<1>1. TypeOK'
  BY GateAssumption DEF Inv, TypeOK, Steps, Replies, Results, TurnHeld, Park, engine, pending, gate, Waits
<1>2. Shape'
  BY DEF Inv, TypeOK, Steps, Shape, Outcome, Park, engine, pending, gate, Waits
<1>3. TurnHeld'
  BY GateAssumption DEF Inv, TypeOK, Steps, TurnHeld, Tasks, Park, engine, pending, gate, Waits
<1>4. Chain'
  BY DEF Inv, Chain, DenseVersions, Park, engine, pending, gate
<1>5. Owned'
  BY GateAssumption DEF Inv, TypeOK, Steps, Owned, QueueOwned, BatchHeld, AnswersTrue, Waiting, Tasks, Replies, Results, TurnHeld, Park, engine, pending, gate
<1>6. Covered'
  BY CoveredFrame DEF Inv, TypeOK, Tasks, Park, engine, pending, gate
<1>7. Reads'
  BY DEF Inv, TypeOK, Steps, Reads, ReadableIsLanded, Chain, DenseVersions, Park, engine, pending, gate, Waits
<1>. QED
  BY <1>1, <1>2, <1>3, <1>4, <1>5, <1>6, <1>7 DEF Inv

\* Settling a collected answer keeps the invariant.
LEMMA SettleInv ==
    ASSUME Inv, NEW t \in Tasks, Settle(t)
    PROVE  Inv'
<1>1. TypeOK'
  <2>1. stopped' \in Stopping \cup {None}
    BY StopOnType DEF Inv, TypeOK, Settle
  <2>2. landed' \in Nat
    BY DEF Inv, TypeOK, Settle, Larger, Owned, AnswersTrue, Member
  <2>3. told' \in [Tasks -> Replies \cup {None}] /\ pc' \in [Tasks -> Steps]
    BY DEF Inv, TypeOK, Settle, Replies, Steps
  <2>4. result' \in [Tasks -> Results \cup {None}] /\ turn' \in Tasks \cup {None}
    BY DEF Inv, TypeOK, Settle
  <2>. QED
    BY <2>1, <2>2, <2>3, <2>4 DEF Inv, TypeOK, Settle, engine, pending
<1>2. Shape'
  BY DEF Inv, TypeOK, Steps, Shape, Outcome, Settle, engine, pending, gate, Larger, Owned, AnswersTrue
<1>3. TurnHeld'
  <2>1. pc[t] = "collected" /\ pc'[t] \in {"queued", "done"} /\ \A u \in Tasks \ {t} : pc'[u] = pc[u]
    BY DEF Inv, TypeOK, Settle
  <2>2. queue' = queue /\ \A u \in Tasks \ {t} : turn = u => turn' = u
    BY DEF Settle, pending
  <2>. QED
    BY <2>1, <2>2, GateAssumption DEF Inv, TurnHeld, Tasks
<1>4. Chain'
  BY DEF Inv, Chain, DenseVersions, Settle, engine, pending, gate
<1>5. Owned'
  <2>1. pc[t] = "collected" /\ pc'[t] \in {"queued", "done"} /\ \A u \in Tasks \ {t} : pc'[u] = pc[u]
    BY DEF Inv, TypeOK, Settle
  <2>2. \A u \in Tasks \ {t} : result'[u] = result[u]
    BY DEF Inv, TypeOK, Settle
  <2>3. UNCHANGED <<queue, answers, gone, batch, version>>
    BY DEF Settle, engine, pending
  <2>4. \A i \in 1..Len(queue) : queue[i].txn \in Tasks \ {t}
    BY <2>1 DEF Inv, Owned, QueueOwned, Waiting, Tasks
  <2>5. QueueOwned'
    BY <2>1, <2>3, <2>4 DEF Inv, Owned, QueueOwned
  <2>6. BatchHeld'
    BY <2>1, <2>3 DEF Inv, Owned, BatchHeld
  <2>7. AnswersTrue'
    BY <2>1, <2>2, <2>3 DEF Inv, Owned, AnswersTrue, Waiting
  <2>. QED
    BY <2>5, <2>6, <2>7 DEF Owned
<1>6. Covered'
  BY CoveredFrame DEF Inv, TypeOK, Settle, engine, pending, gate, Tasks
<1>7. Reads'
  BY DEF Inv, TypeOK, Steps, Reads, ReadableIsLanded, Chain, DenseVersions, Settle, engine, pending, gate, Larger, Owned, AnswersTrue
<1>. QED
  BY <1>1, <1>2, <1>3, <1>4, <1>5, <1>6, <1>7 DEF Inv

\* Draining the queue keeps the invariant.
LEMMA DrainedInv ==
    ASSUME Inv, NEW t \in Tasks, Drained(t)
    PROVE  Inv'
<1>1. TypeOK'
  BY GateAssumption DEF Inv, TypeOK, Steps, Replies, Results, TurnHeld, Drained, engine, pending, gate
<1>2. Shape'
  BY DEF Inv, TypeOK, Steps, Shape, Outcome, Drained, engine, pending, gate
<1>3. TurnHeld'
  BY GateAssumption DEF Inv, TypeOK, Steps, TurnHeld, Tasks, Drained, engine, pending, gate
<1>4. Chain'
  BY DEF Inv, Chain, DenseVersions, Drained, engine, pending, gate
<1>5. Owned'
  BY GateAssumption DEF Inv, TypeOK, Steps, Owned, QueueOwned, BatchHeld, AnswersTrue, Waiting, Tasks, Replies, Results, TurnHeld, Drained, engine, pending, gate
<1>6. Covered'
  BY CoveredFrame DEF Inv, TypeOK, Tasks, Drained, engine, pending, gate
<1>7. Reads'
  BY DEF Inv, TypeOK, Steps, Reads, ReadableIsLanded, Chain, DenseVersions, Drained, engine, pending, gate
<1>. QED
  BY <1>1, <1>2, <1>3, <1>4, <1>5, <1>6, <1>7 DEF Inv

\* Placing a replica's record keeps the invariant.
LEMMA PlaceInv ==
    ASSUME Inv, NEW t \in Tasks, Place(t)
    PROVE  Inv'
<1>1. TypeOK'
  <2>1. OnSeen \in Seq(Tasks) /\ t \in Appliers
    BY SeenType DEF Inv, Shape, TypeOK, Outcome, TurnHeld, Place
  <2>2. VersionSeen \in Nat
    BY DEF Inv, TurnHeld, TypeOK, Place, VersionSeen
  <2>3. batch' \in [Tasks -> Member \cup {None}]
    <3>1. Home[t] \in Homes /\ At[t] \in Nat /\ VersionSeen + 1 \in Nat
      BY <2>1, <2>2, GateAssumption
    <3>2. [txn |-> t, home |-> Home[t], pos |-> At[t], version |-> VersionSeen + 1, on |-> OnSeen] \in Member
      BY <2>1, <3>1, MemberMade
    <3>. QED
      BY <3>2, ZenonT(60) DEF Inv, TypeOK, Place
  <2>4. told' \in [Tasks -> Replies \cup {None}] /\ pc' \in [Tasks -> Steps]
    BY DEF Inv, TypeOK, Place, Replies, Steps
  <2>. QED
    BY <2>3, <2>4 DEF Inv, TypeOK, Place, engine, pending
<1>2. Shape'
  BY DEF Inv, TypeOK, Steps, Shape, Outcome, Place, engine, pending, gate
<1>3. TurnHeld'
  <2>1. pc[t] = "drained" /\ t \in Appliers /\ turn = t /\ queue = <<>>
    BY DEF Inv, TurnHeld, Place
  <2>2. \A u \in Tasks \ {t} : pc'[u] = pc[u]
    BY DEF Inv, TypeOK, Place
  <2>3. \/ pc'[t] = "applying" /\ turn' = turn
        \/ pc'[t] = "done" /\ turn' = None
    BY DEF Inv, TypeOK, Place
  <2>4. queue' = queue
    BY DEF Place, pending
  <2>5. \A u \in Tasks \ {t} : turn # u
    BY <2>1
  <2>. QED
    BY <2>1, <2>2, <2>3, <2>4, <2>5, GateAssumption DEF Inv, TurnHeld, Tasks
<1>4. Chain'
  BY DEF Inv, Chain, DenseVersions, Place, engine, pending, gate
<1>5. Owned'
  <2>1. pc[t] = "drained" /\ t \in Appliers /\ queue = <<>>
    BY DEF Inv, TurnHeld, Place
  <2>2. OnSeen \in Seq(Tasks) /\ VersionSeen \in Nat
    BY <2>1, SeenType DEF Inv, Shape, TypeOK, Outcome, VersionSeen
  <2>3. \A u \in Tasks \ {t} : pc'[u] = pc[u] /\ batch'[u] = batch[u]
    BY DEF Inv, TypeOK, Place
  <2>4. \/ pc'[t] = "applying" /\ batch'[t] \in Member /\ batch'[t].txn = t
        \/ pc'[t] = "done"
    <3>1. Home[t] \in Homes /\ At[t] \in Nat /\ VersionSeen + 1 \in Nat
      BY <2>1, <2>2, GateAssumption
    <3>2. [txn |-> t, home |-> Home[t], pos |-> At[t], version |-> VersionSeen + 1, on |-> OnSeen] \in Member
      BY <2>2, <3>1, MemberMade
    <3>. QED
      BY <3>2 DEF Inv, TypeOK, Place
  <2>5. UNCHANGED <<queue, answers, gone, result, version>>
    BY DEF Place, engine, pending
  <2>6. answers[t] = None
    BY <2>1 DEF Inv, Owned, AnswersTrue, Waiting
  <2>7. QueueOwned'
    BY <2>1, <2>5 DEF QueueOwned
  <2>8. BatchHeld'
    BY <2>3, <2>4 DEF Inv, Owned, BatchHeld
  <2>9. AnswersTrue'
    BY <2>3, <2>4, <2>5, <2>6, GateAssumption DEF Inv, Owned, AnswersTrue, Replies, Results
  <2>. QED
    BY <2>7, <2>8, <2>9 DEF Owned
<1>6. Covered'
  <2>1. t \in Appliers
    BY DEF Inv, TurnHeld, Place
  <2>. QED
    BY <2>1, CoveredFrame, GateAssumption, SMTT(30) DEF Inv, TypeOK, Place, engine, pending, gate, Tasks
<1>7. Reads'
  BY DEF Inv, TypeOK, Steps, Reads, ReadableIsLanded, Chain, DenseVersions, Place, engine, pending, gate
<1>. QED
  BY <1>1, <1>2, <1>3, <1>4, <1>5, <1>6, <1>7 DEF Inv

\* A task dropped at an await keeps the invariant.
LEMMA CancelInv ==
    ASSUME Inv, NEW t \in Tasks, Cancel(t)
    PROVE  Inv'
<1>1. TypeOK'
  <2>1. told' \in [Tasks -> Replies \cup {None}] /\ pc' \in [Tasks -> Steps]
    BY DEF Inv, TypeOK, Steps, Replies, Cancel, Dropped
  <2>2. answers' \in [Tasks -> Results \cup {None}] /\ gone' \subseteq Tasks
    BY DEF Inv, TypeOK, Cancel, DropTicket
  <2>3. turn' \in Tasks \cup {None}
    BY DEF Inv, TypeOK, Cancel, Dropped
  <2>. QED
    BY <2>1, <2>2, <2>3 DEF Inv, TypeOK, Cancel, engine
<1>2. Shape'
  BY DEF Inv, TypeOK, Steps, Shape, Outcome, Cancel, engine, pending, gate, DropTicket, Dropped
<1>3. TurnHeld'
  BY GateAssumption DEF Inv, TypeOK, Steps, TurnHeld, Tasks, Cancel, engine, pending, gate, DropTicket, Dropped
<1>4. Chain'
  BY DEF Inv, Chain, DenseVersions, Cancel, engine, pending, gate, DropTicket, Dropped
<1>5. Owned'
  <2>1. \A u \in Tasks \ {t} : pc'[u] = pc[u] /\ answers'[u] = answers[u] /\ (u \in gone => u \in gone')
    BY DEF Inv, TypeOK, Cancel, DropTicket
  <2>2. pc'[t] = "done" /\ (answers[t] = None => answers'[t] = None)
    BY DEF Inv, TypeOK, Cancel, DropTicket
  <2>3. UNCHANGED <<queue, batch, result, version>>
    BY DEF Cancel, engine
  <2>4. pc[t] \in {"queued", "holding", "derived", "woken", "parked", "draining", "drained"}
    BY DEF Cancel
  <2>5. ASSUME NEW i \in 1..Len(queue), queue[i].txn = t PROVE t \in gone' /\ answers'[t] = None
    <3>1. t \in Txns /\ answers[t] = None /\ pc[t] \in {"woken", "parked"}
      BY <2>4, <2>5 DEF Inv, Owned, QueueOwned, Waiting
    <3>. QED
      BY <3>1 DEF Inv, TypeOK, Cancel, DropTicket
  <2>6. answers'[t] = None
    <3>1. CASE t \in Txns /\ pc[t] \in {"woken", "parked"}
      BY <3>1 DEF Inv, TypeOK, Cancel, DropTicket
    <3>2. CASE ~(t \in Txns /\ pc[t] \in {"woken", "parked"})
      BY <2>2, <2>4, <3>2 DEF Inv, Owned, AnswersTrue, Waiting
    <3>. QED
      BY <3>1, <3>2
  <2>7. QueueOwned'
    BY <2>1, <2>2, <2>3, <2>5 DEF Inv, Owned, QueueOwned, Tasks
  <2>8. BatchHeld'
    BY <2>1, <2>2, <2>3 DEF Inv, Owned, BatchHeld
  <2>9. AnswersTrue'
    BY <2>1, <2>2, <2>3, <2>6, GateAssumption DEF Inv, Owned, AnswersTrue, Replies, Results
  <2>. QED
    BY <2>7, <2>8, <2>9 DEF Owned
<1>6. Covered'
  BY CoveredFrame DEF Inv, TypeOK, Tasks, Cancel, engine, pending, gate, DropTicket, Dropped
<1>7. Reads'
  BY DEF Inv, TypeOK, Steps, Reads, ReadableIsLanded, Chain, DenseVersions, Cancel, engine, pending, gate, DropTicket, Dropped
<1>. QED
  BY <1>1, <1>2, <1>3, <1>4, <1>5, <1>6, <1>7 DEF Inv

-----------------------------------------------------------------------------
(* Steps that move the queue or the engine.                                *)

\* Staging: the holder's batch continues the chain, and its check covers all before it.
LEMMA StageInv ==
    ASSUME Inv, NEW t \in Tasks, Stage(t)
    PROVE  Inv'
<1>. DEFINE b == Versioned(t)
<1>1. /\ t \in Txns /\ turn = t /\ batch[t] \in Member /\ batch[t].txn = t /\ NoConflict(t)
      /\ answers[t] = None
      /\ \A i \in 1..Len(queue) : queue[i].txn # t
  BY DEF Inv, TurnHeld, Owned, BatchHeld, QueueOwned, AnswersTrue, Covered, Waiting, Stage
<1>2. queue \in Seq(Member) /\ Len(queue) \in Nat /\ log \in Seq(Member) /\ version \in Nat /\ outcome.n \in Nat
      /\ version = Len(log) /\ cut \in Nat /\ outcome.n <= cut /\ cut <= Len(queue)
  BY LenProperties DEF Inv, TypeOK, Outcome, Chain, DenseVersions, Shape
<1>3. VersionSeen \in Nat /\ VersionSeen + 1 + outcome.n = version + Len(queue) + 1
  <2>1. CASE queue = <<>>
    BY <1>2, <2>1 DEF VersionSeen, Inv, Shape, TypeOK
  <2>2. CASE queue # <<>>
    <3>1. Len(queue) \in 1..Len(queue)
      BY <1>2, <2>2, EmptySeq
    <3>2. queue[Len(queue)].version + outcome.n = version + Len(queue) /\ queue[Len(queue)] \in Member
      BY <1>2, <3>1, ElementOfSeq DEF Inv, Chain
    <3>3. queue[Len(queue)].version \in Nat
      BY <3>2, MemberFields
    <3>. QED
      BY <1>2, <2>2, <3>2, <3>3 DEF VersionSeen, Last
  <2>. QED
    BY <2>1, <2>2
<1>4. b \in Member /\ b.txn = t /\ b.version = VersionSeen + 1
  BY <1>1, <1>3 DEF Versioned, Member
<1>. HIDE DEF b
<1>5. /\ UNCHANGED <<log, version, tail, hole, cut, lander, outcome, answers, gone, landed, stopped,
                     snap, attempt, result, told>>
      /\ batch' = [batch EXCEPT ![t] = b] /\ pc[t] = "derived"
      /\ Grouped => queue' = Append(queue, b) /\ turn' = None /\ pc' = [pc EXCEPT ![t] = "staged"]
      /\ ~Grouped => queue' = queue /\ turn' = turn /\ pc' = [pc EXCEPT ![t] = "applying"]
  BY DEF Stage, engine, b
<1>6. /\ batch'[t] = b /\ pc'[t] \in {"staged", "applying"}
      /\ \A u \in Tasks \ {t} : batch'[u] = batch[u] /\ pc'[u] = pc[u]
  BY <1>5 DEF Inv, TypeOK
<1>7. TypeOK'
  <2>1. queue' \in Seq(Member)
    <3>1. Append(queue, b) \in Seq(Member)
      BY <1>2, <1>4
    <3>. QED
      BY <1>2, <1>5, <3>1
  <2>2. batch' \in [Tasks -> Member \cup {None}] /\ pc' \in [Tasks -> Steps]
    BY <1>4, <1>5 DEF Inv, TypeOK, Steps
  <2>3. turn' \in Tasks \cup {None}
    BY <1>5 DEF Inv, TypeOK
  <2>. QED
    BY <1>5, <2>1, <2>2, <2>3 DEF Inv, TypeOK
<1>8. CASE Grouped
  <2>1. /\ Len(queue') = Len(queue) + 1 /\ queue'[Len(queue) + 1] = b
        /\ \A i \in 1..Len(queue) : queue'[i] = queue[i]
    BY <1>2, <1>4, <1>5, <1>8
  <2>2. turn' = None /\ pc'[t] = "staged"
    BY <1>5, <1>8 DEF Inv, TypeOK
  <2>3. Shape'
    BY <1>2, <1>5, <1>6, <2>1, <2>2, SMTT(30) DEF Inv, Shape
  <2>4. \A u \in Tasks \ {t} : /\ pc[u] \notin {"holding", "derived", "applying", "draining", "drained"}
                               /\ u \in Appliers => pc[u] \notin {"parked", "flushing", "flushed"}
    BY <1>1 DEF Inv, TurnHeld
  <2>5. TurnHeld'
    BY <1>1, <1>6, <1>8, <2>2, <2>4, GateAssumption DEF Inv, TurnHeld, Tasks
  <2>6. Chain'
    <3>1. \A i \in 1..Len(queue') : queue'[i].version + outcome.n = version + i
      <4>1. \A i \in 1..Len(queue) : queue'[i].version + outcome.n = version + i
        BY <2>1 DEF Inv, Chain
      <4>2. queue'[Len(queue) + 1].version + outcome.n = version + (Len(queue) + 1)
        BY <1>2, <1>3, <1>4, <2>1
      <4>3. \A i \in 1..Len(queue') : i \in 1..Len(queue) \/ i = Len(queue) + 1
        BY <1>2, <2>1
      <4>. QED
        BY <4>1, <4>2, <4>3
    <3>. QED
      BY <1>5, <3>1 DEF Inv, Chain, DenseVersions
  <2>7. QueueOwned'
    <3>1. ASSUME NEW i \in 1..Len(queue') PROVE
             LET u == queue'[i].txn IN
             /\ u \in Txns /\ batch'[u] = queue'[i] /\ answers'[u] = None
             /\ pc'[u] \in Waiting \cup {"done"} /\ (pc'[u] = "done" => u \in gone')
      <4>1. CASE i \in 1..Len(queue)
        BY <1>1, <1>5, <1>6, <2>1, <4>1 DEF Inv, Owned, QueueOwned, Tasks
      <4>2. CASE i = Len(queue) + 1
        BY <1>1, <1>4, <1>5, <1>6, <2>1, <2>2, <4>2 DEF Waiting
      <4>. QED
        BY <1>2, <2>1, <4>1, <4>2
    <3>. QED
      BY <3>1 DEF QueueOwned
  <2>8. BatchHeld'
    BY <1>6, <2>2 DEF Inv, Owned, BatchHeld
  <2>9. AnswersTrue'
    BY <1>1, <1>5, <1>6, <2>2, GateAssumption DEF Inv, Owned, AnswersTrue, Replies, Results
  <2>10. \A u \in Txns : pc'[u] \notin {"derived", "applying"}
    BY <1>6, <2>2, <2>4 DEF Tasks
  <2>11. ASSUME NEW j \in outcome.n + 1 .. Len(queue')
         PROVE  /\ \A i \in 1..Len(log) : Overlap(log[i], queue'[j].txn) =>
                                             log[i].version <= snap[queue'[j].txn]
                /\ \A i \in 1..(j - 1) : Overlap(queue'[i], queue'[j].txn) =>
                                           queue'[i].version <= snap[queue'[j].txn]
    <3>1. CASE j \in 1..Len(queue)
      <4>1. j \in outcome.n + 1 .. Len(queue) /\ queue'[j] = queue[j]
        BY <1>2, <2>1, <3>1
      <4>2. \A i \in 1..(j - 1) : queue'[i] = queue[i]
        BY <1>2, <2>1, <3>1
      <4>. QED
        BY <4>1, <4>2 DEF Inv, Covered
    <3>2. CASE j = Len(queue) + 1
      <4>1. queue'[j].txn = t /\ \A i \in 1..(j - 1) : i \in 1..Len(queue) /\ queue'[i] = queue[i]
        BY <1>2, <1>4, <2>1, <3>2
      <4>. QED
        BY <1>1, <4>1 DEF NoConflict
    <3>. QED
      BY <1>2, <2>1, <3>1, <3>2
  <2>12. Covered'
    <3>1. \A i \in 1..Len(log) : log[i].txn \in Txns => pc'[log[i].txn] # "idle"
      BY <1>6 DEF Inv, Covered, Tasks
    <3>2. FirstCommitterWins'
      BY <1>5 DEF Inv, Covered, FirstCommitterWins, Overlap
    <3>. QED
      BY <1>5, <2>10, <2>11, <3>1, <3>2 DEF Covered, Overlap
  <2>13. Reads'
    BY <1>5, <1>6, <2>2 DEF Inv, Reads, ReadableIsLanded
  <2>. QED
    BY <1>7, <2>3, <2>5, <2>6, <2>7, <2>8, <2>9, <2>12, <2>13 DEF Inv, Owned
<1>9. CASE ~Grouped
  <2>1. queue' = queue /\ turn' = turn /\ pc'[t] = "applying" /\ queue = <<>>
    BY <1>5, <1>9 DEF Inv, TurnHeld, TypeOK
  <2>2. Shape'
    BY <1>5, <1>6, <2>1 DEF Inv, Shape
  <2>3. TurnHeld'
    BY <1>1, <1>6, <2>1, GateAssumption DEF Inv, TurnHeld, Tasks
  <2>4. Chain'
    BY <1>5, <2>1 DEF Inv, Chain, DenseVersions
  <2>5. QueueOwned'
    BY <2>1 DEF QueueOwned
  <2>6. BatchHeld'
    BY <1>4, <1>6 DEF Inv, Owned, BatchHeld
  <2>7. AnswersTrue'
    BY <1>1, <1>5, <1>6, <2>1, GateAssumption DEF Inv, Owned, AnswersTrue, Replies, Results
  <2>8. Covered'
    BY <1>1, <1>5, <1>6, <2>1, CoveredFrame DEF Tasks
  <2>9. Reads'
    BY <1>5, <1>6, <2>1 DEF Inv, Reads, ReadableIsLanded
  <2>. QED
    BY <1>7, <2>2, <2>3, <2>4, <2>5, <2>6, <2>7, <2>8, <2>9 DEF Inv, Owned
<1>. QED
  BY <1>8, <1>9

\* Batches whose checks cover everything they would land over.
Checked(g) ==
    \A j \in 1..Len(g) : g[j].txn \in Txns =>
        /\ pc[g[j].txn] # "idle"
        /\ \A i \in 1..Len(log) : Overlap(log[i], g[j].txn) => log[i].version <= snap[g[j].txn]
        /\ \A i \in 1..(j - 1) : Overlap(g[i], g[j].txn) => g[i].version <= snap[g[j].txn]

\* The group in flight is the front of the queue.
LEMMA GroupInFlight ==
    ASSUME Inv
    PROVE  /\ SubSeq(queue, 1, cut) \in Seq(Member) /\ Len(SubSeq(queue, 1, cut)) = cut
           /\ \A i \in 1..cut : i \in 1..Len(queue) /\ SubSeq(queue, 1, cut)[i] = queue[i]
BY DEF Inv, TypeOK, Shape

\* A group that has not been landed yet is checked.
LEMMA GroupChecked ==
    ASSUME Inv, outcome.n = 0
    PROVE  Checked(SubSeq(queue, 1, cut))
<1>. DEFINE g == SubSeq(queue, 1, cut)
<1>1. /\ g \in Seq(Member) /\ Len(g) = cut /\ cut \in Nat
      /\ \A i \in 1..cut : i \in 1..Len(queue) /\ g[i] = queue[i]
  BY GroupInFlight DEF Inv, TypeOK
<1>. HIDE DEF g
<1>2. ASSUME NEW j \in 1..Len(g)
      PROVE  /\ pc[g[j].txn] # "idle"
             /\ \A i \in 1..Len(log) : Overlap(log[i], g[j].txn) => log[i].version <= snap[g[j].txn]
             /\ \A i \in 1..(j - 1) : Overlap(g[i], g[j].txn) => g[i].version <= snap[g[j].txn]
  <2>1. j \in outcome.n + 1 .. Len(queue) /\ j \in 1..Len(queue) /\ g[j] = queue[j]
    BY <1>1
  <2>2. \A i \in 1..(j - 1) : g[i] = queue[i]
    BY <1>1
  <2>3. pc[queue[j].txn] # "idle"
    BY <2>1 DEF Inv, Owned, QueueOwned, Waiting
  <2>. QED
    BY <2>1, <2>2, <2>3 DEF Inv, Covered
<1>. QED
  BY <1>2 DEF Checked, g

\* So is a batch applied under the turn.
LEMMA BatchChecked ==
    ASSUME Inv, NEW t \in Tasks, pc[t] = "applying"
    PROVE  /\ <<batch[t]>> \in Seq(Member) /\ Len(<<batch[t]>>) = 1 /\ <<batch[t]>>[1] = batch[t]
           /\ batch[t].txn = t
           /\ Checked(<<batch[t]>>)
<1>1. batch[t] \in Member /\ batch[t].txn = t
  BY DEF Inv, Owned, BatchHeld
<1>2. t \in Txns => NoConflict(t)
  BY DEF Inv, Covered
<1>. QED
  BY <1>1, <1>2 DEF Checked, NoConflict

\* Whatever prefix of checked batches the engine takes, history stays dense and
\* no write is lost.
LEMMA EngineTakes ==
    ASSUME Inv, NEW g \in Seq(Member), Checked(g), NEW n \in Judged(g), Takes(g, n)
    PROVE  /\ n \in 0..Len(g)
           /\ log' \in Seq(Member) /\ Len(log') = Len(log) + n
           /\ \A i \in 1..Len(log) : log'[i] = log[i]
           /\ \A i \in 1..n : log'[Len(log) + i] = g[i]
           /\ version' = version + n /\ version' \in Nat
           /\ tail' \in [Homes -> Nat] /\ hole' = hole
           /\ DenseVersions'
           /\ \A i \in 1..Len(log') : log'[i].txn \in Txns => pc[log'[i].txn] # "idle"
           /\ snap' = snap => FirstCommitterWins'
<1>1. n \in 0..Len(g) /\ \A i \in 1..n : Holds(g, i)
  BY DEF Judged
<1>2. TypeOK /\ DenseVersions
  BY DEF Inv, Chain
<1>3. /\ log' \in Seq(Member) /\ Len(log') = Len(log) + n
      /\ \A i \in 1..Len(log) : log'[i] = log[i]
      /\ \A i \in 1..n : log'[Len(log) + i] = g[i]
      /\ version' = version + n /\ version' \in Nat
      /\ tail' \in [Homes -> Nat] /\ hole' = hole
      /\ DenseVersions'
  BY <1>1, <1>2, TakesAppends
<1>4. Len(log) \in Nat /\ Len(g) \in Nat
  BY <1>2, LenProperties DEF TypeOK
<1>5. \A i \in 1..Len(log') :
         \/ i \in 1..Len(log) /\ log'[i] = log[i]
         \/ (i - Len(log)) \in 1..n /\ log'[i] = g[i - Len(log)]
  <2>1. ASSUME NEW i \in 1..Len(log'), i > Len(log)
        PROVE  (i - Len(log)) \in 1..n /\ i = Len(log) + (i - Len(log))
    BY <1>1, <1>3, <1>4, <2>1
  <2>. QED
    BY <1>3, <1>4, <2>1
<1>6. \A i \in 1..Len(log') : log'[i].txn \in Txns => pc[log'[i].txn] # "idle"
  <2>1. \A i \in 1..Len(log) : log[i].txn \in Txns => pc[log[i].txn] # "idle"
    BY DEF Inv, Covered
  <2>2. \A i \in 1..n : g[i].txn \in Txns => pc[g[i].txn] # "idle"
    BY <1>1, <1>4 DEF Checked
  <2>. QED
    BY <1>5, <2>1, <2>2
<1>7. ASSUME snap' = snap, NEW i \in 1..Len(log'), NEW j \in 1..Len(log'),
             i < j, log'[j].txn \in Txns, Overlap(log'[i], log'[j].txn)
      PROVE  i <= snap[log'[j].txn]
  <2>1. log'[i].version = i
    BY <1>3 DEF DenseVersions
  <2>2. CASE j \in 1..Len(log)
    BY <1>3, <1>4, <1>7, <2>2 DEF Inv, Covered, FirstCommitterWins
  <2>3. CASE j \notin 1..Len(log)
    <3>. DEFINE k == j - Len(log)
    <3>1. k \in 1..n /\ k \in 1..Len(g) /\ log'[j] = g[k] /\ j = Len(log) + k
      BY <1>1, <1>4, <1>5, <2>3
    <3>. HIDE DEF k
    <3>2. CASE i \in 1..Len(log)
      BY <1>3, <1>7, <2>1, <3>1, <3>2 DEF Checked
    <3>3. CASE i \notin 1..Len(log)
      <4>1. (i - Len(log)) \in 1..(k - 1) /\ log'[i] = g[i - Len(log)]
        BY <1>4, <1>5, <1>7, <3>1, <3>3
      <4>. QED
        BY <1>7, <2>1, <3>1, <4>1 DEF Checked
    <3>. QED
      BY <3>2, <3>3
  <2>. QED
    BY <2>2, <2>3
<1>8. snap' = snap => FirstCommitterWins'
  BY <1>7 DEF FirstCommitterWins, Overlap
<1>. QED
  BY <1>1, <1>3, <1>6, <1>8

\* A task whose check is made stays covered when the engine takes what was
\* pending or a batch of its own.
LEMMA StillNoConflict ==
    ASSUME Inv, NEW u \in Txns, NoConflict(u), UNCHANGED snap,
           \A i \in 1..Len(log') : \/ i \in 1..Len(log) /\ log'[i] = log[i]
                                  \/ \E k \in 1..Len(queue) : log'[i] = queue[k],
           \A i \in 1..Len(queue') : \E k \in 1..Len(queue) : queue'[i] = queue[k]
    PROVE  NoConflict(u)'
<1>1. \A i \in 1..Len(log') : Overlap(log'[i], u) => log'[i].version <= snap[u]
  BY DEF NoConflict
<1>2. \A i \in 1..Len(queue') : Overlap(queue'[i], u) => queue'[i].version <= snap[u]
  BY DEF NoConflict
<1>. QED
  BY <1>1, <1>2 DEF NoConflict, Overlap

\* What the engine does with the group in flight, heard or unheard.
LEMMA GroupTaken ==
    ASSUME Inv, outcome.n = 0, UNCHANGED snap, NEW n \in Judged(SubSeq(queue, 1, cut)),
           Takes(SubSeq(queue, 1, cut), n)
    PROVE  /\ n \in 0..cut
           /\ log' \in Seq(Member) /\ Len(log') = Len(log) + n
           /\ version' = version + n /\ version' \in Nat
           /\ tail' \in [Homes -> Nat] /\ hole' = hole
           /\ DenseVersions' /\ FirstCommitterWins'
           /\ \A i \in 1..Len(log') : log'[i].txn \in Txns => pc[log'[i].txn] # "idle"
           /\ \A i \in 1..Len(log') : \/ i \in 1..Len(log) /\ log'[i] = log[i]
                                     \/ \E k \in 1..n : k \in 1..Len(queue) /\ log'[i] = queue[k]
<1>. DEFINE g == SubSeq(queue, 1, cut)
<1>1. g \in Seq(Member) /\ Len(g) = cut /\ \A i \in 1..cut : i \in 1..Len(queue) /\ g[i] = queue[i]
  BY GroupInFlight
<1>2. Checked(g)
  BY GroupChecked
<1>3. n \in Judged(g) /\ Takes(g, n)
  OBVIOUS
<1>. HIDE DEF g
<1>4. /\ n \in 0..Len(g)
      /\ log' \in Seq(Member) /\ Len(log') = Len(log) + n
      /\ \A i \in 1..Len(log) : log'[i] = log[i]
      /\ \A i \in 1..n : log'[Len(log) + i] = g[i]
      /\ version' = version + n /\ version' \in Nat
      /\ tail' \in [Homes -> Nat] /\ hole' = hole
      /\ DenseVersions' /\ FirstCommitterWins'
      /\ \A i \in 1..Len(log') : log'[i].txn \in Txns => pc[log'[i].txn] # "idle"
  BY <1>1, <1>2, <1>3, EngineTakes
<1>5. Len(log) \in Nat /\ cut \in Nat
  BY LenProperties DEF Inv, TypeOK
<1>6. ASSUME NEW i \in 1..Len(log'), i \notin 1..Len(log)
      PROVE  \E k \in 1..n : k \in 1..Len(queue) /\ log'[i] = queue[k]
  <2>1. (i - Len(log)) \in 1..n /\ (i - Len(log)) \in 1..cut /\ i = Len(log) + (i - Len(log))
    BY <1>1, <1>4, <1>5, <1>6
  <2>2. log'[i] = queue[i - Len(log)]
    BY <1>1, <1>4, <2>1
  <2>. QED
    BY <1>1, <2>1, <2>2
<1>. QED
  BY <1>1, <1>4, <1>6

\* Landing a group: what it takes was at the front of the chain.
LEMMA FlushInv ==
    ASSUME Inv, NEW t \in Tasks, Flush(t)
    PROVE  Inv'
<1>1. /\ pc[t] = "flushing" /\ pc' = [pc EXCEPT ![t] = "flushed"]
      /\ UNCHANGED <<queue, cut, lander, answers, gone, landed, stopped, turn,
                     snap, attempt, batch, result, told>>
  BY DEF Flush, gate
<1>2. outcome.n = 0 /\ lander = t /\ cut > 0 /\ cut \in Nat /\ cut <= Len(queue)
  BY <1>1 DEF Inv, Shape, TypeOK
<1>3. PICK a \in [n : 0..cut, why : Results] : Applies(SubSeq(queue, 1, cut), a) /\ outcome' = a
  BY DEF Flush
<1>4. pc'[t] = "flushed" /\ \A u \in Tasks \ {t} : pc'[u] = pc[u]
  BY <1>1 DEF Inv, TypeOK
<1>5. /\ a.n \in 0..cut /\ a.why \in Results /\ (a.n < cut => a.why # "ok")
      /\ log' \in Seq(Member) /\ Len(log') = Len(log) + a.n
      /\ version' = version + a.n /\ version' \in Nat
      /\ tail' \in [Homes -> Nat] /\ hole' \in Nat \cup {None}
      /\ (hole' # None => hole' <= Len(log'))
      /\ DenseVersions' /\ FirstCommitterWins'
      /\ \A i \in 1..Len(log') : log'[i].txn \in Txns => pc[log'[i].txn] # "idle"
      /\ \A i \in 1..Len(log') : \/ i \in 1..Len(log) /\ log'[i] = log[i]
                                \/ \E k \in 1..a.n : k \in 1..Len(queue) /\ log'[i] = queue[k]
  <2>1. Len(log) \in Nat /\ version \in Nat /\ hole \in Nat \cup {None} /\ (hole # None => hole <= Len(log))
    BY LenProperties DEF Inv, TypeOK, Reads
  <2>2. CASE /\ a.n \in Judged(SubSeq(queue, 1, cut)) /\ Takes(SubSeq(queue, 1, cut), a.n)
             /\ \/ a.why = IF a.n = Len(SubSeq(queue, 1, cut)) THEN "ok" ELSE "conflict"
                \/ a.why \in {"busy", "io"}
    <3>1. a.n < cut => a.why # "ok"
      BY <2>2, GroupInFlight
    <3>2. /\ a.n \in 0..cut
          /\ log' \in Seq(Member) /\ Len(log') = Len(log) + a.n
          /\ version' = version + a.n /\ version' \in Nat
          /\ tail' \in [Homes -> Nat] /\ hole' = hole
          /\ DenseVersions' /\ FirstCommitterWins'
          /\ \A i \in 1..Len(log') : log'[i].txn \in Txns => pc[log'[i].txn] # "idle"
          /\ \A i \in 1..Len(log') : \/ i \in 1..Len(log) /\ log'[i] = log[i]
                                    \/ \E k \in 1..a.n : k \in 1..Len(queue) /\ log'[i] = queue[k]
      BY <1>1, <1>2, <2>2, GroupTaken
    <3>3. a.why \in Results
      BY <1>3
    <3>. QED
      BY <2>1, <3>1, <3>2, <3>3
  <2>3. CASE a.n = 0 /\ Fails(a.why)
    <3>1. UNCHANGED <<log, version, tail>> /\ a.why \in {"busy", "io"}
          /\ (hole' = Len(log) \/ hole' = hole)
      BY <2>3 DEF Fails
    <3>2. DenseVersions'
      BY <3>1 DEF Inv, Chain, DenseVersions
    <3>3. FirstCommitterWins'
      BY <1>1, <3>1 DEF Inv, Covered, FirstCommitterWins, Overlap
    <3>. QED
      BY <2>1, <2>3, <3>1, <3>2, <3>3 DEF Inv, TypeOK, Covered
  <2>. QED
    BY <1>3, <2>2, <2>3 DEF Applies, Accepted
<1>. HIDE DEF Inv
<1>6. TypeOK'
  <2>1. outcome' \in Outcome
    BY <1>2, <1>3 DEF Outcome
  <2>2. pc' \in [Tasks -> Steps]
    BY <1>1 DEF Inv, TypeOK, Steps
  <2>. QED
    BY <1>1, <1>5, <2>1, <2>2 DEF Inv, TypeOK
<1>7. Shape'
  BY <1>1, <1>2, <1>3, <1>4, <1>5 DEF Inv, Shape
<1>8. TurnHeld'
  BY <1>1, <1>4 DEF Inv, TurnHeld
<1>9. Chain'
  <2>1. \A i \in 1..Len(queue) : queue[i].version = version + i
    <3>1. \A i \in 1..Len(queue) : queue[i].version \in Nat /\ queue[i].version + outcome.n = version + i
      BY ElementOfSeq, MemberFields DEF Inv, TypeOK, Chain
    <3>. QED
      BY <1>2, <3>1
  <2>2. version \in Nat
    BY DEF Inv, TypeOK
  <2>. QED
    BY <1>1, <1>3, <1>5, <2>1, <2>2, SMTT(30) DEF Chain
<1>10. QueueOwned'
  BY <1>1, <1>4 DEF Inv, Owned, QueueOwned, Waiting, Tasks
<1>11. BatchHeld'
  BY <1>1, <1>4 DEF Inv, Owned, BatchHeld
<1>12. AnswersTrue'
  <2>1. version \in Nat /\ version <= version'
    BY <1>5 DEF Inv, TypeOK
  <2>2. \A u \in Tasks : batch[u] \in Member => batch[u].version \in Nat
    BY MemberFields
  <2>. QED
    BY <1>1, <1>4, <1>5, <2>1, <2>2 DEF Inv, Owned, AnswersTrue, Waiting
<1>13. Covered'
  <2>1. \A u \in Txns : pc'[u] \in {"derived", "applying"} => NoConflict(u)'
    <3>1. \A u \in Txns : pc'[u] \in {"derived", "applying"} => NoConflict(u)
      BY <1>4 DEF Inv, Covered, Tasks
    <3>2. \A i \in 1..Len(queue') : \E k \in 1..Len(queue) : queue'[i] = queue[k]
      BY <1>1
    <3>. QED
      BY <1>1, <1>5, <3>1, <3>2, StillNoConflict
  <2>2. ASSUME NEW j \in a.n + 1 .. Len(queue)
        PROVE  /\ \A i \in 1..Len(log') : Overlap(log'[i], queue[j].txn) =>
                                             log'[i].version <= snap[queue[j].txn]
               /\ \A i \in 1..(j - 1) : Overlap(queue[i], queue[j].txn) =>
                                          queue[i].version <= snap[queue[j].txn]
    <3>1. j \in outcome.n + 1 .. Len(queue) /\ \A k \in 1..a.n : k \in 1..(j - 1)
      BY <1>2, <1>5
    <3>. QED
      BY <1>5, <3>1 DEF Inv, Covered
  <2>3. \A i \in 1..Len(log') : log'[i].txn \in Txns => pc'[log'[i].txn] # "idle"
    BY <1>4, <1>5 DEF Tasks
  <2>. QED
    BY <1>1, <1>3, <1>5, <2>1, <2>2, <2>3 DEF Covered, Overlap
<1>14. Reads'
  <2>1. landed <= version /\ landed \in Nat /\ version \in Nat /\ version <= version'
    BY <1>5 DEF Inv, TypeOK, Reads, ReadableIsLanded
  <2>2. \A u \in Tasks : snap[u] \in Nat /\ (pc[u] \notin {"idle", "done"} => snap[u] <= version)
    BY DEF Inv, TypeOK, Reads, ReadableIsLanded
  <2>. QED
    BY <1>1, <1>4, <1>5, <2>1, <2>2 DEF Reads, ReadableIsLanded
<1>. QED
  BY <1>6, <1>7, <1>8, <1>9, <1>10, <1>11, <1>12, <1>13, <1>14 DEF Inv, Owned

\* No two queued batches are one task's.
LEMMA OneTicketEach ==
    ASSUME Inv, NEW i \in 1..Len(queue), NEW j \in 1..Len(queue), queue[i].txn = queue[j].txn
    PROVE  i = j
<1>1. queue[i] = queue[j]
  BY DEF Inv, Owned, QueueOwned
<1>2. queue[i].version + outcome.n = version + i /\ queue[j].version + outcome.n = version + j
  BY DEF Inv, Chain
<1>3. queue[i].version \in Nat /\ outcome.n \in Nat /\ version \in Nat
  BY ElementOfSeq, MemberFields DEF Inv, TypeOK, Outcome
<1>. QED
  BY <1>1, <1>2, <1>3

\* Recording a landing: what it leaves queued still continues the history.
LEMMA RecordInv ==
    ASSUME Inv, NEW t \in Tasks, Record(t)
    PROVE  Inv'
<1>1. /\ pc[t] = "flushed" /\ landed' = Published
      /\ answers' = [u \in Tasks |->
            IF u \in TicketsSettled \ gone
            THEN Answer(CHOOSE i \in 1..Settled : queue[i].txn = u) ELSE answers[u]]
      /\ gone' = gone \ TicketsSettled
      /\ queue' = SubSeq(queue, Settled + 1, Len(queue))
      /\ cut' = 0 /\ lander' = None /\ outcome' = NoOutcome
      /\ pc' = [u \in Tasks |-> IF u = t \/ pc[u] = "parked" THEN Awake(u) ELSE pc[u]]
      /\ UNCHANGED <<log, version, tail, hole, stopped, turn, snap, attempt, batch, result, told>>
  BY DEF Record, Roused, engine
<1>2. /\ cut \in Nat /\ cut > 0 /\ cut <= Len(queue) /\ outcome.n \in Nat /\ outcome.n <= cut
      /\ Len(queue) \in Nat /\ queue \in Seq(Member) /\ version \in Nat /\ queue # <<>>
      /\ (outcome.n < cut => outcome.why # "ok")
  BY <1>1, LenProperties, EmptySeq DEF Inv, Shape, TypeOK, Outcome
<1>3. Settled \in 0..Len(queue) /\ (outcome.n = cut => Settled = cut) /\ (outcome.n # cut => Settled = Len(queue))
  BY <1>2 DEF Settled
<1>4. /\ queue' \in Seq(Member) /\ Len(queue') = Len(queue) - Settled
      /\ \A i \in 1..Len(queue') : Settled + i \in 1..Len(queue) /\ queue'[i] = queue[Settled + i]
  BY <1>1, <1>2, <1>3
<1>5. \A u \in Tasks : pc'[u] = IF u = t \/ pc[u] = "parked" THEN Awake(u) ELSE pc[u]
  BY <1>1
<1>6. \A i \in 1..Len(queue) : queue[i].version \in Nat /\ queue[i].version + outcome.n = version + i
  BY <1>2, ElementOfSeq, MemberFields DEF Inv, Chain
<1>7. ASSUME NEW u \in TicketsSettled
      PROVE  \E i \in 1..Len(queue) :
               /\ i = (CHOOSE k \in 1..Settled : queue[k].txn = u)
               /\ i \in 1..Settled /\ queue[i].txn = u
  BY <1>2, <1>3 DEF TicketsSettled
<1>8. \A i \in 1..Len(queue') : queue'[i].txn \notin TicketsSettled
  <2>1. ASSUME NEW i \in 1..Len(queue'), queue'[i].txn \in TicketsSettled PROVE FALSE
    <3>1. PICK k \in 1..Settled : queue[k].txn = queue[Settled + i].txn
      BY <1>4, <2>1 DEF TicketsSettled
    <3>2. k = Settled + i
      BY <1>3, <1>4, <3>1, OneTicketEach
    <3>. QED
      BY <1>2, <1>3, <1>4, <3>1, <3>2
  <2>. QED
    BY <2>1
<1>9. \A i : Answer(i) \in Results
  BY DEF Inv, TypeOK, Outcome, Answer, Results, Failures
<1>10. landed' \in Nat /\ landed' <= version
  <2>1. outcome.n > 0 => outcome.n \in 1..Len(queue)
    BY <1>2
  <2>2. outcome.n > 0 => queue[outcome.n].version = version
    BY <1>2, <1>6, <2>1
  <2>. QED
    BY <1>1, <1>2, <2>2 DEF Inv, TypeOK, Reads, ReadableIsLanded, Published, Larger
<1>11. TypeOK'
  <2>1. answers' \in [Tasks -> Results \cup {None}]
    BY <1>1, <1>9 DEF Inv, TypeOK
  <2>2. gone' \subseteq Tasks
    BY <1>1 DEF Inv, TypeOK
  <2>3. pc' \in [Tasks -> Steps]
    BY <1>1 DEF Inv, TypeOK, Steps, Awake
  <2>4. outcome' \in Outcome
    BY <1>1 DEF NoOutcome, Outcome, Results
  <2>. QED
    BY <1>1, <1>4, <1>10, <2>1, <2>2, <2>3, <2>4 DEF Inv, TypeOK
<1>12. \A u \in Tasks \ {t} : pc[u] \notin {"flushing", "flushed"}
  BY <1>1 DEF Inv, Shape
<1>13. Shape'
  BY <1>1, <1>4, <1>5, <1>12, LenProperties DEF Shape, NoOutcome, Awake
<1>14. TurnHeld'
  <2>1. \A u \in Tasks : pc[u] \notin {"drained", "applying"} /\ Grouped
    BY <1>2, GateAssumption DEF Inv, TurnHeld
  <2>. QED
    BY <1>1, <1>5, <2>1, GateAssumption DEF Inv, TurnHeld, Awake, Tasks
<1>15. Chain'
  <2>1. ASSUME NEW i \in 1..Len(queue') PROVE queue'[i].version + outcome'.n = version + i
    <3>1. Settled = cut /\ outcome.n = cut
      BY <1>2, <1>3, <1>4
    <3>2. queue[cut + i].version \in Nat /\ queue[cut + i].version + cut = version + (cut + i)
      BY <1>4, <1>6, <3>1
    <3>3. i \in Nat /\ outcome'.n = 0 /\ queue'[i] = queue[cut + i]
      BY <1>1, <1>4, <3>1 DEF NoOutcome
    <3>4. queue[cut + i].version = version + i
      BY <1>2, <3>2, <3>3, SMTT(30)
    <3>. QED
      BY <1>2, <3>2, <3>3, <3>4
  <2>. QED
    BY <1>1, <2>1 DEF Inv, Chain, DenseVersions
<1>16. QueueOwned'
  <2>1. ASSUME NEW i \in 1..Len(queue') PROVE
           LET u == queue'[i].txn IN
           /\ u \in Txns /\ batch'[u] = queue'[i] /\ answers'[u] = None
           /\ pc'[u] \in Waiting \cup {"done"} /\ (pc'[u] = "done" => u \in gone')
    <3>. DEFINE u == queue[Settled + i].txn
    <3>1. /\ u \in Txns /\ batch[u] = queue[Settled + i] /\ answers[u] = None
          /\ pc[u] \in Waiting \cup {"done"} /\ (pc[u] = "done" => u \in gone)
      BY <1>4 DEF Inv, Owned, QueueOwned
    <3>2. queue'[i] = queue[Settled + i] /\ u \notin TicketsSettled
      BY <1>4, <1>8
    <3>3. answers'[u] = None /\ (u \in gone => u \in gone')
      BY <1>1, <3>1, <3>2 DEF Tasks
    <3>4. pc'[u] \in Waiting \cup {"done"} /\ (pc'[u] = "done" => pc[u] = "done")
      BY <1>5, <3>1 DEF Awake, Waiting, Tasks
    <3>. QED
      BY <1>1, <3>1, <3>2, <3>3, <3>4
  <2>. QED
    BY <2>1 DEF QueueOwned
<1>17. BatchHeld'
  BY <1>1, <1>5 DEF Inv, Owned, BatchHeld, Awake
<1>18. AnswersTrue'
  <2>1. ASSUME NEW u \in TicketsSettled \ gone
        PROVE  /\ u \in Txns /\ pc'[u] \in Waiting
               /\ answers'[u] = "ok" => batch[u] \in Member /\ batch[u].version <= version
    <3>1. PICK i \in 1..Len(queue) :
               /\ i = (CHOOSE k \in 1..Settled : queue[k].txn = u)
               /\ i \in 1..Settled /\ queue[i].txn = u
      BY <1>7
    <3>2. u \in Txns /\ u \in Tasks /\ batch[u] = queue[i] /\ pc[u] \in Waiting
      BY <3>1 DEF Inv, Owned, QueueOwned, Tasks
    <3>3. pc'[u] \in Waiting
      BY <1>5, <3>2 DEF Awake, Waiting
    <3>4. answers'[u] = Answer(i)
      BY <1>1, <3>1, <3>2
    <3>5. Answer(i) = "ok" => i <= outcome.n
      BY <1>2 DEF Answer
    <3>6. batch[u] \in Member
      BY <1>2, <3>1, <3>2, ElementOfSeq
    <3>7. i <= outcome.n => queue[i].version <= version
      BY <1>2, <1>6, <3>1, SMTT(30)
    <3>. QED
      BY <3>2, <3>3, <3>4, <3>5, <3>6, <3>7
  <2>2. ASSUME NEW u \in Tasks, u \notin TicketsSettled \ gone
        PROVE  answers'[u] = answers[u]
    BY <1>1, <2>2
  <2>3. \A u \in Tasks : /\ pc[u] \in Waiting /\ u \in Txns => pc'[u] \in Waiting
                         /\ pc'[u] = "collected" => pc[u] = "collected"
    BY <1>5 DEF Waiting, Awake
  <2>4. ASSUME NEW u \in Tasks
        PROVE  /\ answers'[u] # None => pc'[u] \in Waiting /\ u \in Txns
               /\ answers'[u] = "ok" => batch[u] \in Member /\ batch[u].version <= version
               /\ pc'[u] = "collected" /\ result[u] = "ok" =>
                    batch[u] \in Member /\ batch[u].version <= version
    <3>1. /\ answers[u] # None => pc[u] \in Waiting /\ u \in Txns
          /\ answers[u] = "ok" => batch[u] \in Member /\ batch[u].version <= version
          /\ pc[u] = "collected" /\ result[u] = "ok" =>
               batch[u] \in Member /\ batch[u].version <= version
      BY DEF Inv, Owned, AnswersTrue
    <3>2. CASE u \in TicketsSettled \ gone
      BY <2>1, <2>3, <3>1, <3>2
    <3>3. CASE u \notin TicketsSettled \ gone
      <4>1. answers'[u] = answers[u]
        BY <2>2, <3>3
      <4>2. pc[u] \in Waiting /\ u \in Txns => pc'[u] \in Waiting
        BY <2>3
      <4>3. pc'[u] = "collected" => pc[u] = "collected"
        BY <2>3
      <4>. QED
        BY <3>1, <4>1, <4>2, <4>3
    <3>. QED
      BY <3>2, <3>3
  <2>5. UNCHANGED <<batch, result, version>>
    BY <1>1
  <2>. QED
    BY <2>4, <2>5 DEF AnswersTrue
<1>19. Covered'
  <2>1. \A u \in Txns : pc'[u] \in {"derived", "applying"} => NoConflict(u)'
    <3>1. \A u \in Txns : pc'[u] \in {"derived", "applying"} => NoConflict(u)
      BY <1>5 DEF Inv, Covered, Tasks, Awake
    <3>2. \A i \in 1..Len(queue') : \E k \in 1..Len(queue) : queue'[i] = queue[k]
      BY <1>4
    <3>3. \A i \in 1..Len(log') : i \in 1..Len(log) /\ log'[i] = log[i]
      BY <1>1
    <3>. QED
      BY <1>1, <3>1, <3>2, <3>3, StillNoConflict
  <2>2. ASSUME NEW j \in 1 .. Len(queue')
        PROVE  /\ \A i \in 1..Len(log) : Overlap(log[i], queue'[j].txn) =>
                                             log[i].version <= snap[queue'[j].txn]
               /\ \A i \in 1..(j - 1) : Overlap(queue'[i], queue'[j].txn) =>
                                          queue'[i].version <= snap[queue'[j].txn]
    <3>1. Settled = cut /\ outcome.n = cut
      BY <1>2, <1>3, <1>4, <2>2
    <3>2. cut + j \in outcome.n + 1 .. Len(queue) /\ queue'[j] = queue[cut + j]
      BY <1>2, <1>4, <3>1
    <3>3. \A i \in 1..(j - 1) : queue'[i] = queue[cut + i] /\ cut + i \in 1..((cut + j) - 1)
      BY <1>2, <1>4, <3>1
    <3>. QED
      BY <3>2, <3>3 DEF Inv, Covered
  <2>3. \A i \in 1..Len(log) : log[i].txn \in Txns => pc'[log[i].txn] # "idle"
    BY <1>5 DEF Inv, Covered, Tasks, Awake
  <2>4. FirstCommitterWins'
    BY <1>1 DEF Inv, Covered, FirstCommitterWins, Overlap
  <2>5. outcome'.n + 1 = 1
    BY <1>1 DEF NoOutcome
  <2>. QED
    BY <1>1, <2>1, <2>2, <2>3, <2>4, <2>5 DEF Covered, Overlap
<1>20. Reads'
  BY <1>1, <1>5, <1>10 DEF Inv, Reads, ReadableIsLanded, Awake
<1>. QED
  BY <1>11, <1>13, <1>14, <1>15, <1>16, <1>17, <1>18, <1>19, <1>20 DEF Inv, Owned

-----------------------------------------------------------------------------
(* Engine writes under the turn, and the faults.                           *)

\* A write under the turn: nothing is queued and nobody else is past the turn,
\* so it is enough that the engine took the holder's batch or left its history.
LEMMA AppliedInv ==
    ASSUME Inv, NEW t \in Tasks, pc[t] = "applying", NEW x \in {"done", "collected"},
           pc' = [pc EXCEPT ![t] = x],
           UNCHANGED <<queue, cut, lander, outcome, answers, gone, landed, snap, attempt, batch>>,
           \/ \E n \in Judged(<<batch[t]>>) : Takes(<<batch[t]>>, n)
           \/ UNCHANGED <<log, version, tail>> /\ (hole' = hole \/ hole' = Len(log)),
           stopped' \in Stopping \cup {None}, turn' \in {turn, None},
           told' \in [Tasks -> Replies \cup {None}],
           result' \in [Tasks -> Results \cup {None}],
           \A u \in Tasks \ {t} : result'[u] = result[u],
           x = "collected" /\ result'[t] = "ok" => batch[t].version <= version'
    PROVE  Inv'
<1>1. /\ <<batch[t]>> \in Seq(Member) /\ Len(<<batch[t]>>) = 1 /\ batch[t].txn = t
      /\ Checked(<<batch[t]>>) /\ batch[t] \in Member
  BY BatchChecked DEF Inv, Owned, BatchHeld
<1>2. /\ turn = t /\ queue = <<>> /\ queue' = <<>>
      /\ \A u \in Tasks : pc'[u] \notin {"holding", "derived", "applying", "draining", "drained"}
      /\ \A u \in Appliers : pc'[u] \notin {"parked", "flushing", "flushed"}
  BY GateAssumption DEF Inv, TypeOK, TurnHeld, Tasks
<1>3. pc'[t] = x /\ (\A u \in Tasks \ {t} : pc'[u] = pc[u]) /\ pc' \in [Tasks -> Steps]
  BY DEF Inv, TypeOK, Steps
<1>4. Len(log) \in Nat /\ version \in Nat /\ hole \in Nat \cup {None} /\ (hole # None => hole <= Len(log))
  BY LenProperties DEF Inv, TypeOK, Reads
<1>5. /\ log' \in Seq(Member) /\ version' \in Nat /\ version <= version'
      /\ tail' \in [Homes -> Nat] /\ hole' \in Nat \cup {None}
      /\ (hole' # None => hole' <= Len(log'))
      /\ DenseVersions' /\ FirstCommitterWins'
      /\ \A i \in 1..Len(log') : log'[i].txn \in Txns => pc[log'[i].txn] # "idle"
  <2>1. CASE \E n \in Judged(<<batch[t]>>) : Takes(<<batch[t]>>, n)
    <3>1. PICK n \in Judged(<<batch[t]>>) : Takes(<<batch[t]>>, n)
      BY <2>1
    <3>. DEFINE g == <<batch[t]>>
    <3>2. g \in Seq(Member) /\ Len(g) = 1 /\ Checked(g) /\ n \in Judged(g) /\ Takes(g, n)
      BY <1>1, <3>1
    <3>. HIDE DEF g
    <3>3. /\ n \in 0..Len(g) /\ log' \in Seq(Member) /\ Len(log') = Len(log) + n
          /\ version' = version + n /\ version' \in Nat
          /\ tail' \in [Homes -> Nat] /\ hole' = hole
          /\ DenseVersions' /\ FirstCommitterWins'
          /\ \A i \in 1..Len(log') : log'[i].txn \in Txns => pc[log'[i].txn] # "idle"
      BY <3>2, EngineTakes
    <3>. QED
      BY <1>4, <3>2, <3>3
  <2>2. CASE UNCHANGED <<log, version, tail>> /\ (hole' = hole \/ hole' = Len(log))
    <3>1. DenseVersions'
      BY <2>2 DEF Inv, Chain, DenseVersions
    <3>2. FirstCommitterWins'
      BY <2>2 DEF Inv, Covered, FirstCommitterWins, Overlap
    <3>. QED
      BY <1>4, <2>2, <3>1, <3>2 DEF Inv, TypeOK, Covered
  <2>. QED
    BY <2>1, <2>2
<1>6. TypeOK'
  BY <1>3, <1>5 DEF Inv, TypeOK
<1>7. Shape'
  BY <1>3 DEF Inv, Shape
<1>8. TurnHeld'
  BY <1>2, <1>3 DEF Inv, TurnHeld
<1>9. Chain'
  BY <1>2, <1>5 DEF Chain
<1>10. QueueOwned' /\ BatchHeld'
  BY <1>2 DEF QueueOwned, BatchHeld
<1>11. AnswersTrue'
  <2>1. \A u \in Tasks : batch[u] \in Member => batch[u].version \in Nat
    BY MemberFields
  <2>2. answers[t] = None
    BY DEF Inv, Owned, AnswersTrue, Waiting
  <2>3. ASSUME NEW u \in Tasks \ {t}
        PROVE  /\ answers[u] # None => pc'[u] \in Waiting /\ u \in Txns
               /\ answers[u] = "ok" => batch[u] \in Member /\ batch[u].version <= version'
               /\ pc'[u] = "collected" /\ result'[u] = "ok" =>
                    batch[u] \in Member /\ batch[u].version <= version'
    BY <1>3, <1>4, <1>5, <2>1 DEF Inv, Owned, AnswersTrue
  <2>4. None # "ok"
    BY GateAssumption DEF Replies, Results
  <2>. QED
    BY <1>1, <1>3, <2>2, <2>3, <2>4 DEF AnswersTrue
<1>12. Covered'
  <2>1. \A i \in 1..Len(log') : log'[i].txn \in Txns => pc'[log'[i].txn] # "idle"
    BY <1>3, <1>5 DEF Tasks
  <2>2. outcome'.n \in Nat /\ Len(queue') = 0
    BY <1>2 DEF Inv, TypeOK, Outcome
  <2>. QED
    BY <1>2, <1>5, <2>1, <2>2 DEF Covered, Tasks
<1>13. Reads'
  <2>1. landed <= version /\ landed \in Nat
    BY DEF Inv, TypeOK, Reads, ReadableIsLanded
  <2>2. \A u \in Tasks : snap[u] \in Nat /\ (pc[u] \notin {"idle", "done"} => snap[u] <= version)
    BY DEF Inv, TypeOK, Reads, ReadableIsLanded
  <2>. QED
    BY <1>3, <1>4, <1>5, <2>1, <2>2 DEF Reads, ReadableIsLanded
<1>. QED
  BY <1>6, <1>7, <1>8, <1>9, <1>10, <1>11, <1>12, <1>13 DEF Inv, Owned

\* WriteGate::apply keeps the invariant, whatever the engine answers.
LEMMA ApplyInv ==
    ASSUME Inv, NEW t \in Tasks, Apply(t)
    PROVE  Inv'
<1>1. /\ pc[t] = "applying"
      /\ UNCHANGED <<queue, cut, lander, outcome, answers, gone, landed, snap, attempt, batch>>
  BY DEF Apply, pending
<1>2. CASE stopped # None
  <2>1. /\ turn' = None /\ pc' = [pc EXCEPT ![t] = "done"] /\ UNCHANGED <<log, version, tail, hole, stopped, result>>
        /\ told' \in [Tasks -> Replies \cup {None}]
    BY <1>2 DEF Apply, engine, Inv, TypeOK, Replies
  <2>. QED
    BY <1>1, <2>1, AppliedInv DEF Inv, TypeOK
<1>3. CASE stopped = None
  <2>1. /\ pc' = [pc EXCEPT ![t] = "collected"] /\ turn' \in {turn, None} /\ told' = told
    BY <1>3 DEF Apply
  <2>2. PICK a \in [n : 0..1, why : Results] :
           /\ Applies(<<batch[t]>>, a)
           /\ result' = [result EXCEPT ![t] = a.why]
           /\ stopped' = StopOn(a.why)
    BY <1>3 DEF Apply
  <2>3. /\ result' \in [Tasks -> Results \cup {None}] /\ result'[t] = a.why
        /\ \A u \in Tasks \ {t} : result'[u] = result[u]
    BY <2>2 DEF Inv, TypeOK
  <2>4. stopped' \in Stopping \cup {None}
    BY <2>2, StopOnType DEF Inv, TypeOK
  <2>5. CASE /\ a.n \in Judged(<<batch[t]>>)
             /\ \/ a.why = IF a.n = Len(<<batch[t]>>) THEN "ok" ELSE "conflict"
                \/ a.why \in {"busy", "io"}
             /\ Takes(<<batch[t]>>, a.n)
    <3>. DEFINE g == <<batch[t]>>
    <3>1. Len(g) = 1 /\ g[1] = batch[t] /\ a.n \in Judged(g) /\ Takes(g, a.n)
      BY <2>5
    <3>. HIDE DEF g
    <3>2. a.why = "ok" => a.n = 1
      BY <2>5
    <3>3. ASSUME a.n = 1 PROVE batch[t].version = version + 1 /\ version' = version + 1
      <4>1. Holds(g, 1)
        BY <3>1, <3>3 DEF Judged
      <4>. QED
        BY <3>1, <3>3, <4>1 DEF Holds, Takes
    <3>4. a.why = "ok" => batch[t].version <= version'
      BY <3>2, <3>3 DEF Inv, TypeOK
    <3>. QED
      BY <1>1, <2>1, <2>3, <2>4, <2>5, <3>4, AppliedInv DEF Inv, TypeOK
  <2>6. CASE a.n = 0 /\ Fails(a.why)
    <3>1. a.why \in {"busy", "io"} /\ UNCHANGED <<log, version, tail>> /\ (hole' = hole \/ hole' = Len(log))
      BY <2>6 DEF Fails
    <3>. QED
      BY <1>1, <2>1, <2>3, <2>4, <3>1, AppliedInv DEF Inv, TypeOK
  <2>. QED
    BY <2>2, <2>5, <2>6 DEF Applies, Accepted
<1>. QED
  BY <1>2, <1>3

\* So does a task dropped inside that write.
LEMMA CancelApplyInv ==
    ASSUME Inv, NEW t \in Tasks, CancelApply(t)
    PROVE  Inv'
<1>1. /\ pc[t] = "applying" /\ pc' = [pc EXCEPT ![t] = "done"]
      /\ UNCHANGED <<queue, cut, lander, outcome, answers, gone, landed, stopped, snap, attempt, batch, result>>
  BY DEF CancelApply, pending
<1>2. turn' \in {turn, None} /\ told' \in [Tasks -> Replies \cup {None}]
  BY DEF CancelApply, Dropped, Inv, TypeOK, Replies
<1>3. \/ \E n \in Judged(<<batch[t]>>) : Takes(<<batch[t]>>, n)
      \/ UNCHANGED <<log, version, tail, hole>>
  BY DEF CancelApply, AppliesUnheard, engine
<1>. QED
  BY <1>1, <1>2, <1>3, AppliedInv DEF Inv, TypeOK

\* A landing dropped part way leaves nothing queued, and what the engine took of
\* its group was checked.
LEMMA AbandonInv ==
    ASSUME Inv, NEW t \in Tasks, Abandon(t)
    PROVE  Inv'
<1>. DEFINE tickets == {queue[i].txn : i \in 1..Len(queue)}
<1>1. /\ pc[t] \in {"flushing", "flushed"}
      /\ \A u \in Tasks : \/ u = t /\ answers'[u] = None
                          \/ u # t /\ u \in tickets \ gone /\ answers'[u] \in {"unknown", "conflict"}
                          \/ u # t /\ u \notin tickets \ gone /\ answers'[u] = answers[u]
      /\ answers' \in [Tasks -> Results \cup {None}]
      /\ gone' \subseteq gone
      /\ queue' = <<>> /\ cut' = 0 /\ lander' = None /\ outcome' = NoOutcome
      /\ pc' = [u \in Tasks |-> IF u = t THEN "done"
                                ELSE IF pc[u] = "parked" THEN Awake(u) ELSE pc[u]]
      /\ turn' = (IF turn = t THEN None ELSE turn)
      /\ told' \in [Tasks -> Replies \cup {None}]
      /\ UNCHANGED <<landed, stopped, snap, attempt, batch, result>>
  <2>1. answers' \in [Tasks -> Results \cup {None}]
    BY DEF Abandon, Abandoned, Inv, TypeOK, Results, Failures
  <2>2. told' \in [Tasks -> Replies \cup {None}]
    BY DEF Abandon, Dropped, Inv, TypeOK, Replies
  <2>. QED
    BY <2>1, <2>2 DEF Abandon, Abandoned, Dropped
<1>2. pc'[t] = "done" /\ \A u \in Tasks \ {t} : pc'[u] = IF pc[u] = "parked" THEN Awake(u) ELSE pc[u]
  BY <1>1
<1>3. Len(log) \in Nat /\ version \in Nat
  BY LenProperties DEF Inv, TypeOK
<1>4. /\ log' \in Seq(Member) /\ version' \in Nat /\ version <= version' /\ Len(log) <= Len(log')
      /\ tail' \in [Homes -> Nat] /\ hole' = hole /\ DenseVersions' /\ FirstCommitterWins'
      /\ \A i \in 1..Len(log') : log'[i].txn \in Txns => pc[log'[i].txn] # "idle"
      /\ \A i \in 1..Len(log') : \/ i \in 1..Len(log) /\ log'[i] = log[i]
                                \/ \E k \in 1..Len(queue) : log'[i] = queue[k]
  <2>1. CASE UNCHANGED <<log, version, tail, hole>>
    <3>1. DenseVersions'
      BY <2>1 DEF Inv, Chain, DenseVersions
    <3>2. FirstCommitterWins'
      BY <1>1, <2>1 DEF Inv, Covered, FirstCommitterWins, Overlap
    <3>3. /\ log' \in Seq(Member) /\ version' \in Nat /\ version <= version' /\ Len(log) <= Len(log')
          /\ tail' \in [Homes -> Nat] /\ hole' = hole
      BY <1>3, <2>1 DEF Inv, TypeOK
    <3>4. \A i \in 1..Len(log') : log'[i].txn \in Txns => pc[log'[i].txn] # "idle"
      BY <2>1 DEF Inv, Covered
    <3>5. \A i \in 1..Len(log') : i \in 1..Len(log) /\ log'[i] = log[i]
      BY <2>1
    <3>. QED
      BY <3>1, <3>2, <3>3, <3>4, <3>5
  <2>2. CASE pc[t] = "flushing" /\ \E n \in Judged(SubSeq(queue, 1, cut)) : Takes(SubSeq(queue, 1, cut), n)
    <3>1. outcome.n = 0 /\ cut \in Nat
      BY <2>2 DEF Inv, Shape, TypeOK
    <3>2. PICK n \in Judged(SubSeq(queue, 1, cut)) : Takes(SubSeq(queue, 1, cut), n)
      BY <2>2
    <3>3. /\ n \in 0..cut
          /\ log' \in Seq(Member) /\ Len(log') = Len(log) + n
          /\ version' = version + n /\ version' \in Nat
          /\ tail' \in [Homes -> Nat] /\ hole' = hole
          /\ DenseVersions' /\ FirstCommitterWins'
          /\ \A i \in 1..Len(log') : log'[i].txn \in Txns => pc[log'[i].txn] # "idle"
          /\ \A i \in 1..Len(log') : \/ i \in 1..Len(log) /\ log'[i] = log[i]
                                    \/ \E k \in 1..n : k \in 1..Len(queue) /\ log'[i] = queue[k]
      BY <1>1, <3>1, <3>2, GroupTaken
    <3>4. version <= version' /\ Len(log) <= Len(log')
      BY <1>3, <3>1, <3>3
    <3>5. \A i \in 1..Len(log') : \/ i \in 1..Len(log) /\ log'[i] = log[i]
                                 \/ \E k \in 1..Len(queue) : log'[i] = queue[k]
      BY <3>3
    <3>. QED
      BY <3>3, <3>4, <3>5
  <2>. QED
    BY <2>1, <2>2 DEF Abandon, AppliesUnheard, engine
<1>5. TypeOK'
  <2>1. pc' \in [Tasks -> Steps]
    BY <1>1 DEF Inv, TypeOK, Steps, Awake
  <2>2. outcome' \in Outcome /\ queue' \in Seq(Member) /\ turn' \in Tasks \cup {None} /\ gone' \subseteq Tasks
    BY <1>1 DEF Inv, TypeOK, NoOutcome, Outcome, Results
  <2>. QED
    BY <1>1, <1>4, <2>1, <2>2 DEF Inv, TypeOK
<1>6. Shape'
  <2>1. \A u \in Tasks \ {t} : pc[u] \notin {"flushing", "flushed"}
    BY <1>1 DEF Inv, Shape
  <2>. QED
    BY <1>1, <1>2, <2>1 DEF Shape, NoOutcome, Awake
<1>7. TurnHeld'
  BY <1>1, <1>2, GateAssumption DEF Inv, TurnHeld, Tasks, Awake
<1>8. Chain'
  BY <1>1, <1>4 DEF Chain
<1>9. QueueOwned'
  BY <1>1 DEF QueueOwned
<1>10. BatchHeld'
  BY <1>1, <1>2 DEF Inv, Owned, BatchHeld, Awake
<1>11. AnswersTrue'
  <2>1. \A u \in Tasks : batch[u] \in Member => batch[u].version \in Nat
    BY MemberFields
  <2>2. \A u \in tickets \ gone : u \in Txns /\ pc[u] \in Waiting
    BY DEF Inv, Owned, QueueOwned
  <2>3. \A u \in Tasks \ {t} : /\ pc[u] \in Waiting /\ u \in Txns => pc'[u] \in Waiting
                               /\ pc'[u] = "collected" => pc[u] = "collected"
    BY <1>2 DEF Waiting, Awake
  <2>4. ASSUME NEW u \in Tasks \ {t}
        PROVE  /\ answers'[u] # None => pc'[u] \in Waiting /\ u \in Txns
               /\ answers'[u] = "ok" => batch[u] \in Member /\ batch[u].version <= version'
               /\ pc'[u] = "collected" /\ result[u] = "ok" =>
                    batch[u] \in Member /\ batch[u].version <= version'
    <3>1. /\ answers[u] # None => pc[u] \in Waiting /\ u \in Txns
          /\ answers[u] = "ok" => batch[u] \in Member /\ batch[u].version <= version
          /\ pc[u] = "collected" /\ result[u] = "ok" =>
               batch[u] \in Member /\ batch[u].version <= version
      BY DEF Inv, Owned, AnswersTrue
    <3>2. \/ u \in tickets \ gone /\ answers'[u] # "ok"
          \/ answers'[u] = answers[u]
      BY <1>1
    <3>. HIDE DEF tickets
    <3>3. answers'[u] # None => pc[u] \in Waiting /\ u \in Txns
      BY <2>2, <3>1, <3>2
    <3>4. answers'[u] = "ok" => answers[u] = "ok"
      BY <3>2
    <3>5. /\ pc[u] \in Waiting /\ u \in Txns => pc'[u] \in Waiting
          /\ pc'[u] = "collected" => pc[u] = "collected"
      BY <2>3
    <3>6. batch[u] \in Member /\ batch[u].version <= version => batch[u].version <= version'
      BY <1>3, <1>4, <2>1
    <3>. QED
      BY <3>1, <3>3, <3>4, <3>5, <3>6
  <2>5. None # "ok" /\ answers'[t] = None
    BY <1>1, GateAssumption DEF Replies, Results
  <2>6. UNCHANGED <<batch, result>>
    BY <1>1
  <2>. QED
    BY <1>2, <2>4, <2>5, <2>6 DEF AnswersTrue
<1>12. Covered'
  <2>1. \A u \in Txns : pc'[u] \in {"derived", "applying"} => NoConflict(u)'
    <3>1. \A u \in Txns : pc'[u] \in {"derived", "applying"} => NoConflict(u)
      BY <1>2 DEF Inv, Covered, Tasks, Awake
    <3>2. \A i \in 1..Len(queue') : \E k \in 1..Len(queue) : queue'[i] = queue[k]
      BY <1>1
    <3>. QED
      BY <1>1, <1>4, <3>1, <3>2, StillNoConflict
  <2>2. \A i \in 1..Len(log') : log'[i].txn \in Txns => pc'[log'[i].txn] # "idle"
    BY <1>2, <1>4 DEF Tasks, Awake
  <2>3. outcome'.n = 0 /\ Len(queue') = 0
    BY <1>1 DEF NoOutcome
  <2>. QED
    BY <1>4, <2>1, <2>2, <2>3 DEF Covered
<1>13. Reads'
  <2>1. landed <= version /\ landed \in Nat /\ hole \in Nat \cup {None} /\ (hole # None => hole <= Len(log))
    BY DEF Inv, TypeOK, Reads, ReadableIsLanded
  <2>2. \A u \in Tasks : snap[u] \in Nat /\ (pc[u] \notin {"idle", "done"} => snap[u] <= version)
    BY DEF Inv, TypeOK, Reads, ReadableIsLanded
  <2>3. \A u \in Tasks : pc'[u] \notin {"idle", "done"} => pc[u] \notin {"idle", "done"}
    BY <1>2
  <2>4. Len(log') \in Nat
    BY <1>4, LenProperties
  <2>. QED
    BY <1>1, <1>3, <1>4, <2>1, <2>2, <2>3, <2>4 DEF Reads, ReadableIsLanded
<1>. QED
  BY <1>5, <1>6, <1>7, <1>8, <1>9, <1>10, <1>11, <1>12, <1>13 DEF Inv, Owned

\* What a reopened store recovers is a prefix of its history.
LEMMA ReopenInv ==
    ASSUME Inv, Reopen
    PROVE  Inv'
<1>. DEFINE n == IF hole = None THEN Len(log) ELSE hole
<1>1. Len(log) \in Nat /\ n \in Nat /\ n <= Len(log) /\ log \in Seq(Member)
  BY LenProperties DEF Inv, TypeOK, Reads
<1>2. /\ log' = SubSeq(log, 1, n) /\ version' = n /\ landed' = n /\ hole' = None
      /\ tail' = [h \in Homes |-> Cardinality({i \in 1..n : log[i].home = h})]
      /\ queue' = <<>> /\ cut' = 0 /\ lander' = None /\ outcome' = NoOutcome
      /\ answers' = [t \in Tasks |-> None] /\ gone' = {}
      /\ stopped' = None /\ turn' = None
      /\ pc' = [t \in Tasks |-> IF pc[t] = "idle" THEN "idle" ELSE "done"]
      /\ told' = [t \in Tasks |-> IF pc[t] \in {"idle", "done"} THEN told[t] ELSE "gone"]
      /\ UNCHANGED <<snap, attempt, batch, result>>
  BY DEF Reopen
<1>. HIDE DEF n
<1>3. log' \in Seq(Member) /\ Len(log') = n /\ \A i \in 1..n : i \in 1..Len(log) /\ log'[i] = log[i]
  BY <1>1, <1>2
<1>4. \A t \in Tasks : pc'[t] = IF pc[t] = "idle" THEN "idle" ELSE "done"
  BY <1>2
<1>5. TypeOK'
  <2>1. tail' \in [Homes -> Nat]
    <3>1. \A h \in Homes : Cardinality({i \in 1..n : log[i].home = h}) \in Nat
      BY <1>1, CountType
    <3>. QED
      BY <1>2, <3>1
  <2>2. pc' \in [Tasks -> Steps]
    BY <1>2 DEF Steps
  <2>3. told' \in [Tasks -> Replies \cup {None}]
    BY <1>2 DEF Inv, TypeOK, Replies
  <2>4. outcome' \in Outcome /\ queue' \in Seq(Member) /\ answers' \in [Tasks -> Results \cup {None}]
    BY <1>2 DEF NoOutcome, Outcome, Results
  <2>. QED
    BY <1>1, <1>2, <1>3, <2>1, <2>2, <2>3, <2>4 DEF Inv, TypeOK
<1>6. Shape'
  BY <1>2, <1>4 DEF Shape, NoOutcome
<1>7. TurnHeld'
  BY <1>2, <1>4, GateAssumption DEF Inv, TurnHeld, Tasks
<1>8. Chain'
  BY <1>1, <1>2, <1>3 DEF Inv, Chain, DenseVersions
<1>9. Owned'
  BY <1>2, <1>4, GateAssumption DEF Owned, QueueOwned, BatchHeld, AnswersTrue, Replies, Results
<1>10. Covered'
  <2>1. \A i \in 1..Len(log') : log'[i].txn \in Txns => pc'[log'[i].txn] # "idle"
    BY <1>3, <1>4 DEF Inv, Covered, Tasks
  <2>2. FirstCommitterWins'
    <3>1. ASSUME NEW i \in 1..n, NEW j \in 1..n, i < j, log'[j].txn \in Txns,
                 Overlap(log'[i], log'[j].txn)
          PROVE  i <= snap[log'[j].txn]
      BY <1>3, <3>1 DEF Inv, Covered, FirstCommitterWins
    <3>. QED
      BY <1>2, <1>3, <3>1 DEF FirstCommitterWins, Overlap
  <2>3. outcome'.n = 0 /\ Len(queue') = 0
    BY <1>2 DEF NoOutcome
  <2>4. \A u \in Txns : pc'[u] \notin {"derived", "applying"}
    BY <1>4 DEF Tasks
  <2>. QED
    BY <2>1, <2>2, <2>3, <2>4 DEF Covered
<1>11. Reads'
  BY <1>1, <1>2, <1>4 DEF Reads, ReadableIsLanded
<1>. QED
  BY <1>5, <1>6, <1>7, <1>8, <1>9, <1>10, <1>11 DEF Inv

-----------------------------------------------------------------------------
(* The theorems                                                            *)

\* The invariant holds when a store is opened empty.
LEMMA InitInv == Init => Inv
<1>. SUFFICES ASSUME Init PROVE Inv
  OBVIOUS
<1>1. TypeOK
  BY DEF Init, TypeOK, NoOutcome, Outcome, Results, Steps
<1>2. Shape /\ TurnHeld /\ Chain
  BY GateAssumption DEF Init, Shape, TurnHeld, Chain, DenseVersions, NoOutcome, Tasks
<1>3. Owned
  BY GateAssumption DEF Init, Owned, QueueOwned, BatchHeld, AnswersTrue, Replies, Results
<1>4. Covered
  BY DEF Init, Covered, FirstCommitterWins, NoOutcome, Tasks
<1>5. Reads
  BY DEF Init, Reads, ReadableIsLanded
<1>. QED
  BY <1>1, <1>2, <1>3, <1>4, <1>5 DEF Inv

\* Every step of every task, and every fault, keeps it.
LEMMA NextInv == Inv /\ [Next]_vars => Inv'
<1>. SUFFICES ASSUME Inv, [Next]_vars PROVE Inv'
  OBVIOUS
<1>1. ASSUME NEW t \in Tasks, Step(t) PROVE Inv'
  BY <1>1, BeginInv, GiveUpInv, HoldInv, DeriveInv, ConflictedInv, StageInv, EnterLandInv,
     CollectInv, TakeGroupInv, ParkInv, FlushInv, RecordInv, SettleInv, DrainedInv, PlaceInv,
     ApplyInv DEF Step
<1>2. ASSUME NEW t \in Tasks, Cancel(t) \/ CancelApply(t) \/ Abandon(t) PROVE Inv'
  BY <1>2, CancelInv, CancelApplyInv, AbandonInv
<1>3. CASE Reopen
  BY <1>3, ReopenInv
<1>4. CASE UNCHANGED vars
  BY <1>4 DEF vars, Inv, TypeOK, Shape, TurnHeld, Chain, DenseVersions, Owned, QueueOwned,
     BatchHeld, AnswersTrue, Covered, NoConflict, Overlap, FirstCommitterWins, Reads, ReadableIsLanded
<1>. QED
  BY <1>1, <1>2, <1>3, <1>4 DEF Next, Finished

\* The inductive invariant holds of every behaviour of the commit path.
THEOREM Invariance == Spec => []Inv
BY InitInv, NextInv, PTL DEF Spec

\* Every variable of the gate, the pending queue and the engine keeps its type.
THEOREM TypeCorrect == Spec => []TypeOK
<1>1. Inv => TypeOK
  BY DEF Inv
<1>. QED
  BY <1>1, Invariance, PTL

\* A store's history has no gap and no fork, with any number of writers, any
\* group size, and engine writes refused, failed, cancelled and recovered.
THEOREM HistoryIsDense == Spec => []DenseVersions
<1>1. Inv => DenseVersions
  BY DEF Inv, Chain
<1>. QED
  BY <1>1, Invariance, PTL

\* First committer wins, although the check is made over writes still pending
\* and the batch it licenses lands later, outside the turn.
THEOREM NoLostUpdate == Spec => []FirstCommitterWins
<1>1. Inv => FirstCommitterWins
  BY DEF Inv, Covered
<1>. QED
  BY <1>1, Invariance, PTL

\* No transaction begins at, or is open at, a version the engine does not hold.
THEOREM BeginsAtLanded == Spec => []ReadableIsLanded
<1>1. Inv => ReadableIsLanded
  BY DEF Inv, Reads
<1>. QED
  BY <1>1, Invariance, PTL
=============================================================================
