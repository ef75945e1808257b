------------------------------ MODULE WriteGate ------------------------------
(***************************************************************************)
(* The commit path of one store (tessari-storage: gate.rs, gate/pending.rs,*)
(* landed.rs, transaction/commit/settle.rs, store/apply.rs).               *)
(*                                                                         *)
(* A writer takes the turn, reads the log tail and checks for conflicts    *)
(* over the engine overlaid with what is pending, reads the version, and   *)
(* stages its batch; it then waits outside the turn, and whichever waiter  *)
(* finds no landing running lands the front of the queue in one engine     *)
(* write.  A replica's apply takes the same turn, lands everything pending *)
(* and applies its own batch.  The engine may refuse a write ("busy"),     *)
(* fail it ("io"), and a task may be dropped at any await ("cancel").      *)
(*                                                                         *)
(* `queue' is Pending's in-flight group followed by its staged commits:    *)
(* the first `cut' members are in flight.  One record stands for a batch:  *)
(* who wrote it, the log it is filed in, and the position and the version  *)
(* its preconditions assert to be the next ones.                           *)
(***************************************************************************)
EXTENDS Integers, Sequences, FiniteSets

CONSTANTS
    Txns,         \* local transactions, each run by one task
    Appliers,     \* replica applies, each run by one task
    Keys, Homes,  \* records, and the logs they are filed in
    Writes,       \* [Tasks -> SUBSET Keys]: the records each one writes
    Home,         \* [Tasks -> Homes]: the log each one files in
    At,           \* [Appliers -> Nat]: the position an apply carries
    MaxGroup,     \* MAX_GROUP_COMMITS
    MaxAttempts,  \* MAX_COMMIT_ATTEMPTS
    Grouped,      \* whether the backend shares a sync (groups_writes)
    Faults,       \* which of "busy", "io", "cancel", "reopen" happen
    None

Tasks == Txns \cup Appliers

\* The failures a batch can be answered with, and what an open task is told.
Failures == {"conflict", "busy", "io", "unknown"}
Results == {"ok"} \cup Failures
\* The answers that promise the caller nothing was or will be written.
Refusals == {"conflict", "contention", "busy", "gap"}
Replies == Results \cup {"contention", "stopped", "gap", "gone", "noop"}

ASSUME GateAssumption ==
    /\ Txns \cap Appliers = {}
    /\ None \notin Tasks \cup Replies \cup Nat
    /\ Writes \in [Tasks -> SUBSET Keys]
    /\ Home \in [Tasks -> Homes]
    /\ At \in [Appliers -> Nat]
    /\ MaxGroup \in Nat \ {0}
    /\ MaxAttempts \in Nat \ {0}
    /\ Grouped \in BOOLEAN

VARIABLES
    log, version, tail,    \* the engine: batches landed, its version, each log's position
    hole,                  \* how much of `log' a reopen recovers once a sync has failed
    queue, cut, lander,    \* Pending: members, how many are in flight, who is landing them
    outcome,               \* what the engine answered the group in flight, before it is recorded
    answers, gone,         \* Pending: answers kept, tickets dropped before theirs came
    landed, stopped, turn, \* the landed register, why the store stopped, the turn's holder
    pc, snap, attempt, batch, result, told  \* each task: where it is and what it was told

engine == <<log, version, tail, hole>>
pending == <<queue, cut, lander, outcome, answers, gone>>
gate == <<landed, stopped, turn>>
task == <<pc, snap, attempt, batch, result, told>>
vars == <<log, version, tail, hole, queue, cut, lander, outcome, answers, gone,
          landed, stopped, turn, pc, snap, attempt, batch, result, told>>

\* The failure categories that stop the store (unavailable, corruption, internal).
Stopping == {"io", "unknown"}

Steps == {"idle", "queued", "holding", "derived", "applying", "staged", "look",
          "woken", "parked", "flushing", "flushed", "collected", "draining", "drained", "done"}

Member == [txn : Tasks, home : Homes, pos : Nat, version : Nat, on : Seq(Tasks)]
Outcome == [n : Nat, why : Results]
NoOutcome == [n |-> 0, why |-> "ok"]

Larger(a, b) == IF a < b THEN b ELSE a
Smaller(a, b) == IF a < b THEN a ELSE b
Last(s) == s[Len(s)]
WritersOf(s) == [i \in 1..Len(s) |-> s[i].txn]

Init ==
    /\ log = <<>> /\ version = 0 /\ tail = [h \in Homes |-> 0] /\ hole = None
    /\ queue = <<>> /\ cut = 0 /\ lander = None /\ outcome = NoOutcome
    /\ answers = [t \in Tasks |-> None] /\ gone = {}
    /\ landed = 0 /\ stopped = None /\ turn = None
    /\ pc = [t \in Tasks |-> IF t \in Txns THEN "idle" ELSE "queued"]
    /\ snap = [t \in Tasks |-> 0]
    /\ attempt = [t \in Tasks |-> 0]
    /\ batch = [t \in Tasks |-> None]
    /\ result = [t \in Tasks |-> None]
    /\ told = [t \in Tasks |-> None]

-----------------------------------------------------------------------------
(* What the turn's holder reads: the engine overlaid with the pending      *)
(* writes, key by key.                                                     *)

VersionSeen == IF queue = <<>> THEN version ELSE Last(queue).version

PendingIn(h) == {i \in 1..Len(queue) : queue[i].home = h}

\* The one position the holder reads as the tail of log `h': the newest pending
\* member's, or the engine's.
TailSeen(h) ==
    IF PendingIn(h) = {} THEN {tail[h]}
    ELSE {queue[i].pos : i \in {j \in PendingIn(h) : \A k \in PendingIn(h) : k <= j}}

Overlap(m, t) == Writes[m.txn] \cap Writes[t] # {}

\* Mutant: the check reads the engine and not what is pending.
NoConflictLanded(t) ==
    \A i \in 1..Len(log) : Overlap(log[i], t) => log[i].version <= snap[t]

\* No record `t' writes is found stored above its snapshot (check_for_conflicts).
NoConflict(t) ==
    /\ \A i \in 1..Len(log) : Overlap(log[i], t) => log[i].version <= snap[t]
    /\ \A i \in 1..Len(queue) : Overlap(queue[i], t) => queue[i].version <= snap[t]

\* Everything the holder's reads are made against, in version order.  A group
\* the engine has taken and nobody has recorded is in both places, once.
OnSeen == WritersOf(log) \o WritersOf(SubSeq(queue, outcome.n + 1, Len(queue)))

-----------------------------------------------------------------------------
(* The engine (a backend's apply and apply_group): batches are judged in   *)
(* order, each on the ones before it, up to the first whose preconditions  *)
(* fail.                                                                   *)

\* Mutant: the batch asserts the version and not its log's tail.
HoldsVersionOnly(g, i) == g[i].version = version + i

Holds(g, i) ==
    /\ g[i].version = version + i
    /\ g[i].pos = tail[g[i].home] + Cardinality({j \in 1..i : g[j].home = g[i].home})

\* The lengths of the group that pass the engine's judgement, and the one it takes.
Judged(g) == {n \in 0..Len(g) : \A i \in 1..n : Holds(g, i)}
Accepted(g) == {n \in Judged(g) : n < Len(g) => ~Holds(g, n + 1)}

\* Mutant: the version moves by the group, not by what landed of it.
TakesWhole(g, n) ==
    /\ log' = log \o SubSeq(g, 1, n)
    /\ version' = version + Len(g)
    /\ tail' = [h \in Homes |-> tail[h] + Cardinality({j \in 1..n : g[j].home = h})]
    /\ hole' = hole

Takes(g, n) ==
    /\ log' = log \o SubSeq(g, 1, n)
    /\ version' = version + n
    /\ tail' = [h \in Homes |-> tail[h] + Cardinality({j \in 1..n : g[j].home = h})]
    /\ hole' = hole

\* A failed sync leaves a hole where the log then ended; a refusal leaves nothing.
Fails(failure) ==
    /\ failure \in Faults \cap {"busy", "io"}
    /\ hole' = IF failure = "io" /\ hole = None THEN Len(log) ELSE hole
    /\ UNCHANGED <<log, version, tail>>

\* What the engine does with the batches `g': how many it took, and its answer.
Applies(g, answer) ==
    \/ /\ answer.n \in Accepted(g)
       /\ answer.why = IF answer.n = Len(g) THEN "ok" ELSE "conflict"
       /\ Takes(g, answer.n)
    \/ /\ answer.n = 0
       /\ Fails(answer.why)
    \/ /\ answer.n \in Judged(g) \ {Len(g)}   \* judging the next one failed
       /\ answer.why \in Faults \cap {"busy", "io"}
       /\ Takes(g, answer.n)

\* An engine write nobody hears of: the engine took what it judged or nothing.
AppliesUnheard(g) == UNCHANGED engine \/ \E n \in Judged(g) : Takes(g, n)

-----------------------------------------------------------------------------
(* A transaction                                                           *)

\* Store::begin: a task that holds no turn begins at the landed register.
Begin(t) ==
    /\ pc[t] = "idle"
    /\ snap' = [snap EXCEPT ![t] = landed]
    /\ pc' = [pc EXCEPT ![t] = "queued"]
    /\ UNCHANGED <<engine, pending, gate, attempt, batch, result, told>>

\* A commit that has spent its attempts is refused.
GiveUp(t) ==
    /\ t \in Txns /\ pc[t] = "queued" /\ attempt[t] = MaxAttempts
    /\ pc' = [pc EXCEPT ![t] = "done"]
    /\ told' = [told EXCEPT ![t] = "contention"]
    /\ UNCHANGED <<engine, pending, gate, snap, attempt, batch, result>>

\* The next attempt takes the turn.
Hold(t) ==
    /\ pc[t] = "queued" /\ attempt[t] < MaxAttempts
    /\ turn = None
    /\ turn' = t
    /\ attempt' = [attempt EXCEPT ![t] = @ + 1]
    /\ pc' = [pc EXCEPT ![t] = IF t \in Txns THEN "holding" ELSE "draining"]
    /\ UNCHANGED <<engine, pending, landed, stopped, snap, batch, result, told>>

\* The tail is read and the conflict check made, under the turn.
Derive(t) ==
    /\ pc[t] = "holding"
    /\ NoConflict(t)
    /\ \E p \in TailSeen(Home[t]) :
          batch' = [batch EXCEPT ![t] =
            [txn |-> t, home |-> Home[t], pos |-> p + 1, version |-> 0, on |-> OnSeen]]
    /\ pc' = [pc EXCEPT ![t] = "derived"]
    /\ UNCHANGED <<engine, pending, gate, snap, attempt, result, told>>

Conflicted(t) ==
    /\ pc[t] = "holding"
    /\ ~NoConflict(t)
    /\ turn' = None
    /\ pc' = [pc EXCEPT ![t] = "done"]
    /\ told' = [told EXCEPT ![t] = "conflict"]
    /\ UNCHANGED <<engine, pending, landed, stopped, snap, attempt, batch, result>>

Versioned(t) == [batch[t] EXCEPT !.version = VersionSeen + 1]

\* Mutant: the turn is handed on before a batch that is not grouped is applied.
StageReleasing(t) ==
    /\ pc[t] = "derived"
    /\ batch' = [batch EXCEPT ![t] = Versioned(t)]
    /\ turn' = None
    /\ pc' = [pc EXCEPT ![t] = "applying"]
    /\ UNCHANGED <<engine, pending, landed, stopped, snap, attempt, result, told>>

\* The version is read last, and the batch staged and the turn handed on;
\* a backend that shares no sync keeps the turn to apply it.
Stage(t) ==
    /\ pc[t] = "derived"
    /\ batch' = [batch EXCEPT ![t] = Versioned(t)]
    /\ IF Grouped
       THEN /\ queue' = Append(queue, Versioned(t))
            /\ turn' = None
            /\ pc' = [pc EXCEPT ![t] = "staged"]
       ELSE /\ pc' = [pc EXCEPT ![t] = "applying"]
            /\ UNCHANGED <<queue, turn>>
    /\ UNCHANGED <<engine, cut, lander, outcome, answers, gone, landed, stopped,
                   snap, attempt, result, told>>

\* Mutant: a drop always leaves a mark, answered or not.
DropTicketAlways(t) ==
    /\ answers' = [answers EXCEPT ![t] = None]
    /\ gone' = gone \cup {t}

\* Ticket's drop: take the answer away, or tell the landing not to keep one.
DropTicket(t) ==
    /\ answers' = [answers EXCEPT ![t] = None]
    /\ gone' = IF answers[t] = None THEN gone \cup {t} ELSE gone

\* WriteGate::land's first line.  The batch of a refused ticket stays staged.
EnterLand(t) ==
    /\ pc[t] = "staged"
    /\ IF stopped # None
       THEN /\ DropTicket(t)
            /\ pc' = [pc EXCEPT ![t] = "done"]
            /\ told' = [told EXCEPT ![t] = "stopped"]
       ELSE /\ pc' = [pc EXCEPT ![t] = "look"]
            /\ UNCHANGED <<answers, gone, told>>
    /\ UNCHANGED <<engine, queue, cut, lander, outcome, gate, snap, attempt, batch, result>>

\* A waiter that finds its answer takes it.
Collect(t) ==
    /\ pc[t] \in {"look", "woken"} /\ answers[t] # None
    /\ result' = [result EXCEPT ![t] = answers[t]]
    /\ answers' = [answers EXCEPT ![t] = None]
    /\ pc' = [pc EXCEPT ![t] = "collected"]
    /\ UNCHANGED <<engine, queue, cut, lander, outcome, gone, gate, snap, attempt, batch, told>>

\* A waiter with no answer, or an apply that drains the queue before it allocates.
Waits(t) == \/ pc[t] \in {"look", "woken"} /\ answers[t] = None
            \/ pc[t] = "draining"

\* State::take_group: nobody is landing, so the front of the staged queue goes in flight.
TakeGroup(t) ==
    /\ Waits(t) /\ cut = 0 /\ queue # <<>>
    /\ cut' = Smaller(MaxGroup, Len(queue))
    /\ lander' = t
    /\ pc' = [pc EXCEPT ![t] = "flushing"]
    /\ UNCHANGED <<engine, queue, outcome, answers, gone, gate, snap, attempt, batch, result, told>>

\* Somebody is landing (or, for a waiter, nothing is left to land): wait to be woken.
Park(t) ==
    /\ Waits(t) /\ (cut > 0 \/ (queue = <<>> /\ t \in Txns))
    /\ pc' = [pc EXCEPT ![t] = "parked"]
    /\ UNCHANGED <<engine, pending, gate, snap, attempt, batch, result, told>>

\* Pending::flush: the engine takes the group.
Flush(t) ==
    /\ pc[t] = "flushing"
    /\ \E answer \in [n : 0..cut, why : Results] :
          Applies(SubSeq(queue, 1, cut), answer) /\ outcome' = answer
    /\ pc' = [pc EXCEPT ![t] = "flushed"]
    /\ UNCHANGED <<queue, cut, lander, answers, gone, gate, snap, attempt, batch, result, told>>

Awake(t) == IF t \in Txns THEN "woken" ELSE "draining"

\* Mutant: the landing's task goes on and wakes nobody.
RousedAlone(t) == [pc EXCEPT ![t] = Awake(t)]

\* notify_waiters: the landing's own task goes on, and so does every parked one.
Roused(t) == [u \in Tasks |-> IF u = t \/ pc[u] = "parked" THEN Awake(u) ELSE pc[u]]

\* Mutant: the member the engine stopped at is taken for landed.
AnswerOneMore(i) ==
    IF i <= outcome.n + 1 THEN "ok" ELSE "conflict"

\* Pending::record and Landing's settle and drop: the landed versions are
\* published, every member is answered, what was staged on a group that did
\* not land whole is refused, and every waiter is woken.
Answer(i) ==
    IF i <= outcome.n THEN "ok"
    ELSE IF i = outcome.n + 1 /\ i <= cut THEN outcome.why
    ELSE "conflict"

\* How many members a landing settles: its group, or, when it did not land
\* whole, the staged ones too.
Settled == IF outcome.n = cut THEN cut ELSE Len(queue)
TicketsSettled == {queue[i].txn : i \in 1..Settled}

\* Mutant: the newest version of the group is published, landed or not.
PublishedGroup == Larger(landed, queue[cut].version)

\* Landed::publish of the newest version the engine took.
Published == IF outcome.n = 0 THEN landed ELSE Larger(landed, queue[outcome.n].version)

Record(t) ==
    /\ pc[t] = "flushed"
    /\ landed' = Published
    /\ answers' = [u \in Tasks |->
          IF u \in TicketsSettled \ gone
          THEN Answer(CHOOSE i \in 1..Settled : queue[i].txn = u) ELSE answers[u]]
    /\ gone' = gone \ TicketsSettled
    /\ queue' = SubSeq(queue, Settled + 1, Len(queue))
    /\ cut' = 0 /\ lander' = None /\ outcome' = NoOutcome
    /\ pc' = Roused(t)
    /\ UNCHANGED <<engine, stopped, turn, snap, attempt, batch, result, told>>

\* Mutants: any answer stops the store; no answer does.
StopOnAny(answer) == IF stopped = None THEN answer ELSE stopped
StopOnNone(answer) == stopped

\* WriteGate::stop_on: the first failure that may have lost bytes is kept.
StopOn(answer) == IF stopped = None /\ answer \in Stopping THEN answer ELSE stopped

\* What a collected answer does: stop the store, publish, retry or answer.
Settle(t) ==
    /\ pc[t] = "collected"
    /\ stopped' = StopOn(result[t])
    /\ landed' = IF result[t] = "ok" THEN Larger(landed, batch[t].version) ELSE landed
    /\ IF t \in Txns /\ result[t] = "conflict"
       THEN /\ pc' = [pc EXCEPT ![t] = "queued"]
            /\ told' = told
       ELSE /\ pc' = [pc EXCEPT ![t] = "done"]
            /\ told' = [told EXCEPT ![t] = result[t]]
    /\ turn' = IF turn = t THEN None ELSE turn
    /\ result' = [result EXCEPT ![t] = None]
    /\ UNCHANGED <<engine, pending, snap, attempt, batch>>

-----------------------------------------------------------------------------
(* An apply under the turn: a replica's, or a commit's on a backend that   *)
(* shares no sync.                                                         *)

\* land_all returns: nothing is staged and nothing is in flight.
Drained(t) ==
    /\ pc[t] = "draining" /\ cut = 0 /\ queue = <<>>
    /\ pc' = [pc EXCEPT ![t] = "drained"]
    /\ UNCHANGED <<engine, pending, gate, snap, attempt, batch, result, told>>

\* apply_at: held already, a gap, or the next record of its log.
Place(t) ==
    /\ pc[t] = "drained"
    /\ IF At[t] = tail[Home[t]] + 1
       THEN /\ batch' = [batch EXCEPT ![t] = [txn |-> t, home |-> Home[t], pos |-> At[t],
                           version |-> VersionSeen + 1, on |-> OnSeen]]
            /\ pc' = [pc EXCEPT ![t] = "applying"]
            /\ UNCHANGED <<turn, told>>
       ELSE /\ turn' = None
            /\ pc' = [pc EXCEPT ![t] = "done"]
            /\ told' = [told EXCEPT ![t] = IF At[t] <= tail[Home[t]] THEN "noop" ELSE "gap"]
            /\ batch' = batch
    /\ UNCHANGED <<engine, pending, landed, stopped, snap, attempt, result>>

\* Mutant: the stop is looked at after the write.
ApplyCheckedLate(t) ==
    /\ pc[t] = "applying"
    /\ \E answer \in [n : 0..1, why : Results] :
          /\ Applies(<<batch[t]>>, answer)
          /\ stopped' = StopOn(answer.why)
          /\ told' = [told EXCEPT ![t] = IF stopped # None THEN "stopped" ELSE answer.why]
    /\ turn' = None
    /\ pc' = [pc EXCEPT ![t] = "done"]
    /\ UNCHANGED <<pending, landed, snap, attempt, batch, result>>

\* WriteGate::apply: refused once stopped, else the engine answers and the store
\* may stop.  A commit hands the turn on before it publishes, an apply after.
Apply(t) ==
    /\ pc[t] = "applying"
    /\ IF stopped # None
       THEN /\ turn' = None
            /\ pc' = [pc EXCEPT ![t] = "done"]
            /\ told' = [told EXCEPT ![t] = "stopped"]
            /\ UNCHANGED <<engine, stopped, result>>
       ELSE /\ \E answer \in [n : 0..1, why : Results] :
                 /\ Applies(<<batch[t]>>, answer)
                 /\ result' = [result EXCEPT ![t] = answer.why]
                 /\ stopped' = StopOn(answer.why)
            /\ pc' = [pc EXCEPT ![t] = "collected"]
            /\ turn' = IF t \in Txns THEN None ELSE turn
            /\ told' = told
    /\ UNCHANGED <<pending, landed, snap, attempt, batch>>

-----------------------------------------------------------------------------
(* Faults                                                                  *)

Dropped(t) ==
    /\ told' = [told EXCEPT ![t] = "gone"]
    /\ turn' = IF turn = t THEN None ELSE turn

\* A task is dropped at an await other than its engine write: the turn and
\* the ticket it holds go with it, its staged batch stays.
Cancel(t) ==
    /\ "cancel" \in Faults
    /\ pc[t] \in {"queued", "holding", "derived", "woken", "parked", "draining", "drained"}
    /\ Dropped(t)
    /\ IF t \in Txns /\ pc[t] \in {"woken", "parked"}
       THEN DropTicket(t) ELSE UNCHANGED <<answers, gone>>
    /\ pc' = [pc EXCEPT ![t] = "done"]
    /\ UNCHANGED <<engine, queue, cut, lander, outcome, landed, stopped, snap, attempt, batch, result>>

\* A task is dropped, or panics, inside an engine write of its own batch:
\* the engine took it or it did not, and nothing is published.
CancelApply(t) ==
    /\ "cancel" \in Faults
    /\ pc[t] = "applying" /\ stopped = None
    /\ Dropped(t)
    /\ pc' = [pc EXCEPT ![t] = "done"]
    /\ AppliesUnheard(<<batch[t]>>)
    /\ UNCHANGED <<pending, landed, stopped, snap, attempt, batch, result>>

\* Mutant: the members of an abandoned landing are refused like the staged ones.
AbandonedRefused(u) == "conflict"

\* Landing's drop: nobody knows what became of a member in flight; a staged one
\* is refused.
Abandoned(u) == IF u \in {queue[i].txn : i \in 1..cut} THEN "unknown" ELSE "conflict"

\* A landing is dropped, or panics, part way: the engine took the group or it
\* did not.  Landing's drop records every member as unknown, refuses what was
\* staged and wakes every waiter; the lander's own ticket goes with it.
Abandon(t) ==
    /\ "cancel" \in Faults
    /\ pc[t] \in {"flushing", "flushed"}
    /\ IF pc[t] = "flushing" THEN AppliesUnheard(SubSeq(queue, 1, cut)) ELSE UNCHANGED engine
    /\ LET tickets == {queue[i].txn : i \in 1..Len(queue)}
       IN  /\ answers' = [u \in Tasks |->
                 IF u = t THEN None
                 ELSE IF u \in tickets \ gone THEN Abandoned(u) ELSE answers[u]]
           /\ gone' = gone \ tickets
    /\ queue' = <<>> /\ cut' = 0 /\ lander' = None /\ outcome' = NoOutcome
    /\ pc' = [u \in Tasks |-> IF u = t THEN "done"
                              ELSE IF pc[u] = "parked" THEN Awake(u) ELSE pc[u]]
    /\ Dropped(t)
    /\ UNCHANGED <<landed, stopped, snap, attempt, batch, result>>

\* The process ends and the store is opened again: what the engine holds
\* durably is what its log recovers, up to the first hole.
Reopen ==
    /\ "reopen" \in Faults
    /\ \E t \in Tasks : pc[t] \notin {"idle", "done"}
    /\ LET n == IF hole = None THEN Len(log) ELSE hole
       IN  /\ log' = SubSeq(log, 1, n)
           /\ version' = n
           /\ tail' = [h \in Homes |-> Cardinality({i \in 1..n : log[i].home = h})]
           /\ landed' = n
    /\ hole' = None
    /\ queue' = <<>> /\ cut' = 0 /\ lander' = None /\ outcome' = NoOutcome
    /\ answers' = [t \in Tasks |-> None] /\ gone' = {}
    /\ stopped' = None /\ turn' = None
    /\ pc' = [t \in Tasks |-> IF pc[t] = "idle" THEN "idle" ELSE "done"]
    /\ told' = [t \in Tasks |-> IF pc[t] \in {"idle", "done"} THEN told[t] ELSE "gone"]
    /\ UNCHANGED <<snap, attempt, batch, result>>

\* Every task has been answered; nothing is left to happen.
Finished ==
    /\ \A t \in Tasks : pc[t] = "done"
    /\ UNCHANGED vars

Step(t) ==
    \/ Begin(t) \/ GiveUp(t) \/ Hold(t) \/ Derive(t) \/ Conflicted(t) \/ Stage(t)
    \/ EnterLand(t) \/ Collect(t) \/ TakeGroup(t) \/ Park(t) \/ Flush(t) \/ Record(t)
    \/ Settle(t) \/ Drained(t) \/ Place(t) \/ Apply(t)

Next ==
    \/ \E t \in Tasks : Step(t) \/ Cancel(t) \/ CancelApply(t) \/ Abandon(t)
    \/ Reopen
    \/ Finished

Spec == Init /\ [][Next]_vars

\* Every task the runtime holds is polled again: no task stops at a step it can take.
FairSpec == Spec /\ \A t \in Tasks : WF_vars(Step(t))

-----------------------------------------------------------------------------
(* Properties                                                              *)

TypeOK ==
    /\ log \in Seq(Member) /\ version \in Nat /\ tail \in [Homes -> Nat]
    /\ hole \in Nat \cup {None}
    /\ queue \in Seq(Member) /\ cut \in Nat /\ lander \in Tasks \cup {None}
    /\ outcome \in Outcome
    /\ answers \in [Tasks -> Results \cup {None}] /\ gone \subseteq Tasks
    /\ landed \in Nat /\ stopped \in Stopping \cup {None} /\ turn \in Tasks \cup {None}
    /\ pc \in [Tasks -> Steps] /\ snap \in [Tasks -> Nat] /\ attempt \in [Tasks -> Nat]
    /\ batch \in [Tasks -> Member \cup {None}]
    /\ result \in [Tasks -> Results \cup {None}]
    /\ told \in [Tasks -> Replies \cup {None}]

\* The store's history has no gap and no fork: the version counts the batches
\* landed and each batch carries the version it landed at, however many landings
\* fail between a batch's staging and its own landing (settle.rs, log.rs).
DenseVersions == version = Len(log) /\ \A i \in 1..Len(log) : log[i].version = i

\* Each log's positions are dense in the order they landed, although a tail is
\* read from what is pending and the pending batch may fail before the one
\* derived on it is staged (committed_tail under the turn, log.rs's precondition).
DensePositions ==
    \A i \in 1..Len(log) :
        log[i].pos = Cardinality({j \in 1..i : log[j].home = log[i].home})

\* First committer wins: no transaction lands over a write to one of its records
\* that landed after its snapshot, although the check is made against writes
\* still pending and the batch lands outside the turn (check_for_conflicts).
FirstCommitterWins ==
    \A i, j \in 1..Len(log) :
        i < j /\ log[j].txn \in Txns /\ Overlap(log[i], log[j].txn) => i <= snap[log[j].txn]

\* Nothing is begun at a version the engine does not hold: the landed register
\* never passes the engine, through group failures and abandoned landings (landed.rs).
ReadableIsLanded ==
    landed <= version /\ \A t \in Tasks : pc[t] \notin {"idle", "done"} => snap[t] <= version

\* A commit is told it landed only once it is in the engine and readable by
\* whoever begins next (Pending::record publishes before it answers).
AckedIsReadable ==
    \A t \in Tasks : told[t] = "ok" =>
        \E i \in 1..Len(log) : log[i].txn = t /\ i <= landed

\* A refused commit never lands, now or later: a batch answered with the
\* retryable conflict (and not retried to success), busy or a gap is neither in
\* the engine nor still queued behind it (Pending::record's refuse_staged).
RefusalIsFinal ==
    \A t \in Tasks : told[t] \in Refusals =>
        /\ \A i \in 1..Len(log) : log[i].txn # t
        /\ \A i \in 1..Len(queue) : queue[i].txn # t

\* Dropped tickets leave nothing behind: a ticket remembered as gone is still
\* queued, and an answer kept has a task that will collect it (Ticket's drop).
NoTicketLeaks ==
    /\ \A t \in gone : \E i \in 1..Len(queue) : queue[i].txn = t
    /\ \A t \in Tasks : answers[t] # None =>
         pc[t] \in {"staged", "look", "woken", "parked", "flushing", "flushed"}

\* A batch lands on exactly the history its derivation read: what the turn's
\* holder saw pending either landed before it or took it along.
LandsOnWhatItRead ==
    \A i \in 1..Len(log) : log[i].on = WritersOf(SubSeq(log, 1, i - 1))

\* An acknowledged commit outlives the process: nothing acknowledged is lost
\* behind a write that could not be made durable (gate/fault_tests.rs).
AckedSurvivesReopen ==
    \A t \in Tasks : told[t] = "ok" => \E i \in 1..Len(log) : log[i].txn = t

\* A write refused because the store stopped did not land (gate/fault_tests.rs).
StoppedDidNotLand ==
    \A t \in Tasks : told[t] = "stopped" => \A i \in 1..Len(log) : log[i].txn # t

\* Every writer that asked for the turn is answered: no wake-up is lost, no
\* landing is left running for ever and no retry goes on for ever
\* (Pending::land, Pending::flush, MAX_COMMIT_ATTEMPTS).
EveryWriterAnswered ==
    \A t \in Tasks : (pc[t] = "queued") ~> (pc[t] = "done")

-----------------------------------------------------------------------------
(* The abstract specification the commit path implements.                  *)

\* What a caller learns from an answer.
Learns(answer) ==
    CASE answer = None -> None
      [] answer = "ok" -> "ok"
      [] answer \in Refusals -> "refused"
      [] answer = "noop" -> "refused"
      [] OTHER -> "unknown"

\* The gate seen from outside: the history is what the engine holds.
Promise == INSTANCE AtomicCommits WITH
    history <- WritersOf(log),
    snapshot <- [t \in Txns |-> IF pc[t] = "idle" THEN None ELSE snap[t]],
    reply <- [t \in Tasks |-> Learns(told[t])]

\* The staged, grouped, retried commit path implements one atomic commit after
\* another: no lost update, no double landing, no answer that later turns false,
\* and a snapshot that holds everything acknowledged before it.
ImplementsAtomicCommits == Promise!Spec
=============================================================================
